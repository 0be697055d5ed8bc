-------------------------- MODULE ProcessesProofs ---------------------------
(***************************************************************************)
(* Proofs about Processes for any number of process ids, messages, deaths  *)
(* and failures: the supervisor has one process for each application, every*)
(* message has one fate, and only a failing call makes device_control deaf.*)
(***************************************************************************)
EXTENDS Processes, QueueTheorems

-----------------------------------------------------------------------------
(* The supervisor *)

\* While the supervisor runs, an application has one process or waits for its fork,
\* and what it has can be counted.
SupervisorInv ==
  /\ SupervisorTypeOK
  /\ OneProcessEach
  /\ \A a \in Apps : IsFiniteSet(Processes(a))

\* All that happens to the processes.
SupervisorMoves ==
  \/ UNCHANGED emVars
  \/ Fork \/ ForkFails \/ Wait
  \/ \E p \in Pids : Exec(p) \/ ExecFails(p) \/ Exits(p)

LEMMA TwoApplications ==
  /\ Apps = {DC, PT} /\ DC # PT
  /\ user_app \in Seq(Apps)
  /\ \A a \in Apps : Times(a, user_app) = 1
<1>1. user_app = <<DC, PT>> /\ DC # PT
  BY ProcessesAssumption DEF DC, PT
<1>2. Apps = {DC, PT}
  BY <1>1 DEF Apps, Range
<1>3. user_app \in Seq(Apps) /\ user_app # <<>>
      /\ Head(user_app) = DC /\ Tail(user_app) = <<PT>>
  BY <1>1, <1>2
<1>4. ASSUME NEW a \in Apps PROVE Times(a, user_app) = 1
  <2>1. Times(a, user_app) = Times(a, <<PT>>) + (IF DC = a THEN 1 ELSE 0)
    BY <1>3, TimesTail
  <2> QED
    BY <1>1, <1>2, <2>1, TimesOne
<1> QED
  BY <1>1, <1>2, <1>3, <1>4

\* The actions of Supervisor are the only ones that change its state.
LEMMA OnlySupervisorMoves == [Next]_vars => SupervisorMoves
<1> SUFFICES ASSUME [Next]_vars PROVE SupervisorMoves
  OBVIOUS
<1> USE DEF SupervisorMoves
<1>1. CASE SupervisorStep
  BY <1>1 DEF SupervisorStep
<1>2. ASSUME NEW p \in Pids, Started(p) \/ NotStarted(p) PROVE SupervisorMoves
  BY <1>2 DEF Started, NotStarted
<1>3. ASSUME NEW a, Exit(a) PROVE SupervisorMoves
  BY <1>3 DEF Exit, Processes
<1>4. ASSUME NEW a, Ends(a) PROVE SupervisorMoves
  BY <1>3, <1>4 DEF Ends, ControlEnds, TestEnds
<1>5. ASSUME NEW a \in Apps, Crash(a) \/ ConfigFails(a) \/ UsesNoConnection(a)
      PROVE  SupervisorMoves
  BY <1>4, <1>5 DEF Crash, ConfigFails, UsesNoConnection
<1>6. CASE ConsumerStep \/ ConnectionStep
  BY <1>6 DEF ConsumerStep, ConnectionStep
<1>7. CASE Source
  BY <1>7 DEF Source, Call
<1>8. CASE Dispatch
  BY <1>3, <1>8 DEF Dispatch, ControlEnds
<1>9. ASSUME NEW e \in Messages, UnknownDevice(e) \/ Answer(e) PROVE SupervisorMoves
  BY <1>3, <1>9 DEF UnknownDevice, ControlEnds, Answer
<1>10. CASE ConnectTest \/ PublishTest \/ TestOver
  BY <1>3, <1>10 DEF ConnectTest, PublishTest, TestOver, TestEnds
<1>11. ASSUME NEW e \in Foreign, PublishForeign(e) PROVE SupervisorMoves
  BY <1>11 DEF PublishForeign
<1>12. CASE UNCHANGED vars
  BY <1>12 DEF vars
<1> QED
  BY <1>1, <1>2, <1>5, <1>6, <1>7, <1>8, <1>9, <1>10, <1>11, <1>12 DEF Next, Step

LEMMA SupervisorStarts == Init => SupervisorInv
<1> SUFFICES ASSUME Init PROVE SupervisorInv
  OBVIOUS
<1> USE DEF Init, SupervisorInit
<1>1. SupervisorTypeOK
  BY TwoApplications DEF SupervisorTypeOK, Range
<1>2. \A a \in Apps : Processes(a) = {}
  BY DEF Processes
<1>3. \A a \in Apps : IsFiniteSet(Processes(a)) /\ Cardinality(Processes(a)) = 0
  BY <1>2, FS_EmptySet
<1>4. \A a \in Apps : Cardinality(Processes(a)) + Times(a, to_fork) = 1
  BY <1>3, TwoApplications
<1>5. DOMAIN pid_list = {p \in Pids : child[p] # Nil}
  OBVIOUS
<1> QED
  BY <1>1, <1>3, <1>4, <1>5 DEF SupervisorInv, OneProcessEach

\* A process that changes its status is still of its application.
LEMMA StatusKept ==
  ASSUME SupervisorInv, NEW p \in Pids, Exec(p) \/ ExecFails(p) \/ Exits(p)
  PROVE  SupervisorInv'
<1> USE SupervisorAssumption DEF SupervisorInv, SupervisorTypeOK, Children
<1>1. PICK s \in {"running", "zombie"} : child' = [child EXCEPT ![p].status = s]
  BY DEF Exec, ExecFails, Exits
<1>2. child[p] # Nil /\ UNCHANGED <<em, to_fork, pid_list>>
  BY DEF Exec, ExecFails, Exits
<1>3. /\ child[p] \in [app : Apps, status : {"forked", "running", "zombie"}]
      /\ child'[p] = [app |-> child[p].app, status |-> s]
      /\ \A q \in Pids : q # p => child'[q] = child[q]
      /\ DOMAIN child' = Pids
  BY <1>1, <1>2
<1>4. child'[p] \in Children /\ child'[p] # Nil
  BY <1>3
<1>5. \A q \in Pids : (child'[q] # Nil <=> child[q] # Nil)
                      /\ (child[q] # Nil => child'[q].app = child[q].app)
  BY <1>2, <1>3, <1>4
<1>6. \A a \in Apps : Processes(a)' = Processes(a)
  BY <1>5 DEF Processes
<1>7. SupervisorTypeOK'
  BY <1>1, <1>2, <1>3
<1>8. OneProcessEach'
  BY <1>2, <1>5, <1>6 DEF OneProcessEach
<1> QED
  BY <1>6, <1>7, <1>8

LEMMA ForkKept == ASSUME SupervisorInv, Fork PROVE SupervisorInv'
<1> USE SupervisorAssumption DEF SupervisorInv, SupervisorTypeOK, Children
<1> DEFINE h == Head(to_fork)
<1>1. PICK p \in {q \in Pids : child[q] = Nil} :
        /\ child' = [child EXCEPT ![p] = [app |-> h, status |-> "forked"]]
        /\ pid_list' = [q \in DOMAIN pid_list \union {p} |-> IF q = p THEN h ELSE pid_list[q]]
  BY DEF Fork
<1>2. em = "run" /\ em' = em /\ to_fork # <<>> /\ to_fork' = Tail(to_fork)
  BY DEF Fork
<1>3. h \in Apps /\ Tail(to_fork) \in Seq(Apps)
  BY <1>2, DequeueElements
<1> HIDE DEF h
<1>4. /\ child'[p] = [app |-> h, status |-> "forked"]
      /\ child'[p] \in Children /\ child'[p] # Nil
      /\ \A q \in Pids : q # p => child'[q] = child[q]
  BY <1>1, <1>3
<1>5. DOMAIN pid_list = {q \in Pids : child[q] # Nil}
  BY <1>2 DEF OneProcessEach
<1>6. \A q \in DOMAIN pid_list : pid_list[q] \in Apps
  BY DEF Range
<1>7. SupervisorTypeOK'
  <2>1. child' \in [Pids -> {Nil} \union Children]
    BY <1>1, <1>4
  <2>2. DOMAIN pid_list' \subseteq Pids /\ Range(pid_list') \subseteq Apps
    BY <1>1, <1>3, <1>6 DEF Range
  <2> QED
    BY <1>2, <1>3, <2>1, <2>2
<1>8. DOMAIN pid_list' = {q \in Pids : child'[q] # Nil}
  BY <1>1, <1>4, <1>5
<1>9. \A q \in DOMAIN pid_list' : pid_list'[q] = child'[q].app
  BY <1>1, <1>2, <1>4 DEF OneProcessEach
<1>10. ASSUME NEW a \in Apps
       PROVE  /\ IsFiniteSet(Processes(a)')
              /\ Cardinality(Processes(a)') + Times(a, to_fork') = 1
  <2>1. Times(a, to_fork) = Times(a, to_fork') + (IF h = a THEN 1 ELSE 0)
    BY <1>2, TimesTail DEF h
  <2>2. Times(a, to_fork') \in Nat
    BY <1>2, <1>3, TimesType
  <2>3. /\ IsFiniteSet(Processes(a)) /\ Cardinality(Processes(a)) \in Nat
        /\ Cardinality(Processes(a)) + Times(a, to_fork) = 1
    BY <1>2, FS_CardinalityType DEF OneProcessEach
  <2>4. p \notin Processes(a)
    BY <1>1 DEF Processes
  <2>5. CASE h = a
    <3>1. Processes(a)' = Processes(a) \union {p}
      BY <1>1, <1>4, <2>5 DEF Processes
    <3>2. /\ IsFiniteSet(Processes(a) \union {p})
          /\ Cardinality(Processes(a) \union {p}) = Cardinality(Processes(a)) + 1
      BY <2>3, <2>4, FS_AddElement
    <3> QED
      BY <2>1, <2>2, <2>3, <2>5, <3>1, <3>2
  <2>6. CASE h # a
    <3>1. Processes(a)' = Processes(a)
      BY <1>1, <1>4, <2>6 DEF Processes
    <3> QED
      BY <2>1, <2>2, <2>3, <2>6, <3>1
  <2> QED
    BY <2>5, <2>6
<1> QED
  BY <1>7, <1>8, <1>9, <1>10 DEF OneProcessEach

LEMMA WaitKept == ASSUME SupervisorInv, Wait PROVE SupervisorInv'
<1> USE SupervisorAssumption DEF SupervisorInv, SupervisorTypeOK, Children
<1>1. PICK p \in Zombies :
        /\ to_fork' = <<IF p \in DOMAIN pid_list THEN pid_list[p] ELSE "">>
        /\ pid_list' = [q \in DOMAIN pid_list \ {p} |-> pid_list[q]]
        /\ child' = [child EXCEPT ![p] = Nil]
  BY DEF Wait
<1>2. em = "run" /\ em' = em /\ to_fork = <<>>
  BY DEF Wait
<1>3. p \in Pids /\ child[p] # Nil /\ child[p].app \in Apps
  BY <1>1 DEF Zombies
<1>4. /\ DOMAIN pid_list = {q \in Pids : child[q] # Nil}
      /\ \A q \in DOMAIN pid_list : pid_list[q] = child[q].app
  BY <1>2 DEF OneProcessEach
<1> DEFINE h == child[p].app
<1>5. to_fork' = <<h>> /\ to_fork' \in Seq(Apps)
  BY <1>1, <1>3, <1>4
<1>6. child'[p] = Nil /\ \A q \in Pids : q # p => child'[q] = child[q]
  BY <1>1, <1>3
<1> HIDE DEF h
<1>7. SupervisorTypeOK'
  <2>1. child' \in [Pids -> {Nil} \union Children]
    BY <1>1
  <2>2. DOMAIN pid_list' \subseteq Pids /\ Range(pid_list') \subseteq Apps
    BY <1>1 DEF Range
  <2> QED
    BY <1>2, <1>5, <2>1, <2>2
<1>8. /\ DOMAIN pid_list' = {q \in Pids : child'[q] # Nil}
      /\ \A q \in DOMAIN pid_list' : pid_list'[q] = child'[q].app
  BY <1>1, <1>4, <1>6
<1>9. ASSUME NEW a \in Apps
      PROVE  /\ IsFiniteSet(Processes(a)')
             /\ Cardinality(Processes(a)') + Times(a, to_fork') = 1
  <2>1. Times(a, to_fork') = IF h = a THEN 1 ELSE 0
    BY <1>5, TimesOne
  <2>2. /\ IsFiniteSet(Processes(a)) /\ Cardinality(Processes(a)) \in Nat
        /\ Cardinality(Processes(a)) = 1
    BY <1>2, TimesEmpty, FS_CardinalityType DEF OneProcessEach
  <2>3. CASE h = a
    <3>1. Processes(a)' = Processes(a) \ {p} /\ p \in Processes(a)
      BY <1>3, <1>6, <2>3 DEF Processes, h
    <3>2. /\ IsFiniteSet(Processes(a) \ {p})
          /\ Cardinality(Processes(a) \ {p}) = Cardinality(Processes(a)) - 1
      BY <2>2, <3>1, FS_RemoveElement
    <3> QED
      BY <2>1, <2>2, <2>3, <3>1, <3>2
  <2>4. CASE h # a
    <3>1. Processes(a)' = Processes(a)
      BY <1>3, <1>6, <2>4 DEF Processes, h
    <3> QED
      BY <2>1, <2>2, <2>4, <3>1
  <2> QED
    BY <2>3, <2>4
<1> QED
  BY <1>7, <1>8, <1>9 DEF OneProcessEach

LEMMA SupervisorStepKept == SupervisorInv /\ [Next]_vars => SupervisorInv'
<1> SUFFICES ASSUME SupervisorInv, [Next]_vars PROVE SupervisorInv'
  OBVIOUS
<1>1. CASE UNCHANGED emVars
  BY <1>1 DEF SupervisorInv, SupervisorTypeOK, OneProcessEach, Processes, emVars
<1>2. CASE ForkFails
  BY <1>2 DEF ForkFails, SupervisorInv, SupervisorTypeOK, OneProcessEach, Processes
<1> QED
  BY <1>1, <1>2, OnlySupervisorMoves, StatusKept, ForkKept, WaitKept DEF SupervisorMoves

LEMMA SupervisorAlways == Spec => []SupervisorInv
BY SupervisorStarts, SupervisorStepKept, PTL DEF Spec

\* For any ids the system hands out, and any number of deaths: each application has
\* one process or is about to get one, pid_list names exactly the processes.
THEOREM OneProcess == Spec => []OneProcessEach
BY SupervisorAlways, PTL DEF SupervisorInv

-----------------------------------------------------------------------------
(* Types *)

\* The type invariant but for what the supervisor has.
StateTypeOK ==
  /\ ClientTypeOK
  /\ stage \in [Apps -> Stages]
  /\ sent \in 0 .. Len(Script)
  /\ IsABag(tasks) /\ BagToSet(tasks) \subseteq Messages
  /\ IsABag(published) /\ BagToSet(published) \subseteq Messages
  /\ IsABag(fate) /\ BagToSet(fate) \subseteq Messages \X Outcomes
  /\ crashes \in Nat /\ tests \in Nat

\* The messages that meet fate o, as a bag.
LEMMA BagOfFate ==
  ASSUME NEW H, IsABag(H), NEW o
  PROVE  LET F == [x \in {<<e, o>> : e \in BagToSet(H)} |-> H[x[1]]]
         IN  /\ IsABag(F) /\ BagToSet(F) = {<<e, o>> : e \in BagToSet(H)}
             /\ \A e, p : Copies(<<e, p>>, F) = IF p = o THEN Copies(e, H) ELSE 0
<1> DEFINE D == {<<e, o>> : e \in BagToSet(H)}
           F == [x \in D |-> H[x[1]]]
<1>1. \A e \in BagToSet(H) : H[e] \in Nat /\ H[e] > 0
  BY DEF IsABag, BagToSet
<1>2. \A x \in D : F[x] \in Nat /\ F[x] > 0
  BY <1>1
<1>3. DOMAIN F = D /\ F = [x \in D |-> F[x]]
  OBVIOUS
<1>4. \A e \in BagToSet(H) : <<e, o>> \in D /\ F[<<e, o>>] = H[e]
  OBVIOUS
<1>5. \A e, p : <<e, p>> \in D <=> e \in BagToSet(H) /\ p = o
  OBVIOUS
<1> HIDE DEF F, D
<1>6. IsABag(F) /\ BagToSet(F) = D
  BY <1>2, <1>3 DEF IsABag, BagToSet
<1>7. ASSUME NEW e, NEW p
      PROVE  Copies(<<e, p>>, F) = IF p = o THEN Copies(e, H) ELSE 0
  <2>1. Copies(<<e, p>>, F) = IF <<e, p>> \in D THEN F[<<e, p>>] ELSE 0
    BY <1>3 DEF Copies, BagIn, BagToSet
  <2>2. Copies(e, H) = IF e \in BagToSet(H) THEN H[e] ELSE 0
    BY DEF Copies, BagIn
  <2>3. CASE <<e, p>> \in D
    <3>1. e \in BagToSet(H) /\ p = o
      BY <1>5, <2>3
    <3> QED
      BY <1>4, <2>1, <2>2, <2>3, <3>1
  <2>4. CASE <<e, p>> \notin D
    <3>1. ~(e \in BagToSet(H) /\ p = o)
      BY <1>5, <2>4
    <3> QED
      BY <2>1, <2>2, <2>4, <3>1
  <2> QED
    BY <2>3, <2>4
<1> QED
  BY <1>6, <1>7 DEF F, D

\* What nobody will take perishes.
LEMMA FatesOfPerish ==
  ASSUME NEW r \in Seq(Messages), NEW t, IsABag(t), BagToSet(t) \subseteq Messages
  PROVE  /\ IsABag(Perish(r, t)) /\ BagToSet(Perish(r, t)) \subseteq Messages \X Outcomes
         /\ \A e, o : Copies(<<e, o>>, Perish(r, t)) =
              IF o = "perished" THEN Copies(e, t) + Times(e, r) ELSE 0
<1> DEFINE R == [e \in ToSet(r) |-> Times(e, r)]
           H == t (+) R
           F == [x \in {<<e, "perished">> : e \in BagToSet(H)} |-> H[x[1]]]
<1>1. /\ IsABag(R) /\ BagToSet(R) \subseteq Messages
      /\ \A e : Copies(e, R) = Times(e, r)
  BY BagOfFifo
<1>2. Perish(r, t) = F
  BY DEF Perish
<1> HIDE DEF R
<1>3. /\ IsABag(H) /\ BagToSet(H) \subseteq Messages
      /\ \A e : Copies(e, H) = Copies(e, t) + Times(e, r)
  BY <1>1, BagSum
<1> HIDE DEF H
<1>4. /\ IsABag(F) /\ BagToSet(F) = {<<e, "perished">> : e \in BagToSet(H)}
      /\ \A e, o : Copies(<<e, o>>, F) = IF o = "perished" THEN Copies(e, H) ELSE 0
  BY <1>3, BagOfFate
<1> HIDE DEF F
<1>5. BagToSet(F) \subseteq Messages \X Outcomes
  BY <1>3, <1>4 DEF Outcomes
<1> QED
  BY <1>2, <1>3, <1>4, <1>5

\* Two bags of fates together.
LEMMA FatesTogether ==
  ASSUME NEW A, IsABag(A), BagToSet(A) \subseteq Messages \X Outcomes,
         NEW B, IsABag(B), BagToSet(B) \subseteq Messages \X Outcomes
  PROVE  /\ IsABag(A (+) B) /\ BagToSet(A (+) B) \subseteq Messages \X Outcomes
         /\ \A e, o : Copies(<<e, o>>, A (+) B) = Copies(<<e, o>>, A) + Copies(<<e, o>>, B)
<1>1. /\ IsABag(A (+) B) /\ BagToSet(A (+) B) = BagToSet(A) \union BagToSet(B)
      /\ \A x : Copies(x, A (+) B) = Copies(x, A) + Copies(x, B)
  BY BagSum
<1> QED
  BY <1>1

\* What the connection to the broker takes with it: n messages of its queue.
LEMMA LostInSocket ==
  ASSUME StateTypeOK, NEW n \in 0 .. Len(inqueue), SocketLost(n)
  PROVE  LET L == Perish(InSocket(n), EmptyBag)
         IN  /\ inqueue' \in Seq(Messages)
             /\ IsABag(L) /\ BagToSet(L) \subseteq Messages \X Outcomes
             /\ \A e : /\ Times(e, InSocket(n)) \in Nat
                       /\ Times(e, inqueue) = Times(e, InSocket(n)) + Times(e, inqueue')
             /\ \A e, o : Copies(<<e, o>>, L) =
                            IF o = "perished" THEN Times(e, InSocket(n)) ELSE 0
<1>1. inqueue \in Seq(Messages)
  BY DEF StateTypeOK, ClientTypeOK
<1>2. /\ InSocket(n) \in Seq(Messages) /\ inqueue' \in Seq(Messages)
      /\ \A e : Times(e, inqueue) = Times(e, InSocket(n)) + Times(e, inqueue')
  BY <1>1, TimesSplit DEF InSocket, SocketLost
<1>3. \A e : Times(e, InSocket(n)) \in Nat
  BY <1>2, TimesType
<1>4. IsABag(EmptyBag) /\ BagToSet(EmptyBag) = {} /\ \A e : Copies(e, EmptyBag) = 0
  BY BagOfSet DEF EmptyBag
<1> DEFINE L == Perish(InSocket(n), EmptyBag)
<1>5. /\ IsABag(L) /\ BagToSet(L) \subseteq Messages \X Outcomes
      /\ \A e, o : Copies(<<e, o>>, L) =
           IF o = "perished" THEN Copies(e, EmptyBag) + Times(e, InSocket(n)) ELSE 0
  BY <1>2, <1>4, FatesOfPerish
<1> HIDE DEF L
<1>6. ASSUME NEW e, NEW o
      PROVE  Copies(<<e, o>>, L) = IF o = "perished" THEN Times(e, InSocket(n)) ELSE 0
  <2>1. Copies(<<e, o>>, L) =
          IF o = "perished" THEN Copies(e, EmptyBag) + Times(e, InSocket(n)) ELSE 0
    BY <1>5
  <2>2. Copies(e, EmptyBag) = 0 /\ Times(e, InSocket(n)) \in Nat
    BY <1>3, <1>4
  <2> QED
    BY <2>1, <2>2
<1> QED
  BY <1>2, <1>3, <1>5, <1>6 DEF L

LEMMA NoMoreThanQueued == StateTypeOK => Prefetched \subseteq 0 .. Len(inqueue)
<1> SUFFICES ASSUME StateTypeOK PROVE Prefetched \subseteq 0 .. Len(inqueue)
  OBVIOUS
<1>1. Len(inqueue) \in Nat
  BY LenProperties DEF StateTypeOK, ClientTypeOK
<1> QED
  BY <1>1 DEF Prefetched

\* What becomes of the messages when device_control ends.
LEMMA FatesAtEnd ==
  ASSUME StateTypeOK, NEW r \in Seq(Messages), NEW t, IsABag(t), BagToSet(t) \subseteq Messages,
         NEW end, IsABag(end), BagToSet(end) \subseteq Messages \X Outcomes,
         ControlEnds(r, t, end)
  PROVE  /\ IsABag(fate') /\ BagToSet(fate') \subseteq Messages \X Outcomes
         /\ inqueue' \in Seq(Messages)
         /\ \E n \in 0 .. Len(inqueue) :
              /\ \A e : /\ Times(e, InSocket(n)) \in Nat
                        /\ Times(e, inqueue) = Times(e, InSocket(n)) + Times(e, inqueue')
              /\ \A e, o : Copies(<<e, o>>, fate') =
                   Copies(<<e, o>>, fate) + Copies(<<e, o>>, end)
                     + (IF o = "perished" THEN Copies(e, t) + Times(e, r) + Times(e, InSocket(n))
                        ELSE 0)
<1>1. PICK n \in 0 .. Len(inqueue) :
        /\ SocketLost(n)
        /\ fate' = fate (+) end (+) Perish(r, t) (+) Perish(InSocket(n), EmptyBag)
  BY NoMoreThanQueued DEF ControlEnds
<1> DEFINE P == Perish(r, t)
           L == Perish(InSocket(n), EmptyBag)
           G == fate (+) end
           M == G (+) P
<1>2. fate' = M (+) L
  BY <1>1
<1>3. /\ inqueue' \in Seq(Messages)
      /\ IsABag(L) /\ BagToSet(L) \subseteq Messages \X Outcomes
      /\ \A e : /\ Times(e, InSocket(n)) \in Nat
                /\ Times(e, inqueue) = Times(e, InSocket(n)) + Times(e, inqueue')
      /\ \A e, o : Copies(<<e, o>>, L) = IF o = "perished" THEN Times(e, InSocket(n)) ELSE 0
  BY <1>1, LostInSocket
<1>4. /\ IsABag(P) /\ BagToSet(P) \subseteq Messages \X Outcomes
      /\ \A e, o : Copies(<<e, o>>, P) = IF o = "perished" THEN Copies(e, t) + Times(e, r) ELSE 0
  BY FatesOfPerish
<1>5. IsABag(fate) /\ BagToSet(fate) \subseteq Messages \X Outcomes
  BY DEF StateTypeOK
<1> HIDE DEF P, L
<1>6. /\ IsABag(G) /\ BagToSet(G) \subseteq Messages \X Outcomes
      /\ \A e, o : Copies(<<e, o>>, G) = Copies(<<e, o>>, fate) + Copies(<<e, o>>, end)
  BY <1>5, FatesTogether
<1> HIDE DEF G
<1>7. /\ IsABag(M) /\ BagToSet(M) \subseteq Messages \X Outcomes
      /\ \A e, o : Copies(<<e, o>>, M) = Copies(<<e, o>>, G) + Copies(<<e, o>>, P)
  BY <1>4, <1>6, FatesTogether
<1> HIDE DEF M
<1>8. /\ IsABag(fate') /\ BagToSet(fate') \subseteq Messages \X Outcomes
      /\ \A e, o : Copies(<<e, o>>, fate') = Copies(<<e, o>>, M) + Copies(<<e, o>>, L)
  BY <1>2, <1>3, <1>7, FatesTogether
<1>9. ASSUME NEW e, NEW o
      PROVE  Copies(<<e, o>>, fate') =
               Copies(<<e, o>>, fate) + Copies(<<e, o>>, end)
                 + (IF o = "perished" THEN Copies(e, t) + Times(e, r) + Times(e, InSocket(n))
                    ELSE 0)
  <2>1. /\ Copies(e, t) \in Nat /\ Times(e, r) \in Nat /\ Times(e, InSocket(n)) \in Nat
        /\ Copies(<<e, o>>, fate) \in Nat /\ Copies(<<e, o>>, end) \in Nat
    BY <1>3, <1>5, BagSum, TimesType
  <2>2. Copies(<<e, o>>, fate') =
          Copies(<<e, o>>, fate) + Copies(<<e, o>>, end)
            + Copies(<<e, o>>, P) + Copies(<<e, o>>, L)
    BY <1>6, <1>7, <1>8
  <2> QED
    BY <1>3, <1>4, <2>1, <2>2
<1> QED
  BY <1>3, <1>8, <1>9

LEMMA StageNames ==
  /\ {"connect in", "connect out", "connect test"} \subseteq Stages
  /\ {"down", "main", "exchange in", "queue in", "listen in", "exchange out", "ready"}
       \subseteq Stages
<1>1. \A c \in Clients : Connected[c] \in Stages
  BY DEF Stages
<1>2. /\ Connected["in"] = "connect in" /\ Connected["out"] = "connect out"
      /\ Connected["test"] = "connect test"
  BY DEF Connected
<1> QED
  BY <1>1, <1>2 DEF Clients, Stages

LEMMA ControlEndTypes ==
  ASSUME StateTypeOK, NEW r \in Seq(Messages), NEW t, IsABag(t), BagToSet(t) \subseteq Messages,
         NEW end, IsABag(end), BagToSet(end) \subseteq Messages \X Outcomes,
         ControlEnds(r, t, end), ioErrs' \in 0 .. MaxIoErrs, crashes' \in Nat
  PROVE  StateTypeOK'
<1>1. /\ IsABag(fate') /\ BagToSet(fate') \subseteq Messages \X Outcomes
      /\ inqueue' \in Seq(Messages)
  BY FatesAtEnd
<1>2. /\ stage' \in [Apps -> Stages]
      /\ conn' \in [Clients -> {"none", "failed", "open"}]
  BY StageNames, TwoApplications DEF StateTypeOK, ClientTypeOK, ControlEnds, Exit, Clients
<1>3. IsABag(tasks') /\ BagToSet(tasks') \subseteq Messages
  BY BagOfSet DEF ControlEnds, EmptyBag
<1>4. r_store' \in Seq(Messages) /\ consumer' = "none"
  BY DEF ControlEnds
<1> QED
  BY <1>1, <1>2, <1>3, <1>4 DEF StateTypeOK, ClientTypeOK, ControlEnds

LEMMA EndTypes ==
  ASSUME StateTypeOK, NEW a \in Apps, Ends(a), ioErrs' \in 0 .. MaxIoErrs, crashes' \in Nat
  PROVE  StateTypeOK'
<1>1. CASE a = DC
  <2>1. ControlEnds(r_store, tasks, EmptyBag)
    BY <1>1 DEF Ends
  <2>2. IsABag(EmptyBag) /\ BagToSet(EmptyBag) \subseteq Messages \X Outcomes
    BY BagOfSet DEF EmptyBag
  <2> QED
    BY <2>1, <2>2, ControlEndTypes DEF StateTypeOK, ClientTypeOK
<1>2. CASE a # DC
  <2>1. TestEnds /\ UNCHANGED tests
    BY <1>2 DEF Ends
  <2>2. /\ stage' \in [Apps -> Stages]
        /\ conn' \in [Clients -> {"none", "failed", "open"}]
    BY <2>1, StageNames, TwoApplications
    DEF StateTypeOK, ClientTypeOK, TestEnds, Exit, Clients
  <2>3. sent' \in 0 .. Len(Script)
    <3>1. Len(Script) \in Nat /\ sent' = 0
      BY <2>1, LenProperties, ProcessesAssumption DEF TestEnds
    <3> QED
      BY <3>1
  <2> QED
    BY <2>1, <2>2, <2>3 DEF StateTypeOK, ClientTypeOK, TestEnds
<1> QED
  BY <1>1, <1>2

\* One message more, or one fate more, keeps the types.
LEMMA OneMore ==
  ASSUME StateTypeOK, NEW e \in Messages
  PROVE  /\ IsABag(tasks (+) SetToBag({e})) /\ BagToSet(tasks (+) SetToBag({e})) \subseteq Messages
         /\ IsABag(published (+) SetToBag({e}))
         /\ BagToSet(published (+) SetToBag({e})) \subseteq Messages
         /\ \A o \in Outcomes :
              LET x == <<e, o>> IN
              /\ IsABag(SetToBag({x})) /\ BagToSet(SetToBag({x})) \subseteq Messages \X Outcomes
              /\ IsABag(fate (+) SetToBag({x}))
              /\ BagToSet(fate (+) SetToBag({x})) \subseteq Messages \X Outcomes
<1>1. /\ IsABag(tasks) /\ BagToSet(tasks) \subseteq Messages
      /\ IsABag(published) /\ BagToSet(published) \subseteq Messages
      /\ IsABag(fate) /\ BagToSet(fate) \subseteq Messages \X Outcomes
  BY DEF StateTypeOK
<1>2. /\ IsABag(tasks (+) SetToBag({e})) /\ BagToSet(tasks (+) SetToBag({e})) \subseteq Messages
      /\ IsABag(published (+) SetToBag({e}))
      /\ BagToSet(published (+) SetToBag({e})) \subseteq Messages
  BY <1>1, BagMore
<1>3. ASSUME NEW x \in Messages \X Outcomes
      PROVE  /\ IsABag(SetToBag({x})) /\ BagToSet(SetToBag({x})) \subseteq Messages \X Outcomes
             /\ IsABag(fate (+) SetToBag({x}))
             /\ BagToSet(fate (+) SetToBag({x})) \subseteq Messages \X Outcomes
  BY <1>1, BagMore
<1> QED
  BY <1>2, <1>3

LEMMA DispatchTypes == ASSUME StateTypeOK, Dispatch PROVE StateTypeOK'
<1> DEFINE e == Head(r_store)
<1>1. r_store \in Seq(Messages) /\ e \in Messages /\ Tail(r_store) \in Seq(Messages)
  BY DequeueElements DEF Dispatch, StateTypeOK, ClientTypeOK
<1>2. CASE ControlEnds(Tail(r_store), tasks, SetToBag({<<e, "killed">>}))
  <2>1. /\ IsABag(SetToBag({<<e, "killed">>}))
        /\ BagToSet(SetToBag({<<e, "killed">>})) \subseteq Messages \X Outcomes
    BY <1>1, OneMore DEF Outcomes
  <2>3. ioErrs' \in 0 .. MaxIoErrs /\ crashes' \in Nat
    BY DEF Dispatch, StateTypeOK, ClientTypeOK
  <2> QED
    BY <1>1, <1>2, <2>1, <2>3, ControlEndTypes DEF StateTypeOK
<1>3. CASE ~ControlEnds(Tail(r_store), tasks, SetToBag({<<e, "killed">>}))
  <2>1. \/ fate' = fate (+) SetToBag({<<e, "dropped">>}) /\ UNCHANGED tasks
        \/ tasks' = tasks (+) SetToBag({e}) /\ UNCHANGED fate
    BY <1>3 DEF Dispatch
  <2>2. /\ r_store' = Tail(r_store)
        /\ UNCHANGED <<emVars, conn, declared, inqueue, consumer, stage, sent, published, tests,
                       ioErrs, crashes>>
    BY <1>3 DEF Dispatch
  <2>3. /\ IsABag(tasks') /\ BagToSet(tasks') \subseteq Messages
        /\ IsABag(fate') /\ BagToSet(fate') \subseteq Messages \X Outcomes
    BY <1>1, <2>1, OneMore DEF StateTypeOK, Outcomes
  <2> QED
    BY <1>1, <2>2, <2>3 DEF StateTypeOK, ClientTypeOK
<1> QED
  BY <1>2, <1>3

LEMMA TaskTypes ==
  ASSUME StateTypeOK, NEW e \in Messages, UnknownDevice(e) \/ Answer(e)
  PROVE  StateTypeOK'
<1> DEFINE t == tasks (-) SetToBag({e})
<1>1. BagIn(e, tasks)
  BY DEF UnknownDevice, Answer
<1>2. IsABag(t) /\ BagToSet(t) \subseteq Messages
  BY <1>1, BagLess DEF StateTypeOK
<1>3. CASE UnknownDevice(e)
  <2>1. /\ ControlEnds(r_store, t, SetToBag({<<e, "killed">>}))
        /\ ioErrs' \in 0 .. MaxIoErrs /\ crashes' \in Nat
    BY <1>3 DEF UnknownDevice, StateTypeOK, ClientTypeOK
  <2>2. /\ IsABag(SetToBag({<<e, "killed">>}))
        /\ BagToSet(SetToBag({<<e, "killed">>})) \subseteq Messages \X Outcomes
    BY OneMore DEF Outcomes
  <2> HIDE DEF t
  <2> QED
    BY <1>2, <2>1, <2>2, ControlEndTypes DEF StateTypeOK, ClientTypeOK
<1>4. CASE Answer(e)
  <2>1. \/ fate' = fate (+) SetToBag({<<e, "answered">>})
        \/ fate' = fate (+) SetToBag({<<e, "unanswered">>})
    BY <1>4 DEF Answer, Publish
  <2>2. IsABag(fate') /\ BagToSet(fate') \subseteq Messages \X Outcomes
    BY <2>1, OneMore DEF Outcomes
  <2>3. /\ tasks' = t
        /\ UNCHANGED <<inqueue, stage, sent, published, crashes, tests, declared, consumer, r_store>>
    BY <1>4 DEF Answer, Publish
  <2>4. conn' \in [Clients -> {"none", "failed", "open"}] /\ ioErrs' \in 0 .. MaxIoErrs
    BY <1>4, RabbitMqClientAssumption
    DEF Answer, Publish, IoError, StateTypeOK, ClientTypeOK, Clients
  <2> HIDE DEF t
  <2> QED
    BY <1>2, <2>2, <2>3, <2>4 DEF StateTypeOK, ClientTypeOK
<1> QED
  BY <1>3, <1>4

LEMMA PublishTypes ==
  ASSUME StateTypeOK, PublishTest \/ \E e \in Foreign : PublishForeign(e)
  PROVE  StateTypeOK'
<1>1. ASSUME NEW e \in Messages, published' = published (+) SetToBag({e}),
             \/ inqueue' = Append(inqueue, e) /\ UNCHANGED fate
             \/ fate' = fate (+) SetToBag({<<e, "unrouted">>}) /\ UNCHANGED inqueue
      PROVE  /\ IsABag(published') /\ BagToSet(published') \subseteq Messages
             /\ IsABag(fate') /\ BagToSet(fate') \subseteq Messages \X Outcomes
             /\ inqueue' \in Seq(Messages)
  <2>1. inqueue \in Seq(Messages) /\ IsABag(fate) /\ BagToSet(fate) \subseteq Messages \X Outcomes
    BY DEF StateTypeOK, ClientTypeOK
  <2>2. Append(inqueue, e) \in Seq(Messages)
    BY <2>1, AppendProperties
  <2>3. /\ IsABag(published (+) SetToBag({e}))
        /\ BagToSet(published (+) SetToBag({e})) \subseteq Messages
        /\ IsABag(fate (+) SetToBag({<<e, "unrouted">>}))
        /\ BagToSet(fate (+) SetToBag({<<e, "unrouted">>})) \subseteq Messages \X Outcomes
    BY OneMore DEF Outcomes
  <2>4. \/ inqueue' = Append(inqueue, e) /\ fate' = fate
        \/ fate' = fate (+) SetToBag({<<e, "unrouted">>}) /\ inqueue' = inqueue
    BY <1>1
  <2> QED
    BY <1>1, <2>1, <2>2, <2>3, <2>4
<1>2. CASE PublishTest
  <2> DEFINE e == Script[sent + 1]
  <2>1. sent < Len(Script) /\ sent' = sent + 1 /\ Len(Script) \in Nat /\ sent \in Nat
    <3>1. Len(Script) \in Nat
      BY ProcessesAssumption, LenProperties
    <3>2. sent \in 0 .. Len(Script)
      BY DEF StateTypeOK
    <3>3. sent < Len(Script) /\ sent' = sent + 1
      BY <1>2 DEF PublishTest
    <3> QED
      BY <3>1, <3>2, <3>3
  <2>2. e \in Messages /\ sent' \in 0 .. Len(Script)
    BY <2>1, ProcessesAssumption, ElementOfSeq
  <2>3. /\ published' = published (+) SetToBag({e})
        /\ \/ inqueue' = Append(inqueue, e) /\ UNCHANGED fate
           \/ fate' = fate (+) SetToBag({<<e, "unrouted">>}) /\ UNCHANGED inqueue
    BY <1>2 DEF PublishTest, Publish
  <2>4. UNCHANGED <<stage, tasks, crashes, tests, declared, consumer, r_store>>
    BY <1>2 DEF PublishTest, Publish
  <2>5. /\ conn' \in {conn, [conn EXCEPT !["test"] = "failed"]}
        /\ UNCHANGED ioErrs \/ IoError
    BY <1>2 DEF PublishTest, Publish
  <2>6. conn' \in [Clients -> {"none", "failed", "open"}] /\ ioErrs' \in 0 .. MaxIoErrs
    BY <2>5, RabbitMqClientAssumption DEF IoError, StateTypeOK, ClientTypeOK, Clients
  <2> HIDE DEF e
  <2> QED
    BY <1>1, <2>2, <2>3, <2>4, <2>6 DEF StateTypeOK, ClientTypeOK
<1>3. ASSUME NEW e \in Foreign, PublishForeign(e) PROVE StateTypeOK'
  <2>1. e \in Messages
    BY ProcessesAssumption
  <2>2. /\ published' = published (+) SetToBag({e})
        /\ \/ inqueue' = Append(inqueue, e) /\ UNCHANGED fate
           \/ fate' = fate (+) SetToBag({<<e, "unrouted">>}) /\ UNCHANGED inqueue
    BY <1>3 DEF PublishForeign
  <2>3. UNCHANGED <<conn, declared, consumer, r_store, ioErrs, stage, sent, tasks, crashes, tests>>
    BY <1>3 DEF PublishForeign
  <2> QED
    BY <1>1, <2>1, <2>2, <2>3 DEF StateTypeOK, ClientTypeOK
<1> QED
  BY <1>2, <1>3

\* The calls to the broker that carry no message.
LEMMA CallTypes ==
  ASSUME StateTypeOK,
         \/ Source \/ ConsumerStep \/ ConnectionStep \/ ConnectTest
         \/ SupervisorStep \/ \E p \in Pids : Started(p) \/ NotStarted(p)
  PROVE  StateTypeOK'
<1> USE RabbitMqClientAssumption DEF StateTypeOK, ClientTypeOK
<1>1. ASSUME NEW c \in Clients, Connect(c) PROVE ClientTypeOK'
  BY <1>1 DEF Connect, IoError
<1>2. ASSUME NEW c \in Clients, NEW from, NEW to \in {"exchange", "bound"}, Declare(c, from, to)
      PROVE  ClientTypeOK'
  BY <1>2 DEF Declare
<1>3. ASSUME ConsumeListen PROVE ClientTypeOK'
  BY <1>3 DEF ConsumeListen
<1>4. CASE Source
  <2>1. PICK to \in Stages : stage' = [stage EXCEPT ![DC] = to]
    BY <1>4, StageNames DEF Source, Call
  <2>2. stage' \in [Apps -> Stages]
    BY <2>1
  <2>3. UNCHANGED <<sent, tasks, published, fate, crashes, tests>>
    BY <1>4 DEF Source, Call
  <2>4. ClientTypeOK'
    BY <1>1, <1>2, <1>3, <1>4 DEF Source, Call, Clients
  <2> QED
    BY <2>2, <2>3, <2>4
<1>5. CASE ConsumerStep
  <2>1. CASE BasicConsume
    BY <1>5, <2>1 DEF ConsumerStep, BasicConsume, IoError
  <2>2. CASE Deliver
    <3>1. Head(inqueue) \in Messages /\ Tail(inqueue) \in Seq(Messages)
      BY <2>2, DequeueElements DEF Deliver
    <3> QED
      BY <1>5, <2>2, <3>1, AppendProperties DEF ConsumerStep, Deliver
  <2> QED
    BY <1>5, <2>1, <2>2 DEF ConsumerStep
<1>6. CASE ConnectionStep
  <2>1. PICK c \in Clients, n \in 0 .. Len(inqueue) :
          ConnectionLost(c, n) /\ fate' = fate (+) Perish(InSocket(n), EmptyBag)
    BY <1>6 DEF ConnectionStep
  <2> DEFINE L == Perish(InSocket(n), EmptyBag)
  <2>2. inqueue' \in Seq(Messages) /\ IsABag(L) /\ BagToSet(L) \subseteq Messages \X Outcomes
    BY <2>1, LostInSocket DEF ConnectionLost
  <2>3. IsABag(fate') /\ BagToSet(fate') \subseteq Messages \X Outcomes
    BY <2>1, <2>2, FatesTogether DEF StateTypeOK
  <2>4. /\ conn' \in [Clients -> {"none", "failed", "open"}] /\ ioErrs' \in 0 .. MaxIoErrs
        /\ consumer' \in {"none", "started", "consuming", "ended"}
        /\ UNCHANGED <<declared, r_store>>
    BY <2>1 DEF ConnectionLost, IoError
  <2>5. UNCHANGED <<stage, sent, tasks, published, crashes, tests>>
    BY <1>6 DEF ConnectionStep
  <2> QED
    BY <2>2, <2>3, <2>4, <2>5
<1>7. CASE ConnectTest
  <2>1. ClientTypeOK'
    BY <1>1, <1>7 DEF ConnectTest, Clients
  <2> QED
    BY <1>7, <2>1, StageNames DEF ConnectTest
<1>8. CASE SupervisorStep
  BY <1>8 DEF SupervisorStep, clientVars
<1>9. ASSUME NEW p \in Pids, Started(p) PROVE StateTypeOK'
  BY <1>9, StageNames DEF Started, clientVars
<1>10. ASSUME NEW p \in Pids, NotStarted(p) PROVE StateTypeOK'
  BY <1>10 DEF NotStarted, IoError
<1> QED
  BY <1>4, <1>5, <1>6, <1>7, <1>8, <1>9, <1>10

LEMMA TypesKept == StateTypeOK /\ [Next]_vars => StateTypeOK'
<1> SUFFICES ASSUME StateTypeOK, [Next]_vars PROVE StateTypeOK'
  OBVIOUS
<1>1. ASSUME NEW a \in Apps, Crash(a) \/ ConfigFails(a) \/ UsesNoConnection(a)
      PROVE  StateTypeOK'
  <2>1. Ends(a) /\ ioErrs' \in 0 .. MaxIoErrs /\ crashes' \in Nat
    BY <1>1, RabbitMqClientAssumption
    DEF Crash, ConfigFails, UsesNoConnection, IoError, StateTypeOK, ClientTypeOK
  <2> QED
    BY <2>1, EndTypes
<1>2. CASE TestOver
  <2>1. /\ stage' \in [Apps -> Stages]
        /\ conn' \in [Clients -> {"none", "failed", "open"}]
    BY <1>2, StageNames, TwoApplications
    DEF StateTypeOK, ClientTypeOK, TestOver, TestEnds, Exit, Clients
  <2>2. sent' \in 0 .. Len(Script) /\ tests' \in Nat
    <3>1. Len(Script) \in Nat /\ sent' = 0 /\ tests' = tests + 1
      BY <1>2, LenProperties, ProcessesAssumption DEF TestOver, TestEnds
    <3> QED
      BY <3>1 DEF StateTypeOK
  <2> QED
    BY <1>2, <2>1, <2>2 DEF StateTypeOK, ClientTypeOK, TestOver, TestEnds
<1>3. CASE UNCHANGED vars
  BY <1>3 DEF vars, clientVars, StateTypeOK, ClientTypeOK
<1> QED
  BY <1>1, <1>2, <1>3, DispatchTypes, TaskTypes, PublishTypes, CallTypes DEF Next, Step

LEMMA TypesAlways == Spec => []StateTypeOK
<1>1. Init => StateTypeOK
  <2> SUFFICES ASSUME Init PROVE StateTypeOK
    OBVIOUS
  <2>1. IsABag(EmptyBag) /\ BagToSet(EmptyBag) = {}
    BY BagOfSet DEF EmptyBag
  <2>2. Len(Script) \in Nat
    BY LenProperties, ProcessesAssumption
  <2>3. ClientTypeOK
    BY RabbitMqClientAssumption DEF Init, ClientInit, ClientTypeOK
  <2>4. stage \in [Apps -> Stages]
    BY StageNames DEF Init
  <2> QED
    BY <2>1, <2>2, <2>3, <2>4 DEF Init, StateTypeOK
<1> QED
  BY <1>1, TypesKept, PTL DEF Spec

\* Types, for any number of ids, messages and restarts.
THEOREM TypeCorrect == Spec => []TypeOK
<1>1. Init => WithinBounds
  BY ProcessesAssumption DEF Init, ClientInit, WithinBounds
<1>2. WithinBounds /\ [Next]_vars => WithinBounds'
  BY DEF WithinBounds, Next, vars, clientVars
<1>3. SupervisorInv /\ StateTypeOK /\ WithinBounds => TypeOK
  BY DEF SupervisorInv, StateTypeOK, TypeOK
<1> QED
  BY <1>1, <1>2, <1>3, SupervisorAlways, TypesAlways, PTL DEF Spec

-----------------------------------------------------------------------------
(* Who hears *)

\* Without a failure, each call of the constructor of Source has had its effect when
\* the next one begins, and the consumer thread has what it needs when it starts.
Hearing ==
  ioErrs = 0 =>
    /\ stage[DC] \notin {"down", "main"} => conn["in"] = "open"
    /\ stage[DC] \notin {"down", "main", "connect in"} => declared["IN"] # "nothing"
    /\ stage[DC] \notin {"down", "main", "connect in", "exchange in"} => declared["IN"] = "bound"
    /\ consumer # "ended"
    /\ consumer # "none" => conn["in"] = "open" /\ declared["IN"] = "bound"

LEMMA HearingKept == StateTypeOK /\ Hearing /\ [Next]_vars => Hearing'
<1> SUFFICES ASSUME StateTypeOK, Hearing, [Next]_vars PROVE Hearing'
  OBVIOUS
<1> USE RabbitMqClientAssumption
<1>1. /\ DC \in Apps /\ PT \in Apps /\ DC # PT
      /\ stage \in [Apps -> Stages] /\ conn \in [Clients -> {"none", "failed", "open"}]
      /\ declared \in [Names -> {"nothing", "exchange", "bound"}]
      /\ consumer \in {"none", "started", "consuming", "ended"}
      /\ ioErrs \in Nat
  BY TwoApplications DEF StateTypeOK, ClientTypeOK
<1>2. ASSUME IoError PROVE ioErrs' # 0
  BY <1>1, <1>2 DEF IoError
\* device_control ends: nothing is claimed of the next life.
<1>3. ASSUME NEW r, NEW t, NEW end, ControlEnds(r, t, end) PROVE Hearing'
  BY <1>1, <1>3 DEF ControlEnds, Exit, Hearing, Clients
<1>4. ASSUME TestEnds, ioErrs' = 0 => ioErrs = 0 PROVE Hearing'
  <2>1. /\ stage'[DC] = stage[DC] /\ conn'["in"] = conn["in"]
        /\ UNCHANGED <<declared, consumer>>
    BY <1>1, <1>4 DEF TestEnds, Exit, Clients
  <2> QED
    BY <1>4, <2>1 DEF Hearing
<1>5. ASSUME NEW a \in Apps, Crash(a) \/ ConfigFails(a) \/ UsesNoConnection(a)
      PROVE  Hearing'
  <2>1. Ends(a) /\ (ioErrs' = 0 => ioErrs = 0)
    BY <1>2, <1>5 DEF Crash, ConfigFails, UsesNoConnection
  <2> QED
    BY <1>3, <1>4, <2>1 DEF Ends
\* Nothing that Hearing speaks of changes.
<1>6. ASSUME /\ stage'[DC] = stage[DC] /\ conn'["in"] = conn["in"]
             /\ UNCHANGED <<declared, consumer>>
             /\ ioErrs' = 0 => ioErrs = 0
      PROVE  Hearing'
  BY <1>6 DEF Hearing
<1>7. CASE SupervisorStep
  BY <1>6, <1>7 DEF SupervisorStep, clientVars
<1>8. ASSUME NEW p \in Pids, Started(p) PROVE Hearing'
  BY <1>1, <1>8 DEF Started, clientVars, Hearing
<1>9. ASSUME NEW p \in Pids, NotStarted(p) PROVE Hearing'
  BY <1>2, <1>6, <1>9 DEF NotStarted
<1>10. CASE ConsumerStep
  <2>1. CASE BasicConsume
    BY <1>1, <1>2, <1>10, <2>1 DEF ConsumerStep, BasicConsume, Hearing, Clients
  <2>2. CASE Deliver
    BY <1>6, <1>10, <2>2 DEF ConsumerStep, Deliver
  <2> QED
    BY <1>10, <2>1, <2>2 DEF ConsumerStep
<1>11. CASE ConnectionStep
  BY <1>2, <1>11 DEF ConnectionStep, ConnectionLost, Hearing
<1>12. CASE Source
  <2>1. CASE Call("main", "connect in", Connect("in"))
    BY <1>1, <1>2, <2>1 DEF Call, Connect, Hearing, Clients
  <2>2. CASE Call("connect in", "exchange in", Declare("in", "nothing", "exchange"))
    BY <1>1, <2>2 DEF Call, Declare, Hearing, NameOf, Names
  <2>3. CASE Call("exchange in", "queue in", Declare("in", "exchange", "bound"))
    BY <1>1, <2>3 DEF Call, Declare, Hearing, NameOf, Names
  <2>4. CASE Call("queue in", "listen in", ConsumeListen)
    BY <1>1, <2>4 DEF Call, ConsumeListen, Hearing
  <2>5. CASE Call("listen in", "connect out", Connect("out"))
    BY <1>1, <1>2, <2>5 DEF Call, Connect, Hearing, Clients
  <2>6. CASE Call("connect out", "exchange out", Declare("out", "nothing", "exchange"))
    BY <1>1, <2>6 DEF Call, Declare, Hearing, NameOf, Names
  <2>7. CASE Call("exchange out", "ready", Declare("out", "exchange", "bound"))
    BY <1>1, <2>7 DEF Call, Declare, Hearing, NameOf, Names
  <2> QED
    BY <1>12, <2>1, <2>2, <2>3, <2>4, <2>5, <2>6, <2>7 DEF Source
<1>13. CASE Dispatch
  BY <1>3, <1>6, <1>13 DEF Dispatch
<1>14. ASSUME NEW e \in Messages, UnknownDevice(e) PROVE Hearing'
  BY <1>3, <1>14 DEF UnknownDevice
<1>15. ASSUME NEW e \in Messages, Answer(e) PROVE Hearing'
  <2>1. conn'["in"] = conn["in"] /\ (ioErrs' = 0 => ioErrs = 0)
    BY <1>1, <1>2, <1>15 DEF Answer, Publish, Clients
  <2> QED
    BY <1>6, <1>15, <2>1 DEF Answer, Publish
<1>16. CASE ConnectTest
  <2>1. conn'["in"] = conn["in"] /\ stage'[DC] = stage[DC] /\ (ioErrs' = 0 => ioErrs = 0)
    BY <1>1, <1>2, <1>16 DEF ConnectTest, Connect, Clients
  <2> QED
    BY <1>6, <1>16, <2>1 DEF ConnectTest, Connect
<1>17. CASE PublishTest
  <2>1. conn'["in"] = conn["in"] /\ (ioErrs' = 0 => ioErrs = 0)
    BY <1>1, <1>2, <1>17 DEF PublishTest, Publish, Clients
  <2> QED
    BY <1>6, <1>17, <2>1 DEF PublishTest, Publish
<1>18. CASE TestOver
  BY <1>4, <1>18 DEF TestOver
<1>19. ASSUME NEW e \in Foreign, PublishForeign(e) PROVE Hearing'
  BY <1>6, <1>19 DEF PublishForeign
<1>20. CASE UNCHANGED vars
  BY <1>6, <1>20 DEF vars, clientVars
<1> QED
  BY <1>5, <1>7, <1>8, <1>9, <1>10, <1>11, <1>12, <1>13, <1>14, <1>15, <1>16, <1>17, <1>18,
     <1>19, <1>20 DEF Next, Step

\* However often the processes die and start again, device_control is deaf only
\* after a call has failed: the consumer thread, started in the middle of the
\* constructor, finds its queue.
THEOREM DeafByFailure == Spec => []DeafOnlyAfterFailure
<1>1. Init => Hearing
  BY TwoApplications DEF Init, ClientInit, Hearing
<1>2. StateTypeOK /\ Hearing => DeafOnlyAfterFailure
  BY DEF StateTypeOK, ClientTypeOK, Hearing, DeafOnlyAfterFailure, Deaf
<1> QED
  BY <1>1, <1>2, HearingKept, TypesAlways, PTL DEF Spec

-----------------------------------------------------------------------------
(* The fates of the messages *)

Fates(e) ==
  Met(e, "answered") + Met(e, "unanswered") + Met(e, "dropped")
    + Met(e, "killed") + Met(e, "perished") + Met(e, "unrouted")

Held(e) == Times(e, inqueue) + Times(e, r_store) + Copies(e, tasks)

\* All the counts are numbers.
LEMMA Counts ==
  ASSUME StateTypeOK, NEW e
  PROVE  /\ Times(e, inqueue) \in Nat /\ Times(e, r_store) \in Nat
         /\ Copies(e, tasks) \in Nat /\ Copies(e, published) \in Nat
         /\ \A o : Met(e, o) \in Nat
<1>1. /\ inqueue \in Seq(Messages) /\ r_store \in Seq(Messages)
      /\ IsABag(tasks) /\ IsABag(published) /\ IsABag(fate)
  BY DEF StateTypeOK, ClientTypeOK
<1>2. Times(e, inqueue) \in Nat /\ Times(e, r_store) \in Nat
  BY <1>1, TimesType
<1>3. \A x, B : IsABag(B) => Copies(x, B) \in Nat
  BY BagSum
<1> QED
  BY <1>1, <1>2, <1>3 DEF Met

\* A task, a publication, a fate more.
LEMMA CopyMore ==
  ASSUME StateTypeOK, NEW m \in Messages, NEW e
  PROVE  /\ Copies(e, tasks (+) SetToBag({m})) = Copies(e, tasks) + (IF e = m THEN 1 ELSE 0)
         /\ Copies(e, published (+) SetToBag({m})) =
              Copies(e, published) + (IF e = m THEN 1 ELSE 0)
<1>1. IsABag(tasks) /\ IsABag(published)
  BY DEF StateTypeOK
<1>2. IsABag(SetToBag({m})) /\ Copies(e, SetToBag({m})) = IF e = m THEN 1 ELSE 0
  BY BagOfSet
<1> QED
  BY <1>1, <1>2, BagSum

LEMMA FateMore ==
  ASSUME StateTypeOK, NEW m \in Messages, NEW f \in Outcomes,
         fate' = fate (+) SetToBag({<<m, f>>}), NEW e, NEW o
  PROVE  Met(e, o)' = Met(e, o) + (IF e = m /\ o = f THEN 1 ELSE 0)
<1>1. <<m, f>> \in Messages \X Outcomes /\ IsABag(fate) /\ BagToSet(fate) \subseteq Messages \X Outcomes
  BY DEF StateTypeOK
<1>2. ASSUME NEW x \in Messages \X Outcomes, NEW y
      PROVE  Copies(y, fate (+) SetToBag({x})) = Copies(y, fate) + (IF y = x THEN 1 ELSE 0)
  <2>1. IsABag(SetToBag({x})) /\ Copies(y, SetToBag({x})) = IF y = x THEN 1 ELSE 0
    BY BagOfSet
  <2> QED
    BY <1>1, <2>1, BagSum
<1>3. Copies(<<e, o>>, fate') = Copies(<<e, o>>, fate) + (IF <<e, o>> = <<m, f>> THEN 1 ELSE 0)
  BY <1>1, <1>2
<1> QED
  BY <1>3 DEF Met

\* What was published of message e is somewhere, or has met a fate.
Balance(e) == Copies(e, published) = Held(e) + Fates(e)

LEMMA FatesGrow ==
  ASSUME StateTypeOK, NEW e, NEW d \in Nat, NEW n \in Nat,
         Met(e, "answered")' = Met(e, "answered"), Met(e, "unanswered")' = Met(e, "unanswered"),
         Met(e, "dropped")' = Met(e, "dropped"), Met(e, "unrouted")' = Met(e, "unrouted"),
         Met(e, "killed")' = Met(e, "killed") + d,
         Met(e, "perished")' = Met(e, "perished") + n
  PROVE  Fates(e)' = Fates(e) + n + d /\ Fates(e) \in Nat
<1>1. /\ Met(e, "answered") \in Nat /\ Met(e, "unanswered") \in Nat
      /\ Met(e, "dropped") \in Nat /\ Met(e, "killed") \in Nat
      /\ Met(e, "perished") \in Nat /\ Met(e, "unrouted") \in Nat
  BY Counts
<1> QED
  BY <1>1 DEF Fates

\* device_control ends, and d of the messages e, of which it dies, with it.
LEMMA BalanceOfEnd ==
  ASSUME StateTypeOK, NEW e, Balance(e), UNCHANGED published,
         NEW r \in Seq(Messages), NEW t, IsABag(t), BagToSet(t) \subseteq Messages,
         NEW end, IsABag(end), BagToSet(end) \subseteq Messages \X Outcomes,
         ControlEnds(r, t, end), NEW d \in Nat,
         \A o : Copies(<<e, o>>, end) = IF o = "killed" THEN d ELSE 0,
         Times(e, r_store) + Copies(e, tasks) = Times(e, r) + Copies(e, t) + d
  PROVE  Balance(e)'
<1>1. PICK m \in 0 .. Len(inqueue) :
        /\ Times(e, InSocket(m)) \in Nat
        /\ Times(e, inqueue) = Times(e, InSocket(m)) + Times(e, inqueue')
        /\ \A o : Copies(<<e, o>>, fate') =
             Copies(<<e, o>>, fate) + Copies(<<e, o>>, end)
               + (IF o = "perished" THEN Copies(e, t) + Times(e, r) + Times(e, InSocket(m)) ELSE 0)
  BY FatesAtEnd
<1>2. /\ Copies(e, t) \in Nat /\ Times(e, r) \in Nat /\ Times(e, inqueue) \in Nat
      /\ \A o : Met(e, o) \in Nat
  BY BagSum, TimesType, Counts
<1>3. inqueue' \in Seq(Messages) /\ Times(e, inqueue') \in Nat
  BY FatesAtEnd, TimesType
<1> DEFINE n == Copies(e, t) + Times(e, r) + Times(e, InSocket(m))
<1>4. n \in Nat
  BY <1>1, <1>2
<1>5. ASSUME NEW o
      PROVE  Met(e, o)' = Met(e, o) + (IF o = "killed" THEN d ELSE 0)
                                    + (IF o = "perished" THEN n ELSE 0)
  <2>1. Met(e, o)' = Copies(<<e, o>>, fate') /\ Met(e, o) = Copies(<<e, o>>, fate)
    BY DEF Met
  <2> QED
    BY <1>1, <2>1
<1>6. Times(e, inqueue) + (Times(e, r_store) + Copies(e, tasks)) = Times(e, inqueue') + n + d
  BY <1>1, <1>2, <1>3
<1> HIDE DEF n
<1>7. /\ Met(e, "answered")' = Met(e, "answered") /\ Met(e, "unanswered")' = Met(e, "unanswered")
      /\ Met(e, "dropped")' = Met(e, "dropped") /\ Met(e, "unrouted")' = Met(e, "unrouted")
      /\ Met(e, "killed")' = Met(e, "killed") + d
      /\ Met(e, "perished")' = Met(e, "perished") + n
  <2>1. \A o : Met(e, o) \in Nat
    BY <1>2
  <2>2. \A o : o \notin {"killed", "perished"} => Met(e, o)' = Met(e, o)
    BY <1>5, <2>1
  <2>3. Met(e, "killed")' = Met(e, "killed") + d /\ Met(e, "perished")' = Met(e, "perished") + n
    BY <1>4, <1>5, <2>1
  <2> QED
    BY <2>2, <2>3
<1>8. Fates(e)' = Fates(e) + n + d /\ Fates(e) \in Nat
  BY <1>4, <1>7, FatesGrow
<1>9. Held(e)' = Times(e, inqueue')
  <2>1. r_store' = <<>> /\ tasks' = EmptyBag
    BY DEF ControlEnds
  <2>2. Times(e, r_store') = 0 /\ Copies(e, tasks') = 0
    BY <2>1, TimesEmpty, BagOfSet DEF EmptyBag
  <2> QED
    BY <1>3, <2>2 DEF Held
<1>10. Held(e) = Times(e, inqueue') + n + d
  <2>1. Times(e, r_store) \in Nat /\ Copies(e, tasks) \in Nat
    BY Counts
  <2> QED
    BY <1>2, <1>6, <2>1 DEF Held
<1>11. Copies(e, published)' = Times(e, inqueue') + n + d + Fates(e)
  BY <1>10 DEF Balance
<1>12. Copies(e, published)' = Held(e)' + Fates(e)'
  BY <1>3, <1>4, <1>8, <1>9, <1>11
<1> QED
  BY <1>12 DEF Balance

\* The connection of the consumer breaks.
LEMMA BalanceOfLoss ==
  ASSUME StateTypeOK, NEW e, Balance(e), ConnectionStep
  PROVE  Balance(e)'
<1>1. PICK c \in Clients, n \in 0 .. Len(inqueue) :
        ConnectionLost(c, n) /\ fate' = fate (+) Perish(InSocket(n), EmptyBag)
  BY DEF ConnectionStep
<1>2. UNCHANGED <<r_store, tasks, published>>
  BY <1>1 DEF ConnectionStep, ConnectionLost
<1> DEFINE L == Perish(InSocket(n), EmptyBag)
<1>3. /\ inqueue' \in Seq(Messages)
      /\ IsABag(L) /\ BagToSet(L) \subseteq Messages \X Outcomes
      /\ Times(e, InSocket(n)) \in Nat
      /\ Times(e, inqueue) = Times(e, InSocket(n)) + Times(e, inqueue')
      /\ \A o : Copies(<<e, o>>, L) = IF o = "perished" THEN Times(e, InSocket(n)) ELSE 0
  BY <1>1, LostInSocket DEF ConnectionLost
<1> HIDE DEF L
<1>4. \A o : Copies(<<e, o>>, fate (+) L) = Copies(<<e, o>>, fate) + Copies(<<e, o>>, L)
  BY <1>3, FatesTogether DEF StateTypeOK
<1>5. /\ \A o : Met(e, o) \in Nat
      /\ \A o : Met(e, o)' = Met(e, o) + (IF o = "perished" THEN Times(e, InSocket(n)) ELSE 0)
  <2>1. \A o : Met(e, o) \in Nat
    BY Counts
  <2>2. fate' = fate (+) L
    BY <1>1 DEF L
  <2> QED
    BY <1>3, <1>4, <2>1, <2>2 DEF Met
<1> DEFINE k == Times(e, InSocket(n))
<1>6. k \in Nat
  BY <1>3
<1> HIDE DEF k
<1>7. /\ Met(e, "answered")' = Met(e, "answered") /\ Met(e, "unanswered")' = Met(e, "unanswered")
      /\ Met(e, "dropped")' = Met(e, "dropped") /\ Met(e, "unrouted")' = Met(e, "unrouted")
      /\ Met(e, "killed")' = Met(e, "killed") + 0
      /\ Met(e, "perished")' = Met(e, "perished") + k
  <2>1. \A o : o # "perished" => Met(e, o)' = Met(e, o) /\ Met(e, o) \in Nat
    BY <1>5
  <2>2. Met(e, "killed")' = Met(e, "killed") /\ Met(e, "killed") \in Nat
    BY <2>1
  <2>3. Met(e, "perished")' = Met(e, "perished") + k
    BY <1>5 DEF k
  <2> QED
    BY <2>1, <2>2, <2>3
<1>8. Fates(e)' = Fates(e) + k + 0 /\ Fates(e) \in Nat
  BY <1>6, <1>7, FatesGrow
<1>9. Held(e) = Held(e)' + k /\ Held(e)' \in Nat
  <2>1. /\ Times(e, r_store) \in Nat /\ Copies(e, tasks) \in Nat /\ Times(e, inqueue') \in Nat
        /\ Times(e, inqueue) = k + Times(e, inqueue')
    BY <1>3, Counts, TimesType DEF k
  <2> QED
    BY <1>2, <1>6, <2>1 DEF Held
<1>10. Copies(e, published)' = Held(e) + Fates(e)
  BY <1>2 DEF Balance
<1> QED
  BY <1>6, <1>8, <1>9, <1>10 DEF Balance

\* The fate of a message m of which device_control dies.
LEMMA FateKilled ==
  ASSUME NEW m \in Messages
  PROVE  LET K == SetToBag({<<m, "killed">>})
         IN  /\ IsABag(K) /\ BagToSet(K) \subseteq Messages \X Outcomes
             /\ \A e, o : Copies(<<e, o>>, K) = IF o = "killed" THEN (IF e = m THEN 1 ELSE 0) ELSE 0
<1> DEFINE K == SetToBag({<<m, "killed">>})
<1>1. /\ IsABag(K) /\ BagToSet(K) = {<<m, "killed">>}
      /\ \A x : Copies(x, K) = IF x = <<m, "killed">> THEN 1 ELSE 0
  BY BagOfSet
<1>2. <<m, "killed">> \in Messages \X Outcomes
  BY DEF Outcomes
<1> HIDE DEF K
<1>3. \A e, o : Copies(<<e, o>>, K) = IF o = "killed" THEN (IF e = m THEN 1 ELSE 0) ELSE 0
  BY <1>1
<1> QED
  BY <1>1, <1>2, <1>3 DEF K

LEMMA BalanceOfDispatch ==
  ASSUME StateTypeOK, NEW e, Balance(e), Dispatch
  PROVE  Balance(e)'
<1> DEFINE m == Head(r_store)
<1>1. r_store \in Seq(Messages) /\ r_store # <<>> /\ m \in Messages /\ Tail(r_store) \in Seq(Messages)
  BY DequeueElements DEF Dispatch, StateTypeOK, ClientTypeOK
<1>2. /\ Times(e, r_store) = Times(e, Tail(r_store)) + (IF e = m THEN 1 ELSE 0)
      /\ Times(e, Tail(r_store)) \in Nat
  BY <1>1, TimesTail, TimesType
<1>3. /\ Times(e, inqueue) \in Nat /\ Copies(e, tasks) \in Nat /\ Copies(e, published) \in Nat
      /\ \A o : Met(e, o) \in Nat
  BY Counts
<1>4. \/ ControlEnds(Tail(r_store), tasks, SetToBag({<<m, "killed">>}))
      \/ /\ r_store' = Tail(r_store) /\ UNCHANGED <<inqueue, published>>
         /\ \/ fate' = fate (+) SetToBag({<<m, "dropped">>}) /\ UNCHANGED tasks
            \/ tasks' = tasks (+) SetToBag({m}) /\ UNCHANGED fate
  BY DEF Dispatch
<1> HIDE DEF m
<1>5. CASE ControlEnds(Tail(r_store), tasks, SetToBag({<<m, "killed">>}))
  <2> DEFINE K == SetToBag({<<m, "killed">>})
             d == IF e = m THEN 1 ELSE 0
  <2>1. /\ IsABag(K) /\ BagToSet(K) \subseteq Messages \X Outcomes
        /\ \A o : Copies(<<e, o>>, K) = IF o = "killed" THEN d ELSE 0
    BY <1>1, FateKilled
  <2>2. Times(e, r_store) + Copies(e, tasks) = Times(e, Tail(r_store)) + Copies(e, tasks) + d
    BY <1>2, <1>3
  <2>3. d \in Nat /\ ControlEnds(Tail(r_store), tasks, K)
    BY <1>5
  <2> HIDE DEF K, d
  <2>4. UNCHANGED published /\ IsABag(tasks) /\ BagToSet(tasks) \subseteq Messages
    BY <2>3 DEF ControlEnds, StateTypeOK
  <2> QED
    BY <1>1, <2>1, <2>2, <2>3, <2>4, BalanceOfEnd
<1>6. CASE /\ r_store' = Tail(r_store) /\ UNCHANGED <<inqueue, published>>
           /\ fate' = fate (+) SetToBag({<<m, "dropped">>}) /\ UNCHANGED tasks
  <2>1. \A o : Met(e, o)' = Met(e, o) + (IF e = m /\ o = "dropped" THEN 1 ELSE 0)
    <3>1. "dropped" \in Outcomes
      BY DEF Outcomes
    <3> QED
      BY <1>1, <1>6, <3>1, FateMore
  <2>2. Fates(e)' = Fates(e) + (IF e = m THEN 1 ELSE 0) /\ Fates(e) \in Nat
    BY <1>3, <2>1 DEF Fates
  <2>3. Held(e) = Held(e)' + (IF e = m THEN 1 ELSE 0) /\ Held(e)' \in Nat
    BY <1>2, <1>3, <1>6 DEF Held
  <2> QED
    BY <1>6, <2>2, <2>3 DEF Balance
<1>7. CASE /\ r_store' = Tail(r_store) /\ UNCHANGED <<inqueue, published>>
           /\ tasks' = tasks (+) SetToBag({m}) /\ UNCHANGED fate
  <2>1. Copies(e, tasks') = Copies(e, tasks) + (IF e = m THEN 1 ELSE 0)
    BY <1>1, <1>7, CopyMore
  <2>2. Fates(e)' = Fates(e)
    BY <1>7 DEF Fates, Met
  <2>3. Held(e)' = Held(e)
    BY <1>2, <1>3, <1>7, <2>1 DEF Held
  <2> QED
    BY <1>7, <2>2, <2>3 DEF Balance
<1> QED
  BY <1>4, <1>5, <1>6, <1>7

\* One fate more, of message m.
LEMMA OneFateMore ==
  ASSUME StateTypeOK, NEW m \in Messages, NEW f \in Outcomes,
         fate' = fate (+) SetToBag({<<m, f>>}), NEW e
  PROVE  Fates(e)' = Fates(e) + (IF e = m THEN 1 ELSE 0) /\ Fates(e) \in Nat
<1>1. \A o : Met(e, o)' = Met(e, o) + (IF e = m /\ o = f THEN 1 ELSE 0)
  BY FateMore
<1>2. \A o : Met(e, o) \in Nat
  BY Counts
<1>3. f \in {"answered", "unanswered", "dropped", "killed", "perished", "unrouted"}
  BY DEF Outcomes
<1> QED
  BY <1>1, <1>2, <1>3 DEF Fates

\* What device_control hears, and what it answers.
LEMMA BalanceOfDeliver ==
  ASSUME StateTypeOK, NEW e, Balance(e), Deliver, UNCHANGED <<tasks, published, fate>>
  PROVE  Balance(e)'
<1> DEFINE m == Head(inqueue)
<1>1. /\ inqueue \in Seq(Messages) /\ inqueue # <<>> /\ r_store \in Seq(Messages)
      /\ m \in Messages /\ Tail(inqueue) \in Seq(Messages)
  BY DequeueElements DEF Deliver, StateTypeOK, ClientTypeOK
<1>2. /\ Times(e, inqueue) = Times(e, Tail(inqueue)) + (IF m = e THEN 1 ELSE 0)
      /\ Times(e, Tail(inqueue)) \in Nat
  BY <1>1, TimesTail, TimesType
<1>3. Times(e, Append(r_store, m)) = Times(e, r_store) + (IF m = e THEN 1 ELSE 0)
  BY <1>1, TimesAppend
<1>4. inqueue' = Tail(inqueue) /\ r_store' = Append(r_store, m)
  BY DEF Deliver
<1>5. Times(e, r_store) \in Nat /\ Copies(e, tasks) \in Nat
  BY Counts
<1> HIDE DEF m
<1>6. Held(e)' = Held(e)
  BY <1>2, <1>3, <1>4, <1>5 DEF Held
<1> QED
  BY <1>6 DEF Balance, Fates, Met

LEMMA BalanceOfTask ==
  ASSUME StateTypeOK, NEW e, Balance(e), NEW m \in Messages, UnknownDevice(m) \/ Answer(m)
  PROVE  Balance(e)'
<1> DEFINE t == tasks (-) SetToBag({m})
           d == IF e = m THEN 1 ELSE 0
<1>1. /\ IsABag(t) /\ BagToSet(t) \subseteq Messages
      /\ Copies(e, tasks) = Copies(e, t) + d
  BY BagLess DEF UnknownDevice, Answer, StateTypeOK
<1>2. Copies(e, t) \in Nat /\ d \in Nat
  BY <1>1, BagSum
<1>3. Times(e, inqueue) \in Nat /\ Times(e, r_store) \in Nat
  BY Counts
<1>4. CASE UnknownDevice(m)
  <2> DEFINE K == SetToBag({<<m, "killed">>})
  <2>1. /\ IsABag(K) /\ BagToSet(K) \subseteq Messages \X Outcomes
        /\ \A o : Copies(<<e, o>>, K) = IF o = "killed" THEN d ELSE 0
    BY FateKilled
  <2>2. ControlEnds(r_store, t, K)
    BY <1>4 DEF UnknownDevice
  <2> HIDE DEF K, t, d
  <2>3. UNCHANGED published /\ r_store \in Seq(Messages)
    BY <2>2 DEF ControlEnds, StateTypeOK, ClientTypeOK
  <2>4. Times(e, r_store) + Copies(e, tasks) = Times(e, r_store) + Copies(e, t) + d
    BY <1>1, <1>2, <1>3
  <2> QED
    BY <1>1, <1>2, <2>1, <2>2, <2>3, <2>4, BalanceOfEnd
<1>5. CASE Answer(m)
  <2>1. /\ tasks' = t /\ UNCHANGED <<inqueue, r_store, published>>
        /\ \E f \in {"answered", "unanswered"} : fate' = fate (+) SetToBag({<<m, f>>})
    BY <1>5 DEF Answer, Publish
  <2>2. Fates(e)' = Fates(e) + d /\ Fates(e) \in Nat
    BY <2>1, OneFateMore DEF Outcomes
  <2> HIDE DEF t, d
  <2>3. Held(e) = Held(e)' + d /\ Held(e)' \in Nat
    BY <1>1, <1>2, <1>3, <2>1 DEF Held
  <2> QED
    BY <1>2, <2>1, <2>2, <2>3 DEF Balance
<1> QED
  BY <1>4, <1>5

\* A message is given to publish(): the broker has it, or nobody.
LEMMA BalanceOfPublish ==
  ASSUME StateTypeOK, NEW e, Balance(e), NEW m \in Messages,
         published' = published (+) SetToBag({m}), UNCHANGED <<r_store, tasks>>,
         \/ inqueue' = Append(inqueue, m) /\ UNCHANGED fate
         \/ fate' = fate (+) SetToBag({<<m, "unrouted">>}) /\ UNCHANGED inqueue
  PROVE  Balance(e)'
<1> DEFINE d == IF e = m THEN 1 ELSE 0
<1>1. Copies(e, published)' = Copies(e, published) + d /\ d \in Nat
  BY CopyMore
<1>2. /\ Times(e, inqueue) \in Nat /\ Times(e, r_store) \in Nat /\ Copies(e, tasks) \in Nat
      /\ \A o : Met(e, o) \in Nat
  BY Counts
<1>3. Fates(e) \in Nat /\ Held(e) \in Nat
  BY <1>2 DEF Fates, Held
<1>4. CASE inqueue' = Append(inqueue, m) /\ UNCHANGED fate
  <2>1. Times(e, inqueue') = Times(e, inqueue) + d
    BY <1>4, TimesAppend DEF StateTypeOK, ClientTypeOK
  <2>2. Fates(e)' = Fates(e)
    BY <1>4 DEF Fates, Met
  <2> HIDE DEF d
  <2>3. Held(e)' = Held(e) + d
    BY <1>1, <1>2, <2>1 DEF Held
  <2> QED
    BY <1>1, <1>3, <2>2, <2>3 DEF Balance
<1>5. CASE fate' = fate (+) SetToBag({<<m, "unrouted">>}) /\ UNCHANGED inqueue
  <2>1. "unrouted" \in Outcomes
    BY DEF Outcomes
  <2>2. Fates(e)' = Fates(e) + d
    BY <1>5, <2>1, OneFateMore
  <2>3. Held(e)' = Held(e)
    BY <1>5 DEF Held
  <2> HIDE DEF d
  <2> QED
    BY <1>1, <1>3, <2>2, <2>3 DEF Balance
<1> QED
  BY <1>4, <1>5

\* Either application ends with nothing of its own to answer for.
LEMMA BalanceOfEnds ==
  ASSUME StateTypeOK, NEW e, Balance(e), NEW a, Ends(a)
  PROVE  Balance(e)'
<1>1. CASE a = DC
  <2>1. ControlEnds(r_store, tasks, EmptyBag)
    BY <1>1 DEF Ends
  <2>2. /\ IsABag(EmptyBag) /\ BagToSet(EmptyBag) \subseteq Messages \X Outcomes
        /\ \A x : Copies(x, EmptyBag) = 0
    BY BagOfSet DEF EmptyBag
  <2>3. /\ UNCHANGED published /\ r_store \in Seq(Messages)
        /\ IsABag(tasks) /\ BagToSet(tasks) \subseteq Messages
    BY <2>1 DEF ControlEnds, StateTypeOK, ClientTypeOK
  <2>4. Times(e, r_store) + Copies(e, tasks) = Times(e, r_store) + Copies(e, tasks) + 0
    BY Counts
  <2>5. \A o : Copies(<<e, o>>, EmptyBag) = IF o = "killed" THEN 0 ELSE 0
    BY <2>2
  <2> QED
    BY <2>1, <2>2, <2>3, <2>4, <2>5, BalanceOfEnd
<1>2. CASE a # DC
  <2>1. UNCHANGED <<inqueue, r_store, tasks, published, fate>>
    BY <1>2 DEF Ends, TestEnds
  <2> QED
    BY <2>1 DEF Balance, Held, Fates, Met
<1> QED
  BY <1>1, <1>2

LEMMA BalanceKept ==
  ASSUME NEW e, StateTypeOK, Balance(e), [Next]_vars
  PROVE  Balance(e)'
<1>1. ASSUME UNCHANGED <<inqueue, r_store, tasks, published, fate>> PROVE Balance(e)'
  BY <1>1 DEF Balance, Held, Fates, Met
<1>2. CASE SupervisorStep \/ ConnectionStep
  BY <1>1, <1>2, BalanceOfLoss DEF SupervisorStep, clientVars
<1>3. ASSUME NEW p \in Pids, Started(p) \/ NotStarted(p) PROVE Balance(e)'
  BY <1>1, <1>3 DEF Started, NotStarted, clientVars
<1>4. ASSUME NEW a \in Apps, Crash(a) \/ ConfigFails(a) \/ UsesNoConnection(a)
      PROVE  Balance(e)'
  BY <1>4, BalanceOfEnds DEF Crash, ConfigFails, UsesNoConnection
<1>5. CASE ConsumerStep
  <2>1. CASE BasicConsume
    BY <1>1, <1>5, <2>1 DEF ConsumerStep, BasicConsume
  <2>2. CASE Deliver
    BY <1>5, <2>2, BalanceOfDeliver DEF ConsumerStep
  <2> QED
    BY <1>5, <2>1, <2>2 DEF ConsumerStep
<1>6. CASE Source
  BY <1>1, <1>6 DEF Source, Call, Connect, Declare, ConsumeListen
<1>7. CASE ConnectTest
  BY <1>1, <1>7 DEF ConnectTest, Connect
<1>8. CASE PublishTest
  <2> DEFINE m == Script[sent + 1]
  <2>1. m \in Messages
    <3>1. Len(Script) \in Nat
      BY ProcessesAssumption, LenProperties
    <3>2. sent \in 0 .. Len(Script) /\ sent < Len(Script)
      BY <1>8 DEF PublishTest, StateTypeOK
    <3> QED
      BY <3>1, <3>2, ProcessesAssumption, ElementOfSeq
  <2>2. /\ published' = published (+) SetToBag({m}) /\ UNCHANGED <<r_store, tasks>>
        /\ \/ inqueue' = Append(inqueue, m) /\ UNCHANGED fate
           \/ fate' = fate (+) SetToBag({<<m, "unrouted">>}) /\ UNCHANGED inqueue
    BY <1>8 DEF PublishTest, Publish
  <2> HIDE DEF m
  <2> QED
    BY <2>1, <2>2, BalanceOfPublish
<1>9. ASSUME NEW m \in Foreign, PublishForeign(m) PROVE Balance(e)'
  <2>1. m \in Messages
    BY ProcessesAssumption
  <2>2. /\ published' = published (+) SetToBag({m}) /\ UNCHANGED <<r_store, tasks>>
        /\ \/ inqueue' = Append(inqueue, m) /\ UNCHANGED fate
           \/ fate' = fate (+) SetToBag({<<m, "unrouted">>}) /\ UNCHANGED inqueue
    BY <1>9 DEF PublishForeign
  <2> QED
    BY <2>1, <2>2, BalanceOfPublish
<1>10. CASE TestOver
  BY <1>1, <1>10 DEF TestOver, TestEnds
<1>11. CASE UNCHANGED vars
  BY <1>1, <1>11 DEF vars, clientVars
<1> QED
  BY <1>2, <1>3, <1>4, <1>5, <1>6, <1>7, <1>8, <1>9, <1>10, <1>11, BalanceOfDispatch,
     BalanceOfTask DEF Next, Step

\* A message is in one place or has met one fate, for any number of publications,
\* deaths and failures.
THEOREM Accounted == Spec => []AccountedFor
<1> DEFINE Balanced == \A e \in Messages : Balance(e)
<1>1. Init => Balanced
  <2> SUFFICES ASSUME Init, NEW e \in Messages PROVE Balance(e)
    OBVIOUS
  <2>1. /\ inqueue = <<>> /\ r_store = <<>> /\ tasks = EmptyBag
        /\ published = EmptyBag /\ fate = EmptyBag
    BY DEF Init, ClientInit
  <2>2. \A x : Copies(x, EmptyBag) = 0
    BY BagOfSet DEF EmptyBag
  <2>3. Times(e, <<>>) = 0
    BY TimesEmpty
  <2>4. Held(e) = 0 /\ Copies(e, published) = 0 /\ \A o : Met(e, o) = 0
    BY <2>1, <2>2, <2>3 DEF Held, Met
  <2> QED
    BY <2>4 DEF Balance, Fates
<1>2. StateTypeOK /\ Balanced /\ [Next]_vars => Balanced'
  BY BalanceKept
<1>3. StateTypeOK /\ Balanced => AccountedFor
  <2> SUFFICES ASSUME StateTypeOK, Balanced, NEW e \in Messages
               PROVE  Copies(e, published) =
                        Times(e, inqueue) + Times(e, r_store) + Copies(e, tasks)
                          + Met(e, "answered") + Met(e, "unanswered") + Met(e, "dropped")
                          + Met(e, "killed") + Met(e, "perished") + Met(e, "unrouted")
    BY DEF AccountedFor
  <2>1. /\ Times(e, inqueue) \in Nat /\ Times(e, r_store) \in Nat /\ Copies(e, tasks) \in Nat
        /\ \A o : Met(e, o) \in Nat
    BY Counts
  <2>2. Copies(e, published) = Held(e) + Fates(e)
    BY DEF Balance
  <2> QED
    BY <2>1, <2>2 DEF Held, Fates
<1> QED
  BY <1>1, <1>2, <1>3, TypesAlways, PTL DEF Spec
=============================================================================
