-------------------------- MODULE ThreadPoolProofs --------------------------
(***************************************************************************)
(* Proofs about ThreadPool for any number of workers and tasks: no task    *)
(* that submit() has accepted is lost or run twice, and shutdown() returns *)
(* only when all of them have run.                                         *)
(***************************************************************************)
EXTENDS ThreadPool, QueueTheorems

-----------------------------------------------------------------------------
(* The inductive invariants, in layers that use the ones before *)

\* A worker has a task exactly while it runs one.
RunInv == \A w \in Workers : worker[w] = "run" <=> current[w] # Nil

\* The mutex is held across steps by a submit() between its test and its insertion
\* and by a worker between its test and its wait, and by nobody else.
LockInv ==
  /\ \A t \in Tasks : submit[t] = "emplace" <=> m_lock = t
  /\ \A w \in Workers : worker[w] = "park" <=> m_lock = w

\* Once a worker has ended, the queue is empty, the pool is shut down and no
\* submit() has got past its test; so the queue stays empty.
ExitInv ==
  (\E w \in Workers : worker[w] = "exited") =>
    /\ f_shutdown
    /\ m_taskqueue = <<>>
    /\ \A t \in Tasks : submit[t] # "emplace"

\* shutdown() sets the flag first and returns when all workers have ended.
CloseInv == closing = "joined" => \A w \in Workers : worker[w] = "exited"

-----------------------------------------------------------------------------
(* Types, and tasks with the workers that run them *)

LEMMA RunStep == TypeOK /\ RunInv /\ [Next]_vars => TypeOK' /\ RunInv'
<1> SUFFICES ASSUME TypeOK, RunInv, [Next]_vars PROVE TypeOK' /\ RunInv'
  OBVIOUS
<1> USE ThreadPoolAssumption DEF TypeOK, RunInv
<1>1. ASSUME NEW t \in Tasks, Enter(t) PROVE TypeOK' /\ RunInv'
  BY <1>1 DEF Enter
<1>2. ASSUME NEW t \in Tasks, Emplace(t) PROVE TypeOK' /\ RunInv'
  <2>1. m_taskqueue' \in Seq(Tasks)
    BY <1>2, AppendProperties DEF Emplace
  <2> QED
    BY <1>2, <2>1 DEF Emplace
<1>3. ASSUME NEW t \in Tasks, NotifyOne(t) PROVE TypeOK' /\ RunInv'
  BY <1>3 DEF NotifyOne, Parked
<1>4. ASSUME NEW w \in Workers, Take(w) PROVE TypeOK' /\ RunInv'
  <2>1. CASE Dequeue(w)
    <3>1. Head(m_taskqueue) \in Tasks /\ Tail(m_taskqueue) \in Seq(Tasks)
      BY <2>1, DequeueElements DEF Dequeue
    <3> QED
      BY <1>4, <2>1, <3>1 DEF Take, Dequeue
  <2>2. CASE ~Dequeue(w)
    BY <1>4, <2>2 DEF Take
  <2> QED
    BY <2>1, <2>2
<1>5. ASSUME NEW w \in Workers, Park(w) PROVE TypeOK' /\ RunInv'
  BY <1>5 DEF Park
<1>6. ASSUME NEW w \in Workers, Finish(w) PROVE TypeOK' /\ RunInv'
  <2>1. current[w] \in Tasks
    BY <1>6 DEF Finish
  <2> QED
    BY <1>6, <2>1 DEF Finish
<1>7. ASSUME NEW w \in Workers, SpuriousWakeup(w) PROVE TypeOK' /\ RunInv'
  BY <1>7 DEF SpuriousWakeup
<1>8. CASE SetShutdown
  BY <1>8 DEF SetShutdown
<1>9. CASE NotifyAll
  BY <1>9 DEF NotifyAll, Parked
<1>10. CASE Join
  BY <1>10 DEF Join
<1>11. CASE UNCHANGED vars
  BY <1>11 DEF vars
<1> QED
  BY <1>1, <1>2, <1>3, <1>4, <1>5, <1>6, <1>7, <1>8, <1>9, <1>10, <1>11
  DEF Next, SubmitStep, WorkerStep, CloseStep

LEMMA RunAlways == Spec => [](TypeOK /\ RunInv)
<1>1. Init => TypeOK /\ RunInv
  <2>1. <<>> \in Seq(Tasks)
    BY EmptySeq
  <2> QED
    BY <2>1 DEF Init, TypeOK, RunInv
<1> QED
  BY <1>1, RunStep, PTL DEF Spec

\* The variables of the pool keep their types: the loop of the workers only ever
\* runs, and records as run, a task that was submitted.
THEOREM TypeCorrect == Spec => []TypeOK
  BY RunAlways, PTL

-----------------------------------------------------------------------------
(* The mutex, and the end of the workers *)

EndInv == LockInv /\ ExitInv /\ CloseInv

LEMMA EndStep == TypeOK /\ EndInv /\ [Next]_vars => EndInv'
<1> SUFFICES ASSUME TypeOK, EndInv, [Next]_vars PROVE EndInv'
  OBVIOUS
<1> USE ThreadPoolAssumption DEF TypeOK, EndInv, LockInv, ExitInv, CloseInv
<1>1. ASSUME NEW t \in Tasks, Enter(t) PROVE EndInv'
  BY <1>1 DEF Enter
<1>2. ASSUME NEW t \in Tasks, Emplace(t) PROVE EndInv'
  BY <1>2 DEF Emplace
<1>3. ASSUME NEW t \in Tasks, NotifyOne(t) PROVE EndInv'
  BY <1>3 DEF NotifyOne, Parked
<1>4. ASSUME NEW w \in Workers, Take(w) PROVE EndInv'
  <2>1. CASE Dequeue(w)
    BY <1>4, <2>1 DEF Take, Dequeue
  <2>2. CASE ~Dequeue(w)
    BY <1>4, <2>2 DEF Take
  <2> QED
    BY <2>1, <2>2
<1>5. ASSUME NEW w \in Workers, Park(w) PROVE EndInv'
  BY <1>5 DEF Park
<1>6. ASSUME NEW w \in Workers, Finish(w) PROVE EndInv'
  BY <1>6 DEF Finish
<1>7. ASSUME NEW w \in Workers, SpuriousWakeup(w) PROVE EndInv'
  BY <1>7 DEF SpuriousWakeup
<1>8. CASE SetShutdown
  BY <1>8 DEF SetShutdown
<1>9. CASE NotifyAll
  BY <1>9 DEF NotifyAll, Parked
<1>10. CASE Join
  BY <1>10 DEF Join
<1>11. CASE UNCHANGED vars
  BY <1>11 DEF vars
<1> QED
  BY <1>1, <1>2, <1>3, <1>4, <1>5, <1>6, <1>7, <1>8, <1>9, <1>10, <1>11
  DEF Next, SubmitStep, WorkerStep, CloseStep

LEMMA EndAlways == Spec => []EndInv
<1>1. Init => EndInv
  BY ThreadPoolAssumption DEF Init, EndInv, LockInv, ExitInv, CloseInv
<1> QED
  BY <1>1, EndStep, TypeCorrect, PTL DEF Spec

-----------------------------------------------------------------------------
(* Tasks are in one place *)

LEMMA OnceStep == TypeOK /\ RunInv /\ AcceptedOnce /\ [Next]_vars => AcceptedOnce'
<1> SUFFICES ASSUME TypeOK, RunInv, AcceptedOnce, [Next]_vars PROVE AcceptedOnce'
  OBVIOUS
<1> USE ThreadPoolAssumption DEF TypeOK, RunInv
\* The steps that move no task.
<1>1. ASSUME UNCHANGED <<m_taskqueue, current, finished>>, Accepted' = Accepted
      PROVE  AcceptedOnce'
  BY <1>1 DEF AcceptedOnce, Queued, Running
<1>2. ASSUME NEW t \in Tasks, Enter(t) PROVE AcceptedOnce'
  <2>1. Accepted' = Accepted
    BY <1>2 DEF Enter, Accepted
  <2> QED
    BY <1>1, <1>2, <2>1 DEF Enter
<1>3. ASSUME NEW t \in Tasks, Emplace(t) PROVE AcceptedOnce'
  <2>1. Accepted' = Accepted \union {t} /\ t \notin Accepted
    BY <1>3 DEF Emplace, Accepted
  <2>2. t \notin Queued \union Running \union finished
    BY <2>1 DEF AcceptedOnce
  <2>3. Queued' = Queued \union {t} /\ IsInjective(m_taskqueue')
    BY <1>3, <2>2, EnqueueElements DEF Emplace, Queued, AcceptedOnce
  <2>4. Running' = Running /\ UNCHANGED <<current, finished>>
    BY <1>3 DEF Emplace, Running
  <2> QED
    BY <2>1, <2>2, <2>3, <2>4 DEF AcceptedOnce
<1>4. ASSUME NEW t \in Tasks, NotifyOne(t) PROVE AcceptedOnce'
  <2>1. Accepted' = Accepted
    BY <1>4 DEF NotifyOne, Accepted
  <2> QED
    BY <1>1, <1>4, <2>1 DEF NotifyOne
<1>5. ASSUME NEW w \in Workers, Take(w), Dequeue(w) PROVE AcceptedOnce'
  <2> DEFINE h == Head(m_taskqueue)
  <2>1. /\ h \in Tasks /\ Queued = {h} \union Queued'
        /\ IsInjective(m_taskqueue') /\ h \notin Queued'
    BY <1>5, DequeueElements DEF Dequeue, Queued, AcceptedOnce
  <2>2. current[w] = Nil /\ current' = [current EXCEPT ![w] = h]
    BY <1>5 DEF Take, Dequeue
  <2>3. Running' = Running \union {h}
    BY <2>1, <2>2 DEF Running
  <2>4. Accepted' = Accepted /\ finished' = finished
    BY <1>5 DEF Take, Accepted
  <2>5. h \notin Running
    BY <2>1 DEF AcceptedOnce
  <2>6. ASSUME NEW v \in Workers, NEW u \in Workers,
               current'[v] = current'[u], current'[v] # Nil
        PROVE  v = u
    BY <2>2, <2>5, <2>6 DEF AcceptedOnce, Running
  <2> QED
    BY <2>1, <2>3, <2>4, <2>5, <2>6 DEF AcceptedOnce
<1>6. ASSUME NEW w \in Workers, Take(w), ~Dequeue(w) PROVE AcceptedOnce'
  BY <1>1, <1>6 DEF Take, Accepted
<1>7. ASSUME NEW w \in Workers, Finish(w) PROVE AcceptedOnce'
  <2> DEFINE c == current[w]
  <2>1. /\ c \in Tasks /\ finished' = finished \union {c}
        /\ current' = [current EXCEPT ![w] = Nil]
        /\ UNCHANGED <<m_taskqueue, submit>>
    BY <1>7 DEF Finish
  <2>2. \A v \in Workers : current[v] = c => v = w
    BY <2>1 DEF AcceptedOnce
  <2>3. Running = Running' \union {c} /\ c \notin Running'
    BY <2>1, <2>2 DEF Running
  <2>4. Queued' = Queued /\ Accepted' = Accepted
    BY <2>1 DEF Queued, Accepted
  <2>5. ASSUME NEW v \in Workers, NEW u \in Workers,
               current'[v] = current'[u], current'[v] # Nil
        PROVE  v = u
    BY <2>1, <2>5 DEF AcceptedOnce
  <2> QED
    BY <2>1, <2>3, <2>4, <2>5 DEF AcceptedOnce
<1>8. ASSUME NEW w \in Workers, Park(w) \/ SpuriousWakeup(w) PROVE AcceptedOnce'
  BY <1>1, <1>8 DEF Park, SpuriousWakeup, Accepted
<1>9. CASE SetShutdown \/ NotifyAll \/ Join
  BY <1>1, <1>9 DEF SetShutdown, NotifyAll, Join, Accepted
<1>10. CASE UNCHANGED vars
  BY <1>1, <1>10 DEF vars, Accepted
<1> QED
  BY <1>2, <1>3, <1>4, <1>5, <1>6, <1>7, <1>8, <1>9, <1>10
  DEF Next, SubmitStep, WorkerStep, CloseStep

\* However submit(), the workers and shutdown() interleave, an accepted task is in
\* exactly one place: queued once, run by one worker, or run to its end.
THEOREM AcceptedInOnePlace == Spec => []AcceptedOnce
<1>1. Init => AcceptedOnce
  <2>1. ASSUME Init
        PROVE Queued = {} /\ Running = {} /\ Accepted = {} /\ IsInjective(m_taskqueue)
    BY <2>1, EmptySeq DEF Init, Queued, Running, Accepted, ToSet, IsInjective
  <2> QED
    BY <2>1 DEF Init, AcceptedOnce
<1> QED
  BY <1>1, OnceStep, RunAlways, PTL DEF Spec

\* shutdown() returns only when every accepted task has run, although f_shutdown is
\* tested by submit() under a lock that shutdown() does not take.
THEOREM DrainedWhenJoined == Spec => []JoinedMeansDrained
<1>1. TypeOK /\ RunInv /\ EndInv /\ AcceptedOnce => JoinedMeansDrained
  <2> SUFFICES ASSUME TypeOK, RunInv, EndInv, AcceptedOnce, closing = "joined"
               PROVE  Accepted = finished
    BY DEF JoinedMeansDrained
  <2>1. \A w \in Workers : worker[w] = "exited"
    BY DEF EndInv, CloseInv
  <2>2. m_taskqueue = <<>>
    BY <2>1, ThreadPoolAssumption DEF EndInv, ExitInv
  <2>3. Queued = {}
    BY <2>2, EmptySeq DEF Queued, ToSet
  <2>4. Running = {}
    BY <2>1 DEF Running, RunInv
  <2> QED
    BY <2>3, <2>4 DEF AcceptedOnce
<1> QED
  BY <1>1, RunAlways, EndAlways, AcceptedInOnePlace, PTL
=============================================================================
