---------------------------- MODULE GatewayProofs ----------------------------
(***************************************************************************)
(* Proofs about Gateway for any number of requests, devices, pool threads, *)
(* failures and crashes: every request has one fate, every connection is   *)
(* in one place, a whole file at the peer goes with no failure of its WRITE *)
(* and the byte of an unreadable one with no success, and only a refused   *)
(* READ or a failure leaves a connection without a READ event.             *)
(***************************************************************************)
EXTENDS Gateway, QueueTheorems

-----------------------------------------------------------------------------
(* Types *)

Places == {"idle", "test", "success", "fail", "create", "setopen", "delete",
           "reset", "transfer", "getok", "header", "data", "flood",
           "receive", "receiving", "storing"}

SockStates == {"none", "waiting", "ok", "header", "junk", "sent", "cut", "closed"}
FileStates == {"nothing", "part", "byte", "whole"}

\* What a thread at place p has: event j, and connection c in a receive().
Fits(p, j, c) ==
  /\ p = "idle" <=> j = Nil
  /\ p \in {"create", "setopen"} => j \in Requests
  /\ p \in {"transfer", "getok", "header", "data", "flood"} => j \in Writes
  /\ p \in {"receiving", "storing"} <=> c # Nil

\* The threads with a task can be counted, whatever the size of the pool.
BusyThreads == {w \in Workers : pc[w] # "idle"}

TypeInv ==
  /\ BusTypeOK /\ DeviceTypeOK
  /\ \A w \in Workers : Fits(pc[w], job[w], hand[w])
  /\ IsFiniteSet(BusyThreads)

\* A step of thread w is none of another.
OthersStay(w) ==
  \A v \in Workers \ {w} : pc'[v] = pc[v] /\ job'[v] = job[v] /\ hand'[v] = hand[v]

\* Whatever is closed, and whatever state one connection gets.
LEMMA SockTypes ==
  ASSUME DeviceTypeOK
  PROVE  /\ sock \in [Writes -> SockStates]
         /\ \A S : Closing(S) \in [Writes -> SockStates]
         /\ \A r \in Writes, s \in SockStates :
              [sock EXCEPT ![r] = s] \in [Writes -> SockStates]
<1>1. sock \in [Writes -> SockStates]
  BY DEF DeviceTypeOK, SockStates
<1> QED
  BY <1>1 DEF Closing, SockStates

LEMMA WorkerMoves ==
  ASSUME TypeInv, NEW w \in Workers, BusTypeOK', DeviceTypeOK', OthersStay(w),
         Fits(pc'[w], job'[w], hand'[w])
  PROVE  TypeInv'
<1>1. \A v \in Workers : Fits(pc'[v], job'[v], hand'[v])
  BY DEF TypeInv, OthersStay
<1>2. IsFiniteSet(BusyThreads \union {w})
  BY FS_AddElement DEF TypeInv
<1>3. BusyThreads' \subseteq BusyThreads \union {w}
  BY DEF BusyThreads, OthersStay
<1>4. IsFiniteSet(BusyThreads')
  BY <1>2, <1>3, FS_Subset
<1> QED
  BY <1>1, <1>4 DEF TypeInv

\* A step that leaves the pool alone.
LEMMA PoolRests ==
  ASSUME TypeInv, BusTypeOK', DeviceTypeOK', UNCHANGED <<pc, job, hand>>
  PROVE  TypeInv'
BY DEF TypeInv, BusyThreads

LEMMA PushTypes ==
  ASSUME BusTypeOK
  PROVE  /\ \A d \in Devices : PushIn(d) => inqueue' \in Seq(Events) /\ ioErrs' \in 0 .. MaxIoErrs
         /\ \A e \in Events, s \in {"success", "fail"} : PushOut(e, s) =>
              /\ IsABag(outqueue') /\ BagToSet(outqueue') \subseteq Events \X {"success", "fail"}
              /\ unanswered' \in SUBSET Requests
              /\ ioErrs' \in 0 .. MaxIoErrs
         /\ IoError => ioErrs' \in 0 .. MaxIoErrs
<1>1. IoError => ioErrs' \in 0 .. MaxIoErrs
  BY EventBusAssumption DEF IoError, BusTypeOK
<1>2. ASSUME NEW d \in Devices, PushIn(d)
      PROVE  inqueue' \in Seq(Events) /\ ioErrs' \in 0 .. MaxIoErrs
  <2>1. Append(inqueue, d) \in Seq(Events)
    BY AppendProperties DEF BusTypeOK, Events
  <2> QED
    BY <1>1, <1>2, <2>1 DEF PushIn, BusTypeOK
<1>3. ASSUME NEW e \in Events, NEW s \in {"success", "fail"}, PushOut(e, s)
      PROVE  /\ IsABag(outqueue') /\ BagToSet(outqueue') \subseteq Events \X {"success", "fail"}
             /\ unanswered' \in SUBSET Requests
             /\ ioErrs' \in 0 .. MaxIoErrs
  <2> DEFINE x == <<e, s>>
             R == outqueue (+) SetToBag({x})
  <2>1. x \in Events \X {"success", "fail"}
    OBVIOUS
  <2>2. IsABag(R) /\ BagToSet(R) \subseteq Events \X {"success", "fail"}
    BY <2>1, BagMore DEF BusTypeOK
  <2>3. outqueue' = R \/ outqueue' = outqueue
    BY <1>3 DEF PushOut
  <2>4. unanswered' \in SUBSET Requests /\ ioErrs' \in 0 .. MaxIoErrs
    BY <1>1, <1>3 DEF PushOut, BusTypeOK
  <2> HIDE DEF R, x
  <2> QED
    BY <2>2, <2>3, <2>4 DEF BusTypeOK
<1> QED
  BY <1>1, <1>2, <1>3

LEMMA KindsOfEvents ==
  /\ \A e \in Events : KindOf(e) \in {"open", "write", "read", "close"} /\ DeviceOf(e) \in Devices
  /\ \A e \in Devices : KindOf(e) = "read"
  /\ \A e \in Events : KindOf(e) = "write" <=> e \in Writes
  /\ Writes \subseteq Requests /\ Requests \subseteq Events /\ Devices \subseteq Events
  /\ Nil \notin Events
BY EventBusAssumption DEF Events, KindOf, DeviceOf, Writes

\* What the socket of the consumer loses is the first part of the IN queue.
LEMMA SocketTypes ==
  ASSUME BusTypeOK, NEW n \in 0 .. Len(inqueue), SocketLost(n)
  PROVE  /\ inqueue' \in Seq(Events)
         /\ InSocket(n) \subseteq Requests
         /\ \A r \in Requests : \E t \in Nat :
              /\ Times(r, inqueue) = Times(r, inqueue') + t
              /\ t = 0 <=> r \notin InSocket(n)
<1> DEFINE a == SubSeq(inqueue, 1, n)
           b == SubSeq(inqueue, n + 1, Len(inqueue))
<1>1. inqueue \in Seq(Events)
  BY DEF BusTypeOK
<1>2. /\ a \in Seq(Events) /\ b \in Seq(Events)
      /\ \A e : Times(e, inqueue) = Times(e, a) + Times(e, b)
  BY <1>1, TimesSplit
<1>3. inqueue' = b /\ InSocket(n) = ToSet(a) \intersect Requests
  BY DEF SocketLost, InSocket
<1> HIDE DEF a, b
<1>4. \A e : /\ Times(e, a) \in Nat /\ Times(e, b) \in Nat
             /\ Times(e, a) = 0 <=> e \notin ToSet(a)
  BY <1>2, TimesType
<1>5. ASSUME NEW r \in Requests
      PROVE  \E t \in Nat : Times(r, inqueue) = Times(r, b) + t /\ (t = 0 <=> r \notin InSocket(n))
  <2>1. Times(r, inqueue) = Times(r, b) + Times(r, a) /\ Times(r, a) \in Nat
    BY <1>2, <1>4
  <2>2. Times(r, a) = 0 <=> r \notin InSocket(n)
    BY <1>3, <1>4
  <2> QED
    BY <2>1, <2>2
<1> QED
  BY <1>2, <1>3, <1>5

\* The threads that carry events.
LEMMA CarryTypes ==
  ASSUME TypeInv, UNCHANGED deviceVars,
         (\E r \in Requests : Publish(r)) \/ Deliver \/ ConsumerDies \/ Dispatch
  PROVE  TypeInv'
<1>1. DeviceTypeOK'
  BY DEF TypeInv, DeviceTypeOK, deviceVars, objectVars, listenVars, storeVars
<1>2. UNCHANGED <<pc, job, hand>>
  BY DEF deviceVars, storeVars
<1>3. BusTypeOK
  BY DEF TypeInv
<1>4. ASSUME NEW r \in Requests, Publish(r) PROVE BusTypeOK'
  <2>1. Append(inqueue, r) \in Seq(Events)
    BY <1>3, KindsOfEvents, AppendProperties DEF BusTypeOK
  <2> QED
    BY <1>3, <1>4, <2>1 DEF Publish, BusTypeOK, answerVars
<1>5. CASE Deliver
  <2>1. Head(inqueue) \in Events /\ Tail(inqueue) \in Seq(Events)
    BY <1>3, <1>5, DequeueElements DEF Deliver, BusTypeOK
  <2> QED
    BY <1>1, <1>2, <1>3, <1>5, <2>1, AppendProperties, PoolRests DEF Deliver, BusTypeOK, answerVars
<1>6. CASE ConsumerDies
  <2>1. PICK n \in 0 .. Len(inqueue) : SocketLost(n) /\ unanswered' = unanswered \union InSocket(n)
    BY <1>6 DEF ConsumerDies
  <2>2. inqueue' \in Seq(Events) /\ unanswered' \in SUBSET Requests
    BY <1>3, <2>1, SocketTypes DEF BusTypeOK
  <2>3. BusTypeOK'
    BY <1>3, <1>6, <2>2, PushTypes DEF ConsumerDies, BusTypeOK
  <2> QED
    BY <1>1, <1>2, <2>3, PoolRests
<1>7. CASE Dispatch
  <2>1. Head(r_store) \in Events /\ Tail(r_store) \in Seq(Events)
    BY <1>3, <1>7, DequeueElements DEF Dispatch, BusTypeOK
  <2> QED
    BY <1>1, <1>2, <1>3, <1>7, <2>1, AppendProperties, PoolRests DEF Dispatch, BusTypeOK, answerVars
<1> QED
  BY <1>1, <1>2, <1>4, <1>5, <1>6, <1>7, PoolRests

\* What a thread with a task knows.
LEMMA Working ==
  ASSUME TypeInv, NEW w \in Workers, pc[w] # "idle"
  PROVE  job[w] \in Events /\ Dev(w) \in Devices /\ job[w] # Nil
<1>1. job[w] \in Events \union {Nil} /\ job[w] # Nil
  BY DEF TypeInv, DeviceTypeOK, Fits
<1> QED
  BY <1>1, KindsOfEvents DEF Dev

\* Taking a task, deciding on it, answering.
LEMMA TaskTypes ==
  ASSUME TypeInv, NEW w \in Workers, Take(w) \/ Test(w) \/ Respond(w)
  PROVE  TypeInv'
<1>1. BusTypeOK /\ DeviceTypeOK /\ Fits(pc[w], job[w], hand[w])
  BY DEF TypeInv
<1>2. CASE Take(w)
  <2>1. Head(m_taskqueue) \in Events /\ Tail(m_taskqueue) \in Seq(Events)
    BY <1>1, <1>2, DequeueElements DEF Take, BusTypeOK
  <2>2. BusTypeOK'
    BY <1>1, <1>2, <2>1 DEF Take, BusTypeOK, answerVars
  <2>3. DeviceTypeOK'
    BY <1>1, <1>2, <2>1 DEF Take, DeviceTypeOK, objectVars, listenVars, storeVars
  <2>4. OthersStay(w) /\ job'[w] = Head(m_taskqueue) /\ pc'[w] = "test" /\ hand'[w] = hand[w]
    BY <1>1, <1>2 DEF Take, DeviceTypeOK, OthersStay, storeVars
  <2>5. Fits(pc'[w], job'[w], hand'[w])
    BY <1>1, <1>2, <2>1, <2>4, KindsOfEvents DEF Fits, Take
  <2> QED
    BY <2>2, <2>3, <2>4, <2>5, WorkerMoves
<1>3. CASE Test(w)
  <2>1. job[w] \in Events /\ job[w] # Nil
    BY <1>3, Working DEF Test
  <2> DEFINE k == KindOf(job[w])
             p == (IF f_open[Dev(w)] THEN IfOpen ELSE IfClosed)[k]
  <2>2. pc' = [pc EXCEPT ![w] = p] /\ UNCHANGED <<job, hand>>
    BY <1>3 DEF Test, Goto, storeVars
  <2>3. k \in {"open", "write", "read", "close"}
    BY <2>1, KindsOfEvents
  <2>4. /\ p \in {"fail", "transfer", "receive", "delete", "create", "success"}
        /\ p = "create" => k = "open"
        /\ p = "transfer" => k = "write"
    BY <2>3 DEF IfOpen, IfClosed
  <2>5. k = "open" => job[w] \in Requests
    BY <2>1 DEF Events, KindOf
  <2>6. k = "write" => job[w] \in Writes
    BY <2>1, KindsOfEvents
  <2> HIDE DEF k, p
  <2>7. BusTypeOK' /\ DeviceTypeOK'
    BY <1>1, <1>3, <2>2, <2>4
    DEF Test, BusTypeOK, DeviceTypeOK, queueVars, answerVars, objectVars, listenVars, storeVars
  <2>8. OthersStay(w) /\ pc'[w] = p
    BY <1>1, <2>2 DEF DeviceTypeOK, OthersStay
  <2>9. Fits(pc'[w], job'[w], hand'[w])
    BY <1>1, <1>3, <2>1, <2>2, <2>4, <2>5, <2>6, <2>8 DEF Fits, Test
  <2> QED
    BY <2>7, <2>8, <2>9, WorkerMoves
<1>4. CASE Respond(w)
  <2>1. job[w] \in Events /\ pc[w] \in {"success", "fail"} /\ PushOut(job[w], pc[w])
    BY <1>4, Working DEF Respond
  <2>2. BusTypeOK'
    BY <1>1, <1>4, <2>1, PushTypes DEF Respond, BusTypeOK, queueVars
  <2>3. DeviceTypeOK'
    BY <1>1, <1>4 DEF Respond, Free, DeviceTypeOK, objectVars, listenVars, storeVars
  <2>4. OthersStay(w) /\ Fits(pc'[w], job'[w], hand'[w])
    BY <1>1, <1>4 DEF Respond, Free, DeviceTypeOK, OthersStay, Fits, storeVars
  <2> QED
    BY <2>2, <2>3, <2>4, WorkerMoves
<1> QED
  BY <1>2, <1>3, <1>4

\* What delete does, whether or not the accept thread is in accept().
LEMMA Destroyed ==
  ASSUME NEW d, Destroy(d)
  PROVE  /\ p_filetransfer' = [p_filetransfer EXCEPT ![d] = "deleted"]
         /\ m_client_request' = [m_client_request EXCEPT ![d] = <<>>]
         /\ \E a \in {"stray", "none"} : acceptor' = [acceptor EXCEPT ![d] = a]
         /\ late' = [late EXCEPT ![d] = IF acceptor[d] = "notify" THEN @ + 1 ELSE @]
         /\ \E b \in {backlog[d], <<>>} : backlog' = [backlog EXCEPT ![d] = b]
         /\ \E S \in SUBSET (ToSet(backlog[d]) \union ToSet(m_client_request[d])) : sock' = Closing(S)
<1>1. PICK blocked \in {FALSE, acceptor[d] = "accept"} :
        /\ p_filetransfer' = [p_filetransfer EXCEPT ![d] = "deleted"]
        /\ m_client_request' = [m_client_request EXCEPT ![d] = <<>>]
        /\ acceptor' = [acceptor EXCEPT ![d] = IF blocked THEN "stray" ELSE "none"]
        /\ late' = [late EXCEPT ![d] = IF acceptor[d] = "notify" THEN @ + 1 ELSE @]
        /\ backlog' = [backlog EXCEPT ![d] = IF blocked THEN @ ELSE <<>>]
        /\ sock' = Closing(ToSet(m_client_request[d])
                              \union (IF blocked THEN {} ELSE ToSet(backlog[d])))
  BY DEF Destroy
<1>2. CASE blocked
  BY <1>1, <1>2
<1>3. CASE ~blocked
  BY <1>1, <1>3
<1> QED
  BY <1>2, <1>3

\* OPEN and CLOSE.
LEMMA ObjectTypes ==
  ASSUME TypeInv, NEW w \in Workers,
         CreateObject(w) \/ SetOpen(w) \/ DeleteObject(w) \/ ResetDevice(w)
  PROVE  TypeInv'
<1>1. BusTypeOK /\ DeviceTypeOK /\ Fits(pc[w], job[w], hand[w])
  BY DEF TypeInv
<1>2. Dev(w) \in Devices /\ job[w] # Nil /\ job[w] \in Events
  BY Working DEF CreateObject, SetOpen, DeleteObject, ResetDevice
<1>3. CASE CreateObject(w)
  <2>1. job[w] \in Requests
    BY <1>1, <1>3 DEF CreateObject, Fits
  <2>2. UNCHANGED ioErrs \/ IoError
    BY <1>3 DEF CreateObject
  <2>3. ioErrs' \in 0 .. MaxIoErrs
    BY <1>1, <2>2, PushTypes DEF BusTypeOK
  <2>4. BusTypeOK'
    BY <1>1, <1>3, <2>1, <2>3 DEF CreateObject, BusTypeOK, queueVars
  <2>5. DeviceTypeOK'
    BY <1>1, <1>2, <1>3 DEF CreateObject, Goto, Free, DeviceTypeOK, storeVars
  <2>6. OthersStay(w) /\ Fits(pc'[w], job'[w], hand'[w])
    BY <1>1, <1>2, <1>3, <2>1 DEF CreateObject, Goto, Free, DeviceTypeOK, OthersStay, Fits, storeVars
  <2> QED
    BY <2>4, <2>5, <2>6, WorkerMoves
<1>4. CASE SetOpen(w) \/ ResetDevice(w)
  <2>1. BusTypeOK' /\ DeviceTypeOK'
    BY <1>1, <1>2, <1>4
    DEF SetOpen, ResetDevice, Goto, BusTypeOK, DeviceTypeOK, queueVars, answerVars, listenVars, storeVars
  <2>2. OthersStay(w) /\ Fits(pc'[w], job'[w], hand'[w])
    BY <1>1, <1>2, <1>4
    DEF SetOpen, ResetDevice, Goto, DeviceTypeOK, OthersStay, Fits, storeVars
  <2> QED
    BY <2>1, <2>2, WorkerMoves
<1>5. CASE DeleteObject(w)
  <2>1. BusTypeOK'
    BY <1>1, <1>5 DEF DeleteObject, BusTypeOK, queueVars, answerVars
  <2>2. pc' \in [Workers -> Places] /\ UNCHANGED <<f_open, job, hand, stored>>
    BY <1>1, <1>5 DEF DeleteObject, Goto, DeviceTypeOK, storeVars, Places
  <2>5. OthersStay(w) /\ Fits(pc'[w], job'[w], hand'[w])
    BY <1>1, <1>2, <1>5 DEF DeleteObject, Goto, DeviceTypeOK, OthersStay, Fits, storeVars
  <2>3. CASE Destroy(Dev(w))
    <3>1. sock' \in [Writes -> SockStates]
      BY <1>1, <2>3, Destroyed, SockTypes
    <3>2. /\ backlog' \in [Devices -> Seq(Writes)] /\ m_client_request' \in [Devices -> Seq(Writes)]
      <4>1. <<>> \in Seq(Writes)
        OBVIOUS
      <4>2. /\ backlog \in [Devices -> Seq(Writes)]
            /\ m_client_request \in [Devices -> Seq(Writes)]
        BY <1>1 DEF DeviceTypeOK
      <4>3. PICK b \in {backlog[Dev(w)], <<>>} : backlog' = [backlog EXCEPT ![Dev(w)] = b]
        BY <2>3, Destroyed
      <4>4. m_client_request' = [m_client_request EXCEPT ![Dev(w)] = <<>>]
        BY <2>3, Destroyed
      <4>5. b \in Seq(Writes)
        BY <1>2, <4>1, <4>2
      <4>6. backlog' \in [Devices -> Seq(Writes)]
        BY <4>2, <4>3, <4>5
      <4> QED
        BY <4>1, <4>2, <4>4, <4>6
    <3>3. /\ acceptor' \in [Devices -> {"none", "accept", "notify", "deaf", "stray"}]
          /\ p_filetransfer' \in [Devices -> {"null", "object", "deleted"}]
          /\ late' \in [Devices -> Nat]
      <4>1. PICK a \in {"stray", "none"} : acceptor' = [acceptor EXCEPT ![Dev(w)] = a]
        BY <2>3, Destroyed
      <4>2. /\ p_filetransfer' = [p_filetransfer EXCEPT ![Dev(w)] = "deleted"]
            /\ late' = [late EXCEPT ![Dev(w)] = IF acceptor[Dev(w)] = "notify" THEN @ + 1 ELSE @]
        BY <2>3, Destroyed
      <4> QED
        BY <1>1, <1>2, <4>1, <4>2 DEF DeviceTypeOK
    <3>4. DeviceTypeOK'
      BY <1>1, <2>2, <3>1, <3>2, <3>3 DEF DeviceTypeOK, Places, SockStates
    <3> QED
      BY <2>1, <2>5, <3>4, WorkerMoves
  <2>4. CASE UNCHANGED <<p_filetransfer, listenVars, sock>>
    <3>1. DeviceTypeOK'
      BY <1>1, <2>2, <2>4 DEF DeviceTypeOK, listenVars, Places
    <3> QED
      BY <2>1, <2>5, <3>1, WorkerMoves
  <2> QED
    BY <1>5, <2>3, <2>4 DEF DeleteObject
<1> QED
  BY <1>3, <1>4, <1>5

\* WRITE.
LEMMA TransferTypes ==
  ASSUME TypeInv, NEW w \in Workers,
         Connect(w) \/ ReadOk(w) \/ SendHeader(w) \/ SendData(w) \/ Flood(w)
  PROVE  TypeInv'
<1>1. BusTypeOK /\ DeviceTypeOK /\ Fits(pc[w], job[w], hand[w])
  BY DEF TypeInv
<1>2. pc[w] \in {"transfer", "getok", "header", "data", "flood"} /\ job[w] \in Writes
  BY <1>1 DEF Connect, ReadOk, SendHeader, SendData, Flood, Fits
<1>3. Dev(w) \in Devices /\ Peer[Dev(w)] \in Devices /\ job[w] # Nil
  BY <1>2, Working, TcpDeviceAssumption
<1>4. UNCHANGED ioErrs \/ IoError
  BY DEF Connect, ReadOk, SendHeader, SendData, Flood, Send
<1>5. ioErrs' \in 0 .. MaxIoErrs
  BY <1>1, <1>4, PushTypes DEF BusTypeOK
<1>6. UNCHANGED <<queueVars, answerVars, objectVars, acceptor, late, m_client_request, job, storeVars>>
  BY DEF Connect, ReadOk, SendHeader, SendData, Flood, listenVars
<1>7. BusTypeOK'
  BY <1>1, <1>5, <1>6 DEF BusTypeOK, queueVars, answerVars
<1>8. sock' \in [Writes -> SockStates]
  <2>1. sock[job[w]] \in SockStates
    BY <1>1, <1>2, SockTypes
  <2>2. sock' = sock \/ \E s \in SockStates : sock' = [sock EXCEPT ![job[w]] = s]
    <3>1. CASE Connect(w) \/ ReadOk(w) \/ Flood(w)
      BY <3>1 DEF Connect, ReadOk, Flood, SockStates
    <3>2. CASE SendHeader(w)
      BY <2>1, <3>2 DEF SendHeader, Send, SockStates
    <3>3. CASE SendData(w)
      BY <2>1, <3>3 DEF SendData, Send, SockStates
    <3> QED
      BY <3>1, <3>2, <3>3
  <2> QED
    BY <1>1, <1>2, <2>2, SockTypes
<1>9. backlog' \in [Devices -> Seq(Writes)]
  <2>1. CASE UNCHANGED backlog
    BY <1>1, <2>1 DEF DeviceTypeOK
  <2>2. CASE backlog' = [backlog EXCEPT ![Peer[Dev(w)]] = Append(@, job[w])]
    BY <1>1, <1>2, <1>3, <2>2, AppendProperties DEF DeviceTypeOK
  <2> QED
    BY <2>1, <2>2 DEF Connect, ReadOk, SendHeader, SendData, Flood, listenVars
<1>10. \E p \in {"fail", "getok", "header", "data", "flood", "success"} : pc' = [pc EXCEPT ![w] = p]
  BY DEF Connect, ReadOk, SendHeader, SendData, Flood, Send, Goto
<1>11. DeviceTypeOK'
  BY <1>1, <1>6, <1>8, <1>9, <1>10 DEF DeviceTypeOK, objectVars, storeVars, SockStates
<1>12. OthersStay(w) /\ Fits(pc'[w], job'[w], hand'[w])
  BY <1>1, <1>2, <1>3, <1>6, <1>10 DEF DeviceTypeOK, OthersStay, Fits, storeVars
<1> QED
  BY <1>7, <1>11, <1>12, WorkerMoves

\* receive() with a connection in its hand opens the output and keeps the
\* connection, or returns and has closed it.
LEMMA Receiving ==
  ASSUME TypeInv, NEW w \in Workers, OpenOutput(w) \/ FinishReceive(w)
  PROVE  /\ hand[w] \in Writes /\ pc[w] \in {"receiving", "storing"}
         /\ UNCHANGED <<queueVars, answerVars, objectVars, listenVars, job>>
         /\ \E s \in FileStates : stored' = [stored EXCEPT ![hand[w]] = s]
         /\ \/ pc' = [pc EXCEPT ![w] = "storing"] /\ UNCHANGED <<sock, hand>>
            \/ /\ sock' = Closing({hand[w]}) /\ hand' = [hand EXCEPT ![w] = Nil]
               /\ \E p \in {"fail", "success"} : pc' = [pc EXCEPT ![w] = p]
<1>1. hand[w] \in Writes /\ pc[w] \in {"receiving", "storing"}
  BY DEF OpenOutput, FinishReceive, TypeInv, Fits, DeviceTypeOK
<1>2. UNCHANGED <<queueVars, answerVars, objectVars, listenVars, job>>
  BY DEF OpenOutput, FinishReceive
<1>3. \E s \in FileStates : stored' = [stored EXCEPT ![hand[w]] = s]
  <2>1. stored \in [Writes -> FileStates]
    BY DEF TypeInv, DeviceTypeOK, FileStates
  <2>2. stored[hand[w]] \in FileStates /\ stored = [stored EXCEPT ![hand[w]] = stored[hand[w]]]
    BY <1>1, <2>1
  <2>3. \/ stored' = stored
        \/ \E s \in {"part", "byte", "whole"} : stored' = [stored EXCEPT ![hand[w]] = s]
    BY DEF OpenOutput, FinishReceive
  <2> QED
    BY <2>2, <2>3 DEF FileStates
<1>4. \/ pc' = [pc EXCEPT ![w] = "storing"] /\ UNCHANGED <<sock, hand>>
      \/ /\ sock' = Closing({hand[w]}) /\ hand' = [hand EXCEPT ![w] = Nil]
         /\ \E p \in {"fail", "success"} : pc' = [pc EXCEPT ![w] = p]
  BY DEF OpenOutput, FinishReceive, EndReceive, Goto
<1> QED
  BY <1>1, <1>2, <1>3, <1>4

\* READ.
LEMMA ReceiveTypes ==
  ASSUME TypeInv, NEW w \in Workers, StartReceive(w) \/ OpenOutput(w) \/ FinishReceive(w)
  PROVE  TypeInv'
<1>1. BusTypeOK /\ DeviceTypeOK /\ Fits(pc[w], job[w], hand[w])
  BY DEF TypeInv
<1>2. pc[w] \in {"receive", "receiving", "storing"}
  BY DEF StartReceive, OpenOutput, FinishReceive
<1>3. Dev(w) \in Devices /\ job[w] # Nil
  BY <1>2, Working
<1>4. UNCHANGED ioErrs \/ IoError
  BY DEF StartReceive, WriteOk, OpenOutput, FinishReceive, ReceiveBroken
<1>5. ioErrs' \in 0 .. MaxIoErrs
  BY <1>1, <1>4, PushTypes DEF BusTypeOK
<1>6. UNCHANGED <<queueVars, answerVars, objectVars, acceptor, late, backlog, job>>
  BY DEF StartReceive, OpenOutput, FinishReceive, listenVars
<1>7. BusTypeOK'
  BY <1>1, <1>5, <1>6 DEF BusTypeOK, queueVars, answerVars
<1>8. CASE StartReceive(w)
  <2> DEFINE d == Dev(w)
  <2>1. CASE /\ Goto(w, "fail") /\ UNCHANGED <<m_client_request, sock, hand>>
    <3>1. DeviceTypeOK'
      BY <1>1, <1>6, <1>8, <2>1 DEF DeviceTypeOK, StartReceive, Goto, objectVars
    <3>2. OthersStay(w) /\ Fits(pc'[w], job'[w], hand'[w])
      BY <1>1, <1>3, <1>6, <1>8, <2>1 DEF DeviceTypeOK, StartReceive, OthersStay, Fits, Goto
    <3> QED
      BY <1>7, <3>1, <3>2, WorkerMoves
  <2>2. CASE TakeConnection(w, d) /\ WriteOk(w)
    <3> DEFINE c == Head(m_client_request[d])
    <3>1. c \in Writes /\ Tail(m_client_request[d]) \in Seq(Writes)
      BY <1>1, <1>3, <2>2, DequeueElements DEF TakeConnection, DeviceTypeOK
    <3>2. /\ hand' = [hand EXCEPT ![w] = c]
          /\ m_client_request' = [m_client_request EXCEPT ![d] = Tail(@)]
      BY <2>2 DEF TakeConnection
    <3> HIDE DEF c
    <3>3. hand'[w] = c /\ c # Nil
      BY <1>1, <3>1, <3>2, KindsOfEvents DEF DeviceTypeOK
    <3>4. sock' \in [Writes -> SockStates]
      <4>1. sock' = [sock EXCEPT ![c] = "ok"] \/ sock' = Closing({c})
        BY <2>2, <3>3 DEF WriteOk
      <4> QED
        BY <1>1, <3>1, <4>1, SockTypes DEF SockStates
    <3>5. pc' = [pc EXCEPT ![w] = "receiving"]
      BY <2>2 DEF WriteOk, Goto
    <3>6. stored' = stored
      BY <1>8 DEF StartReceive
    <3>7. DeviceTypeOK'
      BY <1>1, <1>6, <3>1, <3>2, <3>4, <3>5, <3>6 DEF DeviceTypeOK, objectVars, SockStates
    <3>8. OthersStay(w) /\ Fits(pc'[w], job'[w], hand'[w])
      BY <1>1, <1>2, <1>3, <1>6, <3>2, <3>3, <3>5 DEF DeviceTypeOK, OthersStay, Fits
    <3> QED
      BY <1>7, <3>7, <3>8, WorkerMoves
  <2> QED
    BY <1>8, <2>1, <2>2 DEF StartReceive
<1>9. CASE OpenOutput(w) \/ FinishReceive(w)
  <2>1. hand[w] \in Writes /\ m_client_request' = m_client_request
    BY <1>9, Receiving DEF listenVars
  <2>2. stored' \in [Writes -> FileStates]
    BY <1>1, <1>9, <2>1, Receiving DEF DeviceTypeOK, FileStates
  <2>3. CASE pc' = [pc EXCEPT ![w] = "storing"] /\ UNCHANGED <<sock, hand>>
    <3>1. DeviceTypeOK'
      BY <1>1, <1>6, <2>1, <2>2, <2>3 DEF DeviceTypeOK, FileStates, objectVars
    <3>2. OthersStay(w) /\ Fits(pc'[w], job'[w], hand'[w])
      BY <1>1, <1>3, <1>6, <2>1, <2>3, KindsOfEvents DEF DeviceTypeOK, OthersStay, Fits
    <3> QED
      BY <1>7, <3>1, <3>2, WorkerMoves
  <2>4. CASE /\ sock' = Closing({hand[w]}) /\ hand' = [hand EXCEPT ![w] = Nil]
             /\ \E p \in {"fail", "success"} : pc' = [pc EXCEPT ![w] = p]
    <3>1. sock' \in [Writes -> SockStates]
      BY <1>1, <2>4, SockTypes
    <3>2. pc' \in [Workers -> Places] /\ hand' \in [Workers -> Writes \union {Nil}]
      BY <1>1, <2>4 DEF DeviceTypeOK, Places
    <3>3. DeviceTypeOK'
      BY <1>1, <1>6, <2>1, <2>2, <3>1, <3>2
      DEF DeviceTypeOK, FileStates, SockStates, Places, objectVars
    <3>4. OthersStay(w) /\ Fits(pc'[w], job'[w], hand'[w])
      BY <1>1, <1>3, <1>6, <2>4 DEF DeviceTypeOK, OthersStay, Fits
    <3> QED
      BY <1>7, <3>3, <3>4, WorkerMoves
  <2> QED
    BY <1>9, <2>3, <2>4, Receiving
<1> QED
  BY <1>8, <1>9

\* The accept threads.
LEMMA AcceptTypes ==
  ASSUME TypeInv, NEW d \in Devices, AcceptStep(d) \/ AcceptDies(d)
  PROVE  TypeInv'
<1>1. BusTypeOK /\ DeviceTypeOK
  BY DEF TypeInv
<1>2. UNCHANGED <<pc, job, hand, stored, objectVars>>
  BY DEF AcceptStep, Accept, Notify, StrayAccept, LateNotify, AcceptDies, storeVars
<1>3. UNCHANGED <<unsent, r_store, m_taskqueue, consuming, answerVars>>
  BY DEF AcceptStep, Accept, Notify, StrayAccept, LateNotify, AcceptDies, queueVars
<1>4. inqueue' \in Seq(Events) /\ ioErrs' \in 0 .. MaxIoErrs
  <2>1. PushIn(d) \/ (UNCHANGED inqueue /\ (UNCHANGED ioErrs \/ IoError))
    BY DEF AcceptStep, Accept, Notify, StrayAccept, LateNotify, AcceptDies, queueVars
  <2> QED
    BY <1>1, <2>1, PushTypes DEF BusTypeOK
<1>5. BusTypeOK'
  BY <1>1, <1>3, <1>4 DEF BusTypeOK, answerVars
<1>6. DeviceTypeOK'
  <2>1. CASE Accept(d)
    <3>1. /\ Head(backlog[d]) \in Writes /\ Tail(backlog[d]) \in Seq(Writes)
          /\ m_client_request[d] \in Seq(Writes)
      BY <1>1, <2>1, DequeueElements DEF Accept, DeviceTypeOK
    <3>2. Append(m_client_request[d], Head(backlog[d])) \in Seq(Writes)
      BY <3>1, AppendProperties
    <3> QED
      BY <1>1, <1>2, <2>1, <3>1, <3>2 DEF Accept, DeviceTypeOK, objectVars
  <2>2. CASE Notify(d)
    BY <1>1, <1>2, <2>2 DEF Notify, DeviceTypeOK, objectVars
  <2>3. CASE AcceptDies(d)
    <3>1. sock' \in [Writes -> SockStates]
      BY <1>1, <2>3, SockTypes DEF AcceptDies
    <3>2. backlog' \in [Devices -> Seq(Writes)]
      <4>1. CASE backlog[d] # <<>> /\ backlog' = [backlog EXCEPT ![d] = Tail(@)]
        <5>1. Tail(backlog[d]) \in Seq(Writes)
          BY <1>1, <4>1, DequeueElements DEF DeviceTypeOK
        <5> QED
          BY <1>1, <4>1, <5>1 DEF DeviceTypeOK
      <4> QED
        BY <1>1, <2>3, <4>1 DEF AcceptDies, DeviceTypeOK
    <3> QED
      BY <1>1, <1>2, <2>3, <3>1, <3>2 DEF AcceptDies, DeviceTypeOK, SockStates, objectVars
  <2>4. CASE StrayAccept(d)
    BY <1>1, <1>2, <2>4 DEF StrayAccept, Closing, DeviceTypeOK, objectVars
  <2>5. CASE LateNotify(d)
    BY <1>1, <1>2, <2>5 DEF LateNotify, DeviceTypeOK, objectVars
  <2> QED
    BY <2>1, <2>2, <2>4, <2>5, <2>3 DEF AcceptStep
<1> QED
  BY <1>2, <1>5, <1>6, PoolRests

\* The process ends and starts again.
LEMMA RestartTypes == ASSUME TypeInv, Restart PROVE TypeInv'
<1>1. BusTypeOK /\ DeviceTypeOK
  BY DEF TypeInv
<1>2. BusTypeOK'
  <2>1. PICK n \in 0 .. Len(inqueue) :
          /\ SocketLost(n)
          /\ unanswered' = unanswered \union InSocket(n)
               \union ((ToSet(r_store) \union ToSet(m_taskqueue) \union Busy) \intersect Requests)
    BY DEF Restart, BusRestart
  <2>2. inqueue' \in Seq(Events) /\ unanswered' \in SUBSET Requests
    BY <1>1, <2>1, SocketTypes DEF BusTypeOK
  <2> QED
    BY <1>1, <2>2 DEF Restart, BusRestart, BusTypeOK
<1>3. DeviceTypeOK'
  BY <1>1 DEF Restart, DeviceRestart, DeviceTypeOK
<1>4. \A w \in Workers : Fits(pc'[w], job'[w], hand'[w])
  BY KindsOfEvents DEF Restart, DeviceRestart, Fits
<1>5. BusyThreads' = {}
  BY DEF Restart, DeviceRestart, BusyThreads
<1>6. IsFiniteSet(BusyThreads')
  BY <1>5, FS_EmptySet
<1> QED
  BY <1>2, <1>3, <1>4, <1>6 DEF TypeInv

LEMMA TypesStart == Init => TypeInv
<1> SUFFICES ASSUME Init PROVE TypeInv
  OBVIOUS
<1>1. IsABag(EmptyBag) /\ BagToSet(EmptyBag) = {}
  BY BagOfSet DEF EmptyBag
<1>2. BusTypeOK
  BY <1>1, EventBusAssumption DEF Init, BusInit, BusTypeOK
<1>3. DeviceTypeOK
  BY DEF Init, DeviceInit, DeviceTypeOK
<1>4. BusyThreads = {}
  BY DEF Init, DeviceInit, BusyThreads
<1>5. IsFiniteSet(BusyThreads)
  BY <1>4, FS_EmptySet
<1>6. \A w \in Workers : Fits(pc[w], job[w], hand[w])
  BY DEF Init, DeviceInit, Fits
<1> QED
  BY <1>2, <1>3, <1>5, <1>6 DEF TypeInv

\* All that can happen.
Happens ==
  \/ /\ (\E r \in Requests : Publish(r)) \/ Deliver \/ ConsumerDies \/ Dispatch
     /\ UNCHANGED deviceVars
  \/ \E w \in Workers : WorkerStep(w)
  \/ \E d \in Devices : AcceptStep(d) \/ AcceptDies(d)
  \/ Restart
  \/ UNCHANGED <<queueVars, answerVars, ioErrs, deviceVars>>

LEMMA WhatHappens == [Next]_vars => Happens
BY DEF Next, Carry, PoolThread, AcceptThread, Segfault, Crash, Happens, vars

LEMMA TypesKept == TypeInv /\ [Next]_vars => TypeInv'
<1> SUFFICES ASSUME TypeInv, Happens PROVE TypeInv'
  BY WhatHappens
<1>1. CASE UNCHANGED <<queueVars, answerVars, ioErrs, deviceVars>>
  BY <1>1 DEF TypeInv, BusTypeOK, DeviceTypeOK, BusyThreads, queueVars, answerVars, deviceVars,
              objectVars, listenVars, storeVars
<1> QED
  BY <1>1, CarryTypes, TaskTypes, ObjectTypes, TransferTypes, ReceiveTypes, AcceptTypes, RestartTypes
  DEF Happens, WorkerStep

LEMMA TypesAlways == Spec => []TypeInv
BY TypesStart, TypesKept, PTL DEF Spec

\* Types, for any number of threads, devices, requests and restarts.
THEOREM TypeCorrect == Spec => []TypeOK
<1> DEFINE Bounded == crashes \in 0 .. MaxCrashes
<1>1. Init => Bounded
  BY GatewayAssumption DEF Init
<1>2. Bounded /\ [Next]_vars => Bounded'
  BY GatewayAssumption
  DEF Next, Carry, PoolThread, AcceptThread, Segfault, Crash, vars
<1>3. TypeInv /\ Bounded => TypeOK
  BY DEF TypeInv, TypeOK
<1> QED
  BY <1>1, <1>2, <1>3, TypesAlways, PTL DEF Spec

-----------------------------------------------------------------------------
(* The fate of a request *)

Jobs(e) == {w \in Workers : job[w] = e}

\* The threads with event e: finitely many, and at most w more or less in its step.
LEMMA JobsCounted ==
  ASSUME TypeInv, NEW e \in Events
  PROVE  /\ IsFiniteSet(Jobs(e)) /\ Cardinality(Jobs(e)) \in Nat
         /\ Cardinality(Jobs(e)) = 0 <=> \A v \in Workers : job[v] # e
         /\ \A v \in Workers : job[v] = e /\ Cardinality(Jobs(e)) =< 1 =>
              \A u \in Workers : job[u] = e => u = v
<1>1. Jobs(e) \subseteq BusyThreads
  BY KindsOfEvents DEF TypeInv, Fits, Jobs, BusyThreads
<1>2. IsFiniteSet(Jobs(e))
  BY <1>1, FS_Subset DEF TypeInv
<1>3. Cardinality(Jobs(e)) \in Nat /\ (Cardinality(Jobs(e)) = 0 <=> Jobs(e) = {})
  BY <1>2, FS_CardinalityType, FS_EmptySet
<1>4. Jobs(e) = {} <=> \A v \in Workers : job[v] # e
  BY DEF Jobs
<1>5. ASSUME NEW v \in Workers, NEW u \in Workers, job[v] = e, job[u] = e, u # v,
             Cardinality(Jobs(e)) =< 1
      PROVE  FALSE
  <2>1. v \in Jobs(e) /\ u \in Jobs(e)
    BY <1>5 DEF Jobs
  <2>2. /\ IsFiniteSet(Jobs(e) \ {v}) /\ Cardinality(Jobs(e) \ {v}) = Cardinality(Jobs(e)) - 1
    BY <1>2, <2>1, FS_RemoveElement
  <2>3. Cardinality(Jobs(e) \ {v}) = 0
    BY <1>3, <1>5, <2>1, <2>2, FS_CardinalityType
  <2>4. Jobs(e) \ {v} = {}
    BY <2>2, <2>3, FS_EmptySet
  <2> QED
    BY <1>5, <2>1, <2>4
<1> QED
  BY <1>2, <1>3, <1>4, <1>5

LEMMA JobsStep ==
  ASSUME TypeInv, NEW w \in Workers, OthersStay(w), NEW e \in Events
  PROVE  /\ Cardinality(Jobs(e)) \in Nat /\ Cardinality(Jobs(e)') \in Nat
         /\ Cardinality(Jobs(e)') + (IF job[w] = e THEN 1 ELSE 0) =
              Cardinality(Jobs(e)) + (IF job'[w] = e THEN 1 ELSE 0)
<1>1. IsFiniteSet(Jobs(e))
  BY JobsCounted
<1>2. Jobs(e)' \ {w} = Jobs(e) \ {w}
  BY DEF Jobs, OthersStay
<1>3. /\ Cardinality(Jobs(e)) \in Nat /\ Cardinality(Jobs(e)') \in Nat
      /\ Cardinality(Jobs(e)') + (IF w \in Jobs(e) THEN 1 ELSE 0) =
           Cardinality(Jobs(e)) + (IF w \in Jobs(e)' THEN 1 ELSE 0)
  BY <1>1, <1>2, CountStep
<1>4. (w \in Jobs(e) <=> job[w] = e) /\ (w \in Jobs(e)' <=> job'[w] = e)
  BY DEF Jobs
<1> QED
  BY <1>3, <1>4

\* What OneFate says of request r.
OnePlace(r) ==
  Cardinality({r} \intersect unsent) + Cardinality({r} \intersect unanswered)
    + Times(r, inqueue) + Times(r, r_store) + Times(r, m_taskqueue)
    + Cardinality(Jobs(r)) + Answers(r) = 1

LEMMA OneFateByRequest == OneFate <=> \A r \in Requests : OnePlace(r)
BY DEF OneFate, OnePlace, Jobs

\* The terms of OnePlace are numbers, and two of them are 0 or 1.
LEMMA Terms ==
  ASSUME TypeInv, NEW r \in Requests
  PROVE  /\ Times(r, inqueue) \in Nat /\ Times(r, r_store) \in Nat
         /\ Times(r, m_taskqueue) \in Nat /\ Cardinality(Jobs(r)) \in Nat
         /\ Copies(<<r, "success">>, outqueue) \in Nat /\ Copies(<<r, "fail">>, outqueue) \in Nat
         /\ Answers(r) \in Nat
         /\ Cardinality({r} \intersect unsent) = IF r \in unsent THEN 1 ELSE 0
         /\ Cardinality({r} \intersect unanswered) = IF r \in unanswered THEN 1 ELSE 0
<1>1. r \in Events
  BY KindsOfEvents
<1>2. /\ Times(r, inqueue) \in Nat /\ Times(r, r_store) \in Nat /\ Times(r, m_taskqueue) \in Nat
  BY TimesType DEF TypeInv, BusTypeOK
<1>3. \A x : Copies(x, outqueue) \in Nat
  BY BagSum DEF TypeInv, BusTypeOK
<1> QED
  BY <1>1, <1>2, <1>3, JobsCounted, CountOne DEF Answers

\* READ events are no requests: a push, made or not, leaves the requests in the
\* IN queue as they are.
LEMMA PushedRequests ==
  ASSUME TypeInv, NEW r \in Requests, NEW d \in Devices, PushIn(d) \/ UNCHANGED inqueue
  PROVE  Times(r, inqueue') = Times(r, inqueue)
<1>1. r # d /\ d \in Events
  BY EventBusAssumption, KindsOfEvents
<1>2. Times(r, Append(inqueue, d)) = Times(r, inqueue)
  <2>1. Times(r, Append(inqueue, d)) = Times(r, inqueue) + 0
    BY <1>1, TimesAppend DEF TypeInv, BusTypeOK
  <2>2. Times(r, inqueue) \in Nat
    BY Terms
  <2> QED
    BY <2>1, <2>2
<1> QED
  BY <1>2 DEF PushIn

\* An answer more.
LEMMA AnswerMore ==
  ASSUME TypeInv, NEW r \in Requests, NEW e \in Events, NEW s \in {"success", "fail"},
         outqueue' = outqueue (+) SetToBag({<<e, s>>})
  PROVE  /\ Answers(r)' = Answers(r) + (IF e = r THEN 1 ELSE 0)
         /\ \A t : Copies(<<r, t>>, outqueue') =
                     Copies(<<r, t>>, outqueue) + (IF e = r /\ t = s THEN 1 ELSE 0)
<1>1. ASSUME NEW x, NEW y, y = <<e, s>>
      PROVE  Copies(x, outqueue') = Copies(x, outqueue) + (IF x = y THEN 1 ELSE 0)
  <2>1. IsABag(outqueue) /\ outqueue' = outqueue (+) SetToBag({y})
    BY <1>1 DEF TypeInv, BusTypeOK
  <2>2. IsABag(SetToBag({y})) /\ Copies(x, SetToBag({y})) = IF x = y THEN 1 ELSE 0
    BY BagOfSet
  <2> QED
    BY <2>1, <2>2, BagSum
<1>2. ASSUME NEW t
      PROVE  Copies(<<r, t>>, outqueue') =
               Copies(<<r, t>>, outqueue) + (IF e = r /\ t = s THEN 1 ELSE 0)
  <2>1. <<r, t>> = <<e, s>> <=> e = r /\ t = s
    OBVIOUS
  <2>2. Copies(<<r, t>>, outqueue') =
          Copies(<<r, t>>, outqueue) + (IF <<r, t>> = <<e, s>> THEN 1 ELSE 0)
    BY <1>1
  <2> QED
    BY <2>1, <2>2
<1>3. /\ Copies(<<r, "success">>, outqueue') =
           Copies(<<r, "success">>, outqueue) + (IF e = r /\ s = "success" THEN 1 ELSE 0)
      /\ Copies(<<r, "fail">>, outqueue') =
           Copies(<<r, "fail">>, outqueue) + (IF e = r /\ s = "fail" THEN 1 ELSE 0)
  BY <1>2
<1>4. Copies(<<r, "success">>, outqueue) \in Nat /\ Copies(<<r, "fail">>, outqueue) \in Nat
  BY Terms
<1>5. Answers(r)' = Answers(r) + (IF e = r THEN 1 ELSE 0)
  BY <1>3, <1>4 DEF Answers
<1> QED
  BY <1>2, <1>5

\* Only READ events move, or nothing.
LEMMA PlaceKept ==
  ASSUME TypeInv, NEW r \in Requests, OnePlace(r),
         UNCHANGED <<unsent, unanswered, r_store, m_taskqueue, job, outqueue>>,
         (\E d \in Devices : PushIn(d)) \/ UNCHANGED inqueue
  PROVE  OnePlace(r)'
<1>1. Times(r, inqueue') = Times(r, inqueue)
  BY PushedRequests
<1> QED
  BY <1>1 DEF OnePlace, Jobs, Answers

\* From the operator to the pool.
LEMMA PlaceOfCarried ==
  ASSUME TypeInv, NEW r \in Requests, OnePlace(r), UNCHANGED deviceVars,
         (\E e \in Requests : Publish(e)) \/ Deliver \/ ConsumerDies \/ Dispatch
  PROVE  OnePlace(r)'
<1>1. UNCHANGED <<job, outqueue>> /\ (ConsumerDies \/ UNCHANGED unanswered)
  BY DEF deviceVars, answerVars, Publish, Deliver, ConsumerDies, Dispatch
<1>2. Jobs(r)' = Jobs(r) /\ Answers(r)' = Answers(r)
  BY <1>1 DEF Jobs, Answers
<1>3. /\ Times(r, inqueue) \in Nat /\ Times(r, r_store) \in Nat /\ Times(r, m_taskqueue) \in Nat
      /\ Cardinality(Jobs(r)) \in Nat /\ Answers(r) \in Nat
      /\ Cardinality({r} \intersect unsent) \in {0, 1}
      /\ Cardinality({r} \intersect unanswered) \in {0, 1}
  BY Terms
<1>4. inqueue \in Seq(Events) /\ r_store \in Seq(Events) /\ m_taskqueue \in Seq(Events)
  BY DEF TypeInv, BusTypeOK
<1>5. ASSUME NEW e \in Requests, Publish(e) PROVE OnePlace(r)'
  <2>1. Times(r, inqueue') = Times(r, inqueue) + (IF e = r THEN 1 ELSE 0)
    BY <1>4, <1>5, TimesAppend, KindsOfEvents DEF Publish
  <2>2. /\ e \in unsent /\ unsent' = unsent \ {e}
        /\ UNCHANGED <<r_store, m_taskqueue, unanswered>>
    BY <1>5 DEF Publish, answerVars
  <2>3. Cardinality({r} \intersect unsent) =
          Cardinality({r} \intersect unsent') + (IF e = r THEN 1 ELSE 0)
        /\ Cardinality({r} \intersect unsent') \in {0, 1}
    BY <2>2, CountOne
  <2> QED
    BY <1>1, <1>2, <1>3, <2>1, <2>2, <2>3 DEF OnePlace
<1>6. CASE Deliver
  <2>1. inqueue # <<>> /\ Head(inqueue) \in Events
    BY <1>4, <1>6, DequeueElements DEF Deliver
  <2>2. /\ r_store' = Append(r_store, Head(inqueue)) /\ inqueue' = Tail(inqueue)
        /\ UNCHANGED <<unsent, m_taskqueue, unanswered>>
    BY <1>6 DEF Deliver, answerVars
  <2>3. Times(r, r_store') = Times(r, r_store) + (IF Head(inqueue) = r THEN 1 ELSE 0)
    BY <1>4, <2>1, <2>2, TimesAppend
  <2>4. /\ Times(r, inqueue) = Times(r, inqueue') + (IF Head(inqueue) = r THEN 1 ELSE 0)
        /\ Times(r, inqueue') \in Nat
    BY <1>4, <2>1, <2>2, TimesTail, TimesType, DequeueElements
  <2>5. Times(r, inqueue') + Times(r, r_store') = Times(r, inqueue) + Times(r, r_store)
    BY <1>3, <2>3, <2>4
  <2>6. Times(r, r_store') \in Nat
    BY <1>3, <2>3
  <2>7. /\ Cardinality({r} \intersect unsent') = Cardinality({r} \intersect unsent)
        /\ Cardinality({r} \intersect unanswered') = Cardinality({r} \intersect unanswered)
        /\ Times(r, m_taskqueue') = Times(r, m_taskqueue)
    BY <1>1, <2>2
  <2> QED
    BY <1>2, <1>3, <2>4, <2>5, <2>6, <2>7 DEF OnePlace
<1>7. CASE ConsumerDies
  <2>1. PICK n \in 0 .. Len(inqueue) : SocketLost(n) /\ unanswered' = unanswered \union InSocket(n)
    BY <1>7 DEF ConsumerDies
  <2>2. PICK t \in Nat : Times(r, inqueue) = Times(r, inqueue') + t
                         /\ (t = 0 <=> r \notin InSocket(n))
    BY <2>1, SocketTypes DEF TypeInv
  <2>3. inqueue' \in Seq(Events)
    BY <2>1, SocketTypes DEF TypeInv
  <2>4. Times(r, inqueue') \in Nat
    BY <2>3, TimesType
  <2>5. Cardinality({r} \intersect unanswered') = Cardinality({r} \intersect unanswered) + t
    <3>1. Cardinality({r} \intersect unanswered) + t =< 1
      <4>1. Cardinality({r} \intersect unsent) \in Nat /\ Cardinality({r} \intersect unanswered) \in Nat
        BY <1>3
      <4>2. PICK x \in Nat, y \in Nat, i \in Nat :
              /\ x = Cardinality({r} \intersect unsent) /\ y = Cardinality({r} \intersect unanswered)
              /\ i = Times(r, inqueue')
        BY <2>4, <4>1
      <4>3. PICK b \in Nat, c \in Nat, j \in Nat, a \in Nat :
              /\ b = Times(r, r_store) /\ c = Times(r, m_taskqueue)
              /\ j = Cardinality(Jobs(r)) /\ a = Answers(r)
        BY <1>3
      <4>4. x + y + (i + t) + b + c + j + a = 1
        BY <2>2, <4>2, <4>3 DEF OnePlace
      <4>5. y + t =< 1
        BY <4>4
      <4> QED
        BY <4>2, <4>5
    <3>2. /\ Cardinality({r} \intersect unanswered) = IF r \in unanswered THEN 1 ELSE 0
          /\ Cardinality({r} \intersect unanswered') = IF r \in unanswered' THEN 1 ELSE 0
      BY CountOne
    <3> QED
      BY <2>1, <2>2, <3>1, <3>2
  <2>6. UNCHANGED <<unsent, r_store, m_taskqueue>>
    BY <1>7 DEF ConsumerDies
  <2>7. /\ Cardinality({r} \intersect unsent') = Cardinality({r} \intersect unsent)
        /\ Times(r, r_store') = Times(r, r_store) /\ Times(r, m_taskqueue') = Times(r, m_taskqueue)
    BY <2>6
  <2>8. Times(r, inqueue') + Cardinality({r} \intersect unanswered') =
          Times(r, inqueue) + Cardinality({r} \intersect unanswered)
    BY <1>3, <2>2, <2>4, <2>5
  <2>9. Cardinality({r} \intersect unanswered') \in Nat
    BY <1>3, <2>5
  <2> QED
    BY <1>2, <1>3, <2>4, <2>7, <2>8, <2>9 DEF OnePlace
<1>8. CASE Dispatch
  <2>1. r_store # <<>> /\ Head(r_store) \in Events
    BY <1>4, <1>8, DequeueElements DEF Dispatch
  <2>2. /\ m_taskqueue' = Append(m_taskqueue, Head(r_store)) /\ r_store' = Tail(r_store)
        /\ UNCHANGED <<unsent, inqueue, unanswered>>
    BY <1>8 DEF Dispatch, answerVars
  <2>3. Times(r, m_taskqueue') = Times(r, m_taskqueue) + (IF Head(r_store) = r THEN 1 ELSE 0)
    BY <1>4, <2>1, <2>2, TimesAppend
  <2>4. /\ Times(r, r_store) = Times(r, r_store') + (IF Head(r_store) = r THEN 1 ELSE 0)
        /\ Times(r, r_store') \in Nat
    BY <1>4, <2>1, <2>2, TimesTail, TimesType, DequeueElements
  <2>5. Times(r, r_store') + Times(r, m_taskqueue') = Times(r, r_store) + Times(r, m_taskqueue)
    BY <1>3, <2>3, <2>4
  <2>6. Times(r, m_taskqueue') \in Nat
    BY <1>3, <2>3
  <2>7. /\ Cardinality({r} \intersect unsent') = Cardinality({r} \intersect unsent)
        /\ Cardinality({r} \intersect unanswered') = Cardinality({r} \intersect unanswered)
        /\ Times(r, inqueue') = Times(r, inqueue)
    BY <1>1, <2>2
  <2> QED
    BY <1>2, <1>3, <2>4, <2>5, <2>6, <2>7 DEF OnePlace
<1> QED
  BY <1>5, <1>6, <1>7, <1>8

LEMMA PlaceOfTask ==
  ASSUME TypeInv, NEW r \in Requests, OnePlace(r), NEW w \in Workers,
         Take(w) \/ Respond(w) \/ CreateObject(w)
  PROVE  OnePlace(r)'
<1>1. /\ Times(r, inqueue) \in Nat /\ Times(r, r_store) \in Nat /\ Times(r, m_taskqueue) \in Nat
      /\ Cardinality(Jobs(r)) \in Nat /\ Answers(r) \in Nat
      /\ Cardinality({r} \intersect unsent) \in {0, 1}
      /\ Cardinality({r} \intersect unanswered) = IF r \in unanswered THEN 1 ELSE 0
  BY Terms
<1>2. /\ pc \in [Workers -> Places] /\ job \in [Workers -> Events \union {Nil}]
      /\ r \in Events /\ r # Nil /\ Fits(pc[w], job[w], hand[w])
  BY KindsOfEvents DEF TypeInv, DeviceTypeOK, Places
<1>3. CASE Take(w)
  <2> DEFINE h == Head(m_taskqueue)
  <2>1. /\ m_taskqueue \in Seq(Events) /\ m_taskqueue # <<>> /\ h \in Events
        /\ Tail(m_taskqueue) \in Seq(Events)
    BY <1>3, DequeueElements DEF Take, TypeInv, BusTypeOK
  <2>2. /\ Times(r, m_taskqueue) = Times(r, Tail(m_taskqueue)) + (IF h = r THEN 1 ELSE 0)
        /\ Times(r, Tail(m_taskqueue)) \in Nat
    BY <2>1, TimesTail, TimesType
  <2>3. OthersStay(w) /\ job'[w] = h /\ job[w] = Nil /\ m_taskqueue' = Tail(m_taskqueue)
    BY <1>2, <1>3 DEF Take, OthersStay, storeVars, Fits
  <2>4. /\ Cardinality(Jobs(r)') + (IF job[w] = r THEN 1 ELSE 0) =
             Cardinality(Jobs(r)) + (IF job'[w] = r THEN 1 ELSE 0)
        /\ Cardinality(Jobs(r)') \in Nat
    BY <1>2, <2>3, JobsStep
  <2> HIDE DEF h
  <2>5. Times(r, m_taskqueue') + Cardinality(Jobs(r)') = Times(r, m_taskqueue) + Cardinality(Jobs(r))
        /\ Times(r, m_taskqueue') \in Nat
    BY <1>1, <1>2, <2>2, <2>3, <2>4
  <2>6. /\ Cardinality({r} \intersect unsent') = Cardinality({r} \intersect unsent)
        /\ Cardinality({r} \intersect unanswered') = Cardinality({r} \intersect unanswered)
        /\ Times(r, inqueue') = Times(r, inqueue) /\ Times(r, r_store') = Times(r, r_store)
        /\ Answers(r)' = Answers(r)
    BY <1>3 DEF Take, answerVars, Answers
  <2> QED
    BY <1>1, <2>4, <2>5, <2>6 DEF OnePlace
<1>4. ASSUME Respond(w) \/ CreateObject(w), Free(w),
             \/ /\ outqueue' = outqueue (+) SetToBag({<<job[w], pc[w]>>})
                /\ pc[w] \in {"success", "fail"} /\ UNCHANGED unanswered
             \/ /\ unanswered' = unanswered \union ({job[w]} \intersect Requests)
                /\ UNCHANGED outqueue
      PROVE  OnePlace(r)'
  <2>1. job[w] \in Events /\ job[w] # Nil
    BY <1>4, Working DEF Respond, CreateObject
  <2>2. UNCHANGED <<unsent, inqueue, r_store, m_taskqueue, hand>>
    BY <1>4 DEF Respond, CreateObject, queueVars, storeVars
  <2>3. OthersStay(w) /\ job'[w] = Nil
    BY <1>2, <1>4, <2>2 DEF Free, OthersStay
  <2>4. /\ Cardinality(Jobs(r)') + (IF job[w] = r THEN 1 ELSE 0) =
             Cardinality(Jobs(r)) + (IF job'[w] = r THEN 1 ELSE 0)
        /\ Cardinality(Jobs(r)') \in Nat
    BY <1>2, <2>3, JobsStep
  <2>5. Cardinality(Jobs(r)) = Cardinality(Jobs(r)') + (IF job[w] = r THEN 1 ELSE 0)
    BY <1>1, <1>2, <2>3, <2>4
  <2>6. /\ Cardinality({r} \intersect unsent') = Cardinality({r} \intersect unsent)
        /\ Times(r, inqueue') = Times(r, inqueue) /\ Times(r, r_store') = Times(r, r_store)
        /\ Times(r, m_taskqueue') = Times(r, m_taskqueue)
    BY <2>2
  <2>7. CASE /\ outqueue' = outqueue (+) SetToBag({<<job[w], pc[w]>>})
             /\ pc[w] \in {"success", "fail"} /\ UNCHANGED unanswered
    <3>1. Answers(r)' = Answers(r) + (IF job[w] = r THEN 1 ELSE 0)
      BY <2>1, <2>7, AnswerMore
    <3>2. Cardinality({r} \intersect unanswered') = Cardinality({r} \intersect unanswered)
      BY <2>7
    <3> QED
      BY <1>1, <2>4, <2>5, <2>6, <3>1, <3>2 DEF OnePlace
  <2>8. CASE /\ unanswered' = unanswered \union ({job[w]} \intersect Requests)
             /\ UNCHANGED outqueue
    <3>1. Answers(r)' = Answers(r)
      BY <2>8 DEF Answers
    <3>2. Cardinality({r} \intersect unanswered') = IF r \in unanswered' THEN 1 ELSE 0
      BY CountOne
    <3>3. job[w] = r => Cardinality({r} \intersect unanswered) = 0
      BY <1>1, <2>4, <2>5 DEF OnePlace
    <3>4. Cardinality({r} \intersect unanswered') =
            Cardinality({r} \intersect unanswered) + (IF job[w] = r THEN 1 ELSE 0)
      BY <1>1, <2>8, <3>2, <3>3
    <3> QED
      BY <1>1, <2>4, <2>5, <2>6, <3>1, <3>4 DEF OnePlace
  <2> QED
    BY <1>4, <2>7, <2>8
<1>5. CASE Respond(w)
  BY <1>4, <1>5 DEF Respond, PushOut
<1>6. CASE CreateObject(w)
  <2>1. CASE Free(w) /\ unanswered' = unanswered \union {job[w]}
    <3>1. job[w] \in Requests /\ UNCHANGED outqueue
      BY <1>2, <1>6 DEF CreateObject, Fits
    <3> QED
      BY <1>4, <1>6, <2>1, <3>1
  <2>2. CASE UNCHANGED <<job, unanswered>>
    <3>1. UNCHANGED <<unsent, r_store, m_taskqueue, outqueue, inqueue>>
      BY <1>6 DEF CreateObject, queueVars
    <3> QED
      BY <2>2, <3>1, PlaceKept
  <2> QED
    BY <1>6, <2>1, <2>2 DEF CreateObject
<1> QED
  BY <1>3, <1>5, <1>6

\* What the process had received and not answered is given up with it.
LEMMA PlaceOfRestart ==
  ASSUME TypeInv, NEW r \in Requests, OnePlace(r), Restart
  PROVE  OnePlace(r)'
<1>1. /\ Times(r, inqueue) \in Nat /\ Times(r, r_store) \in Nat /\ Times(r, m_taskqueue) \in Nat
      /\ Cardinality(Jobs(r)) \in Nat /\ Answers(r) \in Nat
      /\ Cardinality({r} \intersect unsent) \in {0, 1}
      /\ Cardinality({r} \intersect unanswered) = IF r \in unanswered THEN 1 ELSE 0
  BY Terms
<1>2. r \in Events /\ r # Nil
  BY KindsOfEvents
<1>3. /\ Times(r, r_store) = 0 <=> r \notin ToSet(r_store)
      /\ Times(r, m_taskqueue) = 0 <=> r \notin ToSet(m_taskqueue)
  BY TimesType DEF TypeInv, BusTypeOK
<1>4. Cardinality(Jobs(r)) = 0 <=> r \notin Busy
  <2>1. r \in Busy <=> \E v \in Workers : job[v] = r
    BY <1>2 DEF Busy
  <2> QED
    BY <1>2, <2>1, JobsCounted
<1>5. /\ r_store' = <<>> /\ m_taskqueue' = <<>> /\ UNCHANGED <<unsent, outqueue>>
      /\ \A v \in Workers : job'[v] = Nil
  BY DEF Restart, BusRestart, DeviceRestart
<1>6. PICK n \in 0 .. Len(inqueue) :
         /\ SocketLost(n)
         /\ unanswered' = unanswered \union InSocket(n)
              \union ((ToSet(r_store) \union ToSet(m_taskqueue) \union Busy) \intersect Requests)
  BY DEF Restart, BusRestart
<1>7. PICK t \in Nat : Times(r, inqueue) = Times(r, inqueue') + t
                         /\ (t = 0 <=> r \notin InSocket(n))
  BY <1>6, SocketTypes DEF TypeInv
<1>8. inqueue' \in Seq(Events)
  BY <1>6, SocketTypes DEF TypeInv
<1>9. Times(r, inqueue') \in Nat
  BY <1>8, TimesType
<1>10. r \in unanswered' <=> r \in unanswered \/ r \in InSocket(n) \/ r \in ToSet(r_store)
                               \/ r \in ToSet(m_taskqueue) \/ r \in Busy
  BY <1>6
<1>11. Jobs(r)' = {}
  BY <1>2, <1>5 DEF Jobs
<1>12. Cardinality(Jobs(r)') = 0 /\ Times(r, r_store') = 0 /\ Times(r, m_taskqueue') = 0
  BY <1>5, <1>11, FS_EmptySet, TimesEmpty
<1>13. /\ Cardinality({r} \intersect unsent') = Cardinality({r} \intersect unsent)
      /\ Answers(r)' = Answers(r)
  BY <1>5 DEF Answers
<1>14. Cardinality({r} \intersect unanswered') = IF r \in unanswered' THEN 1 ELSE 0
  BY CountOne
<1>15. PICK x \in Nat, y \in Nat :
         x = Cardinality({r} \intersect unsent) /\ y = Cardinality({r} \intersect unanswered)
  BY <1>1
<1>16. PICK b \in Nat, c \in Nat, j \in Nat, a \in Nat, i \in Nat :
         /\ b = Times(r, r_store) /\ c = Times(r, m_taskqueue)
         /\ j = Cardinality(Jobs(r)) /\ a = Answers(r) /\ i = Times(r, inqueue')
  BY <1>1, <1>9
<1>17. x + y + (i + t) + b + c + j + a = 1
  BY <1>15, <1>7, <1>16 DEF OnePlace
<1>18. PICK m \in Nat : m = y + t + b + c + j
  OBVIOUS
<1>19. x + m + i + a = 1
  BY <1>17, <1>18
<1>20. m = 0 \/ m = 1
  BY <1>19
<1>21. m = 0 <=> y = 0 /\ t = 0 /\ b = 0 /\ c = 0 /\ j = 0
  BY <1>18
<1>22. m = 0 <=> /\ r \notin unanswered /\ t = 0 /\ Times(r, r_store) = 0
                 /\ Times(r, m_taskqueue) = 0 /\ Cardinality(Jobs(r)) = 0
  BY <1>1, <1>15, <1>16, <1>21
<1>23. m = 0 <=> r \notin unanswered'
  BY <1>3, <1>4, <1>7, <1>10, <1>22
<1>24. Cardinality({r} \intersect unanswered') = m
  BY <1>14, <1>20, <1>23
<1>25. Cardinality({r} \intersect unsent') = x /\ Answers(r)' = a
  BY <1>13, <1>15, <1>16
<1>26. OnePlace(r)' <=> x + m + i + 0 + 0 + 0 + a = 1
  BY <1>12, <1>16, <1>24, <1>25 DEF OnePlace
<1> QED
  BY <1>19, <1>26

LEMMA OnePlaceKept ==
  ASSUME TypeInv, NEW r \in Requests, OnePlace(r), [Next]_vars
  PROVE  OnePlace(r)'
<1>1. ASSUME UNCHANGED <<queueVars, answerVars, job>> PROVE OnePlace(r)'
  BY <1>1, PlaceKept DEF queueVars, answerVars
<1>2. ASSUME NEW w \in Workers, WorkerStep(w) PROVE OnePlace(r)'
  <2>1. CASE Test(w) \/ SetOpen(w) \/ DeleteObject(w) \/ ResetDevice(w)
    BY <1>1, <2>1 DEF Test, SetOpen, DeleteObject, ResetDevice
  <2>2. CASE Connect(w) \/ ReadOk(w) \/ SendHeader(w) \/ SendData(w) \/ Flood(w)
    BY <1>1, <2>2 DEF Connect, ReadOk, SendHeader, SendData, Flood
  <2>3. CASE StartReceive(w) \/ OpenOutput(w) \/ FinishReceive(w)
    BY <1>1, <2>3 DEF StartReceive, OpenOutput, FinishReceive
  <2> QED
    BY <1>2, <2>1, <2>2, <2>3, PlaceOfTask DEF WorkerStep
<1>3. ASSUME NEW d \in Devices, AcceptStep(d) \/ AcceptDies(d) PROVE OnePlace(r)'
  <2>1. UNCHANGED <<unsent, r_store, m_taskqueue, answerVars, job>>
    BY <1>3 DEF AcceptStep, Accept, Notify, StrayAccept, LateNotify, AcceptDies, queueVars
  <2>2. PushIn(d) \/ UNCHANGED inqueue
    BY <1>3 DEF AcceptStep, Accept, Notify, StrayAccept, LateNotify, AcceptDies, queueVars
  <2> QED
    BY <2>1, <2>2, PlaceKept DEF answerVars
<1>4. CASE UNCHANGED <<queueVars, answerVars, ioErrs, deviceVars>>
  BY <1>1, <1>4 DEF deviceVars
<1> QED
  BY <1>2, <1>3, <1>4, WhatHappens, PlaceOfCarried, PlaceOfRestart DEF Happens

\* A request is in one place or has one fate: for any number of devices, threads,
\* failures and deaths of the process, none is executed or answered twice, and none
\* disappears.
THEOREM FatesAlways == Spec => []OneFate
<1>1. Init => OneFate
  <2> SUFFICES ASSUME Init, NEW r \in Requests PROVE OnePlace(r)
    BY OneFateByRequest
  <2>1. /\ unsent = Requests /\ unanswered = {} /\ inqueue = <<>> /\ r_store = <<>>
        /\ m_taskqueue = <<>> /\ outqueue = EmptyBag
    BY DEF Init, BusInit
  <2>2. Cardinality({r} \intersect unsent) = 1 /\ Cardinality({r} \intersect unanswered) = 0
    BY <2>1, CountOne
  <2>3. Jobs(r) = {}
    BY KindsOfEvents DEF Init, DeviceInit, Jobs
  <2>4. \A x : Copies(x, EmptyBag) = 0
    BY BagOfSet DEF EmptyBag
  <2>5. Answers(r) = 0 /\ Cardinality(Jobs(r)) = 0
    BY <2>1, <2>3, <2>4, FS_EmptySet DEF Answers
  <2>6. Times(r, inqueue) = 0 /\ Times(r, r_store) = 0 /\ Times(r, m_taskqueue) = 0
    BY <2>1, TimesEmpty
  <2> QED
    BY <2>2, <2>5, <2>6 DEF OnePlace
<1>2. TypeInv /\ OneFate /\ [Next]_vars => OneFate'
  <2> SUFFICES ASSUME TypeInv, OneFate, [Next]_vars, NEW r \in Requests PROVE OnePlace(r)'
    BY OneFateByRequest DEF OneFate, OnePlace, Jobs
  <2>1. OnePlace(r)
    BY OneFateByRequest
  <2> QED
    BY <2>1, OnePlaceKept
<1> QED
  BY <1>1, <1>2, TypesAlways, PTL DEF Spec

-----------------------------------------------------------------------------
(* What a request has behind it *)

\* A pool thread has come to one of the places P with request r, or had done so when
\* it answered, or gave up.
Past(r, P) ==
  \/ \E w \in Workers : job[w] = r /\ pc[w] \in P
  \/ \E s \in P : BagIn(<<r, s>>, outqueue)
  \/ r \in unanswered

\* The places after connect(), the only one after a whole file has been sent, and
\* those of a client that could not open its file.
Later == {"getok", "header", "data", "flood", "success", "fail"}
Done == {"success"}
Doomed == {"flood", "fail"}

LEMMA StepsAreOwn ==
  ASSUME TypeInv, NEW w \in Workers, WorkerStep(w)
  PROVE  OthersStay(w)
<1>1. /\ pc \in [Workers -> Places] /\ job \in [Workers -> Events \union {Nil}]
      /\ hand \in [Workers -> Writes \union {Nil}]
  BY DEF TypeInv, DeviceTypeOK, Places
<1>2. \E p : pc' = [pc EXCEPT ![w] = p]
  BY DEF WorkerStep, Take, Test, Respond, CreateObject, SetOpen, DeleteObject, ResetDevice,
         Connect, ReadOk, SendHeader, SendData, Flood, Send, StartReceive, WriteOk,
         OpenOutput, FinishReceive, EndReceive, Goto, Free
<1>3. job' = job \/ \E j : job' = [job EXCEPT ![w] = j]
  BY DEF WorkerStep, Take, Test, Respond, CreateObject, SetOpen, DeleteObject, ResetDevice,
         Connect, ReadOk, SendHeader, SendData, Flood, StartReceive, OpenOutput, FinishReceive, Free
<1>4. hand' = hand \/ \E j : hand' = [hand EXCEPT ![w] = j]
  BY DEF WorkerStep, Take, Test, Respond, CreateObject, SetOpen, DeleteObject, ResetDevice,
         Connect, ReadOk, SendHeader, SendData, Flood, StartReceive, TakeConnection,
         OpenOutput, FinishReceive, EndReceive, storeVars
<1> QED
  BY <1>1, <1>2, <1>3, <1>4 DEF OthersStay

\* No answer is taken back.
LEMMA AnswersGrow ==
  ASSUME TypeInv, [Next]_vars
  PROVE  /\ unanswered \subseteq unanswered'
         /\ \A x : BagIn(x, outqueue) => BagIn(x, outqueue')
<1>1. ASSUME NEW e, NEW s, PushOut(e, s)
      PROVE  /\ unanswered \subseteq unanswered'
             /\ \A x : BagIn(x, outqueue) => BagIn(x, outqueue')
  <2>1. IsABag(outqueue)
    BY DEF TypeInv, BusTypeOK
  <2>2. IsABag(SetToBag({<<e, s>>}))
    BY BagOfSet
  <2>3. BagToSet(outqueue) \subseteq BagToSet(outqueue (+) SetToBag({<<e, s>>}))
    BY <2>1, <2>2, BagSum
  <2> QED
    BY <1>1, <2>3 DEF PushOut, BagIn
<1>2. CASE /\ (\E r \in Requests : Publish(r)) \/ Deliver \/ ConsumerDies \/ Dispatch
  BY <1>2 DEF Publish, Deliver, ConsumerDies, Dispatch, answerVars
<1>3. ASSUME NEW w \in Workers, WorkerStep(w)
      PROVE  /\ unanswered \subseteq unanswered'
             /\ \A x : BagIn(x, outqueue) => BagIn(x, outqueue')
  <2>1. CASE Respond(w)
    BY <1>1, <2>1 DEF Respond
  <2>2. CASE CreateObject(w)
    BY <2>2 DEF CreateObject
  <2>3. CASE UNCHANGED answerVars
    BY <2>3 DEF answerVars
  <2> QED
    BY <1>3, <2>1, <2>2, <2>3
    DEF WorkerStep, Take, Test, SetOpen, DeleteObject, ResetDevice,
        Connect, ReadOk, SendHeader, SendData, Flood, StartReceive, OpenOutput, FinishReceive
<1>4. ASSUME NEW d \in Devices, AcceptStep(d) \/ AcceptDies(d) PROVE UNCHANGED answerVars
  BY <1>4 DEF AcceptStep, Accept, Notify, StrayAccept, LateNotify, AcceptDies
<1>5. CASE Restart
  BY <1>5 DEF Restart, BusRestart
<1> QED
  BY <1>2, <1>3, <1>4, <1>5, WhatHappens DEF Happens, answerVars

\* What is past stays past.
LEMMA PastStays ==
  ASSUME TypeInv, [Next]_vars, NEW r \in Writes, NEW P \in {Later, Done, Doomed}, Past(r, P)
  PROVE  Past(r, P)'
<1>1. CASE r \in unanswered \/ \E s \in P : BagIn(<<r, s>>, outqueue)
  BY <1>1, AnswersGrow DEF Past
<1>2. ASSUME NEW v \in Workers, job[v] = r, pc[v] \in P PROVE Past(r, P)'
  <2>1. CASE UNCHANGED <<job, pc>>
    BY <1>2, <2>1 DEF Past
  <2>2. CASE Restart
    <3>1. r \in Busy /\ r \in Requests
      BY <1>2, KindsOfEvents DEF Busy
    <3> QED
      BY <2>2, <3>1 DEF Restart, BusRestart, Past
  <2>3. ASSUME NEW w \in Workers, WorkerStep(w), w # v PROVE Past(r, P)'
    <3>1. job'[v] = r /\ pc'[v] \in P
      BY <1>2, <2>3, StepsAreOwn DEF OthersStay
    <3> QED
      BY <3>1 DEF Past
  <2>4. CASE WorkerStep(v)
    <3>1. pc \in [Workers -> Places] /\ r \in Requests /\ r \in Events
      BY KindsOfEvents DEF TypeInv, DeviceTypeOK, Places
    <3>2. CASE Respond(v)
      <4>1. CASE outqueue' = outqueue (+) SetToBag({<<r, pc[v]>>})
        <5>1. IsABag(outqueue) /\ IsABag(SetToBag({<<r, pc[v]>>}))
          BY BagOfSet DEF TypeInv, BusTypeOK
        <5>2. <<r, pc[v]>> \in BagToSet(outqueue')
          BY <4>1, <5>1, BagSum, BagOfSet
        <5> QED
          BY <1>2, <5>2 DEF Past, BagIn
      <4>2. CASE r \in unanswered'
        BY <4>2 DEF Past
      <4> QED
        BY <1>2, <3>1, <3>2, <4>1, <4>2 DEF Respond, PushOut
    <3>3. CASE ReadOk(v) \/ SendHeader(v) \/ SendData(v)
      <4>1. pc[v] \in {"getok", "header", "data"} /\ P = Later
        BY <1>2, <3>3 DEF ReadOk, SendHeader, SendData, Done, Doomed
      <4>2. \E p \in Later : pc' = [pc EXCEPT ![v] = p]
        BY <3>3 DEF ReadOk, SendHeader, SendData, Send, Goto, Later
      <4>3. job' = job
        BY <3>3 DEF ReadOk, SendHeader, SendData
      <4>4. pc'[v] \in P /\ job'[v] = r
        BY <1>2, <3>1, <4>1, <4>2, <4>3
      <4> QED
        BY <4>4 DEF Past
    <3>4. CASE Flood(v)
      <4>1. P \in {Later, Doomed} /\ pc' = [pc EXCEPT ![v] = "fail"] /\ job' = job
        BY <1>2, <3>4 DEF Flood, Goto, Done
      <4>2. pc'[v] \in P /\ job'[v] = r
        BY <1>2, <3>1, <4>1 DEF Later, Doomed
      <4> QED
        BY <4>2 DEF Past
    <3>5. pc[v] \in Later
      BY <1>2 DEF Later, Done, Doomed
    <3> QED
      BY <2>4, <3>2, <3>3, <3>5, <3>4
      DEF WorkerStep, Later, Take, Test, CreateObject, SetOpen, DeleteObject, ResetDevice, Connect,
          StartReceive, OpenOutput, FinishReceive
  <2>5. CASE /\ (\E e \in Requests : Publish(e)) \/ Deliver \/ ConsumerDies \/ Dispatch
             /\ UNCHANGED deviceVars
    BY <2>1, <2>5 DEF deviceVars
  <2>6. ASSUME NEW d \in Devices, AcceptStep(d) \/ AcceptDies(d) PROVE UNCHANGED <<job, pc>>
    BY <2>6 DEF AcceptStep, Accept, Notify, StrayAccept, LateNotify, AcceptDies
  <2>7. CASE UNCHANGED <<queueVars, answerVars, ioErrs, deviceVars>>
    BY <2>1, <2>7 DEF deviceVars
  <2> QED
    BY <2>1, <2>2, <2>3, <2>4, <2>5, <2>6, <2>7, WhatHappens DEF Happens
<1> QED
  BY <1>1, <1>2 DEF Past

\* A request is with one thread at most, and not with one if it is done.
LEMMA PastAlone ==
  ASSUME TypeInv, OneFate, NEW r \in Writes, NEW P \in {Later, Done, Doomed}, Past(r, P)
  PROVE  /\ \A w \in Workers : job[w] = r => pc[w] \in P
         /\ P = Done => ~BagIn(<<r, "fail">>, outqueue)
         /\ P = Doomed => ~BagIn(<<r, "success">>, outqueue)
<1>1. r \in Requests /\ r \in Events
  BY KindsOfEvents
<1>2. OnePlace(r)
  BY <1>1, OneFateByRequest
<1>3. /\ Times(r, inqueue) \in Nat /\ Times(r, r_store) \in Nat
      /\ Times(r, m_taskqueue) \in Nat /\ Cardinality(Jobs(r)) \in Nat
      /\ Copies(<<r, "success">>, outqueue) \in Nat /\ Copies(<<r, "fail">>, outqueue) \in Nat
      /\ Cardinality({r} \intersect unsent) \in {0, 1}
      /\ Cardinality({r} \intersect unanswered) = IF r \in unanswered THEN 1 ELSE 0
  BY <1>1, Terms
<1> DEFINE u == Cardinality({r} \intersect unanswered)
           j == Cardinality(Jobs(r))
           s == Copies(<<r, "success">>, outqueue)
           f == Copies(<<r, "fail">>, outqueue)
<1>4. /\ u \in Nat /\ j \in Nat /\ s \in Nat /\ f \in Nat /\ u + j + s + f =< 1
      /\ r \in unanswered => u = 1
  BY <1>2, <1>3 DEF OnePlace, Answers
<1>5. \A w \in Workers : job[w] = r => j # 0
  BY <1>1, JobsCounted
<1>6. (BagIn(<<r, "success">>, outqueue) => s # 0) /\ (BagIn(<<r, "fail">>, outqueue) => f # 0)
  <2>1. \A x \in DOMAIN outqueue : outqueue[x] \in Nat /\ outqueue[x] > 0
    BY DEF TypeInv, BusTypeOK, IsABag
  <2> QED
    BY <2>1 DEF Copies, BagIn, BagToSet
<1> HIDE DEF u, j, s, f
<1>7. \A t \in P : BagIn(<<r, t>>, outqueue) => t \in {"success", "fail"}
  BY DEF TypeInv, BusTypeOK, BagIn
<1>8. CASE r \in unanswered
  BY <1>4, <1>5, <1>6, <1>8
<1>9. CASE \E t \in P : BagIn(<<r, t>>, outqueue)
  <2>1. s + f # 0 /\ (P = Done => s # 0) /\ (P = Doomed => f # 0)
    BY <1>4, <1>6, <1>7, <1>9 DEF Done, Doomed
  <2> QED
    BY <1>4, <1>5, <1>6, <2>1
<1>10. ASSUME NEW v \in Workers, job[v] = r, pc[v] \in P
       PROVE  /\ \A w \in Workers : job[w] = r => pc[w] \in P
              /\ ~BagIn(<<r, "fail">>, outqueue) /\ ~BagIn(<<r, "success">>, outqueue)
  <2>1. j = 1 /\ f = 0 /\ s = 0
    BY <1>4, <1>5, <1>10
  <2>2. \A w \in Workers : job[w] = r => w = v
    BY <1>1, <1>3, <1>10, <2>1, JobsCounted DEF j
  <2> QED
    BY <1>6, <1>10, <2>1, <2>2
<1> QED
  BY <1>8, <1>9, <1>10 DEF Past

-----------------------------------------------------------------------------
(* What is stored *)

\* A request has a connection only after connect(); its whole file is with the peer
\* only after the last byte was sent, and the byte of an unreadable file only when
\* the client has begun to flood the connection.
Begun == \A r \in Writes : sock[r] # "none" => Past(r, Later)
Whole == \A r \in Writes : sock[r] = "sent" \/ stored[r] = "whole" => Past(r, Done)
Unread == \A r \in Writes : sock[r] = "junk" \/ stored[r] = "byte" => Past(r, Doomed)

\* How a step may change the state of a connection: it closes one, or connects, or
\* is told "ok!", or sends.
LEMMA SockChanges ==
  ASSUME TypeInv, [Next]_vars, NEW r \in Writes, sock'[r] # sock[r]
  PROVE  \/ \E w \in Workers : Connect(w) /\ job[w] = r /\ sock'[r] = "waiting"
         \/ \E w \in Workers : StartReceive(w) /\ hand'[w] = r /\ sock'[r] \in {"ok", "closed"}
                               /\ TakeConnection(w, Dev(w))
         \/ \E w \in Workers : SendHeader(w) /\ job[w] = r
                               /\ \/ sock'[r] \in {"header", "closed"}
                                  \/ sock'[r] = "junk" /\ pc'[w] = "flood"
         \/ \E w \in Workers : SendData(w) /\ job[w] = r
                               /\ \/ sock'[r] = "cut"
                                  \/ sock'[r] = "sent" /\ pc'[w] = "success"
         \/ \E w \in Workers : Flood(w) /\ job[w] = r /\ sock'[r] = "cut"
         \/ \E w \in Workers : (OpenOutput(w) \/ FinishReceive(w)) /\ hand[w] = r /\ sock'[r] = "closed"
         \/ \E d \in Devices : /\ sock'[r] = "closed"
                               /\ r \in ToSet(backlog[d]) \union ToSet(m_client_request[d])
         \/ Restart /\ sock[r] # "none" /\ sock'[r] = "closed"
<1>1. /\ pc \in [Workers -> Places] /\ job \in [Workers -> Events \union {Nil}]
      /\ sock \in [Writes -> SockStates]
      /\ backlog \in [Devices -> Seq(Writes)] /\ hand \in [Workers -> Writes \union {Nil}]
  BY DEF TypeInv, DeviceTypeOK, Places, SockStates
<1>2. ASSUME NEW S, sock' = Closing(S) PROVE sock'[r] = "closed" /\ r \in S
  BY <1>2 DEF Closing
<1>3. ASSUME NEW e, NEW s, sock' = [sock EXCEPT ![e] = s] PROVE e = r /\ sock'[r] = s
  BY <1>1, <1>3
<1>4. ASSUME NEW w \in Workers, Connect(w) PROVE job[w] = r /\ sock'[r] = "waiting"
  BY <1>3, <1>4 DEF Connect
<1>5. ASSUME NEW w \in Workers, StartReceive(w)
      PROVE  /\ hand'[w] = r /\ sock'[r] \in {"ok", "closed"} /\ TakeConnection(w, Dev(w))
  <2>1. TakeConnection(w, Dev(w)) /\ WriteOk(w)
    BY <1>5 DEF StartReceive
  <2> QED
    BY <1>2, <1>3, <2>1 DEF WriteOk
<1>6. ASSUME NEW w \in Workers, NEW from, NEW to, NEW broken, NEW next,
             Send(w, from, to, broken, next)
      PROVE  job[w] = r /\ (sock'[r] = broken \/ (sock'[r] = to /\ pc'[w] = next))
  <2>1. CASE sock' = [sock EXCEPT ![job[w]] = to] /\ pc' = [pc EXCEPT ![w] = next]
    <3>1. pc'[w] = next
      BY <1>1, <2>1
    <3> QED
      BY <1>3, <2>1, <3>1
  <2>2. CASE sock' = [sock EXCEPT ![job[w]] = IF @ = from THEN broken ELSE @]
    <3>1. CASE sock[job[w]] = from
      <4>1. sock' = [sock EXCEPT ![job[w]] = broken]
        BY <2>2, <3>1
      <4> QED
        BY <1>3, <4>1
    <3>2. CASE sock[job[w]] # from
      <4>1. sock' = [sock EXCEPT ![job[w]] = sock[job[w]]]
        BY <2>2, <3>2
      <4>2. job[w] = r /\ sock'[r] = sock[job[w]]
        BY <1>3, <4>1
      <4> QED
        BY <4>2
    <3> QED
      BY <3>1, <3>2
  <2> QED
    BY <1>6, <2>1, <2>2 DEF Send, Goto
<1>7. ASSUME NEW w \in Workers, SendHeader(w)
       PROVE  /\ job[w] = r
              /\ sock'[r] \in {"header", "closed"} \/ (sock'[r] = "junk" /\ pc'[w] = "flood")
  <2>1. CASE Send(w, "ok", "header", "closed", "data")
    BY <1>6, <2>1
  <2>2. CASE sock' = [sock EXCEPT ![job[w]] = "junk"] /\ pc' = [pc EXCEPT ![w] = "flood"]
    <3>1. pc'[w] = "flood"
      BY <1>1, <2>2
    <3> QED
      BY <1>3, <2>2, <3>1
  <2> QED
    BY <1>7, <2>1, <2>2 DEF SendHeader, Goto
<1>8. ASSUME NEW w \in Workers, SendData(w)
      PROVE  job[w] = r /\ (sock'[r] = "cut" \/ (sock'[r] = "sent" /\ pc'[w] = "success"))
  BY <1>6, <1>8 DEF SendData
<1>9. ASSUME NEW w \in Workers, Flood(w) PROVE job[w] = r /\ sock'[r] = "cut"
  <2>1. PICK s \in {"junk", "cut"} : sock' = [sock EXCEPT ![job[w]] = s] /\ sock[job[w]] = "junk"
    BY <1>9 DEF Flood
  <2>2. job[w] = r /\ sock'[r] = s
    BY <1>3, <2>1
  <2> QED
    BY <2>1, <2>2
<1>10. ASSUME NEW w \in Workers, OpenOutput(w) \/ FinishReceive(w)
      PROVE  hand[w] = r /\ sock'[r] = "closed"
  <2>1. sock' = Closing({hand[w]})
    BY <1>10, Receiving
  <2>2. sock'[r] = "closed" /\ r \in {hand[w]}
    BY <1>2, <2>1
  <2> QED
    BY <2>2
<1>11. ASSUME NEW w \in Workers, DeleteObject(w)
      PROVE  \E d \in Devices : /\ sock'[r] = "closed"
                                /\ r \in ToSet(backlog[d]) \union ToSet(m_client_request[d])
  <2>1. Destroy(Dev(w)) /\ Dev(w) \in Devices
    BY <1>11, Working DEF DeleteObject
  <2>2. PICK S \in SUBSET (ToSet(backlog[Dev(w)]) \union ToSet(m_client_request[Dev(w)])) :
          sock' = Closing(S)
    BY <2>1, Destroyed
  <2> QED
    BY <1>2, <2>1, <2>2
<1>12. ASSUME NEW w \in Workers, WorkerStep(w)
       PROVE  \/ Connect(w) \/ StartReceive(w) \/ SendHeader(w) \/ SendData(w) \/ Flood(w)
              \/ OpenOutput(w) \/ FinishReceive(w) \/ DeleteObject(w)
  BY <1>12 DEF WorkerStep, Take, Test, Respond, CreateObject, SetOpen, ResetDevice, ReadOk
<1>13. ASSUME NEW d \in Devices, AcceptStep(d) \/ AcceptDies(d)
       PROVE  sock'[r] = "closed" /\ r \in ToSet(backlog[d])
  <2>1. CASE StrayAccept(d)
    <3>1. sock'[r] = "closed" /\ r \in ToSet(Tail(backlog[d]))
      BY <1>2, <2>1 DEF StrayAccept
    <3>2. ToSet(Tail(backlog[d])) \subseteq ToSet(backlog[d])
      BY <1>1, <2>1, DequeueElements DEF StrayAccept
    <3> QED
      BY <3>1, <3>2
  <2>2. CASE AcceptDies(d)
    <3>1. backlog[d] # <<>> /\ sock' = Closing({Head(backlog[d])})
      BY <2>2 DEF AcceptDies
    <3>2. sock'[r] = "closed" /\ r \in {Head(backlog[d])}
      BY <1>2, <3>1
    <3>3. Head(backlog[d]) \in ToSet(backlog[d])
      BY <1>1, <3>1, DequeueElements
    <3> QED
      BY <3>2, <3>3
  <2> QED
    BY <1>13, <2>1, <2>2 DEF AcceptStep, Accept, Notify, LateNotify
<1>14. ASSUME Restart PROVE sock[r] # "none" /\ sock'[r] = "closed"
  BY <1>1, <1>14 DEF Restart, DeviceRestart
<1>15. ~UNCHANGED sock
  OBVIOUS
<1> QED
  BY <1>4, <1>5, <1>7, <1>8, <1>9, <1>10, <1>11, <1>12, <1>13, <1>14, <1>15, WhatHappens
  DEF Happens, deviceVars

\* What receive() leaves on disk, and of which connections.
LEMMA FileChanges ==
  ASSUME TypeInv, [Next]_vars, NEW r \in Writes, stored'[r] # stored[r]
  PROVE  \/ stored'[r] = "part"
         \/ stored'[r] = "whole" /\ sock[r] = "sent"
         \/ stored'[r] = "byte" /\ sock[r] = "junk"
<1>1. stored \in [Writes -> FileStates]
  BY DEF TypeInv, DeviceTypeOK, FileStates
<1>2. ASSUME NEW w \in Workers, NEW s, stored' = [stored EXCEPT ![hand[w]] = s]
      PROVE  hand[w] = r /\ stored'[r] = s
  BY <1>1, <1>2
<1>3. ASSUME NEW w \in Workers, OpenOutput(w) PROVE stored'[r] = "part"
  BY <1>2, <1>3 DEF OpenOutput
<1>4. ASSUME NEW w \in Workers, FinishReceive(w)
      PROVE  (stored'[r] = "whole" /\ sock[r] = "sent") \/ (stored'[r] = "byte" /\ sock[r] = "junk")
  BY <1>2, <1>4 DEF FinishReceive, AllSent
<1>5. ASSUME NEW w \in Workers, WorkerStep(w) PROVE OpenOutput(w) \/ FinishReceive(w)
  BY <1>5
  DEF WorkerStep, Take, Test, Respond, CreateObject, SetOpen, DeleteObject, ResetDevice, Connect,
      ReadOk, SendHeader, SendData, Flood, StartReceive, storeVars
<1>6. ~\E d \in Devices : AcceptStep(d) \/ AcceptDies(d)
  BY DEF AcceptStep, Accept, Notify, StrayAccept, LateNotify, AcceptDies, storeVars
<1>7. ~Restart /\ ~UNCHANGED deviceVars
  BY DEF Restart, DeviceRestart, deviceVars, storeVars
<1> QED
  BY <1>3, <1>4, <1>5, <1>6, <1>7, WhatHappens DEF Happens

LEMMA WholeKept ==
  ASSUME TypeInv, Whole, [Next]_vars
  PROVE  Whole'
<1> SUFFICES ASSUME NEW r \in Writes, sock'[r] = "sent" \/ stored'[r] = "whole" PROVE Past(r, Done)'
  BY DEF Whole
<1>1. CASE sock[r] = "sent" \/ stored[r] = "whole"
  BY <1>1, PastStays DEF Whole
<1>2. CASE sock[r] # "sent" /\ stored[r] # "whole"
  <2>1. sock'[r] = "sent"
    BY <1>2, FileChanges
  <2>2. PICK w \in Workers : SendData(w) /\ job[w] = r /\ pc'[w] = "success"
    BY <1>2, <2>1, SockChanges
  <2>3. job'[w] = r
    BY <2>2 DEF SendData
  <2> QED
    BY <2>2, <2>3 DEF Past, Done
<1> QED
  BY <1>1, <1>2

LEMMA UnreadKept ==
  ASSUME TypeInv, Unread, [Next]_vars
  PROVE  Unread'
<1> SUFFICES ASSUME NEW r \in Writes, sock'[r] = "junk" \/ stored'[r] = "byte"
             PROVE  Past(r, Doomed)'
  BY DEF Unread
<1>1. CASE sock[r] = "junk" \/ stored[r] = "byte"
  BY <1>1, PastStays DEF Unread
<1>2. CASE sock[r] # "junk" /\ stored[r] # "byte"
  <2>1. sock'[r] = "junk"
    BY <1>2, FileChanges
  <2>2. PICK w \in Workers : SendHeader(w) /\ job[w] = r /\ pc'[w] = "flood"
    BY <1>2, <2>1, SockChanges
  <2>3. job'[w] = r
    BY <2>2 DEF SendHeader
  <2> QED
    BY <2>2, <2>3 DEF Past, Doomed
<1> QED
  BY <1>1, <1>2

\* Reports and files fit together this far: a WRITE has not failed where its whole
\* file is, and has not succeeded where receive() has written the byte of a file
\* that the client could not open; whichever steps fail, and however often either
\* end is opened, closed or started again.
THEOREM ReportsFit == Spec => []ReportsMatchFiles
<1>1. Init => Whole /\ Unread
  BY DEF Init, DeviceInit, Whole, Unread
<1>2. TypeInv /\ Whole /\ Unread /\ [Next]_vars => Whole' /\ Unread'
  BY WholeKept, UnreadKept
<1>3. TypeInv /\ OneFate /\ Whole /\ Unread => ReportsMatchFiles
  <2> SUFFICES ASSUME TypeInv, OneFate, Whole, Unread, NEW r \in Writes
               PROVE  /\ stored[r] = "whole" => ~Failed(r)
                      /\ stored[r] = "byte" => ~Succeeded(r)
    BY DEF ReportsMatchFiles
  <2>1. ASSUME stored[r] = "whole" PROVE ~Failed(r)
    <3>1. Past(r, Done)
      BY <2>1 DEF Whole
    <3> QED
      BY <3>1, PastAlone DEF Failed, Done
  <2>2. ASSUME stored[r] = "byte" PROVE ~Succeeded(r)
    <3>1. Past(r, Doomed)
      BY <2>2 DEF Unread
    <3> QED
      BY <3>1, PastAlone DEF Succeeded, Doomed
  <2> QED
    BY <2>1, <2>2
<1> QED
  BY <1>1, <1>2, <1>3, TypesAlways, FatesAlways, PTL DEF Spec

-----------------------------------------------------------------------------
(* Where a connection is *)

\* A connection waits at the device its file is for.
AtPeer ==
  \A d \in Devices : \A r \in ToSet(backlog[d]) \union ToSet(m_client_request[d]) :
     d = Peer[Device[r]]

\* The threads that serve connection r.
Hands(r) == {w \in Workers : hand[w] = r}

\* What ConnectionInOnePlace says of connection r, which waits, if it does, at device p.
OneHolder(r) ==
  /\ Holders(r) =< 1
  /\ sock[r] \in Served => \E w \in Workers : hand[w] = r
  /\ sock[r] = "none" => Holders(r) = 0
  /\ \A w \in Workers : hand[w] = r => sock[r] \notin {"none", "waiting"}

LEMMA HandsStep ==
  ASSUME TypeInv, NEW r \in Writes
  PROVE  /\ Cardinality(Hands(r)) \in Nat
         /\ Cardinality(Hands(r)) = 0 <=> \A v \in Workers : hand[v] # r
         /\ \A w \in Workers : OthersStay(w) =>
              /\ Cardinality(Hands(r)') \in Nat
              /\ Cardinality(Hands(r)') + (IF hand[w] = r THEN 1 ELSE 0) =
                   Cardinality(Hands(r)) + (IF hand'[w] = r THEN 1 ELSE 0)
<1>1. Hands(r) \subseteq BusyThreads
  BY KindsOfEvents DEF TypeInv, Fits, Hands, BusyThreads
<1>2. IsFiniteSet(Hands(r))
  BY <1>1, FS_Subset DEF TypeInv
<1>3. Cardinality(Hands(r)) \in Nat /\ (Cardinality(Hands(r)) = 0 <=> Hands(r) = {})
  BY <1>2, FS_CardinalityType, FS_EmptySet
<1>4. Hands(r) = {} <=> \A v \in Workers : hand[v] # r
  BY DEF Hands
<1>5. ASSUME NEW w \in Workers, OthersStay(w)
      PROVE  /\ Cardinality(Hands(r)') \in Nat
             /\ Cardinality(Hands(r)') + (IF hand[w] = r THEN 1 ELSE 0) =
                  Cardinality(Hands(r)) + (IF hand'[w] = r THEN 1 ELSE 0)
  <2>1. Hands(r)' \ {w} = Hands(r) \ {w}
    BY <1>5 DEF Hands, OthersStay
  <2>2. (w \in Hands(r) <=> hand[w] = r) /\ (w \in Hands(r)' <=> hand'[w] = r)
    BY DEF Hands
  <2>3. /\ Cardinality(Hands(r)') \in Nat
        /\ Cardinality(Hands(r)') + (IF w \in Hands(r) THEN 1 ELSE 0) =
             Cardinality(Hands(r)) + (IF w \in Hands(r)' THEN 1 ELSE 0)
    BY <1>2, <2>1, CountStep
  <2> QED
    BY <2>2, <2>3
<1> QED
  BY <1>3, <1>4, <1>5

\* The parts of Holders.
LEMMA HoldersParts ==
  ASSUME TypeInv, NEW r \in Writes
  PROVE  LET p == Peer[Device[r]] IN
         /\ p \in Devices
         /\ Holders(r) = Cardinality(Hands(r)) + Times(r, backlog[p]) + Times(r, m_client_request[p])
         /\ Times(r, backlog[p]) \in Nat /\ Times(r, m_client_request[p]) \in Nat
         /\ Times(r, backlog[p]) = 0 <=> r \notin ToSet(backlog[p])
         /\ Times(r, m_client_request[p]) = 0 <=> r \notin ToSet(m_client_request[p])
<1> DEFINE p == Peer[Device[r]]
<1>1. p \in Devices
  BY KindsOfEvents, EventBusAssumption, TcpDeviceAssumption
<1>2. backlog[p] \in Seq(Writes) /\ m_client_request[p] \in Seq(Writes)
  BY <1>1 DEF TypeInv, DeviceTypeOK
<1> HIDE DEF p
<1>3. /\ Times(r, backlog[p]) \in Nat /\ Times(r, m_client_request[p]) \in Nat
      /\ Times(r, backlog[p]) = 0 <=> r \notin ToSet(backlog[p])
      /\ Times(r, m_client_request[p]) = 0 <=> r \notin ToSet(m_client_request[p])
  BY <1>2, TimesType
<1> QED
  BY <1>1, <1>3 DEF Holders, Hands, p

\* Where a connection may be at the device that it is for.
LEMMA Waiting ==
  ASSUME TypeInv, AtPeer, NEW r \in Writes, OneHolder(r), NEW d \in Devices,
         r \in ToSet(backlog[d]) \union ToSet(m_client_request[d])
  PROVE  /\ d = Peer[Device[r]] /\ sock[r] # "none"
         /\ Holders(r) = 1 /\ \A w \in Workers : hand[w] # r
         /\ sock[r] \notin Served
<1>1. d = Peer[Device[r]]
  BY DEF AtPeer
<1>2. /\ Holders(r) = Cardinality(Hands(r)) + Times(r, backlog[d]) + Times(r, m_client_request[d])
      /\ Times(r, backlog[d]) \in Nat /\ Times(r, m_client_request[d]) \in Nat
      /\ Times(r, backlog[d]) # 0 \/ Times(r, m_client_request[d]) # 0
      /\ Cardinality(Hands(r)) \in Nat
  BY <1>1, HoldersParts, HandsStep
<1>3. Holders(r) = 1 /\ Cardinality(Hands(r)) = 0
  BY <1>2 DEF OneHolder
<1>4. \A w \in Workers : hand[w] # r
  BY <1>3, HandsStep
<1> QED
  BY <1>1, <1>3, <1>4 DEF OneHolder

LEMMA AtPeerKept ==
  ASSUME TypeInv, AtPeer, [Next]_vars
  PROVE  AtPeer'
<1>1. /\ backlog \in [Devices -> Seq(Writes)] /\ m_client_request \in [Devices -> Seq(Writes)]
  BY DEF TypeInv, DeviceTypeOK
<1>2. ASSUME NEW d \in Devices, backlog[d] # <<>>
      PROVE  /\ Head(backlog[d]) \in ToSet(backlog[d])
             /\ ToSet(Tail(backlog[d])) \subseteq ToSet(backlog[d])
             /\ Head(backlog[d]) \in Writes
  BY <1>1, <1>2, DequeueElements
<1>3. ASSUME NEW d \in Devices, m_client_request[d] # <<>>
      PROVE  ToSet(Tail(m_client_request[d])) \subseteq ToSet(m_client_request[d])
  BY <1>1, <1>3, DequeueElements
<1>4. ToSet(<<>>) = {}
  BY DEF ToSet
<1>5. CASE \A d \in Devices : ToSet(backlog'[d]) \union ToSet(m_client_request'[d])
                                \subseteq ToSet(backlog[d]) \union ToSet(m_client_request[d])
  BY <1>5 DEF AtPeer
<1>6. ASSUME NEW w \in Workers, Connect(w) PROVE AtPeer'
  <2>1. CASE UNCHANGED <<backlog, m_client_request>>
    BY <1>5, <2>1
  <2>2. CASE ~UNCHANGED <<backlog, m_client_request>>
    <3> DEFINE p == Peer[Dev(w)]
               e == job[w]
    <3>1. e \in Writes /\ e \in Requests /\ Dev(w) \in Devices
      BY <1>6, Working, KindsOfEvents DEF Connect, TypeInv, Fits
    <3>2. Dev(w) = Device[e]
      BY <3>1, EventBusAssumption DEF Dev, DeviceOf
    <3>3. p \in Devices
      BY <3>1, TcpDeviceAssumption
    <3>4. backlog' = [backlog EXCEPT ![p] = Append(@, e)] /\ m_client_request' = m_client_request
      BY <1>6, <2>2 DEF Connect
    <3>5. ToSet(Append(backlog[p], e)) = ToSet(backlog[p]) \union {e}
      BY <1>1, <3>1, <3>3, EnqueueElements
    <3>6. p = Peer[Device[e]]
      BY <3>2
    <3> HIDE DEF p, e
    <3>7. \A d \in Devices : backlog'[d] = IF d = p THEN Append(backlog[p], e) ELSE backlog[d]
      BY <1>1, <3>4
    <3> QED
      BY <3>4, <3>5, <3>6, <3>7 DEF AtPeer
  <2> QED
    BY <2>1, <2>2
<1>7. ASSUME NEW w \in Workers, StartReceive(w) PROVE AtPeer'
  <2>1. backlog' = backlog /\ Dev(w) \in Devices
    BY <1>7, Working DEF StartReceive
  <2>2. \/ m_client_request' = m_client_request
        \/ /\ m_client_request[Dev(w)] # <<>>
           /\ m_client_request' = [m_client_request EXCEPT ![Dev(w)] = Tail(@)]
    BY <1>7 DEF StartReceive, TakeConnection
  <2>3. \A d \in Devices : ToSet(m_client_request'[d]) \subseteq ToSet(m_client_request[d])
    BY <1>1, <1>3, <2>1, <2>2
  <2> QED
    BY <1>5, <2>1, <2>3
<1>8. ASSUME NEW w \in Workers, DeleteObject(w) PROVE AtPeer'
  <2>1. CASE UNCHANGED <<backlog, m_client_request>>
    BY <1>5, <2>1
  <2>2. CASE Destroy(Dev(w))
    <3>1. /\ backlog'[Dev(w)] \in {backlog[Dev(w)], <<>>} /\ m_client_request'[Dev(w)] = <<>>
          /\ \A d \in Devices : d # Dev(w) => backlog'[d] = backlog[d]
                                              /\ m_client_request'[d] = m_client_request[d]
      <4>1. Dev(w) \in Devices
        BY <1>8, Working DEF DeleteObject
      <4>2. m_client_request' = [m_client_request EXCEPT ![Dev(w)] = <<>>]
        BY <2>2, <4>1, Destroyed
      <4>3. PICK b \in {backlog[Dev(w)], <<>>} : backlog' = [backlog EXCEPT ![Dev(w)] = b]
        BY <2>2, <4>1, Destroyed
      <4> QED
        BY <1>1, <4>1, <4>2, <4>3
    <3> QED
      BY <1>4, <1>5, <3>1
  <2> QED
    BY <1>8, <2>1, <2>2 DEF DeleteObject, listenVars
<1>9. ASSUME NEW w \in Workers, WorkerStep(w) PROVE AtPeer'
  <2>1. CASE Connect(w) \/ StartReceive(w) \/ DeleteObject(w)
    BY <1>6, <1>7, <1>8, <2>1
  <2>2. CASE UNCHANGED <<backlog, m_client_request>>
    BY <1>5, <2>2
  <2> QED
    BY <1>9, <2>1, <2>2
    DEF WorkerStep, Take, Test, Respond, CreateObject, SetOpen, ResetDevice, ReadOk, SendHeader,
        SendData, Flood, OpenOutput, FinishReceive, listenVars
<1>10. ASSUME NEW d \in Devices, AcceptStep(d) \/ AcceptDies(d) PROVE AtPeer'
  <2>1. CASE Accept(d)
    <3> DEFINE e == Head(backlog[d])
    <3>1. /\ backlog[d] # <<>> /\ backlog' = [backlog EXCEPT ![d] = Tail(@)]
          /\ m_client_request' = [m_client_request EXCEPT ![d] = Append(@, e)]
      BY <2>1 DEF Accept
    <3>2. /\ e \in Writes /\ e \in ToSet(backlog[d])
          /\ ToSet(Tail(backlog[d])) \subseteq ToSet(backlog[d])
      BY <1>2, <3>1
    <3>3. ToSet(Append(m_client_request[d], e)) = ToSet(m_client_request[d]) \union {e}
      BY <1>1, <3>2, EnqueueElements
    <3> HIDE DEF e
    <3> QED
      BY <1>1, <1>5, <3>1, <3>2, <3>3
  <2>2. CASE StrayAccept(d)
    <3>1. backlog' = [backlog EXCEPT ![d] = <<>>] /\ m_client_request' = m_client_request
      BY <2>2 DEF StrayAccept
    <3> QED
      BY <1>1, <1>4, <1>5, <3>1
  <2>3. CASE UNCHANGED <<backlog, m_client_request>>
    BY <1>5, <2>3
  <2>4. CASE AcceptDies(d) /\ ~UNCHANGED backlog
    <3>1. /\ backlog[d] # <<>> /\ backlog' = [backlog EXCEPT ![d] = Tail(@)]
          /\ m_client_request' = m_client_request
      BY <2>4 DEF AcceptDies
    <3> QED
      BY <1>1, <1>2, <1>5, <3>1
  <2> QED
    BY <1>10, <2>1, <2>2, <2>3, <2>4 DEF AcceptStep, Notify, LateNotify, AcceptDies
<1>11. CASE Restart
  BY <1>4, <1>5, <1>11 DEF Restart, DeviceRestart
<1>12. CASE UNCHANGED deviceVars
  BY <1>5, <1>12 DEF deviceVars, listenVars
<1> QED
  BY <1>9, <1>10, <1>11, <1>12, WhatHappens DEF Happens

\* A connection that is not new, or is connected now, has a request that came so far.
LEMMA BegunKept ==
  ASSUME TypeInv, AtPeer, Begun, \A r \in Writes : OneHolder(r), [Next]_vars
  PROVE  Begun'
<1> SUFFICES ASSUME NEW r \in Writes, sock'[r] # "none" PROVE Past(r, Later)'
  BY DEF Begun
<1>1. CASE sock[r] # "none"
  BY <1>1, PastStays DEF Begun
<1>2. CASE sock[r] = "none"
  <2>1. ASSUME NEW w \in Workers, Connect(w), job[w] = r, sock'[r] = "waiting" PROVE Past(r, Later)'
    <3>1. pc' = [pc EXCEPT ![w] = "getok"] /\ job' = job
      BY <1>2, <2>1 DEF Connect, Goto
    <3>2. pc'[w] = "getok"
      BY <3>1 DEF TypeInv, DeviceTypeOK
    <3> QED
      BY <2>1, <3>1, <3>2 DEF Past, Later
  <2>2. ASSUME NEW w \in Workers, StartReceive(w), hand'[w] = r, TakeConnection(w, Dev(w))
        PROVE  FALSE
    <3>1. Dev(w) \in Devices
      BY <2>2, Working DEF StartReceive
    <3>2. hand'[w] = Head(m_client_request[Dev(w)]) /\ m_client_request[Dev(w)] # <<>>
      BY <2>2 DEF TakeConnection, TypeInv, DeviceTypeOK
    <3>3. r \in ToSet(m_client_request[Dev(w)])
      BY <2>2, <3>1, <3>2, DequeueElements DEF TypeInv, DeviceTypeOK
    <3> QED
      BY <1>2, <3>1, <3>3, Waiting
  <2>3. ASSUME NEW w \in Workers, SendHeader(w) \/ SendData(w) \/ Flood(w), job[w] = r
        PROVE  Past(r, Later)'
    <3>1. pc[w] \in Later
      BY <2>3 DEF SendHeader, SendData, Flood, Later
    <3> QED
      BY <2>3, <3>1, PastStays DEF Past
  <2>4. ASSUME NEW w \in Workers, OpenOutput(w) \/ FinishReceive(w), hand[w] = r PROVE FALSE
    BY <1>2, <2>4 DEF OneHolder
  <2>5. ASSUME NEW d \in Devices, r \in ToSet(backlog[d]) \union ToSet(m_client_request[d])
        PROVE  FALSE
    BY <1>2, <2>5, Waiting
  <2> QED
    BY <1>2, <2>1, <2>2, <2>3, <2>4, <2>5, SockChanges
<1> QED
  BY <1>1, <1>2

\* No thread more or less serves r, it waits in no more places, and stays as it is or
\* is closed.
LEMMA FewerHolders ==
  ASSUME TypeInv, NEW r \in Writes, OneHolder(r), Hands(r)' = Hands(r),
         LET p == Peer[Device[r]] IN
         /\ Times(r, backlog'[p]) \in Nat /\ Times(r, m_client_request'[p]) \in Nat
         /\ Times(r, backlog'[p]) + Times(r, m_client_request'[p]) =<
              Times(r, backlog[p]) + Times(r, m_client_request[p]),
         sock'[r] \in {sock[r], "closed"}
  PROVE  OneHolder(r)'
<1> DEFINE p == Peer[Device[r]]
<1>1. /\ Holders(r) = Cardinality(Hands(r)) + Times(r, backlog[p]) + Times(r, m_client_request[p])
      /\ Times(r, backlog[p]) \in Nat /\ Times(r, m_client_request[p]) \in Nat
      /\ Cardinality(Hands(r)) \in Nat
  BY HoldersParts, HandsStep
<1>2. Holders(r)' = Cardinality(Hands(r)) + Times(r, backlog'[p]) + Times(r, m_client_request'[p])
  BY DEF Holders, Hands
<1> HIDE DEF p
<1>3. Holders(r)' \in Nat /\ Holders(r) \in Nat /\ Holders(r)' =< Holders(r)
  BY <1>1, <1>2 DEF p
<1>4. \A w \in Workers : hand'[w] = r <=> hand[w] = r
  BY DEF Hands
<1>5. Holders(r)' =< 1 /\ (sock'[r] = "none" => Holders(r)' = 0)
  BY <1>3 DEF OneHolder
<1> QED
  BY <1>4, <1>5 DEF OneHolder, Served

\* The same in a step that touches no queue.
LEMMA QueuesRest ==
  ASSUME TypeInv, NEW r \in Writes, OneHolder(r), UNCHANGED <<backlog, m_client_request>>,
         Hands(r)' = Hands(r), sock'[r] \in {sock[r], "closed"}
  PROVE  OneHolder(r)'
<1> DEFINE p == Peer[Device[r]]
<1>1. Times(r, backlog[p]) \in Nat /\ Times(r, m_client_request[p]) \in Nat
  BY HoldersParts
<1>2. /\ Times(r, backlog'[p]) = Times(r, backlog[p])
      /\ Times(r, m_client_request'[p]) = Times(r, m_client_request[p])
  OBVIOUS
<1>3. Times(r, backlog'[p]) + Times(r, m_client_request'[p]) =<
        Times(r, backlog[p]) + Times(r, m_client_request[p])
  BY <1>1, <1>2
<1> QED
  BY <1>1, <1>2, <1>3, FewerHolders

LEMMA ConnectHolder ==
  ASSUME TypeInv, OneFate, Begun, NEW r \in Writes, OneHolder(r), NEW w \in Workers, Connect(w)
  PROVE  OneHolder(r)'
<1> DEFINE p == Peer[Device[r]]
<1>1. Hands(r)' = Hands(r) /\ m_client_request' = m_client_request
  BY DEF Connect, storeVars, Hands
<1>2. CASE UNCHANGED <<backlog, sock>>
  BY <1>1, <1>2, QueuesRest
<1>3. CASE ~UNCHANGED <<backlog, sock>>
  <2> DEFINE e == job[w]
             q == Peer[Dev(w)]
  <2>1. pc[w] = "transfer" /\ job[w] \in Writes /\ job[w] \in Requests /\ Dev(w) \in Devices
    BY Working, KindsOfEvents DEF Connect, TypeInv, Fits
  <2>2. Dev(w) = Device[e] /\ q \in Devices
    BY <2>1, EventBusAssumption, TcpDeviceAssumption DEF Dev, DeviceOf
  <2>3. backlog' = [backlog EXCEPT ![q] = Append(@, e)] /\ sock' = [sock EXCEPT ![e] = "waiting"]
    BY <1>3 DEF Connect
  <2>4. backlog[q] \in Seq(Writes) /\ e \in Writes /\ p \in Devices
    BY <2>1, <2>2, HoldersParts DEF TypeInv, DeviceTypeOK
  <2>5. Times(r, Append(backlog[q], e)) = Times(r, backlog[q]) + (IF e = r THEN 1 ELSE 0)
    BY <2>4, TimesAppend
  <2>6. /\ Times(r, backlog[p]) \in Nat /\ Times(r, m_client_request[p]) \in Nat
        /\ Holders(r) = Cardinality(Hands(r)) + Times(r, backlog[p]) + Times(r, m_client_request[p])
        /\ Cardinality(Hands(r)) \in Nat
    BY HoldersParts, HandsStep
  <2>7. CASE e = r
    <3>1. sock[r] = "none"
      BY <2>1, <2>7, PastAlone DEF Begun, Later
    <3>2. Holders(r) = 0
      BY <3>1 DEF OneHolder
    <3>3. Cardinality(Hands(r)) = 0 /\ Times(r, backlog[p]) = 0 /\ Times(r, m_client_request[p]) = 0
      BY <2>6, <3>2
    <3>4. q = p
      BY <2>2, <2>7
    <3>5. backlog'[p] = Append(backlog[q], e)
      BY <2>2, <2>3, <3>4 DEF TypeInv, DeviceTypeOK
    <3>6. Times(r, backlog'[p]) = 1
      BY <2>5, <2>7, <3>3, <3>4, <3>5
    <3>7. Holders(r)' = Cardinality(Hands(r)) + Times(r, backlog'[p]) + Times(r, m_client_request[p])
      BY <1>1 DEF Holders, Hands
    <3>8. Holders(r)' = 1
      BY <3>3, <3>6, <3>7
    <3>9. sock'[r] = "waiting"
      BY <2>3, <2>7 DEF TypeInv, DeviceTypeOK
    <3>10. \A v \in Workers : hand'[v] # r
      BY <1>1, <3>3, HandsStep DEF Hands
    <3> QED
      BY <3>8, <3>9, <3>10 DEF OneHolder, Served
  <2>8. CASE e # r
    <3>1. Times(r, backlog'[p]) = Times(r, backlog[p])
      <4>1. CASE p = q
        <5>1. backlog'[p] = Append(backlog[q], e)
          BY <2>2, <2>3, <4>1 DEF TypeInv, DeviceTypeOK
        <5> QED
          BY <2>5, <2>6, <2>8, <4>1, <5>1
      <4>2. CASE p # q
        BY <2>3, <2>4, <4>2 DEF TypeInv, DeviceTypeOK
      <4> QED
        BY <4>1, <4>2
    <3>2. sock'[r] = sock[r]
      BY <2>3, <2>8 DEF TypeInv, DeviceTypeOK
    <3>3. Times(r, m_client_request'[p]) = Times(r, m_client_request[p])
      BY <1>1
    <3>4. Times(r, backlog'[p]) + Times(r, m_client_request'[p]) =<
            Times(r, backlog[p]) + Times(r, m_client_request[p])
      BY <2>6, <3>1, <3>3
    <3> QED
      BY <1>1, <2>6, <3>1, <3>2, <3>3, <3>4, FewerHolders
  <2> QED
    BY <2>7, <2>8
<1> QED
  BY <1>2, <1>3

LEMMA ReceiveHolder ==
  ASSUME TypeInv, AtPeer, NEW r \in Writes, OneHolder(r), NEW w \in Workers, StartReceive(w)
  PROVE  OneHolder(r)'
<1> DEFINE p == Peer[Device[r]]
           d == Dev(w)
           e == Head(m_client_request[d])
<1>1. backlog' = backlog
  BY DEF StartReceive
<1>2. CASE UNCHANGED <<m_client_request, sock, hand>>
  BY <1>1, <1>2, QueuesRest DEF Hands
<1>3. CASE TakeConnection(w, d) /\ WriteOk(w)
  <2>1. d \in Devices /\ pc[w] = "receive" /\ hand[w] = Nil
    BY Working DEF StartReceive, TypeInv, Fits
  <2>2. /\ m_client_request[d] # <<>> /\ hand' = [hand EXCEPT ![w] = e]
        /\ m_client_request' = [m_client_request EXCEPT ![d] = Tail(@)]
    BY <1>3 DEF TakeConnection
  <2>3. m_client_request[d] \in Seq(Writes)
    BY <2>1 DEF TypeInv, DeviceTypeOK
  <2>4. e \in Writes /\ e \in ToSet(m_client_request[d]) /\ Tail(m_client_request[d]) \in Seq(Writes)
    BY <2>2, <2>3, DequeueElements
  <2>5. /\ Times(r, m_client_request[d]) =
             Times(r, Tail(m_client_request[d])) + (IF e = r THEN 1 ELSE 0)
        /\ Times(r, Tail(m_client_request[d])) \in Nat
    BY <2>2, <2>3, <2>4, TimesTail, TimesType
  <2>6. /\ p \in Devices /\ Times(r, backlog[p]) \in Nat /\ Times(r, m_client_request[p]) \in Nat
        /\ Holders(r) = Cardinality(Hands(r)) + Times(r, backlog[p]) + Times(r, m_client_request[p])
        /\ Cardinality(Hands(r)) \in Nat
    BY HoldersParts, HandsStep
  <2>7. hand'[w] = e /\ \A v \in Workers \ {w} : hand'[v] = hand[v]
    BY <2>2 DEF TypeInv, DeviceTypeOK
  <2>8. sock' = [sock EXCEPT ![e] = "ok"] \/ sock' = Closing({e})
    BY <1>3, <2>7 DEF WriteOk
  <2>9. OthersStay(w)
    BY StepsAreOwn DEF WorkerStep
  <2>10. m_client_request'[d] = Tail(m_client_request[d])
         /\ \A q \in Devices : q # d => m_client_request'[q] = m_client_request[q]
    BY <2>1, <2>2 DEF TypeInv, DeviceTypeOK
  <2>11. sock \in [Writes -> SockStates] /\ r # Nil
    BY KindsOfEvents DEF TypeInv, DeviceTypeOK, SockStates
  <2> HIDE DEF e, d
  <2>12. CASE e = r
    <3>1. d = p /\ Holders(r) = 1 /\ \A v \in Workers : hand[v] # r
      BY <2>1, <2>4, <2>12, Waiting
    <3>2. Cardinality(Hands(r)) = 0
      BY <3>1, HandsStep
    <3>3. Cardinality(Hands(r)') = 1
      <4>1. Cardinality(Hands(r)') + (IF hand[w] = r THEN 1 ELSE 0) =
              Cardinality(Hands(r)) + (IF hand'[w] = r THEN 1 ELSE 0)
            /\ Cardinality(Hands(r)') \in Nat
        BY <2>9, HandsStep
      <4> QED
        BY <2>7, <2>12, <3>1, <3>2, <4>1
    <3>4. Times(r, m_client_request[p]) = Times(r, m_client_request'[p]) + 1
          /\ Times(r, m_client_request'[p]) \in Nat
      BY <2>5, <2>10, <2>12, <3>1
    <3>5. Holders(r)' = Cardinality(Hands(r)') + Times(r, backlog[p]) + Times(r, m_client_request'[p])
      BY <1>1 DEF Holders, Hands
    <3>6. Holders(r)' = 1
      BY <2>6, <3>1, <3>2, <3>3, <3>4, <3>5
    <3>7. sock'[r] \in {"ok", "closed"}
      BY <2>8, <2>11, <2>12 DEF Closing
    <3> QED
      BY <2>7, <2>12, <3>6, <3>7 DEF OneHolder, Served
  <2>13. CASE e # r
    <3>1. Hands(r)' = Hands(r)
      BY <2>1, <2>7, <2>11, <2>13 DEF Hands
    <3>2. sock'[r] \in {sock[r], "closed"}
      BY <2>8, <2>11, <2>13 DEF Closing
    <3>3. Times(r, m_client_request'[p]) = Times(r, m_client_request[p])
      <4>1. CASE p = d
        BY <2>5, <2>6, <2>10, <2>13, <4>1
      <4>2. CASE p # d
        BY <2>6, <2>10, <4>2
      <4> QED
        BY <4>1, <4>2
    <3>4. Times(r, backlog'[p]) = Times(r, backlog[p])
      BY <1>1
    <3>5. Times(r, backlog'[p]) + Times(r, m_client_request'[p]) =<
            Times(r, backlog[p]) + Times(r, m_client_request[p])
      BY <2>6, <3>3, <3>4
    <3> QED
      BY <2>6, <3>1, <3>2, <3>3, <3>4, <3>5, FewerHolders
  <2> QED
    BY <2>12, <2>13
<1> QED
  BY <1>2, <1>3 DEF StartReceive

LEMMA FinishHolder ==
  ASSUME TypeInv, NEW r \in Writes, OneHolder(r), NEW w \in Workers,
         OpenOutput(w) \/ FinishReceive(w)
  PROVE  OneHolder(r)'
<1>1. UNCHANGED <<backlog, m_client_request>>
  BY Receiving DEF listenVars
<1>2. CASE UNCHANGED <<sock, hand>>
  BY <1>1, <1>2, QueuesRest DEF Hands
<1>3. CASE sock' = Closing({hand[w]}) /\ hand' = [hand EXCEPT ![w] = Nil]
  <2>1. hand'[w] = Nil /\ \A v \in Workers \ {w} : hand'[v] = hand[v]
    BY <1>3 DEF TypeInv, DeviceTypeOK
  <2>2. r # Nil
    BY KindsOfEvents
  <2>3. CASE hand[w] = r
    <3> DEFINE p == Peer[Device[r]]
    <3>1. /\ Times(r, backlog[p]) \in Nat /\ Times(r, m_client_request[p]) \in Nat
          /\ Holders(r) = Cardinality(Hands(r)) + Times(r, backlog[p]) + Times(r, m_client_request[p])
          /\ Cardinality(Hands(r)) \in Nat
      BY HoldersParts, HandsStep
    <3>2. OthersStay(w)
      BY StepsAreOwn DEF WorkerStep
    <3>3. Cardinality(Hands(r)) = Cardinality(Hands(r)') + 1 /\ Cardinality(Hands(r)') \in Nat
      <4>1. Cardinality(Hands(r)') + (IF hand[w] = r THEN 1 ELSE 0) =
              Cardinality(Hands(r)) + (IF hand'[w] = r THEN 1 ELSE 0)
            /\ Cardinality(Hands(r)') \in Nat
        BY <3>2, HandsStep
      <4> QED
        BY <2>1, <2>2, <2>3, <3>1, <4>1
    <3>4. Holders(r)' = Cardinality(Hands(r)') + Times(r, backlog[p]) + Times(r, m_client_request[p])
      BY <1>1 DEF Holders, Hands
    <3>5. Holders(r)' = 0
      BY <3>1, <3>3, <3>4 DEF OneHolder
    <3>6. sock'[r] = "closed"
      BY <1>3, <2>3 DEF Closing
    <3>7. \A v \in Workers : hand'[v] = r => sock'[r] \notin {"none", "waiting"}
      BY <3>6
    <3> QED
      BY <3>5, <3>6, <3>7 DEF OneHolder, Served
  <2>4. CASE hand[w] # r
    <3>1. Hands(r)' = Hands(r)
      BY <2>1, <2>2, <2>4 DEF Hands
    <3>2. sock'[r] \in {sock[r], "closed"}
      BY <1>3 DEF Closing
    <3> QED
      BY <1>1, <3>1, <3>2, QueuesRest
  <2> QED
    BY <2>3, <2>4
<1> QED
  BY <1>2, <1>3, Receiving

\* The client writes to a connection.
LEMMA SendHolder ==
  ASSUME TypeInv, NEW r \in Writes, OneHolder(r), NEW w \in Workers,
         SendHeader(w) \/ SendData(w) \/ Flood(w)
  PROVE  OneHolder(r)'
<1>1. UNCHANGED <<backlog, m_client_request, hand>>
  BY DEF SendHeader, SendData, Flood, listenVars, storeVars
<1>2. \/ sock' = sock
      \/ /\ sock[job[w]] \in Served
         /\ \E s \in Served \union {"closed"} : sock' = [sock EXCEPT ![job[w]] = s]
  <2>1. ASSUME NEW from \in Served, NEW to \in Served, NEW broken \in Served \union {"closed"},
               NEW next, Send(w, from, to, broken, next), sock' # sock
        PROVE  /\ sock[job[w]] \in Served
               /\ \E s \in Served \union {"closed"} : sock' = [sock EXCEPT ![job[w]] = s]
    <3>1. sock[job[w]] = from => sock' \in {[sock EXCEPT ![job[w]] = to], [sock EXCEPT ![job[w]] = broken]}
      BY <2>1 DEF Send
    <3>2. CASE sock[job[w]] # from
      <4>1. sock' = [sock EXCEPT ![job[w]] = sock[job[w]]]
        BY <2>1, <3>2 DEF Send
      <4>2. [sock EXCEPT ![job[w]] = sock[job[w]]] = sock
        BY SockTypes DEF TypeInv
      <4> QED
        BY <2>1, <4>1, <4>2
    <3> QED
      BY <3>1, <3>2
  <2>2. CASE SendHeader(w)
    <3>1. \/ Send(w, "ok", "header", "closed", "data")
          \/ sock[job[w]] = "ok" /\ sock' = [sock EXCEPT ![job[w]] = "junk"]
      BY <2>2 DEF SendHeader
    <3> QED
      BY <2>1, <3>1 DEF Served
  <2>3. CASE SendData(w)
    <3>1. Send(w, "header", "sent", "cut", "success")
      BY <2>3 DEF SendData
    <3> QED
      BY <2>1, <3>1 DEF Served
  <2>4. CASE Flood(w)
    BY <2>4 DEF Flood, Served
  <2> QED
    BY <2>2, <2>3, <2>4
<1>3. Holders(r)' = Holders(r) /\ Hands(r)' = Hands(r)
  BY <1>1 DEF Holders, Hands
<1>4. sock \in [Writes -> SockStates]
  BY SockTypes DEF TypeInv
<1>5. CASE sock'[r] \in {sock[r], "closed"}
  BY <1>1, <1>3, <1>5, QueuesRest
<1>6. CASE sock'[r] \notin {sock[r], "closed"}
  <2>1. job[w] = r /\ sock[r] \in Served /\ sock'[r] \in Served
    BY <1>2, <1>4, <1>6
  <2> QED
    BY <1>1, <1>3, <2>1 DEF OneHolder, Served
<1> QED
  BY <1>5, <1>6

\* close() drops what waits at its device, and closes it.
LEMMA DeleteHolder ==
  ASSUME TypeInv, NEW r \in Writes, OneHolder(r), NEW w \in Workers, DeleteObject(w)
  PROVE  OneHolder(r)'
<1>1. Hands(r)' = Hands(r)
  BY DEF DeleteObject, storeVars, Hands
<1>2. CASE UNCHANGED <<backlog, m_client_request, sock>>
  BY <1>1, <1>2, QueuesRest
<1>3. CASE Destroy(Dev(w))
  <2> DEFINE p == Peer[Device[r]]
  <2>1. /\ p \in Devices /\ Times(r, backlog[p]) \in Nat /\ Times(r, m_client_request[p]) \in Nat
    BY HoldersParts
  <2>2. /\ backlog \in [Devices -> Seq(Writes)] /\ m_client_request \in [Devices -> Seq(Writes)]
    BY DEF TypeInv, DeviceTypeOK
  <2>3. m_client_request' = [m_client_request EXCEPT ![Dev(w)] = <<>>]
    BY <1>3, Destroyed
  <2>4. PICK b \in {backlog[Dev(w)], <<>>} : backlog' = [backlog EXCEPT ![Dev(w)] = b]
    BY <1>3, Destroyed
  <2>5. sock'[r] \in {sock[r], "closed"}
    <3>1. \E S : sock' = Closing(S)
      BY <1>3, Destroyed
    <3> QED
      BY <3>1 DEF Closing
  <2>6. backlog'[p] \in {backlog[p], <<>>} /\ m_client_request'[p] \in {m_client_request[p], <<>>}
    BY <2>1, <2>2, <2>3, <2>4
  <2>7. Times(r, backlog'[p]) \in {Times(r, backlog[p]), 0}
    BY <2>6, TimesEmpty
  <2>8. Times(r, m_client_request'[p]) \in {Times(r, m_client_request[p]), 0}
    BY <2>6, TimesEmpty
  <2> HIDE DEF p
  <2>9. /\ Times(r, backlog'[p]) \in Nat /\ Times(r, m_client_request'[p]) \in Nat
        /\ Times(r, backlog'[p]) + Times(r, m_client_request'[p]) =<
             Times(r, backlog[p]) + Times(r, m_client_request[p])
    BY <2>1, <2>7, <2>8
  <2> QED
    BY <1>1, <2>5, <2>9, FewerHolders DEF p
<1> QED
  BY <1>2, <1>3 DEF DeleteObject, listenVars

\* accept() moves the oldest connection into m_client_request.
LEMMA AcceptHolder ==
  ASSUME TypeInv, NEW r \in Writes, OneHolder(r), NEW d \in Devices, Accept(d)
  PROVE  OneHolder(r)'
<1> DEFINE p == Peer[Device[r]]
           e == Head(backlog[d])
<1>1. UNCHANGED <<sock, hand>>
  BY DEF Accept, storeVars
<1>2. /\ backlog \in [Devices -> Seq(Writes)] /\ m_client_request \in [Devices -> Seq(Writes)]
  BY DEF TypeInv, DeviceTypeOK
<1>3. /\ backlog[d] # <<>> /\ backlog' = [backlog EXCEPT ![d] = Tail(@)]
      /\ m_client_request' = [m_client_request EXCEPT ![d] = Append(@, e)]
  BY DEF Accept
<1>4. e \in Writes /\ Tail(backlog[d]) \in Seq(Writes)
  BY <1>2, <1>3, DequeueElements
<1>5. /\ Times(r, backlog[d]) = Times(r, Tail(backlog[d])) + (IF e = r THEN 1 ELSE 0)
      /\ Times(r, Tail(backlog[d])) \in Nat
  BY <1>2, <1>3, <1>4, TimesTail, TimesType
<1>6. /\ Times(r, Append(m_client_request[d], e)) =
           Times(r, m_client_request[d]) + (IF e = r THEN 1 ELSE 0)
      /\ Times(r, m_client_request[d]) \in Nat
  BY <1>2, <1>4, TimesAppend, TimesType
<1>7. /\ p \in Devices /\ Times(r, backlog[p]) \in Nat /\ Times(r, m_client_request[p]) \in Nat
  BY HoldersParts
<1>8. \A q \in Devices :
        /\ backlog'[q] = IF q = d THEN Tail(backlog[d]) ELSE backlog[q]
        /\ m_client_request'[q] =
             IF q = d THEN Append(m_client_request[d], e) ELSE m_client_request[q]
  BY <1>2, <1>3
<1> HIDE DEF e, p
<1>9. /\ Times(r, backlog'[p]) \in Nat /\ Times(r, m_client_request'[p]) \in Nat
      /\ Times(r, backlog'[p]) + Times(r, m_client_request'[p]) =<
           Times(r, backlog[p]) + Times(r, m_client_request[p])
  <2>1. CASE p = d
    <3>1. backlog'[p] = Tail(backlog[d]) /\ m_client_request'[p] = Append(m_client_request[d], e)
      BY <1>7, <1>8, <2>1
    <3> QED
      BY <1>5, <1>6, <2>1, <3>1
  <2>2. CASE p # d
    <3>1. backlog'[p] = backlog[p] /\ m_client_request'[p] = m_client_request[p]
      BY <1>7, <1>8, <2>2
    <3> QED
      BY <1>7, <3>1
  <2> QED
    BY <2>1, <2>2
<1>10. Hands(r)' = Hands(r) /\ sock'[r] = sock[r]
  BY <1>1 DEF Hands
<1> QED
  BY <1>9, <1>10, FewerHolders DEF p

\* The accept thread of a deleted object takes the listening socket with it.
LEMMA StrayHolder ==
  ASSUME TypeInv, NEW r \in Writes, OneHolder(r), NEW d \in Devices, StrayAccept(d)
  PROVE  OneHolder(r)'
<1> DEFINE p == Peer[Device[r]]
<1>1. /\ UNCHANGED <<m_client_request, hand>> /\ backlog' = [backlog EXCEPT ![d] = <<>>]
      /\ sock' = Closing(ToSet(Tail(backlog[d])))
  BY DEF StrayAccept, storeVars
<1>2. /\ p \in Devices /\ Times(r, backlog[p]) \in Nat /\ Times(r, m_client_request[p]) \in Nat
  BY HoldersParts
<1>3. backlog'[p] \in {backlog[p], <<>>}
  BY <1>1, <1>2 DEF TypeInv, DeviceTypeOK
<1>4. Times(r, backlog'[p]) \in {Times(r, backlog[p]), 0}
  BY <1>3, TimesEmpty
<1>5. Times(r, m_client_request'[p]) = Times(r, m_client_request[p])
  BY <1>1
<1> HIDE DEF p
<1>6. /\ Times(r, backlog'[p]) \in Nat /\ Times(r, m_client_request'[p]) \in Nat
      /\ Times(r, backlog'[p]) + Times(r, m_client_request'[p]) =<
           Times(r, backlog[p]) + Times(r, m_client_request[p])
  BY <1>2, <1>4, <1>5
<1>7. Hands(r)' = Hands(r) /\ sock'[r] \in {sock[r], "closed"}
  BY <1>1 DEF Hands, Closing
<1> QED
  BY <1>6, <1>7, FewerHolders DEF p

\* So does an accept thread that ends, with the connection it has just taken or
\* without.
LEMMA DyingHolder ==
  ASSUME TypeInv, NEW r \in Writes, OneHolder(r), NEW d \in Devices, AcceptDies(d)
  PROVE  OneHolder(r)'
<1> DEFINE p == Peer[Device[r]]
<1>1. UNCHANGED <<m_client_request, hand>>
  BY DEF AcceptDies, storeVars
<1>2. Hands(r)' = Hands(r)
  BY <1>1 DEF Hands
<1>3. CASE UNCHANGED <<backlog, sock>>
  BY <1>1, <1>2, <1>3, QueuesRest
<1>4. CASE /\ backlog[d] # <<>> /\ backlog' = [backlog EXCEPT ![d] = Tail(@)]
           /\ sock' = Closing({Head(backlog[d])})
  <2>1. /\ p \in Devices /\ Times(r, backlog[p]) \in Nat /\ Times(r, m_client_request[p]) \in Nat
    BY HoldersParts
  <2>2. backlog \in [Devices -> Seq(Writes)]
    BY DEF TypeInv, DeviceTypeOK
  <2>3. Times(r, Tail(backlog[d])) \in Nat /\ Times(r, Tail(backlog[d])) =< Times(r, backlog[d])
    <3>1. Tail(backlog[d]) \in Seq(Writes)
      BY <1>4, <2>2, DequeueElements
    <3>2. Times(r, Tail(backlog[d])) \in Nat
      BY <3>1, TimesType
    <3>3. Times(r, backlog[d]) =
            Times(r, Tail(backlog[d])) + (IF Head(backlog[d]) = r THEN 1 ELSE 0)
      BY <1>4, <2>2, TimesTail
    <3> QED
      BY <3>2, <3>3
  <2>4. backlog'[p] = IF p = d THEN Tail(backlog[d]) ELSE backlog[p]
    BY <1>4, <2>1, <2>2
  <2>5. Times(r, m_client_request'[p]) = Times(r, m_client_request[p])
    BY <1>1
  <2> HIDE DEF p
  <2>6. Times(r, backlog'[p]) \in Nat /\ Times(r, backlog'[p]) =< Times(r, backlog[p])
    <3>1. CASE p = d
      BY <2>3, <2>4, <3>1
    <3>2. CASE p # d
      BY <2>1, <2>4, <3>2
    <3> QED
      BY <3>1, <3>2
  <2>7. sock'[r] \in {sock[r], "closed"}
    BY <1>4 DEF Closing
  <2>8. /\ Times(r, backlog'[p]) \in Nat /\ Times(r, m_client_request'[p]) \in Nat
        /\ Times(r, backlog'[p]) + Times(r, m_client_request'[p]) =<
             Times(r, backlog[p]) + Times(r, m_client_request[p])
    BY <2>1, <2>5, <2>6
  <2> QED
    BY <1>2, <2>7, <2>8, FewerHolders DEF p
<1> QED
  BY <1>3, <1>4 DEF AcceptDies

\* After a restart nobody holds a connection.
LEMMA RestartHolder ==
  ASSUME TypeInv, NEW r \in Writes, Restart
  PROVE  OneHolder(r)'
<1> DEFINE p == Peer[Device[r]]
<1>1. p \in Devices /\ r # Nil
  BY HoldersParts, KindsOfEvents
<1>2. backlog'[p] = <<>> /\ m_client_request'[p] = <<>> /\ \A w \in Workers : hand'[w] = Nil
  BY <1>1 DEF Restart, DeviceRestart
<1>3. {w \in Workers : hand'[w] = r} = {}
  BY <1>1, <1>2
<1>4. Cardinality({w \in Workers : hand'[w] = r}) = 0
  BY <1>3, FS_EmptySet
<1>5. Times(r, backlog'[p]) = 0 /\ Times(r, m_client_request'[p]) = 0
  BY <1>2, TimesEmpty
<1>6. Holders(r)' = Cardinality({w \in Workers : hand'[w] = r})
                      + Times(r, backlog'[p]) + Times(r, m_client_request'[p])
  BY DEF Holders
<1>7. Holders(r)' = 0
  BY <1>4, <1>5, <1>6
<1>8. sock'[r] \in {"none", "closed"}
  BY DEF Restart, DeviceRestart
<1> QED
  BY <1>1, <1>2, <1>7, <1>8 DEF OneHolder, Served

LEMMA HolderKept ==
  ASSUME TypeInv, OneFate, AtPeer, Begun, NEW r \in Writes, OneHolder(r), [Next]_vars
  PROVE  OneHolder(r)'
<1>1. CASE UNCHANGED <<backlog, m_client_request, sock, hand>>
  BY <1>1, QueuesRest DEF Hands
<1>2. ASSUME NEW w \in Workers, WorkerStep(w) PROVE OneHolder(r)'
  <2>1. CASE \/ Take(w) \/ Test(w) \/ Respond(w) \/ CreateObject(w) \/ SetOpen(w)
             \/ ResetDevice(w) \/ ReadOk(w)
    BY <1>1, <2>1
    DEF Take, Test, Respond, CreateObject, SetOpen, ResetDevice, ReadOk, listenVars, storeVars
  <2> QED
    BY <1>2, <2>1, DeleteHolder, ConnectHolder, SendHolder, ReceiveHolder, FinishHolder
    DEF WorkerStep
<1>3. ASSUME NEW d \in Devices, AcceptStep(d) \/ AcceptDies(d) PROVE OneHolder(r)'
  <2>1. CASE Notify(d) \/ LateNotify(d)
    BY <1>1, <2>1 DEF Notify, LateNotify, storeVars
  <2> QED
    BY <1>3, <2>1, AcceptHolder, StrayHolder, DyingHolder DEF AcceptStep
<1>4. CASE UNCHANGED deviceVars
  BY <1>1, <1>4 DEF deviceVars, listenVars, storeVars
<1> QED
  BY <1>2, <1>3, <1>4, RestartHolder, WhatHappens DEF Happens

\* Connections, what is known of their requests, and where they wait.
Connections == AtPeer /\ Begun /\ \A r \in Writes : OneHolder(r)

LEMMA ConnectionsStart == Init => Connections
<1> SUFFICES ASSUME Init PROVE Connections
  OBVIOUS
<1>1. AtPeer /\ Begun
  BY DEF Init, DeviceInit, AtPeer, Begun, ToSet
<1>2. ASSUME NEW r \in Writes PROVE OneHolder(r)
  <2> DEFINE p == Peer[Device[r]]
  <2>1. p \in Devices /\ r # Nil
    BY KindsOfEvents, EventBusAssumption, TcpDeviceAssumption
  <2>2. backlog[p] = <<>> /\ m_client_request[p] = <<>> /\ sock[r] = "none"
        /\ \A w \in Workers : hand[w] = Nil
    BY <2>1 DEF Init, DeviceInit
  <2>3. {w \in Workers : hand[w] = r} = {}
    BY <2>1, <2>2
  <2>4. Cardinality({w \in Workers : hand[w] = r}) = 0
    BY <2>3, FS_EmptySet
  <2>5. Times(r, backlog[p]) = 0 /\ Times(r, m_client_request[p]) = 0
    BY <2>2, TimesEmpty
  <2>6. Holders(r) = 0
    BY <2>4, <2>5 DEF Holders
  <2> QED
    BY <2>1, <2>2, <2>6 DEF OneHolder, Served
<1> QED
  BY <1>1, <1>2 DEF Connections

LEMMA ConnectionsKept == TypeInv /\ OneFate /\ Connections /\ [Next]_vars => Connections'
<1> SUFFICES ASSUME TypeInv, OneFate, Connections, [Next]_vars PROVE Connections'
  OBVIOUS
<1>1. AtPeer'
  BY AtPeerKept DEF Connections
<1>2. Begun'
  BY BegunKept DEF Connections
<1>3. ASSUME NEW r \in Writes PROVE OneHolder(r)'
  BY HolderKept DEF Connections
<1>4. Writes' = Writes
  BY DEF Writes
<1> QED
  BY <1>1, <1>2, <1>3, <1>4 DEF Connections

\* Every connection is in one place: it is never served by two threads, never
\* lost from a queue and never told "ok!" by nobody.
THEOREM ConnectionsAlways == Spec => []ConnectionInOnePlace
<1>1. Connections => ConnectionInOnePlace
  BY DEF Connections, ConnectionInOnePlace, OneHolder
<1> QED
  BY <1>1, ConnectionsStart, ConnectionsKept, TypesAlways, FatesAlways, PTL DEF Spec

-----------------------------------------------------------------------------
(* Connections and READ events *)

\* The READ events of device d on their way to the pool, the threads that can still
\* fetch a connection with one, and the one that the accept thread is about to raise.
Carried(d) == Times(d, inqueue) + Times(d, r_store) + Times(d, m_taskqueue)
Reading(d) == {w \in Workers : job[w] = d /\ pc[w] \in {"test", "receive"}}
Raising(d) == IF acceptor[d] = "notify" THEN 1 ELSE 0

\* No connection is left at d, or none more than READ events.
InStep(d) ==
  \/ Len(m_client_request'[d]) = 0
  \/ Len(m_client_request'[d]) + Readers(d) =< Len(m_client_request[d]) + Readers(d)'

LEMMA ReadersParts ==
  ASSUME TypeInv, TypeInv', NEW d \in Devices
  PROVE  /\ Readers(d) = Carried(d) + Cardinality(Reading(d)) + Raising(d)
         /\ Readers(d)' = Carried(d)' + Cardinality(Reading(d)') + Raising(d)'
         /\ Carried(d) \in Nat /\ Cardinality(Reading(d)) \in Nat /\ Raising(d) \in Nat
         /\ Carried(d)' \in Nat /\ Cardinality(Reading(d)') \in Nat /\ Raising(d)' \in Nat
         /\ Len(m_client_request[d]) \in Nat /\ Len(m_client_request'[d]) \in Nat
         /\ \A w \in Workers : OthersStay(w) =>
              Cardinality(Reading(d)') + (IF w \in Reading(d) THEN 1 ELSE 0) =
                Cardinality(Reading(d)) + (IF w \in Reading(d)' THEN 1 ELSE 0)
<1>1. /\ Times(d, inqueue) \in Nat /\ Times(d, r_store) \in Nat /\ Times(d, m_taskqueue) \in Nat
      /\ Times(d, inqueue') \in Nat /\ Times(d, r_store') \in Nat /\ Times(d, m_taskqueue') \in Nat
  BY TimesType DEF TypeInv, BusTypeOK
<1>2. Carried(d) \in Nat /\ Carried(d)' \in Nat
  BY <1>1 DEF Carried
<1>3. Reading(d) \subseteq BusyThreads /\ Reading(d)' \subseteq BusyThreads'
  BY DEF Reading, BusyThreads
<1>4. IsFiniteSet(Reading(d)) /\ IsFiniteSet(Reading(d)')
  BY <1>3, FS_Subset DEF TypeInv
<1>5. Cardinality(Reading(d)) \in Nat /\ Cardinality(Reading(d)') \in Nat
  BY <1>4, FS_CardinalityType
<1>6. ASSUME NEW w \in Workers, OthersStay(w)
      PROVE  Cardinality(Reading(d)') + (IF w \in Reading(d) THEN 1 ELSE 0) =
               Cardinality(Reading(d)) + (IF w \in Reading(d)' THEN 1 ELSE 0)
  <2>1. Reading(d)' \ {w} = Reading(d) \ {w}
    BY <1>6 DEF Reading, OthersStay
  <2> QED
    BY <1>4, <2>1, CountStep
<1>7. Raising(d) \in Nat /\ Raising(d)' \in Nat
  BY DEF Raising
<1>8. Len(m_client_request[d]) \in Nat /\ Len(m_client_request'[d]) \in Nat
  BY LenProperties DEF TypeInv, DeviceTypeOK
<1>9. Readers(d) = Carried(d) + Cardinality(Reading(d)) + Raising(d)
  BY DEF Readers, Carried, Reading, Raising
<1>10. Readers(d)' = Carried(d)' + Cardinality(Reading(d)') + Raising(d)'
  BY DEF Readers, Carried, Reading, Raising
<1> QED
  BY <1>2, <1>5, <1>6, <1>7, <1>8, <1>9, <1>10

\* Nothing is accepted, and no READ event disappears.
LEMMA ReadersStay ==
  ASSUME TypeInv, TypeInv', NEW d \in Devices, m_client_request'[d] = m_client_request[d],
         Carried(d)' = Carried(d) \/ Carried(d)' >= Carried(d),
         Cardinality(Reading(d)') = Cardinality(Reading(d)), Raising(d)' = Raising(d)
  PROVE  InStep(d)
<1>1. /\ Carried(d) \in Nat /\ Carried(d)' \in Nat
      /\ Cardinality(Reading(d)) \in Nat /\ Raising(d) \in Nat
      /\ Readers(d) = Carried(d) + Cardinality(Reading(d)) + Raising(d)
      /\ Readers(d)' = Carried(d)' + Cardinality(Reading(d)') + Raising(d)'
      /\ Len(m_client_request[d]) \in Nat
  BY ReadersParts
<1>2. Readers(d) \in Nat /\ Readers(d)' \in Nat /\ Readers(d)' >= Readers(d)
  BY <1>1
<1> QED
  BY <1>1, <1>2 DEF InStep

\* What a step of thread w does to Reading(d), when w neither begins nor ends to count.
LEMMA ReadingStays ==
  ASSUME TypeInv, TypeInv', NEW d \in Devices, NEW w \in Workers, OthersStay(w),
         w \in Reading(d) <=> w \in Reading(d)'
  PROVE  Cardinality(Reading(d)') = Cardinality(Reading(d))
<1>1. /\ Cardinality(Reading(d)') + (IF w \in Reading(d) THEN 1 ELSE 0) =
           Cardinality(Reading(d)) + (IF w \in Reading(d)' THEN 1 ELSE 0)
      /\ Cardinality(Reading(d)) \in Nat /\ Cardinality(Reading(d)') \in Nat
  BY ReadersParts
<1> QED
  BY <1>1

\* The events on their way, of which one may come.
LEMMA PushedReads ==
  ASSUME TypeInv, TypeInv', NEW d \in Devices, NEW e \in Events,
         inqueue' = Append(inqueue, e), UNCHANGED <<r_store, m_taskqueue>>
  PROVE  Carried(d)' = Carried(d) + (IF e = d THEN 1 ELSE 0)
<1>1. Times(d, inqueue') = Times(d, inqueue) + (IF e = d THEN 1 ELSE 0)
  BY TimesAppend DEF TypeInv, BusTypeOK
<1>2. Times(d, inqueue) \in Nat /\ Times(d, r_store) \in Nat /\ Times(d, m_taskqueue) \in Nat
  BY TimesType DEF TypeInv, BusTypeOK
<1>3. Times(d, r_store') = Times(d, r_store) /\ Times(d, m_taskqueue') = Times(d, m_taskqueue)
  OBVIOUS
<1>4. (IF e = d THEN 1 ELSE 0) \in Nat
  OBVIOUS
<1> QED
  BY <1>1, <1>2, <1>3, <1>4 DEF Carried

\* A failure shows in the count of failures.
LEMMA ErrorsShow == ASSUME TypeInv, IoError PROVE ioErrs' > ioErrs
BY EventBusAssumption DEF TypeInv, BusTypeOK, IoError

LEMMA CarriersInStep ==
  ASSUME TypeInv, TypeInv', NEW d \in Devices, ~(ioErrs' > ioErrs), UNCHANGED deviceVars,
         (\E r \in Requests : Publish(r)) \/ Deliver \/ ConsumerDies \/ Dispatch
  PROVE  InStep(d)
<1>1. /\ m_client_request'[d] = m_client_request[d] /\ Raising(d)' = Raising(d)
      /\ Reading(d)' = Reading(d)
  BY DEF deviceVars, listenVars, Raising, Reading
<1>2. /\ inqueue \in Seq(Events) /\ r_store \in Seq(Events) /\ m_taskqueue \in Seq(Events)
      /\ Times(d, inqueue) \in Nat /\ Times(d, r_store) \in Nat /\ Times(d, m_taskqueue) \in Nat
      /\ Times(d, inqueue') \in Nat /\ Times(d, r_store') \in Nat /\ Times(d, m_taskqueue') \in Nat
  BY TimesType DEF TypeInv, BusTypeOK
<1>3. Carried(d)' >= Carried(d)
  <2>1. ASSUME NEW r \in Requests, Publish(r) PROVE Carried(d)' >= Carried(d)
    <3>1. Carried(d)' = Carried(d) + (IF r = d THEN 1 ELSE 0)
      BY <2>1, PushedReads, KindsOfEvents DEF Publish
    <3>2. Carried(d) \in Nat /\ (IF r = d THEN 1 ELSE 0) \in Nat
      BY ReadersParts
    <3> QED
      BY <3>1, <3>2
  <2>2. CASE Deliver
    <3> DEFINE e == Head(inqueue)
    <3>1. /\ inqueue # <<>> /\ e \in Events /\ inqueue' = Tail(inqueue)
          /\ r_store' = Append(r_store, e) /\ m_taskqueue' = m_taskqueue
      BY <1>2, <2>2, DequeueElements DEF Deliver
    <3>2. Times(d, inqueue) = Times(d, inqueue') + (IF e = d THEN 1 ELSE 0)
      BY <1>2, <3>1, TimesTail
    <3>3. Times(d, r_store') = Times(d, r_store) + (IF e = d THEN 1 ELSE 0)
      BY <1>2, <3>1, TimesAppend
    <3>4. Times(d, m_taskqueue') = Times(d, m_taskqueue)
      BY <3>1
    <3> HIDE DEF e
    <3> QED
      BY <1>2, <3>2, <3>3, <3>4 DEF Carried
  <2>3. CASE ConsumerDies
    BY <2>3, ErrorsShow DEF ConsumerDies
  <2>4. CASE Dispatch
    <3> DEFINE e == Head(r_store)
    <3>1. /\ r_store # <<>> /\ e \in Events /\ r_store' = Tail(r_store)
          /\ m_taskqueue' = Append(m_taskqueue, e) /\ inqueue' = inqueue
      BY <1>2, <2>4, DequeueElements DEF Dispatch
    <3>2. Times(d, r_store) = Times(d, r_store') + (IF e = d THEN 1 ELSE 0)
      BY <1>2, <3>1, TimesTail
    <3>3. Times(d, m_taskqueue') = Times(d, m_taskqueue) + (IF e = d THEN 1 ELSE 0)
      BY <1>2, <3>1, TimesAppend
    <3>4. Times(d, inqueue') = Times(d, inqueue)
      BY <3>1
    <3> HIDE DEF e
    <3> QED
      BY <1>2, <3>2, <3>3, <3>4 DEF Carried
  <2> QED
    BY <2>1, <2>2, <2>3, <2>4
<1>4. Cardinality(Reading(d)') = Cardinality(Reading(d)) /\ Raising(d)' = Raising(d)
  BY <1>1
<1> QED
  BY <1>1, <1>3, <1>4, ReadersStay

\* A pool thread that is neither about to read nor takes a task, at whichever place.
LEMMA OthersInStep ==
  ASSUME TypeInv, TypeInv', NEW d \in Devices, NEW w \in Workers, WorkerStep(w),
         \/ Respond(w) \/ CreateObject(w) \/ SetOpen(w) \/ DeleteObject(w) \/ ResetDevice(w)
         \/ Connect(w) \/ ReadOk(w) \/ SendHeader(w) \/ SendData(w) \/ Flood(w)
         \/ OpenOutput(w) \/ FinishReceive(w)
  PROVE  InStep(d)
<1>1. OthersStay(w) /\ pc \in [Workers -> Places] /\ Dev(w) \in Devices
  <2>1. pc[w] # "idle"
    BY DEF Respond, CreateObject, SetOpen, DeleteObject, ResetDevice, Connect, ReadOk, SendHeader,
           SendData, Flood, OpenOutput, FinishReceive
  <2> QED
    BY <2>1, StepsAreOwn, Working DEF TypeInv, DeviceTypeOK, Places
<1>2. pc[w] \notin {"test", "receive"}
  BY DEF Respond, CreateObject, SetOpen, DeleteObject, ResetDevice, Connect, ReadOk, SendHeader,
         SendData, Flood, OpenOutput, FinishReceive
<1>3. \E p \in Places \ {"test", "receive"} : pc' = [pc EXCEPT ![w] = p]
  BY DEF Respond, Free, CreateObject, SetOpen, DeleteObject, ResetDevice, Connect, ReadOk, SendHeader,
         SendData, Flood, OpenOutput, FinishReceive, EndReceive, Send, Goto, Places
<1>4. pc'[w] \notin {"test", "receive"}
  BY <1>1, <1>3
<1>5. Cardinality(Reading(d)') = Cardinality(Reading(d))
  BY <1>1, <1>2, <1>4, ReadingStays DEF Reading
<1>6. UNCHANGED <<inqueue, r_store, m_taskqueue>>
  BY DEF Respond, CreateObject, SetOpen, DeleteObject, ResetDevice, Connect, ReadOk, SendHeader,
         SendData, Flood, OpenOutput, FinishReceive, queueVars
<1>7. Carried(d)' = Carried(d)
  BY <1>6 DEF Carried
<1>8. CASE m_client_request'[d] = m_client_request[d] /\ Raising(d)' = Raising(d)
  BY <1>5, <1>7, <1>8, ReadersStay
<1>9. CASE DeleteObject(w)
  <2>1. CASE UNCHANGED <<m_client_request, acceptor>>
    BY <1>8, <2>1 DEF Raising
  <2>2. CASE Destroy(Dev(w)) /\ Dev(w) # d
    <3>1. PICK a \in {"stray", "none"} : acceptor' = [acceptor EXCEPT ![Dev(w)] = a]
      BY <2>2, Destroyed
    <3>2. m_client_request' = [m_client_request EXCEPT ![Dev(w)] = <<>>]
      BY <2>2, Destroyed
    <3>3. m_client_request'[d] = m_client_request[d] /\ acceptor'[d] = acceptor[d]
      BY <2>2, <3>1, <3>2 DEF TypeInv, DeviceTypeOK
    <3> QED
      BY <1>8, <3>3 DEF Raising
  <2>3. CASE Destroy(Dev(w)) /\ Dev(w) = d
    <3>1. m_client_request'[d] = <<>>
      BY <2>3, Destroyed DEF TypeInv, DeviceTypeOK
    <3> QED
      BY <3>1 DEF InStep
  <2> QED
    BY <1>9, <2>1, <2>2, <2>3 DEF DeleteObject, listenVars
<1>10. CASE CreateObject(w)
  <2>1. m_client_request'[d] = m_client_request[d]
    BY <1>10 DEF CreateObject
  <2>2. acceptor'[d] = acceptor[d] \/ (acceptor[d] = "none" /\ acceptor'[d] = "accept")
    BY <1>1, <1>10 DEF CreateObject, TypeInv, DeviceTypeOK
  <2> QED
    BY <1>8, <2>1, <2>2 DEF Raising
<1>11. CASE ~DeleteObject(w) /\ ~CreateObject(w)
  <2>1. UNCHANGED <<m_client_request, acceptor>>
    BY <1>11 DEF Respond, SetOpen, ResetDevice, Connect, ReadOk, SendHeader, SendData, Flood, OpenOutput,
                 FinishReceive, listenVars
  <2> QED
    BY <1>8, <2>1 DEF Raising
<1> QED
  BY <1>9, <1>10, <1>11

\* A pool thread takes a READ event along, or another.
LEMMA TakeInStep ==
  ASSUME TypeInv, TypeInv', NEW d \in Devices, NEW w \in Workers, Take(w)
  PROVE  InStep(d)
<1> DEFINE e == Head(m_taskqueue)
           n == IF e = d THEN 1 ELSE 0
<1>1. /\ m_taskqueue \in Seq(Events) /\ m_taskqueue # <<>> /\ m_taskqueue' = Tail(m_taskqueue)
      /\ inqueue' = inqueue /\ r_store' = r_store
  BY DEF Take, TypeInv, BusTypeOK
<1>2. Times(d, m_taskqueue) = Times(d, m_taskqueue') + n
  BY <1>1, TimesTail
<1>3. /\ OthersStay(w) /\ pc[w] = "idle" /\ pc'[w] = "test" /\ job'[w] = e
  <2>1. OthersStay(w)
    BY StepsAreOwn DEF WorkerStep
  <2>2. pc[w] = "idle" /\ pc'[w] = "test" /\ job'[w] = e
    BY DEF Take, TypeInv, DeviceTypeOK
  <2> QED
    BY <2>1, <2>2
<1>4. w \notin Reading(d) /\ (w \in Reading(d)' <=> e = d)
  BY <1>3 DEF Reading
<1> HIDE DEF e
<1>5. Cardinality(Reading(d)') = Cardinality(Reading(d)) + n
  <2>1. /\ Cardinality(Reading(d)') + (IF w \in Reading(d) THEN 1 ELSE 0) =
             Cardinality(Reading(d)) + (IF w \in Reading(d)' THEN 1 ELSE 0)
        /\ Cardinality(Reading(d)') \in Nat
    BY <1>3, ReadersParts
  <2> QED
    BY <1>4, <2>1
<1>6. m_client_request' = m_client_request /\ acceptor' = acceptor
  BY DEF Take, listenVars
<1>7. Raising(d)' = Raising(d) /\ Len(m_client_request'[d]) = Len(m_client_request[d])
  BY <1>6 DEF Raising
<1>8. /\ Times(d, inqueue) \in Nat /\ Times(d, r_store) \in Nat
      /\ Times(d, m_taskqueue) \in Nat /\ Times(d, m_taskqueue') \in Nat
      /\ Times(d, inqueue') = Times(d, inqueue) /\ Times(d, r_store') = Times(d, r_store)
  BY <1>1, TimesType DEF TypeInv, BusTypeOK
<1>9. n \in Nat
  OBVIOUS
<1> HIDE DEF n
<1>10. Carried(d) = Carried(d)' + n
  BY <1>2, <1>8, <1>9 DEF Carried
<1>11. Readers(d)' = Readers(d) /\ Readers(d) \in Nat /\ Len(m_client_request[d]) \in Nat
  <2>1. /\ Readers(d) = Carried(d) + Cardinality(Reading(d)) + Raising(d)
        /\ Readers(d)' = Carried(d)' + Cardinality(Reading(d)') + Raising(d)'
        /\ Cardinality(Reading(d)) \in Nat /\ Carried(d)' \in Nat /\ Raising(d) \in Nat
        /\ Len(m_client_request[d]) \in Nat
    BY ReadersParts
  <2> QED
    BY <1>5, <1>7, <1>9, <1>10, <2>1
<1> QED
  BY <1>7, <1>11 DEF InStep

\* The test of f_open lets a READ event pass when the device is open.
LEMMA TestInStep ==
  ASSUME TypeInv, TypeInv', NEW d \in Devices, NEW w \in Workers, Test(w), ~ReadRefused(d)
  PROVE  InStep(d)
<1>1. OthersStay(w) /\ pc[w] = "test" /\ job[w] \in Events /\ pc \in [Workers -> Places]
  BY StepsAreOwn, Working DEF Test, WorkerStep, TypeInv, DeviceTypeOK, Places
<1>2. job' = job
  BY DEF Test
<1>3. ASSUME job[w] = d PROVE pc'[w] = "receive"
  <2>1. Dev(w) = d /\ KindOf(job[w]) = "read"
    BY <1>3 DEF Dev, DeviceOf, KindOf
  <2>2. f_open[d]
    BY <1>1, <1>3 DEF ReadRefused
  <2> QED
    BY <1>1, <2>1, <2>2 DEF Test, Goto, IfOpen
<1>4. w \in Reading(d) <=> w \in Reading(d)'
  BY <1>1, <1>2, <1>3 DEF Reading
<1>5. Cardinality(Reading(d)') = Cardinality(Reading(d))
  BY <1>1, <1>4, ReadingStays
<1>6. UNCHANGED <<m_client_request, acceptor, inqueue, r_store, m_taskqueue>>
  BY DEF Test, listenVars, queueVars
<1>7. /\ m_client_request'[d] = m_client_request[d]
      /\ Raising(d)' = Raising(d) /\ Carried(d)' = Carried(d)
  BY <1>6 DEF Raising, Carried
<1> QED
  BY <1>5, <1>7, ReadersStay

\* receive() takes one connection at most for one READ event.
LEMMA ReceiveInStep ==
  ASSUME TypeInv, TypeInv', NEW d \in Devices, NEW w \in Workers, StartReceive(w),
         ~(ioErrs' > ioErrs)
  PROVE  InStep(d)
<1>1. OthersStay(w) /\ pc[w] = "receive" /\ Dev(w) \in Devices /\ pc \in [Workers -> Places]
  BY StepsAreOwn, Working DEF StartReceive, WorkerStep, TypeInv, DeviceTypeOK, Places
<1>2. \E p \in {"fail", "receiving"} : pc' = [pc EXCEPT ![w] = p]
  BY DEF StartReceive, WriteOk, Goto
<1>3. w \in Reading(d) => Dev(w) = d
  BY DEF Reading, Dev, DeviceOf
<1>4. w \notin Reading(d)'
  BY <1>1, <1>2 DEF Reading
<1>5. UNCHANGED <<acceptor, inqueue, r_store, m_taskqueue>>
  BY DEF StartReceive, queueVars
<1>6. Raising(d)' = Raising(d) /\ Carried(d)' = Carried(d)
  BY <1>5 DEF Raising, Carried
<1>7. \/ m_client_request' = m_client_request /\ m_client_request[Dev(w)] = <<>>
      \/ TakeConnection(w, Dev(w))
  BY ErrorsShow DEF StartReceive
<1>8. CASE Dev(w) # d
  <2>1. m_client_request'[d] = m_client_request[d]
    BY <1>1, <1>7, <1>8 DEF TakeConnection, TypeInv, DeviceTypeOK
  <2>2. Cardinality(Reading(d)') = Cardinality(Reading(d))
    BY <1>1, <1>3, <1>4, <1>8, ReadingStays
  <2> QED
    BY <1>6, <2>1, <2>2, ReadersStay
<1>9. CASE Dev(w) = d /\ m_client_request'[d] = <<>>
  BY <1>9 DEF InStep
<1>10. CASE Dev(w) = d /\ TakeConnection(w, d)
  <2>1. /\ m_client_request[d] \in Seq(Writes) /\ m_client_request[d] # <<>>
        /\ m_client_request'[d] = Tail(m_client_request[d])
    BY <1>10 DEF TakeConnection, TypeInv, DeviceTypeOK
  <2>2. /\ Len(m_client_request[d]) \in Nat
        /\ Len(m_client_request'[d]) = Len(m_client_request[d]) - 1
    BY <2>1, HeadTailProperties, LenProperties
  <2>3. Cardinality(Reading(d)) =< Cardinality(Reading(d)') + 1
    <3>1. /\ Cardinality(Reading(d)') + (IF w \in Reading(d) THEN 1 ELSE 0) =
               Cardinality(Reading(d)) + (IF w \in Reading(d)' THEN 1 ELSE 0)
          /\ Cardinality(Reading(d)) \in Nat /\ Cardinality(Reading(d)') \in Nat
      BY <1>1, ReadersParts
    <3> QED
      BY <1>4, <3>1
  <2>4. Readers(d) =< Readers(d)' + 1 /\ Readers(d)' \in Nat /\ Readers(d) \in Nat
    <3>1. /\ Readers(d) = Carried(d) + Cardinality(Reading(d)) + Raising(d)
          /\ Readers(d)' = Carried(d)' + Cardinality(Reading(d)') + Raising(d)'
          /\ Cardinality(Reading(d)') \in Nat /\ Carried(d) \in Nat /\ Raising(d) \in Nat
          /\ Cardinality(Reading(d)) \in Nat
      BY ReadersParts
    <3> QED
      BY <1>6, <2>3, <3>1
  <2> QED
    BY <2>2, <2>4 DEF InStep
<1> QED
  BY <1>1, <1>7, <1>8, <1>9, <1>10

\* The accept thread raises a READ event for each connection it accepts.
LEMMA AcceptInStep ==
  ASSUME TypeInv, TypeInv', NEW d \in Devices, NEW e \in Devices,
         AcceptStep(e) \/ AcceptDies(e), ~(ioErrs' > ioErrs)
  PROVE  InStep(d)
<1>1. UNCHANGED <<pc, job, r_store, m_taskqueue>>
  BY DEF AcceptStep, Accept, Notify, StrayAccept, LateNotify, AcceptDies, queueVars
<1>2. Reading(d)' = Reading(d)
  BY <1>1 DEF Reading
<1>3. e \in Events
  BY KindsOfEvents
<1>4. /\ acceptor \in [Devices -> {"none", "accept", "notify", "deaf", "stray"}]
      /\ m_client_request \in [Devices -> Seq(Writes)] /\ backlog \in [Devices -> Seq(Writes)]
  BY DEF TypeInv, DeviceTypeOK
<1>5. UNCHANGED inqueue => Carried(d)' = Carried(d)
  BY <1>1 DEF Carried
<1>6. inqueue' = Append(inqueue, e) => Carried(d)' = Carried(d) + (IF e = d THEN 1 ELSE 0)
  BY <1>1, <1>3, PushedReads
<1>7. PushIn(e) => inqueue' = Append(inqueue, e)
  BY ErrorsShow DEF PushIn
<1>8. Carried(d) \in Nat
  BY ReadersParts
<1>9. CASE Accept(e)
  <2>1. /\ acceptor[e] = "accept" /\ acceptor' = [acceptor EXCEPT ![e] = "notify"]
        /\ backlog[e] # <<>> /\ UNCHANGED inqueue
        /\ m_client_request' = [m_client_request EXCEPT ![e] = Append(@, Head(backlog[e]))]
    BY <1>9 DEF Accept, queueVars
  <2>2. CASE e = d
    <3>1. Head(backlog[d]) \in Writes
      BY <1>4, <2>1, <2>2, DequeueElements
    <3>2. m_client_request'[d] = Append(m_client_request[d], Head(backlog[d]))
      BY <1>4, <2>1, <2>2
    <3>3. Len(m_client_request'[d]) = Len(m_client_request[d]) + 1
      BY <1>4, <3>1, <3>2, AppendProperties
    <3>4. Raising(d) = 0 /\ Raising(d)' = 1
      BY <1>4, <2>1, <2>2 DEF Raising
    <3>5. Carried(d)' = Carried(d)
      BY <1>5, <2>1
    <3>6. Readers(d)' = Readers(d) + 1 /\ Readers(d) \in Nat
      <4>1. Cardinality(Reading(d)') = Cardinality(Reading(d))
        BY <1>2
      <4>2. /\ Readers(d) = Carried(d) + Cardinality(Reading(d)) + Raising(d)
            /\ Readers(d)' = Carried(d)' + Cardinality(Reading(d)') + Raising(d)'
            /\ Cardinality(Reading(d)) \in Nat /\ Carried(d) \in Nat
        BY ReadersParts
      <4> QED
        BY <3>4, <3>5, <4>1, <4>2
    <3>7. Len(m_client_request[d]) \in Nat
      BY <1>4, LenProperties
    <3> QED
      BY <3>3, <3>6, <3>7 DEF InStep
  <2>3. CASE e # d
    <3>1. m_client_request'[d] = m_client_request[d] /\ acceptor'[d] = acceptor[d]
      BY <1>4, <2>1, <2>3
    <3>2. Raising(d)' = Raising(d)
      BY <3>1 DEF Raising
    <3> QED
      BY <1>2, <1>5, <2>1, <3>1, <3>2, ReadersStay
  <2> QED
    BY <2>2, <2>3
<1>10. CASE Notify(e)
  <2>1. /\ acceptor[e] = "notify" /\ acceptor' = [acceptor EXCEPT ![e] = "accept"]
        /\ inqueue' = Append(inqueue, e) /\ m_client_request' = m_client_request
    BY <1>7, <1>10 DEF Notify
  <2>2. Len(m_client_request'[d]) = Len(m_client_request[d])
    BY <2>1
  <2>3. Carried(d)' + Raising(d)' = Carried(d) + Raising(d)
    <3>1. CASE e = d
      <4>1. Raising(d) = 1 /\ Raising(d)' = 0
        BY <1>4, <2>1, <3>1 DEF Raising
      <4>2. Carried(d)' = Carried(d) + 1
        BY <1>6, <2>1, <3>1
      <4> QED
        BY <1>8, <4>1, <4>2
    <3>2. CASE e # d
      <4>1. Raising(d)' = Raising(d)
        BY <1>4, <2>1, <3>2 DEF Raising
      <4>2. Carried(d)' = Carried(d) + 0
        BY <1>6, <2>1, <3>2
      <4> QED
        BY <1>8, <4>1, <4>2
    <3> QED
      BY <3>1, <3>2
  <2>4. Readers(d)' = Readers(d) /\ Readers(d) \in Nat
    <3>1. Cardinality(Reading(d)') = Cardinality(Reading(d))
      BY <1>2
    <3>2. /\ Readers(d) = Carried(d) + Cardinality(Reading(d)) + Raising(d)
          /\ Readers(d)' = Carried(d)' + Cardinality(Reading(d)') + Raising(d)'
          /\ Cardinality(Reading(d)) \in Nat /\ Raising(d) \in Nat
          /\ Carried(d)' \in Nat /\ Raising(d)' \in Nat
      BY ReadersParts
    <3> QED
      BY <1>8, <2>3, <3>1, <3>2
  <2>5. Len(m_client_request[d]) \in Nat
    BY <1>4, LenProperties
  <2> QED
    BY <2>2, <2>4, <2>5 DEF InStep
<1>11. CASE StrayAccept(e) \/ LateNotify(e)
  <2>1. UNCHANGED m_client_request /\ (UNCHANGED inqueue \/ inqueue' = Append(inqueue, e))
    BY <1>7, <1>11 DEF StrayAccept, LateNotify
  <2>2. Carried(d)' >= Carried(d)
    <3>1. (IF e = d THEN 1 ELSE 0) \in Nat
      OBVIOUS
    <3> QED
      BY <1>5, <1>6, <1>8, <2>1, <3>1
  <2>3. acceptor'[d] = acceptor[d] \/ (acceptor[d] = "stray" /\ acceptor'[d] = "none")
    BY <1>4, <1>11 DEF StrayAccept, LateNotify
  <2>4. Raising(d)' = Raising(d) /\ m_client_request'[d] = m_client_request[d]
    BY <2>1, <2>3 DEF Raising
  <2> QED
    BY <1>2, <2>2, <2>4, ReadersStay
<1>12. ~AcceptDies(e)
  BY ErrorsShow DEF AcceptDies
<1> QED
  BY <1>9, <1>10, <1>11, <1>12 DEF AcceptStep

LEMMA AllInStep ==
  ASSUME TypeInv, TypeInv', [Next]_vars, NEW d \in Devices, ~ReadRefused(d), ~(ioErrs' > ioErrs)
  PROVE  InStep(d)
<1>1. ASSUME NEW w \in Workers, WorkerStep(w) PROVE InStep(d)
  BY <1>1, TakeInStep, TestInStep, ReceiveInStep, OthersInStep DEF WorkerStep
<1>2. ASSUME NEW e \in Devices, AcceptStep(e) \/ AcceptDies(e) PROVE InStep(d)
  BY <1>2, AcceptInStep
<1>3. CASE Restart
  <2>1. m_client_request'[d] = <<>>
    BY <1>3 DEF Restart, DeviceRestart
  <2> QED
    BY <2>1 DEF InStep
<1>4. CASE UNCHANGED <<queueVars, answerVars, ioErrs, deviceVars>>
  <2>1. /\ m_client_request'[d] = m_client_request[d] /\ Carried(d)' = Carried(d)
        /\ Reading(d)' = Reading(d) /\ Raising(d)' = Raising(d)
    BY <1>4 DEF queueVars, deviceVars, listenVars, Carried, Reading, Raising
  <2> QED
    BY <2>1, ReadersStay
<1> QED
  BY <1>1, <1>2, <1>3, <1>4, CarriersInStep, WhatHappens DEF Happens

\* No order of queue and callback, accept thread and pool threads leaves a connection
\* without a READ event; a refused READ does, and a failure.
THEOREM ReadersKeepUp == Spec => OnlyRefusalStrands
<1>1. ASSUME TypeInv, TypeInv', [Next]_vars, NEW d \in Devices, Excess(d)' > Excess(d)
      PROVE  ReadRefused(d) \/ ioErrs' > ioErrs
  <2> SUFFICES ASSUME ~ReadRefused(d), ~(ioErrs' > ioErrs) PROVE FALSE
    OBVIOUS
  <2>1. InStep(d)
    BY <1>1, AllInStep
  <2>2. /\ Readers(d) \in Nat /\ Readers(d)' \in Nat
        /\ Len(m_client_request[d]) \in Nat /\ Len(m_client_request'[d]) \in Nat
    BY <1>1, ReadersParts
  <2>3. Excess(d) = IF Len(m_client_request[d]) > Readers(d)
                      THEN Len(m_client_request[d]) - Readers(d) ELSE 0
    BY DEF Excess, Stranded
  <2>4. Excess(d)' = IF Len(m_client_request'[d]) > Readers(d)'
                       THEN Len(m_client_request'[d]) - Readers(d)' ELSE 0
    BY DEF Excess, Stranded
  <2> QED
    BY <1>1, <2>1, <2>2, <2>3, <2>4 DEF InStep
<1>2. TypeInv /\ TypeInv' /\ [Next]_vars
        => [\A d \in Devices :
              Excess(d)' > Excess(d) => ReadRefused(d) \/ ioErrs' > ioErrs]_vars
  BY <1>1
<1> QED
  BY <1>2, TypesAlways, PTL DEF Spec, OnlyRefusalStrands
=============================================================================
