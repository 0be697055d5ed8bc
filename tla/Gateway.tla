------------------------------ MODULE Gateway -------------------------------
(***************************************************************************)
(* The process of the gateway with its TCP devices: events come over the   *)
(* bus, pool threads execute them on the devices, files that arrive raise  *)
(* READ events, the supervisor starts the process again when it has died.  *)
(* The peers of the devices are devices of the same process, as in         *)
(* config/defconfig.ini.                                                   *)
(***************************************************************************)
EXTENDS TcpDevice

CONSTANT MaxCrashes    \* bound on the deaths of the process that no step of it causes

ASSUME GatewayAssumption == MaxCrashes \in Nat

VARIABLE crashes

deviceVars == <<objectVars, listenVars, sock, pc, job, storeVars>>
vars == <<queueVars, answerVars, ioErrs, deviceVars, crashes>>

Init == BusInit /\ DeviceInit /\ crashes = 0

Busy == {job[w] : w \in Workers} \ {Nil}
Restart == BusRestart(Busy) /\ DeviceRestart

\* The process is killed, or undefined behaviour after a deletion ends it.
Crash == crashes < MaxCrashes /\ crashes' = crashes + 1 /\ Restart

\* A pool thread uses an object that is not there.
Segfault(w) == UsesNoObject(w) /\ Restart /\ UNCHANGED crashes

\* The threads that carry events; they touch no device.
Carry(Step) == Step /\ UNCHANGED <<deviceVars, crashes>>

\* The threads that work on devices.
PoolThread(w) == (WorkerStep(w) /\ UNCHANGED crashes) \/ Segfault(w)
AcceptThread(d) == AcceptStep(d) /\ UNCHANGED crashes

Next ==
  \/ \E r \in Requests : Carry(Publish(r))
  \/ Carry(Deliver) \/ Carry(ConsumerDies) \/ Carry(Dispatch)
  \/ \E w \in Workers : PoolThread(w)
  \/ \E d \in Devices : AcceptThread(d) \/ (AcceptDies(d) /\ UNCHANGED crashes)
  \/ Crash

\* Each thread takes its next step when it can, and the broker delivers.  Nobody
\* has to publish, to fail or to die.
Fairness ==
  /\ WF_vars(Carry(Deliver)) /\ WF_vars(Carry(Dispatch))
  /\ \A w \in Workers : WF_vars(PoolThread(w))
  /\ \A d \in Devices : WF_vars(AcceptThread(d))

Spec == Init /\ [][Next]_vars /\ Fairness

-----------------------------------------------------------------------------
\* Type invariant.
TypeOK == BusTypeOK /\ DeviceTypeOK /\ crashes \in 0 .. MaxCrashes

Answers(r) == Copies(<<r, "success">>, outqueue) + Copies(<<r, "fail">>, outqueue)

\* A request is in one place at any time: not published, in a queue, with one
\* pool thread, answered once, or given up without an answer.  It is never
\* executed twice, answered twice, or dropped in between, restarts included.
OneFate ==
  \A r \in Requests :
    Cardinality({r} \intersect unsent) + Cardinality({r} \intersect unanswered)
      + Times(r, inqueue) + Times(r, r_store) + Times(r, m_taskqueue)
      + Cardinality({w \in Workers : job[w] = r}) + Answers(r) = 1

\* The connection of request r in state s that somebody holds.
Holders(r) ==
  Cardinality({w \in Workers : hand[w] = r})
    + Times(r, backlog[Peer[Device[r]]]) + Times(r, m_client_request[Peer[Device[r]]])

\* The states of a connection that a receive() has at its end.
Served == {"ok", "header", "junk", "sent", "cut"}

\* A connection is in one place: waiting in the kernel, waiting in
\* m_client_request, or served by one receive(), which alone has said "ok!".
ConnectionInOnePlace ==
  \A r \in Writes :
    /\ Holders(r) =< 1
    /\ sock[r] \in Served => \E w \in Workers : hand[w] = r
    /\ sock[r] = "none" => Holders(r) = 0
    /\ \A w \in Workers : hand[w] = r => sock[r] \notin {"none", "waiting"}

\* READ events of device d that can still fetch a connection, those the accept
\* thread is about to raise included.
Readers(d) ==
  Times(d, inqueue) + Times(d, r_store) + Times(d, m_taskqueue)
    + Cardinality({w \in Workers : job[w] = d /\ pc[w] \in {"test", "receive"}})
    + (IF acceptor[d] = "notify" THEN 1 ELSE 0)

\* More accepted connections wait at d than READ events will come.
Stranded(d) == Len(m_client_request[d]) > Readers(d)
Excess(d) == IF Stranded(d) THEN Len(m_client_request[d]) - Readers(d) ELSE 0

\* A READ event finds its device not open yet, although it listens already.
ReadRefused(d) == \E w \in Workers : job[w] = d /\ pc[w] = "test" /\ ~f_open[d]

\* Connections and READ events stay in step.  A connection is left without a READ
\* event only when one is refused because f_open is not set, or when publishing
\* or preparing it fails; never by the order in which queue and callback, accept
\* thread and pool threads run.
OnlyRefusalStrands ==
  [][\A d \in Devices :
       Excess(d)' > Excess(d) => ReadRefused(d) \/ ioErrs' > ioErrs]_vars

Failed(r) ==
  BagIn(<<r, "fail">>, outqueue) \/ \E w \in Workers : job[w] = r /\ pc[w] = "fail"

Succeeded(r) ==
  BagIn(<<r, "success">>, outqueue) \/ \E w \in Workers : job[w] = r /\ pc[w] = "success"

\* What a WRITE reports and what the other end, which opens its output before it
\* knows that the file will come, leaves on disk fit together this far: where the
\* whole file is, no failure is reported, and no success where receive() has
\* written the one byte of a file that the client could not open, although the
\* READ reports one there (tcpfiletransfer.cpp:88-106, 178-207).
ReportsMatchFiles ==
  \A r \in Writes :
    /\ stored[r] = "whole" => ~Failed(r)
    /\ stored[r] = "byte" => ~Succeeded(r)

-----------------------------------------------------------------------------
(* Liveness *)

Settled(r) == Answers(r) > 0 \/ r \in unanswered

\* Every pool thread waits for "ok!", and none is left to say it.
Starved == \A w \in Workers : pc[w] = "getok" /\ sock[job[w]] = "waiting"

\* The connection of r waits where nobody will fetch it: READ events are missing,
\* the accept thread has ended, or it went into a deleted object.
Forgotten(r) ==
  LET p == Peer[Device[r]] IN
  /\ r \in Writes /\ sock[r] = "waiting"
  /\ \/ r \in ToSet(m_client_request[p]) /\ Stranded(p)
     \/ r \in ToSet(backlog[p]) /\ acceptor[p] = "deaf"
     \/ Holders(r) = 0

\* Again and again every published request has been answered or given up, except
\* those behind a dead consumer thread or a starved pool and those whose
\* connection is forgotten: nothing else keeps an event from its answer.
EventsSettle ==
  []<>(\A r \in Requests \ unsent :
         Settled(r) \/ ~consuming \/ Starved \/ Forgotten(r))

\* A client that has connected to an open device, and for whose connection there
\* is a READ event, is told "ok!" or turned away.
ClientIsTold ==
  \A r \in Writes :
    LET p == Peer[Device[r]] IN
    (r \in ToSet(m_client_request[p]) /\ f_open[p] /\ ~Stranded(p))
      ~> (sock[r] # "waiting")
=============================================================================
