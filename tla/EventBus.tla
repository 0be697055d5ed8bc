------------------------------ MODULE EventBus ------------------------------
(***************************************************************************)
(* The way of an event through the process: the IN queue of the broker,    *)
(* the consumer thread of RabbitMqClient, Reactor::listen, the queue of    *)
(* the pool; and its answer on the OUT queue.  A request of an operator is *)
(* an event of its own; the READ event that a device raises for itself is  *)
(* the device, so several equal ones may be under way.                     *)
(***************************************************************************)
EXTENDS Counting

CONSTANTS
  Requests,      \* the events published from outside
  Devices,
  Kind,          \* Kind[r] is "open", "write", "read" or "close"
  Device,        \* Device[r] is the m_device of r
  Nil,
  MaxIoErrs      \* bound on failing operations of broker, network and disk

ASSUME EventBusAssumption ==
  /\ Requests \intersect Devices = {}
  /\ Nil \notin Requests \union Devices
  /\ Kind \in [Requests -> {"open", "write", "read", "close"}]
  /\ Device \in [Requests -> Devices]
  /\ MaxIoErrs \in Nat

VARIABLES
  unsent,        \* requests not published yet
  inqueue,       \* IN queue of the broker, and the socket of the consumer thread
  r_store,       \* events the consumer thread has received
  m_taskqueue,   \* events submitted to the pool
  outqueue,      \* bag of <<event, status>> published as answers
  unanswered,    \* requests executed, or given up, without an answer
  consuming,     \* the consumer thread runs
  ioErrs

queueVars == <<unsent, inqueue, r_store, m_taskqueue, consuming>>
answerVars == <<outqueue, unanswered>>

Events == Requests \union Devices
KindOf(e) == IF e \in Devices THEN "read" ELSE Kind[e]
DeviceOf(e) == IF e \in Devices THEN e ELSE Device[e]

BusInit ==
  /\ unsent = Requests
  /\ inqueue = <<>> /\ r_store = <<>> /\ m_taskqueue = <<>>
  /\ outqueue = EmptyBag
  /\ unanswered = {}
  /\ consuming = TRUE
  /\ ioErrs = 0

\* Some operation of the environment fails.
IoError == ioErrs < MaxIoErrs /\ ioErrs' = ioErrs + 1

Publish(r) ==
  /\ r \in unsent
  /\ unsent' = unsent \ {r}
  /\ inqueue' = Append(inqueue, r)
  /\ UNCHANGED <<r_store, m_taskqueue, consuming, ioErrs, answerVars>>

\* One round of consume_listen.  no_ack: the broker forgets what it delivers.
Deliver ==
  /\ consuming /\ inqueue # <<>>
  /\ r_store' = Append(r_store, Head(inqueue))
  /\ inqueue' = Tail(inqueue)
  /\ UNCHANGED <<unsent, m_taskqueue, consuming, ioErrs, answerVars>>

\* no_ack, and no qos: the broker has sent the consumer what it holds, so the first
\* n messages are in its socket, for some n, and are lost with the connection.
SocketLost(n) == inqueue' = SubSeq(inqueue, n + 1, Len(inqueue))
InSocket(n) == ToSet(SubSeq(inqueue, 1, n)) \intersect Requests

\* An error of amqp_consume_message ends the thread, and nothing restarts it.
ConsumerDies ==
  /\ consuming /\ IoError
  /\ consuming' = FALSE
  /\ \E n \in 0 .. Len(inqueue) :
       SocketLost(n) /\ unanswered' = unanswered \union InSocket(n)
  /\ UNCHANGED <<unsent, r_store, m_taskqueue, outqueue>>

\* Reactor::listen: pop_in, parse, submit.
Dispatch ==
  /\ r_store # <<>>
  /\ m_taskqueue' = Append(m_taskqueue, Head(r_store))
  /\ r_store' = Tail(r_store)
  /\ UNCHANGED <<unsent, inqueue, consuming, ioErrs, answerVars>>

\* Reactor::push of the READ event of device d.  push_in ignores the result of
\* publish(), so an event that is not sent is lost.
PushIn(d) ==
  \/ inqueue' = Append(inqueue, d) /\ UNCHANGED ioErrs
  \/ IoError /\ UNCHANGED inqueue

\* Source::push_out of event e, which ignores the result of publish() as well.
PushOut(e, status) ==
  \/ /\ outqueue' = outqueue (+) SetToBag({<<e, status>>})
     /\ UNCHANGED <<unanswered, ioErrs>>
  \/ /\ IoError
     /\ unanswered' = unanswered \union ({e} \intersect Requests)
     /\ UNCHANGED outqueue

\* The process ends and starts again: what it had received and not answered
\* (busy: what its pool threads work on) is gone, the broker keeps its queues.
BusRestart(busy) ==
  /\ r_store' = <<>> /\ m_taskqueue' = <<>>
  /\ consuming' = TRUE
  /\ \E n \in 0 .. Len(inqueue) :
       /\ SocketLost(n)
       /\ unanswered' = unanswered \union InSocket(n)
            \union ((ToSet(r_store) \union ToSet(m_taskqueue) \union busy) \intersect Requests)
  /\ UNCHANGED <<unsent, outqueue, ioErrs>>

BusTypeOK ==
  /\ unsent \in SUBSET Requests
  /\ inqueue \in Seq(Events) /\ r_store \in Seq(Events) /\ m_taskqueue \in Seq(Events)
  /\ IsABag(outqueue) /\ BagToSet(outqueue) \subseteq Events \X {"success", "fail"}
  /\ unanswered \in SUBSET Requests
  /\ consuming \in BOOLEAN
  /\ ioErrs \in 0 .. MaxIoErrs
=============================================================================
