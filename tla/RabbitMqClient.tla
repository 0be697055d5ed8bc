--------------------------- MODULE RabbitMqClient ----------------------------
(***************************************************************************)
(* The clients of the broker in the two applications, and as much of the   *)
(* broker as they use: an exchange, and a durable queue bound to it.  A    *)
(* call over a connection that failed returns an error that no caller      *)
(* looks at; a call without a connection uses a null pointer.              *)
(***************************************************************************)
EXTENDS Naturals, Sequences

CONSTANTS
  Messages,
  MaxIoErrs      \* bound on failing calls and lost connections

ASSUME RabbitMqClientAssumption == MaxIoErrs \in Nat

Clients == {"in", "out", "test"}   \* two of Source, one of pressure_test
Names == {"IN", "OUT"}             \* exchange, queue and routing key
NameOf(c) == IF c = "out" THEN "OUT" ELSE "IN"

VARIABLES
  conn,          \* conn[c]: "none" (m_conn is null), "failed" or "open"
  declared,      \* declared[n]: "nothing", "exchange" or "bound", at the broker
  inqueue,       \* the IN queue of the broker
  consumer,      \* thread of consume_listen: "none", "started", "consuming" or "ended"
  r_store,       \* messages received and not yet taken by consume()
  ioErrs

clientVars == <<conn, declared, inqueue, consumer, r_store, ioErrs>>

ClientInit ==
  /\ conn = [c \in Clients |-> "none"]
  /\ declared = [n \in Names |-> "nothing"]
  /\ inqueue = <<>> /\ r_store = <<>>
  /\ consumer = "none"
  /\ ioErrs = 0

\* A call to the broker fails.
IoError == ioErrs < MaxIoErrs /\ ioErrs' = ioErrs + 1

\* connect(): -1 and -2 leave no connection, -3 to -6 one that is not usable.
Connect(c) ==
  /\ \/ conn' = [conn EXCEPT ![c] = "open"] /\ UNCHANGED ioErrs
     \/ IoError /\ \E s \in {"none", "failed"} : conn' = [conn EXCEPT ![c] = s]
  /\ UNCHANGED <<declared, inqueue, consumer, r_store>>

\* declareExchange, and declareQueue with bindQueueToExchange, of client c.
\* What the broker has already stays as it is.
Declare(c, from, to) ==
  /\ \/ conn[c] = "open"
        /\ declared' = [declared EXCEPT ![NameOf(c)] = IF @ = from THEN to ELSE @]
     \/ conn[c] = "failed" /\ UNCHANGED declared
  /\ UNCHANGED <<conn, inqueue, consumer, r_store, ioErrs>>

\* publish(): Sent or Lost says what becomes of the message.  The broker closes
\* the channel over an exchange it does not know, and returns a message that
\* no queue takes (mandatory), which no client reads.
Publish(c, Sent, Lost) ==
  /\ \/ conn[c] = "open" /\ declared[NameOf(c)] = "bound" /\ Sent /\ UNCHANGED <<conn, ioErrs>>
     \/ /\ conn[c] = "open" /\ declared[NameOf(c)] # "bound" /\ Lost
        /\ conn' = IF declared[NameOf(c)] = "nothing" THEN [conn EXCEPT ![c] = "failed"] ELSE conn
        /\ UNCHANGED ioErrs
     \/ conn[c] = "open" /\ IoError /\ Lost /\ conn' = [conn EXCEPT ![c] = "failed"]
     \/ conn[c] = "failed" /\ Lost /\ UNCHANGED <<conn, ioErrs>>
  /\ UNCHANGED <<declared, consumer, r_store>>

\* consume_listen() detaches a thread, whatever the state of the connection.
ConsumeListen ==
  /\ consumer' = "started"
  /\ UNCHANGED <<conn, declared, inqueue, r_store, ioErrs>>

\* Its amqp_basic_consume: an error is thrown, caught and logged, and the thread ends.
BasicConsume ==
  /\ consumer = "started"
  /\ \/ /\ conn["in"] = "open" /\ declared["IN"] = "bound"
        /\ consumer' = "consuming" /\ UNCHANGED <<conn, ioErrs>>
     \/ /\ conn["in"] # "open" \/ declared["IN"] # "bound"
        /\ consumer' = "ended" /\ conn' = [conn EXCEPT !["in"] = "failed"] /\ UNCHANGED ioErrs
     \/ IoError /\ consumer' = "ended" /\ conn' = [conn EXCEPT !["in"] = "failed"]
  /\ UNCHANGED <<declared, inqueue, r_store>>

\* Seeded fault: no_ack is false and the acknowledgement is never sent.
DeliverUnacknowledged ==
  /\ consumer = "consuming" /\ inqueue # <<>>
  /\ r_store' = Append(r_store, Head(inqueue))
  /\ UNCHANGED <<conn, declared, inqueue, consumer, ioErrs>>

\* A round of its loop.  no_ack: the broker forgets what it delivers.
Deliver ==
  /\ consumer = "consuming" /\ inqueue # <<>>
  /\ r_store' = Append(r_store, Head(inqueue))
  /\ inqueue' = Tail(inqueue)
  /\ UNCHANGED <<conn, declared, consumer, ioErrs>>

\* no_ack, and no qos: the broker sends a consumer all it holds, so the first n
\* messages are in its socket, for some n, and are lost with the connection.
Prefetched == IF consumer = "consuming" THEN 0 .. Len(inqueue) ELSE {0}
InSocket(n) == SubSeq(inqueue, 1, n)
SocketLost(n) == inqueue' = SubSeq(inqueue, n + 1, Len(inqueue))

\* A connection breaks.  Nothing opens it again; the consumer thread ends.
ConnectionLost(c, n) ==
  /\ conn[c] = "open" /\ IoError
  /\ n \in IF c = "in" THEN Prefetched ELSE {0}
  /\ SocketLost(n)
  /\ conn' = [conn EXCEPT ![c] = "failed"]
  /\ consumer' = IF c = "in" /\ consumer = "consuming" THEN "ended" ELSE consumer
  /\ UNCHANGED <<declared, r_store>>

ClientTypeOK ==
  /\ conn \in [Clients -> {"none", "failed", "open"}]
  /\ declared \in [Names -> {"nothing", "exchange", "bound"}]
  /\ inqueue \in Seq(Messages) /\ r_store \in Seq(Messages)
  /\ consumer \in {"none", "started", "consuming", "ended"}
  /\ ioErrs \in 0 .. MaxIoErrs
=============================================================================
