----------------------------- MODULE TcpDevice ------------------------------
(***************************************************************************)
(* CommDevice::handleEvent on the threads of the pool, for the devices     *)
(* that own a TcpFileTransfer, and that object: its accept thread, the     *)
(* connections it has accepted, transfer() and receive().  Nothing locks   *)
(* f_open and p_filetransfer.                                              *)
(***************************************************************************)
EXTENDS EventBus

CONSTANTS
  Peer,          \* Peer[d] is the device at m_target_ip:m_target_port of d
  Workers        \* the threads of the pool

ASSUME TcpDeviceAssumption ==
  /\ Peer \in [Devices -> Devices]
  /\ Workers # {} /\ Nil \notin Workers

VARIABLES
  f_open, p_filetransfer,    \* the fields of each device
  acceptor,                  \* the listening socket of each device and its thread
  late,                      \* accept threads of deleted objects still to call back
  backlog,                   \* connections the kernel holds for accept()
  m_client_request,          \* connections accepted and not served yet
  sock,                      \* the connection of each "write" request
  pc, job,                   \* where each pool thread is, and with which event
  hand,                      \* the connection a receive() serves
  stored                     \* what receive() has left on disk of each request's file

objectVars == <<f_open, p_filetransfer>>
listenVars == <<acceptor, late, backlog, m_client_request>>
storeVars == <<hand, stored>>

Writes == {r \in Requests : Kind[r] = "write"}
Dev(w) == DeviceOf(job[w])

DeviceInit ==
  /\ f_open = [d \in Devices |-> FALSE]
  /\ p_filetransfer = [d \in Devices |-> "null"]
  /\ acceptor = [d \in Devices |-> "none"]
  /\ late = [d \in Devices |-> 0]
  /\ backlog = [d \in Devices |-> <<>>]
  /\ m_client_request = [d \in Devices |-> <<>>]
  /\ sock = [r \in Writes |-> "none"]
  /\ pc = [w \in Workers |-> "idle"]
  /\ job = [w \in Workers |-> Nil]
  /\ hand = [w \in Workers |-> Nil]
  /\ stored = [r \in Writes |-> "nothing"]

\* The state of sock when the connections in S are closed.
Closing(S) == [r \in Writes |-> IF r \in S THEN "closed" ELSE sock[r]]

-----------------------------------------------------------------------------
(* A task of the pool: handleEvent, then the answer *)

Take(w) ==
  /\ pc[w] = "idle" /\ m_taskqueue # <<>>
  /\ job' = [job EXCEPT ![w] = Head(m_taskqueue)]
  /\ m_taskqueue' = Tail(m_taskqueue)
  /\ pc' = [pc EXCEPT ![w] = "test"]
  /\ UNCHANGED <<unsent, inqueue, r_store, consuming, ioErrs, answerVars,
                 objectVars, listenVars, sock, storeVars>>

Goto(w, place) == pc' = [pc EXCEPT ![w] = place]

\* What handleEvent does with an event of each kind when the device is open.
IfOpen == [open |-> "fail", write |-> "transfer", read |-> "receive", close |-> "delete"]

\* And when it is not: closing what is not open counts as success.
IfClosed == [open |-> "create", write |-> "fail", read |-> "fail", close |-> "success"]

\* The switch of handleEvent and its test of f_open.
Test(w) ==
  /\ pc[w] = "test"
  /\ Goto(w, (IF f_open[Dev(w)] THEN IfOpen ELSE IfClosed)[KindOf(job[w])])
  /\ UNCHANGED <<queueVars, ioErrs, answerVars, objectVars, listenVars, sock, job, storeVars>>

Free(w) ==
  /\ pc' = [pc EXCEPT ![w] = "idle"]
  /\ job' = [job EXCEPT ![w] = Nil]

\* Seeded fault: a failure is not published.
RespondIfSuccessful(w) ==
  /\ pc[w] \in {"success", "fail"}
  /\ \/ pc[w] = "success" /\ PushOut(job[w], pc[w])
     \/ pc[w] = "fail" /\ UNCHANGED <<answerVars, ioErrs>>
  /\ Free(w)
  /\ UNCHANGED <<queueVars, objectVars, listenVars, sock, storeVars>>

\* handleEvent has returned; its status is published.
Respond(w) ==
  /\ pc[w] \in {"success", "fail"}
  /\ PushOut(job[w], pc[w])
  /\ Free(w)
  /\ UNCHANGED <<queueVars, objectVars, listenVars, sock, storeVars>>

-----------------------------------------------------------------------------
(* OPEN and CLOSE *)

\* new TcpFileTransfer binds the port.  It throws when somebody listens there
\* already; the exception ends in the future of the task, which nobody reads.
CreateObject(w) ==
  /\ pc[w] = "create"
  /\ \/ /\ acceptor[Dev(w)] = "none"
        /\ acceptor' = [acceptor EXCEPT ![Dev(w)] = "accept"]
        /\ p_filetransfer' = [p_filetransfer EXCEPT ![Dev(w)] = "object"]
        /\ Goto(w, "setopen")
        /\ UNCHANGED <<job, unanswered, ioErrs>>
     \/ /\ \/ acceptor[Dev(w)] # "none" /\ UNCHANGED ioErrs
           \/ IoError
        /\ unanswered' = unanswered \union {job[w]}
        /\ Free(w)
        /\ UNCHANGED <<acceptor, p_filetransfer>>
  /\ UNCHANGED <<queueVars, outqueue, f_open, late, backlog, m_client_request, sock, storeVars>>

SetOpen(w) ==
  /\ pc[w] = "setopen"
  /\ f_open' = [f_open EXCEPT ![Dev(w)] = TRUE]
  /\ Goto(w, "success")
  /\ UNCHANGED <<queueVars, ioErrs, answerVars, p_filetransfer, listenVars, sock, job, storeVars>>

\* delete p_filetransfer.  The connections it has accepted are closed with it.  A
\* thread blocked in accept() keeps the socket listening.  One that has not come
\* to accept() yet ends there, and one that is about to call back does so later;
\* then the kernel refuses what waited for accept().
Destroy(d) ==
  \E blocked \in {FALSE, acceptor[d] = "accept"} :
     /\ p_filetransfer' = [p_filetransfer EXCEPT ![d] = "deleted"]
     /\ m_client_request' = [m_client_request EXCEPT ![d] = <<>>]
     /\ acceptor' = [acceptor EXCEPT ![d] = IF blocked THEN "stray" ELSE "none"]
     /\ late' = [late EXCEPT ![d] = IF acceptor[d] = "notify" THEN @ + 1 ELSE @]
     /\ backlog' = [backlog EXCEPT ![d] = IF blocked THEN @ ELSE <<>>]
     /\ sock' = Closing(ToSet(m_client_request[d])
                          \union (IF blocked THEN {} ELSE ToSet(backlog[d])))

\* close() tests p_filetransfer, not f_open.
DeleteObject(w) ==
  /\ pc[w] = "delete"
  /\ \/ p_filetransfer[Dev(w)] = "object" /\ Destroy(Dev(w)) /\ Goto(w, "reset")
     \/ /\ p_filetransfer[Dev(w)] = "null" /\ Goto(w, "success")
        /\ UNCHANGED <<p_filetransfer, listenVars, sock>>
  /\ UNCHANGED <<queueVars, ioErrs, answerVars, f_open, job, storeVars>>

ResetDevice(w) ==
  /\ pc[w] = "reset"
  /\ p_filetransfer' = [p_filetransfer EXCEPT ![Dev(w)] = "null"]
  /\ f_open' = [f_open EXCEPT ![Dev(w)] = FALSE]
  /\ Goto(w, "success")
  /\ UNCHANGED <<queueVars, ioErrs, answerVars, listenVars, sock, job, storeVars>>

\* The thread is about to use an object that is not there: after its test of
\* f_open it has slept, or another CLOSE has deleted the object.
UsesNoObject(w) ==
  \/ pc[w] \in {"transfer", "receive"} /\ p_filetransfer[Dev(w)] # "object"
  \/ pc[w] = "delete" /\ p_filetransfer[Dev(w)] = "deleted"

-----------------------------------------------------------------------------
(* WRITE: TcpFileTransfer::transfer, the connection being that of request job[w] *)

\* After the delay of the device: the file is looked for, the peer connected to.
\* A connection succeeds as soon as the peer listens.
Connect(w) ==
  LET p == Peer[Dev(w)] IN
  /\ pc[w] = "transfer"
  /\ \/ /\ \/ IoError
           \/ p_filetransfer[Dev(w)] = "object" /\ acceptor[p] = "none" /\ UNCHANGED ioErrs
        /\ Goto(w, "fail")
        /\ UNCHANGED <<backlog, sock>>
     \/ /\ p_filetransfer[Dev(w)] = "object" /\ acceptor[p] # "none"
        /\ backlog' = [backlog EXCEPT ![p] = Append(@, job[w])]
        /\ sock' = [sock EXCEPT ![job[w]] = "waiting"]
        /\ Goto(w, "getok")
        /\ UNCHANGED ioErrs
  /\ UNCHANGED <<queueVars, answerVars, objectVars, acceptor, late, m_client_request, job, storeVars>>

\* The blocking read of "ok!", without a timeout.
ReadOk(w) ==
  /\ pc[w] = "getok"
  /\ \/ sock[job[w]] = "ok" /\ Goto(w, "header")
     \/ sock[job[w]] = "closed" /\ Goto(w, "fail")
  /\ UNCHANGED <<queueVars, ioErrs, answerVars, objectVars, listenVars, sock, job, storeVars>>

\* A write of the client in state from, which takes the connection to state to, or
\* to state broken when it fails.  The kernel may still accept bytes for a peer
\* that has closed.
Send(w, from, to, broken, next) ==
  \/ /\ sock[job[w]] = from
     /\ sock' = [sock EXCEPT ![job[w]] = to]
     /\ Goto(w, next) /\ UNCHANGED ioErrs
  \/ /\ sock[job[w]] = "closed"
     /\ Goto(w, next) \/ Goto(w, "fail")
     /\ UNCHANGED <<sock, ioErrs>>
  \/ /\ IoError
     /\ sock' = [sock EXCEPT ![job[w]] = IF @ = from THEN broken ELSE @]
     /\ Goto(w, "fail")

\* The file is opened and its size sent.  Nothing tests that it could be opened:
\* then the size is -1, and the header "name--1:" says 1 to the peer.
SendHeader(w) ==
  /\ pc[w] = "header"
  /\ \/ Send(w, "ok", "header", "closed", "data")
     \/ /\ sock[job[w]] = "ok" /\ IoError
        /\ sock' = [sock EXCEPT ![job[w]] = "junk"]
        /\ Goto(w, "flood")
  /\ UNCHANGED <<queueVars, answerVars, objectVars, listenVars, job, storeVars>>

SendData(w) ==
  /\ pc[w] = "data"
  /\ Send(w, "header", "sent", "cut", "success")
  /\ UNCHANGED <<queueVars, answerVars, objectVars, listenVars, job, storeVars>>

\* Of a file that could not be opened the loop sends its buffer, again and again:
\* eof() stays false.  It ends when a write fails, at the latest after the peer
\* has closed.
Flood(w) ==
  /\ pc[w] = "flood"
  /\ \/ sock[job[w]] = "closed" /\ UNCHANGED <<sock, ioErrs>>
     \/ /\ sock[job[w]] = "junk" /\ IoError
        /\ \E s \in {"junk", "cut"} : sock' = [sock EXCEPT ![job[w]] = s]
  /\ Goto(w, "fail")
  /\ UNCHANGED <<queueVars, answerVars, objectVars, listenVars, job, storeVars>>

-----------------------------------------------------------------------------
(* READ: TcpFileTransfer::receive, on the connection hand[w] *)

\* Seeded fault: the connection stays in the queue.
PeekConnection(w, d) ==
  /\ m_client_request[d] # <<>>
  /\ hand' = [hand EXCEPT ![w] = Head(m_client_request[d])]
  /\ UNCHANGED m_client_request

TakeConnection(w, d) ==
  /\ m_client_request[d] # <<>>
  /\ hand' = [hand EXCEPT ![w] = Head(m_client_request[d])]
  /\ m_client_request' = [m_client_request EXCEPT ![d] = Tail(@)]

\* Seeded fault: nothing is written before the header is awaited.
WriteNothing(w) == Goto(w, "receiving") /\ UNCHANGED <<sock, ioErrs>>

\* "ok!" is written to the connection just taken; an error closes it.
WriteOk(w) ==
  \/ /\ sock' = [sock EXCEPT ![hand'[w]] = "ok"]
     /\ Goto(w, "receiving") /\ UNCHANGED ioErrs
  \/ /\ IoError
     /\ sock' = Closing({hand'[w]})
     /\ Goto(w, "receiving")

\* After the delay: the storage path is looked for, the oldest connection is
\* taken and told "ok!".
StartReceive(w) ==
  LET d == Dev(w) IN
  /\ pc[w] = "receive"
  /\ \/ /\ \/ IoError
           \/ p_filetransfer[d] = "object" /\ m_client_request[d] = <<>> /\ UNCHANGED ioErrs
        /\ Goto(w, "fail")
        /\ UNCHANGED <<m_client_request, sock, hand>>
     \/ /\ p_filetransfer[d] = "object"
        /\ TakeConnection(w, d)
        /\ WriteOk(w)
  /\ UNCHANGED <<queueVars, answerVars, objectVars, acceptor, late, backlog, job, stored>>

\* Seeded fault: a file cut short after its header counts as received.
FileComplete == {"header", "sent"}

\* The states of a connection in which the whole file has been sent.
AllSent == {"sent"}

\* The client has gone, or an operation fails.
ReceiveBroken(w) ==
  \/ sock[hand[w]] \in {"closed", "cut"} /\ UNCHANGED ioErrs
  \/ IoError

\* receive() returns with result, its connection is closed.
EndReceive(w, result) ==
  /\ sock' = Closing({hand[w]})
  /\ hand' = [hand EXCEPT ![w] = Nil]
  /\ Goto(w, result)

\* The header is read and the output opened, which empties it; or no header comes.
OpenOutput(w) ==
  /\ pc[w] = "receiving"
  /\ \/ /\ sock[hand[w]] \in {"header", "junk", "sent", "cut"}
        /\ stored' = [stored EXCEPT ![hand[w]] = "part"]
        /\ Goto(w, "storing") /\ UNCHANGED <<sock, ioErrs, hand>>
     \/ ReceiveBroken(w) /\ EndReceive(w, "fail") /\ UNCHANGED stored
  /\ UNCHANGED <<queueVars, answerVars, objectVars, listenVars, job>>

\* As many bytes as the header says have come and are written: the whole file, or
\* one byte of the buffer of a client that could not open it.  Or something fails,
\* and what is written so far stays.
FinishReceive(w) ==
  /\ pc[w] = "storing"
  /\ \/ /\ sock[hand[w]] \in AllSent
        /\ stored' = [stored EXCEPT ![hand[w]] = "whole"]
        /\ EndReceive(w, "success") /\ UNCHANGED ioErrs
     \/ /\ sock[hand[w]] = "junk"
        /\ stored' = [stored EXCEPT ![hand[w]] = "byte"]
        /\ EndReceive(w, "success") /\ UNCHANGED ioErrs
     \/ ReceiveBroken(w) /\ EndReceive(w, "fail") /\ UNCHANGED stored
  /\ UNCHANGED <<queueVars, answerVars, objectVars, listenVars, job>>

-----------------------------------------------------------------------------
(* The accept thread of device d *)

\* Seeded fault: only the first connection of a queue is announced.
AcceptAnnouncingFirst(d) ==
  /\ acceptor[d] = "accept" /\ backlog[d] # <<>>
  /\ m_client_request' = [m_client_request EXCEPT ![d] = Append(@, Head(backlog[d]))]
  /\ backlog' = [backlog EXCEPT ![d] = Tail(@)]
  /\ acceptor' = [acceptor EXCEPT ![d] = IF m_client_request[d] = <<>> THEN "notify" ELSE @]
  /\ UNCHANGED <<queueVars, ioErrs, answerVars, objectVars, late, sock, pc, job, storeVars>>

\* accept() and enqueue.
Accept(d) ==
  /\ acceptor[d] = "accept" /\ backlog[d] # <<>>
  /\ m_client_request' = [m_client_request EXCEPT ![d] = Append(@, Head(backlog[d]))]
  /\ backlog' = [backlog EXCEPT ![d] = Tail(@)]
  /\ acceptor' = [acceptor EXCEPT ![d] = "notify"]
  /\ UNCHANGED <<queueVars, ioErrs, answerVars, objectVars, late, sock, pc, job, storeVars>>

\* Seeded fault: the event is taken for one of another type and dropped.
NotifyNobody(d) ==
  /\ acceptor[d] = "notify"
  /\ acceptor' = [acceptor EXCEPT ![d] = "accept"]
  /\ UNCHANGED <<queueVars, ioErrs, answerVars, objectVars,
                 late, backlog, m_client_request, sock, pc, job, storeVars>>

\* f_readable_cb: a READYREAD event, pushed as READ.
Notify(d) ==
  /\ acceptor[d] = "notify"
  /\ PushIn(d)
  /\ acceptor' = [acceptor EXCEPT ![d] = "accept"]
  /\ UNCHANGED <<unsent, r_store, m_taskqueue, consuming, answerVars, objectVars,
                 late, backlog, m_client_request, sock, pc, job, storeVars>>

\* An exception ends the thread: the socket listens on, nobody accepts.  When it
\* comes of remote_endpoint(), the connection just taken is closed as well.
AcceptDies(d) ==
  /\ acceptor[d] = "accept" /\ IoError
  /\ acceptor' = [acceptor EXCEPT ![d] = "deaf"]
  /\ \/ UNCHANGED <<backlog, sock>>
     \/ /\ backlog[d] # <<>>
        /\ backlog' = [backlog EXCEPT ![d] = Tail(@)]
        /\ sock' = Closing({Head(backlog[d])})
  /\ UNCHANGED <<queueVars, answerVars, objectVars, late, m_client_request,
                 pc, job, storeVars>>

\* The same threads after their object was deleted.  The one in accept() takes a
\* connection into freed memory, where it stays, and ends at its next accept();
\* the socket closes with it.
StrayAccept(d) ==
  /\ acceptor[d] = "stray" /\ backlog[d] # <<>>
  /\ acceptor' = [acceptor EXCEPT ![d] = "none"]
  /\ backlog' = [backlog EXCEPT ![d] = <<>>]
  /\ sock' = Closing(ToSet(Tail(backlog[d])))
  /\ PushIn(d) \/ UNCHANGED <<inqueue, ioErrs>>
  /\ UNCHANGED <<unsent, r_store, m_taskqueue, consuming, answerVars, objectVars,
                 late, m_client_request, pc, job, storeVars>>

\* Seeded fault: the thread does not end after its call.
LateNotifyAgain(d) ==
  /\ late' = [late EXCEPT ![d] = @ - 1]
  /\ PushIn(d) \/ UNCHANGED <<inqueue, ioErrs>>
  /\ UNCHANGED <<unsent, r_store, m_taskqueue, consuming, answerVars, objectVars,
                 acceptor, backlog, m_client_request, sock, pc, job, storeVars>>

LateNotify(d) ==
  /\ late[d] > 0
  /\ late' = [late EXCEPT ![d] = @ - 1]
  /\ PushIn(d) \/ UNCHANGED <<inqueue, ioErrs>>
  /\ UNCHANGED <<unsent, r_store, m_taskqueue, consuming, answerVars, objectVars,
                 acceptor, backlog, m_client_request, sock, pc, job, storeVars>>

-----------------------------------------------------------------------------
WorkerStep(w) ==
  \/ Take(w) \/ Test(w) \/ Respond(w)
  \/ CreateObject(w) \/ SetOpen(w) \/ DeleteObject(w) \/ ResetDevice(w)
  \/ Connect(w) \/ ReadOk(w) \/ SendHeader(w) \/ SendData(w) \/ Flood(w)
  \/ StartReceive(w) \/ OpenOutput(w) \/ FinishReceive(w)

AcceptStep(d) == Accept(d) \/ Notify(d) \/ StrayAccept(d) \/ LateNotify(d)

\* The process ends and starts again: devices closed, connections gone.
DeviceRestart ==
  /\ f_open' = [d \in Devices |-> FALSE]
  /\ p_filetransfer' = [d \in Devices |-> "null"]
  /\ acceptor' = [d \in Devices |-> "none"]
  /\ late' = [d \in Devices |-> 0]
  /\ backlog' = [d \in Devices |-> <<>>]
  /\ m_client_request' = [d \in Devices |-> <<>>]
  /\ sock' = [r \in Writes |-> IF sock[r] = "none" THEN "none" ELSE "closed"]
  /\ pc' = [w \in Workers |-> "idle"]
  /\ job' = [w \in Workers |-> Nil]
  /\ hand' = [w \in Workers |-> Nil]
  /\ UNCHANGED stored

DeviceTypeOK ==
  /\ f_open \in [Devices -> BOOLEAN]
  /\ p_filetransfer \in [Devices -> {"null", "object", "deleted"}]
  /\ acceptor \in [Devices -> {"none", "accept", "notify", "deaf", "stray"}]
  /\ late \in [Devices -> Nat]
  /\ backlog \in [Devices -> Seq(Writes)]
  /\ m_client_request \in [Devices -> Seq(Writes)]
  /\ sock \in [Writes -> {"none", "waiting", "ok", "header", "junk", "sent", "cut", "closed"}]
  /\ pc \in [Workers -> {"idle", "test", "success", "fail", "create", "setopen", "delete",
                         "reset", "transfer", "getok", "header", "data", "flood",
                         "receive", "receiving", "storing"}]
  /\ job \in [Workers -> Events \union {Nil}]
  /\ hand \in [Workers -> Writes \union {Nil}]
  /\ stored \in [Writes -> {"nothing", "part", "byte", "whole"}]
=============================================================================
