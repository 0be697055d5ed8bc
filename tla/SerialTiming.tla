---------------------------- MODULE SerialTiming ----------------------------
(***************************************************************************)
(* One file over the serial line, in time: the three waits of transfer(),  *)
(* the pass of the retransmission thread every SERVER_LISTEN_INTERVAL and  *)
(* the age at which it finds a file overdue.  The waits end on time; a     *)
(* frame is handled within Delay of its writing, and the writer needs at   *)
(* most Gap for each chunk.  What SerialTransfer leaves open in time is    *)
(* decided here; its locks, ids and second call are left out.              *)
(***************************************************************************)
EXTENDS Integers, FiniteSets, SequencesExt

CONSTANTS
  BLOCKING_TIMES, MAXIMUM_WAIT_TIMES, SERVER_LISTEN_INTERVAL,  \* 3000 ms each
  MAXIMUM_RETRANS_CNT,                                         \* 3
  TunkSize,      \* chunks of the file
  Delay, Gap,    \* bounds on the line and on the writer
  MaxLost,       \* bound: frames lost
  Nil

Tunks == 0..(TunkSize - 1)
Descriptors == [have : SUBSET Tunks, recv_time : Nat, retrans_cnt : Nat]

ASSUME SerialTimingAssumption ==
  /\ {BLOCKING_TIMES, MAXIMUM_WAIT_TIMES, SERVER_LISTEN_INTERVAL, TunkSize} \subseteq Nat \ {0}
  /\ {MAXIMUM_RETRANS_CNT, Delay, Gap, MaxLost} \subseteq Nat
  /\ MAXIMUM_WAIT_TIMES >= BLOCKING_TIMES
  /\ BLOCKING_TIMES > 2 * Delay /\ MAXIMUM_WAIT_TIMES >= 2 * Delay + Gap
  /\ Nil \notin Descriptors

VARIABLES
  now,
  pc, todo, flags, asked,   \* transfer(): place, chunks to write, flags, retrans_tunk_id
  due,                      \* when its wait ends, or the latest time of its next write
  toServer, toClient,       \* frames on their way, each with the time it arrives by
  descriptor,               \* the server's descriptor, or Nil
  pass,                     \* the time of the next pass of the retransmission thread
  requests,                 \* times of the requests it made
  lost

clientVars == <<pc, todo, flags, asked, due>>
serverVars == <<descriptor, pass, requests>>
vars == <<now, clientVars, toServer, toClient, serverVars, lost>>

Waiting == {"waitid", "waitans", "waitack"}
Over == {"ok", "failed"}

\* Write frame f; the line may lose it.
Write(f, queue) == Append(queue, [f EXCEPT !.by = now + Delay])
MayLose == lost < MaxLost /\ lost' = lost + 1
Send(f) == toServer' = Write(f, toServer) /\ UNCHANGED lost
Answer(f) == toClient' = Write(f, toClient) /\ UNCHANGED lost

Info == [cmd |-> "FILEINFO", tunks |-> {}, by |-> 0]
Tunk(k) == [cmd |-> "TUNKDATA", tunks |-> {k}, by |-> 0]
Reply(cmd) == [cmd |-> cmd, tunks |-> {}, by |-> 0]
Retrans(ks) == [cmd |-> "RETRANS", tunks |-> ks, by |-> 0]

\* transfer() has written FILEINFO, and the retransmission thread sleeps.
Init ==
  /\ now = 0
  /\ pc = "waitid" /\ todo = {} /\ flags = {} /\ asked = {} /\ due = BLOCKING_TIMES
  /\ \/ toServer = <<[Info EXCEPT !.by = Delay]>> /\ lost = 0
     \/ toServer = <<>> /\ lost = 1 /\ MaxLost > 0
  /\ toClient = <<>>
  /\ descriptor = Nil
  /\ pass \in 0..(SERVER_LISTEN_INTERVAL - 1)
  /\ requests = <<>>

-----------------------------------------------------------------------------
(* transfer() *)

\* The predicate of a wait holds.
Awaited ==
  \/ pc = "waitid" /\ "FILEID" \in flags
  \/ pc = "waitans" /\ {"ACK", "RETRANS"} \intersect flags # {}
  \/ pc = "waitack" /\ "ACK" \in flags

\* In state l write the chunks ks; when none is left wait in state next.
Loop(l, next, ks) ==
  /\ todo' = ks
  /\ IF ks = {} THEN pc' = next /\ due' = now + BLOCKING_TIMES
     ELSE pc' = l /\ due' = now + Gap

Proceed ==
  /\ Awaited
  /\ CASE pc = "waitid" -> Loop("sending", "waitans", Tunks)
       [] pc = "waitans" /\ "RETRANS" \in flags -> Loop("resending", "waitack", asked)
       [] OTHER -> pc' = "ok" /\ UNCHANGED <<todo, due>>
  /\ UNCHANGED <<now, flags, asked, toServer, toClient, serverVars, lost>>

WriteTunk ==
  /\ pc \in {"sending", "resending"}
  /\ \E k \in todo :
       /\ \A j \in todo : k =< j
       /\ Loop(pc, IF pc = "sending" THEN "waitans" ELSE "waitack", todo \ {k})
       /\ Send(Tunk(k)) \/ (MayLose /\ UNCHANGED toServer)
  /\ UNCHANGED <<now, flags, asked, toClient, serverVars>>

TimeOut ==
  /\ pc \in Waiting /\ ~Awaited
  /\ now = due
  /\ pc' = "failed"
  /\ UNCHANGED <<now, todo, flags, asked, due, toServer, toClient, serverVars, lost>>

\* The listener hands a frame to the call, unless the call is over.
ListenClient ==
  /\ toClient # <<>>
  /\ toClient' = Tail(toClient)
  /\ LET f == Head(toClient)
     IN  IF pc \in Over THEN UNCHANGED <<flags, asked>>
         ELSE /\ flags' = flags \union {f.cmd}
              /\ asked' = IF f.cmd = "RETRANS" THEN f.tunks ELSE asked
  /\ UNCHANGED <<now, pc, todo, due, toServer, serverVars, lost>>

-----------------------------------------------------------------------------
(* The server *)

Incomplete(d) == d # Nil /\ d.have # Tunks
Silence == now - descriptor.recv_time

HandleFileInfo ==
  /\ toServer # <<>> /\ Head(toServer).cmd = "FILEINFO"
  /\ toServer' = Tail(toServer)
  /\ descriptor' = [have |-> {}, recv_time |-> now, retrans_cnt |-> 0]
  /\ Answer(Reply("FILEID")) \/ (MayLose /\ UNCHANGED toClient)
  /\ UNCHANGED <<now, clientVars, pass, requests>>

\* Seeded fault: the age of a file counts from its first chunk.
StampedOnce(d, ks) ==
  [d EXCEPT !.have = @ \union ks, !.recv_time = IF d.have = {} THEN now ELSE @]

\* A chunk makes its file young again.
Stamped(d, ks) == [d EXCEPT !.have = @ \union ks, !.recv_time = now]

HandleTunkData ==
  /\ toServer # <<>> /\ Head(toServer).cmd = "TUNKDATA"
  /\ toServer' = Tail(toServer)
  /\ LET ks == Head(toServer).tunks
     IN  IF descriptor = Nil \/ ks \subseteq descriptor.have
         THEN UNCHANGED <<descriptor, toClient, lost>>
         ELSE /\ descriptor' = Stamped(descriptor, ks)
              /\ IF Incomplete(descriptor') THEN UNCHANGED <<toClient, lost>>
                 ELSE Answer(Reply("ACK")) \/ (MayLose /\ UNCHANGED toClient)
  /\ UNCHANGED <<now, clientVars, pass, requests>>

\* Seeded faults: the loop over the chunks runs to tunk_size inclusive; a file is
\* overdue too soon; it is asked for once more.
MissingInclusive(d) == 0..TunkSize \ d.have
OverdueSoon == Incomplete(descriptor) /\ Silence >= MAXIMUM_WAIT_TIMES - 1
SpentLater(d) == d.retrans_cnt > MAXIMUM_RETRANS_CNT

Missing(d) == Tunks \ d.have

\* duration_cast<milliseconds>(cur_time - recv_time).count() > MAXIMUM_WAIT_TIMES
Overdue == Incomplete(descriptor) /\ Silence > MAXIMUM_WAIT_TIMES

Spent(d) == d.retrans_cnt + 1 > MAXIMUM_RETRANS_CNT

\* A pass asks for an overdue file, counts the request, gives the file up when
\* there were too many, and sleeps.
ManagePass ==
  /\ now = pass
  /\ pass' = now + SERVER_LISTEN_INTERVAL
  /\ IF Overdue
     THEN /\ Answer(Retrans(Missing(descriptor))) \/ (MayLose /\ UNCHANGED toClient)
          /\ requests' = Append(requests, now)
          /\ descriptor' = IF Spent(descriptor) THEN Nil
                           ELSE [descriptor EXCEPT !.retrans_cnt = @ + 1]
     ELSE UNCHANGED <<toClient, lost, requests, descriptor>>
  /\ UNCHANGED <<now, clientVars, toServer>>

-----------------------------------------------------------------------------
Settled == pc \in Over /\ ~Incomplete(descriptor) /\ toServer = <<>> /\ toClient = <<>>

\* Time passes when nothing is due; when all is over it need not.
Tick ==
  /\ ~Settled /\ ~Awaited
  /\ now < pass
  /\ pc \in Over \/ now < due
  /\ \A queue \in {toServer, toClient} : queue # <<>> => now < Head(queue).by
  /\ now' = now + 1
  /\ UNCHANGED <<clientVars, toServer, toClient, serverVars, lost>>

Next ==
  \/ Proceed \/ WriteTunk \/ TimeOut \/ ListenClient
  \/ HandleFileInfo \/ HandleTunkData \/ ManagePass
  \/ Tick

Spec == Init /\ [][Next]_vars

-----------------------------------------------------------------------------
(* Safety *)

FrameSet == [cmd : {"FILEINFO", "TUNKDATA", "FILEID", "ACK", "RETRANS"}, tunks : SUBSET Tunks, by : Nat]
\* Type invariant.
TypeOK ==
  /\ {now, due, pass} \subseteq Nat /\ lost \in 0..MaxLost
  /\ pc \in Waiting \union Over \union {"sending", "resending"}
  /\ {todo, asked} \subseteq SUBSET Tunks
  /\ flags \subseteq {"FILEID", "ACK", "RETRANS"}
  /\ toServer \in Seq(FrameSet) /\ toClient \in Seq(FrameSet)
  /\ descriptor # Nil => descriptor \in Descriptors
  /\ requests \in Seq(Nat)

\* The server waits at least as long as the sender before it asks, and its wait
\* starts when the last chunk arrives.  So the sender serves a request only when
\* the end of the file was lost: a chunk lost before the last one is never sent
\* again, the request for it finds transfer() returned.
ServedNamesLastChunk ==
  [][pc = "waitans" /\ pc' = "resending" => TunkSize - 1 \in asked]_vars

\* A line that loses nothing never makes a transfer fail: no wait ends before its
\* answer, and no request is made.
OnlyLossFails == (pc = "failed" \/ requests # <<>>) => lost > 0

\* A file that has stayed incomplete is asked for one time more than
\* MAXIMUM_RETRANS_CNT at most, and is given up by a time that only the last chunk
\* that came can put off: chunks that come one by one between the requests make it
\* young again, but do not let it live for ever.
GivenUpInTime ==
  /\ Len(requests) =< MAXIMUM_RETRANS_CNT + 1
  /\ Incomplete(descriptor) =>
       Silence =< MAXIMUM_WAIT_TIMES + (MAXIMUM_RETRANS_CNT + 1) * SERVER_LISTEN_INTERVAL
=============================================================================
