-------------------------- MODULE SerialTimingProofs --------------------------
(***************************************************************************)
(* Proofs about SerialTiming for all intervals, delays and gaps with the   *)
(* relations that SerialTimingAssumption states, any length of the file    *)
(* and any number of lost frames.                                          *)
(***************************************************************************)
EXTENDS SerialTiming, QueueTheorems

-----------------------------------------------------------------------------
(* Types and the clock *)

Orders == [cmd : {"FILEINFO", "TUNKDATA"}, tunks : SUBSET Tunks, by : Nat]
Replies == [cmd : {"FILEID", "ACK", "RETRANS"}, tunks : SUBSET Tunks, by : Nat]

\* The types; which half writes which frame is what makes them inductive.
Types ==
  /\ now \in Nat /\ due \in Nat /\ pass \in Nat /\ lost \in 0..MaxLost
  /\ pc \in Waiting \union Over \union {"sending", "resending"}
  /\ todo \in SUBSET Tunks /\ asked \in SUBSET Tunks
  /\ flags \in SUBSET {"FILEID", "ACK", "RETRANS"}
  /\ toServer \in Seq(Orders) /\ toClient \in Seq(Replies)
  /\ descriptor \in Descriptors \union {Nil}
  /\ requests \in Seq(Nat)

\* Nothing that is due is missed, and nothing has happened yet that is to come.
Clock ==
  /\ now =< pass /\ pass =< now + SERVER_LISTEN_INTERVAL
  /\ pc \notin Over => now =< due
  /\ descriptor # Nil => descriptor.recv_time =< now

\* Frame f as it is written now.
Written(f) == [f EXCEPT !.by = now + Delay]

-----------------------------------------------------------------------------
(* The end of an incomplete file *)

\* There is one FILEINFO, before everything else.
InfoFirst ==
  \A i \in 1..Len(toServer) :
    toServer[i].cmd = "FILEINFO" => i = 1 /\ descriptor = Nil /\ requests = <<>>

\* The requests are those that the descriptor counts, and between one of its passes
\* and the next it grows no older than the count allows.
Counted ==
  /\ descriptor = Nil => Len(requests) =< MAXIMUM_RETRANS_CNT + 1
  /\ descriptor # Nil =>
       /\ Len(requests) = descriptor.retrans_cnt
       /\ descriptor.retrans_cnt =< MAXIMUM_RETRANS_CNT
       /\ Incomplete(descriptor) =>
            pass - descriptor.recv_time =<
              MAXIMUM_WAIT_TIMES + (descriptor.retrans_cnt + 1) * SERVER_LISTEN_INTERVAL

-----------------------------------------------------------------------------
(* What is asked for *)

LastTunk == TunkSize - 1

\* Until the last chunk is written the server has not got it.
LastUnwritten ==
  /\ pc \in {"waitid", "sending"} =>
       /\ \A f \in ToSet(toServer) : LastTunk \notin f.tunks
       /\ descriptor # Nil => LastTunk \notin descriptor.have
  /\ pc = "sending" => LastTunk \in todo

\* The sender does not wait longer than BLOCKING_TIMES after the last chunk came.
LastAwaited ==
  pc = "waitans" =>
    /\ due =< now + BLOCKING_TIMES
    /\ descriptor # Nil /\ LastTunk \in descriptor.have =>
         due =< descriptor.recv_time + BLOCKING_TIMES

\* While the sender can still serve a request, the requests name the last chunk.
LastNamed ==
  pc \in {"waitid", "sending", "waitans"} =>
    /\ \A f \in ToSet(toClient) : f.cmd = "RETRANS" => LastTunk \in f.tunks
    /\ "RETRANS" \in flags => LastTunk \in asked

LastAsked == LastUnwritten /\ LastAwaited /\ LastNamed

-----------------------------------------------------------------------------
(* A line that loses nothing *)

\* FILEINFO is on its way.
Asking ==
  /\ pc = "waitid" /\ due = BLOCKING_TIMES /\ flags = {}
  /\ toClient = <<>> /\ descriptor = Nil
  /\ Len(toServer) = 1 /\ toServer[1].cmd = "FILEINFO"
  /\ now =< toServer[1].by /\ toServer[1].by =< Delay

\* FILEID is on its way, or there.
Known ==
  /\ pc = "waitid" /\ due = BLOCKING_TIMES
  /\ toServer = <<>>
  /\ descriptor # Nil /\ descriptor.have = {} /\ descriptor.recv_time =< Delay
  /\ \/ /\ flags = {} /\ Len(toClient) = 1 /\ toClient[1].cmd = "FILEID"
        /\ now =< toClient[1].by /\ toClient[1].by =< descriptor.recv_time + Delay
     \/ flags = {"FILEID"} /\ toClient = <<>> /\ now =< descriptor.recv_time + Delay

\* The chunks below h have come, those from h on follow in turn: on the line first,
\* then with the writer.
InTurn(h) ==
  /\ descriptor # Nil /\ descriptor.have = 0..(h - 1)
  /\ \A i \in 1..Len(toServer) :
       toServer[i].cmd = "TUNKDATA" /\ toServer[i].tunks = {h + i - 1}
  /\ h + Len(toServer) =< TunkSize
  /\ todo = (h + Len(toServer))..(TunkSize - 1)

\* They follow each other without a gap in which the file grows old.
InTime ==
  /\ \A i \in 1..Len(toServer) : now =< toServer[i].by /\ toServer[i].by =< now + Delay
  /\ \A i, j \in 1..Len(toServer) : i =< j => toServer[i].by =< toServer[j].by
  /\ \A i, j \in 1..Len(toServer) : j = i + 1 => toServer[j].by =< toServer[i].by + Gap
  /\ toServer # <<>> => toServer[1].by =< descriptor.recv_time + 2 * Delay + Gap

Flowing(h) ==
  /\ flags = {"FILEID"} /\ toClient = <<>>
  /\ InTurn(h) /\ InTime
  /\ \/ /\ pc = "sending" /\ todo # {}
        /\ IF toServer = <<>> THEN due =< descriptor.recv_time + Delay + Gap
           ELSE due + Delay =< toServer[Len(toServer)].by + Gap
     \/ /\ pc = "waitans" /\ todo = {} /\ toServer # <<>>
        /\ due + Delay = toServer[Len(toServer)].by + BLOCKING_TIMES

\* The file is complete, the ACK on its way or there.
Answering ==
  /\ pc = "waitans" /\ toServer = <<>>
  /\ descriptor # Nil /\ descriptor.have = Tunks
  /\ \/ /\ flags = {"FILEID"} /\ Len(toClient) = 1 /\ toClient[1].cmd = "ACK"
        /\ now =< toClient[1].by /\ toClient[1].by + BLOCKING_TIMES =< due + 2 * Delay
     \/ flags = {"FILEID", "ACK"} /\ toClient = <<>>

Finished ==
  /\ pc = "ok" /\ toServer = <<>> /\ toClient = <<>>
  /\ descriptor # Nil /\ descriptor.have = Tunks

Stages == Asking \/ Known \/ (\E h \in 0..TunkSize : Flowing(h)) \/ Answering \/ Finished

Smooth == lost = 0 => requests = <<>> /\ Stages

LEMMA Constants ==
  /\ BLOCKING_TIMES \in Nat /\ BLOCKING_TIMES > 0
  /\ MAXIMUM_WAIT_TIMES \in Nat /\ MAXIMUM_WAIT_TIMES > 0
  /\ SERVER_LISTEN_INTERVAL \in Nat /\ SERVER_LISTEN_INTERVAL > 0
  /\ TunkSize \in Nat /\ TunkSize > 0
  /\ MAXIMUM_RETRANS_CNT \in Nat /\ Delay \in Nat /\ Gap \in Nat /\ MaxLost \in Nat
BY SerialTimingAssumption

\* The frames as they are written.
LEMMA FramesWritten ==
  ASSUME now \in Nat
  PROVE  /\ \A c : Written(Reply(c)) = [cmd |-> c, tunks |-> {}, by |-> now + Delay]
         /\ \A ks : Written(Retrans(ks)) = [cmd |-> "RETRANS", tunks |-> ks, by |-> now + Delay]
         /\ \A k : Written(Tunk(k)) = [cmd |-> "TUNKDATA", tunks |-> {k}, by |-> now + Delay]
         /\ \A k \in Tunks : Written(Tunk(k)) \in Orders
         /\ Written(Reply("FILEID")) \in Replies /\ Written(Reply("ACK")) \in Replies
         /\ \A ks \in SUBSET Tunks : Written(Retrans(ks)) \in Replies
<1>1. now + Delay \in Nat
  BY Constants
<1>2. /\ \A c : Written(Reply(c)) = [cmd |-> c, tunks |-> {}, by |-> now + Delay]
      /\ \A ks : Written(Retrans(ks)) = [cmd |-> "RETRANS", tunks |-> ks, by |-> now + Delay]
      /\ \A k : Written(Tunk(k)) = [cmd |-> "TUNKDATA", tunks |-> {k}, by |-> now + Delay]
  <2>1. ASSUME NEW c PROVE Written(Reply(c)) = [cmd |-> c, tunks |-> {}, by |-> now + Delay]
    BY DEF Written, Reply
  <2>2. ASSUME NEW ks
        PROVE  Written(Retrans(ks)) = [cmd |-> "RETRANS", tunks |-> ks, by |-> now + Delay]
    BY DEF Written, Retrans
  <2>3. ASSUME NEW k
        PROVE  Written(Tunk(k)) = [cmd |-> "TUNKDATA", tunks |-> {k}, by |-> now + Delay]
    BY DEF Written, Tunk
  <2> QED
    BY <2>1, <2>2, <2>3
<1> QED
  BY <1>1, <1>2 DEF Orders, Replies

\* What a frame on its way adds to a queue, and what is heard is taken from.
LEMMA Queued ==
  ASSUME Types
  PROVE  /\ \A f \in Orders : Append(toServer, f) \in Seq(Orders)
         /\ \A f \in Replies : Append(toClient, f) \in Seq(Replies)
         /\ toServer # <<>> => Head(toServer) \in Orders /\ Tail(toServer) \in Seq(Orders)
         /\ toClient # <<>> => Head(toClient) \in Replies /\ Tail(toClient) \in Seq(Replies)
BY AppendProperties, DequeueElements DEF Types

\* A frame may be lost.
LEMMA Losing == ASSUME Types, MayLose PROVE lost' \in 0..MaxLost /\ lost' > 0
BY Constants DEF Types, MayLose

\* A loop writes what is left, and ends in a wait.
LEMMA Looping ==
  ASSUME Types, NEW l \in {"sending", "resending"}, NEW next \in Waiting,
         NEW ks \in SUBSET Tunks, Loop(l, next, ks)
  PROVE  /\ todo' = ks /\ due' \in Nat /\ now =< due'
         /\ pc' = IF ks = {} THEN next ELSE l
         /\ due' = now + IF ks = {} THEN BLOCKING_TIMES ELSE Gap
<1>1. now \in Nat /\ now + BLOCKING_TIMES \in Nat /\ now + Gap \in Nat
  BY Constants DEF Types
<1>2. CASE ks = {}
  BY <1>1, <1>2, Constants DEF Loop
<1>3. CASE ks # {}
  BY <1>1, <1>3, Constants DEF Loop
<1> QED
  BY <1>2, <1>3

\* What Proceed, WriteTunk do to the call.
LEMMA Proceeding ==
  ASSUME Types, Proceed
  PROVE  \/ /\ pc = "waitid" /\ "FILEID" \in flags
            /\ pc' = "sending" /\ todo' = Tunks /\ Tunks # {} /\ due' = now + Gap
         \/ /\ pc = "waitans" /\ "RETRANS" \in flags
            /\ todo' = asked /\ pc' \in {"resending", "waitack"}
            /\ due' = now + IF asked = {} THEN BLOCKING_TIMES ELSE Gap
         \/ /\ pc \in {"waitans", "waitack"} /\ "ACK" \in flags
            /\ pc' = "ok" /\ UNCHANGED <<todo, due>>
<1>1. Tunks # {}
  BY Constants DEF Tunks
<1>2. CASE pc = "waitid"
  <2>1. Loop("sending", "waitans", Tunks) /\ "FILEID" \in flags
    BY <1>2 DEF Proceed, Awaited
  <2>2. todo' = Tunks /\ pc' = "sending" /\ due' = now + Gap
    BY <1>1, <2>1 DEF Loop
  <2> QED
    BY <1>1, <1>2, <2>1, <2>2
<1>3. CASE pc = "waitans" /\ "RETRANS" \in flags
  <2>1. Loop("resending", "waitack", asked)
    BY <1>3 DEF Proceed
  <2> QED
    BY <1>3, <2>1, Looping DEF Types, Waiting
<1>4. CASE pc # "waitid" /\ ~(pc = "waitans" /\ "RETRANS" \in flags)
  BY <1>4 DEF Proceed, Awaited
<1> QED
  BY <1>2, <1>3, <1>4

LEMMA WritingTunk ==
  ASSUME Types, WriteTunk
  PROVE  \E k \in todo :
           /\ pc \in {"sending", "resending"} /\ k \in Tunks /\ \A j \in todo : k =< j
           /\ todo' = todo \ {k}
           /\ \/ todo' # {} /\ pc' = pc /\ due' = now + Gap
              \/ /\ todo' = {} /\ due' = now + BLOCKING_TIMES
                 /\ pc' = IF pc = "sending" THEN "waitans" ELSE "waitack"
           /\ \/ toServer' = Append(toServer, Written(Tunk(k))) /\ lost' = lost
              \/ MayLose /\ toServer' = toServer
<1>1. PICK k \in todo :
        /\ \A j \in todo : k =< j
        /\ Loop(pc, IF pc = "sending" THEN "waitans" ELSE "waitack", todo \ {k})
        /\ Send(Tunk(k)) \/ (MayLose /\ UNCHANGED toServer)
  BY DEF WriteTunk
<1>2. pc \in {"sending", "resending"} /\ k \in Tunks
  BY DEF WriteTunk, Types
<1>3. /\ todo' = todo \ {k}
      /\ \/ todo' # {} /\ pc' = pc /\ due' = now + Gap
         \/ /\ todo' = {} /\ due' = now + BLOCKING_TIMES
            /\ pc' = IF pc = "sending" THEN "waitans" ELSE "waitack"
  BY <1>1 DEF Loop
<1>4. \/ toServer' = Append(toServer, Written(Tunk(k))) /\ lost' = lost
      \/ MayLose /\ toServer' = toServer
  BY <1>1 DEF Send, Write, Written
<1> QED
  BY <1>1, <1>2, <1>3, <1>4

\* What the server does with a chunk.
LEMMA HandlingTunkData ==
  ASSUME Types, HandleTunkData
  PROVE  LET f == Head(toServer) IN
         /\ toServer # <<>> /\ f.cmd = "TUNKDATA" /\ toServer' = Tail(toServer)
         /\ UNCHANGED <<now, pc, todo, flags, asked, due, pass, requests>>
         /\ \/ /\ descriptor = Nil \/ f.tunks \subseteq descriptor.have
               /\ UNCHANGED <<descriptor, toClient, lost>>
            \/ /\ descriptor \in Descriptors /\ descriptor # Nil
               /\ ~(f.tunks \subseteq descriptor.have)
               /\ descriptor' \in Descriptors /\ descriptor' # Nil
               /\ descriptor'.have = descriptor.have \union f.tunks
               /\ descriptor'.recv_time = now
               /\ descriptor'.retrans_cnt = descriptor.retrans_cnt
               /\ \/ descriptor'.have # Tunks /\ UNCHANGED <<toClient, lost>>
                  \/ /\ descriptor'.have = Tunks
                     /\ \/ toClient' = Append(toClient, Written(Reply("ACK"))) /\ lost' = lost
                        \/ MayLose /\ toClient' = toClient
<1> DEFINE f == Head(toServer)
<1>1. /\ toServer # <<>> /\ f.cmd = "TUNKDATA" /\ toServer' = Tail(toServer)
      /\ UNCHANGED <<now, pc, todo, flags, asked, due, pass, requests>>
  BY DEF HandleTunkData, clientVars
<1>2. f.tunks \in SUBSET Tunks /\ now \in Nat
  BY <1>1, Queued DEF Orders, Types
<1>3. CASE descriptor = Nil \/ f.tunks \subseteq descriptor.have
  BY <1>1, <1>3 DEF HandleTunkData
<1>4. CASE ~(descriptor = Nil \/ f.tunks \subseteq descriptor.have)
  <2>1. descriptor \in Descriptors
    BY <1>4 DEF Types
  <2>2. /\ descriptor' = [descriptor EXCEPT !.have = @ \union f.tunks, !.recv_time = now]
        /\ IF Incomplete(descriptor') THEN UNCHANGED <<toClient, lost>>
           ELSE Answer(Reply("ACK")) \/ (MayLose /\ UNCHANGED toClient)
    BY <1>4 DEF HandleTunkData, Stamped
  <2> HIDE DEF f
  <2>3. /\ descriptor'.have = descriptor.have \union f.tunks
        /\ descriptor'.recv_time = now /\ descriptor'.retrans_cnt = descriptor.retrans_cnt
        /\ descriptor' \in Descriptors
    BY <1>2, <2>1, <2>2 DEF Descriptors
  <2>4. descriptor' # Nil
    BY <2>3, SerialTimingAssumption
  <2>5. \/ descriptor'.have # Tunks /\ UNCHANGED <<toClient, lost>>
        \/ /\ descriptor'.have = Tunks
           /\ \/ toClient' = Append(toClient, Written(Reply("ACK"))) /\ lost' = lost
              \/ MayLose /\ toClient' = toClient
    BY <2>2, <2>4 DEF Incomplete, Answer, Write, Written
  <2>6. descriptor # Nil /\ ~(f.tunks \subseteq descriptor.have)
    BY <1>4
  <2> QED
    BY <1>1, <2>1, <2>3, <2>4, <2>5, <2>6 DEF f
<1> QED
  BY <1>3, <1>4

LEMMA HandlingFileInfo ==
  ASSUME Types, HandleFileInfo
  PROVE  /\ toServer # <<>> /\ Head(toServer).cmd = "FILEINFO" /\ toServer' = Tail(toServer)
         /\ UNCHANGED <<now, pc, todo, flags, asked, due, pass, requests>>
         /\ descriptor' \in Descriptors /\ descriptor' # Nil
         /\ descriptor'.have = {} /\ descriptor'.recv_time = now /\ descriptor'.retrans_cnt = 0
         /\ \/ toClient' = Append(toClient, Written(Reply("FILEID"))) /\ lost' = lost
            \/ MayLose /\ toClient' = toClient
<1>1. descriptor' = [have |-> {}, recv_time |-> now, retrans_cnt |-> 0] /\ now \in Nat
  BY DEF HandleFileInfo, Types
<1>2. /\ descriptor' \in Descriptors
      /\ descriptor'.have = {} /\ descriptor'.recv_time = now /\ descriptor'.retrans_cnt = 0
  BY <1>1 DEF Descriptors
<1> QED
  BY <1>2, SerialTimingAssumption DEF HandleFileInfo, clientVars, Answer, Write, Written

\* A pass of the retransmission thread.
LEMMA Managing ==
  ASSUME Types, ManagePass
  PROVE  /\ now = pass /\ pass' = now + SERVER_LISTEN_INTERVAL
         /\ UNCHANGED <<now, pc, todo, flags, asked, due, toServer>>
         /\ \/ ~Overdue /\ UNCHANGED <<toClient, lost, requests, descriptor>>
            \/ /\ Overdue /\ descriptor \in Descriptors /\ descriptor # Nil
               /\ Missing(descriptor) \in SUBSET Tunks
               /\ \/ toClient' = Append(toClient, Written(Retrans(Missing(descriptor)))) /\ lost' = lost
                  \/ MayLose /\ toClient' = toClient
               /\ requests' = Append(requests, now)
               /\ \/ descriptor.retrans_cnt + 1 > MAXIMUM_RETRANS_CNT /\ descriptor' = Nil
                  \/ /\ descriptor.retrans_cnt + 1 =< MAXIMUM_RETRANS_CNT
                     /\ descriptor' \in Descriptors /\ descriptor' # Nil
                     /\ descriptor'.have = descriptor.have
                     /\ descriptor'.recv_time = descriptor.recv_time
                     /\ descriptor'.retrans_cnt = descriptor.retrans_cnt + 1
<1>1. /\ now = pass /\ pass' = now + SERVER_LISTEN_INTERVAL
      /\ UNCHANGED <<now, pc, todo, flags, asked, due, toServer>>
  BY DEF ManagePass, clientVars
<1>2. CASE ~Overdue
  BY <1>1, <1>2 DEF ManagePass
<1>3. CASE Overdue
  <2>1. descriptor \in Descriptors /\ descriptor # Nil
    BY <1>3 DEF Overdue, Incomplete, Types
  <2>2. /\ \/ toClient' = Append(toClient, Written(Retrans(Missing(descriptor)))) /\ lost' = lost
           \/ MayLose /\ toClient' = toClient
        /\ requests' = Append(requests, now)
    BY <1>3 DEF ManagePass, Answer, Write, Written
  <2>3. descriptor.retrans_cnt \in Nat /\ Missing(descriptor) \in SUBSET Tunks
    BY <2>1 DEF Descriptors, Missing
  <2>4. CASE Spent(descriptor)
    BY <1>1, <1>3, <2>1, <2>2, <2>3, <2>4 DEF ManagePass, Spent
  <2>5. CASE ~Spent(descriptor)
    <3>1. descriptor' = [descriptor EXCEPT !.retrans_cnt = @ + 1]
      BY <1>3, <2>5 DEF ManagePass
    <3>2. /\ descriptor'.have = descriptor.have /\ descriptor'.recv_time = descriptor.recv_time
          /\ descriptor'.retrans_cnt = descriptor.retrans_cnt + 1
          /\ descriptor' \in Descriptors
      BY <2>1, <3>1 DEF Descriptors
    <3>3. descriptor.retrans_cnt + 1 =< MAXIMUM_RETRANS_CNT
      BY <2>3, <2>5, Constants DEF Spent
    <3> QED
      BY <1>1, <1>3, <2>1, <2>2, <2>3, <3>2, <3>3, SerialTimingAssumption
  <2> QED
    BY <2>4, <2>5
<1> QED
  BY <1>2, <1>3

LEMMA TypesKept == Types /\ [Next]_vars => Types'
<1> SUFFICES ASSUME Types, [Next]_vars PROVE Types'
  OBVIOUS
<1>1. /\ now \in Nat /\ due \in Nat /\ pass \in Nat /\ lost \in 0..MaxLost
      /\ now + BLOCKING_TIMES \in Nat /\ now + Gap \in Nat /\ now + SERVER_LISTEN_INTERVAL \in Nat
  BY Constants DEF Types
<1>2. ASSUME Proceed PROVE Types'
  <2>1. UNCHANGED <<now, flags, asked, toServer, toClient, serverVars, lost>>
    BY <1>2 DEF Proceed
  <2>2. due' \in Nat /\ todo' \in SUBSET Tunks
    BY <1>1, <1>2, Proceeding DEF Types
  <2>3. pc' \in Waiting \union Over \union {"sending", "resending"}
    BY <1>2, Proceeding DEF Waiting, Over
  <2> QED
    BY <2>1, <2>2, <2>3 DEF Types, serverVars
<1>3. ASSUME WriteTunk PROVE Types'
  <2>1. UNCHANGED <<now, flags, asked, toClient, serverVars>>
    BY <1>3 DEF WriteTunk
  <2>2. PICK k \in todo :
          /\ pc \in {"sending", "resending"} /\ k \in Tunks
          /\ todo' = todo \ {k}
          /\ \/ pc' = pc /\ due' = now + Gap
             \/ due' = now + BLOCKING_TIMES /\ pc' \in {"waitans", "waitack"}
          /\ \/ toServer' = Append(toServer, Written(Tunk(k))) /\ lost' = lost
             \/ MayLose /\ toServer' = toServer
    BY <1>3, WritingTunk
  <2>3. due' \in Nat /\ todo' \in SUBSET Tunks /\ lost' \in 0..MaxLost
    BY <1>1, <2>2, Losing DEF Types
  <2>4. toServer' \in Seq(Orders)
    BY <1>1, <2>2, FramesWritten, Queued DEF Types
  <2>5. pc' \in Waiting \union Over \union {"sending", "resending"}
    BY <2>2 DEF Waiting
  <2> QED
    BY <2>1, <2>3, <2>4, <2>5 DEF Types, serverVars
<1>4. ASSUME TimeOut PROVE Types'
  BY <1>4 DEF TimeOut, Types, serverVars, Over
<1>5. ASSUME ListenClient PROVE Types'
  <2>1. /\ UNCHANGED <<now, pc, todo, due, toServer, serverVars, lost>>
        /\ toClient # <<>> /\ toClient' = Tail(toClient)
        /\ flags' \in {flags, flags \union {Head(toClient).cmd}}
        /\ asked' \in {asked, Head(toClient).tunks}
    BY <1>5 DEF ListenClient
  <2>2. Head(toClient) \in Replies /\ Tail(toClient) \in Seq(Replies)
    BY <2>1, Queued
  <2>3. Head(toClient).cmd \in {"FILEID", "ACK", "RETRANS"} /\ Head(toClient).tunks \in SUBSET Tunks
    BY <2>2 DEF Replies
  <2> QED
    BY <2>1, <2>2, <2>3 DEF Types, serverVars
<1>6. ASSUME HandleFileInfo PROVE Types'
  <2>1. toClient' \in Seq(Replies) /\ lost' \in 0..MaxLost /\ toServer' \in Seq(Orders)
    BY <1>1, <1>6, HandlingFileInfo, FramesWritten, Queued, Losing DEF Types
  <2> QED
    BY <1>6, <2>1, HandlingFileInfo DEF Types
<1>7. ASSUME HandleTunkData PROVE Types'
  <2>1. toServer' \in Seq(Orders)
    BY <1>7, HandlingTunkData, Queued
  <2>2. toClient' \in Seq(Replies) /\ lost' \in 0..MaxLost
    BY <1>1, <1>7, HandlingTunkData, FramesWritten, Queued, Losing DEF Types
  <2>3. descriptor' \in Descriptors \union {Nil}
    BY <1>7, HandlingTunkData DEF Types
  <2> QED
    BY <1>7, <2>1, <2>2, <2>3, HandlingTunkData DEF Types
<1>8. ASSUME ManagePass PROVE Types'
  <2>1. toClient' \in Seq(Replies) /\ lost' \in 0..MaxLost
    BY <1>1, <1>8, Managing, FramesWritten, Queued, Losing DEF Types
  <2>2. requests' \in Seq(Nat)
    <3>1. requests' = requests \/ requests' = Append(requests, now)
      BY <1>8, Managing
    <3>2. requests \in Seq(Nat)
      BY DEF Types
    <3>3. Append(requests, now) \in Seq(Nat)
      BY <1>1, <3>2, AppendProperties
    <3> QED
      BY <3>1, <3>2, <3>3
  <2>3. descriptor' \in Descriptors \union {Nil}
    BY <1>8, Managing DEF Types
  <2> QED
    BY <1>1, <1>8, <2>1, <2>2, <2>3, Managing DEF Types
<1>9. ASSUME Tick PROVE Types'
  BY <1>1, <1>9 DEF Tick, Types, clientVars, serverVars
<1>10. CASE UNCHANGED vars
  BY <1>10 DEF Types, vars, clientVars, serverVars
<1> QED
  BY <1>2, <1>3, <1>4, <1>5, <1>6, <1>7, <1>8, <1>9, <1>10 DEF Next

LEMMA TypesStart == Init => Types
<1> SUFFICES ASSUME Init PROVE Types
  OBVIOUS
<1> DEFINE f == [Info EXCEPT !.by = Delay]
<1>1. f = [cmd |-> "FILEINFO", tunks |-> {}, by |-> Delay]
  BY DEF Info
<1>2. f \in Orders
  BY <1>1, Constants DEF Orders
<1> HIDE DEF f
<1>3. <<f>> \in Seq(Orders)
  BY <1>2
<1>4. toServer \in Seq(Orders) /\ lost \in 0..MaxLost
  <2>1. (toServer = <<f>> /\ lost = 0) \/ (toServer = <<>> /\ lost = 1 /\ MaxLost > 0)
    BY DEF Init, f
  <2>2. <<>> \in Seq(Orders) /\ 0 \in 0..MaxLost /\ (MaxLost > 0 => 1 \in 0..MaxLost)
    BY Constants
  <2> QED
    BY <1>3, <2>1, <2>2
<1>5. pass \in Nat
  BY Constants DEF Init
<1> QED
  BY <1>4, <1>5, Constants DEF Init, Types, Waiting

LEMMA ClockKept == Types /\ Clock /\ [Next]_vars => Clock'
<1> SUFFICES ASSUME Types, Clock, [Next]_vars PROVE Clock'
  OBVIOUS
<1> USE Constants
<1>1. now \in Nat /\ due \in Nat /\ pass \in Nat
  BY DEF Types
<1>2. ASSUME Proceed PROVE Clock'
  <2>1. UNCHANGED <<now, descriptor, pass>>
    BY <1>2 DEF Proceed, serverVars
  <2>2. pc' \notin Over => now' =< due'
    BY <1>1, <1>2, <2>1, Proceeding DEF Over
  <2> QED
    BY <2>1, <2>2 DEF Clock
<1>3. ASSUME WriteTunk PROVE Clock'
  <2>1. UNCHANGED <<now, descriptor, pass>>
    BY <1>3 DEF WriteTunk, serverVars
  <2>2. now' =< due'
    BY <1>1, <1>3, <2>1, WritingTunk
  <2> QED
    BY <2>1, <2>2 DEF Clock
<1>4. ASSUME TimeOut \/ ListenClient \/ UNCHANGED vars PROVE Clock'
  BY <1>4 DEF TimeOut, ListenClient, vars, clientVars, serverVars, Clock, Over
<1>5. ASSUME HandleFileInfo PROVE Clock'
  BY <1>1, <1>5, HandlingFileInfo DEF Clock
<1>6. ASSUME HandleTunkData PROVE Clock'
  BY <1>1, <1>6, HandlingTunkData DEF Clock
<1>7. ASSUME ManagePass PROVE Clock'
  <2>1. descriptor' # Nil => descriptor # Nil /\ descriptor'.recv_time = descriptor.recv_time
    BY <1>7, Managing
  <2>2. /\ UNCHANGED <<now, pc, due>> /\ pass' = now + SERVER_LISTEN_INTERVAL
    BY <1>7, Managing
  <2> QED
    BY <1>1, <2>1, <2>2 DEF Clock
<1>8. ASSUME Tick PROVE Clock'
  <2>1. /\ now' = now + 1 /\ now < pass /\ (pc \in Over \/ now < due)
        /\ UNCHANGED <<pc, due, descriptor, pass>>
    BY <1>8 DEF Tick, clientVars, serverVars
  <2>2. descriptor # Nil => descriptor.recv_time \in Nat
    BY DEF Types, Descriptors
  <2> QED
    BY <1>1, <2>1, <2>2 DEF Clock
<1> QED
  BY <1>2, <1>3, <1>4, <1>5, <1>6, <1>7, <1>8 DEF Next

LEMMA ClockStart == Init => Clock
BY Constants DEF Init, Clock

LEMMA TypesAlways == Spec => [](Types /\ Clock)
BY TypesStart, ClockStart, TypesKept, ClockKept, PTL DEF Spec

\* Types, for any intervals.
THEOREM TypeCorrect == Spec => []TypeOK
<1>1. Types => TypeOK
  <2> SUFFICES ASSUME Types PROVE TypeOK
    OBVIOUS
  <2>1. Orders \subseteq FrameSet /\ Replies \subseteq FrameSet
    BY DEF Orders, Replies, FrameSet
  <2>2. toServer \in Seq(FrameSet) /\ toClient \in Seq(FrameSet)
    BY <2>1, SeqMonotonic DEF Types
  <2> QED
    BY <2>2 DEF Types, TypeOK
<1> QED
  BY <1>1, TypesAlways, PTL

-----------------------------------------------------------------------------
(* The end of an incomplete file *)

\* Intervals are counted.
LEMMA Intervals ==
  ASSUME NEW c \in Nat
  PROVE  /\ (c + 1) * SERVER_LISTEN_INTERVAL \in Nat
         /\ (c + 1) * SERVER_LISTEN_INTERVAL >= SERVER_LISTEN_INTERVAL
         /\ (c + 2) * SERVER_LISTEN_INTERVAL
              = (c + 1) * SERVER_LISTEN_INTERVAL + SERVER_LISTEN_INTERVAL
         /\ \A m \in Nat : c =< m =>
              (c + 1) * SERVER_LISTEN_INTERVAL =< (m + 1) * SERVER_LISTEN_INTERVAL
<1> DEFINE T == SERVER_LISTEN_INTERVAL
<1>1. T \in Nat /\ T > 0
  BY Constants
<1> HIDE DEF T
<1>2. c * T \in Nat
  BY <1>1
<1>3. (c + 1) * T = c * T + T /\ (c + 2) * T = c * T + T + T
  BY <1>1
<1>4. ASSUME NEW m \in Nat, c =< m PROVE (c + 1) * T =< (m + 1) * T
  <2>1. PICK n \in Nat : m = c + n
    <3>1. m - c \in Nat /\ m = c + (m - c)
      BY <1>4
    <3> QED
      BY <3>1
  <2>2. (m + 1) * T = (c + 1) * T + n * T
    BY <1>1, <2>1
  <2>3. n * T \in Nat /\ (c + 1) * T \in Nat
    BY <1>1
  <2> QED
    BY <2>2, <2>3
<1> QED
  BY <1>1, <1>2, <1>3, <1>4 DEF T

\* The FILEINFO comes before everything else, once.
LEMMA InfoFirstKept == Types /\ InfoFirst /\ [Next]_vars => InfoFirst'
<1> SUFFICES ASSUME Types, InfoFirst, [Next]_vars PROVE InfoFirst'
  OBVIOUS
<1>1. toServer \in Seq(Orders) /\ Len(toServer) \in Nat
  BY LenProperties DEF Types
<1>2. ASSUME toServer # <<>>, toServer' = Tail(toServer) PROVE InfoFirst'
  <2>1. /\ Len(toServer') = Len(toServer) - 1
        /\ \A i \in 1..Len(toServer') : toServer'[i] = toServer[i + 1]
    BY <1>1, <1>2, HeadTailProperties
  <2>2. ASSUME NEW i \in 1..Len(toServer') PROVE toServer'[i].cmd # "FILEINFO"
    <3>1. i + 1 \in 1..Len(toServer) /\ i + 1 # 1
      BY <1>1, <2>1
    <3> QED
      BY <2>1, <3>1 DEF InfoFirst
  <2> QED
    BY <2>2 DEF InfoFirst
<1>3. ASSUME Proceed \/ TimeOut \/ ListenClient \/ Tick \/ UNCHANGED vars PROVE InfoFirst'
  BY <1>3 DEF Proceed, TimeOut, ListenClient, Tick, vars, clientVars, serverVars, InfoFirst
<1>4. ASSUME WriteTunk PROVE InfoFirst'
  <2>1. UNCHANGED <<descriptor, requests>>
    BY <1>4 DEF WriteTunk, serverVars
  <2>2. PICK k \in Tunks : toServer' \in {toServer, Append(toServer, Written(Tunk(k)))}
    BY <1>4, WritingTunk
  <2>3. CASE toServer' = toServer
    BY <2>1, <2>3 DEF InfoFirst
  <2>4. CASE toServer' = Append(toServer, Written(Tunk(k)))
    <3>1. Written(Tunk(k)) \in Orders /\ Written(Tunk(k)).cmd = "TUNKDATA"
      BY FramesWritten DEF Types
    <3>2. /\ Len(toServer') = Len(toServer) + 1
          /\ \A i \in 1..Len(toServer) : toServer'[i] = toServer[i]
          /\ toServer'[Len(toServer) + 1] = Written(Tunk(k))
      BY <1>1, <2>4, <3>1, AppendProperties
    <3>3. ASSUME NEW i \in 1..Len(toServer'), toServer'[i].cmd = "FILEINFO"
          PROVE  i = 1 /\ descriptor' = Nil /\ requests' = <<>>
      <4>1. i # Len(toServer) + 1
        BY <3>1, <3>2, <3>3
      <4>2. i \in 1..Len(toServer)
        BY <1>1, <3>2, <4>1
      <4> QED
        BY <2>1, <3>2, <3>3, <4>2 DEF InfoFirst
    <3> QED
      BY <3>3 DEF InfoFirst
  <2> QED
    BY <2>2, <2>3, <2>4
<1>5. ASSUME HandleFileInfo \/ HandleTunkData PROVE InfoFirst'
  BY <1>2, <1>5 DEF HandleFileInfo, HandleTunkData
<1>6. ASSUME ManagePass PROVE InfoFirst'
  <2>1. toServer' = toServer
    BY <1>6, Managing
  <2>2. descriptor # Nil \/ UNCHANGED <<requests, descriptor>>
    BY <1>6, Managing
  <2> QED
    BY <2>1, <2>2 DEF InfoFirst
<1> QED
  BY <1>3, <1>4, <1>5, <1>6 DEF Next

\* The requests are counted, and the age of an incomplete file with them.
LEMMA CountedKept ==
  Types /\ Clock /\ InfoFirst /\ Counted /\ [Next]_vars => Counted'
<1> SUFFICES ASSUME Types, Clock, InfoFirst, Counted, [Next]_vars PROVE Counted'
  OBVIOUS
<1>1. now \in Nat /\ pass \in Nat /\ requests \in Seq(Nat) /\ Len(requests) \in Nat
  BY LenProperties DEF Types
<1>2. ASSUME descriptor # Nil
      PROVE  /\ descriptor.have \in SUBSET Tunks
             /\ descriptor.recv_time \in Nat /\ descriptor.retrans_cnt \in Nat
  BY <1>2 DEF Types, Descriptors
<1>3. ASSUME UNCHANGED <<descriptor, pass, requests>> PROVE Counted'
  BY <1>3 DEF Counted, Incomplete
<1>4. ASSUME Proceed \/ WriteTunk \/ TimeOut \/ ListenClient \/ Tick \/ UNCHANGED vars PROVE Counted'
  <2>1. UNCHANGED <<descriptor, pass, requests>>
    BY <1>4 DEF Proceed, WriteTunk, TimeOut, ListenClient, Tick, vars, serverVars
  <2> QED
    BY <1>3, <2>1
<1>5. ASSUME HandleFileInfo PROVE Counted'
  <2>1. requests = <<>>
    <3>1. toServer # <<>> /\ Head(toServer).cmd = "FILEINFO"
      BY <1>5, HandlingFileInfo
    <3>2. 1 \in 1..Len(toServer) /\ Head(toServer) = toServer[1]
      BY <3>1, HeadTailProperties, LenProperties, EmptySeq DEF Types
    <3> QED
      BY <3>1, <3>2 DEF InfoFirst
  <2>2. /\ descriptor' # Nil /\ descriptor'.recv_time = now /\ descriptor'.retrans_cnt = 0
        /\ UNCHANGED <<pass, requests>>
    BY <1>5, HandlingFileInfo
  <2>3. Len(requests') = 0
    BY <2>1, <2>2
  <2>4. pass' - descriptor'.recv_time
          =< MAXIMUM_WAIT_TIMES + (descriptor'.retrans_cnt + 1) * SERVER_LISTEN_INTERVAL
    <3>1. pass - now =< SERVER_LISTEN_INTERVAL
      BY <1>1, Constants DEF Clock
    <3>2. (descriptor'.retrans_cnt + 1) * SERVER_LISTEN_INTERVAL = SERVER_LISTEN_INTERVAL
      BY <2>2, Constants
    <3>3. pass' - descriptor'.recv_time = pass - now
      BY <2>2
    <3> QED
      BY <1>1, <3>1, <3>2, <3>3, Constants
  <2>5. descriptor'.retrans_cnt =< MAXIMUM_RETRANS_CNT
    BY <2>2, Constants
  <2> QED
    BY <2>2, <2>3, <2>4, <2>5 DEF Counted
<1>6. ASSUME HandleTunkData PROVE Counted'
  <2>1. UNCHANGED <<pass, requests>>
    BY <1>6, HandlingTunkData
  <2>2. CASE UNCHANGED descriptor
    BY <1>3, <2>1, <2>2
  <2>3. CASE ~UNCHANGED descriptor
    <3>1. /\ descriptor # Nil /\ descriptor' # Nil
          /\ descriptor'.have = descriptor.have \union Head(toServer).tunks
          /\ descriptor'.recv_time = now
          /\ descriptor'.retrans_cnt = descriptor.retrans_cnt
          /\ toServer # <<>>
      BY <1>6, <2>3, HandlingTunkData
    <3>2. /\ Len(requests') = descriptor'.retrans_cnt
          /\ descriptor'.retrans_cnt =< MAXIMUM_RETRANS_CNT
      BY <2>1, <3>1 DEF Counted
    <3>3. pass' - descriptor'.recv_time =< SERVER_LISTEN_INTERVAL
      <4>1. pass - now =< SERVER_LISTEN_INTERVAL
        BY <1>1, Constants DEF Clock
      <4> QED
        BY <2>1, <3>1, <4>1
    <3>4. /\ (descriptor'.retrans_cnt + 1) * SERVER_LISTEN_INTERVAL \in Nat
          /\ (descriptor'.retrans_cnt + 1) * SERVER_LISTEN_INTERVAL >= SERVER_LISTEN_INTERVAL
      BY <1>2, <3>1, Intervals
    <3>5. pass' - descriptor'.recv_time \in Int
      BY <1>1, <2>1, <3>1
    <3>6. pass' - descriptor'.recv_time
            =< MAXIMUM_WAIT_TIMES + (descriptor'.retrans_cnt + 1) * SERVER_LISTEN_INTERVAL
      BY <3>3, <3>4, <3>5, Constants
    <3> QED
      BY <3>1, <3>2, <3>6 DEF Counted
  <2> QED
    BY <2>2, <2>3
<1>7. ASSUME ManagePass PROVE Counted'
  <2>1. now = pass /\ pass' = now + SERVER_LISTEN_INTERVAL
    BY <1>7, Managing
  <2>2. CASE ~Overdue
    <3>1. UNCHANGED <<requests, descriptor>>
      BY <1>7, <2>2, Managing
    <3>2. ASSUME descriptor # Nil, Incomplete(descriptor)
          PROVE  pass' - descriptor.recv_time
                   =< MAXIMUM_WAIT_TIMES + (descriptor.retrans_cnt + 1) * SERVER_LISTEN_INTERVAL
      <4>1. now - descriptor.recv_time =< MAXIMUM_WAIT_TIMES
        BY <1>1, <1>2, <2>2, <3>2, Constants DEF Overdue, Silence
      <4>2. /\ (descriptor.retrans_cnt + 1) * SERVER_LISTEN_INTERVAL \in Nat
            /\ (descriptor.retrans_cnt + 1) * SERVER_LISTEN_INTERVAL >= SERVER_LISTEN_INTERVAL
        BY <1>2, <3>2, Intervals
      <4>3. descriptor.recv_time \in Nat
        BY <1>2, <3>2
      <4> QED
        BY <1>1, <2>1, <4>1, <4>2, <4>3, Constants
    <3> QED
      BY <3>1, <3>2 DEF Counted, Incomplete
  <2>3. CASE Overdue
    <3>1. /\ descriptor # Nil /\ Incomplete(descriptor) /\ requests' = Append(requests, now)
          /\ \/ descriptor' = Nil
             \/ /\ descriptor.retrans_cnt + 1 =< MAXIMUM_RETRANS_CNT /\ descriptor' # Nil
                /\ descriptor'.recv_time = descriptor.recv_time
                /\ descriptor'.retrans_cnt = descriptor.retrans_cnt + 1
      BY <1>7, <2>3, Managing DEF Overdue
    <3>2. Len(requests') = descriptor.retrans_cnt + 1 /\ descriptor.retrans_cnt =< MAXIMUM_RETRANS_CNT
      <4>1. Len(requests') = Len(requests) + 1
        BY <1>1, <3>1, AppendProperties
      <4> QED
        BY <3>1, <4>1 DEF Counted
    <3>3. CASE descriptor' = Nil
      BY <1>2, <3>1, <3>2, <3>3, Constants DEF Counted
    <3>4. CASE descriptor' # Nil
      <4>1. pass - descriptor.recv_time
              =< MAXIMUM_WAIT_TIMES + (descriptor.retrans_cnt + 1) * SERVER_LISTEN_INTERVAL
        BY <3>1 DEF Counted
      <4>2. /\ descriptor'.recv_time = descriptor.recv_time
            /\ descriptor'.retrans_cnt = descriptor.retrans_cnt + 1
            /\ descriptor.retrans_cnt + 1 =< MAXIMUM_RETRANS_CNT
        BY <3>1, <3>4
      <4>3. /\ (descriptor.retrans_cnt + 1) * SERVER_LISTEN_INTERVAL \in Nat
            /\ (descriptor.retrans_cnt + 2) * SERVER_LISTEN_INTERVAL
                 = (descriptor.retrans_cnt + 1) * SERVER_LISTEN_INTERVAL + SERVER_LISTEN_INTERVAL
        BY <1>2, <3>1, Intervals
      <4>4. descriptor'.retrans_cnt + 1 = descriptor.retrans_cnt + 2
        BY <1>2, <3>1, <4>2
      <4>5. pass' - descriptor'.recv_time = pass - descriptor.recv_time + SERVER_LISTEN_INTERVAL
        BY <1>1, <1>2, <2>1, <3>1, <4>2, Constants
      <4>6. descriptor.recv_time \in Nat
        BY <1>2, <3>1
      <4>7. pass' - descriptor'.recv_time
              =< MAXIMUM_WAIT_TIMES + (descriptor'.retrans_cnt + 1) * SERVER_LISTEN_INTERVAL
        BY <1>1, <4>1, <4>3, <4>4, <4>5, <4>6, Constants
      <4> QED
        BY <3>2, <3>4, <4>2, <4>7 DEF Counted
    <3> QED
      BY <3>3, <3>4
  <2> QED
    BY <2>2, <2>3
<1> QED
  BY <1>4, <1>5, <1>6, <1>7 DEF Next

LEMMA CountedStart == Init => InfoFirst /\ Counted
<1> SUFFICES ASSUME Init PROVE InfoFirst /\ Counted
  OBVIOUS
<1>1. /\ descriptor = Nil /\ requests = <<>> /\ Len(requests) = 0
      /\ Len(toServer) = 1 \/ Len(toServer) = 0
  <2>1. PICK f : toServer = <<f>> \/ toServer = <<>>
    BY DEF Init
  <2>2. descriptor = Nil /\ requests = <<>>
    BY DEF Init
  <2>3. Len(<<f>>) = 1 /\ Len(<<>>) = 0
    OBVIOUS
  <2>4. Len(requests) = 0
    BY <2>2
  <2>5. Len(toServer) = 1 \/ Len(toServer) = 0
    BY <2>1, <2>3
  <2> QED
    BY <2>2, <2>4, <2>5
<1>2. \A n : n = 1 \/ n = 0 => (\A i \in 1..n : i = 1)
  OBVIOUS
<1>3. \A i \in 1..Len(toServer) : i = 1
  BY <1>1, <1>2, Zenon
<1> QED
  BY <1>1, <1>3, Constants DEF InfoFirst, Counted

\* A file that stays incomplete is asked for one time more than
\* MAXIMUM_RETRANS_CNT at most, and lives at most MAXIMUM_WAIT_TIMES and one
\* interval for each request after the last chunk that came: manage_server_fileid().
THEOREM GivenUp == Spec => []GivenUpInTime
<1>1. Types /\ Clock /\ Counted => GivenUpInTime
  <2> SUFFICES ASSUME Types, Clock, Counted PROVE GivenUpInTime
    OBVIOUS
  <2>1. now \in Nat /\ pass \in Nat /\ Len(requests) \in Nat
    BY LenProperties DEF Types
  <2>2. ASSUME descriptor # Nil PROVE descriptor.recv_time \in Nat /\ descriptor.retrans_cnt \in Nat
    BY <2>2 DEF Types, Descriptors
  <2>3. Len(requests) =< MAXIMUM_RETRANS_CNT + 1
    BY <2>1, <2>2, Constants DEF Counted
  <2>4. ASSUME Incomplete(descriptor)
        PROVE  Silence =< MAXIMUM_WAIT_TIMES + (MAXIMUM_RETRANS_CNT + 1) * SERVER_LISTEN_INTERVAL
    <3>1. descriptor # Nil
      BY <2>4 DEF Incomplete
    <3>2. /\ pass - descriptor.recv_time
               =< MAXIMUM_WAIT_TIMES + (descriptor.retrans_cnt + 1) * SERVER_LISTEN_INTERVAL
          /\ descriptor.retrans_cnt =< MAXIMUM_RETRANS_CNT
      BY <2>4, <3>1 DEF Counted
    <3>3. Silence =< pass - descriptor.recv_time
      BY <2>1, <2>2, <3>1 DEF Clock, Silence
    <3>4. /\ (descriptor.retrans_cnt + 1) * SERVER_LISTEN_INTERVAL \in Nat
          /\ (descriptor.retrans_cnt + 1) * SERVER_LISTEN_INTERVAL
               =< (MAXIMUM_RETRANS_CNT + 1) * SERVER_LISTEN_INTERVAL
          /\ (MAXIMUM_RETRANS_CNT + 1) * SERVER_LISTEN_INTERVAL \in Nat
      BY <2>2, <3>1, <3>2, Intervals, Constants
    <3>5. Silence \in Int /\ pass - descriptor.recv_time \in Int
      BY <2>1, <2>2, <3>1 DEF Silence
    <3> QED
      BY <3>2, <3>3, <3>4, <3>5, Constants
  <2> QED
    BY <2>3, <2>4 DEF GivenUpInTime
<1> QED
  BY <1>1, TypesAlways, CountedStart, InfoFirstKept, CountedKept, PTL DEF Spec

-----------------------------------------------------------------------------
(* What is asked for *)

\* The last chunk has the largest number.
LEMMA LastIsTunk == LastTunk \in Tunks /\ \A k \in Tunks : k =< LastTunk
BY Constants DEF LastTunk, Tunks

\* The server takes the first frame.
LEMMA Received ==
  ASSUME Types, toServer # <<>>, toServer' = Tail(toServer)
  PROVE  ToSet(toServer') \subseteq ToSet(toServer) /\ Head(toServer) \in ToSet(toServer)
<1>1. toServer \in Seq(Orders)
  BY DEF Types
<1>2. ToSet(toServer) = {Head(toServer)} \union ToSet(Tail(toServer))
  BY <1>1, DequeueElements
<1> QED
  BY <1>2

LEMMA LastUnwrittenKept == Types /\ LastUnwritten /\ [Next]_vars => LastUnwritten'
<1> SUFFICES ASSUME Types, LastUnwritten, [Next]_vars PROVE LastUnwritten'
  OBVIOUS
<1>1. ASSUME Proceed PROVE LastUnwritten'
  <2>1. UNCHANGED <<toServer, descriptor>>
    BY <1>1 DEF Proceed, serverVars
  <2>2. \/ pc = "waitid" /\ pc' = "sending" /\ todo' = Tunks
        \/ pc' \in {"resending", "waitack", "ok"}
    BY <1>1, Proceeding
  <2> QED
    BY <2>1, <2>2, LastIsTunk DEF LastUnwritten
<1>2. ASSUME WriteTunk PROVE LastUnwritten'
  <2>1. UNCHANGED descriptor
    BY <1>2 DEF WriteTunk, serverVars
  <2>2. PICK k \in todo :
          /\ pc \in {"sending", "resending"} /\ k \in Tunks /\ \A j \in todo : k =< j
          /\ todo' = todo \ {k}
          /\ \/ todo' # {} /\ pc' = pc
             \/ todo' = {} /\ pc' = IF pc = "sending" THEN "waitans" ELSE "waitack"
          /\ toServer' \in {toServer, Append(toServer, Written(Tunk(k)))}
    BY <1>2, WritingTunk
  <2>3. CASE pc' # "sending"
    BY <2>2, <2>3 DEF LastUnwritten
  <2>4. CASE pc' = "sending"
    <3>1. pc = "sending" /\ todo' # {} /\ LastTunk \in todo
      BY <2>2, <2>4 DEF LastUnwritten
    <3>2. k # LastTunk
      <4>1. PICK j \in todo : j # k
        BY <2>2, <3>1
      <4>2. j \in Tunks /\ k =< j
        BY <2>2, <4>1 DEF Types
      <4> QED
        BY <2>2, <4>1, <4>2, LastIsTunk, Constants DEF Tunks, LastTunk
    <3>3. Written(Tunk(k)) \in Orders /\ Written(Tunk(k)).tunks = {k}
      BY <2>2, FramesWritten DEF Types
    <3>4. ToSet(toServer') \subseteq ToSet(toServer) \union {Written(Tunk(k))}
      <4>1. toServer \in Seq(Orders)
        BY DEF Types
      <4>2. ToSet(Append(toServer, Written(Tunk(k)))) = ToSet(toServer) \union {Written(Tunk(k))}
        BY <3>3, <4>1, EnqueueElements
      <4> QED
        BY <2>2, <4>2
    <3>5. \A f \in ToSet(toServer') : LastTunk \notin f.tunks
      BY <3>1, <3>2, <3>3, <3>4 DEF LastUnwritten
    <3> QED
      BY <2>1, <2>2, <3>1, <3>2, <3>5 DEF LastUnwritten
  <2> QED
    BY <2>3, <2>4
<1>3. ASSUME HandleFileInfo PROVE LastUnwritten'
  <2>1. ToSet(toServer') \subseteq ToSet(toServer)
    BY <1>3, HandlingFileInfo, Received
  <2> QED
    BY <1>3, <2>1, HandlingFileInfo DEF LastUnwritten
<1>4. ASSUME HandleTunkData PROVE LastUnwritten'
  <2>1. ToSet(toServer') \subseteq ToSet(toServer) /\ Head(toServer) \in ToSet(toServer)
    BY <1>4, HandlingTunkData, Received
  <2>2. /\ UNCHANGED <<pc, todo>>
        /\ \/ UNCHANGED descriptor
           \/ descriptor # Nil /\ descriptor'.have = descriptor.have \union Head(toServer).tunks
    BY <1>4, HandlingTunkData
  <2> QED
    BY <2>1, <2>2 DEF LastUnwritten
<1>5. ASSUME ManagePass PROVE LastUnwritten'
  <2>1. /\ UNCHANGED <<pc, todo, toServer>>
        /\ \/ UNCHANGED descriptor
           \/ descriptor' = Nil
           \/ descriptor # Nil /\ descriptor'.have = descriptor.have
    BY <1>5, Managing
  <2> QED
    BY <2>1 DEF LastUnwritten
<1>6. ASSUME TimeOut \/ ListenClient \/ Tick \/ UNCHANGED vars PROVE LastUnwritten'
  BY <1>6 DEF TimeOut, ListenClient, Tick, vars, clientVars, serverVars, LastUnwritten
<1> QED
  BY <1>1, <1>2, <1>3, <1>4, <1>5, <1>6 DEF Next

LEMMA LastAwaitedKept ==
  Types /\ Clock /\ LastUnwritten /\ LastAwaited /\ [Next]_vars => LastAwaited'
<1> SUFFICES ASSUME Types, Clock, LastUnwritten, LastAwaited, [Next]_vars PROVE LastAwaited'
  OBVIOUS
<1>1. now \in Nat /\ due \in Nat
  BY DEF Types
<1>2. ASSUME Proceed \/ TimeOut PROVE LastAwaited'
  <2>1. pc' # "waitans"
    BY <1>2, Proceeding DEF TimeOut
  <2> QED
    BY <2>1 DEF LastAwaited
<1>3. ASSUME WriteTunk PROVE LastAwaited'
  <2>1. UNCHANGED <<now, descriptor>>
    BY <1>3 DEF WriteTunk, serverVars
  <2>2. pc' = "waitans" => pc = "sending" /\ due' = now + BLOCKING_TIMES
    BY <1>3, WritingTunk
  <2>3. now + BLOCKING_TIMES =< now + BLOCKING_TIMES
    BY <1>1, Constants
  <2> QED
    BY <2>1, <2>2, <2>3 DEF LastAwaited, LastUnwritten
<1>4. ASSUME HandleFileInfo PROVE LastAwaited'
  BY <1>4, HandlingFileInfo DEF LastAwaited
<1>5. ASSUME HandleTunkData PROVE LastAwaited'
  BY <1>5, HandlingTunkData DEF LastAwaited
<1>6. ASSUME ManagePass PROVE LastAwaited'
  <2>1. /\ UNCHANGED <<now, pc, due>>
        /\ \/ UNCHANGED descriptor
           \/ descriptor' = Nil
           \/ /\ descriptor # Nil /\ descriptor'.have = descriptor.have
              /\ descriptor'.recv_time = descriptor.recv_time
    BY <1>6, Managing
  <2> QED
    BY <2>1 DEF LastAwaited
<1>7. ASSUME ListenClient \/ UNCHANGED vars PROVE LastAwaited'
  BY <1>7 DEF ListenClient, vars, clientVars, serverVars, LastAwaited
<1>8. ASSUME Tick PROVE LastAwaited'
  <2>1. now' = now + 1 /\ UNCHANGED <<pc, due, descriptor>>
    BY <1>8 DEF Tick, clientVars, serverVars
  <2>2. due =< now + BLOCKING_TIMES => due =< now + 1 + BLOCKING_TIMES
    BY <1>1, Constants
  <2> QED
    BY <2>1, <2>2 DEF LastAwaited
<1> QED
  BY <1>2, <1>3, <1>4, <1>5, <1>6, <1>7, <1>8 DEF Next

LEMMA LastNamedKept ==
  Types /\ Clock /\ LastAsked /\ [Next]_vars => LastNamed'
<1> SUFFICES ASSUME Types, Clock, LastAsked, [Next]_vars PROVE LastNamed'
  OBVIOUS
<1> DEFINE Serving == {"waitid", "sending", "waitans"}
<1>1. now \in Nat /\ due \in Nat /\ toClient \in Seq(Replies)
  BY DEF Types
<1>2. ASSUME NEW f \in Replies, toClient' \in {toClient, Append(toClient, f)},
             f.cmd = "RETRANS" /\ pc' \in Serving => LastTunk \in f.tunks,
             UNCHANGED <<pc, flags, asked>>
      PROVE  LastNamed'
  <2>1. ToSet(toClient') \subseteq ToSet(toClient) \union {f}
    BY <1>1, <1>2, EnqueueElements
  <2> QED
    BY <1>2, <2>1 DEF LastAsked, LastNamed
<1>3. ASSUME UNCHANGED <<toClient, flags, asked>>, pc' \in Serving => pc \in Serving
      PROVE  LastNamed'
  BY <1>3 DEF LastAsked, LastNamed
<1>4. ASSUME Proceed PROVE LastNamed'
  <2>1. UNCHANGED <<toClient, flags, asked>>
    BY <1>4 DEF Proceed
  <2>2. pc' \in Serving => pc \in Serving
    BY <1>4, Proceeding
  <2> QED
    BY <1>3, <2>1, <2>2
<1>5. ASSUME WriteTunk PROVE LastNamed'
  <2>1. UNCHANGED <<toClient, flags, asked>>
    BY <1>5 DEF WriteTunk
  <2>2. pc' \in Serving => pc \in Serving
    BY <1>5, WritingTunk
  <2> QED
    BY <1>3, <2>1, <2>2
<1>6. ASSUME TimeOut \/ Tick \/ UNCHANGED vars PROVE LastNamed'
  <2>1. UNCHANGED <<toClient, flags, asked>> /\ (pc' = pc \/ pc' = "failed")
    BY <1>6 DEF TimeOut, Tick, vars, clientVars
  <2> QED
    BY <1>3, <2>1
<1>7. ASSUME ListenClient PROVE LastNamed'
  <2>1. toClient # <<>> /\ toClient' = Tail(toClient) /\ UNCHANGED pc
    BY <1>7 DEF ListenClient
  <2>2. ToSet(toClient') \subseteq ToSet(toClient) /\ Head(toClient) \in ToSet(toClient)
    BY <1>1, <2>1, DequeueElements
  <2>3. pc \in Serving =>
          /\ flags' = flags \union {Head(toClient).cmd}
          /\ asked' = IF Head(toClient).cmd = "RETRANS" THEN Head(toClient).tunks ELSE asked
    BY <1>7 DEF ListenClient, Over
  <2> QED
    BY <2>1, <2>2, <2>3 DEF LastAsked, LastNamed
<1>8. ASSUME HandleFileInfo PROVE LastNamed'
  <2>1. Written(Reply("FILEID")) \in Replies /\ Written(Reply("FILEID")).cmd = "FILEID"
    BY <1>1, FramesWritten
  <2> QED
    BY <1>2, <1>8, <2>1, HandlingFileInfo
<1>9. ASSUME HandleTunkData PROVE LastNamed'
  <2>1. Written(Reply("ACK")) \in Replies /\ Written(Reply("ACK")).cmd = "ACK"
    BY <1>1, FramesWritten
  <2>2. /\ UNCHANGED <<pc, flags, asked>>
        /\ toClient' \in {toClient, Append(toClient, Written(Reply("ACK")))}
    BY <1>9, HandlingTunkData
  <2> QED
    BY <1>2, <2>1, <2>2
<1>10. ASSUME ManagePass PROVE LastNamed'
  <2>1. UNCHANGED <<pc, flags, asked>>
    BY <1>10, Managing
  <2>2. CASE ~Overdue
    <3>1. UNCHANGED toClient
      BY <1>10, <2>2, Managing
    <3> QED
      BY <1>3, <2>1, <3>1
  <2>3. CASE Overdue
    <3>1. /\ descriptor \in Descriptors /\ descriptor # Nil
          /\ Missing(descriptor) \in SUBSET Tunks
          /\ toClient' \in {toClient, Append(toClient, Written(Retrans(Missing(descriptor))))}
      BY <1>10, <2>3, Managing
    <3>2. /\ Written(Retrans(Missing(descriptor))) \in Replies
          /\ Written(Retrans(Missing(descriptor))).tunks = Missing(descriptor)
      BY <1>1, <3>1, FramesWritten
    <3>3. ASSUME pc \in Serving PROVE LastTunk \notin descriptor.have
      <4>1. CASE pc = "waitans"
        <5>1. descriptor.recv_time \in Nat
          BY <3>1 DEF Descriptors
        <5>2. now - descriptor.recv_time > MAXIMUM_WAIT_TIMES
          BY <2>3 DEF Overdue, Silence
        <5>3. now =< due
          BY <4>1 DEF Clock, Over
        <5>4. MAXIMUM_WAIT_TIMES >= BLOCKING_TIMES
          BY SerialTimingAssumption
        <5>5. ~(due =< descriptor.recv_time + BLOCKING_TIMES)
          BY <1>1, <5>1, <5>2, <5>3, <5>4, Constants
        <5> QED
          BY <3>1, <4>1, <5>5 DEF LastAsked, LastAwaited
      <4>2. CASE pc \in {"waitid", "sending"}
        BY <3>1, <4>2 DEF LastAsked, LastUnwritten
      <4> QED
        BY <3>3, <4>1, <4>2
    <3>4. pc' \in Serving => LastTunk \in Missing(descriptor)
      BY <2>1, <3>3, LastIsTunk DEF Missing
    <3> HIDE DEF Serving
    <3> QED
      BY <1>2, <2>1, <3>1, <3>2, <3>4
  <2> QED
    BY <2>2, <2>3
<1> QED
  BY <1>4, <1>5, <1>6, <1>7, <1>8, <1>9, <1>10 DEF Next

LEMMA LastAskedStart == Init => LastAsked
<1> SUFFICES ASSUME Init PROVE LastAsked
  OBVIOUS
<1>1. pc = "waitid" /\ flags = {} /\ descriptor = Nil /\ toClient = <<>>
  BY DEF Init
<1>2. \A f \in ToSet(toServer) : f.tunks = {}
  <2>1. [Info EXCEPT !.by = Delay].tunks = {}
    BY DEF Info
  <2>2. toServer = <<[Info EXCEPT !.by = Delay]>> \/ toServer = <<>>
    BY DEF Init
  <2>3. ASSUME NEW f PROVE ToSet(<<f>>) = {f}
    BY DEF ToSet
  <2>4. ToSet(<<>>) = {}
    BY DEF ToSet
  <2> QED
    BY <2>1, <2>2, <2>3, <2>4, Zenon
<1>3. ToSet(<<>>) = {}
  BY DEF ToSet
<1> QED
  BY <1>1, <1>2, <1>3 DEF LastAsked, LastUnwritten, LastAwaited, LastNamed

LEMMA LastAskedAlways == Spec => []LastAsked
<1>1. Types /\ Clock /\ LastAsked /\ [Next]_vars => LastAsked'
  BY LastUnwrittenKept, LastAwaitedKept, LastNamedKept DEF LastAsked
<1> QED
  BY <1>1, TypesAlways, LastAskedStart, PTL DEF Spec

\* transfer() serves a request only when the request names the last chunk: the
\* server finds the file overdue MAXIMUM_WAIT_TIMES after the last chunk came, and
\* by then the wait of the sender, not longer and begun before, is over.
THEOREM ServedLast == Spec => ServedNamesLastChunk
<1>1. Types /\ LastAsked /\ [Next]_vars =>
        [pc = "waitans" /\ pc' = "resending" => TunkSize - 1 \in asked]_vars
  <2> SUFFICES ASSUME Types, LastAsked, [Next]_vars, pc = "waitans", pc' = "resending"
               PROVE  LastTunk \in asked
    BY DEF LastTunk
  <2>1. Proceed
    <3>1. ~WriteTunk /\ ~TimeOut
      BY DEF WriteTunk, TimeOut
    <3>2. pc' = pc \/ Proceed
      BY <3>1, HandlingFileInfo, HandlingTunkData, Managing
      DEF Next, ListenClient, Tick, vars, clientVars
    <3> QED
      BY <3>2
  <2>2. "RETRANS" \in flags
    BY <2>1, Proceeding
  <2> QED
    BY <2>2 DEF LastAsked, LastNamed
<1> QED
  BY <1>1, TypesAlways, LastAskedAlways, PTL DEF Spec, ServedNamesLastChunk

-----------------------------------------------------------------------------
(* A line that loses nothing *)

LEMMA Relations ==
  /\ BLOCKING_TIMES > 2 * Delay /\ MAXIMUM_WAIT_TIMES >= 2 * Delay + Gap
BY SerialTimingAssumption

\* The only frame of a queue, and the first that is put into an empty one.
LEMMA OnlyFrame ==
  ASSUME NEW S, NEW q \in Seq(S)
  PROVE  /\ Len(q) = 1 => q # <<>> /\ Head(q) = q[1] /\ Tail(q) = <<>>
         /\ \A e \in S : q = <<>> => /\ Len(Append(q, e)) = 1 /\ Append(q, e)[1] = e
<1>1. ASSUME Len(q) = 1 PROVE q # <<>> /\ Head(q) = q[1] /\ Tail(q) = <<>>
  <2>1. q # <<>>
    BY <1>1, EmptySeq
  <2>2. Head(q) = q[1] /\ Tail(q) \in Seq(S) /\ Len(Tail(q)) = 0
    BY <1>1, <2>1, HeadTailProperties
  <2> QED
    BY <2>1, <2>2, EmptySeq
<1>2. ASSUME NEW e \in S, q = <<>> PROVE Len(Append(q, e)) = 1 /\ Append(q, e)[1] = e
  BY <1>2
<1> QED
  BY <1>1, <1>2

\* Where nothing is lost, an action does the whole of what it does; and a pass that
\* finds no file overdue changes nothing that the stages speak of.
LEMMA Lossless ==
  ASSUME Types, lost' = 0
  PROVE  /\ HandleFileInfo => toClient' = Append(toClient, Written(Reply("FILEID")))
         /\ HandleTunkData /\ descriptor # Nil
              /\ ~(Head(toServer).tunks \subseteq descriptor.have)
              /\ descriptor.have \union Head(toServer).tunks = Tunks
              => toClient' = Append(toClient, Written(Reply("ACK")))
         /\ WriteTunk => \E k \in todo :
              /\ pc \in {"sending", "resending"} /\ k \in Tunks /\ \A j \in todo : k =< j
              /\ todo' = todo \ {k}
              /\ \/ todo' # {} /\ pc' = pc /\ due' = now + Gap
                 \/ /\ todo' = {} /\ due' = now + BLOCKING_TIMES
                    /\ pc' = IF pc = "sending" THEN "waitans" ELSE "waitack"
              /\ toServer' = Append(toServer, Written(Tunk(k)))
<1>1. ~MayLose
  BY Losing
<1> QED
  BY <1>1, HandlingFileInfo, HandlingTunkData, WritingTunk

\* What has been lost stays lost.
LEMMA LosesOnce == Types /\ [Next]_vars /\ lost' = 0 => lost = 0
<1> SUFFICES ASSUME Types, [Next]_vars, lost' = 0 PROVE lost = 0
  OBVIOUS
<1>1. ~MayLose
  BY Losing
<1>2. HandleFileInfo \/ HandleTunkData \/ ManagePass \/ WriteTunk => lost' = lost
  BY <1>1, HandlingFileInfo, HandlingTunkData, Managing, WritingTunk
<1>3. Proceed \/ TimeOut \/ ListenClient \/ Tick \/ UNCHANGED vars => lost' = lost
  BY DEF Proceed, TimeOut, ListenClient, Tick, vars
<1> QED
  BY <1>2, <1>3 DEF Next

\* What the stages speak of.
StageView == <<now, pc, todo, flags, due, toServer, toClient, descriptor, requests>>

LEMMA StagesIdle ==
  UNCHANGED StageView =>
    /\ requests' = requests /\ (Asking => Asking') /\ (Known => Known')
    /\ \A h : Flowing(h) => Flowing(h)'
    /\ (Answering => Answering') /\ (Finished => Finished')
<1> SUFFICES ASSUME UNCHANGED StageView
             PROVE  /\ requests' = requests /\ (Asking => Asking') /\ (Known => Known')
                    /\ \A h : Flowing(h) => Flowing(h)'
                    /\ (Answering => Answering') /\ (Finished => Finished')
  OBVIOUS
<1>1. /\ UNCHANGED <<now, pc, todo, flags, due, toServer, toClient, descriptor, requests>>
  BY DEF StageView
<1>2. (Asking => Asking') /\ (Known => Known')
  BY <1>1 DEF Asking, Known
<1>3. ASSUME NEW h, Flowing(h) PROVE Flowing(h)'
  <2>1. InTurn(h)'
    BY <1>1, <1>3 DEF Flowing, InTurn
  <2>2. InTime'
    BY <1>1, <1>3 DEF Flowing, InTime
  <2> QED
    BY <1>1, <1>3, <2>1, <2>2 DEF Flowing
<1>4. (Answering => Answering') /\ (Finished => Finished')
  BY <1>1 DEF Answering, Finished
<1> QED
  BY <1>1, <1>2, <1>3, <1>4

LEMMA PassIdle == Types /\ ManagePass /\ ~Overdue => UNCHANGED StageView
BY Managing DEF StageView

\* FILEINFO is on its way until it is handled.
LEMMA AskingStep ==
  ASSUME Types, Clock, Asking, [Next]_vars, lost' = 0
  PROVE  requests' = requests /\ Stages'
<1> USE Constants, Relations
<1>1. /\ now \in Nat /\ due \in Nat /\ toServer \in Seq(Orders) /\ toClient \in Seq(Replies)
      /\ pc = "waitid" /\ flags = {} /\ toClient = <<>> /\ descriptor = Nil
      /\ due = BLOCKING_TIMES /\ Len(toServer) = 1 /\ toServer[1].cmd = "FILEINFO"
      /\ now =< toServer[1].by /\ toServer[1].by =< Delay
  BY DEF Types, Asking
<1>2. toServer # <<>> /\ Head(toServer) = toServer[1] /\ Tail(toServer) = <<>>
  BY <1>1, OnlyFrame
<1>3. toServer[1].by \in Nat
  BY <1>1, <1>2, Queued DEF Orders
<1>4. ~Proceed /\ ~WriteTunk /\ ~ListenClient /\ ~HandleTunkData
  BY <1>1, <1>2 DEF Proceed, Awaited, WriteTunk, ListenClient, HandleTunkData
<1>5. ~TimeOut
  BY <1>1, <1>3 DEF TimeOut
<1>6. ASSUME HandleFileInfo PROVE requests' = requests /\ Known'
  <2>1. /\ UNCHANGED <<now, pc, due, flags, requests>> /\ toServer' = <<>>
        /\ descriptor' # Nil /\ descriptor'.have = {} /\ descriptor'.recv_time = now
        /\ toClient' = Append(toClient, Written(Reply("FILEID")))
    BY <1>2, <1>6, HandlingFileInfo, Lossless
  <2>2. /\ Written(Reply("FILEID")) \in Replies /\ Written(Reply("FILEID")).cmd = "FILEID"
        /\ Written(Reply("FILEID")).by = now + Delay
    BY <1>1, FramesWritten
  <2>3. Len(toClient') = 1 /\ toClient'[1] = Written(Reply("FILEID"))
    BY <1>1, <2>1, <2>2, OnlyFrame
  <2>4. now =< now + Delay /\ now =< Delay
    BY <1>1, <1>3
  <2>5. now + Delay =< now + Delay
    BY <1>1
  <2> QED
    BY <1>1, <2>1, <2>2, <2>3, <2>4, <2>5 DEF Known
<1>7. ASSUME ManagePass \/ UNCHANGED vars PROVE requests' = requests /\ Asking'
  <2>1. ~Overdue
    BY <1>1 DEF Overdue, Incomplete
  <2>2. UNCHANGED StageView
    BY <1>7, <2>1, PassIdle DEF vars, clientVars, serverVars, StageView
  <2> QED
    BY <2>2, StagesIdle
<1>8. ASSUME Tick PROVE requests' = requests /\ Asking'
  <2>1. /\ now' = now + 1 /\ now < toServer[1].by
        /\ UNCHANGED <<pc, flags, due, toServer, toClient, descriptor, requests>>
    BY <1>2, <1>8 DEF Tick, clientVars, serverVars
  <2>2. now' =< toServer'[1].by
    BY <1>1, <1>3, <2>1
  <2> QED
    BY <1>1, <2>1, <2>2 DEF Asking
<1> QED
  BY <1>4, <1>5, <1>6, <1>7, <1>8 DEF Next, Stages

\* FILEID is heard, and the first chunk follows.
LEMMA KnownStep ==
  ASSUME Types, Clock, Known, [Next]_vars, lost' = 0
  PROVE  requests' = requests /\ Stages'
<1> USE Constants, Relations
<1>1. /\ now \in Nat /\ due \in Nat /\ toServer \in Seq(Orders) /\ toClient \in Seq(Replies)
      /\ pc = "waitid" /\ due = BLOCKING_TIMES /\ toServer = <<>>
      /\ descriptor # Nil /\ descriptor.have = {} /\ descriptor.recv_time =< Delay
      /\ descriptor.recv_time \in Nat
  BY DEF Types, Known, Descriptors
<1>2. now =< descriptor.recv_time + Delay
  <2>1. CASE flags = {"FILEID"}
    BY <2>1 DEF Known
  <2>2. CASE flags = {}
    <3>1. /\ now =< toClient[1].by /\ toClient[1].by =< descriptor.recv_time + Delay
          /\ Len(toClient) = 1
      BY <2>2 DEF Known
    <3>2. toClient # <<>> /\ Head(toClient) = toClient[1]
      BY <1>1, <3>1, OnlyFrame
    <3>3. toClient[1].by \in Nat
      BY <3>2, Queued DEF Replies
    <3> QED
      BY <1>1, <3>1, <3>3
  <2> QED
    BY <2>1, <2>2 DEF Known
<1>3. ~WriteTunk /\ ~HandleFileInfo /\ ~HandleTunkData
  BY <1>1 DEF WriteTunk, HandleFileInfo, HandleTunkData
<1>4. ~TimeOut
  BY <1>1, <1>2 DEF TimeOut
<1>5. ASSUME ManagePass \/ UNCHANGED vars PROVE requests' = requests /\ Known'
  <2>1. ~Overdue
    BY <1>1, <1>2 DEF Overdue, Silence
  <2>2. UNCHANGED StageView
    BY <1>5, <2>1, PassIdle DEF vars, clientVars, serverVars, StageView
  <2> QED
    BY <2>2, StagesIdle
<1>6. ASSUME Proceed PROVE requests' = requests /\ Flowing(0)'
  <2>1. UNCHANGED <<now, flags, toServer, toClient, descriptor, requests>>
    BY <1>6 DEF Proceed, serverVars
  <2>2. "FILEID" \in flags /\ pc' = "sending" /\ todo' = Tunks /\ Tunks # {} /\ due' = now + Gap
    BY <1>1, <1>6, Proceeding
  <2>3. flags = {"FILEID"} /\ toClient = <<>>
    BY <2>2 DEF Known
  <2>4. Len(toServer') = 0 /\ toServer' = <<>> /\ 1..0 = {} /\ 0..(0 - 1) = {}
    BY <1>1, <2>1
  <2>5. InTurn(0)'
    <3>1. descriptor' # Nil /\ descriptor'.have = 0..(0 - 1)
      BY <1>1, <2>1, <2>4
    <3>2. todo' = (0 + 0)..(TunkSize - 1) /\ 0 + 0 =< TunkSize
      BY <2>2 DEF Tunks
    <3> QED
      BY <2>4, <3>1, <3>2 DEF InTurn
  <2>6. InTime'
    BY <2>4 DEF InTime
  <2>7. due' =< descriptor'.recv_time + Delay + Gap
    BY <1>1, <1>2, <2>1, <2>2
  <2> QED
    BY <2>1, <2>2, <2>3, <2>4, <2>5, <2>6, <2>7 DEF Flowing
<1>7. ASSUME ListenClient PROVE requests' = requests /\ Known'
  <2>1. /\ UNCHANGED <<now, pc, due, toServer, descriptor, requests>>
        /\ toClient # <<>> /\ toClient' = Tail(toClient)
        /\ flags' = flags \union {Head(toClient).cmd}
    BY <1>1, <1>7 DEF ListenClient, serverVars, Over
  <2>2. flags = {} /\ Len(toClient) = 1 /\ toClient[1].cmd = "FILEID"
    BY <2>1 DEF Known
  <2>3. Head(toClient) = toClient[1] /\ Tail(toClient) = <<>>
    BY <1>1, <2>2, OnlyFrame
  <2>4. flags' = {"FILEID"} /\ toClient' = <<>>
    BY <2>1, <2>2, <2>3
  <2> QED
    BY <1>1, <1>2, <2>1, <2>4 DEF Known
<1>8. ASSUME Tick PROVE requests' = requests /\ Known'
  <2>1. /\ now' = now + 1 /\ ~Awaited
        /\ \A queue \in {toServer, toClient} : queue # <<>> => now < Head(queue).by
        /\ UNCHANGED <<pc, due, flags, toServer, toClient, descriptor, requests>>
    BY <1>8 DEF Tick, clientVars, serverVars
  <2>2. /\ flags = {} /\ Len(toClient) = 1 /\ toClient[1].cmd = "FILEID"
        /\ toClient[1].by =< descriptor.recv_time + Delay
    BY <1>1, <2>1 DEF Known, Awaited
  <2>3. toClient # <<>> /\ Head(toClient) = toClient[1]
    BY <1>1, <2>2, OnlyFrame
  <2>4. toClient[1].by \in Nat /\ now < toClient[1].by
    BY <2>1, <2>3, Queued DEF Replies
  <2>5. now' =< toClient'[1].by
    BY <1>1, <2>1, <2>4
  <2> QED
    BY <1>1, <2>1, <2>2, <2>5 DEF Known
<1> QED
  BY <1>3, <1>4, <1>5, <1>6, <1>7, <1>8 DEF Next, Stages

\* The ACK is heard before the wait for it ends.
LEMMA AnsweringStep ==
  ASSUME Types, Clock, Answering \/ Finished, [Next]_vars, lost' = 0
  PROVE  requests' = requests /\ Stages'
<1> USE Constants, Relations
<1>1. /\ now \in Nat /\ due \in Nat /\ toClient \in Seq(Replies) /\ toServer = <<>>
      /\ pc \in {"waitans", "ok"}
      /\ descriptor # Nil /\ descriptor.have = Tunks
  BY DEF Types, Answering, Finished
<1>2. ~WriteTunk /\ ~HandleFileInfo /\ ~HandleTunkData
  BY <1>1 DEF WriteTunk, HandleFileInfo, HandleTunkData
<1>3. ASSUME ManagePass \/ UNCHANGED vars PROVE requests' = requests /\ Stages'
  <2>1. ~Overdue
    BY <1>1 DEF Overdue, Incomplete
  <2>2. UNCHANGED StageView
    BY <1>3, <2>1, PassIdle DEF vars, clientVars, serverVars, StageView
  <2> QED
    BY <2>2, StagesIdle DEF Stages
<1>4. CASE Finished
  <2>1. ~Proceed /\ ~TimeOut /\ ~ListenClient
    BY <1>4 DEF Finished, Proceed, Awaited, TimeOut, Waiting, ListenClient
  <2>2. ASSUME Tick PROVE requests' = requests /\ Finished'
    BY <1>4, <2>2 DEF Tick, clientVars, serverVars, Finished
  <2> QED
    BY <1>2, <1>3, <2>1, <2>2 DEF Next, Stages
<1>5. CASE Answering /\ flags = {"FILEID", "ACK"}
  <2>1. toClient = <<>> /\ pc = "waitans" /\ Awaited
    BY <1>5 DEF Answering, Awaited
  <2>2. ~TimeOut /\ ~ListenClient /\ ~Tick
    BY <2>1 DEF TimeOut, ListenClient, Tick
  <2>3. ASSUME Proceed PROVE requests' = requests /\ Finished'
    <3>1. UNCHANGED <<toServer, toClient, descriptor, requests>> /\ pc' = "ok"
      BY <1>5, <2>1, <2>3, Proceeding DEF Proceed, serverVars
    <3> QED
      BY <1>1, <2>1, <3>1 DEF Finished
  <2> QED
    BY <1>2, <1>3, <2>2, <2>3 DEF Next, Stages
<1>6. CASE Answering /\ flags # {"FILEID", "ACK"}
  <2>1. /\ pc = "waitans" /\ flags = {"FILEID"} /\ Len(toClient) = 1 /\ toClient[1].cmd = "ACK"
        /\ now =< toClient[1].by /\ toClient[1].by + BLOCKING_TIMES =< due + 2 * Delay
    BY <1>6 DEF Answering
  <2>2. toClient # <<>> /\ Head(toClient) = toClient[1] /\ Tail(toClient) = <<>>
    BY <1>1, <2>1, OnlyFrame
  <2>3. toClient[1].by \in Nat
    BY <2>2, Queued DEF Replies
  <2>4. ~Proceed
    BY <2>1 DEF Proceed, Awaited
  <2>5. ~TimeOut
    BY <1>1, <2>1, <2>3 DEF TimeOut
  <2>6. ASSUME ListenClient PROVE requests' = requests /\ Answering'
    <3>1. /\ UNCHANGED <<pc, toServer, descriptor, requests>>
          /\ toClient' = <<>> /\ flags' = {"FILEID", "ACK"}
      BY <2>1, <2>2, <2>6 DEF ListenClient, serverVars, Over
    <3> QED
      BY <1>1, <2>1, <3>1 DEF Answering
  <2>7. ASSUME Tick PROVE requests' = requests /\ Answering'
    <3>1. /\ now' = now + 1 /\ now < toClient[1].by
          /\ UNCHANGED <<pc, due, flags, toServer, toClient, descriptor, requests>>
      BY <2>2, <2>7 DEF Tick, clientVars, serverVars
    <3>2. now' =< toClient'[1].by
      BY <1>1, <2>3, <3>1
    <3> QED
      BY <1>1, <2>1, <3>1, <3>2 DEF Answering
  <2> QED
    BY <1>2, <1>3, <2>4, <2>5, <2>6, <2>7 DEF Next, Stages
<1> QED
  BY <1>4, <1>5, <1>6

\* The chunks on the line.
LEMMA FlowingLine ==
  ASSUME Types, Clock, NEW h \in 0..TunkSize, Flowing(h)
  PROVE  /\ now \in Nat /\ due \in Nat /\ toServer \in Seq(Orders) /\ toClient \in Seq(Replies)
         /\ Len(toServer) \in Nat /\ h \in Nat
         /\ pc \in {"sending", "waitans"} /\ flags = {"FILEID"} /\ toClient = <<>>
         /\ descriptor # Nil /\ descriptor.recv_time \in Nat /\ descriptor.recv_time =< now
         /\ now =< due
         /\ \A i \in 1..Len(toServer) : toServer[i].by \in Nat
         /\ now - descriptor.recv_time =< 2 * Delay + Gap
<1> USE Constants, Relations
<1>1. /\ now \in Nat /\ due \in Nat /\ toServer \in Seq(Orders) /\ toClient \in Seq(Replies)
      /\ pc \in {"sending", "waitans"} /\ flags = {"FILEID"} /\ toClient = <<>>
      /\ descriptor # Nil /\ descriptor.recv_time \in Nat /\ descriptor.recv_time =< now
  BY DEF Types, Flowing, InTurn, Descriptors, Clock
<1>2. Len(toServer) \in Nat /\ h \in Nat /\ now =< due
  BY <1>1, LenProperties DEF Clock, Over
<1>3. \A i \in 1..Len(toServer) : toServer[i].by \in Nat
  <2>1. \A i \in 1..Len(toServer) : toServer[i] \in Orders
    BY <1>1, ElementOfSeq
  <2> QED
    BY <2>1 DEF Orders
<1>4. now - descriptor.recv_time =< 2 * Delay + Gap
  <2>1. CASE toServer = <<>>
    <3>1. due =< descriptor.recv_time + Delay + Gap
      BY <2>1 DEF Flowing
    <3> QED
      BY <1>1, <1>2, <3>1
  <2>2. CASE toServer # <<>>
    <3>1. 1 \in 1..Len(toServer)
      BY <1>1, <1>2, <2>2, EmptySeq
    <3>2. now =< toServer[1].by /\ toServer[1].by =< descriptor.recv_time + 2 * Delay + Gap
      BY <2>2, <3>1 DEF Flowing, InTime
    <3>3. toServer[1].by \in Nat
      BY <1>3, <3>1
    <3> QED
      BY <1>1, <3>2, <3>3
  <2> QED
    BY <2>1, <2>2
<1> QED
  BY <1>1, <1>2, <1>3, <1>4

\* The next chunk is written behind the others.
LEMMA FlowingWrite ==
  ASSUME Types, Clock, NEW h \in 0..TunkSize, Flowing(h), WriteTunk, lost' = 0
  PROVE  requests' = requests /\ Flowing(h)'
<1> USE Constants, Relations
<1> DEFINE n == Len(toServer)
<1>1. /\ UNCHANGED <<now, flags, toClient, descriptor, requests>>
  BY DEF WriteTunk, serverVars
<1>2. /\ now \in Nat /\ due \in Nat /\ toServer \in Seq(Orders) /\ n \in Nat /\ h \in Nat
      /\ flags = {"FILEID"} /\ toClient = <<>> /\ now =< due
      /\ descriptor # Nil /\ descriptor.recv_time \in Nat
      /\ \A i \in 1..n : toServer[i].by \in Nat
  BY FlowingLine
<1>3. PICK k \in todo :
        /\ k \in Tunks /\ \A j \in todo : k =< j
        /\ todo' = todo \ {k}
        /\ \/ todo' # {} /\ pc' = pc /\ due' = now + Gap
           \/ /\ todo' = {} /\ due' = now + BLOCKING_TIMES
              /\ pc' = IF pc = "sending" THEN "waitans" ELSE "waitack"
        /\ toServer' = Append(toServer, Written(Tunk(k)))
  BY Lossless
<1>4. pc = "sending"
  BY DEF Flowing, WriteTunk
<1>5. /\ todo = (h + n)..(TunkSize - 1) /\ h + n =< TunkSize
      /\ descriptor.have = 0..(h - 1)
      /\ \A i \in 1..n : toServer[i].cmd = "TUNKDATA" /\ toServer[i].tunks = {h + i - 1}
  BY DEF Flowing, InTurn
<1>6. k = h + n /\ h + n + 1 =< TunkSize /\ todo' = (h + n + 1)..(TunkSize - 1)
  <2>1. k \in (h + n)..(TunkSize - 1) /\ h + n \in todo
    BY <1>2, <1>3, <1>5
  <2>2. k = h + n
    <3>1. k =< h + n
      BY <1>3, <2>1
    <3>2. k \in Int /\ h + n \in Int /\ h + n =< k
      BY <1>2, <2>1
    <3> QED
      BY <3>1, <3>2
  <2>3. h + n + 1 =< TunkSize
    BY <1>2, <2>1
  <2>4. ((h + n)..(TunkSize - 1)) \ {h + n} = (h + n + 1)..(TunkSize - 1)
    BY <1>2
  <2> QED
    BY <1>3, <1>5, <2>2, <2>3, <2>4
<1>7. /\ Written(Tunk(k)) \in Orders /\ Written(Tunk(k)).cmd = "TUNKDATA"
      /\ Written(Tunk(k)).tunks = {k} /\ Written(Tunk(k)).by = now + Delay
  BY <1>2, <1>3, FramesWritten
<1>8. /\ Len(toServer') = n + 1
      /\ \A i \in 1..n : toServer'[i] = toServer[i]
      /\ toServer'[n + 1] = Written(Tunk(k))
      /\ toServer' # <<>>
  <2>1. Len(toServer') = n + 1 /\ toServer' \in Seq(Orders)
    BY <1>2, <1>3, <1>7, AppendProperties
  <2>2. toServer' # <<>>
    BY <1>2, <2>1, EmptySeq
  <2> QED
    BY <1>2, <1>3, <1>7, <2>1, <2>2, AppendProperties
<1> DEFINE q == toServer'
<1>9. /\ q[n + 1].cmd = "TUNKDATA" /\ q[n + 1].tunks = {h + n} /\ q[n + 1].by = now + Delay
      /\ \A i \in 1..n : q[i].by = toServer[i].by
  BY <1>6, <1>7, <1>8
<1>10. /\ \A i \in 1..n : now =< toServer[i].by /\ toServer[i].by =< now + Delay
       /\ \A i, j \in 1..n : i =< j => toServer[i].by =< toServer[j].by
       /\ \A i, j \in 1..n : j = i + 1 => toServer[j].by =< toServer[i].by + Gap
       /\ toServer # <<>> => toServer[1].by =< descriptor.recv_time + 2 * Delay + Gap
  BY DEF Flowing, InTime
<1>11. IF toServer = <<>> THEN due =< descriptor.recv_time + Delay + Gap
       ELSE due + Delay =< toServer[n].by + Gap
  BY <1>4 DEF Flowing
<1>12. n # 0 <=> toServer # <<>>
  BY <1>2, EmptySeq
<1> HIDE DEF q, n
<1>13. \A i \in 1..(n + 1) : i \in 1..n \/ i = n + 1
  BY <1>2
<1>14. InTurn(h)'
  <2>1. ASSUME NEW i \in 1..(n + 1) PROVE q[i].cmd = "TUNKDATA" /\ q[i].tunks = {h + i - 1}
    <3>1. CASE i \in 1..n
      BY <1>5, <1>8, <3>1 DEF q
    <3>2. CASE i = n + 1
      <4>1. h + i - 1 = h + n
        BY <1>2, <3>2
      <4> QED
        BY <1>9, <3>2, <4>1
    <3> QED
      BY <1>13, <3>1, <3>2
  <2>2. todo' = (h + Len(q))..(TunkSize - 1) /\ h + Len(q) =< TunkSize
    <3>1. Len(q) = n + 1 /\ h + Len(q) = h + n + 1
      BY <1>2, <1>8 DEF q
    <3> QED
      BY <1>6, <3>1
  <2> QED
    BY <1>1, <1>2, <1>5, <1>8, <2>1, <2>2 DEF InTurn, q
<1>15. InTime'
  <2>1. now + Delay \in Nat /\ now =< now + Delay /\ now + Delay =< now + Delay
    BY <1>2
  <2>2. \A i \in 1..(n + 1) : q[i].by \in Nat /\ now =< q[i].by /\ q[i].by =< now + Delay
    BY <1>2, <1>9, <1>10, <1>13, <2>1
  <2>3. ASSUME NEW i \in 1..(n + 1), NEW j \in 1..(n + 1), i =< j PROVE q[i].by =< q[j].by
    <3>1. CASE j = n + 1
      BY <1>9, <2>2, <3>1
    <3>2. CASE j \in 1..n
      <4>1. i \in 1..n
        BY <1>2, <2>3, <3>2
      <4> QED
        BY <1>9, <1>10, <2>3, <3>2, <4>1
    <3> QED
      BY <1>13, <3>1, <3>2
  <2>4. ASSUME NEW i \in 1..(n + 1), NEW j \in 1..(n + 1), j = i + 1
        PROVE  q[j].by =< q[i].by + Gap
    <3>1. i \in 1..n
      BY <1>2, <2>4
    <3>2. CASE j = n + 1
      <4>1. i = n /\ toServer # <<>>
        BY <1>2, <1>12, <2>4, <3>1, <3>2
      <4>2. due + Delay =< toServer[n].by + Gap /\ q[i].by = toServer[n].by /\ q[j].by = now + Delay
        BY <1>9, <1>11, <3>1, <3>2, <4>1
      <4>3. toServer[n].by \in Nat
        BY <1>2, <3>1, <4>1
      <4> QED
        BY <1>2, <4>2, <4>3
    <3>3. CASE j \in 1..n
      BY <1>9, <1>10, <2>4, <3>1, <3>3
    <3> QED
      BY <1>13, <3>2, <3>3
  <2>5. q[1].by =< descriptor.recv_time + 2 * Delay + Gap
    <3>1. CASE toServer = <<>>
      <4>1. q[1].by = now + Delay /\ due =< descriptor.recv_time + Delay + Gap
        BY <1>9, <1>11, <1>12, <3>1
      <4> QED
        BY <1>2, <4>1
    <3>2. CASE toServer # <<>>
      <4>1. 1 \in 1..n
        BY <1>2, <1>12, <3>2
      <4> QED
        BY <1>9, <1>10, <3>2, <4>1
    <3> QED
      BY <3>1, <3>2
  <2>6. Len(q) = n + 1
    BY <1>8 DEF q
  <2>7. /\ \A i \in 1..Len(q) : now' =< q[i].by /\ q[i].by =< now' + Delay
        /\ \A i, j \in 1..Len(q) : i =< j => q[i].by =< q[j].by
        /\ \A i, j \in 1..Len(q) : j = i + 1 => q[j].by =< q[i].by + Gap
        /\ q # <<>> => q[1].by =< descriptor'.recv_time + 2 * Delay + Gap
    BY <1>1, <2>2, <2>3, <2>4, <2>5, <2>6
  <2> QED
    BY <2>7 DEF InTime, q
<1>16. q[Len(q)].by = now + Delay
  BY <1>8, <1>9 DEF q
<1>17. \/ /\ pc' = "sending" /\ todo' # {} /\ due' + Delay =< q[Len(q)].by + Gap
       \/ /\ pc' = "waitans" /\ todo' = {} /\ due' + Delay = q[Len(q)].by + BLOCKING_TIMES
  <2>1. CASE todo' # {}
    <3>1. pc' = "sending" /\ due' = now + Gap
      BY <1>3, <1>4, <2>1
    <3>2. due' + Delay =< (now + Delay) + Gap
      BY <1>2, <3>1
    <3> QED
      BY <1>16, <2>1, <3>1, <3>2
  <2>2. CASE todo' = {}
    <3>1. pc' = "waitans" /\ due' = now + BLOCKING_TIMES
      BY <1>3, <1>4, <2>2
    <3>2. due' + Delay = (now + Delay) + BLOCKING_TIMES
      BY <1>2, <3>1
    <3> QED
      BY <1>16, <2>2, <3>1, <3>2
  <2> QED
    BY <2>1, <2>2
<1> QED
  BY <1>1, <1>2, <1>8, <1>14, <1>15, <1>17 DEF Flowing, q

\* The first chunk on the line is handled.
LEMMA FlowingHandle ==
  ASSUME Types, Clock, NEW h \in 0..TunkSize, Flowing(h), HandleTunkData, lost' = 0
  PROVE  requests' = requests /\ Stages'
<1> USE Constants, Relations
<1> DEFINE n == Len(toServer)
           q == toServer'
<1>1. /\ now \in Nat /\ due \in Nat /\ toServer \in Seq(Orders) /\ toClient \in Seq(Replies)
      /\ n \in Nat /\ h \in Nat
      /\ pc \in {"sending", "waitans"} /\ flags = {"FILEID"} /\ toClient = <<>>
      /\ descriptor # Nil /\ descriptor.recv_time \in Nat
      /\ \A i \in 1..n : toServer[i].by \in Nat
  BY FlowingLine
<1>2. /\ toServer # <<>> /\ q = Tail(toServer)
      /\ UNCHANGED <<now, pc, todo, flags, due, requests>>
  BY HandlingTunkData
<1>3. /\ n > 0 /\ Head(toServer) = toServer[1] /\ 1 \in 1..n /\ n \in 1..n
      /\ q \in Seq(Orders) /\ Len(q) = n - 1 /\ \A i \in 1..(n - 1) : q[i] = toServer[i + 1]
      /\ \A i \in 1..(n - 1) : i + 1 \in 1..n
  <2>1. n > 0
    BY <1>1, <1>2, EmptySeq
  <2>2. /\ Head(toServer) = toServer[1] /\ q \in Seq(Orders) /\ Len(q) = n - 1
        /\ \A i \in 1..(n - 1) : q[i] = toServer[i + 1]
    BY <1>1, <1>2, HeadTailProperties
  <2>3. 1 \in 1..n /\ n \in 1..n /\ \A i \in 1..(n - 1) : i + 1 \in 1..n
    BY <1>1, <2>1
  <2> QED
    BY <2>1, <2>2, <2>3
<1>4. /\ descriptor.have = 0..(h - 1)
      /\ \A i \in 1..n : toServer[i].cmd = "TUNKDATA" /\ toServer[i].tunks = {h + i - 1}
      /\ h + n =< TunkSize /\ todo = (h + n)..(TunkSize - 1)
  BY DEF Flowing, InTurn
<1>5. /\ \A i \in 1..n : now =< toServer[i].by /\ toServer[i].by =< now + Delay
      /\ \A i, j \in 1..n : i =< j => toServer[i].by =< toServer[j].by
      /\ \A i, j \in 1..n : j = i + 1 => toServer[j].by =< toServer[i].by + Gap
  BY DEF Flowing, InTime
<1>6. \/ pc = "sending" /\ todo # {} /\ due + Delay =< toServer[n].by + Gap
      \/ pc = "waitans" /\ todo = {} /\ due + Delay = toServer[n].by + BLOCKING_TIMES
  BY <1>2 DEF Flowing
<1>7. /\ Head(toServer).tunks = {h}
      /\ descriptor.have \union Head(toServer).tunks = 0..h
      /\ ~(Head(toServer).tunks \subseteq descriptor.have)
  <2>1. h + 1 - 1 = h
    BY <1>1
  <2>2. Head(toServer).tunks = {h}
    BY <1>3, <1>4, <2>1
  <2>3. (0..(h - 1)) \union {h} = 0..h /\ h \notin 0..(h - 1)
    BY <1>1
  <2> QED
    BY <1>4, <2>2, <2>3
<1>8. /\ descriptor' # Nil /\ descriptor'.have = 0..h /\ descriptor'.recv_time = now
      /\ \/ descriptor'.have # Tunks /\ UNCHANGED toClient
         \/ /\ descriptor'.have = Tunks
            /\ toClient' = Append(toClient, Written(Reply("ACK")))
  <2>1. /\ descriptor' # Nil /\ descriptor'.have = descriptor.have \union Head(toServer).tunks
        /\ descriptor'.recv_time = now
        /\ descriptor'.have # Tunks => UNCHANGED toClient
    BY <1>1, <1>7, HandlingTunkData
  <2>2. descriptor'.have = Tunks => toClient' = Append(toClient, Written(Reply("ACK")))
    BY <1>1, <1>7, <2>1, Lossless
  <2> QED
    BY <1>7, <2>1, <2>2
<1> HIDE DEF n, q
<1>9. CASE descriptor'.have = Tunks
  <2>1. h + 1 = TunkSize
    <3>1. TunkSize - 1 \in 0..h
      BY <1>8, <1>9, LastIsTunk DEF LastTunk
    <3> QED
      BY <1>1, <1>3, <1>4, <3>1
  <2>2. n = 1 /\ todo = {}
    <3>1. n = 1
      BY <1>1, <1>3, <1>4, <2>1
    <3>2. (h + n)..(TunkSize - 1) = {}
      BY <1>1, <2>1, <3>1
    <3> QED
      BY <1>4, <3>1, <3>2
  <2>3. pc = "waitans" /\ due + Delay = toServer[1].by + BLOCKING_TIMES
    BY <1>6, <2>2
  <2>4. toServer' = <<>>
    BY <1>3, <2>2, EmptySeq DEF q
  <2>5. /\ Written(Reply("ACK")) \in Replies /\ Written(Reply("ACK")).cmd = "ACK"
        /\ Written(Reply("ACK")).by = now + Delay
    BY <1>1, FramesWritten
  <2>6. Len(toClient') = 1 /\ toClient'[1] = Written(Reply("ACK"))
    <3>1. toClient' = Append(toClient, Written(Reply("ACK")))
      BY <1>8, <1>9
    <3> QED
      BY <1>1, <2>5, <3>1, OnlyFrame
  <2>7. now =< now + Delay /\ (now + Delay) + BLOCKING_TIMES =< due + 2 * Delay
    <3>1. now =< toServer[1].by /\ toServer[1].by \in Nat
      BY <1>1, <1>3, <1>5 DEF n
    <3>2. due + Delay = toServer[1].by + BLOCKING_TIMES
      BY <2>3
    <3>3. now \in Nat /\ due \in Nat
      BY <1>1
    <3> QED
      BY <3>1, <3>2, <3>3
  <2>8. Answering'
    BY <1>1, <1>2, <1>8, <1>9, <2>3, <2>4, <2>5, <2>6, <2>7 DEF Answering
  <2> QED
    BY <1>2, <2>8 DEF Stages
<1>10. CASE descriptor'.have # Tunks
  <2>1. h + 1 < TunkSize
    <3>1. h + 1 =< TunkSize
      BY <1>1, <1>3, <1>4
    <3>2. h + 1 = TunkSize => 0..h = Tunks
      BY <1>1 DEF Tunks
    <3>3. h + 1 # TunkSize
      BY <1>8, <1>10, <3>2
    <3> QED
      BY <1>1, <3>1, <3>3
  <2>2. InTurn(h + 1)'
    <3>1. descriptor'.have = 0..((h + 1) - 1)
      <4>1. (h + 1) - 1 = h
        BY <1>1
      <4> QED
        BY <1>8, <4>1
    <3>2. ASSUME NEW i \in 1..(n - 1)
          PROVE  q[i].cmd = "TUNKDATA" /\ q[i].tunks = {(h + 1) + i - 1}
      <4>1. (h + 1) + i - 1 = h + (i + 1) - 1
        BY <1>1
      <4>2. q[i] = toServer[i + 1] /\ i + 1 \in 1..n
        BY <1>3
      <4>3. toServer[i + 1].cmd = "TUNKDATA" /\ toServer[i + 1].tunks = {h + (i + 1) - 1}
        BY <1>4, <4>2
      <4> QED
        BY <4>1, <4>2, <4>3
    <3>3. (h + 1) + (n - 1) = h + n
      BY <1>1
    <3> QED
      BY <1>2, <1>3, <1>4, <1>8, <3>1, <3>2, <3>3 DEF InTurn, q
  <2>3. InTime'
    <3>1. ASSUME NEW i \in 1..(n - 1) PROVE now =< q[i].by /\ q[i].by =< now + Delay
      BY <1>3, <1>5
    <3>2. ASSUME NEW i \in 1..(n - 1), NEW j \in 1..(n - 1), i =< j PROVE q[i].by =< q[j].by
      <4>1. i + 1 =< j + 1
        BY <3>2
      <4> QED
        BY <1>3, <1>5, <4>1
    <3>3. ASSUME NEW i \in 1..(n - 1), NEW j \in 1..(n - 1), j = i + 1
          PROVE  q[j].by =< q[i].by + Gap
      <4>1. j + 1 = (i + 1) + 1
        BY <3>3
      <4> QED
        BY <1>3, <1>5, <4>1
    <3>4. ASSUME q # <<>> PROVE q[1].by =< now + 2 * Delay + Gap
      <4>1. 1 \in 1..(n - 1) /\ 1 + 1 \in 1..n
        BY <1>1, <1>3, <3>4, EmptySeq
      <4>2. q[1].by =< toServer[1].by + Gap /\ toServer[1].by =< now + Delay
        BY <1>3, <1>5, <4>1
      <4>3. q[1].by \in Nat /\ toServer[1].by \in Nat
        BY <1>1, <1>3, <4>1 DEF n
      <4> QED
        BY <1>1, <4>2, <4>3
    <3>5. /\ \A i \in 1..Len(q) : now' =< q[i].by /\ q[i].by =< now' + Delay
          /\ \A i, j \in 1..Len(q) : i =< j => q[i].by =< q[j].by
          /\ \A i, j \in 1..Len(q) : j = i + 1 => q[j].by =< q[i].by + Gap
          /\ q # <<>> => q[1].by =< descriptor'.recv_time + 2 * Delay + Gap
      BY <1>2, <1>3, <1>8, <3>1, <3>2, <3>3, <3>4
    <3> QED
      BY <3>5 DEF InTime, q
  <2>4. ASSUME q # <<>> PROVE q[Len(q)].by = toServer[n].by
    <3>1. n - 1 \in 1..(n - 1) /\ (n - 1) + 1 = n
      BY <1>1, <1>3, <2>4, EmptySeq
    <3> QED
      BY <1>3, <3>1
  <2>5. CASE pc = "sending"
    <3>1. todo # {} /\ due + Delay =< toServer[n].by + Gap
      BY <1>6, <2>5
    <3>2. IF q = <<>> THEN due =< now + Delay + Gap ELSE due + Delay =< q[Len(q)].by + Gap
      <4>1. CASE q = <<>>
        <5>1. toServer[n].by \in Nat /\ toServer[n].by =< now + Delay
          BY <1>1, <1>3, <1>5 DEF n
        <5>2. due =< now + Gap
          BY <1>1, <3>1, <5>1
        <5>3. due =< now + Delay + Gap
          BY <1>1, <5>2
        <5> QED
          BY <4>1, <5>3
      <4>2. CASE q # <<>>
        BY <2>4, <3>1, <4>2
      <4> QED
        BY <4>1, <4>2
    <3>3. Flowing(h + 1)'
      BY <1>1, <1>2, <1>8, <1>10, <2>2, <2>3, <2>5, <3>1, <3>2 DEF Flowing, q
    <3> QED
      BY <1>1, <1>2, <2>1, <3>3 DEF Stages
  <2>6. CASE pc = "waitans"
    <3>1. todo = {} /\ due + Delay = toServer[n].by + BLOCKING_TIMES
      BY <1>6, <2>6
    <3>2. q # <<>>
      <4>1. n # 1
        <5>1. TunkSize - 1 \notin (h + n)..(TunkSize - 1)
          BY <1>4, <3>1
        <5> QED
          BY <1>1, <2>1, <5>1
      <4> QED
        BY <1>1, <1>3, <4>1
    <3>3. due + Delay = q[Len(q)].by + BLOCKING_TIMES
      BY <2>4, <3>1, <3>2
    <3>4. Flowing(h + 1)'
      BY <1>1, <1>2, <1>8, <1>10, <2>2, <2>3, <2>6, <3>1, <3>2, <3>3 DEF Flowing, q
    <3> QED
      BY <1>1, <1>2, <2>1, <3>4 DEF Stages
  <2> QED
    BY <1>1, <2>5, <2>6
<1> QED
  BY <1>9, <1>10

\* While chunks flow no wait ends and no file is overdue.
LEMMA FlowingStep ==
  ASSUME Types, Clock, NEW h \in 0..TunkSize, Flowing(h), [Next]_vars, lost' = 0
  PROVE  requests' = requests /\ Stages'
<1> USE Constants, Relations
<1> DEFINE n == Len(toServer)
<1>1. /\ now \in Nat /\ due \in Nat /\ toServer \in Seq(Orders) /\ n \in Nat
      /\ pc \in {"sending", "waitans"} /\ flags = {"FILEID"} /\ toClient = <<>>
      /\ descriptor.recv_time \in Nat
      /\ \A i \in 1..n : toServer[i].by \in Nat
      /\ now - descriptor.recv_time =< 2 * Delay + Gap
  BY FlowingLine
<1>2. toServer # <<>> => /\ 1 \in 1..n /\ n \in 1..n /\ Head(toServer) = toServer[1]
                         /\ Head(toServer).cmd = "TUNKDATA"
  <2>1. toServer # <<>> => 1 \in 1..n /\ n \in 1..n /\ Head(toServer) = toServer[1]
    BY <1>1, EmptySeq, HeadTailProperties
  <2> QED
    BY <2>1 DEF Flowing, InTurn
<1>3. ~Proceed /\ ~ListenClient
  BY <1>1 DEF Proceed, Awaited, ListenClient
<1>4. ~HandleFileInfo
  BY <1>2 DEF HandleFileInfo
<1>5. ~TimeOut
  <2>1. SUFFICES ASSUME TimeOut PROVE FALSE
    OBVIOUS
  <2>2. pc = "waitans" /\ now = due
    BY <1>1, <2>1 DEF TimeOut, Waiting
  <2>3. toServer # <<>> /\ due + Delay = toServer[n].by + BLOCKING_TIMES
    BY <2>2 DEF Flowing
  <2>4. now =< toServer[n].by /\ toServer[n].by \in Nat
    BY <1>1, <1>2, <2>3 DEF Flowing, InTime
  <2> QED
    BY <1>1, <2>2, <2>3, <2>4
<1>6. ASSUME ManagePass \/ UNCHANGED vars PROVE requests' = requests /\ Flowing(h)'
  <2>1. ~Overdue
    BY <1>1 DEF Overdue, Silence
  <2>2. UNCHANGED StageView
    BY <1>6, <2>1, PassIdle DEF vars, clientVars, serverVars, StageView
  <2> QED
    BY <2>2, StagesIdle
<1>7. ASSUME Tick PROVE requests' = requests /\ Flowing(h)'
  <2>1. /\ now' = now + 1
        /\ \A queue \in {toServer, toClient} : queue # <<>> => now < Head(queue).by
        /\ UNCHANGED <<pc, todo, due, flags, toServer, toClient, descriptor, requests>>
    BY <1>7 DEF Tick, clientVars, serverVars
  <2>2. InTurn(h)'
    BY <2>1 DEF Flowing, InTurn
  <2>3. ASSUME NEW i \in 1..n PROVE now + 1 =< toServer[i].by /\ toServer[i].by =< (now + 1) + Delay
    <3>1. toServer # <<>> /\ 1 =< i
      BY <1>1
    <3>2. now < toServer[1].by /\ 1 \in 1..n
      BY <1>2, <2>1, <3>1
    <3>3. toServer[1].by =< toServer[i].by /\ toServer[i].by =< now + Delay
      BY <3>1, <3>2 DEF Flowing, InTime
    <3>4. toServer[1].by \in Nat /\ toServer[i].by \in Nat
      BY <1>1, <3>2
    <3> QED
      BY <1>1, <3>2, <3>3, <3>4
  <2>4. InTime'
    <3>1. \A i \in 1..Len(toServer') : now' =< toServer'[i].by /\ toServer'[i].by =< now' + Delay
      BY <2>1, <2>3
    <3>2. /\ \A i, j \in 1..Len(toServer) : i =< j => toServer[i].by =< toServer[j].by
          /\ \A i, j \in 1..Len(toServer) : j = i + 1 => toServer[j].by =< toServer[i].by + Gap
          /\ toServer # <<>> => toServer[1].by =< descriptor.recv_time + 2 * Delay + Gap
      BY DEF Flowing, InTime
    <3> QED
      BY <2>1, <3>1, <3>2 DEF InTime
  <2> QED
    BY <2>1, <2>2, <2>4 DEF Flowing
<1> QED
  BY <1>3, <1>4, <1>5, <1>6, <1>7, FlowingWrite, FlowingHandle DEF Next, Stages

LEMMA SmoothKept == Types /\ Clock /\ Smooth /\ [Next]_vars => Smooth'
<1> SUFFICES ASSUME Types, Clock, Smooth, [Next]_vars, lost' = 0
             PROVE  requests' = <<>> /\ Stages'
  BY DEF Smooth
<1>1. requests = <<>> /\ Stages
  BY LosesOnce DEF Smooth
<1>2. CASE Asking
  BY <1>1, <1>2, AskingStep
<1>3. CASE Known
  BY <1>1, <1>3, KnownStep
<1>4. CASE \E h \in 0..TunkSize : Flowing(h)
  BY <1>1, <1>4, FlowingStep
<1>5. CASE Answering \/ Finished
  BY <1>1, <1>5, AnsweringStep
<1> QED
  BY <1>1, <1>2, <1>3, <1>4, <1>5 DEF Stages

LEMMA SmoothStart == Init => Smooth
<1> SUFFICES ASSUME Init, lost = 0 PROVE requests = <<>> /\ Asking
  BY DEF Smooth, Stages
<1> DEFINE f == [Info EXCEPT !.by = Delay]
<1>1. toServer = <<f>>
  BY DEF Init
<1>2. f.cmd = "FILEINFO" /\ f.by = Delay
  BY DEF Info
<1> HIDE DEF f
<1>3. Len(toServer) = 1 /\ toServer[1] = f
  BY <1>1
<1> QED
  BY <1>2, <1>3, Constants DEF Init, Asking

\* A line that loses nothing never makes a transfer fail, and nothing is asked for
\* again: each wait of transfer() is longer than what it waits for takes, and no
\* file grows older than MAXIMUM_WAIT_TIMES while its chunks come.
THEOREM LossAlone == Spec => []OnlyLossFails
<1>1. Types /\ Smooth => OnlyLossFails
  <2> SUFFICES ASSUME Types, Smooth, lost = 0 PROVE pc # "failed" /\ requests = <<>>
    BY Constants DEF OnlyLossFails, Types
  <2>1. requests = <<>> /\ Stages
    BY DEF Smooth
  <2>2. pc # "failed"
    BY <2>1 DEF Stages, Asking, Known, Flowing, Answering, Finished
  <2> QED
    BY <2>1, <2>2
<1> QED
  BY <1>1, TypesAlways, SmoothStart, SmoothKept, PTL DEF Spec
=============================================================================
