------------------------ MODULE SerialDeliveryProofs ------------------------
(***************************************************************************)
(* Proofs about SerialTransfer for any number of calls, chunks, ids,       *)
(* readers and faults: what transfer() reports, what receive() writes and  *)
(* what is asked for again is right, and every step is one of FileDelivery.*)
(***************************************************************************)
EXTENDS SerialTransferProofs

-----------------------------------------------------------------------------
(* The inductive invariant.  While no id is used again, the calls that have *)
(* begun have taken the ids from 0 on in turn, and every frame, descriptor  *)
(* and queue entry with an id is about the call that took it: caller is the *)
(* history that says which.                                                 *)

Begun == {t \in Transfers : pc[t] # "idle"}
Used == Cardinality(Begun)

\* The allocator still has, in turn and in front of the ids given back, those that
\* no call has had.
IdsInTurn ==
  \A n \in 1..NumIds : Used + n =< NumIds =>
    n =< Len(c_fileid_allocator) /\ c_fileid_allocator[n] = Used + n - 1

Callers == [FileIds -> Transfers \union {Nil}]

Took(caller) ==
  /\ \A i \in FileIds : caller[i] # Nil => i < Used /\ caller[i] \in Begun
  /\ \A i, j \in FileIds : caller[i] = caller[j] /\ caller[i] # Nil => i = j
  /\ \A t \in Transfers : fid[t] # Nil => caller[fid[t]] = t

\* The receiving side has nothing of the file of t.
Unheard(t) ==
  /\ \A f \in files : f.src # t
  /\ \A i \in FileIds : s_file_management[i] # Nil => s_file_management[i].src # t

\* A call writes only its own chunks, after one file info.
InfoOnce(q) ==
  \A m, n \in 1..Len(q) :
    q[m].cmd = "FILEINFO" /\ q[n].cmd = "FILEINFO" /\ q[m].id = q[n].id => m = n

Sent(caller) ==
  /\ InfoOnce(toServer)
  /\ \A m \in ToSet(toServer) :
       /\ m.src = caller[m.id]
       /\ pc[m.src] \notin {"alloc", "created"}
       /\ m.cmd = "TUNKDATA" => m.tunk \in Indices(m.src)
       /\ m.cmd = "FILEINFO" => Unheard(m.src)
  /\ \A t \in Transfers : pc[t] \in {"idle", "alloc", "created"} => Unheard(t)
  /\ \A t \in Transfers : todo[t] \subseteq Indices(t)

\* A descriptor holds chunks of the one call.
Held(caller) ==
  \A i \in FileIds : s_file_management[i] # Nil =>
    /\ s_file_management[i].src = caller[i]
    /\ \A k \in Stored(s_file_management[i]) :
         s_file_management[i].tunk_data[k] = caller[i]

\* The ids to be read name complete files, each once.
Readable ==
  /\ \A i \in Waiting \union InHand : Whole(s_file_management[i])
  /\ Waiting \intersect InHand = {}
  /\ IsInjective(s_readable_fileid)
  /\ \A r, q \in Readers : hand[r] = hand[q] /\ hand[r] # Nil => r = q

\* A file written is whole.
Written == \A f \in files : IsFileOf(f, f.src) /\ Chunks[f.src] =< IdLimit

\* The receiving side has the whole of the file of t, which has a chunk.
Arrived(t) == Chunks[t] > 0 /\ HeldFor(t)

\* An answer tells the call that had the id the truth.
Truthful(m, caller) ==
  /\ m.cmd = "ACK" => caller[m.id] # Nil /\ Arrived(caller[m.id])
  /\ m.cmd = "RETRANS" => caller[m.id] # Nil /\ m.tunks \subseteq Indices(caller[m.id])

Answers(caller) ==
  /\ \A m \in ToSet(toClient) : Truthful(m, caller)
  /\ rx # Nil => Truthful(rx, caller)
  /\ \A t \in Transfers : pc[t] \in Described =>
       /\ Desc(t).flag_recv_ack => Arrived(t)
       /\ Desc(t).retrans_tunk_id \subseteq Indices(t)
  /\ \A t \in Transfers : outcome[t] = "ok" => Arrived(t)

OneCallEach(caller) ==
  Took(caller) /\ Sent(caller) /\ Held(caller) /\ Readable /\ Written /\ Answers(caller)

DInv ==
  /\ Inv
  /\ DescribeFiles
  /\ IsFiniteSet(Begun)
  /\ NoIdReused => IdsInTurn /\ \E caller \in Callers : OneCallEach(caller)

-----------------------------------------------------------------------------
(* The file infos on the line to the server *)

\* A file info taken from the line was the only one with its id.
LEMMA InfoOnceTaken ==
  ASSUME NEW q \in Seq(ServerFrames), q # <<>>, InfoOnce(q)
  PROVE  /\ InfoOnce(Tail(q))
         /\ Head(q).cmd = "FILEINFO" =>
              \A m \in ToSet(Tail(q)) : m.cmd = "FILEINFO" => m.id # Head(q).id
<1> DEFINE r == Tail(q)
<1>1. /\ Len(q) \in Nat \ {0} /\ DOMAIN r = 1..(Len(q) - 1) /\ Len(r) = Len(q) - 1
      /\ \A i \in 1..(Len(q) - 1) : r[i] = q[i + 1]
      /\ Head(q) = q[1]
  BY HeadTailProperties, LenProperties, EmptySeq
<1> HIDE DEF r
<1>2. ASSUME NEW m \in 1..Len(r), NEW n \in 1..Len(r),
             r[m].cmd = "FILEINFO", r[n].cmd = "FILEINFO", r[m].id = r[n].id
      PROVE  m = n
  <2>1. m + 1 \in 1..Len(q) /\ n + 1 \in 1..Len(q) /\ r[m] = q[m + 1] /\ r[n] = q[n + 1]
    BY <1>1
  <2>2. m + 1 = n + 1
    BY <1>2, <2>1 DEF InfoOnce
  <2> QED
    BY <2>2
<1>3. ASSUME q[1].cmd = "FILEINFO", NEW n \in DOMAIN r, r[n].cmd = "FILEINFO"
      PROVE  r[n].id # q[1].id
  <2>1. n + 1 \in 1..Len(q) /\ r[n] = q[n + 1] /\ 1 \in 1..Len(q) /\ n + 1 # 1
    BY <1>1
  <2> QED
    BY <1>3, <2>1 DEF InfoOnce
<1>4. InfoOnce(r)
  BY <1>2 DEF InfoOnce
<1> QED
  BY <1>1, <1>3, <1>4 DEF ToSet, r

LEMMA InfoOnceWritten ==
  ASSUME NEW q \in Seq(ServerFrames), NEW m \in ServerFrames, InfoOnce(q),
         m.cmd = "FILEINFO" => \A n \in ToSet(q) : n.cmd = "FILEINFO" => n.id # m.id
  PROVE  InfoOnce(Append(q, m))
<1> DEFINE r == Append(q, m)
<1>1. /\ Len(q) \in Nat /\ DOMAIN q = 1..Len(q) /\ Len(r) = Len(q) + 1
      /\ \A i \in 1..Len(q) : r[i] = q[i]
      /\ r[Len(q) + 1] = m
  BY AppendProperties, LenProperties
<1> HIDE DEF r
<1>2. m.cmd = "FILEINFO" => \A i \in 1..Len(q) : q[i].cmd = "FILEINFO" => q[i].id # m.id
  BY <1>1 DEF ToSet
<1>3. \A i \in 1..Len(r) : i \in 1..Len(q) \/ i = Len(q) + 1
  BY <1>1
<1>4. InfoOnce(r)
  BY <1>1, <1>2, <1>3 DEF InfoOnce
<1> QED
  BY <1>4 DEF r

-----------------------------------------------------------------------------
(* What each part of the history needs, to be kept *)

\* A state in which caller says whose each id is.
History(caller) ==
  /\ Inv /\ DescribeFiles /\ IsFiniteSet(Begun)
  /\ NoIdReused /\ IdsInTurn
  /\ caller \in Callers /\ OneCallEach(caller)

\* The other conjuncts of the invariant, spelled out once for the proofs.
LEMMA Typed ==
  ASSUME Inv, DescribeFiles
  PROVE  /\ toServer \in Seq(ServerFrames) /\ toClient \in Seq(ClientFrames)
         /\ c_fileid_allocator \in Seq(FileIds)
         /\ c_file_management \in [FileIds -> ClientDescriptors \union {Nil}]
         /\ pc \in [Transfers -> PCs] /\ fid \in [Transfers -> FileIds \union {Nil}]
         /\ todo \in [Transfers -> SUBSET ChunkIds]
         /\ outcome \in [Transfers -> {"none", "ok", "failed", "crashed"}]
         /\ rx \in ClientFrames \union {Nil}
         /\ s_file_management \in [FileIds -> ServerDescriptors \union {Nil}]
         /\ s_readable_fileid \in Seq(FileIds) /\ hand \in [Readers -> FileIds \union {Nil}]
         /\ files \subseteq Files
         /\ Nil \notin ServerDescriptors /\ Nil \notin Transfers /\ Nil \notin Contents
         /\ Nil \notin FileIds
         /\ \A i \in FileIds : s_file_management[i] # Nil =>
              s_file_management[i] \in ServerDescriptors /\ WithinFile(s_file_management[i])
         /\ \A t \in Transfers : pc[t] \in Owning <=> fid[t] # Nil
BY SerialServerAssumption, SerialPortAssumption
DEF Inv, TypeOK, PortTypeOK, ClientTypeOK, ServerTypeOK, DescribeFiles, Contents, IdExclusive,
    Live, FileIds

\* What a line carries has an id, and a call that took it.
LEMMA Carried ==
  ASSUME NEW caller, History(caller)
  PROVE  /\ \A m \in ToSet(toServer) :
              /\ m \in ServerFrames /\ m.id \in FileIds
              /\ m.src \in Begun /\ m.src \in Transfers /\ caller[m.id] = m.src
         /\ \A m \in ToSet(toClient) : m.id \in FileIds
         /\ rx # Nil => rx.id \in FileIds
         /\ \A i \in FileIds : caller[i] \in Transfers \union {Nil}
         /\ \A i \in FileIds : s_file_management[i] # Nil => caller[i] \in Begun
<1> USE DEF History
<1>1. /\ toServer \in Seq(ServerFrames) /\ toClient \in Seq(ClientFrames)
      /\ rx \in ClientFrames \union {Nil} /\ Nil \notin Contents /\ Nil \notin Transfers
      /\ \A i \in FileIds : s_file_management[i] # Nil =>
           s_file_management[i].src \in Transfers
      /\ \A i \in FileIds : caller[i] \in Transfers \union {Nil}
  BY Typed DEF ServerDescriptors, Callers
<1>2. ASSUME NEW m \in ToSet(toServer)
      PROVE  /\ m \in ServerFrames /\ m.id \in FileIds
             /\ m.src \in Begun /\ m.src \in Transfers /\ caller[m.id] = m.src
  <2>1. m \in ServerFrames
    BY <1>1, <1>2, ElementOfSeq DEF ToSet
  <2>2. m.id \in FileIds /\ m.src \in Contents
    BY <2>1 DEF ServerFrames, FileInfoFrames, TunkDataFrames, Contents
  <2>3. caller[m.id] = m.src
    BY <1>2 DEF OneCallEach, Sent
  <2> QED
    BY <1>1, <2>1, <2>2, <2>3 DEF OneCallEach, Took, Begun
<1>3. \A m \in ClientFrames : m.id \in FileIds
  BY DEF ClientFrames, ReplyFrames, RetransFrames
<1>4. \A m \in ToSet(toClient) : m \in ClientFrames
  BY <1>1, ElementOfSeq DEF ToSet
<1>5. \A i \in FileIds : s_file_management[i] # Nil => caller[i] \in Begun
  BY <1>1 DEF OneCallEach, Held, Took
<1> QED
  BY <1>1, <1>2, <1>3, <1>4, <1>5

\* A step of the sending half leaves what the receiving side has.
LEMMA ServerSame ==
  ASSUME UNCHANGED serverVars
  PROVE  /\ \A t : Arrived(t)' <=> Arrived(t)
         /\ \A t : Unheard(t)' <=> Unheard(t)
         /\ Waiting' = Waiting /\ InHand' = InHand
         /\ Readable => Readable'
         /\ Written => Written'
         /\ \A caller : Held(caller) => Held(caller)'
<1> USE DEF serverVars
<1>1. /\ \A t : Arrived(t)' <=> Arrived(t)
      /\ \A t : Unheard(t)' <=> Unheard(t)
  BY DEF Arrived, HeldFor, IsFileOf, Indices, Unheard
<1>2. Waiting' = Waiting /\ InHand' = InHand
  BY DEF Waiting, InHand
<1>3. Readable => Readable'
  BY <1>2 DEF Readable, Whole, Missing, Stored
<1>4. Written => Written'
  BY DEF Written, IsFileOf, Indices
<1>5. \A caller : Held(caller) => Held(caller)'
  BY DEF Held, Stored
<1> QED
  BY <1>1, <1>2, <1>3, <1>4, <1>5

\* A step of the sending half under which the ids stay with their calls.
LEMMA SenderKept ==
  ASSUME NEW caller, History(caller), UNCHANGED serverVars, Begun' = Begun,
         \A t \in Transfers : fid'[t] = fid[t] \/ fid'[t] = Nil,
         InfoOnce(toServer'),
         \A m \in ToSet(toServer') : m \in ToSet(toServer) \/
           /\ m.src = caller[m.id] /\ pc'[m.src] \notin {"alloc", "created"}
           /\ m.cmd = "TUNKDATA" => m.tunk \in Indices(m.src)
           /\ m.cmd = "FILEINFO" => Unheard(m.src),
         \A t \in Transfers : pc'[t] \in {"alloc", "created"} => pc[t] \in {"alloc", "created"},
         \A t \in Transfers : todo'[t] \subseteq Indices(t),
         ToSet(toClient') \subseteq ToSet(toClient),
         rx' = rx \/ rx' = Nil \/ rx' \in ToSet(toClient),
         \A t \in Transfers : pc'[t] \in Described =>
           /\ c_file_management'[fid'[t]].flag_recv_ack => Arrived(t)
           /\ c_file_management'[fid'[t]].retrans_tunk_id \subseteq Indices(t),
         \A t \in Transfers : outcome'[t] = "ok" => Arrived(t)
  PROVE  OneCallEach(caller)'
<1> USE DEF History, OneCallEach
<1>1. Took(caller)'
  BY DEF Took, Used
<1>2. Sent(caller)'
  <2>1. \A t \in Transfers : pc'[t] = "idle" => pc[t] = "idle"
    BY DEF Begun
  <2>2. \A m \in ToSet(toServer) : m.src \in Transfers
    BY Carried
  <2>3. InfoOnce(toServer)'
    BY DEF InfoOnce
  <2>4. ASSUME NEW m \in ToSet(toServer')
        PROVE  /\ m.src = caller[m.id]
               /\ pc'[m.src] \notin {"alloc", "created"}
               /\ m.cmd = "TUNKDATA" => m.tunk \in Indices(m.src)
               /\ m.cmd = "FILEINFO" => Unheard(m.src)'
    BY <2>2, <2>4, ServerSame DEF Sent
  <2>5. \A t \in Transfers : pc'[t] \in {"idle", "alloc", "created"} => Unheard(t)'
    BY <2>1, ServerSame DEF Sent
  <2> QED
    BY <2>3, <2>4, <2>5 DEF Sent, Indices
<1>3. Held(caller)' /\ Readable' /\ Written'
  BY ServerSame
<1>4. Answers(caller)'
  <2> DEFINE True(m) ==
        /\ m.cmd = "ACK" => caller[m.id] # Nil /\ Arrived(caller[m.id])
        /\ m.cmd = "RETRANS" => caller[m.id] # Nil /\ m.tunks \subseteq Indices(caller[m.id])
  <2>1. \A m : Truthful(m, caller) => True(m)
    BY DEF Truthful
  <2>2. \A m \in ToSet(toClient') : True(m)
    BY <2>1 DEF Answers
  <2>3. rx' # Nil => True(rx')
    BY <2>1 DEF Answers
  <2>4. \A t \in Transfers : pc'[t] \in Described =>
          /\ Desc(t)'.flag_recv_ack => Arrived(t)'
          /\ Desc(t)'.retrans_tunk_id \subseteq Indices(t)
    BY ServerSame DEF Desc
  <2>5. \A t \in Transfers : outcome'[t] = "ok" => Arrived(t)'
    BY ServerSame
  <2>6. /\ \A m \in ToSet(toClient') : Truthful(m, caller)'
        /\ (rx # Nil => Truthful(rx, caller))'
    BY <2>2, <2>3 DEF Truthful, Arrived, HeldFor, IsFileOf, Indices, serverVars
  <2> QED
    BY <2>4, <2>5, <2>6 DEF Answers, Indices
<1> QED
  BY <1>1, <1>2, <1>3, <1>4

-----------------------------------------------------------------------------
(* The sending half keeps the history *)

\* What a call knows, and what it owns.
LEMMA Owned ==
  ASSUME NEW caller, History(caller), NEW t \in Transfers, pc[t] \in Owning
  PROVE  /\ fid[t] \in FileIds /\ caller[fid[t]] = t
         /\ \A u \in Transfers : pc[u] \in Owning /\ fid[u] = fid[t] => u = t
         /\ pc[t] \in Described =>
              /\ Desc(t) \in ClientDescriptors
              /\ Desc(t).flag_recv_ack => Arrived(t)
              /\ Desc(t).retrans_tunk_id \subseteq Indices(t)
<1> USE DEF History
<1>1. fid[t] \in FileIds /\ caller[fid[t]] = t
  BY Typed DEF OneCallEach, Took
<1>2. \A u \in Transfers : pc[u] \in Owning /\ fid[u] = fid[t] => u = t
  BY DEF Inv, IdExclusive, Live
<1>3. pc[t] \in Described => Desc(t) \in ClientDescriptors
  BY DescriptorThere
<1> QED
  BY <1>1, <1>2, <1>3 DEF OneCallEach, Answers

\* A call moves on, with its flags as they are: it waits, stops waiting, throws, or
\* begins to resend.
LEMMA MovesKept ==
  ASSUME NEW caller, History(caller), UNCHANGED serverVars, NEW t \in Transfers,
         \/ FileIdArrived(t) \/ WaitTimeout(t) \/ WriteThrows(t)
         \/ AwaitAnswer(t) \/ AnswerArrived(t) \/ AwaitAck(t)
  PROVE  Begun' = Begun /\ UNCHANGED c_fileid_allocator /\ OneCallEach(caller)'
<1> USE DEF History
<1>1. /\ pc \in [Transfers -> PCs] /\ todo \in [Transfers -> SUBSET ChunkIds]
      /\ outcome \in [Transfers -> {"none", "ok", "failed", "crashed"}]
      /\ \A u \in Transfers : todo[u] \subseteq Indices(u)
      /\ \A u \in Transfers : outcome[u] = "ok" => Arrived(u)
      /\ InfoOnce(toServer)
  BY Typed DEF OneCallEach, Sent, Answers
<1>2. /\ pc[t] \in Described
      /\ Desc(t).flag_recv_ack => Arrived(t)
      /\ Desc(t).retrans_tunk_id \subseteq Indices(t)
  <2>1. pc[t] \in Described
    BY DEF FileIdArrived, WaitTimeout, TimedOut, WriteThrows, AwaitAnswer, AnswerArrived,
           AwaitAck, Described
  <2> QED
    BY <2>1, Owned DEF Owning
<1>3. /\ UNCHANGED <<toServer, toClient, c_fileid_allocator, c_file_management, fid, rx>>
      /\ \E l \in Described \ {"created"} : pc' = [pc EXCEPT ![t] = l]
      /\ \E ks \in {todo[t], {}, Indices(t), Desc(t).retrans_tunk_id} :
           todo' = [todo EXCEPT ![t] = ks]
      /\ \/ outcome' = [outcome EXCEPT ![t] = "failed"]
         \/ outcome' = [outcome EXCEPT ![t] = "ok"] /\ Desc(t).flag_recv_ack
         \/ UNCHANGED outcome
  BY <1>1 DEF FileIdArrived, WaitTimeout, TimedOut, WriteThrows, AwaitAnswer, AnswerArrived,
         AwaitAck, Described, Throw, StartLoop, Goto, Decide, Answered, portVars
<1>4. Begun' = Begun
  BY <1>1, <1>2, <1>3 DEF Begun, Described
<1>5. \A u \in Transfers : pc'[u] \in {"alloc", "created"} => pc[u] \in {"alloc", "created"}
  BY <1>1, <1>3 DEF Described
<1>6. \A u \in Transfers : todo'[u] \subseteq Indices(u)
  BY <1>1, <1>2, <1>3
<1>7. \A u \in Transfers : pc'[u] \in Described => pc[u] \in Described
  BY <1>1, <1>2, <1>3
<1>8. \A u \in Transfers : outcome'[u] = "ok" => Arrived(u)
  BY <1>1, <1>2, <1>3
<1>9. \A u \in Transfers : pc'[u] \in Described =>
        /\ c_file_management'[fid'[u]].flag_recv_ack => Arrived(u)
        /\ c_file_management'[fid'[u]].retrans_tunk_id \subseteq Indices(u)
  BY <1>3, <1>7 DEF OneCallEach, Answers, Desc
<1>10. OneCallEach(caller)'
  BY <1>1, <1>3, <1>4, <1>5, <1>6, <1>8, <1>9, SenderKept
<1> QED
  BY <1>3, <1>4, <1>10

\* The file info is the first that a call writes, and the only one.
LEMMA FileInfoKept ==
  ASSUME NEW caller, History(caller), UNCHANGED serverVars, NEW t \in Transfers,
         SendFileInfo(t)
  PROVE  Begun' = Begun /\ UNCHANGED c_fileid_allocator /\ OneCallEach(caller)'
<1> USE DEF History
<1> DEFINE m == [cmd |-> "FILEINFO", id |-> fid[t], src |-> t, tunk_size |-> Chunks[t]]
<1>1. /\ pc \in [Transfers -> PCs] /\ todo \in [Transfers -> SUBSET ChunkIds]
      /\ toServer \in Seq(ServerFrames)
      /\ \A u \in Transfers : todo[u] \subseteq Indices(u)
      /\ \A u \in Transfers : outcome[u] = "ok" => Arrived(u)
      /\ InfoOnce(toServer)
  BY Typed DEF OneCallEach, Sent, Answers
<1>2. fid[t] \in FileIds /\ caller[fid[t]] = t /\ pc[t] = "created" /\ Unheard(t)
  BY Owned DEF SendFileInfo, Owning, Described, OneCallEach, Sent
<1>3. m \in ServerFrames
  BY <1>2, SerialPortAssumption DEF ServerFrames, FileInfoFrames
<1>4. /\ toServer' = Append(toServer, m)
      /\ UNCHANGED <<toClient, c_fileid_allocator, c_file_management, fid, outcome, rx>>
      /\ \E l \in {"sending", "waitid"} : pc' = [pc EXCEPT ![t] = l]
      /\ \E ks \in {{}, Indices(t)} : todo' = [todo EXCEPT ![t] = ks]
  BY DEF SendFileInfo, WriteToServer, StartLoop, Goto
<1>5. ToSet(toServer') = ToSet(toServer) \union {m}
  BY <1>1, <1>3, <1>4, EnqueueElements
<1>6. InfoOnce(toServer')
  <2>1. \A n \in ToSet(toServer) : n.id # fid[t]
    BY <1>2 DEF OneCallEach, Sent
  <2> QED
    BY <1>1, <1>3, <1>4, <2>1, InfoOnceWritten
<1>7. m.src = caller[m.id] /\ pc'[m.src] \notin {"alloc", "created"} /\ Unheard(m.src)
      /\ m.cmd # "TUNKDATA"
  BY <1>1, <1>2, <1>4
<1>8. Begun' = Begun
  BY <1>1, <1>2, <1>4 DEF Begun
<1>9. \A u \in Transfers : pc'[u] \in {"alloc", "created"} => pc[u] \in {"alloc", "created"}
  BY <1>1, <1>4
<1>10. \A u \in Transfers : todo'[u] \subseteq Indices(u)
  BY <1>1, <1>4
<1>11. \A u \in Transfers : pc'[u] \in Described =>
         /\ c_file_management'[fid'[u]].flag_recv_ack => Arrived(u)
         /\ c_file_management'[fid'[u]].retrans_tunk_id \subseteq Indices(u)
  <2>1. \A u \in Transfers : pc'[u] \in Described => pc[u] \in Described
    BY <1>1, <1>2, <1>4 DEF Described
  <2> QED
    BY <1>4, <2>1 DEF OneCallEach, Answers, Desc
<1> HIDE DEF m
<1>12. OneCallEach(caller)'
  BY <1>1, <1>4, <1>5, <1>6, <1>7, <1>8, <1>9, <1>10, <1>11, SenderKept
<1> QED
  BY <1>4, <1>8, <1>12

\* A call writes its own chunks, of which none is beyond its file.
LEMMA ChunkKept ==
  ASSUME NEW caller, History(caller), UNCHANGED serverVars, NEW t \in Transfers,
         SendChunk(t)
  PROVE  Begun' = Begun /\ UNCHANGED c_fileid_allocator /\ OneCallEach(caller)'
<1> USE DEF History
<1>1. /\ todo \in [Transfers -> SUBSET ChunkIds] /\ toServer \in Seq(ServerFrames)
      /\ \A u \in Transfers : todo[u] \subseteq Indices(u)
      /\ \A u \in Transfers : outcome[u] = "ok" => Arrived(u)
      /\ InfoOnce(toServer)
  BY Typed DEF OneCallEach, Sent, Answers
<1>2. fid[t] \in FileIds /\ caller[fid[t]] = t /\ pc[t] \in {"sending", "resending"}
  BY Owned DEF SendChunk, Owning, Described
<1>3. PICK k \in todo[t] :
        /\ todo' = [todo EXCEPT ![t] = @ \ {k}]
        /\ k \in Indices(t) => WriteChunk(t, k, t)
  BY DEF SendChunk
<1> DEFINE m == [cmd |-> "TUNKDATA", id |-> fid[t], tunk |-> k, src |-> t]
<1>4. /\ toServer' = Append(toServer, m) /\ k \in Indices(t)
      /\ UNCHANGED <<toClient, c_fileid_allocator, c_file_management, pc, fid, outcome, rx>>
  BY <1>1, <1>3 DEF SendChunk, WriteChunk, WriteToServer
<1>5. m \in ServerFrames
  BY <1>2, <1>4, Ids DEF ServerFrames, TunkDataFrames, Contents
<1>6. ToSet(toServer') = ToSet(toServer) \union {m}
  BY <1>1, <1>4, <1>5, EnqueueElements
<1>7. /\ InfoOnce(toServer')
      /\ m.src = caller[m.id] /\ pc'[m.src] \notin {"alloc", "created"}
      /\ m.tunk \in Indices(m.src) /\ m.cmd # "FILEINFO"
  BY <1>1, <1>2, <1>4, <1>5, InfoOnceWritten
<1>8. Begun' = Begun /\ \A u \in Transfers : todo'[u] \subseteq Indices(u)
  BY <1>1, <1>3, <1>4 DEF Begun
<1>9. \A u \in Transfers : pc'[u] \in Described =>
        /\ c_file_management'[fid'[u]].flag_recv_ack => Arrived(u)
        /\ c_file_management'[fid'[u]].retrans_tunk_id \subseteq Indices(u)
  BY <1>4 DEF OneCallEach, Answers, Desc
<1> HIDE DEF m
<1>10. OneCallEach(caller)'
  BY <1>1, <1>4, <1>6, <1>7, <1>8, <1>9, SenderKept
<1> QED
  BY <1>4, <1>8, <1>10

\* A call creates or erases its descriptor, or gives its id back.
LEMMA DescriptorKept ==
  ASSUME NEW caller, History(caller), UNCHANGED serverVars, NEW t \in Transfers,
         CreateDescriptor(t) \/ EraseDescriptor(t) \/ ReturnFileId(t)
  PROVE  Begun' = Begun /\ OneCallEach(caller)'
<1> USE DEF History
<1>1. /\ pc \in [Transfers -> PCs] /\ fid \in [Transfers -> FileIds \union {Nil}]
      /\ c_file_management \in [FileIds -> ClientDescriptors \union {Nil}]
      /\ \A u \in Transfers : todo[u] \subseteq Indices(u)
      /\ \A u \in Transfers : outcome[u] = "ok" => Arrived(u)
      /\ InfoOnce(toServer)
  BY Typed DEF OneCallEach, Sent, Answers
<1>2. /\ pc[t] \in Owning /\ fid[t] \in FileIds
      /\ \A u \in Transfers : pc[u] \in Described /\ u # t => fid[u] \in FileIds /\ fid[u] # fid[t]
  BY Owned DEF CreateDescriptor, EraseDescriptor, ReturnFileId, Owning, Described
<1>3. /\ UNCHANGED <<toServer, toClient, todo, outcome, rx>>
      /\ \/ /\ pc[t] = "alloc" /\ pc' = [pc EXCEPT ![t] = "created"]
            /\ c_file_management' = [c_file_management EXCEPT ![fid[t]] = FreshDescriptor]
            /\ UNCHANGED fid
         \/ /\ pc' = [pc EXCEPT ![t] = "enq"]
            /\ c_file_management' = [c_file_management EXCEPT ![fid[t]] = Nil]
            /\ UNCHANGED fid
         \/ /\ pc' = [pc EXCEPT ![t] = "done"]
            /\ fid' = [fid EXCEPT ![t] = Nil]
            /\ UNCHANGED c_file_management
  BY DEF CreateDescriptor, EraseDescriptor, ReturnFileId, Goto, portVars
<1>4. Begun' = Begun
  BY <1>1, <1>2, <1>3 DEF Begun, Owning, Described
<1>5. \A u \in Transfers : pc'[u] \in {"alloc", "created"} => pc[u] \in {"alloc", "created"}
  BY <1>1, <1>3
<1>6. ASSUME NEW u \in Transfers, pc'[u] \in Described
      PROVE  /\ c_file_management'[fid'[u]].flag_recv_ack => Arrived(u)
             /\ c_file_management'[fid'[u]].retrans_tunk_id \subseteq Indices(u)
  <2>1. CASE u = t
    BY <1>1, <1>2, <1>3, <1>6, <2>1 DEF Described, FreshDescriptor
  <2>2. CASE u # t
    <3>1. pc[u] \in Described
      BY <1>1, <1>3, <1>6, <2>2
    <3>2. c_file_management'[fid'[u]] = Desc(u)
      BY <1>1, <1>2, <1>3, <2>2, <3>1 DEF Desc
    <3> QED
      BY <3>1, <3>2 DEF OneCallEach, Answers
  <2> QED
    BY <2>1, <2>2
<1>7. \A u \in Transfers : fid'[u] = fid[u] \/ fid'[u] = Nil
  BY <1>1, <1>3
<1>8. OneCallEach(caller)'
  BY <1>1, <1>3, <1>4, <1>5, <1>6, <1>7, SenderKept
<1> QED
  BY <1>4, <1>8

\* The listener delivers an answer to the call that had the id when it was asked.
LEMMA ListenKept ==
  ASSUME NEW caller, History(caller), UNCHANGED serverVars,
         ListenLookup \/ ListenSignal \/ ClientListenDies
  PROVE  Begun' = Begun /\ UNCHANGED c_fileid_allocator /\ OneCallEach(caller)'
<1> USE DEF History
<1>1. /\ c_file_management \in [FileIds -> ClientDescriptors \union {Nil}]
      /\ toClient \in Seq(ClientFrames)
      /\ \A u \in Transfers : todo[u] \subseteq Indices(u)
      /\ \A u \in Transfers : outcome[u] = "ok" => Arrived(u)
      /\ InfoOnce(toServer)
  BY Typed DEF OneCallEach, Sent, Answers
<1>2. UNCHANGED <<toServer, c_fileid_allocator, pc, fid, todo, outcome>>
  BY DEF ListenLookup, ListenSignal, ClientListenDies, portVars, faults
<1>3. Begun' = Begun
  BY <1>2 DEF Begun
<1>4. /\ ToSet(toClient') \subseteq ToSet(toClient)
      /\ rx' = rx \/ rx' = Nil \/ rx' \in ToSet(toClient)
  <2>1. CASE ListenLookup
    <3>1. Head(toClient) \in ToSet(toClient) /\ ToSet(Tail(toClient)) \subseteq ToSet(toClient)
      BY <1>1, <2>1, FrameTaken DEF ListenLookup
    <3> QED
      BY <2>1, <3>1 DEF ListenLookup
  <2> QED
    BY <2>1 DEF ListenSignal, ClientListenDies, portVars
<1>5. ASSUME NEW u \in Transfers, pc[u] \in Described
      PROVE  /\ c_file_management'[fid[u]].flag_recv_ack => Arrived(u)
             /\ c_file_management'[fid[u]].retrans_tunk_id \subseteq Indices(u)
  <2>1. /\ fid[u] \in FileIds /\ caller[fid[u]] = u /\ Desc(u) \in ClientDescriptors
        /\ Desc(u).flag_recv_ack => Arrived(u)
        /\ Desc(u).retrans_tunk_id \subseteq Indices(u)
    BY <1>5, Owned DEF Owning
  <2>2. CASE c_file_management' = c_file_management
    BY <2>1, <2>2 DEF Desc
  <2>3. CASE ListenSignal
    <3>1. rx # Nil /\ rx \in ClientFrames /\ Truthful(rx, caller)
          /\ c_file_management' = [c_file_management EXCEPT ![rx.id] = Delivered(@, rx)]
      BY <2>3, Typed DEF ListenSignal, OneCallEach, Answers
    <3>2. CASE fid[u] # rx.id
      BY <1>1, <2>1, <3>1, <3>2 DEF Desc
    <3>3. CASE fid[u] = rx.id
      <4>1. c_file_management'[fid[u]] = Delivered(Desc(u), rx)
        BY <1>1, <2>1, <3>1, <3>3 DEF Desc
      <4>2. rx.cmd \in {"FILEID", "ACK", "RETRANS"}
        BY <3>1 DEF ClientFrames, ReplyFrames, RetransFrames
      <4>3. /\ rx.cmd = "ACK" => Arrived(u)
            /\ rx.cmd = "RETRANS" => rx.tunks \subseteq Indices(u)
        BY <2>1, <3>1, <3>3 DEF Truthful
      <4> QED
        BY <2>1, <4>1, <4>2, <4>3 DEF Delivered, ClientDescriptors
    <3> QED
      BY <3>2, <3>3
  <2> QED
    BY <2>2, <2>3 DEF ListenLookup, ClientListenDies
<1>6. OneCallEach(caller)'
  BY <1>1, <1>2, <1>3, <1>4, <1>5, SenderKept
<1> QED
  BY <1>2, <1>3, <1>6

\* A call that begins is the first to take its id, which is the next in turn; no
\* call is refused one.
LEMMA AllocKept ==
  ASSUME NEW caller, History(caller), UNCHANGED serverVars, NEW t \in Transfers,
         AllocFileId(t), NoIdReused'
  PROVE  IdsInTurn' /\ \E c \in Callers : OneCallEach(c)'
<1> USE DEF History
<1> DEFINE q == c_fileid_allocator
<1>1. /\ pc \in [Transfers -> PCs] /\ fid \in [Transfers -> FileIds \union {Nil}]
      /\ q \in Seq(FileIds) /\ Nil \notin FileIds /\ Nil \notin Transfers
      /\ pc[t] = "idle" /\ NumIds \in Nat \ {0}
  BY Typed, SerialPortAssumption DEF AllocFileId
<1>2. Begun' = Begun \union {t} /\ t \notin Begun
  BY <1>1 DEF AllocFileId, Goto, Begun
<1>3. Used' = Used + 1 /\ Used \in Nat /\ Used' =< NumIds
  <2>1. Used' = Used + 1 /\ Used \in Nat
    BY <1>2, FS_AddElement, FS_CardinalityType DEF Used
  <2> QED
    BY <2>1 DEF NoIdReused, Used, Begun
<1>4. 1 =< Len(q) /\ q[1] = Used /\ Len(q) \in Nat
  <2>1. 1 \in 1..NumIds /\ Used + 1 =< NumIds
    BY <1>1, <1>3
  <2> QED
    BY <1>1, <1>3, <2>1, LenProperties DEF IdsInTurn
<1>5. q # <<>> /\ Head(q) = Used /\ Used \in FileIds
  BY <1>1, <1>4, EmptySeq, HeadTailProperties, ElementOfSeq
<1>6. /\ pc' = [pc EXCEPT ![t] = "alloc"] /\ fid' = [fid EXCEPT ![t] = Used]
      /\ c_fileid_allocator' = Tail(q)
      /\ UNCHANGED <<toServer, toClient, outcome, c_file_management, todo, rx>>
  BY <1>5 DEF AllocFileId, Goto, portVars
<1>7. IdsInTurn'
  <2>1. Len(Tail(q)) = Len(q) - 1 /\ \A n \in 1..(Len(q) - 1) : Tail(q)[n] = q[n + 1]
    BY <1>1, <1>5, HeadTailProperties
  <2>2. ASSUME NEW n \in 1..NumIds, Used + 1 + n =< NumIds
        PROVE  n =< Len(q) - 1 /\ Tail(q)[n] = Used + 1 + n - 1
    <3>1. n + 1 \in 1..NumIds /\ Used + (n + 1) =< NumIds
      BY <1>1, <1>3, <2>2
    <3>2. n + 1 =< Len(q) /\ q[n + 1] = Used + (n + 1) - 1
      BY <3>1 DEF IdsInTurn
    <3>3. n \in 1..(Len(q) - 1)
      BY <1>4, <3>2
    <3> QED
      BY <1>3, <2>1, <3>2, <3>3
  <2> QED
    BY <1>3, <1>6, <2>1, <2>2 DEF IdsInTurn
<1>0. PICK c : c = [caller EXCEPT ![Used] = t]
  OBVIOUS
<1>8. c \in Callers /\ caller \in Callers
  BY <1>0, <1>5 DEF Callers
<1>9. /\ \A i \in FileIds : caller[i] # Nil => i # Used /\ c[i] = caller[i] /\ c[i] # t
      /\ c[Used] = t
      /\ \A i \in FileIds : i # Used => c[i] = caller[i]
      /\ \A i \in FileIds : i < Used => i < Used'
  <2>1. \A i \in FileIds : caller[i] # Nil => i # Used /\ caller[i] # t
    BY <1>2, <1>3, Ids DEF OneCallEach, Took
  <2>2. \A i \in FileIds : i < Used => i < Used'
    <3>1. \A i, n \in Nat : i < n => i < n + 1
      OBVIOUS
    <3> QED
      BY <1>3, <3>1, Ids
  <2> QED
    BY <1>0, <1>5, <1>8, <2>1, <2>2 DEF Callers
<1> HIDE DEF q
<1>10. Took(c)'
  <2>1. Used < Used'
    BY <1>3
  <2>2. \A i \in FileIds : c[i] # Nil => i < Used' /\ c[i] \in Begun'
    BY <1>2, <1>9, <2>1 DEF OneCallEach, Took
  <2>3. \A i, j \in FileIds : c[i] = c[j] /\ c[i] # Nil => i = j
    BY <1>9 DEF OneCallEach, Took
  <2>4. \A u \in Transfers : fid'[u] # Nil => c[fid'[u]] = u
    BY <1>1, <1>6, <1>9 DEF OneCallEach, Took
  <2> QED
    BY <2>2, <2>3, <2>4 DEF Took
<1>11. Sent(c)'
  <2>1. \A m \in ToSet(toServer) : m.src = c[m.id] /\ m.src # t /\ m.src \in Transfers
    BY <1>1, <1>2, <1>9, Carried DEF Begun
  <2>2. \A m \in ToSet(toServer) :
          /\ m.src = c[m.id]
          /\ pc'[m.src] \notin {"alloc", "created"}
          /\ m.cmd = "TUNKDATA" => m.tunk \in Indices(m.src)
          /\ m.cmd = "FILEINFO" => Unheard(m.src)'
    BY <1>1, <1>6, <2>1, ServerSame DEF OneCallEach, Sent
  <2>3. \A u \in Transfers : pc'[u] \in {"idle", "alloc", "created"} => Unheard(u)'
    BY <1>1, <1>6, ServerSame DEF OneCallEach, Sent
  <2> QED
    BY <1>6, <2>2, <2>3 DEF OneCallEach, Sent, InfoOnce, Indices
<1>12. Held(c)' /\ Readable' /\ Written'
  <2>1. \A i \in FileIds : s_file_management[i] # Nil => c[i] = caller[i]
    BY <1>1, <1>9, Carried DEF Begun
  <2>2. Held(c)
    BY <2>1 DEF OneCallEach, Held
  <2> QED
    BY <2>2, ServerSame DEF OneCallEach
<1>13. Answers(c)'
  <2>1. \A m : m.id \in FileIds /\ Truthful(m, caller) => Truthful(m, c)
    BY <1>9 DEF Truthful
  <2>2. /\ \A m \in ToSet(toClient) : Truthful(m, c)
        /\ rx # Nil => Truthful(rx, c)
    BY <2>1, Carried DEF OneCallEach, Answers
  <2>3. /\ \A m \in ToSet(toClient') : Truthful(m, c)'
        /\ (rx # Nil => Truthful(rx, c))'
    BY <1>6, <2>2 DEF Truthful, Arrived, HeldFor, IsFileOf, Indices, serverVars
  <2>4. ASSUME NEW u \in Transfers, pc'[u] \in Described
        PROVE  /\ Desc(u)'.flag_recv_ack => Arrived(u)'
               /\ Desc(u)'.retrans_tunk_id \subseteq Indices(u)
    <3>1. u # t /\ pc[u] \in Described /\ Desc(u)' = Desc(u)
      BY <1>1, <1>6, <2>4 DEF Desc, Described
    <3> QED
      BY <3>1, ServerSame DEF OneCallEach, Answers
  <2>5. \A u \in Transfers : outcome'[u] = "ok" => Arrived(u)'
    BY <1>6, ServerSame DEF OneCallEach, Answers
  <2> QED
    BY <2>3, <2>4, <2>5 DEF Answers, Indices
<1> QED
  BY <1>7, <1>8, <1>10, <1>11, <1>12, <1>13 DEF OneCallEach

LEMMA SenderStep ==
  ASSUME NEW caller, History(caller), ClientNext, UNCHANGED serverVars, NoIdReused'
  PROVE  IdsInTurn' /\ \E c \in Callers : OneCallEach(c)'
<1> USE DEF History
<1>1. ASSUME Begun' = Begun,
             \/ UNCHANGED c_fileid_allocator
             \/ \E i \in FileIds : c_fileid_allocator' = Append(c_fileid_allocator, i)
      PROVE  IdsInTurn'
  <2> DEFINE q == c_fileid_allocator
             r == c_fileid_allocator'
  <2>1. Len(q) \in Nat /\ Len(r) \in Nat /\ Len(q) =< Len(r)
        /\ \A n \in 1..Len(q) : r[n] = q[n]
    <3>1. q \in Seq(FileIds) /\ Len(q) \in Nat
      BY Typed, LenProperties
    <3>2. CASE r = q
      BY <3>1, <3>2
    <3>3. ASSUME NEW i \in FileIds, r = Append(q, i)
          PROVE  Len(r) = Len(q) + 1 /\ \A n \in 1..Len(q) : r[n] = q[n]
      BY <3>1, <3>3, AppendProperties
    <3> QED
      BY <1>1, <3>1, <3>2, <3>3
  <2>2. ASSUME NEW n \in 1..NumIds, Used + n =< NumIds
        PROVE  n =< Len(r) /\ r[n] = Used + n - 1
    <3>1. n =< Len(q) /\ q[n] = Used + n - 1 /\ n \in Nat /\ 1 =< n
      BY <2>2, SerialPortAssumption DEF IdsInTurn
    <3>2. n \in 1..Len(q)
      BY <2>1, <3>1
    <3> QED
      BY <2>1, <3>1, <3>2
  <2>3. Used' = Used
    BY <1>1 DEF Used
  <2> QED
    BY <2>2, <2>3 DEF IdsInTurn
<1>2. ~ClientRestart
  BY SerialPortAssumption DEF NoIdReused, ClientRestart, Restart
<1>3. ASSUME NEW t \in Transfers, AllocFileId(t) PROVE IdsInTurn' /\ \E c \in Callers : OneCallEach(c)'
  BY <1>3, AllocKept
<1>4. ASSUME NEW t \in Transfers, TransferStep(t) \/ WriteThrows(t)
      PROVE  IdsInTurn' /\ \E c \in Callers : OneCallEach(c)'
  <2>1. CASE \/ FileIdArrived(t) \/ WaitTimeout(t) \/ WriteThrows(t)
             \/ AwaitAnswer(t) \/ AnswerArrived(t) \/ AwaitAck(t)
    BY <1>1, <2>1, MovesKept
  <2>2. CASE SendFileInfo(t)
    BY <1>1, <2>2, FileInfoKept
  <2>3. CASE SendChunk(t)
    BY <1>1, <2>3, ChunkKept
  <2>4. CASE CreateDescriptor(t) \/ EraseDescriptor(t) \/ ReturnFileId(t)
    <3>1. fid[t] \in FileIds
      BY <2>4, Owned DEF CreateDescriptor, EraseDescriptor, ReturnFileId, Owning, Described
    <3>2. \/ UNCHANGED c_fileid_allocator
          \/ c_fileid_allocator' = Append(c_fileid_allocator, fid[t])
      BY <2>4 DEF CreateDescriptor, EraseDescriptor, ReturnFileId
    <3> QED
      BY <1>1, <2>4, <3>1, <3>2, DescriptorKept
  <2> QED
    BY <1>4, <2>1, <2>2, <2>3, <2>4 DEF TransferStep
<1>5. CASE ListenLookup \/ ListenSignal \/ ClientListenDies
  BY <1>1, <1>5, ListenKept
<1> QED
  BY <1>2, <1>3, <1>4, <1>5 DEF ClientNext

-----------------------------------------------------------------------------
(* The receiving half keeps the history *)

\* What has arrived is held, or written, after the step as well.
NothingLost == \A t \in Transfers : Arrived(t) => Arrived(t)'

\* A step of the receiving half, or a lost frame: what it must not spoil.
LEMMA ReceiverKept ==
  ASSUME NEW caller, History(caller), UNCHANGED clientVars,
         InfoOnce(toServer'), ToSet(toServer') \subseteq ToSet(toServer),
         \A m \in ToSet(toServer') : m.cmd = "FILEINFO" => Unheard(m.src)',
         \A t \in Transfers : pc[t] \in {"idle", "alloc", "created"} => Unheard(t)',
         \A t \in Transfers : Arrived(t) => Arrived(t)',
         \A m \in ToSet(toClient') : m \in ToSet(toClient) \/
           /\ m.cmd = "ACK" => caller[m.id] \in Transfers /\ Arrived(caller[m.id])'
           /\ m.cmd = "RETRANS" => caller[m.id] # Nil /\ m.tunks \subseteq Indices(caller[m.id]),
         Held(caller)', Readable', Written'
  PROVE  IdsInTurn' /\ OneCallEach(caller)' /\ NothingLost
<1> USE DEF History, OneCallEach, clientVars
<1>1. Begun' = Begun
  BY DEF Begun
<1>2. IdsInTurn' /\ Took(caller)'
  BY <1>1 DEF IdsInTurn, Took, Used
<1>3. Sent(caller)'
  <2>1. ASSUME NEW m \in ToSet(toServer')
        PROVE  /\ m.src = caller[m.id]
               /\ pc'[m.src] \notin {"alloc", "created"}
               /\ m.cmd = "TUNKDATA" => m.tunk \in Indices(m.src)
               /\ m.cmd = "FILEINFO" => Unheard(m.src)'
    BY <2>1 DEF Sent
  <2>2. InfoOnce(toServer)' /\ \A t \in Transfers : todo'[t] \subseteq Indices(t)
    BY DEF Sent, InfoOnce
  <2> QED
    BY <2>1, <2>2 DEF Sent, Indices
<1>4. Answers(caller)'
  <2>1. ASSUME NEW m, m.id \in FileIds, Truthful(m, caller) PROVE Truthful(m, caller)'
    BY <2>1, Carried DEF Truthful, Indices
  <2>2. \A m \in ToSet(toClient') : Truthful(m, caller)'
    <3>1. \A m \in ToSet(toClient) : Truthful(m, caller)'
      BY <2>1, Carried DEF Answers
    <3>2. \A m \in ToSet(toClient') : m \in ToSet(toClient) \/ Truthful(m, caller)'
      BY Typed DEF Truthful, Indices
    <3> QED
      BY <3>1, <3>2
  <2>3. (rx # Nil => Truthful(rx, caller))'
    <3>1. ASSUME rx # Nil PROVE /\ rx.cmd = "ACK" => caller[rx.id] # Nil /\ Arrived(caller[rx.id])'
                                /\ rx.cmd = "RETRANS" => caller[rx.id] # Nil /\ rx.tunks \subseteq Indices(caller[rx.id])
      BY <3>1, Carried DEF Answers, Truthful
    <3> QED
      BY <3>1 DEF Truthful, Arrived, HeldFor, IsFileOf, Indices
  <2>4. /\ \A t \in Transfers : pc'[t] \in Described =>
             /\ Desc(t)'.flag_recv_ack => Arrived(t)'
             /\ Desc(t)'.retrans_tunk_id \subseteq Indices(t)
        /\ \A t \in Transfers : outcome'[t] = "ok" => Arrived(t)'
    BY DEF Answers, Desc
  <2> QED
    BY <2>2, <2>3, <2>4 DEF Answers, Indices
<1> QED
  BY <1>2, <1>3, <1>4 DEF NothingLost

\* A descriptor with chunks of one call is its file exactly when none is missing.
LEMMA WholeIsFile ==
  ASSUME NEW d \in ServerDescriptors, WithinFile(d)
  PROVE  /\ /\ Missing(d) = {}
            /\ \A k \in Stored(d) : d.tunk_data[k] = d.src
            => IsFileOf(d, d.src) /\ Chunks[d.src] =< IdLimit
         /\ \A t \in Transfers : IsFileOf(d, t) => Missing(d) = {}
<1>1. /\ d.src \in Transfers /\ Chunks[d.src] \in Nat /\ d.tunk_size = Chunks[d.src]
      /\ IdLimit \in Nat /\ ChunkIds \subseteq Nat /\ Nil \notin Transfers
      /\ \A t \in Transfers : Indices(t) \subseteq ChunkIds
  BY SerialPortAssumption, Ids DEF ServerDescriptors, WithinFile
<1>2. Stored(d) \subseteq Indices(d.src) /\ Missing(d) = Indices(d.src) \ Stored(d)
  BY CountingChunks
<1>3. ASSUME Missing(d) = {}, \A k \in Stored(d) : d.tunk_data[k] = d.src
      PROVE  IsFileOf(d, d.src) /\ Chunks[d.src] =< IdLimit
  <2>1. Stored(d) = Indices(d.src)
    BY <1>2, <1>3
  <2>2. IsFileOf(d, d.src)
    BY <1>1, <1>3, <2>1 DEF IsFileOf, Stored
  <2>3. ASSUME Chunks[d.src] # 0 PROVE Chunks[d.src] =< IdLimit
    <3>1. Chunks[d.src] - 1 \in Stored(d)
      BY <1>1, <2>1, <2>3 DEF Indices
    <3>2. Chunks[d.src] - 1 < IdLimit
      BY <3>1 DEF WithinFile
    <3> QED
      BY <1>1, <3>2
  <2> QED
    BY <1>1, <2>2, <2>3
<1>4. ASSUME NEW t \in Transfers, IsFileOf(d, t) PROVE Missing(d) = {}
  <2>1. d.src = t
    BY <1>4 DEF IsFileOf
  <2>2. \A k \in Indices(t) : d.tunk_data[k] # Nil
    BY <1>1, <1>4 DEF IsFileOf
  <2> QED
    BY <1>1, <1>2, <2>1, <2>2 DEF Stored
<1> QED
  BY <1>3, <1>4

\* A file held whole stays where it is while only incomplete ones change.
LEMMA ArrivedKept ==
  ASSUME Inv, DescribeFiles, files \subseteq files',
         \A i \in FileIds : s_file_management[i] # Nil /\ Missing(s_file_management[i]) = {} =>
           s_file_management'[i] = s_file_management[i]
  PROVE  \A t \in Transfers : Arrived(t) => Arrived(t)'
<1>1. ASSUME NEW t \in Transfers, NEW i \in FileIds, s_file_management[i] # Nil,
             IsFileOf(s_file_management[i], t)
      PROVE  s_file_management'[i] = s_file_management[i]
  BY <1>1, Typed, WholeIsFile
<1> QED
  BY <1>1 DEF Arrived, HeldFor, IsFileOf, Indices

\* Those that wait to be read stay so as well.
LEMMA ReadableKept ==
  ASSUME Readable, UNCHANGED <<s_readable_fileid, hand>>,
         \A i \in FileIds : s_file_management[i] # Nil /\ Missing(s_file_management[i]) = {} =>
           s_file_management'[i] = s_file_management[i],
         Waiting \union InHand \subseteq FileIds
  PROVE  Readable'
<1>1. Waiting' = Waiting /\ InHand' = InHand
  BY DEF Waiting, InHand
<1>2. \A i \in Waiting \union InHand : s_file_management'[i] = s_file_management[i]
  BY DEF Readable, Whole
<1> QED
  BY <1>1, <1>2 DEF Readable, Whole, Missing, Stored

\* What the history says about the receiving half, in the words of its steps.
LEMMA Receiving ==
  ASSUME NEW caller, History(caller)
  PROVE  /\ InfoOnce(toServer)
         /\ \A m \in ToSet(toServer) : m.cmd = "FILEINFO" => Unheard(m.src)
         /\ \A t \in Transfers : pc[t] \in {"idle", "alloc", "created"} => Unheard(t)
         /\ Held(caller) /\ Readable /\ Written
         /\ Waiting \union InHand \subseteq FileIds
<1>1. s_readable_fileid \in Seq(FileIds) /\ hand \in [Readers -> FileIds \union {Nil}]
  BY Typed DEF History
<1>2. Waiting \subseteq FileIds
  BY <1>1, ElementOfSeq DEF Waiting, ToSet
<1> QED
  BY <1>1, <1>2 DEF History, OneCallEach, Sent, InHand

\* A lost frame, a frame ignored, a thread that dies.
LEMMA IgnoredKept ==
  ASSUME NEW caller, History(caller), UNCHANGED <<clientVars, s_file_management,
           s_readable_fileid, hand, files>>,
         toServer' = toServer \/ (toServer # <<>> /\ toServer' = Tail(toServer)),
         toClient' = toClient \/ (toClient # <<>> /\ toClient' = Tail(toClient))
  PROVE  IdsInTurn' /\ OneCallEach(caller)' /\ NothingLost
<1>1. toServer \in Seq(ServerFrames) /\ toClient \in Seq(ClientFrames)
  BY Typed DEF History
<1>2. InfoOnce(toServer') /\ ToSet(toServer') \subseteq ToSet(toServer)
      /\ ToSet(toClient') \subseteq ToSet(toClient)
  BY <1>1, Receiving, InfoOnceTaken, FrameTaken
<1>3. \A t : (Arrived(t)' <=> Arrived(t)) /\ (Unheard(t)' <=> Unheard(t))
  BY DEF Arrived, HeldFor, IsFileOf, Indices, Unheard
<1>4. /\ \A m \in ToSet(toServer') : m.cmd = "FILEINFO" => Unheard(m.src)'
      /\ \A t \in Transfers : pc[t] \in {"idle", "alloc", "created"} => Unheard(t)'
  BY <1>2, <1>3, Receiving
<1>5. Held(caller)' /\ Readable' /\ Written'
  BY Receiving, ReadableKept DEF Held, Stored, Written, IsFileOf, Indices
<1> QED
  BY <1>2, <1>3, <1>4, <1>5, ReceiverKept

\* The frame at the front of the line is about the call that has its id.
LEMMA FrontFrame ==
  ASSUME NEW caller, History(caller), NEW cmd, FromClient(cmd)
  PROVE  LET m == Head(toServer)
         IN  /\ m \in ServerFrames /\ m.cmd = cmd /\ m.id \in FileIds
             /\ m \in ToSet(toServer)
             /\ m.src \in Begun /\ m.src \in Transfers /\ caller[m.id] = m.src
             /\ pc[m.src] \notin {"idle", "alloc", "created"}
             /\ cmd = "TUNKDATA" => m.tunk \in Indices(m.src)
             /\ InfoOnce(toServer') /\ ToSet(toServer') \subseteq ToSet(toServer)
             /\ cmd = "FILEINFO" =>
                  /\ Unheard(m.src)
                  /\ \A n \in ToSet(toServer') : n.cmd = "FILEINFO" => n.id # m.id
<1> DEFINE m == Head(toServer)
<1>1. toServer \in Seq(ServerFrames) /\ toServer # <<>> /\ toServer' = Tail(toServer) /\ m.cmd = cmd
  BY Typed DEF History, FromClient
<1>2. m \in ToSet(toServer) /\ ToSet(toServer') \subseteq ToSet(toServer)
  BY <1>1, FrameTaken
<1>3. /\ InfoOnce(toServer')
      /\ cmd = "FILEINFO" => \A n \in ToSet(toServer') : n.cmd = "FILEINFO" => n.id # m.id
  BY <1>1, Receiving, InfoOnceTaken
<1>4. /\ pc[m.src] \notin {"alloc", "created"}
      /\ cmd = "TUNKDATA" => m.tunk \in Indices(m.src)
      /\ cmd = "FILEINFO" => Unheard(m.src)
  BY <1>1, <1>2 DEF History, OneCallEach, Sent
<1> QED
  BY <1>1, <1>2, <1>3, <1>4, Carried DEF Begun

\* A file info finds no descriptor, so that it writes over none.
LEMMA FileInfoHeard ==
  ASSUME NEW caller, History(caller), UNCHANGED clientVars, HandleFileInfo
  PROVE  IdsInTurn' /\ OneCallEach(caller)' /\ NothingLost
<1> USE DEF History
<1> DEFINE m == Head(toServer)
           d == [src |-> m.src, tunk_size |-> m.tunk_size,
                 tunk_data |-> [k \in ChunkIds |-> Nil], retrans_cnt |-> 0]
<1>1. FromClient("FILEINFO")
  BY DEF HandleFileInfo
<1>2. /\ m.id \in FileIds /\ m \in ToSet(toServer) /\ m.src \in Transfers /\ caller[m.id] = m.src
      /\ pc[m.src] \notin {"idle", "alloc", "created"} /\ Unheard(m.src)
      /\ InfoOnce(toServer') /\ ToSet(toServer') \subseteq ToSet(toServer)
      /\ \A n \in ToSet(toServer') : n.cmd = "FILEINFO" => n.id # m.id
  BY <1>1, FrontFrame
<1>3. /\ s_file_management \in [FileIds -> ServerDescriptors \union {Nil}]
      /\ s_file_management' = [s_file_management EXCEPT ![m.id] = d]
      /\ UNCHANGED <<s_readable_fileid, hand, files>>
      /\ s_file_management[m.id] = Nil
  BY <1>2, Typed DEF HandleFileInfo, Unheard, OneCallEach, Held
<1>4. d.src = m.src /\ Stored(d) = {}
  BY DEF Stored
<1> HIDE DEF d
<1>5. \A i \in FileIds : s_file_management[i] # Nil /\ Missing(s_file_management[i]) = {} =>
        s_file_management'[i] = s_file_management[i]
  BY <1>3
<1>6. /\ \A t \in Transfers : Arrived(t) => Arrived(t)'
      /\ Readable'
  BY <1>3, <1>5, ArrivedKept, ReadableKept, Receiving
<1>7. \A t \in Transfers : t # m.src /\ Unheard(t) => Unheard(t)'
  BY <1>2, <1>3, <1>4 DEF Unheard
<1>8. ASSUME NEW n \in ToSet(toServer'), n.cmd = "FILEINFO" PROVE Unheard(n.src)'
  <2>1. n.id # m.id /\ n.id \in FileIds /\ n.src \in Transfers /\ caller[n.id] = n.src
        /\ Unheard(n.src)
    BY <1>2, <1>8, Carried, Receiving
  <2>2. n.src # m.src
    BY <1>2, <2>1, Typed DEF OneCallEach, Took
  <2> QED
    BY <1>7, <2>1, <2>2
<1>9. \A t \in Transfers : pc[t] \in {"idle", "alloc", "created"} => Unheard(t)'
  BY <1>2, <1>7, Receiving
<1>10. Held(caller)' /\ Written'
  <2>1. Held(caller)'
    BY <1>2, <1>3, <1>4, Receiving DEF Held, Stored
  <2>2. Written'
    BY <1>3, Receiving DEF Written, IsFileOf, Indices
  <2> QED
    BY <2>1, <2>2
<1>11. \A n \in ToSet(toClient') : n \in ToSet(toClient) \/ n.cmd = "FILEID"
  <2> DEFINE a == [cmd |-> "FILEID", id |-> m.id]
  <2>1. a \in ClientFrames /\ toClient \in Seq(ClientFrames)
    BY <1>2, Typed DEF ClientFrames, ReplyFrames
  <2>2. ToSet(Append(toClient, a)) = ToSet(toClient) \union {a}
    BY <2>1, EnqueueElements
  <2>3. a.cmd = "FILEID" /\ (toClient' = toClient \/ toClient' = Append(toClient, a))
    BY DEF HandleFileInfo
  <2> HIDE DEF a
  <2>4. CASE toClient' = toClient
    BY <2>4
  <2>5. CASE toClient' = Append(toClient, a)
    BY <2>2, <2>3, <2>5
  <2> QED
    BY <2>3, <2>4, <2>5
<1> QED
  BY <1>2, <1>6, <1>8, <1>9, <1>10, <1>11, ReceiverKept

\* A chunk goes to the descriptor of its call; the ACK goes out when the file is
\* there.
LEMMA TunkHeard ==
  ASSUME NEW caller, History(caller), UNCHANGED clientVars, HandleTunkData
  PROVE  IdsInTurn' /\ OneCallEach(caller)' /\ NothingLost
<1> USE DEF History
<1> DEFINE m == Head(toServer)
           e == s_file_management[m.id]
           d == WithChunk(e, m)
<1>1. FromClient("TUNKDATA")
  BY DEF HandleTunkData
<1>2. /\ m \in ServerFrames /\ m.cmd = "TUNKDATA"
      /\ m.id \in FileIds /\ m \in ToSet(toServer) /\ m.src \in Transfers /\ caller[m.id] = m.src
      /\ pc[m.src] \notin {"idle", "alloc", "created"} /\ m.tunk \in Indices(m.src)
      /\ InfoOnce(toServer') /\ ToSet(toServer') \subseteq ToSet(toServer)
  BY <1>1, FrontFrame
<1>3. /\ s_file_management \in [FileIds -> ServerDescriptors \union {Nil}]
      /\ s_file_management' = [s_file_management EXCEPT ![m.id] = d]
      /\ UNCHANGED <<hand, files>>
      /\ e \in ServerDescriptors /\ WithinFile(e) /\ e.src = m.src /\ e.tunk_data[m.tunk] = Nil
      /\ m.tunk \in ChunkIds /\ Nil \notin Transfers /\ Nil \notin ServerDescriptors
  <2>1. e # Nil /\ e.tunk_data[m.tunk] = Nil
        /\ s_file_management' = [s_file_management EXCEPT ![m.id] = d]
        /\ UNCHANGED <<hand, files>>
    BY DEF HandleTunkData, Accepts
  <2> QED
    BY <1>2, <2>1, Typed, Ids DEF OneCallEach, Held
<1>4. /\ d \in ServerDescriptors /\ d.src = m.src /\ d.tunk_size = e.tunk_size
      /\ Stored(d) = Stored(e) \union {m.tunk}
      /\ \A k \in Stored(d) : d.tunk_data[k] = d.src
      /\ d # Nil
  <2>1. \A k \in Stored(e) : e.tunk_data[k] = m.src
    BY <1>2, <1>3 DEF OneCallEach, Held
  <2>2. /\ d \in ServerDescriptors /\ d.src = e.src /\ d.tunk_size = e.tunk_size
        /\ \A k \in ChunkIds : d.tunk_data[k] = IF k = m.tunk THEN m.src ELSE e.tunk_data[k]
    BY <1>2, <1>3 DEF WithChunk, ServerDescriptors, Contents
  <2> HIDE DEF d
  <2> QED
    BY <1>2, <1>3, <2>1, <2>2 DEF Stored
<1> HIDE DEF d
<1>5. WithinFile(d)
  BY <1>2, <1>3, <1>4, DescribeStep DEF DescribeFiles, Next, ServerNext, HandleFrame
<1>6. m.tunk \in Missing(e)
  BY <1>2, <1>3, CountingChunks DEF Stored
<1>7. \A i \in FileIds : s_file_management[i] # Nil /\ Missing(s_file_management[i]) = {} =>
        s_file_management'[i] = s_file_management[i]
  BY <1>2, <1>3, <1>6
<1>8. \A t \in Transfers : Arrived(t) => Arrived(t)'
  BY <1>3, <1>7, ArrivedKept
<1>9. \A t \in Transfers : Unheard(t) => Unheard(t)'
  BY <1>2, <1>3, <1>4 DEF Unheard
<1>10. /\ \A n \in ToSet(toServer') : n.cmd = "FILEINFO" => Unheard(n.src)'
       /\ \A t \in Transfers : pc[t] \in {"idle", "alloc", "created"} => Unheard(t)'
  BY <1>2, <1>9, Carried, Receiving
<1>11. Held(caller)' /\ Written'
  <2>1. Held(caller)'
    BY <1>2, <1>3, <1>4, Receiving DEF Held, Stored
  <2>2. Written'
    BY <1>3, Receiving DEF Written, IsFileOf, Indices
  <2> QED
    BY <2>1, <2>2
<1>12. CASE UNCHANGED <<toClient, s_readable_fileid>>
  <2>1. Readable'
    BY <1>3, <1>7, <1>12, ReadableKept, Receiving
  <2> QED
    BY <1>2, <1>8, <1>10, <1>11, <1>12, <2>1, ReceiverKept
<1>13. CASE /\ Collected(d)
            /\ toClient' = Append(toClient, [cmd |-> "ACK", id |-> m.id])
            /\ s_readable_fileid' = Append(s_readable_fileid, m.id)
  <2>0. PICK t \in Transfers, j \in FileIds : t = m.src /\ j = m.id
    BY <1>2
  <2>1. Missing(d) = {} /\ IsFileOf(d, t)
    BY <2>0, <1>4, <1>5, <1>13, CountingChunks, WholeIsFile
  <2>2. Arrived(t)'
    <3>1. s_file_management'[j] = d
      BY <2>0, <1>2, <1>3
    <3>2. Chunks[t] > 0
      BY <2>0, <1>2, SerialPortAssumption DEF Indices
    <3> QED
      BY <2>0, <1>2, <1>4, <2>1, <3>1, <3>2 DEF Arrived, HeldFor, IsFileOf, Indices
  <2>3. \A n \in ToSet(toClient') : n \in ToSet(toClient) \/ (n.cmd = "ACK" /\ n.id = j)
    <3> DEFINE a == [cmd |-> "ACK", id |-> j]
    <3>1. a \in ClientFrames /\ toClient \in Seq(ClientFrames)
      BY <2>0, <1>2, Typed DEF ClientFrames, ReplyFrames
    <3>2. ToSet(Append(toClient, a)) = ToSet(toClient) \union {a}
      BY <3>1, EnqueueElements
    <3> QED
      BY <2>0, <1>13, <3>2
  <2>4. Readable'
    <3>1. j \notin Waiting \union InHand
      BY <2>0, <1>6, Receiving DEF Readable, Whole
    <3>2. /\ Waiting' = Waiting \union {j} /\ InHand' = InHand
          /\ IsInjective(s_readable_fileid')
      BY <2>0, <1>2, <1>3, <1>13, <3>1, Typed, Receiving, EnqueueElements DEF Waiting, InHand, Readable
    <3>3. \A i \in Waiting \union InHand : i # j /\ s_file_management'[i] = s_file_management[i]
      BY <2>0, <1>2, <1>3, <3>1, Receiving
    <3>4. \A i \in Waiting \union InHand : Whole(s_file_management[i])'
      BY <3>3, Receiving DEF Readable, Whole, Missing, Stored
    <3>5. Whole(d) /\ s_file_management'[j] = d
      <4>1. d.tunk_size > 0
        BY <2>0, <1>2, <1>4, <1>5, SerialPortAssumption DEF WithinFile, Indices
      <4> QED
        BY <2>0, <1>2, <1>3, <1>4, <2>1, <4>1 DEF Whole
    <3>6. Whole(s_file_management[j])'
      BY <3>5 DEF Whole, Missing, Stored
    <3> QED
      BY <2>0, <1>3, <3>1, <3>2, <3>4, <3>6, Receiving DEF Readable
  <2>5. \A n \in ToSet(toClient') : n \in ToSet(toClient) \/
          /\ n.cmd = "ACK" => caller[n.id] \in Transfers /\ Arrived(caller[n.id])'
          /\ n.cmd = "RETRANS" => FALSE
    BY <2>0, <1>2, <2>2, <2>3
  <2> QED
    BY <2>0, <1>2, <1>8, <1>10, <1>11, <2>4, <2>5, ReceiverKept
<1>14. Collected(d) => Announce(m.id)
  BY DEF HandleTunkData, d
<1>15. ~Collected(d) => UNCHANGED <<toClient, s_readable_fileid>>
  BY DEF HandleTunkData, d
<1> QED
  BY <1>12, <1>13, <1>14, <1>15 DEF Announce

\* The requests written for the files ask, each for the chunks its file misses.
LEMMA RetransElements ==
  ASSUME PortTypeOK, NEW ask \in SUBSET FileIds, WriteRetrans(ask)
  PROVE  \A n \in ToSet(toClient') : n \in ToSet(toClient) \/
           \E i \in ask : n = [cmd |-> "RETRANS", id |-> i, tunks |-> Missing(s_file_management[i])]
<1> DEFINE R(i) == [cmd |-> "RETRANS", id |-> i, tunks |-> Missing(s_file_management[i])]
<1>1. Cardinality(ask) \in Nat
  BY Ids, FS_Subset, FS_CardinalityType
<1>2. PICK f \in InOrder(ask) : toClient' = toClient \o [n \in 1..Cardinality(ask) |-> R(f[n])]
  BY DEF WriteRetrans
<1> DEFINE r == [n \in 1..Cardinality(ask) |-> R(f[n])]
<1>3. \A n \in 1..Cardinality(ask) : f[n] \in ask
  BY <1>2 DEF InOrder
<1>4. \A i \in FileIds : R(i) \in ClientFrames
  BY DEF ClientFrames, RetransFrames, Missing
<1>5. r \in Seq(ClientFrames) /\ DOMAIN r = 1..Cardinality(ask)
  <2>1. \A n \in 1..Cardinality(ask) : R(f[n]) \in ClientFrames
    BY <1>3, <1>4
  <2> HIDE DEF R
  <2> QED
    BY ONLY <1>1, <2>1
<1>6. toClient \in Seq(ClientFrames)
  BY DEF PortTypeOK
<1>7. ToSet(toClient') = ToSet(toClient) \union ToSet(r)
  <2>1. toClient' = toClient \o r
    BY <1>2
  <2> HIDE DEF r, R
  <2> QED
    BY ONLY <1>5, <1>6, <2>1, ConcatElements
<1>8. \A n \in ToSet(r) : \E i \in ask : n = R(i)
  <2>1. \A j \in 1..Cardinality(ask) : r[j] = R(f[j])
    OBVIOUS
  <2> HIDE DEF r, R
  <2>2. ToSet(r) = {r[j] : j \in 1..Cardinality(ask)}
    BY <1>5 DEF ToSet
  <2> QED
    BY ONLY <1>3, <2>1, <2>2
<1> QED
  BY <1>7, <1>8

\* Files whose chunks stopped coming are asked for, counted and given up; none of
\* them is complete, and no chunk is asked for that its file does not have.
LEMMA ManageKept ==
  ASSUME NEW caller, History(caller), UNCHANGED clientVars, NEW due \in SUBSET Overdue,
         ManagePass(due) \/ \E i \in due : ManageDies(due, i)
  PROVE  IdsInTurn' /\ OneCallEach(caller)' /\ NothingLost
<1> USE DEF History
<1>1. /\ s_file_management \in [FileIds -> ServerDescriptors \union {Nil}]
      /\ Nil \notin ServerDescriptors /\ PortTypeOK
      /\ due \subseteq FileIds
      /\ \A i \in due : s_file_management[i] # Nil /\ Incomplete(s_file_management[i])
  BY Typed DEF Overdue, Inv, TypeOK
<1>2. \A i \in due : Missing(s_file_management[i]) # {}
  BY <1>1, Typed, CountingChunks
<1>3. /\ UNCHANGED <<toServer, s_readable_fileid, hand, files>>
      /\ \A i \in FileIds \ due : s_file_management'[i] = s_file_management[i]
      /\ \A i \in due : \/ s_file_management'[i] = Nil
                        \/ s_file_management'[i] = Counted(s_file_management[i])
                        \/ s_file_management'[i] = s_file_management[i]
  BY <1>1 DEF ManagePass, ManageDies
<1>4. \E ask \in SUBSET due : WriteRetrans(ask)
  BY DEF ManagePass, ManageDies, Asked
<1>5. \A i \in FileIds : s_file_management[i] # Nil /\ Missing(s_file_management[i]) = {} =>
        s_file_management'[i] = s_file_management[i]
  BY <1>2, <1>3
<1>6. (\A t \in Transfers : Arrived(t) => Arrived(t)') /\ Readable'
  BY <1>3, <1>5, ArrivedKept, ReadableKept, Receiving
<1>7. ASSUME NEW i \in FileIds, s_file_management'[i] # Nil
      PROVE  /\ s_file_management[i] # Nil
             /\ s_file_management'[i].src = s_file_management[i].src
             /\ s_file_management'[i].tunk_data = s_file_management[i].tunk_data
  <2>1. \A d \in ServerDescriptors : Counted(d).src = d.src /\ Counted(d).tunk_data = d.tunk_data
    BY DEF Counted, ServerDescriptors
  <2> QED
    BY <1>1, <1>3, <1>7, <2>1
<1>8. \A t \in Transfers : Unheard(t) => Unheard(t)'
  BY <1>3, <1>7 DEF Unheard
<1>9. Held(caller)' /\ Written'
  <2>1. Held(caller)'
    BY <1>7, Receiving DEF Held, Stored
  <2>2. Written'
    BY <1>3, Receiving DEF Written, IsFileOf, Indices
  <2> QED
    BY <2>1, <2>2
<1>10. ASSUME NEW n \in ToSet(toClient'), n \notin ToSet(toClient)
       PROVE  /\ n.cmd = "RETRANS"
              /\ caller[n.id] # Nil /\ n.tunks \subseteq Indices(caller[n.id])
  <2>1. PICK i \in due : n = [cmd |-> "RETRANS", id |-> i, tunks |-> Missing(s_file_management[i])]
    BY <1>1, <1>4, <1>10, RetransElements
  <2>2. /\ s_file_management[i].src = caller[i]
        /\ Missing(s_file_management[i]) \subseteq Indices(s_file_management[i].src)
        /\ s_file_management[i].src \in Transfers /\ Nil \notin Transfers
    BY <1>1, Typed, CountingChunks, Receiving DEF Held, ServerDescriptors
  <2> QED
    BY <2>1, <2>2
<1>11. /\ InfoOnce(toServer')
       /\ \A m \in ToSet(toServer') : m.cmd = "FILEINFO" => Unheard(m.src)'
       /\ \A t \in Transfers : pc[t] \in {"idle", "alloc", "created"} => Unheard(t)'
  BY <1>3, <1>8, Carried, Receiving
<1> QED
  BY <1>3, <1>6, <1>9, <1>10, <1>11, ReceiverKept

\* receive() takes the id of a complete file; nobody else has it.
LEMMA DequeueKept ==
  ASSUME NEW caller, History(caller), UNCHANGED clientVars, NEW r \in Readers,
         ReceiveDequeue(r)
  PROVE  IdsInTurn' /\ OneCallEach(caller)' /\ NothingLost
<1> USE DEF History
<1>1. /\ s_readable_fileid \in Seq(FileIds) /\ hand \in [Readers -> FileIds \union {Nil}]
      /\ Nil \notin FileIds /\ hand[r] = Nil
      /\ UNCHANGED <<toServer, toClient, s_file_management, files>>
  BY Typed DEF ReceiveDequeue
<1>2. CASE UNCHANGED <<s_readable_fileid, hand>>
  BY <1>1, <1>2, IgnoredKept
<1>3. CASE /\ s_readable_fileid # <<>>
           /\ hand' = [hand EXCEPT ![r] = Head(s_readable_fileid)]
           /\ s_readable_fileid' = Tail(s_readable_fileid)
  <2>1. PICK h \in FileIds : h = Head(s_readable_fileid)
    BY <1>1, <1>3, DequeueElements
  <2>2. /\ Waiting = {h} \union Waiting' /\ h \notin Waiting'
        /\ IsInjective(s_readable_fileid')
    BY <1>1, <1>3, <2>1, Receiving, DequeueElements DEF Waiting, Readable
  <2>3. InHand' = InHand \union {h} /\ h \notin InHand /\ hand' = [hand EXCEPT ![r] = h]
    <3>1. hand' = [hand EXCEPT ![r] = h]
      BY <1>3, <2>1
    <3>2. InHand' = InHand \union {h}
      BY <1>1, <2>1, <3>1 DEF InHand
    <3> QED
      BY <2>2, <3>1, <3>2, Receiving DEF Readable
  <2>4. Readable'
    <3>1. \A q \in Readers : hand[q] # Nil => hand[q] # h
      BY <2>3 DEF InHand
    <3>2. \A p, q \in Readers : hand'[p] = hand'[q] /\ hand'[p] # Nil => p = q
      BY <1>1, <2>1, <2>3, <3>1, Receiving DEF Readable
    <3> QED
      BY <1>1, <2>2, <2>3, <3>2, Receiving DEF Readable, Whole, Missing, Stored
  <2>5. \A t : (Arrived(t)' <=> Arrived(t)) /\ (Unheard(t)' <=> Unheard(t))
    BY <1>1 DEF Arrived, HeldFor, IsFileOf, Indices, Unheard
  <2>6. Held(caller)' /\ Written'
    BY <1>1, Receiving DEF Held, Stored, Written, IsFileOf, Indices
  <2> QED
    BY <1>1, <2>4, <2>5, <2>6, Receiving, ReceiverKept
<1> QED
  BY <1>2, <1>3 DEF ReceiveDequeue

\* receive() writes a complete file, whose descriptor it erases.
LEMMA WriteKept ==
  ASSUME NEW caller, History(caller), UNCHANGED clientVars, NEW r \in Readers,
         ReceiveWrite(r)
  PROVE  IdsInTurn' /\ OneCallEach(caller)' /\ NothingLost
<1> USE DEF History
<1>1. /\ hand \in [Readers -> FileIds \union {Nil}] /\ Nil \notin FileIds /\ hand[r] # Nil
      /\ hand' = [hand EXCEPT ![r] = Nil]
      /\ s_file_management \in [FileIds -> ServerDescriptors \union {Nil}]
      /\ UNCHANGED <<toServer, toClient, s_readable_fileid>>
  BY Typed DEF ReceiveWrite
<1>2. PICK h \in FileIds : h = hand[r]
  BY <1>1
<1> DEFINE d == s_file_management[h]
<1>3. /\ d # Nil /\ Missing(d) = {} /\ d \in ServerDescriptors
      /\ IsFileOf(d, d.src) /\ Chunks[d.src] =< IdLimit /\ d.src \in Transfers
      /\ h \in InHand /\ h \notin Waiting
  <2>1. h \in InHand /\ h \notin Waiting /\ d # Nil /\ Missing(d) = {}
    BY <1>1, <1>2, Receiving DEF InHand, Readable, Whole
  <2>2. d \in ServerDescriptors /\ WithinFile(d)
    BY <2>1, Typed
  <2>3. \A k \in Stored(d) : d.tunk_data[k] = d.src
    BY <2>1, Receiving DEF Held
  <2> QED
    BY <2>1, <2>2, <2>3, WholeIsFile DEF ServerDescriptors
<1>4. Waiting' = Waiting /\ InHand' \subseteq InHand \ {h}
  <2>1. \A q \in Readers : q # r => hand'[q] = hand[q] /\ (hand[q] # Nil => hand[q] # h)
    BY <1>1, <1>2, Receiving DEF Readable
  <2>2. hand'[r] = Nil
    BY <1>1
  <2> QED
    BY <1>1, <2>1, <2>2 DEF InHand, Waiting
<1>5. \A p, q \in Readers : hand'[p] = hand'[q] /\ hand'[p] # Nil => p = q
  BY <1>1, Receiving DEF Readable
<1>6. \/ files' = files \union {FileOf(d)} /\ s_file_management' = [s_file_management EXCEPT ![h] = Nil]
      \/ UNCHANGED <<files, s_file_management>>
  BY <1>2, <1>3 DEF ReceiveWrite, OpenFails
<1>7. \A i \in FileIds : i # h => s_file_management'[i] = s_file_management[i]
  BY <1>1, <1>6
<1>8. Readable'
  <2>1. \A i \in Waiting' \union InHand' : i # h /\ i \in FileIds /\ Whole(s_file_management[i])
    BY <1>3, <1>4, Receiving DEF Readable
  <2>2. \A i \in Waiting' \union InHand' : Whole(s_file_management[i])'
    BY <1>7, <2>1 DEF Whole, Missing, Stored
  <2> QED
    BY <1>1, <1>4, <1>5, <2>2, Receiving DEF Readable
<1>9. /\ FileOf(d).src = d.src
      /\ \A t : IsFileOf(FileOf(d), t) <=> IsFileOf(d, t)
  BY DEF FileOf, IsFileOf
<1>10. \A t \in Transfers : Arrived(t) => Arrived(t)'
  <2>1. CASE UNCHANGED <<files, s_file_management>>
    BY <2>1 DEF Arrived, HeldFor, IsFileOf, Indices
  <2>2. CASE FileOf(d) \in files' /\ files \subseteq files'
    BY <1>7, <1>9, <2>2 DEF Arrived, HeldFor, IsFileOf, Indices
  <2> QED
    BY <1>6, <2>1, <2>2
<1>11. \A t \in Transfers : Unheard(t) => Unheard(t)'
  BY <1>1, <1>3, <1>6, <1>9 DEF Unheard
<1>12. Held(caller)'
  BY <1>1, <1>6, Receiving DEF Held, Stored
<1>13. Written'
  <2>1. \A f \in files' : f \in files \/ f = FileOf(d)
    BY <1>6
  <2>2. \A f \in files' : IsFileOf(f, f.src) /\ Chunks[f.src] =< IdLimit
    BY <1>3, <1>9, <2>1, Receiving DEF Written
  <2> QED
    BY <2>2 DEF Written, IsFileOf, Indices
<1>14. /\ InfoOnce(toServer')
       /\ \A m \in ToSet(toServer') : m.cmd = "FILEINFO" => Unheard(m.src)'
       /\ \A t \in Transfers : pc[t] \in {"idle", "alloc", "created"} => Unheard(t)'
  BY <1>1, <1>11, Carried, Receiving
<1> QED
  BY <1>1, <1>8, <1>10, <1>12, <1>13, <1>14, ReceiverKept

LEMMA ReceiverStep ==
  ASSUME NEW caller, History(caller), ServerNext, UNCHANGED clientVars, NoIdReused'
  PROVE  IdsInTurn' /\ OneCallEach(caller)' /\ NothingLost
<1>1. ~ServerRestart
  BY SerialPortAssumption DEF History, NoIdReused, ServerRestart, Restart
<1>2. CASE HandleFrame
  <2>1. CASE HandleBadTunk
    BY <2>1, IgnoredKept DEF HandleBadTunk, FromClient, serverVars
  <2>2. CASE Notify
    BY <2>2, IgnoredKept DEF Notify
  <2> QED
    BY <1>2, <2>1, <2>2, FileInfoHeard, TunkHeard DEF HandleFrame
<1>3. CASE ServerListenDies
  BY <1>3, IgnoredKept DEF ServerListenDies
<1> QED
  BY <1>1, <1>2, <1>3, ManageKept, DequeueKept, WriteKept DEF ServerNext

-----------------------------------------------------------------------------
(* The invariant *)

\* Restarts are counted, calls that have begun stay so: once an id is used again
\* NoIdReused is false for good.
LEMMA ReuseStays ==
  ASSUME Inv, IsFiniteSet(Begun), [Next]_vars
  PROVE  IsFiniteSet(Begun') /\ (NoIdReused' => NoIdReused)
<1>1. Begun \subseteq Begun' /\ \E t : Begun' \subseteq Begun \union {t}
  <2>1. pc \in [Transfers -> PCs]
    BY DEF Inv, TypeOK, ClientTypeOK
  <2>2. ASSUME NEW t \in Transfers, NEW l \in PCs \ {"idle"}, pc' = [pc EXCEPT ![t] = l]
        PROVE  Begun \subseteq Begun' /\ Begun' \subseteq Begun \union {t}
    BY <2>1, <2>2 DEF Begun
  <2>3. ASSUME UNCHANGED pc PROVE Begun' = Begun
    BY <2>3 DEF Begun
  <2>4. ASSUME ClientRestart PROVE Begun' = Begun
    BY <2>1, <2>4 DEF ClientRestart, Begun, Owning, Described
  <2>5. ASSUME NEW t \in Transfers, AllocFileId(t) \/ TransferStep(t) \/ WriteThrows(t)
        PROVE  UNCHANGED pc \/ \E l \in PCs \ {"idle"} : pc' = [pc EXCEPT ![t] = l]
    BY <2>5 DEF AllocFileId, TransferStep, CreateDescriptor, SendFileInfo, FileIdArrived, WaitTimeout,
           WriteThrows, SendChunk, AwaitAnswer, AnswerArrived, AwaitAck, EraseDescriptor,
           ReturnFileId, Throw, Answered, StartLoop, Goto, PCs
  <2>6. ListenLookup \/ ListenSignal \/ ClientListenDies => UNCHANGED pc
    BY DEF ListenLookup, ListenSignal, ClientListenDies
  <2> QED
    BY <2>2, <2>3, <2>4, <2>5, <2>6 DEF Next, ClientNext, clientVars, vars
<1>2. IsFiniteSet(Begun')
  BY <1>1, FS_AddElement, FS_Subset
<1>3. Used \in Nat /\ Used' \in Nat /\ Used =< Used'
  BY <1>1, <1>2, FS_Subset, FS_CardinalityType DEF Used
<1>4. restarts' = restarts \/ restarts' = restarts + 1
  BY DEF Next, ClientNext, TransferStep, AllocFileId, CreateDescriptor, SendFileInfo,
         FileIdArrived, WaitTimeout, WriteThrows, Throw, SendChunk, AwaitAnswer, AnswerArrived,
         AwaitAck, EraseDescriptor, ReturnFileId, ListenLookup, ListenSignal, ClientListenDies,
         ClientRestart, Restart, ServerNext, HandleFrame, HandleFileInfo, HandleBadTunk,
         HandleTunkData, Notify, ServerListenDies, ManagePass, ManageDies, ReceiveDequeue,
         ReceiveWrite, ServerRestart, LoseFrame, portVars, faults, vars
<1>5. restarts \in Nat
  BY DEF Inv, TypeOK, PortTypeOK
<1>6. ASSUME NoIdReused' PROVE NoIdReused
  <2>1. restarts' = 0 /\ Used' =< NumIds /\ NumIds \in Nat
    BY <1>6, SerialPortAssumption DEF NoIdReused, Used, Begun
  <2>2. restarts = 0 /\ Used =< NumIds
    BY <1>3, <1>4, <1>5, <2>1
  <2> QED
    BY <2>2 DEF NoIdReused, Used, Begun
<1> QED
  BY <1>2, <1>6

LEMMA DInvInit == Init => DInv
<1> SUFFICES ASSUME Init PROVE DInv
  OBVIOUS
<1>1. Inv /\ DescribeFiles
  BY InitInv DEF Init, PortInit, ServerInit, DescribeFiles, ToSet
<1>2. Begun = {} /\ Used = 0 /\ IsFiniteSet(Begun)
  BY FS_EmptySet DEF Init, ClientInit, Begun, Used
<1>3. IdsInTurn
  <2>1. Len(AllIds) = NumIds
    BY SerialPortAssumption, AllIdsOnce, LenProperties DEF AllIds
  <2> QED
    BY <1>2, <2>1, SerialPortAssumption DEF Init, ClientInit, IdsInTurn, AllIds
<1> DEFINE c == [i \in FileIds |-> Nil]
<1>4. c \in Callers
  BY DEF Callers
<1>5. OneCallEach(c)
  <2>1. Took(c)
    BY DEF Init, ClientInit, Took
  <2>2. ToSet(toServer) = {} /\ ToSet(toClient) = {} /\ Waiting = {} /\ InHand = {}
        /\ Len(<<>>) = 0 /\ IsInjective(<<>>)
    BY EmptySeq DEF Init, PortInit, ServerInit, ToSet, Waiting, InHand, IsInjective
  <2>3. Sent(c)
    BY <2>2 DEF Init, PortInit, ClientInit, ServerInit, Sent, InfoOnce, Unheard
  <2>4. Held(c) /\ Readable /\ Written
    BY <2>2 DEF Init, ServerInit, Held, Readable, Written
  <2>5. Answers(c)
    BY <2>2 DEF Init, ClientInit, Answers, Described
  <2> QED
    BY <2>1, <2>3, <2>4, <2>5 DEF OneCallEach
<1> QED
  BY <1>1, <1>2, <1>3, <1>4, <1>5 DEF DInv

LEMMA DInvStep == DInv /\ [Next]_vars => DInv'
<1> SUFFICES ASSUME DInv, [Next]_vars PROVE DInv'
  OBVIOUS
<1>1. Inv' /\ DescribeFiles' /\ IsFiniteSet(Begun')
  BY InvStep, DescribeStep, ReuseStays DEF DInv
<1>2. ASSUME NoIdReused' PROVE IdsInTurn' /\ \E c \in Callers : OneCallEach(c)'
  <2>1. PICK caller \in Callers : History(caller)
    BY <1>2, ReuseStays DEF DInv, History
  <2>2. CASE ClientNext /\ UNCHANGED serverVars
    BY <1>2, <2>1, <2>2, SenderStep
  <2>3. CASE ServerNext /\ UNCHANGED clientVars
    BY <1>2, <2>1, <2>3, ReceiverStep
  <2>4. CASE LoseFrame /\ UNCHANGED <<clientVars, serverVars>>
    BY <2>1, <2>4, IgnoredKept DEF LoseFrame, serverVars
  <2>5. CASE UNCHANGED vars
    BY <2>1, <2>5, IgnoredKept DEF vars, portVars, serverVars
  <2> QED
    BY <2>2, <2>3, <2>4, <2>5 DEF Next
<1> QED
  BY <1>1, <1>2 DEF DInv, Callers, FileIds

LEMMA DInvAlways == Spec => []DInv
  BY DInvInit, DInvStep, PTL DEF Spec

-----------------------------------------------------------------------------
\* While no id is used again, transfer() reports success only when the receiving
\* side has the whole file, and it keeps the file until receive() has written it.
THEOREM AcknowledgedIsStored == Spec => []AckMeansStored
<1>1. DInv => AckMeansStored
  BY DEF DInv, OneCallEach, Answers, AckMeansStored, Arrived
<1> QED
  BY <1>1, DInvAlways, PTL

\* While no id is used again, receive() writes whole files only, each made of the
\* chunks of one call, whatever the line loses and whatever the ports refuse.
THEOREM FilesIntact == Spec => []DeliveredIntact
<1>1. DInv => DeliveredIntact
  BY DEF DInv, OneCallEach, Written, DeliveredIntact
<1> QED
  BY <1>1, DInvAlways, PTL

\* While no id is used again, the readable queue and the hands of receive() hold ids
\* of complete files, each once.
THEOREM ReadableComplete == Spec => []ReadableIsComplete
<1>1. DInv => ReadableIsComplete
  BY DEF DInv, OneCallEach, Readable, ReadableIsComplete
<1> QED
  BY <1>1, DInvAlways, PTL

\* While no id is used again, a call is asked again for chunks of its own file only:
\* the vector tunk_data is never read out of range.
THEOREM RetransWithinFile == Spec => []RetransInRange
<1>1. DInv => RetransInRange
  BY DEF DInv, OneCallEach, Answers, RetransInRange
<1> QED
  BY <1>1, DInvAlways, PTL

\* The receiving side never has the whole of a file with more chunks than two digits
\* number.
LEMMA HeldFits ==
  ASSUME NEW caller, History(caller), NEW t \in Transfers, Arrived(t)
  PROVE  Chunks[t] =< IdLimit
<1>1. CASE \E f \in files : IsFileOf(f, t)
  BY <1>1, Receiving DEF Written, IsFileOf
<1>2. ASSUME NEW i \in FileIds, s_file_management[i] # Nil, IsFileOf(s_file_management[i], t)
      PROVE  Chunks[t] =< IdLimit
  <2> DEFINE d == s_file_management[i]
  <2>1. d \in ServerDescriptors /\ WithinFile(d) /\ d.src = t /\ Missing(d) = {}
    BY <1>2, Typed, WholeIsFile DEF History, IsFileOf
  <2>2. \A k \in Stored(d) : d.tunk_data[k] = d.src
    BY <1>2, Receiving DEF Held
  <2> QED
    BY <2>1, <2>2, WholeIsFile
<1> QED
  BY <1>1, <1>2 DEF Arrived, HeldFor

\* While no id is used again, a file with more chunks than two digits number is never
\* acknowledged and no part of it is written as if it were whole.
THEOREM OversizeFails == Spec => []OversizeNeverAcked
<1>1. ASSUME DInv PROVE OversizeNeverAcked
  <2> SUFFICES ASSUME NoIdReused, NEW t \in Transfers, Chunks[t] > IdLimit
               PROVE  outcome[t] # "ok" /\ ~ \E f \in files : f.src = t
    BY DEF OversizeNeverAcked
  <2>1. PICK caller \in Callers : History(caller)
    BY <1>1 DEF DInv, History
  <2>2. ~(Chunks[t] =< IdLimit)
    BY SerialPortAssumption
  <2>3. outcome[t] = "ok" => Arrived(t)
    BY <2>1 DEF History, OneCallEach, Answers
  <2> QED
    BY <2>1, <2>2, <2>3, HeldFits, Receiving DEF Written
<1> QED
  BY <1>1, DInvAlways, PTL

-----------------------------------------------------------------------------
(* Refinement: every step is one of FileDelivery, or none *)

WrittenFor(t) == \E f \in files : IsFileOf(f, t)

\* The outcome of a call is open until it releases its id.
Undecided ==
  \A t \in Transfers : pc[t] \notin {"release", "enq", "done"} => outcome[t] = "none"

LEMMA UndecidedStep == Inv /\ Undecided /\ [Next]_vars => Undecided'
<1> SUFFICES ASSUME Inv, Undecided, [Next]_vars PROVE Undecided'
  OBVIOUS
<1> USE DEF Undecided
<1>1. /\ pc \in [Transfers -> PCs]
      /\ outcome \in [Transfers -> {"none", "ok", "failed", "crashed"}]
  BY DEF Inv, TypeOK, ClientTypeOK
<1>2. CASE UNCHANGED <<pc, outcome>>
  BY <1>2
<1>3. ASSUME NEW t \in Transfers, NEW l \in PCs, pc' = [pc EXCEPT ![t] = l],
             \/ l \in {"release", "enq", "done"}
                /\ \E o : outcome' = [outcome EXCEPT ![t] = o]
             \/ UNCHANGED outcome /\
                (pc[t] \notin {"release", "enq", "done"} \/ l \in {"release", "enq", "done"})
      PROVE  Undecided'
  BY <1>1, <1>3
<1>4. ASSUME NEW t \in Transfers, AllocFileId(t) PROVE Undecided'
  BY <1>1, <1>4 DEF AllocFileId, Goto, Decide
<1>5. ASSUME NEW t \in Transfers, CreateDescriptor(t) \/ SendFileInfo(t) \/ FileIdArrived(t)
      PROVE  Undecided'
  BY <1>1, <1>5 DEF CreateDescriptor, SendFileInfo, FileIdArrived, StartLoop, Goto
<1>6. ASSUME NEW t \in Transfers, WaitTimeout(t) \/ WriteThrows(t) PROVE Undecided'
  BY <1>1, <1>6 DEF WaitTimeout, WriteThrows, Throw, Goto, Decide
<1>7. ASSUME NEW t \in Transfers, AwaitAnswer(t) \/ AnswerArrived(t) \/ AwaitAck(t)
      PROVE  Undecided'
  BY <1>1, <1>7 DEF AwaitAnswer, AnswerArrived, AwaitAck, Answered, StartLoop, Goto, Decide
<1>8. ASSUME NEW t \in Transfers, EraseDescriptor(t) \/ ReturnFileId(t) PROVE Undecided'
  BY <1>1, <1>8 DEF EraseDescriptor, ReturnFileId, Goto
<1>9. CASE ClientRestart
  BY <1>1, <1>9 DEF ClientRestart, Owning, Described
<1>10. ASSUME NEW t \in Transfers, SendChunk(t) PROVE Undecided'
  BY <1>2, <1>10 DEF SendChunk
<1>11. CASE ListenLookup \/ ListenSignal \/ ClientListenDies
  BY <1>2, <1>11 DEF ListenLookup, ListenSignal, ClientListenDies
<1> QED
  BY <1>2, <1>4, <1>5, <1>6, <1>7, <1>8, <1>9, <1>10, <1>11
  DEF Next, ClientNext, TransferStep, clientVars, vars

LEMMA UndecidedAlways == Spec => []Undecided
<1>1. Init => Undecided
  BY DEF Init, ClientInit, Undecided
<1> QED
  BY <1>1, UndecidedStep, InvAlways, PTL DEF Spec

\* What a step of the sending half can do to the state of a call.
CallMoves(t) ==
  \/ CallOf(t) = "idle" /\ CallOf(t)' \in {"running", "failed"}
  \/ CallOf(t) = "running" /\ CallOf(t)' = "failed"
  \/ CallOf(t) = "running" /\ CallOf(t)' = "ok" /\ Arrived(t)

LEMMA ClientEffects ==
  ASSUME NEW caller, History(caller), Undecided, ClientNext, ~ClientRestart
  PROVE  \/ \A u \in Transfers : CallOf(u)' = CallOf(u)
         \/ \E t \in Transfers : /\ CallMoves(t)
                                 /\ \A u \in Transfers \ {t} : CallOf(u)' = CallOf(u)
<1> USE DEF CallOf
<1>1. /\ pc \in [Transfers -> PCs]
      /\ outcome \in [Transfers -> {"none", "ok", "failed", "crashed"}]
  BY Typed DEF History
<1>2. CASE UNCHANGED <<pc, outcome>>
  BY <1>2
<1>3. ASSUME NEW t \in Transfers, NEW l \in PCs \ {"idle"}, pc[t] # "idle",
             pc' = [pc EXCEPT ![t] = l], UNCHANGED outcome
      PROVE  \A u \in Transfers : CallOf(u)' = CallOf(u)
  BY <1>1, <1>3
<1>4. ASSUME NEW t \in Transfers, NEW l \in PCs \ {"idle"}, outcome[t] = "none",
             pc' = [pc EXCEPT ![t] = l],
             \/ pc[t] = "idle" /\ UNCHANGED outcome
             \/ outcome' = [outcome EXCEPT ![t] = "failed"]
             \/ pc[t] # "idle" /\ outcome' = [outcome EXCEPT ![t] = "ok"] /\ Arrived(t)
      PROVE  CallMoves(t) /\ \A u \in Transfers \ {t} : CallOf(u)' = CallOf(u)
  BY <1>1, <1>4 DEF CallMoves
<1>5. ASSUME NEW t \in Transfers, AllocFileId(t)
      PROVE  CallMoves(t) /\ \A u \in Transfers \ {t} : CallOf(u)' = CallOf(u)
  BY <1>1, <1>4, <1>5 DEF AllocFileId, Goto, Decide, Undecided, PCs
<1>6. ASSUME NEW t \in Transfers, WaitTimeout(t) \/ WriteThrows(t)
      PROVE  CallMoves(t) /\ \A u \in Transfers \ {t} : CallOf(u)' = CallOf(u)
  <2>1. /\ pc' = [pc EXCEPT ![t] = "release"] /\ outcome' = [outcome EXCEPT ![t] = "failed"]
        /\ pc[t] \in {"created", "waitid", "sending", "waitans", "resending", "waitack"}
    BY <1>6 DEF WaitTimeout, TimedOut, WriteThrows, Throw, Goto, Decide
  <2> QED
    BY <1>4, <2>1 DEF Undecided, PCs
<1>7. ASSUME NEW t \in Transfers, AwaitAnswer(t) \/ AnswerArrived(t) \/ AwaitAck(t)
      PROVE  \/ \A u \in Transfers : CallOf(u)' = CallOf(u)
             \/ CallMoves(t) /\ \A u \in Transfers \ {t} : CallOf(u)' = CallOf(u)
  <2>1. /\ pc[t] \in Described /\ pc[t] \in {"sending", "waitans", "resending", "waitack"}
        /\ Desc(t).flag_recv_ack => Arrived(t)
    BY <1>7, Owned DEF AwaitAnswer, AnswerArrived, AwaitAck, Owning, Described
  <2>2. \/ pc' = [pc EXCEPT ![t] = "release"] /\ outcome' = [outcome EXCEPT ![t] = "ok"]
           /\ Desc(t).flag_recv_ack
        \/ UNCHANGED outcome /\ \E l \in {"resending", "waitans", "waitack"} : pc' = [pc EXCEPT ![t] = l]
    BY <1>7 DEF AwaitAnswer, AnswerArrived, AwaitAck, Answered, StartLoop, Goto, Decide
  <2> QED
    BY <1>3, <1>4, <2>1, <2>2 DEF Undecided, PCs
<1>8. ASSUME NEW t \in Transfers,
             \/ CreateDescriptor(t) \/ SendFileInfo(t) \/ FileIdArrived(t)
             \/ EraseDescriptor(t) \/ ReturnFileId(t)
      PROVE  \A u \in Transfers : CallOf(u)' = CallOf(u)
  BY <1>3, <1>8 DEF CreateDescriptor, SendFileInfo, FileIdArrived, EraseDescriptor, ReturnFileId,
                    StartLoop, Goto, PCs
<1>9. ASSUME NEW t \in Transfers, SendChunk(t) PROVE UNCHANGED <<pc, outcome>>
  BY <1>9 DEF SendChunk
<1>10. CASE ListenLookup \/ ListenSignal \/ ClientListenDies
  BY <1>2, <1>10 DEF ListenLookup, ListenSignal, ClientListenDies
<1> QED
  BY <1>2, <1>5, <1>6, <1>7, <1>8, <1>9, <1>10 DEF ClientNext, TransferStep

\* A step of the receiving half, or a lost frame, makes the file of one call arrive,
\* or writes one that has arrived, or neither.
Arrival ==
  UNCHANGED files /\ \E t \in Begun : \A u \in Transfers \ {t} : Arrived(u)' => Arrived(u)
NoArrival == \A u \in Transfers : Arrived(u)' => Arrived(u)
NoneWritten == \A u \in Transfers : WrittenFor(u)' <=> WrittenFor(u)
Writing ==
  \E t \in Transfers : /\ Arrived(t) /\ WrittenFor(t)'
                       /\ \A u \in Transfers \ {t} : WrittenFor(u)' <=> WrittenFor(u)

LEMMA ReceiverEffects ==
  ASSUME NEW caller, History(caller), UNCHANGED clientVars, ServerNext, ~ServerRestart
  PROVE  \/ Arrival
         \/ NoArrival /\ (NoneWritten \/ Writing)
<1> USE DEF History
<1>1. CASE UNCHANGED files /\ UNCHANGED s_file_management
  BY <1>1 DEF NoArrival, NoneWritten, Arrived, HeldFor, WrittenFor, IsFileOf, Indices
<1>2. CASE HandleFileInfo \/ HandleTunkData
  <2> DEFINE m == Head(toServer)
  <2>1. PICK t \in Begun, i \in FileIds : t \in Transfers /\ t = m.src /\ i = m.id /\ caller[i] = t
    <3>1. FromClient("FILEINFO") \/ FromClient("TUNKDATA")
      BY <1>2 DEF HandleFileInfo, HandleTunkData
    <3> QED
      BY <3>1, FrontFrame
  <2>2. \A j \in FileIds \ {i} : s_file_management'[j] = s_file_management[j]
    <3>1. \E d : s_file_management' = [s_file_management EXCEPT ![m.id] = d]
      BY <1>2 DEF HandleFileInfo, HandleTunkData
    <3> QED
      BY <2>1, <3>1, Typed
  <2>3. s_file_management'[i] # Nil => s_file_management'[i].src = t
    <3>1. Held(caller)'
      BY <1>2, FileInfoHeard, TunkHeard DEF OneCallEach
    <3> QED
      BY <2>1, <3>1 DEF Held
  <2>4. UNCHANGED files
    BY <1>2 DEF HandleFileInfo, HandleTunkData
  <2>5. ASSUME NEW u \in Transfers \ {t}, Arrived(u)' PROVE Arrived(u)
    BY <2>2, <2>3, <2>4, <2>5 DEF Arrived, HeldFor, IsFileOf, Indices
  <2> QED
    BY <2>4, <2>5 DEF Arrival
<1>3. ASSUME NEW due \in SUBSET Overdue, ManagePass(due) \/ \E i \in due : ManageDies(due, i)
      PROVE  NoArrival /\ NoneWritten
  <2>1. /\ UNCHANGED files /\ due \subseteq FileIds
        /\ \A i \in FileIds : s_file_management'[i] # Nil =>
             \/ s_file_management'[i] = s_file_management[i]
             \/ i \in due /\ s_file_management'[i] = Counted(s_file_management[i])
    BY <1>3 DEF ManagePass, ManageDies, Overdue
  <2>2. \A i \in due : s_file_management[i] # Nil /\ s_file_management[i] \in ServerDescriptors
    BY Typed DEF Overdue
  <2>3. \A d \in ServerDescriptors : \A u : IsFileOf(Counted(d), u) => IsFileOf(d, u)
    BY DEF Counted, ServerDescriptors, IsFileOf
  <2>4. ASSUME NEW u \in Transfers, NEW i \in FileIds, s_file_management'[i] # Nil,
               IsFileOf(s_file_management'[i], u)
        PROVE  s_file_management[i] # Nil /\ IsFileOf(s_file_management[i], u)
    BY <2>1, <2>2, <2>3, <2>4
  <2>5. NoArrival
    BY <2>1, <2>4 DEF NoArrival, Arrived, HeldFor, IsFileOf, Indices
  <2> QED
    BY <2>1, <2>5 DEF NoneWritten, WrittenFor, IsFileOf, Indices
<1>4. ASSUME NEW r \in Readers, ReceiveWrite(r) PROVE NoArrival /\ (NoneWritten \/ Writing)
  <2>1. CASE UNCHANGED <<files, s_file_management>>
    BY <1>1, <2>1 DEF NoArrival, NoneWritten, Arrived, HeldFor, WrittenFor, IsFileOf, Indices
  <2> DEFINE d == s_file_management[hand[r]]
  <2>2. CASE /\ d # Nil
             /\ files' = files \union {FileOf(d)}
             /\ s_file_management' = [s_file_management EXCEPT ![hand[r]] = Nil]
    <3>1. /\ s_file_management \in [FileIds -> ServerDescriptors \union {Nil}]
          /\ hand[r] \in FileIds /\ Whole(d) /\ d \in ServerDescriptors /\ WithinFile(d)
      BY <1>4, <2>2, Typed, Receiving DEF ReceiveWrite, InHand, Readable
    <3>2. IsFileOf(d, d.src) /\ d.src \in Transfers /\ Chunks[d.src] > 0
      <4>1. \A k \in Stored(d) : d.tunk_data[k] = d.src
        BY <2>2, <3>1, Receiving DEF Held
      <4> QED
        BY <3>1, <4>1, WholeIsFile DEF Whole, WithinFile, ServerDescriptors
    <3>3. PICK t \in Transfers : t = d.src /\ Arrived(t)
      BY <2>2, <3>1, <3>2 DEF Arrived, HeldFor
    <3>4. \A u : IsFileOf(FileOf(d), u) <=> IsFileOf(d, u)
      BY DEF FileOf, IsFileOf
    <3>5. \A u : IsFileOf(d, u) => u = t
      BY <3>3 DEF IsFileOf
    <3> HIDE DEF d
    <3>6. WrittenFor(t)' /\ \A u \in Transfers \ {t} : WrittenFor(u)' <=> WrittenFor(u)
      BY <2>2, <3>2, <3>3, <3>4, <3>5 DEF WrittenFor, IsFileOf, Indices
    <3>7. ASSUME NEW i \in FileIds, s_file_management'[i] # Nil
          PROVE  s_file_management[i] = s_file_management'[i]
      BY <2>2, <3>1, <3>7
    <3>8. NoArrival
      <4>1. ASSUME NEW u \in Transfers, Arrived(u)' PROVE Arrived(u)
        <5>1. Chunks[u] > 0
          BY <4>1 DEF Arrived
        <5>2. CASE \E f \in files' : IsFileOf(f, u)
          <6>1. CASE \E f \in files : IsFileOf(f, u)
            BY <5>1, <6>1 DEF Arrived, HeldFor
          <6>2. CASE IsFileOf(FileOf(d), u)
            BY <3>3, <3>4, <3>5, <6>2
          <6> QED
            BY <2>2, <5>2, <6>1, <6>2
        <5>3. CASE \E i \in FileIds : s_file_management'[i] # Nil /\ IsFileOf(s_file_management'[i], u)
          BY <3>7, <5>1, <5>3 DEF Arrived, HeldFor
        <5> QED
          BY <4>1, <5>2, <5>3 DEF Arrived, HeldFor, IsFileOf, Indices
      <4> QED
        BY <4>1 DEF NoArrival
    <3> QED
      BY <3>3, <3>6, <3>8 DEF Writing
  <2> QED
    BY <1>4, <2>1, <2>2 DEF ReceiveWrite, OpenFails
<1>5. CASE HandleBadTunk \/ Notify \/ ServerListenDies \/ \E r \in Readers : ReceiveDequeue(r)
  BY <1>1, <1>5 DEF HandleBadTunk, Notify, ServerListenDies, ReceiveDequeue, serverVars
<1> QED
  BY <1>2, <1>3, <1>4, <1>5 DEF ServerNext, HandleFrame

\* The state of FileDelivery that a state of SerialTransfer stands for.
Calls == [t \in Transfers |-> CallOf(t)]
Arrivals == [t \in Transfers |-> Chunks[t] > 0 /\ HeldFor(t)]
Writings == [t \in Transfers |-> \E f \in files : IsFileOf(f, t)]

LEMMA CallStep ==
  ASSUME NEW t \in Transfers, CallMoves(t), UNCHANGED <<Arrivals, Writings>>,
         \A u \in Transfers \ {t} : CallOf(u)' = CallOf(u)
  PROVE  D!Next
<1>1. ASSUME NEW to, CallOf(t)' = to PROVE Calls' = [Calls EXCEPT ![t] = to]
  BY <1>1 DEF Calls
<1>2. Calls[t] = CallOf(t) /\ (Arrived(t) => Arrivals[t])
  BY DEF Calls, Arrivals, Arrived
<1>3. D!Begin(t) \/ D!Refuse(t) \/ D!Fail(t) \/ D!Succeed(t)
  <2>1. CASE CallOf(t) = "idle" /\ CallOf(t)' = "running"
    BY <1>1, <1>2, <2>1 DEF D!Begin, D!Returns, Calls, Arrivals, Writings
  <2>2. CASE CallOf(t) = "idle" /\ CallOf(t)' = "failed"
    BY <1>1, <1>2, <2>2 DEF D!Refuse, D!Returns, Calls, Arrivals, Writings
  <2>3. CASE CallOf(t) = "running" /\ CallOf(t)' = "failed"
    BY <1>1, <1>2, <2>3 DEF D!Fail, D!Returns, Calls, Arrivals, Writings
  <2>4. CASE CallOf(t) = "running" /\ CallOf(t)' = "ok" /\ Arrived(t)
    BY <1>1, <1>2, <2>4 DEF D!Succeed, D!Returns, Calls, Arrivals, Writings
  <2> QED
    BY <2>1, <2>2, <2>3, <2>4 DEF CallMoves
<1> QED
  BY <1>3 DEF D!Next

LEMMA ArriveStep ==
  ASSUME NEW caller, History(caller), Arrival, NothingLost, UNCHANGED clientVars
  PROVE  [D!Next]_(D!vars)
<1>1. PICK t \in Begun : \A u \in Transfers \ {t} : Arrived(u)' => Arrived(u)
  BY DEF Arrival
<1>2. t \in Transfers /\ pc[t] # "idle" /\ UNCHANGED files
  BY DEF Begun, Arrival
<1>3. Calls' = Calls /\ Writings' = Writings
  BY <1>2 DEF Calls, CallOf, clientVars, Writings, IsFileOf, Indices
<1>4. \A u \in Transfers \ {t} : Arrived(u)' <=> Arrived(u)
  BY <1>1 DEF NothingLost
<1>5. CASE Arrived(t)' <=> Arrived(t)
  <2>1. \A u \in Transfers : Arrived(u)' <=> Arrived(u)
    BY <1>4, <1>5
  <2>2. Arrivals' = Arrivals
    BY <2>1 DEF Arrivals, Arrived
  <2> QED
    BY <1>3, <2>2 DEF D!vars, Calls, Arrivals, Writings
<1>6. CASE ~Arrived(t) /\ Arrived(t)'
  <2>1. Arrivals' = [Arrivals EXCEPT ![t] = TRUE] /\ ~Arrivals[t]
    BY <1>2, <1>4, <1>6 DEF Arrivals, Arrived
  <2>2. Calls[t] \in {"running", "failed"}
    <3>1. outcome[t] # "ok"
      BY <1>2, <1>6 DEF History, OneCallEach, Answers
    <3> QED
      BY <1>2, <3>1 DEF Calls, CallOf
  <2>3. D!Arrive(t)
    BY <1>3, <2>1, <2>2 DEF D!Arrive, Calls, Arrivals, Writings
  <2> QED
    BY <1>2, <2>3 DEF D!Next
<1> QED
  BY <1>2, <1>5, <1>6 DEF NothingLost

LEMMA WriteStep ==
  ASSUME NoArrival, NothingLost, NoneWritten \/ Writing, UNCHANGED clientVars
  PROVE  [D!Next]_(D!vars)
<1>1. Calls' = Calls
  BY DEF Calls, CallOf, clientVars
<1>2. Arrivals' = Arrivals
  <2>1. \A u \in Transfers : Arrived(u)' <=> Arrived(u)
    BY DEF NoArrival, NothingLost
  <2> QED
    BY <2>1 DEF Arrivals, Arrived
<1>3. CASE \A u \in Transfers : WrittenFor(u)' <=> WrittenFor(u)
  <2>1. Writings' = Writings
    BY <1>3 DEF Writings, WrittenFor
  <2> QED
    BY <1>1, <1>2, <2>1 DEF D!vars, Calls, Arrivals, Writings
<1>4. ASSUME NEW t \in Transfers, Arrived(t), WrittenFor(t)', ~WrittenFor(t),
             \A u \in Transfers \ {t} : WrittenFor(u)' <=> WrittenFor(u)
      PROVE  D!Next
  <2>1. Writings' = [Writings EXCEPT ![t] = TRUE] /\ ~Writings[t] /\ Arrivals[t]
    BY <1>4 DEF Writings, WrittenFor, Arrivals, Arrived
  <2>2. D!Write(t)
    BY <1>1, <1>2, <2>1 DEF D!Write, Calls, Arrivals, Writings
  <2> QED
    BY <2>2 DEF D!Next
<1> QED
  BY <1>3, <1>4 DEF NoneWritten, Writing

LEMMA DeliveryStep ==
  ASSUME DInv, Undecided, NoIdReused, NoIdReused', [Next]_vars
  PROVE  [D!Next]_(D!vars)
<1>1. PICK caller \in Callers : History(caller)
  BY DEF DInv, History
<1>2. ~ClientRestart /\ ~ServerRestart
  BY SerialPortAssumption DEF NoIdReused, ClientRestart, ServerRestart, Restart
<1>3. ASSUME UNCHANGED serverVars PROVE UNCHANGED <<Arrivals, Writings>>
  BY <1>3 DEF Arrivals, Writings, HeldFor, IsFileOf, Indices, serverVars
<1>4. CASE ClientNext /\ UNCHANGED serverVars
  <2>1. ASSUME \A u \in Transfers : CallOf(u)' = CallOf(u) PROVE UNCHANGED D!vars
    <3>1. Calls' = Calls
      BY <2>1 DEF Calls
    <3> QED
      BY <1>3, <1>4, <3>1 DEF D!vars, Calls, Arrivals, Writings
  <2> QED
    BY <1>1, <1>2, <1>3, <1>4, <2>1, ClientEffects, CallStep
<1>5. CASE ServerNext /\ UNCHANGED clientVars
  <2>1. NothingLost
    BY <1>1, <1>5, ReceiverStep
  <2> QED
    BY <1>1, <1>2, <1>5, <2>1, ReceiverEffects, ArriveStep, WriteStep
<1>6. CASE UNCHANGED <<clientVars, serverVars>>
  <2>1. Calls' = Calls
    BY <1>6 DEF Calls, CallOf, clientVars
  <2> QED
    BY <1>3, <1>6, <2>1 DEF D!vars, Calls, Arrivals, Writings
<1> QED
  BY <1>4, <1>5, <1>6 DEF Next, vars

\* As long as no id is used again, SerialTransfer implements FileDelivery: success only
\* after arrival, nothing that has arrived given up, nothing written that has not
\* arrived.
THEOREM DeliveryRefined == Spec /\ []NoIdReused => DeliversFiles
<1>1. ASSUME Init PROVE D!Init
  <2>1. Calls = [t \in Transfers |-> "idle"]
    BY <1>1 DEF Init, ClientInit, Calls, CallOf
  <2>2. \A t \in Transfers : ~HeldFor(t) /\ ~ \E f \in files : IsFileOf(f, t)
    BY <1>1 DEF Init, ServerInit, HeldFor
  <2>3. Arrivals = [t \in Transfers |-> FALSE] /\ Writings = [t \in Transfers |-> FALSE]
    BY <2>2 DEF Arrivals, Writings
  <2> QED
    BY <2>1, <2>3 DEF D!Init, Calls, Arrivals, Writings
<1> QED
  BY <1>1, DeliveryStep, DInvAlways, UndecidedAlways, PTL DEF Spec, DeliversFiles, D!Spec
=============================================================================
