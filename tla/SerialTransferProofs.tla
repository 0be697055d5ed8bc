------------------------ MODULE SerialTransferProofs ------------------------
(***************************************************************************)
(* Proofs about SerialTransfer that hold whatever fails and restarts, for  *)
(* any number of calls, chunks, ids and readers: file ids, and with them   *)
(* the descriptors, are never shared by two calls of transfer(); each      *)
(* descriptor describes its file, and the files that become complete are   *)
(* announced and have a READ event to come, but for one per failure.       *)
(***************************************************************************)
EXTENDS SerialTransfer, QueueTheorems, FiniteSetTheorems

-----------------------------------------------------------------------------
(* The constants, and the sequences the actions build *)

LEMMA Ids ==
  /\ FileIds \subseteq Nat
  /\ IsFiniteSet(FileIds)
  /\ ChunkIds \subseteq Nat
  /\ \A t \in Transfers : Indices(t) \subseteq ChunkIds
  /\ MaxLoss \in Nat /\ MaxIoErrs \in Nat /\ MaxRestarts \in Nat
<1>1. NumIds \in Nat /\ \A t \in Transfers : Chunks[t] \in Nat
  BY SerialPortAssumption
<1>2. IsFiniteSet(FileIds)
  BY <1>1, FS_Interval DEF FileIds
<1>3. MaxLoss \in Nat /\ MaxIoErrs \in Nat /\ MaxRestarts \in Nat
  BY SerialPortAssumption
<1> QED
  BY <1>1, <1>2, <1>3 DEF FileIds, ChunkIds, Indices

\* The ids of the constructor are all there, each once.
LEMMA AllIdsOnce == AllIds \in Seq(FileIds) /\ IsInjective(AllIds)
<1>1. NumIds \in Nat
  BY SerialPortAssumption
<1>2. \A n \in 1..NumIds : n - 1 \in FileIds
  BY <1>1 DEF FileIds
<1> QED
  BY <1>1, <1>2 DEF AllIds, IsInjective

\* A frame taken from the front of a line, frames put at its end.
LEMMA LineTypes ==
  ASSUME NEW S, NEW q \in Seq(S)
  PROVE  /\ \A m \in S : Append(q, m) \in Seq(S)
         /\ \A r \in Seq(S) : q \o r \in Seq(S)
         /\ q # <<>> => Head(q) \in S /\ Tail(q) \in Seq(S)
         /\ Flushed(q) \subseteq Seq(S)
<1>1. \A n \in 1..(Len(q) + 1) : SubSeq(q, n, Len(q)) \in Seq(S)
  <2> SUFFICES ASSUME NEW n \in 1..(Len(q) + 1) PROVE SubSeq(q, n, Len(q)) \in Seq(S)
    OBVIOUS
  <2>1. Len(q) \in Nat /\ n \in Int /\ \A i \in n..Len(q) : q[i] \in S
    BY LenProperties, ElementOfSeq
  <2> QED
    BY <2>1, SubSeqProperties
<1>2. \A r \in Seq(S) : q \o r \in Seq(S)
  BY ConcatProperties
<1> QED
  BY <1>1, <1>2, AppendProperties, HeadTailProperties DEF Flushed

\* The requests of one pass of the retransmission thread are well formed.
LEMMA RetransTypes ==
  ASSUME PortTypeOK, NEW ask \in SUBSET FileIds, WriteRetrans(ask)
  PROVE  toClient' \in Seq(ClientFrames)
<1>1. Cardinality(ask) \in Nat
  BY Ids, FS_Subset, FS_CardinalityType
<1>2. PICK f \in InOrder(ask) : toClient' = toClient \o
        [n \in 1..Cardinality(ask) |->
           [cmd |-> "RETRANS", id |-> f[n], tunks |-> Missing(s_file_management[f[n]])]]
  BY DEF WriteRetrans
<1>3. \A n \in 1..Cardinality(ask) : f[n] \in FileIds
  BY <1>2 DEF InOrder
<1> DEFINE R(n) == [cmd |-> "RETRANS", id |-> f[n],
                    tunks |-> Missing(s_file_management[f[n]])]
<1>4. \A n \in 1..Cardinality(ask) : R(n) \in ClientFrames
  BY <1>3 DEF ClientFrames, RetransFrames, Missing
<1>5. [n \in 1..Cardinality(ask) |-> R(n)] \in Seq(ClientFrames)
  <2> HIDE DEF R
  <2> QED
    BY <1>1, <1>4
<1> QED
  BY <1>2, <1>5, LineTypes DEF PortTypeOK

-----------------------------------------------------------------------------
(* The inductive invariant: each conjunct needs the others, since a call    *)
(* writes frames with its id and reads its descriptor                       *)

Inv == TypeOK /\ IdExclusive /\ DeliveryHasDescriptor

\* A call that has its descriptor finds it under its id.
LEMMA DescriptorThere ==
  ASSUME Inv, NEW t \in Transfers, pc[t] \in Described
  PROVE  fid[t] \in FileIds /\ Desc(t) \in ClientDescriptors
  BY DEF Inv, TypeOK, ClientTypeOK, IdExclusive, Live, Owning, Desc

LEMMA InitInv == Init => Inv
<1> SUFFICES ASSUME Init PROVE Inv
  OBVIOUS
<1> USE SerialPortAssumption DEF Init
<1>1. PortTypeOK
  BY EmptySeq DEF PortInit, PortTypeOK
<1>2. ClientTypeOK
  BY AllIdsOnce DEF ClientInit, ClientTypeOK, PCs
<1>3. ServerTypeOK
  BY EmptySeq DEF ServerInit, ServerTypeOK
<1>4. IdExclusive
  BY AllIdsOnce DEF ClientInit, IdExclusive, Live, Owning, Described
<1>5. DeliveryHasDescriptor
  BY DEF ClientInit, DeliveryHasDescriptor
<1> QED
  BY <1>1, <1>2, <1>3, <1>4, <1>5 DEF Inv, TypeOK

-----------------------------------------------------------------------------
(* The sending half keeps the types *)

\* The steps of transfer() that start or end a loop, decide, or write a chunk.
LEMMA TransferTypes ==
  ASSUME Inv, NEW t \in Transfers, AllocFileId(t) \/ TransferStep(t) \/ WriteThrows(t)
  PROVE  PortTypeOK' /\ ClientTypeOK'
<1> USE DEF Inv, TypeOK, PortTypeOK, ClientTypeOK, PCs
<1>1. /\ pc[t] \in Described => fid[t] \in FileIds /\ Desc(t) \in ClientDescriptors
      /\ Indices(t) \subseteq ChunkIds /\ t \in Contents /\ Garbage \in Contents
      /\ Chunks[t] \in Nat
  BY DescriptorThere, Ids, SerialPortAssumption DEF Contents
<1>2. CASE AllocFileId(t)
  <2>1. CASE c_fileid_allocator = <<>>
    BY <1>2, <2>1 DEF AllocFileId, Goto, Decide, portVars
  <2>2. CASE c_fileid_allocator # <<>>
    <3>1. Head(c_fileid_allocator) \in FileIds /\ Tail(c_fileid_allocator) \in Seq(FileIds)
      BY <2>2, LineTypes
    <3> QED
      BY <1>2, <2>2, <3>1 DEF AllocFileId, Goto, portVars
  <2> QED
    BY <2>1, <2>2
<1>3. CASE CreateDescriptor(t)
  BY <1>3 DEF CreateDescriptor, Goto, FreshDescriptor, ClientDescriptors, portVars
<1>4. CASE SendFileInfo(t)
  <2>1. [cmd |-> "FILEINFO", id |-> fid[t], src |-> t, tunk_size |-> Chunks[t]] \in ServerFrames
    BY <1>1, <1>4 DEF SendFileInfo, Described, ServerFrames, FileInfoFrames
  <2> QED
    BY <1>1, <1>4, <2>1, LineTypes DEF SendFileInfo, WriteToServer, StartLoop, Goto, faults
<1>5. CASE FileIdArrived(t)
  BY <1>1, <1>5 DEF FileIdArrived, StartLoop, Goto, portVars
<1>6. ASSUME Throw(t), ioErrs' \in 0..MaxIoErrs PROVE PortTypeOK' /\ ClientTypeOK'
  BY <1>6 DEF Throw, Goto, Decide
<1>7. CASE WaitTimeout(t)
  BY <1>6, <1>7 DEF WaitTimeout
<1>8. CASE WriteThrows(t)
  <2>1. ioErrs' \in 0..MaxIoErrs
    BY <1>8, Ids DEF WriteThrows, IoError
  <2> QED
    BY <1>6, <1>8, <2>1 DEF WriteThrows
<1>9. CASE SendChunk(t)
  <2>1. ASSUME NEW k \in ChunkIds, NEW src \in Contents, WriteChunk(t, k, src)
        PROVE  toServer' \in Seq(ServerFrames)
    <3>1. [cmd |-> "TUNKDATA", id |-> fid[t], tunk |-> k, src |-> src] \in ServerFrames
      BY <1>1, <1>9 DEF SendChunk, Described, ServerFrames, TunkDataFrames
    <3> QED
      BY <2>1, <3>1, LineTypes DEF WriteChunk, WriteToServer
  <2>2. toServer' \in Seq(ServerFrames) /\ todo' \in [Transfers -> SUBSET ChunkIds]
    BY <1>1, <1>9, <2>1 DEF SendChunk
  <2> QED
    BY <1>9, <2>2 DEF SendChunk, faults
<1>10. ASSUME Answered(t), pc[t] \in Described
       PROVE  /\ pc' \in [Transfers -> PCs] /\ todo' \in [Transfers -> SUBSET ChunkIds]
              /\ outcome' \in [Transfers -> {"none", "ok", "failed", "crashed"}]
  BY <1>1, <1>10 DEF Answered, StartLoop, Goto, Decide, ClientDescriptors
<1>11. CASE AwaitAnswer(t)
  <2>1. CASE Answered(t)
    BY <1>10, <1>11, <2>1 DEF AwaitAnswer, Described, portVars
  <2>2. CASE ~Answered(t)
    BY <1>11, <2>2 DEF AwaitAnswer, StartLoop, Goto, portVars
  <2> QED
    BY <2>1, <2>2
<1>12. CASE AnswerArrived(t)
  BY <1>10, <1>12 DEF AnswerArrived, Described, portVars
<1>13. CASE AwaitAck(t)
  BY <1>13 DEF AwaitAck, Goto, Decide, portVars
<1>14. CASE EraseDescriptor(t)
  BY <1>14 DEF EraseDescriptor, Goto, portVars
<1>15. CASE ReturnFileId(t)
  <2>1. fid[t] \in FileIds
    BY <1>15 DEF ReturnFileId, IdExclusive, Live, Owning
  <2> QED
    BY <1>15, <2>1, LineTypes DEF ReturnFileId, Goto, portVars
<1> QED
  BY <1>2, <1>3, <1>4, <1>5, <1>7, <1>8, <1>9, <1>11, <1>12, <1>13, <1>14, <1>15
  DEF TransferStep

\* A frame delivered to a descriptor leaves a descriptor.
LEMMA DeliveredSomething ==
  ASSUME NEW d \in ClientDescriptors, NEW m \in ClientFrames
  PROVE  Delivered(d, m) \in ClientDescriptors
<1>1. m.cmd \in {"FILEID", "ACK"} \/ (m.cmd = "RETRANS" /\ m.tunks \in SUBSET ChunkIds)
  BY DEF ClientFrames, ReplyFrames, RetransFrames
<1> QED
  BY <1>1 DEF Delivered, ClientDescriptors

LEMMA ClientTypes ==
  ASSUME Inv, ClientNext
  PROVE  PortTypeOK' /\ ClientTypeOK'
<1> USE DEF Inv, TypeOK, PortTypeOK, ClientTypeOK, PCs
<1>1. CASE ListenLookup
  <2>1. toClient' \in Seq(ClientFrames) /\ Head(toClient) \in ClientFrames
    BY <1>1, LineTypes DEF ListenLookup
  <2> QED
    BY <1>1, <2>1 DEF ListenLookup, faults
<1>2. CASE ListenSignal
  <2> DEFINE d == c_file_management[rx.id]
  <2>1. rx \in ClientFrames /\ rx.id \in FileIds /\ d \in ClientDescriptors
    BY <1>2 DEF ListenSignal, DeliveryHasDescriptor, ClientFrames, ReplyFrames, RetransFrames
  <2>2. Delivered(d, rx) \in ClientDescriptors
    BY <2>1, DeliveredSomething
  <2> QED
    BY <1>2, <2>1, <2>2 DEF ListenSignal, portVars
<1>3. CASE ClientListenDies
  <2>1. ioErrs' \in 0..MaxIoErrs
    BY <1>3, Ids DEF ClientListenDies, IoError
  <2> QED
    BY <1>3, <2>1 DEF ClientListenDies
<1>4. CASE ClientRestart
  <2>1. toClient' \in Seq(ClientFrames) /\ restarts' \in 0..MaxRestarts
    BY <1>4, LineTypes, Ids DEF ClientRestart, Restart
  <2> QED
    BY <1>4, <2>1, AllIdsOnce DEF ClientRestart
<1> QED
  BY <1>1, <1>2, <1>3, <1>4, TransferTypes DEF ClientNext

-----------------------------------------------------------------------------
(* The receiving half keeps the types *)

LEMMA ListenTypes ==
  ASSUME Inv, HandleFrame
  PROVE  PortTypeOK' /\ ServerTypeOK'
<1> USE DEF Inv, TypeOK, PortTypeOK, ServerTypeOK
<1> DEFINE m == Head(toServer)
<1>1. ASSUME NEW cmd, FromClient(cmd)
      PROVE  toServer' \in Seq(ServerFrames) /\ m \in ServerFrames /\ m.cmd = cmd
  BY <1>1, LineTypes DEF FromClient
<1>2. ioErrs + 1 \in 0..MaxIoErrs \/ ~(ioErrs < MaxIoErrs)
  BY Ids
<1>3. ASSUME NEW i \in FileIds
      PROVE  Append(toClient, [cmd |-> "FILEID", id |-> i]) \in Seq(ClientFrames)
             /\ Append(toClient, [cmd |-> "ACK", id |-> i]) \in Seq(ClientFrames)
             /\ Append(s_readable_fileid, i) \in Seq(FileIds)
  BY LineTypes DEF ClientFrames, ReplyFrames
<1>4. CASE HandleFileInfo
  <2> DEFINE d == [src |-> m.src, tunk_size |-> m.tunk_size,
                   tunk_data |-> [k \in ChunkIds |-> Nil], retrans_cnt |-> 0]
  <2>1. toServer' \in Seq(ServerFrames) /\ m \in FileInfoFrames
    BY <1>1, <1>4 DEF HandleFileInfo, ServerFrames, FileInfoFrames, TunkDataFrames
  <2>2. d \in ServerDescriptors /\ m.id \in FileIds
    BY <2>1 DEF ServerDescriptors, FileInfoFrames
  <2>3. s_file_management' = [s_file_management EXCEPT ![m.id] = d]
    BY <1>4 DEF HandleFileInfo
  <2>4. /\ toClient' \in Seq(ClientFrames) /\ ioErrs' \in 0..MaxIoErrs
        /\ s_listening' \in BOOLEAN
    BY <1>2, <1>3, <1>4, <2>2 DEF HandleFileInfo, IoError
  <2> QED
    BY <1>4, <2>1, <2>2, <2>3, <2>4 DEF HandleFileInfo
<1>5. CASE HandleBadTunk
  <2>1. toServer' \in Seq(ServerFrames)
    BY <1>1, <1>5 DEF HandleBadTunk
  <2> QED
    BY <1>5, <2>1 DEF HandleBadTunk, faults, serverVars
<1>6. CASE HandleTunkData
  <2> DEFINE d == WithChunk(s_file_management[m.id], m)
  <2>1. toServer' \in Seq(ServerFrames) /\ m \in TunkDataFrames
    BY <1>1, <1>6 DEF HandleTunkData, ServerFrames, FileInfoFrames, TunkDataFrames
  <2>2. m.id \in FileIds /\ m.src \in Contents /\ m.tunk \in ChunkIds
        /\ s_file_management[m.id] \in ServerDescriptors
    BY <1>6, <2>1 DEF HandleTunkData, Accepts, TunkDataFrames
  <2>3. d \in ServerDescriptors
    BY <2>2 DEF WithChunk, ServerDescriptors
  <2>4. s_file_management' = [s_file_management EXCEPT ![m.id] = d]
    BY <1>6 DEF HandleTunkData
  <2>5. /\ toClient' \in Seq(ClientFrames) /\ ioErrs' \in 0..MaxIoErrs
        /\ s_readable_fileid' \in Seq(FileIds) /\ notifying' \in BOOLEAN
    <3>1. CASE Collected(d)
      <4>1. Announce(m.id)
        BY <1>6, <3>1 DEF HandleTunkData
      <4> QED
        BY <1>2, <1>3, <2>2, <4>1 DEF Announce, IoError
    <3>2. CASE ~Collected(d)
      BY <1>6, <3>2 DEF HandleTunkData
    <3> QED
      BY <3>1, <3>2
  <2> QED
    BY <1>6, <2>1, <2>2, <2>3, <2>4, <2>5 DEF HandleTunkData
<1>7. CASE Notify
  <2>1. ioErrs' \in 0..MaxIoErrs /\ reads' \in Nat
    BY <1>2, <1>7 DEF Notify, IoError
  <2> QED
    BY <1>7, <2>1 DEF Notify
<1> QED
  BY <1>4, <1>5, <1>6, <1>7 DEF HandleFrame

\* A file found overdue is incomplete, so it has a descriptor to count in.
LEMMA ManageTypes ==
  ASSUME Inv, NEW due \in SUBSET Overdue,
         ManagePass(due) \/ \E i \in due : ManageDies(due, i)
  PROVE  PortTypeOK' /\ ServerTypeOK'
<1> USE DEF Inv, TypeOK, PortTypeOK, ServerTypeOK
<1>1. /\ due \subseteq FileIds /\ Asked(due) \subseteq FileIds
      /\ \A i \in due : /\ s_file_management[i] \in ServerDescriptors
                        /\ Counted(s_file_management[i]) \in ServerDescriptors
  <2>1. due \subseteq FileIds /\ Asked(due) \subseteq FileIds
    BY DEF Overdue, Asked
  <2>2. \A i \in due : s_file_management[i] \in ServerDescriptors
    BY DEF Overdue
  <2>3. ASSUME NEW d \in ServerDescriptors PROVE Counted(d) \in ServerDescriptors
    <3>1. d.retrans_cnt + 1 \in Nat
      BY DEF ServerDescriptors
    <3> QED
      BY <3>1 DEF Counted, ServerDescriptors
  <2> QED
    BY <2>1, <2>2, <2>3
<1>2. CASE ManagePass(due)
  <2>1. toClient' \in Seq(ClientFrames)
    BY <1>1, <1>2, RetransTypes DEF ManagePass
  <2>2. s_file_management' \in [FileIds -> ServerDescriptors \union {Nil}]
    BY <1>1, <1>2 DEF ManagePass
  <2> QED
    BY <1>2, <2>1, <2>2 DEF ManagePass, faults
<1>3. ASSUME NEW i \in due, ManageDies(due, i) PROVE PortTypeOK' /\ ServerTypeOK'
  <2>1. toClient' \in Seq(ClientFrames)
    <3>1. {j \in Asked(due) : j < i} \in SUBSET FileIds
      BY <1>1
    <3>2. WriteRetrans({j \in Asked(due) : j < i})
      BY <1>3 DEF ManageDies
    <3> QED
      BY <3>1, <3>2, RetransTypes
  <2>2. s_file_management' \in [FileIds -> ServerDescriptors \union {Nil}]
    BY <1>1, <1>3 DEF ManageDies
  <2>3. ioErrs' \in 0..MaxIoErrs
    BY <1>3, Ids DEF ManageDies, IoError
  <2> QED
    BY <1>3, <2>1, <2>2, <2>3 DEF ManageDies
<1> QED
  BY <1>2, <1>3

LEMMA ReceiveTypes ==
  ASSUME Inv, NEW r \in Readers, ReceiveDequeue(r) \/ ReceiveWrite(r)
  PROVE  PortTypeOK' /\ ServerTypeOK'
<1> USE DEF Inv, TypeOK, PortTypeOK, ServerTypeOK
<1>1. ioErrs' \in 0..MaxIoErrs
  BY Ids DEF ReceiveDequeue, ReceiveWrite, OpenFails, IoError
<1>2. CASE ReceiveDequeue(r)
  <2>1. reads' \in Nat
    BY <1>2 DEF ReceiveDequeue
  <2>2. /\ hand' \in [Readers -> FileIds \union {Nil}]
        /\ s_readable_fileid' \in Seq(FileIds)
    <3>1. s_readable_fileid # <<>> => /\ Head(s_readable_fileid) \in FileIds
                                     /\ Tail(s_readable_fileid) \in Seq(FileIds)
      BY LineTypes
    <3> QED
      BY <1>2, <3>1 DEF ReceiveDequeue
  <2> QED
    BY <1>1, <1>2, <2>1, <2>2 DEF ReceiveDequeue
<1>3. CASE ReceiveWrite(r)
  <2> DEFINE d == s_file_management[hand[r]]
  <2>1. hand[r] \in FileIds
    BY <1>3 DEF ReceiveWrite
  <2>2. d # Nil => FileOf(d) \in Files
    BY <2>1 DEF FileOf, Files, ServerDescriptors
  <2>3. /\ files' \in SUBSET Files
        /\ s_file_management' \in [FileIds -> ServerDescriptors \union {Nil}]
    BY <1>3, <2>1, <2>2 DEF ReceiveWrite, OpenFails
  <2> QED
    BY <1>1, <1>3, <2>3 DEF ReceiveWrite
<1> QED
  BY <1>2, <1>3

LEMMA ServerTypes ==
  ASSUME Inv, ServerNext
  PROVE  PortTypeOK' /\ ServerTypeOK'
<1> USE DEF Inv, TypeOK, PortTypeOK, ServerTypeOK
<1>1. CASE ServerListenDies
  <2>1. ioErrs' \in 0..MaxIoErrs
    BY <1>1, Ids DEF ServerListenDies, IoError
  <2> QED
    BY <1>1, <2>1 DEF ServerListenDies
<1>2. CASE ServerRestart
  <2>1. toServer' \in Seq(ServerFrames) /\ restarts' \in 0..MaxRestarts /\ reads' \in Nat
    BY <1>2, LineTypes, Ids DEF ServerRestart, Restart
  <2>2. s_readable_fileid' \in Seq(FileIds)
    BY <1>2, EmptySeq DEF ServerRestart
  <2> QED
    BY <1>2, <2>1, <2>2 DEF ServerRestart
<1> QED
  BY <1>1, <1>2, ListenTypes, ManageTypes, ReceiveTypes DEF ServerNext

LEMMA LoseTypes == Inv /\ LoseFrame => PortTypeOK'
<1> SUFFICES ASSUME Inv, LoseFrame PROVE PortTypeOK'
  OBVIOUS
<1> USE DEF Inv, TypeOK, PortTypeOK
<1>1. toServer' \in Seq(ServerFrames) /\ toClient' \in Seq(ClientFrames)
  BY LineTypes DEF LoseFrame
<1>2. lost' \in 0..MaxLoss
  BY Ids DEF LoseFrame
<1> QED
  BY <1>1, <1>2 DEF LoseFrame

-----------------------------------------------------------------------------
(* Ids and descriptors *)

IdInv == IdExclusive /\ DeliveryHasDescriptor

\* A step of a call between its creating its descriptor and its erasing it, and
\* a step of the listener, leave ids and descriptors with their owners.
LEMMA SameOwners ==
  ASSUME Inv, UNCHANGED <<c_fileid_allocator, fid>>,
         \A t \in Transfers : /\ pc[t] \in Described <=> pc'[t] \in Described
                              /\ pc[t] \in Owning <=> pc'[t] \in Owning,
         \A i \in FileIds : c_file_management[i] = Nil <=> c_file_management'[i] = Nil,
         rx' = Nil \/ (rx' \in ClientFrames /\ c_file_management[rx'.id] # Nil)
  PROVE  IdInv'
<1>1. rx' # Nil => rx'.id \in FileIds
  BY DEF ClientFrames, ReplyFrames, RetransFrames
<1>2. IdExclusive'
  <2>1. FreeIds' = FreeIds
    BY DEF FreeIds
  <2> QED
    BY <2>1 DEF Inv, IdExclusive, Live
<1> QED
  BY <1>1, <1>2 DEF IdInv, DeliveryHasDescriptor

\* A call dequeues an id that no other has, and gives it back when its descriptor
\* is gone.
LEMMA TransferIds ==
  ASSUME Inv, NEW t \in Transfers, AllocFileId(t) \/ TransferStep(t) \/ WriteThrows(t)
  PROVE  IdInv'
<1> USE DEF Inv, IdInv, TypeOK, ClientTypeOK, Live, Owning, Described
<1>1. CASE AllocFileId(t)
  <2>1. CASE c_fileid_allocator = <<>>
    <3>1. UNCHANGED <<c_fileid_allocator, fid, c_file_management, rx>>
      BY <1>1, <2>1 DEF AllocFileId
    <3>2. pc' = [pc EXCEPT ![t] = "done"] /\ pc[t] = "idle"
      BY <1>1, <2>1 DEF AllocFileId, Goto
    <3> QED
      BY <3>1, <3>2, SameOwners DEF DeliveryHasDescriptor
  <2>2. CASE c_fileid_allocator # <<>>
    <3> DEFINE h == Head(c_fileid_allocator)
    <3>1. /\ h \in FileIds /\ h \in FreeIds /\ IsInjective(c_fileid_allocator')
          /\ FreeIds' = FreeIds \ {h}
      <4>1. /\ h \in FileIds /\ FreeIds = {h} \union ToSet(Tail(c_fileid_allocator))
            /\ IsInjective(Tail(c_fileid_allocator)) /\ h \notin ToSet(Tail(c_fileid_allocator))
        BY <2>2, DequeueElements DEF FreeIds, IdExclusive
      <4>2. c_fileid_allocator' = Tail(c_fileid_allocator)
        BY <1>1, <2>2 DEF AllocFileId
      <4> QED
        BY <4>1, <4>2 DEF FreeIds
    <3>2. /\ pc[t] = "idle" /\ pc' = [pc EXCEPT ![t] = "alloc"]
          /\ fid' = [fid EXCEPT ![t] = h] /\ UNCHANGED <<c_file_management, rx>>
      BY <1>1, <2>2 DEF AllocFileId, Goto
    <3>3. \A u \in Transfers : Live(u) => fid[u] # h
      BY <3>1 DEF IdExclusive
    <3>4. h # Nil
      BY <3>1, SerialPortAssumption DEF FileIds
    <3>5. IdExclusive'
      BY <3>1, <3>2, <3>3, <3>4 DEF IdExclusive
    <3> QED
      BY <3>2, <3>5 DEF DeliveryHasDescriptor
  <2> QED
    BY <2>1, <2>2
<1>2. CASE CreateDescriptor(t)
  <2>1. /\ pc[t] = "alloc" /\ pc' = [pc EXCEPT ![t] = "created"]
        /\ c_file_management' = [c_file_management EXCEPT ![fid[t]] = FreshDescriptor]
        /\ UNCHANGED <<c_fileid_allocator, fid, rx>>
    BY <1>2 DEF CreateDescriptor, Goto
  <2>2. fid[t] \in FileIds /\ FreshDescriptor # Nil
    <3>1. FreshDescriptor \in ClientDescriptors
      BY DEF FreshDescriptor, ClientDescriptors
    <3> QED
      BY <2>1, <3>1, SerialClientAssumption DEF IdExclusive
  <2>3. IdExclusive'
    BY <2>1, <2>2 DEF IdExclusive, FreeIds
  <2> QED
    BY <1>2, <2>1, <2>3 DEF CreateDescriptor, MapFree, DeliveryHasDescriptor
<1>3. ASSUME UNCHANGED <<c_fileid_allocator, c_file_management, fid, rx>>,
             pc[t] \in Described, NEW l \in Described, pc' = [pc EXCEPT ![t] = l]
      PROVE  IdInv'
  BY <1>3, SameOwners DEF DeliveryHasDescriptor
<1>4. CASE SendFileInfo(t) \/ FileIdArrived(t)
  BY <1>3, <1>4 DEF SendFileInfo, FileIdArrived, StartLoop, Goto
<1>5. ASSUME pc[t] \in Described, Throw(t) PROVE IdInv'
  BY <1>3, <1>5 DEF Throw, Goto
<1>6. CASE WaitTimeout(t) \/ WriteThrows(t)
  BY <1>5, <1>6 DEF WaitTimeout, TimedOut, WriteThrows
<1>7. CASE SendChunk(t)
  BY <1>7, SameOwners DEF SendChunk, DeliveryHasDescriptor
<1>8. CASE AwaitAnswer(t) \/ AnswerArrived(t) \/ AwaitAck(t)
  BY <1>3, <1>8 DEF AwaitAnswer, AnswerArrived, AwaitAck, Answered, StartLoop, Goto
<1>9. CASE EraseDescriptor(t)
  <2>1. /\ pc[t] = "release" /\ pc' = [pc EXCEPT ![t] = "enq"]
        /\ c_file_management' = [c_file_management EXCEPT ![fid[t]] = Nil]
        /\ UNCHANGED <<c_fileid_allocator, fid, rx>>
    BY <1>9 DEF EraseDescriptor, Goto
  <2>2. IdExclusive'
    BY <2>1 DEF IdExclusive, FreeIds
  <2> QED
    BY <1>9, <2>1, <2>2 DEF EraseDescriptor, MapFree, DeliveryHasDescriptor
<1>10. CASE ReturnFileId(t)
  <2>1. /\ pc[t] = "enq" /\ pc' = [pc EXCEPT ![t] = "done"]
        /\ fid' = [fid EXCEPT ![t] = Nil] /\ UNCHANGED <<c_file_management, rx>>
    BY <1>10 DEF ReturnFileId, Goto
  <2>2. fid[t] \in FileIds /\ fid[t] \notin FreeIds
    BY <2>1 DEF IdExclusive
  <2>3. FreeIds' = FreeIds \union {fid[t]} /\ IsInjective(c_fileid_allocator')
    BY <1>10, <2>2, EnqueueElements DEF ReturnFileId, FreeIds, IdExclusive
  <2>4. IdExclusive'
    BY <2>1, <2>2, <2>3 DEF IdExclusive
  <2> QED
    BY <2>1, <2>4 DEF DeliveryHasDescriptor
<1> QED
  BY <1>1, <1>2, <1>4, <1>6, <1>7, <1>8, <1>9, <1>10 DEF TransferStep

\* The listener looks an id up and delivers to it in two steps, between which it
\* keeps the lock that EraseDescriptor needs.
LEMMA ClientIds ==
  ASSUME Inv, ClientNext
  PROVE  IdInv'
<1> USE DEF Inv, TypeOK, ClientTypeOK
<1>1. CASE ListenLookup
  <2> DEFINE m == Head(toClient)
  <2>1. m \in ClientFrames
    BY <1>1, LineTypes DEF ListenLookup, PortTypeOK
  <2>2. rx' = Nil \/ (rx' = m /\ c_file_management[m.id] # Nil)
    BY <1>1 DEF ListenLookup
  <2> QED
    BY <1>1, <2>1, <2>2, SameOwners DEF ListenLookup
<1>2. CASE ListenSignal
  <2> DEFINE d == c_file_management[rx.id]
  <2>1. rx \in ClientFrames /\ rx.id \in FileIds /\ d \in ClientDescriptors
    BY <1>2 DEF ListenSignal, DeliveryHasDescriptor, ClientFrames, ReplyFrames, RetransFrames
  <2>2. d # Nil /\ Delivered(d, rx) # Nil
    BY <2>1, DeliveredSomething, SerialClientAssumption
  <2>3. \A i \in FileIds : c_file_management[i] = Nil <=> c_file_management'[i] = Nil
    BY <1>2, <2>1, <2>2 DEF ListenSignal
  <2> QED
    BY <1>2, <2>3, SameOwners DEF ListenSignal
<1>3. CASE ClientListenDies
  BY <1>3, SameOwners DEF ClientListenDies, DeliveryHasDescriptor
<1>4. CASE ClientRestart
  <2>1. \A t \in Transfers : pc'[t] \notin Owning /\ fid'[t] = Nil
    BY <1>4 DEF ClientRestart, Owning, Described
  <2>2. IdExclusive'
    BY <1>4, <2>1, AllIdsOnce, SerialPortAssumption
    DEF ClientRestart, IdExclusive, Live, Owning, FileIds
  <2> QED
    BY <1>4, <2>2 DEF ClientRestart, IdInv, DeliveryHasDescriptor
<1> QED
  BY <1>1, <1>2, <1>3, <1>4, TransferIds DEF ClientNext

\* Nothing else touches them.
LEMMA ClientAlone == Inv /\ UNCHANGED clientVars => ClientTypeOK' /\ IdInv'
<1> SUFFICES ASSUME Inv, UNCHANGED clientVars PROVE ClientTypeOK' /\ IdInv'
  OBVIOUS
<1>1. ClientTypeOK'
  BY DEF Inv, TypeOK, ClientTypeOK, clientVars
<1>2. IdInv'
  BY DEF Inv, IdInv, IdExclusive, DeliveryHasDescriptor, Live, FreeIds, clientVars
<1> QED
  BY <1>1, <1>2

LEMMA InvStep == Inv /\ [Next]_vars => Inv'
<1> SUFFICES ASSUME Inv, [Next]_vars PROVE Inv'
  OBVIOUS
<1>1. UNCHANGED serverVars => ServerTypeOK'
  BY DEF Inv, TypeOK, ServerTypeOK, serverVars
<1>2. UNCHANGED portVars => PortTypeOK'
  BY DEF Inv, TypeOK, PortTypeOK, portVars
<1>3. CASE ClientNext /\ UNCHANGED serverVars
  BY <1>1, <1>3, ClientTypes, ClientIds DEF Inv, IdInv, TypeOK
<1>4. CASE ServerNext /\ UNCHANGED clientVars
  BY <1>4, ServerTypes, ClientAlone DEF Inv, IdInv, TypeOK
<1>5. CASE LoseFrame /\ UNCHANGED <<clientVars, serverVars>>
  BY <1>1, <1>5, LoseTypes, ClientAlone DEF Inv, IdInv, TypeOK
<1>6. CASE UNCHANGED vars
  BY <1>1, <1>2, <1>6, ClientAlone DEF Inv, IdInv, TypeOK, vars
<1> QED
  BY <1>3, <1>4, <1>5, <1>6 DEF Next

LEMMA InvAlways == Spec => []Inv
  BY InitInv, InvStep, PTL DEF Spec

-----------------------------------------------------------------------------
\* The variables keep their types: only ids of FILEID_RANGE and chunk ids of some
\* file are ever sent, queued or stored.
THEOREM TypeCorrect == Spec => []TypeOK
  BY InvAlways, PTL DEF Inv

\* No two calls of transfer() ever share a file id or a descriptor, and no id is
\* lost, whatever the line, the ports and the restarts do.
THEOREM IdsExclusive == Spec => []IdExclusive
  BY InvAlways, PTL DEF Inv

\* The listener never delivers a frame to a descriptor that its call has erased.
THEOREM DeliveryFindsDescriptor == Spec => []DeliveryHasDescriptor
  BY InvAlways, PTL DEF Inv

-----------------------------------------------------------------------------
(* Descriptors and file infos describe their files, whatever happens *)

\* The chunks that d holds are of its file, and have ids that a frame carries.
WithinFile(d) ==
  /\ d.tunk_size = Chunks[d.src]
  /\ \A k \in Stored(d) : k < d.tunk_size /\ k < IdLimit

DescribeFiles ==
  /\ \A m \in ToSet(toServer) : m.cmd = "FILEINFO" => m.tunk_size = Chunks[m.src]
  /\ \A i \in FileIds : s_file_management[i] # Nil => WithinFile(s_file_management[i])

-----------------------------------------------------------------------------
(* Facts about descriptors, lines and queues *)

\* The chunks stored are those of the file exactly when their number is the size:
\* the comparison of tunk_data.size() with tunk_size is right.
LEMMA CountingChunks ==
  ASSUME NEW d \in ServerDescriptors, WithinFile(d)
  PROVE  /\ Stored(d) \subseteq Indices(d.src) /\ Missing(d) = Indices(d.src) \ Stored(d)
         /\ Collected(d) <=> Missing(d) = {}
         /\ Incomplete(d) <=> Missing(d) # {}
<1> DEFINE I == Indices(d.src)
<1>1. d.src \in Transfers /\ Chunks[d.src] \in Nat /\ d.tunk_size = Chunks[d.src]
  BY SerialPortAssumption DEF ServerDescriptors, WithinFile
<1>2. I \subseteq ChunkIds /\ \A k \in ChunkIds : k \in Nat
  BY <1>1, Ids
<1>3. Stored(d) \subseteq I /\ Missing(d) = I \ Stored(d)
  BY <1>1, <1>2 DEF WithinFile, Stored, Missing, Indices
<1>4. IsFiniteSet(I) /\ Cardinality(I) = d.tunk_size
  <2> DEFINE c == Chunks[d.src] - 1
  <2>1. 0 \in Int /\ c \in Int
    BY <1>1
  <2>2. IsFiniteSet(0..c) /\ Cardinality(0..c) = IF 0 > c THEN 0 ELSE c - 0 + 1
    BY ONLY <2>1, FS_Interval
  <2> QED
    BY <1>1, <2>2 DEF Indices
<1>5. /\ Cardinality(Stored(d)) \in Nat /\ Cardinality(Stored(d)) =< d.tunk_size
      /\ Cardinality(Stored(d)) = d.tunk_size <=> Stored(d) = I
  BY <1>3, <1>4, FS_Subset, FS_CardinalityType
<1> QED
  BY <1>1, <1>3, <1>5 DEF Collected, Incomplete

\* Frames that are read or lost leave the others.
LEMMA FrameTaken ==
  ASSUME NEW S, NEW q \in Seq(S), q # <<>>
  PROVE  Head(q) \in ToSet(q) /\ ToSet(Tail(q)) \subseteq ToSet(q)
BY DequeueElements

LEMMA FlushedElements ==
  ASSUME NEW S, NEW q \in Seq(S), NEW r \in Flushed(q)
  PROVE  ToSet(r) \subseteq ToSet(q)
<1>1. PICK n \in 1..(Len(q) + 1) : r = SubSeq(q, n, Len(q))
  BY DEF Flushed
<1>2. Len(q) \in Nat /\ n \in Int /\ DOMAIN q = 1..Len(q) /\ \A i \in n..Len(q) : q[i] \in S
  BY LenProperties, ElementOfSeq
<1>3. /\ r \in Seq(S) /\ Len(r) = IF n =< Len(q) THEN Len(q) - n + 1 ELSE 0
      /\ \A i \in 1..(Len(q) - n + 1) : r[i] = q[n + i - 1]
  BY <1>1, <1>2, SubSeqProperties
<1>4. DOMAIN r = 1..(Len(q) - n + 1)
  <2>1. DOMAIN r = 1..Len(r)
    BY <1>3, LenProperties
  <2>2. Len(r) = Len(q) - n + 1
    BY <1>2, <1>3
  <2> QED
    BY <2>1, <2>2
<1>5. \A i \in DOMAIN r : n + i - 1 \in DOMAIN q /\ r[i] = q[n + i - 1]
  <2> SUFFICES ASSUME NEW i \in DOMAIN r
               PROVE  n + i - 1 \in DOMAIN q /\ r[i] = q[n + i - 1]
    OBVIOUS
  <2>1. i \in 1..(Len(q) - n + 1) /\ n \in 1..(Len(q) + 1)
    BY <1>4
  <2>2. n + i - 1 \in 1..Len(q)
    BY <1>2, <2>1
  <2> QED
    BY <1>2, <1>3, <2>1, <2>2
<1> QED
  BY <1>5 DEF ToSet

-----------------------------------------------------------------------------
(* DescribeFiles is kept *)

\* Only the thread of transfer() writes to the line to the server.
LEMMA OthersWriteNothing ==
  ASSUME ClientNext,
         ~ \E t \in Transfers : SendFileInfo(t) \/ SendChunk(t),
         toServer' # toServer
  PROVE  FALSE
BY DEF ClientNext, TransferStep, AllocFileId, CreateDescriptor, FileIdArrived, WaitTimeout,
       WriteThrows, Throw, AwaitAnswer, AnswerArrived, AwaitAck, EraseDescriptor,
       ReturnFileId, ListenLookup, ListenSignal, ClientListenDies, ClientRestart, portVars

LEMMA ClientDescribes ==
  ASSUME Inv, DescribeFiles, ClientNext, UNCHANGED serverVars
  PROVE  DescribeFiles'
<1> USE DEF DescribeFiles
<1>1. toServer \in Seq(ServerFrames) /\ UNCHANGED s_file_management
  BY DEF Inv, TypeOK, PortTypeOK, serverVars
<1>2. ASSUME NEW m \in ServerFrames, toServer' = Append(toServer, m),
             m.cmd = "FILEINFO" => m.tunk_size = Chunks[m.src]
      PROVE  DescribeFiles'
  <2>1. ToSet(toServer') = ToSet(toServer) \union {m}
    BY <1>1, <1>2, EnqueueElements
  <2> QED
    BY <1>1, <1>2, <2>1 DEF WithinFile, Stored
<1>3. ASSUME NEW t \in Transfers, SendFileInfo(t) PROVE DescribeFiles'
  <2> DEFINE m == [cmd |-> "FILEINFO", id |-> fid[t], src |-> t, tunk_size |-> Chunks[t]]
  <2>1. fid[t] \in FileIds /\ Chunks[t] \in Nat
    BY <1>3, DescriptorThere, SerialPortAssumption DEF SendFileInfo, Described
  <2>2. m \in ServerFrames
    BY <2>1 DEF ServerFrames, FileInfoFrames
  <2> QED
    BY <1>2, <1>3, <2>2 DEF SendFileInfo, WriteToServer
<1>4. ASSUME NEW t \in Transfers, SendChunk(t) PROVE DescribeFiles'
  <2>1. fid[t] \in FileIds /\ todo[t] \subseteq ChunkIds
    BY <1>4, DescriptorThere DEF SendChunk, Described, Inv, TypeOK, ClientTypeOK
  <2>2. ASSUME NEW k \in ChunkIds, NEW src \in Contents, WriteChunk(t, k, src)
        PROVE  DescribeFiles'
    <3> DEFINE m == [cmd |-> "TUNKDATA", id |-> fid[t], tunk |-> k, src |-> src]
    <3>1. m \in ServerFrames
      BY <2>1 DEF ServerFrames, TunkDataFrames
    <3> QED
      BY <1>2, <2>2, <3>1 DEF WriteChunk, WriteToServer
  <2>3. CASE UNCHANGED toServer
    BY <1>1, <2>3 DEF WithinFile, Stored
  <2> QED
    BY <1>4, <2>1, <2>2, <2>3 DEF SendChunk, Contents
<1>5. CASE UNCHANGED toServer
  BY <1>1, <1>5 DEF WithinFile, Stored
<1> QED
  BY <1>3, <1>4, <1>5, OthersWriteNothing

\* The steps of the receiving half that change a descriptor leave one of the file.
LEMMA ServerDescribes ==
  ASSUME Inv, DescribeFiles, ServerNext
  PROVE  DescribeFiles'
<1> USE DEF DescribeFiles
<1>1. /\ toServer \in Seq(ServerFrames)
      /\ s_file_management \in [FileIds -> ServerDescriptors \union {Nil}]
      /\ Nil \notin ServerDescriptors
  BY SerialServerAssumption DEF Inv, TypeOK, PortTypeOK, ServerTypeOK
<1>2. ASSUME ToSet(toServer') \subseteq ToSet(toServer),
             \A i \in FileIds : s_file_management'[i] # Nil =>
               \/ s_file_management'[i] = s_file_management[i]
               \/ WithinFile(s_file_management'[i])
      PROVE  DescribeFiles'
  BY <1>2 DEF WithinFile, Stored
<1>3. ASSUME NEW cmd, FromClient(cmd)
      PROVE  /\ ToSet(toServer') \subseteq ToSet(toServer)
             /\ Head(toServer) \in ToSet(toServer) /\ Head(toServer).cmd = cmd
             /\ Head(toServer) \in ServerFrames
  BY <1>1, <1>3, FrameTaken, LineTypes DEF FromClient
<1>4. ASSUME NEW d \in ServerDescriptors, WithinFile(d) PROVE WithinFile(Counted(d))
  BY <1>4 DEF Counted, WithinFile, Stored, ServerDescriptors
<1>5. CASE HandleFileInfo
  <2> DEFINE m == Head(toServer)
             d == [src |-> m.src, tunk_size |-> m.tunk_size,
                   tunk_data |-> [k \in ChunkIds |-> Nil], retrans_cnt |-> 0]
  <2>1. m.tunk_size = Chunks[m.src] /\ m.id \in FileIds
    BY <1>3, <1>5 DEF HandleFileInfo, ServerFrames, FileInfoFrames, TunkDataFrames
  <2>2. WithinFile(d)
    BY <2>1 DEF WithinFile, Stored
  <2>3. s_file_management' = [s_file_management EXCEPT ![m.id] = d]
    BY <1>5 DEF HandleFileInfo
  <2>4. \A i \in FileIds : s_file_management'[i] = s_file_management[i]
                           \/ s_file_management'[i] = d
    BY <1>1, <2>3
  <2>5. FromClient("FILEINFO")
    BY <1>5 DEF HandleFileInfo
  <2> QED
    BY <1>2, <1>3, <2>2, <2>4, <2>5
<1>6. CASE HandleBadTunk
  BY <1>2, <1>3, <1>6 DEF HandleBadTunk, serverVars
<1>7. CASE HandleTunkData
  <2> DEFINE m == Head(toServer)
             e == s_file_management[m.id]
             d == WithChunk(e, m)
  <2>1. /\ m \in TunkDataFrames /\ e \in ServerDescriptors /\ WithinFile(e)
        /\ m.tunk < e.tunk_size /\ m.tunk < IdLimit
    BY <1>1, <1>3, <1>7 DEF HandleTunkData, Accepts, Parses, ServerFrames, FileInfoFrames,
                            TunkDataFrames
  <2>2. d.tunk_size = e.tunk_size /\ d.src = e.src
        /\ \A k \in ChunkIds : k # m.tunk => d.tunk_data[k] = e.tunk_data[k]
    BY <2>1 DEF WithChunk, ServerDescriptors
  <2>3. WithinFile(d)
    BY <2>1, <2>2 DEF WithinFile, Stored
  <2>4. s_file_management' = [s_file_management EXCEPT ![m.id] = d]
    BY <1>7 DEF HandleTunkData
  <2> HIDE DEF d
  <2>5. \A i \in FileIds : s_file_management'[i] = s_file_management[i]
                           \/ s_file_management'[i] = d
    BY <1>1, <2>4
  <2>6. FromClient("TUNKDATA")
    BY <1>7 DEF HandleTunkData
  <2> QED
    BY <1>2, <1>3, <2>3, <2>5, <2>6
<1>8. CASE Notify
  BY <1>2, <1>8 DEF Notify
<1>9. ASSUME NEW due \in SUBSET Overdue, ManagePass(due) \/ \E i \in due : ManageDies(due, i)
      PROVE  DescribeFiles'
  <2>1. \A i \in FileIds : s_file_management'[i] # Nil =>
          \/ s_file_management'[i] = s_file_management[i]
          \/ i \in due /\ s_file_management'[i] = Counted(s_file_management[i])
    BY <1>9 DEF ManagePass, ManageDies
  <2>2. \A i \in due : s_file_management[i] \in ServerDescriptors /\ i \in FileIds
    BY <1>1 DEF Overdue
  <2>3. UNCHANGED toServer
    BY <1>9 DEF ManagePass, ManageDies
  <2>4. ASSUME NEW i \in FileIds, s_file_management'[i] # Nil
        PROVE  s_file_management'[i] = s_file_management[i] \/ WithinFile(s_file_management'[i])
    <3>1. CASE i \in due /\ s_file_management'[i] = Counted(s_file_management[i])
      <4>1. s_file_management[i] \in ServerDescriptors /\ s_file_management[i] # Nil
        BY <1>1, <2>2, <3>1
      <4>2. WithinFile(s_file_management[i])
        BY <4>1
      <4> QED
        BY ONLY <1>4, <3>1, <4>1, <4>2
    <3> QED
      BY <2>1, <2>4, <3>1
  <2>5. ToSet(toServer') \subseteq ToSet(toServer)
    BY <2>3
  <2> QED
    BY ONLY <1>2, <2>4, <2>5
<1>10. ASSUME NEW r \in Readers, ReceiveDequeue(r) \/ ReceiveWrite(r) PROVE DescribeFiles'
  <2>1. \A i \in FileIds : s_file_management'[i] # Nil =>
          s_file_management'[i] = s_file_management[i]
    BY <1>1, <1>10 DEF ReceiveDequeue, ReceiveWrite, OpenFails
  <2> QED
    BY <1>2, <1>10, <2>1 DEF ReceiveDequeue, ReceiveWrite
<1>11. CASE ServerListenDies
  BY <1>2, <1>11 DEF ServerListenDies
<1>12. CASE ServerRestart
  BY <1>1, <1>2, <1>12, FlushedElements DEF ServerRestart
<1> QED
  BY <1>5, <1>6, <1>7, <1>8, <1>9, <1>10, <1>11, <1>12 DEF ServerNext, HandleFrame

LEMMA DescribeStep ==
  ASSUME Inv, DescribeFiles, [Next]_vars
  PROVE  DescribeFiles'
<1>1. CASE LoseFrame /\ UNCHANGED <<clientVars, serverVars>>
  <2>1. ToSet(toServer') \subseteq ToSet(toServer) /\ UNCHANGED s_file_management
    BY <1>1, FrameTaken DEF LoseFrame, serverVars, Inv, TypeOK, PortTypeOK
  <2> QED
    BY <2>1 DEF DescribeFiles, WithinFile, Stored
<1>2. CASE UNCHANGED vars
  BY <1>2 DEF DescribeFiles, WithinFile, Stored, vars, portVars, serverVars
<1> QED
  BY <1>1, <1>2, ClientDescribes, ServerDescribes DEF Next

LEMMA DescribeAlways == Spec => []DescribeFiles
<1>1. Init => DescribeFiles
  BY DEF Init, PortInit, ServerInit, DescribeFiles, ToSet
<1> QED
  BY <1>1, DescribeStep, InvAlways, PTL DEF Spec

-----------------------------------------------------------------------------
(* What a failed operation can leave behind, whatever happens *)

LEMMA FailuresCount ==
  ASSUME Inv, [Next]_vars
  PROVE  ioErrs \in Nat /\ ioErrs' \in Nat /\ (ioErrs' = ioErrs \/ ioErrs' = ioErrs + 1)
<1>1. ClientNext => ioErrs' = ioErrs \/ ioErrs' = ioErrs + 1
  BY DEF ClientNext, TransferStep, AllocFileId, CreateDescriptor, SendFileInfo, FileIdArrived,
         WaitTimeout, WriteThrows, IoError, SendChunk, AwaitAnswer, AnswerArrived, AwaitAck,
         EraseDescriptor, ReturnFileId, ListenLookup, ListenSignal, ClientListenDies,
         ClientRestart, portVars, faults
<1>2. ServerNext => ioErrs' = ioErrs \/ ioErrs' = ioErrs + 1
  BY DEF ServerNext, HandleFrame, HandleFileInfo, HandleBadTunk, HandleTunkData, Announce,
         Notify, ServerListenDies, ManagePass, ManageDies, ReceiveDequeue, ReceiveWrite, OpenFails,
         ServerRestart, IoError, faults
<1>3. ioErrs \in Nat
  BY DEF Inv, TypeOK, PortTypeOK
<1> QED
  BY <1>1, <1>2, <1>3 DEF Next, LoseFrame, vars, portVars

LEMMA ReaderStep ==
  ASSUME Inv, ReadableHasReader, [Next]_vars
  PROVE  ReadableHasReader'
<1> USE DEF ReadableHasReader
<1>1. /\ s_readable_fileid \in Seq(FileIds) /\ Len(s_readable_fileid) \in Nat
      /\ reads \in Nat /\ ioErrs \in Nat /\ ioErrs' \in Nat /\ ioErrs =< ioErrs'
      /\ notifying \in BOOLEAN /\ notifying' \in BOOLEAN
  BY FailuresCount, InvStep, LenProperties DEF Inv, TypeOK, ServerTypeOK
<1>2. Len(<<>>) = 0
  BY EmptySeq
<1>3. \A m, n \in Nat : 0 =< m + n + (IF notifying' THEN 1 ELSE 0)
  OBVIOUS
<1>4. CASE UNCHANGED <<s_readable_fileid, notifying, reads>>
  BY <1>1, <1>4
\* The id is queued first, then its event raised.
<1>5. CASE HandleTunkData
  <2>1. CASE /\ s_readable_fileid' = Append(s_readable_fileid, Head(toServer).id)
             /\ ~notifying /\ notifying' /\ UNCHANGED reads
    <3>1. Len(s_readable_fileid') = Len(s_readable_fileid) + 1
      BY <1>1, <2>1, AppendProperties
    <3> QED
      BY <1>1, <2>1, <3>1
  <2> QED
    BY <1>4, <1>5, <2>1 DEF HandleTunkData, Announce, FromClient
<1>6. CASE Notify
  <2>1. /\ notifying /\ ~notifying' /\ UNCHANGED s_readable_fileid
        /\ reads' = reads + 1 \/ (ioErrs' = ioErrs + 1 /\ reads' = reads)
    BY <1>6 DEF Notify, IoError
  <2> QED
    BY <1>1, <2>1
<1>7. ASSUME NEW r \in Readers, ReceiveDequeue(r) PROVE ReadableHasReader'
  <2>1. reads > 0 /\ reads' = reads - 1 /\ UNCHANGED notifying
    BY <1>7 DEF ReceiveDequeue
  <2>2. CASE s_readable_fileid # <<>> /\ s_readable_fileid' = Tail(s_readable_fileid)
    <3>1. Len(s_readable_fileid') = Len(s_readable_fileid) - 1
      BY <1>1, <2>2, HeadTailProperties
    <3> QED
      BY <1>1, <2>1, <3>1
  <2>3. CASE s_readable_fileid = <<>> /\ UNCHANGED s_readable_fileid
    <3>1. reads' \in Nat /\ Len(s_readable_fileid') = 0
      BY <1>1, <1>2, <2>1, <2>3
    <3> QED
      BY <1>1, <1>3, <3>1
  <2>4. CASE ioErrs' = ioErrs + 1 /\ UNCHANGED s_readable_fileid
    BY <1>1, <2>1, <2>4
  <2> QED
    BY <1>7, <2>2, <2>3, <2>4 DEF ReceiveDequeue, IoError
<1>8. CASE ServerRestart
  <2>1. Len(s_readable_fileid') = 0 /\ reads' \in Nat
    BY <1>1, <1>2, <1>8 DEF ServerRestart
  <2> QED
    BY <1>1, <1>3, <2>1
<1> QED
  BY <1>4, <1>5, <1>6, <1>7, <1>8
  DEF Next, ServerNext, HandleFrame, HandleFileInfo, HandleBadTunk, ServerListenDies, ManagePass,
      ManageDies, ReceiveWrite, LoseFrame, serverVars, vars

\* Every id in the readable queue has a READ event to come, but for one per failed
\* operation, whatever fails and restarts.
THEOREM ReadersSuffice == Spec => []ReadableHasReader
<1>1. Init => ReadableHasReader
  BY EmptySeq DEF Init, PortInit, ServerInit, ReadableHasReader
<1> QED
  BY <1>1, ReaderStep, InvAlways, PTL DEF Spec

\* The number of files left behind grows with a failure only, and by one.
LEMMA StrandedByOne ==
  ASSUME CompleteAnnounced, ioErrs \in Nat,
         NEW x,
         \/ ioErrs' \in Nat /\ ioErrs =< ioErrs' /\ Stranded' \subseteq Stranded
         \/ ioErrs' = ioErrs + 1 /\ Stranded' \subseteq Stranded \union {x}
  PROVE  CompleteAnnounced'
<1> USE DEF CompleteAnnounced
<1>1. IsFiniteSet(Stranded) /\ Cardinality(Stranded) \in Nat
  BY Ids, FS_Subset, FS_CardinalityType DEF Stranded
<1>2. CASE ioErrs' \in Nat /\ ioErrs =< ioErrs' /\ Stranded' \subseteq Stranded
  <2>1. IsFiniteSet(Stranded') /\ Cardinality(Stranded') =< Cardinality(Stranded)
    BY <1>1, <1>2, FS_Subset
  <2>2. Cardinality(Stranded') \in Nat
    BY <2>1, FS_CardinalityType
  <2> QED
    BY <1>1, <1>2, <2>1, <2>2
<1>3. CASE ioErrs' = ioErrs + 1 /\ Stranded' \subseteq Stranded \union {x}
  <2> DEFINE more == Stranded \union {x}
  <2>1. /\ IsFiniteSet(more)
        /\ Cardinality(more) = Cardinality(Stranded) \/ Cardinality(more) = Cardinality(Stranded) + 1
    BY <1>1, FS_AddElement
  <2>2. IsFiniteSet(Stranded') /\ Cardinality(Stranded') =< Cardinality(more)
    BY <1>3, <2>1, FS_Subset
  <2>3. Cardinality(Stranded') \in Nat /\ Cardinality(more) \in Nat
    BY <2>1, <2>2, FS_CardinalityType
  <2> QED
    BY <1>1, <1>3, <2>1, <2>2, <2>3
<1> QED
  BY <1>2, <1>3

LEMMA StrandedStep ==
  ASSUME Inv, DescribeFiles, CompleteAnnounced, [Next]_vars
  PROVE  CompleteAnnounced'
<1>1. /\ toServer \in Seq(ServerFrames)
      /\ s_file_management \in [FileIds -> ServerDescriptors \union {Nil}]
      /\ s_readable_fileid \in Seq(FileIds) /\ hand \in [Readers -> FileIds \union {Nil}]
      /\ Nil \notin ServerDescriptors
  BY SerialServerAssumption DEF Inv, TypeOK, PortTypeOK, ServerTypeOK
<1>2. /\ ioErrs \in Nat /\ ioErrs' \in Nat /\ ioErrs =< ioErrs'
      /\ \A i \in FileIds : s_file_management[i] # Nil => WithinFile(s_file_management[i])
      /\ \A i \in FileIds : s_file_management'[i] # Nil => WithinFile(s_file_management'[i])
  BY FailuresCount, DescribeStep DEF DescribeFiles
<1>3. ASSUME Stranded' \subseteq Stranded PROVE CompleteAnnounced'
  BY <1>2, <1>3, StrandedByOne
<1>4. ASSUME NEW x, Stranded' \subseteq Stranded \union {x}, ioErrs' = ioErrs + 1
      PROVE  CompleteAnnounced'
  BY <1>2, <1>4, StrandedByOne
<1>5. CASE UNCHANGED <<s_file_management, s_readable_fileid, hand>>
  BY <1>3, <1>5 DEF Stranded, Whole, Missing, Stored, Waiting, InHand
<1>6. ASSUME NEW cmd, FromClient(cmd)
      PROVE  Head(toServer) \in ServerFrames /\ Head(toServer).cmd = cmd
  BY <1>1, <1>6, LineTypes DEF FromClient
<1>7. CASE HandleFileInfo
  <2> DEFINE m == Head(toServer)
             d == [src |-> m.src, tunk_size |-> m.tunk_size,
                   tunk_data |-> [k \in ChunkIds |-> Nil], retrans_cnt |-> 0]
  <2>1. m \in FileInfoFrames
    BY <1>6, <1>7 DEF HandleFileInfo, ServerFrames, FileInfoFrames, TunkDataFrames
  <2>2. /\ s_file_management' = [s_file_management EXCEPT ![m.id] = d]
        /\ UNCHANGED <<s_readable_fileid, hand>>
    BY <1>7 DEF HandleFileInfo
  <2>3. d \in ServerDescriptors /\ m.id \in FileIds
    BY <2>1 DEF ServerDescriptors, FileInfoFrames
  <2>4. WithinFile(d)
    BY <1>1, <1>2, <2>2, <2>3
  <2>5. Stored(d) = {} /\ d.tunk_size = Chunks[d.src] /\ Chunks[d.src] \in Nat
    BY <2>3, <2>4, SerialPortAssumption DEF Stored, WithinFile, ServerDescriptors
  <2>6. ~Whole(d)
    BY <2>3, <2>4, <2>5, CountingChunks DEF Whole, Indices
  <2> HIDE DEF d
  <2> QED
    BY <1>1, <1>3, <2>2, <2>3, <2>6 DEF Stranded, Waiting, InHand, Whole, Missing, Stored
<1>8. CASE HandleTunkData
  <2> DEFINE m == Head(toServer)
             d == WithChunk(s_file_management[m.id], m)
  <2>1. m \in TunkDataFrames /\ s_file_management[m.id] # Nil
    BY <1>6, <1>8 DEF HandleTunkData, Accepts, ServerFrames, FileInfoFrames, TunkDataFrames
  <2>2. /\ s_file_management' = [s_file_management EXCEPT ![m.id] = d] /\ UNCHANGED hand
        /\ Collected(d) => Announce(m.id)
        /\ ~Collected(d) => UNCHANGED s_readable_fileid
    BY <1>8 DEF HandleTunkData
  <2>3. m.id \in FileIds /\ d \in ServerDescriptors
    BY <1>1, <2>1 DEF WithChunk, ServerDescriptors, TunkDataFrames, Contents
  <2> HIDE DEF d
  <2>4. WithinFile(d)
    BY <1>1, <1>2, <2>2, <2>3
  <2>5. Whole(d) => Collected(d)
    BY <2>3, <2>4, CountingChunks DEF Whole
  <2>6. CASE ~Collected(d)
    BY <1>1, <1>3, <2>2, <2>3, <2>5, <2>6 DEF Stranded, Waiting, InHand, Whole, Missing, Stored
  <2>7. CASE Collected(d) /\ s_readable_fileid' = Append(s_readable_fileid, m.id)
    <3>1. Waiting' = Waiting \union {m.id}
      BY <1>1, <2>3, <2>7, EnqueueElements DEF Waiting
    <3> QED
      BY <1>1, <1>3, <2>2, <2>3, <3>1 DEF Stranded, InHand, Whole, Missing, Stored
  <2>8. CASE Collected(d) /\ ioErrs' = ioErrs + 1 /\ UNCHANGED s_readable_fileid
    <3>1. Stranded' \subseteq Stranded \union {m.id}
      BY <1>1, <2>2, <2>3, <2>8 DEF Stranded, Waiting, InHand, Whole, Missing, Stored
    <3> QED
      BY <1>4, <2>8, <3>1
  <2> QED
    BY <2>2, <2>6, <2>7, <2>8 DEF Announce, IoError
<1>9. ASSUME NEW due \in SUBSET Overdue, ManagePass(due) \/ \E i \in due : ManageDies(due, i)
      PROVE  CompleteAnnounced'
  <2>1. UNCHANGED <<s_readable_fileid, hand>>
    BY <1>9 DEF ManagePass, ManageDies
  <2>2. ASSUME NEW i \in FileIds, Whole(s_file_management'[i]) PROVE Whole(s_file_management[i])
    <3>1. \/ s_file_management'[i] = s_file_management[i]
          \/ i \in due /\ s_file_management'[i] = Counted(s_file_management[i])
      BY <1>9, <2>2 DEF ManagePass, ManageDies, Whole
    <3>2. ASSUME NEW d \in ServerDescriptors, Whole(Counted(d)) PROVE Whole(d)
      BY <1>1, <3>2 DEF Whole, Counted, Missing, Stored, ServerDescriptors
    <3>3. i \in due => s_file_management[i] \in ServerDescriptors
      BY <1>1 DEF Overdue
    <3> QED
      BY <2>2, <3>1, <3>2, <3>3
  <2> QED
    BY <1>3, <2>1, <2>2 DEF Stranded, Waiting, InHand
<1>10. ASSUME NEW r \in Readers, ReceiveDequeue(r) PROVE CompleteAnnounced'
  <2>1. CASE UNCHANGED <<s_readable_fileid, hand>>
    BY <1>5, <1>10, <2>1 DEF ReceiveDequeue
  <2>2. CASE /\ s_readable_fileid # <<>>
             /\ hand' = [hand EXCEPT ![r] = Head(s_readable_fileid)]
             /\ s_readable_fileid' = Tail(s_readable_fileid)
    <3>1. Waiting = {Head(s_readable_fileid)} \union Waiting'
      BY <1>1, <2>2, DequeueElements DEF Waiting
    <3>2. InHand \subseteq InHand' /\ Head(s_readable_fileid) \in InHand'
      <4>1. hand[r] = Nil /\ Head(s_readable_fileid) # Nil
        BY <1>1, <1>10, <2>2, LineTypes, SerialPortAssumption DEF ReceiveDequeue, FileIds
      <4> QED
        BY <1>1, <2>2, <4>1 DEF InHand
    <3> QED
      BY <1>3, <1>10, <3>1, <3>2 DEF ReceiveDequeue, Stranded, Whole, Missing, Stored
  <2> QED
    BY <1>10, <2>1, <2>2 DEF ReceiveDequeue
<1>11. ASSUME NEW r \in Readers, ReceiveWrite(r) PROVE CompleteAnnounced'
  <2>1. hand[r] \in FileIds /\ hand' = [hand EXCEPT ![r] = Nil] /\ UNCHANGED s_readable_fileid
    BY <1>1, <1>11 DEF ReceiveWrite
  <2>2. InHand \subseteq InHand' \union {hand[r]}
    BY <1>1, <2>1 DEF InHand
  <2>3. CASE s_file_management' = [s_file_management EXCEPT ![hand[r]] = Nil]
    BY <1>1, <1>3, <2>1, <2>2, <2>3 DEF Stranded, Waiting, Whole, Missing, Stored
  <2>4. CASE s_file_management[hand[r]] = Nil /\ UNCHANGED s_file_management
    BY <1>1, <1>3, <2>1, <2>2, <2>4 DEF Stranded, Waiting, Whole, Missing, Stored
  <2>5. CASE ioErrs' = ioErrs + 1 /\ UNCHANGED s_file_management
    <3>1. Stranded' \subseteq Stranded \union {hand[r]}
      BY <1>1, <2>1, <2>2, <2>5 DEF Stranded, Waiting, Whole, Missing, Stored
    <3> QED
      BY <1>4, <2>5, <3>1
  <2> QED
    BY <1>11, <2>3, <2>4, <2>5 DEF ReceiveWrite, OpenFails, IoError
<1>12. CASE ServerRestart
  <2>1. Stranded' = {}
    BY <1>12 DEF ServerRestart, Stranded, Whole
  <2> QED
    BY <1>3, <2>1
<1> QED
  BY <1>5, <1>7, <1>8, <1>9, <1>10, <1>11, <1>12
  DEF Next, ServerNext, HandleFrame, HandleBadTunk, Notify, ServerListenDies, LoseFrame, serverVars,
      vars

\* Every complete file waits to be read or is being read, but for one per failed
\* operation, whatever fails and restarts.
THEOREM FilesAnnounced == Spec => []CompleteAnnounced
<1>1. Init => CompleteAnnounced
  <2> SUFFICES ASSUME Init PROVE CompleteAnnounced
    OBVIOUS
  <2>1. Stranded = {}
    BY DEF Init, ServerInit, Stranded, Whole
  <2>2. Cardinality({}) = 0 /\ ioErrs = 0
    BY FS_EmptySet DEF Init, PortInit
  <2> QED
    BY <2>1, <2>2 DEF CompleteAnnounced
<1> QED
  BY <1>1, StrandedStep, InvAlways, DescribeAlways, PTL DEF Spec

=============================================================================
