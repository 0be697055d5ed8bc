--------------------------- MODULE SerialTransfer ---------------------------
(***************************************************************************)
(* File transfer over a serial line: the sending half and the receiving    *)
(* half of SerialFileTransfer, joined by the line, with lost frames,       *)
(* failing operations and restarts of either process.                      *)
(***************************************************************************)
EXTENDS SerialClient, SerialServer

vars == <<portVars, clientVars, serverVars>>

Init == PortInit /\ ClientInit /\ ServerInit

ClientNext ==
  \/ \E t \in Transfers : AllocFileId(t) \/ TransferStep(t) \/ WriteThrows(t)
  \/ ListenLookup \/ ListenSignal \/ ClientListenDies \/ ClientRestart

ServerNext ==
  \/ HandleFrame \/ ServerListenDies
  \/ \E due \in SUBSET Overdue : ManagePass(due) \/ \E i \in due : ManageDies(due, i)
  \/ \E r \in Readers : ReceiveDequeue(r) \/ ReceiveWrite(r)
  \/ ServerRestart

Next ==
  \/ ClientNext /\ UNCHANGED serverVars
  \/ ServerNext /\ UNCHANGED clientVars
  \/ LoseFrame /\ UNCHANGED <<clientVars, serverVars>>

\* Every thread that can go on does: a call of transfer() once it has its id,
\* its waits being timed; the listeners; the retransmission thread, which
\* finds a file overdue when no chunk comes for it; the threads of receive().
\* Nobody has to call transfer(), and no fault has to happen.
Fairness ==
  /\ \A t \in Transfers : WF_vars(TransferStep(t) /\ UNCHANGED serverVars)
  /\ WF_vars(ListenLookup /\ UNCHANGED serverVars)
  /\ WF_vars(ListenSignal /\ UNCHANGED serverVars)
  /\ WF_vars(HandleFrame /\ UNCHANGED clientVars)
  /\ \A i \in FileIds :
       WF_vars(/\ \E due \in SUBSET Overdue : i \in due /\ ManagePass(due)
               /\ UNCHANGED clientVars)
  /\ \A r \in Readers : WF_vars((ReceiveDequeue(r) \/ ReceiveWrite(r)) /\ UNCHANGED clientVars)

Spec == Init /\ [][Next]_vars /\ Fairness

-----------------------------------------------------------------------------
(* Safety *)

PortTypeOK ==
  /\ toServer \in Seq(ServerFrames)
  /\ toClient \in Seq(ClientFrames)
  /\ lost \in 0..MaxLoss
  /\ ioErrs \in 0..MaxIoErrs
  /\ restarts \in 0..MaxRestarts

ClientTypeOK ==
  /\ c_fileid_allocator \in Seq(FileIds)
  /\ c_file_management \in [FileIds -> ClientDescriptors \union {Nil}]
  /\ pc \in [Transfers -> PCs]
  /\ fid \in [Transfers -> FileIds \union {Nil}]
  /\ todo \in [Transfers -> SUBSET ChunkIds]
  /\ outcome \in [Transfers -> {"none", "ok", "failed", "crashed"}]
  /\ rx \in ClientFrames \union {Nil}
  /\ c_listening \in BOOLEAN

ServerTypeOK ==
  /\ s_file_management \in [FileIds -> ServerDescriptors \union {Nil}]
  /\ s_readable_fileid \in Seq(FileIds)
  /\ notifying \in BOOLEAN
  /\ reads \in Nat
  /\ hand \in [Readers -> FileIds \union {Nil}]
  /\ files \in SUBSET Files
  /\ s_listening \in BOOLEAN
  /\ s_managing \in BOOLEAN

\* Type invariant: ports, sending half, receiving half.  It says among others
\* that only ids of FILEID_RANGE are ever allocated, sent or queued.
TypeOK == PortTypeOK /\ ClientTypeOK /\ ServerTypeOK

Live(t) == pc[t] \in Owning
FreeIds == ToSet(c_fileid_allocator)

\* A file id belongs to one call of transfer() or is free, never both and never
\* twice, and the descriptors in c_file_management are exactly those of the
\* calls that have created theirs and not erased it.  So no call ever works on,
\* erases or is answered through the descriptor of another.
IdExclusive ==
  /\ IsInjective(c_fileid_allocator)
  /\ \A t \in Transfers : Live(t) <=> fid[t] # Nil
  /\ \A t \in Transfers : Live(t) => fid[t] \notin FreeIds
  /\ \A t, u \in Transfers : Live(t) /\ Live(u) /\ fid[t] = fid[u] => t = u
  /\ \A i \in FileIds : c_file_management[i] # Nil
                          <=> \E t \in Transfers : fid[t] = i /\ pc[t] \in Described

\* The id of a frame the listener delivers still has its descriptor: holding
\* c_file_management_lock keeps a call from erasing it meanwhile.
DeliveryHasDescriptor == rx # Nil => c_file_management[rx.id] # Nil

\* d holds exactly the file that call t sent.
IsFileOf(d, t) ==
  /\ d.src = t
  /\ d.tunk_size = Chunks[t]
  /\ \A k \in ChunkIds : d.tunk_data[k] = IF k \in Indices(t) THEN t ELSE Nil

\* The receiving side holds the file of call t whole, or has written it.
HeldFor(t) ==
  \/ \E f \in files : IsFileOf(f, t)
  \/ \E i \in FileIds : s_file_management[i] # Nil /\ IsFileOf(s_file_management[i], t)

\* No process has been restarted and the allocator has not gone round: no two
\* calls had the same id.  What a reused id does to a file that still waits to
\* be read is said in the README.
NoIdReused == restarts = 0 /\ Cardinality({t \in Transfers : pc[t] # "idle"}) =< NumIds

\* A file whose transfer() has reported success is never lost: it stays whole in
\* its descriptor until receive() has written it.
AckMeansStored == NoIdReused => \A t \in Transfers : outcome[t] = "ok" => HeldFor(t)

\* Every file receive() writes is whole and made of the chunks of one call.
DeliveredIntact == NoIdReused => \A f \in files : IsFileOf(f, f.src)

\* The descriptor d of the server has every chunk of its file.
Whole(d) == d # Nil /\ d.tunk_size > 0 /\ Missing(d) = {}

\* An id in the readable queue has all its chunks and is there, or in the hands
\* of a receive() call, only once.
Waiting == ToSet(s_readable_fileid)
InHand == {hand[r] : r \in Readers} \ {Nil}
ReadableIsComplete ==
  NoIdReused =>
    /\ \A i \in Waiting \union InHand : Whole(s_file_management[i])
    /\ Waiting \intersect InHand = {}
    /\ IsInjective(s_readable_fileid)
    /\ \A r, q \in Readers : hand[r] = hand[q] /\ hand[r] # Nil => r = q

\* Every complete file still has a READ event to come that will fetch it, but for
\* one per failed operation: a receive() that fails has used its event up.  The
\* event of the id queued last may be still to be published.
ReadableHasReader == Len(s_readable_fileid) =< reads + ioErrs + (IF notifying THEN 1 ELSE 0)

\* The complete files that nothing will fetch any more: their id neither waits in
\* the queue nor is in the hands of receive().
Stranded == {i \in FileIds : Whole(s_file_management[i]) /\ i \notin Waiting \union InHand}

\* A complete file is announced: a failed operation (the ACK, the output file)
\* leaves one behind at most, and nothing else does.
CompleteAnnounced == Cardinality(Stranded) =< ioErrs

\* A call is only asked for chunks its file has, so that the loop at :160 never
\* reads outside the vector tunk_data.
RetransInRange ==
  NoIdReused =>
    \A t \in Transfers : pc[t] \in Described => Desc(t).retrans_tunk_id \subseteq Indices(t)

\* A file of more chunks than two digits can number is never acknowledged and
\* never written: its transfer() fails, it is not cut short.
OversizeNeverAcked ==
  NoIdReused =>
    \A t \in Transfers : Chunks[t] > IdLimit =>
      outcome[t] # "ok" /\ ~ \E f \in files : f.src = t

-----------------------------------------------------------------------------
(* Liveness *)

\* The listener holds the map's lock and waits for the block_lock of a call that
\* holds it and waits for the map's lock.
LockCycle ==
  rx # Nil /\ \E t \in Transfers : fid[t] = rx.id /\ pc[t] = "release"

\* A call of transfer() that has an id returns, unless the listener and some
\* call wait for each other's lock.
ReturnsOrLockCycle ==
  \A t \in Transfers : (pc[t] \in Owning) ~> (pc[t] = "done" \/ LockCycle)

\* transfer() returns: its waits are limited to BLOCKING_TIMES each.
TransferReturns == \A t \in Transfers : (pc[t] \in Owning) ~> (pc[t] = "done")

\* An incomplete file does not stay for ever: its chunks come or the
\* retransmission thread gives it up.
DescriptorSettles == \A i \in FileIds : (i \in Overdue) ~> (i \notin Overdue)

-----------------------------------------------------------------------------
(* The transfer as its callers see it *)

CallOf(t) ==
  CASE pc[t] = "idle"                     -> "idle"
    [] outcome[t] \in {"ok", "failed"}    -> outcome[t]
    [] OTHER                              -> "running"

D == INSTANCE FileDelivery WITH
       call    <- [t \in Transfers |-> CallOf(t)],
       arrived <- [t \in Transfers |-> Chunks[t] > 0 /\ HeldFor(t)],
       written <- [t \in Transfers |-> \E f \in files : IsFileOf(f, t)]

\* Over a line that loses frames, the protocol keeps the promise of FileTransfer:
\* success only after arrival, nothing that has arrived given up, nothing written
\* that has not arrived.
DeliversFiles == D!Spec

\* A file that has arrived, whether its sender knows or not, is written by
\* receive().
ArrivedIsWritten == D!Progress
=============================================================================
