---------------------------- MODULE SerialClient ----------------------------
(***************************************************************************)
(* The sending half of SerialFileTransfer: the threads that run transfer() *)
(* and the listening thread, which hands FILEID, ACK and RETRANS to them.  *)
(*                                                                         *)
(* Two locks matter.  c_file_management_lock is held across steps only by  *)
(* the listener, exactly while rx # Nil.  The block_lock of a descriptor   *)
(* is held by its transfer() thread in the states of HoldingBlock.         *)
(***************************************************************************)
EXTENDS SerialPort

VARIABLES
  c_fileid_allocator,  \* SafeQueue of free file ids
  c_file_management,   \* file id -> descriptor of the running transfer, or Nil
  pc,                  \* where each transfer() call is
  fid,                 \* its file_id
  todo,                \* chunks its current loop has still to write
  outcome,             \* ret.status, once decided
  rx,                  \* frame the listener delivers, holding the map's lock
  c_listening          \* the listening thread has not died of an exception

clientVars == <<c_fileid_allocator, c_file_management, pc, fid, todo, outcome,
                rx, c_listening>>

ClientDescriptors ==
  [flag_recv_fileid : BOOLEAN, flag_recv_ack : BOOLEAN,
   flag_recv_retrans : BOOLEAN, retrans_tunk_id : SUBSET ChunkIds]

FreshDescriptor ==
  [flag_recv_fileid |-> FALSE, flag_recv_ack |-> FALSE,
   flag_recv_retrans |-> FALSE, retrans_tunk_id |-> {}]

ASSUME SerialClientAssumption ==
  Nil \notin ClientDescriptors /\ Nil \notin ClientFrames

PCs == {"idle", "alloc", "created", "waitid", "sending", "waitans",
        "resending", "waitack", "release", "enq", "done"}

\* The states in which a call has its descriptor in c_file_management.
Described == {"created", "waitid", "sending", "waitans", "resending",
              "waitack", "release"}
\* The states in which a call owns a file id.
Owning == Described \union {"alloc", "enq"}
\* The states in which a call holds the block_lock of its descriptor.
HoldingBlock == {"sending", "resending", "release"}

\* Seeded fault: the loop of the constructor runs to FILEID_RANGE[1] inclusive.
AllIdsInclusive == [n \in 1..(NumIds + 1) |-> n - 1]

\* The ids the constructor puts in the allocator.
AllIds == [n \in 1..NumIds |-> n - 1]

ClientInit ==
  /\ c_fileid_allocator = AllIds
  /\ c_file_management = [i \in FileIds |-> Nil]
  /\ pc = [t \in Transfers |-> "idle"]
  /\ fid = [t \in Transfers |-> Nil]
  /\ todo = [t \in Transfers |-> {}]
  /\ outcome = [t \in Transfers |-> "none"]
  /\ rx = Nil
  /\ c_listening = TRUE

MapFree == rx = Nil
Desc(t) == c_file_management[fid[t]]
Indices(t) == 0..(Chunks[t] - 1)
NextChunk(t, k) == k \in todo[t] /\ \A j \in todo[t] : k =< j

Goto(t, l) == pc' = [pc EXCEPT ![t] = l]
Decide(t, o) == outcome' = [outcome EXCEPT ![t] = o]
WriteToServer(frame) == toServer' = Append(toServer, frame)

-----------------------------------------------------------------------------
(* transfer() *)

\* dequeue an id without blocking; an empty allocator fails the call.
AllocFileId(t) ==
  /\ pc[t] = "idle"
  /\ IF c_fileid_allocator = <<>>
     THEN /\ Goto(t, "done")
          /\ Decide(t, "failed")
          /\ UNCHANGED <<c_fileid_allocator, fid>>
     ELSE /\ Goto(t, "alloc")
          /\ fid' = [fid EXCEPT ![t] = Head(c_fileid_allocator)]
          /\ c_fileid_allocator' = Tail(c_fileid_allocator)
          /\ UNCHANGED outcome
  /\ UNCHANGED <<portVars, c_file_management, todo, rx, c_listening>>

CreateDescriptor(t) ==
  /\ pc[t] = "alloc"
  /\ MapFree
  /\ c_file_management' = [c_file_management EXCEPT ![fid[t]] = FreshDescriptor]
  /\ Goto(t, "created")
  /\ UNCHANGED <<portVars, c_fileid_allocator, fid, todo, outcome, rx, c_listening>>

\* Seeded fault: the handler gives the id back, as err_realease does again.
ThrowReturnsId(t) ==
  /\ Goto(t, "release")
  /\ Decide(t, "failed")
  /\ todo' = [todo EXCEPT ![t] = {}]
  /\ c_fileid_allocator' = Append(c_fileid_allocator, fid[t])
  /\ UNCHANGED <<toServer, toClient, lost, restarts, c_file_management, fid, rx,
                 c_listening>>

\* Every exception of the sending part ends here: status = false, and on to
\* err_realease with block_lock still held.
Throw(t) ==
  /\ Goto(t, "release")
  /\ Decide(t, "failed")
  /\ todo' = [todo EXCEPT ![t] = {}]
  /\ UNCHANGED <<toServer, toClient, lost, restarts, c_fileid_allocator,
                 c_file_management, fid, rx, c_listening>>

\* Enter a loop that writes the chunks ks, with block_lock held.
StartLoop(t, l, ks) == Goto(t, l) /\ todo' = [todo EXCEPT ![t] = ks]

\* Take block_lock, load the file, write FILEINFO; wait_for only waits when
\* its predicate does not hold yet.
SendFileInfo(t) ==
  /\ pc[t] = "created"
  /\ WriteToServer([cmd |-> "FILEINFO", id |-> fid[t], src |-> t, tunk_size |-> Chunks[t]])
  /\ IF Desc(t).flag_recv_fileid
     THEN StartLoop(t, "sending", Indices(t))
     ELSE StartLoop(t, "waitid", {})
  /\ UNCHANGED <<toClient, faults, c_fileid_allocator, c_file_management, fid,
                 outcome, rx, c_listening>>

FileIdArrived(t) ==
  /\ pc[t] = "waitid"
  /\ Desc(t).flag_recv_fileid
  /\ StartLoop(t, "sending", Indices(t))
  /\ UNCHANGED <<portVars, c_fileid_allocator, c_file_management, fid, outcome,
                 rx, c_listening>>

\* Seeded fault: the wait that follows a retransmission has no timeout.
TimedOutButAck(t) ==
  \/ pc[t] = "waitid"  /\ ~Desc(t).flag_recv_fileid
  \/ pc[t] = "waitans" /\ ~Desc(t).flag_recv_ack /\ ~Desc(t).flag_recv_retrans

\* The wait_for of a state runs out with its predicate still false.
TimedOut(t) ==
  \/ pc[t] = "waitid"  /\ ~Desc(t).flag_recv_fileid
  \/ pc[t] = "waitans" /\ ~Desc(t).flag_recv_ack /\ ~Desc(t).flag_recv_retrans
  \/ pc[t] = "waitack" /\ ~Desc(t).flag_recv_ack

WaitTimeout(t) == TimedOut(t) /\ Throw(t) /\ UNCHANGED ioErrs

WriteChunk(t, k, src) ==
  WriteToServer([cmd |-> "TUNKDATA", id |-> fid[t], tunk |-> k, src |-> src])

\* The loops write the chunks in increasing order.  A chunk id beyond the file
\* (RETRANS names chunks, the code does not check them) reads outside the
\* vector tunk_data: some bytes go out, or too many and the frame is refused.
SendChunk(t) ==
  /\ pc[t] \in {"sending", "resending"}
  /\ \E k \in todo[t] :
       /\ NextChunk(t, k)
       /\ todo' = [todo EXCEPT ![t] = @ \ {k}]
       /\ \/ k \in Indices(t) /\ WriteChunk(t, k, t)
          \/ k \notin Indices(t) /\ WriteChunk(t, k, Garbage)
          \/ k \notin Indices(t) /\ UNCHANGED toServer
  /\ UNCHANGED <<toClient, faults, c_fileid_allocator, c_file_management, pc,
                 fid, outcome, rx, c_listening>>

\* The port refuses a write, the file cannot be read, or the out-of-range
\* read throws.  A file that cannot be opened has size -1: the loop then fills
\* tunk_data, with block_lock held, until there is no memory for it and the
\* vector throws (or the system ends the process, which is ClientRestart).
WriteThrows(t) ==
  /\ \/ pc[t] = "created" /\ IoError
     \/ pc[t] \in {"sending", "resending"} /\ todo[t] # {} /\ IoError
     \/ /\ pc[t] = "resending"
        /\ \E k \in todo[t] : NextChunk(t, k) /\ k \notin Indices(t)
        /\ UNCHANGED ioErrs
  /\ Throw(t)

\* The client is told what became of its chunks: a RETRANS is served before an
\* ACK is looked at, and the ACK makes the call succeed.
Answered(t) ==
  \/ /\ Desc(t).flag_recv_retrans
     /\ StartLoop(t, "resending", Desc(t).retrans_tunk_id)
     /\ UNCHANGED outcome
  \/ /\ ~Desc(t).flag_recv_retrans /\ Desc(t).flag_recv_ack
     /\ StartLoop(t, "release", {})
     /\ Decide(t, "ok")

\* All chunks are written: wait_for releases block_lock unless the answer is
\* already there.
AwaitAnswer(t) ==
  /\ pc[t] = "sending" /\ todo[t] = {}
  /\ \/ Answered(t)
     \/ /\ ~Desc(t).flag_recv_retrans /\ ~Desc(t).flag_recv_ack
        /\ StartLoop(t, "waitans", {})
        /\ UNCHANGED outcome
  /\ UNCHANGED <<portVars, c_fileid_allocator, c_file_management, fid, rx, c_listening>>

AnswerArrived(t) ==
  /\ pc[t] = "waitans"
  /\ Answered(t)
  /\ UNCHANGED <<portVars, c_fileid_allocator, c_file_management, fid, rx, c_listening>>

\* After one round of retransmission only the ACK counts.
AwaitAck(t) ==
  /\ \/ pc[t] = "resending" /\ todo[t] = {}
     \/ pc[t] = "waitack" /\ Desc(t).flag_recv_ack
  /\ IF Desc(t).flag_recv_ack
     THEN Goto(t, "release") /\ Decide(t, "ok")
     ELSE Goto(t, "waitack") /\ UNCHANGED outcome
  /\ UNCHANGED <<portVars, c_fileid_allocator, c_file_management, fid, todo, rx, c_listening>>

\* Seeded fault: the descriptor is erased without c_file_management_lock.
EraseUnlocked(t) ==
  /\ pc[t] = "release"
  /\ c_file_management' = [c_file_management EXCEPT ![fid[t]] = Nil]
  /\ Goto(t, "enq")
  /\ UNCHANGED <<portVars, c_fileid_allocator, fid, todo, outcome, rx, c_listening>>

\* err_realease: erase the descriptor under the map's lock, block_lock held ...
EraseDescriptor(t) ==
  /\ pc[t] = "release"
  /\ MapFree
  /\ c_file_management' = [c_file_management EXCEPT ![fid[t]] = Nil]
  /\ Goto(t, "enq")
  /\ UNCHANGED <<portVars, c_fileid_allocator, fid, todo, outcome, rx, c_listening>>

\* ... then give the id back and return.
ReturnFileId(t) ==
  /\ pc[t] = "enq"
  /\ c_fileid_allocator' = Append(c_fileid_allocator, fid[t])
  /\ fid' = [fid EXCEPT ![t] = Nil]
  /\ Goto(t, "done")
  /\ UNCHANGED <<portVars, c_file_management, todo, outcome, rx, c_listening>>

\* The steps of a call that has an id; each of them is bound to come, the
\* waits because of their timeout.
TransferStep(t) ==
  \/ CreateDescriptor(t) \/ SendFileInfo(t) \/ FileIdArrived(t) \/ WaitTimeout(t)
  \/ SendChunk(t) \/ AwaitAnswer(t) \/ AnswerArrived(t) \/ AwaitAck(t)
  \/ EraseDescriptor(t) \/ ReturnFileId(t)

-----------------------------------------------------------------------------
(* The listening thread, for the frames a server sends *)

\* Read a frame, lock the map and look the id up; an id without descriptor or a
\* frame that does not parse is dropped.
ListenLookup ==
  /\ c_listening
  /\ MapFree
  /\ toClient # <<>>
  /\ toClient' = Tail(toClient)
  /\ LET m == Head(toClient)
     IN  rx' = IF \/ c_file_management[m.id] = Nil
                  \/ m.cmd = "RETRANS" /\ ~Parses(m.tunks)
               THEN Nil ELSE m
  /\ UNCHANGED <<toServer, faults, c_fileid_allocator, c_file_management, pc,
                 fid, todo, outcome, c_listening>>

BlockFree(i) == ~ \E t \in Transfers : fid[t] = i /\ pc[t] \in HoldingBlock

\* The descriptor d once the frame m is delivered to it.
Delivered(d, m) ==
  CASE m.cmd = "FILEID"  -> [d EXCEPT !.flag_recv_fileid = TRUE]
    [] m.cmd = "ACK"     -> [d EXCEPT !.flag_recv_ack = TRUE]
    [] m.cmd = "RETRANS" -> [d EXCEPT !.flag_recv_retrans = TRUE,
                                      !.retrans_tunk_id = m.tunks]

\* With the map's lock held, take block_lock, set the flag and notify; both
\* locks are released.
ListenSignal ==
  /\ rx # Nil
  /\ BlockFree(rx.id)
  /\ c_file_management' = [c_file_management EXCEPT ![rx.id] = Delivered(@, rx)]
  /\ rx' = Nil
  /\ UNCHANGED <<portVars, c_fileid_allocator, pc, fid, todo, outcome, c_listening>>

\* Reading the port throws: the thread ends and nothing starts it again.
ClientListenDies ==
  /\ c_listening /\ MapFree
  /\ IoError
  /\ c_listening' = FALSE
  /\ UNCHANGED <<toServer, toClient, lost, restarts, c_fileid_allocator,
                 c_file_management, pc, fid, todo, outcome, rx>>

-----------------------------------------------------------------------------
(* The process ends, or the device is closed, and a new object opens the port *)

ClientRestart ==
  /\ Restart("client")
  /\ toClient' \in Flushed(toClient)
  /\ c_fileid_allocator' = AllIds
  /\ c_file_management' = [i \in FileIds |-> Nil]
  /\ pc' = [t \in Transfers |-> IF pc[t] \in Owning THEN "done" ELSE pc[t]]
  /\ outcome' = [t \in Transfers |-> IF pc[t] \in Owning THEN "crashed" ELSE outcome[t]]
  /\ fid' = [t \in Transfers |-> Nil]
  /\ todo' = [t \in Transfers |-> {}]
  /\ rx' = Nil
  /\ c_listening' = TRUE
  /\ UNCHANGED <<toServer, lost, ioErrs>>
=============================================================================
