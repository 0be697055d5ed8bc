---------------------------- MODULE SerialServer ----------------------------
(***************************************************************************)
(* The receiving half of SerialFileTransfer: the listening thread handling *)
(* FILEINFO and TUNKDATA, the thread that asks for missing chunks, and the *)
(* threads that run receive() on behalf of the READ events which           *)
(* f_readable_cb raises.  A critical section of s_file_management_lock is  *)
(* one step, but for the one that ends in f_readable_cb, where `notifying` *)
(* says that the listening thread still has the lock.                      *)
(***************************************************************************)
EXTENDS SerialPort

CONSTANTS
  MaxRetrans,    \* MAXIMUM_RETRANS_CNT, 3 in the code
  RetransCap,    \* chunk ids that fit in one RETRANS frame, 16 in the code
  Readers        \* threads that may run receive() at the same time

VARIABLES
  s_file_management,   \* file id -> descriptor of the file received, or Nil
  s_readable_fileid,   \* SafeQueue of the ids whose file is complete
  notifying,           \* an id is queued, f_readable_cb is still to be called
  reads,               \* READ events raised and not yet handled
  hand,                \* the id a receive() call has dequeued, or Nil
  files,               \* the files receive() has written
  s_listening,         \* the listening thread has not died of an exception
  s_managing           \* nor has the retransmission thread

serverVars == <<s_file_management, s_readable_fileid, notifying, reads, hand, files,
                s_listening, s_managing>>

\* tunk_data is a map: a chunk id that is not a key has content Nil.
ServerDescriptors ==
  [src : Transfers, tunk_size : Nat, tunk_data : [ChunkIds -> Contents \union {Nil}],
   retrans_cnt : Nat]

Files == [src : Transfers, tunk_size : Nat, tunk_data : [ChunkIds -> Contents \union {Nil}]]

ASSUME SerialServerAssumption ==
  /\ MaxRetrans \in Nat /\ RetransCap \in Nat
  /\ Nil \notin ServerDescriptors

ServerInit ==
  /\ s_file_management = [i \in FileIds |-> Nil]
  /\ s_readable_fileid = <<>>
  /\ notifying = FALSE
  /\ reads = 0
  /\ hand = [r \in Readers |-> Nil]
  /\ files = {}
  /\ s_listening = TRUE
  /\ s_managing = TRUE

Stored(d) == {k \in ChunkIds : d.tunk_data[k] # Nil}
\* Seeded fault: the loop over the chunk ids runs to tunk_size inclusive.
MissingInclusive(d) == {k \in ChunkIds : k =< d.tunk_size} \ Stored(d)
Missing(d) == {k \in ChunkIds : k < d.tunk_size} \ Stored(d)

\* Seeded faults: the size is tested before the chunk is counted; =< for <.
CollectedButOne(d) == Cardinality(Stored(d)) + 1 = d.tunk_size
IncompleteOrWhole(d) == Cardinality(Stored(d)) =< d.tunk_size

\* tunk_mp.size() == tunk_size, tunk_data.size() < tunk_size
Collected(d) == Cardinality(Stored(d)) = d.tunk_size
Incomplete(d) == Cardinality(Stored(d)) < d.tunk_size

-----------------------------------------------------------------------------
(* The listening thread, for the frames a client sends.  It and the other two  *)
(* threads wait for s_file_management_lock while it calls f_readable_cb.       *)

FromClient(cmd) ==
  /\ s_listening /\ ~notifying
  /\ toServer # <<>>
  /\ Head(toServer).cmd = cmd
  /\ toServer' = Tail(toServer)

\* A file info creates the descriptor, over the one that is there, and is
\* confirmed with the id; a confirmation that cannot be written ends the thread.
HandleFileInfo ==
  /\ FromClient("FILEINFO")
  /\ LET m == Head(toServer)
     IN  /\ s_file_management' = [s_file_management EXCEPT ![m.id] =
              [src |-> m.src, tunk_size |-> m.tunk_size,
               tunk_data |-> [k \in ChunkIds |-> Nil], retrans_cnt |-> 0]]
         /\ \/ /\ toClient' = Append(toClient, [cmd |-> "FILEID", id |-> m.id])
               /\ UNCHANGED <<ioErrs, s_listening>>
            \/ /\ IoError
               /\ s_listening' = FALSE
               /\ UNCHANGED toClient
  /\ UNCHANGED <<lost, restarts, s_readable_fileid, notifying, reads, hand, files, s_managing>>

\* Seeded fault: a chunk that is there already is stored again.
AcceptsDuplicates(m) ==
  /\ Parses({m.tunk})
  /\ s_file_management[m.id] # Nil
  /\ m.tunk < s_file_management[m.id].tunk_size

\* A chunk is stored when it parses, its file is known, its id is within the
\* file and it is the first of its id.
Accepts(m) ==
  /\ Parses({m.tunk})
  /\ s_file_management[m.id] # Nil
  /\ m.tunk < s_file_management[m.id].tunk_size
  /\ s_file_management[m.id].tunk_data[m.tunk] = Nil

WithChunk(d, m) == [d EXCEPT !.tunk_data[m.tunk] = m.src]

HandleBadTunk ==
  /\ FromClient("TUNKDATA")
  /\ ~Accepts(Head(toServer))
  /\ UNCHANGED <<toClient, faults, serverVars>>

\* The id i of a file whose last chunk has come is announced: ACK to the client,
\* id to the readable queue, and then f_readable_cb, with the lock held.  When
\* the ACK cannot be written the exception skips the rest.
Announce(i) ==
  \/ /\ toClient' = Append(toClient, [cmd |-> "ACK", id |-> i])
     /\ s_readable_fileid' = Append(s_readable_fileid, i)
     /\ notifying' = TRUE
     /\ UNCHANGED ioErrs
  \/ /\ IoError
     /\ UNCHANGED <<toClient, s_readable_fileid, notifying>>

HandleTunkData ==
  /\ FromClient("TUNKDATA")
  /\ LET m == Head(toServer)
         d == WithChunk(s_file_management[m.id], m)
     IN  /\ Accepts(m)
         /\ s_file_management' = [s_file_management EXCEPT ![m.id] = d]
         /\ IF Collected(d)
            THEN Announce(m.id)
            ELSE UNCHANGED <<toClient, ioErrs, s_readable_fileid, notifying>>
  /\ UNCHANGED <<lost, restarts, reads, hand, files, s_listening, s_managing>>

\* Seeded fault: no READ event.
NotifySilently ==
  /\ notifying
  /\ notifying' = FALSE
  /\ UNCHANGED <<portVars, s_file_management, s_readable_fileid, reads, hand, files,
                 s_listening, s_managing>>

\* f_readable_cb publishes a READ event for the layer above.  That it cannot is
\* not reported to the listening thread.
Notify ==
  /\ notifying
  /\ notifying' = FALSE
  /\ \/ reads' = reads + 1 /\ UNCHANGED ioErrs
     \/ IoError /\ UNCHANGED reads
  /\ UNCHANGED <<toServer, toClient, lost, restarts, s_file_management, s_readable_fileid,
                 hand, files, s_listening, s_managing>>

HandleFrame == HandleFileInfo \/ HandleBadTunk \/ HandleTunkData \/ Notify

ServerListenDies ==
  /\ s_listening /\ ~notifying
  /\ IoError
  /\ s_listening' = FALSE
  /\ UNCHANGED <<toServer, toClient, lost, restarts, s_file_management,
                 s_readable_fileid, notifying, reads, hand, files, s_managing>>

-----------------------------------------------------------------------------
(* The thread that looks for files whose chunks stopped coming *)

Overdue == {i \in FileIds : s_file_management[i] # Nil /\ Incomplete(s_file_management[i])}

\* _write_bytes refuses, without an exception, a payload of more ids than a
\* frame holds.
RetransFits(d) == Cardinality(Missing(d)) =< RetransCap
Asked(due) == {i \in due : RetransFits(s_file_management[i])}

\* The RETRANS frames for the files ask, in the order of the map.
InOrder(ask) ==
  {f \in [1..Cardinality(ask) -> ask] : \A m, n \in DOMAIN f : m < n => f[m] < f[n]}
WriteRetrans(ask) ==
  \E f \in InOrder(ask) :
    toClient' = toClient \o
      [n \in 1..Cardinality(ask) |->
         [cmd |-> "RETRANS", id |-> f[n], tunks |-> Missing(s_file_management[f[n]])]]

\* Seeded fault: only a request that was written is counted.
CountedIfAsked(d) == IF RetransFits(d) THEN [d EXCEPT !.retrans_cnt = @ + 1] ELSE d

Counted(d) == [d EXCEPT !.retrans_cnt = @ + 1]
Spent(d) == d.retrans_cnt + 1 > MaxRetrans

\* One pass under s_file_management_lock.  When MAXIMUM_WAIT_TIMES has passed
\* for a file is left open: due is any set of incomplete files.  Each is asked
\* for and counted; after the pass the ones asked for too often are deleted.
ManagePass(due) ==
  /\ s_managing /\ ~notifying
  /\ due # {}
  /\ WriteRetrans(Asked(due))
  /\ s_file_management' = [i \in FileIds |->
       IF i \notin due THEN s_file_management[i]
       ELSE IF Spent(s_file_management[i]) THEN Nil
       ELSE Counted(s_file_management[i])]
  /\ UNCHANGED <<toServer, faults, s_readable_fileid, notifying, reads, hand, files,
                 s_listening, s_managing>>

\* The request for file i cannot be written: the files before it are counted,
\* none is deleted, and the thread ends.
ManageDies(due, i) ==
  /\ s_managing /\ ~notifying
  /\ i \in Asked(due)
  /\ IoError
  /\ WriteRetrans({j \in Asked(due) : j < i})
  /\ s_file_management' = [j \in FileIds |->
       IF j \in due /\ j < i THEN Counted(s_file_management[j]) ELSE s_file_management[j]]
  /\ s_managing' = FALSE
  /\ UNCHANGED <<toServer, lost, restarts, s_readable_fileid, notifying, reads, hand, files,
                 s_listening>>

-----------------------------------------------------------------------------
(* receive(), run once for each READ event *)

\* FileTransfer::receive refuses a path that does not exist; then the id is
\* dequeued without blocking, and an empty queue fails the call.
ReceiveDequeue(r) ==
  /\ hand[r] = Nil
  /\ reads > 0
  /\ reads' = reads - 1
  /\ \/ /\ s_readable_fileid # <<>>
        /\ hand' = [hand EXCEPT ![r] = Head(s_readable_fileid)]
        /\ s_readable_fileid' = Tail(s_readable_fileid)
        /\ UNCHANGED ioErrs
     \/ /\ s_readable_fileid = <<>>
        /\ UNCHANGED <<hand, s_readable_fileid, ioErrs>>
     \/ /\ IoError
        /\ UNCHANGED <<hand, s_readable_fileid>>
  /\ UNCHANGED <<toServer, toClient, lost, restarts, s_file_management, notifying, files,
                 s_listening, s_managing>>

FileOf(d) == [src |-> d.src, tunk_size |-> d.tunk_size, tunk_data |-> d.tunk_data]

\* Seeded fault: the descriptor is erased although nothing was written.
OpenFailsErasing(i) ==
  /\ IoError
  /\ s_file_management' = [s_file_management EXCEPT ![i] = Nil]
  /\ UNCHANGED files

\* The output cannot be opened: the descriptor stays, its id has left the queue.
OpenFails(i) == IoError /\ UNCHANGED <<files, s_file_management>>

\* Under s_file_management_lock: the file is written and its descriptor erased,
\* unless the descriptor is gone or the output cannot be opened.
ReceiveWrite(r) ==
  /\ hand[r] # Nil /\ ~notifying
  /\ hand' = [hand EXCEPT ![r] = Nil]
  /\ LET d == s_file_management[hand[r]]
     IN  \/ /\ d # Nil
            /\ files' = files \union {FileOf(d)}
            /\ s_file_management' = [s_file_management EXCEPT ![hand[r]] = Nil]
            /\ UNCHANGED ioErrs
         \/ /\ d = Nil
            /\ UNCHANGED <<files, s_file_management, ioErrs>>
         \/ /\ d # Nil
            /\ OpenFails(hand[r])
  /\ UNCHANGED <<toServer, toClient, lost, restarts, s_readable_fileid, notifying, reads,
                 s_listening, s_managing>>

-----------------------------------------------------------------------------
(* The process ends and a new object opens the port: only the files on disk *)
(* and the READ events in the broker outlive it                             *)

ServerRestart ==
  /\ Restart("server")
  /\ toServer' \in Flushed(toServer)
  /\ s_file_management' = [i \in FileIds |-> Nil]
  /\ s_readable_fileid' = <<>>
  /\ notifying' = FALSE
  /\ reads' \in 0..reads
  /\ hand' = [r \in Readers |-> Nil]
  /\ s_listening' = TRUE
  /\ s_managing' = TRUE
  /\ UNCHANGED <<toClient, lost, ioErrs, files>>
=============================================================================
