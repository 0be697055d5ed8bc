----------------------------- MODULE SerialPort -----------------------------
(***************************************************************************)
(* The serial line that joins two SerialFileTransfer objects, seen by one  *)
(* direction of file transfer: the object that sends files (the client)    *)
(* and the object that receives them (the server).  Each direction is a    *)
(* FIFO of whole 57-byte frames; a frame is the record its payload parses  *)
(* to, and the bytes of a chunk or of a file name are abstracted to the    *)
(* call of transfer() that wrote them.                                     *)
(***************************************************************************)
EXTENDS Naturals, FiniteSets, SequencesExt

CONSTANTS
  Transfers,     \* the calls of transfer(), one file each
  Chunks,        \* Chunks[t]: tunk_size, the number of chunks of t's file
  NumIds,        \* FILEID_RANGE[1], 100 in the code: ids are 0..NumIds-1
  IdLimit,       \* ids from here on do not fit in two digits, 100 in the code
  Garbage,       \* what an out-of-range read of tunk_data puts in a frame
  Nil,           \* "no entry", "nothing held"
  MaxLoss,       \* bound: frames the line loses or damages
  MaxIoErrs,     \* bound: port or file operations that fail
  MaxRestarts,   \* bound: restarts of the two processes together
  MayRestart,    \* bound: the processes that restart
  MaxFaults      \* bound: losses, failures and restarts together

ASSUME SerialPortAssumption ==
  /\ Chunks \in [Transfers -> Nat]
  /\ NumIds \in Nat \ {0}
  /\ IdLimit \in Nat
  /\ {MaxLoss, MaxIoErrs, MaxRestarts, MaxFaults} \subseteq Nat
  /\ MayRestart \subseteq {"client", "server"}
  /\ Nil \notin Transfers /\ Garbage \notin Transfers /\ Nil # Garbage
  /\ Nil \notin 0..(NumIds - 1)

VARIABLES
  toServer,      \* frames written by the client, not yet read by the server
  toClient,      \* frames written by the server, not yet read by the client
  lost,          \* frames lost so far
  ioErrs,        \* operations that failed so far
  restarts       \* restarts so far

faults == <<lost, ioErrs, restarts>>
portVars == <<toServer, toClient, lost, ioErrs, restarts>>

FileIds == 0..(NumIds - 1)
Contents == Transfers \union {Garbage}
ChunkIds == UNION {0..(Chunks[t] - 1) : t \in Transfers}

\* The frames of PROTOCOL_CMD.  A file info frame carries the name of the
\* file, which stands for the call that sends it.
FileInfoFrames == [cmd : {"FILEINFO"}, id : FileIds, src : Transfers, tunk_size : Nat]
TunkDataFrames == [cmd : {"TUNKDATA"}, id : FileIds, tunk : ChunkIds, src : Contents]
ReplyFrames    == [cmd : {"FILEID", "ACK"}, id : FileIds]
RetransFrames  == [cmd : {"RETRANS"}, id : FileIds, tunks : SUBSET ChunkIds]

ServerFrames == FileInfoFrames \union TunkDataFrames
ClientFrames == ReplyFrames \union RetransFrames

PortInit ==
  /\ toServer = <<>>
  /\ toClient = <<>>
  /\ lost = 0
  /\ ioErrs = 0
  /\ restarts = 0

\* Seeded fault: ids of any length are accepted.
ParsesAny(tunks) == TRUE

\* A chunk id is written with two digits, or three from IdLimit on, and the
\* parsers refuse a frame that holds an id of another length.
Parses(tunks) == \A k \in tunks : k < IdLimit

FaultsLeft == lost + ioErrs + restarts < MaxFaults

\* An operation on the port or on the file system throws.
IoError ==
  /\ FaultsLeft /\ ioErrs < MaxIoErrs
  /\ ioErrs' = ioErrs + 1

\* A process ends and is started again.
Restart(process) ==
  /\ process \in MayRestart
  /\ FaultsLeft /\ restarts < MaxRestarts
  /\ restarts' = restarts + 1

\* The line damages a frame: the start, command or stop bits do not check and
\* the reader skips the frame.
LoseFrame ==
  /\ FaultsLeft /\ lost < MaxLoss
  /\ lost' = lost + 1
  /\ \/ toServer # <<>> /\ toServer' = Tail(toServer) /\ UNCHANGED toClient
     \/ toClient # <<>> /\ toClient' = Tail(toClient) /\ UNCHANGED toServer
  /\ UNCHANGED <<ioErrs, restarts>>

\* What is left in the input buffer of a port that is closed and opened again:
\* a suffix of what was there.
Flushed(frames) == {SubSeq(frames, n, Len(frames)) : n \in 1..(Len(frames) + 1)}
=============================================================================
