----------------------------- MODULE SerialLine -----------------------------
(***************************************************************************)
(* One direction of a serial line, byte by byte.  Several threads of a     *)
(* SerialFileTransfer write frames to the port without a lock: transfer()  *)
(* calls, the listener (FILEID, ACK) and the retransmission thread.  The   *)
(* driver takes a part of a frame when its buffer is nearly full, and the  *)
(* writer comes back with the rest.  The reader takes FrameLen bytes at a  *)
(* time, whatever they are.                                                *)
(***************************************************************************)
EXTENDS SerialCodec, FiniteSets

CONSTANTS
  Writers,       \* the threads that write
  Scenarios,     \* what each writer sends, the file and its id among it, and a
                 \* bound on partial writes and lost bytes together
  MaxSplits,     \* bound: writes of which the driver takes only a part
  MaxLost        \* bound: bytes that are lost

ASSUME SerialLineAssumption == IsFiniteSet(Writers) /\ {MaxSplits, MaxLost} \subseteq Nat

\* All that the writers send in scenario s.
Sent(s) == UNION {ToSet(s.sends[w]) : w \in Writers}

\* FILEID_RANGE ends at 99, and a file name holds no zero byte.  An id is in use for
\* one file at a time, so what is sent under the id of the file are its information
\* and its chunks.
ASSUME ScenariosAssumption ==
  \A s \in Scenarios :
    /\ s.upsets \in Nat
    /\ s.sends \in [Writers -> Seq(Sent(s))]
    /\ \A m \in Sent(s) :
         /\ m \in Messages
         /\ m.id =< 99
         /\ m.cmd = FILEINFO => NUL \notin ToSet(m.name)
         /\ m.cmd = FILEINFO /\ m.id = s.id => m.tunk_size = ChunkCount(s.file)
         /\ m.cmd = TUNKDATA /\ m.id = s.id => m.data = ChunkOf(s.file, m.tunk)

VARIABLES
  scenario,
  todo,          \* messages each writer has still to send
  rest,          \* bytes of its current frame the driver has not taken yet
  line,          \* bytes on their way
  received,      \* what the reader made of each frame: a message or Refused
  splits, lost,
  begun,         \* messages whose frame was begun, in order of their first byte
  mixed,         \* indices in begun of frames that were begun or still being
                 \* written while another one was
  together       \* the most frames ever being written at the same moment

history == <<begun, mixed, together>>
vars == <<scenario, todo, rest, line, received, splits, lost, history>>

Init ==
  /\ scenario \in Scenarios
  /\ todo = scenario.sends
  /\ rest = [w \in Writers |-> <<>>]
  /\ line = <<>> /\ received = <<>>
  /\ splits = 0 /\ lost = 0
  /\ begun = <<>> /\ mixed = {} /\ together = 0

\* Writers in the middle of a frame, and the indices of their frames: each
\* writer has begun its own latest.
Midway == {w \in Writers : rest[w] # <<>>}
Open(w) ==
  SelectLastInSeq(begun, LAMBDA b : b.by = w)

\* Seeded fault: a writer returns when the driver has taken a part.
TakenAsWhole(w, bytes, n) == rest' = [rest EXCEPT ![w] = <<>>]

\* What the driver has not taken stays to be written.
Taken(w, bytes, n) == rest' = [rest EXCEPT ![w] = SubSeq(bytes, n + 1, Len(bytes))]

\* The driver takes the first n of the bytes that writer w offers.
Offer(w, bytes) ==
  \E n \in 1..Len(bytes) :
    /\ n < Len(bytes) => splits < MaxSplits /\ splits + lost < scenario.upsets
    /\ line' = line \o SubSeq(bytes, 1, n)
    /\ Taken(w, bytes, n)
    /\ splits' = IF n < Len(bytes) THEN splits + 1 ELSE splits

\* _write_bytes begins: a frame, or nothing when the payload is too long.
BeginFrame(w) ==
  /\ rest[w] = <<>> /\ todo[w] # <<>>
  /\ todo' = [todo EXCEPT ![w] = Tail(@)]
  /\ LET bytes == FrameOf(Head(todo[w]))
     IN  IF bytes = <<>>
         THEN UNCHANGED <<rest, line, splits, history>>
         ELSE /\ Offer(w, bytes)
              /\ begun' = Append(begun, [by |-> w, msg |-> Head(todo[w])])
              /\ mixed' = IF Midway = {} THEN mixed
                          ELSE mixed \union {Open(v) : v \in Midway} \union {Len(begun) + 1}
              /\ together' = IF Cardinality(Midway) + 1 > together
                             THEN Cardinality(Midway) + 1 ELSE together
  /\ UNCHANGED <<scenario, received, lost>>

\* boost::asio::write goes on until the frame is out.
ContinueFrame(w) ==
  /\ rest[w] # <<>>
  /\ Offer(w, rest[w])
  /\ UNCHANGED <<scenario, todo, received, lost, history>>

\* A byte is lost: noise, an overrun of the receiver.
LoseByte ==
  /\ lost < MaxLost /\ splits + lost < scenario.upsets
  /\ \E i \in DOMAIN line : line' = RemoveAt(line, i)
  /\ lost' = lost + 1
  /\ UNCHANGED <<scenario, todo, rest, received, splits, history>>

\* boost::asio::read returns when FrameLen bytes are there.
ReadFrame ==
  /\ Len(line) >= FrameLen
  /\ received' = Append(received, Decode(SubSeq(line, 1, FrameLen)))
  /\ line' = SubSeq(line, FrameLen + 1, Len(line))
  /\ UNCHANGED <<scenario, todo, rest, splits, lost, history>>

Next ==
  \/ \E w \in Writers : BeginFrame(w) \/ ContinueFrame(w)
  \/ LoseByte
  \/ ReadFrame

Spec == Init /\ [][Next]_vars

-----------------------------------------------------------------------------
(* What the format loses, said without the parsers *)

UpToNul(s) == LET i == SelectInSeq(s, LAMBDA ch : ch = NUL)
              IN  IF i = 0 THEN s ELSE SubSeq(s, 1, i - 1)

\* A message is received as it was sent, except that a chunk ends at its first
\* zero byte; it is refused when a separator is left in it or an id has three
\* digits.
Expected(m) ==
  CASE m.cmd = FILEINFO -> IF SEP \in ToSet(m.name) THEN Refused ELSE m
    [] m.cmd = TUNKDATA ->
         IF m.tunk > 99 \/ SEP \in ToSet(UpToNul(m.data)) THEN Refused
         ELSE [m EXCEPT !.data = UpToNul(@)]
    [] m.cmd = RETRANS -> IF \E k \in DOMAIN m.tunks : m.tunks[k] > 99 THEN Refused ELSE m
    [] OTHER -> m

\* What the codec makes of every frame that reaches it whole.
RoundTrip ==
  \A s \in Scenarios : \A m \in Sent(s) :
    Len(Payload(m)) <= PayloadLen => Decode(FrameOf(m)) = Expected(m)

Message(i) == begun[i].msg

\* No payload on the line holds the second byte of START or the first of END.
Unmarked == \A i \in DOMAIN begun : {START[2], END[1]} \cap ToSet(Payload(Message(i))) = {}

-----------------------------------------------------------------------------
(* Safety *)

\* While no byte is lost, a frame written while no other was is decoded, as the
\* format lets it, whatever happened to the frames before it: torn frames keep
\* the total length, so the reader is aligned again after them.
AloneIsDecoded ==
  lost = 0 => \A i \in DOMAIN received : i \notin mixed => received[i] = Expected(Message(i))

\* A lost byte shifts the fixed-size reads for good: the messages before it are
\* received as the format lets them, and none after it.  (As many lost bytes as a
\* frame has would shift the reads back into place.)
DeafAfterLoss ==
  lost =< 1 /\ mixed = {} =>
    \A i \in DOMAIN received :
      received[i] # Expected(Message(i)) =>
        lost > 0 /\ \A j \in i..Len(received) : received[j] = Refused

\* Frames of two writers, torn by each other, are refused, unless the data hold
\* marker bytes: otherwise a message nobody has sent is put together only when
\* three frames are being written at once.
ForgedNeedsThree ==
  Unmarked /\ lost = 0 /\ together < 3 =>
    \A i \in DOMAIN received :
      received[i] = Refused \/ \E j \in DOMAIN begun : received[i] = Expected(Message(j))

\* The chunks of file id that were received, once all of them were.
InfoOf(id) == SelectInSeq(received, LAMBDA m : m # Refused /\ m.cmd = FILEINFO /\ m.id = id)
ChunkIn(id, k) ==
  SelectInSeq(received, LAMBDA m : m # Refused /\ m.cmd = TUNKDATA /\ m.id = id /\ m.tunk = k)
Complete(id) ==
  InfoOf(id) # 0 /\ \A k \in 0..(received[InfoOf(id)].tunk_size - 1) : ChunkIn(id, k) # 0
Assembled(id) ==
  FlattenSeq([k \in 1..received[InfoOf(id)].tunk_size |-> received[ChunkIn(id, k - 1)].data])

\* A file that is complete at the receiver is the file that was sent but for what
\* each chunk had from its first zero byte on; a file with a separator before that
\* never becomes complete.
CompleteIsCutFile ==
  LET c == scenario IN
  Unmarked /\ lost = 0 /\ together < 3 /\ Complete(c.id) =>
    /\ Assembled(c.id) =
         FlattenSeq([k \in 1..ChunkCount(c.file) |-> UpToNul(ChunkOf(c.file, k - 1))])
    /\ \A k \in 1..ChunkCount(c.file) : SEP \notin ToSet(UpToNul(ChunkOf(c.file, k - 1)))

\* A file that is complete at the receiver is the file that was sent.
FileArrivesWhole == Complete(scenario.id) => Assembled(scenario.id) = scenario.file
=============================================================================
