---------------------------- MODULE SerialCodec -----------------------------
(***************************************************************************)
(* The bytes of the serial protocol: how _write_bytes makes a frame of a   *)
(* message and how _check_protocol_frame and the parsers read it back.     *)
(* Bytes are numbers and the markers have their real values; only the      *)
(* length of a payload is a parameter, so that short ones can be checked.  *)
(***************************************************************************)
EXTENDS Integers, SequencesExt

CONSTANTS
  PayloadLen,    \* PROTOCOL_PAYLOAD_LEN, 52 in the code
  Refused        \* a frame that is skipped, a message that is not written

ASSUME SerialCodecAssumption == PayloadLen \in Nat /\ PayloadLen > 5

\* PROTOCOL_CMD
FILEINFO == 1
FILEID   == 2
TUNKDATA == 3
ACK      == 4
RETRANS  == 5

START == <<105, 150>>
END   == <<13, 10>>
SEP   == 45
NUL   == 0

FrameLen == PayloadLen + 5    \* PROTOCOL_LEN, 57 in the code
DataLen  == PayloadLen - 5    \* PROTOCOL_ACTUAL_PAYLOAD_LEN, 47 in the code

-----------------------------------------------------------------------------
(* Writing *)

\* What the parsers return and the senders are given.
Messages ==
  [cmd : {FILEINFO}, id : Nat, name : Seq(0..255), size : Nat, tunk_size : Nat]
    \union [cmd : {FILEID, ACK}, id : Nat]
    \union [cmd : {TUNKDATA}, id : Nat, tunk : Nat, data : Seq(0..255)]
    \union [cmd : {RETRANS}, id : Nat, tunks : Seq(Nat)]

ASSUME RefusedAssumption == Refused \notin Messages

\* std::to_string
Digits[n \in Nat] == IF n < 10 THEN <<48 + n>> ELSE Append(Digits[n \div 10], 48 + (n % 10))

\* _id_format_transfomer: two characters, more from 100 on.
Format(id) == IF id < 10 THEN <<48>> \o Digits[id] ELSE Digits[id]

Payload(m) ==
  CASE m.cmd = FILEINFO ->
         Format(m.id) \o <<SEP>> \o m.name \o <<SEP>> \o Digits[m.size] \o <<SEP>> \o Digits[m.tunk_size]
    [] m.cmd = TUNKDATA -> Format(m.id) \o Format(m.tunk) \o <<SEP>> \o m.data
    [] m.cmd = RETRANS ->
         Format(m.id) \o FlattenSeq([k \in DOMAIN m.tunks |-> <<SEP>> \o Format(m.tunks[k])])
    [] OTHER -> Format(m.id)

\* _write_bytes: the bytes that go to the port, none when the payload is too long.
FrameOf(m) ==
  LET p == Payload(m)
  IN  IF Len(p) > PayloadLen THEN <<>>
      ELSE START \o <<m.cmd>> \o p \o [k \in 1..(PayloadLen - Len(p)) |-> NUL] \o END

\* The chunks transfer() cuts a file into, and the messages that carry it.
ChunkCount(file) == (Len(file) + DataLen - 1) \div DataLen
ChunkOf(file, k) ==
  SubSeq(file, DataLen * k + 1, IF DataLen * (k + 1) < Len(file) THEN DataLen * (k + 1) ELSE Len(file))

FileMessages(id, name, file) ==
  <<[cmd |-> FILEINFO, id |-> id, name |-> name, size |-> Len(file), tunk_size |-> ChunkCount(file)]>>
    \o [k \in 1..ChunkCount(file) |->
          [cmd |-> TUNKDATA, id |-> id, tunk |-> k - 1, data |-> ChunkOf(file, k - 1)]]

-----------------------------------------------------------------------------
(* Reading *)

\* Seeded fault: the stop bits are not checked.
ChecksStart(frame) == SubSeq(frame, 1, 2) = START /\ frame[3] \in FILEINFO..RETRANS

\* _check_protocol_frame
Checks(frame) ==
  /\ SubSeq(frame, 1, 2) = START
  /\ frame[3] \in FILEINFO..RETRANS
  /\ SubSeq(frame, FrameLen - 1, FrameLen) = END

PayloadIn(frame) == SubSeq(frame, 4, 3 + PayloadLen)

\* One character of a payload: a separator ends a part, any other goes on with it.
Read(parts, ch) ==
  IF ch = SEP THEN Append(parts, <<>>) ELSE [parts EXCEPT ![Len(parts)] = Append(@, ch)]

\* Seeded fault: a zero byte is read like any other.
SeparateAll(payload) == FoldLeft(Read, << <<>> >>, payload)

\* _separate_payload_by_symbol: parts between separators, up to a zero byte.
Separate(payload) ==
  LET zero == SelectInSeq(payload, LAMBDA ch : ch = NUL)
      n == IF zero = 0 THEN Len(payload) ELSE zero - 1
      parts[k \in 0..n] == IF k = 0 THEN << <<>> >> ELSE Read(parts[k - 1], payload[k])
  IN  parts[n]

\* std::stoull: white space, a plus sign, then the value of the digits that follow,
\* and an exception when none does.  (A minus sign is SEP.)
IsDigit(ch) == ch \in 48..57
Unspaced(s) ==
  LET i == SelectInSeq(s, LAMBDA ch : ch \notin 9..13 \union {32})
      u == IF i = 0 THEN <<>> ELSE SubSeq(s, i, Len(s))
  IN  IF u # <<>> /\ u[1] = 43 THEN Tail(u) ELSE u
HasNumber(s) == LET u == Unspaced(s) IN u # <<>> /\ IsDigit(u[1])
Number(s) ==
  LET u == Unspaced(s)
      stop == SelectInSeq(u, LAMBDA ch : ~IsDigit(ch))
      n == IF stop = 0 THEN Len(u) ELSE stop - 1
      value[k \in 0..n] == IF k = 0 THEN 0 ELSE 10 * value[k - 1] + u[k] - 48
  IN  value[n]

IsId(s) == Len(s) = 2 /\ HasNumber(s)

\* _parse_fileinfo_from_payload
ParseFileInfo(arr) ==
  IF Len(arr) = 4 /\ \A i \in {1, 3, 4} : HasNumber(arr[i])
  THEN [cmd |-> FILEINFO, id |-> Number(arr[1]), name |-> arr[2],
        size |-> Number(arr[3]), tunk_size |-> Number(arr[4])]
  ELSE Refused

\* _parse_fileid_from_payload, _parse_ack_from_payload
ParseReply(cmd, arr) ==
  IF Len(arr) = 1 /\ IsId(arr[1]) THEN [cmd |-> cmd, id |-> Number(arr[1])] ELSE Refused

\* _parse_tunkdata_from_payload
ParseTunkData(arr) ==
  IF Len(arr) = 2 /\ Len(arr[1]) = 4 /\ HasNumber(SubSeq(arr[1], 1, 2)) /\ HasNumber(SubSeq(arr[1], 3, 4))
  THEN [cmd |-> TUNKDATA, id |-> Number(SubSeq(arr[1], 1, 2)),
        tunk |-> Number(SubSeq(arr[1], 3, 4)), data |-> arr[2]]
  ELSE Refused

\* _parse_retrans_from_payload
ParseRetrans(arr) ==
  IF \A i \in DOMAIN arr : IsId(arr[i])
  THEN [cmd |-> RETRANS, id |-> Number(arr[1]),
        tunks |-> [k \in 1..(Len(arr) - 1) |-> Number(arr[k + 1])]]
  ELSE Refused

\* What becomes of FrameLen bytes that were read.
Decode(frame) ==
  LET arr == Separate(PayloadIn(frame))
  IN  IF ~Checks(frame) THEN Refused
      ELSE CASE frame[3] = FILEINFO -> ParseFileInfo(arr)
             [] frame[3] = TUNKDATA -> ParseTunkData(arr)
             [] frame[3] = RETRANS  -> ParseRetrans(arr)
             [] OTHER               -> ParseReply(frame[3], arr)
=============================================================================
