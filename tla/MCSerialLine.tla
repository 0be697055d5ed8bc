---------------------------- MODULE MCSerialLine ----------------------------
(***************************************************************************)
(* Values of the constants of SerialLine for TLC: payloads of 8 bytes, so  *)
(* chunks of 3 and requests of two ids.                                    *)
(***************************************************************************)
EXTENDS SerialLine

CONSTANTS transfer, manage, listen

A == 65

Threads == {transfer, manage, listen}
Sends(t, m, l) == (transfer :> t) @@ (manage :> m) @@ (listen :> l)
Request(tunks) == <<[cmd |-> RETRANS, id |-> 0, tunks |-> tunks]>>
Reply(cmd, id) == <<[cmd |-> cmd, id |-> id]>>

FileAlone(n, f) ==
  [file |-> f, id |-> 12, upsets |-> 1, sends |-> Sends(FileMessages(12, n, f), <<>>, <<>>)]

\* Every file of up to four bytes with separators, zero bytes and letters, alone
\* on the line; and names with a separator, or too long for a frame.
Contents == UNION {[1..n -> {A, SEP, NUL}] : n \in 0..4}
OneFile ==
  {FileAlone(<<A>>, f) : f \in Contents}
    \union {FileAlone(n, <<A>>) : n \in {<<SEP>>, <<A, A>>}}

\* Ids at the limits of two digits, requests at the limit of a frame.
Edges ==
  {[file |-> <<>>, id |-> 0, upsets |-> 2, sends |-> Sends(<<>>, Request(ks), Reply(cmd, i))]
     : ks \in {<<9, 10>>, <<99>>, <<100>>, <<0, 1, 2>>}, cmd \in {FILEID, ACK}, i \in {9, 10}}

\* A chunk, a request and an answer at the same time.
Crowd ==
  {[file |-> <<A>>, id |-> 1, upsets |-> 3, sends |->
      Sends(Tail(FileMessages(1, <<A>>, <<A>>)), Request(<<1, 2>>), Reply(ACK, 3))]}

\* A file of one line, ended by CR LF, and an answer at the same time.
TextLine ==
  {[file |-> <<13, 10, A>>, id |-> 1, upsets |-> 3, sends |->
      Sends(FileMessages(1, <<A>>, <<13, 10, A>>), <<>>, Reply(ACK, 3))]}

\* A file with a zero byte.
ZeroByte ==
  {[file |-> <<A, NUL, A>>, id |-> 1, upsets |-> 0, sends |->
      Sends(FileMessages(1, <<A>>, <<A, NUL, A>>), <<>>, <<>>)]}

AllScenarios == OneFile \union Edges \union Crowd \union TextLine
=============================================================================
