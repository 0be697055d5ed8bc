-------------------------- MODULE MCSerialTransfer --------------------------
(***************************************************************************)
(* Values of the constants of SerialTransfer for TLC.                      *)
(***************************************************************************)
EXTENDS SerialTransfer

CONSTANTS a, b, r1, r2

TwoCalls == {a, b}
OneCall == {a}
TwoReaders == {r1, r2}
OneReader == {r1}

\* The threads of receive() are alike.
ReaderSymmetry == Permutations(TwoReaders)

TwoAndOne == (a :> 2) @@ (b :> 1)
OneEach == (a :> 1) @@ (b :> 1)
TwoAndNone == (a :> 2) @@ (b :> 0)
OneChunk == (a :> 1)
=============================================================================
