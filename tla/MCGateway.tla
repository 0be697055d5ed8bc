----------------------------- MODULE MCGateway ------------------------------
(***************************************************************************)
(* Values of the constants of Gateway for TLC: device A sends to device B. *)
(***************************************************************************)
EXTENDS Gateway

CONSTANTS A, B, openA, openB, reopenB, write1, write2, closeB, t1, t2, t3

TwoDevices == {A, B}
Facing == (A :> B) @@ (B :> A)
TwoThreads == {t1, t2}
ThreeThreads == {t1, t2, t3}

\* The threads of the pool are alike.
Alike == Permutations(ThreeThreads)

KindIs == (openA :> "open") @@ (openB :> "open") @@ (reopenB :> "open")
            @@ (write1 :> "write") @@ (write2 :> "write") @@ (closeB :> "close")
DeviceIs == (openA :> A) @@ (openB :> B) @@ (reopenB :> B)
              @@ (write1 :> A) @@ (write2 :> A) @@ (closeB :> B)

\* Two files for a device that is opened and closed.
TwoFiles == DOMAIN KindIs \ {reopenB}
KindTwoFiles == [r \in TwoFiles |-> KindIs[r]]
DeviceTwoFiles == [r \in TwoFiles |-> DeviceIs[r]]

\* One file for a device that is opened twice and closed.
Reopened == DOMAIN KindIs \ {write2}
KindReopened == [r \in Reopened |-> KindIs[r]]
DeviceReopened == [r \in Reopened |-> DeviceIs[r]]

\* Two files between devices that stay open.
StayOpen == TwoFiles \ {closeB}
KindStayOpen == [r \in StayOpen |-> KindIs[r]]
DeviceStayOpen == [r \in StayOpen |-> DeviceIs[r]]
=============================================================================
