---------------------------- MODULE FileDelivery ----------------------------
(***************************************************************************)
(* What FileTransfer promises to the layer above, whatever the channel: a  *)
(* call of transfer() succeeds only when its file has arrived at the other *)
(* side, a file that has arrived is never given up, and receive() writes   *)
(* nothing else.  A call may fail although its file arrives, then or later.*)
(***************************************************************************)
CONSTANT Transfers

VARIABLES
  call,      \* "idle", "running", "ok" or "failed"
  arrived,   \* the other side has the whole file
  written    \* receive() has written it

vars == <<call, arrived, written>>

Init ==
  /\ call = [t \in Transfers |-> "idle"]
  /\ arrived = [t \in Transfers |-> FALSE]
  /\ written = [t \in Transfers |-> FALSE]

Returns(t, from, to) ==
  /\ call[t] = from
  /\ call' = [call EXCEPT ![t] = to]
  /\ UNCHANGED <<arrived, written>>

Begin(t)   == Returns(t, "idle", "running")
Refuse(t)  == Returns(t, "idle", "failed")
Fail(t)    == Returns(t, "running", "failed")
Succeed(t) == arrived[t] /\ Returns(t, "running", "ok")

Arrive(t) ==
  /\ call[t] \in {"running", "failed"} /\ ~arrived[t]
  /\ arrived' = [arrived EXCEPT ![t] = TRUE]
  /\ UNCHANGED <<call, written>>

Write(t) ==
  /\ arrived[t] /\ ~written[t]
  /\ written' = [written EXCEPT ![t] = TRUE]
  /\ UNCHANGED <<call, arrived>>

Next ==
  \E t \in Transfers :
    \/ Begin(t) \/ Refuse(t) \/ Fail(t) \/ Succeed(t)
    \/ Arrive(t) \/ Write(t)

Spec == Init /\ [][Next]_vars

\* A file that has arrived is written.
Progress == \A t \in Transfers : arrived[t] ~> written[t]
=============================================================================
