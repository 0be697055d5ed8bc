----------------------------- MODULE MCProcesses -----------------------------
EXTENDS Processes

CONSTANTS e1, garbled, unknown, malformed

TwoApps == <<"device_control", "pressure_test">>
OneEvent == <<e1>>
Poison == {garbled, unknown, malformed}
KindPoison ==
  [e \in ToSet(Script) \union Foreign |->
     IF e = garbled THEN "garbled"
     ELSE IF e = unknown THEN "unknown"
     ELSE IF e = malformed THEN "malformed" ELSE "good"]
AllMessages == ToSet(Script) \union Foreign
=============================================================================
