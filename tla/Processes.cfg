SPECIFICATION Spec
CONSTANTS
  e1 = e1
  garbled = garbled
  unknown = unknown
  malformed = malformed
  Nil = Nil
  user_app <- TwoApps
  Pids = {p1, p2}
  ForkMayFail = TRUE
  Messages <- AllMessages
  Script <- OneEvent
  Foreign <- Poison
  MaxForeign = 1
  Kind <- KindPoison
  MaxIoErrs = 1
  MaxFaults = 2
CHECK_DEADLOCK FALSE
INVARIANTS
  TypeOK
  OneProcessEach
  AccountedFor
  DeafOnlyAfterFailure
PROPERTIES
  Restarted
  MessagesSettle
