SPECIFICATION Spec
CONSTANTS
  BLOCKING_TIMES = 3
  MAXIMUM_WAIT_TIMES = 3
  SERVER_LISTEN_INTERVAL = 3
  MAXIMUM_RETRANS_CNT = 3
  TunkSize = 4
  Delay = 1
  Gap = 1
  MaxLost = 3
  Nil = Nil
CHECK_DEADLOCK FALSE
INVARIANTS
  TypeOK
  OnlyLossFails
  GivenUpInTime
PROPERTIES
  ServedNamesLastChunk
