SPECIFICATION Spec
CONSTANTS
  a = a
  b = b
  r1 = r1
  r2 = r2
  Nil = Nil
  Garbage = Garbage
  Transfers <- OneCall
  Chunks <- OneChunk
  NumIds = 1
  IdLimit = 100
  MaxLoss = 0
  MaxIoErrs = 0
  MaxFaults = 1
  MaxRestarts = 0
  MaxRetrans = 1
  RetransCap = 16
  Readers <- OneReader
  MayRestart = {"client", "server"}
CHECK_DEADLOCK FALSE
PROPERTIES
  TransferReturns
