SPECIFICATION Spec
CONSTANTS
  a = a
  b = b
  r1 = r1
  r2 = r2
  Nil = Nil
  Garbage = Garbage
  Transfers <- TwoCalls
  Chunks <- TwoAndOne
  NumIds = 2
  IdLimit = 1
  MaxLoss = 0
  MaxIoErrs = 1
  MaxFaults = 1
  MaxRestarts = 1
  MaxRetrans = 1
  RetransCap = 16
  Readers <- TwoReaders
  MayRestart = {"client", "server"}
SYMMETRY ReaderSymmetry
CHECK_DEADLOCK FALSE
INVARIANTS
  IdExclusive
  DeliveryHasDescriptor
  AckMeansStored
  ReadableIsComplete
  OversizeNeverAcked
  ReadableHasReader
  CompleteAnnounced
