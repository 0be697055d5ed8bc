SPECIFICATION Spec
CONSTANTS
  transfer = transfer
  manage = manage
  listen = listen
  Refused = Refused
  Writers <- Threads
  Scenarios <- ZeroByte
  PayloadLen = 8
  MaxSplits = 3
  MaxLost = 1
CHECK_DEADLOCK FALSE
INVARIANTS
  FileArrivesWhole
