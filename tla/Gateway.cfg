SPECIFICATION Spec
CONSTANTS
  A = A
  B = B
  openA = openA
  openB = openB
  reopenB = reopenB
  write1 = write1
  write2 = write2
  closeB = closeB
  t1 = t1
  t2 = t2
  t3 = t3
  Nil = Nil
  Devices <- TwoDevices
  Peer <- Facing
  Workers <- TwoThreads
  Requests <- TwoFiles
  Kind <- KindTwoFiles
  Device <- DeviceTwoFiles
  MaxIoErrs = 1
  MaxCrashes = 0
CHECK_DEADLOCK FALSE
INVARIANTS
  TypeOK
  ConnectionInOnePlace
  ReportsMatchFiles
PROPERTIES
  OnlyRefusalStrands
  EventsSettle
