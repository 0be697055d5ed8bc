SPECIFICATION Spec
CONSTANTS
  A = A
  B = B
  openA = openA
  openB = openB
  reopenB = reopenB
  write1 = write1
  write2 = write2
  closeB = closeB
  t1 = t1
  t2 = t2
  t3 = t3
  Nil = Nil
  Devices <- TwoDevices
  Peer <- Facing
  Workers <- ThreeThreads
  Requests <- Reopened
  Kind <- KindReopened
  Device <- DeviceReopened
  MaxIoErrs = 1
  MaxCrashes = 1
SYMMETRY Alike
CHECK_DEADLOCK FALSE
INVARIANTS
  OneFate
PROPERTIES
  OnlyRefusalStrands
