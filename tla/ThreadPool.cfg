SPECIFICATION Spec
CONSTANTS
  w1 = w1
  w2 = w2
  t1 = t1
  t2 = t2
  t3 = t3
  Nil = Nil
  Workers <- TwoWorkers
  Tasks <- ThreeTasks
CHECK_DEADLOCK FALSE
INVARIANTS
  TypeOK
  AcceptedOnce
  JoinedMeansDrained
PROPERTIES
  AcceptedRuns
  ClosesUnlessParking
