SPECIFICATION Spec
CONSTANTS
  w1 = w1
  w2 = w2
  j1 = j1
  j2 = j2
  j3 = j3
  None = None
  Workers <- TwoWorkers
  Jobs <- TwoJobs
  Steady <- Nothing
  Poison <- Nothing
  Faults = {"crash", "recovery_torn"}
INVARIANTS NothingLost
CHECK_DEADLOCK FALSE
