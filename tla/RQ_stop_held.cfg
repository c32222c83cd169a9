SPECIFICATION Spec
CONSTANTS
  w1 = w1
  w2 = w2
  j1 = j1
  j2 = j2
  j3 = j3
  None = None
  Workers <- TwoWorkers
  Jobs <- TwoJobs
  Steady <- OneSteady
  Poison <- Nothing
  Faults = {"stop"}
INVARIANTS RunningJobIsHeld
CHECK_DEADLOCK FALSE
