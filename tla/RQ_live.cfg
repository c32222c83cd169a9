SPECIFICATION FairSpec
CONSTANTS
  w1 = w1
  w2 = w2
  j1 = j1
  j2 = j2
  j3 = j3
  None = None
  Workers <- TwoWorkers
  Jobs <- ThreeJobs
  Steady <- OneSteady
  Poison <- OnePoison
  Faults = {"crash", "reply_lost", "job_error"}
INVARIANTS ExclusiveExecution RunningJobIsHeld NothingLost
PROPERTIES ImplementsPool EventuallyCompleted
