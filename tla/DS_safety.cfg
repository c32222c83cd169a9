SPECIFICATION Spec
CONSTANTS
  s1 = s1
  s2 = s2
  w1 = w1
  w2 = w2
  h1 = h1
  c1 = c1
  None = None
  Scans <- OneScan
  Workers <- TwoWorkers
  Steady <- Nobody
  Poison <- Nobody
  Faults = {"crash", "reply_lost", "reserve_lost", "job_error"}
  WebFaults = {"redis_down"}
  Total = 1
  Budget = 0
  MaxActive = 1
  Launchers <- OneLauncher
  Cancellers <- OneCanceller
SYMMETRY WorkerSymmetry
INVARIANTS ActiveIsBacked OneExecution
CHECK_DEADLOCK FALSE
