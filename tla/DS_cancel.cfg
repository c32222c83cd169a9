SPECIFICATION Spec
CONSTANTS
  s1 = s1
  s2 = s2
  w1 = w1
  w2 = w2
  h1 = h1
  c1 = c1
  None = None
  Scans <- OneScan
  Workers <- TwoWorkers
  Steady <- OneSteady
  Poison <- Nobody
  Faults = {"crash", "recovery_torn", "stop", "lapse"}
  WebFaults = {"web_crash"}
  Total = 1
  Budget = 0
  MaxActive = 1
  Launchers <- OneLauncher
  Cancellers <- OneCanceller
PROPERTIES CancelIsRemembered
CHECK_DEADLOCK FALSE
