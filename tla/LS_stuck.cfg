SPECIFICATION FairSpec
CONSTANTS
  s1 = s1
  s2 = s2
  s3 = s3
  h1 = h1
  h2 = h2
  c1 = c1
  c2 = c2
  None = None
  Scans <- OneScan
  Launchers <- OneLauncher
  Cancellers <- OneCanceller
  Total = 1
  Budget = 1
  DbErrors = FALSE
  MaxActive = 1
  PoolSize = 1
  MaxRestarts = 0
PROPERTIES CancellingResolves
CHECK_DEADLOCK FALSE
