SPECIFICATION FairSpec
CONSTANTS
  s1 = s1
  s2 = s2
  s3 = s3
  h1 = h1
  h2 = h2
  c1 = c1
  c2 = c2
  None = None
  Scans <- OneScan
  Launchers <- OneLauncher
  Cancellers <- OneCanceller
  Total = 2
  Budget = 2
  DbErrors = TRUE
  MaxActive = 1
  PoolSize = 1
  MaxRestarts = 1
INVARIANTS RegistryIsBacked RunningIsRegistered LiveRowIsOwned
PROPERTIES SlotReleased CancelStopsRequests
CHECK_DEADLOCK FALSE
