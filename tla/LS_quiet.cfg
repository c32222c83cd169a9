SPECIFICATION FairSpec
CONSTANTS
  s1 = s1
  s2 = s2
  s3 = s3
  h1 = h1
  h2 = h2
  c1 = c1
  c2 = c2
  None = None
  Scans <- ThreeScans
  Launchers <- TwoLaunchers
  Cancellers <- Nobody
  Total = 1
  Budget = 0
  DbErrors = FALSE
  MaxActive = 1
  PoolSize = 1
  MaxRestarts = 1
INVARIANTS TerminalIsQuiet OvershootBounded
PROPERTIES FollowsLifecycle EveryScanEnds
CHECK_DEADLOCK FALSE
