SPECIFICATION ScannerSpec
CONSTANTS
  Bodies <- MCBodies
  Likeness <- MCLikeness
  QuoteProbes = 2
  BooleanPairs = 1
  XssPayloads = 2
  CommonParams = 1
  OsProbes = 2
  LoginAttempts = 4
  RateAttempts = 4
  DefaultPaths = 2
  MaxPaths = 3
  Inputs <- MCInputs
  Answers <- MCAnswers
INVARIANTS SilenceIsNotSafety
CHECK_DEADLOCK FALSE
