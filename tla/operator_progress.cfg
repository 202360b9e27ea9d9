SPECIFICATION FairSpec
CONSTANTS
  Buckets = {TRUE}
  StaleReads = FALSE
  MaxRestarts = 1
  MaxGen = 4
  MaxWork = 2
  Scenarios <- Progress
PROPERTIES
  CancelIsHonoured
  PauseResolves
  InterruptionResolves
CHECK_DEADLOCK FALSE
