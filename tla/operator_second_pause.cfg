SPECIFICATION Spec
CONSTANTS
  Buckets = {TRUE}
  StaleReads = FALSE
  MaxRestarts = 1
  MaxGen = 2
  MaxWork = 2
  Scenarios <- PausedTwice
INVARIANTS
  PausedCheckpointIsCurrent
CHECK_DEADLOCK FALSE
