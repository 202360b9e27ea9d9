SPECIFICATION Spec
CONSTANTS
  Buckets = {TRUE}
  StaleReads = FALSE
  MaxRestarts = 2
  MaxGen = 4
  MaxWork = 1
  Scenarios <- NodeLost
INVARIANTS
  ChargedOncePerIncident
CHECK_DEADLOCK FALSE
