SPECIFICATION Spec
CONSTANTS
  Buckets = {TRUE}
  StaleReads = TRUE
  MaxRestarts = 1
  MaxGen = 2
  MaxWork = 1
  Scenarios <- Cached
PROPERTIES
  TerminalIsFinal
  AttemptsOnlyAdvance
CHECK_DEADLOCK FALSE
