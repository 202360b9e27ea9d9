SPECIFICATION Spec
CONSTANTS
  Buckets = {TRUE, FALSE}
  StaleReads = FALSE
  MaxRestarts = 1
  MaxGen = 4
  MaxWork = 2
  Scenarios <- Safety
INVARIANTS
  OneAgentAtATime
  PausedHasNoAgent
  PausedCheckpointIsCurrent
  CanceledStopsTheAgent
  AbortedPauseLeavesHarnessRunning
  ChargedPerLoss
  RetryBudgetRespected
PROPERTIES
  ImplementsLifecycle
  NoFreshStartAfterResume
  PausedWorkSurvives
CHECK_DEADLOCK FALSE
