SPECIFICATION Spec
CONSTANTS
  MaxRestarts = 1
  MaxEdits = 3
  MaxFaults = 3
  MaxHuman = 1
INVARIANTS
  SucceededIsDelivered
  EarlierWorkIsDelivered
  NoChangesIsTrue
  PublishedDescendsFromBase
  FailsOnlyForCause
CHECK_DEADLOCK FALSE
