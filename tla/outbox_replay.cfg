SPECIFICATION Spec
CONSTANTS
  Runs = {r1}
  Workers = {w1}
  Readers = {}
  ClaimLimit = 1
  MaxLaunchAttempts = 12
  MaxStatus = 1
  MaxFaults = 1
INVARIANTS
  ReplayIsIdempotent
CHECK_DEADLOCK FALSE
