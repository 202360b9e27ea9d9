SPECIFICATION FairSpec
CONSTANTS
  Runs = {r1}
  Workers = {w1, w2}
  Readers = {p1}
  ClaimLimit = 2
  MaxLaunchAttempts = 2
  MaxStatus = 2
  MaxFaults = 2
INVARIANTS
  TypeOK
  OneVerdict
  WorkIsNeverLost
PROPERTIES
  ImplementsLaunchRequest
  RequestResolves
CHECK_DEADLOCK FALSE
