SPECIFICATION Spec
CONSTANTS
  Publishers = {p1, p2}
  Retain = 2
  MaxCheckpoints = 3
  MaxFaults = 2
SYMMETRY Symmetric
INVARIANTS
  TypeOK
  ManifestsAreBacked
  RestorableOnceReported
  RestoreFailsOnlyWhenOverrun
  RestoreTakesTheNewest
CHECK_DEADLOCK FALSE
