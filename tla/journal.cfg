SPECIFICATION FairSpec
CONSTANTS
  MaxAttempts = 2
  MaxLines = 2
  MaxSnapshots = 1
  MaxFaults = 1
  PageLimit = 1
  Handlers = {h1, h2}
  Stores = {"postgres", "memory"}
INVARIANTS
  JournaledOnce
  JournalIsAPrefix
  PassedIsJournaled
  MemoryReaderMissesNothing
PROPERTIES
  EveryEventArrives
CHECK_DEADLOCK FALSE
