SPECIFICATION FairSpec
CONSTANTS
  Calls = {c1, c2, c3}
  Requests <- AllRequests
  MaxEntries = 2
  Retention = 0
  MaxClock = 1
CHECK_DEADLOCK FALSE
INVARIANTS TypeOK CompleteHasEveryFinding OneCollectionPerRequest
PROPERTIES CapacitySparesRunning RefusedOnlyWhenAllRun EveryReceiptSettles KeepsPromise
