SPECIFICATION Spec
CONSTANTS
  Intents <- OneIntent
  Workers = {w1}
  Drivers = {}
  Seeds <- NoSeeds
  Slow = {}
  Faulty = {"web"}
  MaxStrikes = 2
  MaxCrashes = 1
  WebReads = TRUE
  MaxEdits = 0
CHECK_DEADLOCK FALSE
INVARIANTS EndedCanRestart QuiescentLoopIsDurable
