SPECIFICATION Spec
CONSTANTS
  Intents <- OneIntent
  Workers = {w1}
  Drivers = {}
  Seeds <- NoSeeds
  Slow = {"railway"}
  Faulty = {}
  MaxStrikes = 3
  MaxCrashes = 0
  WebReads = FALSE
  MaxEdits = 1
INVARIANT EndedCanRestart
PROPERTY LateResultAccepted
