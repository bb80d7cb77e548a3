SPECIFICATION Spec
CONSTANTS
  Intents <- OneIntent
  Workers = {w1, w2}
  Drivers = {d1}
  Seeds <- NoSeeds
  Slow = {}
  Faulty = {}
  MaxStrikes = 2
  MaxCrashes = 0
  WebReads = FALSE
  MaxEdits = 0
SYMMETRY Threads
INVARIANTS TypeOK SingleFlight CompletedServesInstalledPlan
