SPECIFICATION Spec
CONSTANTS
  Intents <- ThreeIntents
  Workers = {w1}
  Drivers = {}
  Seeds <- SomeSeeds
  Slow = {}
  Faulty = {"railway"}
  MaxStrikes = 2
  MaxCrashes = 0
  WebReads = FALSE
  MaxEdits = 0
INVARIANTS CompletedHasEvidence FallbackTracksEvidence
PROPERTY UsableEvidenceSurvives
