SPECIFICATION Spec
CONSTANTS
    c1 = c1
    c2 = c2
    Candidates <- TwoCandidates
    Configured = {"railway", "web"}
    Says <- Sayings
    Lendable = {"near"}
    Timeout <- Timeouts
    Tolerance = 0
    MaxTime = 2
INVARIANTS StreamedIsReturned NobodyVanishes ReasonsAreTold
PROPERTY ComparisonEnds
CHECK_DEADLOCK FALSE
