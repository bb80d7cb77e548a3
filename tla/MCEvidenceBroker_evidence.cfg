SPECIFICATION Spec
CONSTANTS
    r1 = r1
    r2 = r2
    Runs <- TwoRuns
    Readers <- OneReader
    Domains = {"railway", "map"}
    Tolerance = 0
    Throttle = 2
    MaxTime = 2
    MaxAsks = 2
    MaxFaults = 1
INVARIANTS FreshMeansLive LiveRailwayIsVerified ReadsAreValid
PROPERTIES RecordOnlyImproves FailedReadsAreSpaced
CHECK_DEADLOCK FALSE
