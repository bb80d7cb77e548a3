SPECIFICATION FairSpec
CONSTANTS
  Callers = {c1, c2}
  Workers = {t1, t2}
  MaxStarts = 2
  MaxRevisions = 1
  MaxCrashes = 1
CHECK_DEADLOCK FALSE
INVARIANTS TypeOK OneWorker
PROPERTIES OptionsAreBacked OptionsStay ComparisonSettles
