SPECIFICATION Spec
CONSTANTS
  RunIds = {r1}
  Watched = {r1}
  Installers = {i1}
  MaxSequence = 5
  MaxPlans = 2
  MaxFaults = 1
CHECK_DEADLOCK FALSE
INVARIANTS AnsweredIsWritten StreamsAreWhole RecordFollowsLog
PROPERTIES VersionsStay EventsAreTold
