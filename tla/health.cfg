\* The thresholds of the code; a funded account, calls that may fail on their own.
SPECIFICATION FairSpec
CONSTANTS
  Timer = {t1, t2, t3}
  MaxCalls = 2
  Funded = TRUE
  AppErrors = TRUE
  DegradedThreshold = 3
  OfflineThreshold = 6
  NULL = NULL
INVARIANTS
  TypeOK
  RecoveringHasProbe
PROPERTIES
  RefusalEnds
CHECK_DEADLOCK FALSE
