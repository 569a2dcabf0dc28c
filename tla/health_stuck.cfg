\* A recovery called off before the target is reached.
SPECIFICATION FairSpec
CONSTANTS
  Timer = {t1, t2}
  MaxCalls = 1
  Funded = TRUE
  AppErrors = FALSE
  DegradedThreshold = 3
  OfflineThreshold = 6
  NULL = NULL
PROPERTY BecomesHealthy
CHECK_DEADLOCK FALSE
