SPECIFICATION FairSpec
CONSTANTS
  MaxHead = 2
  MaxCrashes = 2
  MaxFailures = 6
INVARIANTS TypeOK NoGap
PROPERTIES BackoffGrows Recovers
CHECK_DEADLOCK FALSE
