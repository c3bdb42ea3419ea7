SPECIFICATION FairSpec
CONSTANTS
  BYTES = 2
  BITS = 2
  DELAY = 1
  MaxJobs = 5
  MaxTime = 4
INVARIANTS
  TypeOK
  AtMostOnce
  BitmapIsExact
  NullIsNotCalled
PROPERTIES
  EveryJobRuns
CHECK_DEADLOCK FALSE
