SPECIFICATION FairSpec
CONSTANTS
  MaxAttempts = 3
  MaxExpiries = 1
  Total = 3
  ChunkSize = 1
  MaxFailures = 1
  None = None
INVARIANTS
  AtMostOnce
  NotFoundIsHonest
  RejectedMeansNothing
  NothingSkipped
PROPERTIES
  CallEnds
CHECK_DEADLOCK FALSE
