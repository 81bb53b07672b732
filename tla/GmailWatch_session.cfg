SPECIFICATION FairSpec
CONSTANTS
  Msg = {2, 3, b}
  Bad = {b}
  Mail = {1, 2, 3}
  Watched = {1, 2, 3}
  Memory = 1
  MaxMessages = 2
  MaxFailures = 1
  MaxSessions = 2
PROPERTIES AtLeastOnce DuplicatesOnlyAfterMemory EveryMailEmitted
CHECK_DEADLOCK FALSE
