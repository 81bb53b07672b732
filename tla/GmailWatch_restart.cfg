SPECIFICATION Spec
CONSTANTS
  Msg = {1, 2}
  Bad = {}
  Mail = {1, 2}
  Watched = {1, 2}
  Memory = 2
  MaxMessages = 1
  MaxFailures = 0
  MaxSessions = 2
INVARIANT AckedOnlyAfterEmitted
CHECK_DEADLOCK FALSE
