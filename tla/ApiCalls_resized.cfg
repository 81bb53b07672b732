SPECIFICATION Spec
CONSTANTS
  MaxAttempts = 1
  MaxExpiries = 0
  Total = 2
  ChunkSize = 1
  MaxFailures = 1
  None = None
INVARIANTS
  NothingUploaded
CHECK_DEADLOCK FALSE
