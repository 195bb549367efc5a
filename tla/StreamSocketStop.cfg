SPECIFICATION FairSpec
CONSTANTS
  BufferSize = 2
  MaxRequest = 2
  MaxSockets = 1
  MaxBytes = 2
PROPERTIES StopEndsReceive
CHECK_DEADLOCK FALSE
