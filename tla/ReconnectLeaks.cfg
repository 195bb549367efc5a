SPECIFICATION MainSpec
CONSTANTS
  BufferSize = 2
  MaxRequest = 2
  MaxSockets = 2
  MaxBytes = 2
INVARIANTS StoppedIsClosed
CHECK_DEADLOCK FALSE
