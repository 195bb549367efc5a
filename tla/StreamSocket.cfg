SPECIFICATION BuildsSpec
CONSTANTS
  BufferSize = 2
  MaxRequest = 2
  MaxSockets = 2
  MaxBytes = 4
INVARIANTS TypeOK InOrder NothingLost
PROPERTIES ImplementsChannel
CHECK_DEADLOCK FALSE
