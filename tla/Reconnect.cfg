SPECIFICATION FairMainSpec
CONSTANTS
  BufferSize = 2
  MaxRequest = 2
  MaxSockets = 2
  MaxBytes = 2
INVARIANTS MainTypeOK
PROPERTIES CycleCompletes LossRecognized
CHECK_DEADLOCK FALSE
