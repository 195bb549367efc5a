SPECIFICATION Spec
CONSTANTS
  RecvBuffer = 6
  MaxValues = 2
  Signals = {1}
  Formats <- LongFormats
  DefaultFormat <- V
  DataSizes <- LongSizes
  StraySizes = {0, 3, 5}
  MetaSizes = {0, 6}
  MaxSent = 4
  MaxSessions = 2
INVARIANTS AllDelivered
CHECK_DEADLOCK FALSE
