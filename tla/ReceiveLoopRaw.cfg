SPECIFICATION Spec
CONSTANTS
  RecvBuffer = 6
  MaxValues = 2
  Signals = {1}
  Formats <- MCFormats
  DefaultFormat <- V
  DataSizes <- MCSizes
  StraySizes = {0, 3, 5}
  MetaSizes = {0, 6}
  MaxSent = 4
  MaxSessions = 2
INVARIANTS RawBlockIsValues
CHECK_DEADLOCK FALSE
