SPECIFICATION FairReaderSpec
CONSTANTS
  RecvBuffer = 6
  MaxValues = 2
  Signals = {1, 2}
  Formats <- MCFormats
  DefaultFormat <- V
  DataSizes <- MCSizes
  StraySizes = {0, 5, 6}
  MetaSizes = {0, 5}
  MaxSent = 4
  MaxSessions = 2
  MaxStream = 26
  MaxAhead = 1
INVARIANTS ReaderTypeOK Framed InBounds FormatCurrent DeliveredInOrder AllDelivered RawMatches ClockInStep HeaderFollows
PROPERTIES MessageEnds ReadsMessages
CHECK_DEADLOCK FALSE
