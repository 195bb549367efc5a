SPECIFICATION ControlSpec
CONSTANTS
  a = a
  b = b
  Devices = {a, b}
  Interfaces <- MCInterfaces
  MaxSessions = 2
  s = s
  t = t
  Signals = {s, t}
  MaxNews = 2
INVARIANTS ControlTypeOK CallbackNamesSession StoppedIsSilent CycleEndsSubscriptions SetFollowsDevice
CHECK_DEADLOCK FALSE
