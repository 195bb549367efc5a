SPECIFICATION Spec
CONSTANTS
  a = a
  b = b
  Devices = {a, b}
  Interfaces <- MCInterfaces
  MaxSessions = 2
INVARIANTS FailureThrows
CHECK_DEADLOCK FALSE
