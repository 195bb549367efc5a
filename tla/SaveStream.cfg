SPECIFICATION Spec
CONSTANTS
  Numbers = {1, 2}
  References = {"u", "v"}
  MaxLines = 3
INVARIANTS NextLine
CHECK_DEADLOCK FALSE
