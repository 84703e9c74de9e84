\* The child of b may run for ever.
SPECIFICATION Spec
CONSTANTS
  a = a
  b = b
  Runs = {a, b}
  Modes = {"piped"}
  Capacity = 1
  MaxWrites <- NoWrites
  SpawnMayFail = FALSE
PROPERTY
  ReturnsWithItsChild
CHECK_DEADLOCK FALSE
