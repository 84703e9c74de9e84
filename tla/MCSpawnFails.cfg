SPECIFICATION Spec
CONSTANTS
  a = a
  b = b
  Runs = {a, b}
  Modes = {"piped"}
  Capacity = 1
  MaxWrites <- NoWrites
  SpawnMayFail = TRUE
INVARIANT
  OwnStatus
CHECK_DEADLOCK FALSE
