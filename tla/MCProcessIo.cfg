\* Two concurrent runs, plain or with stderr redirected, pipes that hold one
\* write: a child blocks at its second one unless somebody reads.
SPECIFICATION EndingSpec
CONSTANTS
  a = a
  b = b
  Runs = {a, b}
  Modes = {"piped", "error_to_output"}
  Capacity = 1
  MaxWrites <- MCWrites
  SpawnMayFail = TRUE
PROPERTIES
  EveryRunReturns
  ImplementsIoRun
CHECK_DEADLOCK FALSE
