\* A test that is plain, redirects or installs next to a plain and silent one
\* whose child may hold its handles; no child need end.
SPECIFICATION Spec
CONSTANTS
  a = a
  b = b
  Runs = {a, b}
  Modes <- MCModes
  Capacity = 1
  MaxWrites <- MCWrites
INVARIANTS
  CaptureIsWhole
PROPERTIES
  ReturnsWithItsChild
  WritesGoThrough
  ImplementsIoRun
CHECK_DEADLOCK FALSE
