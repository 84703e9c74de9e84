\* One test, three lines of commands out of those of MCLines, in "prepare" and
\* "cleanup" in any split.
SPECIFICATION Spec
CONSTANTS
  Paths <- MCPaths
  MaxLinks = 3
  Moved <- MCMoved
  ExpectedCode = 0
  Lines <- MCLines
  StartTree <- MCStartTree
  MaxLines = 3
  Outputs <- MCOutputs
  ChaiVars <- MCChaiVars
  Scripted <- MCScripted
  Allowed = {"git"}
INVARIANTS
  TypeOK
  MocksComeFirst
  ReportTellsTheCall
PROPERTIES
  OutsideKept
  CopiesAreWhole
  ImplementsTestRun
CHECK_DEADLOCK FALSE
