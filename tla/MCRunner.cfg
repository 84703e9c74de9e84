\* Two pooled tests around a linear one; one test has no "expected", one
\* expects a failure and one a success, two have a "post"; with RUN_LINEAR and
\* without it.
SPECIFICATION Spec
CONSTANTS
  NumTests = 3
  Linear = {2}
  Codes = {0, 1}
  Expected <- MCExpected
  Unset = Unset
  Cut = Cut
  Posts <- MCPosts
  KeepDirs = FALSE
  PoolSize = 2
INVARIANTS
  TypeOK
  ReportOrder
  HonestSummary
  DirectoryLifetime
  FirstFailureWins
  OnlyFullRunsAreSaved
  StaysHome
PROPERTIES
  CwdStableInPool
CHECK_DEADLOCK FALSE
