SPECIFICATION FairSpec
CONSTANTS
  Concurrency = 2
  NumTasks = 1
PROPERTY
  DestructorReturns
CHECK_DEADLOCK FALSE
