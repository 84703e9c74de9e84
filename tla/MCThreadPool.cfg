\* Three threads and three tests: several threads can be blocked at once while
\* others work, tests wait in the queue, and any of them may throw.
SPECIFICATION FairSpec
CONSTANTS
  Concurrency = 3
  NumTasks = 3
INVARIANTS
  TypeOK
  InOrder
  TaskAccounting
  NeverCallsEmptyTask
  NoTaskSleptThrough
  NothingDroppedSilently
PROPERTIES
  OnlyAMissedWakeHangs
  EveryTestReported
  ImplementsTaskPool
\* ~thread_pool may never return (MCPoolShutdown.cfg), and the program ends.
CHECK_DEADLOCK FALSE
