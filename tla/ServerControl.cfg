SPECIFICATION FairSpec
CONSTANTS
  NumThreads = 3
  MaxTasks = 2
INVARIANTS TypeOK ServedThenDrained FreedOnce OnlyKnownLeaks
PROPERTY QuitEnds
CHECK_DEADLOCK FALSE
