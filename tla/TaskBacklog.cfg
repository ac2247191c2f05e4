SPECIFICATION FairSpec
CONSTANTS
  Contexts = {"a", "b"}
  Priorities = {1, 2}
  CurrentPriority = 2
  BlockSize = 2
  MaxPushes = 5
INVARIANTS TypeOK OneContinuation RefsExact
PROPERTIES Implements EveryoneAnswered
CHECK_DEADLOCK FALSE
