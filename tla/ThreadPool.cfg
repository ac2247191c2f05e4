SPECIFICATION FairSpec
CONSTANTS
  w1 = w1
  w2 = w2
  t1 = t1
  s1 = s1
  NULL = NULL
  Workers = {w1, w2}
  Tasks = {t1}
  ShutdownTasks = {s1}
  Capacity <- ThreePriorities
  MaxBlocking = 1
  Pattern <- ShortPattern
PROPERTIES
  StopCompletes
  NoStarvation
INVARIANTS
  TypeOK
  ContinuationFits
  CountersExact
  NoLostWakeup
  DrainedAtExit
