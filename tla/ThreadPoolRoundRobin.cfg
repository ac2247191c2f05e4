SPECIFICATION RRSpec
CONSTANTS
  w1 = w1
  w2 = w2
  t1 = t1
  NULL = NULL
  Workers = {w1, w2}
  Tasks = {t1}
  ShutdownTasks = {}
  Capacity <- SmallBuffers
  MaxBlocking = 1
  Pattern <- ServerPattern
SYMMETRY Symmetry
INVARIANT
  BoundedOvertaking
