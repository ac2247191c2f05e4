SPECIFICATION Spec
CONSTANTS
  MaxChanges = 1
  MaxSaves = 1
INVARIANTS MemoryExact LoadedComplete CleanMeansSaved
CHECK_DEADLOCK FALSE
