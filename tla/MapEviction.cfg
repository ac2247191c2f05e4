SPECIFICATION EvictFairSpec
CONSTANTS
  MaxEntries = 2
  EntrySize = 1
  Threshold = 0
  MaxBlocking = 2
PROPERTY PassEvicts
CHECK_DEADLOCK FALSE
