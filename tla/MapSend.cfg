SPECIFICATION SendFairSpec
CONSTANTS
  MaxEntries = 3
  EntrySize = 1
  Threshold = 1
  MaxBlocking = 2
INVARIANTS TypeOK TransfersSafe BalancedEnd
PROPERTIES OpensAnswered SendsEnd
CHECK_DEADLOCK FALSE
