SPECIFICATION Spec
CONSTANTS
  w1 = w1
  w2 = w2
  Workers = {w1, w2}
  MaxSessions = 1
  MaxConnections = 2
  Packets <- CpePackets
  Counts = {0, 1, 2}
  MaxExtraEntries = 1
  MaxPlayers = 2
  MaxBroken = 1
SYMMETRY Symmetry
CHECK_DEADLOCK FALSE
INVARIANTS TypeOK OneChain
PROPERTY OnlyOwnChainDisconnects
