SPECIFICATION FairSpec
CONSTANTS
  w1 = w1
  w2 = w2
  Workers = {w1, w2}
  MaxSessions = 2
  MaxConnections = 2
  Packets = {"identification"}
  Counts = {}
  MaxExtraEntries = 0
  MaxPlayers = 2
  MaxBroken = 0
CHECK_DEADLOCK FALSE
PROPERTY StopDisconnectsEveryone
INVARIANTS IdsExact OneChain
