SPECIFICATION FairSpec
CONSTANTS
  w1 = w1
  w2 = w2
  Workers = {w1, w2}
  MaxSessions = 1
  MaxConnections = 1
  Packets = {"identification"}
  Counts = {}
  MaxExtraEntries = 0
  MaxPlayers = 1
  MaxBroken = 0
CHECK_DEADLOCK FALSE
PROPERTY KickCompletes
