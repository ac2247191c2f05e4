SPECIFICATION Spec
CONSTANTS
  Kinds = {"identification", "ping", "kick", "extinfo", "extentry", "support_level",
           "texture_url", "env_property", "appearance1", "appearance2", "weather",
           "definition", "definition_extended", "color", "message", "initialize",
           "initialize2", "data_chunk", "finalize", "set_block", "set_block_extended",
           "spawn", "spawn_extended", "place", "place_extended", "move_turn", "move",
           "turn", "despawn"}
  StringLength = 3
  ChunkLength = 4
  SocketBuffer = 12
  MaxPackets = 2
  MaxReads = 1
INVARIANT FramesExact
CHECK_DEADLOCK FALSE
