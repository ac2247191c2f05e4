------------------------------ MODULE MapSetup ------------------------------
(***************************************************************************)
(* What a client is sent ahead of the blocks of a map, and which maps it   *)
(* is refused (src/src/api.c, on_map_load_success and tc_send_map_task2):  *)
(* the level initialize packet and the packets for the map's extensions,   *)
(* each of which the client must have negotiated.  A packet is the         *)
(* extension it belongs to with what it sets.                              *)
(***************************************************************************)
EXTENDS Integers, Sequences

VARIABLES
  version,   \* the session's version of each extension, 0 without it
  map,       \* which extensions the map uses, and what of it is out of range
  at,        \* the next block of the code
  todo,      \* packets of the current block still to send
  sent       \* packets sent

vars == << version, map, at, todo, sent >>
client == << version, map >>

ColorFields == {"sky", "cloud", "fog", "ambient", "sunlight"}

\* oversize: the compressed blocks are over INT32_MAX bytes.  bad_colors: load_color
\* takes any short for a colour.
Init ==
  /\ version \in [FastMap : 0..1, ExtendedBlocks : 0..1, EnvMapAspect : 0..1,
                  EnvMapAppearance : 0..3, EnvWeatherType : 0..1, EnvColors : 0..1,
                  BlockDefinitions : 0..1]
  /\ map \in [block_array2 : BOOLEAN, env_aspect : BOOLEAN, env_appearance : 0..2,
              env_weather : BOOLEAN, env_colors : BOOLEAN, block_definitions : BOOLEAN,
              oversize : BOOLEAN, bad_colors : SUBSET ColorFields]
  /\ map.bad_colors # {} => map.env_colors
  /\ at = "compress"
  /\ todo = << >>
  /\ sent = << >>

Packets(extension, contents) == [k \in 1..Len(contents) |-> << extension, contents[k] >>]

AspectPackets ==
  Packets("EnvMapAspect",
          << "texture_url", "side_block", "edge_block", "edge_height", "clouds_height",
             "clouds_speed", "weather_speed", "weather_fade", "exponential_fog",
             "side_offset" >>)

FallbackPackets ==
  Packets("EnvMapAspect",
          << "texture_url", "side_block", "edge_block", "edge_height", "clouds_height",
             "max_view_distance" >>)

ColorPackets == Packets("EnvColors", << "sky", "cloud", "fog", "ambient", "sunlight" >>)

\* The block is done: go to the next one with its packets to send.
GoOn(next, packets) ==
  /\ at' = next
  /\ todo' = packets
  /\ UNCHANGED << client, sent >>

\* handle_failure, which kicks the session; or the program ends.
Stop(status) == GoOn(status, << >>)

At(place) == at = place /\ todo = << >>

-----------------------------------------------------------------------------
\* tc_cpe_send_set_env_color asserts that the colour is in range, before it sends.
Asserts(packet) == packet[1] = "EnvColors" /\ packet[2] \in map.bad_colors

Send ==
  /\ todo # << >> /\ ~Asserts(Head(todo))
  /\ sent' = Append(sent, Head(todo))
  /\ todo' = Tail(todo)
  /\ UNCHANGED << client, at >>

\* A packet cannot be sent.
SendFails ==
  /\ todo # << >> /\ ~Asserts(Head(todo))
  /\ Stop("failed")

SendAborts ==
  /\ todo # << >> /\ Asserts(Head(todo))
  /\ Stop("aborted")

\* on_map_load_success: the arrays are compressed and tc_send_map_task2 is
\* scheduled, each of which may fail.
Compress ==
  /\ At("compress")
  /\ \/ Stop("failed")
     \/ /\ map.block_array2 => version.ExtendedBlocks > 0
        /\ GoOn("initialize", << >>)

Initialize ==
  /\ At("initialize")
  /\ IF version.FastMap = 0 THEN GoOn("environment", Packets("none", << "level_initialize" >>))
     ELSE IF map.oversize THEN Stop("aborted")
     ELSE GoOn("environment", Packets("FastMap", << "level_initialize2" >>))

\* The texture of the aspect packets is the appearance extension's: a map
\* without one is read through a null pointer.
Aspect ==
  /\ At("environment")
  /\ map.env_aspect
  /\ IF version.EnvMapAspect = 0 THEN Stop("failed")
     ELSE IF map.env_appearance = 0 THEN Stop("aborted")
     ELSE GoOn("weather", AspectPackets)

\* The map's version of the extension is newer than the client's: fall back on
\* the packets of the other extension, or give up.
Appearance ==
  /\ At("environment")
  /\ ~map.env_aspect /\ map.env_appearance > 0
  /\ IF map.env_appearance <= version.EnvMapAppearance THEN GoOn("appearance", << >>)
     ELSE IF version.EnvMapAspect = 0 THEN Stop("failed")
     ELSE GoOn("appearance", FallbackPackets)

\* The appearance packet, fallback or not, of the client's version.
AppearancePacket ==
  /\ At("appearance")
  /\ CASE version.EnvMapAppearance = 2 ->
            GoOn("weather", Packets("EnvMapAppearance", << "appearance2" >>))
       [] version.EnvMapAppearance = 1 ->
            GoOn("weather", Packets("EnvMapAppearance", << "appearance1" >>))
       [] OTHER -> Stop("aborted")

NoEnvironment ==
  /\ At("environment")
  /\ ~map.env_aspect /\ map.env_appearance = 0
  /\ GoOn("weather", << >>)

Weather ==
  /\ At("weather")
  /\ IF ~map.env_weather THEN GoOn("colors", << >>)
     ELSE IF version.EnvWeatherType = 0 THEN Stop("failed")
     ELSE GoOn("colors", Packets("EnvWeatherType", << "weather" >>))

Colors ==
  /\ At("colors")
  /\ IF ~map.env_colors THEN GoOn("definitions", << >>)
     ELSE IF version.EnvColors = 0 THEN Stop("failed")
     ELSE GoOn("definitions", ColorPackets)

\* The definitions themselves are not sent.  The transfer of the blocks is
\* scheduled, unless there is no memory for it.
Definitions ==
  /\ At("definitions")
  /\ \/ Stop("failed")
     \/ /\ map.block_definitions => version.BlockDefinitions > 0
        /\ GoOn("ready", << >>)

Next ==
  \/ Send \/ SendFails \/ SendAborts \/ Compress \/ Initialize \/ Aspect \/ Appearance
  \/ AppearancePacket \/ NoEnvironment \/ Weather \/ Colors \/ Definitions

Spec == Init /\ [][Next]_vars

-----------------------------------------------------------------------------
Received(packets) == \A k \in DOMAIN packets : \E j \in DOMAIN sent : sent[j] = packets[k]

LevelInitialize == {"level_initialize", "level_initialize2"}

\* A client is sent only packets of extensions it negotiated, and of an
\* appearance packet's two forms the one of its version.
OnlyNegotiated ==
  \A k \in DOMAIN sent :
    \/ sent[k][1] = "none"
    \/ /\ version[sent[k][1]] > 0
       /\ sent[k][2] = "appearance1" => version.EnvMapAppearance = 1
       /\ sent[k][2] = "appearance2" => version.EnvMapAppearance = 2

\* When the transfer of the blocks begins, the client has one level initialize
\* packet, ahead of the others, and all of the map's environment: its aspect, or
\* its appearance in one of its forms, its weather and its five colors.
ReadyComplete ==
  at = "ready" =>
    /\ \A k \in DOMAIN sent : sent[k][2] \in LevelInitialize <=> k = 1
    /\ sent # << >>
    /\ map.env_aspect => Received(AspectPackets)
    /\ (~map.env_aspect /\ map.env_appearance > 0) =>
         \/ Received(Packets("EnvMapAppearance", << "appearance2" >>))
         \/ /\ Received(Packets("EnvMapAppearance", << "appearance1" >>))
            /\ map.env_appearance = 1 \/ Received(FallbackPackets)
    /\ map.env_weather => Received(Packets("EnvWeatherType", << "weather" >>))
    /\ map.env_colors => Received(ColorPackets)
    /\ map.block_array2 => version.ExtendedBlocks > 0
    /\ map.block_definitions => version.BlockDefinitions > 0

\* These tasks end the program for a map with an aspect and no appearance, for a
\* client whose two entries added up to version 3, for a client without the
\* appearance extension that the fallback was for, for a map with a colour out
\* of range, and for a client with FastMap when the compressed blocks are too
\* large to count; for nothing else.
AbortCauses ==
  at = "aborted" =>
    \/ map.env_aspect /\ map.env_appearance = 0
    \/ version.EnvMapAppearance = 3
    \/ version.EnvMapAppearance = 0 /\ version.EnvMapAspect > 0
    \/ map.env_colors /\ map.bad_colors # {}
    \/ map.oversize /\ version.FastMap > 0
=============================================================================
