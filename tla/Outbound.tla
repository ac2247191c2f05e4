------------------------------ MODULE Outbound ------------------------------
(***************************************************************************)
(* The packets the server sends (src/src/protocol.c): each is a list of    *)
(* calls of p_socket_send on the client's non-blocking socket, one per     *)
(* byte of its integers and one per string or chunk.  A call may be taken  *)
(* whole, in part, or not at all.  A byte on the wire is the number of its *)
(* packet with its place in it.                                            *)
(***************************************************************************)
EXTENDS Integers, Sequences, FiniteSets

CONSTANTS
  Kinds,         \* the packets sent: keys of Layout
  StringLength,  \* TC_PROTOCOL_MAX_STR_LEN
  ChunkLength,   \* 1024
  SocketBuffer,  \* bytes the socket takes before the client reads
  MaxPackets,    \* bound: packets sent in a behaviour
  MaxReads       \* bound: times the client reads

-----------------------------------------------------------------------------
(* The calls that make up a packet *)

B == << [call |-> "byte", size |-> 1] >>
S == << [call |-> "string", size |-> StringLength] >>
C == << [call |-> "chunk", size |-> ChunkLength] >>
H == B \o B
I == B \o B \o B \o B

Either(extended, wide, narrow) == IF extended THEN wide ELSE narrow

\* send_position: the upper half always goes first.
P(extended) == H \o Either(extended, I, H)

tc_protocol_server_identification == B \o B \o S \o S \o B
tc_protocol_ping == B
tc_protocol_kick == B \o S
tc_cpe_send_extinfo == B \o S \o H
tc_cpe_send_extentry == B \o S \o I
tc_cpe_send_custom_block_support_level == B \o B
tc_cpe_send_set_texture_url == B \o S
tc_cpe_send_set_map_env_property == B \o B \o I
tc_cpe_send_env_map_appearance1 == B \o S \o B \o B \o H
tc_cpe_send_env_map_appearance2 == B \o S \o B \o B \o H \o H \o H
tc_cpe_send_env_set_weather_type == B \o B
tc_cpe_send_set_block_definition(blocks, textures) ==
  B \o Either(blocks, H, B) \o S \o B \o B
    \o Either(textures, H \o H \o H, B \o B \o B) \o B \o B \o B \o B \o B \o I
tc_cpe_send_set_env_color == B \o B \o H \o H \o H
tc_protocol_send_message == B \o B \o S
tc_protocol_send_level_initialize == B
tc_protocol_send_level_initialize2 == B \o I
tc_protocol_send_level_data_chunk == B \o H \o C \o B
tc_protocol_send_level_finalize == B \o H \o H \o H
tc_protocol_send_set_block(extended) == B \o H \o H \o H \o Either(extended, H, B)
tc_protocol_send_spawn_player(extended) ==
  B \o B \o S \o P(extended) \o P(extended) \o P(extended) \o B \o B
tc_protocol_send_set_player_position_and_orientation(extended) ==
  B \o B \o P(extended) \o P(extended) \o P(extended) \o B \o B
tc_protocol_send_update_player_position_and_orientation_delta(extended) ==
  B \o B \o P(extended) \o P(extended) \o P(extended) \o B \o B
tc_protocol_update_player_position_delta(extended) ==
  B \o B \o P(extended) \o P(extended) \o P(extended)
tc_protocol_update_player_heading_and_pitch == B \o B \o B \o B
tc_protocol_despawn_player == B \o B

Layout ==
  [identification |-> tc_protocol_server_identification,
   ping |-> tc_protocol_ping,
   kick |-> tc_protocol_kick,
   extinfo |-> tc_cpe_send_extinfo,
   extentry |-> tc_cpe_send_extentry,
   support_level |-> tc_cpe_send_custom_block_support_level,
   texture_url |-> tc_cpe_send_set_texture_url,
   env_property |-> tc_cpe_send_set_map_env_property,
   appearance1 |-> tc_cpe_send_env_map_appearance1,
   appearance2 |-> tc_cpe_send_env_map_appearance2,
   weather |-> tc_cpe_send_env_set_weather_type,
   definition |-> tc_cpe_send_set_block_definition(FALSE, FALSE),
   definition_extended |-> tc_cpe_send_set_block_definition(TRUE, TRUE),
   color |-> tc_cpe_send_set_env_color,
   message |-> tc_protocol_send_message,
   initialize |-> tc_protocol_send_level_initialize,
   initialize2 |-> tc_protocol_send_level_initialize2,
   data_chunk |-> tc_protocol_send_level_data_chunk,
   finalize |-> tc_protocol_send_level_finalize,
   set_block |-> tc_protocol_send_set_block(FALSE),
   set_block_extended |-> tc_protocol_send_set_block(TRUE),
   spawn |-> tc_protocol_send_spawn_player(FALSE),
   spawn_extended |-> tc_protocol_send_spawn_player(TRUE),
   place |-> tc_protocol_send_set_player_position_and_orientation(FALSE),
   place_extended |-> tc_protocol_send_set_player_position_and_orientation(TRUE),
   move_turn |-> tc_protocol_send_update_player_position_and_orientation_delta(FALSE),
   move |-> tc_protocol_update_player_position_delta(FALSE),
   turn |-> tc_protocol_update_player_heading_and_pitch,
   despawn |-> tc_protocol_despawn_player]

\* What the proofs assume of the constants.
OutboundConstants ==
  /\ Kinds \subseteq DOMAIN Layout
  /\ StringLength \in Nat \ {0} /\ ChunkLength \in Nat \ {0}
  /\ SocketBuffer \in Nat \ {0} /\ MaxPackets \in Nat /\ MaxReads \in Nat

\* The bytes of a list of calls, each as its call's number and its place there.
BytesOf(calls) == UNION {{n} \X (1..calls[n].size) : n \in DOMAIN calls}

SizeOf(calls) == Cardinality(BytesOf(calls))

-----------------------------------------------------------------------------
VARIABLES
  packets,    \* the packets sent so far, the current one last: kind and result
  call,       \* the next call of the current packet, 0 between packets
  room,       \* bytes the socket would take now
  connected,
  stream,     \* the bytes that left the server
  cut,        \* a call was not taken whole, and the function went on (history)
  reads       \* times the client has read

vars == << packets, call, room, connected, stream, cut, reads >>

Init ==
  /\ packets = << >>
  /\ call = 0
  /\ room = SocketBuffer
  /\ connected = TRUE
  /\ stream = << >>
  /\ cut = FALSE
  /\ reads = 0

Calls   == Layout[packets[Len(packets)].kind]
Sending == call > 0
Current == Calls[call]

\* A caller sends the next packet; whether it looked at the last one's result
\* is its own affair.
Begin(kind) ==
  /\ ~Sending
  /\ Len(packets) < MaxPackets
  /\ packets' = Append(packets, [kind |-> kind, result |-> "pending"])
  /\ call' = 1
  /\ UNCHANGED << room, connected, stream, cut, reads >>

\* The call returned TRUE; the packet's function goes on or returns TRUE.
Proceed ==
  IF call < Len(Calls)
  THEN call' = call + 1 /\ UNCHANGED packets
  ELSE call' = 0 /\ packets' = [packets EXCEPT ![Len(packets)].result = "true"]

\* The call returned FALSE, and so does the packet's function.
GiveUp ==
  /\ call' = 0
  /\ packets' = [packets EXCEPT ![Len(packets)].result = "false"]

\* The size of the current packet's calls before this one.
Done == SizeOf(SubSeq(Calls, 1, call - 1))

\* The first `count' bytes of the current call.
Bytes(count) == [k \in 1..count |-> << Len(packets), Done + k >>]

SendWhole ==
  /\ Sending /\ connected
  /\ Current.size <= room
  /\ stream' = stream \o Bytes(Current.size)
  /\ room' = room - Current.size
  /\ Proceed
  /\ UNCHANGED << connected, cut, reads >>

\* Fewer bytes are taken than there are: sent > 0 all the same.
SendPart ==
  /\ Sending /\ connected
  /\ 0 < room /\ room < Current.size
  /\ stream' = stream \o Bytes(room)
  /\ room' = 0
  /\ cut' = TRUE
  /\ Proceed
  /\ UNCHANGED << connected, reads >>

\* The call would block: TRUE for a byte or a chunk.  For a string the error is
\* not asked for, and the answer is FALSE.
SendBlocked ==
  /\ Sending /\ connected
  /\ room = 0
  /\ IF Current.call = "string"
     THEN GiveUp /\ UNCHANGED cut
     ELSE Proceed /\ cut' = TRUE
  /\ UNCHANGED << room, connected, stream, reads >>

SendClosed ==
  /\ Sending /\ ~connected
  /\ GiveUp
  /\ UNCHANGED << room, connected, stream, cut, reads >>

\* The client reads everything there is, or goes away.
ClientReads ==
  /\ room < SocketBuffer
  /\ room' = SocketBuffer
  /\ reads < MaxReads
  /\ reads' = reads + 1
  /\ UNCHANGED << packets, call, connected, stream, cut >>

ClientLeaves ==
  /\ connected
  /\ connected' = FALSE
  /\ UNCHANGED << packets, call, room, stream, cut, reads >>

Next ==
  \/ \E kind \in Kinds : Begin(kind)
  \/ SendWhole \/ SendPart \/ SendBlocked \/ SendClosed
  \/ ClientReads \/ ClientLeaves

Spec == Init /\ [][Next]_vars

-----------------------------------------------------------------------------
\* The size of a packet for the client, as protocol.h lists its fields.
Documented ==
  LET str == StringLength
  IN  [identification |-> 3 + 2 * str, ping |-> 1, kick |-> 1 + str,
       extinfo |-> 3 + str, extentry |-> 5 + str, support_level |-> 2,
       texture_url |-> 1 + str, env_property |-> 6, appearance1 |-> 5 + str,
       appearance2 |-> 9 + str, weather |-> 2, definition |-> 16 + str,
       definition_extended |-> 20 + str, color |-> 8, message |-> 2 + str,
       initialize |-> 1, initialize2 |-> 5, data_chunk |-> 4 + ChunkLength,
       finalize |-> 7, set_block |-> 8, set_block_extended |-> 9,
       spawn |-> 10 + str, spawn_extended |-> 16 + str, place |-> 10,
       place_extended |-> 16, move_turn |-> 10, move |-> 8, turn |-> 4,
       despawn |-> 2]

\* The byte that a client expects after byte b of the stream.
Following(b) ==
  IF b[2] < Documented[packets[b[1]].kind] THEN << b[1], b[2] + 1 >>
                                           ELSE << b[1] + 1, 1 >>

\* The byte that is sent next: between two packets, the first of a new one.
NextByte == IF Sending THEN << Len(packets), Done + 1 >> ELSE << Len(packets) + 1, 1 >>

\* Every call was taken whole, and no packet was given up.
Unbroken == ~cut /\ \A k \in DOMAIN packets : packets[k].result # "false"

\* Packets whose functions returned TRUE take exactly the bytes that protocol.h
\* lists, one packet after the other, as long as every call was taken whole: the
\* client is never left in the middle of a packet that was reported sent.  The
\* six packets with positions break it: protocol.h lists an fshort or an fint for
\* each coordinate, and send_position writes two bytes more.
FramesExact ==
  Unbroken =>
    LET bytes == Append(stream, NextByte)
    IN  /\ bytes[1] = << 1, 1 >>
        /\ \A n \in DOMAIN stream : bytes[n + 1] = Following(bytes[n])

\* The packets with positions, and the size of a packet as it is sent: three
\* coordinates, of two bytes too many each.
Positional == {"spawn", "spawn_extended", "place", "place_extended", "move_turn", "move"}

SentSize(kind) ==
  IF kind \in Positional THEN Documented[kind] + 6 ELSE Documented[kind]

FollowingSent(b) ==
  IF b[2] < SentSize(packets[b[1]].kind) THEN << b[1], b[2] + 1 >> ELSE << b[1] + 1, 1 >>

\* What holds of all packets instead: they follow each other whole, the ones with
\* positions six bytes longer than protocol.h says, the others exactly as it says.
FramesAsSent ==
  Unbroken =>
    LET bytes == Append(stream, NextByte)
    IN  /\ bytes[1] = << 1, 1 >>
        /\ \A n \in DOMAIN stream : bytes[n + 1] = FollowingSent(bytes[n])

\* A packet reported as not sent is missing at least its last byte, and one that
\* is reported as sent reached the socket to its last byte, unless the socket was
\* too full for one of the calls.
FailureIsReported ==
  /\ \A k \in DOMAIN packets :
       packets[k].result = "false" =>
         ~\E n \in DOMAIN stream : stream[n] = << k, SizeOf(Layout[packets[k].kind]) >>
  /\ \A k \in DOMAIN packets :
       packets[k].result = "true" /\ ~cut =>
         \E n \in DOMAIN stream : stream[n] = << k, SizeOf(Layout[packets[k].kind]) >>
=============================================================================
