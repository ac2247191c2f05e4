--------------------------- MODULE OutboundProofs ---------------------------
(***************************************************************************)
(* The packets the server sends, for strings, chunks and socket buffers of *)
(* any size and any number of packets.                                     *)
(***************************************************************************)
EXTENDS Outbound, FiniteSetTheorems, SequenceTheorems, TLAPS

-----------------------------------------------------------------------------
(* The sizes of packets *)

Call == [call : {"byte", "string", "chunk"}, size : Nat \ {0}]

\* One call more has its bytes more.
LEMMA SizeAppend ==
  ASSUME NEW s \in Seq(Call), NEW c \in Call
  PROVE  /\ SizeOf(s) \in Nat /\ IsFiniteSet(BytesOf(s))
         /\ Append(s, c) \in Seq(Call)
         /\ SizeOf(Append(s, c)) = SizeOf(s) + c.size
<1>1. PICK l \in Nat : l = Len(s)
  OBVIOUS
<1>2. PICK z \in Nat \ {0} : z = c.size
  BY DEF Call
<1>3. ASSUME NEW t \in Seq(Call)
      PROVE  IsFiniteSet(BytesOf(t))
  <2>1. PICK m \in Nat : m = Len(t) /\ DOMAIN t = 1..m
    OBVIOUS
  <2>2. ASSUME NEW n \in 1..m
        PROVE  t[n].size \in Nat
    <3>1. t[n] \in Call
      BY <2>1
    <3> QED
      BY <3>1, SMT DEF Call
  <2>3. IsFiniteSet(1..m)
    BY FS_Interval
  <2>4. PICK f : f = [n \in 1..m |-> {n} \X (1..t[n].size)]
    OBVIOUS
  <2>5. {f[n] : n \in 1..m} = {{n} \X (1..t[n].size) : n \in 1..m}
    BY <2>4, Zenon
  <2>6. IsFiniteSet({f[n] : n \in 1..m})
    <3>1. f \in Surjection(1..m, {f[n] : n \in 1..m})
      BY <2>4, Zenon DEF Surjection
    <3> QED
      BY <2>3, <3>1, FS_Surjection, Zenon
  <2>7. ASSUME NEW n \in 1..m
        PROVE  IsFiniteSet({n} \X (1..t[n].size))
    <3>1. IsFiniteSet(1..t[n].size)
      <4>1. PICK k \in Nat : k = t[n].size
        BY <2>2, Zenon
      <4>2. IsFiniteSet(1..k)
        BY FS_Interval
      <4> QED
        BY <4>1, <4>2, Zenon
    <3>2. IsFiniteSet({n})
      BY FS_Singleton, Zenon
    <3> QED
      BY <3>1, <3>2, FS_Product, Zenon
  <2>8. \A T \in {{n} \X (1..t[n].size) : n \in 1..m} : IsFiniteSet(T)
    BY <2>7, Zenon
  <2> QED
    BY <2>1, <2>5, <2>6, <2>8, FS_UNION, Zenon DEF BytesOf
<1>4. /\ Append(s, c) \in Seq(Call) /\ DOMAIN s = 1..l /\ DOMAIN Append(s, c) = 1..(l + 1)
      /\ \A n \in 1..l : Append(s, c)[n] = s[n]
      /\ Append(s, c)[l + 1] = c
  BY <1>1
<1>5. \A n : n \in 1..(l + 1) <=> (n \in 1..l \/ n = l + 1)
  OBVIOUS
<1>6. BytesOf(Append(s, c)) = BytesOf(s) \cup ({l + 1} \X (1..z))
  <2>1. \A b : b \in BytesOf(Append(s, c))
                 <=> \E n \in 1..(l + 1) : b \in {n} \X (1..Append(s, c)[n].size)
    BY <1>4, Zenon DEF BytesOf
  <2>2. \A b : b \in BytesOf(s) <=> \E n \in 1..l : b \in {n} \X (1..s[n].size)
    BY <1>4, Zenon DEF BytesOf
  <2>3. \A b : b \in BytesOf(Append(s, c))
                 <=> (b \in BytesOf(s) \/ b \in {l + 1} \X (1..z))
    BY <1>2, <1>4, <1>5, <2>1, <2>2, Zenon
  <2> QED
    BY <2>3, Zenon
<1>7. BytesOf(s) \cap ({l + 1} \X (1..z)) = {}
  <2>1. SUFFICES ASSUME NEW b, b \in BytesOf(s), b \in {l + 1} \X (1..z)
                 PROVE  FALSE
    BY Zenon
  <2>2. PICK n \in 1..l : b \in {n} \X (1..s[n].size)
    BY <1>4, <2>1, Zenon DEF BytesOf
  <2>3. b[1] = n /\ b[1] = l + 1
    BY <2>1, <2>2, SMT
  <2> QED
    BY <2>3
<1>8. IsFiniteSet({l + 1} \X (1..z)) /\ Cardinality({l + 1} \X (1..z)) = z
  <2>1. IsFiniteSet({l + 1}) /\ Cardinality({l + 1}) = 1
    BY FS_Singleton, Zenon
  <2>2. IsFiniteSet(1..z) /\ Cardinality(1..z) = z
    BY FS_Interval
  <2>3. /\ IsFiniteSet({l + 1} \X (1..z))
        /\ Cardinality({l + 1} \X (1..z)) = 1 * z
    <3>1. PICK A, D : A = {l + 1} /\ D = 1..z
      OBVIOUS
    <3>2. IsFiniteSet(A \X D) /\ Cardinality(A \X D) = Cardinality(A) * Cardinality(D)
      BY <2>1, <2>2, <3>1, FS_Product, Zenon
    <3> QED
      BY <2>1, <2>2, <3>1, <3>2, Zenon
  <2> QED
    BY <2>3
<1>9. IsFiniteSet(BytesOf(s)) /\ Cardinality(BytesOf(s)) \in Nat
  BY <1>3, FS_CardinalityType, Zenon
<1>10. Cardinality(BytesOf(Append(s, c))) = Cardinality(BytesOf(s)) + z - Cardinality({})
  BY <1>6, <1>7, <1>8, <1>9, FS_Union, Zenon
<1>11. Cardinality({}) = 0
  BY FS_EmptySet, Zenon
<1>12. SizeOf(Append(s, c)) = SizeOf(s) + z
  BY <1>9, <1>10, <1>11 DEF SizeOf
<1> QED
  BY <1>2, <1>4, <1>9, <1>12, Zenon DEF SizeOf

\* A packet of no calls has no bytes.
LEMMA SizeEmpty == SizeOf(<< >>) = 0
<1>1. DOMAIN << >> = {}
  OBVIOUS
<1>2. BytesOf(<< >>) = {}
  BY <1>1, Zenon DEF BytesOf
<1> QED
  BY <1>2, FS_EmptySet, Zenon DEF SizeOf

\* What each kind of field adds to a packet.
LEMMA SizeFields ==
  ASSUME OutboundConstants, NEW s \in Seq(Call)
  PROVE  /\ s \o B \in Seq(Call) /\ SizeOf(s \o B) = SizeOf(s) + 1
         /\ s \o S \in Seq(Call) /\ SizeOf(s \o S) = SizeOf(s) + StringLength
         /\ s \o C \in Seq(Call) /\ SizeOf(s \o C) = SizeOf(s) + ChunkLength
         /\ s \o H \in Seq(Call) /\ SizeOf(s \o H) = SizeOf(s) + 2
         /\ s \o I \in Seq(Call) /\ SizeOf(s \o I) = SizeOf(s) + 4
<1>1. ASSUME NEW t \in Seq(Call), NEW c \in Call
      PROVE  /\ t \o << c >> \in Seq(Call) /\ SizeOf(t) \in Nat
             /\ SizeOf(t \o << c >>) = SizeOf(t) + c.size
  <2>1. Append(t, c) = t \o << c >>
    BY AppendIsConcat, Zenon
  <2> QED
    BY <2>1, SizeAppend, Zenon
<1>a. ASSUME NEW t \in Seq(Call), NEW u \in Seq(Call), NEW v \in Seq(Call)
      PROVE  (t \o u) \o v = t \o (u \o v)
  OBVIOUS
<1>c. ASSUME NEW n \in {"byte", "string", "chunk"}, NEW z \in Nat \ {0}
      PROVE  [call |-> n, size |-> z] \in Call /\ [call |-> n, size |-> z].size = z
  BY SMT DEF Call
<1>l. 1 \in Nat \ {0} /\ StringLength \in Nat \ {0} /\ ChunkLength \in Nat \ {0}
  BY DEF OutboundConstants
<1>2. PICK b \in Call : b = [call |-> "byte", size |-> 1] /\ b.size = 1
  BY <1>c, <1>l, Zenon
<1>3. B = << b >>
  BY <1>2, Zenon DEF B
<1>4. ASSUME NEW t \in Seq(Call)
      PROVE  t \o B \in Seq(Call) /\ SizeOf(t \o B) = SizeOf(t) + 1 /\ SizeOf(t) \in Nat
  BY <1>1, <1>2, <1>3, Zenon
<1>5. s \o S \in Seq(Call) /\ SizeOf(s \o S) = SizeOf(s) + StringLength
  <2>1. PICK c \in Call : c = [call |-> "string", size |-> StringLength] /\ c.size = StringLength
    BY <1>c, <1>l, Zenon
  <2> QED
    BY <1>1, <2>1, Zenon DEF S
<1>6. s \o C \in Seq(Call) /\ SizeOf(s \o C) = SizeOf(s) + ChunkLength
  <2>1. PICK c \in Call : c = [call |-> "chunk", size |-> ChunkLength] /\ c.size = ChunkLength
    BY <1>c, <1>l, Zenon
  <2> QED
    BY <1>1, <2>1, Zenon DEF C
<1>7. B \in Seq(Call) /\ H \in Seq(Call) /\ H = B \o B
  BY <1>2, <1>3 DEF H
<1>8. ASSUME NEW t \in Seq(Call)
      PROVE  t \o H \in Seq(Call) /\ SizeOf(t \o H) = SizeOf(t) + 2
  <2>1. t \o H = (t \o B) \o B
    <3>1. (t \o B) \o B = t \o (B \o B)
      BY <1>7, <1>a, Zenon
    <3> QED
      BY <1>7, <3>1, Zenon
  <2>2. t \o B \in Seq(Call) /\ SizeOf(t \o B) = SizeOf(t) + 1 /\ SizeOf(t) \in Nat
    BY <1>4, Zenon
  <2>3. (t \o B) \o B \in Seq(Call) /\ SizeOf((t \o B) \o B) = SizeOf(t \o B) + 1
    BY <1>4, <2>2, Zenon
  <2> QED
    BY <2>1, <2>2, <2>3
<1>9. s \o I = (s \o H) \o H
  <2>1. I = H \o H
    BY <1>2, <1>3, <1>7 DEF I
  <2>2. (s \o H) \o H = s \o (H \o H)
    BY <1>7, <1>a, Zenon
  <2> QED
    BY <2>1, <2>2, Zenon
<1>10. s \o I \in Seq(Call) /\ SizeOf(s \o I) = SizeOf(s) + 4
  <2>1. s \o H \in Seq(Call) /\ SizeOf(s \o H) = SizeOf(s) + 2 /\ SizeOf(s) \in Nat
    BY <1>4, <1>8, Zenon
  <2>2. (s \o H) \o H \in Seq(Call) /\ SizeOf((s \o H) \o H) = SizeOf(s \o H) + 2
    BY <1>8, <2>1, Zenon
  <2> QED
    BY <1>9, <2>1, <2>2
<1> QED
  BY <1>4, <1>5, <1>6, <1>8, <1>10, Zenon

\* A list of calls, and its size.
Sized(s, z) == s \in Seq(Call) /\ SizeOf(s) = z

\* How a packet grows by a field, by a coordinate (send_position) and by the
\* three textures of a block definition.
LEMMA Grows ==
  ASSUME OutboundConstants, NEW s, NEW z, Sized(s, z)
  PROVE  /\ Sized(s \o B, z + 1) /\ Sized(s \o H, z + 2) /\ Sized(s \o I, z + 4)
         /\ Sized(s \o S, z + StringLength) /\ Sized(s \o C, z + ChunkLength)
         /\ Sized(s \o P(FALSE), (z + 2) + 2) /\ Sized(s \o P(TRUE), (z + 2) + 4)
         /\ Sized(s \o (B \o B \o B), ((z + 1) + 1) + 1)
         /\ Sized(s \o (H \o H \o H), ((z + 2) + 2) + 2)
<1>1. ASSUME NEW t, NEW y, Sized(t, y)
      PROVE  /\ Sized(t \o B, y + 1) /\ Sized(t \o H, y + 2) /\ Sized(t \o I, y + 4)
             /\ Sized(t \o S, y + StringLength) /\ Sized(t \o C, y + ChunkLength)
  BY <1>1, SizeFields, Zenon DEF Sized
<1>2. B \in Seq(Call) /\ H \in Seq(Call) /\ I \in Seq(Call)
  <2>1. << >> \in Seq(Call) /\ [call |-> "byte", size |-> 1] \in Call
    BY SMT DEF Call
  <2>2. B \in Seq(Call)
    BY <2>1 DEF B
  <2>3. \A u, v \in Seq(Call) : u \o v \in Seq(Call)
    OBVIOUS
  <2> QED
    BY <2>2, <2>3, Zenon DEF H, I
<1>3. ASSUME NEW t \in Seq(Call), NEW u \in Seq(Call), NEW v \in Seq(Call)
      PROVE  (t \o u) \o v = t \o (u \o v) /\ u \o v \in Seq(Call)
  OBVIOUS
<1>4. s \in Seq(Call)
  BY Zenon DEF Sized
<1>5. s \o P(FALSE) = (s \o H) \o H /\ s \o P(TRUE) = (s \o H) \o I
  BY <1>2, <1>3, <1>4, ZenonT(40) DEF P, Either
<1>6. ASSUME NEW t \in Seq(Call)
      PROVE  s \o (t \o t \o t) = ((s \o t) \o t) \o t
  <2>1. s \o (t \o t \o t) = (s \o (t \o t)) \o t
    <3>1. PICK u \in Seq(Call) : u = t \o t
      BY <1>3, Zenon
    <3>2. (s \o u) \o t = s \o (u \o t)
      BY <1>3, <1>4, Zenon
    <3> QED
      BY <3>1, <3>2, Zenon
  <2>2. s \o (t \o t) = (s \o t) \o t
    BY <1>3, <1>4, Zenon
  <2> QED
    BY <2>1, <2>2, Zenon
<1>7. Sized(s \o P(FALSE), (z + 2) + 2) /\ Sized(s \o P(TRUE), (z + 2) + 4)
  BY <1>1, <1>5, Zenon
<1>8. Sized(s \o (B \o B \o B), ((z + 1) + 1) + 1)
  <2>1. Sized(s \o B, z + 1)
    BY <1>1, Zenon
  <2>2. Sized((s \o B) \o B, (z + 1) + 1)
    BY <1>1, <2>1, Zenon
  <2> QED
    BY <1>1, <1>2, <1>6, <2>2, Zenon
<1>9. Sized(s \o (H \o H \o H), ((z + 2) + 2) + 2)
  <2>1. Sized(s \o H, z + 2)
    BY <1>1, Zenon
  <2>2. Sized((s \o H) \o H, (z + 2) + 2)
    BY <1>1, <2>1, Zenon
  <2> QED
    BY <1>1, <1>2, <1>6, <2>2, Zenon
<1> QED
  BY <1>1, <1>7, <1>8, <1>9, Zenon

\* The size of every packet as it is sent.
LEMMA PacketSizes ==
  ASSUME OutboundConstants
  PROVE
  /\ Sized(tc_protocol_server_identification, 3 + 2 * StringLength)
  /\ Sized(tc_protocol_ping, 1)
  /\ Sized(tc_protocol_kick, 1 + StringLength)
  /\ Sized(tc_cpe_send_extinfo, 3 + StringLength)
  /\ Sized(tc_cpe_send_extentry, 5 + StringLength)
  /\ Sized(tc_cpe_send_custom_block_support_level, 2)
  /\ Sized(tc_cpe_send_set_texture_url, 1 + StringLength)
  /\ Sized(tc_cpe_send_set_map_env_property, 6)
  /\ Sized(tc_cpe_send_env_map_appearance1, 5 + StringLength)
  /\ Sized(tc_cpe_send_env_map_appearance2, 9 + StringLength)
  /\ Sized(tc_cpe_send_env_set_weather_type, 2)
  /\ Sized(tc_cpe_send_set_block_definition(FALSE, FALSE), 16 + StringLength)
  /\ Sized(tc_cpe_send_set_block_definition(TRUE, TRUE), 20 + StringLength)
  /\ Sized(tc_cpe_send_set_env_color, 8)
  /\ Sized(tc_protocol_send_message, 2 + StringLength)
  /\ Sized(tc_protocol_send_level_initialize, 1)
  /\ Sized(tc_protocol_send_level_initialize2, 5)
  /\ Sized(tc_protocol_send_level_data_chunk, 4 + ChunkLength)
  /\ Sized(tc_protocol_send_level_finalize, 7)
  /\ Sized(tc_protocol_send_set_block(FALSE), 8)
  /\ Sized(tc_protocol_send_set_block(TRUE), 9)
  /\ Sized(tc_protocol_send_spawn_player(FALSE), 16 + StringLength)
  /\ Sized(tc_protocol_send_spawn_player(TRUE), 22 + StringLength)
  /\ Sized(tc_protocol_send_set_player_position_and_orientation(FALSE), 16)
  /\ Sized(tc_protocol_send_set_player_position_and_orientation(TRUE), 22)
  /\ Sized(tc_protocol_send_update_player_position_and_orientation_delta(FALSE), 16)
  /\ Sized(tc_protocol_update_player_position_delta(FALSE), 14)
  /\ Sized(tc_protocol_update_player_heading_and_pitch, 4)
  /\ Sized(tc_protocol_despawn_player, 2)
<1>1. Sized(B, 1)
  <2>1. Sized(<< >>, 0)
    BY SizeEmpty DEF Sized
  <2>2. Sized(<< >> \o B, 0 + 1) /\ << >> \o B = B
    <3>1. << >> \o B = B
      BY SMT DEF B
    <3> QED
      BY <2>1, <3>1, Grows, Zenon
  <2>3. 0 + 1 = 1
    OBVIOUS
  <2> QED
    BY <2>2, <2>3, Zenon
<1>2. StringLength \in Nat /\ ChunkLength \in Nat
  BY DEF OutboundConstants
<1>3. ASSUME NEW s, NEW z, Sized(s, z)
      PROVE  /\ Sized(s \o B, z + 1) /\ Sized(s \o H, z + 2) /\ Sized(s \o I, z + 4)
             /\ Sized(s \o S, z + StringLength) /\ Sized(s \o C, z + ChunkLength)
             /\ Sized(s \o P(FALSE), (z + 2) + 2) /\ Sized(s \o P(TRUE), (z + 2) + 4)
             /\ Sized(s \o (B \o B \o B), ((z + 1) + 1) + 1)
             /\ Sized(s \o (H \o H \o H), ((z + 2) + 2) + 2)
  BY <1>3, Grows, Zenon
<1>4. Sized(tc_protocol_server_identification, 3 + 2 * StringLength)
  <2>1. Sized(B \o B \o S \o S, ((1 + 1) + StringLength) + StringLength)
    BY <1>3, <1>1, Zenon
  <2>2. Sized(tc_protocol_server_identification, (((1 + 1) + StringLength) + StringLength) + 1)
    BY <1>3, <2>1, Zenon DEF tc_protocol_server_identification
  <2>3. (((1 + 1) + StringLength) + StringLength) + 1 = 3 + 2 * StringLength
    BY <1>2
  <2> QED
    BY <2>2, <2>3, Zenon
<1>5. Sized(tc_protocol_ping, 1)
  BY <1>1, Zenon DEF tc_protocol_ping
<1>6. Sized(tc_protocol_kick, 1 + StringLength)
  <2>1. Sized(tc_protocol_kick, 1 + StringLength)
    BY <1>3, <1>1, Zenon DEF tc_protocol_kick
  <2>2. 1 + StringLength = 1 + StringLength
    BY <1>2
  <2> QED
    BY <2>1, <2>2, Zenon
<1>7. Sized(tc_cpe_send_extinfo, 3 + StringLength)
  <2>1. Sized(tc_cpe_send_extinfo, (1 + StringLength) + 2)
    BY <1>3, <1>1, Zenon DEF tc_cpe_send_extinfo
  <2>2. (1 + StringLength) + 2 = 3 + StringLength
    BY <1>2
  <2> QED
    BY <2>1, <2>2, Zenon
<1>8. Sized(tc_cpe_send_extentry, 5 + StringLength)
  <2>1. Sized(tc_cpe_send_extentry, (1 + StringLength) + 4)
    BY <1>3, <1>1, Zenon DEF tc_cpe_send_extentry
  <2>2. (1 + StringLength) + 4 = 5 + StringLength
    BY <1>2
  <2> QED
    BY <2>1, <2>2, Zenon
<1>9. Sized(tc_cpe_send_custom_block_support_level, 2)
  <2>1. Sized(tc_cpe_send_custom_block_support_level, 1 + 1)
    BY <1>3, <1>1, Zenon DEF tc_cpe_send_custom_block_support_level
  <2>2. 1 + 1 = 2
    BY <1>2
  <2> QED
    BY <2>1, <2>2, Zenon
<1>10. Sized(tc_cpe_send_set_texture_url, 1 + StringLength)
  <2>1. Sized(tc_cpe_send_set_texture_url, 1 + StringLength)
    BY <1>3, <1>1, Zenon DEF tc_cpe_send_set_texture_url
  <2>2. 1 + StringLength = 1 + StringLength
    BY <1>2
  <2> QED
    BY <2>1, <2>2, Zenon
<1>11. Sized(tc_cpe_send_set_map_env_property, 6)
  <2>1. Sized(tc_cpe_send_set_map_env_property, (1 + 1) + 4)
    BY <1>3, <1>1, Zenon DEF tc_cpe_send_set_map_env_property
  <2>2. (1 + 1) + 4 = 6
    BY <1>2
  <2> QED
    BY <2>1, <2>2, Zenon
<1>12. Sized(tc_cpe_send_env_map_appearance1, 5 + StringLength)
  <2>1. Sized(B \o S \o B \o B, ((1 + StringLength) + 1) + 1)
    BY <1>3, <1>1, Zenon
  <2>2. Sized(tc_cpe_send_env_map_appearance1, (((1 + StringLength) + 1) + 1) + 2)
    BY <1>3, <2>1, Zenon DEF tc_cpe_send_env_map_appearance1
  <2>3. (((1 + StringLength) + 1) + 1) + 2 = 5 + StringLength
    BY <1>2
  <2> QED
    BY <2>2, <2>3, Zenon
<1>13. Sized(tc_cpe_send_env_map_appearance2, 9 + StringLength)
  <2>1. Sized(B \o S \o B \o B, ((1 + StringLength) + 1) + 1)
    BY <1>3, <1>1, Zenon
  <2>2. Sized(tc_cpe_send_env_map_appearance2, (((((1 + StringLength) + 1) + 1) + 2) + 2) + 2)
    BY <1>3, <2>1, Zenon DEF tc_cpe_send_env_map_appearance2
  <2>3. (((((1 + StringLength) + 1) + 1) + 2) + 2) + 2 = 9 + StringLength
    BY <1>2
  <2> QED
    BY <2>2, <2>3, Zenon
<1>14. Sized(tc_cpe_send_env_set_weather_type, 2)
  <2>1. Sized(tc_cpe_send_env_set_weather_type, 1 + 1)
    BY <1>3, <1>1, Zenon DEF tc_cpe_send_env_set_weather_type
  <2>2. 1 + 1 = 2
    BY <1>2
  <2> QED
    BY <2>1, <2>2, Zenon
<1>15. Sized(tc_cpe_send_set_block_definition(FALSE, FALSE), 16 + StringLength)
  <2>1. Sized(B \o B \o S \o B, ((1 + 1) + StringLength) + 1)
    BY <1>3, <1>1, Zenon
  <2>2. Sized(B \o B \o S \o B \o B \o (B \o B \o B) \o B, (((((((1 + 1) + StringLength) + 1) + 1) + 1) + 1) + 1) + 1)
    BY <1>3, <2>1, Zenon
  <2>3. Sized(B \o B \o S \o B \o B \o (B \o B \o B) \o B \o B \o B \o B, ((((((((((1 + 1) + StringLength) + 1) + 1) + 1) + 1) + 1) + 1) + 1) + 1) + 1)
    BY <1>3, <2>2, Zenon
  <2>4. Sized(tc_cpe_send_set_block_definition(FALSE, FALSE), ((((((((((((1 + 1) + StringLength) + 1) + 1) + 1) + 1) + 1) + 1) + 1) + 1) + 1) + 1) + 4)
    BY <1>3, <2>3, Zenon DEF tc_cpe_send_set_block_definition, Either
  <2>5. ((((((((((((1 + 1) + StringLength) + 1) + 1) + 1) + 1) + 1) + 1) + 1) + 1) + 1) + 1) + 4 = 16 + StringLength
    BY <1>2
  <2> QED
    BY <2>4, <2>5, Zenon
<1>16. Sized(tc_cpe_send_set_block_definition(TRUE, TRUE), 20 + StringLength)
  <2>1. Sized(B \o H \o S \o B, ((1 + 2) + StringLength) + 1)
    BY <1>3, <1>1, Zenon
  <2>2. Sized(B \o H \o S \o B \o B \o (H \o H \o H) \o B, (((((((1 + 2) + StringLength) + 1) + 1) + 2) + 2) + 2) + 1)
    BY <1>3, <2>1, Zenon
  <2>3. Sized(B \o H \o S \o B \o B \o (H \o H \o H) \o B \o B \o B \o B, ((((((((((1 + 2) + StringLength) + 1) + 1) + 2) + 2) + 2) + 1) + 1) + 1) + 1)
    BY <1>3, <2>2, Zenon
  <2>4. Sized(tc_cpe_send_set_block_definition(TRUE, TRUE), ((((((((((((1 + 2) + StringLength) + 1) + 1) + 2) + 2) + 2) + 1) + 1) + 1) + 1) + 1) + 4)
    BY <1>3, <2>3, Zenon DEF tc_cpe_send_set_block_definition, Either
  <2>5. ((((((((((((1 + 2) + StringLength) + 1) + 1) + 2) + 2) + 2) + 1) + 1) + 1) + 1) + 1) + 4 = 20 + StringLength
    BY <1>2
  <2> QED
    BY <2>4, <2>5, Zenon
<1>17. Sized(tc_cpe_send_set_env_color, 8)
  <2>1. Sized(B \o B \o H \o H, ((1 + 1) + 2) + 2)
    BY <1>3, <1>1, Zenon
  <2>2. Sized(tc_cpe_send_set_env_color, (((1 + 1) + 2) + 2) + 2)
    BY <1>3, <2>1, Zenon DEF tc_cpe_send_set_env_color
  <2>3. (((1 + 1) + 2) + 2) + 2 = 8
    BY <1>2
  <2> QED
    BY <2>2, <2>3, Zenon
<1>18. Sized(tc_protocol_send_message, 2 + StringLength)
  <2>1. Sized(tc_protocol_send_message, (1 + 1) + StringLength)
    BY <1>3, <1>1, Zenon DEF tc_protocol_send_message
  <2>2. (1 + 1) + StringLength = 2 + StringLength
    BY <1>2
  <2> QED
    BY <2>1, <2>2, Zenon
<1>19. Sized(tc_protocol_send_level_initialize, 1)
  BY <1>1, Zenon DEF tc_protocol_send_level_initialize
<1>20. Sized(tc_protocol_send_level_initialize2, 5)
  <2>1. Sized(tc_protocol_send_level_initialize2, 1 + 4)
    BY <1>3, <1>1, Zenon DEF tc_protocol_send_level_initialize2
  <2>2. 1 + 4 = 5
    BY <1>2
  <2> QED
    BY <2>1, <2>2, Zenon
<1>21. Sized(tc_protocol_send_level_data_chunk, 4 + ChunkLength)
  <2>1. Sized(tc_protocol_send_level_data_chunk, ((1 + 2) + ChunkLength) + 1)
    BY <1>3, <1>1, Zenon DEF tc_protocol_send_level_data_chunk
  <2>2. ((1 + 2) + ChunkLength) + 1 = 4 + ChunkLength
    BY <1>2
  <2> QED
    BY <2>1, <2>2, Zenon
<1>22. Sized(tc_protocol_send_level_finalize, 7)
  <2>1. Sized(tc_protocol_send_level_finalize, ((1 + 2) + 2) + 2)
    BY <1>3, <1>1, Zenon DEF tc_protocol_send_level_finalize
  <2>2. ((1 + 2) + 2) + 2 = 7
    BY <1>2
  <2> QED
    BY <2>1, <2>2, Zenon
<1>23. Sized(tc_protocol_send_set_block(FALSE), 8)
  <2>1. Sized(B \o H \o H \o H, ((1 + 2) + 2) + 2)
    BY <1>3, <1>1, Zenon
  <2>2. Sized(tc_protocol_send_set_block(FALSE), (((1 + 2) + 2) + 2) + 1)
    BY <1>3, <2>1, Zenon DEF tc_protocol_send_set_block, Either
  <2>3. (((1 + 2) + 2) + 2) + 1 = 8
    BY <1>2
  <2> QED
    BY <2>2, <2>3, Zenon
<1>24. Sized(tc_protocol_send_set_block(TRUE), 9)
  <2>1. Sized(B \o H \o H \o H, ((1 + 2) + 2) + 2)
    BY <1>3, <1>1, Zenon
  <2>2. Sized(tc_protocol_send_set_block(TRUE), (((1 + 2) + 2) + 2) + 2)
    BY <1>3, <2>1, Zenon DEF tc_protocol_send_set_block, Either
  <2>3. (((1 + 2) + 2) + 2) + 2 = 9
    BY <1>2
  <2> QED
    BY <2>2, <2>3, Zenon
<1>25. Sized(tc_protocol_send_spawn_player(FALSE), 16 + StringLength)
  <2>1. Sized(B \o B \o S \o P(FALSE), (((1 + 1) + StringLength) + 2) + 2)
    BY <1>3, <1>1, Zenon
  <2>2. Sized(B \o B \o S \o P(FALSE) \o P(FALSE) \o P(FALSE) \o B, ((((((((1 + 1) + StringLength) + 2) + 2) + 2) + 2) + 2) + 2) + 1)
    BY <1>3, <2>1, Zenon
  <2>3. Sized(tc_protocol_send_spawn_player(FALSE), (((((((((1 + 1) + StringLength) + 2) + 2) + 2) + 2) + 2) + 2) + 1) + 1)
    BY <1>3, <2>2, Zenon DEF tc_protocol_send_spawn_player, Either
  <2>4. (((((((((1 + 1) + StringLength) + 2) + 2) + 2) + 2) + 2) + 2) + 1) + 1 = 16 + StringLength
    BY <1>2
  <2> QED
    BY <2>3, <2>4, Zenon
<1>26. Sized(tc_protocol_send_spawn_player(TRUE), 22 + StringLength)
  <2>1. Sized(B \o B \o S \o P(TRUE), (((1 + 1) + StringLength) + 2) + 4)
    BY <1>3, <1>1, Zenon
  <2>2. Sized(B \o B \o S \o P(TRUE) \o P(TRUE) \o P(TRUE) \o B, ((((((((1 + 1) + StringLength) + 2) + 4) + 2) + 4) + 2) + 4) + 1)
    BY <1>3, <2>1, Zenon
  <2>3. Sized(tc_protocol_send_spawn_player(TRUE), (((((((((1 + 1) + StringLength) + 2) + 4) + 2) + 4) + 2) + 4) + 1) + 1)
    BY <1>3, <2>2, Zenon DEF tc_protocol_send_spawn_player, Either
  <2>4. (((((((((1 + 1) + StringLength) + 2) + 4) + 2) + 4) + 2) + 4) + 1) + 1 = 22 + StringLength
    BY <1>2
  <2> QED
    BY <2>3, <2>4, Zenon
<1>27. Sized(tc_protocol_send_set_player_position_and_orientation(FALSE), 16)
  <2>1. Sized(B \o B \o P(FALSE) \o P(FALSE), ((((1 + 1) + 2) + 2) + 2) + 2)
    BY <1>3, <1>1, Zenon
  <2>2. Sized(tc_protocol_send_set_player_position_and_orientation(FALSE), ((((((((1 + 1) + 2) + 2) + 2) + 2) + 2) + 2) + 1) + 1)
    BY <1>3, <2>1, Zenon DEF tc_protocol_send_set_player_position_and_orientation, Either
  <2>3. ((((((((1 + 1) + 2) + 2) + 2) + 2) + 2) + 2) + 1) + 1 = 16
    BY <1>2
  <2> QED
    BY <2>2, <2>3, Zenon
<1>28. Sized(tc_protocol_send_set_player_position_and_orientation(TRUE), 22)
  <2>1. Sized(B \o B \o P(TRUE) \o P(TRUE), ((((1 + 1) + 2) + 4) + 2) + 4)
    BY <1>3, <1>1, Zenon
  <2>2. Sized(tc_protocol_send_set_player_position_and_orientation(TRUE), ((((((((1 + 1) + 2) + 4) + 2) + 4) + 2) + 4) + 1) + 1)
    BY <1>3, <2>1, Zenon DEF tc_protocol_send_set_player_position_and_orientation, Either
  <2>3. ((((((((1 + 1) + 2) + 4) + 2) + 4) + 2) + 4) + 1) + 1 = 22
    BY <1>2
  <2> QED
    BY <2>2, <2>3, Zenon
<1>29. Sized(tc_protocol_send_update_player_position_and_orientation_delta(FALSE), 16)
  <2>1. Sized(B \o B \o P(FALSE) \o P(FALSE), ((((1 + 1) + 2) + 2) + 2) + 2)
    BY <1>3, <1>1, Zenon
  <2>2. Sized(tc_protocol_send_update_player_position_and_orientation_delta(FALSE), ((((((((1 + 1) + 2) + 2) + 2) + 2) + 2) + 2) + 1) + 1)
    BY <1>3, <2>1, Zenon DEF tc_protocol_send_update_player_position_and_orientation_delta, Either
  <2>3. ((((((((1 + 1) + 2) + 2) + 2) + 2) + 2) + 2) + 1) + 1 = 16
    BY <1>2
  <2> QED
    BY <2>2, <2>3, Zenon
<1>30. Sized(tc_protocol_update_player_position_delta(FALSE), 14)
  <2>1. Sized(B \o B \o P(FALSE) \o P(FALSE), ((((1 + 1) + 2) + 2) + 2) + 2)
    BY <1>3, <1>1, Zenon
  <2>2. Sized(tc_protocol_update_player_position_delta(FALSE), ((((((1 + 1) + 2) + 2) + 2) + 2) + 2) + 2)
    BY <1>3, <2>1, Zenon DEF tc_protocol_update_player_position_delta, Either
  <2>3. ((((((1 + 1) + 2) + 2) + 2) + 2) + 2) + 2 = 14
    BY <1>2
  <2> QED
    BY <2>2, <2>3, Zenon
<1>31. Sized(tc_protocol_update_player_heading_and_pitch, 4)
  <2>1. Sized(tc_protocol_update_player_heading_and_pitch, ((1 + 1) + 1) + 1)
    BY <1>3, <1>1, Zenon DEF tc_protocol_update_player_heading_and_pitch
  <2>2. ((1 + 1) + 1) + 1 = 4
    BY <1>2
  <2> QED
    BY <2>1, <2>2, Zenon
<1>32. Sized(tc_protocol_despawn_player, 2)
  <2>1. Sized(tc_protocol_despawn_player, 1 + 1)
    BY <1>3, <1>1, Zenon DEF tc_protocol_despawn_player
  <2>2. 1 + 1 = 2
    BY <1>2
  <2> QED
    BY <2>1, <2>2, Zenon
<1> QED
  BY <1>4, <1>5, <1>6, <1>7, <1>8, <1>9, <1>10, <1>11, <1>12, <1>13, <1>14, <1>15, <1>16, <1>17, <1>18, <1>19, <1>20, <1>21, <1>22, <1>23, <1>24, <1>25, <1>26, <1>27, <1>28, <1>29, <1>30, <1>31, <1>32, Zenon

\* Every packet has a call, and those without positions have the size that
\* protocol.h documents, the others six bytes more.
LEMMA LayoutSizes ==
  ASSUME OutboundConstants
  PROVE  /\ \A kind \in Kinds : Layout[kind] \in Seq(Call) /\ Layout[kind] # << >>
         /\ \A kind \in Kinds : SizeOf(Layout[kind]) = SentSize(kind)
<1>1. ASSUME NEW s, NEW z, Sized(s, z), z # 0
      PROVE  s \in Seq(Call) /\ s # << >> /\ SizeOf(s) = z
  BY <1>1, SizeEmpty, Zenon DEF Sized
<1>2. \A kind \in Kinds : kind \in
        {"identification", "ping", "kick", "extinfo", "extentry", "support_level",
         "texture_url", "env_property", "appearance1", "appearance2", "weather",
         "definition", "definition_extended", "color", "message", "initialize",
         "initialize2", "data_chunk", "finalize", "set_block", "set_block_extended",
         "spawn", "spawn_extended", "place", "place_extended", "move_turn", "move",
         "turn", "despawn"}
  BY Zenon DEF Layout, OutboundConstants
<1>3. StringLength \in Nat /\ ChunkLength \in Nat
  BY DEF OutboundConstants
<1>4. ASSUME NEW kind, NEW s, NEW z, Sized(s, z), z # 0, Layout[kind] = s,
             SentSize(kind) = z
      PROVE  /\ Layout[kind] \in Seq(Call) /\ Layout[kind] # << >>
             /\ SizeOf(Layout[kind]) = SentSize(kind)
  BY <1>1, <1>4, Zenon
<1> DEFINE Fits(kind) ==
             /\ Layout[kind] \in Seq(Call) /\ Layout[kind] # << >>
             /\ SizeOf(Layout[kind]) = SentSize(kind)
<1>5. Fits("identification")
  <2>1. Layout["identification"] = tc_protocol_server_identification
    BY Zenon DEF Layout
  <2>2. SentSize("identification") = 3 + 2 * StringLength /\ 3 + 2 * StringLength # 0
    BY <1>3, SMT DEF Documented, SentSize, Positional
  <2> QED
    BY <1>4, <2>1, <2>2, PacketSizes, Zenon
<1>6. Fits("ping")
  <2>1. Layout["ping"] = tc_protocol_ping
    BY Zenon DEF Layout
  <2>2. SentSize("ping") = 1 /\ 1 # 0
    BY <1>3, SMT DEF Documented, SentSize, Positional
  <2> QED
    BY <1>4, <2>1, <2>2, PacketSizes, Zenon
<1>7. Fits("kick")
  <2>1. Layout["kick"] = tc_protocol_kick
    BY Zenon DEF Layout
  <2>2. SentSize("kick") = 1 + StringLength /\ 1 + StringLength # 0
    BY <1>3, SMT DEF Documented, SentSize, Positional
  <2> QED
    BY <1>4, <2>1, <2>2, PacketSizes, Zenon
<1>8. Fits("extinfo")
  <2>1. Layout["extinfo"] = tc_cpe_send_extinfo
    BY Zenon DEF Layout
  <2>2. SentSize("extinfo") = 3 + StringLength /\ 3 + StringLength # 0
    BY <1>3, SMT DEF Documented, SentSize, Positional
  <2> QED
    BY <1>4, <2>1, <2>2, PacketSizes, Zenon
<1>9. Fits("extentry")
  <2>1. Layout["extentry"] = tc_cpe_send_extentry
    BY Zenon DEF Layout
  <2>2. SentSize("extentry") = 5 + StringLength /\ 5 + StringLength # 0
    BY <1>3, SMT DEF Documented, SentSize, Positional
  <2> QED
    BY <1>4, <2>1, <2>2, PacketSizes, Zenon
<1>10. Fits("support_level")
  <2>1. Layout["support_level"] = tc_cpe_send_custom_block_support_level
    BY Zenon DEF Layout
  <2>2. SentSize("support_level") = 2 /\ 2 # 0
    BY <1>3, SMT DEF Documented, SentSize, Positional
  <2> QED
    BY <1>4, <2>1, <2>2, PacketSizes, Zenon
<1>11. Fits("texture_url")
  <2>1. Layout["texture_url"] = tc_cpe_send_set_texture_url
    BY Zenon DEF Layout
  <2>2. SentSize("texture_url") = 1 + StringLength /\ 1 + StringLength # 0
    BY <1>3, SMT DEF Documented, SentSize, Positional
  <2> QED
    BY <1>4, <2>1, <2>2, PacketSizes, Zenon
<1>12. Fits("env_property")
  <2>1. Layout["env_property"] = tc_cpe_send_set_map_env_property
    BY Zenon DEF Layout
  <2>2. SentSize("env_property") = 6 /\ 6 # 0
    BY <1>3, SMT DEF Documented, SentSize, Positional
  <2> QED
    BY <1>4, <2>1, <2>2, PacketSizes, Zenon
<1>13. Fits("appearance1")
  <2>1. Layout["appearance1"] = tc_cpe_send_env_map_appearance1
    BY Zenon DEF Layout
  <2>2. SentSize("appearance1") = 5 + StringLength /\ 5 + StringLength # 0
    BY <1>3, SMT DEF Documented, SentSize, Positional
  <2> QED
    BY <1>4, <2>1, <2>2, PacketSizes, Zenon
<1>14. Fits("appearance2")
  <2>1. Layout["appearance2"] = tc_cpe_send_env_map_appearance2
    BY Zenon DEF Layout
  <2>2. SentSize("appearance2") = 9 + StringLength /\ 9 + StringLength # 0
    BY <1>3, SMT DEF Documented, SentSize, Positional
  <2> QED
    BY <1>4, <2>1, <2>2, PacketSizes, Zenon
<1>15. Fits("weather")
  <2>1. Layout["weather"] = tc_cpe_send_env_set_weather_type
    BY Zenon DEF Layout
  <2>2. SentSize("weather") = 2 /\ 2 # 0
    BY <1>3, SMT DEF Documented, SentSize, Positional
  <2> QED
    BY <1>4, <2>1, <2>2, PacketSizes, Zenon
<1>16. Fits("definition")
  <2>1. Layout["definition"] = tc_cpe_send_set_block_definition(FALSE, FALSE)
    BY Zenon DEF Layout
  <2>2. SentSize("definition") = 16 + StringLength /\ 16 + StringLength # 0
    BY <1>3, SMT DEF Documented, SentSize, Positional
  <2> QED
    BY <1>4, <2>1, <2>2, PacketSizes, Zenon
<1>17. Fits("definition_extended")
  <2>1. Layout["definition_extended"] = tc_cpe_send_set_block_definition(TRUE, TRUE)
    BY Zenon DEF Layout
  <2>2. SentSize("definition_extended") = 20 + StringLength /\ 20 + StringLength # 0
    BY <1>3, SMT DEF Documented, SentSize, Positional
  <2> QED
    BY <1>4, <2>1, <2>2, PacketSizes, Zenon
<1>18. Fits("color")
  <2>1. Layout["color"] = tc_cpe_send_set_env_color
    BY Zenon DEF Layout
  <2>2. SentSize("color") = 8 /\ 8 # 0
    BY <1>3, SMT DEF Documented, SentSize, Positional
  <2> QED
    BY <1>4, <2>1, <2>2, PacketSizes, Zenon
<1>19. Fits("message")
  <2>1. Layout["message"] = tc_protocol_send_message
    BY Zenon DEF Layout
  <2>2. SentSize("message") = 2 + StringLength /\ 2 + StringLength # 0
    BY <1>3, SMT DEF Documented, SentSize, Positional
  <2> QED
    BY <1>4, <2>1, <2>2, PacketSizes, Zenon
<1>20. Fits("initialize")
  <2>1. Layout["initialize"] = tc_protocol_send_level_initialize
    BY Zenon DEF Layout
  <2>2. SentSize("initialize") = 1 /\ 1 # 0
    BY <1>3, SMT DEF Documented, SentSize, Positional
  <2> QED
    BY <1>4, <2>1, <2>2, PacketSizes, Zenon
<1>21. Fits("initialize2")
  <2>1. Layout["initialize2"] = tc_protocol_send_level_initialize2
    BY Zenon DEF Layout
  <2>2. SentSize("initialize2") = 5 /\ 5 # 0
    BY <1>3, SMT DEF Documented, SentSize, Positional
  <2> QED
    BY <1>4, <2>1, <2>2, PacketSizes, Zenon
<1>22. Fits("data_chunk")
  <2>1. Layout["data_chunk"] = tc_protocol_send_level_data_chunk
    BY Zenon DEF Layout
  <2>2. SentSize("data_chunk") = 4 + ChunkLength /\ 4 + ChunkLength # 0
    BY <1>3, SMT DEF Documented, SentSize, Positional
  <2> QED
    BY <1>4, <2>1, <2>2, PacketSizes, Zenon
<1>23. Fits("finalize")
  <2>1. Layout["finalize"] = tc_protocol_send_level_finalize
    BY Zenon DEF Layout
  <2>2. SentSize("finalize") = 7 /\ 7 # 0
    BY <1>3, SMT DEF Documented, SentSize, Positional
  <2> QED
    BY <1>4, <2>1, <2>2, PacketSizes, Zenon
<1>24. Fits("set_block")
  <2>1. Layout["set_block"] = tc_protocol_send_set_block(FALSE)
    BY Zenon DEF Layout
  <2>2. SentSize("set_block") = 8 /\ 8 # 0
    BY <1>3, SMT DEF Documented, SentSize, Positional
  <2> QED
    BY <1>4, <2>1, <2>2, PacketSizes, Zenon
<1>25. Fits("set_block_extended")
  <2>1. Layout["set_block_extended"] = tc_protocol_send_set_block(TRUE)
    BY Zenon DEF Layout
  <2>2. SentSize("set_block_extended") = 9 /\ 9 # 0
    BY <1>3, SMT DEF Documented, SentSize, Positional
  <2> QED
    BY <1>4, <2>1, <2>2, PacketSizes, Zenon
<1>26. Fits("spawn")
  <2>1. Layout["spawn"] = tc_protocol_send_spawn_player(FALSE)
    BY Zenon DEF Layout
  <2>2. SentSize("spawn") = 16 + StringLength /\ 16 + StringLength # 0
    BY <1>3, SMT DEF Documented, SentSize, Positional
  <2> QED
    BY <1>4, <2>1, <2>2, PacketSizes, Zenon
<1>27. Fits("spawn_extended")
  <2>1. Layout["spawn_extended"] = tc_protocol_send_spawn_player(TRUE)
    BY Zenon DEF Layout
  <2>2. SentSize("spawn_extended") = 22 + StringLength /\ 22 + StringLength # 0
    BY <1>3, SMT DEF Documented, SentSize, Positional
  <2> QED
    BY <1>4, <2>1, <2>2, PacketSizes, Zenon
<1>28. Fits("place")
  <2>1. Layout["place"] = tc_protocol_send_set_player_position_and_orientation(FALSE)
    BY Zenon DEF Layout
  <2>2. SentSize("place") = 16 /\ 16 # 0
    BY <1>3, SMT DEF Documented, SentSize, Positional
  <2> QED
    BY <1>4, <2>1, <2>2, PacketSizes, Zenon
<1>29. Fits("place_extended")
  <2>1. Layout["place_extended"] = tc_protocol_send_set_player_position_and_orientation(TRUE)
    BY Zenon DEF Layout
  <2>2. SentSize("place_extended") = 22 /\ 22 # 0
    BY <1>3, SMT DEF Documented, SentSize, Positional
  <2> QED
    BY <1>4, <2>1, <2>2, PacketSizes, Zenon
<1>30. Fits("move_turn")
  <2>1. Layout["move_turn"] = tc_protocol_send_update_player_position_and_orientation_delta(FALSE)
    BY Zenon DEF Layout
  <2>2. SentSize("move_turn") = 16 /\ 16 # 0
    BY <1>3, SMT DEF Documented, SentSize, Positional
  <2> QED
    BY <1>4, <2>1, <2>2, PacketSizes, Zenon
<1>31. Fits("move")
  <2>1. Layout["move"] = tc_protocol_update_player_position_delta(FALSE)
    BY Zenon DEF Layout
  <2>2. SentSize("move") = 14 /\ 14 # 0
    BY <1>3, SMT DEF Documented, SentSize, Positional
  <2> QED
    BY <1>4, <2>1, <2>2, PacketSizes, Zenon
<1>32. Fits("turn")
  <2>1. Layout["turn"] = tc_protocol_update_player_heading_and_pitch
    BY Zenon DEF Layout
  <2>2. SentSize("turn") = 4 /\ 4 # 0
    BY <1>3, SMT DEF Documented, SentSize, Positional
  <2> QED
    BY <1>4, <2>1, <2>2, PacketSizes, Zenon
<1>33. Fits("despawn")
  <2>1. Layout["despawn"] = tc_protocol_despawn_player
    BY Zenon DEF Layout
  <2>2. SentSize("despawn") = 2 /\ 2 # 0
    BY <1>3, SMT DEF Documented, SentSize, Positional
  <2> QED
    BY <1>4, <2>1, <2>2, PacketSizes, Zenon
<1> HIDE DEF Fits
<1>34. \A kind \in Kinds : Fits(kind)
  BY <1>2,
     <1>5, <1>6, <1>7, <1>8, <1>9, <1>10, <1>11, <1>12, <1>13, <1>14, <1>15, <1>16,
     <1>17, <1>18, <1>19, <1>20, <1>21, <1>22, <1>23, <1>24, <1>25, <1>26, <1>27,
     <1>28, <1>29, <1>30, <1>31, <1>32, <1>33, Zenon
<1> QED
  BY <1>34, Zenon DEF Fits

\* The calls before the n-th, that call, and the whole packet.
LEMMA PrefixSize ==
  ASSUME NEW s \in Seq(Call), NEW n \in 1..Len(s)
  PROVE  /\ SizeOf(SubSeq(s, 1, n - 1)) \in Nat /\ SizeOf(s) \in Nat
         /\ s[n].size \in Nat \ {0}
         /\ SizeOf(SubSeq(s, 1, n)) = SizeOf(SubSeq(s, 1, n - 1)) + s[n].size
         /\ n = Len(s) => SizeOf(SubSeq(s, 1, n)) = SizeOf(s)
         /\ n < Len(s) => SizeOf(SubSeq(s, 1, n)) < SizeOf(s)
<1>1. s[n] \in Call
  OBVIOUS
<1>2. s[n].size \in Nat \ {0}
  BY <1>1, SMT DEF Call
<1>3. PICK p \in Seq(Call) : p = SubSeq(s, 1, n - 1) /\ Append(p, s[n]) = SubSeq(s, 1, n)
  <2>1. SubSeq(s, 1, n - 1) \in Seq(Call) /\ SubSeq(s, 1, n) \in Seq(Call)
    OBVIOUS
  <2>2. Append(SubSeq(s, 1, n - 1), s[n]) = SubSeq(s, 1, n)
    OBVIOUS
  <2> QED
    BY <2>1, <2>2, Zenon
<1>4. /\ SizeOf(p) \in Nat /\ SizeOf(SubSeq(s, 1, n)) = SizeOf(p) + s[n].size
      /\ SizeOf(s) \in Nat /\ IsFiniteSet(BytesOf(s))
  BY <1>1, <1>3, SizeAppend, Zenon
<1>5. n = Len(s) => SubSeq(s, 1, n) = s
  OBVIOUS
<1>6. ASSUME n < Len(s)
      PROVE  SizeOf(SubSeq(s, 1, n)) < SizeOf(s)
  <2>1. PICK q \in Seq(Call) : q = SubSeq(s, 1, n)
    <3>1. SubSeq(s, 1, n) \in Seq(Call)
      OBVIOUS
    <3> QED
      BY <3>1, Zenon
  <2>2. DOMAIN q = 1..n /\ DOMAIN s = 1..Len(s) /\ \A k \in 1..n : q[k] = s[k]
    BY <2>1
  <2>3. n + 1 \in 1..Len(s) /\ n + 1 \notin 1..n /\ \A k \in 1..n : k \in 1..Len(s)
    BY <1>6
  <2>4. 1 \in 1..s[n + 1].size
    <3>1. s[n + 1] \in Call
      BY <2>3
    <3>2. s[n + 1].size \in Nat \ {0}
      BY <3>1, SMT DEF Call
    <3> QED
      BY <3>2
  <2>5. BytesOf(q) \in SUBSET BytesOf(s)
    BY <2>2, <2>3, Zenon DEF BytesOf
  <2>6. << n + 1, 1 >> \in BytesOf(s)
    <3>1. << n + 1, 1 >> \in {n + 1} \X (1..s[n + 1].size)
      BY <2>4, SMT
    <3> QED
      BY <2>2, <2>3, <3>1, Zenon DEF BytesOf
  <2>7. << n + 1, 1 >> \notin BytesOf(q)
    <3>1. SUFFICES ASSUME << n + 1, 1 >> \in BytesOf(q)
                   PROVE  FALSE
      OBVIOUS
    <3>2. PICK k \in 1..n : << n + 1, 1 >> \in {k} \X (1..q[k].size)
      BY <2>2, <3>1, Zenon DEF BytesOf
    <3>3. n + 1 = k
      BY <3>2, SMT
    <3> QED
      BY <2>3, <3>3, Zenon
  <2>8. /\ Cardinality(BytesOf(q)) <= Cardinality(BytesOf(s))
        /\ Cardinality(BytesOf(s)) # Cardinality(BytesOf(q))
    BY <1>4, <2>5, <2>6, <2>7, FS_Subset, Zenon
  <2>9. SizeOf(q) \in Nat
    BY <1>1, SizeAppend, Zenon
  <2> QED
    BY <1>4, <2>1, <2>8, <2>9 DEF SizeOf
<1> QED
  BY <1>2, <1>3, <1>4, <1>5, <1>6, Zenon

-----------------------------------------------------------------------------
(* The inductive invariant *)

Results == {"pending", "true", "false"}

Typed ==
  /\ packets \in Seq([kind : Kinds, result : Results])
  /\ call \in Nat /\ room \in Nat
  /\ cut \in BOOLEAN
  /\ stream \in Seq(Nat \X Nat)

\* The packet that is being sent is the last, and the only one without a result.
OnePending ==
  /\ Sending => /\ Len(packets) > 0 /\ call <= Len(Calls)
                /\ packets[Len(packets)].result = "pending"
  /\ \A k \in 1..Len(packets) :
       packets[k].result = "pending" => Sending /\ k = Len(packets)

\* No byte is ahead of its packet's calls, and the last byte of a packet that
\* was given up is not there.
NotAhead ==
  \A n \in 1..Len(stream) :
    /\ stream[n][1] \in 1..Len(packets)
    /\ Sending /\ stream[n][1] = Len(packets) => stream[n][2] <= Done
    /\ packets[stream[n][1]].result = "false" =>
         stream[n][2] < SizeOf(Layout[packets[stream[n][1]].kind])

\* The last byte of a packet that was reported as sent is there, unless a call
\* was cut.
LastSent ==
  \A k \in 1..Len(packets) :
    packets[k].result = "true" /\ ~cut =>
      \E n \in 1..Len(stream) : stream[n] = << k, SizeOf(Layout[packets[k].kind]) >>

SendInv == Typed /\ OnePending /\ NotAhead /\ LastSent

\* The call that is being made.
LEMMA CurrentCall ==
  ASSUME OutboundConstants, Typed, OnePending, Sending
  PROVE  /\ Len(packets) \in Nat \ {0} /\ call \in 1..Len(Calls) /\ Len(Calls) \in Nat
         /\ packets[Len(packets)].kind \in Kinds
         /\ Done \in Nat /\ Current.size \in Nat \ {0} /\ SizeOf(Calls) \in Nat
         /\ SizeOf(SubSeq(Calls, 1, call)) = Done + Current.size
         /\ call = Len(Calls) => Done + Current.size = SizeOf(Calls)
         /\ call < Len(Calls) => Done + Current.size < SizeOf(Calls)
<1>1. Len(packets) \in Nat \ {0} /\ call <= Len(Calls) /\ call \in Nat /\ call > 0
  BY DEF Typed, OnePending, Sending
<1>2. packets[Len(packets)] \in [kind : Kinds, result : Results]
  <2>1. \A R : \A p \in Seq(R) : \A n \in 1..Len(p) : p[n] \in R
    OBVIOUS
  <2>2. Len(packets) \in 1..Len(packets)
    BY <1>1
  <2> QED
    BY <2>1, <2>2, Zenon DEF Typed
<1>3. packets[Len(packets)].kind \in Kinds
  BY <1>2
<1>4. PICK s \in Seq(Call) : s = Calls
  BY <1>3, LayoutSizes, Zenon DEF Calls
<1>5. call \in 1..Len(s) /\ Len(s) \in Nat
  BY <1>1, <1>4
<1>6. PICK n \in 1..Len(s) : n = call
  BY <1>5, Zenon
<1>7. /\ SizeOf(SubSeq(s, 1, n - 1)) \in Nat /\ SizeOf(s) \in Nat
      /\ s[n].size \in Nat \ {0}
      /\ SizeOf(SubSeq(s, 1, n)) = SizeOf(SubSeq(s, 1, n - 1)) + s[n].size
      /\ n = Len(s) => SizeOf(SubSeq(s, 1, n)) = SizeOf(s)
      /\ n < Len(s) => SizeOf(SubSeq(s, 1, n)) < SizeOf(s)
  BY PrefixSize, Zenon
<1>8. Done = SizeOf(SubSeq(s, 1, n - 1)) /\ Current = s[n]
  BY <1>4, <1>6, Zenon DEF Done, Current
<1>9. /\ Done \in Nat /\ Current.size \in Nat \ {0} /\ SizeOf(Calls) \in Nat
      /\ SizeOf(SubSeq(Calls, 1, call)) = Done + Current.size
  BY <1>4, <1>6, <1>7, <1>8, Zenon
<1>10. /\ call = Len(Calls) => Done + Current.size = SizeOf(Calls)
       /\ call < Len(Calls) => Done + Current.size < SizeOf(Calls)
  BY <1>4, <1>6, <1>7, <1>8, Zenon
<1> QED
  BY <1>1, <1>3, <1>4, <1>5, <1>9, <1>10, Zenon

-----------------------------------------------------------------------------
(* The steps *)

\* The packets sent so far.
LEMMA PacketTypes ==
  ASSUME Typed
  PROVE  /\ Len(packets) \in Nat /\ DOMAIN packets = 1..Len(packets)
         /\ \A k \in 1..Len(packets) :
              packets[k].kind \in Kinds /\ packets[k].result \in Results
<1>1. \A R : \A p \in Seq(R) :
        Len(p) \in Nat /\ DOMAIN p = 1..Len(p) /\ \A n \in 1..Len(p) : p[n] \in R
  OBVIOUS
<1>2. \A x \in [kind : Kinds, result : Results] : x.kind \in Kinds /\ x.result \in Results
  OBVIOUS
<1> QED
  BY <1>1, <1>2, Zenon DEF Typed

\* A packet's function returns r: the packet has its result, and the rest is as
\* it was.
LEMMA Reported ==
  ASSUME Typed, Len(packets) > 0, NEW r \in Results,
         packets' = [packets EXCEPT ![Len(packets)].result = r]
  PROVE  /\ packets' \in Seq([kind : Kinds, result : Results])
         /\ Len(packets') = Len(packets)
         /\ \A k \in 1..Len(packets) :
              /\ packets'[k].kind = packets[k].kind
              /\ k = Len(packets) => packets'[k].result = r
              /\ k # Len(packets) => packets'[k].result = packets[k].result
<1>1. PICK l \in Nat \ {0} : l = Len(packets)
  BY PacketTypes
<1>2. packets = [k \in 1..l |-> packets[k]] /\ DOMAIN packets = 1..l
  <2>1. \A R : \A p \in Seq(R) : p = [k \in 1..Len(p) |-> p[k]]
    OBVIOUS
  <2> QED
    BY <1>1, <2>1, PacketTypes, Zenon DEF Typed
<1>3. packets' = [k \in 1..l |-> IF k = l THEN [packets[l] EXCEPT !.result = r] ELSE packets[k]]
  <2>1. packets' = [packets EXCEPT ![l] = [packets[l] EXCEPT !.result = r]]
    BY <1>1, Zenon
  <2>2. PICK x : x = [packets[l] EXCEPT !.result = r]
    BY Zenon
  <2>3. \A p : [p EXCEPT ![l] = x] = [k \in DOMAIN p |-> IF k = l THEN x ELSE p[k]]
    BY Zenon
  <2> QED
    BY <1>2, <2>1, <2>2, <2>3, Zenon
<1>4. \A k \in 1..l : packets[k] \in [kind : Kinds, result : Results]
  <2>1. \A R : \A p \in Seq(R) : \A n \in 1..Len(p) : p[n] \in R
    OBVIOUS
  <2> QED
    BY <1>1, <2>1, Zenon DEF Typed
<1>5. \A x \in [kind : Kinds, result : Results] :
        /\ [x EXCEPT !.result = r] \in [kind : Kinds, result : Results]
        /\ [x EXCEPT !.result = r].kind = x.kind
        /\ [x EXCEPT !.result = r].result = r
  BY SMT
<1>6. l \in 1..l
  OBVIOUS
<1>7. ASSUME NEW k \in 1..l
      PROVE  /\ packets'[k] \in [kind : Kinds, result : Results]
             /\ packets'[k].kind = packets[k].kind
             /\ k = l => packets'[k].result = r
             /\ k # l => packets'[k].result = packets[k].result
  <2>1. packets'[k] = IF k = l THEN [packets[l] EXCEPT !.result = r] ELSE packets[k]
    BY <1>3, Zenon
  <2>2. CASE k = l
    <3>1. packets'[k] = [packets[k] EXCEPT !.result = r]
      BY <2>1, <2>2, Zenon
    <3>2. PICK x \in [kind : Kinds, result : Results] : x = packets[k]
      BY <1>4, Zenon
    <3>3. PICK y : y = [x EXCEPT !.result = r] /\ y = packets'[k]
      BY <3>1, <3>2, Zenon
    <3>4. y \in [kind : Kinds, result : Results] /\ y.kind = x.kind /\ y.result = r
      BY <1>5, <3>3, Zenon
    <3> QED
      BY <2>2, <3>2, <3>3, <3>4, Zenon
  <2>3. CASE k # l
    <3>1. packets'[k] = packets[k]
      BY <2>1, <2>3, Zenon
    <3> QED
      BY <1>4, <2>3, <3>1, Zenon
  <2> QED
    BY <2>2, <2>3, Zenon
<1>8. packets' = [k \in 1..l |-> packets'[k]]
  BY <1>3, Zenon
<1>9. packets' \in Seq([kind : Kinds, result : Results]) /\ Len(packets') = l
  <2>1. ASSUME NEW R, NEW f, f = [k \in 1..l |-> f[k]], \A k \in 1..l : f[k] \in R
        PROVE  f \in Seq(R) /\ Len(f) = l
    BY <2>1
  <2>2. \A k \in 1..l : packets'[k] \in [kind : Kinds, result : Results]
    BY <1>7, Zenon
  <2>3. PICK R, f : R = [kind : Kinds, result : Results] /\ f = packets'
    BY Zenon
  <2>4. f = [k \in 1..l |-> f[k]] /\ \A k \in 1..l : f[k] \in R
    BY <1>8, <2>2, <2>3, Zenon
  <2>5. f \in Seq(R) /\ Len(f) = l
    BY <2>1, <2>4, Zenon
  <2> QED
    BY <2>3, <2>5, Zenon
<1> QED
  BY <1>1, <1>7, <1>9, Zenon

\* What a call that returned TRUE leaves behind.
LEMMA ProceedEffect ==
  ASSUME OutboundConstants, Typed, OnePending, Sending, Proceed
  PROVE  /\ packets' \in Seq([kind : Kinds, result : Results])
         /\ Len(packets') = Len(packets) /\ call' \in Nat
         /\ \A k \in 1..Len(packets) :
              /\ packets'[k].kind = packets[k].kind
              /\ k # Len(packets) => packets'[k].result = packets[k].result
         /\ call < Len(Calls) =>
              /\ call' = call + 1 /\ Sending' /\ packets' = packets
              /\ Calls' = Calls /\ Done' = Done + Current.size
         /\ ~(call < Len(Calls)) =>
              /\ call = Len(Calls) /\ ~Sending'
              /\ packets'[Len(packets)].result = "true"
<1>1. /\ Len(packets) \in Nat \ {0} /\ call \in 1..Len(Calls) /\ Len(Calls) \in Nat
      /\ SizeOf(SubSeq(Calls, 1, call)) = Done + Current.size
  BY CurrentCall, Zenon
<1>2. CASE call < Len(Calls)
  <2>1. call' = call + 1 /\ packets' = packets
    BY <1>2, Zenon DEF Proceed
  <2>2. Sending' /\ call' \in Nat /\ call' - 1 = call
    BY <1>1, <2>1 DEF Sending
  <2>3. Calls' = Calls
    BY <2>1, Zenon DEF Calls
  <2>4. Done' = Done + Current.size
    BY <1>1, <2>2, <2>3, Zenon DEF Done
  <2> QED
    BY <1>2, <2>1, <2>2, <2>3, <2>4, Zenon DEF Typed
<1>3. CASE ~(call < Len(Calls))
  <2>1. call' = 0 /\ packets' = [packets EXCEPT ![Len(packets)].result = "true"]
    BY <1>3, Zenon DEF Proceed
  <2>2. ~Sending' /\ call' \in Nat /\ call = Len(Calls) /\ Len(packets) > 0
        /\ Len(packets) \in 1..Len(packets)
    BY <1>1, <1>3, <2>1 DEF Sending
  <2>3. "true" \in Results
    BY DEF Results
  <2>4. /\ packets' \in Seq([kind : Kinds, result : Results])
        /\ Len(packets') = Len(packets)
        /\ \A k \in 1..Len(packets) :
             /\ packets'[k].kind = packets[k].kind
             /\ k = Len(packets) => packets'[k].result = "true"
             /\ k # Len(packets) => packets'[k].result = packets[k].result
    BY <2>1, <2>2, <2>3, Reported, Zenon
  <2> QED
    BY <1>3, <2>2, <2>4, Zenon
<1> QED
  BY <1>2, <1>3, Zenon

\* The bytes that a call puts behind the others.
LEMMA BytesBehind ==
  ASSUME OutboundConstants, Typed, OnePending, Sending, NEW count \in Nat, stream' = stream \o Bytes(count)
  PROVE  /\ stream' \in Seq(Nat \X Nat) /\ Len(stream') = Len(stream) + count
         /\ Len(stream) \in Nat
         /\ \A n \in 1..Len(stream) : stream'[n] = stream[n]
         /\ \A j \in 1..count : stream'[Len(stream) + j] = << Len(packets), Done + j >>
         /\ \A n \in 1..(Len(stream) + count) :
              n \in 1..Len(stream) \/ \E j \in 1..count : n = Len(stream) + j
<1>1. PICK l, d \in Nat : l = Len(packets) /\ d = Done
  BY CurrentCall, Zenon
<1>2. PICK b : b = [k \in 1..count |-> << l, d + k >>] /\ b = Bytes(count)
  BY <1>1, Zenon DEF Bytes
<1>3. b \in Seq(Nat \X Nat) /\ Len(b) = count /\ \A j \in 1..count : b[j] = << l, d + j >>
  BY <1>2
<1>4. /\ stream' \in Seq(Nat \X Nat) /\ Len(stream') = Len(stream) + count
      /\ Len(stream) \in Nat
      /\ \A n \in 1..Len(stream) : stream'[n] = stream[n]
      /\ \A j \in 1..count : stream'[Len(stream) + j] = b[j]
  <2>1. PICK s \in Seq(Nat \X Nat) : s = stream
    BY Zenon DEF Typed
  <2>2. stream' = s \o b
    BY <1>2, <2>1, Zenon
  <2>3. /\ s \o b \in Seq(Nat \X Nat) /\ Len(s \o b) = Len(s) + Len(b) /\ Len(s) \in Nat
        /\ \A n \in 1..Len(s) : (s \o b)[n] = s[n]
        /\ \A j \in 1..Len(b) : (s \o b)[Len(s) + j] = b[j]
    <3>1. PICK R : R = Nat \X Nat
      BY Zenon
    <3>2. s \in Seq(R) /\ b \in Seq(R)
      BY <1>3, <3>1, Zenon
    <3>3. /\ s \o b \in Seq(R) /\ Len(s \o b) = Len(s) + Len(b) /\ Len(s) \in Nat
          /\ \A n \in 1..Len(s) : (s \o b)[n] = s[n]
          /\ \A j \in 1..Len(b) : (s \o b)[Len(s) + j] = b[j]
      BY <3>2, SMT
    <3> QED
      BY <3>1, <3>3, Zenon
  <2> QED
    BY <1>3, <2>1, <2>2, <2>3, Zenon
<1>5. \A n \in 1..(Len(stream) + count) :
        n \in 1..Len(stream) \/ (n - Len(stream) \in 1..count /\ n = Len(stream) + (n - Len(stream)))
  BY <1>4
<1> QED
  BY <1>1, <1>3, <1>4, <1>5, Zenon

\* The socket took `count' bytes of a call that returned TRUE; a call that it
\* did not take whole is remembered as cut.
Sends(count) ==
  /\ Sending /\ Proceed
  /\ count \in 0..Current.size
  /\ stream' = stream \o Bytes(count)
  /\ room' \in Nat /\ cut' \in BOOLEAN
  /\ ~cut' => ~cut /\ count = Current.size

LEMMA ProceedStep ==
  ASSUME OutboundConstants, SendInv, NEW count, Sends(count)
  PROVE  SendInv'
<1>1. Typed /\ OnePending /\ NotAhead /\ LastSent /\ Sending /\ Proceed
  BY Zenon DEF SendInv, Sends
<1>2. PICK l \in Nat \ {0} : l = Len(packets)
  BY <1>1, CurrentCall, Zenon
<1>3. PICK d \in Nat, s \in Nat \ {0} : d = Done /\ s = Current.size
  BY <1>1, CurrentCall, Zenon
<1>4. count \in 0..s /\ count \in Nat /\ (~cut' => ~cut /\ count = s)
  <2>1. count \in 0..s /\ (~cut' => ~cut /\ count = s)
    BY <1>3, Zenon DEF Sends
  <2> QED
    BY <2>1
<1>5. /\ packets' \in Seq([kind : Kinds, result : Results])
      /\ Len(packets') = l /\ call' \in Nat
      /\ \A k \in 1..l :
           /\ packets'[k].kind = packets[k].kind
           /\ k # l => packets'[k].result = packets[k].result
      /\ call < Len(Calls) =>
           /\ call' = call + 1 /\ Sending' /\ packets' = packets
           /\ Calls' = Calls /\ Done' = d + s
      /\ ~(call < Len(Calls)) =>
           /\ call = Len(Calls) /\ ~Sending' /\ packets'[l].result = "true"
  BY <1>1, <1>2, <1>3, ProceedEffect, Zenon
<1>6. PICK m \in Nat : m = Len(stream)
  BY <1>1, <1>4, BytesBehind, Zenon DEF Sends
<1>7. /\ stream' \in Seq(Nat \X Nat) /\ Len(stream') = m + count
      /\ \A n \in 1..m : stream'[n] = stream[n]
      /\ \A j \in 1..count : stream'[m + j] = << l, d + j >>
      /\ \A n \in 1..(m + count) : n \in 1..m \/ \E j \in 1..count : n = m + j
  <2>1. stream' = stream \o Bytes(count)
    BY Zenon DEF Sends
  <2>2. /\ stream' \in Seq(Nat \X Nat) /\ Len(stream') = Len(stream) + count
        /\ \A n \in 1..Len(stream) : stream'[n] = stream[n]
        /\ \A j \in 1..count : stream'[Len(stream) + j] = << Len(packets), Done + j >>
        /\ \A n \in 1..(Len(stream) + count) :
             n \in 1..Len(stream) \/ \E j \in 1..count : n = Len(stream) + j
    BY <1>1, <1>4, <2>1, BytesBehind, Zenon
  <2> QED
    BY <1>2, <1>3, <1>6, <2>2, Zenon
<1>8. l \in 1..l /\ packets[l].result = "pending" /\ packets'[l].result # "false"
  <2>1. l \in 1..l
    OBVIOUS
  <2>2. packets[l].result = "pending"
    BY <1>1, <1>2, Zenon DEF OnePending
  <2> QED
    BY <1>5, <2>1, <2>2
<1>9. Typed'
  BY <1>5, <1>7, Zenon DEF Typed, Sends
<1>10. OnePending'
  <2>1. CASE call < Len(Calls)
    <3>1. call' <= Len(Calls')
      BY <1>1, <1>5, <2>1, CurrentCall
    <3>2. l > 0
      BY <1>2
    <3> QED
      BY <1>1, <1>2, <1>5, <1>8, <2>1, <3>1, <3>2, Zenon DEF OnePending
  <2>2. CASE ~(call < Len(Calls))
    <3>1. "true" # "pending"
      OBVIOUS
    <3> QED
      BY <1>1, <1>2, <1>5, <2>2, <3>1, Zenon DEF OnePending
  <2> QED
    BY <2>1, <2>2, Zenon
<1>11. ASSUME NEW n \in 1..Len(stream')
       PROVE  /\ stream'[n][1] \in 1..l
              /\ Sending' /\ stream'[n][1] = l => stream'[n][2] <= Done'
              /\ packets'[stream'[n][1]].result = "false" =>
                   stream'[n][2] < SizeOf(Layout[packets'[stream'[n][1]].kind])
  <2>1. CASE n \in 1..m
    <3>1. PICK p, q : p = stream[n][1] /\ q = stream[n][2]
      BY Zenon
    <3>2. stream'[n][1] = p /\ stream'[n][2] = q
      BY <1>7, <2>1, <3>1, Zenon
    <3>3. /\ p \in 1..l /\ (p = l => q <= d)
          /\ packets[p].result = "false" => q < SizeOf(Layout[packets[p].kind])
      BY <1>1, <1>2, <1>3, <1>6, <2>1, <3>1, Zenon DEF NotAhead
    <3>4. q \in Nat
      <4>1. \A R : \A x \in Seq(R) : \A i \in 1..Len(x) : x[i] \in R
        OBVIOUS
      <4>2. stream[n] \in Nat \X Nat
        BY <1>1, <1>6, <2>1, <4>1, Zenon DEF Typed
      <4> QED
        BY <3>1, <4>2
    <3>5. Sending' /\ p = l => q <= Done'
      <4>1. Sending' => Done' = d + s
        BY <1>5, Zenon
      <4>2. q <= d => q <= d + s
        BY <3>4
      <4> QED
        BY <3>3, <4>1, <4>2, Zenon
    <3>6. packets'[p].result = "false" => q < SizeOf(Layout[packets'[p].kind])
      BY <1>5, <1>8, <3>3, Zenon
    <3> QED
      BY <3>2, <3>3, <3>5, <3>6, Zenon
  <2>2. CASE \E j \in 1..count : n = m + j
    <3>1. PICK j \in 1..count : n = m + j
      BY <2>2, Zenon
    <3>2. stream'[n] = << l, d + j >>
      BY <1>7, <3>1, Zenon
    <3>3. stream'[n][1] = l /\ stream'[n][2] = d + j
      BY <3>2
    <3>4. d + j <= d + s
      BY <1>4
    <3>5. Sending' => Done' = d + s
      BY <1>5, Zenon
    <3> QED
      BY <1>8, <3>3, <3>4, <3>5, Zenon
  <2> QED
    BY <1>7, <2>1, <2>2, Zenon
<1>12. NotAhead'
  BY <1>2, <1>5, <1>11, Zenon DEF NotAhead
<1>13. ASSUME NEW k \in 1..l, packets'[k].result = "true", ~cut'
       PROVE  \E n \in 1..(m + count) :
                stream'[n] = << k, SizeOf(Layout[packets'[k].kind]) >>
  <2>1. CASE k # l
    <3>1. PICK n \in 1..m : stream[n] = << k, SizeOf(Layout[packets[k].kind]) >>
      BY <1>1, <1>2, <1>4, <1>5, <1>6, <1>13, <2>1, Zenon DEF LastSent
    <3>2. n \in 1..(m + count)
      BY <1>4
    <3> QED
      BY <1>5, <1>7, <3>1, <3>2, Zenon
  <2>2. CASE k = l
    <3>1. call = Len(Calls)
      <4>1. "pending" # "true"
        OBVIOUS
      <4> QED
        BY <1>5, <1>8, <1>13, <2>2, <4>1, Zenon
    <3>2. d + s = SizeOf(Layout[packets[l].kind])
      BY <1>1, <1>2, <1>3, <3>1, CurrentCall, Zenon DEF Calls
    <3>3. m + count \in 1..(m + count) /\ count \in 1..count /\ count = s
      BY <1>4, <1>13
    <3>4. stream'[m + count] = << l, d + s >>
      BY <1>7, <3>3, Zenon
    <3> QED
      BY <1>5, <1>8, <2>2, <3>2, <3>3, <3>4, Zenon
  <2> QED
    BY <2>1, <2>2, Zenon
<1>14. LastSent'
  BY <1>5, <1>7, <1>13, Zenon DEF LastSent
<1> QED
  BY <1>9, <1>10, <1>12, <1>14, Zenon DEF SendInv

\* A call failed, and its packet is given up before its last byte.
LEMMA GiveUpStep ==
  ASSUME OutboundConstants, SendInv, Sending, GiveUp, UNCHANGED << room, stream, cut >>
  PROVE  SendInv'
<1>1. Typed /\ OnePending /\ NotAhead /\ LastSent
  BY Zenon DEF SendInv
<1>2. PICK l \in Nat \ {0} : l = Len(packets)
  BY <1>1, CurrentCall, Zenon
<1>3. call' = 0 /\ call' \in Nat /\ ~Sending' /\ l > 0 /\ l \in 1..l /\ "false" \in Results
  BY <1>2 DEF GiveUp, Sending, Results
<1>4. /\ packets' \in Seq([kind : Kinds, result : Results]) /\ Len(packets') = l
      /\ \A k \in 1..l :
           /\ packets'[k].kind = packets[k].kind
           /\ k = l => packets'[k].result = "false"
           /\ k # l => packets'[k].result = packets[k].result
  BY <1>1, <1>2, <1>3, Reported, Zenon DEF GiveUp
<1>5. stream' = stream /\ cut' = cut /\ room' = room
  BY Zenon
<1>6. Typed'
  BY <1>1, <1>3, <1>4, <1>5, Zenon DEF Typed
<1>7. OnePending'
  <2>1. "false" # "pending"
    OBVIOUS
  <2> QED
    BY <1>1, <1>2, <1>3, <1>4, <2>1, Zenon DEF OnePending
<1>8. ASSUME NEW n \in 1..Len(stream)
      PROVE  /\ stream[n][1] \in 1..l
             /\ packets'[stream[n][1]].result = "false" =>
                  stream[n][2] < SizeOf(Layout[packets'[stream[n][1]].kind])
  <2>1. PICK p, q : p = stream[n][1] /\ q = stream[n][2]
    BY Zenon
  <2>2. /\ p \in 1..l /\ (p = l => q <= Done)
        /\ packets[p].result = "false" => q < SizeOf(Layout[packets[p].kind])
    BY <1>1, <1>2, <2>1, Zenon DEF NotAhead
  <2>3. p = l => q < SizeOf(Layout[packets[p].kind])
    <3>1. q \in Nat
      <4>1. \A R : \A x \in Seq(R) : \A i \in 1..Len(x) : x[i] \in R
        OBVIOUS
      <4>2. stream[n] \in Nat \X Nat
        BY <1>1, <4>1, Zenon DEF Typed
      <4> QED
        BY <2>1, <4>2
    <3>2. PICK z \in Nat : z = SizeOf(Calls)
      BY <1>1, CurrentCall, Zenon
    <3>3. Done < z
      <4>1. /\ Done \in Nat /\ Current.size \in Nat \ {0} /\ call \in 1..Len(Calls)
            /\ Len(Calls) \in Nat
            /\ call = Len(Calls) => Done + Current.size = z
            /\ call < Len(Calls) => Done + Current.size < z
        BY <1>1, <3>2, CurrentCall, Zenon
      <4> QED
        BY <4>1
    <3>4. q <= Done => q < z
      <4>1. Done \in Nat
        BY <1>1, CurrentCall, Zenon
      <4> QED
        BY <3>1, <3>2, <3>3, <4>1
    <3> QED
      BY <1>2, <2>2, <3>2, <3>4, Zenon DEF Calls
  <2>4. packets'[p].result = "false" => q < SizeOf(Layout[packets'[p].kind])
    <3>1. CASE p = l
      BY <1>4, <2>2, <2>3, <3>1, Zenon
    <3>2. CASE p # l
      BY <1>4, <2>2, <3>2, Zenon
    <3> QED
      BY <3>1, <3>2, Zenon
  <2> QED
    BY <2>1, <2>2, <2>4, Zenon
<1>9. NotAhead'
  BY <1>3, <1>4, <1>5, <1>8, Zenon DEF NotAhead
<1>10. LastSent'
  <2>1. "false" # "true"
    OBVIOUS
  <2>2. ASSUME NEW k \in 1..l, packets'[k].result = "true", ~cut'
        PROVE  \E n \in 1..Len(stream') :
                 stream'[n] = << k, SizeOf(Layout[packets'[k].kind]) >>
    <3>1. packets[k].result = "true" /\ packets'[k].kind = packets[k].kind
      BY <1>4, <2>1, <2>2, Zenon
    <3>2. ~cut
      BY <1>5, <2>2
    <3>3. PICK n \in 1..Len(stream) : stream[n] = << k, SizeOf(Layout[packets[k].kind]) >>
      BY <1>1, <1>2, <3>1, <3>2, Zenon DEF LastSent
    <3>4. n \in 1..Len(stream')
      BY <1>5
    <3>5. stream'[n] = << k, SizeOf(Layout[packets'[k].kind]) >>
      BY <1>5, <3>1, <3>3
    <3> QED
      BY <3>4, <3>5, Zenon
  <2> QED
    BY <1>4, <2>2, Zenon DEF LastSent
<1> QED
  BY <1>6, <1>7, <1>9, <1>10, Zenon DEF SendInv

\* What sending another packet leaves behind.
LEMMA BeginEffect ==
  ASSUME OutboundConstants, Typed, NEW kind \in Kinds, Begin(kind)
  PROVE  /\ packets' \in Seq([kind : Kinds, result : Results])
         /\ Len(packets) \in Nat /\ Len(packets') = Len(packets) + 1
         /\ \A k \in 1..Len(packets) : packets'[k] = packets[k]
         /\ packets'[Len(packets) + 1].kind = kind
         /\ packets'[Len(packets) + 1].result = "pending"
         /\ call' = 1 /\ Sending' /\ ~Sending
         /\ Calls' = Layout[kind] /\ call' <= Len(Calls')
         /\ stream' = stream /\ cut' = cut /\ room' = room
<1>1. PICK R : R = [kind : Kinds, result : Results]
  BY Zenon
<1>2. PICK x \in R : x = [kind |-> kind, result |-> "pending"]
  <2>1. [kind |-> kind, result |-> "pending"] \in [kind : Kinds, result : Results]
    BY DEF Results
  <2> QED
    BY <1>1, <2>1, Zenon
<1>3. packets \in Seq(R) /\ packets' = Append(packets, x)
  BY <1>1, <1>2, Zenon DEF Typed, Begin
<1>4. /\ packets' \in Seq(R)
      /\ Len(packets) \in Nat /\ Len(packets') = Len(packets) + 1
      /\ \A k \in 1..Len(packets) : packets'[k] = packets[k]
      /\ packets'[Len(packets) + 1] = x
  BY <1>3, SMT
<1>5. x.kind = kind /\ x.result = "pending"
  BY <1>2
<1>6. call' = 1 /\ ~Sending /\ stream' = stream /\ cut' = cut /\ room' = room
  BY Zenon DEF Begin
<1>7. Sending'
  BY <1>6 DEF Sending
<1>8. Calls' = Layout[kind]
  BY <1>4, <1>5, Zenon DEF Calls
<1>9. call' <= Len(Calls')
  <2>1. PICK s \in Seq(Call) : s = Layout[kind] /\ s # << >>
    BY LayoutSizes, Zenon
  <2>2. 1 <= Len(s)
    BY <2>1
  <2> QED
    BY <1>6, <1>8, <2>1, <2>2, Zenon
<1> QED
  BY <1>1, <1>4, <1>5, <1>6, <1>7, <1>8, <1>9, Zenon

LEMMA BeginStep ==
  ASSUME OutboundConstants, SendInv, NEW kind \in Kinds, Begin(kind)
  PROVE  SendInv'
<1>1. Typed /\ OnePending /\ NotAhead /\ LastSent
  BY Zenon DEF SendInv
<1>2. PICK l \in Nat : l = Len(packets)
  BY <1>1, PacketTypes, Zenon
<1>3. /\ packets' \in Seq([kind : Kinds, result : Results])
      /\ Len(packets') = l + 1
      /\ \A k \in 1..l : packets'[k] = packets[k]
      /\ packets'[l + 1].kind = kind /\ packets'[l + 1].result = "pending"
      /\ call' = 1 /\ Sending' /\ ~Sending
      /\ Calls' = Layout[kind] /\ call' <= Len(Calls')
      /\ stream' = stream /\ cut' = cut /\ room' = room
  BY <1>1, <1>2, BeginEffect, Zenon
<1>4. /\ \A k \in 1..(l + 1) : k \in 1..l \/ k = l + 1
      /\ \A k \in 1..l : k \in 1..(l + 1) /\ k # l + 1
      /\ l + 1 > 0
  OBVIOUS
<1>5. Typed'
  <2>1. call' \in Nat
    BY <1>3
  <2> QED
    BY <1>1, <1>3, <2>1, Zenon DEF Typed
<1>6. OnePending'
  BY <1>1, <1>2, <1>3, <1>4, Zenon DEF OnePending
<1>7. NotAhead'
  <2>1. ASSUME NEW n \in 1..Len(stream)
        PROVE  /\ stream[n][1] \in 1..(l + 1) /\ stream[n][1] # l + 1
               /\ packets'[stream[n][1]].result = "false" =>
                    stream[n][2] < SizeOf(Layout[packets'[stream[n][1]].kind])
    <3>1. /\ stream[n][1] \in 1..l
          /\ packets[stream[n][1]].result = "false" =>
               stream[n][2] < SizeOf(Layout[packets[stream[n][1]].kind])
      BY <1>1, <1>2, Zenon DEF NotAhead
    <3>2. packets'[stream[n][1]] = packets[stream[n][1]]
      BY <1>3, <3>1, Zenon
    <3> QED
      BY <1>4, <3>1, <3>2, Zenon
  <2> QED
    BY <1>3, <2>1, Zenon DEF NotAhead
<1>8. LastSent'
  <2>1. "pending" # "true"
    OBVIOUS
  <2> QED
    BY <1>1, <1>2, <1>3, <1>4, <2>1, Zenon DEF LastSent
<1> QED
  BY <1>5, <1>6, <1>7, <1>8, Zenon DEF SendInv

\* A call either sends what the socket takes of its bytes or fails.
LEMMA CallCases ==
  ASSUME OutboundConstants, Typed, OnePending, SendWhole \/ SendPart \/ SendBlocked \/ SendClosed
  PROVE  \/ \E count : Sends(count)
         \/ Sending /\ GiveUp /\ UNCHANGED << room, stream, cut >>
<1>1. Sending
  BY Zenon DEF SendWhole, SendPart, SendBlocked, SendClosed
<1>2. PICK s \in Nat \ {0} : s = Current.size
  BY <1>1, CurrentCall, Zenon
<1>3. room \in Nat /\ cut \in BOOLEAN
  BY Zenon DEF Typed
<1>4. CASE SendWhole
  <2>1. s \in 0..s
    OBVIOUS
  <2>2. room' \in Nat
    BY <1>2, <1>3, <1>4 DEF SendWhole
  <2>3. cut' \in BOOLEAN /\ (~cut' => ~cut)
    BY <1>3, <1>4 DEF SendWhole
  <2>4. Sends(s)
    BY <1>1, <1>2, <1>4, <2>1, <2>2, <2>3, Zenon DEF SendWhole, Sends
  <2> QED
    BY <2>4, Zenon
<1>5. CASE SendPart
  <2>1. room \in 0..s
    BY <1>2, <1>3, <1>5 DEF SendPart
  <2>2. room' \in Nat /\ cut' \in BOOLEAN /\ cut'
    BY <1>5 DEF SendPart
  <2>3. Sends(room)
    BY <1>1, <1>2, <1>5, <2>1, <2>2, Zenon DEF SendPart, Sends
  <2> QED
    BY <2>3, Zenon
<1>6. CASE SendBlocked
  <2>1. CASE Current.call = "string"
    BY <1>1, <1>6, <2>1, Zenon DEF SendBlocked
  <2>2. CASE Current.call # "string"
    <3>1. Proceed /\ stream' = stream /\ room' = room
      BY <1>6, <2>2, Zenon DEF SendBlocked
    <3>2. cut' \in BOOLEAN /\ cut' /\ room' \in Nat
      BY <1>3, <1>6, <2>2 DEF SendBlocked
    <3>3. stream' = stream \o Bytes(0)
      <4>1. Bytes(0) = << >>
        BY DEF Bytes
      <4>2. PICK R : R = Nat \X Nat
        BY Zenon
      <4>3. \A t \in Seq(R) : t \o << >> = t
        OBVIOUS
      <4> QED
        BY <3>1, <4>1, <4>2, <4>3, Zenon DEF Typed
    <3>4. 0 \in 0..s
      OBVIOUS
    <3>5. Sends(0)
      BY <1>1, <1>2, <3>1, <3>2, <3>3, <3>4, Zenon DEF Sends
    <3> QED
      BY <3>5, Zenon
  <2> QED
    BY <2>1, <2>2, Zenon
<1>7. CASE SendClosed
  BY <1>1, <1>7, Zenon DEF SendClosed
<1> QED
  BY <1>4, <1>5, <1>6, <1>7, Zenon

\* The invariant SendInv is inductive: it holds of a fresh socket, and every
\* step of a sender and of the client keeps it.
THEOREM OutboundInvariant ==
  ASSUME OutboundConstants
  PROVE  Spec => []SendInv
<1>1. Init => SendInv
  <2> SUFFICES ASSUME Init PROVE SendInv
    OBVIOUS
  <2>1. packets = << >> /\ stream = << >> /\ call = 0 /\ cut = FALSE /\ room = SocketBuffer
    BY Zenon DEF Init
  <2>2. Typed
    <3>1. \A R : << >> \in Seq(R)
      OBVIOUS
    <3>2. 0 \in Nat /\ SocketBuffer \in Nat
      BY DEF OutboundConstants
    <3> QED
      BY <2>1, <3>1, <3>2, Zenon DEF Typed
  <2>3. ~Sending /\ 1..Len(packets) = {} /\ 1..Len(stream) = {}
    BY <2>1 DEF Sending
  <2> QED
    BY <2>2, <2>3, Zenon DEF SendInv, OnePending, NotAhead, LastSent
<1>2. SendInv /\ [Next]_vars => SendInv'
  <2> SUFFICES ASSUME SendInv, [Next]_vars PROVE SendInv'
    OBVIOUS
  <2>1. Typed /\ OnePending
    BY Zenon DEF SendInv
  <2>2. ASSUME NEW kind \in Kinds, Begin(kind)
        PROVE  SendInv'
    BY <2>2, BeginStep, Zenon
  <2>3. CASE SendWhole \/ SendPart \/ SendBlocked \/ SendClosed
    BY <2>1, <2>3, CallCases, ProceedStep, GiveUpStep, Zenon
  <2>4. CASE UNCHANGED << packets, call, stream, cut >> /\ room' \in Nat
    <3>1. packets' = packets /\ call' = call /\ stream' = stream /\ (cut' <=> cut)
          /\ cut' \in BOOLEAN /\ room' \in Nat
      BY <2>1, <2>4 DEF Typed
    <3>2. (Sending' <=> Sending) /\ Calls' = Calls /\ Done' = Done
      BY <3>1, Zenon DEF Sending, Calls, Done
    <3> QED
      BY <3>1, <3>2, Zenon DEF SendInv, Typed, OnePending, NotAhead, LastSent
  <2>5. CASE ClientReads
    BY <2>4, <2>5 DEF ClientReads, OutboundConstants
  <2>6. CASE ClientLeaves \/ UNCHANGED vars
    <3>1. UNCHANGED << packets, call, stream, cut >> /\ room' = room
      BY <2>6, Zenon DEF ClientLeaves, vars
    <3>2. room' \in Nat
      BY <2>1, <3>1, Zenon DEF Typed
    <3> QED
      BY <2>4, <3>1, <3>2, Zenon
  <2> QED
    BY <2>2, <2>3, <2>5, <2>6, Zenon DEF Next
<1> QED
  BY <1>1, <1>2, PTL DEF Spec

\* A packet reported as not sent is missing its last byte, and one that is
\* reported as sent has it on the wire unless a call was cut, for every set of
\* packets, every size of the socket's buffer and every number of packets.
THEOREM FailuresAreReported ==
  ASSUME OutboundConstants
  PROVE  Spec => []FailureIsReported
<1>1. SendInv => FailureIsReported
  <2> SUFFICES ASSUME SendInv PROVE FailureIsReported
    OBVIOUS
  <2>1. /\ DOMAIN packets = 1..Len(packets) /\ DOMAIN stream = 1..Len(stream)
    <3>1. \A R : \A t \in Seq(R) : DOMAIN t = 1..Len(t)
      OBVIOUS
    <3> QED
      BY <3>1, Zenon DEF SendInv, Typed
  <2>2. ASSUME NEW k \in 1..Len(packets), packets[k].result = "false",
               NEW n \in 1..Len(stream),
               stream[n] = << k, SizeOf(Layout[packets[k].kind]) >>
        PROVE  FALSE
    <3>1. PICK z : z = SizeOf(Layout[packets[k].kind])
      BY Zenon
    <3>2. stream[n][1] = k /\ stream[n][2] = z
      BY <2>2, <3>1
    <3>3. z < z
      BY <2>2, <3>1, <3>2, Zenon DEF SendInv, NotAhead
    <3>4. z \in Nat
      <4>1. \A R : \A x \in Seq(R) : \A i \in 1..Len(x) : x[i] \in R
        OBVIOUS
      <4>2. stream[n] \in Nat \X Nat
        BY <4>1, Zenon DEF SendInv, Typed
      <4> QED
        BY <3>2, <4>2
    <3> QED
      BY <3>3, <3>4
  <2> QED
    BY <2>1, <2>2, Zenon DEF FailureIsReported, SendInv, LastSent
<1> QED
  BY <1>1, OutboundInvariant, PTL

-----------------------------------------------------------------------------
(* The frames of the stream *)

\* Every call so far was taken whole and no packet was given up.
Clean == ~cut /\ \A k \in 1..Len(packets) : packets[k].result # "false"

\* The n-th byte of the stream, and behind its last one the next to be sent.
Byte(n) == Append(stream, NextByte)[n]

\* Each byte is the one that follows the byte before it as packets are sent.
Chain ==
  /\ Byte(1) = << 1, 1 >>
  /\ \A n \in 1..Len(stream) : Byte(n + 1) = FollowingSent(Byte(n))

\* A sequence and the element behind it.
LEMMA Behind ==
  ASSUME NEW R, NEW t \in Seq(R), NEW x
  PROVE  /\ Len(t) \in Nat /\ Append(t, x)[Len(t) + 1] = x
         /\ \A n \in 1..Len(t) : Append(t, x)[n] = t[n]
OBVIOUS

\* The frames continue while the packet's calls are taken whole, because they
\* add up to the size of the packet.
LEMMA ProceedFrames ==
  ASSUME OutboundConstants, SendInv, Clean => Chain, NEW count, Sends(count), Clean'
  PROVE  Chain'
<1>1. Typed /\ OnePending /\ NotAhead /\ Sending /\ Proceed
  BY Zenon DEF SendInv, Sends
<1>2. PICK l \in Nat \ {0} : l = Len(packets)
  BY <1>1, CurrentCall, Zenon
<1>3. PICK d \in Nat, s \in Nat \ {0} : d = Done /\ s = Current.size
  BY <1>1, CurrentCall, Zenon
<1>4. ~cut /\ count = s /\ s \in Nat
  <2>1. ~cut' => ~cut /\ count = Current.size
    BY Zenon DEF Sends
  <2> QED
    BY <1>3, <2>1, Zenon DEF Clean
<1>5. /\ Len(packets') = l
      /\ \A k \in 1..l :
           /\ packets'[k].kind = packets[k].kind
           /\ k # l => packets'[k].result = packets[k].result
      /\ call < Len(Calls) => Sending' /\ Done' = d + s
      /\ ~(call < Len(Calls)) => call = Len(Calls) /\ ~Sending'
  BY <1>1, <1>2, <1>3, ProceedEffect, Zenon
<1>6. PICK m \in Nat : m = Len(stream)
  BY <1>1, <1>4, BytesBehind, Zenon DEF Sends
<1>7. /\ stream' \in Seq(Nat \X Nat) /\ Len(stream') = m + s
      /\ \A n \in 1..m : stream'[n] = stream[n]
      /\ \A j \in 1..s : stream'[m + j] = << l, d + j >>
  <2>1. stream' = stream \o Bytes(s)
    BY <1>4, Zenon DEF Sends
  <2>2. /\ stream' \in Seq(Nat \X Nat) /\ Len(stream') = Len(stream) + s
        /\ \A n \in 1..Len(stream) : stream'[n] = stream[n]
        /\ \A j \in 1..s : stream'[Len(stream) + j] = << Len(packets), Done + j >>
    BY <1>1, <1>4, <2>1, BytesBehind, Zenon
  <2> QED
    BY <1>2, <1>3, <1>6, <2>2, Zenon
<1>8. Chain
  <2>1. packets[l].result # "false"
    <3>1. "pending" # "false"
      OBVIOUS
    <3> QED
      BY <1>1, <1>2, <3>1, Zenon DEF OnePending
  <2>2. \A k \in 1..l : packets[k].result # "false"
    BY <1>5, <2>1, Zenon DEF Clean
  <2> QED
    BY <1>2, <1>4, <2>2, Zenon DEF Clean
<1>9. PICK z \in Nat : z = SentSize(packets[l].kind) /\ z = SizeOf(Calls)
  <2>1. packets[l].kind \in Kinds
    BY <1>1, <1>2, CurrentCall, Zenon
  <2>2. SizeOf(Calls) = SentSize(packets[l].kind)
    BY <1>2, <2>1, LayoutSizes, Zenon DEF Calls
  <2> QED
    BY <1>1, <2>2, CurrentCall, Zenon
<1>10. /\ call < Len(Calls) => d + s < z
       /\ call = Len(Calls) => d + s = z
  BY <1>1, <1>3, <1>9, CurrentCall, Zenon
<1>11. /\ Byte(m + 1) = << l, d + 1 >> /\ \A n \in 1..m : Byte(n) = stream[n]
  <2>1. NextByte = << l, d + 1 >>
    BY <1>1, <1>2, <1>3, Zenon DEF NextByte
  <2> QED
    <3>1. PICK t \in Seq(Nat \X Nat) : t = stream /\ Len(t) = m
      BY <1>1, <1>6, Zenon DEF Typed
    <3>2. Append(t, NextByte)[Len(t) + 1] = NextByte
          /\ \A n \in 1..Len(t) : Append(t, NextByte)[n] = t[n]
      BY Behind, Zenon
    <3> QED
      BY <2>1, <3>1, <3>2, Zenon DEF Byte
<1>12. Byte(m + s + 1)' = NextByte' /\ \A n \in 1..(m + s) : Byte(n)' = stream'[n]
  <2>1. PICK t \in Seq(Nat \X Nat) : t = stream' /\ Len(t) = m + s
    BY <1>7, Zenon
  <2>2. Append(t, NextByte')[Len(t) + 1] = NextByte'
        /\ \A n \in 1..Len(t) : Append(t, NextByte')[n] = t[n]
    BY Behind, ZenonT(40)
  <2> QED
    BY <2>1, <2>2, Zenon DEF Byte
<1>13. \A n \in 1..(m + 1) : Byte(n)' = Byte(n)
  <2>1. \A n \in 1..(m + 1) : n \in 1..m \/ n = m + 1
    OBVIOUS
  <2>2. (\A n \in 1..m : n \in 1..(m + s)) /\ m + 1 \in 1..(m + s) /\ 1 \in 1..s
    OBVIOUS
  <2> QED
    BY <1>7, <1>11, <1>12, <2>1, <2>2, Zenon
<1>14. Byte(1)' = << 1, 1 >>
  <2>1. 1 \in 1..(m + 1)
    OBVIOUS
  <2> QED
    BY <1>8, <1>13, <2>1, Zenon DEF Chain
<1>15. ASSUME NEW n \in 1..m
       PROVE  Byte(n + 1)' = FollowingSent(Byte(n))'
  <2>1. n \in 1..(m + 1) /\ n + 1 \in 1..(m + 1)
    OBVIOUS
  <2>2. Byte(n + 1)' = FollowingSent(Byte(n)) /\ Byte(n)' = Byte(n)
    BY <1>6, <1>8, <1>13, <2>1, Zenon DEF Chain
  <2>3. Byte(n)[1] \in 1..l
    BY <1>1, <1>2, <1>6, <1>11, Zenon DEF NotAhead
  <2>4. packets'[Byte(n)[1]].kind = packets[Byte(n)[1]].kind
    BY <1>5, <2>3, Zenon
  <2> QED
    BY <2>2, <2>4, Zenon DEF FollowingSent
<1>16. ASSUME NEW j \in 1..s
       PROVE  Byte(m + j + 1)' = FollowingSent(Byte(m + j))'
  <2>1. m + j \in 1..(m + s) /\ l \in 1..l
    OBVIOUS
  <2>2. Byte(m + j)' = << l, d + j >>
    BY <1>7, <1>12, <2>1, Zenon
  <2>3. FollowingSent(Byte(m + j))' = IF d + j < z THEN << l, d + j + 1 >> ELSE << l + 1, 1 >>
    <3>1. << l, d + j >>[1] = l /\ << l, d + j >>[2] = d + j
      OBVIOUS
    <3>2. SentSize(packets'[l].kind) = z
      BY <1>5, <1>9, <2>1, Zenon
    <3> QED
      BY <2>2, <3>1, <3>2, Zenon DEF FollowingSent
  <2>4. CASE j < s
    <3>1. /\ j + 1 \in 1..s /\ m + (j + 1) \in 1..(m + s) /\ d + j < d + s
          /\ m + j + 1 = m + (j + 1) /\ d + (j + 1) = d + j + 1
      BY <2>4
    <3>2. Byte(m + j + 1)' = << l, d + j + 1 >>
      BY <1>7, <1>12, <3>1, Zenon
    <3>3. d + j < z
      <4>1. call < Len(Calls) \/ call = Len(Calls)
        BY <1>5, Zenon
      <4> QED
        BY <1>10, <3>1, <4>1
    <3> QED
      BY <2>3, <3>2, <3>3, Zenon
  <2>5. CASE j = s
    <3>1. Byte(m + j + 1)' = NextByte'
      BY <1>12, <2>5, Zenon
    <3>2. CASE call < Len(Calls)
      <4>1. d + j < z /\ NextByte' = << l, d + j + 1 >>
        BY <1>5, <1>10, <2>5, <3>2, Zenon DEF NextByte
      <4> QED
        BY <2>3, <3>1, <4>1, Zenon
    <3>3. CASE ~(call < Len(Calls))
      <4>1. d + j = z /\ NextByte' = << l + 1, 1 >>
        BY <1>5, <1>10, <2>5, <3>3, Zenon DEF NextByte
      <4>2. ~(d + j < z)
        BY <4>1
      <4> QED
        BY <2>3, <3>1, <4>1, <4>2, Zenon
    <3> QED
      BY <3>2, <3>3, Zenon
  <2>6. j < s \/ j = s
    OBVIOUS
  <2> QED
    BY <2>4, <2>5, <2>6, Zenon
<1>17. \A n \in 1..(m + s) : Byte(n + 1)' = FollowingSent(Byte(n))'
  <2>1. ASSUME NEW n \in 1..(m + s), ~(n \in 1..m)
        PROVE  n - m \in 1..s /\ m + (n - m) = n
    BY <2>1
  <2> QED
    BY <1>15, <1>16, <2>1, Zenon
<1> QED
  BY <1>7, <1>14, <1>17, Zenon DEF Chain

\* A new packet begins where the last one ended.
LEMMA BeginFrames ==
  ASSUME OutboundConstants, SendInv, Clean => Chain, NEW kind \in Kinds, Begin(kind), Clean'
  PROVE  Chain'
<1>1. Typed /\ NotAhead
  BY Zenon DEF SendInv
<1>2. PICK l \in Nat : l = Len(packets)
  BY <1>1, PacketTypes, Zenon
<1>3. /\ Len(packets') = l + 1
      /\ \A k \in 1..l : packets'[k] = packets[k]
      /\ call' = 1 /\ Sending' /\ ~Sending /\ Calls' = Layout[kind]
      /\ stream' = stream /\ cut' = cut
  BY <1>1, <1>2, BeginEffect, Zenon
<1>4. \A k \in 1..l : k \in 1..(l + 1)
  OBVIOUS
<1>5. ~cut
  BY <1>3 DEF Clean
<1>6. Chain
  BY <1>2, <1>3, <1>4, <1>5, Zenon DEF Clean
<1>7. NextByte' = NextByte
  <2>1. Done' = 0
    <3>1. PICK s \in Seq(Call) : s = Layout[kind]
      BY LayoutSizes, Zenon
    <3>2. SubSeq(s, 1, 0) = << >> /\ 1 - 1 = 0
      OBVIOUS
    <3> QED
      BY <1>3, <3>1, <3>2, SizeEmpty, Zenon DEF Done
  <2>2. 0 + 1 = 1
    OBVIOUS
  <2>3. NextByte' = << l + 1, 1 >>
    BY <1>3, <2>1, <2>2, Zenon DEF NextByte
  <2> QED
    BY <1>2, <1>3, <2>3, Zenon DEF NextByte
<1>8. \A n : Byte(n)' = Byte(n)
  BY <1>3, <1>7, Zenon DEF Byte
<1>9. ASSUME NEW n \in 1..Len(stream)
      PROVE  Byte(n + 1)' = FollowingSent(Byte(n))'
  <2>1. Byte(n) = stream[n]
    <3>1. PICK t \in Seq(Nat \X Nat) : t = stream
      BY <1>1, Zenon DEF Typed
    <3>2. \A i \in 1..Len(t) : Append(t, NextByte)[i] = t[i]
      BY Behind, Zenon
    <3> QED
      BY <3>1, <3>2, Zenon DEF Byte
  <2>2. Byte(n)[1] \in 1..l
    BY <1>1, <1>2, <2>1, Zenon DEF NotAhead
  <2>3. packets'[Byte(n)[1]] = packets[Byte(n)[1]]
    BY <1>3, <2>2, Zenon
  <2>4. Byte(n + 1) = FollowingSent(Byte(n))
    BY <1>6, Zenon DEF Chain
  <2> QED
    BY <1>8, <2>3, <2>4, Zenon DEF FollowingSent
<1> QED
  BY <1>3, <1>6, <1>8, <1>9, Zenon DEF Chain

\* As long as every call is taken whole, the stream is the packets one after the
\* other, byte by byte, for every set of packets: those with positions
\* (send_position) six bytes longer than protocol.h says, the others exact.
THEOREM FramesFollow ==
  ASSUME OutboundConstants
  PROVE  Spec => []FramesAsSent
<1>1. Init => (Clean => Chain)
  <2> SUFFICES ASSUME Init PROVE Chain
    OBVIOUS
  <2>1. packets = << >> /\ stream = << >> /\ call = 0
    BY Zenon DEF Init
  <2>2. ~Sending /\ 1..Len(stream) = {} /\ Len(packets) + 1 = 1
    BY <2>1 DEF Sending
  <2>3. NextByte = << 1, 1 >>
    BY <2>2, Zenon DEF NextByte
  <2>4. \A x : Append(<< >>, x)[1] = x
    OBVIOUS
  <2> QED
    BY <2>1, <2>2, <2>3, <2>4, Zenon DEF Chain, Byte
<1>2. SendInv /\ (Clean => Chain) /\ [Next]_vars => (Clean => Chain)'
  <2> SUFFICES ASSUME SendInv, Clean => Chain, [Next]_vars, Clean'
               PROVE  Chain'
    OBVIOUS
  <2>1. Typed /\ OnePending
    BY Zenon DEF SendInv
  <2>2. ASSUME NEW kind \in Kinds, Begin(kind)
        PROVE  Chain'
    BY <2>2, BeginFrames, Zenon
  <2>3. CASE SendWhole \/ SendPart \/ SendBlocked \/ SendClosed
    <3>1. ASSUME NEW count, Sends(count)
          PROVE  Chain'
      BY <3>1, ProceedFrames, Zenon
    <3>2. CASE Sending /\ GiveUp
      <4>1. PICK l \in Nat \ {0} : l = Len(packets)
        BY <2>1, <3>2, CurrentCall, Zenon
      <4>2. "false" \in Results /\ l > 0 /\ l \in 1..l
        BY DEF Results
      <4>3. Len(packets') = l /\ packets'[l].result = "false"
        BY <2>1, <3>2, <4>1, <4>2, Reported, Zenon DEF GiveUp
      <4> QED
        BY <4>2, <4>3, Zenon DEF Clean
    <3> QED
      BY <2>1, <2>3, <3>1, <3>2, CallCases, Zenon
  <2>4. CASE UNCHANGED << packets, call, stream, cut >>
    <3>1. packets' = packets /\ call' = call /\ stream' = stream /\ (cut' <=> cut)
      BY <2>4
    <3>2. Clean
      BY <3>1, Zenon DEF Clean
    <3>3. (Sending' <=> Sending) /\ Done' = Done
      BY <3>1, Zenon DEF Sending, Calls, Done
    <3>4. NextByte' = NextByte
      BY <3>1, <3>3, Zenon DEF NextByte
    <3> QED
      BY <3>1, <3>2, <3>4, Zenon DEF Chain, Byte, FollowingSent
  <2>5. CASE ClientReads \/ ClientLeaves \/ UNCHANGED vars
    BY <2>4, <2>5, Zenon DEF ClientReads, ClientLeaves, vars
  <2> QED
    BY <2>2, <2>3, <2>5, Zenon DEF Next
<1>3. SendInv /\ (Clean => Chain) => FramesAsSent
  <2>1. ASSUME SendInv
        PROVE  DOMAIN packets = 1..Len(packets) /\ DOMAIN stream = 1..Len(stream)
    <3>1. \A R : \A t \in Seq(R) : DOMAIN t = 1..Len(t)
      OBVIOUS
    <3> QED
      BY <2>1, <3>1, Zenon DEF SendInv, Typed
  <2> QED
    BY <2>1, Zenon DEF FramesAsSent, Unbroken, Clean, Chain, Byte
<1> QED
  BY <1>1, <1>2, <1>3, OutboundInvariant, PTL DEF Spec

\* As long as no packet with a position is sent, by whichever function, the
\* client gets exactly the frames that protocol.h documents.
THEOREM FramesAreExact ==
  ASSUME OutboundConstants
  PROVE  Spec => []((\A k \in DOMAIN packets : packets[k].kind \notin Positional) => FramesExact)
<1> DEFINE NoPosition == \A k \in DOMAIN packets : packets[k].kind \notin Positional
<1>1. SendInv /\ FramesAsSent => (NoPosition => FramesExact)
  <2> SUFFICES ASSUME SendInv, FramesAsSent, NoPosition, Unbroken PROVE FramesExact
    BY Zenon DEF FramesExact
  <2> DEFINE bytes == Append(stream, NextByte)
  <2>1. bytes[1] = << 1, 1 >> /\ \A n \in DOMAIN stream : bytes[n + 1] = FollowingSent(bytes[n])
    BY Zenon DEF FramesAsSent
  <2>2. PICK t \in Seq(Nat \X Nat) : t = stream
    BY Zenon DEF SendInv, Typed
  <2>3. DOMAIN t = 1..Len(t) /\ \A n \in 1..Len(t) : Append(t, NextByte)[n] = t[n]
    BY Behind
  <2>4. DOMAIN packets = 1..Len(packets)
    BY PacketTypes, Zenon DEF SendInv
  <2>5. ASSUME NEW n \in DOMAIN stream PROVE FollowingSent(bytes[n]) = Following(bytes[n])
    <3>1. bytes[n] = stream[n] /\ n \in 1..Len(stream)
      BY <2>2, <2>3, Zenon
    <3>2. bytes[n][1] \in DOMAIN packets
      BY <2>4, <3>1, Zenon DEF SendInv, NotAhead
    <3>3. SentSize(packets[bytes[n][1]].kind) = Documented[packets[bytes[n][1]].kind]
      BY <3>2, Zenon DEF SentSize
    <3> QED BY <3>3, Zenon DEF FollowingSent, Following
  <2> QED BY <2>1, <2>5, Zenon DEF FramesExact
<1> HIDE DEF NoPosition
<1>2. Spec => [](NoPosition => FramesExact)
  BY <1>1, OutboundInvariant, FramesFollow, PTL
<1> QED BY <1>2 DEF NoPosition
=============================================================================
