------------------------- MODULE PacketReaderProofs -------------------------
(* Proofs about PacketReader, for any number of packets in any pieces.       *)
EXTENDS PacketReader, SequenceTheorems, TLAPS

Opcodes == Kinds \ {"invalid"}

\* The size of packet n, and of the packet being read or read next its number.
Size(n) == ClientSize(sent[n], Wide(n))
Current == Len(handled) + 1

\* Where on the wire the packets begin: byte j of packet n is at start[n] + j + 1.
\* What is read already has places up to 0.
Layout(start) ==
  /\ start \in [Current..(Len(sent) + 1) -> Int]
  /\ start[Len(sent) + 1] = Len(wire)
  /\ start[Current] = IF pending_packet_opcode = "none" THEN 0
                      ELSE -(1 + Len(pending_packet_buffer))
  /\ \A n \in Current..Len(sent) : start[n + 1] = start[n] + Size(n) + 1
  /\ \A n \in Current..(Len(sent) + 1) : start[n] <= Len(wire)
  /\ \A n \in Current..Len(sent) : \A j \in 0..Size(n) :
       start[n] + j + 1 >= 1 => wire[start[n] + j + 1] = << n, j >>

TypesOK ==
  /\ sent \in Seq(Kinds)
  /\ wire \in Seq(Nat \X Nat)
  /\ pending_packet_opcode \in Opcodes \cup {"none"}
  /\ pending_packet_buffer \in Seq(Nat \X Nat)
  /\ custom_blocks \in BOOLEAN
  /\ task \in {"listen", "handler", "ended"}
  /\ handled \in Seq({handled[n] : n \in DOMAIN handled})

\* The packet being read: its bytes so far, its size by the reader's own reckoning.
PendingOK ==
  /\ Len(handled) <= Len(sent)
  /\ custom_blocks = Wide(Current)
  /\ pending_packet_opcode # "none" =>
       /\ Current <= Len(sent)
       /\ pending_packet_opcode = sent[Current]
       /\ Len(pending_packet_buffer) <= Size(Current)
       /\ \A k \in 1..Len(pending_packet_buffer) : pending_packet_buffer[k] = << Current, k >>
       /\ task = "listen" => Len(pending_packet_buffer) < Size(Current)
       /\ task = "handler" => Len(pending_packet_buffer) = Size(Current)
  /\ task = "handler" => pending_packet_opcode # "none"

ReaderInv ==
  /\ TypesOK
  /\ PendingOK
  /\ \E start : Layout(start)
  /\ FieldsFound

-----------------------------------------------------------------------------
\* The client's sizes are sizes.
LEMMA SizesNat ==
  ASSUME ReaderConstants, NEW kind \in Kinds, NEW wide \in BOOLEAN
  PROVE  ClientSize(kind, wide) \in Nat
BY DEF ReaderConstants, ClientSize

\* No packet the server knows is without data.
LEMMA SizesPositive ==
  ASSUME ReaderConstants, NEW kind \in Opcodes, NEW wide \in BOOLEAN
  PROVE  ClientSize(kind, wide) > 0
BY DEF ReaderConstants, ClientSize, Opcodes

\* tc_packet_data_size is the client's size, when both know of CustomBlocks.
LEMMA SizesAgree ==
  ASSUME ReaderConstants, NEW opcode \in Opcodes, custom_blocks \in BOOLEAN
  PROVE  tc_packet_data_size(opcode) = ClientSize(opcode, custom_blocks)
BY DEF ReaderConstants, ClientSize, Opcodes, tc_packet_data_size

\* A later packet does not change the form of earlier ones.
LEMMA AppendKeepsWide ==
  ASSUME NEW kind \in Kinds, sent \in Seq(Kinds), sent' = Append(sent, kind),
         NEW n \in 1..(Len(sent) + 1)
  PROVE  Wide(n)' = Wide(n)
BY DEF Wide

\* Nor their sizes.
LEMMA AppendKeepsSize ==
  ASSUME NEW kind \in Kinds, sent \in Seq(Kinds), sent' = Append(sent, kind),
         NEW n \in 1..Len(sent)
  PROVE  Size(n)' = Size(n)
<1>1. Wide(n)' = Wide(n)
  BY AppendKeepsWide
<1>2. sent'[n] = sent[n]
  OBVIOUS
<1> QED BY <1>1, <1>2 DEF Size, ClientSize

\* The numbers the invariant speaks of.
LEMMA Numbers ==
  ASSUME ReaderConstants, TypesOK, PendingOK
  PROVE  /\ Current \in Nat \ {0} /\ Len(sent) \in Nat /\ Current <= Len(sent) + 1
         /\ \A n \in Current..Len(sent) : Size(n) \in Nat
<1>1. Current \in Nat \ {0} /\ Len(sent) \in Nat /\ Current <= Len(sent) + 1
  BY DEF TypesOK, PendingOK, Current
<1>2. ASSUME NEW n \in Current..Len(sent) PROVE Size(n) \in Nat
  <2>1. sent[n] \in Kinds
    BY <1>1 DEF TypesOK
  <2>2. Wide(n) \in BOOLEAN
    BY DEF Wide
  <2> QED BY <2>1, <2>2, SizesNat DEF Size
<1> QED BY <1>1, <1>2

\* The client sends a packet: its bytes come behind the others.
LEMMA SendsKeepsLayout ==
  ASSUME ReaderConstants, ReaderInv, NEW kind \in Kinds, ClientSends(kind)
  PROVE  \E start : Layout(start)'
<1>0. PICK N : N = Len(sent) + 1
  OBVIOUS
<1>a. PICK size : size = ClientSize(kind, Wide(N))
  OBVIOUS
<1>b. PICK bytes : bytes = [k \in 1..(size + 1) |-> << N, k - 1 >>]
  OBVIOUS
<1>1. PICK start : Layout(start)
  BY DEF ReaderInv
<1>2. /\ sent' = Append(sent, kind) /\ wire' = wire \o bytes
      /\ pending_packet_opcode' = pending_packet_opcode
      /\ pending_packet_buffer' = pending_packet_buffer /\ handled' = handled
  BY <1>0, <1>a, <1>b DEF ClientSends, pending
<1>3. /\ Current \in Nat \ {0} /\ Len(sent) \in Nat /\ Current <= Len(sent) + 1
      /\ \A n \in Current..Len(sent) : Size(n) \in Nat
  BY Numbers DEF ReaderInv
<1>4. size \in Nat
  <2>1. Wide(N) \in BOOLEAN
    BY DEF Wide
  <2> QED BY <1>a, <2>1, SizesNat
<1>5. bytes \in Seq(Nat \X Nat) /\ Len(bytes) = size + 1
  BY <1>0, <1>b, <1>3, <1>4
<1>6. sent \in Seq(Kinds) /\ wire \in Seq(Nat \X Nat) /\ Len(wire) \in Nat
  BY DEF ReaderInv, TypesOK
<1>7. Len(sent') = N /\ sent'[N] = kind
  BY <1>0, <1>2, <1>6
<1>8. Size(N)' = size
  <2>1. Wide(N)' = Wide(N)
    BY <1>0, <1>2, <1>3, <1>6, AppendKeepsWide
  <2> QED BY <1>a, <1>7, <2>1 DEF Size, ClientSize
<1>9. \A n \in Current..Len(sent) : Size(n)' = Size(n)
  BY <1>2, <1>3, <1>6, AppendKeepsSize
<1>10. Current' = Current
  BY <1>2 DEF Current
<1>11. \A k \in 1..(size + 1) : bytes[k] = << N, k - 1 >>
  BY <1>b
<1>12. Len(wire') = Len(wire) + size + 1
  <2>1. Len(wire \o bytes) = Len(wire) + Len(bytes)
    BY <1>5, <1>6, ConcatProperties
  <2>2. Len(wire') = Len(wire) + Len(bytes)
    BY <1>2, <2>1
  <2> QED BY <1>4, <1>5, <1>6, <2>2
<1>13. \A k \in 1..Len(wire) : wire'[k] = wire[k]
  BY <1>2, <1>5, <1>6
<1>14. \A k \in 1..(size + 1) : wire'[Len(wire) + k] = << N, k - 1 >>
  BY SMTT(30), <1>2, <1>4, <1>5, <1>6, <1>11
<1>c. PICK next : next = [n \in Current..(N + 1) |->
                             IF n = N + 1 THEN start[N] + size + 1 ELSE start[n]]
  OBVIOUS
<1>15. start \in [Current..N -> Int] /\ start[N] = Len(wire)
  BY <1>0, <1>1 DEF Layout
<1>16. next \in [Current..(N + 1) -> Int] /\ next[N + 1] = Len(wire) + size + 1
       /\ \A n \in Current..N : next[n] = start[n]
  BY <1>0, <1>c, <1>3, <1>4, <1>6, <1>15
<1>17. \A n \in Current..N : next[n + 1] = next[n] + Size(n)' + 1
  BY <1>0, <1>1, <1>3, <1>8, <1>9, <1>15, <1>16 DEF Layout
<1>18. \A n \in Current..(N + 1) : next[n] <= Len(wire')
  <2> SUFFICES ASSUME NEW n \in Current..(N + 1) PROVE next[n] <= Len(wire')
    OBVIOUS
  <2>1. CASE n = N + 1
    BY <1>4, <1>6, <1>12, <1>16, <2>1
  <2>2. CASE n # N + 1
    <3>1. n \in Current..N
      BY <1>0, <1>3, <2>2
    <3>2. next[n] = start[n] /\ start[n] \in Int /\ start[n] <= Len(wire)
      BY <1>0, <1>1, <1>15, <1>16, <3>1 DEF Layout
    <3> QED BY <1>4, <1>6, <1>12, <3>2
  <2> QED BY <2>1, <2>2
<1>19. ASSUME NEW n \in Current..N, NEW j \in 0..Size(n)', next[n] + j + 1 >= 1
       PROVE  wire'[next[n] + j + 1] = << n, j >>
  <2>1. CASE n = N
    <3>0. j \in 0..size /\ next[n] = Len(wire)
      BY <1>0, <1>3, <1>8, <1>15, <1>16, <2>1
    <3>1. j + 1 \in 1..(size + 1) /\ next[n] + j + 1 = Len(wire) + (j + 1)
      BY <1>4, <1>6, <3>0
    <3>2. (j + 1) - 1 = j
      BY <1>4, <3>0
    <3> QED BY <1>14, <2>1, <3>1, <3>2
  <2>2. CASE n # N
    <3>1. n \in Current..Len(sent) /\ n + 1 \in Current..N
      BY <1>0, <1>3, <1>19, <2>2
    <3>2. j \in 0..Size(n) /\ Size(n) \in Nat
      BY <1>3, <1>9, <3>1
    <3>3. next[n] = start[n] /\ start[n] \in Int
      BY <1>3, <1>15, <1>16
    <3>4. start[n] + j + 1 <= Len(wire)
      <4>1. start[n + 1] = start[n] + Size(n) + 1 /\ start[n + 1] <= Len(wire)
        BY <1>1, <3>1 DEF Layout
      <4> QED BY <1>6, <3>2, <3>3, <4>1
    <3>5. start[n] + j + 1 \in 1..Len(wire)
      BY <1>6, <1>19, <3>2, <3>3, <3>4
    <3>6. wire[start[n] + j + 1] = << n, j >>
      BY <1>1, <1>19, <3>1, <3>2, <3>3 DEF Layout
    <3> QED BY <1>13, <3>3, <3>5, <3>6
  <2> QED BY <2>1, <2>2
<1>20. Layout(next)'
  <2>1. next[Current] = start[Current]
    BY <1>0, <1>3, <1>16
  <2>2. next[Current] = IF pending_packet_opcode' = "none" THEN 0
                        ELSE -(1 + Len(pending_packet_buffer'))
    BY <1>1, <1>2, <2>1 DEF Layout
  <2>3. next[Len(sent') + 1] = Len(wire')
    BY <1>7, <1>12, <1>16
  <2> QED BY <1>7, <1>10, <1>16, <1>17, <1>18, <1>19, <2>2, <2>3 DEF Layout
<1> QED BY <1>20

\* Every byte of a packet has a place up to the end of the wire.
LEMMA PlaceOnWire ==
  ASSUME ReaderConstants, TypesOK, PendingOK, NEW start, Layout(start),
         NEW n \in Current..Len(sent), NEW j \in 0..Size(n)
  PROVE  start[n] \in Int /\ j \in Nat /\ start[n] + j + 1 <= Len(wire)
<1>1. Current \in Nat \ {0} /\ Len(sent) \in Nat /\ Size(n) \in Nat
  BY Numbers
<1>2. n \in Current..(Len(sent) + 1) /\ n + 1 \in Current..(Len(sent) + 1)
  BY <1>1
<1>3. start[n] \in Int /\ start[n + 1] \in Int
  BY <1>2 DEF Layout
<1>4. start[n + 1] = start[n] + Size(n) + 1 /\ start[n + 1] <= Len(wire)
  BY <1>2 DEF Layout
<1>5. Len(wire) \in Nat
  BY DEF TypesOK
<1> QED BY <1>1, <1>3, <1>4, <1>5

\* Bytes taken off the front of the wire: every packet moves up.
LEMMA ReadKeepsLayout ==
  ASSUME ReaderConstants, TypesOK, PendingOK, NEW start, Layout(start),
         UNCHANGED << sent, handled >>, NEW count \in 0..Len(wire),
         Len(wire') = Len(wire) - count,
         \A k \in 1..(Len(wire) - count) : wire'[k] = wire[k + count],
         start[Current] - count = IF pending_packet_opcode' = "none" THEN 0
                                  ELSE -(1 + Len(pending_packet_buffer'))
  PROVE  \E s : Layout(s)'
<1>1. PICK s : s = [n \in Current..(Len(sent) + 1) |-> start[n] - count]
  OBVIOUS
<1>2. /\ Current \in Nat \ {0} /\ Len(sent) \in Nat /\ Current <= Len(sent) + 1
      /\ \A n \in Current..Len(sent) : Size(n) \in Nat
  BY Numbers
<1>3. Len(wire) \in Nat /\ count \in Nat
  BY DEF TypesOK
<1>4. Current' = Current /\ \A n \in Current..Len(sent) : Size(n)' = Size(n)
  BY DEF Current, Size, Wide, ClientSize
<1>5. start \in [Current..(Len(sent) + 1) -> Int]
  BY DEF Layout
<1>6. /\ s \in [Current..(Len(sent) + 1) -> Int]
      /\ \A n \in Current..(Len(sent) + 1) : s[n] = start[n] - count
  BY <1>1, <1>3, <1>5
<1>7. s[Len(sent) + 1] = Len(wire')
  <2>1. Len(sent) + 1 \in Current..(Len(sent) + 1)
    BY <1>2
  <2>2. start[Len(sent) + 1] = Len(wire)
    BY DEF Layout
  <2> QED BY <1>3, <1>6, <2>1, <2>2
<1>8. s[Current] = IF pending_packet_opcode' = "none" THEN 0
                   ELSE -(1 + Len(pending_packet_buffer'))
  BY <1>2, <1>6
<1>9. ASSUME NEW n \in Current..Len(sent) PROVE s[n + 1] = s[n] + Size(n) + 1
  <2>1. n \in Current..(Len(sent) + 1) /\ n + 1 \in Current..(Len(sent) + 1)
    BY <1>2
  <2>2. start[n + 1] = start[n] + Size(n) + 1
    BY DEF Layout
  <2>3. start[n] \in Int /\ Size(n) \in Nat
    BY <1>2, <1>5, <2>1
  <2>4. s[n] = start[n] - count /\ s[n + 1] = start[n + 1] - count
    BY <1>6, <2>1
  <2> QED BY <1>3, <2>2, <2>3, <2>4
<1>10. ASSUME NEW n \in Current..(Len(sent) + 1) PROVE s[n] <= Len(wire')
  <2>1. start[n] \in Int /\ start[n] <= Len(wire)
    BY <1>5 DEF Layout
  <2> QED BY <1>3, <1>6, <2>1
<1>11. ASSUME NEW n \in Current..Len(sent), NEW j \in 0..Size(n), s[n] + j + 1 >= 1
       PROVE  wire'[s[n] + j + 1] = << n, j >>
  <2>1. start[n] \in Int /\ j \in Nat /\ start[n] + j + 1 <= Len(wire)
    BY PlaceOnWire
  <2>2. s[n] = start[n] - count
    BY <1>2, <1>6
  <2>3. s[n] + j + 1 \in 1..(Len(wire) - count)
    BY SMTT(30), <1>3, <1>11, <2>1, <2>2
  <2>4. s[n] + j + 1 + count = start[n] + j + 1 /\ start[n] + j + 1 >= 1
    BY SMTT(30), <1>3, <1>11, <2>1, <2>2
  <2>5. wire[start[n] + j + 1] = << n, j >>
    BY <2>4 DEF Layout
  <2> QED BY <2>3, <2>4, <2>5
<1>12. Layout(s)'
  BY <1>4, <1>6, <1>7, <1>8, <1>9, <1>10, <1>11 DEF Layout
<1> QED BY <1>12

\* An opcode is the first byte of the packet that is read next.
LEMMA OpcodeKeepsInv ==
  ASSUME ReaderConstants, ReaderInv, ReadOpcode, ~Kick
  PROVE  ReaderInv'
<1>1. PICK start : Layout(start)
  BY DEF ReaderInv
<1>2. /\ task = "listen" /\ pending_packet_opcode = "none" /\ wire # << >>
      /\ sent[Head(wire)[1]] # "invalid" /\ pending_packet_opcode' = sent[Head(wire)[1]]
      /\ pending_packet_buffer' = << >> /\ wire' = Tail(wire)
      /\ UNCHANGED << sent, custom_blocks, task, handled >>
  BY DEF ReadOpcode
<1>3. /\ Current \in Nat \ {0} /\ Len(sent) \in Nat /\ Current <= Len(sent) + 1
      /\ \A n \in Current..Len(sent) : Size(n) \in Nat
  BY Numbers DEF ReaderInv
<1>4. wire \in Seq(Nat \X Nat) /\ sent \in Seq(Kinds) /\ Len(wire) \in Nat \ {0}
  BY <1>2 DEF ReaderInv, TypesOK
<1>5. Current <= Len(sent)
  BY <1>1, <1>2, <1>3, <1>4 DEF Layout
<1>6. Head(wire) = << Current, 0 >>
  <2>1. Current \in Current..Len(sent)
    BY <1>3, <1>5
  <2>2. 0 \in 0..Size(Current)
    BY <1>3, <2>1
  <2>3. start[Current] = 0
    BY <1>1, <1>2 DEF Layout
  <2>4. \A j \in 0..Size(Current) :
          start[Current] + j + 1 >= 1 => wire[start[Current] + j + 1] = << Current, j >>
    BY <1>1, <2>1 DEF Layout
  <2>5. wire[0 + 0 + 1] = << Current, 0 >>
    BY <2>2, <2>3, <2>4
  <2> QED BY <1>4, <2>5
<1>7. sent[Current] \in Opcodes /\ pending_packet_opcode' = sent[Current]
  BY <1>2, <1>3, <1>4, <1>5, <1>6 DEF Opcodes
<1>8. /\ Tail(wire) \in Seq(Nat \X Nat) /\ Len(wire') = Len(wire) - 1
      /\ \A k \in 1..(Len(wire) - 1) : wire'[k] = wire[k + 1]
  BY <1>2, <1>4, HeadTailProperties
<1>9. TypesOK'
  BY <1>2, <1>7, <1>8 DEF ReaderInv, TypesOK
<1>10. Current' = Current /\ Size(Current)' = Size(Current) /\ Wide(Current)' = Wide(Current)
  BY <1>2 DEF Current, Size, Wide, ClientSize
<1>11. Size(Current) > 0
  <2>1. Wide(Current) \in BOOLEAN
    BY DEF Wide
  <2> QED BY <1>7, <2>1, SizesPositive DEF Size
<1>12. PendingOK'
  BY <1>2, <1>3, <1>5, <1>7, <1>10, <1>11 DEF ReaderInv, PendingOK, Opcodes
<1>13. FieldsFound'
  <2>1. \A n : Wide(n)' = Wide(n)
    BY <1>2 DEF Wide
  <2> QED BY <1>2, <2>1 DEF ReaderInv, FieldsFound
<1>14. \E s : Layout(s)'
  <2>1. pending_packet_opcode' # "none"
    BY <1>7 DEF Opcodes, ReaderConstants
  <2>2. start[Current] - 1 = -(1 + Len(pending_packet_buffer'))
    BY <1>1, <1>2 DEF Layout
  <2>3. 1 \in 0..Len(wire)
    BY <1>4
  <2> QED BY <1>1, <1>2, <1>8, <2>1, <2>2, <2>3, ReadKeepsLayout DEF ReaderInv
<1> QED BY <1>9, <1>12, <1>13, <1>14 DEF ReaderInv

\* Bytes that come are the next ones of the packet.
LEMMA DataKeepsInv ==
  ASSUME ReaderConstants, ReaderInv, NEW count \in 1..Len(wire), ReadData(count)
  PROVE  ReaderInv'
<1>1. PICK start : Layout(start)
  BY DEF ReaderInv
<1>2. /\ task = "listen" /\ pending_packet_opcode # "none"
      /\ count <= tc_packet_data_size(pending_packet_opcode) - Len(pending_packet_buffer)
      /\ pending_packet_buffer' = pending_packet_buffer \o SubSeq(wire, 1, count)
      /\ wire' = SubSeq(wire, count + 1, Len(wire))
      /\ task' = IF Len(pending_packet_buffer') = tc_packet_data_size(pending_packet_opcode)
                 THEN "handler" ELSE "listen"
      /\ UNCHANGED << sent, pending_packet_opcode, custom_blocks, handled >>
  BY DEF ReadData
<1>3. /\ Current \in Nat \ {0} /\ Len(sent) \in Nat /\ Current <= Len(sent) + 1
      /\ \A n \in Current..Len(sent) : Size(n) \in Nat
  BY Numbers DEF ReaderInv
<1>4. /\ wire \in Seq(Nat \X Nat) /\ Len(wire) \in Nat /\ count \in Nat \ {0}
      /\ pending_packet_buffer \in Seq(Nat \X Nat) /\ Len(pending_packet_buffer) \in Nat
  BY DEF ReaderInv, TypesOK
<1>5. /\ Current <= Len(sent) /\ pending_packet_opcode = sent[Current]
      /\ pending_packet_opcode \in Opcodes
      /\ \A k \in 1..Len(pending_packet_buffer) : pending_packet_buffer[k] = << Current, k >>
      /\ custom_blocks = Wide(Current) /\ custom_blocks \in BOOLEAN
  BY <1>2 DEF ReaderInv, PendingOK, TypesOK
<1>6. tc_packet_data_size(pending_packet_opcode) = Size(Current) /\ Size(Current) \in Nat
  <2>1. tc_packet_data_size(pending_packet_opcode)
          = ClientSize(pending_packet_opcode, custom_blocks)
    BY <1>5, SizesAgree
  <2> QED BY <1>3, <1>5, <2>1 DEF Size
<1> DEFINE piece == SubSeq(wire, 1, count)
<1>7. /\ piece \in Seq(Nat \X Nat) /\ Len(piece) = count
      /\ \A k \in 1..count : piece[k] = wire[k]
  BY SMTT(30), <1>4
<1>8. /\ wire' \in Seq(Nat \X Nat) /\ Len(wire') = Len(wire) - count
      /\ \A k \in 1..(Len(wire) - count) : wire'[k] = wire[k + count]
  <2> DEFINE m == count + 1
             rest == SubSeq(wire, m, Len(wire))
  <2>1. m \in Int /\ Len(wire) \in Int /\ \A i \in m..Len(wire) : wire[i] \in Nat \X Nat
    BY <1>4
  <2> HIDE DEF m
  <2>2. /\ rest \in Seq(Nat \X Nat)
        /\ Len(rest) = IF m <= Len(wire) THEN Len(wire) - m + 1 ELSE 0
        /\ \A i \in 1..(Len(wire) - m + 1) : rest[i] = wire[m + i - 1]
    BY <2>1, SubSeqProperties
  <2>3. wire' = rest
    BY <1>2 DEF m
  <2> HIDE DEF rest
  <2>4. Len(rest) = Len(wire) - count /\ Len(wire) - m + 1 = Len(wire) - count
    BY <1>4, <2>2 DEF m
  <2>5. ASSUME NEW k \in 1..(Len(wire) - count) PROVE rest[k] = wire[k + count]
    <3>1. m + k - 1 = k + count
      BY <1>4 DEF m
    <3>2. rest[k] = wire[m + k - 1]
      BY <2>2, <2>4
    <3> QED BY <3>1, <3>2
  <2> QED BY <2>2, <2>3, <2>4, <2>5
<1> DEFINE had == Len(pending_packet_buffer)
<1>9. \A k \in 1..count : wire[k] = << Current, had + k >>
  <2> SUFFICES ASSUME NEW k \in 1..count PROVE wire[k] = << Current, had + k >>
    OBVIOUS
  <2>1. Current \in Current..Len(sent)
    BY <1>3, <1>5
  <2>2. start[Current] = -(1 + had)
    BY <1>1, <1>2 DEF Layout
  <2>3. had + k \in 0..Size(Current)
    BY <1>2, <1>4, <1>6
  <2>4. \A j \in 0..Size(Current) :
          start[Current] + j + 1 >= 1 => wire[start[Current] + j + 1] = << Current, j >>
    BY <1>1, <2>1 DEF Layout
  <2>5. start[Current] + (had + k) + 1 = k /\ k >= 1
    BY <1>4, <2>2
  <2> QED BY <2>3, <2>4, <2>5
<1> HIDE DEF piece
<1>10. /\ pending_packet_buffer' \in Seq(Nat \X Nat) /\ Len(pending_packet_buffer') = had + count
       /\ \A k \in 1..(had + count) :
            pending_packet_buffer'[k] = IF k <= had THEN pending_packet_buffer[k]
                                        ELSE piece[k - had]
  BY <1>2, <1>4, <1>7, ConcatProperties DEF piece
<1>11. ASSUME NEW k \in 1..(had + count) PROVE pending_packet_buffer'[k] = << Current, k >>
  <2>1. CASE k <= had
    <3>1. k \in 1..had
      BY <1>4, <2>1
    <3> QED BY <1>5, <1>10, <2>1, <3>1
  <2>2. CASE ~(k <= had)
    <3>1. k - had \in 1..count /\ had + (k - had) = k
      BY <1>4, <2>2
    <3>2. piece[k - had] = << Current, k >>
      BY <1>7, <1>9, <3>1
    <3> QED BY <1>10, <2>2, <3>2
  <2> QED BY <2>1, <2>2
<1>12. TypesOK'
  BY <1>2, <1>8, <1>10 DEF ReaderInv, TypesOK
<1>13. Current' = Current /\ Size(Current)' = Size(Current) /\ Wide(Current)' = Wide(Current)
  BY <1>2 DEF Current, Size, Wide, ClientSize
<1>14. had + count <= Size(Current)
  BY <1>2, <1>4, <1>6
<1>15. PendingOK'
  <2>1. Len(handled) <= Len(sent) /\ custom_blocks' = Wide(Current)'
    BY <1>2, <1>5, <1>13 DEF ReaderInv, PendingOK
  <2>2. task' = IF had + count = Size(Current) THEN "handler" ELSE "listen"
    BY <1>2, <1>6, <1>10
  <2>3. \A k \in 1..Len(pending_packet_buffer') : pending_packet_buffer'[k] = << Current', k >>
    BY <1>10, <1>11, <1>13
  <2>4. task' = "listen" => Len(pending_packet_buffer') < Size(Current)'
    <3>1. task' = "listen" => had + count # Size(Current)
      BY <2>2
    <3>2. had + count # Size(Current) => had + count < Size(Current)
      <4>1. had + count \in Int /\ Size(Current) \in Int
        BY <1>4, <1>6
      <4> QED BY <1>14, <4>1
    <3> QED BY <1>10, <1>13, <3>1, <3>2
  <2>5. task' = "handler" => Len(pending_packet_buffer') = Size(Current)'
    BY <1>10, <1>13, <2>2
  <2>6. Len(pending_packet_buffer') <= Size(Current)'
    BY <1>10, <1>13, <1>14
  <2>7. pending_packet_opcode' = sent'[Current'] /\ Current' <= Len(sent')
    BY <1>2, <1>5, <1>13
  <2> QED BY <1>2, <2>1, <2>3, <2>4, <2>5, <2>6, <2>7 DEF PendingOK
<1>16. FieldsFound'
  <2>1. \A n : Wide(n)' = Wide(n)
    BY <1>2 DEF Wide
  <2> QED BY <1>2, <2>1 DEF ReaderInv, FieldsFound
<1>17. \E s : Layout(s)'
  <2>1. start[Current] - count = -(1 + Len(pending_packet_buffer'))
    <3>1. start[Current] = -(1 + had)
      BY <1>1, <1>2 DEF Layout
    <3> QED BY <1>4, <1>10, <3>1
  <2>2. count \in 0..Len(wire)
    BY <1>4
  <2> QED BY <1>1, <1>2, <1>8, <2>1, <2>2, ReadKeepsLayout DEF ReaderInv
<1> QED BY <1>12, <1>15, <1>16, <1>17 DEF ReaderInv

-----------------------------------------------------------------------------
\* The bytes at a place of a whole packet.
LEMMA BytesAre ==
  ASSUME pending_packet_buffer \in Seq(Nat \X Nat), NEW n \in Nat,
         \A k \in 1..Len(pending_packet_buffer) : pending_packet_buffer[k] = << n, k >>,
         NEW offset \in Nat, NEW size \in Nat, offset + size <= Len(pending_packet_buffer)
  PROVE  Bytes(offset, size) = Part(n, offset, size)
<1> DEFINE first == offset + 1
           last == offset + size
<1>1. /\ first \in 1..(Len(pending_packet_buffer) + 1)
      /\ last \in (first - 1)..Len(pending_packet_buffer)
      /\ last - first + 1 = size
  OBVIOUS
<1>2. Bytes(offset, size) = [i \in 1..(last - first + 1) |-> pending_packet_buffer[i + first - 1]]
  BY <1>1 DEF Bytes
<1>3. \A b \in 1..size : pending_packet_buffer[b + first - 1] = << n, offset + b >>
  OBVIOUS
<1> QED BY <1>1, <1>2, <1>3 DEF Part

\* Every handler finds its fields where the client puts them.
LEMMA FieldsAsSent ==
  ASSUME ReaderConstants, NEW opcode \in Opcodes, custom_blocks \in BOOLEAN, NEW n \in Nat,
         pending_packet_buffer \in Seq(Nat \X Nat),
         Len(pending_packet_buffer) = ClientSize(opcode, custom_blocks),
         \A k \in 1..Len(pending_packet_buffer) : pending_packet_buffer[k] = << n, k >>
  PROVE  AsSent(n, FieldsRead(opcode), ClientFields(opcode, custom_blocks))
<1> DEFINE block == IF custom_blocks THEN 2 ELSE 1
           size == Len(pending_packet_buffer)
<1>1. StringLength \in Nat /\ block \in {1, 2} /\ size \in Nat
  BY DEF ReaderConstants
<1>2. ASSUME NEW place \in Nat, NEW length \in Nat, place + length <= size
      PROVE  Bytes(place, length) = Part(n, place, length)
  BY <1>2, BytesAre
<1>3. CASE opcode = "identification"
  <2> DEFINE read == FieldsRead(opcode)
             fields == ClientFields(opcode, custom_blocks)
  <2>1. size = 2 * StringLength + 2
    BY <1>3 DEF ClientSize
  <2>2. /\ read = [version |-> Bytes(0, 1),
                   username |-> Bytes(1, StringLength),
                   key |-> Bytes(1 + StringLength, StringLength),
                   cpe |-> Bytes(1 + (2 * StringLength), 1)]
        /\ DOMAIN read \subseteq DOMAIN fields
        /\ fields.version = << 0, 1 >>
        /\ fields.username = << 1, StringLength >>
        /\ fields.key = << 1 + StringLength, StringLength >>
        /\ fields.cpe = << 1 + (2 * StringLength), 1 >>
    BY <1>3 DEF FieldsRead, ClientFields
  <2> HIDE DEF size, read, fields
  <2>3. Bytes(0, 1) = Part(n, 0, 1)
    BY <1>1, <1>2, <2>1
  <2>4. Bytes(1, StringLength) = Part(n, 1, StringLength)
    BY <1>1, <1>2, <2>1
  <2>5. Bytes(1 + StringLength, StringLength) = Part(n, 1 + StringLength, StringLength)
    BY <1>1, <1>2, <2>1
  <2>6. Bytes(1 + (2 * StringLength), 1) = Part(n, 1 + (2 * StringLength), 1)
    BY <1>1, <1>2, <2>1
  <2>7. AsSent(n, read, fields)
    BY <2>2, <2>3, <2>4, <2>5, <2>6 DEF AsSent
  <2> QED BY <2>7 DEF read, fields
<1>4. CASE opcode = "extinfo"
  <2> DEFINE read == FieldsRead(opcode)
             fields == ClientFields(opcode, custom_blocks)
  <2>1. size = StringLength + 2
    BY <1>4 DEF ClientSize
  <2>2. /\ read = [appname |-> Bytes(0, StringLength), count |-> Bytes(StringLength, 2)]
        /\ DOMAIN read \subseteq DOMAIN fields
        /\ fields.appname = << 0, StringLength >> /\ fields.count = << StringLength, 2 >>
    BY <1>4 DEF FieldsRead, ClientFields
  <2> HIDE DEF size, read, fields
  <2>3. Bytes(0, StringLength) = Part(n, 0, StringLength)
    BY <1>1, <1>2, <2>1
  <2>4. Bytes(StringLength, 2) = Part(n, StringLength, 2)
    BY <1>1, <1>2, <2>1
  <2>5. AsSent(n, read, fields)
    BY <2>2, <2>3, <2>4 DEF AsSent
  <2> QED BY <2>5 DEF read, fields
<1>5. CASE opcode = "extentry"
  <2> DEFINE read == FieldsRead(opcode)
             fields == ClientFields(opcode, custom_blocks)
  <2>1. size = StringLength + 4
    BY <1>5 DEF ClientSize
  <2>2. /\ read = [name |-> Bytes(0, StringLength), version |-> Bytes(StringLength, 4)]
        /\ DOMAIN read \subseteq DOMAIN fields
        /\ fields.name = << 0, StringLength >> /\ fields.version = << StringLength, 4 >>
    BY <1>5 DEF FieldsRead, ClientFields
  <2> HIDE DEF size, read, fields
  <2>3. Bytes(0, StringLength) = Part(n, 0, StringLength)
    BY <1>1, <1>2, <2>1
  <2>4. Bytes(StringLength, 4) = Part(n, StringLength, 4)
    BY <1>1, <1>2, <2>1
  <2>5. AsSent(n, read, fields)
    BY <2>2, <2>3, <2>4 DEF AsSent
  <2> QED BY <2>5 DEF read, fields
<1>6. CASE opcode = "custom_blocks"
  <2> DEFINE read == FieldsRead(opcode)
             fields == ClientFields(opcode, custom_blocks)
  <2>1. size = StringLength + 4
    BY <1>6 DEF ClientSize
  <2>2. /\ read = [name |-> Bytes(0, StringLength), version |-> Bytes(StringLength, 4)]
        /\ DOMAIN read \subseteq DOMAIN fields
        /\ fields.name = << 0, StringLength >> /\ fields.version = << StringLength, 4 >>
    BY <1>6 DEF FieldsRead, ClientFields
  <2> HIDE DEF size, read, fields
  <2>3. Bytes(0, StringLength) = Part(n, 0, StringLength)
    BY <1>1, <1>2, <2>1
  <2>4. Bytes(StringLength, 4) = Part(n, StringLength, 4)
    BY <1>1, <1>2, <2>1
  <2>5. AsSent(n, read, fields)
    BY <2>2, <2>3, <2>4 DEF AsSent
  <2> QED BY <2>5 DEF read, fields
<1>7. CASE opcode = "support_level"
  <2> DEFINE read == FieldsRead(opcode)
             fields == ClientFields(opcode, custom_blocks)
  <2>1. size = 1
    BY <1>7 DEF ClientSize
  <2>2. /\ read = [level |-> Bytes(0, 1)]
        /\ DOMAIN read \subseteq DOMAIN fields
        /\ fields.level = << 0, 1 >>
    BY <1>7 DEF FieldsRead, ClientFields
  <2> HIDE DEF size, read, fields
  <2>3. Bytes(0, 1) = Part(n, 0, 1)
    BY <1>1, <1>2, <2>1
  <2>4. AsSent(n, read, fields)
    BY <2>2, <2>3 DEF AsSent
  <2> QED BY <2>4 DEF read, fields
<1>8. CASE opcode = "set_block"
  <2> DEFINE read == FieldsRead(opcode)
             fields == ClientFields(opcode, custom_blocks)
  <2>1. size = 7 + block
    BY <1>8 DEF ClientSize
  <2>2. /\ read = [x |-> Bytes(0, 2),
                   y |-> Bytes(2, 2),
                   z |-> Bytes(4, 2),
                   mode |-> Bytes(6, 1),
                   block |-> Bytes(7, block)]
        /\ DOMAIN read \subseteq DOMAIN fields
        /\ fields.x = << 0, 2 >>
        /\ fields.y = << 2, 2 >>
        /\ fields.z = << 4, 2 >>
        /\ fields.mode = << 6, 1 >>
        /\ fields.block = << 7, block >>
    BY <1>8 DEF FieldsRead, ClientFields
  <2> HIDE DEF size, read, fields, block
  <2>3. Bytes(0, 2) = Part(n, 0, 2)
    BY <1>1, <1>2, <2>1
  <2>4. Bytes(2, 2) = Part(n, 2, 2)
    BY <1>1, <1>2, <2>1
  <2>5. Bytes(4, 2) = Part(n, 4, 2)
    BY <1>1, <1>2, <2>1
  <2>6. Bytes(6, 1) = Part(n, 6, 1)
    BY <1>1, <1>2, <2>1
  <2>7. Bytes(7, block) = Part(n, 7, block)
    BY <1>1, <1>2, <2>1
  <2>8. AsSent(n, read, fields)
    BY <2>2, <2>3, <2>4, <2>5, <2>6, <2>7 DEF AsSent
  <2> QED BY <2>8 DEF read, fields
<1>9. CASE opcode = "position"
  <2> DEFINE read == FieldsRead(opcode)
             fields == ClientFields(opcode, custom_blocks)
  <2>1. size = 8 + block
    BY <1>9 DEF ClientSize
  <2>2. /\ read = [x |-> Bytes(block, 2),
                   y |-> Bytes(block + 2, 2),
                   z |-> Bytes(block + 4, 2),
                   heading |-> Bytes(block + 6, 1),
                   pitch |-> Bytes(block + 7, 1)]
        /\ DOMAIN read \subseteq DOMAIN fields
        /\ fields.x = << block, 2 >>
        /\ fields.y = << block + 2, 2 >>
        /\ fields.z = << block + 4, 2 >>
        /\ fields.heading = << block + 6, 1 >>
        /\ fields.pitch = << block + 7, 1 >>
    BY <1>9 DEF FieldsRead, ClientFields
  <2> HIDE DEF size, read, fields, block
  <2>3. Bytes(block, 2) = Part(n, block, 2)
    BY <1>1, <1>2, <2>1
  <2>4. Bytes(block + 2, 2) = Part(n, block + 2, 2)
    BY <1>1, <1>2, <2>1
  <2>5. Bytes(block + 4, 2) = Part(n, block + 4, 2)
    BY <1>1, <1>2, <2>1
  <2>6. Bytes(block + 6, 1) = Part(n, block + 6, 1)
    BY <1>1, <1>2, <2>1
  <2>7. Bytes(block + 7, 1) = Part(n, block + 7, 1)
    BY <1>1, <1>2, <2>1
  <2>8. AsSent(n, read, fields)
    BY <2>2, <2>3, <2>4, <2>5, <2>6, <2>7 DEF AsSent
  <2> QED BY <2>8 DEF read, fields
<1> QED BY <1>3, <1>4, <1>5, <1>6, <1>7, <1>8, <1>9 DEF Opcodes, ReaderConstants

-----------------------------------------------------------------------------
\* A session that is kicked keeps what it has.
LEMMA KickKeepsInv ==
  ASSUME ReaderInv, Kick
  PROVE  ReaderInv'
<1>1. task' = "ended" /\ UNCHANGED << sent, wire, pending_packet_opcode, pending_packet_buffer,
                                     custom_blocks, handled >>
  BY DEF Kick, pending
<1>2. \A n : Wide(n)' = Wide(n)
  BY <1>1 DEF Wide
<1>3. Current' = Current /\ \A n : Size(n)' = Size(n)
  BY <1>1, <1>2 DEF Current, Size
<1>4. TypesOK'
  BY <1>1 DEF ReaderInv, TypesOK
<1>5. PendingOK'
  BY <1>1, <1>2, <1>3 DEF ReaderInv, PendingOK
<1>6. \A s : Layout(s)' = Layout(s)
  BY <1>1, <1>3 DEF Layout
<1>7. FieldsFound'
  BY <1>1, <1>2 DEF ReaderInv, FieldsFound
<1> QED BY <1>4, <1>5, <1>6, <1>7 DEF ReaderInv

\* The client sends a packet: nothing that was read changes.
LEMMA SendsKeepsInv ==
  ASSUME ReaderConstants, ReaderInv, NEW kind \in Kinds, ClientSends(kind)
  PROVE  ReaderInv'
<1>1. /\ sent' = Append(sent, kind)
      /\ UNCHANGED << pending_packet_opcode, pending_packet_buffer, custom_blocks, task, handled >>
  BY DEF ClientSends, pending
<1>2. sent \in Seq(Kinds) /\ Len(sent) \in Nat
  BY DEF ReaderInv, TypesOK
<1>3. /\ sent' \in Seq(Kinds) /\ Len(sent') = Len(sent) + 1
      /\ \A n \in 1..Len(sent) : sent'[n] = sent[n]
  BY <1>1, <1>2
<1>4. Current \in 1..(Len(sent) + 1) /\ Current' = Current
  BY <1>1, Numbers DEF ReaderInv, Current
<1>5. wire' \in Seq(Nat \X Nat)
  <2>1. PICK N \in Nat : N = Len(sent) + 1
    BY <1>2
  <2>2. PICK size \in Nat : size = ClientSize(kind, Wide(N))
    <3>1. Wide(N) \in BOOLEAN
      BY DEF Wide
    <3> QED BY <3>1, SizesNat
  <2>3. wire' = wire \o [k \in 1..(size + 1) |-> << N, k - 1 >>]
    BY <2>1, <2>2 DEF ClientSends
  <2>4. [k \in 1..(size + 1) |-> << N, k - 1 >>] \in Seq(Nat \X Nat)
    BY <2>1, <2>2
  <2> QED BY <2>3, <2>4 DEF ReaderInv, TypesOK
<1>6. TypesOK'
  BY <1>1, <1>3, <1>5 DEF ReaderInv, TypesOK
<1>7. \A n \in 1..(Len(sent) + 1) : Wide(n)' = Wide(n)
  BY <1>1, <1>2, AppendKeepsWide
<1>8. \A n \in 1..Len(sent) : Size(n)' = Size(n)
  BY <1>1, <1>2, AppendKeepsSize
<1>9. PendingOK'
  <2>1. Len(handled') <= Len(sent') /\ custom_blocks' = Wide(Current)'
    BY <1>1, <1>2, <1>3, <1>4, <1>7 DEF ReaderInv, PendingOK, Current
  <2>2. CASE pending_packet_opcode = "none"
    BY <1>1, <2>1, <2>2 DEF ReaderInv, PendingOK
  <2>3. CASE pending_packet_opcode # "none"
    <3>1. Current \in 1..Len(sent)
      BY <1>2, <1>4, <2>3 DEF ReaderInv, PendingOK
    <3>2. Size(Current)' = Size(Current) /\ sent'[Current] = sent[Current]
      BY <1>3, <1>4, <1>8, <3>1
    <3> QED BY <1>1, <1>2, <1>3, <1>4, <2>1, <2>3, <3>1, <3>2 DEF ReaderInv, PendingOK
  <2> QED BY <2>2, <2>3
<1>10. FieldsFound'
  <2> SUFFICES ASSUME NEW n \in DOMAIN handled
               PROVE  n <= Len(sent') /\ AsSent(n, handled[n], ClientFields(sent'[n], Wide(n)'))
    BY <1>1 DEF FieldsFound
  <2>1. n <= Len(sent) /\ AsSent(n, handled[n], ClientFields(sent[n], Wide(n)))
    BY DEF ReaderInv, FieldsFound
  <2>2. n \in 1..Len(sent)
    BY <1>2, <2>1 DEF ReaderInv, TypesOK
  <2> QED BY <1>2, <1>3, <1>7, <2>1, <2>2
<1>11. \E s : Layout(s)'
  BY SendsKeepsLayout
<1> QED BY <1>6, <1>9, <1>10, <1>11 DEF ReaderInv

\* The handler is done with the packet: the next one is the next on the wire.
LEMMA HandleKeepsInv ==
  ASSUME ReaderConstants, ReaderInv, Handle, ~Kick
  PROVE  ReaderInv'
<1>1. PICK start : Layout(start)
  BY DEF ReaderInv
<1>2. PICK read : read = FieldsRead(pending_packet_opcode)
  OBVIOUS
<1>3. /\ task = "handler" /\ handled' = Append(handled, read)
      /\ custom_blocks' = (custom_blocks \/ pending_packet_opcode = "custom_blocks")
      /\ pending_packet_opcode' = "none" /\ pending_packet_buffer' = << >>
      /\ task' = "listen" /\ sent' = sent /\ wire' = wire
  BY <1>2 DEF Handle
<1>4. PICK n : n = Current
  OBVIOUS
<1>5. /\ n \in Nat \ {0} /\ Len(sent) \in Nat /\ n <= Len(sent)
      /\ pending_packet_opcode # "none" /\ pending_packet_opcode = sent[n]
      /\ Len(pending_packet_buffer) = Size(n)
      /\ \A k \in 1..Len(pending_packet_buffer) : pending_packet_buffer[k] = << n, k >>
      /\ custom_blocks = Wide(n)
  BY <1>3, <1>4, Numbers DEF ReaderInv, PendingOK
<1>6. /\ pending_packet_opcode \in Opcodes /\ custom_blocks \in BOOLEAN
      /\ pending_packet_buffer \in Seq(Nat \X Nat)
  BY <1>5 DEF ReaderInv, TypesOK
<1>7. AsSent(n, read, ClientFields(sent[n], Wide(n)))
  <2>1. Len(pending_packet_buffer) = ClientSize(pending_packet_opcode, custom_blocks)
    BY <1>5 DEF Size
  <2>2. AsSent(n, FieldsRead(pending_packet_opcode),
               ClientFields(pending_packet_opcode, custom_blocks))
    BY <1>5, <1>6, <2>1, FieldsAsSent
  <2> QED BY <1>2, <1>5, <2>2
<1>8. /\ handled' \in Seq({handled'[m] : m \in DOMAIN handled'})
      /\ Len(handled') = n /\ handled'[n] = read
      /\ \A m \in 1..(n - 1) : handled'[m] = handled[m]
  <2> DEFINE S == {handled[m] : m \in DOMAIN handled} \cup {read}
  <2>1. handled \in Seq(S) /\ read \in S /\ Len(handled) \in Nat
    BY DEF ReaderInv, TypesOK
  <2> HIDE DEF S
  <2>2. /\ handled' \in Seq(S) /\ Len(handled') = Len(handled) + 1
        /\ \A m \in 1..Len(handled) : handled'[m] = handled[m]
        /\ handled'[Len(handled) + 1] = read
    BY <1>3, <2>1, AppendProperties
  <2>3. handled' \in Seq({handled'[m] : m \in DOMAIN handled'})
    BY <2>2
  <2> QED BY <1>4, <2>1, <2>2, <2>3 DEF Current
<1>9. Current' = n + 1
  BY <1>5, <1>8 DEF Current
<1>10. \A m : Wide(m)' = Wide(m)
  BY <1>3 DEF Wide
<1>11. Wide(n + 1) = (Wide(n) \/ sent[n] = "custom_blocks")
  <2>1. \A k : k \in 1..((n + 1) - 1) <=> (k \in 1..(n - 1) \/ k = n)
    BY <1>5
  <2>2. Wide(n + 1) <=> (Wide(n) \/ sent[n] = "custom_blocks")
    BY <2>1, Zenon DEF Wide
  <2> QED BY <2>2 DEF Wide
<1>12. TypesOK'
  <2>1. custom_blocks' \in BOOLEAN
    BY <1>3, Zenon
  <2>2. /\ sent' \in Seq(Kinds) /\ wire' \in Seq(Nat \X Nat)
        /\ pending_packet_opcode' \in Opcodes \cup {"none"}
        /\ pending_packet_buffer' \in Seq(Nat \X Nat)
        /\ task' \in {"listen", "handler", "ended"}
    BY <1>3 DEF ReaderInv, TypesOK
  <2> QED BY <1>8, <2>1, <2>2, Zenon DEF TypesOK
<1>13. PendingOK'
  <2>1. custom_blocks' = Wide(Current)'
    BY <1>3, <1>5, <1>6, <1>9, <1>10, <1>11
  <2> QED BY <1>3, <1>5, <1>8, <2>1 DEF PendingOK
<1>14. FieldsFound'
  <2> SUFFICES ASSUME NEW m \in DOMAIN handled'
               PROVE  m <= Len(sent) /\ AsSent(m, handled'[m], ClientFields(sent[m], Wide(m)))
    BY <1>3, <1>10 DEF FieldsFound
  <2>1. m \in 1..n
    BY <1>8
  <2>2. CASE m = n
    BY <1>5, <1>7, <1>8, <2>2
  <2>3. CASE m # n
    <3>1. m \in 1..(n - 1) /\ m \in DOMAIN handled
      BY <1>4, <1>5, <2>1, <2>3 DEF Current, ReaderInv, TypesOK
    <3> QED BY <1>8, <3>1 DEF ReaderInv, FieldsFound
  <2> QED BY <2>2, <2>3
<1>15. \E s : Layout(s)'
  <2>1. PICK s : s = [m \in (n + 1)..(Len(sent) + 1) |-> start[m]]
    OBVIOUS
  <2>2. \A m : Size(m)' = Size(m)
    BY <1>3, <1>10 DEF Size
  <2>3. start \in [n..(Len(sent) + 1) -> Int] /\ Size(n) \in Nat
    BY <1>1, <1>4, <1>5, Numbers DEF Layout, ReaderInv
  <2>4. /\ s \in [(n + 1)..(Len(sent) + 1) -> Int]
        /\ \A m \in (n + 1)..(Len(sent) + 1) : s[m] = start[m]
    BY <1>5, <2>1, <2>3
  <2>5. start[n + 1] = 0
    <3>1. start[n + 1] = start[n] + Size(n) + 1
      BY <1>1, <1>4, <1>5 DEF Layout
    <3>2. start[n] = -(1 + Size(n))
      BY <1>1, <1>4, <1>5 DEF Layout
    <3> QED BY <2>3, <3>1, <3>2
  <2>6. s[n + 1] = 0 /\ s[Len(sent) + 1] = Len(wire)
    BY SMTT(30), <1>1, <1>5, <2>4, <2>5 DEF Layout
  <2>7. \A m \in (n + 1)..Len(sent) : s[m + 1] = s[m] + Size(m) + 1
    BY <1>1, <1>4, <1>5, <2>4 DEF Layout
  <2>8. \A m \in (n + 1)..(Len(sent) + 1) : s[m] <= Len(wire)
    BY <1>1, <1>4, <1>5, <2>4 DEF Layout
  <2>9. \A m \in (n + 1)..Len(sent) : \A j \in 0..Size(m) :
          s[m] + j + 1 >= 1 => wire[s[m] + j + 1] = << m, j >>
    <3> SUFFICES ASSUME NEW m \in (n + 1)..Len(sent)
                 PROVE  \A j \in 0..Size(m) :
                          s[m] + j + 1 >= 1 => wire[s[m] + j + 1] = << m, j >>
      OBVIOUS
    <3>1. m \in n..Len(sent) /\ s[m] = start[m]
      BY <1>5, <2>4
    <3>2. \A j \in 0..Size(m) :
            start[m] + j + 1 >= 1 => wire[start[m] + j + 1] = << m, j >>
      BY <1>1, <1>4, <3>1 DEF Layout
    <3> QED BY <3>1, <3>2
  <2>10. Layout(s)'
    BY <1>3, <1>9, <2>2, <2>4, <2>6, <2>7, <2>8, <2>9 DEF Layout
  <2> QED BY <2>10
<1> QED BY <1>12, <1>13, <1>14, <1>15 DEF ReaderInv

\* Nothing is sent and nothing is read.
LEMMA InitReaderInv ==
  ASSUME ReaderConstants, Init
  PROVE  ReaderInv
<1>1. /\ sent = << >> /\ wire = << >> /\ pending_packet_opcode = "none"
      /\ pending_packet_buffer = << >> /\ custom_blocks = FALSE /\ task = "listen"
      /\ handled = << >>
  BY DEF Init
<1>2. Current = 1 /\ Len(sent) = 0 /\ Len(wire) = 0
  BY <1>1 DEF Current
<1>3. TypesOK
  <2>1. custom_blocks \in BOOLEAN
    BY <1>1, Zenon
  <2> QED BY <1>1, <2>1 DEF TypesOK
<1>4. ~Wide(1)
  BY DEF Wide
<1>5. PendingOK
  <2>1. Wide(Current) = FALSE
    BY <1>2, <1>4 DEF Wide
  <2>2. custom_blocks = Wide(Current)
    BY <1>1, <2>1
  <2> QED BY <1>1, <2>2 DEF PendingOK
<1>6. Layout([n \in {1} |-> 0])
  BY <1>1, <1>2 DEF Layout
<1>7. FieldsFound
  BY <1>1 DEF FieldsFound
<1> QED BY <1>3, <1>5, <1>6, <1>7 DEF ReaderInv

\* Every step keeps the invariant.
LEMMA NextReaderInv ==
  ASSUME ReaderConstants, ReaderInv, [Next]_vars
  PROVE  ReaderInv'
<1>1. CASE UNCHANGED vars
  <2>1. UNCHANGED << sent, wire, pending_packet_opcode, pending_packet_buffer, custom_blocks,
                     task, handled >>
    BY <1>1 DEF vars
  <2>2. \A n : Wide(n)' = Wide(n)
    BY <2>1 DEF Wide
  <2>3. Current' = Current /\ \A n : Size(n)' = Size(n)
    BY <2>1, <2>2 DEF Current, Size
  <2>4. TypesOK' /\ PendingOK' /\ FieldsFound'
    BY <2>1, <2>2, <2>3 DEF ReaderInv, TypesOK, PendingOK, FieldsFound
  <2>5. \A s : Layout(s)' = Layout(s)
    BY <2>1, <2>3 DEF Layout
  <2> QED BY <2>4, <2>5 DEF ReaderInv
<1>2. CASE \E kind \in Kinds : ClientSends(kind)
  BY <1>2, SendsKeepsInv
<1>3. CASE ReadOpcode
  BY <1>3, OpcodeKeepsInv, KickKeepsInv
<1>4. CASE \E count \in 1..Len(wire) : ReadData(count)
  BY <1>4, DataKeepsInv
<1>5. CASE ReadEnd
  BY <1>5, KickKeepsInv DEF ReadEnd
<1>6. CASE Handle
  BY <1>6, HandleKeepsInv, KickKeepsInv
<1> QED BY <1>1, <1>2, <1>3, <1>4, <1>5, <1>6 DEF Next, Listen

\* Between packets the next byte on the wire is a packet's first.
LEMMA InvAligned ==
  ASSUME ReaderConstants, ReaderInv
  PROVE  AlignedAtPackets
<1> SUFFICES ASSUME pending_packet_opcode = "none"
             PROVE  /\ wire = << >> => Len(handled) = Len(sent)
                    /\ wire # << >> => Head(wire) = << Len(handled) + 1, 0 >>
  BY DEF AlignedAtPackets
<1>1. PICK start : Layout(start)
  BY DEF ReaderInv
<1>2. /\ Current \in Nat \ {0} /\ Len(sent) \in Nat /\ Current <= Len(sent) + 1
      /\ \A n \in Current..Len(sent) : Size(n) \in Nat
  BY Numbers DEF ReaderInv
<1>3. wire \in Seq(Nat \X Nat) /\ Len(wire) \in Nat /\ Len(handled) \in Nat
  BY DEF ReaderInv, TypesOK
<1>4. start[Current] = 0 /\ start[Len(sent) + 1] = Len(wire)
  BY <1>1 DEF Layout
<1>5. CASE Current = Len(sent) + 1
  <2>1. Len(wire) = 0 /\ Len(handled) = Len(sent)
    BY <1>2, <1>3, <1>4, <1>5 DEF Current
  <2> QED BY <1>3, <2>1
<1>6. CASE Current # Len(sent) + 1
  <2>1. Current \in Current..Len(sent)
    BY <1>2, <1>6
  <2>2. 0 \in 0..Size(Current)
    BY <1>2, <2>1
  <2>3. start[Current] + 0 + 1 <= Len(wire)
    BY <1>1, <2>1, <2>2, PlaceOnWire DEF ReaderInv
  <2>4. \A j \in 0..Size(Current) :
          start[Current] + j + 1 >= 1 => wire[start[Current] + j + 1] = << Current, j >>
    BY <1>1, <2>1 DEF Layout
  <2>5. wire[0 + 0 + 1] = << Current, 0 >>
    BY <1>4, <2>2, <2>4
  <2>6. wire # << >> /\ Head(wire) = << Current, 0 >>
    BY <1>3, <1>4, <2>3, <2>5
  <2> QED BY <2>6 DEF Current
<1> QED BY <1>5, <1>6

\* The bytes a pending packet lacks are on the wire.
LEMMA InvRest ==
  ASSUME ReaderConstants, ReaderInv
  PROVE  RestUnderWay
<1> SUFFICES ASSUME task = "listen", pending_packet_opcode # "none"
             PROVE  LET room == tc_packet_data_size(pending_packet_opcode)
                                  - Len(pending_packet_buffer)
                    IN  room > 0 /\ Len(wire) >= room
  BY DEF RestUnderWay
<1>1. PICK start : Layout(start)
  BY DEF ReaderInv
<1>2. /\ Current <= Len(sent) /\ pending_packet_opcode = sent[Current]
      /\ pending_packet_opcode \in Opcodes /\ custom_blocks = Wide(Current)
      /\ custom_blocks \in BOOLEAN /\ Len(pending_packet_buffer) < Size(Current)
      /\ Len(pending_packet_buffer) \in Nat /\ Len(wire) \in Nat
  BY DEF ReaderInv, PendingOK, TypesOK
<1>3. Current \in Current..Len(sent) /\ Size(Current) \in Nat
  BY <1>2, Numbers DEF ReaderInv
<1>4. tc_packet_data_size(pending_packet_opcode) = Size(Current)
  <2>1. tc_packet_data_size(pending_packet_opcode)
          = ClientSize(pending_packet_opcode, custom_blocks)
    BY <1>2, SizesAgree
  <2> QED BY <1>2, <2>1 DEF Size
<1>5. start[Current] = -(1 + Len(pending_packet_buffer))
  BY <1>1 DEF Layout
<1>6. Size(Current) \in 0..Size(Current)
  BY <1>3
<1>7. start[Current] + Size(Current) + 1 <= Len(wire)
  BY <1>1, <1>3, <1>6, PlaceOnWire DEF ReaderInv
<1> QED BY <1>2, <1>3, <1>4, <1>5, <1>7

\* Whatever the pieces, tc_server_client_listen_task takes a packet's first byte,
\* and no other, for an opcode.
THEOREM ReaderStaysAligned ==
  ASSUME ReaderConstants
  PROVE  Spec => []AlignedAtPackets
<1>1. Init => ReaderInv
  BY InitReaderInv
<1>2. ReaderInv /\ [Next]_vars => ReaderInv'
  BY NextReaderInv
<1>3. ReaderInv => AlignedAtPackets
  BY InvAligned
<1> QED BY <1>1, <1>2, <1>3, PTL DEF Spec

\* The handlers read every packet once, in order, each field from its own bytes.
THEOREM HandlersReadFields ==
  ASSUME ReaderConstants
  PROVE  Spec => []FieldsFound
<1>1. Init => ReaderInv
  BY InitReaderInv
<1>2. ReaderInv /\ [Next]_vars => ReaderInv'
  BY NextReaderInv
<1>3. ReaderInv => FieldsFound
  BY DEF ReaderInv
<1> QED BY <1>1, <1>2, <1>3, PTL DEF Spec

\* The listen task does not wait for bytes that a whole packet does not have.
THEOREM ReaderNeverStuck ==
  ASSUME ReaderConstants
  PROVE  Spec => []RestUnderWay
<1>1. Init => ReaderInv
  BY InitReaderInv
<1>2. ReaderInv /\ [Next]_vars => ReaderInv'
  BY NextReaderInv
<1>3. ReaderInv => RestUnderWay
  BY InvRest
<1> QED BY <1>1, <1>2, <1>3, PTL DEF Spec
=============================================================================
