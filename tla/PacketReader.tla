---------------------------- MODULE PacketReader ----------------------------
(***************************************************************************)
(* How the bytes of a client become packets (src/src/server.c,             *)
(* tc_server_client_listen_task and tc_server_protocol_handler_cleanup;    *)
(* src/src/handler.c, the packet sizes and the places where the handlers   *)
(* look for their fields).  TCP keeps the bytes in order and hands them    *)
(* out in pieces of any length.  A byte is the number of its packet with   *)
(* its place after the opcode, which is place 0.  Receive errors, the ping *)
(* and what the handlers do are Server's matter.                           *)
(***************************************************************************)
EXTENDS Integers, Sequences

CONSTANTS
  StringLength,   \* TC_PROTOCOL_MAX_STR_LEN
  Kinds           \* the packets the client sends

\* What the proofs assume of them.
ReaderConstants ==
  /\ StringLength \in Nat \ {0}
  /\ Kinds = {"identification", "extinfo", "extentry", "custom_blocks", "support_level",
              "set_block", "position", "invalid"}

VARIABLES
  sent,                    \* what the client sent: kinds of packets
  wire,                    \* bytes under way
  pending_packet_opcode,   \* the kind of the pending packet, "none" for -1
  pending_packet_buffer,
  custom_blocks,           \* the session has the CustomBlocks extension
  task,                    \* "listen", "handler" or "ended"
  handled                  \* the fields every handler read

vars == << sent, wire, pending_packet_opcode, pending_packet_buffer, custom_blocks,
           task, handled >>
pending == << pending_packet_opcode, pending_packet_buffer >>

Init ==
  /\ sent = << >>
  /\ wire = << >>
  /\ pending_packet_opcode = "none"
  /\ pending_packet_buffer = << >>
  /\ custom_blocks = FALSE
  /\ task = "listen"
  /\ handled = << >>

-----------------------------------------------------------------------------
(* The client, which follows the protocol the server's comments describe: a   *)
(* block or a player id has two bytes once it has sent the entry for          *)
(* CustomBlocks.                                                              *)

Wide(number) == \E k \in 1..(number - 1) : sent[k] = "custom_blocks"

\* The place of each field in a packet, and its size.
ClientFields(kind, wide) ==
  LET block == IF wide THEN 2 ELSE 1
  IN  CASE kind = "identification" ->
             [version |-> <<0, 1>>, username |-> <<1, StringLength>>,
              key |-> <<1 + StringLength, StringLength>>, cpe |-> <<1 + 2 * StringLength, 1>>]
        [] kind = "extinfo" -> [appname |-> <<0, StringLength>>, count |-> <<StringLength, 2>>]
        [] kind \in {"extentry", "custom_blocks"} ->
             [name |-> <<0, StringLength>>, version |-> <<StringLength, 4>>]
        [] kind = "support_level" -> [level |-> <<0, 1>>]
        [] kind = "set_block" ->
             [x |-> <<0, 2>>, y |-> <<2, 2>>, z |-> <<4, 2>>, mode |-> <<6, 1>>,
              block |-> <<7, block>>]
        [] kind = "position" ->
             [player |-> <<0, block>>, x |-> <<block, 2>>, y |-> <<block + 2, 2>>,
              z |-> <<block + 4, 2>>, heading |-> <<block + 6, 1>>, pitch |-> <<block + 7, 1>>]

\* The size of the whole packet, without its opcode.
ClientSize(kind, wide) ==
  CASE kind = "identification" -> 2 * StringLength + 2
    [] kind = "extinfo" -> StringLength + 2
    [] kind \in {"extentry", "custom_blocks"} -> StringLength + 4
    [] kind = "support_level" -> 1
    [] kind = "set_block" -> IF wide THEN 9 ELSE 8
    [] kind = "position" -> IF wide THEN 10 ELSE 9
    [] kind = "invalid" -> 0

ClientSends(kind) ==
  LET number == Len(sent) + 1
  IN  /\ task # "ended"
      /\ sent' = Append(sent, kind)
      /\ wire' = wire \o [k \in 1..(ClientSize(kind, Wide(number)) + 1) |-> << number, k - 1 >>]
      /\ UNCHANGED << pending, custom_blocks, task, handled >>

-----------------------------------------------------------------------------
(* tc_server_client_listen_task *)

tc_packet_data_size(opcode) ==
  CASE opcode = "set_block" /\ custom_blocks -> 9
    [] opcode = "position"  /\ custom_blocks -> 10
    [] opcode = "extinfo"        -> StringLength + 2
    [] opcode \in {"extentry", "custom_blocks"} -> StringLength + 4
    [] opcode = "support_level"  -> 1
    [] opcode = "identification" -> 2 + (2 * StringLength)
    [] opcode = "set_block" /\ ~custom_blocks -> 8
    [] opcode = "position"  /\ ~custom_blocks -> 9

\* The session is kicked: a bad opcode, no memory, or a handler's refusal.
Kick ==
  /\ task' = "ended"
  /\ UNCHANGED << sent, wire, pending, custom_blocks, handled >>

\* The client has closed the connection, and all it sent is read.
ReadEnd ==
  /\ task = "listen"
  /\ wire = << >>
  /\ Kick

\* A byte is taken for an opcode.
ReadOpcode ==
  /\ task = "listen"
  /\ pending_packet_opcode = "none"
  /\ wire # << >>
  /\ \/ Kick
     \/ /\ sent[Head(wire)[1]] # "invalid"
        /\ pending_packet_opcode' = sent[Head(wire)[1]]
        /\ pending_packet_buffer' = << >>
        /\ wire' = Tail(wire)
        /\ UNCHANGED << sent, custom_blocks, task, handled >>

\* `count' bytes have come; the handler is scheduled when the buffer is full.
ReadData(count) ==
  /\ task = "listen"
  /\ pending_packet_opcode # "none"
  /\ count <= tc_packet_data_size(pending_packet_opcode) - Len(pending_packet_buffer)
  /\ pending_packet_buffer' = pending_packet_buffer \o SubSeq(wire, 1, count)
  /\ wire' = SubSeq(wire, count + 1, Len(wire))
  /\ task' = IF Len(pending_packet_buffer') = tc_packet_data_size(pending_packet_opcode)
             THEN "handler" ELSE "listen"
  /\ UNCHANGED << sent, pending_packet_opcode, custom_blocks, handled >>

-----------------------------------------------------------------------------
(* The handlers *)

Bytes(offset, size) == SubSeq(pending_packet_buffer, offset + 1, offset + size)

\* The fields a handler reads, and where.
FieldsRead(opcode) ==
  LET offset == IF custom_blocks THEN 2 ELSE 1
  IN  CASE opcode = "identification" ->
             [version |-> Bytes(0, 1), username |-> Bytes(1, StringLength),
              key |-> Bytes(1 + StringLength, StringLength),
              cpe |-> Bytes(1 + (2 * StringLength), 1)]
        [] opcode = "extinfo" ->
             [appname |-> Bytes(0, StringLength), count |-> Bytes(StringLength, 2)]
        [] opcode \in {"extentry", "custom_blocks"} ->
             [name |-> Bytes(0, StringLength), version |-> Bytes(StringLength, 4)]
        [] opcode = "support_level" -> [level |-> Bytes(0, 1)]
        [] opcode = "set_block" ->
             [x |-> Bytes(0, 2), y |-> Bytes(2, 2), z |-> Bytes(4, 2), mode |-> Bytes(6, 1),
              block |-> Bytes(7, IF custom_blocks THEN 2 ELSE 1)]
        [] opcode = "position" ->
             [x |-> Bytes(offset, 2), y |-> Bytes(offset + 2, 2), z |-> Bytes(offset + 4, 2),
              heading |-> Bytes(offset + 6, 1), pitch |-> Bytes(offset + 7, 1)]

\* tc_server_protocol_handler_cleanup after a handler that kicks nobody; the
\* entry for CustomBlocks takes effect.
Handle ==
  /\ task = "handler"
  /\ \/ Kick
     \/ /\ handled' = Append(handled, FieldsRead(pending_packet_opcode))
        /\ custom_blocks' = (custom_blocks \/ pending_packet_opcode = "custom_blocks")
        /\ pending_packet_opcode' = "none"
        /\ pending_packet_buffer' = << >>
        /\ task' = "listen"
        /\ UNCHANGED << sent, wire >>

Listen == ReadOpcode \/ (\E count \in 1..Len(wire) : ReadData(count))

Next == (\E kind \in Kinds : ClientSends(kind)) \/ Listen \/ ReadEnd \/ Handle

Spec == Init /\ [][Next]_vars

-----------------------------------------------------------------------------
\* The bytes of packet n at a place.
Part(n, place, size) == [b \in 1..size |-> << n, place + b >>]

\* What was read of packet n is what the client put in the field of that name.
AsSent(n, read, fields) ==
  \A name \in DOMAIN read :
    /\ name \in DOMAIN fields
    /\ read[name] = Part(n, fields[name][1], fields[name][2])

\* The handlers read the fields of the packets the client sent, of every packet
\* once and in order, and find each field where the client put it: whatever the
\* pieces the bytes come in, and whether or not CustomBlocks has changed sizes
\* and places in between.
FieldsFound ==
  \A n \in DOMAIN handled :
    n <= Len(sent) /\ AsSent(n, handled[n], ClientFields(sent[n], Wide(n)))

\* Between packets the next byte is the first of a packet, and no byte is lost:
\* the wire holds the rest of what the client sent.
AlignedAtPackets ==
  task = "listen" /\ pending_packet_opcode = "none" =>
    /\ wire = << >> => Len(handled) = Len(sent)
    /\ wire # << >> => Head(wire) = << Len(handled) + 1, 0 >>

\* The listen task never waits for bytes that do not come: with a packet pending,
\* there is room for more in its buffer and the bytes for it are under way (the
\* client sends whole packets).
RestUnderWay ==
  task = "listen" /\ pending_packet_opcode # "none" =>
    LET room == tc_packet_data_size(pending_packet_opcode) - Len(pending_packet_buffer)
    IN  room > 0 /\ Len(wire) >= room
=============================================================================
