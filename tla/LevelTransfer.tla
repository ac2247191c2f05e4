--------------------------- MODULE LevelTransfer ----------------------------
(***************************************************************************)
(* The transfer of a compressed map (src/src/api.c, tc_send_buffer_task):  *)
(* a chain of tasks, each of which sends one chunk of ChunkSize bytes, of  *)
(* the main buffer first and then of the buffer for the upper block bits,  *)
(* if the map has one.  A byte of a buffer is the buffer's name with its   *)
(* position; a chunk carries its length, and the client drops the zeros    *)
(* that fill it up.  Outbound is about chunks that the socket does not     *)
(* take whole.                                                             *)
(***************************************************************************)
EXTENDS Integers, Sequences

CONSTANTS
  ChunkSize,   \* 1024
  MaxSize      \* bound on the compressed sizes

\* What the proofs assume of them.
TransferConstants ==
  /\ ChunkSize \in Nat \ {0}
  /\ MaxSize \in Nat

VARIABLES
  main_size,         \* block_array_buffer.size
  second_size,       \* block_array2_buffer.size, 0 when there is no block_array2
  extended_blocks,   \* the client has the ExtendedBlocks extension
  send_main_buffer,
  sent_count,
  stage,             \* "sending", "succeeded", "failed"
  percent_complete,  \* of the last chunk
  received,          \* what the client has of the two buffers
  finalized          \* the client has the level finalize packet

level == << main_size, second_size, extended_blocks >>
vars == << level, send_main_buffer, sent_count, stage, percent_complete, received, finalized >>

\* Compressed data is never empty, and on_map_load_success has refused a map
\* with a second array to a client without the extension.
Init ==
  /\ main_size \in 1..MaxSize
  /\ second_size \in 0..MaxSize
  /\ extended_blocks \in BOOLEAN
  /\ second_size > 0 => extended_blocks
  /\ send_main_buffer = TRUE
  /\ sent_count = 0
  /\ stage = "sending"
  /\ percent_complete = 0
  /\ received = << >>
  /\ finalized = FALSE

Size == IF send_main_buffer THEN main_size ELSE second_size

Buffer == IF send_main_buffer THEN "main" ELSE "second"

ChunkLength == IF ChunkSize < Size - sent_count THEN ChunkSize ELSE Size - sent_count

\* The bytes of buffer from position `from' on.
Piece(buffer, from, length) == [k \in 1..length |-> << buffer, from + k >>]

\* With ExtendedBlocks it says which buffer the chunk is of.  Otherwise it is
\* computed in floats, which is off by less than one, and cast to a byte.
Percent ==
  IF extended_blocks
  THEN {IF send_main_buffer THEN 0 ELSE 1}
  ELSE LET exact == (sent_count * 100) \div Size
       IN  {exact - 1, exact, exact + 1} \cap Nat

Done == sent_count + ChunkLength >= Size

HasSecond == second_size > 0

\* The chunk is sent, and the buffer is not at its end.
SendChunk ==
  /\ stage = "sending"
  /\ ~Done
  /\ received' = received \o Piece(Buffer, sent_count, ChunkLength)
  /\ percent_complete' \in Percent
  /\ sent_count' = sent_count + ChunkLength
  /\ UNCHANGED << level, send_main_buffer, stage, finalized >>

\* The last chunk of the main buffer is sent, and there is a second one.
SwitchBuffer ==
  /\ stage = "sending"
  /\ Done /\ send_main_buffer /\ HasSecond
  /\ received' = received \o Piece(Buffer, sent_count, ChunkLength)
  /\ percent_complete' \in Percent
  /\ send_main_buffer' = FALSE
  /\ sent_count' = 0
  /\ UNCHANGED << level, stage, finalized >>

\* The last chunk of all is sent, and the level finalize packet after it.
Finish ==
  /\ stage = "sending"
  /\ Done /\ ~(send_main_buffer /\ HasSecond)
  /\ received' = received \o Piece(Buffer, sent_count, ChunkLength)
  /\ percent_complete' \in Percent
  /\ sent_count' = sent_count + ChunkLength
  /\ stage' = "succeeded"
  /\ finalized' = TRUE
  /\ UNCHANGED << level, send_main_buffer >>

\* As Finish, but the level finalize packet cannot be sent.
FinishFails ==
  /\ stage = "sending"
  /\ Done /\ ~(send_main_buffer /\ HasSecond)
  /\ received' = received \o Piece(Buffer, sent_count, ChunkLength)
  /\ percent_complete' \in Percent
  /\ sent_count' = sent_count + ChunkLength
  /\ stage' = "failed"
  /\ UNCHANGED << level, send_main_buffer, finalized >>

\* The chunk cannot be sent, or the pool is shut down and runs the failure
\* handler in place of the next task.
Fail ==
  /\ stage = "sending"
  /\ stage' = "failed"
  /\ UNCHANGED << level, send_main_buffer, sent_count, percent_complete, received, finalized >>

Task == SendChunk \/ SwitchBuffer \/ Finish \/ FinishFails

Next == Task \/ Fail

Spec == Init /\ [][Next]_vars

-----------------------------------------------------------------------------
\* A percentage is one, and fits the byte that it is cast to, however the floats
\* are rounded.
PercentFits == percent_complete \in 0..100

Total == main_size + second_size

\* Byte n of the level.
LevelByte(n) == IF n <= main_size THEN << "main", n >> ELSE << "second", n - main_size >>

\* At every moment the client has an initial part of the main buffer followed
\* by the second one: no chunk boundary, and not the change of buffers, loses,
\* repeats or reorders a byte.
ReceivedInOrder ==
  /\ Len(received) <= Total
  /\ \A n \in 1..Len(received) : received[n] = LevelByte(n)

\* The client is told that the level is complete when, and only when, it has
\* every byte of both buffers.
FinalizedComplete == finalized => Len(received) = Total
=============================================================================
