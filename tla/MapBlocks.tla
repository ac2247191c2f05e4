----------------------------- MODULE MapBlocks ------------------------------
(***************************************************************************)
(* How a map keeps its blocks (include/TeleClassic26/gameplay/map.h): one  *)
(* array with the lower eight bits of every block and, in maps that have   *)
(* it, a second with the upper two bits, four blocks to a byte.  Both are  *)
(* indexed by y, z, x.  The map's lock makes every call one step.          *)
(***************************************************************************)
EXTENDS Integers

CONSTANTS
  x_size, y_size, z_size,
  Blocks            \* the blocks that are set, of ten bits each

\* What the proofs assume of them.
MapBlocksConstants ==
  /\ x_size \in Nat \ {0} /\ y_size \in Nat \ {0} /\ z_size \in Nat \ {0}
  /\ x_size < 32768 /\ y_size < 32768 /\ z_size < 32768
  /\ Blocks \subseteq 0..1023

VARIABLES
  block_array,
  block_array2,    \* empty when the map has none
  block            \* what tc_map_get_block_index returned last

vars == << block_array, block_array2, block >>

\* An int of 32 bits, which wraps where the build lets it.
TwoTo31  == 32768 * 65536
Int32(n) == ((n + TwoTo31) % (2 * TwoTo31)) - TwoTo31

\* The blocks that the sizes make, and what the dimensions check compares the
\* length of the array with.
Size  == x_size * y_size * z_size
Count == Int32(Size)

\* An int counts the blocks.
FitsInt == Size < TwoTo31

Positions == (0..(x_size - 1)) \X (0..(y_size - 1)) \X (0..(z_size - 1))

HasSecond == DOMAIN block_array2 # {}

Place(p) == (((p[2] * z_size) + p[3]) * x_size) + p[1]
Index(p) == Int32(Place(p))

\* A map that was loaded: its array is as long as the check demands, and is not
\* empty, for then its allocation would have failed.  The second array has a byte
\* for every four blocks, the last ones included.
Init ==
  /\ Count > 0
  /\ block_array = [i \in 0..(Count - 1) |-> 0]
  /\ block_array2 \in {[i \in 0..(((Count + 3) \div 4) - 1) |-> 0], [i \in {} |-> 0]}
  /\ block = 0

\* The two bits of block i in its byte of the second array, and their weight.
Weight(i) ==
  CASE i % 4 = 0 -> 1 [] i % 4 = 1 -> 4 [] i % 4 = 2 -> 16 [] i % 4 = 3 -> 64

BitsOf(byte, i) == (byte \div Weight(i)) % 4

\* byte with the two bits of block i replaced.
WithBits(byte, i, bits) == byte - (BitsOf(byte, i) * Weight(i)) + (bits * Weight(i))

\* The block at index i.
BlockAt(i) ==
  block_array[i] + (IF HasSecond THEN BitsOf(block_array2[i \div 4], i) * 256 ELSE 0)

tc_map_get_block_index(p) ==
  /\ block' = BlockAt(Index(p))
  /\ UNCHANGED << block_array, block_array2 >>

tc_map_set_block_index(p, value) ==
  LET i == Index(p)
  IN  /\ block_array' = [block_array EXCEPT ![i] = value % 256]
      /\ block_array2' =
           IF HasSecond
           THEN [block_array2 EXCEPT ![i \div 4] = WithBits(@, i, (value \div 256) % 4)]
           ELSE block_array2
      /\ UNCHANGED block

Next ==
  \E p \in Positions :
    \/ tc_map_get_block_index(p)
    \/ \E value \in Blocks : tc_map_set_block_index(p, value)

Spec == Init /\ [][Next]_vars

-----------------------------------------------------------------------------
\* No two positions share an index, and every index is inside the arrays.  What a
\* position outside them reads or sets is undefined.
IndexExact ==
  /\ \A p, q \in Positions : Index(p) = Index(q) => p = q
  /\ \A p \in Positions :
       /\ Index(p) \in DOMAIN block_array
       /\ HasSecond => Index(p) \div 4 \in DOMAIN block_array2

\* In a map without the second array a block keeps its lower eight bits.
Kept == IF HasSecond THEN 1024 ELSE 256

\* What a block may be: also what is left of one that is cut to eight bits.
Values == {0} \cup Blocks \cup {value % 256 : value \in Blocks}

Grid == INSTANCE BlockGrid
          WITH Values <- Values,
               grid <- [p \in Positions |-> BlockAt(Index(p))],
               answer <- block

\* Setting a block changes that block and none of those that share a byte with
\* it, and a block is read as it was set: the two arrays implement a grid.
Implements == Grid!Spec

\* The block just set is the one asked for, as far as the map has bits for it.
SetTakesEffect ==
  [][\A p \in Positions, value \in Blocks :
       tc_map_set_block_index(p, value) => BlockAt(Index(p))' = value % Kept]_vars
=============================================================================
