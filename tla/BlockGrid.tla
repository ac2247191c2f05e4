----------------------------- MODULE BlockGrid ------------------------------
(***************************************************************************)
(* What the blocks of a map promise: a grid of blocks that are set one at  *)
(* a time and read as they were last set.                                  *)
(***************************************************************************)
CONSTANTS Positions, Values

VARIABLES
  grid,    \* the block at each position
  answer   \* the last block that was read

vars == << grid, answer >>

Init == grid \in [Positions -> Values] /\ answer \in Values

Set(p, value) ==
  /\ grid' = [grid EXCEPT ![p] = value]
  /\ UNCHANGED answer

Get(p) ==
  /\ answer' = grid[p]
  /\ UNCHANGED grid

Next == \E p \in Positions : Get(p) \/ \E value \in Values : Set(p, value)

Spec == Init /\ [][Next]_vars
=============================================================================
