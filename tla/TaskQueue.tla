----------------------------- MODULE TaskQueue ------------------------------
(***************************************************************************)
(* What a task buffer of the thread pool promises: a bounded first-in      *)
(* first-out queue whose last slots are kept for the continuations of      *)
(* running chains (the is_yield enqueues).                                 *)
(***************************************************************************)
EXTENDS Integers, Sequences

CONSTANTS
  Values,     \* tasks
  NULL,       \* the task without a function
  Size,       \* how many tasks fit
  Reserved    \* how many of the slots only continuations may fill

VARIABLES
  queue,      \* the tasks, oldest first
  accepted,   \* what the last enqueue returned
  taken       \* what the last dequeue returned

vars == << queue, accepted, taken >>

Init == queue = << >> /\ accepted = FALSE /\ taken = NULL

Accepts(is_yield) ==
  /\ Len(queue) < Size
  /\ is_yield \/ Len(queue) < Size - Reserved

Enqueue(v, is_yield) ==
  /\ accepted' = Accepts(is_yield)
  /\ queue' = IF Accepts(is_yield) THEN Append(queue, v) ELSE queue
  /\ UNCHANGED taken

Dequeue ==
  /\ taken' = IF queue = << >> THEN NULL ELSE Head(queue)
  /\ queue' = IF queue = << >> THEN queue ELSE Tail(queue)
  /\ UNCHANGED accepted

Next == Dequeue \/ \E v \in Values, is_yield \in BOOLEAN : Enqueue(v, is_yield)

Spec == Init /\ [][Next]_vars
=============================================================================
