----------------------------- MODULE TaskBuffer -----------------------------
(***************************************************************************)
(* One tc_thread_pool_task_buf_t (src/src/thread_pool.c): a circular array *)
(* with a head index (next slot to fill) and a tail index (next slot to    *)
(* empty).  Equal indices mean empty, so one slot always stays free.       *)
(* ThreadPool takes a buffer to be a sequence; Implements says why it may. *)
(***************************************************************************)
EXTENDS Integers, Sequences

CONSTANTS
  Values,     \* tasks
  NULL,       \* the task without a function that an empty buffer returns
  Capacity,   \* slots of the array
  Reserved    \* reserved_capacity: num_threads or max_blocking_threads

\* What the proofs assume of them.
BufferConstants ==
  /\ Capacity \in Nat \ {0}
  /\ Reserved \in Nat
  /\ NULL \notin Values

ASSUME BufferAssumption == BufferConstants

VARIABLES
  head_index,
  tail_index,
  buffer,
  accepted,   \* what the last task_buffer_enqueue returned
  taken       \* what the last task_buffer_dequeue returned

vars == << head_index, tail_index, buffer, accepted, taken >>

Slots == 0..(Capacity - 1)

\* init_task_buffer; the array itself is not initialised.
Init ==
  /\ head_index = 0
  /\ tail_index = 0
  /\ buffer \in [Slots -> Values \cup {NULL}]
  /\ accepted = FALSE
  /\ taken = NULL

Used == (head_index + Capacity - tail_index) % Capacity

task_buffer_remaining_capacity == (Capacity - 1) - Used

task_buffer_is_empty == head_index = tail_index

\* Mutant of Refused: the check for the last free slot is left out.
RefusedWithoutFullCheck(is_yield) ==
  ~is_yield /\ task_buffer_remaining_capacity <= Reserved

Refused(is_yield) ==
  \/ ~is_yield /\ task_buffer_remaining_capacity <= Reserved
  \/ (head_index + 1) % Capacity = tail_index

task_buffer_enqueue(v, is_yield) ==
  /\ accepted' = ~Refused(is_yield)
  /\ IF Refused(is_yield)
     THEN UNCHANGED << buffer, head_index >>
     ELSE /\ buffer' = [buffer EXCEPT ![head_index] = v]
          /\ head_index' = (head_index + 1) % Capacity
  /\ UNCHANGED << tail_index, taken >>

\* Mutant of task_buffer_dequeue: the tail does not wrap around.
DequeueWithoutWrap ==
  /\ ~task_buffer_is_empty
  /\ taken' = buffer[tail_index]
  /\ tail_index' = tail_index + 1
  /\ UNCHANGED << head_index, buffer, accepted >>

task_buffer_dequeue ==
  /\ IF task_buffer_is_empty
     THEN taken' = NULL /\ UNCHANGED tail_index
     ELSE /\ taken' = buffer[tail_index]
          /\ tail_index' = (tail_index + 1) % Capacity
  /\ UNCHANGED << head_index, buffer, accepted >>

Next ==
  \/ \E v \in Values, is_yield \in BOOLEAN : task_buffer_enqueue(v, is_yield)
  \/ task_buffer_dequeue

Spec == Init /\ [][Next]_vars

-----------------------------------------------------------------------------
\* Both indices stay inside the array and the array holds tasks.
TypeOK ==
  /\ head_index \in Slots
  /\ tail_index \in Slots
  /\ buffer \in [Slots -> Values \cup {NULL}]
  /\ accepted \in BOOLEAN
  /\ taken \in Values \cup {NULL}

\* The tasks from the tail to the head, oldest first.
Contents == [i \in 1..Used |-> buffer[(tail_index + i - 1) % Capacity]]

Queue == INSTANCE TaskQueue WITH queue <- Contents, Size <- Capacity - 1

\* The circular array is a first-in first-out queue of Capacity - 1 tasks: no
\* wrap-around of either index loses, duplicates or reorders a task, and
\* task_buffer_enqueue refuses exactly when the queue does.
Implements == Queue!Spec
=============================================================================
