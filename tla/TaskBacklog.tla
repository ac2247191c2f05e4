---------------------------- MODULE TaskBacklog -----------------------------
(***************************************************************************)
(* One tc_task_backlog_t (src/src/task_backlog.c): a linked list of blocks *)
(* of BlockSize entries, filled while a blocking task runs and handed to   *)
(* the thread pool when that task has its result.  The structure is        *)
(* sequential: its owner holds a lock around every call.  The thread pool  *)
(* appears as its verdict on each task, accepted or refused.               *)
(***************************************************************************)
EXTENDS Integers, Sequences, FiniteSets

CONSTANTS
  Contexts,         \* what tells the waiting tasks apart
  Priorities,       \* priorities of the waiting tasks
  CurrentPriority,  \* priority of the task that schedules the backlog
  BlockSize,        \* TC_TASK_BACKLOG_BUFFER_SIZE
  MaxPushes         \* bound on the accepted entries

ASSUME BacklogAssumption ==
  /\ BlockSize \in Nat \ {0}
  /\ MaxPushes \in Nat

Entries == [context : Contexts, priority : Priorities]

\* What becomes of an entry: its failure handler runs, or its success handler
\* is scheduled as the current task's continuation or as a task of its own.
Outcomes == {"failed", "next", "new"}

VARIABLES
  blocks,    \* the list from head_block to tail_block; its entries, a sequence
  phase,     \* "filling", "scheduling", "done", "finalized"
  result,    \* tc_task_schedule_backlog was given a result
  block,     \* its loop variables: a position in blocks (past the end is NULL)
  i,         \*   and the index in the block, from 0
  task_chain_continued,
  answered,  \* handlers run or scheduled so far, in order
  refs       \* references held on the result: aquires less releases

vars == << blocks, phase, result, block, i, task_chain_continued, answered, refs >>

\* tc_task_backlog_initialize
Init ==
  /\ blocks = << >>
  /\ phase = "filling"
  /\ result = FALSE
  /\ block = 0 /\ i = 0
  /\ task_chain_continued = FALSE
  /\ answered = << >>
  /\ refs = 0

Accepted == IF blocks = << >> THEN 0
            ELSE (Len(blocks) - 1) * BlockSize + Len(blocks[Len(blocks)])

\* Mutant of NeedsBlock: one entry too many in a block.
NeedsBlockLate ==
  IF blocks = << >> THEN TRUE ELSE Len(blocks[Len(blocks)]) > BlockSize

NeedsBlock ==
  IF blocks = << >> THEN TRUE ELSE Len(blocks[Len(blocks)]) = BlockSize

\* Mutant of Extended: a full tail block is replaced instead of being linked
\* to the new one.
ExtendedUnlinked(e) ==
  IF blocks # << >> /\ Len(blocks[Len(blocks)]) = BlockSize
  THEN [blocks EXCEPT ![Len(blocks)] = << e >>]
  ELSE IF NeedsBlock
  THEN Append(blocks, << e >>)
  ELSE [blocks EXCEPT ![Len(blocks)] = Append(@, e)]

\* The list with e in its tail block, or in a new block behind a full one.
Extended(e) ==
  IF NeedsBlock
  THEN Append(blocks, << e >>)
  ELSE [blocks EXCEPT ![Len(blocks)] = Append(@, e)]

tc_task_backlog_push(e) ==
  /\ phase = "filling"
  /\ Accepted < MaxPushes
  /\ blocks' = Extended(e)
  /\ UNCHANGED << phase, result, block, i, task_chain_continued, answered, refs >>

\* No memory for a block: the caller runs the failure handler itself, and the
\* backlog is as it was.
PushRefused ==
  /\ phase = "filling"
  /\ NeedsBlock
  /\ UNCHANGED vars

\* tc_task_schedule_backlog is called, with a result or with NULL.
BeginSchedule(r) ==
  /\ phase = "filling"
  /\ phase' = "scheduling"
  /\ result' = r
  /\ block' = 1 /\ i' = 0
  /\ task_chain_continued' = FALSE
  /\ UNCHANGED << blocks, answered, refs >>

AtEntry == phase = "scheduling" /\ block <= Len(blocks)

Entry == blocks[block][i + 1]

\* Mutant of Advance: the inner loop ends one entry early.
AdvanceEarly ==
  IF i + 2 < Len(blocks[block])
  THEN i' = i + 1 /\ block' = block
  ELSE i' = 0 /\ block' = block + 1

\* The loops' increments.
Advance ==
  IF i + 1 < Len(blocks[block])
  THEN i' = i + 1 /\ block' = block
  ELSE i' = 0 /\ block' = block + 1

Answered(outcome) ==
  answered' = Append(answered, [waiter |-> Entry, answer |-> outcome])

\* There is no result, or no memory for the arguments of the success handler.
FailEntry ==
  /\ AtEntry
  /\ Answered("failed")
  /\ Advance
  /\ UNCHANGED << blocks, phase, result, task_chain_continued, refs >>

Continues == Entry.priority = CurrentPriority /\ ~task_chain_continued

\* Mutant of ContinueWith: the loop forgets that the chain has its successor.
ContinueForgotten ==
  /\ AtEntry /\ result
  /\ Continues
  /\ Answered("next")
  /\ refs' = refs + 1
  /\ Advance
  /\ UNCHANGED << blocks, phase, result, task_chain_continued >>

\* tc_thread_schedule_next2 accepts the success handler.
ContinueWith ==
  /\ AtEntry /\ result
  /\ Continues
  /\ Answered("next")
  /\ refs' = refs + 1
  /\ task_chain_continued' = TRUE
  /\ Advance
  /\ UNCHANGED << blocks, phase, result >>

\* tc_thread_schedule_new accepts the success handler.
ScheduleNew ==
  /\ AtEntry /\ result
  /\ ~Continues
  /\ Answered("new")
  /\ refs' = refs + 1
  /\ Advance
  /\ UNCHANGED << blocks, phase, result, task_chain_continued >>

\* Mutant of Refused: the release handler is not called.
RefusedUnreleased ==
  /\ AtEntry /\ result
  /\ Answered("failed")
  /\ refs' = refs + 1
  /\ Advance
  /\ UNCHANGED << blocks, phase, result, task_chain_continued >>

\* Whichever of the two refuses: the failure handler runs and the reference
\* taken before the call is released.
Refused ==
  /\ AtEntry /\ result
  /\ Answered("failed")
  /\ refs' = (refs + 1) - 1
  /\ Advance
  /\ UNCHANGED << blocks, phase, result, task_chain_continued >>

EndSchedule ==
  /\ phase = "scheduling"
  /\ block > Len(blocks)
  /\ phase' = "done"
  /\ UNCHANGED << blocks, result, block, i, task_chain_continued, answered, refs >>

\* The blocks are freed; the pointers to them stay as they were.
tc_task_backlog_finalize ==
  /\ phase \in {"filling", "done"}
  /\ phase' = "finalized"
  /\ UNCHANGED << blocks, result, block, i, task_chain_continued, answered, refs >>

Next ==
  \/ \E e \in Entries : tc_task_backlog_push(e)
  \/ PushRefused
  \/ \E r \in BOOLEAN : BeginSchedule(r)
  \/ FailEntry
  \/ ContinueWith
  \/ ScheduleNew
  \/ Refused
  \/ EndSchedule
  \/ tc_task_backlog_finalize

Spec == Init /\ [][Next]_vars

\* The loop runs to its end: handlers do not block.
FairSpec == Spec /\ WF_vars(FailEntry \/ ContinueWith \/ ScheduleNew \/ Refused \/ EndSchedule)

-----------------------------------------------------------------------------
\* Every block but the last is full and none is empty, so that walking the
\* blocks meets the entries one after the other.
Packed ==
  \A n \in 1..Len(blocks) :
    IF n < Len(blocks) THEN Len(blocks[n]) = BlockSize
                       ELSE Len(blocks[n]) \in 1..BlockSize

TypeOK ==
  /\ blocks \in Seq(Seq(Entries))
  /\ Packed
  /\ phase \in {"filling", "scheduling", "done", "finalized"}
  /\ result \in BOOLEAN
  /\ block \in Nat /\ i \in Nat
  /\ task_chain_continued \in BOOLEAN
  /\ answered \in Seq([waiter : Entries, answer : Outcomes])
  /\ refs \in Int

\* The entries in the order in which they were pushed.
Waiting ==
  [n \in 1..Accepted |->
     blocks[((n - 1) \div BlockSize) + 1][((n - 1) % BlockSize) + 1]]

Queue == INSTANCE WaiterQueue WITH
  Waiters <- Entries,
  Answers <- Outcomes,
  waiting <- Waiting,
  closed  <- phase \notin {"filling"},
  answered <- answered

\* The list of blocks is a queue of waiters: across block boundaries and
\* failed allocations tc_task_backlog_push loses and reorders none, and
\* tc_task_schedule_backlog answers each once, oldest first.
Implements == Queue!Spec

\* A task may be followed by one continuation only (tc_thread_schedule_next2
\* fills the slot its own dequeue has freed), so one pass over the backlog
\* schedules at most one, whatever the pool refused before.
OneContinuation ==
  \A m, n \in 1..Len(answered) :
    answered[m].answer = "next" /\ answered[n].answer = "next" => m = n

\* The result is referenced once by each task that was scheduled with it and
\* never by a waiter that was told of a failure.
RefsExact ==
  refs = Cardinality({n \in 1..Len(answered) : answered[n].answer # "failed"})

\* Once the blocking task has ended nobody is left waiting.
EveryoneAnswered ==
  phase = "scheduling" ~> phase = "done" /\ Len(answered) = Accepted
=============================================================================
