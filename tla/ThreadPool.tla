----------------------------- MODULE ThreadPool -----------------------------
(***************************************************************************)
(* The priority thread pool every other part of the server runs on         *)
(* (src/src/thread_pool.c).  Worker threads share one mutex, one condition *)
(* variable (not_empty) and one bounded task buffer per priority.          *)
(*                                                                         *)
(* A critical section of the code is one action, except that a worker's    *)
(* turn in the loop of thread_pool_worker is two: taking the mutex (after  *)
(* creation, after a wake-up, or to account for the task it finished) puts *)
(* it in "loop", where it holds the mutex; leaving "loop" (to run, to wait *)
(* or to exit) gives the mutex up.                                         *)
(*                                                                         *)
(* The circular array of a task buffer is a sequence here; TaskBuffer      *)
(* shows that the array implements it.                                     *)
(***************************************************************************)
EXTENDS Integers, Sequences, FiniteSets

CONSTANTS
  Workers,        \* the worker threads: num_threads of them
  Tasks,          \* task functions with their argument
  ShutdownTasks,  \* functions passed as shutdown_task of schedule_next
  NULL,           \* no function
  Capacity,       \* slots of each buffer; one slot always stays free
  MaxBlocking,    \* max_blocking_threads
  Pattern         \* round_robin_pattern, one priority per letter

HIGH     == 0
MEDIUM   == 1
BLOCKING == 2
LOW      == 3
Priority == 0..3

ASSUME PoolAssumption ==
  /\ IsFiniteSet(Workers)
  /\ Workers # {}
  /\ Tasks \cap ShutdownTasks = {}
  /\ NULL \notin Tasks \cup ShutdownTasks
  /\ Capacity \in [Priority -> Nat \ {0}]
  /\ MaxBlocking \in Nat \ {0}
  /\ Pattern \in Seq(Priority)
  /\ Len(Pattern) > 0

VARIABLES
  task_prio_buffer,   \* [Priority -> Seq(functions)], oldest first
  round_robin_index,
  active_threads,
  blocking_active,
  shutdown,
  pc,                 \* where each worker is in thread_pool_worker
  context,            \* the task each worker runs, and whether it has already
                      \* scheduled the continuation of its chain
  finalized           \* tc_thread_pool_finalize has returned

vars == << task_prio_buffer, round_robin_index, active_threads,
           blocking_active, shutdown, pc, context, finalized >>

TaskFunctions == Tasks \cup ShutdownTasks
PCs       == {"start", "loop", "waiting", "woken", "running", "exited"}
Contexts  == [func : TaskFunctions \cup {NULL}, priority : Priority,
              continued : BOOLEAN]

\* The context without a function that task_buffer_dequeue builds; it stands
\* for a worker that runs nothing.
NoContext == [func |-> NULL, priority |-> LOW, continued |-> FALSE]

NumThreads == Cardinality(Workers)

-----------------------------------------------------------------------------
(* The mutex and the condition variable *)

Waiters == {w \in Workers : pc[w] = "waiting"}
Running == {w \in Workers : pc[w] = "running"}

\* pool->lock is free: only a worker in "loop" keeps it between two actions.
LockFree == ~finalized /\ \A w \in Workers : pc[w] # "loop"

\* p_cond_variable_signal wakes one waiter, if there is one.
Signalled(f) ==
  LET W == {w \in Workers : f[w] = "waiting"}
  IN  IF W = {} THEN {f} ELSE {[f EXCEPT ![w] = "woken"] : w \in W}

\* p_cond_variable_broadcast wakes them all.
Broadcast(f) ==
  [w \in Workers |-> IF f[w] = "waiting" THEN "woken" ELSE f[w]]

-----------------------------------------------------------------------------
(* Task buffers *)

RemainingCapacity(p) == Capacity[p] - 1 - Len(task_prio_buffer[p])

\* Slots only a continuation may use.
ReservedCapacity(p) == IF p = BLOCKING THEN MaxBlocking ELSE NumThreads

\* Mutant of CanEnqueue: < where the code has <= against the reserve.
CanEnqueueOffByOne(p, is_yield) ==
  /\ is_yield \/ RemainingCapacity(p) >= ReservedCapacity(p)
  /\ RemainingCapacity(p) > 0

\* task_buffer_enqueue succeeds.
CanEnqueue(p, is_yield) ==
  /\ is_yield \/ RemainingCapacity(p) > ReservedCapacity(p)
  /\ RemainingCapacity(p) > 0

Enqueue(p, f) ==
  task_prio_buffer' = [task_prio_buffer EXCEPT ![p] = Append(@, f)]

\* Mutant of BufferEligible: > where the code has >= against the blocking cap.
BufferEligibleOffByOne(p, blocking) ==
  /\ task_prio_buffer[p] # << >>
  /\ p = BLOCKING => blocking <= MaxBlocking

BufferEligible(p, blocking) ==
  /\ task_prio_buffer[p] # << >>
  /\ p = BLOCKING => blocking < MaxBlocking

HasTasks(blocking) == \E p \in Priority : BufferEligible(p, blocking)

\* Mutant of PatternIndex: every dequeue starts from the first letter.
PatternIndexStuck == 0

\* The pattern's terminating zero sends the index back to its first letter.
PatternIndex ==
  IF round_robin_index = Len(Pattern) THEN 0 ELSE round_robin_index

\* Mutant of SelectedBuffer: strict priorities, the letter is ignored.
SelectedBufferByPriority(p) ==
  /\ BufferEligible(p, blocking_active)
  /\ \A q \in 0..(p - 1) : ~BufferEligible(q, blocking_active)

\* task_pool_dequeue: the letter's buffer or, failing that, the first eligible
\* one after it in cyclic order.
SelectedBuffer(p) ==
  LET first == Pattern[PatternIndex + 1]
  IN  \E i \in 0..3 :
        /\ p = (first + i) % 4
        /\ BufferEligible(p, blocking_active)
        /\ \A j \in 0..(i - 1) :
             ~BufferEligible((first + j) % 4, blocking_active)

-----------------------------------------------------------------------------
(* thread_pool_worker *)

\* A new worker takes the mutex; a woken one takes it back.
WorkerLock(w) ==
  /\ pc[w] \in {"start", "woken"}
  /\ LockFree
  /\ pc' = [pc EXCEPT ![w] = "loop"]
  /\ UNCHANGED << task_prio_buffer, round_robin_index, active_threads,
                  blocking_active, shutdown, context, finalized >>

WorkerDequeue(w, p) ==
  /\ pc[w] = "loop"
  /\ SelectedBuffer(p)
  /\ round_robin_index' = PatternIndex + 1
  /\ context' = [context EXCEPT ![w] =
                   [func |-> Head(task_prio_buffer[p]), priority |-> p,
                    continued |-> FALSE]]
  /\ task_prio_buffer' = [task_prio_buffer EXCEPT ![p] = Tail(@)]
  /\ active_threads' = active_threads + 1
  /\ blocking_active' =
       IF p = BLOCKING THEN blocking_active + 1 ELSE blocking_active
  /\ pc' = [pc EXCEPT ![w] = "running"]
  /\ UNCHANGED << shutdown, finalized >>

WorkerWait(w) ==
  /\ pc[w] = "loop"
  /\ ~HasTasks(blocking_active)
  /\ ~(shutdown /\ active_threads = 0)
  /\ pc' = [pc EXCEPT ![w] = "waiting"]
  /\ UNCHANGED << task_prio_buffer, round_robin_index, active_threads,
                  blocking_active, shutdown, context, finalized >>

\* Mutant of WorkerExit: running tasks are not waited for.
WorkerExitEarly(w) ==
  /\ pc[w] = "loop"
  /\ ~HasTasks(blocking_active)
  /\ shutdown
  /\ pc' = Broadcast([pc EXCEPT ![w] = "exited"])
  /\ UNCHANGED << task_prio_buffer, round_robin_index, active_threads,
                  blocking_active, shutdown, context, finalized >>

WorkerExit(w) ==
  /\ pc[w] = "loop"
  /\ ~HasTasks(blocking_active)
  /\ shutdown /\ active_threads = 0
  /\ pc' = Broadcast([pc EXCEPT ![w] = "exited"])
  /\ UNCHANGED << task_prio_buffer, round_robin_index, active_threads,
                  blocking_active, shutdown, context, finalized >>

\* The task's function returns: the worker retakes the mutex and accounts for
\* it, signals that a blocking slot is free and, when it was the last task of a
\* pool that shuts down, wakes everyone.
WorkerFinish(w) ==
  LET is_blocking == context[w].priority = BLOCKING
      blocking    == IF is_blocking THEN blocking_active - 1
                                    ELSE blocking_active
      looping     == [pc EXCEPT ![w] = "loop"]
  IN  /\ pc[w] = "running"
      /\ LockFree
      /\ active_threads' = active_threads - 1
      /\ blocking_active' = blocking
      /\ context' = [context EXCEPT ![w] = NoContext]
      /\ \E f \in IF is_blocking THEN Signalled(looping) ELSE {looping} :
           pc' = IF shutdown /\ active_threads = 1 /\ ~HasTasks(blocking)
                 THEN Broadcast(f) ELSE f
      /\ UNCHANGED << task_prio_buffer, round_robin_index, shutdown,
                      finalized >>

\* A condition variable may wake a waiter that nobody signalled.
SpuriousWakeup(w) ==
  /\ pc[w] = "waiting"
  /\ pc' = [pc EXCEPT ![w] = "woken"]
  /\ UNCHANGED << task_prio_buffer, round_robin_index, active_threads,
                  blocking_active, shutdown, context, finalized >>

-----------------------------------------------------------------------------
(* Operations of the pool's clients *)

\* Mutant of ScheduleNew: only the enqueue into an empty pool signals.
ScheduleNewSignalWhenEmpty(new_task, p) ==
  /\ LockFree
  /\ ~shutdown
  /\ CanEnqueue(p, FALSE)
  /\ Enqueue(p, new_task)
  /\ pc' \in IF \A q \in Priority : task_prio_buffer[q] = << >>
            THEN Signalled(pc) ELSE {pc}
  /\ UNCHANGED << round_robin_index, active_threads, blocking_active,
                  shutdown, context, finalized >>

\* tc_thread_schedule_new, from any thread, when it succeeds; refused, it
\* changes nothing.
ScheduleNew(new_task, p) ==
  /\ LockFree
  /\ ~shutdown
  /\ CanEnqueue(p, FALSE)
  /\ Enqueue(p, new_task)
  /\ pc' \in Signalled(pc)
  /\ UNCHANGED << round_robin_index, active_threads, blocking_active,
                  shutdown, context, finalized >>

\* Worker w's task continues its chain with function f.  CanEnqueue is what
\* the code asserts; ContinuationFits is the invariant that it always holds.
\* A task continues its chain at most once, at its own priority, and a shutdown
\* task ends the chain.
Continue(w, f) ==
  LET p == context[w].priority
  IN  /\ CanEnqueue(p, TRUE)
      /\ Enqueue(p, f)
      /\ context' = [context EXCEPT ![w].continued = TRUE]
      /\ pc' \in Signalled(pc)
      /\ UNCHANGED << round_robin_index, active_threads, blocking_active,
                      shutdown, finalized >>

MayContinue(w) ==
  /\ pc[w] = "running"
  /\ context[w].func \in Tasks
  /\ ~context[w].continued
  /\ LockFree

\* Mutant of ScheduleNext: the check for a NULL function is left out.
ScheduleNextUnchecked(w, next_task, shutdown_task) ==
  LET f == IF shutdown THEN shutdown_task ELSE next_task
  IN  MayContinue(w) /\ Continue(w, f)

\* tc_thread_schedule_next: with a NULL function (a chain without a shutdown
\* task, once the pool shuts down) it returns without effect.
ScheduleNext(w, next_task, shutdown_task) ==
  LET f == IF shutdown THEN shutdown_task ELSE next_task
  IN  /\ MayContinue(w)
      /\ f # NULL
      /\ Continue(w, f)

\* tc_thread_schedule_next2 refuses once the pool shuts down.
ScheduleNext2(w, next_task) ==
  /\ MayContinue(w)
  /\ ~shutdown
  /\ Continue(w, next_task)

\* Mutant of Stop: the waiting workers are not woken.
StopWithoutBroadcast ==
  /\ LockFree
  /\ shutdown' = TRUE
  /\ UNCHANGED << task_prio_buffer, round_robin_index, active_threads,
                  blocking_active, pc, context, finalized >>

\* tc_thread_pool_stop, from any thread and any number of times.
Stop ==
  /\ LockFree
  /\ shutdown' = TRUE
  /\ pc' = Broadcast(pc)
  /\ UNCHANGED << task_prio_buffer, round_robin_index, active_threads,
                  blocking_active, context, finalized >>

\* tc_thread_pool_finalize joins every worker, then frees the mutex.
Finalize ==
  /\ ~finalized
  /\ \A w \in Workers : pc[w] = "exited"
  /\ finalized' = TRUE
  /\ UNCHANGED << task_prio_buffer, round_robin_index, active_threads,
                  blocking_active, shutdown, pc, context >>

-----------------------------------------------------------------------------
\* tc_thread_pool_init
Init ==
  /\ task_prio_buffer = [p \in Priority |-> << >>]
  /\ round_robin_index = 0
  /\ active_threads = 0
  /\ blocking_active = 0
  /\ shutdown = FALSE
  /\ pc = [w \in Workers |-> "start"]
  /\ context = [w \in Workers |-> NoContext]
  /\ finalized = FALSE

LeaveLoop(w) ==
  \/ \E p \in Priority : WorkerDequeue(w, p)
  \/ WorkerWait(w)
  \/ WorkerExit(w)

\* The pool is gone.
Terminated == finalized /\ UNCHANGED vars

Next ==
  \/ \E w \in Workers :
       \/ WorkerLock(w)
       \/ LeaveLoop(w)
       \/ WorkerFinish(w)
       \/ SpuriousWakeup(w)
       \/ \E t \in Tasks, s \in ShutdownTasks \cup {NULL} :
            ScheduleNext(w, t, s)
       \/ \E t \in Tasks : ScheduleNext2(w, t)
  \/ \E t \in Tasks, p \in Priority : ScheduleNew(t, p)
  \/ Stop
  \/ Finalize
  \/ Terminated

Spec == Init /\ [][Next]_vars

\* The holder of the mutex goes on; a thread that wants the mutex and finds it
\* free again and again gets it; task functions return; the owner of the pool
\* calls finalize.  Nobody has to schedule anything or to stop the pool.
Fairness ==
  /\ \A w \in Workers : /\ WF_vars(LeaveLoop(w))
                        /\ SF_vars(WorkerLock(w))
                        /\ SF_vars(WorkerFinish(w))
  /\ WF_vars(Finalize)

FairSpec == Spec /\ Fairness

-----------------------------------------------------------------------------
(* Properties *)

\* Every variable keeps its type, and the round-robin index stays on a letter of
\* the pattern or on its terminating zero.
TypeOK ==
  /\ task_prio_buffer \in [Priority -> Seq(TaskFunctions)]
  /\ round_robin_index \in 0..Len(Pattern)
  /\ active_threads \in Int
  /\ blocking_active \in Int
  /\ shutdown \in BOOLEAN
  /\ pc \in [Workers -> PCs]
  /\ context \in [Workers -> Contexts]
  /\ finalized \in BOOLEAN

\* Workers whose task may still continue a chain of priority p.
Pending(p) ==
  {w \in Running : context[w].priority = p /\ ~context[w].continued}

\* The assertions of tc_thread_schedule_next and tc_thread_schedule_next2
\* ("Failed to enqueue next task in task chain") never fail: each buffer has
\* room for a continuation of every running task that has not continued yet,
\* however many new tasks were accepted before.
ContinuationFits ==
  \A p \in Priority : Cardinality(Pending(p)) <= RemainingCapacity(p)

RunningBlocking == {w \in Running : context[w].priority = BLOCKING}

\* active_threads and blocking_active count exactly the workers that run a
\* task and a blocking task, and never more than max_blocking_threads blocking
\* tasks run at once.
CountersExact ==
  /\ active_threads = Cardinality(Running)
  /\ blocking_active = Cardinality(RunningBlocking)
  /\ blocking_active <= MaxBlocking

\* Workers that hold the mutex or will look at the buffers once they get it.
Awake == {w \in Workers : pc[w] \in {"start", "woken", "loop"}}

\* How many blocking tasks could start now.
BlockingStartable ==
  LET queued == Len(task_prio_buffer[BLOCKING])
      slots  == MaxBlocking - blocking_active
  IN  IF queued < slots THEN queued ELSE slots

\* How many queued tasks could start now if enough workers looked.
Startable ==
  Len(task_prio_buffer[HIGH]) + Len(task_prio_buffer[MEDIUM])
    + BlockingStartable + Len(task_prio_buffer[LOW])

\* No wake-up is lost: a worker sleeps on not_empty only while the workers
\* that are awake suffice for all the work that could start, so one signal per
\* enqueue and per freed blocking slot is enough.
NoLostWakeup == Waiters # {} => Startable <= Cardinality(Awake)

\* When a worker has left, the pool shuts down, every task has run and every
\* buffer is empty, and so it stays: no accepted task is dropped by shutdown.
DrainedAtExit ==
  (\E w \in Workers : pc[w] = "exited") =>
    /\ shutdown
    /\ Running = {}
    /\ \A p \in Priority : task_prio_buffer[p] = << >>

\* A pool that is stopped lets tc_thread_pool_finalize return: every chain
\* ends, every worker notices and exits.
StopCompletes == shutdown ~> finalized

\* Every accepted task is eventually run, whatever else is scheduled at any
\* priority and however long the blocking buffer is at its limit.
NoStarvation ==
  \A t \in Tasks, p \in Priority :
    (\E i \in DOMAIN task_prio_buffer[p] : task_prio_buffer[p][i] = t)
      ~> (\E w \in Workers : context[w].func = t /\ context[w].priority = p)
=============================================================================
