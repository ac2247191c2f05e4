-------------------------- MODULE ThreadPoolProofs --------------------------
(***************************************************************************)
(* Proofs that the safety invariants of ThreadPool hold for every number   *)
(* of workers, every capacity, every blocking limit and every pattern, and *)
(* that the pattern bounds how often a buffer is passed over.              *)
(***************************************************************************)
EXTENDS ThreadPoolRoundRobin, FiniteSetTheorems, TLAPS

-----------------------------------------------------------------------------
(* Facts about sets of workers and about the condition variable *)

\* Sets of workers are finite.
LEMMA WorkerSets ==
  ASSUME NEW S \in SUBSET Workers
  PROVE  IsFiniteSet(S) /\ Cardinality(S) \in Nat
  BY PoolAssumption, FS_Subset, FS_CardinalityType

\* A set of workers counts at most num_threads.
LEMMA WorkerSetBound ==
  ASSUME NEW S \in SUBSET Workers
  PROVE  Cardinality(S) <= NumThreads
  BY PoolAssumption, FS_Subset DEF NumThreads

\* One worker more.
LEMMA WorkerAdded ==
  ASSUME NEW S \in SUBSET Workers, NEW w \in Workers, w \notin S
  PROVE  Cardinality(S \cup {w}) = Cardinality(S) + 1
  BY WorkerSets, FS_AddElement

\* One worker less.
LEMMA WorkerRemoved ==
  ASSUME NEW S \in SUBSET Workers, NEW w \in S
  PROVE  Cardinality(S \ {w}) = Cardinality(S) - 1
  BY WorkerSets, FS_RemoveElement

\* A smaller set of workers counts less.
LEMMA WorkerSubset ==
  ASSUME NEW T \in SUBSET Workers, NEW S \in SUBSET T
  PROVE  Cardinality(S) <= Cardinality(T)
  BY WorkerSets, FS_Subset

\* num_threads is a positive number.
LEMMA NumThreadsType == NumThreads \in Nat
  BY PoolAssumption, FS_CardinalityType DEF NumThreads

\* The pattern has at least one letter.
LEMMA PatternLength == Len(Pattern) \in Nat \ {0}
<1>1. Pattern \in Seq(Priority) /\ Len(Pattern) > 0
  BY PoolAssumption
<1> QED
  BY <1>1

\* A signal leaves everyone where they are when nobody waits, and otherwise
\* wakes exactly one waiter.
LEMMA SignalledEffect ==
  ASSUME NEW f \in [Workers -> PCs], NEW g \in Signalled(f)
  PROVE  /\ g \in [Workers -> PCs]
         /\ \/ g = f /\ \A w \in Workers : f[w] # "waiting"
            \/ \E x \in Workers : f[x] = "waiting" /\ g = [f EXCEPT ![x] = "woken"]
  BY DEF Signalled, PCs

\* A broadcast leaves nobody waiting and moves only the waiters.
LEMMA BroadcastEffect ==
  ASSUME NEW f \in [Workers -> PCs]
  PROVE  /\ Broadcast(f) \in [Workers -> PCs]
         /\ \A w \in Workers : Broadcast(f)[w] =
              IF f[w] = "waiting" THEN "woken" ELSE f[w]
  BY DEF Broadcast, PCs

-----------------------------------------------------------------------------
(* Type correctness *)

\* Every step of the pool preserves the types of its variables.
LEMMA TypeStep == TypeOK /\ [Next]_vars => TypeOK'
<1> SUFFICES ASSUME TypeOK, [Next]_vars
             PROVE  TypeOK'
  OBVIOUS
<1> USE DEF TypeOK
<1>t. /\ \A w \in Workers, c \in PCs : [pc EXCEPT ![w] = c] \in [Workers -> PCs]
      /\ NoContext \in Contexts
      /\ HIGH \in Priority /\ MEDIUM \in Priority
      /\ BLOCKING \in Priority /\ LOW \in Priority
  BY DEF NoContext, Contexts, Priority, HIGH, MEDIUM, BLOCKING, LOW
<1>q. ASSUME NEW p \in Priority, NEW f \in TaskFunctions, Enqueue(p, f)
      PROVE  task_prio_buffer' \in [Priority -> Seq(TaskFunctions)]
  BY <1>q DEF Enqueue
<1>1. ASSUME NEW w \in Workers, WorkerLock(w)
      PROVE  TypeOK'
  BY <1>1 DEF WorkerLock, PCs
<1>2. ASSUME NEW w \in Workers, NEW p \in Priority, WorkerDequeue(w, p)
      PROVE  TypeOK'
  <2>1. PatternIndex + 1 \in 0..Len(Pattern)
    BY PoolAssumption DEF PatternIndex
  <2>2. /\ task_prio_buffer[p] \in Seq(TaskFunctions)
        /\ task_prio_buffer[p] # << >>
    BY <1>2 DEF WorkerDequeue, SelectedBuffer, BufferEligible
  <2>3. /\ Head(task_prio_buffer[p]) \in TaskFunctions
        /\ Tail(task_prio_buffer[p]) \in Seq(TaskFunctions)
    BY <2>2
  <2>4. context' \in [Workers -> Contexts]
    BY <1>2, <2>3 DEF WorkerDequeue, Contexts
  <2>5. task_prio_buffer' \in [Priority -> Seq(TaskFunctions)]
    BY <1>2, <2>3 DEF WorkerDequeue
  <2> QED
    BY <1>2, <2>1, <2>4, <2>5 DEF WorkerDequeue, PCs
<1>3. ASSUME NEW w \in Workers, WorkerWait(w)
      PROVE  TypeOK'
  BY <1>3 DEF WorkerWait, PCs
<1>4. ASSUME NEW w \in Workers, WorkerExit(w)
      PROVE  TypeOK'
  <2>1. [pc EXCEPT ![w] = "exited"] \in [Workers -> PCs]
    BY DEF PCs
  <2>2. pc' \in [Workers -> PCs]
    BY <1>4, <2>1, BroadcastEffect DEF WorkerExit
  <2> QED
    BY <1>4, <2>2 DEF WorkerExit
<1>5. ASSUME NEW w \in Workers, WorkerFinish(w)
      PROVE  TypeOK'
  <2> DEFINE looping == [pc EXCEPT ![w] = "loop"]
  <2>1. looping \in [Workers -> PCs]
    BY DEF PCs
  <2>2. PICK f : /\ f \in Signalled(looping) \/ f = looping
                 /\ pc' = Broadcast(f) \/ pc' = f
    BY <1>5 DEF WorkerFinish
  <2>3. f \in [Workers -> PCs]
    BY <2>1, <2>2, SignalledEffect
  <2>4. pc' \in [Workers -> PCs]
    BY <2>2, <2>3, BroadcastEffect
  <2>5. context' \in [Workers -> Contexts]
    BY <1>5, <1>t DEF WorkerFinish
  <2>6. active_threads' \in Int /\ blocking_active' \in Int
    BY <1>5 DEF WorkerFinish
  <2> QED
    BY <1>5, <2>4, <2>5, <2>6 DEF WorkerFinish
<1>6. ASSUME NEW w \in Workers, SpuriousWakeup(w)
      PROVE  TypeOK'
  BY <1>6 DEF SpuriousWakeup, PCs
<1>c. ASSUME NEW w \in Workers, NEW f \in TaskFunctions, Continue(w, f)
      PROVE  TypeOK'
  <2>1. context[w].priority \in Priority
    BY DEF Contexts
  <2>2. task_prio_buffer' \in [Priority -> Seq(TaskFunctions)]
    BY <1>c, <1>q, <2>1 DEF Continue
  <2>3. context' \in [Workers -> Contexts]
    BY <1>c DEF Continue, Contexts
  <2>4. pc' \in [Workers -> PCs]
    BY <1>c, SignalledEffect DEF Continue
  <2> QED
    BY <1>c, <2>2, <2>3, <2>4 DEF Continue
<1>7. ASSUME NEW w \in Workers, NEW t \in Tasks, NEW s \in ShutdownTasks \cup {NULL},
             ScheduleNext(w, t, s)
      PROVE  TypeOK'
  BY <1>7, <1>c DEF ScheduleNext, TaskFunctions
<1>8. ASSUME NEW w \in Workers, NEW t \in Tasks, ScheduleNext2(w, t)
      PROVE  TypeOK'
  BY <1>8, <1>c DEF ScheduleNext2, TaskFunctions
<1>9. ASSUME NEW t \in Tasks, NEW p \in Priority, ScheduleNew(t, p)
      PROVE  TypeOK'
  <2>1. task_prio_buffer' \in [Priority -> Seq(TaskFunctions)]
    BY <1>9, <1>q DEF ScheduleNew, TaskFunctions
  <2>2. pc' \in [Workers -> PCs]
    BY <1>9, SignalledEffect DEF ScheduleNew
  <2> QED
    BY <1>9, <2>1, <2>2 DEF ScheduleNew
<1>10. ASSUME Stop
       PROVE  TypeOK'
  BY <1>10, BroadcastEffect DEF Stop
<1>11. ASSUME Finalize
       PROVE  TypeOK'
  BY <1>11 DEF Finalize
<1>12. ASSUME UNCHANGED vars
       PROVE  TypeOK'
  BY <1>12 DEF vars
<1> QED
  BY <1>1, <1>2, <1>3, <1>4, <1>5, <1>6, <1>7, <1>8, <1>9, <1>10, <1>11, <1>12
     DEF Next, LeaveLoop, Terminated

\* The initial state has the types.
LEMMA InitType == Init => TypeOK
<1> SUFFICES ASSUME Init
             PROVE  TypeOK
  OBVIOUS
<1>1. NoContext \in Contexts
  BY DEF NoContext, Contexts, Priority, LOW
<1>2. context \in [Workers -> Contexts]
  BY <1>1 DEF Init
<1>3. task_prio_buffer \in [Priority -> Seq(TaskFunctions)]
  BY DEF Init
<1>4. round_robin_index \in 0..Len(Pattern)
  BY PatternLength DEF Init
<1>5. pc \in [Workers -> PCs]
  BY DEF Init, PCs
<1>6. shutdown \in BOOLEAN /\ finalized \in BOOLEAN
  BY DEF Init
<1>7. active_threads \in Int /\ blocking_active \in Int
  BY DEF Init
<1> QED
  BY <1>2, <1>3, <1>4, <1>5, <1>6, <1>7 DEF TypeOK

\* The variables of the pool keep their types in every behaviour.
THEOREM TypeCorrect == Spec => []TypeOK
  BY InitType, TypeStep, PTL DEF Spec

-----------------------------------------------------------------------------
(* What the steps do to the workers *)

\* Between f and g some waiters were woken and nobody else moved.
OnlyWakes(f, g) ==
  \A x \in Workers : g[x] = f[x] \/ (f[x] = "waiting" /\ g[x] = "woken")

\* Signals and broadcasts only wake.
LEMMA SignalsOnlyWake ==
  ASSUME NEW f \in [Workers -> PCs]
  PROVE  /\ OnlyWakes(f, Broadcast(f))
         /\ \A g \in Signalled(f) : OnlyWakes(f, g)
<1>1. OnlyWakes(f, Broadcast(f))
  BY BroadcastEffect DEF OnlyWakes
<1>2. ASSUME NEW g \in Signalled(f)
      PROVE  OnlyWakes(f, g)
  <2>1. CASE g = f
    BY <2>1 DEF OnlyWakes
  <2>2. CASE \E x \in Workers : f[x] = "waiting" /\ g = [f EXCEPT ![x] = "woken"]
    BY <2>2 DEF OnlyWakes
  <2> QED
    BY <2>1, <2>2, SignalledEffect
<1> QED
  BY <1>1, <1>2

\* Finishing a task takes worker w to "loop" and otherwise only wakes.
LEMMA FinishEffect ==
  ASSUME TypeOK, NEW w \in Workers, WorkerFinish(w)
  PROVE  /\ pc'[w] = "loop"
         /\ \A x \in Workers \ {w} :
              pc'[x] = pc[x] \/ (pc[x] = "waiting" /\ pc'[x] = "woken")
<1> DEFINE looping == [pc EXCEPT ![w] = "loop"]
<1>1. /\ looping \in [Workers -> PCs]
      /\ looping[w] = "loop"
      /\ \A x \in Workers \ {w} : looping[x] = pc[x]
  BY DEF TypeOK, PCs
<1>2. PICK f : /\ f \in Signalled(looping) \/ f = looping
               /\ pc' = Broadcast(f) \/ pc' = f
  BY DEF WorkerFinish
<1> HIDE DEF looping
<1>3. f \in [Workers -> PCs] /\ OnlyWakes(looping, f)
  BY <1>1, <1>2, SignalledEffect, SignalsOnlyWake DEF OnlyWakes
<1>4. OnlyWakes(f, pc')
  BY <1>2, <1>3, SignalsOnlyWake DEF OnlyWakes
<1> QED
  BY <1>1, <1>3, <1>4 DEF OnlyWakes

\* Steps other than a dequeue and a finish leave the running workers, their
\* priorities and the two counters alone.
LEMMA QuietStep ==
  ASSUME TypeOK, [Next]_vars,
         \A w \in Workers : ~WorkerFinish(w),
         \A w \in Workers, p \in Priority : ~WorkerDequeue(w, p)
  PROVE  /\ Running' = Running
         /\ \A w \in Workers : context'[w].priority = context[w].priority
         /\ \A w \in Workers : context[w].continued => context'[w].continued
         /\ UNCHANGED << active_threads, blocking_active >>
<1> DEFINE SamePc == \A x \in Workers : pc'[x] = "running" <=> pc[x] = "running"
           SameContext ==
             /\ \A x \in Workers : context'[x].priority = context[x].priority
             /\ \A x \in Workers : context[x].continued => context'[x].continued
           SameCounters == UNCHANGED << active_threads, blocking_active >>
           Quiet == SamePc /\ SameContext /\ SameCounters
<1>p. pc \in [Workers -> PCs] /\ context \in [Workers -> Contexts]
  BY DEF TypeOK
<1>w. ASSUME OnlyWakes(pc, pc')
      PROVE  SamePc
  BY <1>w DEF OnlyWakes
<1>1. ASSUME NEW w \in Workers, WorkerLock(w)
      PROVE  Quiet
  BY <1>1, <1>p DEF WorkerLock
<1>3. ASSUME NEW w \in Workers, WorkerWait(w)
      PROVE  Quiet
  BY <1>3, <1>p DEF WorkerWait
<1>4. ASSUME NEW w \in Workers, WorkerExit(w)
      PROVE  Quiet
  <2>1. [pc EXCEPT ![w] = "exited"] \in [Workers -> PCs]
    BY <1>p DEF PCs
  <2>2. OnlyWakes([pc EXCEPT ![w] = "exited"], pc')
    BY <1>4, <2>1, SignalsOnlyWake DEF WorkerExit
  <2>3. SamePc
    BY <1>4, <1>p, <2>2 DEF WorkerExit, OnlyWakes
  <2> QED
    BY <1>4, <2>3 DEF WorkerExit
<1>6. ASSUME NEW w \in Workers, SpuriousWakeup(w)
      PROVE  Quiet
  BY <1>6, <1>p DEF SpuriousWakeup
<1>c. ASSUME NEW w \in Workers, NEW f, Continue(w, f)
      PROVE  Quiet
  <2>1. SamePc
    BY <1>c, <1>p, <1>w, SignalsOnlyWake DEF Continue
  <2>2. SameContext
    BY <1>c, <1>p DEF Continue, Contexts
  <2> QED
    BY <1>c, <2>1, <2>2 DEF Continue
<1>7. ASSUME NEW w \in Workers, NEW t, NEW s, ScheduleNext(w, t, s)
      PROVE  Quiet
  BY <1>7, <1>c DEF ScheduleNext
<1>8. ASSUME NEW w \in Workers, NEW t, ScheduleNext2(w, t)
      PROVE  Quiet
  BY <1>8, <1>c DEF ScheduleNext2
<1>9. ASSUME NEW t, NEW p, ScheduleNew(t, p)
      PROVE  Quiet
  <2>1. SamePc
    BY <1>9, <1>p, <1>w, SignalsOnlyWake DEF ScheduleNew
  <2> QED
    BY <1>9, <2>1 DEF ScheduleNew
<1>10. ASSUME Stop
       PROVE  Quiet
  <2>1. SamePc
    BY <1>10, <1>p, <1>w, SignalsOnlyWake DEF Stop
  <2> QED
    BY <1>10, <2>1 DEF Stop
<1>11. ASSUME Finalize
       PROVE  Quiet
  BY <1>11 DEF Finalize
<1>12. ASSUME UNCHANGED vars
       PROVE  Quiet
  BY <1>12 DEF vars
<1> HIDE DEF Quiet
<1>13. Quiet
  BY <1>1, <1>3, <1>4, <1>6, <1>7, <1>8, <1>9, <1>10, <1>11, <1>12
     DEF Next, LeaveLoop, Terminated
<1> QED
  BY <1>13 DEF Quiet, Running

\* A dequeue makes worker w run a task of priority p that has not continued,
\* and takes one task from p's buffer.
LEMMA DequeueEffect ==
  ASSUME TypeOK, NEW w \in Workers, NEW p \in Priority, WorkerDequeue(w, p)
  PROVE  /\ w \notin Running
         /\ Running' = Running \cup {w}
         /\ context'[w].priority = p /\ ~context'[w].continued
         /\ \A x \in Workers \ {w} : context'[x] = context[x]
         /\ Len(task_prio_buffer[p]) > 0
         /\ Len(task_prio_buffer'[p]) = Len(task_prio_buffer[p]) - 1
         /\ \A q \in Priority \ {p} : task_prio_buffer'[q] = task_prio_buffer[q]
         /\ p = BLOCKING => blocking_active < MaxBlocking
<1>1. BufferEligible(p, blocking_active)
  BY DEF WorkerDequeue, SelectedBuffer
<1>2. /\ task_prio_buffer[p] \in Seq(TaskFunctions)
      /\ task_prio_buffer[p] # << >>
  BY <1>1 DEF BufferEligible, TypeOK
<1>3. /\ Len(task_prio_buffer[p]) > 0
      /\ Len(Tail(task_prio_buffer[p])) = Len(task_prio_buffer[p]) - 1
  BY <1>2
<1>4. w \notin Running /\ Running' = Running \cup {w}
  BY DEF WorkerDequeue, Running, TypeOK
<1>5. /\ context'[w].priority = p /\ ~context'[w].continued
      /\ \A x \in Workers \ {w} : context'[x] = context[x]
  BY DEF WorkerDequeue, TypeOK
<1>6. /\ task_prio_buffer'[p] = Tail(task_prio_buffer[p])
      /\ \A q \in Priority \ {p} : task_prio_buffer'[q] = task_prio_buffer[q]
  BY DEF WorkerDequeue, TypeOK
<1> QED
  BY <1>1, <1>3, <1>4, <1>5, <1>6 DEF BufferEligible

\* An enqueue makes p's buffer one longer and leaves the others alone.
LEMMA EnqueueEffect ==
  ASSUME TypeOK, NEW p \in Priority, NEW f, Enqueue(p, f)
  PROVE  /\ Len(task_prio_buffer'[p]) = Len(task_prio_buffer[p]) + 1
         /\ \A q \in Priority \ {p} : task_prio_buffer'[q] = task_prio_buffer[q]
<1>1. task_prio_buffer[p] \in Seq(TaskFunctions)
  BY DEF TypeOK
<1>2. Len(Append(task_prio_buffer[p], f)) = Len(task_prio_buffer[p]) + 1
  BY <1>1
<1> QED
  BY <1>2 DEF Enqueue, TypeOK

\* Finishing takes w out of the running workers and leaves the others' contexts.
LEMMA FinishRunning ==
  ASSUME TypeOK, NEW w \in Workers, WorkerFinish(w)
  PROVE  /\ w \in Running
         /\ Running' = Running \ {w}
         /\ \A x \in Workers \ {w} : context'[x] = context[x]
         /\ UNCHANGED task_prio_buffer
<1>1. w \in Running
  BY DEF WorkerFinish, Running
<1>2. Running' = Running \ {w}
  BY FinishEffect DEF Running
<1> QED
  BY <1>1, <1>2 DEF WorkerFinish, TypeOK

-----------------------------------------------------------------------------
(* The counters *)

\* Every step keeps the counters equal to what they count.
LEMMA CountersStep == TypeOK /\ CountersExact /\ [Next]_vars => CountersExact'
<1> SUFFICES ASSUME TypeOK, CountersExact, [Next]_vars
             PROVE  CountersExact'
  OBVIOUS
<1>s. Running \in SUBSET Workers /\ RunningBlocking \in SUBSET Workers
  BY DEF Running, RunningBlocking
<1>1. ASSUME NEW w \in Workers, NEW p \in Priority, WorkerDequeue(w, p)
      PROVE  CountersExact'
  <2>1. active_threads' = Cardinality(Running')
    <3>1. w \notin Running /\ Running' = Running \cup {w}
      BY <1>1, DequeueEffect
    <3>2. Cardinality(Running') = Cardinality(Running) + 1
      BY <1>s, <3>1, WorkerAdded
    <3> QED
      BY <1>1, <3>2 DEF WorkerDequeue, CountersExact
  <2>2. CASE p = BLOCKING
    <3>1. w \notin RunningBlocking /\ RunningBlocking' = RunningBlocking \cup {w}
      BY <1>1, <2>2, DequeueEffect DEF RunningBlocking, Running
    <3>2. Cardinality(RunningBlocking') = Cardinality(RunningBlocking) + 1
      BY <1>s, <3>1, WorkerAdded
    <3>3. blocking_active' = blocking_active + 1 /\ blocking_active < MaxBlocking
      BY <1>1, <2>2, DequeueEffect DEF WorkerDequeue
    <3> QED
      BY <2>1, <3>2, <3>3, PoolAssumption DEF CountersExact, TypeOK
  <2>3. CASE p # BLOCKING
    <3>1. RunningBlocking' = RunningBlocking
      BY <1>1, <2>3, DequeueEffect DEF RunningBlocking, Running
    <3>2. blocking_active' = blocking_active
      BY <1>1, <2>3 DEF WorkerDequeue
    <3> QED
      BY <2>1, <3>1, <3>2 DEF CountersExact
  <2> QED
    BY <2>2, <2>3
<1>2. ASSUME NEW w \in Workers, WorkerFinish(w)
      PROVE  CountersExact'
  <2>1. active_threads' = Cardinality(Running')
    BY <1>2, <1>s, FinishRunning, WorkerRemoved DEF WorkerFinish, CountersExact
  <2>2. CASE context[w].priority = BLOCKING
    <3>1. w \in RunningBlocking /\ RunningBlocking' = RunningBlocking \ {w}
      BY <1>2, <2>2, FinishRunning DEF RunningBlocking, Running
    <3>2. Cardinality(RunningBlocking') = Cardinality(RunningBlocking) - 1
      BY <1>s, <3>1, WorkerRemoved
    <3>3. blocking_active' = blocking_active - 1
      BY <1>2, <2>2 DEF WorkerFinish
    <3> QED
      BY <2>1, <3>2, <3>3, PoolAssumption DEF CountersExact, TypeOK
  <2>3. CASE context[w].priority # BLOCKING
    <3>1. RunningBlocking' = RunningBlocking
      BY <1>2, <2>3, FinishRunning DEF RunningBlocking, Running
    <3>2. blocking_active' = blocking_active
      BY <1>2, <2>3 DEF WorkerFinish
    <3> QED
      BY <2>1, <3>1, <3>2 DEF CountersExact
  <2> QED
    BY <2>2, <2>3
<1>3. ASSUME \A w \in Workers : ~WorkerFinish(w),
             \A w \in Workers, p \in Priority : ~WorkerDequeue(w, p)
      PROVE  CountersExact'
  <2>1. /\ Running' = Running
        /\ \A w \in Workers : context'[w].priority = context[w].priority
        /\ UNCHANGED << active_threads, blocking_active >>
    BY <1>3, QuietStep
  <2>2. RunningBlocking' = RunningBlocking
    BY <2>1, <1>s DEF RunningBlocking, Running
  <2> QED
    BY <2>1, <2>2 DEF CountersExact
<1> QED
  BY <1>1, <1>2, <1>3

-----------------------------------------------------------------------------
(* Room for continuations *)

\* Every step leaves each buffer room for the continuations that may come.
LEMMA ContinuationStep ==
  TypeOK /\ CountersExact /\ ContinuationFits /\ [Next]_vars => ContinuationFits'
<1> SUFFICES ASSUME TypeOK, CountersExact, ContinuationFits, [Next]_vars,
                    NEW q \in Priority
             PROVE  Cardinality(Pending(q)') <= RemainingCapacity(q)'
  BY DEF ContinuationFits
<1>s. Pending(q) \in SUBSET Workers /\ Pending(q)' \in SUBSET Workers
  BY DEF Pending, Running
<1>n. Cardinality(Pending(q)) \in Nat /\ Cardinality(Pending(q)') \in Nat
  BY <1>s, WorkerSets
<1>c. Capacity[q] \in Nat
  BY PoolAssumption
<1>l. Len(task_prio_buffer[q]) \in Nat
  BY DEF TypeOK
<1>f. Cardinality(Pending(q)) <= Capacity[q] - 1 - Len(task_prio_buffer[q])
  BY DEF ContinuationFits, RemainingCapacity
<1>1. ASSUME NEW w \in Workers, NEW p \in Priority, WorkerDequeue(w, p)
      PROVE  Cardinality(Pending(q)') <= RemainingCapacity(q)'
  <2>1. CASE q = p
    <3>1. w \notin Pending(q) /\ Pending(q)' = Pending(q) \cup {w}
      BY <1>1, <2>1, DequeueEffect DEF Pending, Running
    <3>2. Cardinality(Pending(q)') = Cardinality(Pending(q)) + 1
      BY <1>s, <3>1, WorkerAdded
    <3>3. Len(task_prio_buffer'[q]) = Len(task_prio_buffer[q]) - 1
      BY <1>1, <2>1, DequeueEffect
    <3> QED
      BY SMTT(30), <1>n, <1>c, <1>l, <1>f, <3>2, <3>3 DEF RemainingCapacity
  <2>2. CASE q # p
    <3>1. Pending(q)' = Pending(q)
      BY <1>1, <2>2, DequeueEffect DEF Pending, Running
    <3>2. task_prio_buffer'[q] = task_prio_buffer[q]
      BY <1>1, <2>2, DequeueEffect
    <3> QED
      BY <1>f, <3>1, <3>2 DEF RemainingCapacity
  <2> QED
    BY <2>1, <2>2
<1>2. ASSUME Pending(q)' \subseteq Pending(q), task_prio_buffer'[q] = task_prio_buffer[q]
      PROVE  Cardinality(Pending(q)') <= RemainingCapacity(q)'
  <2>1. Cardinality(Pending(q)') <= Cardinality(Pending(q))
    BY <1>2, <1>s, WorkerSubset
  <2> QED
    BY <1>2, <1>n, <1>c, <1>l, <1>f, <2>1 DEF RemainingCapacity
<1>3. ASSUME NEW w \in Workers, WorkerFinish(w)
      PROVE  Cardinality(Pending(q)') <= RemainingCapacity(q)'
  <2>1. Pending(q)' \subseteq Pending(q)
    BY <1>3, FinishRunning DEF Pending, Running
  <2> QED
    BY <1>2, <1>3, <2>1, FinishRunning
<1>4. ASSUME \A w \in Workers : ~WorkerFinish(w),
             \A w \in Workers, p \in Priority : ~WorkerDequeue(w, p)
      PROVE  Cardinality(Pending(q)') <= RemainingCapacity(q)'
  <2>q. /\ Running' = Running
        /\ \A w \in Workers : context'[w].priority = context[w].priority
        /\ \A w \in Workers : context[w].continued => context'[w].continued
        /\ UNCHANGED << active_threads, blocking_active >>
    BY <1>4, QuietStep
  <2>s. Pending(q)' \subseteq Pending(q)
    BY <2>q DEF Pending, Running
  <2>1. CASE UNCHANGED task_prio_buffer
    BY <1>2, <2>s, <2>1
  <2>2. ASSUME NEW t, NEW p \in Priority, ScheduleNew(t, p)
        PROVE  Cardinality(Pending(q)') <= RemainingCapacity(q)'
    <3>1. CASE q # p
      <4>1. task_prio_buffer'[q] = task_prio_buffer[q]
        BY <2>2, <3>1, EnqueueEffect DEF ScheduleNew
      <4> QED
        BY <1>2, <2>s, <4>1
    <3>2. CASE q = p
      <4>1. Len(task_prio_buffer'[q]) = Len(task_prio_buffer[q]) + 1
        BY <2>2, <3>2, EnqueueEffect DEF ScheduleNew
      <4>2. Capacity[q] - 1 - Len(task_prio_buffer[q]) > ReservedCapacity(q)
        BY <2>2, <3>2 DEF ScheduleNew, CanEnqueue, RemainingCapacity
      <4>3. Cardinality(Pending(q)') <= ReservedCapacity(q)
        <5>1. CASE q = BLOCKING
          <6>1. Pending(q)' \subseteq RunningBlocking
            BY <2>s, <5>1 DEF Pending, RunningBlocking
          <6>2. RunningBlocking \in SUBSET Workers
            BY DEF RunningBlocking, Running
          <6>3. /\ Cardinality(Pending(q)') <= Cardinality(RunningBlocking)
                /\ Cardinality(RunningBlocking) \in Nat
            BY <6>1, <6>2, WorkerSubset, WorkerSets
          <6> QED
            BY <1>n, <5>1, <6>3, PoolAssumption DEF CountersExact, ReservedCapacity
        <5>2. CASE q # BLOCKING
          BY <1>s, <5>2, WorkerSetBound DEF ReservedCapacity
        <5> QED
          BY <5>1, <5>2
      <4>4. ReservedCapacity(q) \in Nat
        BY PoolAssumption, NumThreadsType DEF ReservedCapacity
      <4> QED
        BY <1>n, <1>c, <1>l, <4>1, <4>2, <4>3, <4>4 DEF RemainingCapacity
    <3> QED
      BY <3>1, <3>2
  <2>3. ASSUME NEW w \in Workers, NEW f, MayContinue(w), Continue(w, f)
        PROVE  Cardinality(Pending(q)') <= RemainingCapacity(q)'
    <3>p. context[w].priority \in Priority
      BY DEF TypeOK, Contexts
    <3>1. CASE q # context[w].priority
      <4>1. task_prio_buffer'[q] = task_prio_buffer[q]
        BY <2>3, <3>p, <3>1, EnqueueEffect DEF Continue
      <4> QED
        BY <1>2, <2>s, <4>1
    <3>2. CASE q = context[w].priority
      <4>1. Len(task_prio_buffer'[q]) = Len(task_prio_buffer[q]) + 1
        BY <2>3, <3>2, EnqueueEffect DEF Continue
      <4>2. w \in Pending(q)
        BY <2>3, <3>2 DEF MayContinue, Pending, Running
      <4>3. context'[w].continued
        BY <2>3 DEF Continue, TypeOK, Contexts
      <4>4. Pending(q)' \in SUBSET (Pending(q) \ {w})
        BY <2>s, <4>3 DEF Pending
      <4>5. Cardinality(Pending(q) \ {w}) = Cardinality(Pending(q)) - 1
        BY <1>s, <4>2, WorkerRemoved
      <4>6. Cardinality(Pending(q)') <= Cardinality(Pending(q) \ {w})
        BY <1>s, <4>4, WorkerSubset
      <4> QED
        BY <1>n, <1>c, <1>l, <1>f, <4>1, <4>5, <4>6 DEF RemainingCapacity
    <3> QED
      BY <3>1, <3>2
  <2>4. ASSUME NEW w \in Workers,
               \/ WorkerLock(w) \/ WorkerWait(w) \/ WorkerExit(w)
               \/ SpuriousWakeup(w) \/ Stop \/ Finalize \/ UNCHANGED vars
        PROVE  UNCHANGED task_prio_buffer
    BY <2>4 DEF WorkerLock, WorkerWait, WorkerExit, SpuriousWakeup, Stop,
                Finalize, vars
  <2> QED
    BY <1>4, <2>1, <2>2, <2>3, <2>4, PoolAssumption
       DEF Next, LeaveLoop, Terminated, ScheduleNext, ScheduleNext2
<1> QED
  BY <1>1, <1>3, <1>4

-----------------------------------------------------------------------------
(* Wake-ups *)

\* The sizes NoLostWakeup speaks of are natural numbers.
LEMMA StartableType ==
  ASSUME TypeOK, CountersExact
  PROVE  /\ \A p \in Priority : Len(task_prio_buffer[p]) \in Nat
         /\ HIGH \in Priority /\ MEDIUM \in Priority
         /\ BLOCKING \in Priority /\ LOW \in Priority
         /\ MaxBlocking - blocking_active \in Nat
         /\ BlockingStartable \in Nat
         /\ Startable \in Nat
<1>1. \A p \in Priority : Len(task_prio_buffer[p]) \in Nat
  BY DEF TypeOK
<1>2. /\ HIGH \in Priority /\ MEDIUM \in Priority
      /\ BLOCKING \in Priority /\ LOW \in Priority
  BY DEF Priority, HIGH, MEDIUM, BLOCKING, LOW
<1>3. MaxBlocking - blocking_active \in Nat
  BY PoolAssumption DEF CountersExact, TypeOK
<1>4. BlockingStartable \in Nat
  BY <1>1, <1>2, <1>3 DEF BlockingStartable
<1> DEFINE a == Len(task_prio_buffer[HIGH])
           b == Len(task_prio_buffer[MEDIUM])
           d == Len(task_prio_buffer[LOW])
<1>5. a \in Nat /\ b \in Nat /\ d \in Nat
  BY <1>1, <1>2
<1> HIDE DEF a, b, d
<1>6. Startable \in Nat
  <2>1. Startable = a + b + BlockingStartable + d
    BY DEF Startable, a, b, d
  <2> QED
    BY <1>4, <1>5, <2>1
<1> QED
  BY <1>1, <1>2, <1>3, <1>4, <1>6

\* Appending one task makes at most one more task startable.
LEMMA EnqueueStartable ==
  ASSUME TypeOK, CountersExact, NEW p \in Priority, NEW f, Enqueue(p, f),
         UNCHANGED blocking_active
  PROVE  Startable' \in Nat /\ Startable' <= Startable + 1
<1>1. /\ Len(task_prio_buffer'[p]) = Len(task_prio_buffer[p]) + 1
      /\ \A q \in Priority \ {p} : task_prio_buffer'[q] = task_prio_buffer[q]
  BY EnqueueEffect
<1> DEFINE a == Len(task_prio_buffer[HIGH])
           b == Len(task_prio_buffer[MEDIUM])
           c == Len(task_prio_buffer[BLOCKING])
           d == Len(task_prio_buffer[LOW])
<1>2. a \in Nat /\ b \in Nat /\ c \in Nat /\ d \in Nat
  BY StartableType
<1>3. \/ a' = a + 1 /\ b' = b /\ c' = c /\ d' = d
      \/ a' = a /\ b' = b + 1 /\ c' = c /\ d' = d
      \/ a' = a /\ b' = b /\ c' = c + 1 /\ d' = d
      \/ a' = a /\ b' = b /\ c' = c /\ d' = d + 1
  BY <1>1 DEF Priority, HIGH, MEDIUM, BLOCKING, LOW
<1>4. MaxBlocking - blocking_active \in Nat
  BY StartableType
<1> HIDE DEF a, b, c, d
<1>5. /\ BlockingStartable = IF c < MaxBlocking - blocking_active
                             THEN c ELSE MaxBlocking - blocking_active
      /\ BlockingStartable' = IF c' < MaxBlocking - blocking_active
                              THEN c' ELSE MaxBlocking - blocking_active
      /\ Startable = a + b + BlockingStartable + d
      /\ Startable' = a' + b' + BlockingStartable' + d'
  BY DEF BlockingStartable, Startable, a, b, c, d
<1> QED
  BY <1>2, <1>3, <1>4, <1>5

\* A dequeue makes exactly one task fewer startable.
LEMMA DequeueStartable ==
  ASSUME TypeOK, CountersExact, NEW w \in Workers, NEW p \in Priority,
         WorkerDequeue(w, p)
  PROVE  Startable' = Startable - 1
<1>1. /\ Len(task_prio_buffer[p]) > 0
      /\ Len(task_prio_buffer'[p]) = Len(task_prio_buffer[p]) - 1
      /\ \A q \in Priority \ {p} : task_prio_buffer'[q] = task_prio_buffer[q]
      /\ p = BLOCKING => blocking_active < MaxBlocking
  BY DequeueEffect
<1> DEFINE a == Len(task_prio_buffer[HIGH])
           b == Len(task_prio_buffer[MEDIUM])
           c == Len(task_prio_buffer[BLOCKING])
           d == Len(task_prio_buffer[LOW])
<1>2. a \in Nat /\ b \in Nat /\ c \in Nat /\ d \in Nat
  BY StartableType
<1>3. \/ a' = a - 1 /\ b' = b /\ c' = c /\ d' = d /\ UNCHANGED blocking_active
      \/ a' = a /\ b' = b - 1 /\ c' = c /\ d' = d /\ UNCHANGED blocking_active
      \/ /\ a' = a /\ b' = b /\ c' = c - 1 /\ d' = d /\ c > 0
         /\ blocking_active < MaxBlocking
         /\ blocking_active' = blocking_active + 1
      \/ a' = a /\ b' = b /\ c' = c /\ d' = d - 1 /\ UNCHANGED blocking_active
  BY <1>1 DEF Priority, HIGH, MEDIUM, BLOCKING, LOW, WorkerDequeue
<1>4. MaxBlocking - blocking_active \in Nat /\ blocking_active \in Int /\ MaxBlocking \in Nat
  BY StartableType, PoolAssumption DEF TypeOK
<1> HIDE DEF a, b, c, d
<1>5. /\ BlockingStartable = IF c < MaxBlocking - blocking_active
                             THEN c ELSE MaxBlocking - blocking_active
      /\ BlockingStartable' = IF c' < MaxBlocking - blocking_active'
                              THEN c' ELSE MaxBlocking - blocking_active'
      /\ Startable = a + b + BlockingStartable + d
      /\ Startable' = a' + b' + BlockingStartable' + d'
  BY DEF BlockingStartable, Startable, a, b, c, d
<1> QED
  BY <1>2, <1>3, <1>4, <1>5

\* Finishing a task makes at most one more task startable.
LEMMA FinishStartable ==
  ASSUME TypeOK, CountersExact, NEW w \in Workers, WorkerFinish(w)
  PROVE  Startable' \in Nat /\ Startable' <= Startable + 1
<1> DEFINE a == Len(task_prio_buffer[HIGH])
           b == Len(task_prio_buffer[MEDIUM])
           c == Len(task_prio_buffer[BLOCKING])
           d == Len(task_prio_buffer[LOW])
<1>2. a \in Nat /\ b \in Nat /\ c \in Nat /\ d \in Nat
  BY StartableType
<1>3. /\ a' = a /\ b' = b /\ c' = c /\ d' = d
      /\ \/ blocking_active' = blocking_active
         \/ blocking_active' = blocking_active - 1
  BY DEF WorkerFinish
<1>4. MaxBlocking - blocking_active \in Nat /\ blocking_active \in Int /\ MaxBlocking \in Nat
  BY StartableType, PoolAssumption DEF TypeOK
<1> HIDE DEF a, b, c, d
<1>5. /\ BlockingStartable = IF c < MaxBlocking - blocking_active
                             THEN c ELSE MaxBlocking - blocking_active
      /\ BlockingStartable' = IF c' < MaxBlocking - blocking_active'
                              THEN c' ELSE MaxBlocking - blocking_active'
      /\ Startable = a + b + BlockingStartable + d
      /\ Startable' = a' + b' + BlockingStartable' + d'
  BY DEF BlockingStartable, Startable, a, b, c, d
<1> QED
  BY <1>2, <1>3, <1>4, <1>5

\* Without an eligible buffer nothing is startable.
LEMMA NothingStartable ==
  ASSUME TypeOK, CountersExact, ~HasTasks(blocking_active)
  PROVE  Startable = 0
<1>1. \A p \in Priority : p # BLOCKING => task_prio_buffer[p] = << >>
  BY DEF HasTasks, BufferEligible
<1>2. task_prio_buffer[BLOCKING] = << >> \/ ~(blocking_active < MaxBlocking)
  BY DEF HasTasks, BufferEligible, BLOCKING, Priority
<1>3. BlockingStartable = 0
  <2>1. CASE task_prio_buffer[BLOCKING] = << >>
    BY <2>1, StartableType DEF BlockingStartable
  <2>2. CASE ~(blocking_active < MaxBlocking)
    <3>1. MaxBlocking - blocking_active = 0
      BY <2>2, PoolAssumption DEF CountersExact, TypeOK
    <3> QED
      BY <3>1, StartableType DEF BlockingStartable
  <2> QED
    BY <1>2, <2>1, <2>2
<1>4. /\ task_prio_buffer[HIGH] = << >> /\ task_prio_buffer[MEDIUM] = << >>
      /\ task_prio_buffer[LOW] = << >>
  BY <1>1 DEF HIGH, MEDIUM, BLOCKING, LOW, Priority
<1> QED
  BY <1>3, <1>4 DEF Startable

\* Every step keeps enough workers awake while one of them sleeps.
LEMMA WakeupStep ==
  TypeOK /\ CountersExact /\ NoLostWakeup /\ [Next]_vars => NoLostWakeup'
<1> SUFFICES ASSUME TypeOK, CountersExact, NoLostWakeup, [Next]_vars
             PROVE  NoLostWakeup'
  OBVIOUS
<1>p. pc \in [Workers -> PCs]
  BY DEF TypeOK
<1>a. /\ Awake \in SUBSET Workers /\ Awake' \in SUBSET Workers
      /\ Cardinality(Awake) \in Nat /\ Cardinality(Awake') \in Nat
  BY WorkerSets DEF Awake
<1>s. Startable \in Nat
  BY StartableType
<1>1. ASSUME Awake' = Awake, Waiters' = Waiters,
             UNCHANGED << task_prio_buffer, blocking_active >>
      PROVE  NoLostWakeup'
  <2>1. Startable' = Startable
    BY <1>1 DEF Startable, BlockingStartable
  <2> QED
    BY <1>1, <2>1 DEF NoLostWakeup
<1>2. ASSUME NEW w \in Workers, WorkerLock(w)
      PROVE  NoLostWakeup'
  <2>1. Awake' = Awake /\ Waiters' = Waiters
    BY <1>2, <1>p DEF WorkerLock, Awake, Waiters
  <2> QED
    BY <1>1, <1>2, <2>1 DEF WorkerLock
<1>3. ASSUME NEW w \in Workers, NEW p \in Priority, WorkerDequeue(w, p)
      PROVE  NoLostWakeup'
  <2>1. w \in Awake /\ Awake' = Awake \ {w} /\ Waiters' = Waiters
    BY <1>3, <1>p DEF WorkerDequeue, Awake, Waiters
  <2>2. Cardinality(Awake') = Cardinality(Awake) - 1
    BY <1>a, <2>1, WorkerRemoved
  <2>3. Startable' = Startable - 1
    BY <1>3, DequeueStartable
  <2> QED
    BY <1>a, <1>s, <2>1, <2>2, <2>3 DEF NoLostWakeup
<1>4. ASSUME NEW w \in Workers, WorkerWait(w)
      PROVE  NoLostWakeup'
  <2>1. Startable = 0
    BY <1>4, NothingStartable DEF WorkerWait
  <2>2. Startable' = Startable
    BY <1>4 DEF WorkerWait, Startable, BlockingStartable
  <2> QED
    BY <1>a, <2>1, <2>2 DEF NoLostWakeup
<1>5. ASSUME NEW f \in [Workers -> PCs], pc' = Broadcast(f)
      PROVE  NoLostWakeup'
  <2>1. Waiters' = {}
    BY <1>5, BroadcastEffect DEF Waiters
  <2> QED
    BY <2>1 DEF NoLostWakeup
<1>6. ASSUME NEW w \in Workers, WorkerExit(w)
      PROVE  NoLostWakeup'
  <2>1. [pc EXCEPT ![w] = "exited"] \in [Workers -> PCs]
    BY <1>p DEF PCs
  <2> QED
    BY <1>5, <1>6, <2>1 DEF WorkerExit
<1>7. ASSUME Stop
      PROVE  NoLostWakeup'
  BY <1>5, <1>7, <1>p DEF Stop
<1>8. ASSUME NEW w \in Workers, w \notin Awake, Awake \cup {w} \subseteq Awake',
             Waiters' \subseteq Waiters,
             Startable' \in Nat, Startable' <= Startable + 1
      PROVE  NoLostWakeup'
  <2>1. Cardinality(Awake \cup {w}) = Cardinality(Awake) + 1
    BY <1>8, <1>a, WorkerAdded
  <2>2. Cardinality(Awake \cup {w}) <= Cardinality(Awake')
    BY <1>8, <1>a, WorkerSubset
  <2> QED
    BY <1>8, <1>a, <1>s, <2>1, <2>2 DEF NoLostWakeup
<1>9. ASSUME NEW w \in Workers, WorkerFinish(w)
      PROVE  NoLostWakeup'
  <2>1. w \notin Awake /\ Awake \cup {w} \subseteq Awake' /\ Waiters' \subseteq Waiters
    BY <1>9, FinishEffect DEF WorkerFinish, Awake, Waiters
  <2> QED
    BY <1>8, <1>9, <2>1, FinishStartable
<1>10. ASSUME NEW w \in Workers, SpuriousWakeup(w)
       PROVE  NoLostWakeup'
  <2>1. w \notin Awake /\ Awake \cup {w} \subseteq Awake' /\ Waiters' \subseteq Waiters
    BY <1>10, <1>p DEF SpuriousWakeup, Awake, Waiters
  <2>2. Startable' = Startable
    BY <1>10 DEF SpuriousWakeup, Startable, BlockingStartable
  <2> QED
    BY <1>8, <1>s, <2>1, <2>2
<1>11. ASSUME NEW p \in Priority, NEW f, Enqueue(p, f), pc' \in Signalled(pc),
              UNCHANGED blocking_active
       PROVE  NoLostWakeup'
  <2>1. CASE pc' = pc /\ \A w \in Workers : pc[w] # "waiting"
    BY <2>1 DEF NoLostWakeup, Waiters
  <2>2. ASSUME NEW x \in Workers, pc[x] = "waiting", pc' = [pc EXCEPT ![x] = "woken"]
        PROVE  NoLostWakeup'
    <3>1. x \notin Awake /\ Awake \cup {x} \subseteq Awake' /\ Waiters' \subseteq Waiters
      BY <2>2, <1>p DEF Awake, Waiters
    <3> QED
      BY <1>8, <1>11, <3>1, EnqueueStartable
  <2> QED
    BY <1>11, <1>p, <2>1, <2>2, SignalledEffect
<1>12. ASSUME NEW w \in Workers, NEW f, Continue(w, f)
       PROVE  NoLostWakeup'
  <2>1. context[w].priority \in Priority
    BY DEF TypeOK, Contexts
  <2> QED
    BY <1>11, <1>12, <2>1 DEF Continue
<1>13. ASSUME NEW t, NEW p \in Priority, ScheduleNew(t, p)
       PROVE  NoLostWakeup'
  BY <1>11, <1>13 DEF ScheduleNew
<1>14. ASSUME Finalize \/ UNCHANGED vars
       PROVE  NoLostWakeup'
  <2>1. UNCHANGED << pc, task_prio_buffer, blocking_active >>
    BY <1>14 DEF Finalize, vars
  <2> QED
    BY <1>1, <2>1 DEF Awake, Waiters
<1> QED
  BY <1>2, <1>3, <1>4, <1>6, <1>7, <1>9, <1>10, <1>12, <1>13, <1>14
     DEF Next, LeaveLoop, Terminated, ScheduleNext, ScheduleNext2

-----------------------------------------------------------------------------
(* Shutdown *)

\* Once a worker has exited nothing is queued or run any more.
LEMMA DrainedStep ==
  TypeOK /\ CountersExact /\ DrainedAtExit /\ [Next]_vars => DrainedAtExit'
<1> SUFFICES ASSUME TypeOK, CountersExact, DrainedAtExit, [Next]_vars
             PROVE  DrainedAtExit'
  OBVIOUS
<1> DEFINE Gone == \E w \in Workers : pc[w] = "exited"
           Empty == \A p \in Priority : task_prio_buffer[p] = << >>
<1>p. pc \in [Workers -> PCs]
  BY DEF TypeOK
<1>1. ASSUME NEW w \in Workers, WorkerExit(w)
      PROVE  DrainedAtExit'
  <2>1. active_threads = 0 /\ ~HasTasks(blocking_active) /\ shutdown
    BY <1>1 DEF WorkerExit
  <2>2. Running = {} /\ RunningBlocking = {}
    <3>1. Running \in SUBSET Workers
      BY DEF Running
    <3> QED
      BY <2>1, <3>1, WorkerSets, FS_EmptySet DEF CountersExact, RunningBlocking
  <2>3. blocking_active = 0
    BY <2>2, FS_EmptySet DEF CountersExact
  <2>4. Empty
    BY <2>1, <2>3, PoolAssumption DEF HasTasks, BufferEligible
  <2>5. UNCHANGED << task_prio_buffer, shutdown >>
    BY <1>1 DEF WorkerExit
  <2>6. Running' = {}
    <3>1. [pc EXCEPT ![w] = "exited"] \in [Workers -> PCs]
      BY <1>p DEF PCs
    <3>2. OnlyWakes([pc EXCEPT ![w] = "exited"], pc')
      BY <1>1, <3>1, SignalsOnlyWake DEF WorkerExit
    <3> QED
      BY <1>p, <2>2, <3>2 DEF OnlyWakes, Running
  <2> QED
    BY <2>1, <2>4, <2>5, <2>6 DEF DrainedAtExit
<1>2. ASSUME Gone' => Gone, shutdown => shutdown',
             Gone => Running' = {} /\ Empty'
      PROVE  DrainedAtExit'
  BY <1>2 DEF DrainedAtExit
<1>3. Gone => shutdown /\ Running = {} /\ Empty
  BY DEF DrainedAtExit
<1>4. ASSUME OnlyWakes(pc, pc')
      PROVE  (Gone' => Gone) /\ Running' = Running
  BY <1>4 DEF OnlyWakes, Running
<1>5. ASSUME NEW w \in Workers, \/ WorkerLock(w) \/ WorkerWait(w) \/ SpuriousWakeup(w)
      PROVE  DrainedAtExit'
  <2>1. (Gone' => Gone) /\ Running' = Running
    BY <1>5, <1>p DEF WorkerLock, WorkerWait, SpuriousWakeup, Running
  <2>2. UNCHANGED << task_prio_buffer, shutdown >>
    BY <1>5 DEF WorkerLock, WorkerWait, SpuriousWakeup
  <2> QED
    BY <1>2, <1>3, <2>1, <2>2
<1>6. ASSUME NEW w \in Workers, NEW p \in Priority, WorkerDequeue(w, p)
      PROVE  DrainedAtExit'
  <2>1. task_prio_buffer[p] # << >>
    BY <1>6 DEF WorkerDequeue, SelectedBuffer, BufferEligible
  <2>2. ~Gone
    BY <1>3, <2>1
  <2>3. Gone' => Gone
    BY <1>6, <1>p DEF WorkerDequeue
  <2> QED
    BY <2>2, <2>3 DEF DrainedAtExit
<1>7. ASSUME NEW w \in Workers, WorkerFinish(w)
      PROVE  DrainedAtExit'
  <2>1. ~Gone
    BY <1>3, <1>7, FinishRunning
  <2>2. Gone' => Gone
    BY <1>7, FinishEffect
  <2> QED
    BY <2>1, <2>2 DEF DrainedAtExit
<1>8. ASSUME NEW w \in Workers, NEW f, MayContinue(w), Continue(w, f)
      PROVE  DrainedAtExit'
  <2>1. ~Gone
    BY <1>3, <1>8 DEF MayContinue, Running
  <2>2. Gone' => Gone
    BY <1>8, <1>p, <1>4, SignalsOnlyWake DEF Continue
  <2> QED
    BY <2>1, <2>2 DEF DrainedAtExit
<1>9. ASSUME NEW t, NEW p \in Priority, ScheduleNew(t, p)
      PROVE  DrainedAtExit'
  <2>1. ~Gone
    BY <1>3, <1>9 DEF ScheduleNew
  <2>2. Gone' => Gone
    BY <1>9, <1>p, <1>4, SignalsOnlyWake DEF ScheduleNew
  <2> QED
    BY <2>1, <2>2 DEF DrainedAtExit
<1>10. ASSUME Stop
       PROVE  DrainedAtExit'
  <2>1. OnlyWakes(pc, pc')
    BY <1>10, <1>p, SignalsOnlyWake DEF Stop
  <2>2. shutdown' /\ UNCHANGED task_prio_buffer
    BY <1>10 DEF Stop
  <2> QED
    BY <1>2, <1>3, <1>4, <2>1, <2>2
<1>11. ASSUME Finalize \/ UNCHANGED vars
       PROVE  DrainedAtExit'
  <2>1. UNCHANGED << pc, task_prio_buffer, shutdown >>
    BY <1>11 DEF Finalize, vars
  <2> QED
    BY <2>1 DEF DrainedAtExit, Running
<1> QED
  BY <1>1, <1>5, <1>6, <1>7, <1>8, <1>9, <1>10, <1>11
     DEF Next, LeaveLoop, Terminated, ScheduleNext, ScheduleNext2

-----------------------------------------------------------------------------
(* The theorems *)

\* The inductive invariant: the counters say which slots are taken, the other
\* three conjuncts rest on the counters.
PoolInv ==
  TypeOK /\ CountersExact /\ ContinuationFits /\ NoLostWakeup /\ DrainedAtExit

\* The pool starts in the invariant.
LEMMA PoolInvInit == Init => PoolInv
<1> SUFFICES ASSUME Init
             PROVE  PoolInv
  OBVIOUS
<1>1. TypeOK
  BY InitType
<1>2. Running = {} /\ Waiters = {} /\ ~\E w \in Workers : pc[w] = "exited"
  BY DEF Init, Running, Waiters
<1>3. CountersExact
  <2>1. RunningBlocking = {}
    BY <1>2 DEF RunningBlocking
  <2> QED
    BY <1>2, <2>1, FS_EmptySet, PoolAssumption DEF Init, CountersExact
<1>4. ContinuationFits
  <2> SUFFICES ASSUME NEW p \in Priority
               PROVE  Cardinality(Pending(p)) <= RemainingCapacity(p)
    BY DEF ContinuationFits
  <2>1. Pending(p) = {}
    BY <1>2 DEF Pending
  <2>2. Capacity[p] \in Nat \ {0}
    BY PoolAssumption
  <2>3. Len(task_prio_buffer[p]) = 0
    BY DEF Init
  <2> QED
    BY <2>1, <2>2, <2>3, FS_EmptySet DEF RemainingCapacity
<1> QED
  BY <1>1, <1>2, <1>3, <1>4 DEF PoolInv, NoLostWakeup, DrainedAtExit

\* Every behaviour of the pool stays in the invariant.
THEOREM PoolInvariant == Spec => []PoolInv
<1>1. PoolInv /\ [Next]_vars => PoolInv'
  BY TypeStep, CountersStep, ContinuationStep, WakeupStep, DrainedStep DEF PoolInv
<1> QED
  BY <1>1, PoolInvInit, PTL DEF Spec

\* The assertion of schedule_next and schedule_next2 never fails.
THEOREM ContinuationAlwaysFits == Spec => []ContinuationFits
<1>1. PoolInv => ContinuationFits
  BY DEF PoolInv
<1> QED
  BY <1>1, PoolInvariant, PTL

\* The counters are exact and the blocking limit is kept.
THEOREM CountersAlwaysExact == Spec => []CountersExact
<1>1. PoolInv => CountersExact
  BY DEF PoolInv
<1> QED
  BY <1>1, PoolInvariant, PTL

\* One signal per enqueue and per freed slot never loses a wake-up.
THEOREM WakeupsNeverLost == Spec => []NoLostWakeup
<1>1. PoolInv => NoLostWakeup
  BY DEF PoolInv
<1> QED
  BY <1>1, PoolInvariant, PTL

\* A worker exits only when every accepted task has run.
THEOREM ExitsOnlyWhenDrained == Spec => []DrainedAtExit
<1>1. PoolInv => DrainedAtExit
  BY DEF PoolInv
<1> QED
  BY <1>1, PoolInvariant, PTL

-----------------------------------------------------------------------------
(* The round-robin pattern *)

\* The letter that was used d dequeues ago, when the index is r: going back from
\* the first letter leads to the last.
Back(r, d) == IF d <= r THEN (r - d) + 1 ELSE (r - d) + Len(Pattern) + 1

\* Of the dequeues that have passed p over in a row, none was at a letter p.
PassedOver(p) ==
  /\ passed_over[p] \in Nat
  /\ \A d \in 1..passed_over[p] :
       d <= Len(Pattern) => Pattern[Back(round_robin_index, d)] # p

RRInv ==
  /\ TypeOK
  /\ passed_over = [p \in Priority |-> passed_over[p]]
  /\ \A p \in Priority : PassedOver(p)

\* The letter of a dequeue names the buffer that it takes from, if that one is
\* eligible.
LEMMA LetterFirst ==
  ASSUME TypeOK, NEW q \in Priority, SelectedBuffer(q), NEW p \in Priority, p # q,
         BufferEligible(p, blocking_active)
  PROVE  Pattern[PatternIndex + 1] # p
<1>1. SUFFICES ASSUME Pattern[PatternIndex + 1] = p
               PROVE  FALSE
  OBVIOUS
<1>2. PICK i \in 0..3 :
        /\ q = (p + i) % 4
        /\ \A j \in 0..(i - 1) : ~BufferEligible((p + j) % 4, blocking_active)
  BY <1>1, Zenon DEF SelectedBuffer
<1>3. (p + 0) % 4 = p
  BY DEF Priority
<1>4. i # 0
  BY <1>2, <1>3
<1>5. 0 \in 0..(i - 1)
  BY <1>2, <1>4
<1> QED
  BY <1>2, <1>3, <1>5, Zenon

\* Steps other than a dequeue take nothing from a buffer and leave the index.
LEMMA NothingTaken ==
  ASSUME TypeOK, [Next]_vars,
         \A w \in Workers, p \in Priority : ~WorkerDequeue(w, p)
  PROVE  /\ \A p \in Priority : ~Dequeued(p)
         /\ round_robin_index' = round_robin_index
<1>1. \A p \in Priority : Len(task_prio_buffer[p]) \in Nat
  BY DEF TypeOK
<1>2. ASSUME task_prio_buffer' = task_prio_buffer
      PROVE  \A p \in Priority : ~Dequeued(p)
  BY <1>1, <1>2 DEF Dequeued
<1>3. ASSUME NEW p \in Priority, NEW f, Enqueue(p, f)
      PROVE  \A q \in Priority : ~Dequeued(q)
  <2>1. \A q \in Priority : \/ Len(task_prio_buffer'[q]) = Len(task_prio_buffer[q]) + 1
                            \/ Len(task_prio_buffer'[q]) = Len(task_prio_buffer[q])
    BY <1>3, EnqueueEffect
  <2> QED
    BY <1>1, <2>1 DEF Dequeued
<1>4. ASSUME NEW w \in Workers, NEW f, Continue(w, f)
      PROVE  (\A q \in Priority : ~Dequeued(q)) /\ round_robin_index' = round_robin_index
  <2>1. context[w].priority \in Priority
    BY DEF TypeOK, Contexts
  <2> QED
    BY <1>3, <1>4, <2>1, Zenon DEF Continue
<1>5. CASE \E w \in Workers : \/ \E t \in Tasks, s \in ShutdownTasks \cup {NULL} : ScheduleNext(w, t, s)
                              \/ \E t \in Tasks : ScheduleNext2(w, t)
  BY <1>4, <1>5, Zenon DEF ScheduleNext, ScheduleNext2
<1>6. CASE \E t \in Tasks, p \in Priority : ScheduleNew(t, p)
  BY <1>3, <1>6, Zenon DEF ScheduleNew
<1>7. CASE \E w \in Workers : WorkerLock(w) \/ WorkerWait(w) \/ WorkerExit(w)
                                \/ WorkerFinish(w) \/ SpuriousWakeup(w)
  BY <1>2, <1>7, Zenon DEF WorkerLock, WorkerWait, WorkerExit, WorkerFinish, SpuriousWakeup
<1>8. CASE Stop \/ Finalize \/ Terminated \/ UNCHANGED vars
  BY <1>2, <1>8, Zenon DEF Stop, Finalize, Terminated, vars
<1> QED
  BY <1>5, <1>6, <1>7, <1>8, Zenon DEF Next, LeaveLoop

\* After a dequeue the letters that were used are the same, one dequeue
\* further back.
LEMMA BackAgain ==
  ASSUME TypeOK, NEW d \in Nat, 1 < d, d <= Len(Pattern)
  PROVE  /\ Back(PatternIndex + 1, d) = Back(round_robin_index, d - 1)
         /\ Back(PatternIndex + 1, 1) = PatternIndex + 1
<1>1. PICK n \in Nat \ {0} : n = Len(Pattern)
  BY PatternLength
<1>2. PICK r \in 0..n : r = round_robin_index
  BY <1>1 DEF TypeOK
<1>3. CASE r = n
  <2>1. PatternIndex = 0
    BY <1>1, <1>2, <1>3 DEF PatternIndex
  <2> QED
    BY <1>1, <1>2, <1>3, <2>1 DEF Back
<1>4. CASE r # n
  <2>1. PatternIndex = r
    BY <1>1, <1>2, <1>4 DEF PatternIndex
  <2> QED
    BY <1>1, <1>2, <1>4, <2>1 DEF Back
<1> QED
  BY <1>3, <1>4

\* A dequeue passes a buffer over only at a letter of another one.
LEMMA DequeuePasses ==
  ASSUME RRInv, NEW w \in Workers, NEW q \in Priority, WorkerDequeue(w, q), RRNext
  PROVE  /\ passed_over' = [p \in Priority |-> passed_over'[p]]
         /\ \A p \in Priority : PassedOver(p)'
<1>1. Dequeued(q) /\ \A p \in Priority : p # q => ~Dequeued(p)
  <2>1. \A p \in Priority : Len(task_prio_buffer[p]) \in Nat
    BY DEF RRInv, TypeOK
  <2>2. /\ Len(task_prio_buffer'[q]) = Len(task_prio_buffer[q]) - 1
        /\ \A p \in Priority \ {q} : task_prio_buffer'[p] = task_prio_buffer[p]
    BY DequeueEffect, Zenon DEF RRInv
  <2> QED
    BY <2>1, <2>2 DEF Dequeued
<1>2. passed_over' = [p \in Priority |->
                        IF BufferEligible(p, blocking_active) /\ ~Dequeued(p)
                        THEN passed_over[p] + 1 ELSE 0]
  BY <1>1, Zenon DEF RRNext
<1>3. passed_over' = [p \in Priority |-> passed_over'[p]]
  BY <1>2
<1>4. ASSUME NEW p \in Priority
      PROVE  PassedOver(p)'
  <2>1. passed_over'[p] = IF BufferEligible(p, blocking_active) /\ ~Dequeued(p)
                          THEN passed_over[p] + 1 ELSE 0
    BY <1>2, Zenon
  <2>2. CASE ~(BufferEligible(p, blocking_active) /\ ~Dequeued(p))
    <3>1. passed_over'[p] = 0
      BY <2>1, <2>2, Zenon
    <3>2. passed_over'[p] \in Nat /\ 1..passed_over'[p] = {}
      BY <3>1
    <3> QED
      BY <3>2, Zenon DEF PassedOver
  <2>3. CASE BufferEligible(p, blocking_active) /\ ~Dequeued(p)
    <3>1. PICK c \in Nat : c = passed_over[p]
      BY DEF RRInv, PassedOver
    <3>2. passed_over'[p] = c + 1 /\ c + 1 \in Nat
      <4>1. passed_over'[p] = c + 1
        BY <2>1, <2>3, <3>1, Zenon
      <4> QED
        BY <4>1
    <3>3. Pattern[PatternIndex + 1] # p
      BY <1>1, <2>3, LetterFirst, Zenon DEF RRInv, WorkerDequeue
    <3>4. round_robin_index' = PatternIndex + 1
      BY Zenon DEF WorkerDequeue
    <3>5. ASSUME NEW d \in 1..(c + 1), d <= Len(Pattern)
          PROVE  Pattern[Back(PatternIndex + 1, d)] # p
      <4>1. CASE d = 1
        <5>1. Back(PatternIndex + 1, 1) = PatternIndex + 1
          <6>1. PatternIndex \in Nat
            BY PatternLength DEF PatternIndex, RRInv, TypeOK
          <6> QED
            BY <6>1 DEF Back
        <5> QED
          BY <3>3, <4>1, <5>1, Zenon
      <4>2. CASE d # 1
        <5>1. d \in Nat /\ 1 < d /\ d - 1 \in 1..c /\ d - 1 <= Len(Pattern)
          BY <3>5, <4>2, PatternLength
        <5>2. Back(PatternIndex + 1, d) = Back(round_robin_index, d - 1)
          BY <3>5, <5>1, BackAgain, Zenon DEF RRInv
        <5>3. Pattern[Back(round_robin_index, d - 1)] # p
          BY <3>1, <5>1, Zenon DEF RRInv, PassedOver
        <5> QED
          BY <5>2, <5>3, Zenon
      <4> QED
        BY <4>1, <4>2
    <3> QED
      BY <3>2, <3>4, <3>5, Zenon DEF PassedOver, Back
  <2> QED
    BY <2>2, <2>3
<1> QED
  BY <1>3, <1>4

\* Every step keeps the invariant of the pattern.
LEMMA RRStep ==
  ASSUME RRInv, [RRNext]_<< vars, passed_over >>
  PROVE  RRInv'
<1>1. [Next]_vars
  BY Zenon DEF RRNext
<1>2. TypeOK'
  BY <1>1, TypeStep, Zenon DEF RRInv
<1>3. CASE \E w \in Workers, q \in Priority : WorkerDequeue(w, q)
  <2>1. PICK w \in Workers, q \in Priority : WorkerDequeue(w, q)
    BY <1>3, Zenon
  <2>2. RRNext
    <3>1. Len(task_prio_buffer'[q]) = Len(task_prio_buffer[q]) - 1
          /\ Len(task_prio_buffer[q]) \in Nat
      BY <2>1, DequeueEffect DEF RRInv, TypeOK
    <3>2. Len(task_prio_buffer'[q]) # Len(task_prio_buffer[q])
      BY <3>1
    <3> QED
      BY <3>2, Zenon DEF vars
  <2> QED
    BY <1>2, <2>1, <2>2, DequeuePasses, Zenon DEF RRInv
<1>4. CASE \A w \in Workers, q \in Priority : ~WorkerDequeue(w, q)
  <2>1. (\A p \in Priority : ~Dequeued(p)) /\ round_robin_index' = round_robin_index
    BY <1>1, <1>4, NothingTaken, Zenon DEF RRInv
  <2>2. passed_over' = passed_over
    BY <2>1, Zenon DEF RRNext
  <2> QED
    BY <1>2, <2>1, <2>2, Zenon DEF RRInv, PassedOver, Back
<1> QED
  BY <1>3, <1>4, Zenon

\* A buffer cannot be passed over at every letter when one of them is its own.
LEMMA PatternRound ==
  ASSUME RRInv
  PROVE  BoundedOvertaking
<1>1. PICK n \in Nat \ {0} : n = Len(Pattern)
  BY PatternLength
<1>2. PICK r \in 0..n : r = round_robin_index
  BY <1>1 DEF RRInv, TypeOK
<1>3. SUFFICES ASSUME NEW p \in Priority, NEW i \in DOMAIN Pattern, Pattern[i] = p,
                      ~(passed_over[p] < n)
               PROVE  FALSE
  BY <1>1, Zenon DEF BoundedOvertaking
<1>4. PICK c \in Nat : c = passed_over[p]
  BY DEF RRInv, PassedOver
<1>5. i \in 1..n
  <2>1. DOMAIN Pattern = 1..Len(Pattern)
    BY PoolAssumption
  <2> QED
    BY <1>1, <2>1, Zenon
<1>6. \E d \in 1..n : Back(r, d) = i
  <2>1. CASE i <= r
    <3>1. (r - i) + 1 \in 1..n /\ Back(r, (r - i) + 1) = i
      BY <1>5, <2>1 DEF Back
    <3> QED
      BY <3>1, Zenon
  <2>2. CASE i > r
    <3>1. (r - i) + n + 1 \in 1..n /\ Back(r, (r - i) + n + 1) = i
      BY <1>1, <1>5, <2>2 DEF Back
    <3> QED
      BY <3>1, Zenon
  <2> QED
    BY <1>5, <2>1, <2>2
<1>7. PICK d \in 1..n : Back(r, d) = i
  BY <1>6, Zenon
<1>8. d \in 1..c /\ d <= n
  BY <1>3, <1>4
<1> QED
  BY <1>1, <1>2, <1>3, <1>4, <1>7, <1>8, Zenon DEF RRInv, PassedOver

\* Whatever the pattern and the load, a buffer named in the pattern that stays
\* eligible is served before the pattern has been gone through once.
THEOREM OvertakingIsBounded == RRSpec => []BoundedOvertaking
<1>1. RRInit => RRInv
  <2>1. SUFFICES ASSUME RRInit PROVE RRInv
    OBVIOUS
  <2>2. TypeOK
    BY <2>1, InitType, Zenon DEF RRInit
  <2>3. passed_over = [p \in Priority |-> 0]
    BY <2>1, Zenon DEF RRInit
  <2>4. passed_over = [p \in Priority |-> passed_over[p]]
        /\ \A p \in Priority : passed_over[p] = 0
    BY <2>3
  <2>5. 0 \in Nat /\ 1..0 = {}
    OBVIOUS
  <2> QED
    BY <2>2, <2>4, <2>5, Zenon DEF RRInv, PassedOver
<1>2. RRInv /\ [RRNext]_<< vars, passed_over >> => RRInv'
  BY RRStep
<1>3. RRInv => BoundedOvertaking
  BY PatternRound
<1> QED
  BY <1>1, <1>2, <1>3, PTL DEF RRSpec
=============================================================================
