------------------------ MODULE ThreadPoolRoundRobin ------------------------
(***************************************************************************)
(* ThreadPool with a history variable that counts, for each buffer, the    *)
(* dequeues in a row that found it eligible and took from another one: how *)
(* long the round-robin pattern of task_pool_dequeue passes it over.       *)
(***************************************************************************)
EXTENDS ThreadPool

VARIABLE passed_over

Dequeued(p) == Len(task_prio_buffer'[p]) < Len(task_prio_buffer[p])

RRInit == Init /\ passed_over = [p \in Priority |-> 0]

RRNext ==
  /\ Next
  /\ passed_over' =
       IF \E p \in Priority : Dequeued(p)
       THEN [p \in Priority |->
               IF BufferEligible(p, blocking_active) /\ ~Dequeued(p)
               THEN passed_over[p] + 1 ELSE 0]
       ELSE passed_over

RRSpec == RRInit /\ [][RRNext]_<<vars, passed_over>>

\* A buffer named in the pattern that stays eligible is served at the latest
\* when the pattern has been gone through once: no load at the other priorities
\* can make task_pool_dequeue pass it over longer, blocking tasks at their
\* limit and the wrap-around at the pattern's end included.
BoundedOvertaking ==
  \A p \in Priority :
    (\E i \in DOMAIN Pattern : Pattern[i] = p) => passed_over[p] < Len(Pattern)
=============================================================================
