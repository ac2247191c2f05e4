---------------------------- MODULE WaiterQueue -----------------------------
(***************************************************************************)
(* What a task backlog promises the tasks that wait for one result: every  *)
(* waiter it accepts gets exactly one answer, in the order of acceptance,  *)
(* and no waiter is accepted once the answers have begun.                  *)
(***************************************************************************)
EXTENDS Integers, Sequences

CONSTANTS
  Waiters,
  Answers

VARIABLES
  waiting,   \* every accepted waiter, oldest first
  closed,    \* the result is known
  answered   \* [waiter, answer] records, oldest first

vars == << waiting, closed, answered >>

Init == waiting = << >> /\ closed = FALSE /\ answered = << >>

Accept(w) ==
  /\ ~closed
  /\ waiting' = Append(waiting, w)
  /\ UNCHANGED << closed, answered >>

Close ==
  /\ ~closed
  /\ closed' = TRUE
  /\ UNCHANGED << waiting, answered >>

Answer(a) ==
  /\ closed
  /\ Len(answered) < Len(waiting)
  /\ answered' = Append(answered,
                   [waiter |-> waiting[Len(answered) + 1], answer |-> a])
  /\ UNCHANGED << waiting, closed >>

Next ==
  \/ \E w \in Waiters : Accept(w)
  \/ Close
  \/ \E a \in Answers : Answer(a)

Spec == Init /\ [][Next]_vars
=============================================================================
