---------------------------- MODULE MCThreadPool ----------------------------
(* Instance of ThreadPool for TLC.  A capacity of 1 closes a buffer: its     *)
(* only slot is the one that stays free.                                     *)
EXTENDS ThreadPool, TLC

CONSTANTS w1, w2, t1, s1

\* A short pattern with every letter.
ShortPattern == << HIGH, MEDIUM, BLOCKING, LOW >>

\* Two workers, one blocking slot: one task beyond the reserve each; medium
\* tasks stay out.
ThreePriorities == (HIGH :> 4) @@ (MEDIUM :> 1) @@ (BLOCKING :> 3) @@ (LOW :> 4)
=============================================================================
