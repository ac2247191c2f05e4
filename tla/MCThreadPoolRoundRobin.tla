----------------------- MODULE MCThreadPoolRoundRobin -----------------------
(* Instance of ThreadPoolRoundRobin for TLC with the server's own pattern.   *)
EXTENDS ThreadPoolRoundRobin, TLC

CONSTANTS w1, w2, t1

Symmetry == Permutations(Workers)

\* The pattern tc_server_init passes, "AABCAABCD".
ServerPattern ==
  << HIGH, HIGH, MEDIUM, BLOCKING, HIGH, HIGH, MEDIUM, BLOCKING, LOW >>

\* One task beyond the reserve in each buffer.
SmallBuffers == [p \in Priority |-> IF p = BLOCKING THEN 3 ELSE 4]
=============================================================================
