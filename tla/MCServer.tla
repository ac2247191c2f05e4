------------------------------ MODULE MCServer ------------------------------
(* Instances of Server for TLC: a few slots, workers and clients. *)
EXTENDS Server, TLC

CONSTANTS w1, w2

Symmetry == Permutations(Workers)

\* The packets of the CPE handshake.
CpePackets == {"identification", "extinfo", "extentry", "support_level",
               "position"}
=============================================================================
