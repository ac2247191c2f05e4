--------------------------- MODULE MCTaskBacklog ----------------------------
(* Instance of TaskBacklog for TLC: blocks of two entries, up to five        *)
(* waiters, so that the list grows to three blocks.                          *)
EXTENDS TaskBacklog
=============================================================================
