---------------------------- MODULE MCTaskBuffer ----------------------------
(* Instance of TaskBuffer for TLC.                                           *)
EXTENDS TaskBuffer

CONSTANTS v1, v2
=============================================================================
