----------------------------- MODULE MCMapSend ------------------------------
(* The module of the TLC runs of MapSend.                                    *)
EXTENDS MapSend
=============================================================================
