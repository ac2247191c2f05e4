-------------------------- MODULE MCServerControl ---------------------------
(* The module of the TLC runs of ServerControl.                              *)
EXTENDS ServerControl
=============================================================================
