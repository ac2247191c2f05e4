------------------------------- MODULE MCOutbound -------------------------------
(* The module of the TLC runs of Outbound.                                       *)
EXTENDS Outbound
=============================================================================
