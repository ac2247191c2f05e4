------------------------------- MODULE MCMapFile -------------------------------
(* The module of the TLC runs of MapFile.                                       *)
EXTENDS MapFile
=============================================================================
