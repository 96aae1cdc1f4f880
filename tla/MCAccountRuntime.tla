-------------------------- MODULE MCAccountRuntime --------------------------
(* Small instances of AccountRuntime for TLC.                              *)
EXTENDS AccountRuntime

CONSTANTS p1, p2, wd
=============================================================================
