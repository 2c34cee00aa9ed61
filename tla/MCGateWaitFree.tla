---------------------------- MODULE MCGateWaitFree ----------------------------
(* Model-checking instance of GateWaitFree. *)
EXTENDS GateWaitFree, TLC

Symmetry == Permutations(Committers)
=============================================================================
