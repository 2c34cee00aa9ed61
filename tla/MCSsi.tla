-------------------------------- MODULE MCSsi --------------------------------
(* Model-checking instance of SsiCommit. *)
EXTENDS SsiCommit, TLC

Symmetry == Permutations(Txns) \cup Permutations(Blocks)
=============================================================================
