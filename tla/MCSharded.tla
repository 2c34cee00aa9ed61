------------------------------ MODULE MCSharded ------------------------------
(* Model-checking instance of ShardedStore. *)
EXTENDS ShardedStore, TLC

Symmetry == Permutations(Txns) \cup Permutations(Readers)
=============================================================================
