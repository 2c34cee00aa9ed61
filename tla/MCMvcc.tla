------------------------------- MODULE MCMvcc -------------------------------
(* Model-checking instance of MvccStore. *)
EXTENDS MvccStore, TLC

Symmetry == Permutations(Txns) \cup Permutations(Readers) \cup Permutations(Slots)
=============================================================================
