------------------------------ MODULE MCPersist ------------------------------
(* Model-checking instance of PersistentStore. *)
EXTENDS PersistentStore, TLC
=============================================================================
