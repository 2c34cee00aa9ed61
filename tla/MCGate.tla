-------------------------------- MODULE MCGate --------------------------------
(* Model-checking instance of PublicationGate. *)
EXTENDS PublicationGate, TLC
=============================================================================
