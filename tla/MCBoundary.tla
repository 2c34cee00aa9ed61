------------------------------ MODULE MCBoundary ------------------------------
(* Instances of Ext4Boundary for TLC. *)
EXTENDS Ext4Boundary
=============================================================================
