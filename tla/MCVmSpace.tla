------------------------------ MODULE MCVmSpace ------------------------------
(* An instance of VmSpace for TLC. *)
EXTENDS VmSpace
=============================================================================
