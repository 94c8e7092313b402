------------------------------ MODULE MCNcOnce ------------------------------
(* Instances of NcOnce. *)
EXTENDS NcOnce, TLC
=============================================================================
