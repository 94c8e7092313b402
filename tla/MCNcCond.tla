------------------------------ MODULE MCNcCond ------------------------------
(***************************************************************************)
(* An instance of NcCond, and so of NcMutex, for TLC: without symmetry,    *)
(* for a liveness property is checked too.                                 *)
(***************************************************************************)
EXTENDS NcCond
=============================================================================
