------------------------------ MODULE MCNcSem ------------------------------
(***************************************************************************)
(* An instance of NcSem for TLC.  Its run checks a liveness property too,  *)
(* and so uses no symmetry.                                                *)
(***************************************************************************)
EXTENDS NcSem, TLC
=============================================================================
