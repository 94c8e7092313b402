----------------------------- MODULE MCNcMutex -----------------------------
(* An instance of NcMutex for TLC. *)
EXTENDS NcMutex
=============================================================================
