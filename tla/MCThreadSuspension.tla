------------------------ MODULE MCThreadSuspension ------------------------
(* An instance of ThreadSuspension for TLC. *)
EXTENDS ThreadSuspension
=============================================================================
