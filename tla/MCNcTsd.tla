------------------------------ MODULE MCNcTsd ------------------------------
(* Instances of NcTsd for TLC: the threads are interchangeable. *)
EXTENDS NcTsd, TLC
ThreadSymmetry == Permutations(Thread)
=============================================================================
