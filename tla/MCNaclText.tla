----------------------------- MODULE MCNaclText -----------------------------
(* Instances of NaclText for TLC. *)
EXTENDS NaclText

(* Every array of regions that start at some of the first seven bundles.   *)
SortedArrays ==
  {[i \in 1..Cardinality(S) |-> [start |-> SetToSortSeq(S, <)[i]]] :
     S \in SUBSET (1..7)}

(* The search of the code, which halves the range and scans what is left,  *)
(* finds in each of them the last region at or before the address          *)
(* (FindClosestLEQ, nacl_text.c:197-234), inserted or looked up.           *)
ASSUME SearchFindsClosest ==
  \A rs \in SortedArrays, ptr \in 0..8 :
    Search(rs, ptr) = FindClosestLEQ(rs, ptr)
=============================================================================
