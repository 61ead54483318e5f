--------------------------- MODULE MCPoolInternal ---------------------------
(***************************************************************************)
(* Instances of PoolInternal for TLC. Slots and checkouts are              *)
(* interchangeable, which only the runs that check safety make use of.     *)
(***************************************************************************)
EXTENDS PoolInternal

Symmetry == Permutations(Conns) \cup Permutations(Requests)
=============================================================================
