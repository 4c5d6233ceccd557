------------------------------ MODULE TSListMC -------------------------------
(***************************************************************************)
(* Symmetry for the run of TSList: threads and nodes are interchangeable.  *)
(***************************************************************************)
EXTENDS TSList, TLC

Symmetry == Permutations(Threads) \cup Permutations(Nodes)
=============================================================================
