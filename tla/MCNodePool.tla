----------------------------- MODULE MCNodePool -----------------------------
(* A pool of three nodes: room for a tree of every kind, and for two roots   *)
(* that number the same LOAD nodes differently.  Names and callers are       *)
(* interchangeable, and only invariants are checked.                         *)
EXTENDS NodePool

MCSymmetry == Permutations(Names) \cup Permutations(Callers)
=============================================================================
