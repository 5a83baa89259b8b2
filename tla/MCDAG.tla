------------------------------- MODULE MCDAG -------------------------------
(***************************************************************************)
(* The graph and its searches for TLC.  Node ids are interchangeable.      *)
(***************************************************************************)
EXTENDS DAGSearch, TLC

Symmetry == Permutations(Ids)
============================================================================
