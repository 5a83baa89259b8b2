------------------------------- MODULE Lists -------------------------------
(***************************************************************************)
(* Picking members of a list, and putting numbers in order, by sets of     *)
(* indices.                                                                *)
(***************************************************************************)
EXTENDS Integers, Sequences, FiniteSets

\* The k-th smallest of a finite set of numbers.
Nth(I, k) == CHOOSE i \in I : Cardinality({j \in I : j < i}) = k - 1

\* The members of list at the indices I, in the order of the list.
Picked(list, I) == [k \in 1 .. Cardinality(I) |-> list[Nth(I, k)]]
============================================================================
