------------------------------ MODULE Ordered ------------------------------
(***************************************************************************)
(* The elements of a finite set in the order of a relation, a set of       *)
(* pairs: what ORDER BY and a walk over the panes of a layout produce.     *)
(***************************************************************************)
EXTENDS Integers, FiniteSets

\* How many elements come before x.
Rank(S, R, x) == Cardinality({y \in S : <<y, x>> \in R})

Sorted(S, R) == [i \in 1 .. Cardinality(S) |-> CHOOSE x \in S : Rank(S, R, x) = i - 1]
=============================================================================
