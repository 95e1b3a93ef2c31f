----------------------------- MODULE Arrangement -----------------------------
(***************************************************************************)
(* Finite sets as sequences.  What SetToSortSeq of SequencesExt makes,     *)
(* stated so that proofs can use it: an element goes to the place that the *)
(* number of elements up to it gives.                                      *)
(***************************************************************************)
EXTENDS Integers, FiniteSets

\* The place of x among the elements of S, when R is an order on S.
Place(x, S, R) == Cardinality({y \in S : <<y, x>> \in R})

Arranged(S, R) == [n \in 1..Cardinality(S) |-> CHOOSE x \in S : Place(x, S, R) = n]

AtMost(S) == {p \in S \X S : p[1] <= p[2]}

\* The numbers of S in ascending order.
Ascending(S) == Arranged(S, AtMost(S))

\* The elements of a sequence at these places, in their order.
Picked(s, places) ==
    LET order == Ascending(places) IN [n \in DOMAIN order |-> s[order[n]]]
=============================================================================
