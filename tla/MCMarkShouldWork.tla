-------------------------- MODULE MCMarkShouldWork --------------------------
(* Every graph of three tasks with at most two declared dependencies each.   *)
EXTENDS MarkShouldWork

ThreeVectors == {<<>>} \cup {<<t>> : t \in 1..3} \cup {<<1, 2>>, <<2, 3>>, <<3, 1>>}
=============================================================================
