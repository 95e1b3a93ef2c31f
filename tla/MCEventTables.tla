--------------------------- MODULE MCEventTables ---------------------------
(* Three objects and two descriptors, two tasks and two process ids. *)
EXTENDS EventTables, TLC
CONSTANTS a1, a2, a3, d1, d2, t1, t2, p1, p2
ThreeAddresses == {a1, a2, a3}
TwoDescriptors == {d1, d2}
TwoTasks == {t1, t2}
TwoPids == {p1, p2}
Symmetry ==
    UNION {Permutations(S) : S \in {ThreeAddresses, TwoDescriptors, TwoTasks, TwoPids}}
=============================================================================
