------------------------------ MODULE TaskGraph ------------------------------
(* The dependency graph of the tasks, as the vectors of struct task hold it. *)
EXTENDS Integers, Sequences, FiniteSets

CONSTANTS
    N,      \* number of tasks; a task is its index in initd_state::tasks
    Deps    \* Deps[t]: task::dependencies of t, a vector that may repeat a task

Tasks == 1..N

Dependencies(t) == {Deps[t][i] : i \in DOMAIN Deps[t]}
Dependants(t) == {u \in Tasks : t \in Dependencies(u)}

\* The entries of task::dependants of t, one per declared dependency on t.
DependantEdges(t) == {e \in UNION {{u} \X DOMAIN Deps[u] : u \in Tasks} : Deps[e[1]][e[2]] = t}

Closed(S) == \A t \in S : Dependencies(t) \subseteq S

\* Mutant: mark_should_work does not visit the dependencies.
NeededRequisitesOnly(R) == R

\* What mark_should_work marks when it is called for every task of R: R and all
\* it depends on, directly or not.
Needed(R) == {t \in Tasks : \A S \in SUBSET Tasks : R \subseteq S /\ Closed(S) => t \in S}

\* The tasks that do not depend on themselves, directly or through others.
WellFounded == {t \in Tasks : \A S \in SUBSET Tasks :
                  (\A u \in Tasks : Dependencies(u) \subseteq S => u \in S) => t \in S}
=============================================================================
