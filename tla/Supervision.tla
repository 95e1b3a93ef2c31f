----------------------------- MODULE Supervision -----------------------------
(***************************************************************************)
(* What the supervisor promises, without counters, callbacks or events: a  *)
(* set of tasks is wanted, and tasks start and stop in dependency order.   *)
(***************************************************************************)
CONSTANTS
    Task,
    DependsOn   \* task -> the tasks it declares as dependencies

VARIABLES
    st,         \* what every task is doing
    wanted,     \* the tasks the current run level needs
    over        \* the supervisor has shut everything down and left

vars == <<st, wanted, over>>

States == {"stopped", "starting", "running", "stopping"}

TypeInvariant ==
    /\ st \in [Task -> States]
    /\ wanted \subseteq Task
    /\ over \in BOOLEAN

\* A task is only ever active on top of dependencies that run.
Ordered(s) == \A t \in Task : s[t] # "stopped" => \A d \in DependsOn[t] : s[d] = "running"

\* A run level wants the dependencies of what it wants.
ClosedUnder(w) == \A t \in w : DependsOn[t] \subseteq w

\* A start or stop script may be replaced by the opposite one when it ends.  Only
\* a wanted task is started from rest, only an unwanted one is brought down.
Move(t) ==
    CASE st[t] = "stopped"  -> st'[t] = "stopped" \/ (t \in wanted' /\ st'[t] \in {"starting", "running"})
      [] st[t] = "starting" -> st'[t] \in {"starting", "running", "stopping"}
      [] st[t] = "running"  -> st'[t] = "running" \/ (t \notin wanted' /\ st'[t] \in {"stopping", "stopped"})
      [] st[t] = "stopping" -> st'[t] \in {"stopping", "stopped", "starting"}

Init ==
    /\ st = [t \in Task |-> "stopped"]
    /\ wanted = {}
    /\ over = FALSE

Supervise ==
    /\ ~over
    /\ wanted' \in {w \in SUBSET Task : ClosedUnder(w)}
    /\ st' \in {s \in [Task -> States] : Ordered(s)}
    /\ \A t \in Task : Move(t)
    /\ UNCHANGED over

Leave ==
    /\ ~over
    /\ wanted = {}
    /\ \A t \in Task : st[t] = "stopped"
    /\ over' = TRUE
    /\ UNCHANGED <<st, wanted>>

Next == Supervise \/ Leave

Spec == Init /\ [][Next]_vars
=============================================================================
