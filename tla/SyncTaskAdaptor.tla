--------------------------- MODULE SyncTaskAdaptor ---------------------------
(***************************************************************************)
(* What the handles of synchronous tasks have in common: the adaptor makes *)
(* a handle when its task starts, destroys it when the task stops, and     *)
(* counts the task as running with or without it.  The supervisor starts   *)
(* and stops tasks in dependency order.                                    *)
(***************************************************************************)
EXTENDS TaskGraph

CONSTANT MaxFailures   \* bound: how often system calls fail or find their object in use

ASSUME TasksAssumption == N \in Nat
ASSUME FailuresAssumption == MaxFailures \in Nat

VARIABLES
    running,   \* sync_task_adaptor::running
    failures

Fail == failures < MaxFailures /\ failures' = failures + 1

\* Supervision!Ordered, for tasks that start and stop at once.
MayStart(t) == t \notin running /\ Dependencies(t) \subseteq running

MayStop(t) == t \in running /\ Dependants(t) \cap running = {}

\* One of the two tasks needs the other, directly or not.
Comparable(t, u) == t \in Needed({u}) \/ u \in Needed({t})
=============================================================================
