------------------------------- MODULE WaitChild -------------------------------
(***************************************************************************)
(* The table from process ids to wait_child objects.  The kernel gives a   *)
(* process id away again as soon as its process is reaped, and init adopts *)
(* processes that it did not fork.                                         *)
(***************************************************************************)
EXTENDS Integers, FiniteSets

CONSTANTS
    Tasks,   \* the start-stop tasks, each with at most one operation
    Pids

Nobody == "nobody"
NoPid == "none"

ASSUME WaitChildAssumption == Nobody \notin Tasks /\ NoPid \notin Pids

VARIABLES
    child,       \* what the kernel knows of a process id
    parent,      \* who forked it; Nobody for an adopted process
    handlers,    \* sigchild_handler::handlers
    operation,   \* async_start_stop_task::current_operation: wait_child::pid
    told,        \* the last exit: who forked the process, and whose callback ran
    aborted      \* an assertion has failed

tableVars == <<child, parent, handlers, operation, told, aborted>>

TableInit ==
    /\ child = [p \in Pids |-> "free"]
    /\ parent = [p \in Pids |-> Nobody]
    /\ handlers = [p \in Pids |-> Nobody]
    /\ operation = [t \in Tasks |-> NoPid]
    /\ told = <<Nobody, Nobody>>
    /\ aborted = FALSE

\* The process that init did not fork, orphaned by a script.
Adopt(p) ==
    /\ child[p] = "free"
    /\ child' = [child EXCEPT ![p] = "alive"]
    /\ UNCHANGED <<parent, handlers, operation, told, aborted>>

Exit(p) ==
    /\ child[p] = "alive"
    /\ child' = [child EXCEPT ![p] = "zombie"]
    /\ UNCHANGED <<parent, handlers, operation, told, aborted>>

\* fork, and the constructor of wait_child with the assertion of add.
Fork(t, p) ==
    /\ operation[t] = NoPid /\ child[p] = "free"
    /\ child' = [child EXCEPT ![p] = "alive"]
    /\ parent' = [parent EXCEPT ![p] = t]
    /\ handlers' = IF handlers[p] = Nobody THEN [handlers EXCEPT ![p] = t] ELSE handlers
    /\ aborted' = (aborted \/ handlers[p] # Nobody)
    /\ operation' = [operation EXCEPT ![t] = p]
    /\ UNCHANGED told

\* Mutant: the process is not looked up.
ReapUnknownBlind(p) ==
    /\ child[p] = "zombie"
    /\ child' = [child EXCEPT ![p] = "free"]
    /\ parent' = [parent EXCEPT ![p] = Nobody]
    /\ told' = <<parent[p], Nobody>>
    /\ UNCHANGED <<handlers, operation, aborted>>

ReapUnknown(p) ==
    /\ child[p] = "zombie" /\ handlers[p] = Nobody
    /\ child' = [child EXCEPT ![p] = "free"]
    /\ parent' = [parent EXCEPT ![p] = Nobody]
    /\ told' = <<parent[p], Nobody>>
    /\ UNCHANGED <<handlers, operation, aborted>>

\* Mutant: the wait_child is destroyed without leaving the table.
ReapLeavesEntry(p) ==
    /\ child[p] = "zombie" /\ handlers[p] # Nobody
    /\ child' = [child EXCEPT ![p] = "free"]
    /\ parent' = [parent EXCEPT ![p] = Nobody]
    /\ told' = <<parent[p], handlers[p]>>
    /\ operation' = [operation EXCEPT ![handlers[p]] = NoPid]
    /\ UNCHANGED <<handlers, aborted>>

\* The callback destroys its wait_child, which asserts that it is in the table.
Reap(p) ==
    /\ child[p] = "zombie" /\ handlers[p] # Nobody
    /\ child' = [child EXCEPT ![p] = "free"]
    /\ parent' = [parent EXCEPT ![p] = Nobody]
    /\ told' = <<parent[p], handlers[p]>>
    /\ operation' = [operation EXCEPT ![handlers[p]] = NoPid]
    /\ handlers' = [handlers EXCEPT ![p] = Nobody]
    /\ aborted' = (aborted \/ operation[handlers[p]] # p)

\* The callback forks the opposite script at once, perhaps with the same process id.
ReapAndFork(p, q) ==
    /\ child[p] = "zombie" /\ handlers[p] # Nobody
    /\ q = p \/ child[q] = "free"
    /\ LET t == handlers[p]
           removed == [handlers EXCEPT ![p] = Nobody]
       IN  /\ child' = [child EXCEPT ![p] = "free", ![q] = "alive"]
           /\ parent' = [parent EXCEPT ![p] = Nobody, ![q] = t]
           /\ told' = <<parent[p], t>>
           /\ handlers' = IF removed[q] = Nobody THEN [removed EXCEPT ![q] = t] ELSE removed
           /\ operation' = [operation EXCEPT ![t] = q]
           /\ aborted' = (aborted \/ operation[t] # p \/ removed[q] # Nobody)

TableNext ==
    /\ ~aborted
    /\ \/ \E p \in Pids : Adopt(p) \/ Exit(p) \/ ReapUnknown(p) \/ Reap(p)
       \/ \E t \in Tasks, p \in Pids : Fork(t, p)
       \/ \E p, q \in Pids : ReapAndFork(p, q)

TableSpec == TableInit /\ [][TableNext]_tableVars

-----------------------------------------------------------------------------
(* Properties *)

TableTypeOK ==
    /\ child \in [Pids -> {"free", "alive", "zombie"}]
    /\ parent \in [Pids -> Tasks \cup {Nobody}]
    /\ handlers \in [Pids -> Tasks \cup {Nobody}]
    /\ operation \in [Tasks -> Pids \cup {NoPid}]
    /\ told \in (Tasks \cup {Nobody}) \X (Tasks \cup {Nobody})
    /\ aborted \in BOOLEAN

\* The table is exact: it has a process for as long as the task that forked it waits,
\* that task and no other, and nothing for processes that were adopted.
TableExact ==
    /\ \A p \in Pids : handlers[p] = parent[p] /\ (child[p] = "free" => parent[p] = Nobody)
    /\ \A p \in Pids : handlers[p] # Nobody => operation[handlers[p]] = p
    /\ \A t \in Tasks : operation[t] # NoPid => handlers[operation[t]] = t

\* The exit of a process is told to the task that forked it, and to nobody when it was
\* adopted, although process ids are used again.
ExitsToldToParent == told[1] = told[2]

\* The assertions of add, in a table that may remember an old process, and of remove.
TableAssertions == ~aborted
=============================================================================
