------------------------------ MODULE SyncTasks ------------------------------
(***************************************************************************)
(* Synchronous tasks of both kinds that keep state in the kernel, in one   *)
(* graph of dependencies.  The program has one thread: while a constructor *)
(* walks over the loop devices no other task starts or stops.              *)
(***************************************************************************)
EXTENDS Hostname, MountTask

\* A task has one description.
ASSUME KindsAssumption == HostnameTasks \cap MountTasks = {}

vars == <<running, failures, hostnameVars, mountVars>>

Init ==
    /\ running = {}
    /\ failures = 0
    /\ HostnameInit
    /\ MountInit

Next ==
    \/ Idle /\ HostnameNext /\ UNCHANGED mountVars
    \/ MountNext /\ UNCHANGED hostnameVars

Spec == Init /\ [][Next]_vars
=============================================================================
