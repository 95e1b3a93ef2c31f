------------------------------- MODULE Hostname -------------------------------
(***************************************************************************)
(* hostname_task_handle: a task sets the host name while it runs and puts  *)
(* back the name it found.                                                 *)
(***************************************************************************)
EXTENDS SyncTaskAdaptor

CONSTANTS
    HostnameTasks,
    NoRestore       \* those that are declared with no_restore

ASSUME HostnameAssumption == HostnameTasks \subseteq Tasks /\ NoRestore \subseteq HostnameTasks

Original == 0   \* the name at the start; a task's own name is its number
NoName == -1

VARIABLES
    hostname,     \* the kernel's
    oldHname,     \* old_hname of the handles, NoName without one
    unrestored    \* a destructor could not put its name back

hostnameVars == <<hostname, oldHname, unrestored>>

HostnameInit ==
    /\ hostname = Original
    /\ oldHname = [t \in HostnameTasks |-> NoName]
    /\ unrestored = FALSE

\* Mutant: the handle looks at the name after it has set it.
SetHostnameSavesLate(t) ==
    /\ MayStart(t)
    /\ running' = running \cup {t}
    /\ hostname' = t
    /\ oldHname' = [oldHname EXCEPT ![t] = IF t \in NoRestore THEN NoName ELSE hostname']
    /\ UNCHANGED <<failures, unrestored>>

SetHostname(t) ==
    /\ MayStart(t)
    /\ running' = running \cup {t}
    /\ hostname' = t
    /\ oldHname' = [oldHname EXCEPT ![t] = IF t \in NoRestore THEN NoName ELSE hostname]
    /\ UNCHANGED <<failures, unrestored>>

\* The constructor throws: the task runs without a handle.
SetHostnameFails(t) ==
    /\ MayStart(t) /\ Fail
    /\ running' = running \cup {t}
    /\ UNCHANGED hostnameVars

Revert(t) ==
    /\ MayStop(t)
    /\ running' = running \ {t}
    /\ hostname' = IF oldHname[t] = NoName THEN hostname ELSE oldHname[t]
    /\ oldHname' = [oldHname EXCEPT ![t] = NoName]
    /\ UNCHANGED <<failures, unrestored>>

\* The destructor catches the exception of set_hostname.
RevertFails(t) ==
    /\ MayStop(t) /\ oldHname[t] # NoName /\ Fail
    /\ running' = running \ {t}
    /\ oldHname' = [oldHname EXCEPT ![t] = NoName]
    /\ unrestored' = TRUE
    /\ UNCHANGED hostname

HostnameNext ==
    \E t \in HostnameTasks : SetHostname(t) \/ SetHostnameFails(t) \/ Revert(t) \/ RevertFails(t)

-----------------------------------------------------------------------------
(* Properties *)

\* Of any two hostname tasks one needs the other.
Chain == \A t, u \in HostnameTasks : Comparable(t, u)

\* Hostname tasks that depend on each other in a chain leave the name as they found
\* it, up to those that are told not to: no name of a restoring task outlives it,
\* unless sethostname failed to put the old one back.
NameOutlivedByTask ==
    Chain /\ ~unrestored
        => hostname \in (running \cap HostnameTasks) \cup NoRestore \cup {Original}
=============================================================================
