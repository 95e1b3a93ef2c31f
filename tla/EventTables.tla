----------------------------- MODULE EventTables -----------------------------
(***************************************************************************)
(* The two tables that the event loop goes through, side by side in one    *)
(* program: the descriptors with their registrations, and the processes    *)
(* waited for.  A callback that reaps may construct and destroy sockets    *)
(* (a task that starts or stops may own some), so their steps mix; but the *)
(* program has one thread, and reaps in a callback of its own.             *)
(***************************************************************************)
EXTENDS StreamSocket, WaitChild

Init == SocketInit /\ TableInit

Next ==
    \/ SocketNext /\ UNCHANGED tableVars
    \/ Calm /\ frame = NoFrame /\ TableNext /\ UNCHANGED <<registrationVars, socketVars>>

Spec == Init /\ [][Next]_<<registrationVars, socketVars, tableVars>>
=============================================================================
