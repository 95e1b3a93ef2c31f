---------------------------- MODULE MCSyncTasks ----------------------------
(* A loop mount, a lazy mount inside it and a loop mount over that one; three *)
(* hostname tasks in a chain, the first of which needs the first mount.       *)
EXTENDS SyncTasks
SixDeps == <<<<>>, <<1>>, <<2, 1>>, <<1>>, <<4>>, <<5>>>>
Points == <<<<"srv">>, <<"srv", "www">>, <<"srv", "www">>>>
=============================================================================
