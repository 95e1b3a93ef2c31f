------------------------------ MODULE MountTask ------------------------------
(***************************************************************************)
(* mount_task_handle and loop_mount_task_handle: guards that mount and     *)
(* unmount, and that attach a file to a loop device and detach it.  The    *)
(* kernel has one table of mounts and one of loop devices, which other     *)
(* processes use too.  A mount is named for the task that made it, and so  *)
(* is the file that a task attaches.                                       *)
(***************************************************************************)
EXTENDS SyncTaskAdaptor, Arrangement, SequencesExt

CONSTANTS
    MountTasks,
    LoopTasks,     \* those made by create_loop_mount_task
    LazyTasks,     \* those declared with umount_options::lazy
    Point,         \* Point[t]: the mount point of t, a path
    LoopCount      \* loop devices tried (8 in the code)

ASSUME MountAssumption ==
    /\ MountTasks \subseteq Tasks
    /\ LoopTasks \subseteq MountTasks /\ LazyTasks \subseteq MountTasks
    /\ \A t \in MountTasks : Point[t] \in Seq(STRING)
    /\ LoopCount \in Nat

Devices == 0..LoopCount - 1     \* the index of loop_device_filename
NoDevice == -1                  \* what a mount_task_handle mounts is no loop device
NoHandle == -2
Free == 0                       \* a loop device without a file
Others == -1                    \* a loop device of another process
NoWalk == <<>>

VARIABLES
    mounts,     \* the mount table in the order of mounting: the task and its device
    loop,       \* what a loop device is attached to
    pinned,     \* loop devices under a file system that was unmounted lazily and is in use
    autoclear,  \* loop devices that the kernel detaches with their last user
    handle,     \* the device of a task's handle
    walk,       \* the constructor of loop_device_association_guard: its task and i
    leftBehind  \* a destructor could not undo what its guard did

mountVars == <<mounts, loop, pinned, autoclear, handle, walk, leftBehind>>

MountInit ==
    /\ mounts = <<>>
    /\ loop = [d \in Devices |-> Free]
    /\ pinned = {}
    /\ autoclear = {}
    /\ handle = [t \in MountTasks |-> NoHandle]
    /\ walk = NoWalk
    /\ leftBehind = FALSE

Idle == walk = NoWalk

-----------------------------------------------------------------------------
(* The kernel *)

PointOf(k) == Point[mounts[k].by]

\* The mount that a path leads to: the last one there that none of a later mount hides.
Target(p) ==
    {k \in DOMAIN mounts : PointOf(k) = p
        /\ \A j \in DOMAIN mounts : j > k => ~IsPrefix(PointOf(j), p)}

\* The mounts that were made on the file system of mount k.
Below(k) == {j \in DOMAIN mounts : j > k /\ IsPrefix(PointOf(k), PointOf(j))}

MountedOn(table, d) == \E k \in DOMAIN table : table[k].device = d

\* The devices in clear are detached, each when nothing uses it any more.
Detach(clear, table, used) ==
    LET freed == {d \in clear : d \notin used /\ ~MountedOn(table, d)}
    IN  /\ loop' = [d \in Devices |-> IF d \in freed THEN Free ELSE loop[d]]
        /\ autoclear' = clear \ freed

Without(K) ==
    LET kept == Ascending(DOMAIN mounts \ K)
    IN  [i \in DOMAIN kept |-> mounts[kept[i]]]

-----------------------------------------------------------------------------
(* Constructors *)

Mounted(t, d) == Append(mounts, [by |-> t, device |-> d])

Mount(t) ==
    /\ Idle /\ MayStart(t) /\ t \notin LoopTasks
    /\ running' = running \cup {t}
    /\ mounts' = Mounted(t, NoDevice)
    /\ handle' = [handle EXCEPT ![t] = NoDevice]
    /\ UNCHANGED <<failures, loop, pinned, autoclear, walk, leftBehind>>

\* mount or the open of the file throws, before anything has to be undone.
CreateFails(t) ==
    /\ Idle /\ MayStart(t) /\ Fail
    /\ running' = running \cup {t}
    /\ UNCHANGED mountVars

\* The file is open; the devices are tried one after the other.
OpenFile(t) ==
    /\ Idle /\ MayStart(t) /\ t \in LoopTasks
    /\ walk' = <<t, 0>>
    /\ UNCHANGED <<running, failures, mounts, loop, pinned, autoclear, handle, leftBehind>>

\* try_setfd: EBUSY.
TryNext ==
    /\ ~Idle /\ walk[2] \in Devices /\ loop[walk[2]] # Free
    /\ walk' = <<walk[1], walk[2] + 1>>
    /\ UNCHANGED <<running, failures, mounts, loop, pinned, autoclear, handle, leftBehind>>

\* Mutant: try_setfd takes EBUSY for success.
AttachBusy ==
    /\ ~Idle /\ walk[2] \in Devices
    /\ LET t == walk[1] d == walk[2]
       IN  /\ loop' = [loop EXCEPT ![d] = IF @ = Free THEN t ELSE @]
           /\ mounts' = Mounted(t, d)
           /\ handle' = [handle EXCEPT ![t] = d]
           /\ running' = running \cup {t}
    /\ walk' = NoWalk
    /\ UNCHANGED <<failures, pinned, autoclear, leftBehind>>

\* The device is attached and mounted; nobody else touches a device that has a file.
Attach ==
    /\ ~Idle /\ walk[2] \in Devices /\ loop[walk[2]] = Free
    /\ LET t == walk[1] d == walk[2]
       IN  /\ loop' = [loop EXCEPT ![d] = t]
           /\ mounts' = Mounted(t, d)
           /\ handle' = [handle EXCEPT ![t] = d]
           /\ running' = running \cup {t}
    /\ walk' = NoWalk
    /\ UNCHANGED <<failures, pinned, autoclear, leftBehind>>

\* The device is attached and mount throws: loop_guard is destroyed.
AttachMountFails ==
    /\ ~Idle /\ walk[2] \in Devices /\ loop[walk[2]] = Free /\ Fail
    /\ \E cleared \in BOOLEAN :
         /\ loop' = IF cleared THEN loop ELSE [loop EXCEPT ![walk[2]] = walk[1]]
         /\ leftBehind' = (leftBehind \/ ~cleared)
    /\ running' = running \cup {walk[1]}
    /\ walk' = NoWalk
    /\ UNCHANGED <<mounts, pinned, autoclear, handle>>

\* Every device is in use, or a device cannot be opened or set up.
AttachFails ==
    /\ ~Idle
    /\ IF walk[2] \in Devices THEN Fail ELSE UNCHANGED failures
    /\ running' = running \cup {walk[1]}
    /\ walk' = NoWalk
    /\ UNCHANGED <<mounts, loop, pinned, autoclear, handle, leftBehind>>

-----------------------------------------------------------------------------
(* Destructors: the file system is unmounted, then the device is detached,  *)
(* whether or not it could be unmounted.                                    *)

\* umount2 of a path: the indices it removes, empty when it fails.  A lazy one takes
\* away what is mounted below and does not mind users.
Unmounts(t, used) ==
    LET K == Target(Point[t])
        B == UNION {Below(k) : k \in K}
    IN  IF t \in LazyTasks THEN K \cup B
        ELSE IF used \/ B # {} THEN {} ELSE K

\* clearfd of the handle's device: the kernel may refuse for a device in use.
ClearFd(t, table, used) ==
    \/ Detach(autoclear \cup ({handle[t]} \cap Devices), table, used)
    \/ /\ handle[t] \in used \/ MountedOn(table, handle[t])
       /\ Detach(autoclear, table, used)

\* The loop devices that stay in use under file systems detached lazily.
Pinned(t, used) ==
    IF used /\ t \in LazyTasks
    THEN pinned \cup ({mounts[k].device : k \in Unmounts(t, used)} \cap Devices)
    ELSE pinned

\* Mutant: the guards are destroyed in the order of their construction.
DestroyHandleSwapped(t, used) ==
    /\ mounts' = Without(Unmounts(t, used))
    /\ pinned' = Pinned(t, used)
    /\ ClearFd(t, mounts, pinned)
    /\ handle' = [handle EXCEPT ![t] = NoHandle]

DestroyHandle(t, used) ==
    /\ mounts' = Without(Unmounts(t, used))
    /\ pinned' = Pinned(t, used)
    /\ ClearFd(t, mounts', pinned')
    /\ handle' = [handle EXCEPT ![t] = NoHandle]

Unmount(t) ==
    /\ Idle /\ MayStop(t) /\ handle[t] # NoHandle
    /\ DestroyHandle(t, FALSE)
    /\ running' = running \ {t}
    /\ UNCHANGED <<failures, walk, leftBehind>>

\* Somebody uses the file system.
UnmountInUse(t) ==
    /\ Idle /\ MayStop(t) /\ handle[t] # NoHandle /\ Fail
    /\ DestroyHandle(t, TRUE)
    /\ running' = running \ {t}
    /\ leftBehind' = TRUE
    /\ UNCHANGED walk

\* The device cannot be opened again.
DetachFails(t) ==
    /\ Idle /\ MayStop(t) /\ handle[t] \in Devices /\ Fail
    /\ mounts' = Without(Unmounts(t, FALSE))
    /\ handle' = [handle EXCEPT ![t] = NoHandle]
    /\ running' = running \ {t}
    /\ leftBehind' = TRUE
    /\ Detach(autoclear, mounts', pinned)
    /\ UNCHANGED <<pinned, walk>>

\* A task without a handle.
StopWithoutHandle(t) ==
    /\ Idle /\ MayStop(t) /\ handle[t] = NoHandle
    /\ running' = running \ {t}
    /\ UNCHANGED <<failures, mountVars>>

-----------------------------------------------------------------------------
(* Other processes *)

OthersAttach(d) ==
    /\ loop[d] = Free
    /\ loop' = [loop EXCEPT ![d] = Others]
    /\ UNCHANGED <<running, failures, mounts, pinned, autoclear, handle, walk, leftBehind>>

OthersDetach(d) ==
    /\ loop[d] = Others
    /\ loop' = [loop EXCEPT ![d] = Free]
    /\ UNCHANGED <<running, failures, mounts, pinned, autoclear, handle, walk, leftBehind>>

LastUserLeaves(d) ==
    /\ d \in pinned
    /\ pinned' = pinned \ {d}
    /\ Detach(autoclear, mounts, pinned')
    /\ UNCHANGED <<running, failures, mounts, handle, walk, leftBehind>>

MountNext ==
    \/ \E t \in MountTasks : Mount(t) \/ CreateFails(t) \/ OpenFile(t)
    \/ TryNext \/ Attach \/ AttachMountFails \/ AttachFails
    \/ \E t \in MountTasks : Unmount(t) \/ UnmountInUse(t) \/ DetachFails(t) \/ StopWithoutHandle(t)
    \/ \E d \in Devices : OthersAttach(d) \/ OthersDetach(d) \/ LastUserLeaves(d)

-----------------------------------------------------------------------------
(* Properties *)

Overlap(t, u) == IsPrefix(Point[t], Point[u]) \/ IsPrefix(Point[u], Point[t])

\* Mount tasks whose mount points lie on one path depend on each other.
Nested == \A t, u \in MountTasks : Overlap(t, u) => Comparable(t, u)

\* Guards undo what they did, in the right order, also when a later guard of the same
\* handle throws: unless a call of a destructor failed, or a file system was in use, the
\* mount table holds exactly the mounts of the handles, and every device that initd
\* attached has a handle.  No unmount is refused for the mounts of another task.
NothingLeftBehind ==
    Nested /\ ~leftBehind =>
        /\ \A k \in DOMAIN mounts : handle[mounts[k].by] = mounts[k].device
        /\ \A t \in MountTasks : handle[t] # NoHandle =>
               Cardinality({k \in DOMAIN mounts : mounts[k].by = t}) = 1
        /\ \A d \in Devices : loop[d] \in LoopTasks => handle[loop[d]] = d

\* Whatever fails, and whatever other processes attach and detach: while a handle
\* exists its file system is mounted, and its device is attached to its own file.
HandleStaysMounted ==
    Nested => \A t \in MountTasks : handle[t] # NoHandle =>
        /\ \E k \in DOMAIN mounts : mounts[k] = [by |-> t, device |-> handle[t]]
        /\ handle[t] \in Devices => loop[handle[t]] = t
=============================================================================
