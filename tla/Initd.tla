-------------------------------- MODULE Initd --------------------------------
(***************************************************************************)
(* The supervisor: initd_state and its tasks, the two kinds of task        *)
(* handles, the main loop of initd-main.cpp and the kernel objects that    *)
(* drive it (SIGCHLD, eventfds, child processes).                          *)
(*                                                                         *)
(* The program has one thread.  Everything it does happens in a callback   *)
(* of the epoll loop, so one callback is one action; the loop that reaps   *)
(* children is several, because children exit while it runs.               *)
(***************************************************************************)
EXTENDS TaskGraph

CONSTANTS
    StartStop,       \* tasks run by async_start_stop_task, the rest by sync_task_adaptor
    Control,         \* tasks whose handle is a control socket
    Fallible,        \* adaptor tasks whose create_task may throw
    RunLevels,       \* the values run_levels may get from the configuration
    Names,           \* run level names a client may ask for
    MaxRequests,     \* bound: signals and control messages handled
    MaxForkFailures  \* bound: calls of fork that fail

Targets == {"running", "reboot", "power_off"}
Operations == {"none", "start", "stop"}
Phases == {"boot", "loop", "reaping", "unwinding", "exited", "aborted"}

ASSUME NAssumption == N \in Nat
ASSUME KindAssumption ==
    /\ StartStop \subseteq Tasks
    /\ Control \subseteq Tasks \ StartStop
    /\ Fallible \subseteq Tasks \ StartStop
ASSUME DepsAssumption == Deps \in [Tasks -> Seq(Tasks)]
ASSUME RunLevelsAssumption ==
    \A levels \in RunLevels : \A name \in DOMAIN levels : levels[name] \subseteq Tasks
ASSUME BoundAssumption == MaxRequests \in Nat /\ MaxForkFailures \in Nat

VARIABLES
    (* struct task *)
    should_work,
    stopped_dependencies,
    running_dependants,
    counted_in_dependencies,
    counted_in_dependants,
    counted_in_pending_tasks,
    (* struct initd_state *)
    pending_tasks,
    run_levels,  \* name -> requisites; never changes
    (* async_start_stop_task and sync_task_adaptor *)
    handle,
    (* function_queue and eventfd of every adaptor *)
    fq,          \* functions in the queue
    notified,    \* tasks whose eventfd counter is not zero
    (* the kernel's view of the children *)
    zombies,     \* tasks whose current child has exited and is not reaped
    sigchld,     \* SIGCHLD is pending
    (* main *)
    tg,
    phase,
    exit_state,
    (* bounds *)
    requests,
    fork_failures

counterVars == <<stopped_dependencies, running_dependants, counted_in_dependencies,
                 counted_in_dependants, counted_in_pending_tasks, pending_tasks>>
taskVars == <<should_work, counterVars>>
handleVars == <<handle, fq, notified>>
kernelVars == <<zombies, sigchld>>
mainVars == <<tg, phase, exit_state>>
boundVars == <<requests, fork_failures>>
vars == <<taskVars, run_levels, handleVars, kernelVars, mainVars, boundVars>>

-----------------------------------------------------------------------------
(* Handles *)

Handle == [running : BOOLEAN, should_work : BOOLEAN,
           current_operation : Operations, created : BOOLEAN]

InitialHandle == [running |-> FALSE, should_work |-> FALSE,
                  current_operation |-> "none", created |-> FALSE]

InTransition(h) == h.current_operation # "none"

\* A job is a fork: the child's pid goes into current_operation.
EnqueueJob(h) ==
    IF InTransition(h) \/ h.running = h.should_work
    THEN h
    ELSE [h EXCEPT !.current_operation = IF h.should_work THEN "start" ELSE "stop"]

\* An adaptor's should_work is its running; "created" says that it holds a
\* task_handle, ok that create_task does not throw.
SetShouldWork(t, h, s, ok) ==
    IF t \in StartStop
    THEN EnqueueJob([h EXCEPT !.should_work = s])
    ELSE [h EXCEPT !.running = s, !.should_work = s, !.created = s /\ (h.created \/ ok)]

\* The callback of the wait_child of an operation, up to its enqueue_job.
Completed(h) == [h EXCEPT !.running = (h.current_operation = "start"), !.current_operation = "none"]

-----------------------------------------------------------------------------
(* task::sync, for every task of S, when the handles are h *)

AffectDependencies(h) == h.running \/ InTransition(h)
AffectDependants(h) == h.running /\ ~InTransition(h)
AffectPendingTasks(h, wanted) == InTransition(h) \/ h.running # wanted

CountTrue(f) == Cardinality({x \in DOMAIN f : f[x]})

\* What the loops over flags that change from old to new add to a counter.
Net(old, new) == Cardinality({x \in DOMAIN old : new[x] /\ ~old[x]})
               - Cardinality({x \in DOMAIN old : old[x] /\ ~new[x]})

\* counted seen from the counters of t: over task::dependants, over task::dependencies
OfDependants(t, counted) == [e \in DependantEdges(t) |-> counted[e[1]]]
OfDependencies(t, counted) == [i \in DOMAIN Deps[t] |-> counted[Deps[t][i]]]

\* Mutant: the flag changes, the counters of the dependencies do not.
SyncSkipsDependencies(S, h) ==
    /\ counted_in_dependencies' =
         [t \in Tasks |-> IF t \in S THEN AffectDependencies(h[t]) ELSE counted_in_dependencies[t]]
    /\ UNCHANGED running_dependants

SyncDependencies(S, h) ==
    /\ counted_in_dependencies' =
         [t \in Tasks |-> IF t \in S THEN AffectDependencies(h[t]) ELSE counted_in_dependencies[t]]
    /\ running_dependants' =
         [t \in Tasks |-> running_dependants[t]
            + Net(OfDependants(t, counted_in_dependencies), OfDependants(t, counted_in_dependencies'))]

\* Mutant: the counters of the dependants change, the flag does not.
SyncForgetsDependants(S, h) ==
    /\ UNCHANGED counted_in_dependants
    /\ stopped_dependencies' =
         [t \in Tasks |-> stopped_dependencies[t]
            - Net(OfDependencies(t, counted_in_dependants),
                  OfDependencies(t, [u \in Tasks |-> IF u \in S THEN AffectDependants(h[u])
                                                                ELSE counted_in_dependants[u]]))]

SyncDependants(S, h) ==
    /\ counted_in_dependants' =
         [t \in Tasks |-> IF t \in S THEN AffectDependants(h[t]) ELSE counted_in_dependants[t]]
    /\ stopped_dependencies' =
         [t \in Tasks |-> stopped_dependencies[t]
            - Net(OfDependencies(t, counted_in_dependants), OfDependencies(t, counted_in_dependants'))]

\* Mutant: a task in transition is not pending.
SyncIgnoresTransitions(S, h) ==
    /\ counted_in_pending_tasks' =
         [t \in Tasks |-> IF t \in S THEN h[t].running # should_work'[t]
                                     ELSE counted_in_pending_tasks[t]]
    /\ pending_tasks' = pending_tasks + Net(counted_in_pending_tasks, counted_in_pending_tasks')

SyncPending(S, h) ==
    /\ counted_in_pending_tasks' =
         [t \in Tasks |-> IF t \in S THEN AffectPendingTasks(h[t], should_work'[t])
                                     ELSE counted_in_pending_tasks[t]]
    /\ pending_tasks' = pending_tasks + Net(counted_in_pending_tasks, counted_in_pending_tasks')

Sync(S, h) == SyncDependencies(S, h) /\ SyncDependants(S, h) /\ SyncPending(S, h)

-----------------------------------------------------------------------------
(* task::enqueue_this and initd_state::enqueue_all.  They read the flags and *)
(* the counters that the sync before them left, hence the primes.            *)

Starts(t, h) == /\ ~h.running \/ InTransition(h)
                /\ should_work'[t]
                /\ stopped_dependencies'[t] = 0
Stops(t, h) == /\ h.running \/ InTransition(h)
               /\ ~should_work'[t]
               /\ running_dependants'[t] = 0

\* Mutant: enqueue_this stops tasks without looking at are_dependants_stopped.
EnqueueThisOutOfOrder(t, h, ok) ==
    IF Starts(t, h) \/ ((h.running \/ InTransition(h)) /\ ~should_work'[t])
    THEN SetShouldWork(t, h, should_work'[t], ok) ELSE h

\* Mutant: enqueue_this stops tasks without looking at should_work.
EnqueueThisStopsWanted(t, h, ok) ==
    IF Starts(t, h) THEN SetShouldWork(t, h, TRUE, ok)
    ELSE IF (h.running \/ InTransition(h)) /\ running_dependants'[t] = 0
         THEN SetShouldWork(t, h, FALSE, ok) ELSE h

EnqueueThis(t, h, ok) ==
    IF Starts(t, h) \/ Stops(t, h) THEN SetShouldWork(t, h, should_work'[t], ok) ELSE h

\* Mutant: an adaptor that stops does not push its state-changed callback.
EnqueueTasksSilentStop(h, q, n, done, failed, bad) ==
    LET pushed == {t \in done \ StartStop : Starts(t, h[t])}
    IN  /\ handle' = [t \in Tasks |-> IF t \in done THEN EnqueueThis(t, h[t], t \notin bad) ELSE h[t]]
        /\ fq' = [t \in Tasks |-> IF t \in pushed THEN q[t] + 1 ELSE q[t]]
        /\ notified' = n \cup pushed

\* enqueue_this of every task of done, then a failed fork in those of failed:
\* h, q and n are the handles, queues and notifications before; the tasks of bad
\* are those whose create_task throws, which the adaptor catches.
EnqueueTasks(h, q, n, done, failed, bad) ==
    LET pushed == {t \in done \ StartStop : Starts(t, h[t]) \/ Stops(t, h[t])}
    IN  /\ handle' = [t \in Tasks |->
                        CASE t \in done   -> EnqueueThis(t, h[t], t \notin bad)
                          [] t \in failed -> [h[t] EXCEPT !.should_work = should_work'[t]]
                          [] OTHER        -> h[t]]
        /\ fq' = [t \in Tasks |-> IF t \in pushed THEN q[t] + 1 ELSE q[t]]
        /\ notified' = n \cup pushed

EnqueueAll(h, q, n, S) ==
    /\ \E bad \in SUBSET (Fallible \cap S) : EnqueueTasks(h, q, n, S, {}, bad)
    /\ UNCHANGED fork_failures

\* fork throws in the middle of enqueue_all: the tasks before the failing one
\* have been enqueued, those after it have not.
EnqueueAllThrows(h, q, n, before) ==
    /\ fork_failures < MaxForkFailures
    /\ fork_failures' = fork_failures + 1
    /\ \E f \in DOMAIN before \cap StartStop :
         /\ ~InTransition(h[f])
         /\ Starts(f, h[f]) \/ Stops(f, h[f])
         /\ \E bad \in SUBSET (Fallible \cap before[f]) :
              EnqueueTasks(h, q, n, before[f], {f}, bad)

\* Vectors in task order: initd_state::tasks and task::dependants.
InTaskOrder(S) == [f \in S |-> {t \in S : t < f}]
\* task::dependencies is in declaration order.
InDepsOrder(t) ==
    [f \in Dependencies(t) |->
       {Deps[t][i] : i \in {j \in DOMAIN Deps[t] : \A k \in 1..j : Deps[t][k] # f}}]

\* Mutants: the state-changed callback always enqueues the same side.
AffectedDependants(t, h) == Dependants(t)
AffectedDependencies(t, h) == Dependencies(t)

\* The neighbours the state-changed callback of t enqueues.
Affected(t, h) == IF h.running THEN Dependants(t) ELSE Dependencies(t)
AffectedOrder(t, h) == IF h.running THEN InTaskOrder(Dependants(t)) ELSE InDepsOrder(t)

-----------------------------------------------------------------------------
(* set_run_level and set_empty_run_level, up to enqueue_all *)

\* Mutant: the run level changes without a sync.
SetWantedNoSync(W) == should_work' = [t \in Tasks |-> t \in W] /\ UNCHANGED counterVars

SetWanted(W) ==
    /\ should_work' = [t \in Tasks |-> t \in W]
    /\ Sync(Tasks, handle)

EnqueueEverything == EnqueueAll(handle, fq, notified, Tasks)
EnqueueEverythingThrows == EnqueueAllThrows(handle, fq, notified, InTaskOrder(Tasks))

-----------------------------------------------------------------------------

Init ==
    /\ should_work = [t \in Tasks |-> FALSE]
    /\ stopped_dependencies = [t \in Tasks |-> Len(Deps[t])]
    /\ running_dependants = [t \in Tasks |-> 0]
    /\ counted_in_dependencies = [t \in Tasks |-> FALSE]
    /\ counted_in_dependants = [t \in Tasks |-> FALSE]
    /\ counted_in_pending_tasks = [t \in Tasks |-> FALSE]
    /\ pending_tasks = 0
    /\ run_levels \in RunLevels
    /\ handle = [t \in Tasks |-> InitialHandle]
    /\ fq = [t \in Tasks |-> 0]
    /\ notified = {}
    /\ zombies = {}
    /\ sigchld = FALSE
    /\ tg = "running"
    /\ phase = "boot"
    /\ exit_state = "running"
    /\ requests = 0
    /\ fork_failures = 0

(* The constructor of context: set_run_level("default").  An exception leaves *)
(* it through the destructors of its members and main reboots.                *)

Boot ==
    /\ phase = "boot"
    /\ "default" \in DOMAIN run_levels
    /\ SetWanted(Needed(run_levels["default"]))
    /\ \/ EnqueueEverything /\ phase' = "loop" /\ UNCHANGED exit_state
       \/ EnqueueEverythingThrows /\ phase' = "unwinding" /\ exit_state' = "reboot"
    /\ UNCHANGED <<run_levels, tg, requests, kernelVars>>

BootWithoutDefault ==
    /\ phase = "boot"
    /\ "default" \notin DOMAIN run_levels
    /\ phase' = "unwinding"
    /\ exit_state' = "reboot"
    /\ UNCHANGED <<run_levels, taskVars, handleVars, kernelVars, tg, boundVars>>

-----------------------------------------------------------------------------
(* The loop of main, one epoll event at a time *)

\* Mutant: main does not wait for pending operations.
IsActiveImpatient == tg = "running"

IsActive == tg = "running" \/ pending_tasks # 0

Dispatching == phase = "loop" /\ IsActive

Request ==
    /\ Dispatching
    /\ requests < MaxRequests
    /\ requests' = requests + 1

\* context::reboot and context::power_off.  An exception is caught by epoll::wait
\* or by the connection; what was done stays done.
ShutDown(target) ==
    /\ Request
    /\ tg' = target
    /\ SetWanted({})
    /\ EnqueueEverything \/ EnqueueEverythingThrows
    /\ UNCHANGED <<run_levels, phase, exit_state, kernelVars>>

\* SIGINT or SIGTERM, through the signalfd of context
Signal == ShutDown("reboot")

\* A control socket is there to receive messages.
Listening == \E t \in Control : handle[t].created

ControlShutDown == Listening /\ \E target \in {"reboot", "power_off"} : ShutDown(target)

SetRunLevel(name) ==
    /\ Listening
    /\ Request
    /\ name \in DOMAIN run_levels
    /\ tg' = "running"
    /\ SetWanted(Needed(run_levels[name]))
    /\ EnqueueEverything \/ EnqueueEverythingThrows
    /\ UNCHANGED <<run_levels, phase, exit_state, kernelVars>>

\* context::set_runlevel assigns tg before initd_state::set_run_level throws.
SetUnknownRunLevel(name) ==
    /\ Listening
    /\ Request
    /\ name \notin DOMAIN run_levels
    /\ tg' = "running"
    /\ UNCHANGED <<run_levels, taskVars, handleVars, kernelVars, phase, exit_state, fork_failures>>

-----------------------------------------------------------------------------
(* Children *)

ChildExit(t) ==
    /\ phase \in {"loop", "reaping"}
    /\ InTransition(handle[t])
    /\ t \notin zombies
    /\ zombies' = zombies \cup {t}
    /\ sigchld' = TRUE
    /\ UNCHANGED <<run_levels, taskVars, handleVars, mainVars, boundVars>>

\* Reading the signalfd takes the pending signal; the handler then reaps until
\* no child is left.
SigchldEvent ==
    /\ Dispatching
    /\ sigchld
    /\ sigchld' = FALSE
    /\ phase' = "reaping"
    /\ UNCHANGED <<run_levels, taskVars, handleVars, zombies, tg, exit_state, boundVars>>

\* Mutant: the handler reaps some children and returns, others may be left.
ReapSome ==
    /\ phase = "reaping"
    /\ phase' = "loop"
    /\ UNCHANGED <<run_levels, taskVars, handleVars, kernelVars, tg, exit_state, boundVars>>

ReapNone ==
    /\ phase = "reaping"
    /\ zombies = {}
    /\ phase' = "loop"
    /\ UNCHANGED <<run_levels, taskVars, handleVars, kernelVars, tg, exit_state, boundVars>>

\* The callback of the child of t: complete the operation, start the opposite one
\* if it is due, sync t and enqueue the neighbours.  An exception of fork leaves
\* the reaping loop.
Reap(t) ==
    /\ phase = "reaping"
    /\ t \in zombies
    /\ zombies' = zombies \ {t}
    /\ LET h == EnqueueJob(Completed(handle[t]))
           handles == [handle EXCEPT ![t] = h]
       IN  /\ UNCHANGED should_work
           /\ Sync({t}, handles)
           /\ \/ EnqueueAll(handles, fq, notified, Affected(t, h)) /\ UNCHANGED phase
              \/ EnqueueAllThrows(handles, fq, notified, AffectedOrder(t, h)) /\ phase' = "loop"
    /\ UNCHANGED <<run_levels, sigchld, tg, exit_state, requests>>

\* The fork of the opposite operation fails: neither sync nor enqueue_all happens.
ReapThrows(t) ==
    /\ phase = "reaping"
    /\ t \in zombies
    /\ zombies' = zombies \ {t}
    /\ EnqueueJob(Completed(handle[t])) # Completed(handle[t])
    /\ fork_failures < MaxForkFailures
    /\ fork_failures' = fork_failures + 1
    /\ handle' = [handle EXCEPT ![t] = Completed(@)]
    /\ phase' = "loop"
    /\ UNCHANGED <<run_levels, taskVars, fq, notified, sigchld, tg, exit_state, requests>>

\* The eventfd of the adaptor t: its counter is reset, whatever it was, and one
\* function of the queue is run.
QueueEvent(t) ==
    /\ Dispatching
    /\ t \in notified
    /\ LET q == [fq EXCEPT ![t] = @ - 1]
           n == notified \ {t}
       IN  /\ UNCHANGED should_work
           /\ Sync({t}, handle)
           /\ \/ EnqueueAll(handle, q, n, Affected(t, handle[t]))
              \/ EnqueueAllThrows(handle, q, n, AffectedOrder(t, handle[t]))
    /\ UNCHANGED <<run_levels, kernelVars, mainVars, requests>>

-----------------------------------------------------------------------------
(* The end of main: the context is destroyed *)

LeaveLoop ==
    /\ phase = "loop"
    /\ ~IsActive
    /\ exit_state' = tg
    /\ phase' = "unwinding"
    /\ UNCHANGED <<run_levels, taskVars, handleVars, kernelVars, tg, boundVars>>

\* The destructor of async_start_stop_task asserts that the task is down; that of
\* an adaptor destroys its task_handle.
Destroy ==
    /\ phase = "unwinding"
    /\ IF \E t \in StartStop : handle[t].running \/ InTransition(handle[t])
       THEN phase' = "aborted" /\ UNCHANGED handle
       ELSE phase' = "exited" /\ handle' = [t \in Tasks |-> [handle[t] EXCEPT !.created = FALSE]]
    /\ UNCHANGED <<run_levels, taskVars, fq, notified, kernelVars, tg, exit_state, boundVars>>

-----------------------------------------------------------------------------

Next ==
    \/ Boot
    \/ BootWithoutDefault
    \/ Signal
    \/ ControlShutDown
    \/ \E name \in Names : SetRunLevel(name) \/ SetUnknownRunLevel(name)
    \/ SigchldEvent
    \/ ReapNone
    \/ \E t \in Tasks : ChildExit(t) \/ Reap(t) \/ ReapThrows(t) \/ QueueEvent(t)
    \/ LeaveLoop
    \/ Destroy

Spec == Init /\ [][Next]_vars

\* The program always takes its next step, epoll hands out ready descriptors in
\* turn, and every script that was started ends.
Fairness ==
    /\ WF_vars(Boot \/ BootWithoutDefault \/ ReapNone \/ LeaveLoop \/ Destroy)
    /\ WF_vars(SigchldEvent)
    /\ \A t \in Tasks : /\ WF_vars(ChildExit(t))
                        /\ WF_vars(Reap(t))
                        /\ WF_vars(QueueEvent(t))

FairSpec == Spec /\ Fairness

-----------------------------------------------------------------------------
(* Properties *)

\* The state has the types of the C++ members; the counters are size_t.
TypeOK ==
    /\ should_work \in [Tasks -> BOOLEAN]
    /\ stopped_dependencies \in [Tasks -> Nat]
    /\ running_dependants \in [Tasks -> Nat]
    /\ counted_in_dependencies \in [Tasks -> BOOLEAN]
    /\ counted_in_dependants \in [Tasks -> BOOLEAN]
    /\ counted_in_pending_tasks \in [Tasks -> BOOLEAN]
    /\ pending_tasks \in Nat
    /\ run_levels \in RunLevels
    /\ handle \in [Tasks -> Handle]
    /\ fq \in [Tasks -> Nat]
    /\ notified \subseteq Tasks \ StartStop
    /\ zombies \subseteq StartStop
    /\ sigchld \in BOOLEAN
    /\ tg \in Targets
    /\ phase \in Phases
    /\ exit_state \in Targets
    /\ requests \in 0..MaxRequests
    /\ fork_failures \in 0..MaxForkFailures

\* The incremental counters of task and initd_state equal what a recount over the
\* flags would give: no increment or decrement of task::sync is lost, repeated or
\* wraps below zero, however run levels, reaps and queue events interleave.
CountersExact ==
    /\ \A t \in Tasks :
         /\ running_dependants[t] = CountTrue(OfDependants(t, counted_in_dependencies))
         /\ stopped_dependencies[t] = Len(Deps[t]) - CountTrue(OfDependencies(t, counted_in_dependants))
    /\ pending_tasks = CountTrue(counted_in_pending_tasks)

\* A task that runs, starts or stops has all its dependencies running and none of
\* them in transition, although task::enqueue_this decides on counters that may be
\* older than the handles they count.
DependencyOrder ==
    \A t \in Tasks : AffectDependencies(handle[t]) =>
        \A d \in Dependencies(t) : AffectDependants(handle[d])

\* A task that initd_state does not count as pending really is where its flag
\* says, so main never leaves its loop early.
PendingComplete ==
    \A t \in Tasks : ~counted_in_pending_tasks[t] =>
        ~AffectPendingTasks(handle[t], should_work[t])

\* Once main has left its loop every task is stopped and every task_handle gone:
\* the assertions of ~async_start_stop_task hold, and so does the assertion that
\* exit_state is not target::running.
CleanExit ==
    phase \in {"unwinding", "exited", "aborted"} /\ tg # "running" =>
        /\ \A t \in Tasks : ~AffectDependencies(handle[t]) /\ ~handle[t].created
        /\ exit_state # "running"

\* A child that has exited is announced by a pending SIGCHLD whenever the loop
\* waits for events: no exit is missed between two reads of the signalfd.
NoLostChild ==
    phase = "loop" /\ fork_failures = 0 /\ zombies # {} => sigchld

\* Only a child of the current operation is ever reaped for a task, and the
\* assertions on running in the two wait_child callbacks hold when it is.
ReapMatchesOperation ==
    \A t \in Tasks : /\ t \in zombies => InTransition(handle[t])
                     /\ handle[t].current_operation = "start" => ~handle[t].running
                     /\ handle[t].current_operation = "stop" => handle[t].running

\* function_queue never pops an empty queue, although reading the eventfd clears
\* several notifications and only one function is run for them.
QueueNotEmpty == \A t \in notified : fq[t] > 0

\* When a flag that task::sync maintains lags behind its handle, a callback that
\* will sync it is on its way: a notified eventfd or a child.
NoLostUpdate ==
    phase \in {"loop", "reaping"} /\ fork_failures = 0 =>
        \A t \in Tasks :
            \/ /\ counted_in_dependencies[t] = AffectDependencies(handle[t])
               /\ counted_in_dependants[t] = AffectDependants(handle[t])
               /\ counted_in_pending_tasks[t] = AffectPendingTasks(handle[t], should_work[t])
            \/ t \in notified
            \/ InTransition(handle[t])

\* A task whose counters allow it to go where its flag says has been told so: the
\* callbacks that enqueue only one side of the graph (the dependants of a started
\* task, the dependencies of a stopped one) leave nobody waiting.
NoMissedWakeup ==
    phase \in {"loop", "reaping"} /\ fork_failures = 0 =>
        \A t \in Tasks :
            /\ should_work[t] /\ stopped_dependencies[t] = 0 => handle[t].should_work
            /\ ~should_work[t] /\ running_dependants[t] = 0 => ~handle[t].should_work

\* What Supervision sees of a handle.
Status(h) == CASE h.current_operation = "start" -> "starting"
               [] h.current_operation = "stop"  -> "stopping"
               [] OTHER -> IF h.running THEN "running" ELSE "stopped"

Promise == INSTANCE Supervision WITH
    Task <- Tasks,
    DependsOn <- [t \in Tasks |-> Dependencies(t)],
    st <- [t \in Tasks |-> Status(handle[t])],
    wanted <- {t \in Tasks : should_work[t]},
    over <- phase \in {"unwinding", "exited", "aborted"} /\ tg # "running"

\* The supervisor implements Supervision: seen through the handles, every callback
\* of initd_state is a step in dependency order that starts only wanted tasks and
\* brings down only unwanted ones, and main leaves when everything is stopped.
ImplementsPromise == Promise!Spec

\* A task that runs and stays wanted is left alone: changing the run level never
\* stops or restarts a task that both run levels need.
KeepsWanted ==
    [][\A t \in Tasks :
          AffectDependants(handle[t]) /\ should_work[t] /\ should_work'[t]
            => AffectDependants(handle'[t])]_vars

\* After the last request the tasks settle where the run level wants them, the
\* ones that a dependency cycle blocks excepted, or the program ends.
Converges ==
    <>[](\/ phase \in {"exited", "aborted"}
         \/ \A t \in Tasks :
              /\ ~InTransition(handle[t])
              /\ handle[t].running = (should_work[t] /\ t \in WellFounded))

\* A reboot or power off completes unless a later run level request cancels it.
ShutdownCompletes == (tg # "running") ~> (phase = "exited" \/ tg = "running")

\* What the assertions of ~async_start_stop_task demand of every way out of main.
DestructorAssertions == phase # "aborted"

\* A requested reboot happens, unless a run level is set that wants tasks again.
RebootHappens == (tg = "reboot") ~> (phase = "exited" \/ \E t \in Tasks : should_work[t])

-----------------------------------------------------------------------------
(* The inductive invariant.  Its parts speak of handles h and flags of struct  *)
(* task, so that they can be asserted in the middle of a callback too, between *)
(* the sync and the enqueue_all.                                               *)

\* A start-stop handle starts from rest and stops from running; an adaptor never
\* is in transition and holds a task_handle only while it runs.
HandleShape(h) ==
    \A t \in Tasks :
        /\ h[t].current_operation = "start" => ~h[t].running
        /\ h[t].current_operation = "stop" => h[t].running
        /\ InTransition(h[t]) => t \in StartStop
        /\ h[t].created => h[t].running /\ t \notin StartStop

WantedClosed(want) == \A t \in Tasks : want[t] => \A d \in Dependencies(t) : want[d]

\* A wanted task that its dependants count as running does run.
CountedRuns(h, want, inDependants) ==
    \A t \in Tasks : inDependants[t] /\ want[t] => AffectDependants(h[t])

\* An unwanted task that its dependencies count as stopped is stopped.
UncountedStopped(h, want, inDependencies) ==
    \A t \in Tasks : ~inDependencies[t] /\ ~want[t] => ~AffectDependencies(h[t])

UncountedSettled(h, want, inPending) ==
    \A t \in Tasks : ~inPending[t] => ~AffectPendingTasks(h[t], want[t])

OrderOf(h) ==
    \A t \in Tasks : AffectDependencies(h[t]) => \A d \in Dependencies(t) : AffectDependants(h[d])

Consistent(h, want, inDependencies, inDependants, inPending) ==
    /\ HandleShape(h)
    /\ WantedClosed(want)
    /\ CountedRuns(h, want, inDependants)
    /\ UncountedStopped(h, want, inDependencies)
    /\ UncountedSettled(h, want, inPending)
    /\ OrderOf(h)

\* The flags and counters of every task fit its handle and the graph, although
\* they may be older than the handle: what makes DependencyOrder, PendingComplete
\* and CleanExit inductive.
IndInv ==
    /\ TypeOK
    /\ CountersExact
    /\ Consistent(handle, should_work, counted_in_dependencies, counted_in_dependants,
                  counted_in_pending_tasks)
    /\ QueueNotEmpty
    /\ \A t \in zombies : InTransition(handle[t])
    /\ phase = "boot" => tg = "running"
    /\ tg # "running" => \A t \in Tasks : ~should_work[t]
    /\ CleanExit
=============================================================================
