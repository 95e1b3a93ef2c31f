# A TLA+ model of initd

initd is a dependency-based init system. A configuration file declares tasks (start and stop
scripts, the hostname, a control socket, null tasks), their dependencies and named run levels. The
`init` process brings the tasks of the `default` run level up in dependency order, changes run
level on request and, on SIGINT, SIGTERM or a request of `initctl`, brings everything down and
reboots or powers off.

The modules here are translated from the C++ code; `PROJECT.json` maps each definition to the
lines it stands for.

## The parts of the system

| Part | State | Operations | Interacts with |
| --- | --- | --- | --- |
| supervisor: `libinitd/initd_state`, `task` | per task `should_work`, two counters about its neighbours, three flags that say where it is counted; `pending_tasks`; `run_levels` | `set_run_level`, `set_empty_run_level`, `sync`, `enqueue_this`, the state-changed callback | calls handles, is called back by them |
| start-stop handle: `async_start_stop_task` | `running`, `should_work`, `current_operation` | `set_should_work`, `enqueue_job`, the callback of a child | `fork`, `wait_child` |
| adaptor: `sync_task_adaptor` | `running`, the `task_handle` | `set_should_work` | creates or destroys the handle at once, reports through a `function_queue` |
| `function_queue`, `eventfd` | a deque of functions, a kernel counter | `push`, the callback of the descriptor | epoll |
| `sigchild_handler`, `process` | table of waiters | the reap loop, `fork`, `reap_child` | signalfd, kernel |
| `context` and `main` | `tg`, `exit_state` | boot, the loop, `reboot`, `power_off`, `set_runlevel` | everything |
| control socket: `control_task`, `stream_socket`, `read_process`, `stream_server_socket` | socket file, connections and their buffers | accept, read, execute, hang up, destroy | calls `context` from inside a connection's callback |
| protocol and `initctl` | none | `serialize`, `read`, one connect and one write | the control socket |
| hostname handle | the name to restore | constructor and destructor | the kernel |
| mount handles: `mount_task`, `loop_device` | a mount point, a loop device | guards: mount and unmount, attach and detach | the kernel's mounts and loop devices, which other processes use too |
| owners of descriptors: `file_descriptor`, `stream_socket`, `connection_process`, `eventfd`, `signalfd` | a descriptor, a registration, two callbacks and `destroyed_tag` of a socket | construct, move, `update`, the callbacks, destroy | `epoll_registration` |
| `epoll`, `epoll_registration` | per object a descriptor and a callback; in the kernel the object's address | construct, move, swap, assign, clear, destroy; `wait` | every descriptor of the program |
| lexer, parser | position, current token, last error place | text to tokens, tokens to a tree, with recovery | `error_tag_sink` |
| reader: `read_value_node`, `read_task_description` | `task_descriptions` | tree to descriptions, duplicates, name lookup | handed to `initd_state` |
| `line_map`, `print_error` | first positions of lines | an excerpt per error | runs after the reader |

The program has one thread and one epoll loop that dispatches one event at a time, so a callback is
atomic. What is hard is everything between callbacks: children exit at any time and SIGCHLD
coalesces; adaptors change state at once but tell the supervisor later; the supervisor decides on
counters that were right at the last `sync`; requests arrive while operations are in progress;
`fork` fails in the middle of a loop; a message can destroy the connection that delivered it.

What makes the parts correct:

* supervisor: start and stop order, exact counters, nobody forgotten, untouched tasks when two run
  levels share them, convergence;
* handles: at most one operation, completed as what it was started as;
* queues and reaping: no event lost by coalescing, no empty queue popped;
* main: it leaves exactly when everything is down;
* control socket: requests executed whole, once, in order; connections, socket file and handle come
  and go together, but for failures that can be named;
* hostname and mounts: what a task changes stays while it runs and is undone when it stops, in the
  right order, also when a constructor stops half way;
* epoll and sockets: the kernel's pointers follow objects that move, every open descriptor has one
  owner, and a callback notices that it has destroyed its own socket;
* reader: it ends on every text, accepts exactly the grammar, reports every place once and at the
  right place, and every declaration it does not complain about means what it says.

## Modules

| Module | Models | Role |
| --- | --- | --- |
| `TaskGraph` | the dependency vectors and what a run level needs | constant operators |
| `Initd` | supervisor, handles, queues, reaping, main | the core specification |
| `Supervision` | what the supervisor promises | abstract specification, implemented by `Initd` |
| `MarkShouldWork` | the recursion of `mark_should_work`, call by call | shows that it computes `TaskGraph!Needed` |
| `ControlTask` | clients, listening socket, connections, framing | separate specification |
| `WaitChild` | the table of `wait_child` objects, process ids that are used again, adopted processes | the part of reaping that `Initd` identifies with the operation |
| `Registration` | `epoll_registration` objects and the kernel's interest list | the part of dispatching that `Initd` takes for granted |
| `StreamSocket` | the owners of descriptors: `file_descriptor`, `stream_socket::update` and its callbacks, `connection_process` | extends `Registration` |
| `SyncTaskAdaptor` | when the handles of synchronous tasks are made and destroyed | extends `TaskGraph`; base of the next two |
| `Hostname` | `hostname_task_handle` | extends `SyncTaskAdaptor` |
| `MountTask` | `mount_task_handle`, `loop_mount_task_handle`, `loop_device`, and the kernel's tables | extends `SyncTaskAdaptor` |
| `SyncTasks` | `Hostname` and `MountTask` in one graph of tasks | composition |
| `Lexer` | `read_next_token` and its helpers | one step per token or comment |
| `PrintError` | `line_map`, `print_error` | extends `Lexer`, whose errors it prints |
| `Parser` | `parser_context`, one step per `expect_token`, loop round or return | a stack machine |
| `Grammar` | the language, as the set of token sequences of a tree | reference for `Parser`, which it extends |
| `ReadValue` | `extract_property_from_map`, `report_duplicates`, the `read` functions | operators |
| `ReadDescriptions` | `read_descriptions` after the parser, one step per declaration | extends `ReadValue` |
| `CmdLine` | the splitting of command lines, and a reference definition | operators, used by `ReadValue` |
| `Arrangement` | the order in which maps, multimaps and loops go through finite sets | operators, used by `PrintError`, `MountTask` and the reader |
| `EventTables` | `StreamSocket` and `WaitChild` beside each other | composition |
| `MC...` | | instances for TLC |
| `InitdProofs`, `MarkShouldWorkProofs`, `EventTablesProofs`, `ControlTaskProofs`, `SyncTasksProofs`, `ReadDescriptionsProofs` | | theorems about the module they are named for and those it extends |
| `SyntaxProofs` | | theorems about `Lexer`, `PrintError`, `Parser` and `Grammar` |
| `SequenceLemmas` | | lemmas about numbers, finite sets and sequences that the proofs share |

`Initd` identifies a child with the operation of its task and an event with its callback;
`WaitChild`, `Registration` and `StreamSocket` show that the code may. `SyncTaskAdaptor` takes from
`Supervision` that tasks start and stop in dependency order. `ReadDescriptions!Closed` is what `TaskGraph` assumes of
the dependency vectors. Definitions whose comment begins with "Mutant" are not part of any
specification: each is the plausible mistake that `PROJECT.json` pairs with a property.

### Initd

Variables carry the names of the members. `handle[t]` is a record for both kinds of handle; for an
adaptor `should_work` equals `running` and `created` says whether it holds a `task_handle`
(`create_task` may have thrown). `fq[t]` is the length of the adaptor's queue, whose functions are
all the same callback; `notified` the set of adaptors whose eventfd is readable. `zombies` are the
tasks whose child has exited and is not reaped; a pid is identified with the operation that owns
it, so a child that exits belongs to the current operation of its task. `sigchld` is the pending
signal.

| Action | Code |
| --- | --- |
| `Boot`, `BootWithoutDefault` | constructor of `context`, with the failure paths of `main` |
| `Signal`, `ControlShutDown` | `context::reboot`, `context::power_off` |
| `SetRunLevel`, `SetUnknownRunLevel` | `context::set_runlevel` and `initd_state::set_run_level` |
| `ChildExit` | kernel |
| `SigchldEvent`, `Reap`, `ReapThrows`, `ReapNone` | the reap loop; one action per child because children exit while it runs |
| `QueueEvent` | eventfd and function queue of an adaptor, with the state-changed callback |
| `LeaveLoop`, `Destroy` | the end of `main` and the destructors |

Each action is a whole callback. `Sync(S, h)` is `task::sync` of every task of `S` when the handles
are `h`: one task's sync touches only its own flags and adds to its neighbours' counters, so the
order within `S` does not matter and the net effect is stated at once. `EnqueueTasks` is
`enqueue_this` of every task of a vector; `enqueue_this` reads flags and counters that no
`enqueue_this` changes, so again order matters only when a `fork` throws: `EnqueueAllThrows` has
the tasks before the failing one done and those after it not, in the order of the vector
(`InTaskOrder`, `InDepsOrder`).

A message that stops the control task goes on in a destroyed connection
(`control_task.cpp:85`). `Initd` continues as if that were harmless, which is what freed but
unchanged memory gives; `ControlTask` has the crash as well.

### Supervision

A set `wanted`, a status per task and a flag `over`. Steps change any number of statuses at once,
respecting dependency order in the new state, starting only wanted tasks and bringing down only
unwanted ones; a script in progress may turn round. `Initd!Promise` maps handles to statuses.

### ControlTask

A stream is a sequence of words, one per field (the code's byte counts scaled: the header is two
words, the body of `reboot` and `power_off` one, a string its length and characters). A client
writes any part of what it has left at any time, closes at any time, and may send what is no
message. `SocketEvent` is one event of a connection: read all there is, run `on_ready`, then the
hangup if the connection is still there. The supervisor is reduced to `StartControl`, `StopControl`
and the choice in `Execute` between a request that leaves the task alone, throws, or stops it.
Undefined behaviour is a choice between going on and `crashed`: a use of a destroyed connection in
`Execute`, and a write through `destroyed_tag` (never initialized, later dangling) when connections
are dropped by another callback. `AcceptFails` is a connection whose constructor throws because the
kernel registers no more descriptors; its members are destroyed on the way, with the same
`destroyed_tag` or with one more registration inside a destructor.

`StartControl` makes a handle or fails in one of the four calls of the constructor. `socket` and
`bind` fail before the name exists (`NoName`; a name that exists always makes `bind` fail). `listen`
and the registration in epoll fail behind `bind` (`NameStays`): the socket is closed and its name
stays, because only the destructor of a handle unlinks, and there is none. `Unlink` may fail too.
`left` says that the socket file was there at first or that such a failure left it, `refused` that
the last start failed before the name was made. A file that was left makes `bind` fail in every
later start; that somebody else takes it away is not modelled.

### WaitChild, Registration and StreamSocket

Both are tables between the program and the kernel. In `WaitChild` a process id is free, alive or a
zombie; `Fork` takes any free one, `Reap` looks it up, runs the callback and destroys the
`wait_child`, and `ReapAndFork` is the callback that starts the opposite script at once, possibly
with the id that was just freed. `Adopt` makes a process that nobody waits for. `told` records who
forked the last process that exited and whose callback ran. In `Registration` an object is named by
its address and a callback by the descriptor it was made for; assignment is a move into the
parameter, a swap and the parameter's destruction.

`StreamSocket` puts the owners on top. A watcher registers in its constructor and keeps its
descriptor (`connection_process` gives it to a socket, `Connected`, or trips over its assertion,
`ConnectionRefused`). `stream_socket::update` is four steps, since the kernel's table changes in each:
`SetCallbacks` removes the registration, `Register` makes the new one in the parameter of
`operator=`, or `RegisterFails`, `SwapIn` swaps, `DropParameter` destroys. It may run inside a callback of the socket,
which is `frame`: the calls still to be made, the local variable `destroyed` and, for the
properties, whether the socket is `gone`. `destroyed_tag` leads to the running frame, nowhere
("null"), or anywhere ("wild": not initialized, or a frame that has finished). A write through a
wild pointer may hit nothing, the variable of the running frame, or end the program (`WritesTag`).
Descriptors are numbers that the kernel gives away again once they are closed.

### SyncTasks

A synchronous handle is made when its task starts and destroyed when it stops; a constructor that
throws leaves the task running without one. `Hostname` keeps the kernel's name and what each handle
restores. `MountTask` keeps the kernel's mount table in the order of mounting, what each loop device
is attached to, and two facts about users: a file system detached lazily stays in use (`pinned`),
and a device in use is detached with its last user (`autoclear`), or `LOOP_CLR_FD` is refused, as
older kernels do. `OpenFile`, `TryNext` and `Attach` are the constructor's walk over the loop devices,
one step per device because other processes attach and detach theirs meanwhile
(`OthersAttach`, `OthersDetach`); the program itself does nothing else during the walk (`Idle`).
`DestroyHandle` is both guards: unmount by path, then detach, whether or not the first worked.
Flags of `mount` other than lazy unmounting have no effect on this and are left out.

### The configuration reader

Characters are model strings ("q" a quote, "bs" a backslash, "nl" a newline), tokens are their
types, names are numbers. `Lexer` keeps ranges, values of literals and errors; it has all ten
escapes, and what they stand for may stand in a string unescaped too, but for the quote, the
backslash and the newline. Control characters are white space between tokens, and only some of them
end the prefix of a raw string (`RawStop`). An integer has the width of an `int` (`IntModulus`) and wraps around when it overflows, as the build does. A frame of `Parser` is what is left of a parse function (`Script`), the expected tokens that
were missing and the nodes so far; `Required` says which missing tokens make a function return no
node. The initial predicate and the specification of `Parser` are `ParserInit` and `ParserSpec`, so that
one module can have theorems about it and about `Lexer`. In `ReadValue` a result is an optional value with the errors pushed on the way, `Schema`
lists what each struct extracts, in order. In `ReadDescriptions` multimaps are orders of
declarations (`MultimapOrder`), and a run level without a name, which the parser can make, ends in
`crashed`: the null name is dereferenced. A value of a task is at most a struct of structs of leaves
(`ValueNode`), because no reader looks deeper. `TreesAssumption` says that the parser leaves a value
out only when it reports an error, which `SilentMeansComplete` says of the parser.

`Grammar` builds the language level by level: `FormsTo(d)` maps every value and property that is at
most `d` deep to the ways to write it, and `Deeper` makes the next level from it. It knows nothing of
cursors, stacks or recovery. A file of `n` tokens holds nothing deeper than `n`.

## Runs

| Run | Configuration | Shows |
| --- | --- | --- |
| `diamond` | 5 tasks of both kinds, a repeated dependency, 3 run level tables (one without `default`), 4 requests, up to 2 failed forks | `TypeOK`, `CountersExact`, `PendingComplete`, `CleanExit`, `NoLostChild`, `NoLostUpdate`, `NoMissedWakeup`, `DependencyOrder`, `IndInv`, `KeepsWanted`, `ImplementsPromise` |
| `liveness` | a chain and a cycle, 3 requests, fair | `Converges`, `ShutdownCompletes` |
| `mark_should_work` | every graph of 3 tasks with up to 2 dependencies | `MarksNeeded`, `MarkingEnds` |
| `control` | 2 clients, 5 kinds of script, 2 starts, each of which may fail in every call, with or without a socket file at first, fair | `ExecutedInOrder`, `NoWordLost`, `HandleOwnsSockets`, `Delivered` |
| `event_tables` | 3 objects, 2 descriptors, 2 tasks, 2 process ids | `KernelKnowsOwner`, `EventsReachOwner`, `OwnersRegistered`, `GoneIsSeen`, `ExitsToldToParent`, `TableAssertions` |
| `sync_tasks` | 2 loop mounts with a lazy mount between them, 3 hostname tasks, one without restoring; 3 loop devices, 2 failures | `NameOutlivedByTask`, `NothingLeftBehind`, `HandleStaysMounted` |
| `lexer` | all texts of 4 to 7 characters over small alphabets, strings of 3 characters over all that can be escaped or stand for an escape, numbers around the width of an `int`, broken literals and comments on several lines | `LiteralsReadBack`, `CommentsClosed`, `PointsAtError`, `LexingEnds` |
| `parser` | all tails of 5 tokens, all small files, files with a token too many or too few, broken before good declarations | `SilentMeansComplete`, `AcceptsGrammar`, `RecoversAtSemicolon`, `OneErrorPerPlace`, `ParsingEnds` |
| `read_descriptions` | every small value for one task, all command lines of 6 characters; up to 3 declarations of tasks, dependencies and run levels, and 4 with repeated names | `Closed`, `UnreportedIsFaithful`, `CommandLinesJudged` |
| `boot_failure` | 2 tasks forked at boot, one fork fails | violates `DestructorAssertions` |
| `lost_reboot` | a reboot and an unknown run level, fair | violates `RebootHappens` |
| `lexer_overrun` | texts of slashes, newlines and letters | violates `NoOverrun` |

Bounds. Three requests suffice for a run level, its reversal and a shutdown while the operations of
the first are still in progress; a fourth lets a shutdown be taken back twice. The diamond is the
smallest graph with two paths between tasks and a counter that exceeds one; the repeated dependency
makes edges and neighbours differ. Two failed forks allow one in a request and
one in a callback. Two starts of the control task show what the first leaves to the second.
Two tasks and two ids let an id of one task be used again by the other, or by an adopted process;
three objects and two descriptors are two owners and the parameter of an assignment, or a socket
made where another was destroyed in its own callback. Three loop devices are one more than the two
loop mounts, so that other processes can take the last; two failures are one of a constructor and
one of a destructor, or of two destructors in a row. Four declarations are two names repeated.
The alphabets of the texts hold the characters that one another's branches look for, and the
lengths fit a literal with an escape, or a raw string with a prefix, and a token behind it. Five
tokens behind the start of a declaration reach every loop of the parser twice, and a `Depth` of 5 is
the struct in a struct with a leaf in it that is the deepest value of the `Trees`.
Deadlock is not checked where the program ends (`Initd`, the reader, a crash in `EventTables`) or where, with the bounds used
up, it waits for ever (`ControlTask`).

Fairness. `Initd!FairSpec`: the program takes its next step when it has one; `epoll_wait` returns
one event per call and the kernel rotates ready descriptors, so each ready descriptor is served;
every script ends. Requests, signals and failures are never fair. `ReapThrows` is not needed,
since the liveness runs have no failed forks. `ControlTask!FairSpec` asks only for service of
ready sockets; clients owe nothing. The specifications of the reader and of the marking are
sequential: weak fairness of `Next` only says that the program goes on.

Limits of the properties. `NoLostChild`, `NoLostUpdate`, `NoMissedWakeup`, `Converges` and
`ShutdownCompletes` are about runs in which no `fork` fails: the code does not retry, so a failed
fork can leave a task behind, and a shutdown can then wait for ever. `Converges` excepts tasks on
or behind a dependency cycle, which never start. `Delivered` excepts a control task that stops and a
kernel that registers no more descriptors, and assumes that `accept4` does not fail for ever.
`HandleOwnsSockets` names the failures that leave a socket file without a handle or a task without
one, and excepts nothing else. `NameOutlivedByTask` is about chains; hostname tasks that do not depend on each other may stop in
any order and leave any of their names. The mount properties are about tasks that depend on each
other when their mount points lie on one path (`Nested`); `NothingLeftBehind` excepts failing
destructors and file systems in use, `HandleStaysMounted` excepts nothing. `OwnersRegistered` holds
between two statements, `GoneIsSeen` until the program crashes.
`UnreportedIsFaithful` is about files that the parser accepts and about the properties that the
readers know: any other property of a struct is ignored without a word. `PointsAtError` excepts an
error on an empty last line and counts a tab as one column.

### Disagreements

* `boot_failure`: an exception in the constructor of `context` destroys `initd_state` while a
  script that was already forked is running. `~async_start_stop_task` asserts the opposite.
* `lost_reboot`: `context::set_runlevel` sets `tg` to `running` before the call that throws for an
  unknown run level. During a reboot this cancels the reboot and wants nothing back: the tasks go
  down, the control socket with them, and init waits.
* `lexer_overrun`: a line comment that ends with the text advances past it, against the assertion
  of `advance_char`.

More oddities are in the models as the code has them, without a run of their
own. `report_duplicates` never resets `last_reported`, so with two repeated names the first
declaration of the second one is not reported; it is the one that counts, so nothing is lost
(`UnreportedIsFaithful`). A run level without a name is kept as a node with a
null name, which `read_run_levels` dereferences before any error is printed (a task without a name
is dropped). An unterminated comment in a text that ends with a newline is reported on the empty
last line, for which `get_line_range_wo_newline` makes a range that ends before it begins. A refused
connection trips over the assertion of `connection_process`, and `~read_process` may have to register again and throw.
A start of the control task that fails behind `bind` leaves a socket file that no destructor removes,
and no later start gets past it.

## Proofs

All theorems are about every value of the constants: any number of tasks, descriptors, addresses,
process ids, clients, devices or tokens, every graph, every bound on requests and failures. The
constants' assumptions are named in the modules that declare them and TLC evaluates them on every run.

| Module | Theorem | States |
| --- | --- | --- |
| `InitdProofs` | `Inductive` | `Spec => []IndInv` |
| | `TypeCorrect`, `CountersCorrect`, `OrderCorrect`, `PendingCorrect`, `ExitCorrect` | `TypeOK`, `CountersExact`, `DependencyOrder`, `PendingComplete`, `CleanExit` |
| | `QueueCorrect`, `ReapCorrect` | `QueueNotEmpty`, `ReapMatchesOperation`: no empty queue is popped, the callbacks' assertions hold (both follow from `IndInv`, which the run checks) |
| | `Refinement`, `WantedLeftAlone` | `Spec => ImplementsPromise`, `Spec => KeepsWanted` |
| | `WakeInductive` | `Spec => []WakeInv` |
| | `NoChildLost`, `NoUpdateLost`, `NoWakeupMissed` | `NoLostChild`, `NoLostUpdate`, `NoMissedWakeup` |
| `MarkShouldWorkProofs` | `MarkInductive`, `MarksCorrect` | `MarkInv`, `MarksNeeded` |
| `EventTablesProofs` | `PointersFollow`, `EventsFollow` | `KernelKnowsOwner` and `EventsReachOwner` of `RegistrationSpec`, where objects move in any order |
| | `TableCorrect`, `ExitsCorrect`, `AssertionsCorrect` | `TableExact`, `ExitsToldToParent`, `TableAssertions` of `TableSpec` |
| | `EventTablesInductive`, `OwnersCorrect`, `GoneSeen`, `PointersCorrect`, `EventsCorrect`, `ProcessesCorrect` | `EventTablesInv`, `OwnersRegistered`, `GoneIsSeen` and the four properties above, of the composition |
| `ControlTaskProofs` | `ControlInductive`, `HandleCorrect`, `StreamsCorrect` | `ControlInv`, `HandleOwnsSockets`, `NoWordLost` |
| | `ExecutionCorrect` | `ExecutedInOrder`, for scripts that keep to the framing |
| `SyncTasksProofs` | `SyncInductive`, `NamesCorrect`, `HandlesCorrect`, `GuardsCorrect` | `SyncInv`, `NameOutlivedByTask`, `HandleStaysMounted`, `NothingLeftBehind` |
| `SyntaxProofs` | `LexInductive`, `CommentsCorrect`, `LiteralsCorrect`, `ErrorsPointed` | `LexInv`, `CommentsClosed`, `LiteralsReadBack`, `PointsAtError` |
| | `CursorInductive`, `ErrorsCorrect` | `CursorOK(cursor)`, `OneErrorPerPlace` of `ParserSpec` |
| | `ReadingInductive`, `SilenceCorrect` | `ReadingInv`, `SilentMeansComplete` of `ParserSpec` |
| | `ResumingInductive`, `GrammarAccepted`, `RecoveryCorrect` | `ResumingInv`, `AcceptsGrammar`, `RecoversAtSemicolon` of `ParserSpec` |
| `ReadDescriptionsProofs` | `SplitCorrect` | `Split` of every string is the reference `Arguments`, or `None` exactly when it is not `Splittable` |
| | `ReadInvariant`, `DescriptionsClosed` | `ReadInv`, `Closed` |
| | `ErrorsInvariant`, `ReadingFaithful`, `CommandLinesRight` | `ErrorsKept`, `UnreportedIsFaithful`, `CommandLinesJudged` |

### Recursion

The library's induction theorems take an operator as a parameter, which the provers cannot
instantiate. `SequenceLemmas` has forms that take sets and functions instead, all from the
well-foundedness of `<` on the natural numbers: `SetInduction`; `Iteration` and `Descent`, by which a
recursive function that looks at its predecessor, or jumps ahead in a sequence, exists and satisfies
its equation. The facts about `FlattenSeq` of the community modules, about `Arranged` (a finite set in
order, by the number of elements up to each) and about the loops of `CmdLine` rest on them.

### The supervisor

`DependencyOrder` is not inductive: `enqueue_this` looks at counters, not at handles. `IndInv` adds
what relates the two. The counters are exact about the flags (`CountersExact`); a flag may be older
than its handle, but only in harmless directions: a wanted task that its dependants count as
running does run (`CountedRuns`), an unwanted task that its dependencies count as stopped is
stopped (`UncountedStopped`), a task that is not counted as pending is settled
(`UncountedSettled`). With `WantedClosed` (whoever is wanted has its dependencies wanted) a start
that sees no stopped dependency starts on running ones, and a stop that sees no running dependant
stops under none. `Consistent` takes handles and flags as parameters because it holds in the middle
of a callback too: `SyncConsistent` carries it over the sync, `EnqueueConsistent` over
`enqueue_all`, complete or cut short, `CompletedHandle` over the end of an operation.
`NetIsDifference`, `CountZero` and `CountAll` connect counters and flags through cardinalities.

`WakeInv` is the half of the argument that says nobody is forgotten. `NoMissedWakeup` speaks of a
task at rest whose counters let it go on; that it cannot exist rests on `Told` (each task's handle
already has the target that its counters allow) and `Steady` (a handle at rest is where it was told
to be). A callback calls `enqueue_this` for one side of the graph only: the lemmas show that the
counters of the other side did not become zero. All of it is under `NoFailure`, as in the
properties, because the code does not retry a fork.

`MarkInv` replaces an induction over the recursion of `mark_should_work` by a fact about the stack:
of a marked task every dependency is marked or `Awaited`, that is, a frame of the task has not come
to it yet. When the stack is empty the marked set is closed, hence all of `Needed`; that nothing
else is marked holds at every step.

### Descriptors and processes

In `Registration` the pointers say nothing about
callbacks, so `EventsReachOwner` needs `CallbackFollows`: an object with a descriptor has the
callback made for it (an object without one may keep an old callback, which `clear` leaves). In
`WaitChild` the exact table implies that the next assertion holds, and a table is exact only while
none has failed, so the two are carried together. `RegistrationAssumption` and
`WaitChildAssumption` only keep the marks for "none" out of the sets.

`OwnersRegistered` holds between statements, so `Stage` says what holds inside
`stream_socket::update`: after the old registration went (`Cleared`), with the new one in the
parameter of `operator=` (`InParameter`), after the swap (`Swapped`); in each all other objects are
`Settled`. `Ownership` says that a descriptor has one owner, without which closing one could close
another's. `CallbackKnows` says that the `destroyed_tag` of a socket in its own callback leads to
the local variable of that callback until the socket is gone, and then the variable is set.

### The control socket

`StreamKept`: what was executed, is buffered, is on the wire and is not yet sent is the client's
stream, from before it connects until its socket is gone. `HandleInv` adds to `HandleOwnsSockets`
that a handle exists only while the task runs, so a socket file that a start finds is one that was
left; each failure of `StartControl` and each end of `Unlink` is a case. The proof needs what `FlattenSeq` does with
one more message and with a split sequence (`FlattenAppend`, `FlattenSplit`). `ExecutionCorrect` has a hypothesis about the clients:
`FramedSeq`, every message can be executed, or its header is refused, or it is the last one and no
proper part of it can be executed. Without it the words may be cut into messages otherwise than
their sender meant, and "in order" has no meaning. All scripts of the run satisfy it, and what
`initctl` sends does.

### Synchronous tasks

`RunningInv` (what runs is closed under dependencies, also during the walk over loop devices) gives
`StartsLast` and `StopsFirst`: nothing that runs needs the task that starts or stops. In a chain the
last handle therefore stops first, and `HostnameInv` says what it puts back: a name saved by a
handle is the original one, one that is not to be restored, or that of a restoring task below,
which still runs.

For mounts `Places` gives every handle its place in the mount table, above the places of all that
its task depends on. `umount2` goes by path and reaches (`Reach`) only places at or above the
task's own, on overlapping paths; the handles there are comparable with the task (`Nested`), those it
needs lie below and none above needs it, so no other handle's mount is reached (`OutOfReach`), lazily
or not, whatever earlier failures left in the table. A device is then spared because it is mounted
(`DetachFacts`). `NothingLeftBehind` needs `Clean`: no entry without a handle, none twice, no pinned
device; then an unmount finds exactly the task's own mount (`UnmountsOwn`). `WithoutFacts` is about
the table: taking entries out keeps the others and their order, which is what `PickedFacts` says of
any sequence. Assumed are `MountAssumption` (mount points are
paths), `HostnameAssumption` and `KindsAssumption` (a task has one description).

### The lexer and the parser

`LexInv` adds to `CommentsClosed` that the position is in the text or at its end, whatever literal
or mark the text is cut off in, and that the errors are a sequence. `CommentOK` takes the set of
errors as a parameter: errors are only added, so a comment that was right stays right
(`CommentStays`). `FirstOf` relates the search of the code, which stops at the end of the text, to
the least place of a mark; `Marks` spells a comparison with a mark out into characters.
`LexerAssumption` says that texts are sequences of the characters the model tells apart, and that
an `int` has an even number of values.

`LiteralsCorrect` reads literals back. A string is an induction over its characters
(`StringReads`): the text up to here, or up to the backslash in front of a character that is the
second one of an escape, spells what has been appended so far (`Spelt`, one of the `Spellings` of each
character; `SpeltAppend` adds one). A value has many spellings, a text is the spelling of one value. `EscapedFacts` makes the
pairing of backslashes from the left available, and that no escape is invalid is what tells a `string`
from a `bad_string`. A raw string is a chain of pieces of the text (`LexemeJoin`), the last of which
is its end mark. For numbers, `NumberReads` compares the loop, which multiplies by ten and wraps around,
with the sum over powers of ten: a value on the way, times the power that is still to come, is the
sum so far, so it is no larger than the number itself and nothing wraps around before an `int` is
too narrow for the whole.

`ErrorsPointed` needs of the lexer only that an error's range is a part of the text (`LexInv`). The
rest is about `line_map`: its positions ascend and begin at the first, so the search for the last one
that is not beyond a position gives the line that holds it (`LineFacts`), and the excerpt is exactly
that line, without its newline if it has one (`ExcerptFacts`).

`OneErrorPerPlace` needs that `last_error_place` is the last error reported and not beyond the
cursor: an error is reported only when the two places differ, and the cursor never goes back.

`SilentMeansComplete` speaks of the moments between two declarations. `ReadingInv` says what has been
read in between: the tokens before the cursor are a text of the tree, then for every call that waits
what it had read when it called (`Waits`), then what the call on the top has read (`Reads`: a part of
its opening, its children so far, or everything). The `i`-th call of the stack makes nodes of the
`i`-th level from the top, `FormsAt`; declarations call `struct`, `struct` and `property` call each
other, so the depth of the stack says which function is where (`FnsAt`), and because every call has
read a token of its own, the stack is shorter than the file and the levels do not run out. There is
one fact per way a step can change the stack: `GoodStep` (the top reads on), `GoodPush`, `GoodPop`,
`GoodReturn` and `GoodDeclaration`; the lemmas about `Reads` and `Waits` say of every function what it
has read after a step. What is hidden in the loops is which prefixes of a list are complete: before
a closing brace the last comma of a struct may be missing, elsewhere not (`InBody`). `ParserAssumption`
says that files are sequences of the types of tokens.

`AcceptsGrammar` and `RecoversAtSemicolon` are the other direction, about the tokens that are still to
be read. Both follow from `ResumingInv`, which says the same of every place behind which a file of
the grammar begins (`Restart`: the beginning of the file, and every semicolon without a brace in front
of it). Until the cursor has passed that place, no call for a struct has been on the stack
(`Outside`): at most one call, of a declaration in the making, so what is wrong in front of the
semicolon is reported in front of it or at it, and when the cursor passes it the declaration is over
(`StepReaches`). Beyond it nothing is reported, because of `Coming`: the tokens ahead are, for each call
from the top of the stack down, what its remaining steps take (`Awaits`, a chain of places with
`Takes` between them), and then a file again. Each step of the parser keeps that (`StepPasses`):
`ValueTakes`, `PropertiesTake`, `NamesTake`, `DeclarationTakes` and `FileTakes` take the first symbol off
a part of the grammar and say what follows it. They also say which token is looked at, and that is
why the branches that report are not reached. What makes it delicate is the comma, which is
optional in front of a closing brace only, and the value, which may be followed by anything but an
opening brace.

### The reader

`SplitCorrect` compares two nested loops with a definition that looks at each position by itself:
`Open` says which quote is open before it. The invariant that connects them is about positions
outside quotes. From such a position the inner loop returns what `Picked` leaves of the run up to the
next separator, or nothing if a quote opened in it stays open (`ArgumentRead`, by induction from the
right end, one round of the loop per step: `ReadStep`), and ends outside quotes again (`ReadEnds`);
the outer loop puts the runs together in the order of their starts (`SplitStep`, `AllSplit`).

`Closed` and `UnreportedIsFaithful` say what holds of descriptions at the end; `ReadInv` says what has
been made after each declaration. Tasks are those of the multimap's order so far (`TasksMade`), so the
first task of a name is also the first that `find` returns later, when more have been added; the
dependencies of that task are the known names of the declarations read so far (`DependenciesMade`),
which needs that all tasks exist before the first dependency is read; a run level has the requisites
of the first declaration of its name (`RunLevelsMade`). Reading a struct is one lemma per level:
`PrimitiveFacts`, `CommandFacts`, `TaskStructFacts`, each saying that without errors the value is
there and is what the properties say. `DuplicatesFound` is where `report_duplicates` matters: of
entries with equal keys at most the first, the one that counts, is not reported.

`ErrorsKept` is the other half: no report is lost, and a declaration of dependencies or a run level
without a report has only names that there is a task for. Its second use is `CommandLinesJudged`,
where every report must be traced to a command line: `LinesReported` leads it back to the reader of
a task, and `TaskFacts` from there to a line that is not `Splittable`.

### Only model-checked

* Liveness: `Converges`, `ShutdownCompletes`, `MarkingEnds`, `Delivered`, `LexingEnds`, `ParsingEnds`.

Every invariant and every action property that a passing run checks is a theorem.

## Not modelled, and the plan

What could follow, in order:

1. Composition of the reader: the lexer's tokens as the parser's input and the parser's tree as the
   reader's. The parts are checked on inputs that include what their predecessor makes.
2. What a failed fork leaves behind: which tasks a shutdown then waits for.

Left out for good: what scripts do (the signals they inherit as blocked included), text of messages and logs, wrappers of single system
calls, the unused timer, `create_pipe` and `socket_address`, templates, the test driver.
