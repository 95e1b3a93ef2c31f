-------------------------- MODULE EventTablesProofs --------------------------
(* The objects that own descriptors and registrations, for any number of objects,
   descriptors, tasks and process ids. *)
EXTENDS EventTables, TLAPS

-----------------------------------------------------------------------------
(* The registrations on their own: the interest list of the kernel follows them *)

\* The inductive invariant: the pointers of the kernel alone say nothing about the
\* callbacks, which move with the descriptors.
RegistrationInv == RegistrationTypeOK /\ KernelKnowsOwner /\ CallbackFollows /\ EventsReachOwner

USE RegistrationAssumption DEF NoDescriptor, NoAddress

\* The initial state, without objects.
LEMMA RegistrationInitHolds == RegistrationInit => RegistrationInv
  BY DEF RegistrationInit, RegistrationInv, RegistrationTypeOK, KernelKnowsOwner, CallbackFollows, EventsReachOwner

\* A constructor of an empty registration does not touch the kernel.
LEMMA ConstructingEmpty ==
  ASSUME RegistrationInv, NEW a \in Addresses, ConstructEmpty(a)
  PROVE  RegistrationInv'
  BY DEF ConstructEmpty, RegistrationInv, RegistrationTypeOK, KernelKnowsOwner, CallbackFollows, EventsReachOwner

\* The other constructor tells the kernel the address of the new object.
LEMMA Constructing ==
  ASSUME RegistrationInv, NEW a \in Addresses, NEW d \in Descriptors, Construct(a, d)
  PROVE  RegistrationInv'
  BY DEF Construct, RegistrationInv, RegistrationTypeOK, KernelKnowsOwner, CallbackFollows, EventsReachOwner

\* Moving, swapping and assigning hand descriptor, callback and pointer over together.
LEMMA Moving ==
  ASSUME RegistrationInv, NEW a \in Addresses, NEW b \in Addresses, Move(a, b) \/ Swap(a, b) \/ Assign(a, b)
  PROVE  RegistrationInv'
  <1>1. CASE Move(a, b)
    BY <1>1 DEF Move, Update, RegistrationInv, RegistrationTypeOK, KernelKnowsOwner, CallbackFollows, EventsReachOwner
  <1>2. CASE Swap(a, b)
    BY <1>2 DEF Swap, Update, RegistrationInv, RegistrationTypeOK, KernelKnowsOwner, CallbackFollows, EventsReachOwner
  <1>3. CASE Assign(a, b)
    BY <1>3 DEF Assign, Update, Remove, RegistrationInv, RegistrationTypeOK, KernelKnowsOwner, CallbackFollows, EventsReachOwner
  <1> QED BY <1>1, <1>2, <1>3

\* Clearing and destroying take the pointer away before the object goes.
LEMMA Clearing ==
  ASSUME RegistrationInv, NEW a \in Addresses, Clear(a) \/ Destroy(a)
  PROVE  RegistrationInv'
  BY DEF Clear, Destroy, Remove, RegistrationInv, RegistrationTypeOK, KernelKnowsOwner, CallbackFollows, EventsReachOwner

\* An event is dispatched through the pointer, to the callback of its descriptor.
LEMMA DispatchingEvent ==
  ASSUME RegistrationInv, NEW d \in Descriptors, Wait(d)
  PROVE  RegistrationInv'
  BY DEF Wait, RegistrationInv, RegistrationTypeOK, KernelKnowsOwner, CallbackFollows, EventsReachOwner

\* The invariant is inductive: every step of the program keeps pointers, descriptors
\* and callbacks together.
THEOREM RegistrationInductive == RegistrationSpec => []RegistrationInv
  <1>1. RegistrationInv /\ [RegistrationNext]_registrationVars => RegistrationInv'
    <2> SUFFICES ASSUME RegistrationInv, [RegistrationNext]_registrationVars PROVE RegistrationInv'
      OBVIOUS
    <2>1. CASE RegistrationNext
      BY <2>1, ConstructingEmpty, Constructing, Moving, Clearing, DispatchingEvent DEF RegistrationNext
    <2>2. CASE UNCHANGED registrationVars
      BY <2>2 DEF registrationVars, RegistrationInv, RegistrationTypeOK, KernelKnowsOwner, CallbackFollows, EventsReachOwner
    <2> QED BY <2>1, <2>2
  <1> QED BY <1>1, RegistrationInitHolds, PTL DEF RegistrationSpec

\* epoll::wait never follows a pointer to an object that is gone or was moved from.
THEOREM PointersFollow == RegistrationSpec => []KernelKnowsOwner
  <1>1. RegistrationInv => KernelKnowsOwner
    BY DEF RegistrationInv
  <1> QED BY <1>1, RegistrationInductive, PTL

\* Events reach the callback that was registered for their descriptor.
THEOREM EventsFollow == RegistrationSpec => []EventsReachOwner
  <1>1. RegistrationInv => EventsReachOwner
    BY DEF RegistrationInv
  <1> QED BY <1>1, RegistrationInductive, PTL

-----------------------------------------------------------------------------
(* The table of wait_child objects on its own *)

\* The inductive invariant. TableAssertions follows from the exact table one step
\* later, so they are carried together.
TableInv == TableTypeOK /\ TableExact /\ ExitsToldToParent /\ TableAssertions

USE WaitChildAssumption DEF Nobody, NoPid

\* The table is empty at the start.
LEMMA TableInitHolds == TableInit => TableInv
  <1> SUFFICES ASSUME TableInit PROVE TableInv
    OBVIOUS
  <1>1. TableTypeOK
    BY DEF TableInit, TableTypeOK
  <1>2. TableExact
    BY DEF TableInit, TableExact
  <1>3. ExitsToldToParent /\ TableAssertions
    BY DEF TableInit, ExitsToldToParent, TableAssertions
  <1> QED BY <1>1, <1>2, <1>3 DEF TableInv

\* What the kernel does with processes that stay in their state of being waited for.
LEMMA KernelSteps ==
  ASSUME TableInv, NEW p \in Pids, Adopt(p) \/ Exit(p) \/ ReapUnknown(p)
  PROVE  TableInv'
  BY DEF Adopt, Exit, ReapUnknown, TableInv, TableTypeOK, TableExact, ExitsToldToParent, TableAssertions

\* fork takes a free id, which is not in the table.
LEMMA Forking ==
  ASSUME TableInv, NEW t \in Tasks, NEW p \in Pids, Fork(t, p)
  PROVE  TableInv'
  BY DEF Fork, TableInv, TableTypeOK, TableExact, ExitsToldToParent, TableAssertions

\* The callback leaves the table before anything else happens.
LEMMA Reaping ==
  ASSUME TableInv, NEW p \in Pids, Reap(p)
  PROVE  TableInv'
  BY DEF Reap, TableInv, TableTypeOK, TableExact, ExitsToldToParent, TableAssertions

\* The callback forks again, with the id just freed or with another one.
LEMMA ReapingAndForking ==
  ASSUME TableInv, NEW p \in Pids, NEW q \in Pids, ReapAndFork(p, q)
  PROVE  TableInv'
  BY DEF ReapAndFork, TableInv, TableTypeOK, TableExact, ExitsToldToParent, TableAssertions

\* The invariant is inductive.
THEOREM WaitChildInductive == TableSpec => []TableInv
  <1>1. TableInv /\ [TableNext]_tableVars => TableInv'
    <2> SUFFICES ASSUME TableInv, [TableNext]_tableVars PROVE TableInv'
      OBVIOUS
    <2>1. CASE TableNext
      BY <2>1, KernelSteps, Forking, Reaping, ReapingAndForking DEF TableNext
    <2>2. CASE UNCHANGED tableVars
      BY <2>2 DEF tableVars, TableInv, TableTypeOK, TableExact, ExitsToldToParent, TableAssertions
    <2> QED BY <2>1, <2>2
  <1> QED BY <1>1, TableInitHolds, PTL DEF TableSpec

\* The table holds exactly the processes that tasks wait for.
THEOREM TableCorrect == TableSpec => []TableExact
  <1>1. TableInv => TableExact
    BY DEF TableInv
  <1> QED BY <1>1, WaitChildInductive, PTL

\* Every exit is told to the task that forked the process and to no other.
THEOREM ExitsCorrect == TableSpec => []ExitsToldToParent
  <1>1. TableInv => ExitsToldToParent
    BY DEF TableInv
  <1> QED BY <1>1, WaitChildInductive, PTL

\* The assertions of sigchild_handler::add and remove hold.
THEOREM AssertionsCorrect == TableSpec => []TableAssertions
  <1>1. TableInv => TableAssertions
    BY DEF TableInv
  <1> QED BY <1>1, WaitChildInductive, PTL

-----------------------------------------------------------------------------
(* The inductive invariant *)

SocketTypeOK ==
    /\ kind \in [Addresses -> {"none", "socket", "watcher", "registration"}]
    /\ owned \in [Addresses -> Descriptors \cup {NoDescriptor}]
    /\ open \subseteq Descriptors
    /\ on_read \subseteq Addresses
    /\ on_disconnect \subseteq Addresses
    /\ failed \subseteq on_read \cup on_disconnect
    /\ destroyed_tag \in [Addresses -> {"null", "wild", "frame"}]
    /\ crashed \in BOOLEAN

\* Every descriptor has one owner; only objects that are alive own descriptors, and only
\* sockets with a descriptor have callbacks.
Ownership ==
    /\ \A a \in Addresses : kind[a] = "none" <=> a \notin alive
    /\ \A a \in Addresses : owned[a] # NoDescriptor => kind[a] \in {"socket", "watcher"}
    /\ \A a \in on_read \cup on_disconnect : kind[a] = "socket" /\ owned[a] # NoDescriptor
    /\ open = {owned[a] : a \in Addresses} \ {NoDescriptor}
    /\ \A a, b \in Addresses : a # b /\ owned[a] = owned[b] => owned[a] = NoDescriptor

\* The object at a is registered if it should be, and is no parameter of an operator=.
Settled(a) ==
    /\ kind[a] # "registration"
    /\ fd[a] = IF a \in Watchers \cup Subscribers THEN owned[a] ELSE NoDescriptor

\* Where stream_socket::update of the socket s is: the old registration is gone, the new
\* one is in the parameter, the two have been swapped.
Cleared(s) ==
    /\ updating = <<s>>
    /\ s \in Subscribers /\ fd[s] = NoDescriptor
    /\ \A a \in Addresses \ {s} : Settled(a)

InParameter(s, tmp) ==
    /\ updating = <<s, tmp>>
    /\ s \in Subscribers /\ fd[s] = NoDescriptor
    /\ kind[tmp] = "registration" /\ fd[tmp] = owned[s]
    /\ \A a \in Addresses \ {s, tmp} : Settled(a)

Swapped(s, tmp) ==
    /\ updating = <<s, tmp, "swapped">>
    /\ kind[tmp] = "registration" /\ fd[tmp] = NoDescriptor
    /\ \A a \in Addresses \ {tmp} : Settled(a)

Stage ==
    \/ updating = NoUpdate /\ \A a \in Addresses : Settled(a)
    \/ \E s \in Addresses : Cleared(s)
    \/ \E s, tmp \in Addresses : InParameter(s, tmp) \/ Swapped(s, tmp)

\* While the callback of a socket runs and the socket is there, its pointer leads to the
\* variable destroyed of the callback; once it is gone, the variable says so.
CallbackKnows ==
    frame # NoFrame =>
        /\ DOMAIN frame = {"socket", "calls", "destroyed", "gone"}
        /\ frame.socket \in Addresses
        /\ frame.gone \in BOOLEAN
        /\ frame.destroyed \in BOOLEAN
        /\ ~frame.gone => kind[frame.socket] = "socket" /\ destroyed_tag[frame.socket] = "frame"
        /\ ~crashed /\ frame.gone => frame.destroyed

OwnerInv == SocketTypeOK /\ Ownership /\ Stage

-----------------------------------------------------------------------------
(* Steps of the registration objects *)

\* An update is at the stage that its length says.
LEMMA StageByLength ==
    ASSUME Stage
    PROVE  /\ updating = NoUpdate => \A a \in Addresses : Settled(a)
           /\ Len(updating) = 1 => updating # NoUpdate /\ \E s \in Addresses : Cleared(s)
           /\ Len(updating) = 2 => updating # NoUpdate /\ \E s, tmp \in Addresses : InParameter(s, tmp)
           /\ Len(updating) = 3 => updating # NoUpdate /\ \E s, tmp \in Addresses : Swapped(s, tmp)
<1>1. /\ Len(<<>>) = 0
      /\ \A s : Len(<<s>>) = 1 /\ <<s>> # <<>>
      /\ \A s, tmp : Len(<<s, tmp>>) = 2 /\ <<s, tmp>> # <<>>
      /\ \A s, tmp : Len(<<s, tmp, "swapped">>) = 3 /\ <<s, tmp, "swapped">> # <<>>
  OBVIOUS
<1>2. /\ \A s : Cleared(s) => updating = <<s>>
      /\ \A s, tmp : InParameter(s, tmp) => updating = <<s, tmp>>
      /\ \A s, tmp : Swapped(s, tmp) => updating = <<s, tmp, "swapped">>
  BY DEF Cleared, InParameter, Swapped
<1> QED
  BY <1>1, <1>2 DEF Stage, NoUpdate

\* A connection that is made: the registration of the connection_process goes, and an
\* empty one comes with the socket.
LEMMA Connecting ==
    ASSUME RegistrationInv, NEW w \in Addresses, NEW a \in Addresses, Connected(w, a)
    PROVE  RegistrationInv'
  BY DEF Connected, Remove, RegistrationInv, RegistrationTypeOK, KernelKnowsOwner, CallbackFollows, EventsReachOwner

\* Nothing about registrations changes with the variables of the sockets.
LEMMA RegistrationKept == ASSUME RegistrationInv, UNCHANGED registrationVars PROVE RegistrationInv'
  BY DEF registrationVars, RegistrationInv, RegistrationTypeOK, KernelKnowsOwner, CallbackFollows, EventsReachOwner

\* Every step of the sockets is a step of their registrations, or none.
LEMMA RegistrationStep ==
    ASSUME RegistrationInv, OwnerInv, SocketNext
    PROVE  RegistrationInv'
<1>1. fd \in [Addresses -> Descriptors \cup {NoDescriptor}]
  BY DEF RegistrationInv, RegistrationTypeOK
<1>2. ASSUME NEW a \in Addresses, NEW d \in Descriptors, Watch(a, d) PROVE RegistrationInv'
  BY <1>2, Constructing DEF Watch
<1>3. ASSUME NEW w \in Addresses, NEW a \in Addresses, NEW d \in Descriptors, Accept(w, a, d)
      PROVE  RegistrationInv'
  BY <1>3, ConstructingEmpty DEF Accept
<1>4. ASSUME NEW a \in Addresses, NEW b \in Addresses, Connected(a, b) \/ MoveSocket(a, b)
      PROVE  RegistrationInv'
  BY <1>4, Connecting, Moving DEF MoveSocket
<1>5. ASSUME NEW w \in Addresses, ConnectionRefused(w) PROVE RegistrationInv'
  BY <1>5, RegistrationKept DEF ConnectionRefused
<1>6. ASSUME NEW a \in Addresses, SetOnRead(a) \/ SetOnDisconnect(a) PROVE RegistrationInv'
  BY <1>6, Clearing DEF SetOnRead, SetOnDisconnect, SetCallbacks
<1>7. ASSUME NEW tmp \in Addresses, Register(tmp) PROVE RegistrationInv'
  <2>1. PICK s \in Addresses : Cleared(s)
    BY <1>7, StageByLength DEF OwnerInv, Register
  <2>2. updating[1] = s /\ owned[s] \in Descriptors
    BY <2>1 DEF Cleared, OwnerInv, SocketTypeOK, Ownership, Subscribers
  <2> QED
    BY <1>7, <2>2, Constructing DEF Register
<1>8. CASE RegisterFails
  BY <1>8, RegistrationKept DEF RegisterFails
<1>9. CASE SwapIn
  <2>1. PICK s \in Addresses, tmp \in Addresses : InParameter(s, tmp)
    BY <1>9, StageByLength DEF OwnerInv, SwapIn
  <2>2. updating[1] = s /\ updating[2] = tmp
    BY <2>1 DEF InParameter
  <2> QED
    BY <1>9, <2>2, Moving DEF SwapIn
<1>10. CASE DropParameter
  <2>1. PICK s \in Addresses, tmp \in Addresses : Swapped(s, tmp)
    BY <1>10, StageByLength DEF OwnerInv, DropParameter
  <2>2. updating[2] = tmp
    BY <2>1 DEF Swapped
  <2> QED
    BY <1>10, <2>2, Clearing DEF DropParameter
<1>11. ASSUME NEW a \in Addresses, WatcherEvent(a) \/ \E hup \in BOOLEAN : Event(a, hup)
       PROVE  RegistrationInv'
  BY <1>1, <1>11, DispatchingEvent DEF WatcherEvent, Event
<1>12. CASE CallbackReturns \/ CallbackThrows
  BY <1>12, RegistrationKept DEF CallbackReturns, CallbackThrows
<1>13. ASSUME NEW a \in Addresses, DestroyWatcher(a) \/ DestroySocket(a) PROVE RegistrationInv'
  BY <1>13, Clearing DEF DestroyWatcher, DestroySocket, DestroyMembers
<1> QED
  BY <1>2, <1>3, <1>4, <1>5, <1>6, <1>7, <1>8, <1>9, <1>10, <1>11, <1>12, <1>13 DEF SocketNext

-----------------------------------------------------------------------------
(* Steps of their owners *)

\* The program starts without objects.
LEMMA OwnerInit == SocketInit => OwnerInv /\ CallbackKnows
<1> SUFFICES ASSUME SocketInit PROVE OwnerInv /\ CallbackKnows
  OBVIOUS
<1>1. SocketTypeOK
  BY DEF SocketInit, SocketTypeOK
<1>2. Ownership
  BY DEF SocketInit, RegistrationInit, Ownership
<1>3. Stage
  BY DEF SocketInit, RegistrationInit, Stage, Settled, Watchers, Subscribers, NoUpdate
<1>4. CallbackKnows
  BY DEF SocketInit, CallbackKnows
<1> QED
  BY <1>1, <1>2, <1>3, <1>4 DEF OwnerInv

\* A descriptor that the kernel gives away has no owner yet.
LEMMA WatchOwns ==
    ASSUME RegistrationInv, OwnerInv, NEW a \in Addresses, NEW d \in Descriptors, Watch(a, d)
    PROVE  OwnerInv'
<1> USE DEF OwnerInv, RegistrationInv
<1>1. SocketTypeOK'
  BY DEF SocketTypeOK, Watch
<1>2. Ownership'
  BY DEF SocketTypeOK, Ownership, Watch, Construct, RegistrationTypeOK
<1>3. Stage'
  <2>1. updating = NoUpdate /\ \A b \in Addresses : Settled(b)
    BY StageByLength DEF Watch, Calm
  <2>2. \A b \in Addresses : Settled(b)'
    BY <2>1 DEF Watch, Construct, Settled, Watchers, Subscribers, SocketTypeOK, RegistrationTypeOK, Ownership
  <2> QED
    BY <2>1, <2>2 DEF Stage, Watch
<1> QED
  BY <1>1, <1>2, <1>3

\* An accepted connection: the socket has no registration yet and no callbacks.
LEMMA AcceptOwns ==
    ASSUME RegistrationInv, OwnerInv, NEW w \in Addresses, NEW a \in Addresses, NEW d \in Descriptors,
           Accept(w, a, d)
    PROVE  OwnerInv'
<1> USE DEF OwnerInv, RegistrationInv
<1>1. SocketTypeOK'
  BY DEF SocketTypeOK, Accept
<1>2. Ownership'
  BY DEF SocketTypeOK, Ownership, Accept, ConstructEmpty, RegistrationTypeOK
<1>3. Stage'
  <2>1. updating = NoUpdate /\ \A b \in Addresses : Settled(b)
    BY StageByLength DEF Accept, Calm
  <2>2. \A b \in Addresses : Settled(b)'
    BY <2>1 DEF Accept, ConstructEmpty, Settled, Watchers, Subscribers, SocketTypeOK, RegistrationTypeOK, Ownership
  <2> QED
    BY <2>1, <2>2 DEF Stage, Accept
<1> QED
  BY <1>1, <1>2, <1>3

\* A connection_process hands its descriptor over, without its registration.
LEMMA ConnectedOwns ==
    ASSUME RegistrationInv, OwnerInv, NEW w \in Addresses, NEW a \in Addresses, Connected(w, a)
    PROVE  OwnerInv'
<1> USE DEF OwnerInv, RegistrationInv
<1>1. SocketTypeOK'
  BY DEF SocketTypeOK, Connected, MoveDescriptor
<1>2. w # a /\ owned[a] = NoDescriptor /\ kind[a] = "none"
  BY DEF Connected, Ownership, Watchers, SocketTypeOK
<1>3. Ownership'
  BY <1>2 DEF SocketTypeOK, Ownership, Connected, MoveDescriptor, Watchers, RegistrationTypeOK
<1>4. Stage'
  <2>1. updating = NoUpdate /\ \A b \in Addresses : Settled(b)
    BY StageByLength DEF Connected, Calm
  <2>2. \A b \in Addresses : Settled(b)'
    BY <1>2, <2>1 DEF Connected, MoveDescriptor, Settled, Watchers, Subscribers, SocketTypeOK, RegistrationTypeOK, Ownership
  <2> QED
    BY <2>1, <2>2 DEF Stage, Connected
<1> QED
  BY <1>1, <1>3, <1>4

\* A socket without callbacks has no registration, so moving one moves its descriptor only.
LEMMA MoveSocketOwns ==
    ASSUME RegistrationInv, OwnerInv, NEW a \in Addresses, NEW b \in Addresses, MoveSocket(a, b)
    PROVE  OwnerInv'
<1> USE DEF OwnerInv, RegistrationInv
<1>1. SocketTypeOK'
  BY DEF SocketTypeOK, MoveSocket, MoveDescriptor
<1>2. b # a /\ owned[a] = NoDescriptor /\ kind[a] = "none"
  BY DEF MoveSocket, Move, Ownership, Sockets, SocketTypeOK
<1>3. Ownership'
  BY <1>2 DEF SocketTypeOK, Ownership, MoveSocket, Move, MoveDescriptor, Sockets, RegistrationTypeOK
<1>4. Stage'
  <2>1. updating = NoUpdate /\ \A c \in Addresses : Settled(c)
    BY StageByLength DEF MoveSocket, Calm
  <2>2. fd[b] = NoDescriptor
    BY <2>1 DEF Settled, MoveSocket, Sockets, Watchers, Subscribers
  <2>3. \A c \in Addresses : Settled(c)'
    BY <1>2, <2>1, <2>2 DEF MoveSocket, Move, MoveDescriptor, Settled, Sockets, Watchers, Subscribers, SocketTypeOK,
                           RegistrationTypeOK, Ownership
  <2> QED
    BY <2>1, <2>3 DEF Stage, MoveSocket
<1> QED
  BY <1>1, <1>3, <1>4

\* set_on_read and set_on_disconnect: the socket is left without registration, and update
\* goes on if it has a callback.
LEMMA SetCallbacksOwns ==
    ASSUME RegistrationInv, OwnerInv, NEW a \in Addresses, NEW R, NEW D,
           \/ R \in {on_read \cup {a}, on_read \ {a}} /\ D = on_disconnect
           \/ D \in {on_disconnect \cup {a}, on_disconnect \ {a}} /\ R = on_read,
           SetCallbacks(a, R, D)
    PROVE  OwnerInv'
<1> USE DEF OwnerInv, RegistrationInv
<1>1. /\ kind[a] = "socket" /\ owned[a] # NoDescriptor
      /\ updating = NoUpdate /\ \A b \in Addresses : Settled(b)
      /\ on_read' = R /\ on_disconnect' = D /\ failed' = failed \ {a}
      /\ fd' = [fd EXCEPT ![a] = NoDescriptor]
      /\ updating' = IF a \in R \cup D THEN <<a>> ELSE NoUpdate
      /\ UNCHANGED <<alive, kind, owned, open, destroyed_tag, crashed>>
  BY StageByLength DEF SetCallbacks, Clear, Calm, Sockets
<1>2. /\ R \subseteq Addresses /\ D \subseteq Addresses
      /\ \A b \in R \cup D : b = a \/ b \in on_read \cup on_disconnect
      /\ \A b \in Addresses \ {a} : b \in on_read \cup on_disconnect <=> b \in R \cup D
  BY DEF SocketTypeOK
<1>3. SocketTypeOK'
  BY <1>1, <1>2 DEF SocketTypeOK
<1>4. Ownership'
  BY <1>1, <1>2 DEF SocketTypeOK, Ownership
<1>5. \A b \in Addresses \ {a} : Settled(b)'
  BY <1>1, <1>2 DEF Settled, Watchers, Subscribers, RegistrationTypeOK
<1>6. fd'[a] = NoDescriptor /\ kind'[a] = "socket"
  BY <1>1 DEF RegistrationTypeOK
<1>7. CASE a \in R \cup D
  <2>1. Cleared(a)'
    BY <1>1, <1>5, <1>6, <1>7 DEF Cleared, Subscribers
  <2> QED
    BY <1>3, <1>4, <2>1 DEF Stage
<1>8. CASE a \notin R \cup D
  <2>1. Settled(a)'
    BY <1>1, <1>6, <1>8 DEF Settled, Watchers, Subscribers
  <2> QED
    BY <1>1, <1>3, <1>4, <1>5, <1>8, <2>1 DEF Stage
<1> QED
  BY <1>7, <1>8

\* The new registration in the parameter of operator=.
LEMMA RegisterOwns ==
    ASSUME RegistrationInv, OwnerInv, NEW tmp \in Addresses, Register(tmp)
    PROVE  OwnerInv'
<1> USE DEF OwnerInv, RegistrationInv
<1>1. PICK s \in Addresses : Cleared(s)
  BY StageByLength DEF Register
<1>2. updating = <<s>> /\ updating[1] = s
  BY <1>1 DEF Cleared
<1>3. /\ s \in Subscribers /\ s \in alive /\ tmp \notin alive /\ kind[tmp] = "none"
      /\ owned[s] \in Descriptors
  BY <1>1, <1>2 DEF Cleared, Register, Construct, Ownership, SocketTypeOK, Subscribers
<1>4. /\ alive' = alive \cup {tmp}
      /\ fd' = [fd EXCEPT ![tmp] = owned[s]]
      /\ kind' = [kind EXCEPT ![tmp] = "registration"]
      /\ updating' = <<s, tmp>>
      /\ UNCHANGED <<owned, open, on_read, on_disconnect, destroyed_tag, failed, crashed>>
  BY <1>2 DEF Register, Construct
<1>5. SocketTypeOK'
  BY <1>4 DEF SocketTypeOK
<1>6. Ownership'
  BY <1>3, <1>4 DEF SocketTypeOK, Ownership, RegistrationTypeOK
<1>7. InParameter(s, tmp)'
  BY <1>1, <1>3, <1>4 DEF Cleared, InParameter, Settled, Watchers, Subscribers, SocketTypeOK, RegistrationTypeOK
<1> QED
  BY <1>5, <1>6, <1>7 DEF Stage

\* The kernel refuses: the socket has callbacks, no registration, and is known as failed.
LEMMA RegisterFailsOwns ==
    ASSUME RegistrationInv, OwnerInv, RegisterFails
    PROVE  OwnerInv'
<1> USE DEF OwnerInv, RegistrationInv
<1>1. PICK s \in Addresses : Cleared(s)
  BY StageByLength DEF RegisterFails
<1>2. updating[1] = s /\ s \in Subscribers /\ kind[s] = "socket"
  BY <1>1 DEF Cleared, Subscribers, Ownership
<1>3. /\ failed' = failed \cup {s} /\ updating' = NoUpdate
      /\ UNCHANGED <<alive, fd, kind, owned, open, on_read, on_disconnect, destroyed_tag, crashed>>
  BY <1>2 DEF RegisterFails, registrationVars
<1>4. SocketTypeOK'
  BY <1>2, <1>3 DEF SocketTypeOK, Subscribers
<1>5. Ownership'
  BY <1>3 DEF Ownership
<1>6. \A a \in Addresses : Settled(a)'
  BY <1>1, <1>2, <1>3 DEF Cleared, Settled, Watchers, Subscribers
<1> QED
  BY <1>3, <1>4, <1>5, <1>6 DEF Stage

\* operator= swaps the parameter in.
LEMMA SwapInOwns ==
    ASSUME RegistrationInv, OwnerInv, SwapIn
    PROVE  OwnerInv'
<1> USE DEF OwnerInv, RegistrationInv
<1>1. PICK s \in Addresses, tmp \in Addresses : InParameter(s, tmp)
  BY StageByLength DEF SwapIn
<1>2. updating[1] = s /\ updating[2] = tmp
  BY <1>1 DEF InParameter
<1>3. s \in Subscribers /\ kind[s] = "socket" /\ kind[tmp] = "registration" /\ s # tmp
  BY <1>1 DEF InParameter, Subscribers, Ownership
<1>4. /\ fd' = [fd EXCEPT ![s] = fd[tmp], ![tmp] = fd[s]]
      /\ updating' = <<s, tmp, "swapped">>
      /\ UNCHANGED <<alive, kind, owned, open, on_read, on_disconnect, destroyed_tag, failed, crashed>>
  BY <1>2 DEF SwapIn, Swap
<1>5. SocketTypeOK' /\ Ownership'
  BY <1>4 DEF SocketTypeOK, Ownership
<1>6. Swapped(s, tmp)'
  BY <1>1, <1>3, <1>4 DEF InParameter, Swapped, Settled, Watchers, Subscribers, RegistrationTypeOK
<1> QED
  BY <1>5, <1>6 DEF Stage

\* The parameter goes, with the empty registration that it got.
LEMMA DropParameterOwns ==
    ASSUME RegistrationInv, OwnerInv, DropParameter
    PROVE  OwnerInv'
<1> USE DEF OwnerInv, RegistrationInv
<1>1. PICK s \in Addresses, tmp \in Addresses : Swapped(s, tmp)
  BY StageByLength DEF DropParameter
<1>2. updating[2] = tmp /\ kind[tmp] = "registration" /\ fd[tmp] = NoDescriptor
  BY <1>1 DEF Swapped
<1>3. /\ alive' = alive \ {tmp}
      /\ fd' = [fd EXCEPT ![tmp] = NoDescriptor]
      /\ kind' = [kind EXCEPT ![tmp] = "none"]
      /\ updating' = NoUpdate
      /\ UNCHANGED <<owned, open, on_read, on_disconnect, destroyed_tag, failed, crashed>>
  BY <1>2 DEF DropParameter, Destroy
<1>4. SocketTypeOK'
  BY <1>3 DEF SocketTypeOK
<1>5. Ownership'
  BY <1>2, <1>3 DEF SocketTypeOK, Ownership
<1>6. \A a \in Addresses : Settled(a)'
  BY <1>1, <1>2, <1>3 DEF Swapped, Settled, Watchers, Subscribers, SocketTypeOK, RegistrationTypeOK, Ownership
<1> QED
  BY <1>3, <1>4, <1>5, <1>6 DEF Stage

\* A destructor closes what it owns, which nobody else owns.
LEMMA DestroyOwns ==
    ASSUME RegistrationInv, OwnerInv, NEW a \in Addresses, Calm, kind[a] \in {"socket", "watcher"},
           DestroyMembers(a),
           on_read' = on_read \ {a}, on_disconnect' = on_disconnect \ {a}, failed' = failed \ {a},
           destroyed_tag' \in [Addresses -> {"null", "wild", "frame"}], crashed' \in BOOLEAN
    PROVE  OwnerInv'
<1> USE DEF OwnerInv, RegistrationInv
<1>1. updating = NoUpdate /\ \A b \in Addresses : Settled(b)
  BY StageByLength DEF Calm
<1>2. /\ alive' = alive \ {a}
      /\ fd' = [fd EXCEPT ![a] = NoDescriptor]
      /\ kind' = [kind EXCEPT ![a] = "none"]
      /\ owned' = [owned EXCEPT ![a] = NoDescriptor]
      /\ open' = open \ {owned[a]}
      /\ updating' = NoUpdate
  BY <1>1 DEF DestroyMembers, Destroy
<1>3. SocketTypeOK'
  BY <1>2 DEF SocketTypeOK
<1>4. Ownership'
  <2>1. open' = {owned'[b] : b \in Addresses} \ {NoDescriptor}
    BY <1>2 DEF SocketTypeOK, Ownership
  <2> QED
    BY <1>2, <2>1 DEF SocketTypeOK, Ownership
<1>5. \A b \in Addresses : Settled(b)'
  BY <1>1, <1>2 DEF Settled, Watchers, Subscribers, SocketTypeOK, RegistrationTypeOK
<1> QED
  BY <1>2, <1>3, <1>4, <1>5 DEF Stage

\* Events and the ends of callbacks leave the owners alone.
LEMMA OwnersKept ==
    ASSUME OwnerInv, UNCHANGED <<alive, fd, kind, owned, open, on_read, on_disconnect, updating, failed>>,
           destroyed_tag' \in [Addresses -> {"null", "wild", "frame"}], crashed' \in BOOLEAN
    PROVE  OwnerInv'
  BY DEF OwnerInv, SocketTypeOK, Ownership, Stage, Settled, Cleared, InParameter, Swapped, Watchers, Subscribers

\* What the destructor's write through destroyed_tag can do: set the variable destroyed of
\* the callback under way, nothing, or end the program.
Written == IF frame = NoFrame THEN frame ELSE [frame EXCEPT !.destroyed = TRUE]

\* The write hits the variable for certain when the pointer leads there.
LEMMA WritesTagCases ==
    ASSUME NEW a, NEW w \in WritesTag(a)
    PROVE  /\ w[1] = frame \/ w[1] = Written
           /\ w[2] \in BOOLEAN
           /\ destroyed_tag[a] = "frame" => w[1] = Written
<1> DEFINE W == {<<frame, FALSE>>, <<Written, FALSE>>, <<frame, TRUE>>}
<1>1. /\ destroyed_tag[a] = "frame" => WritesTag(a) = {<<Written, FALSE>>}
      /\ destroyed_tag[a] = "null" => WritesTag(a) = {<<frame, FALSE>>}
      /\ destroyed_tag[a] \notin {"frame", "null"} => WritesTag(a) = W
  <2>1. CASE destroyed_tag[a] = "frame"
    BY <2>1 DEF WritesTag, Written
  <2>2. CASE destroyed_tag[a] = "null"
    BY <2>2 DEF WritesTag, Written
  <2>3. CASE destroyed_tag[a] \notin {"frame", "null"}
    BY <2>3 DEF WritesTag, Written
  <2> QED
    BY <2>1, <2>2, <2>3
<1>2. w \in W /\ (destroyed_tag[a] = "frame" => w = <<Written, FALSE>>)
  BY <1>1
<1>3. CASE w = <<frame, FALSE>>
  BY <1>2, <1>3
<1>4. CASE w = <<Written, FALSE>>
  BY <1>4
<1>5. CASE w = <<frame, TRUE>>
  BY <1>2, <1>5
<1> QED
  BY <1>2, <1>3, <1>4, <1>5

\* A lambda that goes on leaves every pointer in its range.
LEMMA GoOnType ==
    ASSUME OwnerInv, NEW f, NEW calls, GoOn(f, calls)
    PROVE  destroyed_tag' \in [Addresses -> {"null", "wild", "frame"}]
  BY DEF GoOn, OwnerInv, SocketTypeOK

\* Every step of the sockets keeps owners, descriptors and registrations together.
LEMMA OwnerStep ==
    ASSUME RegistrationInv, OwnerInv, SocketNext
    PROVE  OwnerInv'
<1>1. /\ destroyed_tag \in [Addresses -> {"null", "wild", "frame"}] /\ crashed \in BOOLEAN
      /\ \A a \in on_read \cup on_disconnect : kind[a] = "socket"
      /\ failed \subseteq on_read \cup on_disconnect
  BY DEF OwnerInv, SocketTypeOK, Ownership
<1>2. ASSUME NEW w \in Addresses, ConnectionRefused(w) PROVE OwnerInv'
  BY <1>1, <1>2, OwnersKept DEF ConnectionRefused, registrationVars
<1>3. ASSUME NEW a \in Addresses, SetOnRead(a) \/ SetOnDisconnect(a) PROVE OwnerInv'
  BY <1>3, SetCallbacksOwns DEF SetOnRead, SetOnDisconnect
<1>4. ASSUME NEW a \in Addresses, WatcherEvent(a) PROVE OwnerInv'
  BY <1>1, <1>4, OwnersKept DEF WatcherEvent, Wait, socketVars
<1>5. ASSUME NEW a \in Addresses, NEW hup \in BOOLEAN, Event(a, hup) PROVE OwnerInv'
  <2>1. destroyed_tag' \in [Addresses -> {"null", "wild", "frame"}]
    BY <1>5, GoOnType DEF Event
  <2> QED
    BY <1>1, <1>5, <2>1, OwnersKept DEF Event, Wait
<1>6. CASE CallbackReturns
  <2>1. destroyed_tag' \in [Addresses -> {"null", "wild", "frame"}]
    <3>1. CASE frame.destroyed
      BY <1>1, <1>6, <3>1 DEF CallbackReturns
    <3>2. CASE ~frame.destroyed
      BY <1>6, <3>2, GoOnType DEF CallbackReturns
    <3> QED
      BY <3>1, <3>2
  <2> QED
    BY <1>1, <1>6, <2>1, OwnersKept DEF CallbackReturns, registrationVars
<1>7. CASE CallbackThrows
  <2>1. destroyed_tag' \in [Addresses -> {"null", "wild", "frame"}]
    BY <1>1, <1>7 DEF CallbackThrows
  <2> QED
    BY <1>1, <1>7, <2>1, OwnersKept DEF CallbackThrows, registrationVars
<1>8. ASSUME NEW a \in Addresses, DestroyWatcher(a) PROVE OwnerInv'
  <2>1. Calm /\ kind[a] = "watcher" /\ DestroyMembers(a)
        /\ UNCHANGED <<on_read, on_disconnect, destroyed_tag, failed, crashed>>
    BY <1>8 DEF DestroyWatcher, Watchers
  <2>2. on_read' = on_read \ {a} /\ on_disconnect' = on_disconnect \ {a} /\ failed' = failed \ {a}
    BY <1>1, <2>1
  <2> QED
    BY <1>1, <2>1, <2>2, DestroyOwns
<1>9. ASSUME NEW a \in Addresses, DestroySocket(a) PROVE OwnerInv'
  <2>1. /\ Calm /\ kind[a] = "socket" /\ DestroyMembers(a)
        /\ on_read' = on_read \ {a} /\ on_disconnect' = on_disconnect \ {a} /\ failed' = failed \ {a}
        /\ destroyed_tag' \in [Addresses -> {"null", "wild", "frame"}]
    BY <1>1, <1>9 DEF DestroySocket, Sockets
  <2>2. crashed' \in BOOLEAN
    BY <1>9, WritesTagCases DEF DestroySocket
  <2> QED
    BY <2>1, <2>2, DestroyOwns
<1> QED
  BY <1>2, <1>3, <1>4, <1>5, <1>6, <1>7, <1>8, <1>9, WatchOwns, AcceptOwns, ConnectedOwns, MoveSocketOwns,
     RegisterOwns, RegisterFailsOwns, SwapInOwns, DropParameterOwns DEF SocketNext

-----------------------------------------------------------------------------
(* Steps of the callback under way *)

\* Steps that leave the frame alone, and the socket that its pointer belongs to.
LEMMA FrameKept ==
    ASSUME CallbackKnows, UNCHANGED frame, crashed => crashed',
           frame # NoFrame /\ ~frame.gone =>
              /\ kind'[frame.socket] = kind[frame.socket]
              /\ destroyed_tag'[frame.socket] = destroyed_tag[frame.socket]
    PROVE  CallbackKnows'
  BY DEF CallbackKnows

\* The lambda begins or goes on with a socket that is there.
LEMMA GoOnKnows ==
    ASSUME OwnerInv, NEW f, NEW calls, GoOn(f, calls), UNCHANGED kind,
           DOMAIN f = {"socket", "calls", "destroyed", "gone"}, f.socket \in Addresses,
           f.destroyed = FALSE, f.gone = FALSE, kind[f.socket] = "socket"
    PROVE  CallbackKnows'
<1>1. CASE frame' = NoFrame
  BY <1>1 DEF CallbackKnows
<1>2. CASE frame' = [f EXCEPT !.calls = calls]
           /\ destroyed_tag' = [destroyed_tag EXCEPT ![f.socket] = "frame"]
  <2>1. /\ DOMAIN frame' = {"socket", "calls", "destroyed", "gone"}
        /\ frame'.socket = f.socket /\ frame'.destroyed = FALSE /\ frame'.gone = FALSE
    BY <1>2
  <2>2. destroyed_tag'[f.socket] = "frame"
    BY <1>2 DEF OwnerInv, SocketTypeOK
  <2> QED
    BY <2>1, <2>2 DEF CallbackKnows
<1> QED
  BY <1>1, <1>2 DEF GoOn

\* The destructor of a socket: if it is the one whose callback runs, the pointer leads to
\* the variable destroyed of that callback; any other pointer can at most set it too.
LEMMA DestroySocketKnows ==
    ASSUME OwnerInv, CallbackKnows, NEW a \in Addresses, DestroySocket(a)
    PROVE  CallbackKnows'
<1>1. PICK w \in WritesTag(a) :
        /\ frame' = IF w[1] # NoFrame /\ w[1].socket = a THEN [w[1] EXCEPT !.gone = TRUE] ELSE w[1]
        /\ crashed' = w[2]
  BY DEF DestroySocket
<1>2. /\ kind' = [kind EXCEPT ![a] = "none"]
      /\ destroyed_tag' = [destroyed_tag EXCEPT ![a] = "null"]
      /\ ~crashed
      /\ kind \in [Addresses -> {"none", "socket", "watcher", "registration"}]
      /\ destroyed_tag \in [Addresses -> {"null", "wild", "frame"}]
  BY DEF DestroySocket, DestroyMembers, Calm, OwnerInv, SocketTypeOK
<1>3. CASE frame = NoFrame
  <2>1. w[1] = NoFrame
    BY <1>3, WritesTagCases DEF Written
  <2> QED
    BY <1>1, <2>1 DEF CallbackKnows
<1>4. CASE frame # NoFrame
  <2> DEFINE written == [frame EXCEPT !.destroyed = TRUE]
  <2>1. /\ w[1] = frame \/ w[1] = written
        /\ destroyed_tag[a] = "frame" => w[1] = written
    BY <1>4, WritesTagCases DEF Written
  <2>2. /\ DOMAIN frame = {"socket", "calls", "destroyed", "gone"}
        /\ frame.socket \in Addresses /\ frame.gone \in BOOLEAN /\ frame.destroyed \in BOOLEAN
        /\ ~frame.gone => kind[frame.socket] = "socket" /\ destroyed_tag[frame.socket] = "frame"
        /\ frame.gone => frame.destroyed
    BY <1>2, <1>4 DEF CallbackKnows
  <2>3. /\ DOMAIN w[1] = {"socket", "calls", "destroyed", "gone"}
        /\ w[1].socket = frame.socket /\ w[1].gone = frame.gone
        /\ w[1].destroyed \in BOOLEAN
        /\ frame.destroyed \/ destroyed_tag[a] = "frame" => w[1].destroyed
    BY <2>1, <2>2
  <2>4. CASE frame.socket = a
    <3>1. w[1].destroyed
      BY <2>2, <2>3, <2>4
    <3>2. frame' = [w[1] EXCEPT !.gone = TRUE] \/ frame' = NoFrame
      BY <1>1, <2>3, <2>4
    <3> QED
      BY <2>2, <2>3, <3>1, <3>2 DEF CallbackKnows
  <2>5. CASE frame.socket # a
    <3>1. frame' = w[1]
      BY <1>1, <2>3, <2>5
    <3>2. /\ kind'[frame.socket] = kind[frame.socket]
          /\ destroyed_tag'[frame.socket] = destroyed_tag[frame.socket]
      BY <1>2, <2>2, <2>5
    <3> QED
      BY <2>2, <2>3, <3>1, <3>2 DEF CallbackKnows
  <2> QED
    BY <2>4, <2>5
<1> QED
  BY <1>3, <1>4

\* Every step of the sockets keeps the callback informed.
LEMMA CallbackStep ==
    ASSUME OwnerInv, CallbackKnows, SocketNext
    PROVE  CallbackKnows'
<1>1. /\ kind \in [Addresses -> {"none", "socket", "watcher", "registration"}]
      /\ destroyed_tag \in [Addresses -> {"null", "wild", "frame"}]
      /\ \A a \in Addresses : kind[a] = "none" <=> a \notin alive
  BY DEF OwnerInv, SocketTypeOK, Ownership
<1>2. frame # NoFrame /\ ~frame.gone => frame.socket \in Addresses /\ kind[frame.socket] = "socket"
  BY DEF CallbackKnows
<1>3. ASSUME NEW a \in Addresses, NEW d \in Descriptors, Watch(a, d) PROVE CallbackKnows'
  BY <1>1, <1>2, <1>3, FrameKept DEF Watch, Construct, Calm
<1>4. ASSUME NEW w \in Addresses, NEW a \in Addresses, NEW d \in Descriptors, Accept(w, a, d)
      PROVE  CallbackKnows'
  BY <1>4 DEF Accept, CallbackKnows
<1>5. ASSUME NEW a \in Addresses, NEW b \in Addresses, Connected(a, b) PROVE CallbackKnows'
  BY <1>5 DEF Connected, CallbackKnows
<1>6. ASSUME NEW a \in Addresses, NEW b \in Addresses, MoveSocket(a, b) PROVE CallbackKnows'
  BY <1>1, <1>2, <1>6, FrameKept DEF MoveSocket, Move, Calm
<1>7. ASSUME NEW w \in Addresses, ConnectionRefused(w) PROVE CallbackKnows'
  BY <1>7, FrameKept DEF ConnectionRefused
<1>8. ASSUME NEW a \in Addresses, SetOnRead(a) \/ SetOnDisconnect(a) PROVE CallbackKnows'
  BY <1>8, FrameKept DEF SetOnRead, SetOnDisconnect, SetCallbacks
<1>9. ASSUME NEW tmp \in Addresses, Register(tmp) PROVE CallbackKnows'
  BY <1>1, <1>2, <1>9, FrameKept DEF Register, Construct
<1>10. CASE RegisterFails \/ SwapIn
  BY <1>10, FrameKept DEF RegisterFails, SwapIn
<1>11. CASE DropParameter
  <2>1. PICK s \in Addresses, tmp \in Addresses : Swapped(s, tmp)
    BY <1>11, StageByLength DEF OwnerInv, DropParameter
  <2>2. updating[2] = tmp /\ kind[tmp] = "registration"
    BY <2>1 DEF Swapped
  <2> QED
    BY <1>1, <1>2, <1>11, <2>2, FrameKept DEF DropParameter
<1>12. ASSUME NEW a \in Addresses, WatcherEvent(a) PROVE CallbackKnows'
  BY <1>12, FrameKept DEF WatcherEvent, socketVars
<1>13. ASSUME NEW a \in Addresses, NEW hup \in BOOLEAN, Event(a, hup) PROVE CallbackKnows'
  <2>1. PICK calls : GoOn(Frame(a, calls), calls)
    BY <1>13 DEF Event
  <2>2. kind[a] = "socket" /\ UNCHANGED kind
    BY <1>13 DEF Event, Sockets
  <2> DEFINE f == Frame(a, calls)
  <2>3. /\ DOMAIN f = {"socket", "calls", "destroyed", "gone"}
        /\ f.socket = a /\ f.destroyed = FALSE /\ f.gone = FALSE
    BY DEF Frame
  <2> HIDE DEF f
  <2> QED
    BY <2>1, <2>2, <2>3, GoOnKnows DEF f
<1>14. CASE CallbackReturns
  <2>1. CASE frame.destroyed
    BY <1>14, <2>1 DEF CallbackReturns, CallbackKnows
  <2>2. CASE ~frame.destroyed
    <3>1. /\ DOMAIN frame = {"socket", "calls", "destroyed", "gone"} /\ frame.socket \in Addresses
          /\ frame.destroyed = FALSE /\ frame.gone = FALSE /\ kind[frame.socket] = "socket"
      BY <1>14, <2>2 DEF CallbackReturns, CallbackKnows, Calm
    <3> QED
      BY <1>14, <2>2, <3>1, GoOnKnows DEF CallbackReturns
  <2> QED
    BY <2>1, <2>2
<1>15. CASE CallbackThrows
  BY <1>15 DEF CallbackThrows, CallbackKnows
<1>16. ASSUME NEW a \in Addresses, DestroyWatcher(a) PROVE CallbackKnows'
  BY <1>1, <1>2, <1>16, FrameKept DEF DestroyWatcher, DestroyMembers, Watchers
<1> QED
  BY <1>3, <1>4, <1>5, <1>6, <1>7, <1>8, <1>9, <1>10, <1>11, <1>12, <1>13, <1>14, <1>15, <1>16,
     DestroySocketKnows DEF SocketNext

-----------------------------------------------------------------------------
(* Theorems about the program, in which sockets and processes come and go together *)

EventTablesInv == RegistrationInv /\ OwnerInv /\ CallbackKnows /\ TableInv

\* The invariant is inductive: owners, registrations, the interest list of the kernel, the
\* callback under way and the table of processes stay together.
THEOREM EventTablesInductive == Spec => []EventTablesInv
<1>1. Init => EventTablesInv
  BY RegistrationInitHolds, OwnerInit, TableInitHolds DEF Init, SocketInit, EventTablesInv
<1>2. EventTablesInv /\ [Next]_<<registrationVars, socketVars, tableVars>> => EventTablesInv'
  <2> SUFFICES ASSUME EventTablesInv, [Next]_<<registrationVars, socketVars, tableVars>>
               PROVE  EventTablesInv'
    OBVIOUS
  <2>1. ASSUME UNCHANGED <<registrationVars, socketVars>> PROVE RegistrationInv' /\ OwnerInv' /\ CallbackKnows'
    <3>1. UNCHANGED <<alive, fd, kind, owned, open, on_read, on_disconnect, updating, failed>>
          /\ UNCHANGED <<destroyed_tag, frame, crashed>>
      BY <2>1 DEF registrationVars, socketVars
    <3>2. RegistrationInv'
      BY <2>1, RegistrationKept DEF EventTablesInv
    <3>3. OwnerInv'
      BY <3>1, OwnersKept DEF EventTablesInv, OwnerInv, SocketTypeOK
    <3>4. CallbackKnows'
      BY <3>1, FrameKept DEF EventTablesInv
    <3> QED
      BY <3>2, <3>3, <3>4
  <2>2. ASSUME TableNext \/ UNCHANGED tableVars PROVE TableInv'
    <3>1. CASE TableNext
      BY <3>1, KernelSteps, Forking, Reaping, ReapingAndForking DEF TableNext, EventTablesInv
    <3>2. CASE UNCHANGED tableVars
      BY <3>2 DEF EventTablesInv, tableVars, TableInv, TableTypeOK, TableExact, ExitsToldToParent, TableAssertions
    <3> QED
      BY <2>2, <3>1, <3>2
  <2>3. CASE SocketNext /\ UNCHANGED tableVars
    BY <2>2, <2>3, RegistrationStep, OwnerStep, CallbackStep DEF EventTablesInv
  <2>4. CASE TableNext /\ UNCHANGED <<registrationVars, socketVars>>
    BY <2>1, <2>2, <2>4 DEF EventTablesInv
  <2>5. CASE UNCHANGED <<registrationVars, socketVars, tableVars>>
    BY <2>1, <2>2, <2>5 DEF EventTablesInv
  <2> QED
    BY <2>3, <2>4, <2>5 DEF Next
<1> QED
  BY <1>1, <1>2, PTL DEF Spec

\* Every open descriptor has one owner and, between two statements, the registration that
\* its owner's callbacks ask for.
THEOREM OwnersCorrect == Spec => []OwnersRegistered
<1>1. EventTablesInv => OwnersRegistered
  <2> SUFFICES ASSUME EventTablesInv, Calm PROVE OwnersRegistered
    BY DEF OwnersRegistered
  <2> USE DEF EventTablesInv, OwnerInv, RegistrationInv
  <2>1. \A a \in Addresses : Settled(a)
    BY StageByLength DEF Calm
  <2>2. ASSUME NEW d \in Descriptors, interest[d] # NoAddress PROVE owned[interest[d]] = d
    BY <2>1, <2>2 DEF KernelKnowsOwner, RegistrationTypeOK, Settled
  <2>3. ASSUME NEW a \in Addresses, owned[a] # NoDescriptor
        PROVE  interest[owned[a]] = a <=> a \in Watchers \cup Subscribers
    <3>1. owned[a] \in Descriptors
      BY <2>3 DEF SocketTypeOK
    <3>2. interest[owned[a]] = a <=> fd[a] = owned[a]
      BY <2>3, <3>1 DEF KernelKnowsOwner
    <3> QED
      BY <2>1, <2>3, <3>2 DEF Settled
  <2> QED
    BY <2>2, <2>3 DEF OwnersRegistered, Ownership
<1> QED
  BY <1>1, EventTablesInductive, PTL

\* A socket destroyed inside its own callback is not touched when the callback returns.
THEOREM GoneSeen == Spec => []GoneIsSeen
<1>1. EventTablesInv => GoneIsSeen
  BY DEF EventTablesInv, CallbackKnows, GoneIsSeen
<1> QED
  BY <1>1, EventTablesInductive, PTL

\* In this program too, the kernel's pointers lead to the objects that have the descriptor.
THEOREM PointersCorrect == Spec => []KernelKnowsOwner
<1>1. EventTablesInv => KernelKnowsOwner
  BY DEF EventTablesInv, RegistrationInv
<1> QED
  BY <1>1, EventTablesInductive, PTL

\* Events reach the callback that was registered for their descriptor.
THEOREM EventsCorrect == Spec => []EventsReachOwner
<1>1. EventTablesInv => EventsReachOwner
  BY DEF EventTablesInv, RegistrationInv
<1> QED
  BY <1>1, EventTablesInductive, PTL

\* Every exit is told to the task that forked the process, and the table's assertions hold.
THEOREM ProcessesCorrect == Spec => [](ExitsToldToParent /\ TableAssertions)
<1>1. EventTablesInv => ExitsToldToParent /\ TableAssertions
  BY DEF EventTablesInv, TableInv
<1> QED
  BY <1>1, EventTablesInductive, PTL
=============================================================================
