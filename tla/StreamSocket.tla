----------------------------- MODULE StreamSocket -----------------------------
(***************************************************************************)
(* The objects that own a file_descriptor and an epoll_registration for    *)
(* it: watchers, whose constructor registers (server socket, eventfd,      *)
(* signalfd, connection_process), and stream sockets, which register again *)
(* whenever a callback is set, inside their own callbacks too, and may be  *)
(* destroyed there.  The kernel gives descriptors away again once closed.  *)
(***************************************************************************)
EXTENDS Registration, Sequences

VARIABLES
    kind,           \* what lives at an address
    owned,          \* the file_descriptor member
    open,           \* the kernel: open descriptors
    on_read,        \* the sockets that have the callback on_read
    on_disconnect,
    destroyed_tag,  \* where the pointer of a socket leads to
    updating,       \* stream_socket::update under way: the socket, and the parameter of epr's operator=
    frame,          \* the callback of a socket under way
    failed,         \* sockets whose last update could not register
    crashed         \* undefined behaviour or an assertion has ended the program

socketVars == <<kind, owned, open, on_read, on_disconnect, destroyed_tag, updating, frame, failed, crashed>>

NoUpdate == <<>>
NoFrame == <<>>

SocketInit ==
    /\ RegistrationInit
    /\ kind = [a \in Addresses |-> "none"]
    /\ owned = [a \in Addresses |-> NoDescriptor]
    /\ open = {}
    /\ on_read = {}
    /\ on_disconnect = {}
    /\ destroyed_tag = [a \in Addresses |-> "null"]
    /\ updating = NoUpdate
    /\ frame = NoFrame
    /\ failed = {}
    /\ crashed = FALSE

Sockets == {a \in Addresses : kind[a] = "socket"}
Watchers == {a \in Addresses : kind[a] = "watcher"}

\* The program is between two statements of its callbacks.
Calm == ~crashed /\ updating = NoUpdate

-----------------------------------------------------------------------------
(* Construction *)

\* A descriptor is opened and registered by a constructor.  When the kernel refuses to
\* open or to register, the members made so far are destroyed and nothing is left.
Watch(a, d) ==
    /\ Calm /\ d \notin open
    /\ Construct(a, d)
    /\ kind' = [kind EXCEPT ![a] = "watcher"]
    /\ owned' = [owned EXCEPT ![a] = d]
    /\ open' = open \cup {d}
    /\ UNCHANGED <<on_read, on_disconnect, destroyed_tag, updating, frame, failed, crashed>>

\* The event of a server socket: accept4 and on_accept, which makes a socket of the
\* descriptor.  The constructor does not initialize destroyed_tag.
Accept(w, a, d) ==
    /\ Calm /\ frame = NoFrame /\ w \in Watchers /\ fd[w] # NoDescriptor
    /\ d \notin open
    /\ ConstructEmpty(a)
    /\ kind' = [kind EXCEPT ![a] = "socket"]
    /\ owned' = [owned EXCEPT ![a] = d]
    /\ open' = open \cup {d}
    /\ destroyed_tag' = [destroyed_tag EXCEPT ![a] = "wild"]
    /\ UNCHANGED <<on_read, on_disconnect, updating, frame, failed, crashed>>

\* Mutant: the file_descriptor that is moved from keeps its number.
MoveDescriptorKeeps(a, b) == [owned EXCEPT ![a] = owned[b]]

\* The file_descriptor at a is made from the one at b.
MoveDescriptor(a, b) == [owned EXCEPT ![a] = owned[b], ![b] = NoDescriptor]

\* The event of a connection_process: epr.clear(), and on_connect with a socket that
\* takes the descriptor over.
Connected(w, a) ==
    /\ Calm /\ frame = NoFrame /\ w \in Watchers /\ fd[w] # NoDescriptor /\ a \notin alive
    /\ alive' = alive \cup {a}
    /\ interest' = Remove(interest, fd[w])
    /\ fd' = [fd EXCEPT ![w] = NoDescriptor]
    /\ UNCHANGED <<callback, called>>
    /\ kind' = [kind EXCEPT ![a] = "socket"]
    /\ owned' = MoveDescriptor(a, w)
    /\ destroyed_tag' = [destroyed_tag EXCEPT ![a] = "wild"]
    /\ UNCHANGED <<open, on_read, on_disconnect, updating, frame, failed, crashed>>

\* The event of a connection_process whose connect failed is not EPOLLOUT alone: the
\* assertion of its callback ends the program.
ConnectionRefused(w) ==
    /\ Calm /\ frame = NoFrame /\ w \in Watchers /\ fd[w] # NoDescriptor
    /\ crashed' = TRUE
    /\ UNCHANGED <<registrationVars, kind, owned, open, on_read, on_disconnect, destroyed_tag, updating, frame, failed>>

\* stream_socket(stream_socket&&) does not move the callbacks: the program moves sockets
\* only on their way into on_connect, before they have any.
MoveSocket(a, b) ==
    /\ Calm /\ b \in Sockets \ (on_read \cup on_disconnect)
    /\ Move(a, b)
    /\ kind' = [kind EXCEPT ![a] = "socket"]
    /\ owned' = MoveDescriptor(a, b)
    /\ destroyed_tag' = [destroyed_tag EXCEPT ![a] = "wild"]
    /\ UNCHANGED <<open, on_read, on_disconnect, updating, frame, failed, crashed>>

-----------------------------------------------------------------------------
(* stream_socket::update *)

\* set_on_read and set_on_disconnect change a callback; update begins with epr.clear().
SetCallbacks(a, R, D) ==
    /\ Calm /\ a \in Sockets /\ owned[a] # NoDescriptor
    /\ on_read' = R /\ on_disconnect' = D
    /\ Clear(a)
    /\ updating' = IF a \in R \cup D THEN <<a>> ELSE NoUpdate
    /\ failed' = failed \ {a}
    /\ UNCHANGED <<kind, owned, open, destroyed_tag, frame, crashed>>

SetOnRead(a) == \E R \in {on_read \cup {a}, on_read \ {a}} : SetCallbacks(a, R, on_disconnect)
SetOnDisconnect(a) == \E D \in {on_disconnect \cup {a}, on_disconnect \ {a}} : SetCallbacks(a, on_read, D)

\* The new registration is made in the parameter of epr's operator=.
Register(tmp) ==
    /\ Len(updating) = 1
    /\ Construct(tmp, owned[updating[1]])
    /\ kind' = [kind EXCEPT ![tmp] = "registration"]
    /\ updating' = <<updating[1], tmp>>
    /\ UNCHANGED <<owned, open, on_read, on_disconnect, destroyed_tag, frame, failed, crashed>>

\* epoll_ctl refuses to add: the exception leaves update and, inside a callback, the
\* callback.
RegisterFails ==
    /\ Len(updating) = 1
    /\ failed' = failed \cup {updating[1]}
    /\ updating' = NoUpdate
    /\ UNCHANGED <<registrationVars, kind, owned, open, on_read, on_disconnect, destroyed_tag, frame, crashed>>

SwapIn ==
    /\ Len(updating) = 2
    /\ Swap(updating[1], updating[2])
    /\ updating' = <<updating[1], updating[2], "swapped">>
    /\ UNCHANGED <<kind, owned, open, on_read, on_disconnect, destroyed_tag, frame, failed, crashed>>

DropParameter ==
    /\ Len(updating) = 3
    /\ Destroy(updating[2])
    /\ kind' = [kind EXCEPT ![updating[2]] = "none"]
    /\ updating' = NoUpdate
    /\ UNCHANGED <<owned, open, on_read, on_disconnect, destroyed_tag, frame, failed, crashed>>

-----------------------------------------------------------------------------
(* Events *)

\* The other watchers have callbacks that leave their object alone.
WatcherEvent(w) ==
    /\ Calm /\ frame = NoFrame /\ w \in Watchers /\ fd[w] # NoDescriptor
    /\ Wait(fd[w])
    /\ UNCHANGED socketVars

\* A callback that is running: of which socket, the calls still to be finished, the
\* local variable destroyed, and whether the socket really is gone.
Frame(a, calls) == [socket |-> a, calls |-> calls, destroyed |-> FALSE, gone |-> FALSE]

\* The lambda goes on with calls.  EPOLLHUP is reported without being asked for, and
\* ignored without a callback.  destroyed_tag keeps its value when the lambda ends.
GoOn(f, calls) ==
    IF calls = <<>> \/ (Head(calls) = "on_disconnect" /\ f.socket \notin on_disconnect)
    THEN frame' = NoFrame /\ destroyed_tag' = [destroyed_tag EXCEPT ![f.socket] = "wild"]
    ELSE frame' = [f EXCEPT !.calls = calls] /\ destroyed_tag' = [destroyed_tag EXCEPT ![f.socket] = "frame"]

Event(a, hup) ==
    /\ Calm /\ frame = NoFrame /\ a \in Sockets /\ fd[a] # NoDescriptor
    /\ a \in on_read \/ hup
    /\ Wait(fd[a])
    /\ LET calls == (IF a \in on_read THEN <<"on_read">> ELSE <<>>)
                      \o (IF hup THEN <<"on_disconnect">> ELSE <<>>)
       IN  GoOn(Frame(a, calls), calls)
    /\ UNCHANGED <<kind, owned, open, on_read, on_disconnect, updating, failed, crashed>>

\* on_read or on_disconnect returns to the lambda, which looks at destroyed.
CallbackReturns ==
    /\ Calm /\ frame # NoFrame
    /\ IF frame.destroyed
       THEN /\ frame' = NoFrame
            /\ destroyed_tag' = IF frame.gone THEN destroyed_tag
                                ELSE [destroyed_tag EXCEPT ![frame.socket] = "wild"]
       ELSE GoOn(frame, Tail(frame.calls))
    /\ UNCHANGED <<registrationVars, kind, owned, open, on_read, on_disconnect, updating, failed, crashed>>

\* An exception: the handler sets destroyed_tag back, and epoll::wait prints it.
CallbackThrows ==
    /\ Calm /\ frame # NoFrame
    /\ frame' = NoFrame
    /\ destroyed_tag' =
         IF ~frame.destroyed THEN [destroyed_tag EXCEPT ![frame.socket] = "null"]
         ELSE IF frame.gone THEN destroyed_tag
         ELSE [destroyed_tag EXCEPT ![frame.socket] = "wild"]
    /\ UNCHANGED <<registrationVars, kind, owned, open, on_read, on_disconnect, updating, failed, crashed>>

-----------------------------------------------------------------------------
(* Destruction: members go in the reverse order of their declaration, the  *)
(* registration before the descriptor.                                     *)

DestroyMembers(a) ==
    /\ Destroy(a)
    /\ kind' = [kind EXCEPT ![a] = "none"]
    /\ owned' = [owned EXCEPT ![a] = NoDescriptor]
    /\ open' = open \ {owned[a]}
    /\ UNCHANGED updating

DestroyWatcher(a) ==
    /\ Calm /\ a \in Watchers
    /\ DestroyMembers(a)
    /\ UNCHANGED <<on_read, on_disconnect, destroyed_tag, frame, failed, crashed>>

\* Mutant: the destructor does not tell its callback.
WritesTagNever(a) == {<<frame, FALSE>>}

\* What the destructor's write through destroyed_tag does.  A pointer that was never set
\* or points into a finished frame may hit nothing, the variable destroyed of the frame
\* that is there now, or what ends the program.
WritesTag(a) ==
    LET written == IF frame = NoFrame THEN frame ELSE [frame EXCEPT !.destroyed = TRUE]
    IN  CASE destroyed_tag[a] = "frame" -> {<<written, FALSE>>}
          [] destroyed_tag[a] = "null"  -> {<<frame, FALSE>>}
          [] OTHER -> {<<frame, FALSE>>, <<written, FALSE>>, <<frame, TRUE>>}

DestroySocket(a) ==
    /\ Calm /\ a \in Sockets
    /\ DestroyMembers(a)
    /\ \E w \in WritesTag(a) :
         /\ frame' = IF w[1] # NoFrame /\ w[1].socket = a THEN [w[1] EXCEPT !.gone = TRUE] ELSE w[1]
         /\ crashed' = w[2]
    /\ on_read' = on_read \ {a}
    /\ on_disconnect' = on_disconnect \ {a}
    /\ destroyed_tag' = [destroyed_tag EXCEPT ![a] = "null"]
    /\ failed' = failed \ {a}

SocketNext ==
    \/ \E a \in Addresses, d \in Descriptors : Watch(a, d)
    \/ \E w, a \in Addresses, d \in Descriptors : Accept(w, a, d)
    \/ \E a, b \in Addresses : Connected(a, b) \/ MoveSocket(a, b)
    \/ \E w \in Addresses : ConnectionRefused(w)
    \/ \E a \in Addresses : SetOnRead(a) \/ SetOnDisconnect(a) \/ Register(a)
    \/ RegisterFails \/ SwapIn \/ DropParameter
    \/ \E a \in Addresses : WatcherEvent(a) \/ \E hup \in BOOLEAN : Event(a, hup)
    \/ CallbackReturns \/ CallbackThrows
    \/ \E a \in Addresses : DestroyWatcher(a) \/ DestroySocket(a)

-----------------------------------------------------------------------------
(* Properties *)

Subscribers == (on_read \cup on_disconnect) \ failed

\* Every open descriptor is owned by exactly one object, so it is closed once and no
\* descriptor that the kernel gave away again is closed with it; and between two
\* statements it is registered exactly when its owner is a watcher or a socket that has
\* a callback, however often update ran, inside the socket's own callbacks too.
OwnersRegistered ==
    Calm =>
        /\ open = {owned[a] : a \in Addresses} \ {NoDescriptor}
        /\ \A a, b \in Addresses : a # b /\ owned[a] = owned[b] => owned[a] = NoDescriptor
        /\ \A d \in Descriptors : interest[d] # NoAddress => owned[interest[d]] = d
        /\ \A a \in Addresses : owned[a] # NoDescriptor =>
               (interest[owned[a]] = a <=> a \in Watchers \cup Subscribers)

\* A socket that is destroyed inside its own callback is not touched when the callback
\* returns, even when another socket was made at its address: the lambda knows.
GoneIsSeen == ~crashed /\ frame # NoFrame /\ frame.gone => frame.destroyed
=============================================================================
