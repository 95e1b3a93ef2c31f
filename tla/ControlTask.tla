----------------------------- MODULE ControlTask -----------------------------
(***************************************************************************)
(* The control socket: initctl and other clients, the listening socket,    *)
(* the connections of control_task_handle and their framing of messages.   *)
(* A stream is a sequence of words, a field each; the supervisor is seen   *)
(* only through what it does to the control task.                          *)
(***************************************************************************)
EXTENDS Integers, Sequences, FiniteSets, SequencesExt

CONSTANTS
    Clients,
    Scripts,     \* what a client may want to send: messages, each a sequence of words
    Limit,       \* bound on the size field (1 MiB in the code)
    MaxStarts    \* bound: times the control task is started

ASSUME LimitAssumption == Limit \in Nat
ASSUME StartsAssumption == MaxStarts \in Nat
ASSUME ScriptsAssumption == Scripts \subseteq Seq(Seq(Nat))

RebootId == 1
PowerOffId == 2
SetRunLevelId == 3

VARIABLES
    (* clients *)
    script,       \* the messages of a client; never changes
    unsent,       \* words a client has not written yet
    closed,       \* clients that have closed their end
    (* kernel *)
    socket_file,  \* the name of the socket exists in the file system
    wire,         \* words written and not read
    (* control_task_handle and its adaptor *)
    running,
    created,      \* the adaptor holds a control_task_handle
    server,       \* what the server side of a client's socket is
    buffer,       \* read_process::buffer of its connection
    (* history *)
    left,         \* the socket file was there at first, or a failure has left it
    refused,      \* the last start failed before the name of the socket was made
    starts,
    executed,     \* the messages of a client that were executed
    crashed       \* undefined behaviour has ended the program

clientVars == <<script, unsent, closed>>
handleVars == <<socket_file, running, created, left>>
vars == <<clientVars, handleVars, wire, server, buffer, refused, starts, executed, crashed>>

Words(c) == FlattenSeq(script[c])
Open == {c \in Clients : server[c] = "open"}
Waiting == {c \in Clients : server[c] = "backlog"}

-----------------------------------------------------------------------------
(* Messages *)

\* write(s, msg): an empty message is one byte, a string its length and characters.
Body(id, name) == IF id = SetRunLevelId THEN <<Len(name)>> \o name ELSE <<0>>

Serialize(id, name) == <<Len(Body(id, name)), id>> \o Body(id, name)

\* Whether read(s, msg) and s.expect_eof() succeed on the words after the header.
Readable(id, s) ==
    /\ s # <<>>
    /\ Len(s) = IF id = SetRunLevelId THEN 1 + s[1] ELSE 1

\* What the on_ready callback of a connection decides on the buffer s.
Parse(s) ==
    IF Len(s) < 2 THEN "wait"
    ELSE IF s[1] > Limit THEN "reject"
    ELSE IF Len(s) - 2 < s[1] THEN "wait"
    ELSE IF s[2] \in {RebootId, PowerOffId, SetRunLevelId} /\ Readable(s[2], SubSeq(s, 3, Len(s)))
         THEN "execute"
         ELSE "reject"

-----------------------------------------------------------------------------

Init ==
    /\ script \in [Clients -> Scripts]
    /\ unsent = [c \in Clients |-> Words(c)]
    /\ closed = {}
    /\ socket_file \in BOOLEAN
    /\ wire = [c \in Clients |-> <<>>]
    /\ running = FALSE
    /\ created = FALSE
    /\ server = [c \in Clients |-> "none"]
    /\ buffer = [c \in Clients |-> <<>>]
    /\ left = socket_file
    /\ refused = FALSE
    /\ starts = 0
    /\ executed = [c \in Clients |-> <<>>]
    /\ crashed = FALSE

(* Clients *)

\* The queue of the listening socket is in no order here: epoll reports one
\* connection at a time and nothing depends on whose it is.
Connect(c) ==
    /\ created
    /\ server[c] = "none"
    /\ server' = [server EXCEPT ![c] = "backlog"]
    /\ UNCHANGED <<clientVars, handleVars, wire, buffer, refused, starts, executed, crashed>>

\* initctl writes everything at once, other clients may not.  A write to a socket
\* that initd has closed fails and the client gives up.
Send(c) ==
    /\ server[c] # "none"
    /\ c \notin closed
    /\ unsent[c] # <<>>
    /\ IF server[c] \in {"backlog", "open"}
       THEN /\ \E k \in DOMAIN unsent[c] :
                 /\ wire' = [wire EXCEPT ![c] = @ \o SubSeq(unsent[c], 1, k)]
                 /\ unsent' = [unsent EXCEPT ![c] = SubSeq(@, k + 1, Len(@))]
            /\ UNCHANGED closed
       ELSE closed' = closed \cup {c} /\ UNCHANGED <<unsent, wire>>
    /\ UNCHANGED <<script, handleVars, server, buffer, refused, starts, executed, crashed>>

Close(c) ==
    /\ server[c] # "none"
    /\ c \notin closed
    /\ closed' = closed \cup {c}
    /\ UNCHANGED <<script, unsent, handleVars, wire, server, buffer, refused, starts, executed, crashed>>

-----------------------------------------------------------------------------
(* The life of the handle *)

NoName == refused' = TRUE /\ UNCHANGED <<socket_file, left>>

\* There is no socket, or the name of the file is too long for an address.
CreateSocketFails == NoName

\* bind refuses a name that exists, and may fail for a new one.
BindSocketFails == IF socket_file THEN refused' = FALSE /\ UNCHANGED <<socket_file, left>> ELSE NoName

\* The socket is closed again, its name stays.
NameStays ==
    /\ ~socket_file
    /\ socket_file' = TRUE
    /\ left' = TRUE
    /\ refused' = FALSE

ListenSocketFails == NameStays

\* EPOLL_CTL_ADD is refused.  Who has connected since listen loses the connection, as if
\* there had been no socket.
RegisterServerFails == NameStays

\* create_task makes the handle, or throws before there is one; the adaptor then runs
\* without a handle.
StartControl ==
    /\ ~crashed
    /\ ~running
    /\ starts < MaxStarts
    /\ starts' = starts + 1
    /\ running' = TRUE
    /\ \/ ~socket_file /\ socket_file' = TRUE /\ created' = TRUE /\ refused' = FALSE /\ UNCHANGED left
       \/ /\ CreateSocketFails \/ BindSocketFails \/ ListenSocketFails \/ RegisterServerFails
          /\ UNCHANGED created
    /\ UNCHANGED <<clientVars, wire, server, buffer, executed, crashed>>

\* The destructor takes the name away; when unlink fails it only says so.
Unlink ==
    \/ socket_file' = FALSE /\ UNCHANGED left
    \/ left' = TRUE /\ UNCHANGED socket_file

\* Mutant: the destructor leaves the name behind.
DropHandleKeepsFile ==
    /\ UNCHANGED <<socket_file, left>>
    /\ running' = FALSE
    /\ created' = FALSE
    /\ server' = [c \in Clients |-> IF c \in Open \cup Waiting THEN "reset" ELSE server[c]]

\* sync_task_adaptor::set_should_work(false): the name is unlinked, the connections
\* are destroyed, the queue of the listening socket is lost.
DropHandle ==
    /\ IF created THEN Unlink ELSE UNCHANGED <<socket_file, left>>
    /\ running' = FALSE
    /\ created' = FALSE
    /\ server' = [c \in Clients |-> IF c \in Open \cup Waiting THEN "reset" ELSE server[c]]

\* The supervisor stops the task in another callback.  ~stream_socket then writes
\* through destroyed_tag, which is uninitialized before the first event of the
\* socket and points into a finished frame after it.
StopControl ==
    /\ ~crashed
    /\ running
    /\ DropHandle
    /\ crashed' \in IF Open = {} THEN {FALSE} ELSE BOOLEAN
    /\ UNCHANGED <<clientVars, wire, buffer, refused, starts, executed>>

Accept(c) ==
    /\ ~crashed
    /\ created
    /\ c \in Waiting
    /\ server' = [server EXCEPT ![c] = "open"]
    /\ UNCHANGED <<clientVars, handleVars, wire, buffer, refused, starts, executed, crashed>>

\* The kernel registers no more descriptors: the new connection throws in its
\* constructor and its socket is closed.  Its members are destroyed on the way, which
\* writes through destroyed_tag, or registers again in a destructor.
AcceptFails(c) ==
    /\ ~crashed
    /\ created
    /\ c \in Waiting
    /\ server' = [server EXCEPT ![c] = "refused"]
    /\ crashed' \in BOOLEAN
    /\ UNCHANGED <<clientVars, handleVars, wire, buffer, refused, starts, executed>>

-----------------------------------------------------------------------------
(* An event of a connection: EPOLLIN is handled first, then EPOLLHUP if the    *)
(* connection still exists.  A closed socket is readable, with no words left.  *)

\* The socket stays, unless the client has closed it.
KeepOrHangUp(c) == server' = [server EXCEPT ![c] = IF c \in closed THEN "hungup" ELSE "open"]

\* read_process appends all that is available to the buffer.
Received(c) == buffer[c] \o wire[c]

\* Mutant: the buffer is cleared although the message is not complete.
ReadMoreClears(c) ==
    /\ Parse(Received(c)) = "wait"
    /\ buffer' = [buffer EXCEPT ![c] = <<>>]
    /\ KeepOrHangUp(c)
    /\ UNCHANGED <<handleVars, executed, crashed>>

ReadMore(c) ==
    /\ Parse(Received(c)) = "wait"
    /\ buffer' = [buffer EXCEPT ![c] = Received(c)]
    /\ KeepOrHangUp(c)
    /\ UNCHANGED <<handleVars, executed, crashed>>

Reject(c) ==
    /\ Parse(Received(c)) = "reject"
    /\ server' = [server EXCEPT ![c] = "rejected"]
    /\ buffer' = [buffer EXCEPT ![c] = Received(c)]
    /\ UNCHANGED <<handleVars, executed, crashed>>

\* Mutant: the buffer is not cleared.
ExecuteKeepsBuffer(c) ==
    /\ Parse(Received(c)) = "execute"
    /\ executed' = [executed EXCEPT ![c] = Append(@, Received(c))]
    /\ buffer' = [buffer EXCEPT ![c] = Received(c)]
    /\ KeepOrHangUp(c)
    /\ UNCHANGED <<handleVars, crashed>>

\* The message is executed.  It may throw, for an unknown run level or a failed fork;
\* it may also stop the control task itself, so that clear_buffer, or on_disconnect
\* after an exception, is called on a connection that is gone.
Execute(c) ==
    /\ Parse(Received(c)) = "execute"
    /\ executed' = [executed EXCEPT ![c] = Append(@, Received(c))]
    /\ buffer' = [buffer EXCEPT ![c] = <<>>]
    /\ \/ KeepOrHangUp(c) /\ UNCHANGED <<handleVars, crashed>>
       \/ server' = [server EXCEPT ![c] = "rejected"] /\ UNCHANGED <<handleVars, crashed>>
       \/ DropHandle /\ crashed' \in BOOLEAN

\* Mutant: EPOLLHUP is handled first.
SocketEventHangupFirst(c) ==
    /\ ~crashed
    /\ c \in Open
    /\ wire[c] # <<>> \/ c \in closed
    /\ wire' = [wire EXCEPT ![c] = <<>>]
    /\ IF c \in closed
       THEN server' = [server EXCEPT ![c] = "hungup"] /\ UNCHANGED <<handleVars, buffer, executed, crashed>>
       ELSE ReadMore(c) \/ Reject(c) \/ Execute(c)
    /\ UNCHANGED <<clientVars, refused, starts>>

SocketEvent(c) ==
    /\ ~crashed
    /\ c \in Open
    /\ wire[c] # <<>> \/ c \in closed
    /\ wire' = [wire EXCEPT ![c] = <<>>]
    /\ ReadMore(c) \/ Reject(c) \/ Execute(c)
    /\ UNCHANGED <<clientVars, refused, starts>>

-----------------------------------------------------------------------------

Next ==
    \/ StartControl
    \/ StopControl
    \/ \E c \in Clients : Connect(c) \/ Send(c) \/ Close(c)
                           \/ Accept(c) \/ AcceptFails(c) \/ SocketEvent(c)

Spec == Init /\ [][Next]_vars

\* epoll is level-triggered and reports every ready descriptor in turn.
FairSpec == Spec /\ \A c \in Clients : WF_vars(Accept(c)) /\ WF_vars(SocketEvent(c))

-----------------------------------------------------------------------------
(* Properties *)

\* A client's messages are executed in the order sent, each at most once and whole,
\* however the stream is cut, coalesced or closed: clearing the buffer, expecting the
\* end of the stream and the empty read at a hangup never lose the framing.
ExecutedInOrder == \A c \in Clients : IsPrefix(executed[c], script[c])

\* While a connection is open, what it executed, buffered and has still to read or
\* receive is the client's stream, word for word.
NoWordLost ==
    \A c \in Open : FlattenSeq(executed[c]) \o buffer[c] \o wire[c] \o unsent[c] = Words(c)

\* Sockets of clients are held only by a handle that exists.  The socket file is there for
\* a handle, or was left by one of the failures that leave it (a start behind bind, a stop
\* that could not unlink, a program that crashed); then no later start makes a handle.  A
\* task that runs without a handle has met such a file, or has just been refused a socket.
\* So, but for these failures, connections, name and handle come and go together however
\* often the task starts and stops.
HandleOwnsSockets ==
    /\ Open \cup Waiting # {} => created
    /\ socket_file = (created \/ left)
    /\ left => ~created
    /\ running => created \/ left \/ refused

OneMessage(c) == \E id \in {RebootId, PowerOffId, SetRunLevelId}, name \in {<<>>, <<0>>} :
                    script[c] = <<Serialize(id, name)>>

\* A client that sends one message, as initctl does, is served: the message is
\* executed, or the control task is stopped under it, or the kernel had no room for its
\* connection, or the client closed its socket before it had written all of it.
Delivered ==
    \A c \in Clients : OneMessage(c) =>
        (server[c] # "none" /\ unsent[c] = <<>>) ~> (Len(executed[c]) = 1 \/ server[c] \in {"reset", "refused"} \/ crashed)
=============================================================================
