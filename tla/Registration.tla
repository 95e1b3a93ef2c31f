------------------------------ MODULE Registration ------------------------------
(***************************************************************************)
(* epoll_registration objects and the interest list of the kernel, which   *)
(* holds the address of the object for every descriptor.  Objects are      *)
(* constructed, moved, swapped, assigned, cleared and destroyed while      *)
(* events arrive; the callback of an event belongs to one descriptor.      *)
(***************************************************************************)
EXTENDS Integers, FiniteSets

CONSTANTS
    Addresses,     \* where an epoll_registration can live
    Descriptors    \* file descriptors

NoDescriptor == "none"    \* fd = -1 and ep = nullptr
NoAddress == "nowhere"

ASSUME RegistrationAssumption == NoDescriptor \notin Descriptors /\ NoAddress \notin Addresses

VARIABLES
    alive,      \* the addresses that hold an object
    fd,         \* epoll_registration::fd
    callback,   \* epoll_registration::callback, named by the descriptor it was made for
    interest,   \* the interest list: ev.data.ptr of every registered descriptor
    called      \* the last event: its descriptor, and the callback that got it

registrationVars == <<alive, fd, callback, interest, called>>

RegistrationInit ==
    /\ alive = {}
    /\ fd = [a \in Addresses |-> NoDescriptor]
    /\ callback = [a \in Addresses |-> NoDescriptor]
    /\ interest = [d \in Descriptors |-> NoAddress]
    /\ called = <<NoDescriptor, NoDescriptor>>

\* epoll_registration::update, modify for the descriptor that the object has.
Update(list, a, d) == IF d = NoDescriptor THEN list ELSE [list EXCEPT ![d] = a]

\* epoll_registration::clear, remove for the descriptor that the object has.
Remove(list, d) == IF d = NoDescriptor THEN list ELSE [list EXCEPT ![d] = NoAddress]

-----------------------------------------------------------------------------

ConstructEmpty(a) ==
    /\ a \notin alive
    /\ alive' = alive \cup {a}
    /\ UNCHANGED <<fd, callback, interest, called>>

Construct(a, d) ==
    /\ a \notin alive /\ interest[d] = NoAddress
    /\ alive' = alive \cup {a}
    /\ fd' = [fd EXCEPT ![a] = d]
    /\ callback' = [callback EXCEPT ![a] = d]
    /\ interest' = [interest EXCEPT ![d] = a]
    /\ UNCHANGED called

Move(a, b) ==
    /\ a \notin alive /\ b \in alive
    /\ alive' = alive \cup {a}
    /\ fd' = [fd EXCEPT ![a] = fd[b], ![b] = NoDescriptor]
    /\ callback' = [callback EXCEPT ![a] = callback[b], ![b] = NoDescriptor]
    /\ interest' = Update(interest, a, fd[b])
    /\ UNCHANGED called

\* Mutant: only the other object is updated.
SwapHalf(a, b) ==
    /\ {a, b} \subseteq alive
    /\ fd' = [fd EXCEPT ![a] = fd[b], ![b] = fd[a]]
    /\ callback' = [callback EXCEPT ![a] = callback[b], ![b] = callback[a]]
    /\ interest' = Update(interest, b, fd[a])
    /\ UNCHANGED <<alive, called>>

\* Mutant: the callbacks stay where they are.
SwapKeepsCallbacks(a, b) ==
    /\ {a, b} \subseteq alive
    /\ fd' = [fd EXCEPT ![a] = fd[b], ![b] = fd[a]]
    /\ interest' = Update(Update(interest, a, fd[b]), b, fd[a])
    /\ UNCHANGED <<alive, callback, called>>

Swap(a, b) ==
    /\ {a, b} \subseteq alive
    /\ fd' = [fd EXCEPT ![a] = fd[b], ![b] = fd[a]]
    /\ callback' = [callback EXCEPT ![a] = callback[b], ![b] = callback[a]]
    /\ interest' = Update(Update(interest, a, fd[b]), b, fd[a])
    /\ UNCHANGED <<alive, called>>

\* a = std::move(b): b is moved into the parameter, which is swapped with a and
\* destroyed with what a had.
Assign(a, b) ==
    /\ {a, b} \subseteq alive /\ a # b
    /\ fd' = [fd EXCEPT ![a] = fd[b], ![b] = NoDescriptor]
    /\ callback' = [callback EXCEPT ![a] = callback[b], ![b] = NoDescriptor]
    /\ interest' = Update(Remove(interest, fd[a]), a, fd[b])
    /\ UNCHANGED <<alive, called>>

\* clear leaves the callback where it is.
Clear(a) ==
    /\ a \in alive
    /\ interest' = Remove(interest, fd[a])
    /\ fd' = [fd EXCEPT ![a] = NoDescriptor]
    /\ UNCHANGED <<alive, callback, called>>

Destroy(a) ==
    /\ a \in alive
    /\ interest' = Remove(interest, fd[a])
    /\ alive' = alive \ {a}
    /\ fd' = [fd EXCEPT ![a] = NoDescriptor]
    /\ callback' = [callback EXCEPT ![a] = NoDescriptor]
    /\ UNCHANGED called

\* epoll::wait with an event for a descriptor of the interest list.
Wait(d) ==
    /\ interest[d] # NoAddress
    /\ called' = <<d, callback[interest[d]]>>
    /\ UNCHANGED <<alive, fd, callback, interest>>

RegistrationNext ==
    \/ \E a \in Addresses : ConstructEmpty(a) \/ Clear(a) \/ Destroy(a)
    \/ \E a \in Addresses, d \in Descriptors : Construct(a, d)
    \/ \E a, b \in Addresses : Move(a, b) \/ Swap(a, b) \/ Assign(a, b)
    \/ \E d \in Descriptors : Wait(d)

RegistrationSpec == RegistrationInit /\ [][RegistrationNext]_registrationVars

-----------------------------------------------------------------------------
(* Properties *)

RegistrationTypeOK ==
    /\ alive \subseteq Addresses
    /\ fd \in [Addresses -> Descriptors \cup {NoDescriptor}]
    /\ callback \in [Addresses -> Descriptors \cup {NoDescriptor}]
    /\ interest \in [Descriptors -> Addresses \cup {NoAddress}]
    /\ called \in (Descriptors \cup {NoDescriptor}) \X (Descriptors \cup {NoDescriptor})

\* The kernel holds the address of an object that is alive and has that descriptor, and
\* every object with a descriptor is the one the kernel knows for it: epoll::wait never
\* follows a pointer to an object that was moved away or destroyed.
KernelKnowsOwner ==
    /\ \A d \in Descriptors : interest[d] # NoAddress => interest[d] \in alive /\ fd[interest[d]] = d
    /\ \A a \in Addresses : fd[a] # NoDescriptor => a \in alive /\ interest[fd[a]] = a

\* An object that has a descriptor has the callback that was made for it.
CallbackFollows == \A a \in Addresses : fd[a] # NoDescriptor => callback[a] = fd[a]

\* Every event reaches the callback that was registered for its descriptor, through
\* any sequence of moves, swaps and assignments.
EventsReachOwner == called[1] = called[2]
=============================================================================
