-------------------------- MODULE ControlTaskProofs --------------------------
(* The streams of the control socket, for any number of clients, any messages and
   any way of cutting them. *)
EXTENDS ControlTask, SequenceLemmas

-----------------------------------------------------------------------------
(* Messages *)

Ids == {RebootId, PowerOffId, SetRunLevelId}

\* A client keeps to the framing if every message it sends can be executed, or its
\* header is refused, or it is the last one and no part of it can be executed.
FramedSeq(s) == \A i \in DOMAIN s :
    \/ Parse(s[i]) = "execute"
    \/ Len(s[i]) >= 2 /\ (s[i][1] > Limit \/ s[i][2] \notin Ids)
    \/ i = Len(s) /\ \A n \in 0..(Len(s[i]) - 1) : Parse(SubSeq(s[i], 1, n)) # "execute"

\* The words of a message that is executed give its length.
LEMMA ExecutableLength ==
    ASSUME NEW r \in Seq(Nat), Parse(r) = "execute"
    PROVE  /\ Len(r) \in Nat /\ Len(r) >= 3
           /\ r[1] <= Limit /\ r[2] \in Ids
           /\ r[2] = SetRunLevelId => Len(r) = 3 + r[3]
           /\ r[2] # SetRunLevelId => Len(r) = 3
<1> DEFINE t == SubSeq(r, 3, Len(r))
<1>1. Len(r) \in Nat /\ Len(r) >= 2 /\ r[1] <= Limit /\ r[2] \in Ids /\ Readable(r[2], t)
  BY LimitAssumption DEF Parse, Ids
<1>2. t # <<>> /\ Len(t) = IF r[2] = SetRunLevelId THEN 1 + t[1] ELSE 1
  BY <1>1 DEF Readable
<1>3. Len(r) >= 3
  BY <1>1, <1>2
<1>4. Len(t) = Len(r) - 2 /\ t[1] = r[3] /\ r[3] \in Nat
  BY <1>1, <1>3
<1> HIDE DEF t
<1>5. r[2] = SetRunLevelId => Len(r) = 3 + r[3]
  BY <1>1, <1>2, <1>4
<1>6. r[2] # SetRunLevelId => Len(r) = 3
  <2>1. r[2] # SetRunLevelId => Len(t) = 1
    BY <1>2
  <2> QED
    BY <1>1, <1>4, <2>1
<1> QED
  BY <1>1, <1>3, <1>5, <1>6

\* Two sequences that begin the same stream have the same words as far as both go.
LEMMA SameWords ==
    ASSUME NEW r \in Seq(Nat), NEW u \in Seq(Nat), NEW m \in Seq(Nat), NEW v \in Seq(Nat),
           Joined(r, u) = Joined(m, v)
    PROVE  /\ Len(r) \in Nat /\ Len(m) \in Nat
           /\ \A i \in 1..Len(r) : i <= Len(m) => r[i] = m[i]
           /\ Len(r) = Len(m) => r = m
           /\ v = <<>> => Len(r) <= Len(m) /\ r = SubSeq(m, 1, Len(r))
<1>1. Len(r) \in Nat /\ Len(m) \in Nat /\ Len(u) \in Nat /\ Len(v) \in Nat
  OBVIOUS
<1>2. r \o u = m \o v
  BY DEF Joined
<1>3. ASSUME NEW i \in 1..Len(r), i <= Len(m) PROVE r[i] = m[i]
  <2>1. (r \o u)[i] = r[i]
    BY <1>1
  <2>2. (m \o v)[i] = m[i]
    BY <1>1, <1>3
  <2> QED
    BY <1>2, <2>1, <2>2
<1>4. Len(r) = Len(m) => r = m
  BY <1>1, <1>3, SeqEqual
<1>5. v = <<>> => Len(r) <= Len(m) /\ r = SubSeq(m, 1, Len(r))
  <2> SUFFICES ASSUME v = <<>> PROVE Len(r) <= Len(m) /\ r = SubSeq(m, 1, Len(r))
    OBVIOUS
  <2>1. Len(r) <= Len(m)
    <3>1. Len(r \o u) = Len(r) + Len(u) /\ Len(m \o v) = Len(m)
      OBVIOUS
    <3> QED
      BY <1>1, <1>2, <3>1
  <2>2. SubSeq(m, 1, Len(r)) \in Seq(Nat) /\ Len(SubSeq(m, 1, Len(r))) = Len(r)
    BY <1>1, <2>1
  <2>3. \A i \in 1..Len(r) : r[i] = SubSeq(m, 1, Len(r))[i]
    BY <1>1, <1>3, <2>1
  <2> QED
    BY <2>1, <2>2, <2>3, SeqEqual
<1> QED
  BY <1>1, <1>3, <1>4, <1>5

\* What is received and can be executed is the next message of the client, whole and
\* nothing else.
LEMMA ExecutesNext ==
    ASSUME NEW s \in Seq(Seq(Nat)), FramedSeq(s), NEW k \in 0..Len(s),
           NEW r \in Seq(Nat), NEW u \in Seq(Nat), Parse(r) = "execute",
           Joined(FlattenSeq(SubSeq(s, 1, k)), Joined(r, u)) = FlattenSeq(s)
    PROVE  k < Len(s) /\ r = s[k + 1]
<1> DEFINE F == FlattenSeq(SubSeq(s, 1, k))
<1>1. /\ Len(r) \in Nat /\ Len(r) >= 3 /\ r[1] <= Limit /\ r[2] \in Ids
      /\ r[2] = SetRunLevelId => Len(r) = 3 + r[3]
      /\ r[2] # SetRunLevelId => Len(r) = 3
  BY ExecutableLength
<1>2. Len(s) \in Nat /\ SubSeq(s, 1, k) \in Seq(Seq(Nat)) /\ <<>> \in Seq(Nat)
  OBVIOUS
<1>3. F \in Seq(Nat) /\ Joined(r, u) \in Seq(Nat)
  BY <1>2, FlattenAppend, JoinedFacts
<1>4. k < Len(s)
  <2> SUFFICES ASSUME k = Len(s) PROVE FALSE
    BY <1>2
  <2>1. SubSeq(s, 1, k) = s
    BY SubSeqFull
  <2> HIDE DEF F
  <2>2. Joined(F, Joined(r, u)) = Joined(F, <<>>)
    BY <1>2, <1>3, <2>1, JoinedFacts DEF F
  <2>3. Joined(r, u) = <<>>
    <3> DEFINE g == Joined(r, u)
               e == <<>>
    <3>1. g \in Seq(Nat) /\ e \in Seq(Nat) /\ Joined(F, g) = Joined(F, e)
      BY <1>2, <1>3, <2>2
    <3> HIDE DEF g, e
    <3>2. g = e
      BY <1>3, <3>1, JoinedFacts
    <3> QED
      BY <3>2 DEF g, e
  <2>4. r \o u = <<>>
    BY <2>3 DEF Joined
  <2>5. Len(r \o u) = Len(r) + Len(u) /\ Len(u) \in Nat
    OBVIOUS
  <2> QED
    BY <1>1, <2>4, <2>5
<1> DEFINE m == s[k + 1]
<1>5. m \in Seq(Nat) /\ k + 1 \in DOMAIN s /\ k \in 0..(Len(s) - 1)
  BY <1>2, <1>4
<1>6. PICK rest : /\ rest \in Seq(Nat)
                  /\ FlattenSeq(s) = Joined(F, Joined(m, rest))
                  /\ k + 1 = Len(s) => rest = <<>>
  BY <1>5, FlattenSplit
<1>7. \/ Parse(m) = "execute"
      \/ Len(m) >= 2 /\ (m[1] > Limit \/ m[2] \notin Ids)
      \/ k + 1 = Len(s) /\ \A n \in 0..(Len(m) - 1) : Parse(SubSeq(m, 1, n)) # "execute"
  BY <1>5 DEF FramedSeq
<1> HIDE DEF F, m
<1>8. Joined(r, u) = Joined(m, rest)
  <2>1. Joined(m, rest) \in Seq(Nat)
    BY <1>5, <1>6, JoinedFacts
  <2>2. Joined(F, Joined(r, u)) = Joined(F, Joined(m, rest))
    BY <1>6 DEF F
  <2> QED
    BY <1>3, <2>1, <2>2, JoinedFacts
<1>9. /\ Len(r) \in Nat /\ Len(m) \in Nat
      /\ \A i \in 1..Len(r) : i <= Len(m) => r[i] = m[i]
      /\ Len(r) = Len(m) => r = m
      /\ rest = <<>> => Len(r) <= Len(m) /\ r = SubSeq(m, 1, Len(r))
  BY <1>5, <1>6, <1>8, SameWords
<1>10. Len(m) >= 2 => r[1] = m[1] /\ r[2] = m[2]
  <2> SUFFICES ASSUME Len(m) >= 2 PROVE r[1] = m[1] /\ r[2] = m[2]
    OBVIOUS
  <2>1. 1 \in 1..Len(r) /\ 2 \in 1..Len(r) /\ 1 <= Len(m) /\ 2 <= Len(m)
    BY <1>1, <1>9
  <2>2. r[1] = m[1]
    BY <1>9, <2>1
  <2>3. r[2] = m[2]
    BY <1>9, <2>1
  <2> QED
    BY <2>2, <2>3
<1>11. CASE Parse(m) = "execute"
  <2>1. /\ Len(m) >= 3
        /\ m[2] = SetRunLevelId => Len(m) = 3 + m[3]
        /\ m[2] # SetRunLevelId => Len(m) = 3
    BY <1>5, <1>11, ExecutableLength
  <2>2. r[2] = m[2] /\ r[3] = m[3]
    <3>1. 3 \in 1..Len(r) /\ 3 <= Len(m) /\ Len(m) >= 2
      BY <1>1, <1>9, <2>1
    <3>2. r[3] = m[3]
      BY <1>9, <3>1
    <3> QED
      BY <1>10, <3>1, <3>2
  <2>3. Len(r) = Len(m)
    BY <1>1, <2>1, <2>2
  <2> QED
    BY <1>4, <1>9, <2>3 DEF m
<1>12. CASE Len(m) >= 2 /\ (m[1] > Limit \/ m[2] \notin Ids)
  <2>1. r[1] \in Nat
    <3>1. 1 \in 1..Len(r)
      BY <1>1
    <3> QED
      BY <3>1, ElementOfSeq, Zenon
  <2>2. r[1] = m[1] /\ r[2] = m[2]
    BY <1>10, <1>12
  <2>3. r[1] <= Limit /\ r[2] \in Ids
    BY <1>1
  <2>4. ~(m[1] > Limit)
    BY <2>1, <2>2, <2>3, LimitAssumption
  <2> QED
    BY <1>12, <2>2, <2>3, <2>4
<1>13. CASE k + 1 = Len(s) /\ \A n \in 0..(Len(m) - 1) : Parse(SubSeq(m, 1, n)) # "execute"
  <2>1. Len(r) <= Len(m) /\ r = SubSeq(m, 1, Len(r))
    BY <1>6, <1>9, <1>13
  <2>2. ~(Len(r) \in 0..(Len(m) - 1))
    BY <1>13, <2>1
  <2>3. Len(r) = Len(m)
    BY <1>9, <2>1, <2>2
  <2> QED
    <3>1. m \in Seq(Nat) /\ r = SubSeq(m, 1, Len(m))
      BY <1>9, <2>1, <2>3
    <3>2. r = m
      BY <3>1, SubSeqFull
    <3> QED
      BY <1>4, <3>2 DEF m
<1> QED
  BY <1>7, <1>11, <1>12, <1>13

-----------------------------------------------------------------------------
(* The inductive invariant *)

States == {"none", "backlog", "open", "reset", "refused", "rejected", "hungup"}
Live == {"none", "backlog", "open"}

ControlTypeOK ==
    /\ script \in [Clients -> Seq(Seq(Nat))]
    /\ unsent \in [Clients -> Seq(Nat)]
    /\ wire \in [Clients -> Seq(Nat)]
    /\ buffer \in [Clients -> Seq(Nat)]
    /\ executed \in [Clients -> Seq(Seq(Nat))]
    /\ server \in [Clients -> States]
    /\ socket_file \in BOOLEAN /\ running \in BOOLEAN /\ created \in BOOLEAN
    /\ left \in BOOLEAN /\ refused \in BOOLEAN

\* HandleOwnsSockets, and what a start needs to keep it: a handle exists only while the
\* task runs, so that the file a start finds is one that was left.
HandleInv ==
    /\ HandleOwnsSockets
    /\ created => running

\* What was executed, buffered, written and not yet sent, in this order.
Stream(e, b, w, u) == Joined(FlattenSeq(e), Joined(b, Joined(w, u)))

\* The stream of a client is whole until its socket is gone, also before it connects.
StreamKept(c) ==
    server[c] \in Live => Stream(executed[c], buffer[c], wire[c], unsent[c]) = Words(c)

\* The messages that were executed are the first ones of the script.
Begun(e, s) == Len(e) <= Len(s) /\ e = SubSeq(s, 1, Len(e))

ClientInv(c) == StreamKept(c) /\ (FramedSeq(script[c]) => Begun(executed[c], script[c]))

ControlInv == ControlTypeOK /\ HandleInv /\ \A c \in Clients : ClientInv(c)

-----------------------------------------------------------------------------
(* How the steps treat a client *)

\* The client loses its socket, or none of its words.
LEMMA ClientKept ==
    ASSUME ControlInv, NEW c \in Clients, script'[c] = script[c], executed'[c] = executed[c],
           server'[c] \in Live =>
              /\ server[c] \in Live
              /\ Stream(executed[c], buffer'[c], wire'[c], unsent'[c])
                   = Stream(executed[c], buffer[c], wire[c], unsent[c])
    PROVE  ClientInv(c)'
<1>1. ClientInv(c)
  BY DEF ControlInv
<1> QED
  BY <1>1 DEF ClientInv, StreamKept, Words

\* A read moves words from the wire to the buffer.
LEMMA StreamRead ==
    ASSUME NEW e \in Seq(Seq(Nat)), NEW b \in Seq(Nat), NEW w \in Seq(Nat), NEW u \in Seq(Nat)
    PROVE  /\ b \o w \in Seq(Nat)
           /\ Stream(e, b \o w, <<>>, u) = Stream(e, b, w, u)
<1>1. <<>> \in Seq(Nat) /\ b \o w = Joined(b, w)
  BY DEF Joined
<1>2. Joined(b, w) \in Seq(Nat) /\ Joined(<<>>, u) = u /\ Joined(Joined(b, w), u) = Joined(b, Joined(w, u))
  BY JoinedFacts
<1> QED
  BY <1>1, <1>2 DEF Stream

\* A write moves words from the client to the wire.
LEMMA StreamWrite ==
    ASSUME NEW e \in Seq(Seq(Nat)), NEW b \in Seq(Nat), NEW w \in Seq(Nat), NEW u \in Seq(Nat),
           NEW k \in DOMAIN u
    PROVE  /\ w \o SubSeq(u, 1, k) \in Seq(Nat) /\ SubSeq(u, k + 1, Len(u)) \in Seq(Nat)
           /\ Stream(e, b, w \o SubSeq(u, 1, k), SubSeq(u, k + 1, Len(u))) = Stream(e, b, w, u)
<1> DEFINE p == SubSeq(u, 1, k)
           q == SubSeq(u, k + 1, Len(u))
<1>1. p \in Seq(Nat) /\ q \in Seq(Nat)
  <2>1. k \in 1..Len(u)
    OBVIOUS
  <2>2. \A i \in 1..k : i \in 1..Len(u)
    BY <2>1
  <2>3. \A i \in (k + 1)..Len(u) : i \in 1..Len(u)
    BY <2>1
  <2>4. p \in Seq(Nat)
    BY <2>1, <2>2
  <2>5. q \in Seq(Nat)
    BY <2>1, <2>3
  <2> QED
    BY <2>4, <2>5
<1>2. p \o q = u
  <2>1. 1 \in 1..(Len(u) + 1) /\ k \in (1 - 1)..Len(u) /\ Len(u) \in k..Len(u)
    OBVIOUS
  <2>2. p \o q = SubSeq(u, 1, Len(u))
    BY <2>1, ConcatAdjacentSubSeq, Zenon
  <2> QED
    BY <2>2, SubSeqFull
<1> HIDE DEF p, q
<1>3. Joined(w, p) \in Seq(Nat) /\ Joined(Joined(w, p), q) = Joined(w, Joined(p, q))
  BY <1>1, JoinedFacts
<1>4. w \o p = Joined(w, p) /\ u = Joined(p, q)
  BY <1>2 DEF Joined
<1>5. w \o p \in Seq(Nat) /\ q \in Seq(Nat) /\ Stream(e, b, w \o p, q) = Stream(e, b, w, u)
  BY <1>1, <1>3, <1>4 DEF Stream
<1> QED
  BY <1>5 DEF p, q

\* An execution moves the words of the buffer to the messages executed.
LEMMA StreamExecuted ==
    ASSUME NEW e \in Seq(Seq(Nat)), NEW b \in Seq(Nat), NEW w \in Seq(Nat), NEW u \in Seq(Nat)
    PROVE  /\ Append(e, b \o w) \in Seq(Seq(Nat))
           /\ Stream(Append(e, b \o w), <<>>, <<>>, u) = Stream(e, b, w, u)
           /\ Stream(e, b, w, u) = Joined(FlattenSeq(e), Joined(b \o w, u))
<1> DEFINE m == Joined(b, w)
           F == FlattenSeq(e)
<1>1. b \o w = m
  BY DEF Joined
<1>2. m \in Seq(Nat) /\ Joined(m, u) = Joined(b, Joined(w, u)) /\ Joined(<<>>, u) = u /\ Joined(m, u) \in Seq(Nat)
  <2>1. Joined(b, w) \in Seq(Nat) /\ Joined(<<>>, u) = u /\ Joined(Joined(b, w), u) = Joined(b, Joined(w, u))
    BY JoinedFacts
  <2> HIDE DEF m
  <2>2. Joined(m, u) \in Seq(Nat)
    BY <2>1, JoinedFacts DEF m
  <2> QED
    BY <2>1, <2>2 DEF m
<1> HIDE DEF m
<1>3. F \in Seq(Nat) /\ FlattenSeq(Append(e, m)) = Joined(F, m)
  BY <1>2, FlattenAppend
<1> HIDE DEF F
<1>4. Joined(Joined(F, m), u) = Joined(F, Joined(m, u))
  BY <1>2, <1>3, JoinedFacts
<1>5. Append(e, m) \in Seq(Seq(Nat))
  BY <1>2
<1> QED
  BY <1>1, <1>2, <1>3, <1>4, <1>5 DEF Stream, F

-----------------------------------------------------------------------------
(* How the steps treat the handle *)

\* A client has a socket of initd only while there is a handle.
LEMMA HandleKept ==
    ASSUME ControlInv, UNCHANGED <<handleVars, refused>>,
           \A c \in Clients : server'[c] \in {"open", "backlog"} => server[c] \in {"open", "backlog"} \/ created
    PROVE  HandleInv'
  BY DEF ControlInv, HandleInv, HandleOwnsSockets, handleVars, Open, Waiting

\* The task stops: the file goes with the handle, or is left; without a handle it stays.
LEMMA HandleDropped ==
    ASSUME ControlInv, running, DropHandle
    PROVE  /\ HandleInv'
           /\ server' \in [Clients -> States]
           /\ socket_file' \in BOOLEAN /\ running' \in BOOLEAN /\ created' \in BOOLEAN /\ left' \in BOOLEAN
           /\ \A c \in Clients : server'[c] \in Live => server[c] = server'[c]
           /\ \A c \in Open : server'[c] \notin Live
<1>1. server' = [c \in Clients |-> IF c \in Open \cup Waiting THEN "reset" ELSE server[c]]
  BY DEF DropHandle
<1>2. server' \in [Clients -> States] /\ \A c \in Clients : server'[c] = IF c \in Open \cup Waiting THEN "reset" ELSE server[c]
  BY <1>1 DEF ControlInv, ControlTypeOK, States
<1>3. Open' = {} /\ Waiting' = {}
  BY <1>2 DEF Open, Waiting
<1>4. /\ running' = FALSE /\ created' = FALSE
      /\ \/ created /\ socket_file' = FALSE /\ left' = left
         \/ created /\ left' = TRUE /\ socket_file' = socket_file
         \/ ~created /\ left' = left /\ socket_file' = socket_file
  BY DEF DropHandle, Unlink
<1>5. /\ socket_file = (created \/ left) /\ (left => ~created)
      /\ socket_file \in BOOLEAN /\ left \in BOOLEAN /\ created \in BOOLEAN
  BY DEF ControlInv, ControlTypeOK, HandleInv, HandleOwnsSockets
<1>6. HandleInv' /\ socket_file' \in BOOLEAN /\ left' \in BOOLEAN
  BY <1>3, <1>4, <1>5 DEF HandleInv, HandleOwnsSockets
<1>7. \A c \in Open : server'[c] \notin Live
  BY <1>2 DEF Open, Live
<1>8. \A c \in Clients : server'[c] \in Live => server[c] = server'[c]
  BY <1>2 DEF Live
<1> QED
  BY <1>2, <1>4, <1>6, <1>7, <1>8

-----------------------------------------------------------------------------
(* The steps *)

\* The task starts.
LEMMA StartInd == ASSUME ControlInv, StartControl PROVE ControlInv'
<1>1. /\ UNCHANGED <<clientVars, wire, server, buffer, executed>>
      /\ ~running /\ running' = TRUE
      /\ \/ ~socket_file /\ socket_file' = TRUE /\ created' = TRUE /\ refused' = FALSE /\ left' = left
         \/ refused' = TRUE /\ socket_file' = socket_file /\ left' = left /\ created' = created
         \/ socket_file /\ refused' = FALSE /\ socket_file' = socket_file /\ left' = left /\ created' = created
         \/ socket_file' = TRUE /\ left' = TRUE /\ refused' = FALSE /\ created' = created
  BY DEF StartControl, CreateSocketFails, BindSocketFails, ListenSocketFails, RegisterServerFails, NoName, NameStays
<1>2. ControlTypeOK'
  BY <1>1 DEF ControlInv, ControlTypeOK, clientVars
<1>3. HandleInv'
  <2>1. /\ socket_file = (created \/ left) /\ created = FALSE
        /\ socket_file \in BOOLEAN /\ left \in BOOLEAN /\ Open \cup Waiting = {}
    BY <1>1 DEF ControlInv, ControlTypeOK, HandleInv, HandleOwnsSockets
  <2>2. Open' = {} /\ Waiting' = {}
    BY <1>1, <2>1 DEF Open, Waiting
  <2>3. /\ socket_file' = (created' \/ left')
        /\ left' => ~created'
        /\ created' \/ left' \/ refused'
    <3>1. CASE ~socket_file /\ socket_file' = TRUE /\ created' = TRUE /\ refused' = FALSE /\ left' = left
      BY <2>1, <3>1, Zenon
    <3>2. CASE refused' = TRUE /\ socket_file' = socket_file /\ left' = left /\ created' = created
      BY <2>1, <3>2, Zenon
    <3>3. CASE socket_file /\ refused' = FALSE /\ socket_file' = socket_file /\ left' = left /\ created' = created
      BY <2>1, <3>3, Zenon
    <3>4. CASE socket_file' = TRUE /\ left' = TRUE /\ refused' = FALSE /\ created' = created
      BY <2>1, <3>4, Zenon
    <3> QED
      BY <1>1, <3>1, <3>2, <3>3, <3>4
  <2> QED
    BY <1>1, <2>2, <2>3 DEF HandleInv, HandleOwnsSockets
<1>4. ASSUME NEW c \in Clients PROVE ClientInv(c)'
  BY <1>1, ClientKept DEF clientVars
<1> QED
  BY <1>2, <1>3, <1>4 DEF ControlInv

\* The task stops.
LEMMA StopInd == ASSUME ControlInv, StopControl PROVE ControlInv'
<1>1. running /\ DropHandle /\ UNCHANGED <<clientVars, wire, buffer, refused, executed>>
  BY DEF StopControl
<1>2. /\ HandleInv'
      /\ server' \in [Clients -> States]
      /\ socket_file' \in BOOLEAN /\ running' \in BOOLEAN /\ created' \in BOOLEAN /\ left' \in BOOLEAN
      /\ \A c \in Clients : server'[c] \in Live => server[c] = server'[c]
  BY <1>1, HandleDropped
<1>3. ControlTypeOK'
  BY <1>1, <1>2 DEF ControlInv, ControlTypeOK, clientVars
<1>4. ASSUME NEW c \in Clients PROVE ClientInv(c)'
  BY <1>1, <1>2, ClientKept DEF clientVars
<1> QED
  BY <1>2, <1>3, <1>4 DEF ControlInv

\* Steps that change what the server side of a socket is, and move no words.
LEMMA SocketInd ==
    ASSUME ControlInv, NEW c \in Clients, Connect(c) \/ Accept(c) \/ AcceptFails(c) \/ Close(c)
    PROVE  ControlInv'
<1>1. /\ UNCHANGED <<script, unsent, handleVars, wire, buffer, refused, executed>>
      /\ server' = server \/ \E v \in {"backlog", "open", "refused"} :
            created /\ server[c] \in Live /\ server' = [server EXCEPT ![c] = v]
  BY DEF Connect, Accept, AcceptFails, Close, clientVars, Waiting, Live
<1>2. server' \in [Clients -> States]
  BY <1>1 DEF ControlInv, ControlTypeOK, States
<1>3. \A d \in Clients : server'[d] = server[d] \/ (created /\ server[d] \in Live)
  BY <1>1 DEF ControlInv, ControlTypeOK
<1>4. ControlTypeOK'
  BY <1>1, <1>2 DEF ControlInv, ControlTypeOK, handleVars
<1>5. HandleInv'
  BY <1>1, <1>3, HandleKept
<1>6. ASSUME NEW d \in Clients PROVE ClientInv(d)'
  BY <1>1, <1>3, ClientKept
<1> QED
  BY <1>4, <1>5, <1>6 DEF ControlInv

\* A client writes a part of its words, or finds that it cannot.
LEMMA SendInd == ASSUME ControlInv, NEW c \in Clients, Send(c) PROVE ControlInv'
<1>1. UNCHANGED <<script, handleVars, server, buffer, refused, executed>>
  BY DEF Send
<1>2. HandleInv'
  BY <1>1, HandleKept
<1>3. CASE UNCHANGED <<unsent, wire>>
  <2>1. ControlTypeOK'
    BY <1>1, <1>3 DEF ControlInv, ControlTypeOK, handleVars
  <2>2. ASSUME NEW d \in Clients PROVE ClientInv(d)'
    BY <1>1, <1>3, ClientKept
  <2> QED
    BY <1>2, <2>1, <2>2 DEF ControlInv
<1>4. CASE ~UNCHANGED <<unsent, wire>>
  <2> DEFINE e == executed[c]
             b == buffer[c]
             w == wire[c]
             u == unsent[c]
  <2>1. PICK k \in DOMAIN u :
          /\ wire' = [wire EXCEPT ![c] = w \o SubSeq(u, 1, k)]
          /\ unsent' = [unsent EXCEPT ![c] = SubSeq(u, k + 1, Len(u))]
    BY <1>4 DEF Send
  <2>2. /\ w \o SubSeq(u, 1, k) \in Seq(Nat) /\ SubSeq(u, k + 1, Len(u)) \in Seq(Nat)
        /\ Stream(e, b, w \o SubSeq(u, 1, k), SubSeq(u, k + 1, Len(u))) = Stream(e, b, w, u)
    <3>1. e \in Seq(Seq(Nat)) /\ b \in Seq(Nat) /\ w \in Seq(Nat) /\ u \in Seq(Nat)
      BY DEF ControlInv, ControlTypeOK
    <3> HIDE DEF e, b, w, u
    <3> QED
      BY <3>1, StreamWrite
  <2>3. wire \in [Clients -> Seq(Nat)] /\ unsent \in [Clients -> Seq(Nat)]
    BY DEF ControlInv, ControlTypeOK
  <2> HIDE DEF e, b, w, u
  <2>4. /\ wire' \in [Clients -> Seq(Nat)] /\ unsent' \in [Clients -> Seq(Nat)]
        /\ \A d \in Clients \ {c} : wire'[d] = wire[d] /\ unsent'[d] = unsent[d]
        /\ wire'[c] = w \o SubSeq(u, 1, k) /\ unsent'[c] = SubSeq(u, k + 1, Len(u))
    BY <2>1, <2>2, <2>3, Zenon
  <2>5. ControlTypeOK'
    BY <1>1, <2>4 DEF ControlInv, ControlTypeOK, handleVars
  <2>6. Stream(e, b, wire'[c], unsent'[c]) = Stream(e, b, w, u)
    BY <2>2, <2>4, Zenon
  <2>7. ASSUME NEW d \in Clients PROVE ClientInv(d)'
    <3>1. CASE d = c
      BY <1>1, <2>6, <3>1, ClientKept DEF e, b, w, u
    <3>2. CASE d # c
      BY <1>1, <2>4, <3>2, ClientKept
    <3> QED
      BY <3>1, <3>2
  <2> QED
    BY <1>2, <2>5, <2>7 DEF ControlInv
<1> QED
  BY <1>3, <1>4

\* An event of a connection: more of a message, a refused one, or one that is executed,
\* which may stop the control task itself.
LEMMA EventInd == ASSUME ControlInv, NEW c \in Clients, SocketEvent(c) PROVE ControlInv'
<1> DEFINE e == executed[c]
           b == buffer[c]
           w == wire[c]
           u == unsent[c]
           m == b \o w
           k == Len(e)
<1>1. /\ c \in Open /\ wire' = [wire EXCEPT ![c] = <<>>]
      /\ UNCHANGED <<script, unsent, refused>>
      /\ ReadMore(c) \/ Reject(c) \/ Execute(c)
  BY DEF SocketEvent, clientVars
<1>2. /\ e \in Seq(Seq(Nat)) /\ b \in Seq(Nat) /\ w \in Seq(Nat) /\ u \in Seq(Nat)
      /\ script[c] \in Seq(Seq(Nat)) /\ <<>> \in Seq(Nat)
  BY EmptySeq DEF ControlInv, ControlTypeOK
<1>3. server[c] = "open" /\ server[c] \in Live /\ created /\ running
  BY <1>1 DEF Open, Live, ControlInv, HandleInv, HandleOwnsSockets
<1>4. ClientInv(c)
  BY DEF ControlInv
<1>5. /\ wire \in [Clients -> Seq(Nat)] /\ buffer \in [Clients -> Seq(Nat)]
      /\ executed \in [Clients -> Seq(Seq(Nat))] /\ server \in [Clients -> States]
  BY DEF ControlInv, ControlTypeOK
<1>6. Received(c) = m
  BY DEF Received
<1> HIDE DEF e, b, w, u, m, k
<1>7. /\ wire' \in [Clients -> Seq(Nat)] /\ wire'[c] = <<>>
      /\ \A d \in Clients \ {c} : wire'[d] = wire[d]
  BY <1>1, <1>2, <1>5, Zenon
<1>8. m \in Seq(Nat) /\ Stream(e, m, <<>>, u) = Stream(e, b, w, u)
  BY <1>2, StreamRead DEF m
<1>9. CASE ReadMore(c) \/ Reject(c)
  <2>1. /\ buffer' = [buffer EXCEPT ![c] = m] /\ UNCHANGED <<handleVars, executed>>
        /\ \E v \in {"rejected", "hungup", "open"} : server' = [server EXCEPT ![c] = v]
    BY <1>6, <1>9 DEF ReadMore, Reject, KeepOrHangUp
  <2>2. /\ buffer' \in [Clients -> Seq(Nat)] /\ buffer'[c] = m
        /\ \A d \in Clients \ {c} : buffer'[d] = buffer[d]
    BY <1>5, <1>8, <2>1, Zenon
  <2>3. /\ server' \in [Clients -> States]
        /\ \A d \in Clients \ {c} : server'[d] = server[d]
    BY <1>5, <2>1 DEF States
  <2>4. ControlTypeOK'
    BY <1>1, <1>7, <2>1, <2>2, <2>3 DEF ControlInv, ControlTypeOK, handleVars
  <2>5. HandleInv'
    BY <1>1, <1>3, <2>1, <2>3, HandleKept
  <2>6. Stream(e, buffer'[c], wire'[c], u) = Stream(e, b, w, u)
    BY <1>7, <1>8, <2>2, Zenon
  <2>7. ASSUME NEW d \in Clients PROVE ClientInv(d)'
    <3>1. CASE d = c
      BY <1>1, <1>3, <2>1, <2>6, <3>1, ClientKept DEF e, b, w, u
    <3>2. CASE d # c
      BY <1>1, <1>7, <2>1, <2>2, <2>3, <3>2, ClientKept
    <3> QED
      BY <3>1, <3>2
  <2> QED
    BY <2>4, <2>5, <2>7 DEF ControlInv
<1>10. CASE Execute(c)
  <2>1. /\ Parse(m) = "execute"
        /\ executed' = [executed EXCEPT ![c] = Append(e, m)]
        /\ buffer' = [buffer EXCEPT ![c] = <<>>]
    BY <1>6, <1>10 DEF Execute, e
  <2>2. /\ Append(e, m) \in Seq(Seq(Nat))
        /\ Stream(Append(e, m), <<>>, <<>>, u) = Stream(e, b, w, u)
        /\ Stream(e, b, w, u) = Joined(FlattenSeq(e), Joined(m, u))
    BY <1>2, StreamExecuted DEF m
  <2>3. /\ buffer' \in [Clients -> Seq(Nat)] /\ buffer'[c] = <<>>
        /\ \A d \in Clients \ {c} : buffer'[d] = buffer[d]
    BY <1>2, <1>5, <2>1, Zenon
  <2>4. /\ executed' \in [Clients -> Seq(Seq(Nat))] /\ executed'[c] = Append(e, m)
        /\ \A d \in Clients \ {c} : executed'[d] = executed[d]
    BY <1>5, <2>1, <2>2, Zenon
  <2>5. /\ HandleInv'
        /\ server' \in [Clients -> States]
        /\ socket_file' \in BOOLEAN /\ running' \in BOOLEAN /\ created' \in BOOLEAN /\ left' \in BOOLEAN
        /\ \A d \in Clients \ {c} : server'[d] \in Live => server[d] = server'[d]
    <3>1. CASE DropHandle
      BY <1>1, <1>3, <3>1, HandleDropped
    <3>2. CASE ~DropHandle
      <4>1. /\ UNCHANGED handleVars
            /\ \E v \in {"rejected", "hungup", "open"} : server' = [server EXCEPT ![c] = v]
        BY <1>10, <3>2 DEF Execute, KeepOrHangUp
      <4>2. /\ server' \in [Clients -> States]
            /\ \A d \in Clients \ {c} : server'[d] = server[d]
        BY <1>5, <4>1 DEF States
      <4>3. HandleInv'
        BY <1>1, <1>3, <4>1, <4>2, HandleKept
      <4> QED
        BY <4>1, <4>2, <4>3 DEF ControlInv, ControlTypeOK, handleVars
    <3> QED
      BY <3>1, <3>2
  <2>6. ControlTypeOK'
    BY <1>1, <1>7, <2>3, <2>4, <2>5 DEF ControlInv, ControlTypeOK
  <2>7. Stream(e, b, w, u) = FlattenSeq(script[c])
    BY <1>3, <1>4 DEF ClientInv, StreamKept, Words, e, b, w, u
  <2>8. StreamKept(c)'
    <3>1. Stream(executed'[c], buffer'[c], wire'[c], u) = FlattenSeq(script[c])
      BY <1>7, <2>2, <2>3, <2>4, <2>7, Zenon
    <3> QED
      BY <1>1, <3>1 DEF StreamKept, Words, u
  <2>9. FramedSeq(script[c]) => Begun(Append(e, m), script[c])
    <3> SUFFICES ASSUME FramedSeq(script[c]) PROVE Begun(Append(e, m), script[c])
      OBVIOUS
    <3> DEFINE s == script[c]
    <3>1. k <= Len(s) /\ e = SubSeq(s, 1, k)
      BY <1>4 DEF ClientInv, Begun, e, k
    <3>2. s \in Seq(Seq(Nat)) /\ Len(s) \in Nat /\ k \in Nat
      BY <1>2 DEF k
    <3> HIDE DEF s
    <3>3. Joined(FlattenSeq(SubSeq(s, 1, k)), Joined(m, u)) = FlattenSeq(s) /\ FramedSeq(s)
      BY <2>2, <2>7, <3>1 DEF s
    <3>4. k < Len(s) /\ m = s[k + 1]
      <4>1. k \in 0..Len(s)
        BY <3>1, <3>2
      <4> QED
        BY <1>2, <1>8, <2>1, <3>2, <3>3, <4>1, ExecutesNext
    <3>5. Append(SubSeq(s, 1, k), s[k + 1]) = SubSeq(s, 1, k + 1)
      BY <3>2, <3>4
    <3>6. Append(e, m) = SubSeq(s, 1, k + 1)
      BY <3>1, <3>4, <3>5, Zenon
    <3>7. Len(Append(e, m)) = k + 1
      BY <1>2, <1>8, AppendProperties DEF k
    <3>8. Begun(Append(e, m), s)
      BY <3>2, <3>4, <3>6, <3>7 DEF Begun
    <3> QED
      BY <3>8 DEF s
  <2>10. ASSUME NEW d \in Clients PROVE ClientInv(d)'
    <3>1. CASE d = c
      <4>1. script' = script
        BY <1>1
      <4>2. (FramedSeq(script[c]) => Begun(executed[c], script[c]))'
        BY <2>4, <2>9, <4>1
      <4> QED
        BY <2>8, <3>1, <4>2 DEF ClientInv
    <3>2. CASE d # c
      BY <1>1, <1>7, <2>3, <2>4, <2>5, <3>2, ClientKept
    <3> QED
      BY <3>1, <3>2
  <2> QED
    BY <2>5, <2>6, <2>10 DEF ControlInv
<1> QED
  BY <1>1, <1>9, <1>10

-----------------------------------------------------------------------------
(* Theorems *)

\* The invariant holds whatever clients send, the kernel refuses and the supervisor does.
THEOREM ControlInductive == Spec => []ControlInv
<1>1. Init => ControlInv
  <2> SUFFICES ASSUME Init PROVE ControlInv
    OBVIOUS
  <2>1. script \in [Clients -> Seq(Seq(Nat))]
    BY ScriptsAssumption DEF Init
  <2>2. ASSUME NEW c \in Clients PROVE Words(c) \in Seq(Nat) /\ ClientInv(c)
    <3> DEFINE s == script[c]
               u == FlattenSeq(s)
    <3>1. s \in Seq(Seq(Nat)) /\ <<>> \in Seq(Nat)
      BY <2>1
    <3>2. u \in Seq(Nat) /\ FlattenSeq(<<>>) = <<>>
      <4> HIDE DEF s
      <4> QED
        BY <3>1, FlattenAppend
    <3>3. unsent[c] = u /\ wire[c] = <<>> /\ buffer[c] = <<>> /\ executed[c] = <<>>
      BY DEF Init, Words
    <3>4. Stream(<<>>, <<>>, <<>>, u) = u
      <4> HIDE DEF u
      <4>1. Joined(<<>>, u) = u
        BY <3>2, JoinedFacts
      <4> QED
        BY <3>2, <4>1 DEF Stream
    <3>5. StreamKept(c)
      BY <3>3, <3>4, Zenon DEF StreamKept, Words
    <3>6. Begun(<<>>, s)
      BY <3>1 DEF Begun
    <3> QED
      BY <3>2, <3>3, <3>5, <3>6 DEF ClientInv, Words
  <2>3. ControlTypeOK
    <3>1. unsent \in [Clients -> Seq(Nat)]
      BY <2>2, Zenon DEF Init
    <3>2. <<>> \in Seq(Nat) /\ <<>> \in Seq(Seq(Nat))
      BY EmptySeq
    <3>3. wire \in [Clients -> Seq(Nat)] /\ buffer \in [Clients -> Seq(Nat)] /\ executed \in [Clients -> Seq(Seq(Nat))]
      BY <3>2, Zenon DEF Init
    <3> QED
      BY <2>1, <3>1, <3>3 DEF Init, ControlTypeOK, States
  <2>4. HandleInv
    BY DEF Init, HandleInv, HandleOwnsSockets, Open, Waiting
  <2> QED
    BY <2>2, <2>3, <2>4 DEF ControlInv
<1>2. ControlInv /\ [Next]_vars => ControlInv'
  <2> SUFFICES ASSUME ControlInv, [Next]_vars PROVE ControlInv'
    OBVIOUS
  <2>1. CASE UNCHANGED vars
    <3>1. ControlTypeOK' /\ HandleInv'
      BY <2>1 DEF vars, clientVars, handleVars, ControlInv, ControlTypeOK, HandleInv, HandleOwnsSockets, Open, Waiting
    <3>2. ASSUME NEW c \in Clients PROVE ClientInv(c)'
      BY <2>1, ClientKept DEF vars, clientVars
    <3> QED
      BY <3>1, <3>2 DEF ControlInv
  <2> QED
    BY <2>1, StartInd, StopInd, SocketInd, SendInd, EventInd DEF Next
<1> QED
  BY <1>1, <1>2, PTL DEF Spec

\* Sockets of clients are held by a handle that exists, the file of a socket without a
\* handle was left by a failed start, a failed unlink or a crash, and such a file or a
\* refused socket is the only reason for a task to run without a handle.
THEOREM HandleCorrect == Spec => []HandleOwnsSockets
<1>1. ControlInv => HandleOwnsSockets
  BY DEF ControlInv, HandleInv
<1> QED
  BY <1>1, ControlInductive, PTL

\* While a connection is open no word of its client is lost, repeated or moved, for any
\* words, well formed or not.
THEOREM StreamsCorrect == Spec => []NoWordLost
<1>1. ControlInv => NoWordLost
  <2> SUFFICES ASSUME ControlInv, NEW c \in Open
               PROVE  FlattenSeq(executed[c]) \o buffer[c] \o wire[c] \o unsent[c] = Words(c)
    BY DEF NoWordLost
  <2> DEFINE a == FlattenSeq(executed[c])
             b == buffer[c]
             w == wire[c]
             u == unsent[c]
  <2>1. c \in Clients /\ server[c] \in Live
    BY DEF Open, Live
  <2>2. b \in Seq(Nat) /\ w \in Seq(Nat) /\ u \in Seq(Nat) /\ executed[c] \in Seq(Seq(Nat))
    BY <2>1 DEF ControlInv, ControlTypeOK
  <2>3. a \in Seq(Nat)
    BY <2>2, FlattenAppend
  <2>4. Joined(a, Joined(b, Joined(w, u))) = Words(c)
    BY <2>1 DEF ControlInv, ClientInv, StreamKept, Stream
  <2> HIDE DEF a, b, w, u
  <2>5. Joined(a, b) \in Seq(Nat) /\ Joined(w, u) \in Seq(Nat)
    BY <2>2, <2>3, JoinedFacts
  <2>6. Joined(Joined(Joined(a, b), w), u) = Joined(Joined(a, b), Joined(w, u))
    BY <2>2, <2>5, JoinedFacts
  <2>7. Joined(Joined(a, b), Joined(w, u)) = Joined(a, Joined(b, Joined(w, u)))
    BY <2>2, <2>3, <2>5, JoinedFacts
  <2>8. ((a \o b) \o w) \o u = Words(c)
    BY <2>4, <2>6, <2>7, Zenon DEF Joined
  <2> QED
    BY <2>8 DEF a, b, w, u
<1> QED
  BY <1>1, ControlInductive, PTL

\* The messages of clients that keep to the framing are executed in order, at most once
\* each and whole, however their streams are cut.
THEOREM ExecutionCorrect == Spec => []((\A c \in Clients : FramedSeq(script[c])) => ExecutedInOrder)
<1>1. ControlInv => ((\A c \in Clients : FramedSeq(script[c])) => ExecutedInOrder)
  <2> SUFFICES ASSUME ControlInv, NEW c \in Clients, FramedSeq(script[c])
               PROVE  IsPrefix(executed[c], script[c])
    BY DEF ExecutedInOrder
  <2>1. Begun(executed[c], script[c]) /\ executed[c] \in Seq(Seq(Nat))
    BY DEF ControlInv, ClientInv, ControlTypeOK
  <2>2. SubSeq(executed[c], 1, Len(executed[c])) = executed[c]
    BY <2>1, SubSeqFull
  <2> QED
    BY <2>1, <2>2, Zenon DEF Begun, IsPrefix
<1> QED
  BY <1>1, ControlInductive, PTL
=============================================================================
