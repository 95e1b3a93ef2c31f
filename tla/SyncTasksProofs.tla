--------------------------- MODULE SyncTasksProofs ---------------------------
(* What synchronous tasks leave in the kernel, for every graph of dependencies, any
   number of tasks and loop devices, and however often calls fail. *)
EXTENDS SyncTasks, SequenceLemmas

USE TasksAssumption DEF Tasks

-----------------------------------------------------------------------------
(* The order of starting and stopping *)

\* All that a running task depends on runs, and so does all that a task depends on whose
\* constructor walks over the loop devices.
RunningInv ==
    /\ running \subseteq Tasks
    /\ Closed(running)
    /\ Idle \/ \E t \in LoopTasks, i \in 0..LoopCount : walk = <<t, i>> /\ MayStart(t)

\* A task starts.
LEMMA StartCloses ==
    ASSUME RunningInv, NEW t \in Tasks, MayStart(t), running' = running \cup {t}, walk' = NoWalk
    PROVE  RunningInv'
  BY DEF RunningInv, Closed, MayStart, Idle

\* A task stops.
LEMMA StopCloses ==
    ASSUME RunningInv, NEW t \in Tasks, MayStop(t), running' = running \ {t}, walk' = NoWalk
    PROVE  RunningInv'
  BY DEF RunningInv, Closed, MayStop, Dependants, Idle

\* Nothing that runs needs the task that starts.
LEMMA StartsLast ==
    ASSUME RunningInv, NEW t \in Tasks, MayStart(t), NEW u \in running
    PROVE  t \notin Needed({u})
  BY DEF RunningInv, MayStart, Needed

\* Nothing that runs on needs the task that stops.
LEMMA StopsFirst ==
    ASSUME RunningInv, NEW t \in Tasks, MayStop(t), NEW u \in running \ {t}
    PROVE  t \notin Needed({u})
<1>1. Closed(running \ {t}) /\ running \ {t} \in SUBSET Tasks
  BY DEF RunningInv, Closed, MayStop, Dependants
<1> QED
  BY <1>1 DEF Needed

-----------------------------------------------------------------------------
(* Host names *)

\* The running tasks that will put a name back.
Restoring == {u \in running \cap HostnameTasks : oldHname[u] # NoName}

\* The name, and every name that a handle has saved, is one that is still in force or
\* will be put back later: that of a task below the handle's own, which stops after it.
HostnameInv ==
    /\ hostname \in HostnameTasks \cup {Original}
    /\ oldHname \in [HostnameTasks -> HostnameTasks \cup {Original, NoName}]
    /\ Chain /\ ~unrestored =>
         /\ hostname \in Restoring \cup NoRestore \cup {Original}
         /\ \A t \in HostnameTasks : oldHname[t] # NoName =>
              /\ t \in running
              /\ oldHname[t] \in {u \in Restoring : u \in Needed({t}) \ {t}} \cup NoRestore \cup {Original}

\* Tasks are positive numbers.
LEMMA HostnameFacts == HostnameTasks \subseteq Tasks /\ NoRestore \subseteq HostnameTasks /\ Original \notin HostnameTasks /\ NoName \notin HostnameTasks /\ Original # NoName
  BY HostnameAssumption DEF Original, NoName

\* A host name is set by the last task of the chain.
LEMMA SetHostnameInd ==
    ASSUME RunningInv, HostnameInv, NEW t \in HostnameTasks, SetHostname(t)
    PROVE  HostnameInv'
<1>1. /\ MayStart(t) /\ running' = running \cup {t} /\ hostname' = t /\ unrestored' = unrestored
      /\ oldHname' = [oldHname EXCEPT ![t] = IF t \in NoRestore THEN NoName ELSE hostname]
  BY DEF SetHostname
<1>2. t \in Tasks /\ t \notin running
  BY <1>1, HostnameFacts DEF MayStart
<1>3. oldHname \in [HostnameTasks -> HostnameTasks \cup {Original, NoName}] /\ hostname \in HostnameTasks \cup {Original}
  BY DEF HostnameInv
<1>4. /\ oldHname' \in [HostnameTasks -> HostnameTasks \cup {Original, NoName}]
      /\ oldHname'[t] = IF t \in NoRestore THEN NoName ELSE hostname
      /\ \A u \in HostnameTasks \ {t} : oldHname'[u] = oldHname[u]
  BY <1>1, <1>3
<1>5. ASSUME Chain, ~unrestored
      PROVE  /\ hostname' \in Restoring' \cup NoRestore \cup {Original}
             /\ \A u \in HostnameTasks : oldHname'[u] # NoName =>
                  /\ u \in running'
                  /\ oldHname'[u] \in {v \in Restoring' : v \in Needed({u}) \ {u}} \cup NoRestore \cup {Original}
  <2>1. Restoring \subseteq Restoring' /\ t \notin Restoring
    BY <1>1, <1>2, <1>4 DEF Restoring
  <2>2. t \notin NoRestore => t \in Restoring'
    BY <1>1, <1>3, <1>4, HostnameFacts DEF Restoring
  <2>3. \A u \in Restoring : u \in Needed({t})
    <3> TAKE u \in Restoring
    <3>1. u \in running /\ u \in HostnameTasks
      BY DEF Restoring
    <3> QED
      BY <1>1, <1>2, <1>5, <3>1, StartsLast DEF Chain, Comparable
  <2>4. hostname \in Restoring \cup NoRestore \cup {Original}
    BY <1>5 DEF HostnameInv
  <2>5. \A u \in HostnameTasks : oldHname[u] # NoName =>
          u \in running /\ oldHname[u] \in {v \in Restoring : v \in Needed({u}) \ {u}} \cup NoRestore \cup {Original}
    BY <1>5 DEF HostnameInv
  <2> QED
    BY <1>1, <1>4, <2>1, <2>2, <2>3, <2>4, <2>5
<1> QED
  BY <1>1, <1>4, <1>5 DEF HostnameInv

\* A host name is put back by the last task of the chain.
LEMMA RevertInd ==
    ASSUME RunningInv, HostnameInv, NEW t \in HostnameTasks, Revert(t)
    PROVE  HostnameInv'
<1>1. /\ MayStop(t) /\ running' = running \ {t} /\ unrestored' = unrestored
      /\ hostname' = IF oldHname[t] = NoName THEN hostname ELSE oldHname[t]
      /\ oldHname' = [oldHname EXCEPT ![t] = NoName]
  BY DEF Revert
<1>2. t \in Tasks
  BY HostnameFacts
<1>3. oldHname \in [HostnameTasks -> HostnameTasks \cup {Original, NoName}] /\ hostname \in HostnameTasks \cup {Original}
  BY DEF HostnameInv
<1>4. /\ oldHname' \in [HostnameTasks -> HostnameTasks \cup {Original, NoName}]
      /\ oldHname'[t] = NoName
      /\ \A u \in HostnameTasks \ {t} : oldHname'[u] = oldHname[u]
  BY <1>1, <1>3
<1>5. hostname' \in HostnameTasks \cup {Original}
  BY <1>1, <1>3
<1>6. ASSUME Chain, ~unrestored
      PROVE  /\ hostname' \in Restoring' \cup NoRestore \cup {Original}
             /\ \A u \in HostnameTasks : oldHname'[u] # NoName =>
                  /\ u \in running'
                  /\ oldHname'[u] \in {v \in Restoring' : v \in Needed({u}) \ {u}} \cup NoRestore \cup {Original}
  <2>1. Restoring' = Restoring \ {t}
    BY <1>1, <1>4 DEF Restoring
  <2>2. oldHname[t] = NoName => t \notin Restoring
    BY DEF Restoring
  <2>3. \A u \in running \ {t} : t \notin Needed({u})
    BY <1>1, <1>2, StopsFirst
  <2>4. hostname \in Restoring \cup NoRestore \cup {Original}
    BY <1>6 DEF HostnameInv
  <2>5. \A u \in HostnameTasks : oldHname[u] # NoName =>
          u \in running /\ oldHname[u] \in {v \in Restoring : v \in Needed({u}) \ {u}} \cup NoRestore \cup {Original}
    BY <1>6 DEF HostnameInv
  <2>6. hostname' \in Restoring' \cup NoRestore \cup {Original}
    <3>1. CASE oldHname[t] = NoName
      BY <1>1, <2>1, <2>2, <2>4, <3>1
    <3>2. CASE oldHname[t] # NoName
      BY <1>1, <2>1, <2>5, <3>2
    <3> QED
      BY <3>1, <3>2
  <2>7. ASSUME NEW u \in HostnameTasks, oldHname'[u] # NoName
        PROVE  /\ u \in running'
               /\ oldHname'[u] \in {v \in Restoring' : v \in Needed({u}) \ {u}} \cup NoRestore \cup {Original}
    <3>1. u # t /\ oldHname'[u] = oldHname[u]
      BY <1>4, <2>7
    <3>2. u \in running /\ oldHname[u] \in {v \in Restoring : v \in Needed({u}) \ {u}} \cup NoRestore \cup {Original}
      BY <2>5, <2>7, <3>1
    <3>3. t \notin Needed({u})
      BY <2>3, <3>1, <3>2
    <3> QED
      BY <1>1, <2>1, <3>1, <3>2, <3>3
  <2> QED
    BY <2>6, <2>7
<1> QED
  BY <1>1, <1>4, <1>5, <1>6 DEF HostnameInv

\* The steps of hostname tasks.
LEMMA HostnameStep ==
    ASSUME RunningInv, HostnameInv, Idle, HostnameNext, UNCHANGED mountVars
    PROVE  RunningInv' /\ HostnameInv' /\ running \cap MountTasks = running' \cap MountTasks
<1>1. PICK t \in HostnameTasks : SetHostname(t) \/ SetHostnameFails(t) \/ Revert(t) \/ RevertFails(t)
  BY DEF HostnameNext
<1>2. t \in Tasks /\ t \notin MountTasks /\ walk' = NoWalk
  BY HostnameFacts, KindsAssumption DEF Idle, mountVars
<1>3. RunningInv' /\ running \cap MountTasks = running' \cap MountTasks
  BY <1>1, <1>2, StartCloses, StopCloses DEF SetHostname, SetHostnameFails, Revert, RevertFails
<1>4. CASE SetHostnameFails(t)
  <2>1. running' = running \cup {t} /\ hostname' = hostname /\ oldHname' = oldHname /\ unrestored' = unrestored
    BY <1>4 DEF SetHostnameFails, hostnameVars
  <2>2. Restoring \subseteq Restoring'
    BY <2>1 DEF Restoring
  <2>3. \A u \in HostnameTasks :
          {v \in Restoring : v \in Needed({u}) \ {u}} \subseteq {v \in Restoring' : v \in Needed({u}) \ {u}}
    BY <2>2
  <2>4. running \subseteq running'
    BY <2>1
  <2>5. hostname \in HostnameTasks \cup {Original} /\ oldHname \in [HostnameTasks -> HostnameTasks \cup {Original, NoName}]
    BY DEF HostnameInv
  <2>6. ASSUME Chain, ~unrestored
        PROVE  /\ hostname \in Restoring' \cup NoRestore \cup {Original}
               /\ \A u \in HostnameTasks : oldHname[u] # NoName =>
                    /\ u \in running'
                    /\ oldHname[u] \in {v \in Restoring' : v \in Needed({u}) \ {u}} \cup NoRestore \cup {Original}
    BY <2>2, <2>3, <2>4, <2>6 DEF HostnameInv
  <2>7. HostnameInv'
    BY <2>1, <2>5, <2>6 DEF HostnameInv
  <2> QED
    BY <1>3, <2>7
<1>5. CASE RevertFails(t)
  <2>1. hostname' = hostname /\ oldHname' = [oldHname EXCEPT ![t] = NoName] /\ unrestored'
    BY <1>5 DEF RevertFails
  <2>2. hostname' \in HostnameTasks \cup {Original} /\ oldHname' \in [HostnameTasks -> HostnameTasks \cup {Original, NoName}]
    BY <2>1 DEF HostnameInv
  <2>3. HostnameInv'
    BY <2>1, <2>2 DEF HostnameInv
  <2> QED
    BY <1>3, <2>3
<1> QED
  BY <1>1, <1>3, <1>4, <1>5, SetHostnameInd, RevertInd

-----------------------------------------------------------------------------
(* The mount table: mounting at its end and taking mounts out *)

Entries == [by : MountTasks, device : Devices \cup {NoDevice}]

\* The place of k among the numbers of D.
Rank(k, D) == Place(k, D, AtMost(D))

\* Taking mounts out keeps the others, and their order.
LEMMA WithoutFacts ==
    ASSUME mounts \in Seq(Entries), NEW K
    PROVE  LET kept == DOMAIN mounts \ K
           IN  /\ Without(K) \in Seq(Entries)
               /\ \A k \in kept : Rank(k, kept) \in DOMAIN Without(K) /\ Without(K)[Rank(k, kept)] = mounts[k]
               /\ \A i \in DOMAIN Without(K) : \E k \in kept : i = Rank(k, kept)
               /\ \A j, k \in kept : j < k => Rank(j, kept) < Rank(k, kept)
<1> DEFINE kept == DOMAIN mounts \ K
           R == AtMost(kept)
           s == Arranged(kept, R)
           C == Cardinality(kept)
<1>1. Len(mounts) \in Nat /\ DOMAIN mounts = 1..Len(mounts) /\ \A k \in DOMAIN mounts : mounts[k] \in Entries
  <2> HIDE DEF Entries
  <2> QED
    OBVIOUS
<1>2. kept \in SUBSET (1..Len(mounts)) /\ IsFiniteSet(1..Len(mounts))
  BY <1>1, FS_Interval
<1>3. IsFiniteSet(kept) /\ kept \subseteq Int
  BY <1>1, <1>2, FS_Subset
<1>4. \A k \in kept : mounts[k] \in Entries
  BY <1>1
<1>5. Without(K) = [i \in DOMAIN s |-> mounts[s[i]]]
  BY DEF Without, Ascending
<1>6. \A k : Rank(k, kept) = Place(k, kept, R)
  BY DEF Rank
<1> HIDE DEF kept
<1>7. Orders(R, kept) /\ \A j, k \in kept : j < k => <<j, k>> \in R
  <2>1. Orders(R, kept)
    BY <1>3, AtMostOrders
  <2>2. \A j, k \in kept : j < k => <<j, k>> \in R
    BY <1>3 DEF AtMost
  <2> QED
    BY <2>1, <2>2
<1> HIDE DEF R
<1>8. /\ C \in Nat /\ s \in [1..C -> kept]
      /\ \A k \in kept : Place(k, kept, R) \in 1..C /\ s[Place(k, kept, R)] = k
      /\ \A n \in 1..C : Place(s[n], kept, R) = n
  BY <1>3, <1>7, ArrangedFacts
<1>9. \A j, k \in kept : j < k => Place(j, kept, R) < Place(k, kept, R)
  <2> SUFFICES ASSUME NEW j \in kept, NEW k \in kept, j < k
               PROVE  Place(j, kept, R) < Place(k, kept, R)
    OBVIOUS
  <2>1. j # k
    BY <1>3
  <2> QED
    BY <1>3, <1>7, <2>1, PlaceOrder
<1> HIDE DEF s, C
<1>10. DOMAIN Without(K) = 1..C /\ \A i \in 1..C : Without(K)[i] = mounts[s[i]]
  BY <1>5, <1>8
<1>11. Without(K) \in Seq(Entries)
  <2> HIDE DEF Entries
  <2>1. Without(K) \in [1..C -> Entries]
    BY <1>4, <1>5, <1>8
  <2> QED
    BY <1>8, <2>1
<1>12. \A k \in kept : Rank(k, kept) \in DOMAIN Without(K) /\ Without(K)[Rank(k, kept)] = mounts[k]
  BY <1>6, <1>8, <1>10
<1>13. \A i \in DOMAIN Without(K) : \E k \in kept : i = Rank(k, kept)
  BY <1>6, <1>8, <1>10
<1>14. \A j, k \in kept : j < k => Rank(j, kept) < Rank(k, kept)
  BY <1>6, <1>9
<1> QED
  BY <1>11, <1>12, <1>13, <1>14 DEF kept

-----------------------------------------------------------------------------
(* Mounts and loop devices *)

MountType ==
    /\ mounts \in Seq(Entries)
    /\ loop \in [Devices -> LoopTasks \cup {Free, Others}]
    /\ pinned \subseteq Devices /\ autoclear \subseteq Devices
    /\ handle \in [MountTasks -> Devices \cup {NoDevice, NoHandle}]

Held == {t \in MountTasks : handle[t] # NoHandle}

\* Every handle has its mount, above the mounts of all that its task depends on.
Places(pos) ==
    /\ \A t \in Held : pos[t] \in DOMAIN mounts /\ mounts[pos[t]].by = t /\ mounts[pos[t]].device = handle[t]
    /\ \A t, u \in Held : t # u /\ t \in Needed({u}) => pos[t] < pos[u]

OwnDevices == \A t \in Held : handle[t] \in Devices => loop[handle[t]] = t

\* There are the mounts of the handles and no others, each once; every device that has
\* the file of a task has it for a handle; the kernel has nothing to detach later.
Clean ==
    /\ \A k \in DOMAIN mounts : handle[mounts[k].by] = mounts[k].device
    /\ \A j, k \in DOMAIN mounts : mounts[j].by = mounts[k].by => j = k
    /\ \A d \in Devices : loop[d] \in LoopTasks => handle[loop[d]] = d
    /\ pinned = {} /\ autoclear = {}

MountInv ==
    /\ MountType
    /\ Held \subseteq running
    /\ Nested => /\ \E pos \in [MountTasks -> Nat] : Places(pos)
                 /\ OwnDevices
                 /\ ~leftBehind => Clean

\* Indices of the table are numbers; what is mounted is a task's, on a device or not.
LEMMA TableFacts ==
    ASSUME mounts \in Seq(Entries)
    PROVE  /\ Len(mounts) \in Nat /\ DOMAIN mounts = 1..Len(mounts)
           /\ \A k \in DOMAIN mounts : /\ k \in Nat /\ mounts[k] \in Entries
                                       /\ mounts[k].by \in MountTasks /\ mounts[k].device \in Devices \cup {NoDevice}
<1>1. Len(mounts) \in Nat /\ DOMAIN mounts = 1..Len(mounts) /\ \A k \in DOMAIN mounts : mounts[k] \in Entries
  <2> HIDE DEF Entries
  <2> QED
    OBVIOUS
<1>2. \A e \in Entries : e.by \in MountTasks /\ e.device \in Devices \cup {NoDevice}
  BY DEF Entries
<1> QED
  BY <1>1, <1>2

\* Tasks are positive and devices are not negative.
LEMMA MountFacts ==
    /\ MountTasks \subseteq Tasks /\ LoopTasks \subseteq MountTasks /\ LazyTasks \subseteq MountTasks
    /\ Free \notin MountTasks /\ Others \notin MountTasks /\ Free # Others
    /\ NoDevice \notin Devices /\ NoHandle \notin Devices /\ NoDevice # NoHandle
    /\ \A t \in MountTasks : IsPrefix(Point[t], Point[t])
<1>1. \A t \in MountTasks : IsPrefix(Point[t], Point[t])
  <2> TAKE t \in MountTasks
  <2>1. Len(Point[t]) \in Nat
    BY MountAssumption
  <2> QED
    BY <2>1 DEF IsPrefix
<1> QED
  BY <1>1, MountAssumption DEF Free, Others, NoDevice, NoHandle, Devices

\* What an umount of a task's path can reach: not below the task's own mount, and on
\* its path.
Reach(t) == Target(Point[t]) \cup UNION {Below(k) : k \in Target(Point[t])}

\* The paths that umount reaches overlap with the task's.
LEMMA ReachFacts ==
    ASSUME MountType, NEW t \in MountTasks, NEW k \in DOMAIN mounts, mounts[k].by = t, NEW j \in Reach(t)
    PROVE  j \in DOMAIN mounts /\ k <= j /\ Overlap(t, mounts[j].by)
<1>1. IsPrefix(Point[t], Point[t])
  BY MountFacts
<1>2. k \in Nat /\ \A i \in DOMAIN mounts : i \in Nat
  BY TableFacts DEF MountType
<1>3. ASSUME NEW i \in Target(Point[t])
      PROVE  i \in DOMAIN mounts /\ k <= i /\ Point[mounts[i].by] = Point[t]
  BY <1>1, <1>2 DEF Target, PointOf
<1>4. CASE j \in Target(Point[t])
  BY <1>1, <1>3, <1>4 DEF Overlap
<1>5. ASSUME NEW i \in Target(Point[t]), j \in Below(i)
      PROVE  j \in DOMAIN mounts /\ k <= j /\ Overlap(t, mounts[j].by)
  <2>1. j \in DOMAIN mounts /\ j > i /\ IsPrefix(Point[mounts[i].by], Point[mounts[j].by])
    BY <1>5 DEF Below, PointOf
  <2>2. k <= i /\ Point[mounts[i].by] = Point[t] /\ i \in Nat
    BY <1>2, <1>3
  <2>3. k <= j
    BY <1>2, <2>1, <2>2
  <2> QED
    BY <2>1, <2>2, <2>3 DEF Overlap
<1> QED
  BY <1>4, <1>5 DEF Reach

\* The mount of another handle is out of reach of the task that stops: if its path
\* overlaps it is of a task that the stopping one depends on, and lies below.
LEMMA OutOfReach ==
    ASSUME RunningInv, MountType, Held \subseteq running, Nested, NEW pos, Places(pos),
           NEW t \in Held, MayStop(t), NEW u \in Held \ {t}
    PROVE  pos[u] \notin Reach(t) /\ (Overlap(t, u) => pos[u] < pos[t])
<1>1. t \in MountTasks /\ u \in MountTasks /\ t \in Tasks /\ u \in running \ {t}
  BY MountFacts DEF Held
<1>2. t \notin Needed({u})
  BY <1>1, StopsFirst
<1>3. /\ pos[t] \in DOMAIN mounts /\ mounts[pos[t]].by = t
      /\ pos[u] \in DOMAIN mounts /\ mounts[pos[u]].by = u
      /\ u \in Needed({t}) => pos[u] < pos[t]
  BY DEF Places
<1>4. pos[t] \in Nat /\ pos[u] \in Nat
  BY <1>3, TableFacts DEF MountType
<1>5. Overlap(t, u) => pos[u] < pos[t]
  BY <1>1, <1>2, <1>3 DEF Nested, Comparable
<1>6. ASSUME pos[u] \in Reach(t)
      PROVE  FALSE
  <2>1. pos[t] <= pos[u] /\ Overlap(t, u)
    BY <1>1, <1>3, <1>6, ReachFacts
  <2> QED
    BY <1>4, <1>5, <2>1
<1> QED
  BY <1>5, <1>6

\* Removing mounts within reach of the task that stops keeps those of the other handles.
LEMMA RemoveKeepsPlaces ==
    ASSUME RunningInv, MountType, Held \subseteq running, Nested, NEW pos \in [MountTasks -> Nat], Places(pos),
           NEW t \in Held, MayStop(t), NEW K \in SUBSET Reach(t),
           mounts' = Without(K), handle' = [handle EXCEPT ![t] = NoHandle]
    PROVE  \E q \in [MountTasks -> Nat] : Places(q)'
<1> DEFINE kept == DOMAIN mounts \ K
<1>1. /\ mounts' \in Seq(Entries)
      /\ \A k \in kept : Rank(k, kept) \in DOMAIN mounts' /\ mounts'[Rank(k, kept)] = mounts[k]
      /\ \A j, k \in kept : j < k => Rank(j, kept) < Rank(k, kept)
  BY WithoutFacts DEF MountType
<1>2. \A k \in kept : Rank(k, kept) \in Nat
  <2>1. \A i \in DOMAIN mounts' : i \in Nat
    <3> HIDE DEF Entries
    <3> QED
      BY <1>1
  <2> QED
    BY <1>1, <2>1
<1>3. Held' = Held \ {t} /\ \A u \in Held \ {t} : u \in MountTasks /\ handle'[u] = handle[u]
  BY DEF Held, MountType
<1>4. \A u \in Held \ {t} : pos[u] \in kept /\ mounts[pos[u]].by = u /\ mounts[pos[u]].device = handle[u]
  BY OutOfReach DEF Places
<1> HIDE DEF kept
<1>5. PICK q : q \in [MountTasks -> Nat] /\ \A u \in Held \ {t} : q[u] = Rank(pos[u], kept)
  <2> DEFINE f == [u \in MountTasks |-> IF u \in Held \ {t} THEN Rank(pos[u], kept) ELSE 0]
  <2>1. f \in [MountTasks -> Nat] /\ \A u \in Held \ {t} : f[u] = Rank(pos[u], kept)
    BY <1>2, <1>3, <1>4
  <2> HIDE DEF f
  <2> QED
    BY <2>1
<1>6. \A u \in Held \ {t} : q[u] \in DOMAIN mounts' /\ mounts'[q[u]].by = u /\ mounts'[q[u]].device = handle'[u]
  BY <1>1, <1>3, <1>4, <1>5
<1>7. ASSUME NEW u \in Held \ {t}, NEW v \in Held \ {t}, u # v, u \in Needed({v})
      PROVE  q[u] < q[v]
  <2>1. pos[u] < pos[v]
    BY <1>7 DEF Places
  <2> QED
    BY <1>1, <1>4, <1>5, <2>1
<1>8. Places(q)'
  BY <1>3, <1>6, <1>7 DEF Places
<1> QED
  BY <1>5, <1>8

\* Detaching spares the devices that are mounted.
LEMMA DetachFacts ==
    ASSUME MountType, NEW clear \in SUBSET Devices, NEW table, NEW used, Detach(clear, table, used)
    PROVE  /\ loop' \in [Devices -> LoopTasks \cup {Free, Others}] /\ autoclear' \subseteq Devices
           /\ \A d \in Devices : MountedOn(table, d) => loop'[d] = loop[d]
           /\ \A d \in Devices : loop'[d] \in {loop[d], Free}
<1> DEFINE freed == {d \in clear : d \notin used /\ ~MountedOn(table, d)}
<1>1. loop' = [d \in Devices |-> IF d \in freed THEN Free ELSE loop[d]] /\ autoclear' = clear \ freed
  BY DEF Detach
<1>2. \A d \in Devices : MountedOn(table, d) => d \notin freed
  OBVIOUS
<1> HIDE DEF freed
<1> QED
  BY <1>1, <1>2 DEF MountType

\* The destructors, but for what they promise when nothing has been left behind.
LEMMA DestroyInd ==
    ASSUME RunningInv, MountInv, NEW t \in MountTasks, MayStop(t), handle[t] # NoHandle, running' = running \ {t},
           NEW K \in SUBSET Reach(t), mounts' = Without(K), handle' = [handle EXCEPT ![t] = NoHandle],
           NEW clear \in SUBSET Devices, NEW used, Detach(clear, mounts', used), pinned' \subseteq Devices,
           Nested /\ ~leftBehind' => Clean'
    PROVE  MountInv'
<1>1. MountType /\ Held \subseteq running /\ t \in Held
  BY DEF MountInv, Held
<1>2. mounts' \in Seq(Entries)
  BY <1>1, WithoutFacts DEF MountType
<1>3. handle' \in [MountTasks -> Devices \cup {NoDevice, NoHandle}]
  BY <1>1 DEF MountType
<1>4. Held' = Held \ {t} /\ \A u \in Held' : handle'[u] = handle[u]
  BY <1>1 DEF Held, MountType
<1>5. Held' \subseteq running'
  BY <1>1, <1>4
<1>6. MountType'
  BY <1>1, <1>2, <1>3, DetachFacts DEF MountType
<1>7. ASSUME Nested
      PROVE  (\E q \in [MountTasks -> Nat] : Places(q)') /\ OwnDevices'
  <2>1. PICK pos : pos \in [MountTasks -> Nat] /\ Places(pos)
    BY <1>7 DEF MountInv
  <2>2. PICK q : q \in [MountTasks -> Nat] /\ Places(q)'
    BY <1>1, <1>7, <2>1, RemoveKeepsPlaces
  <2>3. ASSUME NEW u \in Held', handle'[u] \in Devices
        PROVE  loop'[handle'[u]] = u
    <3>1. MountedOn(mounts', handle'[u])
      BY <2>2 DEF Places, MountedOn
    <3>2. loop[handle'[u]] = u
      BY <1>4, <1>7, <2>3 DEF MountInv, OwnDevices
    <3> QED
      BY <1>1, <2>3, <3>1, <3>2, DetachFacts
  <2> QED
    BY <2>2, <2>3 DEF OwnDevices
<1> QED
  BY <1>5, <1>6, <1>7 DEF MountInv

\* When nothing has been left behind umount finds the task's own mount and nothing on it.
LEMMA UnmountsOwn ==
    ASSUME RunningInv, MountType, Held \subseteq running, Nested, Clean, NEW pos, Places(pos),
           NEW t \in Held, MayStop(t)
    PROVE  Unmounts(t, FALSE) = {pos[t]}
<1>1. t \in MountTasks /\ pos[t] \in DOMAIN mounts /\ mounts[pos[t]].by = t /\ pos[t] \in Nat
  BY TableFacts DEF Held, Places, MountType
<1>2. ASSUME NEW j \in DOMAIN mounts, Overlap(t, mounts[j].by), pos[t] <= j
      PROVE  j = pos[t]
  <2> DEFINE u == mounts[j].by
  <2>1. u \in MountTasks /\ mounts[j].device \in Devices \cup {NoDevice} /\ j \in Nat
    BY TableFacts DEF MountType
  <2>2. handle[u] = mounts[j].device
    BY DEF Clean
  <2>3. u \in Held
    BY <2>1, <2>2, MountFacts DEF Held
  <2>4. pos[u] \in DOMAIN mounts /\ mounts[pos[u]].by = u
    BY <2>3 DEF Places
  <2>5. pos[u] = j
    BY <2>4 DEF Clean
  <2>6. CASE u = t
    BY <2>5, <2>6
  <2>7. CASE u # t
    <3>1. pos[u] < pos[t]
      BY <1>2, <2>3, <2>7, OutOfReach
    <3> QED
      BY <1>1, <1>2, <2>1, <2>5, <3>1
  <2> QED
    BY <2>6, <2>7
<1>3. \A j \in Reach(t) : j = pos[t]
  BY <1>1, <1>2, ReachFacts
<1>4. pos[t] \in Target(Point[t])
  <2>1. ASSUME NEW j \in DOMAIN mounts, j > pos[t], IsPrefix(PointOf(j), Point[t])
        PROVE  FALSE
    <3>1. j \in Nat /\ Overlap(t, mounts[j].by)
      BY <2>1, TableFacts DEF MountType, PointOf, Overlap
    <3> QED
      BY <1>1, <1>2, <2>1, <3>1
  <2> QED
    BY <1>1, <2>1 DEF Target, PointOf
<1>5. Target(Point[t]) = {pos[t]}
  BY <1>3, <1>4 DEF Reach
<1>6. Below(pos[t]) = {}
  <2>1. ASSUME NEW j \in Below(pos[t])
        PROVE  FALSE
    <3>1. j = pos[t]
      BY <1>3, <1>4 DEF Reach
    <3> QED
      BY <1>1, <3>1 DEF Below
  <2> QED
    BY <2>1
<1>7. UNION {Below(k) : k \in Target(Point[t])} = {}
  BY <1>5, <1>6
<1> QED
  BY <1>5, <1>7 DEF Unmounts

\* An unmount of a file system that nobody uses, from a clean state to a clean state.
LEMMA UnmountClean ==
    ASSUME RunningInv, MountInv, Nested, Clean, NEW t \in MountTasks, Unmount(t)
    PROVE  Clean'
<1>1. /\ MayStop(t) /\ handle[t] # NoHandle /\ handle' = [handle EXCEPT ![t] = NoHandle]
      /\ mounts' = Without(Unmounts(t, FALSE)) /\ pinned' = Pinned(t, FALSE) /\ ClearFd(t, mounts', pinned')
  BY DEF Unmount, DestroyHandle
<1>2. MountType /\ Held \subseteq running /\ t \in Held /\ OwnDevices
  BY <1>1 DEF MountInv, Held
<1>3. PICK pos : pos \in [MountTasks -> Nat] /\ Places(pos)
  BY DEF MountInv
<1>4. mounts' = Without({pos[t]})
  BY <1>1, <1>2, <1>3, UnmountsOwn
<1> DEFINE kept == DOMAIN mounts \ {pos[t]}
<1>5. /\ \A k \in kept : Rank(k, kept) \in DOMAIN mounts' /\ mounts'[Rank(k, kept)] = mounts[k]
      /\ \A i \in DOMAIN mounts' : \E k \in kept : i = Rank(k, kept)
  BY <1>2, <1>4, WithoutFacts DEF MountType
<1>6. \A k \in kept : k \in DOMAIN mounts /\ mounts[k].by # t /\ mounts[k].by \in MountTasks
  BY <1>2, <1>3, TableFacts DEF Clean, Places, MountType
<1> HIDE DEF kept
<1>7. \A u \in MountTasks \ {t} : handle'[u] = handle[u]
  BY <1>1, <1>2 DEF MountType
<1>8. \A i \in DOMAIN mounts' : handle'[mounts'[i].by] = mounts'[i].device
  <2> TAKE i \in DOMAIN mounts'
  <2>1. PICK k \in kept : i = Rank(k, kept)
    BY <1>5
  <2>2. mounts'[i] = mounts[k]
    BY <1>5, <2>1
  <2> QED
    BY <1>6, <1>7, <2>2 DEF Clean
<1>9. ASSUME NEW i \in DOMAIN mounts', NEW j \in DOMAIN mounts', mounts'[i].by = mounts'[j].by
      PROVE  i = j
  <2>1. PICK k \in kept : i = Rank(k, kept)
    BY <1>5
  <2>2. PICK l \in kept : j = Rank(l, kept)
    BY <1>5
  <2>3. mounts'[i] = mounts[k] /\ mounts'[j] = mounts[l]
    BY <1>5, <2>1, <2>2
  <2>4. k = l
    BY <1>6, <1>9, <2>3 DEF Clean
  <2> QED
    BY <2>1, <2>2, <2>4
<1>10. pinned' = {}
  BY <1>1 DEF Pinned, Clean
<1>11. ASSUME NEW d \in Devices, handle[t] = d
       PROVE  ~MountedOn(mounts', d)
  <2>1. SUFFICES ASSUME NEW i \in DOMAIN mounts', mounts'[i].device = d
                 PROVE  FALSE
    BY DEF MountedOn
  <2>2. PICK k \in kept : i = Rank(k, kept)
    BY <1>5
  <2>3. mounts[k].device = d
    BY <1>5, <2>1, <2>2
  <2> DEFINE u == mounts[k].by
  <2>4. u \in MountTasks /\ u # t /\ handle[u] = d
    BY <1>6, <2>3 DEF Clean
  <2>5. u \in Held
    BY <2>4, MountFacts DEF Held
  <2> QED
    BY <1>2, <1>11, <2>4, <2>5 DEF OwnDevices
<1> DEFINE mine == {handle[t]} \cap Devices
<1>12. /\ autoclear' = {}
       /\ \A d \in Devices : loop'[d] = IF d = handle[t] THEN Free ELSE loop[d]
  <2>1. ASSUME Detach(autoclear \cup mine, mounts', pinned')
        PROVE  /\ autoclear' = {}
               /\ \A d \in Devices : loop'[d] = IF d = handle[t] THEN Free ELSE loop[d]
    <3> DEFINE freed == {d \in mine : d \notin pinned' /\ ~MountedOn(mounts', d)}
    <3>1. autoclear \cup mine = mine
      BY DEF Clean
    <3>2. freed = mine
      BY <1>10, <1>11
    <3>3. loop' = [d \in Devices |-> IF d \in freed THEN Free ELSE loop[d]] /\ autoclear' = mine \ freed
      BY <2>1, <3>1 DEF Detach
    <3> QED
      BY <3>2, <3>3
  <2>2. ASSUME handle[t] \in pinned' \/ MountedOn(mounts', handle[t]), Detach(autoclear, mounts', pinned')
        PROVE  /\ autoclear' = {}
               /\ \A d \in Devices : loop'[d] = IF d = handle[t] THEN Free ELSE loop[d]
    <3>1. handle[t] \notin Devices
      BY <1>10, <1>11, <2>2
    <3>2. autoclear = {}
      BY DEF Clean
    <3>3. loop' = [d \in Devices |-> loop[d]] /\ autoclear' = {}
      BY <2>2, <3>2 DEF Detach
    <3> QED
      BY <3>1, <3>3
  <2> QED
    BY <1>1, <2>1, <2>2 DEF ClearFd
<1>13. ASSUME NEW d \in Devices, loop'[d] \in LoopTasks
       PROVE  handle'[loop'[d]] = d
  <2>1. d # handle[t] /\ loop'[d] = loop[d]
    BY <1>12, <1>13, MountFacts
  <2>2. handle[loop[d]] = d
    BY <1>13, <2>1 DEF Clean
  <2>3. loop[d] \in MountTasks \ {t}
    BY <1>13, <2>1, <2>2, MountFacts
  <2> QED
    BY <1>7, <2>1, <2>2, <2>3
<1> QED
  BY <1>8, <1>9, <1>10, <1>12, <1>13 DEF Clean

\* A task mounts, a free device or none: its mount goes on top.
LEMMA MountInd ==
    ASSUME RunningInv, MountInv, NEW t \in MountTasks, MayStart(t), NEW d \in Devices \cup {NoDevice},
           mounts' = Mounted(t, d), handle' = [handle EXCEPT ![t] = d], running' = running \cup {t},
           pinned' = pinned, autoclear' = autoclear, leftBehind' = leftBehind,
           IF d = NoDevice THEN loop' = loop
           ELSE t \in LoopTasks /\ loop[d] = Free /\ loop' = [loop EXCEPT ![d] = t]
    PROVE  MountInv'
<1> DEFINE e == [by |-> t, device |-> d]
           n == Len(mounts) + 1
<1>1. MountType /\ Held \subseteq running /\ t \in Tasks /\ t \notin running
  BY MountFacts DEF MountInv, MayStart
<1>2. handle[t] = NoHandle
  BY <1>1 DEF Held
<1>3. e \in Entries /\ e.by = t /\ e.device = d
  BY DEF Entries
<1>4. mounts' = Append(mounts, e)
  BY DEF Mounted
<1> HIDE DEF e
<1>5. /\ mounts' \in Seq(Entries) /\ DOMAIN mounts' = DOMAIN mounts \cup {n} /\ n \notin DOMAIN mounts
      /\ n \in Nat /\ \A k \in DOMAIN mounts : k \in Nat /\ k < n
      /\ mounts'[n] = e /\ \A k \in DOMAIN mounts : mounts'[k] = mounts[k]
  <2> HIDE DEF Entries
  <2>1. mounts \in Seq(Entries)
    BY <1>1 DEF MountType
  <2>2. Len(mounts) \in Nat /\ DOMAIN mounts = 1..Len(mounts)
    BY <2>1
  <2>3. /\ mounts' \in Seq(Entries) /\ Len(mounts') = n /\ DOMAIN mounts' = 1..n /\ mounts'[n] = e
        /\ \A k \in 1..Len(mounts) : mounts'[k] = mounts[k]
    BY <1>3, <1>4, <2>1, <2>2
  <2> QED
    BY <2>2, <2>3
<1> HIDE DEF n
<1>6. /\ handle' \in [MountTasks -> Devices \cup {NoDevice, NoHandle}]
      /\ handle'[t] = d /\ \A u \in MountTasks \ {t} : handle'[u] = handle[u]
  BY <1>1 DEF MountType
<1>7. Held' = Held \cup {t} /\ t \notin Held
  BY <1>2, <1>6, MountFacts DEF Held
<1>8. /\ loop' \in [Devices -> LoopTasks \cup {Free, Others}]
      /\ \A c \in Devices : loop'[c] = IF c = d THEN t ELSE loop[c]
      /\ d \in Devices => loop[d] = Free
  BY <1>1, MountFacts DEF MountType
<1>9. MountType'
  BY <1>1, <1>5, <1>6, <1>8 DEF MountType
<1>10. Held' \subseteq running'
  BY <1>1, <1>7
<1>11. ASSUME Nested
       PROVE  \E q \in [MountTasks -> Nat] : Places(q)'
  <2>1. PICK pos : pos \in [MountTasks -> Nat] /\ Places(pos)
    BY <1>11 DEF MountInv
  <2>2. PICK q : q \in [MountTasks -> Nat] /\ q[t] = n /\ \A u \in MountTasks \ {t} : q[u] = pos[u]
    <3>1. [pos EXCEPT ![t] = n] \in [MountTasks -> Nat]
      BY <1>5, <2>1
    <3> QED
      BY <2>1, <3>1
  <2>3. \A u \in Held : pos[u] \in DOMAIN mounts /\ mounts[pos[u]].by = u /\ mounts[pos[u]].device = handle[u]
    BY <2>1 DEF Places
  <2>4. \A u \in Held : u \in MountTasks \ {t}
    BY <1>7 DEF Held
  <2>5. \A u \in Held' : q[u] \in DOMAIN mounts' /\ mounts'[q[u]].by = u /\ mounts'[q[u]].device = handle'[u]
    <3> TAKE u \in Held'
    <3>1. CASE u = t
      BY <1>3, <1>5, <1>6, <2>2, <3>1
    <3>2. CASE u \in Held
      BY <1>5, <1>6, <2>2, <2>3, <2>4, <3>2
    <3> QED
      BY <1>7, <3>1, <3>2
  <2>6. ASSUME NEW u \in Held', NEW v \in Held', u # v, u \in Needed({v})
        PROVE  q[u] < q[v]
    <3>1. CASE u = t
      <4>1. v \in running
        BY <1>1, <1>7, <2>6, <3>1
      <4> QED
        BY <1>1, <2>6, <3>1, <4>1, StartsLast
    <3>2. CASE u \in Held /\ v = t
      BY <1>5, <2>2, <2>3, <2>4, <3>2
    <3>3. CASE u \in Held /\ v \in Held
      <4>1. pos[u] < pos[v]
        BY <2>1, <2>6, <3>3 DEF Places
      <4> QED
        BY <2>2, <2>4, <3>3, <4>1
    <3> QED
      BY <1>7, <3>1, <3>2, <3>3
  <2>7. Places(q)'
    BY <2>5, <2>6 DEF Places
  <2> QED
    BY <2>2, <2>7
<1>12. ASSUME Nested
       PROVE  OwnDevices'
  <2>1. ASSUME NEW u \in Held', handle'[u] \in Devices
        PROVE  loop'[handle'[u]] = u
    <3>1. CASE u = t
      BY <1>6, <1>8, <2>1, <3>1
    <3>2. CASE u \in Held
      <4>1. handle'[u] = handle[u] /\ u \in MountTasks
        BY <1>6, <1>7, <3>2 DEF Held
      <4>2. loop[handle[u]] = u
        BY <1>12, <2>1, <3>2, <4>1 DEF MountInv, OwnDevices
      <4>3. handle[u] # d
        BY <1>8, <2>1, <4>1, <4>2, MountFacts
      <4> QED
        BY <1>8, <2>1, <4>1, <4>2, <4>3
    <3> QED
      BY <1>7, <3>1, <3>2
  <2> QED
    BY <2>1 DEF OwnDevices
<1>13. ASSUME Nested, ~leftBehind
       PROVE  Clean'
  <2>1. Clean
    BY <1>13 DEF MountInv
  <2>2. \A k \in DOMAIN mounts : mounts[k].by \in MountTasks \ {t} /\ handle[mounts[k].by] = mounts[k].device
    <3> TAKE k \in DOMAIN mounts
    <3>1. mounts[k].by \in MountTasks /\ mounts[k].device \in Devices \cup {NoDevice}
      BY <1>1, TableFacts DEF MountType
    <3> QED
      BY <1>2, <2>1, <3>1, MountFacts DEF Clean
  <2>3. \A k \in DOMAIN mounts' : handle'[mounts'[k].by] = mounts'[k].device
    BY <1>3, <1>5, <1>6, <2>2
  <2>4. \A j, k \in DOMAIN mounts' : mounts'[j].by = mounts'[k].by => j = k
    BY <1>3, <1>5, <2>1, <2>2 DEF Clean
  <2>5. ASSUME NEW c \in Devices, loop'[c] \in LoopTasks
        PROVE  handle'[loop'[c]] = c
    <3>1. CASE c = d
      BY <1>6, <1>8, <3>1
    <3>2. CASE c # d
      <4>1. loop'[c] = loop[c] /\ handle[loop[c]] = c
        BY <1>8, <2>1, <2>5, <3>2 DEF Clean
      <4> QED
        BY <1>2, <1>6, <2>5, <4>1, MountFacts
    <3> QED
      BY <3>1, <3>2
  <2> QED
    BY <2>1, <2>3, <2>4, <2>5 DEF Clean
<1> QED
  BY <1>9, <1>10, <1>11, <1>12, <1>13 DEF MountInv

\* The table of mounts and the handles stay, and no handle loses its device.
LEMMA DevicesInd ==
    ASSUME MountInv, mounts' = mounts, handle' = handle, Held \subseteq running',
           loop' \in [Devices -> LoopTasks \cup {Free, Others}], pinned' \subseteq Devices, autoclear' \subseteq Devices,
           Nested => \A t \in Held : handle[t] \in Devices => loop'[handle[t]] = loop[handle[t]],
           Nested /\ ~leftBehind' => Clean'
    PROVE  MountInv'
<1>1. MountType' /\ Held' = Held
  BY DEF MountInv, MountType, Held
<1>2. \A pos : Places(pos) => Places(pos)'
  BY <1>1 DEF Places
<1>3. ASSUME Nested
      PROVE  (\E pos \in [MountTasks -> Nat] : Places(pos)') /\ OwnDevices'
  <2>1. (\E pos \in [MountTasks -> Nat] : Places(pos)) /\ OwnDevices
    BY <1>3 DEF MountInv
  <2>2. OwnDevices'
    BY <1>1, <1>3, <2>1 DEF OwnDevices
  <2> QED
    BY <1>2, <2>1, <2>2
<1> QED
  BY <1>1, <1>3 DEF MountInv

\* Nothing of mounts and devices changes.
LEMMA SameMounts ==
    ASSUME MountInv, UNCHANGED <<mounts, loop, pinned, autoclear, handle>>, leftBehind => leftBehind',
           Held \subseteq running'
    PROVE  MountInv'
<1>1. MountType
  BY DEF MountInv
<1>2. loop' = loop /\ pinned' = pinned /\ autoclear' = autoclear /\ mounts' = mounts /\ handle' = handle
  OBVIOUS
<1>3. Clean => Clean'
  BY <1>2 DEF Clean
<1>4. Nested /\ ~leftBehind' => Clean'
  BY <1>2, <1>3 DEF MountInv
<1> QED
  BY <1>1, <1>2, <1>4, DevicesInd DEF MountType

\* The device of a handle is attached to the file of its task.
LEMMA HeldDevice ==
    ASSUME MountInv, Nested, NEW t \in Held, handle[t] \in Devices
    PROVE  loop[handle[t]] \in MountTasks
  BY DEF MountInv, OwnDevices, Held

\* What the destructors unmount is within their reach.
LEMMA UnmountsInReach ==
    ASSUME NEW t \in MountTasks, NEW used
    PROVE  Unmounts(t, used) \in SUBSET Reach(t)
  BY DEF Unmounts, Reach

\* The destructors.
LEMMA StopInd ==
    ASSUME RunningInv, MountInv, NEW t \in MountTasks, Unmount(t) \/ UnmountInUse(t) \/ DetachFails(t)
    PROVE  MountInv'
<1>1. MountType
  BY DEF MountInv
<1>2. \A used : Unmounts(t, used) \in SUBSET Reach(t)
  BY UnmountsInReach
<1> DEFINE mine == autoclear \cup ({handle[t]} \cap Devices)
<1>3. mine \in SUBSET Devices /\ autoclear \in SUBSET Devices /\ pinned \subseteq Devices
  BY <1>1 DEF MountType
<1>4. ASSUME NEW used, DestroyHandle(t, used)
      PROVE  /\ mounts' = Without(Unmounts(t, used)) /\ handle' = [handle EXCEPT ![t] = NoHandle]
             /\ pinned' \subseteq Devices
             /\ \E clear \in SUBSET Devices : Detach(clear, mounts', pinned')
  BY <1>3, <1>4 DEF DestroyHandle, Pinned, ClearFd
<1>5. CASE Unmount(t)
  <2>1. DestroyHandle(t, FALSE) /\ MayStop(t) /\ handle[t] # NoHandle /\ running' = running \ {t} /\ leftBehind' = leftBehind
    BY <1>5 DEF Unmount
  <2>2. Nested /\ ~leftBehind' => Clean'
    BY <1>5, <2>1, UnmountClean DEF MountInv
  <2>3. PICK clear \in SUBSET Devices : Detach(clear, mounts', pinned')
    BY <1>4, <2>1
  <2> QED
    BY <1>2, <1>4, <2>1, <2>2, <2>3, DestroyInd
<1>6. CASE UnmountInUse(t)
  <2>1. DestroyHandle(t, TRUE) /\ MayStop(t) /\ handle[t] # NoHandle /\ running' = running \ {t} /\ leftBehind'
    BY <1>6 DEF UnmountInUse
  <2>2. PICK clear \in SUBSET Devices : Detach(clear, mounts', pinned')
    BY <1>4, <2>1
  <2> QED
    BY <1>2, <1>4, <2>1, <2>2, DestroyInd
<1>7. CASE DetachFails(t)
  <2>1. /\ MayStop(t) /\ handle[t] # NoHandle /\ running' = running \ {t} /\ leftBehind' /\ pinned' = pinned
        /\ mounts' = Without(Unmounts(t, FALSE)) /\ handle' = [handle EXCEPT ![t] = NoHandle]
        /\ Detach(autoclear, mounts', pinned)
    BY <1>7, MountFacts DEF DetachFails
  <2> QED
    BY <1>2, <1>3, <2>1, DestroyInd
<1> QED
  BY <1>5, <1>6, <1>7

\* A loop mount whose mount throws gives its device back, or says that it could not.
LEMMA AttachMountFailsInd ==
    ASSUME RunningInv, MountInv, AttachMountFails
    PROVE  MountInv'
<1>1. ~Idle /\ walk[2] \in Devices /\ loop[walk[2]] = Free
  BY DEF AttachMountFails
<1>2. PICK t \in LoopTasks, i \in 0..LoopCount : walk = <<t, i>>
  BY <1>1 DEF RunningInv
<1>3. walk[1] = t /\ walk[2] = i /\ i \in Devices
  BY <1>1, <1>2
<1>4. PICK cleared \in BOOLEAN :
        /\ loop' = IF cleared THEN loop ELSE [loop EXCEPT ![i] = t]
        /\ leftBehind' = (leftBehind \/ ~cleared)
  BY <1>3 DEF AttachMountFails
<1>5. mounts' = mounts /\ pinned' = pinned /\ autoclear' = autoclear /\ handle' = handle /\ running \subseteq running'
  BY DEF AttachMountFails
<1>6. MountType /\ Held \subseteq running
  BY DEF MountInv
<1>7. CASE cleared
  <2>1. loop' = loop /\ (leftBehind => leftBehind')
    BY <1>4, <1>7
  <2> QED
    BY <1>5, <1>6, <2>1, SameMounts
<1>8. CASE ~cleared
  <2>1. loop' = [loop EXCEPT ![i] = t] /\ leftBehind'
    BY <1>4, <1>8
  <2>2. loop' \in [Devices -> LoopTasks \cup {Free, Others}]
    BY <1>3, <1>6, <2>1 DEF MountType
  <2>3. Nested => \A u \in Held : handle[u] \in Devices => loop'[handle[u]] = loop[handle[u]]
    BY <1>1, <1>3, <1>6, <2>1, HeldDevice, MountFacts DEF MountType
  <2> QED
    BY <1>5, <1>6, <2>1, <2>2, <2>3, DevicesInd DEF MountType
<1> QED
  BY <1>7, <1>8

\* Other processes take and leave devices that no handle has.
LEMMA OthersInd ==
    ASSUME MountInv, NEW d \in Devices, OthersAttach(d) \/ OthersDetach(d)
    PROVE  MountInv'
<1>1. /\ mounts' = mounts /\ pinned' = pinned /\ autoclear' = autoclear /\ handle' = handle
      /\ running' = running /\ leftBehind' = leftBehind
      /\ loop[d] \in {Free, Others}
      /\ loop' = [loop EXCEPT ![d] = Free] \/ loop' = [loop EXCEPT ![d] = Others]
  BY DEF OthersAttach, OthersDetach
<1>2. MountType /\ Held \subseteq running
  BY DEF MountInv
<1>3. /\ loop' \in [Devices -> LoopTasks \cup {Free, Others}]
      /\ loop'[d] \in {Free, Others} /\ \A c \in Devices \ {d} : loop'[c] = loop[c]
  BY <1>1, <1>2 DEF MountType
<1>4. Nested => \A u \in Held : handle[u] \in Devices => loop'[handle[u]] = loop[handle[u]]
  BY <1>1, <1>3, HeldDevice, MountFacts
<1>5. Clean => Clean'
  <2>1. SUFFICES ASSUME Clean
                 PROVE  \A c \in Devices : loop'[c] \in LoopTasks => handle'[loop'[c]] = c
    BY <1>1 DEF Clean
  <2> TAKE c \in Devices
  <2> QED
    BY <1>1, <1>3, <2>1, MountFacts DEF Clean
<1>6. Nested /\ ~leftBehind' => Clean'
  BY <1>1, <1>5 DEF MountInv
<1> QED
  BY <1>1, <1>2, <1>3, <1>4, <1>6, DevicesInd DEF MountType

\* The last user of a file system that was unmounted lazily leaves: the kernel spares
\* the devices that are mounted.
LEMMA LastUserInd ==
    ASSUME MountInv, NEW d \in Devices, LastUserLeaves(d)
    PROVE  MountInv'
<1>1. /\ mounts' = mounts /\ handle' = handle /\ running' = running /\ leftBehind' = leftBehind
      /\ d \in pinned /\ pinned' = pinned \ {d} /\ Detach(autoclear, mounts, pinned')
  BY DEF LastUserLeaves
<1>2. MountType /\ Held \subseteq running
  BY DEF MountInv
<1>3. /\ loop' \in [Devices -> LoopTasks \cup {Free, Others}] /\ autoclear' \subseteq Devices
      /\ \A c \in Devices : MountedOn(mounts, c) => loop'[c] = loop[c]
  BY <1>1, <1>2, DetachFacts DEF MountType
<1>4. Nested => \A u \in Held : handle[u] \in Devices => loop'[handle[u]] = loop[handle[u]]
  <2>1. SUFFICES ASSUME Nested, NEW u \in Held, handle[u] \in Devices
                 PROVE  MountedOn(mounts, handle[u])
    BY <1>3
  <2>2. PICK pos : pos \in [MountTasks -> Nat] /\ Places(pos)
    BY <2>1 DEF MountInv
  <2> QED
    BY <2>2 DEF Places, MountedOn
<1>5. Nested /\ ~leftBehind' => Clean'
  BY <1>1 DEF MountInv, Clean
<1> QED
  BY <1>1, <1>2, <1>3, <1>4, <1>5, DevicesInd DEF MountType

\* The steps of mount tasks and of other processes.
LEMMA MountStep ==
    ASSUME RunningInv, MountInv, MountNext
    PROVE  RunningInv' /\ MountInv' /\ running' \cap HostnameTasks = running \cap HostnameTasks
<1>1. Held \subseteq running /\ MountType
  BY DEF MountInv
<1>2. \A t \in MountTasks : t \in Tasks /\ t \notin HostnameTasks
  BY MountFacts, KindsAssumption
<1>3. ASSUME NEW t \in MountTasks, Mount(t)
      PROVE  RunningInv' /\ MountInv' /\ running' \cap HostnameTasks = running \cap HostnameTasks
  <2>1. /\ MayStart(t) /\ running' = running \cup {t} /\ walk' = NoWalk
        /\ mounts' = Mounted(t, NoDevice) /\ handle' = [handle EXCEPT ![t] = NoDevice]
        /\ loop' = loop /\ pinned' = pinned /\ autoclear' = autoclear /\ leftBehind' = leftBehind
    BY <1>3 DEF Mount, Idle
  <2>2. MountInv'
    BY <2>1, MountInd
  <2> QED
    BY <1>2, <2>1, <2>2, StartCloses
<1>4. ASSUME NEW t \in MountTasks, CreateFails(t)
      PROVE  RunningInv' /\ MountInv' /\ running' \cap HostnameTasks = running \cap HostnameTasks
  <2>1. MayStart(t) /\ running' = running \cup {t} /\ walk' = NoWalk
    BY <1>4 DEF CreateFails, Idle, mountVars
  <2>2. MountInv'
    BY <1>1, <1>4, <2>1, SameMounts DEF CreateFails, mountVars
  <2> QED
    BY <1>2, <2>1, <2>2, StartCloses
<1>5. ASSUME NEW t \in MountTasks, OpenFile(t)
      PROVE  RunningInv' /\ MountInv' /\ running' \cap HostnameTasks = running \cap HostnameTasks
  <2>1. MayStart(t) /\ t \in LoopTasks /\ running' = running /\ walk' = <<t, 0>>
    BY <1>5 DEF OpenFile
  <2>2. MountInv'
    BY <1>1, <1>5, SameMounts DEF OpenFile
  <2>3. 0 \in 0..LoopCount
    BY MountAssumption
  <2>4. RunningInv'
    BY <2>1, <2>3 DEF RunningInv, Closed, MayStart
  <2> QED
    BY <2>1, <2>2, <2>4
<1>6. ASSUME NEW t \in LoopTasks, NEW i \in 0..LoopCount, walk = <<t, i>>, MayStart(t),
             TryNext \/ Attach \/ AttachMountFails \/ AttachFails
      PROVE  RunningInv' /\ MountInv' /\ running' \cap HostnameTasks = running \cap HostnameTasks
  <2>1. walk[1] = t /\ walk[2] = i /\ t \in MountTasks
    BY <1>6, MountFacts
  <2>2. CASE TryNext
    <3>1. running' = running /\ walk' = <<t, i + 1>> /\ i \in Devices
      BY <2>1, <2>2 DEF TryNext
    <3>2. MountInv'
      BY <1>1, <2>2, SameMounts DEF TryNext
    <3>3. i + 1 \in 0..LoopCount
      BY <3>1, MountAssumption DEF Devices
    <3>4. RunningInv'
      BY <1>6, <3>1, <3>3 DEF RunningInv, Closed, MayStart
    <3> QED
      BY <3>1, <3>2, <3>4
  <2>3. CASE Attach
    <3>1. /\ i \in Devices /\ loop[i] = Free /\ loop' = [loop EXCEPT ![i] = t]
          /\ mounts' = Mounted(t, i) /\ handle' = [handle EXCEPT ![t] = i] /\ running' = running \cup {t}
          /\ walk' = NoWalk /\ pinned' = pinned /\ autoclear' = autoclear /\ leftBehind' = leftBehind
      BY <2>1, <2>3 DEF Attach
    <3>2. i # NoDevice
      BY <3>1, MountFacts
    <3>3. MountInv'
      BY <1>6, <2>1, <3>1, <3>2, MountInd
    <3> QED
      BY <1>2, <1>6, <2>1, <3>1, <3>3, StartCloses
  <2>4. CASE AttachMountFails
    <3>1. running' = running \cup {t} /\ walk' = NoWalk
      BY <2>1, <2>4 DEF AttachMountFails
    <3> QED
      BY <1>2, <1>6, <2>1, <2>4, <3>1, StartCloses, AttachMountFailsInd
  <2>5. CASE AttachFails
    <3>1. running' = running \cup {t} /\ walk' = NoWalk
      BY <2>1, <2>5 DEF AttachFails
    <3>2. MountInv'
      BY <1>1, <2>5, <3>1, SameMounts DEF AttachFails
    <3> QED
      BY <1>2, <1>6, <2>1, <3>1, <3>2, StartCloses
  <2> QED
    BY <1>6, <2>2, <2>3, <2>4, <2>5
<1>7. ASSUME NEW t \in MountTasks, Unmount(t) \/ UnmountInUse(t) \/ DetachFails(t)
      PROVE  RunningInv' /\ MountInv' /\ running' \cap HostnameTasks = running \cap HostnameTasks
  <2>1. MayStop(t) /\ running' = running \ {t} /\ walk' = NoWalk
    BY <1>7 DEF Unmount, UnmountInUse, DetachFails, Idle
  <2> QED
    BY <1>2, <1>7, <2>1, StopCloses, StopInd
<1>8. ASSUME NEW t \in MountTasks, StopWithoutHandle(t)
      PROVE  RunningInv' /\ MountInv' /\ running' \cap HostnameTasks = running \cap HostnameTasks
  <2>1. MayStop(t) /\ running' = running \ {t} /\ walk' = NoWalk /\ t \notin Held
    BY <1>8 DEF StopWithoutHandle, Idle, mountVars, Held
  <2>2. MountInv'
    BY <1>1, <1>8, <2>1, SameMounts DEF StopWithoutHandle, mountVars
  <2> QED
    BY <1>2, <2>1, <2>2, StopCloses
<1>9. ASSUME NEW d \in Devices, OthersAttach(d) \/ OthersDetach(d) \/ LastUserLeaves(d)
      PROVE  RunningInv' /\ MountInv' /\ running' \cap HostnameTasks = running \cap HostnameTasks
  <2>1. running' = running /\ walk' = walk
    BY <1>9 DEF OthersAttach, OthersDetach, LastUserLeaves
  <2>2. RunningInv'
    BY <2>1 DEF RunningInv, Closed, MayStart, Idle
  <2> QED
    BY <1>9, <2>1, <2>2, OthersInd, LastUserInd
<1>10. TryNext \/ Attach \/ AttachMountFails \/ AttachFails =>
         \E t \in LoopTasks, i \in 0..LoopCount : walk = <<t, i>> /\ MayStart(t)
  BY DEF TryNext, Attach, AttachMountFails, AttachFails, RunningInv
<1> QED
  BY <1>3, <1>4, <1>5, <1>6, <1>7, <1>8, <1>9, <1>10 DEF MountNext

-----------------------------------------------------------------------------
(* Synchronous tasks in one graph *)

SyncInv == RunningInv /\ HostnameInv /\ MountInv

\* The names stay and so do the hostname tasks that run.
LEMMA SameNames ==
    ASSUME HostnameInv, UNCHANGED hostnameVars, running' \cap HostnameTasks = running \cap HostnameTasks
    PROVE  HostnameInv'
<1>1. hostname' = hostname /\ oldHname' = oldHname /\ unrestored' = unrestored
  BY DEF hostnameVars
<1>2. Restoring' = Restoring
  BY <1>1 DEF Restoring
<1>3. \A t \in HostnameTasks : t \in running => t \in running'
  OBVIOUS
<1> QED
  BY <1>1, <1>2, <1>3 DEF HostnameInv

\* For every graph of dependencies, with any number of hostname tasks, mounts and loop
\* devices: the running tasks are closed under dependencies (also while a constructor
\* walks over the devices); every saved host name belongs to a task that stops later;
\* every handle's mount lies above those of the tasks it depends on.  None of the three
\* properties below is inductive without the last two, which say what the destructors
\* will find.
THEOREM SyncInductive == Spec => []SyncInv
<1>1. Init => SyncInv
  <2> SUFFICES ASSUME Init
               PROVE  SyncInv
    OBVIOUS
  <2> USE DEF Init, HostnameInit, MountInit
  <2>1. RunningInv
    BY DEF RunningInv, Closed, Idle
  <2>2. HostnameInv
    BY HostnameFacts DEF HostnameInv
  <2>3. MountType
    BY DEF MountType
  <2>4. Held = {}
    BY DEF Held
  <2>5. DOMAIN mounts = {}
    OBVIOUS
  <2>6. Clean
    BY <2>5, MountFacts DEF Clean
  <2>7. OwnDevices
    BY <2>4 DEF OwnDevices
  <2>8. Places([t \in MountTasks |-> 0])
    BY <2>4 DEF Places
  <2>9. MountInv
    BY <2>3, <2>4, <2>6, <2>7, <2>8 DEF MountInv
  <2> QED
    BY <2>1, <2>2, <2>9 DEF SyncInv
<1>2. SyncInv /\ [Next]_vars => SyncInv'
  <2> SUFFICES ASSUME SyncInv, [Next]_vars
               PROVE  SyncInv'
    OBVIOUS
  <2>1. RunningInv /\ HostnameInv /\ MountInv
    BY DEF SyncInv
  <2>2. CASE Idle /\ HostnameNext /\ UNCHANGED mountVars
    <3>1. RunningInv' /\ HostnameInv' /\ running \cap MountTasks = running' \cap MountTasks
      BY <2>1, <2>2, HostnameStep
    <3>2. Held \subseteq running'
      BY <2>1, <3>1 DEF MountInv, Held
    <3>3. MountInv'
      BY <2>1, <2>2, <3>2, SameMounts DEF mountVars
    <3> QED
      BY <3>1, <3>3 DEF SyncInv
  <2>3. CASE MountNext /\ UNCHANGED hostnameVars
    BY <2>1, <2>3, MountStep, SameNames DEF SyncInv
  <2>4. CASE UNCHANGED vars
    <3>1. running' = running /\ UNCHANGED hostnameVars /\ UNCHANGED mountVars
      BY <2>4 DEF vars
    <3>2. RunningInv'
      BY <2>1, <3>1 DEF RunningInv, Closed, MayStart, Idle, mountVars
    <3>3. MountInv'
      BY <2>1, <3>1, SameMounts DEF mountVars, MountInv
    <3> QED
      BY <2>1, <3>1, <3>2, <3>3, SameNames DEF SyncInv
  <2> QED
    BY <2>2, <2>3, <2>4 DEF Next
<1> QED
  BY <1>1, <1>2, PTL DEF Spec

\* hostname_task_handle puts back what it found, and the last handle the original name:
\* in a chain of hostname tasks no name outlives its task.
THEOREM NamesCorrect == Spec => []NameOutlivedByTask
<1>1. SyncInv => NameOutlivedByTask
  BY DEF SyncInv, HostnameInv, NameOutlivedByTask, Restoring
<1> QED
  BY <1>1, SyncInductive, PTL

\* mount_task_handle and loop_mount_task_handle: a handle's file system stays mounted, on
\* a device attached to its own file, whatever other handles undo and whatever fails.
THEOREM HandlesCorrect == Spec => []HandleStaysMounted
<1>1. SyncInv => HandleStaysMounted
  <2> SUFFICES ASSUME SyncInv, Nested, NEW t \in MountTasks, handle[t] # NoHandle
               PROVE  /\ \E k \in DOMAIN mounts : mounts[k] = [by |-> t, device |-> handle[t]]
                      /\ handle[t] \in Devices => loop[handle[t]] = t
    BY DEF HandleStaysMounted
  <2>1. MountInv /\ MountType /\ t \in Held
    BY DEF SyncInv, MountInv, Held
  <2>2. PICK pos : pos \in [MountTasks -> Nat] /\ Places(pos)
    BY <2>1 DEF MountInv
  <2>3. pos[t] \in DOMAIN mounts /\ mounts[pos[t]].by = t /\ mounts[pos[t]].device = handle[t]
    BY <2>1, <2>2 DEF Places
  <2>4. mounts[pos[t]] \in Entries
    BY <2>1, <2>3, TableFacts DEF MountType
  <2>5. mounts[pos[t]] = [by |-> t, device |-> handle[t]]
    BY <2>3, <2>4 DEF Entries
  <2> QED
    BY <2>1, <2>3, <2>5 DEF MountInv, OwnDevices
<1> QED
  BY <1>1, SyncInductive, PTL

\* The guards of mounts and loop devices leave nothing behind unless a call fails in a
\* destructor or a file system is in use.
THEOREM GuardsCorrect == Spec => []NothingLeftBehind
<1>1. SyncInv => NothingLeftBehind
  <2> SUFFICES ASSUME SyncInv, Nested, ~leftBehind
               PROVE  /\ \A k \in DOMAIN mounts : handle[mounts[k].by] = mounts[k].device
                      /\ \A t \in MountTasks : handle[t] # NoHandle =>
                            Cardinality({k \in DOMAIN mounts : mounts[k].by = t}) = 1
                      /\ \A d \in Devices : loop[d] \in LoopTasks => handle[loop[d]] = d
    BY DEF NothingLeftBehind
  <2>1. MountInv /\ Clean
    BY DEF SyncInv, MountInv
  <2>2. PICK pos : pos \in [MountTasks -> Nat] /\ Places(pos)
    BY <2>1 DEF MountInv
  <2>3. ASSUME NEW t \in MountTasks, handle[t] # NoHandle
        PROVE  Cardinality({k \in DOMAIN mounts : mounts[k].by = t}) = 1
    <3>1. pos[t] \in DOMAIN mounts /\ mounts[pos[t]].by = t
      BY <2>2, <2>3 DEF Places, Held
    <3>2. {k \in DOMAIN mounts : mounts[k].by = t} = {pos[t]}
      BY <2>1, <3>1 DEF Clean
    <3> QED
      BY <3>2, FS_Singleton
  <2> QED
    BY <2>1, <2>3 DEF Clean
<1> QED
  BY <1>1, SyncInductive, PTL
=============================================================================
