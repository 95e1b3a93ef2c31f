----------------------------- MODULE InitdProofs -----------------------------
(* Initd for every graph, every kind of tasks and every bound: the counters are right,
   it implements Supervision and leaves wanted tasks alone.  And it forgets nobody: every
   child that exits, every flag that lags behind its handle and every task that may go on
   is followed by a callback, as long as no fork fails. *)
EXTENDS Initd, FiniteSetTheorems, TLAPS

-----------------------------------------------------------------------------
(* Counting *)

\* The counters are over finite vectors.
LEMMA FiniteEdges ==
    ASSUME NEW t \in Tasks
    PROVE  /\ IsFiniteSet(Tasks)
           /\ IsFiniteSet(DOMAIN Deps[t])
           /\ IsFiniteSet(DependantEdges(t))
<1>1. IsFiniteSet(Tasks)
  BY NAssumption, FS_Interval DEF Tasks
<1>2. \A u \in Tasks : DOMAIN Deps[u] = 1..Len(Deps[u]) /\ Len(Deps[u]) \in Nat
  BY DepsAssumption
<1>3. \A u \in Tasks : IsFiniteSet(DOMAIN Deps[u])
  BY <1>2, FS_Interval
<1>4. \A u \in Tasks : IsFiniteSet({u} \X DOMAIN Deps[u])
  BY <1>3, FS_Singleton, FS_Product
<1>5. IsFiniteSet({{u} \X DOMAIN Deps[u] : u \in Tasks})
  <2> DEFINE T == {{u} \X DOMAIN Deps[u] : u \in Tasks}
             f == [u \in Tasks |-> {u} \X DOMAIN Deps[u]]
  <2>1. f \in Surjection(Tasks, T)
    BY DEF Surjection
  <2> QED
    BY <1>1, <2>1, FS_Surjection
<1>6. IsFiniteSet(UNION {{u} \X DOMAIN Deps[u] : u \in Tasks})
  BY <1>4, <1>5, FS_UNION
<1>7. IsFiniteSet(DependantEdges(t))
  BY <1>6, FS_Subset DEF DependantEdges
<1> QED
  BY <1>1, <1>3, <1>7

\* The net change that sync adds is the difference of the two counts.
LEMMA NetIsDifference ==
    ASSUME NEW D, IsFiniteSet(D), NEW old \in [D -> BOOLEAN], NEW new \in [D -> BOOLEAN]
    PROVE  /\ CountTrue(old) \in Nat
           /\ CountTrue(new) \in Nat
           /\ Net(old, new) \in Int
           /\ CountTrue(new) = CountTrue(old) + Net(old, new)
<1> DEFINE A == {x \in D : old[x]}
           B == {x \in D : new[x]}
<1>1. IsFiniteSet(A) /\ IsFiniteSet(B)
  BY FS_Subset
<1>2. Cardinality(A) \in Nat /\ Cardinality(B) \in Nat /\ Cardinality(A \cap B) \in Nat
  BY <1>1, FS_CardinalityType, FS_Intersection
<1>3. Cardinality(A \ B) = Cardinality(A) - Cardinality(A \cap B)
  BY <1>1, FS_Difference
<1>4. Cardinality(B \ A) = Cardinality(B) - Cardinality(B \cap A)
  BY <1>1, FS_Difference
<1>5. A \cap B = B \cap A
  OBVIOUS
<1>6. CountTrue(old) = Cardinality(A) /\ CountTrue(new) = Cardinality(B)
  BY DEF CountTrue
<1>7. {x \in DOMAIN old : new[x] /\ ~old[x]} = B \ A
  OBVIOUS
<1>8. {x \in DOMAIN old : old[x] /\ ~new[x]} = A \ B
  OBVIOUS
<1>9. Net(old, new) = Cardinality(B \ A) - Cardinality(A \ B)
  BY <1>7, <1>8 DEF Net
<1> HIDE DEF A, B
<1> QED
  BY <1>2, <1>3, <1>4, <1>5, <1>6, <1>9

\* A counter of zero says that no flag is set.
LEMMA CountZero ==
    ASSUME NEW D, IsFiniteSet(D), NEW f \in [D -> BOOLEAN], CountTrue(f) = 0
    PROVE  \A x \in D : ~f[x]
<1> DEFINE A == {x \in D : f[x]}
<1>1. IsFiniteSet(A)
  BY FS_Subset
<1>2. Cardinality(A) = 0
  BY DEF CountTrue
<1>3. A = {}
  BY <1>1, <1>2, FS_EmptySet
<1> QED
  BY <1>3

\* A counter as large as the vector says that every flag is set.
LEMMA CountAll ==
    ASSUME NEW n \in Nat, NEW f \in [1..n -> BOOLEAN], CountTrue(f) = n
    PROVE  \A x \in 1..n : f[x]
<1> DEFINE A == {x \in 1..n : f[x]}
<1>1. IsFiniteSet(1..n) /\ Cardinality(1..n) = n
  <2>1. IsFiniteSet(1..n) /\ Cardinality(1..n) = IF 1 > n THEN 0 ELSE n - 1 + 1
    BY FS_Interval
  <2> QED
    BY <2>1
<1>2. Cardinality(A) = n
  BY DEF CountTrue
<1>3. A \in SUBSET (1..n)
  OBVIOUS
<1>4. Cardinality(1..n) = Cardinality(A) => 1..n = A
  BY <1>1, <1>3, FS_Subset
<1> QED
  BY <1>1, <1>2, <1>4

\* A counter never exceeds the vector it counts over.
LEMMA CountBound ==
    ASSUME NEW n \in Nat, NEW f \in [1..n -> BOOLEAN]
    PROVE  CountTrue(f) \in 0..n
<1> DEFINE A == {x \in 1..n : f[x]}
<1>1. IsFiniteSet(1..n) /\ Cardinality(1..n) = n
  <2>1. IsFiniteSet(1..n) /\ Cardinality(1..n) = IF 1 > n THEN 0 ELSE n - 1 + 1
    BY FS_Interval
  <2> QED
    BY <2>1
<1>2. A \in SUBSET (1..n)
  OBVIOUS
<1>3. Cardinality(A) <= n /\ IsFiniteSet(A)
  BY <1>1, <1>2, FS_Subset
<1>4. Cardinality(A) \in Nat
  BY <1>3, FS_CardinalityType
<1> QED
  BY <1>3, <1>4 DEF CountTrue

\* The views of a flag that the counters of a task are about.
LEMMA ViewTypes ==
    ASSUME NEW counted \in [Tasks -> BOOLEAN], NEW t \in Tasks
    PROVE  /\ OfDependants(t, counted) \in [DependantEdges(t) -> BOOLEAN]
           /\ OfDependencies(t, counted) \in [DOMAIN Deps[t] -> BOOLEAN]
           /\ DOMAIN Deps[t] = 1..Len(Deps[t])
           /\ Len(Deps[t]) \in Nat
           /\ \A i \in DOMAIN Deps[t] : Deps[t][i] \in Tasks
<1>1. /\ DOMAIN Deps[t] = 1..Len(Deps[t])
      /\ Len(Deps[t]) \in Nat
      /\ \A i \in DOMAIN Deps[t] : Deps[t][i] \in Tasks
  BY DepsAssumption
<1>2. \A e \in DependantEdges(t) : e[1] \in Tasks
  BY DEF DependantEdges
<1>3. OfDependants(t, counted) \in [DependantEdges(t) -> BOOLEAN]
  BY <1>2 DEF OfDependants
<1>4. OfDependencies(t, counted) \in [DOMAIN Deps[t] -> BOOLEAN]
  BY <1>1 DEF OfDependencies
<1> QED
  BY <1>1, <1>3, <1>4

Flags == [Tasks -> BOOLEAN]

\* sync keeps the counters exact, whatever handles it reads.
LEMMA SyncCounts ==
    ASSUME TypeOK, CountersExact, should_work' \in Flags,
           NEW S, NEW h \in [Tasks -> Handle], Sync(S, h)
    PROVE  /\ counted_in_dependencies' \in Flags
           /\ counted_in_dependants' \in Flags
           /\ counted_in_pending_tasks' \in Flags
           /\ running_dependants' \in [Tasks -> Nat]
           /\ stopped_dependencies' \in [Tasks -> Nat]
           /\ pending_tasks' \in Nat
           /\ CountersExact'
<1>1. /\ counted_in_dependencies \in Flags
      /\ counted_in_dependants \in Flags
      /\ counted_in_pending_tasks \in Flags
  BY DEF TypeOK, Flags
<1>2. \A t \in Tasks : h[t].running \in BOOLEAN
  BY DEF Handle
<1>3. counted_in_dependencies' \in Flags
  BY <1>1, <1>2, Zenon DEF Sync, SyncDependencies, Flags, AffectDependencies, InTransition
<1>4. counted_in_dependants' \in Flags
  BY <1>1, <1>2, Zenon DEF Sync, SyncDependants, Flags, AffectDependants, InTransition
<1>5. counted_in_pending_tasks' \in Flags
  BY <1>1, <1>2, Zenon DEF Sync, SyncPending, Flags, AffectPendingTasks, InTransition
<1>6. ASSUME NEW t \in Tasks
      PROVE  /\ running_dependants'[t] \in Nat
             /\ running_dependants'[t] = CountTrue(OfDependants(t, counted_in_dependencies'))
  <2> DEFINE old == OfDependants(t, counted_in_dependencies)
             new == OfDependants(t, counted_in_dependencies')
  <2>1. old \in [DependantEdges(t) -> BOOLEAN] /\ new \in [DependantEdges(t) -> BOOLEAN]
    BY <1>1, <1>3, ViewTypes DEF Flags
  <2>2. IsFiniteSet(DependantEdges(t))
    BY FiniteEdges
  <2>3. CountTrue(new) \in Nat /\ CountTrue(new) = CountTrue(old) + Net(old, new)
    BY <2>1, <2>2, NetIsDifference
  <2>4. running_dependants[t] = CountTrue(old)
    BY DEF CountersExact
  <2>5. running_dependants'[t] = running_dependants[t] + Net(old, new)
    BY DEF Sync, SyncDependencies
  <2> QED
    BY <2>3, <2>4, <2>5
<1>7. ASSUME NEW t \in Tasks
      PROVE  /\ stopped_dependencies'[t] \in Nat
             /\ stopped_dependencies'[t] =
                  Len(Deps[t]) - CountTrue(OfDependencies(t, counted_in_dependants'))
  <2> DEFINE old == OfDependencies(t, counted_in_dependants)
             new == OfDependencies(t, counted_in_dependants')
  <2>1. old \in [1..Len(Deps[t]) -> BOOLEAN] /\ new \in [1..Len(Deps[t]) -> BOOLEAN]
    BY <1>1, <1>4, ViewTypes DEF Flags
  <2>2. IsFiniteSet(1..Len(Deps[t])) /\ Len(Deps[t]) \in Nat
    BY FiniteEdges, ViewTypes, <1>1 DEF Flags
  <2>3. CountTrue(old) \in Nat /\ CountTrue(new) = CountTrue(old) + Net(old, new)
        /\ Net(old, new) \in Int
    BY <2>1, <2>2, NetIsDifference
  <2>4. CountTrue(new) \in 0..Len(Deps[t])
    BY <2>1, <2>2, CountBound
  <2>5. stopped_dependencies[t] = Len(Deps[t]) - CountTrue(old)
    BY DEF CountersExact
  <2>6. stopped_dependencies'[t] = stopped_dependencies[t] - Net(old, new)
    BY DEF Sync, SyncDependants
  <2> HIDE DEF old, new
  <2>7. /\ stopped_dependencies'[t] = Len(Deps[t]) - CountTrue(new)
        /\ stopped_dependencies'[t] \in Nat
    BY <2>2, <2>3, <2>4, <2>5, <2>6
  <2> QED
    BY <2>7 DEF new
<1>8. /\ pending_tasks' \in Nat
      /\ pending_tasks' = CountTrue(counted_in_pending_tasks')
  <2>1. IsFiniteSet(Tasks)
    BY NAssumption, FS_Interval DEF Tasks
  <2>2. /\ CountTrue(counted_in_pending_tasks') \in Nat
        /\ CountTrue(counted_in_pending_tasks') =
             CountTrue(counted_in_pending_tasks)
               + Net(counted_in_pending_tasks, counted_in_pending_tasks')
    BY <1>1, <1>5, <2>1, NetIsDifference DEF Flags
  <2> QED
    BY <2>2 DEF CountersExact, Sync, SyncPending
<1>9. running_dependants' \in [Tasks -> Nat]
  BY <1>6 DEF Sync, SyncDependencies
<1>10. stopped_dependencies' \in [Tasks -> Nat]
  BY <1>7 DEF Sync, SyncDependants
<1>11. CountersExact'
  BY <1>6, <1>7, <1>8 DEF CountersExact
<1> QED
  BY <1>3, <1>4, <1>5, <1>8, <1>9, <1>10, <1>11

-----------------------------------------------------------------------------
(* What sync and enqueue_all do to the consistency of handles and flags *)

\* sync makes the flags of the tasks of S fit their handles; the others must fit
\* already.
LEMMA SyncConsistent ==
    ASSUME NEW S, NEW h, Sync(S, h),
           HandleShape(h), OrderOf(h), WantedClosed(should_work'),
           \A t \in Tasks \ S :
              /\ counted_in_dependants[t] /\ should_work'[t] => AffectDependants(h[t])
              /\ ~counted_in_dependencies[t] /\ ~should_work'[t] => ~AffectDependencies(h[t])
              /\ ~counted_in_pending_tasks[t] => ~AffectPendingTasks(h[t], should_work'[t])
    PROVE  Consistent(h, should_work', counted_in_dependencies', counted_in_dependants',
                      counted_in_pending_tasks')
<1>1. CountedRuns(h, should_work', counted_in_dependants')
  BY Zenon DEF CountedRuns, Sync, SyncDependants
<1>2. UncountedStopped(h, should_work', counted_in_dependencies')
  BY Zenon DEF UncountedStopped, Sync, SyncDependencies
<1>3. UncountedSettled(h, should_work', counted_in_pending_tasks')
  BY Zenon DEF UncountedSettled, Sync, SyncPending
<1> QED
  BY <1>1, <1>2, <1>3 DEF Consistent

\* What enqueue_this may do to one handle: h before, g after.
LEMMA EnqueueOne ==
    ASSUME NEW t \in Tasks, NEW h \in Handle, NEW g, NEW ok \in BOOLEAN,
           should_work'[t] \in BOOLEAN,
           \/ g = EnqueueThis(t, h, ok)
           \/ g = [h EXCEPT !.should_work = should_work'[t]]
           \/ g = h,
           h.current_operation = "start" => ~h.running,
           h.current_operation = "stop" => h.running,
           InTransition(h) => t \in StartStop,
           h.created => h.running /\ t \notin StartStop
    PROVE  /\ g \in Handle
           /\ g.current_operation = "start" => ~g.running
           /\ g.current_operation = "stop" => g.running
           /\ InTransition(g) => t \in StartStop
           /\ g.created => g.running /\ t \notin StartStop
           /\ InTransition(h) => g.running = h.running /\ g.current_operation = h.current_operation
           /\ ~Starts(t, h) /\ ~Stops(t, h)
                => /\ AffectDependencies(g) = AffectDependencies(h)
                   /\ AffectDependants(g) = AffectDependants(h)
                   /\ AffectPendingTasks(g, should_work'[t]) = AffectPendingTasks(h, should_work'[t])
<1>1. CASE g = EnqueueThis(t, h, ok) /\ t \in StartStop
  BY <1>1 DEF EnqueueThis, Starts, Stops, SetShouldWork, EnqueueJob, InTransition, Handle, Operations,
              AffectDependencies, AffectDependants, AffectPendingTasks
<1>2. CASE g = EnqueueThis(t, h, ok) /\ t \notin StartStop
  BY <1>2 DEF EnqueueThis, Starts, Stops, SetShouldWork, EnqueueJob, InTransition, Handle, Operations,
              AffectDependencies, AffectDependants, AffectPendingTasks
<1>3. CASE g = [h EXCEPT !.should_work = should_work'[t]]
  BY <1>3 DEF InTransition, Handle, AffectDependencies, AffectDependants, AffectPendingTasks
<1>4. CASE g = h
  BY <1>4
<1> QED
  BY <1>1, <1>2, <1>3, <1>4

\* The counters decide as the flags of all neighbours would.
LEMMA CountersDecide ==
    ASSUME NEW h, NEW t \in Tasks, CountersExact',
           counted_in_dependencies' \in Flags, counted_in_dependants' \in Flags
    PROVE  /\ Starts(t, h) => \A d \in Dependencies(t) : counted_in_dependants'[d]
           /\ Stops(t, h) => \A u \in Dependants(t) : ~counted_in_dependencies'[u]
<1>1. ASSUME Starts(t, h), NEW d \in Dependencies(t)
      PROVE  counted_in_dependants'[d]
  <2> DEFINE f == OfDependencies(t, counted_in_dependants')
             n == Len(Deps[t])
  <2>1. f \in [1..n -> BOOLEAN] /\ n \in Nat /\ DOMAIN Deps[t] = 1..n
    BY ViewTypes DEF Flags
  <2>2. stopped_dependencies'[t] = 0 /\ stopped_dependencies'[t] = n - CountTrue(f)
    BY <1>1 DEF Starts, CountersExact
  <2>3. CountTrue(f) \in 0..n
    BY <2>1, CountBound
  <2>4. CountTrue(f) = n
    BY <2>1, <2>2, <2>3
  <2>5. \A x \in 1..n : f[x]
    BY <2>1, <2>4, CountAll
  <2>6. PICK i \in DOMAIN Deps[t] : d = Deps[t][i]
    BY DEF Dependencies
  <2> QED
    BY <2>1, <2>5, <2>6 DEF OfDependencies
<1>2. ASSUME Stops(t, h), NEW u \in Dependants(t)
      PROVE  ~counted_in_dependencies'[u]
  <2> DEFINE f == OfDependants(t, counted_in_dependencies')
  <2>1. f \in [DependantEdges(t) -> BOOLEAN] /\ IsFiniteSet(DependantEdges(t))
    BY ViewTypes, FiniteEdges DEF Flags
  <2>2. CountTrue(f) = 0
    BY <1>2 DEF Stops, CountersExact
  <2>3. \A e \in DependantEdges(t) : ~f[e]
    BY <2>1, <2>2, CountZero
  <2>4. PICK i \in DOMAIN Deps[u] : t = Deps[u][i]
    BY DEF Dependants, Dependencies
  <2>5. <<u, i>> \in DependantEdges(t)
    BY <2>4 DEF DependantEdges, Dependants
  <2> QED
    BY <2>3, <2>5 DEF OfDependants
<1> QED
  BY <1>1, <1>2

\* enqueue_all, complete or cut short by a failed fork, keeps handles and flags
\* consistent: this is where the start and stop order comes from.
LEMMA EnqueueConsistent ==
    ASSUME NEW h \in [Tasks -> Handle], NEW q, NEW n, NEW done, NEW failed, NEW bad,
           should_work' \in Flags,
           counted_in_dependencies' \in Flags,
           counted_in_dependants' \in Flags,
           CountersExact',
           Consistent(h, should_work', counted_in_dependencies', counted_in_dependants',
                      counted_in_pending_tasks'),
           EnqueueTasks(h, q, n, done, failed, bad)
    PROVE  /\ handle' \in [Tasks -> Handle]
           /\ \A t \in Tasks : InTransition(h[t]) => InTransition(handle'[t])
           /\ Consistent(handle', should_work', counted_in_dependencies', counted_in_dependants',
                         counted_in_pending_tasks')
<1>1. ASSUME NEW t \in Tasks
      PROVE  /\ handle'[t] \in Handle
             /\ handle'[t].current_operation = "start" => ~handle'[t].running
             /\ handle'[t].current_operation = "stop" => handle'[t].running
             /\ InTransition(handle'[t]) => t \in StartStop
             /\ handle'[t].created => handle'[t].running /\ t \notin StartStop
             /\ InTransition(h[t]) => /\ handle'[t].running = h[t].running
                                      /\ handle'[t].current_operation = h[t].current_operation
             /\ ~Starts(t, h[t]) /\ ~Stops(t, h[t])
                  => /\ AffectDependencies(handle'[t]) = AffectDependencies(h[t])
                     /\ AffectDependants(handle'[t]) = AffectDependants(h[t])
                     /\ AffectPendingTasks(handle'[t], should_work'[t])
                          = AffectPendingTasks(h[t], should_work'[t])
  <2>1. \/ handle'[t] = EnqueueThis(t, h[t], t \notin bad)
        \/ handle'[t] = [h[t] EXCEPT !.should_work = should_work'[t]]
        \/ handle'[t] = h[t]
    BY SMT DEF EnqueueTasks
  <2>2. /\ h[t].current_operation = "start" => ~h[t].running
        /\ h[t].current_operation = "stop" => h[t].running
        /\ InTransition(h[t]) => t \in StartStop
        /\ h[t].created => h[t].running /\ t \notin StartStop
    BY DEF Consistent, HandleShape
  <2>3. h[t] \in Handle /\ should_work'[t] \in BOOLEAN /\ (t \notin bad) \in BOOLEAN
    BY DEF Flags
  <2> QED
    BY <2>1, <2>2, <2>3, EnqueueOne
<1>2. handle' \in [Tasks -> Handle]
  BY <1>1 DEF EnqueueTasks
<1>3. HandleShape(handle')
  BY <1>1 DEF HandleShape
\* a task that is where its flag says is neither started nor stopped
<1>4. ASSUME NEW t \in Tasks, should_work'[t], AffectDependants(h[t])
      PROVE  AffectDependants(handle'[t])
  BY <1>1, <1>4 DEF Starts, Stops, AffectDependants
<1>5. ASSUME NEW t \in Tasks, ~should_work'[t], ~AffectDependencies(h[t])
      PROVE  ~AffectDependencies(handle'[t])
  BY <1>1, <1>5 DEF Starts, Stops, AffectDependencies
<1>6. CountedRuns(handle', should_work', counted_in_dependants')
  BY <1>4 DEF Consistent, CountedRuns
<1>7. UncountedStopped(handle', should_work', counted_in_dependencies')
  BY <1>5 DEF Consistent, UncountedStopped
<1>8. UncountedSettled(handle', should_work', counted_in_pending_tasks')
  <2> SUFFICES ASSUME NEW t \in Tasks, ~counted_in_pending_tasks'[t]
               PROVE  ~AffectPendingTasks(handle'[t], should_work'[t])
    BY DEF UncountedSettled
  <2>1. ~AffectPendingTasks(h[t], should_work'[t])
    BY DEF Consistent, UncountedSettled
  <2>2. ~Starts(t, h[t]) /\ ~Stops(t, h[t])
    BY <2>1 DEF AffectPendingTasks, Starts, Stops
  <2> QED
    BY <1>1, <2>1, <2>2
<1>9. OrderOf(handle')
  <2> SUFFICES ASSUME NEW t \in Tasks, AffectDependencies(handle'[t]), NEW d \in Dependencies(t)
               PROVE  AffectDependants(handle'[d])
    BY DEF OrderOf
  <2>1. d \in Tasks /\ t \in Dependants(d)
    BY DepsAssumption DEF Dependencies, Dependants
  <2>2. should_work'[t] => should_work'[d]
    BY DEF Consistent, WantedClosed
  <2>3. CASE Starts(t, h[t])
    <3>1. should_work'[d] /\ counted_in_dependants'[d]
      BY <2>2, <2>3, CountersDecide DEF Starts
    <3>2. AffectDependants(h[d])
      BY <2>1, <3>1 DEF Consistent, CountedRuns
    <3> QED
      BY <1>4, <2>1, <3>1, <3>2
  <2>4. CASE ~Starts(t, h[t])
    <3>1. AffectDependencies(h[t])
      <4>1. CASE Stops(t, h[t])
        BY <4>1 DEF Stops, AffectDependencies
      <4>2. CASE ~Stops(t, h[t])
        BY <1>1, <2>4, <4>2
      <4> QED
        BY <4>1, <4>2
    <3>2. AffectDependants(h[d])
      BY <3>1 DEF Consistent, OrderOf
    <3>3. CASE should_work'[d]
      BY <1>4, <2>1, <3>2, <3>3
    <3>4. CASE ~should_work'[d]
      <4>1. ~should_work'[t]
        BY <2>2, <3>4
      <4>2. counted_in_dependencies'[t]
        BY <3>1, <4>1 DEF Consistent, UncountedStopped
      <4>3. ~Stops(d, h[d])
        BY <2>1, <4>2, CountersDecide
      <4>4. ~Starts(d, h[d])
        BY <3>4 DEF Starts
      <4> QED
        BY <1>1, <2>1, <3>2, <4>3, <4>4
    <3> QED
      BY <3>3, <3>4
  <2> QED
    BY <2>3, <2>4
<1>10. \A t \in Tasks : InTransition(h[t]) => InTransition(handle'[t])
  BY <1>1 DEF InTransition
<1> QED
  BY <1>2, <1>3, <1>6, <1>7, <1>8, <1>9, <1>10 DEF Consistent

\* Pushing a function notifies its queue and fills it.
LEMMA EnqueueQueues ==
    ASSUME NEW h, NEW q \in [Tasks -> Nat], NEW n \in SUBSET (Tasks \ StartStop),
           NEW done \in SUBSET Tasks, NEW failed, NEW bad,
           \A t \in n : q[t] > 0,
           EnqueueTasks(h, q, n, done, failed, bad)
    PROVE  /\ fq' \in [Tasks -> Nat]
           /\ notified' \subseteq Tasks \ StartStop
           /\ QueueNotEmpty'
<1> DEFINE pushed == {t \in done \ StartStop : Starts(t, h[t]) \/ Stops(t, h[t])}
<1>1. /\ fq' = [t \in Tasks |-> IF t \in pushed THEN q[t] + 1 ELSE q[t]]
      /\ notified' = n \cup pushed
  BY DEF EnqueueTasks
<1>2. pushed \subseteq Tasks \ StartStop
  OBVIOUS
<1> HIDE DEF pushed
<1> QED
  BY <1>1, <1>2 DEF QueueNotEmpty

Flagged(h, want) == Consistent(h, want, counted_in_dependencies, counted_in_dependants,
                               counted_in_pending_tasks)

\* The part of the invariant that a sync followed by an enqueue_all establishes.
Supervised ==
    /\ should_work \in Flags
    /\ counted_in_dependencies \in Flags
    /\ counted_in_dependants \in Flags
    /\ counted_in_pending_tasks \in Flags
    /\ running_dependants \in [Tasks -> Nat]
    /\ stopped_dependencies \in [Tasks -> Nat]
    /\ pending_tasks \in Nat
    /\ CountersExact
    /\ handle \in [Tasks -> Handle]
    /\ Flagged(handle, should_work)
    /\ fq \in [Tasks -> Nat]
    /\ notified \subseteq Tasks \ StartStop
    /\ QueueNotEmpty
    /\ fork_failures \in 0..MaxForkFailures

\* A callback that syncs the tasks of S and then enqueues, to the end or to a fork
\* that fails.
LEMMA SyncThenEnqueue ==
    ASSUME TypeOK, CountersExact, should_work' \in Flags,
           NEW S, NEW h \in [Tasks -> Handle], Sync(S, h),
           Consistent(h, should_work', counted_in_dependencies', counted_in_dependants',
                      counted_in_pending_tasks'),
           NEW q \in [Tasks -> Nat], NEW n \in SUBSET (Tasks \ StartStop),
           \A t \in n : q[t] > 0,
           NEW T \in SUBSET Tasks, NEW before, \A f \in DOMAIN before : before[f] \subseteq Tasks,
           EnqueueAll(h, q, n, T) \/ EnqueueAllThrows(h, q, n, before)
    PROVE  /\ Supervised'
           /\ \A t \in Tasks : InTransition(h[t]) => InTransition(handle'[t])
<1>1. /\ counted_in_dependencies' \in Flags
      /\ counted_in_dependants' \in Flags
      /\ counted_in_pending_tasks' \in Flags
      /\ running_dependants' \in [Tasks -> Nat]
      /\ stopped_dependencies' \in [Tasks -> Nat]
      /\ pending_tasks' \in Nat
      /\ CountersExact'
  BY SyncCounts
<1>2. fork_failures' \in 0..MaxForkFailures
  BY BoundAssumption DEF TypeOK, EnqueueAll, EnqueueAllThrows
<1>3. PICK done \in SUBSET Tasks, failed \in SUBSET StartStop, bad \in SUBSET Fallible :
         EnqueueTasks(h, q, n, done, failed, bad)
  BY DEF EnqueueAll, EnqueueAllThrows
<1>4. /\ handle' \in [Tasks -> Handle]
      /\ \A t \in Tasks : InTransition(h[t]) => InTransition(handle'[t])
      /\ Consistent(handle', should_work', counted_in_dependencies', counted_in_dependants',
                    counted_in_pending_tasks')
  BY <1>1, <1>3, EnqueueConsistent
<1>5. /\ fq' \in [Tasks -> Nat]
      /\ notified' \subseteq Tasks \ StartStop
      /\ QueueNotEmpty'
  BY <1>3, EnqueueQueues
<1> QED
  BY <1>1, <1>2, <1>4, <1>5 DEF Supervised, Flagged

\* What a run level wants is closed under dependencies.
LEMMA NeededClosed ==
    ASSUME NEW R, NEW t \in Needed(R), NEW d \in Dependencies(t)
    PROVE  d \in Needed(R)
<1>1. d \in Tasks
  BY DepsAssumption DEF Dependencies, Needed
<1>2. ASSUME NEW S \in SUBSET Tasks, R \subseteq S, Closed(S)
      PROVE  d \in S
  BY <1>2 DEF Needed, Closed
<1> QED
  BY <1>1, <1>2 DEF Needed

\* set_run_level and set_empty_run_level.
LEMMA ChangeRunLevel ==
    ASSUME IndInv, NEW W \in SUBSET Tasks,
           \A t \in W : Dependencies(t) \subseteq W,
           SetWanted(W), EnqueueEverything \/ EnqueueEverythingThrows
    PROVE  /\ Supervised'
           /\ \A t \in Tasks : InTransition(handle[t]) => InTransition(handle'[t])
<1>1. should_work' = [t \in Tasks |-> t \in W] /\ Sync(Tasks, handle)
  BY DEF SetWanted
<1>2. should_work' \in Flags
  BY <1>1 DEF Flags
<1>3. \A t \in Tasks : Dependencies(t) \subseteq Tasks
  BY DepsAssumption DEF Dependencies
<1>4. WantedClosed(should_work')
  BY <1>1, <1>3 DEF WantedClosed
<1>5. HandleShape(handle) /\ OrderOf(handle)
  BY DEF IndInv, Consistent
<1>6. Consistent(handle, should_work', counted_in_dependencies', counted_in_dependants',
                 counted_in_pending_tasks')
  BY <1>1, <1>4, <1>5, SyncConsistent
<1>7. \A f \in DOMAIN InTaskOrder(Tasks) : InTaskOrder(Tasks)[f] \subseteq Tasks
  BY DEF InTaskOrder
<1>8. /\ TypeOK
      /\ CountersExact
      /\ handle \in [Tasks -> Handle]
      /\ fq \in [Tasks -> Nat]
      /\ notified \in SUBSET (Tasks \ StartStop)
      /\ \A t \in notified : fq[t] > 0
  BY DEF IndInv, TypeOK, QueueNotEmpty
<1> QED
  BY <1>1, <1>2, <1>6, <1>7, <1>8, SyncThenEnqueue DEF EnqueueEverything, EnqueueEverythingThrows

\* The state-changed callback enqueues tasks, in an order that covers them.
LEMMA NeighboursAreTasks ==
    ASSUME NEW t \in Tasks, NEW h
    PROVE  /\ Affected(t, h) \in SUBSET Tasks
           /\ \A f \in DOMAIN AffectedOrder(t, h) : AffectedOrder(t, h)[f] \subseteq Tasks
<1>1. /\ DOMAIN Deps[t] = 1..Len(Deps[t])
      /\ \A i \in DOMAIN Deps[t] : Deps[t][i] \in Tasks
  BY DepsAssumption
<1>2. Dependencies(t) \subseteq Tasks /\ Dependants(t) \subseteq Tasks
  BY <1>1 DEF Dependencies, Dependants
<1>3. \A f \in DOMAIN InTaskOrder(Dependants(t)) : InTaskOrder(Dependants(t))[f] \subseteq Tasks
  BY <1>2 DEF InTaskOrder
<1>4. \A f \in DOMAIN InDepsOrder(t) : InDepsOrder(t)[f] \subseteq Tasks
  BY <1>1 DEF InDepsOrder
<1> QED
  BY <1>2, <1>3, <1>4 DEF Affected, AffectedOrder

\* The part of the invariant about children, main and the bounds.
Surroundings ==
    /\ zombies \subseteq StartStop
    /\ sigchld \in BOOLEAN
    /\ tg \in Targets
    /\ phase \in Phases
    /\ exit_state \in Targets
    /\ requests \in 0..MaxRequests
    /\ run_levels \in RunLevels
    /\ \A t \in zombies : InTransition(handle[t])
    /\ phase = "boot" => tg = "running"
    /\ tg # "running" => \A t \in Tasks : ~should_work[t]
    /\ CleanExit

\* The invariant falls into what sync and enqueue_all maintain and the rest.
LEMMA IndInvSplit == IndInv <=> Supervised /\ Surroundings
  BY DEF IndInv, Supervised, Flagged, Surroundings, TypeOK, Flags

\* The two parts make up the invariant after a step.
LEMMA IndInvAssemble == ASSUME Supervised', Surroundings' PROVE IndInv'
  BY DEF IndInv, Supervised, Flagged, Surroundings, TypeOK, Flags

-----------------------------------------------------------------------------
(* The invariant is inductive *)

\* The constructors of task and initd_state establish the invariant.
LEMMA InitIndInv == Init => IndInv
<1> SUFFICES ASSUME Init PROVE IndInv
  OBVIOUS
<1>1. TypeOK
  <2>1. InitialHandle \in Handle
    BY DEF InitialHandle, Handle, Operations
  <2>2. \A t \in Tasks : Len(Deps[t]) \in Nat
    BY DepsAssumption
  <2>3. handle \in [Tasks -> Handle] /\ stopped_dependencies \in [Tasks -> Nat]
    BY <2>1, <2>2 DEF Init
  <2>4. /\ should_work \in [Tasks -> BOOLEAN]
        /\ counted_in_dependencies \in [Tasks -> BOOLEAN]
        /\ counted_in_dependants \in [Tasks -> BOOLEAN]
        /\ counted_in_pending_tasks \in [Tasks -> BOOLEAN]
        /\ sigchld \in BOOLEAN
    BY DEF Init
  <2>5. /\ running_dependants \in [Tasks -> Nat]
        /\ pending_tasks \in Nat
        /\ fq \in [Tasks -> Nat]
        /\ notified \subseteq Tasks \ StartStop
        /\ zombies \subseteq StartStop
        /\ requests \in 0..MaxRequests
        /\ fork_failures \in 0..MaxForkFailures
        /\ run_levels \in RunLevels
    BY BoundAssumption DEF Init
  <2>6. tg \in Targets /\ phase \in Phases /\ exit_state \in Targets
    BY DEF Init, Targets, Phases
  <2> QED
    BY <2>3, <2>4, <2>5, <2>6 DEF TypeOK
<1>2. CountersExact
  <2>1. ASSUME NEW D, NEW f \in [D -> BOOLEAN], \A x \in D : ~f[x]
        PROVE  CountTrue(f) = 0
    <3>1. {x \in DOMAIN f : f[x]} = {}
      BY <2>1
    <3> QED
      BY <3>1, FS_EmptySet DEF CountTrue
  <2>2. ASSUME NEW t \in Tasks
        PROVE  /\ running_dependants[t] = CountTrue(OfDependants(t, counted_in_dependencies))
               /\ stopped_dependencies[t]
                    = Len(Deps[t]) - CountTrue(OfDependencies(t, counted_in_dependants))
    <3>1. counted_in_dependencies \in Flags /\ counted_in_dependants \in Flags
      BY <1>1 DEF TypeOK, Flags
    <3>2. /\ OfDependants(t, counted_in_dependencies) \in [DependantEdges(t) -> BOOLEAN]
          /\ OfDependencies(t, counted_in_dependants) \in [DOMAIN Deps[t] -> BOOLEAN]
          /\ Len(Deps[t]) \in Nat
          /\ \A i \in DOMAIN Deps[t] : Deps[t][i] \in Tasks
      BY <3>1, ViewTypes DEF Flags
    <3>3. \A e \in DependantEdges(t) : ~OfDependants(t, counted_in_dependencies)[e]
      BY DEF Init, OfDependants, DependantEdges
    <3>4. \A i \in DOMAIN Deps[t] : ~OfDependencies(t, counted_in_dependants)[i]
      BY <3>2 DEF Init, OfDependencies
    <3>5. /\ CountTrue(OfDependants(t, counted_in_dependencies)) = 0
          /\ CountTrue(OfDependencies(t, counted_in_dependants)) = 0
      BY <2>1, <3>2, <3>3, <3>4
    <3> QED
      BY <3>2, <3>5 DEF Init
  <2>3. CountTrue(counted_in_pending_tasks) = 0
    BY <2>1 DEF Init
  <2> QED
    BY <2>2, <2>3 DEF CountersExact, Init
<1>3. Flagged(handle, should_work)
  BY DEF Init, Flagged, Consistent, HandleShape, WantedClosed, CountedRuns, UncountedStopped,
         UncountedSettled, OrderOf, InitialHandle, InTransition, AffectDependencies,
         AffectDependants, AffectPendingTasks
<1> QED
  BY <1>1, <1>2, <1>3 DEF Init, IndInv, Flagged, QueueNotEmpty, CleanExit

\* Actions that leave tasks and handles alone.
LEMMA SupervisedUnchanged ==
    ASSUME Supervised, UNCHANGED <<taskVars, handleVars>>, fork_failures' = fork_failures
    PROVE  Supervised'
<1>1. /\ UNCHANGED <<should_work, stopped_dependencies, running_dependants, counted_in_dependencies>>
      /\ UNCHANGED <<counted_in_dependants, counted_in_pending_tasks, pending_tasks>>
      /\ UNCHANGED <<handle, fq, notified>>
  BY DEF taskVars, counterVars, handleVars
<1> QED
  BY <1>1 DEF Supervised, Flagged, CountersExact, QueueNotEmpty

\* The constructor of context keeps the invariant, a failed fork included.
LEMMA BootInd == ASSUME IndInv, Boot PROVE IndInv'
<1>1. \A t \in Needed(run_levels["default"]) : Dependencies(t) \subseteq Needed(run_levels["default"])
  BY NeededClosed
<1>2. Needed(run_levels["default"]) \in SUBSET Tasks
  BY DEF Needed
<1>3. /\ Supervised'
      /\ \A t \in Tasks : InTransition(handle[t]) => InTransition(handle'[t])
  BY <1>1, <1>2, ChangeRunLevel DEF Boot
<1>4. Surroundings
  BY IndInvSplit
<1>5. zombies \subseteq Tasks
  BY <1>4, KindAssumption DEF Surroundings
<1>6. tg = "running"
  BY <1>4 DEF Boot, Surroundings
<1>7. Surroundings'
  BY <1>3, <1>4, <1>5, <1>6 DEF Boot, Surroundings, kernelVars, Targets, Phases, CleanExit
<1> QED
  BY <1>3, <1>7, IndInvAssemble

\* A configuration without a default run level keeps it.
LEMMA BootWithoutDefaultInd == ASSUME IndInv, BootWithoutDefault PROVE IndInv'
<1>1. Supervised /\ Surroundings
  BY IndInvSplit
<1>2. Supervised'
  BY <1>1, SupervisedUnchanged DEF BootWithoutDefault, boundVars
<1>3. Surroundings'
  BY <1>1 DEF BootWithoutDefault, Surroundings, CleanExit, taskVars, handleVars, kernelVars, boundVars,
              Targets, Phases
<1> QED
  BY <1>2, <1>3, IndInvAssemble

\* context::reboot and context::power_off keep it.
LEMMA ShutDownInd ==
    ASSUME IndInv, NEW target \in {"reboot", "power_off"}, ShutDown(target) PROVE IndInv'
<1>1. Supervised /\ Surroundings
  BY IndInvSplit
<1>2. /\ Supervised'
      /\ \A t \in Tasks : InTransition(handle[t]) => InTransition(handle'[t])
  BY ChangeRunLevel DEF ShutDown
<1>3. \A t \in Tasks : ~should_work'[t]
  BY DEF ShutDown, SetWanted
<1>4. zombies \subseteq Tasks
  BY <1>1, KindAssumption DEF Surroundings
<1>5. /\ phase' = "loop" /\ phase = "loop" /\ tg' = target
      /\ requests' \in 0..MaxRequests
      /\ UNCHANGED <<zombies, sigchld, exit_state, run_levels>>
  BY <1>1, BoundAssumption DEF ShutDown, Request, Dispatching, Surroundings, kernelVars
<1>6. Surroundings'
  BY <1>1, <1>2, <1>3, <1>4, <1>5 DEF Surroundings, CleanExit, Targets, Phases
<1> QED
  BY <1>2, <1>6, IndInvAssemble

\* initd_state::set_run_level keeps it.
LEMMA SetRunLevelInd == ASSUME IndInv, NEW name \in Names, SetRunLevel(name) PROVE IndInv'
<1>1. Supervised /\ Surroundings
  BY IndInvSplit
<1>2. /\ Needed(run_levels[name]) \in SUBSET Tasks
      /\ \A t \in Needed(run_levels[name]) : Dependencies(t) \subseteq Needed(run_levels[name])
  <2>1. Needed(run_levels[name]) \in SUBSET Tasks
    BY DEF Needed
  <2> QED
    BY <2>1, NeededClosed
<1>3. /\ Supervised'
      /\ \A t \in Tasks : InTransition(handle[t]) => InTransition(handle'[t])
  BY <1>2, ChangeRunLevel DEF SetRunLevel
<1>4. zombies \subseteq Tasks
  BY <1>1, KindAssumption DEF Surroundings
<1>5. /\ phase' = "loop" /\ phase = "loop" /\ tg' = "running"
      /\ requests' \in 0..MaxRequests
      /\ UNCHANGED <<zombies, sigchld, exit_state, run_levels>>
  BY <1>1, BoundAssumption DEF SetRunLevel, Request, Dispatching, Surroundings, kernelVars
<1>6. Surroundings'
  BY <1>1, <1>3, <1>4, <1>5 DEF Surroundings, CleanExit, Targets, Phases
<1> QED
  BY <1>3, <1>6, IndInvAssemble

\* A run level that does not exist changes tg only.
LEMMA SetUnknownRunLevelInd ==
    ASSUME IndInv, NEW name \in Names, SetUnknownRunLevel(name) PROVE IndInv'
<1>1. Supervised /\ Surroundings
  BY IndInvSplit
<1>2. Supervised'
  BY <1>1, SupervisedUnchanged DEF SetUnknownRunLevel
<1>3. /\ phase' = "loop" /\ tg' = "running"
      /\ requests' \in 0..MaxRequests
      /\ UNCHANGED <<zombies, sigchld, exit_state, handle, run_levels>>
  BY <1>1, BoundAssumption DEF SetUnknownRunLevel, Request, Dispatching, Surroundings, kernelVars, handleVars
<1>4. Surroundings'
  BY <1>1, <1>3 DEF Surroundings, CleanExit, Targets, Phases
<1> QED
  BY <1>2, <1>4, IndInvAssemble

\* The exit of a child changes nothing in the program.
LEMMA ChildExitInd == ASSUME IndInv, NEW t \in Tasks, ChildExit(t) PROVE IndInv'
<1>1. Supervised /\ Surroundings
  BY IndInvSplit
<1>2. Supervised'
  BY <1>1, SupervisedUnchanged DEF ChildExit, boundVars
<1>3. t \in StartStop /\ InTransition(handle[t])
  BY <1>1 DEF ChildExit, Supervised, Flagged, Consistent, HandleShape
<1>4. /\ zombies' = zombies \cup {t} /\ sigchld' = TRUE /\ phase \in {"loop", "reaping"}
      /\ UNCHANGED <<should_work, handle, tg, phase, exit_state, requests, run_levels>>
  BY DEF ChildExit, taskVars, handleVars, mainVars, boundVars
<1>5. Surroundings'
  BY <1>1, <1>3, <1>4 DEF Surroundings, CleanExit, InTransition
<1> QED
  BY <1>2, <1>5, IndInvAssemble

\* Reading the signalfd keeps it.
LEMMA SigchldEventInd == ASSUME IndInv, SigchldEvent PROVE IndInv'
<1>1. Supervised /\ Surroundings
  BY IndInvSplit
<1>2. Supervised'
  BY <1>1, SupervisedUnchanged DEF SigchldEvent, boundVars
<1>3. /\ sigchld' = FALSE /\ phase' = "reaping"
      /\ UNCHANGED <<should_work, handle, zombies, tg, exit_state, requests, run_levels>>
  BY DEF SigchldEvent, taskVars, handleVars, boundVars
<1>4. Surroundings'
  BY <1>1, <1>3 DEF Surroundings, CleanExit, InTransition, Phases
<1> QED
  BY <1>2, <1>4, IndInvAssemble

\* The end of the reap loop keeps it.
LEMMA ReapNoneInd == ASSUME IndInv, ReapNone PROVE IndInv'
<1>1. Supervised /\ Surroundings
  BY IndInvSplit
<1>2. Supervised'
  BY <1>1, SupervisedUnchanged DEF ReapNone, boundVars
<1>3. /\ phase' = "loop"
      /\ UNCHANGED <<should_work, handle, zombies, sigchld, tg, exit_state, requests, run_levels>>
  BY DEF ReapNone, taskVars, handleVars, kernelVars, boundVars
<1>4. Surroundings'
  BY <1>1, <1>3 DEF Surroundings, CleanExit, InTransition, Phases
<1> QED
  BY <1>2, <1>4, IndInvAssemble

\* The end of an operation: what the completed operation leaves is a handle that
\* takes part in the order as before or not at all.
LEMMA CompletedHandle ==
    ASSUME IndInv, NEW t \in zombies, NEW g,
           g = Completed(handle[t]) \/ g = EnqueueJob(Completed(handle[t]))
    PROVE  LET handles == [handle EXCEPT ![t] = g]
           IN  /\ t \in StartStop
               /\ t \in Tasks
               /\ t \notin Dependencies(t)
               /\ InTransition(handle[t])
               /\ handles \in [Tasks -> Handle]
               /\ HandleShape(handles)
               /\ OrderOf(handles)
<1> DEFINE handles == [handle EXCEPT ![t] = g]
<1>1. /\ t \in StartStop /\ t \in Tasks /\ InTransition(handle[t])
      /\ handle \in [Tasks -> Handle]
      /\ HandleShape(handle) /\ OrderOf(handle)
  BY KindAssumption DEF IndInv, TypeOK, Consistent
<1>2. t \notin Dependencies(t)
  BY <1>1 DEF OrderOf, AffectDependencies, AffectDependants
<1> DEFINE c == Completed(handle[t])
<1>3. /\ g \in Handle
      /\ g.current_operation = "start" => ~g.running
      /\ g.current_operation = "stop" => g.running
      /\ g.created = handle[t].created
  <2>1. handle[t] \in Handle
    BY <1>1
  <2>2. /\ c \in Handle
        /\ c.current_operation = "none"
        /\ c.created = handle[t].created
    <3>1. CASE handle[t].current_operation = "start"
      <4>1. c = [handle[t] EXCEPT !.running = TRUE, !.current_operation = "none"]
        BY <3>1 DEF Completed
      <4> QED
        BY <2>1, <4>1 DEF Handle, Operations
    <3>2. CASE handle[t].current_operation # "start"
      <4>1. c = [handle[t] EXCEPT !.running = FALSE, !.current_operation = "none"]
        BY <3>2 DEF Completed
      <4> QED
        BY <2>1, <4>1 DEF Handle, Operations
    <3> QED
      BY <3>1, <3>2
  <2>3. g = c \/ g = EnqueueJob(c)
    OBVIOUS
  <2> HIDE DEF c
  <2> QED
    BY <2>2, <2>3 DEF EnqueueJob, InTransition, Handle, Operations
<1>4. handles \in [Tasks -> Handle]
  BY <1>1, <1>3
<1>6. ~handle[t].created
  BY <1>1 DEF HandleShape
<1>7. HandleShape(handles)
  BY <1>1, <1>3, <1>6 DEF HandleShape
<1>8. OrderOf(handles)
  <2> SUFFICES ASSUME NEW u \in Tasks, AffectDependencies(handles[u]), NEW d \in Dependencies(u)
               PROVE  AffectDependants(handles[d])
    BY DEF OrderOf
  <2>1. d \in Tasks
    BY DepsAssumption DEF Dependencies
  <2>2. AffectDependencies(handle[u])
    BY <1>1 DEF AffectDependencies
  <2>3. AffectDependants(handle[d])
    BY <1>1, <2>2 DEF OrderOf
  <2>4. d # t
    BY <1>1, <2>3 DEF AffectDependants
  <2> QED
    BY <1>1, <2>1, <2>3, <2>4
<1> QED
  BY <1>1, <1>2, <1>4, <1>7, <1>8

\* The callback of a child keeps it.
LEMMA ReapInd == ASSUME IndInv, NEW t \in Tasks, Reap(t) PROVE IndInv'
<1> DEFINE h == EnqueueJob(Completed(handle[t]))
           handles == [handle EXCEPT ![t] = h]
<1>1. Supervised /\ Surroundings /\ t \in zombies
  BY IndInvSplit DEF Reap
<1>2. /\ t \in StartStop
      /\ InTransition(handle[t])
      /\ handles \in [Tasks -> Handle]
      /\ HandleShape(handles)
      /\ OrderOf(handles)
  BY <1>1, CompletedHandle
<1>3. /\ should_work' = should_work
      /\ Sync({t}, handles)
      /\ \/ EnqueueAll(handles, fq, notified, Affected(t, h)) /\ UNCHANGED phase
         \/ EnqueueAllThrows(handles, fq, notified, AffectedOrder(t, h)) /\ phase' = "loop"
  BY DEF Reap
<1>4. /\ should_work' \in Flags
      /\ WantedClosed(should_work')
      /\ CountedRuns(handle, should_work', counted_in_dependants)
      /\ UncountedStopped(handle, should_work', counted_in_dependencies)
      /\ UncountedSettled(handle, should_work', counted_in_pending_tasks)
  BY <1>1, <1>3 DEF Supervised, Flagged, Consistent
<1>5. \A u \in Tasks \ {t} :
         /\ counted_in_dependants[u] /\ should_work'[u] => AffectDependants(handles[u])
         /\ ~counted_in_dependencies[u] /\ ~should_work'[u] => ~AffectDependencies(handles[u])
         /\ ~counted_in_pending_tasks[u] => ~AffectPendingTasks(handles[u], should_work'[u])
  <2>1. \A u \in Tasks \ {t} : handles[u] = handle[u]
    BY <1>1 DEF Supervised
  <2> QED
    BY <1>4, <2>1 DEF CountedRuns, UncountedStopped, UncountedSettled
<1>6. Consistent(handles, should_work', counted_in_dependencies', counted_in_dependants',
                 counted_in_pending_tasks')
  BY <1>2, <1>3, <1>4, <1>5, SyncConsistent
<1>7. /\ TypeOK /\ CountersExact
      /\ fq \in [Tasks -> Nat]
      /\ notified \in SUBSET (Tasks \ StartStop)
      /\ \A u \in notified : fq[u] > 0
  BY DEF IndInv, TypeOK, QueueNotEmpty
<1>8. /\ Affected(t, h) \in SUBSET Tasks
      /\ \A f \in DOMAIN AffectedOrder(t, h) : AffectedOrder(t, h)[f] \subseteq Tasks
  BY NeighboursAreTasks
<1>9. /\ Supervised'
      /\ \A u \in Tasks : InTransition(handles[u]) => InTransition(handle'[u])
  <2> HIDE DEF h, handles
  <2> QED
    BY <1>2, <1>3, <1>4, <1>6, <1>7, <1>8, SyncThenEnqueue
<1>10. /\ phase = "reaping" /\ phase' \in {"loop", "reaping"} /\ zombies' = zombies \ {t}
       /\ UNCHANGED <<sigchld, tg, exit_state, requests, run_levels>>
  BY <1>3 DEF Reap
<1>11. \A u \in zombies' : InTransition(handle'[u])
  <2>1. \A u \in zombies' : u \in Tasks /\ handles[u] = handle[u] /\ InTransition(handle[u])
    BY <1>1, <1>10, KindAssumption DEF Supervised, Surroundings
  <2> QED
    BY <1>9, <2>1 DEF InTransition
<1>12. Surroundings'
  BY <1>1, <1>3, <1>10, <1>11 DEF Surroundings, CleanExit, Phases
<1> QED
  BY <1>9, <1>12, IndInvAssemble

\* The callback that ends in its own failed fork leaves the flags as they were; they
\* still fit, because an operation in progress was counted in all the ways that matter.
LEMMA ReapThrowsInd == ASSUME IndInv, NEW t \in Tasks, ReapThrows(t) PROVE IndInv'
<1> DEFINE g == Completed(handle[t])
           handles == [handle EXCEPT ![t] = g]
<1>1. Supervised /\ Surroundings /\ t \in zombies
  BY IndInvSplit DEF ReapThrows
<1>2. /\ t \in StartStop
      /\ InTransition(handle[t])
      /\ handles \in [Tasks -> Handle]
      /\ HandleShape(handles)
      /\ OrderOf(handles)
  BY <1>1, CompletedHandle
<1>3. /\ handle' = handles
      /\ UNCHANGED <<should_work, stopped_dependencies, running_dependants, counted_in_dependencies>>
      /\ UNCHANGED <<counted_in_dependants, counted_in_pending_tasks, pending_tasks, fq, notified>>
      /\ fork_failures' \in 0..MaxForkFailures
  BY <1>1, BoundAssumption DEF ReapThrows, taskVars, counterVars, Supervised
<1>4. /\ CountedRuns(handle, should_work, counted_in_dependants)
      /\ UncountedStopped(handle, should_work, counted_in_dependencies)
      /\ UncountedSettled(handle, should_work, counted_in_pending_tasks)
      /\ WantedClosed(should_work)
  BY <1>1 DEF Supervised, Flagged, Consistent
<1>5. \A u \in Tasks \ {t} : handles[u] = handle[u]
  BY <1>1 DEF Supervised
<1>6. /\ ~(counted_in_dependants[t] /\ should_work[t])
      /\ ~(~counted_in_dependencies[t] /\ ~should_work[t])
      /\ counted_in_pending_tasks[t]
  BY <1>2, <1>4 DEF CountedRuns, UncountedStopped, UncountedSettled, AffectDependants,
                    AffectDependencies, AffectPendingTasks
<1>7. /\ CountedRuns(handles, should_work, counted_in_dependants)
      /\ UncountedStopped(handles, should_work, counted_in_dependencies)
      /\ UncountedSettled(handles, should_work, counted_in_pending_tasks)
  <2> HIDE DEF handles
  <2> QED
    BY <1>4, <1>5, <1>6 DEF CountedRuns, UncountedStopped, UncountedSettled
<1>8. Flagged(handle, should_work)'
  <2> HIDE DEF handles
  <2> QED
    BY <1>2, <1>3, <1>4, <1>7 DEF Flagged, Consistent
<1>9. Supervised'
  <2> HIDE DEF handles
  <2> QED
    BY <1>1, <1>2, <1>3, <1>8 DEF Supervised, CountersExact, QueueNotEmpty
<1>10. /\ phase = "reaping" /\ phase' = "loop" /\ zombies' = zombies \ {t}
       /\ UNCHANGED <<sigchld, tg, exit_state, requests, run_levels>>
  BY DEF ReapThrows
<1>11. \A u \in zombies' : InTransition(handle'[u])
  <2>1. \A u \in zombies' : u \in Tasks \ {t} /\ InTransition(handle[u])
    BY <1>1, <1>10, KindAssumption DEF Surroundings
  <2> HIDE DEF handles
  <2> QED
    BY <1>3, <1>5, <2>1 DEF InTransition
<1>12. Surroundings'
  BY <1>1, <1>3, <1>10, <1>11 DEF Surroundings, CleanExit, Phases
<1> QED
  BY <1>9, <1>12, IndInvAssemble

\* The callback of a function queue keeps it.
LEMMA QueueEventInd == ASSUME IndInv, NEW t \in Tasks, QueueEvent(t) PROVE IndInv'
<1> DEFINE q == [fq EXCEPT ![t] = @ - 1]
           n == notified \ {t}
<1>1. Supervised /\ Surroundings /\ t \in notified
  BY IndInvSplit DEF QueueEvent
<1>2. /\ should_work' = should_work
      /\ Sync({t}, handle)
      /\ \/ EnqueueAll(handle, q, n, Affected(t, handle[t]))
         \/ EnqueueAllThrows(handle, q, n, AffectedOrder(t, handle[t]))
  BY DEF QueueEvent
<1>3. /\ TypeOK /\ CountersExact
      /\ handle \in [Tasks -> Handle]
      /\ should_work' \in Flags
      /\ HandleShape(handle) /\ OrderOf(handle) /\ WantedClosed(should_work')
      /\ CountedRuns(handle, should_work', counted_in_dependants)
      /\ UncountedStopped(handle, should_work', counted_in_dependencies)
      /\ UncountedSettled(handle, should_work', counted_in_pending_tasks)
  BY <1>1, <1>2 DEF Supervised, Flagged, Consistent, IndInv
<1>4. Consistent(handle, should_work', counted_in_dependencies', counted_in_dependants',
                 counted_in_pending_tasks')
  <2>1. \A u \in Tasks \ {t} :
           /\ counted_in_dependants[u] /\ should_work'[u] => AffectDependants(handle[u])
           /\ ~counted_in_dependencies[u] /\ ~should_work'[u] => ~AffectDependencies(handle[u])
           /\ ~counted_in_pending_tasks[u] => ~AffectPendingTasks(handle[u], should_work'[u])
    BY <1>3 DEF CountedRuns, UncountedStopped, UncountedSettled
  <2> QED
    BY <1>2, <1>3, <2>1, SyncConsistent
<1>5. /\ q \in [Tasks -> Nat]
      /\ n \in SUBSET (Tasks \ StartStop)
      /\ \A u \in n : q[u] > 0
  <2>1. /\ fq \in [Tasks -> Nat] /\ notified \in SUBSET (Tasks \ StartStop)
        /\ \A u \in notified : fq[u] > 0
    BY <1>1 DEF Supervised, QueueNotEmpty
  <2> QED
    BY <1>1, <2>1
<1>6. /\ Affected(t, handle[t]) \in SUBSET Tasks
      /\ \A f \in DOMAIN AffectedOrder(t, handle[t]) : AffectedOrder(t, handle[t])[f] \subseteq Tasks
  BY NeighboursAreTasks
<1>7. /\ Supervised'
      /\ \A u \in Tasks : InTransition(handle[u]) => InTransition(handle'[u])
  <2> HIDE DEF q, n
  <2> QED
    BY <1>2, <1>3, <1>4, <1>5, <1>6, SyncThenEnqueue
<1>8. /\ phase = "loop"
      /\ UNCHANGED <<zombies, sigchld, tg, phase, exit_state, requests, run_levels>>
  BY DEF QueueEvent, kernelVars, mainVars, Dispatching
<1>9. zombies \subseteq Tasks
  BY <1>1, KindAssumption DEF Surroundings
<1>10. Surroundings'
  BY <1>1, <1>2, <1>7, <1>8, <1>9 DEF Surroundings, CleanExit
<1> QED
  BY <1>7, <1>10, IndInvAssemble

\* has_pending_operations is exact enough for main: when it says no, every task is
\* where its flag says.
LEMMA NothingPending ==
    ASSUME IndInv, pending_tasks = 0, NEW t \in Tasks
    PROVE  ~AffectPendingTasks(handle[t], should_work[t])
<1>1. counted_in_pending_tasks \in [Tasks -> BOOLEAN] /\ CountTrue(counted_in_pending_tasks) = 0
  BY DEF IndInv, TypeOK, CountersExact
<1>2. IsFiniteSet(Tasks)
  BY FiniteEdges
<1>3. ~counted_in_pending_tasks[t]
  BY <1>1, <1>2, CountZero
<1> QED
  BY <1>3 DEF IndInv, Consistent, UncountedSettled

\* main leaves its loop with nothing pending, which is what CleanExit asks for.
LEMMA LeaveLoopInd == ASSUME IndInv, LeaveLoop PROVE IndInv'
<1>1. Supervised /\ Surroundings
  BY IndInvSplit
<1>2. Supervised'
  BY <1>1, SupervisedUnchanged DEF LeaveLoop, boundVars
<1>3. /\ phase' = "unwinding" /\ exit_state' = tg /\ tg # "running" /\ pending_tasks = 0
      /\ UNCHANGED <<should_work, handle, zombies, sigchld, tg, requests, run_levels>>
  BY DEF LeaveLoop, IsActive, taskVars, handleVars, kernelVars, boundVars
<1>4. ASSUME NEW t \in Tasks PROVE ~AffectDependencies(handle[t]) /\ ~handle[t].created
  <2>1. ~should_work[t]
    BY <1>1, <1>3 DEF Surroundings
  <2>2. ~AffectPendingTasks(handle[t], should_work[t])
    BY <1>3, NothingPending
  <2>3. handle[t].running \in BOOLEAN /\ should_work[t] \in BOOLEAN
    BY <1>1 DEF Supervised, Handle, Flags
  <2>4. ~AffectDependencies(handle[t])
    BY <2>1, <2>2, <2>3 DEF AffectPendingTasks, AffectDependencies
  <2> QED
    BY <1>1, <2>4 DEF Supervised, Flagged, Consistent, HandleShape, AffectDependencies
<1>5. Surroundings'
  BY <1>1, <1>3, <1>4 DEF Surroundings, CleanExit, Phases
<1> QED
  BY <1>2, <1>5, IndInvAssemble

\* The destructors keep it.
LEMMA DestroyInd == ASSUME IndInv, Destroy PROVE IndInv'
<1>1. Supervised /\ Surroundings
  BY IndInvSplit
<1>2. /\ phase = "unwinding" /\ phase' \in {"exited", "aborted"}
      /\ UNCHANGED <<should_work, stopped_dependencies, running_dependants, counted_in_dependencies>>
      /\ UNCHANGED <<counted_in_dependants, counted_in_pending_tasks, pending_tasks, fq, notified>>
      /\ UNCHANGED <<zombies, sigchld, tg, exit_state, requests, fork_failures, run_levels>>
      /\ handle' = handle \/ handle' = [t \in Tasks |-> [handle[t] EXCEPT !.created = FALSE]]
  BY DEF Destroy, taskVars, counterVars, kernelVars, boundVars
<1>3. /\ handle' \in [Tasks -> Handle]
      /\ \A t \in Tasks : /\ handle'[t].running = handle[t].running
                          /\ handle'[t].current_operation = handle[t].current_operation
                          /\ handle'[t].created => handle[t].created
  BY <1>1, <1>2 DEF Supervised, Handle
<1>4. \A t \in Tasks : /\ InTransition(handle'[t]) = InTransition(handle[t])
                       /\ AffectDependencies(handle'[t]) = AffectDependencies(handle[t])
                       /\ AffectDependants(handle'[t]) = AffectDependants(handle[t])
                       /\ AffectPendingTasks(handle'[t], should_work[t])
                            = AffectPendingTasks(handle[t], should_work[t])
  BY <1>3 DEF InTransition, AffectDependencies, AffectDependants, AffectPendingTasks
<1>5. Flagged(handle, should_work)'
  <2>1. HandleShape(handle')
    BY <1>1, <1>3, <1>4 DEF Supervised, Flagged, Consistent, HandleShape
  <2>2. \A t \in Tasks : Dependencies(t) \subseteq Tasks
    BY DepsAssumption DEF Dependencies
  <2>3. OrderOf(handle')
    BY <1>1, <1>4, <2>2 DEF Supervised, Flagged, Consistent, OrderOf
  <2>4. /\ CountedRuns(handle', should_work, counted_in_dependants)
        /\ UncountedStopped(handle', should_work, counted_in_dependencies)
        /\ UncountedSettled(handle', should_work, counted_in_pending_tasks)
    BY <1>1, <1>4 DEF Supervised, Flagged, Consistent, CountedRuns, UncountedStopped, UncountedSettled
  <2> QED
    BY <1>1, <1>2, <2>1, <2>3, <2>4 DEF Supervised, Flagged, Consistent
<1>6. Supervised'
  BY <1>1, <1>2, <1>3, <1>5 DEF Supervised, CountersExact, QueueNotEmpty
<1>7. zombies \subseteq Tasks
  BY <1>1, KindAssumption DEF Surroundings
<1>8. Surroundings'
  BY <1>1, <1>2, <1>3, <1>4, <1>7 DEF Surroundings, CleanExit, Phases
<1> QED
  BY <1>6, <1>8, IndInvAssemble

\* The invariant depends on the variables only.
LEMMA StutterInd == ASSUME IndInv, UNCHANGED vars PROVE IndInv'
<1>1. Supervised /\ Surroundings
  BY IndInvSplit
<1>2. UNCHANGED <<taskVars, handleVars>> /\ fork_failures' = fork_failures
  BY DEF vars, boundVars
<1>3. Supervised'
  BY <1>1, <1>2, SupervisedUnchanged
<1>4. UNCHANGED <<should_work, handle, zombies, sigchld, tg, phase, exit_state, requests, run_levels>>
  BY DEF vars, taskVars, handleVars, kernelVars, mainVars, boundVars
<1>5. Surroundings'
  BY <1>1, <1>4 DEF Surroundings, CleanExit
<1> QED
  BY <1>3, <1>5, IndInvAssemble

\* Every step keeps the invariant.
LEMMA NextInd == ASSUME IndInv, [Next]_vars PROVE IndInv'
<1>1. CASE Boot
  BY <1>1, BootInd
<1>2. CASE BootWithoutDefault
  BY <1>2, BootWithoutDefaultInd
<1>3. CASE Signal
  BY <1>3, ShutDownInd DEF Signal
<1>4. CASE ControlShutDown
  BY <1>4, ShutDownInd DEF ControlShutDown
<1>5. ASSUME NEW name \in Names, SetRunLevel(name) \/ SetUnknownRunLevel(name) PROVE IndInv'
  BY <1>5, SetRunLevelInd, SetUnknownRunLevelInd
<1>6. CASE SigchldEvent
  BY <1>6, SigchldEventInd
<1>7. CASE ReapNone
  BY <1>7, ReapNoneInd
<1>8. ASSUME NEW t \in Tasks, ChildExit(t) \/ Reap(t) \/ ReapThrows(t) \/ QueueEvent(t) PROVE IndInv'
  BY <1>8, ChildExitInd, ReapInd, ReapThrowsInd, QueueEventInd
<1>9. CASE LeaveLoop
  BY <1>9, LeaveLoopInd
<1>10. CASE Destroy
  BY <1>10, DestroyInd
<1>11. CASE UNCHANGED vars
  BY <1>11, StutterInd
<1> QED
  BY <1>1, <1>2, <1>3, <1>4, <1>5, <1>6, <1>7, <1>8, <1>9, <1>10, <1>11 DEF Next

-----------------------------------------------------------------------------
(* Theorems *)

\* The inductive invariant holds in every reachable state: flags, counters and handles
\* of struct task stay consistent through every callback, failed forks included.
THEOREM Inductive == Spec => []IndInv
<1>1. Init => IndInv
  BY InitIndInv
<1>2. IndInv /\ [Next]_vars => IndInv'
  BY NextInd
<1> QED
  BY <1>1, <1>2, PTL DEF Spec

\* Every variable keeps the type of its C++ member; no counter wraps below zero.
THEOREM TypeCorrect == Spec => []TypeOK
<1>1. IndInv => TypeOK
  BY DEF IndInv
<1> QED
  BY <1>1, Inductive, PTL

\* The incremental counters of task::sync equal a recount, for every graph.
THEOREM CountersCorrect == Spec => []CountersExact
<1>1. IndInv => CountersExact
  BY DEF IndInv
<1> QED
  BY <1>1, Inductive, PTL

\* No task is up, coming up or going down without all its dependencies up.
THEOREM OrderCorrect == Spec => []DependencyOrder
<1>1. IndInv => DependencyOrder
  BY DEF IndInv, Consistent, OrderOf, DependencyOrder
<1> QED
  BY <1>1, Inductive, PTL

\* A task not counted in pending_tasks is settled.
THEOREM PendingCorrect == Spec => []PendingComplete
<1>1. IndInv => PendingComplete
  BY DEF IndInv, Consistent, UncountedSettled, PendingComplete
<1> QED
  BY <1>1, Inductive, PTL

\* main leaves its loop only when every task is down, so the assertions of the
\* destructors hold after every shutdown.
THEOREM ExitCorrect == Spec => []CleanExit
<1>1. IndInv => CleanExit
  BY DEF IndInv
<1> QED
  BY <1>1, Inductive, PTL

\* No queue is popped when it is empty.
THEOREM QueueCorrect == Spec => []QueueNotEmpty
<1>1. IndInv => QueueNotEmpty
  BY DEF IndInv
<1> QED
  BY <1>1, Inductive, PTL

\* Children are reaped for the operation that forked them.
THEOREM ReapCorrect == Spec => []ReapMatchesOperation
<1>1. IndInv => ReapMatchesOperation
  BY DEF IndInv, Consistent, HandleShape, ReapMatchesOperation
<1> QED
  BY <1>1, Inductive, PTL

-----------------------------------------------------------------------------
(* The refinement *)

\* A legal change of one task as Supervision sees it, from handle h to handle g.
LegalMove(h, g, want) ==
    \/ Status(g) = Status(h)
    \/ Status(h) = "stopped" /\ want /\ Status(g) \in {"starting", "running"}
    \/ Status(h) = "starting" /\ Status(g) \in {"running", "stopping"}
    \/ Status(h) = "running" /\ ~want /\ Status(g) \in {"stopping", "stopped"}
    \/ Status(h) = "stopping" /\ Status(g) \in {"stopped", "starting"}

\* The status of a handle is determined by running and current_operation.
LEMMA StatusOf ==
    ASSUME NEW h \in Handle
    PROVE  /\ Status(h) \in {"stopped", "starting", "running", "stopping"}
           /\ Status(h) # "stopped" <=> AffectDependencies(h)
           /\ Status(h) = "running" <=> AffectDependants(h)
  BY DEF Status, Handle, Operations, AffectDependencies, AffectDependants, InTransition

\* enqueue_this moves a handle legally.
LEMMA EnqueueOneMoves ==
    ASSUME NEW t \in Tasks, NEW h \in Handle, NEW g, NEW ok \in BOOLEAN,
           should_work'[t] \in BOOLEAN,
           \/ g = EnqueueThis(t, h, ok)
           \/ g = [h EXCEPT !.should_work = should_work'[t]]
           \/ g = h,
           h.current_operation = "start" => ~h.running,
           h.current_operation = "stop" => h.running
    PROVE  LegalMove(h, g, should_work'[t])
<1>1. CASE g = EnqueueThis(t, h, ok) /\ t \in StartStop
  BY <1>1 DEF EnqueueThis, Starts, Stops, SetShouldWork, EnqueueJob, InTransition, Handle, Operations,
              LegalMove, Status
<1>2. CASE g = EnqueueThis(t, h, ok) /\ t \notin StartStop
  <2>1. CASE InTransition(h)
    BY <1>2, <2>1 DEF EnqueueThis, Starts, Stops, SetShouldWork, InTransition, Handle, Operations,
              LegalMove, Status
  <2>2. CASE ~InTransition(h)
    BY <1>2, <2>2 DEF EnqueueThis, Starts, Stops, SetShouldWork, InTransition, Handle, Operations,
              LegalMove, Status
  <2> QED
    BY <2>1, <2>2
<1>3. CASE g = [h EXCEPT !.should_work = should_work'[t]]
  BY <1>3 DEF Handle, LegalMove, Status
<1>4. CASE g = h
  BY <1>4 DEF LegalMove
<1> QED
  BY <1>1, <1>2, <1>3, <1>4

\* enqueue_all moves the handles legally and touches no other.
LEMMA EnqueueMoves ==
    ASSUME NEW h \in [Tasks -> Handle], HandleShape(h), should_work' \in Flags,
           NEW q, NEW n, NEW T, NEW before, \A f \in DOMAIN before : before[f] \subseteq T,
           DOMAIN before \subseteq T,
           EnqueueAll(h, q, n, T) \/ EnqueueAllThrows(h, q, n, before),
           NEW t \in Tasks
    PROVE  /\ LegalMove(h[t], handle'[t], should_work'[t])
           /\ t \notin T => handle'[t] = h[t]
<1>1. PICK done \in SUBSET T, failed \in SUBSET T, bad \in SUBSET Fallible :
         EnqueueTasks(h, q, n, done, failed, bad)
  BY DEF EnqueueAll, EnqueueAllThrows
<1>2. /\ \/ handle'[t] = EnqueueThis(t, h[t], t \notin bad)
         \/ handle'[t] = [h[t] EXCEPT !.should_work = should_work'[t]]
         \/ handle'[t] = h[t]
      /\ t \notin T => handle'[t] = h[t]
  BY <1>1, SMT DEF EnqueueTasks
<1>3. h[t] \in Handle /\ should_work'[t] \in BOOLEAN /\ (t \notin bad) \in BOOLEAN
  BY DEF Flags
<1>4. /\ h[t].current_operation = "start" => ~h[t].running
      /\ h[t].current_operation = "stop" => h[t].running
  BY DEF HandleShape
<1> QED
  BY <1>2, <1>3, <1>4, EnqueueOneMoves

\* The end of an operation, with or without the opposite operation after it.
LEMMA CompletionMoves ==
    ASSUME NEW h \in Handle, InTransition(h), NEW g, NEW want,
           g = Completed(h) \/ g = EnqueueJob(Completed(h))
    PROVE  LegalMove(h, g, want)
<1>1. CASE h.current_operation = "start"
  <2>1. Completed(h) = [h EXCEPT !.running = TRUE, !.current_operation = "none"]
    BY <1>1 DEF Completed
  <2> QED
    BY <1>1, <2>1 DEF EnqueueJob, InTransition, Handle, Operations, LegalMove, Status
<1>2. CASE h.current_operation = "stop"
  <2>1. Completed(h) = [h EXCEPT !.running = FALSE, !.current_operation = "none"]
    BY <1>2 DEF Completed
  <2> QED
    BY <1>2, <2>1 DEF EnqueueJob, InTransition, Handle, Operations, LegalMove, Status
<1> QED
  BY <1>1, <1>2 DEF InTransition, Handle, Operations

\* A change of the run level moves the handles legally.
LEMMA RunLevelMoves ==
    ASSUME IndInv, NEW W, SetWanted(W), should_work' \in Flags,
           EnqueueEverything \/ EnqueueEverythingThrows, NEW t \in Tasks
    PROVE  LegalMove(handle[t], handle'[t], should_work'[t])
<1>1. handle \in [Tasks -> Handle] /\ HandleShape(handle)
  BY DEF IndInv, TypeOK, Consistent
<1>2. /\ \A f \in DOMAIN InTaskOrder(Tasks) : InTaskOrder(Tasks)[f] \subseteq Tasks
      /\ DOMAIN InTaskOrder(Tasks) \subseteq Tasks
  BY DEF InTaskOrder
<1> QED
  BY <1>1, <1>2, EnqueueMoves DEF EnqueueEverything, EnqueueEverythingThrows

\* The callback enqueues no task but the neighbours it is meant for.
LEMMA AffectedWithin ==
    ASSUME NEW t \in Tasks, NEW h
    PROVE  /\ DOMAIN AffectedOrder(t, h) \subseteq Affected(t, h)
           /\ \A f \in DOMAIN AffectedOrder(t, h) : AffectedOrder(t, h)[f] \subseteq Affected(t, h)
<1>1. /\ DOMAIN InTaskOrder(Dependants(t)) \subseteq Dependants(t)
      /\ \A f \in DOMAIN InTaskOrder(Dependants(t)) : InTaskOrder(Dependants(t))[f] \subseteq Dependants(t)
  BY DEF InTaskOrder
<1>2. /\ DOMAIN InDepsOrder(t) \subseteq Dependencies(t)
      /\ \A f \in DOMAIN InDepsOrder(t) : InDepsOrder(t)[f] \subseteq Dependencies(t)
  BY DEF InDepsOrder, Dependencies
<1> QED
  BY <1>1, <1>2 DEF Affected, AffectedOrder

\* No step of the supervisor moves a task illegally.
LEMMA StepMoves ==
    ASSUME IndInv, IndInv', Next, NEW t \in Tasks
    PROVE  LegalMove(handle[t], handle'[t], should_work'[t])
<1>1. /\ should_work' \in Flags
      /\ handle \in [Tasks -> Handle] /\ HandleShape(handle)
      /\ zombies \subseteq Tasks
  BY KindAssumption DEF IndInv, TypeOK, Flags, Consistent
<1>2. CASE handle' = handle
  BY <1>2 DEF LegalMove
<1>3. CASE Boot
  BY <1>1, <1>3, RunLevelMoves DEF Boot
<1>4. CASE Signal \/ ControlShutDown
  BY <1>1, <1>4, RunLevelMoves DEF Signal, ControlShutDown, ShutDown
<1>5. ASSUME NEW name \in Names, SetRunLevel(name)
      PROVE  LegalMove(handle[t], handle'[t], should_work'[t])
  BY <1>1, <1>5, RunLevelMoves DEF SetRunLevel
<1>6. ASSUME NEW u \in Tasks, Reap(u)
      PROVE  LegalMove(handle[t], handle'[t], should_work'[t])
  <2> DEFINE h == EnqueueJob(Completed(handle[u]))
             handles == [handle EXCEPT ![u] = h]
  <2>1. u \in zombies
    BY <1>6 DEF Reap
  <2>2. /\ u \notin Dependencies(u) /\ InTransition(handle[u])
        /\ handles \in [Tasks -> Handle] /\ HandleShape(handles)
    BY <2>1, CompletedHandle
  <2>3. \/ EnqueueAll(handles, fq, notified, Affected(u, h))
        \/ EnqueueAllThrows(handles, fq, notified, AffectedOrder(u, h))
    BY <1>6 DEF Reap
  <2>4. /\ LegalMove(handles[t], handle'[t], should_work'[t])
        /\ t \notin Affected(u, h) => handle'[t] = handles[t]
    <3> HIDE DEF h, handles
    <3> QED
      BY <1>1, <2>2, <2>3, AffectedWithin, EnqueueMoves
  <2>5. u \notin Affected(u, h)
    BY <2>2 DEF Affected, Dependants
  <2>6. CASE t = u
    <3>1. handle'[t] = h
      BY <1>1, <2>4, <2>5, <2>6
    <3>2. LegalMove(handle[t], h, should_work'[t])
      BY <1>1, <2>2, <2>6, CompletionMoves
    <3> QED
      BY <3>1, <3>2
  <2>7. CASE t # u
    <3>1. handles[t] = handle[t]
      BY <1>1, <2>7
    <3> QED
      BY <2>4, <3>1
  <2> QED
    BY <2>6, <2>7
<1>7. ASSUME NEW u \in Tasks, ReapThrows(u)
      PROVE  LegalMove(handle[t], handle'[t], should_work'[t])
  <2>1. u \in zombies /\ handle' = [handle EXCEPT ![u] = Completed(handle[u])]
    BY <1>7 DEF ReapThrows
  <2>2. InTransition(handle[u])
    BY <2>1 DEF IndInv
  <2>3. LegalMove(handle[u], Completed(handle[u]), should_work'[t])
    BY <1>1, <2>2, CompletionMoves
  <2>4. CASE t = u
    BY <1>1, <2>1, <2>3, <2>4
  <2>5. CASE t # u
    <3>1. handle'[t] = handle[t]
      BY <1>1, <2>1, <2>5
    <3> QED
      BY <3>1 DEF LegalMove
  <2> QED
    BY <2>4, <2>5
<1>8. ASSUME NEW u \in Tasks, QueueEvent(u)
      PROVE  LegalMove(handle[t], handle'[t], should_work'[t])
  <2>1. PICK q, n : \/ EnqueueAll(handle, q, n, Affected(u, handle[u]))
                    \/ EnqueueAllThrows(handle, q, n, AffectedOrder(u, handle[u]))
    BY <1>8 DEF QueueEvent
  <2> QED
    BY <1>1, <2>1, AffectedWithin, EnqueueMoves
<1>9. CASE Destroy
  <2>1. handle' = handle \/ handle'[t] = [handle[t] EXCEPT !.created = FALSE]
    BY <1>9 DEF Destroy
  <2>2. Status(handle'[t]) = Status(handle[t])
    BY <1>1, <2>1 DEF Status, Handle
  <2> QED
    BY <2>2 DEF LegalMove
<1>10. CASE BootWithoutDefault \/ SigchldEvent \/ ReapNone \/ LeaveLoop
  BY <1>2, <1>10 DEF BootWithoutDefault, SigchldEvent, ReapNone, LeaveLoop, handleVars
<1>11. ASSUME NEW name \in Names, SetUnknownRunLevel(name)
       PROVE  LegalMove(handle[t], handle'[t], should_work'[t])
  BY <1>2, <1>11 DEF SetUnknownRunLevel, handleVars
<1>12. ASSUME NEW u \in Tasks, ChildExit(u)
       PROVE  LegalMove(handle[t], handle'[t], should_work'[t])
  BY <1>2, <1>12 DEF ChildExit, handleVars
<1> QED
  BY <1>3, <1>4, <1>5, <1>6, <1>7, <1>8, <1>9, <1>10, <1>11, <1>12 DEF Next

-----------------------------------------------------------------------------

Over == phase \in {"unwinding", "exited", "aborted"} /\ tg # "running"

\* How the phases of main move: only LeaveLoop ends supervision, and what
\* happens afterwards changes neither flags nor the status of a task.
LEMMA StepPhases ==
    ASSUME IndInv, Next
    PROVE  \/ ~Over /\ ~Over'
           \/ LeaveLoop /\ ~Over /\ Over'
           \/ Destroy /\ Over /\ Over'
<1>1. IndInv => (phase = "boot" => tg = "running")
  BY DEF IndInv
<1>2. CASE Boot
  BY <1>1, <1>2 DEF Boot, Over
<1>3. CASE BootWithoutDefault
  BY <1>1, <1>3 DEF BootWithoutDefault, Over
<1>4. CASE Signal \/ ControlShutDown
  BY <1>4 DEF Signal, ControlShutDown, ShutDown, Request, Dispatching, Over
<1>5. ASSUME NEW name \in Names, SetRunLevel(name) \/ SetUnknownRunLevel(name)
      PROVE  ~Over /\ ~Over'
  BY <1>5 DEF SetRunLevel, SetUnknownRunLevel, Request, Dispatching, Over
<1>6. CASE SigchldEvent \/ ReapNone
  BY <1>6 DEF SigchldEvent, ReapNone, Dispatching, Over
<1>7. ASSUME NEW t \in Tasks, ChildExit(t) \/ Reap(t) \/ ReapThrows(t) \/ QueueEvent(t)
      PROVE  ~Over /\ ~Over'
  BY <1>7 DEF ChildExit, Reap, ReapThrows, QueueEvent, mainVars, Dispatching, Over
<1>8. CASE LeaveLoop
  BY <1>8 DEF LeaveLoop, IsActive, Over
<1>9. CASE Destroy
  BY <1>9 DEF Destroy, Over
<1> QED
  BY <1>2, <1>3, <1>4, <1>5, <1>6, <1>7, <1>8, <1>9 DEF Next

\* Every step of the supervisor is a step of Supervision or a stutter.
LEMMA StepImplements ==
    ASSUME IndInv, IndInv', [Next]_vars
    PROVE  [Promise!Next]_(Promise!vars)
<1> DEFINE st == [t \in Tasks |-> Status(handle[t])]
           wanted == {t \in Tasks : should_work[t]}
<1>1. /\ handle \in [Tasks -> Handle] /\ handle' \in [Tasks -> Handle]
      /\ should_work \in Flags /\ should_work' \in Flags
      /\ OrderOf(handle') /\ WantedClosed(should_work')
  BY DEF IndInv, TypeOK, Flags, Consistent
<1>2. CASE UNCHANGED vars
  <2>1. UNCHANGED <<handle, should_work, phase, tg>>
    BY <1>2 DEF vars, taskVars, handleVars, mainVars
  <2> QED
    BY <2>1 DEF Promise!vars
<1>3. ASSUME Next, ~Over, ~Over'
      PROVE  Promise!Supervise
  <2>1. wanted' \in SUBSET Tasks /\ Promise!ClosedUnder(wanted')
    <3>1. \A t \in Tasks : Dependencies(t) \subseteq Tasks
      BY DepsAssumption DEF Dependencies
    <3> QED
      BY <1>1, <3>1 DEF Promise!ClosedUnder, WantedClosed
  <2>2. st' \in [Tasks -> Promise!States]
    BY <1>1, StatusOf DEF Promise!States
  <2>3. Promise!Ordered(st')
    <3>1. \A t \in Tasks : /\ Status(handle'[t]) # "stopped" <=> AffectDependencies(handle'[t])
                           /\ Status(handle'[t]) = "running" <=> AffectDependants(handle'[t])
      BY <1>1, StatusOf
    <3>2. \A t \in Tasks : Dependencies(t) \subseteq Tasks
      BY DepsAssumption DEF Dependencies
    <3> QED
      BY <1>1, <3>1, <3>2 DEF Promise!Ordered, OrderOf
  <2>4. ASSUME NEW t \in Tasks PROVE Promise!Move(t)
    <3>1. LegalMove(handle[t], handle'[t], should_work'[t])
      BY <1>3, StepMoves
    <3>2. Status(handle[t]) \in {"stopped", "starting", "running", "stopping"}
      BY <1>1, StatusOf
    <3> QED
      BY <3>1, <3>2 DEF Promise!Move, LegalMove
  <2>5. UNCHANGED (phase \in {"unwinding", "exited", "aborted"} /\ tg # "running")
    BY <1>3 DEF Over
  <2> QED
    BY <1>3, <2>1, <2>2, <2>3, <2>4, <2>5 DEF Promise!Supervise, Over
<1>4. ASSUME LeaveLoop, ~Over, Over'
      PROVE  Promise!Leave
  <2>1. /\ UNCHANGED <<handle, should_work>>
        /\ tg # "running" /\ pending_tasks = 0
    BY <1>4 DEF LeaveLoop, IsActive, taskVars, handleVars
  <2>2. \A t \in Tasks : ~should_work[t]
    BY <2>1 DEF IndInv
  <2>3. ASSUME NEW t \in Tasks PROVE Status(handle[t]) = "stopped"
    <3>1. ~AffectDependencies(handle'[t])
      BY <1>4 DEF IndInv, CleanExit, Over
    <3> QED
      BY <1>1, <2>1, <3>1, StatusOf
  <2>4. (phase \in {"unwinding", "exited", "aborted"} /\ tg # "running")' = TRUE
    BY <1>4 DEF Over
  <2> QED
    BY <1>4, <2>1, <2>2, <2>3, <2>4 DEF Promise!Leave, Over
<1>5. ASSUME Destroy, Over, Over'
      PROVE  UNCHANGED Promise!vars
  <2>1. should_work' = should_work
    BY <1>5 DEF Destroy, taskVars
  <2>2. ASSUME NEW t \in Tasks PROVE Status(handle'[t]) = Status(handle[t])
    <3>1. handle' = handle \/ handle'[t] = [handle[t] EXCEPT !.created = FALSE]
      BY <1>5 DEF Destroy
    <3> QED
      BY <1>1, <3>1 DEF Status, Handle
  <2>3. UNCHANGED st
    BY <2>2
  <2> QED
    BY <1>5, <2>1, <2>3 DEF Promise!vars, Over
<1> QED
  BY <1>2, <1>3, <1>4, <1>5, StepPhases DEF Promise!Next

\* The supervisor implements Supervision, for every graph, every kind of tasks, any
\* number of requests and any number of failed forks.
THEOREM Refinement == Spec => ImplementsPromise
<1>1. Init => Promise!Init
  BY DEF Init, InitialHandle, Promise!Init, Status
<1>2. IndInv /\ IndInv' /\ [Next]_vars => [Promise!Next]_(Promise!vars)
  BY StepImplements
<1> QED
  BY <1>1, <1>2, Inductive, PTL DEF Spec, ImplementsPromise, Promise!Spec

\* A task that both the old and the new run level want is never stopped or restarted.
THEOREM WantedLeftAlone == Spec => KeepsWanted
<1>1. ASSUME IndInv, IndInv', [Next]_vars, NEW t \in Tasks,
             AffectDependants(handle[t]), should_work[t], should_work'[t]
      PROVE  AffectDependants(handle'[t])
  <2>1. handle[t] \in Handle /\ handle'[t] \in Handle
    BY <1>1 DEF IndInv, TypeOK
  <2>2. CASE Next
    <3>1. LegalMove(handle[t], handle'[t], should_work'[t])
      BY <1>1, <2>2, StepMoves
    <3> QED
      BY <1>1, <2>1, <3>1, StatusOf DEF LegalMove
  <2>3. CASE UNCHANGED vars
    BY <1>1, <2>3 DEF vars, handleVars
  <2> QED
    BY <1>1, <2>2, <2>3
<1>2. IndInv /\ IndInv' /\ [Next]_vars =>
        [\A t \in Tasks : AffectDependants(handle[t]) /\ should_work[t] /\ should_work'[t]
                            => AffectDependants(handle'[t])]_vars
  BY <1>1
<1> QED
  BY <1>2, Inductive, PTL DEF Spec, KeepsWanted

-----------------------------------------------------------------------------
(* Wakeups: the invariant, in terms of handles h and notified queues n, so that *)
(* it can be asserted between the sync and the enqueue_all of a callback too.    *)

\* A handle at rest is where it was last told to be.
Steady(h) == \A t \in Tasks : ~InTransition(h[t]) => h[t].should_work = h[t].running

\* The flags of t are what task::sync would make them.
Synced(t, g) ==
    /\ counted_in_dependencies[t] = AffectDependencies(g)
    /\ counted_in_dependants[t] = AffectDependants(g)
    /\ counted_in_pending_tasks[t] = AffectPendingTasks(g, should_work[t])

Updated(t, g, n) == Synced(t, g) \/ t \in n \/ InTransition(g)

\* t has been told if its counters let it go where its flag says.
Told(t, g) ==
    /\ should_work[t] /\ stopped_dependencies[t] = 0 => g.should_work
    /\ ~should_work[t] /\ running_dependants[t] = 0 => ~g.should_work

NoFailure == fork_failures = 0

\* NoLostUpdate is inductive as it stands.  NoMissedWakeup is not: a task that rests
\* where its flag says is not told again, so it has to be known that it was told.
WakeInv ==
    /\ phase = "boot" => zombies = {}
    /\ phase = "loop" /\ NoFailure /\ zombies # {} => sigchld
    /\ phase \in {"boot", "loop", "reaping"} /\ NoFailure => Steady(handle)
    /\ phase \in {"loop", "reaping"} /\ NoFailure =>
         \A t \in Tasks : Updated(t, handle[t], notified) /\ Told(t, handle[t])

-----------------------------------------------------------------------------
(* What an enqueue_all that is not cut short does *)

\* enqueue_this: the handle g that it leaves of h.
LEMMA EnqueuedHandle ==
    ASSUME NEW t \in Tasks, NEW h \in Handle, NEW ok \in BOOLEAN, NEW g,
           g = EnqueueThis(t, h, ok),
           should_work'[t] \in BOOLEAN,
           InTransition(h) => t \in StartStop,
           ~InTransition(h) => h.should_work = h.running
    PROVE  /\ ~InTransition(g) => g.should_work = g.running
           /\ InTransition(h) => InTransition(g)
           /\ g = h \/ InTransition(g) \/ (t \notin StartStop /\ (Starts(t, h) \/ Stops(t, h)))
           /\ should_work'[t] /\ stopped_dependencies'[t] = 0 => g.should_work
           /\ ~should_work'[t] /\ running_dependants'[t] = 0 => ~g.should_work
<1>1. CASE t \in StartStop /\ (Starts(t, h) \/ Stops(t, h))
  <2>1. g = EnqueueJob([h EXCEPT !.should_work = should_work'[t]])
    BY <1>1 DEF EnqueueThis, SetShouldWork
  <2> QED
    BY <1>1, <2>1 DEF EnqueueJob, InTransition, Starts, Stops, Handle, Operations
<1>2. CASE t \notin StartStop /\ (Starts(t, h) \/ Stops(t, h))
  BY <1>2 DEF EnqueueThis, SetShouldWork, InTransition, Starts, Stops, Handle, Operations
<1>3. CASE ~Starts(t, h) /\ ~Stops(t, h)
  <2>1. g = h
    BY <1>3 DEF EnqueueThis
  <2> QED
    BY <1>3, <2>1 DEF Starts, Stops, Handle
<1> QED
  BY <1>1, <1>2, <1>3

\* A callback that syncs the tasks of S and enqueues those of T forgets nobody, if
\* the tasks outside S were remembered and those outside T have nothing new to hear.
LEMMA CallbackWakes ==
    ASSUME NEW S, NEW T, NEW h \in [Tasks -> Handle], NEW q, NEW n,
           should_work' \in Flags, Sync(S, h), EnqueueAll(h, q, n, T),
           HandleShape(h), Steady(h),
           \A t \in Tasks \ S : should_work'[t] = should_work[t] /\ Updated(t, h[t], n),
           \A t \in Tasks \ T :
              /\ should_work'[t] /\ stopped_dependencies'[t] = 0 => h[t].should_work
              /\ ~should_work'[t] /\ running_dependants'[t] = 0 => ~h[t].should_work
    PROVE  /\ Steady(handle)'
           /\ \A t \in Tasks : Updated(t, handle[t], notified)' /\ Told(t, handle[t])'
<1>1. PICK bad : EnqueueTasks(h, q, n, T, {}, bad)
  BY DEF EnqueueAll
<1>2. ASSUME NEW t \in Tasks
      PROVE  /\ ~InTransition(handle'[t]) => handle'[t].should_work = handle'[t].running
             /\ InTransition(h[t]) => InTransition(handle'[t])
             /\ handle'[t] = h[t] \/ InTransition(handle'[t]) \/ t \in notified'
             /\ t \in n => t \in notified'
             /\ should_work'[t] /\ stopped_dependencies'[t] = 0 => handle'[t].should_work
             /\ ~should_work'[t] /\ running_dependants'[t] = 0 => ~handle'[t].should_work
  <2> DEFINE pushed == {u \in T \ StartStop : Starts(u, h[u]) \/ Stops(u, h[u])}
  <2>1. notified' = n \cup pushed
    BY <1>1 DEF EnqueueTasks
  <2>2. /\ h[t] \in Handle /\ should_work'[t] \in BOOLEAN
        /\ InTransition(h[t]) => t \in StartStop
        /\ ~InTransition(h[t]) => h[t].should_work = h[t].running
    BY DEF HandleShape, Steady, Flags
  <2>3. CASE t \in T
    <3>1. PICK ok \in BOOLEAN : handle'[t] = EnqueueThis(t, h[t], ok)
      BY <1>1, <2>3 DEF EnqueueTasks
    <3>2. t \notin StartStop /\ (Starts(t, h[t]) \/ Stops(t, h[t])) => t \in pushed
      BY <2>3
    <3>3. /\ ~InTransition(handle'[t]) => handle'[t].should_work = handle'[t].running
          /\ InTransition(h[t]) => InTransition(handle'[t])
          /\ \/ handle'[t] = h[t] \/ InTransition(handle'[t])
             \/ t \notin StartStop /\ (Starts(t, h[t]) \/ Stops(t, h[t]))
          /\ should_work'[t] /\ stopped_dependencies'[t] = 0 => handle'[t].should_work
          /\ ~should_work'[t] /\ running_dependants'[t] = 0 => ~handle'[t].should_work
      BY <2>2, <3>1, EnqueuedHandle
    <3> HIDE DEF pushed
    <3> QED
      BY <2>1, <3>2, <3>3
  <2>4. CASE t \notin T
    <3>1. handle'[t] = h[t]
      BY <1>1, <2>4 DEF EnqueueTasks
    <3> QED
      BY <2>1, <2>2, <2>4, <3>1
  <2> QED
    BY <2>3, <2>4
<1>3. Steady(handle)'
  BY <1>2 DEF Steady
<1>4. ASSUME NEW t \in Tasks
      PROVE  \/ Synced(t, h[t])'
             \/ t \in n
             \/ InTransition(h[t])
  <2>1. CASE t \in S
    BY <2>1, Zenon DEF Synced, Sync, SyncDependencies, SyncDependants, SyncPending
  <2>2. CASE t \notin S
    BY <2>2, Zenon DEF Updated, Synced, Sync, SyncDependencies, SyncDependants, SyncPending
  <2> QED
    BY <2>1, <2>2
<1>5. ASSUME NEW t \in Tasks PROVE Updated(t, handle[t], notified)' /\ Told(t, handle[t])'
  BY <1>2, <1>4 DEF Updated, Synced, Told
<1> QED
  BY <1>3, <1>5

-----------------------------------------------------------------------------
(* Which counters a sync of one task changes *)

\* A net change between equal flags is none.
LEMMA NetSame == ASSUME NEW f PROVE Net(f, f) = 0
<1>1. {x \in DOMAIN f : f[x] /\ ~f[x]} = {}
  OBVIOUS
<1>2. Cardinality({}) = 0
  BY FS_EmptySet
<1> QED
  BY <1>1, <1>2 DEF Net

\* A sync of t that lets a task u go is the sync of a neighbour: a dependency that came
\* up, or a dependant that went down.  The callback enqueues exactly that side.
LEMMA SyncFrees ==
    ASSUME IndInv, NEW t \in Tasks, NEW h \in [Tasks -> Handle],
           UNCHANGED should_work, Sync({t}, h),
           NEW u \in Tasks
    PROVE  /\ should_work[u] /\ stopped_dependencies'[u] = 0 /\ stopped_dependencies[u] # 0
                => u \in Affected(t, h[t])
           /\ ~should_work[u] /\ running_dependants'[u] = 0 /\ running_dependants[u] # 0
                => u \in Affected(t, h[t])
<1>1. /\ TypeOK /\ CountersExact /\ should_work' \in Flags
      /\ counted_in_dependencies \in Flags /\ counted_in_dependants \in Flags
  BY DEF IndInv, TypeOK, Flags
<1>2. /\ counted_in_dependencies' \in Flags /\ counted_in_dependants' \in Flags
      /\ CountersExact'
  BY <1>1, SyncCounts
<1>3. \A v \in Tasks \ {t} : /\ counted_in_dependencies'[v] = counted_in_dependencies[v]
                             /\ counted_in_dependants'[v] = counted_in_dependants[v]
  BY Zenon DEF Sync, SyncDependencies, SyncDependants
<1>4. /\ counted_in_dependencies'[t] = AffectDependencies(h[t])
      /\ counted_in_dependants'[t] = AffectDependants(h[t])
  BY Zenon DEF Sync, SyncDependencies, SyncDependants
<1>5. ASSUME should_work[u], stopped_dependencies'[u] = 0, stopped_dependencies[u] # 0
      PROVE  u \in Affected(t, h[t])
  <2>1. t \in Dependencies(u)
    <3> SUFFICES ASSUME t \notin Dependencies(u) PROVE FALSE
      OBVIOUS
    <3>1. OfDependencies(u, counted_in_dependants') = OfDependencies(u, counted_in_dependants)
      <4>1. \A i \in DOMAIN Deps[u] : Deps[u][i] \in Tasks \ {t}
        BY DepsAssumption DEF Dependencies
      <4> QED
        BY <1>3, <4>1 DEF OfDependencies
    <3>2. stopped_dependencies'[u] = stopped_dependencies[u] - 0
      BY <3>1, NetSame DEF Sync, SyncDependants
    <3> QED
      BY <1>1, <1>5, <3>2 DEF TypeOK
  <2>2. Starts(u, InitialHandle)
    BY <1>5 DEF Starts, InitialHandle
  <2>3. counted_in_dependants'[t]
    BY <1>2, <2>1, <2>2, CountersDecide
  <2>4. h[t].running
    BY <1>4, <2>3 DEF AffectDependants
  <2> QED
    BY <2>1, <2>4 DEF Affected, Dependants
<1>6. ASSUME ~should_work[u], running_dependants'[u] = 0, running_dependants[u] # 0
      PROVE  u \in Affected(t, h[t])
  <2>1. u \in Dependencies(t)
    <3> SUFFICES ASSUME u \notin Dependencies(t) PROVE FALSE
      OBVIOUS
    <3>1. OfDependants(u, counted_in_dependencies') = OfDependants(u, counted_in_dependencies)
      <4>1. \A e \in DependantEdges(u) : e[1] \in Tasks \ {t}
        BY DepsAssumption DEF DependantEdges, Dependencies
      <4> QED
        BY <1>3, <4>1 DEF OfDependants
    <3>2. running_dependants'[u] = running_dependants[u] + 0
      BY <3>1, NetSame DEF Sync, SyncDependencies
    <3> QED
      BY <1>1, <1>6, <3>2 DEF TypeOK
  <2> DEFINE up == [InitialHandle EXCEPT !.running = TRUE]
  <2>2. Stops(u, up)
    BY <1>6 DEF Stops, InitialHandle
  <2>3. t \in Dependants(u)
    BY <2>1 DEF Dependants
  <2>4. ~counted_in_dependencies'[t]
    <3> HIDE DEF up
    <3> QED
      BY <1>2, <2>2, <2>3, CountersDecide
  <2>5. ~h[t].running
    BY <1>4, <2>4 DEF AffectDependencies
  <2> QED
    BY <2>1, <2>5 DEF Affected
<1> QED
  BY <1>5, <1>6

\* What the tasks that a state-changed callback does not enqueue may have heard.
LEMMA NothingNew ==
    ASSUME IndInv, NEW t \in Tasks, NEW h \in [Tasks -> Handle],
           UNCHANGED should_work, Sync({t}, h),
           \A u \in Tasks : Told(u, handle[u]) /\ h[u].should_work = handle[u].should_work,
           NEW u \in Tasks \ Affected(t, h[t])
    PROVE  /\ should_work'[u] /\ stopped_dependencies'[u] = 0 => h[u].should_work
           /\ ~should_work'[u] /\ running_dependants'[u] = 0 => ~h[u].should_work
  BY SyncFrees DEF Told

-----------------------------------------------------------------------------
(* The invariant is inductive *)

\* Nothing has been started, and nothing is told, before the constructor of context.
LEMMA InitWake == Init => WakeInv
<1> SUFFICES ASSUME Init PROVE WakeInv
  OBVIOUS
<1>1. \A t \in Tasks : handle[t].should_work = FALSE /\ handle[t].running = FALSE
  BY DEF Init, InitialHandle
<1>2. phase = "boot" /\ zombies = {}
  BY DEF Init
<1> QED
  BY <1>1, <1>2 DEF WakeInv, Steady

\* A new run level syncs and enqueues every task.
LEMMA ChangeWakes ==
    ASSUME IndInv, Steady(handle), NEW W \in SUBSET Tasks, SetWanted(W), EnqueueEverything
    PROVE  /\ Steady(handle)'
           /\ \A t \in Tasks : Updated(t, handle[t], notified)' /\ Told(t, handle[t])'
<1>1. should_work' = [t \in Tasks |-> t \in W] /\ Sync(Tasks, handle)
  BY DEF SetWanted
<1>2. should_work' \in Flags
  BY <1>1 DEF Flags
<1>3. handle \in [Tasks -> Handle] /\ HandleShape(handle)
  BY DEF IndInv, TypeOK, Consistent
<1>4. EnqueueAll(handle, fq, notified, Tasks)
  BY DEF EnqueueEverything
<1> QED
  BY <1>1, <1>2, <1>3, <1>4, CallbackWakes

\* A fork that fails ends what this module promises.
LEMMA ThrowIsFailure ==
    ASSUME IndInv, NEW h, NEW q, NEW n, NEW before, EnqueueAllThrows(h, q, n, before)
    PROVE  ~NoFailure'
  BY DEF IndInv, TypeOK, EnqueueAllThrows, NoFailure

\* The constructor of context.
LEMMA BootWake == ASSUME IndInv, WakeInv, Boot PROVE WakeInv'
<1>1. phase = "boot" /\ zombies' = {}
  BY DEF Boot, WakeInv, kernelVars
<1>2. CASE EnqueueEverything /\ phase' = "loop"
  <2>1. Needed(run_levels["default"]) \in SUBSET Tasks /\ SetWanted(Needed(run_levels["default"]))
    BY DEF Needed, Boot
  <2>2. NoFailure' => NoFailure
    BY <1>2 DEF EnqueueEverything, EnqueueAll, NoFailure
  <2>3. NoFailure' => Steady(handle)
    BY <1>1, <2>2 DEF WakeInv
  <2> QED
    BY <1>1, <1>2, <2>1, <2>3, ChangeWakes DEF WakeInv
<1>3. CASE EnqueueEverythingThrows /\ phase' = "unwinding"
  BY <1>3 DEF WakeInv
<1> QED
  BY <1>2, <1>3 DEF Boot

\* Requests that change the run level.
LEMMA RequestWake ==
    ASSUME IndInv, WakeInv, NEW W \in SUBSET Tasks, Dispatching, SetWanted(W),
           EnqueueEverything \/ EnqueueEverythingThrows,
           UNCHANGED <<phase, kernelVars>>
    PROVE  WakeInv'
<1>1. phase = "loop" /\ phase' = "loop" /\ zombies' = zombies /\ sigchld' = sigchld
  BY DEF Dispatching, kernelVars
<1>2. CASE EnqueueEverything
  <2>1. NoFailure' => NoFailure
    BY <1>2 DEF EnqueueEverything, EnqueueAll, NoFailure
  <2>2. NoFailure' => Steady(handle)
    BY <1>1, <2>1 DEF WakeInv
  <2> QED
    BY <1>1, <1>2, <2>1, <2>2, ChangeWakes DEF WakeInv
<1>3. CASE EnqueueEverythingThrows
  <2>1. ~NoFailure'
    BY <1>3, ThrowIsFailure DEF EnqueueEverythingThrows
  <2> QED
    BY <1>1, <2>1 DEF WakeInv
<1> QED
  BY <1>2, <1>3

\* A child is reaped: its handle is brought up to date, its task synced, and the side of
\* the graph enqueued that its new state may have freed.
LEMMA ReapWake == ASSUME IndInv, WakeInv, NEW t \in Tasks, Reap(t) PROVE WakeInv'
<1> DEFINE h == EnqueueJob(Completed(handle[t]))
           handles == [handle EXCEPT ![t] = h]
<1>1. /\ phase = "reaping" /\ t \in zombies
      /\ UNCHANGED should_work /\ Sync({t}, handles)
      /\ \/ EnqueueAll(handles, fq, notified, Affected(t, h)) /\ phase' = phase
         \/ EnqueueAllThrows(handles, fq, notified, AffectedOrder(t, h)) /\ phase' = "loop"
  BY DEF Reap
<1>2. CASE EnqueueAll(handles, fq, notified, Affected(t, h)) /\ phase' = phase
  <2> SUFFICES ASSUME NoFailure'
               PROVE  /\ Steady(handle)'
                      /\ \A u \in Tasks : Updated(u, handle[u], notified)' /\ Told(u, handle[u])'
    BY <1>1, <1>2 DEF WakeInv
  <2>1. NoFailure
    BY <1>2 DEF EnqueueAll, NoFailure
  <2>2. /\ Steady(handle)
        /\ \A u \in Tasks : Updated(u, handle[u], notified) /\ Told(u, handle[u])
    BY <1>1, <2>1 DEF WakeInv
  <2>3. /\ handle \in [Tasks -> Handle] /\ handles \in [Tasks -> Handle] /\ HandleShape(handles)
        /\ should_work' \in Flags
    BY <1>1, CompletedHandle DEF IndInv, TypeOK, Flags
  <2>4. /\ h.should_work = handle[t].should_work
        /\ ~InTransition(h) => h.should_work = h.running
    <3> DEFINE c == Completed(handle[t])
    <3>1. handle[t] \in Handle
      BY <2>3
    <3>2. c.should_work = handle[t].should_work /\ c.current_operation = "none"
      BY <3>1 DEF Completed, Handle
    <3>3. DOMAIN c = {"running", "should_work", "current_operation", "created"}
      BY <3>1 DEF Completed, Handle
    <3>4. c.running \in BOOLEAN /\ c.should_work \in BOOLEAN
      BY <3>1, Zenon DEF Completed, Handle
    <3> HIDE DEF c
    <3>5. /\ EnqueueJob(c).should_work = c.should_work
          /\ ~InTransition(EnqueueJob(c)) => EnqueueJob(c).should_work = EnqueueJob(c).running
      BY <3>2, <3>3, <3>4 DEF EnqueueJob, InTransition
    <3> QED
      BY <3>2, <3>5 DEF c
  <2>5. handles[t] = h /\ \A u \in Tasks \ {t} : handles[u] = handle[u]
    BY <2>3
  <2> HIDE DEF h, handles
  <2>6. Steady(handles)
    BY <2>2, <2>4, <2>5 DEF Steady
  <2>7. \A u \in Tasks : handles[u].should_work = handle[u].should_work
    BY <2>4, <2>5
  <2>8. \A u \in Tasks \ {t} : should_work'[u] = should_work[u] /\ Updated(u, handles[u], notified)
    BY <1>1, <2>2, <2>5
  <2>9. \A u \in Tasks \ Affected(t, h) :
          /\ should_work'[u] /\ stopped_dependencies'[u] = 0 => handles[u].should_work
          /\ ~should_work'[u] /\ running_dependants'[u] = 0 => ~handles[u].should_work
    BY <1>1, <2>2, <2>3, <2>5, <2>7, NothingNew
  <2> QED
    BY <1>1, <1>2, <2>3, <2>6, <2>8, <2>9, CallbackWakes
<1>3. CASE EnqueueAllThrows(handles, fq, notified, AffectedOrder(t, h)) /\ phase' = "loop"
  <2>1. ~NoFailure'
    BY <1>3, ThrowIsFailure
  <2> QED
    BY <1>3, <2>1 DEF WakeInv
<1> QED
  BY <1>1, <1>2, <1>3

\* The same for the queue of an adaptor, whose handle is up to date already.
LEMMA QueueWake == ASSUME IndInv, WakeInv, NEW t \in Tasks, QueueEvent(t) PROVE WakeInv'
<1> DEFINE q == [fq EXCEPT ![t] = @ - 1]
           n == notified \ {t}
<1>1. /\ phase = "loop" /\ phase' = phase /\ zombies' = zombies /\ sigchld' = sigchld
      /\ UNCHANGED should_work /\ Sync({t}, handle)
      /\ \/ EnqueueAll(handle, q, n, Affected(t, handle[t]))
         \/ EnqueueAllThrows(handle, q, n, AffectedOrder(t, handle[t]))
  BY DEF QueueEvent, Dispatching, mainVars, kernelVars
<1>2. CASE EnqueueAll(handle, q, n, Affected(t, handle[t]))
  <2>1. NoFailure' => NoFailure
    BY <1>2 DEF EnqueueAll, NoFailure
  <2> SUFFICES ASSUME NoFailure'
               PROVE  /\ Steady(handle)'
                      /\ \A u \in Tasks : Updated(u, handle[u], notified)' /\ Told(u, handle[u])'
    BY <1>1, <2>1 DEF WakeInv
  <2>2. /\ Steady(handle)
        /\ \A u \in Tasks : Updated(u, handle[u], notified) /\ Told(u, handle[u])
    BY <1>1, <2>1 DEF WakeInv
  <2>3. handle \in [Tasks -> Handle] /\ HandleShape(handle) /\ should_work' \in Flags
    BY <1>1 DEF IndInv, TypeOK, Consistent, Flags
  <2>4. \A u \in Tasks \ {t} : should_work'[u] = should_work[u] /\ Updated(u, handle[u], n)
    BY <1>1, <2>2 DEF Updated
  <2>5. \A u \in Tasks \ Affected(t, handle[t]) :
          /\ should_work'[u] /\ stopped_dependencies'[u] = 0 => handle[u].should_work
          /\ ~should_work'[u] /\ running_dependants'[u] = 0 => ~handle[u].should_work
    BY <1>1, <2>2, <2>3, NothingNew
  <2> HIDE DEF q, n
  <2> QED
    BY <1>1, <1>2, <2>2, <2>3, <2>4, <2>5, CallbackWakes
<1>3. CASE EnqueueAllThrows(handle, q, n, AffectedOrder(t, handle[t]))
  <2>1. ~NoFailure'
    BY <1>3, ThrowIsFailure
  <2> QED
    BY <1>1, <2>1 DEF WakeInv
<1> QED
  BY <1>1, <1>2, <1>3

\* Steps that leave tasks and handles alone: the kernel, the signalfd and main.
LEMMA QuietWake ==
    ASSUME IndInv, WakeInv,
           \/ BootWithoutDefault \/ SigchldEvent \/ ReapNone \/ LeaveLoop
           \/ \E t \in Tasks : ChildExit(t)
           \/ \E name \in Names : SetUnknownRunLevel(name)
           \/ UNCHANGED vars
    PROVE  WakeInv'
<1> DEFINE Same == /\ UNCHANGED <<should_work, stopped_dependencies, running_dependants, counted_in_dependencies>>
                   /\ UNCHANGED <<counted_in_dependants, counted_in_pending_tasks, handle, notified, fork_failures>>
           Kept == /\ UNCHANGED <<zombies, sigchld>>
                   /\ phase' = "unwinding" \/ phase' = phase
           Gone == zombies' # zombies /\ sigchld' /\ phase \in {"loop", "reaping"} /\ phase' = phase
           Read == phase = "loop" /\ phase' = "reaping"
           Done == phase = "reaping" /\ phase' = "loop" /\ zombies' = {}
<1>1. Same /\ (Kept \/ Gone \/ Read \/ Done)
  <2>1. CASE BootWithoutDefault \/ LeaveLoop \/ UNCHANGED vars
    BY <2>1 DEF BootWithoutDefault, LeaveLoop, vars, taskVars, counterVars, handleVars, kernelVars, mainVars, boundVars
  <2>2. CASE \E name \in Names : SetUnknownRunLevel(name)
    BY <2>2 DEF SetUnknownRunLevel, taskVars, counterVars, handleVars, kernelVars
  <2>3. CASE SigchldEvent
    BY <2>3 DEF SigchldEvent, Dispatching, taskVars, counterVars, handleVars, boundVars
  <2>4. CASE ReapNone
    BY <2>4 DEF ReapNone, taskVars, counterVars, handleVars, kernelVars, boundVars
  <2>5. CASE \E t \in Tasks : ChildExit(t)
    BY <2>5 DEF ChildExit, taskVars, counterVars, handleVars, mainVars, boundVars
  <2> QED
    BY <2>1, <2>2, <2>3, <2>4, <2>5
<1>2. /\ Steady(handle)' = Steady(handle)
      /\ \A t \in Tasks : /\ Updated(t, handle[t], notified)' = Updated(t, handle[t], notified)
                         /\ Told(t, handle[t])' = Told(t, handle[t])
      /\ NoFailure' = NoFailure
  BY <1>1 DEF Steady, Updated, Synced, Told, NoFailure
<1> QED
  BY <1>1, <1>2 DEF WakeInv

\* Every step keeps the invariant.
LEMMA NextWake == ASSUME IndInv, WakeInv, [Next]_vars PROVE WakeInv'
<1>1. CASE Boot
  BY <1>1, BootWake
<1>2. ASSUME NEW target \in {"reboot", "power_off"}, ShutDown(target) PROVE WakeInv'
  BY <1>2, RequestWake DEF ShutDown, Request
<1>3. ASSUME NEW name \in Names, SetRunLevel(name) PROVE WakeInv'
  <2>1. Needed(run_levels[name]) \in SUBSET Tasks
    BY DEF Needed
  <2> QED
    BY <1>3, <2>1, RequestWake DEF SetRunLevel, Request
<1>4. ASSUME NEW t \in Tasks, ReapThrows(t) PROVE WakeInv'
  <2>1. ~NoFailure' /\ phase' = "loop"
    BY <1>4 DEF ReapThrows, IndInv, TypeOK, NoFailure
  <2> QED
    BY <2>1 DEF WakeInv
<1>5. CASE Destroy
  BY <1>5 DEF Destroy, WakeInv
<1> QED
  BY <1>1, <1>2, <1>3, <1>4, <1>5, ReapWake, QueueWake, QuietWake DEF Next, Signal, ControlShutDown

-----------------------------------------------------------------------------
(* Theorems *)

\* Nobody is forgotten: exits, flags that lag behind and tasks that may go on all have
\* a callback ahead of them, or behind them.
THEOREM WakeInductive == Spec => []WakeInv
<1>1. Init => WakeInv
  BY InitWake
<1>2. IndInv /\ WakeInv /\ [Next]_vars => WakeInv'
  BY NextWake
<1> QED
  BY <1>1, <1>2, Inductive, PTL DEF Spec

\* When the loop of main waits for events, a child that has exited is announced.
THEOREM NoChildLost == Spec => []NoLostChild
<1>1. WakeInv => NoLostChild
  BY DEF WakeInv, NoLostChild, NoFailure
<1> QED
  BY <1>1, WakeInductive, PTL

\* A flag of struct task that is older than its handle has a sync on its way.
THEOREM NoUpdateLost == Spec => []NoLostUpdate
<1>1. WakeInv => NoLostUpdate
  BY DEF WakeInv, NoLostUpdate, NoFailure, Updated, Synced
<1> QED
  BY <1>1, WakeInductive, PTL

\* Enqueueing one side of the graph is enough: no task that could start or stop is left
\* waiting for a call of enqueue_this.
THEOREM NoWakeupMissed == Spec => []NoMissedWakeup
<1>1. WakeInv => NoMissedWakeup
  BY DEF WakeInv, NoMissedWakeup, NoFailure, Told
<1> QED
  BY <1>1, WakeInductive, PTL
=============================================================================
