------------------------- MODULE MarkShouldWorkProofs -------------------------
(* The recursion of mark_should_work marks what a run level needs, in every graph. *)
EXTENDS MarkShouldWork, SequenceTheorems, TLAPS

Frames == [task : Task, next : Nat \ {0}]
Marked == {t \in Task : should_work[t]}

MarkTypeOK ==
    /\ deps \in [Task -> Vectors]
    /\ requisites \subseteq Task
    /\ should_work \in [Task -> BOOLEAN]
    /\ todo \subseteq requisites
    /\ stack \in Seq(Frames)
    /\ pc \in {"clear", "mark", "done"}

\* A frame of mark_should_work that has still to look at dependency i of t.
Awaited(t, i, frames) == \E k \in DOMAIN frames : frames[k].task = t /\ frames[k].next <= i

\* Nothing is marked that is not needed; what is marked has its dependencies marked too,
\* or a frame on the stack that will come to them; a requisite is marked or still to do.
MarkInv ==
    /\ MarkTypeOK
    /\ pc = "clear" => stack = <<>> /\ todo = requisites
    /\ pc = "done" => stack = <<>> /\ todo = {}
    /\ pc # "clear" =>
         /\ Marked \subseteq Graph!Needed(requisites)
         /\ requisites \ todo \subseteq Marked
         /\ \A k \in DOMAIN stack : stack[k].task \in Marked
         /\ \A t \in Marked : \A i \in DOMAIN deps[t] :
               deps[t][i] \in Marked \/ Awaited(t, i, stack)

-----------------------------------------------------------------------------
(* Facts about the graph and the stack *)

\* Dependency vectors hold tasks.
LEMMA VectorFacts ==
    ASSUME MarkTypeOK, NEW t \in Task
    PROVE  /\ deps[t] \in Seq(Task)
           /\ DOMAIN deps[t] = 1..Len(deps[t])
           /\ \A i \in DOMAIN deps[t] : deps[t][i] \in Task
<1>1. deps[t] \in Seq(Task)
  BY VectorsAssumption DEF MarkTypeOK
<1> QED
  BY <1>1

\* The stack holds frames.
LEMMA FrameOfStack ==
    ASSUME NEW s \in Seq(Frames), NEW k \in DOMAIN s
    PROVE  s[k] \in Frames
  OBVIOUS

\* What a run level needs contains its requisites and is closed.
LEMMA NeededContains ==
    ASSUME MarkTypeOK
    PROVE  /\ requisites \subseteq Graph!Needed(requisites)
           /\ \A t \in Graph!Needed(requisites) : \A i \in DOMAIN deps[t] : deps[t][i] \in Graph!Needed(requisites)
<1>1. requisites \subseteq Graph!Needed(requisites)
  BY DEF MarkTypeOK, Graph!Needed, Graph!Tasks, Task
<1>2. ASSUME NEW t \in Graph!Needed(requisites), NEW i \in DOMAIN deps[t]
      PROVE  deps[t][i] \in Graph!Needed(requisites)
  <2>1. t \in Task
    BY DEF Graph!Needed, Graph!Tasks, Task
  <2>2. deps[t][i] \in Task
    BY <2>1, VectorFacts
  <2>3. ASSUME NEW S \in SUBSET Task, requisites \subseteq S, Graph!Closed(S)
        PROVE  deps[t][i] \in S
    <3>1. t \in S
      BY <2>3 DEF Graph!Needed, Graph!Tasks, Task
    <3> QED
      BY <2>3, <3>1 DEF Graph!Closed, Graph!Dependencies
  <2> QED
    BY <2>2, <2>3 DEF Graph!Needed, Graph!Tasks, Task
<1> QED
  BY <1>1, <1>2

\* A call of mark_should_work on a task that is needed.  The frames under it are what is
\* left of the stack; they await all that is to come, the task itself excepted.
LEMMA Entering ==
    ASSUME MarkInv, pc = "mark", NEW t \in Graph!Needed(requisites), NEW frames \in Seq(Frames),
           \A k \in DOMAIN frames : frames[k].task \in Marked,
           \A u \in Marked : \A i \in DOMAIN deps[u] :
              deps[u][i] \in Marked \cup {t} \/ Awaited(u, i, frames),
           Enter(t, frames)
    PROVE  /\ should_work' \in [Task -> BOOLEAN]
           /\ stack' \in Seq(Frames)
           /\ Marked' = Marked \cup {t}
           /\ \A k \in DOMAIN stack' : stack'[k].task \in Marked'
           /\ \A u \in Marked' : \A i \in DOMAIN deps[u] :
                 deps[u][i] \in Marked' \/ Awaited(u, i, stack')
<1>1. t \in Task
  BY DEF Graph!Needed, Graph!Tasks, Task
<1>2. should_work' = [should_work EXCEPT ![t] = TRUE] /\ should_work \in [Task -> BOOLEAN]
  BY DEF Enter, MarkInv, MarkTypeOK
<1>3. should_work' \in [Task -> BOOLEAN]
  BY <1>1, <1>2
<1>4. Marked' = Marked \cup {t}
  BY <1>1, <1>2 DEF Marked
<1>5. CASE should_work[t]
  <2>1. stack' = frames /\ t \in Marked
    BY <1>1, <1>5 DEF Enter, Marked
  <2> QED
    BY <1>3, <1>4, <2>1
<1>6. CASE ~should_work[t]
  <2> DEFINE f == [task |-> t, next |-> 1]
  <2>1. stack' = Append(frames, f) /\ f \in Frames
    BY <1>1, <1>6 DEF Enter, Frames
  <2> HIDE DEF f
  <2>2. /\ stack' \in Seq(Frames)
        /\ DOMAIN stack' = DOMAIN frames \cup {Len(frames) + 1}
        /\ \A k \in DOMAIN frames : stack'[k] = frames[k]
        /\ stack'[Len(frames) + 1] = f
    BY <2>1
  <2>3. f.task = t /\ f.next = 1
    BY DEF f
  <2>4. \A k \in DOMAIN stack' : stack'[k].task \in Marked'
    BY <1>4, <2>2, <2>3
  <2>5. ASSUME NEW u \in Marked', NEW i \in DOMAIN deps[u]
        PROVE  deps[u][i] \in Marked' \/ Awaited(u, i, stack')
    <3>1. CASE u = t
      <4>1. i >= 1
        BY <1>1, <3>1, VectorFacts DEF MarkInv
      <4> QED
        BY <2>2, <2>3, <3>1, <4>1 DEF Awaited
    <3>2. CASE u # t
      <4>1. u \in Marked
        BY <1>4, <3>2
      <4> QED
        BY <1>4, <2>2, <4>1 DEF Awaited
    <3> QED
      BY <3>1, <3>2
  <2> QED
    BY <1>3, <1>4, <2>2, <2>4, <2>5
<1> QED
  BY <1>5, <1>6

-----------------------------------------------------------------------------
(* The invariant is inductive *)

\* A requisite is called when nothing is under way.
LEMMA RequisiteInd == ASSUME MarkInv, NEW t \in Task, MarkRequisite(t) PROVE MarkInv'
<1>1. /\ pc = "mark" /\ pc' = "mark" /\ stack = <<>> /\ t \in todo /\ todo' = todo \ {t}
      /\ UNCHANGED <<deps, requisites>> /\ Enter(t, stack)
  BY DEF MarkRequisite
<1>2. MarkTypeOK /\ t \in Graph!Needed(requisites)
  BY <1>1, NeededContains DEF MarkInv, MarkTypeOK
<1>3. /\ should_work' \in [Task -> BOOLEAN]
      /\ stack' \in Seq(Frames)
      /\ Marked' = Marked \cup {t}
      /\ \A k \in DOMAIN stack' : stack'[k].task \in Marked'
      /\ \A u \in Marked' : \A i \in DOMAIN deps[u] : deps[u][i] \in Marked' \/ Awaited(u, i, stack')
  BY <1>1, <1>2, Entering DEF MarkInv, MarkTypeOK
<1>4. MarkTypeOK'
  BY <1>1, <1>2, <1>3 DEF MarkTypeOK
<1>5. Graph!Needed(requisites)' = Graph!Needed(requisites)
  BY <1>1 DEF Graph!Needed, Graph!Closed, Graph!Dependencies
<1> QED
  BY <1>1, <1>2, <1>3, <1>4, <1>5 DEF MarkInv

\* The loop of the topmost call goes on to the next dependency.
LEMMA DependencyInd == ASSUME MarkInv, MarkDependency PROVE MarkInv'
<1> DEFINE n == Len(stack)
           t == Top.task
           i == Top.next
           u == deps[t][i]
           frames == [stack EXCEPT ![n].next = @ + 1]
<1>1. /\ stack # <<>> /\ i <= Len(deps[t]) /\ Enter(u, frames)
      /\ UNCHANGED <<deps, requisites, todo, pc>>
  BY DEF MarkDependency
<1>2. MarkTypeOK /\ stack \in Seq(Frames) /\ n \in Nat /\ n >= 1 /\ DOMAIN stack = 1..n
  BY <1>1 DEF MarkInv, MarkTypeOK
<1>3. stack[n] \in Frames /\ t \in Task /\ i \in Nat \ {0}
  <2>1. n \in DOMAIN stack
    BY <1>2
  <2>2. stack[n] \in Frames
    BY <1>2, <2>1, FrameOfStack
  <2> QED
    BY <2>2 DEF Top, Frames
<1>4. pc = "mark"
  BY <1>1, <1>2 DEF MarkInv, MarkTypeOK
<1>5. t \in Marked
  BY <1>2, <1>4 DEF MarkInv, Top
<1>6. u \in Graph!Needed(requisites)
  <2>1. t \in Graph!Needed(requisites) /\ i \in DOMAIN deps[t]
    BY <1>1, <1>2, <1>3, <1>4, <1>5, VectorFacts DEF MarkInv
  <2> QED
    BY <1>2, <2>1, NeededContains
<1>7. /\ frames \in Seq(Frames) /\ DOMAIN frames = 1..n
      /\ \A k \in 1..n : frames[k].task = stack[k].task
      /\ \A k \in 1..n : k # n => frames[k] = stack[k]
      /\ frames[n].next = i + 1
  BY <1>2, <1>3 DEF Frames, Top
<1>8. ASSUME NEW v \in Marked, NEW j \in DOMAIN deps[v]
      PROVE  deps[v][j] \in Marked \cup {u} \/ Awaited(v, j, frames)
  <2>1. deps[v][j] \in Marked \/ Awaited(v, j, stack)
    BY <1>4 DEF MarkInv
  <2>2. CASE Awaited(v, j, stack)
    <3>1. PICK k \in 1..n : stack[k].task = v /\ stack[k].next <= j
      BY <1>2, <2>2 DEF Awaited
    <3>2. CASE k # n
      <4> HIDE DEF n, frames
      <4> QED
        BY <1>7, <3>1, <3>2 DEF Awaited
    <3>3. CASE k = n
      <4>1. v = t /\ i <= j /\ j \in Nat
        BY <1>2, <1>3, <3>1, <3>3, VectorFacts DEF Top
      <4>2. CASE i = j
        BY <4>1, <4>2
      <4>3. CASE i # j
        <5>1. i + 1 <= j
          BY <1>3, <4>1, <4>3
        <5>2. frames[n].task = v /\ n \in DOMAIN frames
          BY <1>2, <1>7, <3>1, <3>3
        <5> HIDE DEF n, frames, i, t, u
        <5> QED
          BY <1>7, <5>1, <5>2 DEF Awaited
      <4> QED
        BY <4>2, <4>3
    <3> QED
      BY <3>2, <3>3
  <2> QED
    BY <2>1, <2>2
<1>9. \A k \in DOMAIN frames : frames[k].task \in Marked
  BY <1>2, <1>4, <1>7 DEF MarkInv
<1> HIDE DEF n, t, i, u, frames
<1>10. /\ should_work' \in [Task -> BOOLEAN]
       /\ stack' \in Seq(Frames)
       /\ Marked' = Marked \cup {u}
       /\ \A k \in DOMAIN stack' : stack'[k].task \in Marked'
       /\ \A v \in Marked' : \A j \in DOMAIN deps[v] : deps[v][j] \in Marked' \/ Awaited(v, j, stack')
  BY <1>1, <1>4, <1>6, <1>7, <1>8, <1>9, Entering
<1>11. MarkTypeOK'
  BY <1>1, <1>2, <1>10 DEF MarkTypeOK
<1>12. Graph!Needed(requisites)' = Graph!Needed(requisites)
  BY <1>1 DEF Graph!Needed, Graph!Closed, Graph!Dependencies
<1> QED
  BY <1>1, <1>4, <1>6, <1>10, <1>11, <1>12 DEF MarkInv

\* A call returns when it has looked at every dependency.
LEMMA ReturnInd == ASSUME MarkInv, Return PROVE MarkInv'
<1> DEFINE n == Len(stack)
<1>1. /\ stack # <<>> /\ Top.next > Len(deps[Top.task]) /\ stack' = SubSeq(stack, 1, n - 1)
      /\ UNCHANGED <<deps, requisites, should_work, todo, pc>>
  BY DEF Return
<1>2. MarkTypeOK /\ stack \in Seq(Frames) /\ n \in Nat /\ n >= 1 /\ DOMAIN stack = 1..n
  BY <1>1 DEF MarkInv, MarkTypeOK
<1>3. pc = "mark"
  BY <1>1, <1>2 DEF MarkInv, MarkTypeOK
<1>4. /\ stack' \in Seq(Frames) /\ DOMAIN stack' = 1..(n - 1)
      /\ \A k \in 1..(n - 1) : stack'[k] = stack[k]
  BY <1>1, <1>2
<1>5. Marked' = Marked /\ Graph!Needed(requisites)' = Graph!Needed(requisites)
  BY <1>1 DEF Marked, Graph!Needed, Graph!Closed, Graph!Dependencies
<1>6. ASSUME NEW v \in Marked, NEW j \in DOMAIN deps[v]
      PROVE  deps[v][j] \in Marked \/ Awaited(v, j, stack')
  <2>1. deps[v][j] \in Marked \/ Awaited(v, j, stack)
    BY <1>3 DEF MarkInv
  <2>2. CASE Awaited(v, j, stack)
    <3>1. PICK k \in 1..n : stack[k].task = v /\ stack[k].next <= j
      BY <1>2, <2>2 DEF Awaited
    <3>2. k # n
      <4>1. v \in Task
        BY DEF Marked
      <4>2. j \in 1..Len(deps[v]) /\ Len(deps[v]) \in Nat
        BY <1>2, <4>1, VectorFacts
      <4>3. stack[n].next \in Nat
        <5>1. stack[n] \in Frames
          BY <1>2, FrameOfStack
        <5> QED
          BY <5>1 DEF Frames
      <4> QED
        BY <1>1, <3>1, <4>2, <4>3 DEF Top
    <3>3. k \in 1..(n - 1)
      <4>1. n \in Nat
        BY <1>2
      <4> HIDE DEF n
      <4> QED
        BY <3>2, <4>1
    <3>4. k \in DOMAIN stack' /\ stack'[k] = stack[k]
      BY <1>4, <3>3
    <3> QED
      BY <3>1, <3>4 DEF Awaited
  <2> QED
    BY <2>1, <2>2
<1>7. \A k \in DOMAIN stack' : stack'[k].task \in Marked'
  BY <1>2, <1>3, <1>4, <1>5 DEF MarkInv
<1>8. MarkTypeOK'
  BY <1>1, <1>2, <1>4 DEF MarkTypeOK
<1> QED
  BY <1>1, <1>3, <1>5, <1>6, <1>7, <1>8 DEF MarkInv

-----------------------------------------------------------------------------
(* Theorems *)

\* The invariant holds from the first call to the last.
THEOREM MarkInductive == Spec => []MarkInv
<1>1. Init => MarkInv
  BY DEF Init, MarkInv, MarkTypeOK
<1>2. MarkInv /\ [Next]_vars => MarkInv'
  <2> SUFFICES ASSUME MarkInv, [Next]_vars PROVE MarkInv'
    OBVIOUS
  <2>1. CASE Clear
    <3>1. Marked' = {}
      BY <2>1 DEF Clear, Marked
    <3>2. MarkTypeOK'
      BY <2>1 DEF Clear, MarkInv, MarkTypeOK
    <3> QED
      BY <2>1, <3>1, <3>2 DEF Clear, MarkInv
  <2>2. CASE Finish \/ UNCHANGED vars
    <3>1. /\ UNCHANGED <<deps, requisites, should_work, todo, stack>>
          /\ pc' = pc \/ (pc = "mark" /\ pc' = "done" /\ stack = <<>> /\ todo = {})
      BY <2>2 DEF Finish, vars
    <3>2. Marked' = Marked /\ Graph!Needed(requisites)' = Graph!Needed(requisites)
      BY <3>1 DEF Marked, Graph!Needed, Graph!Closed, Graph!Dependencies
    <3>3. MarkTypeOK'
      BY <3>1 DEF MarkInv, MarkTypeOK
    <3> QED
      BY <3>1, <3>2, <3>3 DEF MarkInv, Awaited
  <2> QED
    BY <2>1, <2>2, RequisiteInd, DependencyInd, ReturnInd DEF Next
<1> QED
  BY <1>1, <1>2, PTL DEF Spec

\* set_run_level marks exactly the requisites and all that they depend on, for any
\* number of tasks, in graphs with cycles too, whatever was marked before.
THEOREM MarksCorrect == Spec => []MarksNeeded
<1>1. MarkInv => MarksNeeded
  <2> SUFFICES ASSUME MarkInv, pc = "done" PROVE Marked = Graph!Needed(requisites)
    BY DEF MarksNeeded, Marked
  <2>1. /\ Marked \subseteq Graph!Needed(requisites)
        /\ requisites \subseteq Marked
        /\ \A t \in Marked : \A i \in DOMAIN deps[t] : deps[t][i] \in Marked
    BY DEF MarkInv, Awaited
  <2>2. Graph!Closed(Marked)
    BY <2>1 DEF Graph!Closed, Graph!Dependencies
  <2>3. Marked \in SUBSET Task
    BY DEF Marked
  <2> QED
    BY <2>1, <2>2, <2>3 DEF Graph!Needed, Graph!Tasks, Task
<1> QED
  BY <1>1, MarkInductive, PTL
=============================================================================
