--------------------------- MODULE MarkShouldWork ---------------------------
(***************************************************************************)
(* The first half of initd_state::set_run_level, call by call: the flags   *)
(* are cleared and mark_should_work recurses into the dependencies.  Initd *)
(* uses its result, Needed, in one step; here every graph is tried,        *)
(* cyclic ones included.                                                   *)
(***************************************************************************)
EXTENDS Integers, Sequences, FiniteSets

CONSTANTS
    Count,    \* number of tasks
    Vectors   \* the dependency vectors a task may have

Task == 1..Count

ASSUME VectorsAssumption == Vectors \subseteq Seq(Task)

VARIABLES
    deps,         \* task::dependencies of every task
    requisites,   \* the tasks of the run level
    should_work,
    todo,         \* requisites not yet marked
    stack,        \* frames of mark_should_work: the task and the next dependency
    pc

vars == <<deps, requisites, should_work, todo, stack, pc>>

Graph == INSTANCE TaskGraph WITH N <- Count, Deps <- deps

Init ==
    /\ deps \in [Task -> Vectors]
    /\ requisites \in SUBSET Task
    /\ should_work \in [Task -> BOOLEAN]
    /\ todo = requisites
    /\ stack = <<>>
    /\ pc = "clear"

\* Mutant: set_run_level does not call clear_should_work_flag.
ClearNothing ==
    /\ pc = "clear"
    /\ pc' = "mark"
    /\ UNCHANGED <<deps, requisites, should_work, todo, stack>>

Clear ==
    /\ pc = "clear"
    /\ should_work' = [t \in Task |-> FALSE]
    /\ pc' = "mark"
    /\ UNCHANGED <<deps, requisites, todo, stack>>

\* A call of mark_should_work on t: a task that was marked before has no frame.
Enter(t, frames) ==
    /\ should_work' = [should_work EXCEPT ![t] = TRUE]
    /\ stack' = IF should_work[t] THEN frames ELSE Append(frames, [task |-> t, next |-> 1])

MarkRequisite(t) ==
    /\ pc = "mark"
    /\ stack = <<>>
    /\ t \in todo
    /\ todo' = todo \ {t}
    /\ Enter(t, stack)
    /\ UNCHANGED <<deps, requisites, pc>>

Top == stack[Len(stack)]

\* Mutant: the loop over the dependencies does not advance.
MarkDependencyAgain ==
    /\ stack # <<>>
    /\ Top.next <= Len(deps[Top.task])
    /\ Enter(deps[Top.task][Top.next], stack)
    /\ UNCHANGED <<deps, requisites, todo, pc>>

MarkDependency ==
    /\ stack # <<>>
    /\ Top.next <= Len(deps[Top.task])
    /\ Enter(deps[Top.task][Top.next], [stack EXCEPT ![Len(stack)].next = @ + 1])
    /\ UNCHANGED <<deps, requisites, todo, pc>>

Return ==
    /\ stack # <<>>
    /\ Top.next > Len(deps[Top.task])
    /\ stack' = SubSeq(stack, 1, Len(stack) - 1)
    /\ UNCHANGED <<deps, requisites, should_work, todo, pc>>

Finish ==
    /\ pc = "mark"
    /\ stack = <<>>
    /\ todo = {}
    /\ pc' = "done"
    /\ UNCHANGED <<deps, requisites, should_work, todo, stack>>

Next == Clear \/ (\E t \in Task : MarkRequisite(t)) \/ MarkDependency \/ Return \/ Finish

Spec == Init /\ [][Next]_vars /\ WF_vars(Next)

-----------------------------------------------------------------------------

\* The recursion marks exactly the requisites and all they depend on, whatever the
\* flags were before and whether or not the graph has cycles.
MarksNeeded == pc = "done" => {t \in Task : should_work[t]} = Graph!Needed(requisites)

\* set_run_level comes back from marking, in a cyclic graph too.
MarkingEnds == <>(pc = "done")
=============================================================================
