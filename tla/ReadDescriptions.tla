---------------------------- MODULE ReadDescriptions ----------------------------
(***************************************************************************)
(* read_descriptions after the parser: tasks, dependencies and run levels  *)
(* of the tree become task_descriptions, one declaration per step.  A task *)
(* description is named by its place in all_tasks, a name is a number.     *)
(***************************************************************************)
EXTENDS ReadValue

CONSTANT Trees   \* the parsed files

NoName == 0   \* the name of a run level that has none

\* A declaration of dependencies or of a run level.
List == [name : Nat, names : Seq(Nat)]

\* The parser leaves a value out only when it reports an error.
ASSUME TreesAssumption ==
    \A t \in Trees :
        /\ t \in [tasks : Seq([name : Nat, value : ValueNode]), dependencies : Seq(List),
                  runLevels : Seq(List), errors : Seq({"expected"} \X Nat)]
        /\ t.errors = <<>> => \A task \in ToSet(t.tasks) : Complete(task.value)

VARIABLES
    tree,        \* tasks, dependencies and run levels as declared, and what the
                 \* lexer and the parser had to say
    allTasks,    \* task_descriptions::all_tasks: name, data, dependencies
    runLevels,   \* task_descriptions::run_level_by_name
    errors,      \* what error_tag_sink holds: a message and where it belongs
    phase,       \* the loop that runs
    next         \* its next element

vars == <<tree, allTasks, runLevels, errors, phase, next>>

-----------------------------------------------------------------------------

TaskOrder == MultimapOrder([i \in DOMAIN tree.tasks |-> tree.tasks[i].name])
RunLevelOrder == MultimapOrder([i \in DOMAIN tree.runLevels |-> tree.runLevels[i].name])

\* The reports on the entries of a multimap.
DuplicateErrors(nodes, order, what) ==
    LET reported == Ascending(ReportDuplicates([i \in DOMAIN order |-> nodes[order[i]].name]))
    IN  [n \in DOMAIN reported |-> <<what, order[reported[n]]>>]

\* task_by_name.find takes the first task with a name.
Named(name) == {t \in DOMAIN allTasks : allTasks[t].name = name}

\* The names that there is a task for.
Known(names) == Picked(names, {k \in DOMAIN names : Named(names[k]) # {}})

\* Mutant: the result of find is not compared with end.
ResolveDangling(names, place) ==
    [found |-> [k \in DOMAIN names |->
                  IF Named(names[k]) = {} THEN Len(allTasks) + 1 ELSE Min(Named(names[k]))],
     errors |-> <<>>]

\* resolve_task for the names in a declaration: the tasks, and an error for every name
\* that there is no task for.
Resolve(names, place) ==
    LET declared == Known(names)
        unknown == Ascending({k \in DOMAIN names : Named(names[k]) = {}})
    IN  [found |-> [n \in DOMAIN declared |-> Min(Named(declared[n]))],
         errors |-> [n \in DOMAIN unknown |-> <<"undeclared", place, unknown[n]>>]]

-----------------------------------------------------------------------------

Init ==
    /\ tree \in Trees
    /\ allTasks = <<>>
    /\ runLevels = <<>>
    /\ errors = tree.errors \o DuplicateErrors(tree.tasks, TaskOrder, "duplicate_task")
    /\ phase = "tasks"
    /\ next = 1

CreateTaskDescription ==
    /\ phase = "tasks" /\ next <= Len(tree.tasks)
    /\ LET node == tree.tasks[TaskOrder[next]]
           read == ReadTask(node.value)
           data == IF read.value = None THEN [tag |-> "null", fields |-> <<>>] ELSE read.value[1]
       IN  /\ allTasks' = Append(allTasks, [name |-> node.name, data |-> data, dependencies |-> <<>>])
           /\ errors' = errors \o [k \in DOMAIN read.errors |-> <<read.errors[k], TaskOrder[next]>>]
    /\ next' = next + 1
    /\ UNCHANGED <<tree, runLevels, phase>>

TasksRead ==
    /\ phase = "tasks" /\ next > Len(tree.tasks)
    /\ phase' = "dependencies" /\ next' = 1
    /\ UNCHANGED <<tree, allTasks, runLevels, errors>>

ReadDependencies ==
    /\ phase = "dependencies" /\ next <= Len(tree.dependencies)
    /\ LET node == tree.dependencies[next]
           resolved == Resolve(node.names, <<"dependency", next>>)
       IN  IF Named(node.name) = {}
           THEN errors' = Append(errors, <<"undeclared", <<"dependency", next>>, 0>>) /\ UNCHANGED allTasks
           ELSE /\ allTasks' = [allTasks EXCEPT ![Min(Named(node.name))].dependencies = @ \o resolved.found]
                /\ errors' = errors \o resolved.errors
    /\ next' = next + 1
    /\ UNCHANGED <<tree, runLevels, phase>>

\* The names of all run levels are looked at, before the first is read; a node without
\* a name has nothing to look at and the program crashes.
DependenciesRead ==
    /\ phase = "dependencies" /\ next > Len(tree.dependencies)
    /\ IF \E i \in DOMAIN tree.runLevels : tree.runLevels[i].name = NoName
       THEN phase' = "crashed" /\ UNCHANGED errors
       ELSE /\ phase' = "run_levels"
            /\ errors' = errors \o DuplicateErrors(tree.runLevels, RunLevelOrder, "duplicate_run_level")
    /\ next' = 1
    /\ UNCHANGED <<tree, allTasks, runLevels>>

\* create_run_level inserts into a map, which keeps what it has.
CreateRunLevel ==
    /\ phase = "run_levels" /\ next <= Len(tree.runLevels)
    /\ LET node == tree.runLevels[RunLevelOrder[next]]
           resolved == Resolve(node.names, <<"run_level", RunLevelOrder[next]>>)
       IN  /\ runLevels' = IF node.name \in DOMAIN runLevels THEN runLevels
                           ELSE [n \in DOMAIN runLevels \cup {node.name} |->
                                   IF n = node.name THEN resolved.found ELSE runLevels[n]]
           /\ errors' = errors \o resolved.errors
    /\ next' = next + 1
    /\ UNCHANGED <<tree, allTasks, phase>>

\* The errors are printed and the descriptions returned.
RunLevelsRead ==
    /\ phase = "run_levels" /\ next > Len(tree.runLevels)
    /\ phase' = "returned"
    /\ UNCHANGED <<tree, allTasks, runLevels, errors, next>>

Next ==
    \/ CreateTaskDescription
    \/ TasksRead
    \/ ReadDependencies
    \/ DependenciesRead
    \/ CreateRunLevel
    \/ RunLevelsRead

Spec == Init /\ [][Next]_vars

-----------------------------------------------------------------------------
(* Properties *)

\* Every pointer between descriptions leads to a description of the same file, with a
\* name that was written down: the constructor of initd_state looks dependencies and
\* requisites up and uses what it finds without a check.
Closed ==
    /\ \A t \in DOMAIN allTasks :
         \A u \in ToSet(allTasks[t].dependencies) :
            /\ u \in DOMAIN allTasks
            /\ \E d \in ToSet(tree.dependencies) :
                 d.name = allTasks[t].name /\ allTasks[u].name \in ToSet(d.names)
    /\ \A r \in DOMAIN runLevels : ToSet(runLevels[r]) \subseteq DOMAIN allTasks

\* The names that declarations of dependencies give a task, in the order of the file.
DeclaredDependencies(name) ==
    FlattenSeq([k \in DOMAIN tree.dependencies |->
        IF tree.dependencies[k].name = name THEN tree.dependencies[k].names ELSE <<>>])

\* The data of a struct are what its properties say.
Says(data, node, p) ==
    LET written == {k \in DOMAIN node.properties : node.properties[k].key = p.key}
        value == data.fields[p.key]
    IN  /\ written = {} => Some(value) = p.default
        /\ \A k \in written : p.type # "command" =>
             LET text == node.properties[k].value.text
             IN  value = IF p.type = "cmd_line" THEN Arguments(text) ELSE text

Means(data, node) ==
    /\ data.tag = node.tag
    /\ \A p \in ToSet(Schema[node.tag]) :
         /\ Says(data, node, p)
         /\ p.type = "command" =>
              \A k \in DOMAIN node.properties : \A q \in ToSet(Schema["command"]) :
                 node.properties[k].key = p.key => Says(data.fields[p.key], node.properties[k].value, q)

NamesOf(tasks) == [k \in DOMAIN tasks |-> allTasks[tasks[k]].name]

\* The complaints about the i-th task, run level or declaration of dependencies.
AboutTask(i) ==
    {e \in ToSet(errors) : e[1] \notin {"undeclared", "duplicate_run_level"} /\ e[2] = i}
AboutRunLevel(i) ==
    {e \in ToSet(errors) : e = <<"duplicate_run_level", i>> \/ (e[1] = "undeclared" /\ e[2] = <<"run_level", i>>)}
AboutDependencies(k) ==
    {e \in ToSet(errors) : e[1] = "undeclared" /\ e[2] = <<"dependency", k>>}

\* What the lexer and the parser accept and no reader complains about means what it says,
\* declaration by declaration, whatever is wrong with the others: a task's name leads to
\* the data that were written down, or the default (of the properties its readers know:
\* any other property is ignored without a word); a run level has its requisites; a
\* task has the dependencies of all its declarations in their order, less the names that
\* were complained about, and no other.  So of several declarations of a name those that
\* have no effect are all reported, although report_duplicates does not report the first
\* one of every name.
UnreportedIsFaithful ==
    phase = "returned" /\ tree.errors = <<>> =>
        /\ \A i \in DOMAIN tree.tasks : AboutTask(i) = {} =>
             LET t == Min(Named(tree.tasks[i].name)) IN Means(allTasks[t].data, tree.tasks[i].value)
        /\ \A i \in DOMAIN tree.runLevels : AboutRunLevel(i) = {} =>
             NamesOf(runLevels[tree.runLevels[i].name]) = tree.runLevels[i].names
        /\ \A k \in DOMAIN tree.dependencies : AboutDependencies(k) = {} =>
             ToSet(tree.dependencies[k].names) \cup {tree.dependencies[k].name} \subseteq {task.name : task \in ToSet(allTasks)}
        /\ \A t \in DOMAIN allTasks : t = Min(Named(allTasks[t].name)) =>
             NamesOf(allTasks[t].dependencies) = Known(DeclaredDependencies(allTasks[t].name))

\* What is written as the command lines of a task.
CommandLines(node) ==
    LET commands == {p \in ToSet(node.properties) : node.tag = "start_stop" /\ p.key \in {"start", "stop"}}
    IN  {q.value.text : q \in {r \in UNION {ToSet(p.value.properties) : p \in commands} : r.key = "cmd"}}

\* When nothing else is wrong, a command line is reported exactly when it is empty or a
\* quote stays open: quotes, white space and the terminating null split every string as
\* they would be read by hand, so no command is refused or cut without reason.
CommandLinesJudged ==
    phase = "returned" /\ (\A e \in ToSet(errors) : e[1] = "cmd_line") =>
        (errors # <<>> <=> \E t \in ToSet(tree.tasks) : \E line \in CommandLines(t.value) : ~Splittable(line))
=============================================================================
