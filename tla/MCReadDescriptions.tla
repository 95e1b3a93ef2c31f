--------------------------- MODULE MCReadDescriptions ---------------------------
(* Trees with many values for one task, and trees with many declarations of
   simple tasks. *)
EXTENDS ReadDescriptions

SeqsOver(S, n) == UNION {[1..k -> S] : k \in 0..n}

String(text) == Leaf("string", text)
Word == String(<<"a">>)
OpenQuote == String(<<"q">>)
Identifier == Leaf("pseudo_identifier", <<"a">>)
Primitives ==
    {Word, OpenQuote, Leaf("bool", <<"true">>), Leaf("int", <<"5">>), Identifier, NoValue}

Property(key, value) == [key |-> key, value |-> value]
Structs(tag, keys, values, n) ==
    {Struct(tag, p) : p \in SeqsOver({Property(k, v) : k \in keys, v \in values}, n)}

Commands == Structs("command", {"cmd", "working_directory"}, {Word, OpenQuote, Identifier, NoValue}, 2)
Good == Struct("command", <<Property("cmd", Word)>>)

\* All strings of up to six characters as command lines.
Lines == {Struct("command", <<Property("cmd", String(l))>>) : l \in SeqsOver({"sp", "'", "q", "a"}, 6)}

TaskValues ==
    Primitives
    \cup Structs("sethostname", {"hostname", "no_restore"}, Primitives, 2)
    \cup Structs("sethostname", {"hostname", "no_restore"}, {Word, OpenQuote}, 3)
    \cup Structs("control", {"uds_filename", "cmd"}, Primitives, 2)
    \cup Structs("null", {"cmd"}, {Word}, 2)
    \cup Structs("other", {"cmd"}, {Word}, 1)
    \cup {Struct("start_stop", <<Property("start", c), Property("stop", Good)>>) : c \in Commands \cup Lines}
    \cup Structs("start_stop", {"start", "stop"}, {Good, Word, NoValue}, 3)

Null == Struct("null", <<>>)

\* What the parser has reported: the places where it found no value or no name.
ParserErrors(tasks, levels) ==
    LET hole(v) == v = NoValue \/ \E p \in ToSet(v.properties) :
                        p.value = NoValue \/ \E q \in ToSet(p.value.properties) : q.value = NoValue
    IN  IF (\E t \in ToSet(tasks) : hole(t.value)) \/ (\E l \in ToSet(levels) : l.name = NoName)
        THEN <<<<"expected", 0>>>> ELSE <<>>

Tree(tasks, dependencies, levels) ==
    [tasks |-> tasks, dependencies |-> dependencies, runLevels |-> levels,
     errors |-> ParserErrors(tasks, levels)]

Task(name, value) == [name |-> name, value |-> value]
Names(name, names) == [name |-> name, names |-> names]

ValueTrees == {Tree(<<Task(1, v)>>, <<>>, <<>>) : v \in TaskValues}

NullTasks(names) == [i \in DOMAIN names |-> Task(names[i], Null)]
Lists == {Names(n, m) : n \in 1..3, m \in {<<1>>, <<2, 1>>, <<3, 3>>}}

GraphTrees ==
    {Tree(NullTasks(names), dependencies, <<>>) :
        names \in SeqsOver(1..3, 3), dependencies \in SeqsOver(Lists, 2)}
    \cup {Tree(NullTasks(names), <<>>, levels) :
        names \in SeqsOver(1..3, 2), levels \in SeqsOver(Lists, 3)}

UnnamedTrees ==
    {Tree(NullTasks(<<1>>), <<>>, levels) : levels \in SeqsOver({Names(1, <<1>>), Names(NoName, <<1>>)}, 2)}

\* Two names declared twice each, in every order, by tasks that can be told apart.
Numbered(i) == Struct("control", <<Property("uds_filename", String([k \in 1..i |-> "a"]))>>)
NumberedTasks(names) == [i \in DOMAIN names |-> Task(names[i], Numbered(i))]
RepeatedTrees ==
    {Tree(NumberedTasks(names), dependencies, <<>>) :
        names \in [1..4 -> 1..2],
        dependencies \in {<<>>, <<Names(1, <<2, 3, 1>>), Names(2, <<1>>), Names(1, <<2>>)>>}}
    \cup {Tree(NumberedTasks(<<1, 2>>), <<>>, levels) :
        levels \in [1..4 -> {Names(1, <<1>>), Names(1, <<2>>), Names(2, <<3>>), Names(2, <<2, 1>>)}]}

AllTrees == ValueTrees \cup GraphTrees \cup UnnamedTrees \cup RepeatedTrees
=============================================================================
