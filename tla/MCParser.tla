------------------------------- MODULE MCParser -------------------------------
(* Every short sequence of tokens after the first tokens of a declaration, every
   file of one or two small declarations, and broken declarations before a
   well-formed one. *)
EXTENDS Grammar

SeqsOver(types, n) == UNION {[1..k -> types] : k \in 0..n}

Prefixed(prefix, rest) == {prefix \o r : r \in rest}

Node(type, children) == [type |-> type, missing |-> {}, children |-> children]
Properties(values) == [i \in DOMAIN values |-> Node("property", <<values[i]>>)]
Struct(values) == Node("struct", Properties(values))
Flat == {Leaf("literal"), Leaf("pseudo_identifier"), Struct(<<>>)}
Values ==
    Flat \cup {Struct(<<v>>) : v \in Flat}
         \cup {Struct(<<v, w>>) : v, w \in Flat}
         \cup {Struct(<<Struct(<<v>>)>>) : v \in Flat}
NameLists == {[i \in 1..n |-> Leaf("name")] : n \in 1..3}

Declarations ==
    {Node("task", <<v>>) : v \in Values} \cup {Node(t, n) : t \in {"dependency", "run_level"}, n \in NameLists}

Sentences == UNION {FileForms(<<d>>, Depth) : d \in Declarations}
SmallSentences == {s \in Sentences : Len(s) <= 5}

SmallDeclarations == {d \in Declarations : FileForms(<<d>>, Depth) \cap SmallSentences # {}}

\* Files of no, of one and of two declarations.
SmallTrees == {<<>>} \cup {<<d>> : d \in Declarations} \cup {<<d, e>> : d, e \in SmallDeclarations}

Broken ==
    Prefixed(<<"task", "identifier", "equals">>,
             SeqsOver({"identifier", "equals", "lbrace", "rbrace", "comma", "literal", "semicolon"}, 5))
    \cup SeqsOver({"task", "identifier", "equals", "lbrace", "rbrace"}, 5)
    \cup Prefixed(<<"identifier">>, SeqsOver({"depends", "identifier", "comma", "semicolon", "unknown"}, 5))
    \cup Prefixed(<<"run_level">>, SeqsOver({"colon", "identifier", "comma", "semicolon", "task"}, 5))

\* One token missing, one token too many.
Edited ==
    UNION {{RemoveAt(s, i) : i \in 1..Len(s)} : s \in Sentences}
    \cup UNION {{InsertAt(s, i, t) : i \in 1..Len(s), t \in {"identifier", "comma", "rbrace", "task"}} : s \in Sentences}

BrokenThenGood ==
    {b \o <<"semicolon">> \o s :
        b \in SeqsOver({"task", "identifier", "equals", "depends", "run_level", "comma"}, 4),
        s \in SmallSentences}

Files == WellFormed \cup Broken \cup Edited \cup BrokenThenGood
=============================================================================
