-------------------------------- MODULE Grammar --------------------------------
(***************************************************************************)
(* The grammar of configuration files, written down without the parser: the *)
(* ways to write a declaration.  Parser is checked against it.              *)
(***************************************************************************)
EXTENDS Parser

CONSTANTS
    Trees,   \* some files, as sequences of declarations
    Depth    \* of the values in them

\* One element of each of the sets, one after the other.
Concatenations(sets) ==
    LET choices == {f \in [DOMAIN sets -> UNION ToSet(sets)] : \A k \in DOMAIN sets : f[k] \in sets[k]}
    IN  {FlattenSeq(f) : f \in choices}

\* A comma may follow the last property of a struct. Here and below, forms has the ways
\* to write the nodes that are less deep.
PropertyForms(properties, forms) ==
    LET separated == [k \in DOMAIN properties |-> {f \o <<"comma">> : f \in forms[properties[k]]}]
        last == Len(properties)
    IN  Concatenations(separated)
          \cup Concatenations([k \in DOMAIN properties |-> IF k = last THEN forms[properties[k]] ELSE separated[k]])

ValueForms(node, forms) ==
    CASE node.type = "literal" -> {<<"literal">>}
      [] node.type = "pseudo_identifier" -> {<<"identifier">>}
      [] node.type = "struct" ->
           {<<"identifier", "lbrace">> \o p \o <<"rbrace">> : p \in PropertyForms(node.children, forms)}
      [] node.type = "property" /\ Len(node.children) = 1 ->
           {<<"identifier", "equals">> \o v : v \in forms[node.children[1]]}
      [] OTHER -> {}

\* Nodes that lack nothing and have their children in C.
Nodes(types, C) == [type : types, missing : {{}}, children : Seq(C)]

OfType(types, nodes) == {node \in nodes : node.type \in types}
ValueType == {"literal", "pseudo_identifier", "struct"}

\* The ways to write values and properties one level deeper.
Deeper(forms) ==
    [node \in Nodes({"literal", "pseudo_identifier"}, {})
                \cup Nodes({"struct"}, OfType({"property"}, DOMAIN forms))
                \cup Nodes({"property"}, OfType(ValueType, DOMAIN forms))
       |-> ValueForms(node, forms)]

\* The ways to write the values and properties that are at most so deep.
FormsTo(depth) ==
    LET forms[d \in 0..depth] == IF d = 0 THEN <<>> ELSE Deeper(forms[d - 1])
    IN  forms[depth]

NameForms(names) ==
    IF names = <<>> THEN {}
    ELSE {[i \in 1..2 * Len(names) - 1 |-> IF i % 2 = 1 THEN "identifier" ELSE "comma"]}

DeclarationForms(node, forms) ==
    LET ways == CASE node.type = "task" /\ Len(node.children) = 1 ->
                        {<<"task", "identifier", "equals">> \o v : v \in forms[node.children[1]]}
                   [] node.type = "dependency" ->
                        {<<"identifier", "depends">> \o n : n \in NameForms(node.children)}
                   [] node.type = "run_level" ->
                        {<<"run_level", "identifier", "colon">> \o n : n \in NameForms(node.children)}
                   [] OTHER -> {}
    IN  {w \o <<"semicolon">> : w \in ways}

DeclarationNodes(forms) ==
    Nodes({"task"}, OfType(ValueType, DOMAIN forms)) \cup Nodes({"dependency", "run_level"}, {Leaf("name")})

FileForms(nodes, depth) ==
    Concatenations([k \in DOMAIN nodes |-> DeclarationForms(nodes[k], FormsTo(depth))])

ASSUME GrammarAssumption == Depth \in Nat /\ Trees \subseteq Seq(DeclarationNodes(FormsTo(Depth)))

WellFormed == UNION {FileForms(nodes, Depth) : nodes \in Trees}

\* Nothing is lost silently: what was read without an error is, token by token, a way
\* to write the declarations in the tree.
SilentMeansComplete ==
    stack = <<>> /\ cursor.errors = <<>> =>
        SubSeq(fileTokens, 1, cursor.pos - 1) \in FileForms(tree, Len(fileTokens))

\* No complaint about a file that is written in the grammar; together with
\* SilentMeansComplete, the parser accepts exactly the grammar.
AcceptsGrammar == fileTokens \in WellFormed => cursor.errors = <<>>

\* Outside braces a semicolon ends whatever went wrong: what follows it is read as if
\* it stood alone, and without a complaint when it is well-formed.
RecoversAtSemicolon ==
    \A k \in 1..Len(fileTokens) :
        /\ fileTokens[k] = "semicolon"
        /\ \A i \in 1..k : fileTokens[i] \notin {"lbrace", "rbrace"}
        /\ SubSeq(fileTokens, k + 1, Len(fileTokens)) \in WellFormed
        => \A i \in 1..Len(cursor.errors) : cursor.errors[i] <= k
=============================================================================
