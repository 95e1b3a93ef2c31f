------------------------------- MODULE ReadValue -------------------------------
(***************************************************************************)
(* From value nodes to task_data: extract_property_from_map and the        *)
(* read_value_node_impl of every type, as operators.  A result is a value, *)
(* or None, with the errors pushed on the way.                             *)
(***************************************************************************)
EXTENDS CmdLine

Result(value, errors) == [value |-> value, errors |-> errors]

\* A value_node: a leaf has a text, a struct a tag and properties.
Leaf(type, text) == [type |-> type, text |-> text, tag |-> "none", properties |-> <<>>]
Struct(tag, properties) == [type |-> "struct", text |-> <<>>, tag |-> tag, properties |-> properties]
NoValue == Leaf("none", <<>>)   \* a null value_node

Required(key, type) == [key |-> key, type |-> type, required |-> TRUE, default |-> None]
Optional(key, type, default) == [key |-> key, type |-> type, required |-> FALSE, default |-> Some(default)]

\* The keys of properties in their order.
Keys == <<"cmd", "hostname", "no_restore", "start", "stop", "uds_filename", "working_directory">>
Rank(key) == CHOOSE n \in DOMAIN Keys : Keys[n] = key

\* The properties that are extracted for each tag, in their order.
Schema ==
    [sethostname |-> <<Required("hostname", "string"), Optional("no_restore", "bool", <<"false">>)>>,
     command     |-> <<Required("cmd", "cmd_line"), Optional("working_directory", "string", <<"/">>)>>,
     start_stop  |-> <<Required("start", "command"), Required("stop", "command")>>,
     control     |-> <<Required("uds_filename", "string")>>,
     null        |-> <<>>]

TaskTags == {"sethostname", "start_stop", "control", "null"}

\* The nodes of a task: what its properties have is a leaf or a struct of leaves.
NodeOver(properties) == [type : STRING, text : Seq(STRING), tag : STRING, properties : properties]
PropertiesOf(values) == Seq([key : ToSet(Keys), value : values])
LeafNode == NodeOver({<<>>})
CommandNode == NodeOver(PropertiesOf(LeafNode))
ValueNode == NodeOver(PropertiesOf(CommandNode))

\* No value is missing in a node of a task.
Complete(node) ==
    /\ node.type # "none"
    /\ \A p \in ToSet(node.properties) :
         p.value.type # "none" /\ \A q \in ToSet(p.value.properties) : q.value.type # "none"

-----------------------------------------------------------------------------

\* Mutant: the flag keeps later entries from being reported too.
ReportDuplicatesOnce(keys) ==
    LET seconds == {i \in 2..Len(keys) : keys[i - 1] = keys[i]}
    IN  UNION {{i - 1, i} : i \in {j \in seconds : \A k \in seconds : j <= k}}

\* report_duplicates on a multimap with these keys, in its order: of the first pair of
\* equal neighbours both entries are reported, of every later pair the second one.
ReportDuplicates(keys) ==
    LET seconds == {i \in 2..Len(keys) : keys[i - 1] = keys[i]}
    IN  seconds \cup {i - 1 : i \in {j \in seconds : \A k \in seconds : j <= k}}

\* The order of a multimap: by key, equal keys as they were inserted.
MultimapOrder(ranks) ==
    LET places == DOMAIN ranks
        before == {p \in places \X places : \/ ranks[p[1]] < ranks[p[2]]
                                            \/ ranks[p[1]] = ranks[p[2]] /\ p[1] <= p[2]}
    IN  Arranged(places, before)

\* value_for_pseudo_identifier: the identifier itself, where a string is wanted.
ForPseudoIdentifier(type, node) == IF type = "string" THEN Some(node.text) ELSE None

CanRead(type, node) ==
    CASE type \in {"string", "cmd_line"} -> node.type = "string"
      [] type = "bool" -> node.type = "bool"
      [] OTHER -> node.type = "struct" /\ node.tag = type

ReadPrimitive(type, node) ==
    LET value == IF type = "cmd_line" THEN Split(node.text) ELSE Some(node.text)
    IN  Result(value, IF value = None THEN <<"cmd_line">> ELSE <<>>)

\* The node that a property is read from: of duplicates the first counts.
Written(p, properties) == {i \in DOMAIN properties : properties[i].key = p.key}
FirstNode(p, properties) == properties[Min(Written(p, properties))].value

\* extract_property_from_map, with and without a default value; read is what the read
\* function of the property's type makes of its node.
Extract(p, properties, read) ==
    LET node == FirstNode(p, properties)
        Or(value) == IF value = None THEN p.default ELSE value
    IN  IF Written(p, properties) = {}
        THEN Result(p.default, IF p.required THEN <<"not_found">> ELSE <<>>)
        ELSE CASE node.type = "none" -> Result(p.default, <<>>)
               [] node.type = "pseudo_identifier" -> Result(Or(ForPseudoIdentifier(p.type, node)), <<"identifier">>)
               [] OTHER -> IF ~CanRead(p.type, node) THEN Result(p.default, <<"type">>)
                           ELSE Result(Or(read.value), read.errors)

\* The read functions of structs, with the results for the properties of the schema.
\* sethostname returns as soon as it has no hostname, the others extract all first.
ReadStruct(node, results) ==
    LET schema == Schema[node.tag]
        order == MultimapOrder([i \in DOMAIN node.properties |-> Rank(node.properties[i].key)])
        duplicates == ReportDuplicates([i \in DOMAIN order |-> node.properties[order[i]].key])
        failed == {k \in DOMAIN schema : schema[k].required /\ results[k].value = None}
        extracted == IF node.tag = "sethostname" /\ failed # {} THEN <<results[1]>> ELSE results
        fields == [key \in {schema[k].key : k \in DOMAIN schema} |->
                     results[CHOOSE k \in DOMAIN schema : schema[k].key = key].value[1]]
    IN  Result(IF failed = {} THEN Some([tag |-> node.tag, fields |-> fields]) ELSE None,
               [n \in 1..Cardinality(duplicates) |-> "duplicate_property"]
                 \o FlattenSeq([k \in DOMAIN extracted |-> extracted[k].errors]))

PrimitiveResults(node) ==
    [k \in DOMAIN Schema[node.tag] |->
        LET p == Schema[node.tag][k]
        IN  Extract(p, node.properties, ReadPrimitive(p.type, FirstNode(p, node.properties)))]

\* read_value_node for the properties of a task: commands are structs again.
ReadProperty(type, node) ==
    IF type = "command" THEN ReadStruct(node, PrimitiveResults(node)) ELSE ReadPrimitive(type, node)

PropertyResults(node) ==
    [k \in DOMAIN Schema[node.tag] |->
        LET p == Schema[node.tag][k]
        IN  Extract(p, node.properties, ReadProperty(p.type, FirstNode(p, node.properties)))]

\* read_task
ReadTask(node) ==
    CASE node.type = "none" -> Result(None, <<>>)
      [] node.type = "pseudo_identifier" -> Result(None, <<"identifier">>)
      [] node.type = "struct" /\ node.tag \in TaskTags -> ReadStruct(node, PropertyResults(node))
      [] OTHER -> Result(None, <<"not_a_task">>)
=============================================================================
