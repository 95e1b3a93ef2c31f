-------------------------------- MODULE Parser --------------------------------
(***************************************************************************)
(* parser_context over the tokens of a file.  Every parse function is a    *)
(* script, the expect_token calls and loops it runs through, and a call of *)
(* one is a frame on a stack: a step is one expect_token, one round of a   *)
(* loop or one return.  A token is its type, and literals of all types are *)
(* one.                                                                    *)
(***************************************************************************)
EXTENDS Integers, Sequences, SequencesExt

CONSTANT Inputs   \* the files to parse: sequences of tokens

\* White space is skipped, and the end of the file is no token here.
TokenType ==
    {"task", "run_level", "identifier", "literal", "depends", "equals", "colon", "comma",
     "semicolon", "lbrace", "rbrace", "unknown"}

ASSUME ParserAssumption == Inputs \subseteq Seq(TokenType)

VARIABLES
    fileTokens,
    cursor,   \* the next token, the errors reported and last_error_place
    stack,    \* the calls of parse functions below parse_file
    tree,     \* the declarations parsed, in the order of the file
    parsing   \* FALSE once parse_file has returned

parserVars == <<fileTokens, cursor, stack, tree, parsing>>

\* What each function reads after the token that made its caller call it. Tokens are
\* expected; the others are the call of parse_value and the loops.
Script ==
    [task       |-> <<"identifier", "equals", "VALUE", "semicolon">>,
     dependency |-> <<"depends", "NAMES", "semicolon">>,
     run_level  |-> <<"identifier", "colon", "NAMES", "semicolon">>,
     struct     |-> <<"PROPERTIES", "rbrace">>,
     property   |-> <<"equals", "VALUE">>]

\* The tokens without which a function returns no node.
Required ==
    [task       |-> {"identifier", "equals"},
     dependency |-> {},
     run_level  |-> {},
     struct     |-> {},
     property   |-> {"equals"}]

Leaf(type) == [type |-> type, missing |-> {}, children |-> <<>>]
None == Leaf("none")
Call(fn) == [fn |-> fn, rest |-> Script[fn], missing |-> {}, children |-> <<>>]

-----------------------------------------------------------------------------
(* The cursor.  A token is named by its index, and so is the place of an     *)
(* error: going back over white space from a token never reaches the place   *)
(* of another one.                                                           *)

TT(c) == IF c.pos > Len(fileTokens) THEN "eof" ELSE fileTokens[c.pos]

Advance(c) == IF TT(c) = "eof" THEN c ELSE [c EXCEPT !.pos = @ + 1]

\* Mutant: a place is reported as often as it is met.
ErrorEachTime(c) ==
    [c EXCEPT !.errors = Append(@, c.pos), !.lastErrorPlace = c.pos]

Error(c) ==
    IF c.lastErrorPlace = c.pos THEN c
    ELSE [c EXCEPT !.errors = Append(@, c.pos), !.lastErrorPlace = c.pos]

Expect(c, type) == IF TT(c) = type THEN Advance(c) ELSE Error(c)

-----------------------------------------------------------------------------
(* The stack *)

Top == Last(stack)
Doing(step) == stack # <<>> /\ Top.rest # <<>> /\ Head(Top.rest) = step
Replace(frame) == Append(Front(stack), frame)

\* The top frame is done with its step and got nodes from it.
Done(nodes) == [Top EXCEPT !.rest = Tail(@), !.children = @ \o nodes]

-----------------------------------------------------------------------------

ParserInit ==
    /\ fileTokens \in Inputs
    /\ cursor = [pos |-> 1, errors |-> <<>>, lastErrorPlace |-> 0]
    /\ stack = <<>>
    /\ tree = <<>>
    /\ parsing = TRUE

(* parse_file *)

Declaration(token, fn) ==
    /\ stack = <<>> /\ TT(cursor) = token
    /\ cursor' = Advance(cursor)
    /\ stack' = <<Call(fn)>>
    /\ UNCHANGED <<fileTokens, tree, parsing>>

\* Mutant: the unexpected token is reported and stays.
ExpectedDeclarationStuck ==
    /\ stack = <<>> /\ TT(cursor) \notin {"eof", "task", "identifier", "run_level"}
    /\ cursor' = Error(cursor)
    /\ UNCHANGED <<fileTokens, stack, tree, parsing>>

ExpectedDeclaration ==
    /\ stack = <<>> /\ TT(cursor) \notin {"eof", "task", "identifier", "run_level"}
    /\ cursor' = Advance(Error(cursor))
    /\ UNCHANGED <<fileTokens, stack, tree, parsing>>

EndOfFile ==
    /\ stack = <<>> /\ TT(cursor) = "eof"
    /\ parsing' = FALSE
    /\ UNCHANGED <<fileTokens, cursor, stack, tree>>

(* The steps of the other functions *)

ExpectToken(type) ==
    /\ Doing(type)
    /\ cursor' = Expect(cursor, type)
    /\ stack' = Replace([Done(<<>>) EXCEPT !.missing = IF TT(cursor) = type THEN @ ELSE @ \cup {type}])
    /\ UNCHANGED <<fileTokens, tree, parsing>>

\* Mutant: what cannot be a value is skipped.
NoValueSkips ==
    /\ TT(cursor) \notin {"literal", "identifier"}
    /\ cursor' = Advance(Error(cursor))
    /\ stack' = Replace(Done(<<None>>))

NoValue ==
    /\ TT(cursor) \notin {"literal", "identifier"}
    /\ cursor' = Error(cursor)
    /\ stack' = Replace(Done(<<None>>))

ParseValue ==
    /\ Doing("VALUE")
    /\ \/ /\ TT(cursor) = "literal"
          /\ cursor' = Advance(cursor)
          /\ stack' = Replace(Done(<<Leaf("literal")>>))
       \/ /\ TT(cursor) = "identifier" /\ TT(Advance(cursor)) # "lbrace"
          /\ cursor' = Advance(cursor)
          /\ stack' = Replace(Done(<<Leaf("pseudo_identifier")>>))
       \/ /\ TT(cursor) = "identifier" /\ TT(Advance(cursor)) = "lbrace"
          /\ cursor' = Advance(Advance(cursor))
          /\ stack' = Append(Replace(Done(<<>>)), Call("struct"))
       \/ NoValue
    /\ UNCHANGED <<fileTokens, tree, parsing>>

\* A round of the loop over properties.
ParseProperties ==
    /\ Doing("PROPERTIES")
    /\ \/ /\ TT(cursor) \in {"eof", "rbrace"}
          /\ stack' = Replace(Done(<<>>))
          /\ UNCHANGED cursor
       \/ /\ TT(cursor) = "identifier"
          /\ cursor' = Advance(cursor)
          /\ stack' = Append(Replace([Top EXCEPT !.rest = <<"COMMA">> \o @]), Call("property"))
       \/ /\ TT(cursor) \notin {"eof", "rbrace", "identifier"}
          /\ cursor' = Advance(Error(cursor))
          /\ UNCHANGED stack
    /\ UNCHANGED <<fileTokens, tree, parsing>>

\* Mutant: a comma that is missing is not missed.
AfterPropertyLenient ==
    /\ Doing("COMMA")
    /\ cursor' = IF TT(cursor) = "comma" THEN Advance(cursor) ELSE cursor
    /\ stack' = Replace(Done(<<>>))
    /\ UNCHANGED <<fileTokens, tree, parsing>>

\* After a property comes a comma, which only the last one may lack.
AfterProperty ==
    /\ Doing("COMMA")
    /\ cursor' = IF TT(cursor) = "rbrace" THEN cursor ELSE Expect(cursor, "comma")
    /\ stack' = Replace(Done(<<>>))
    /\ UNCHANGED <<fileTokens, tree, parsing>>

\* Mutant: a semicolon does not end the list.
ParseNamesOpenEnd ==
    /\ Doing("NAMES")
    /\ LET id == Expect(cursor, "identifier")
           found == TT(cursor) = "identifier"
           names == IF found THEN <<Leaf("name")>> ELSE <<>>
           more == [Top EXCEPT !.children = @ \o names]
       IN  \/ /\ TT(id) = "comma"
              /\ cursor' = Advance(id) /\ stack' = Replace(more)
           \/ /\ TT(id) # "comma" /\ (found => TT(id) = "eof")
              /\ cursor' = id /\ stack' = Replace(Done(names))
           \/ /\ TT(id) \notin {"comma", "eof"} /\ found
              /\ cursor' = Error(id) /\ stack' = Replace(more)
    /\ UNCHANGED <<fileTokens, tree, parsing>>

\* A round of the loop over the names of a dependency or a run level.
ParseNames ==
    /\ Doing("NAMES")
    /\ LET id == Expect(cursor, "identifier")
           found == TT(cursor) = "identifier"
           names == IF found THEN <<Leaf("name")>> ELSE <<>>
           more == [Top EXCEPT !.children = @ \o names]
       IN  \/ /\ TT(id) = "comma"
              /\ cursor' = Advance(id) /\ stack' = Replace(more)
           \/ /\ TT(id) # "comma" /\ (found => TT(id) \in {"eof", "semicolon"})
              /\ cursor' = id /\ stack' = Replace(Done(names))
           \/ /\ TT(id) \notin {"comma", "eof", "semicolon"} /\ found
              /\ cursor' = Error(id) /\ stack' = Replace(more)
    /\ UNCHANGED <<fileTokens, tree, parsing>>

\* The node goes to the caller, or into the tree.
ReturnNode ==
    /\ stack # <<>> /\ Top.rest = <<>>
    /\ LET nodes == IF Required[Top.fn] \cap Top.missing # {} THEN <<>>
                    ELSE <<[type |-> Top.fn, missing |-> Top.missing, children |-> Top.children]>>
           callers == Front(stack)
       IN  IF callers = <<>> THEN stack' = <<>> /\ tree' = tree \o nodes
           ELSE /\ stack' = Append(Front(callers), [Last(callers) EXCEPT !.children = @ \o nodes])
                /\ UNCHANGED tree
    /\ UNCHANGED <<fileTokens, cursor, parsing>>

ParserNext ==
    /\ parsing
    /\ \/ Declaration("task", "task")
       \/ Declaration("identifier", "dependency")
       \/ Declaration("run_level", "run_level")
       \/ ExpectedDeclaration
       \/ EndOfFile
       \/ \E type \in {"identifier", "equals", "colon", "depends", "semicolon", "rbrace"} : ExpectToken(type)
       \/ ParseValue
       \/ ParseProperties
       \/ AfterProperty
       \/ ParseNames
       \/ ReturnNode

ParserSpec == ParserInit /\ [][ParserNext]_parserVars /\ WF_parserVars(ParserNext)

-----------------------------------------------------------------------------
(* Properties *)

\* Every place is reported once, in the order of the file, however many functions on
\* the stack stumble over the same token.
OneErrorPerPlace ==
    \A i \in 2..Len(cursor.errors) : cursor.errors[i - 1] < cursor.errors[i]

\* parse_file returns, whatever is in the file.
ParsingEnds == <>~parsing
=============================================================================
