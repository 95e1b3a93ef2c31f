-------------------------------- MODULE CmdLine --------------------------------
(***************************************************************************)
(* read_value_node_impl<cmd_line>::read: a string is split into arguments, *)
(* which white space separates unless it is quoted.  At the end of the     *)
(* string the loop reads the terminating null, which counts as white space.*)
(***************************************************************************)
EXTENDS Arrangement, Sequences, SequencesExt

Quotes == {"'", "q"}
Space == {"sp", "nul"}

\* boost::optional
None == <<>>
Some(value) == <<value>>

Char(value, i) == IF i = Len(value) + 1 THEN "nul" ELSE value[i]

\* std::find_if from i on: a position, Len(value) + 1 if there is none.
FirstIn(value, i, chars) == Min({j \in i..Len(value) : value[j] \in chars} \cup {Len(value) + 1})
FirstNotIn(value, i, chars) == Min({j \in i..Len(value) : value[j] \notin chars} \cup {Len(value) + 1})

\* Mutant: either quote closes what the other one opened.
ClosingAny(value, i) == FirstIn(value, i + 1, Quotes)

\* Where the quote that opens at i closes.
Closing(value, i) == FirstIn(value, i + 1, {value[i]})

\* The result of a loop, behind what its round adds.
Behind(text, rest) == IF rest = None THEN None ELSE Some([rest[1] EXCEPT !.arg = text \o @])

\* The inner loop: what is left of the argument at every position, and where it ends.
ReadArgument(value) ==
    LET read[i \in 1..Len(value) + 1] ==
            CASE Char(value, i) \in Quotes ->
                   LET close == Closing(value, i) IN
                   IF close > Len(value) THEN None
                   ELSE Behind(SubSeq(value, i + 1, close - 1), read[close + 1])
              [] Char(value, i) \in Space -> Some([arg |-> <<>>, end |-> i])
              [] OTHER -> Behind(<<value[i]>>, read[i + 1])
    IN  read

\* The outer loop: the arguments from every position on.
SplitFrom(value) ==
    LET split[i \in 1..Len(value) + 1] ==
            LET start == FirstNotIn(value, i, Space)
                read == ReadArgument(value)[start]
                rest == split[read[1].end]
            IN  CASE start > Len(value) -> Some(<<>>)
                  [] start <= Len(value) /\ read = None -> None
                  [] OTHER -> IF rest = None THEN None ELSE Some(<<read[1].arg>> \o rest[1])
    IN  split

\* Executable and arguments, or None for an empty line and for a quote that stays open.
Split(value) == LET split == SplitFrom(value)[1] IN IF split = Some(<<>>) THEN None ELSE split

-----------------------------------------------------------------------------
(* The reference: what the quotes say, position by position *)

\* The quote that is open before the k-th character, "none" outside quotes.
Open(value) ==
    LET open[k \in 1..Len(value) + 1] ==
            IF k = 1 THEN "none"
            ELSE LET c == value[k - 1] IN
                 IF open[k - 1] = "none" THEN IF c \in Quotes THEN c ELSE "none"
                 ELSE IF c = open[k - 1] THEN "none" ELSE open[k - 1]
    IN  open

\* The arguments are the longest runs without a separator, each without the quotes that
\* open or close.
Arguments(value) ==
    LET open == Open(value)
        places == 1..Len(value)
        separators == {k \in places : open[k] = "none" /\ value[k] \in Space}
        marks == {k \in places : value[k] \in Quotes /\ open[k] \in {"none", value[k]}}
        starts == {k \in places : k \notin separators /\ (k = 1 \/ k - 1 \in separators)}
        ArgumentAt(k) ==
            LET last == Min({j \in separators : j > k} \cup {Len(value) + 1}) - 1
            IN  Picked(value, (k..last) \ marks)
        order == Ascending(starts)
    IN  [n \in DOMAIN order |-> ArgumentAt(order[n])]

\* There is something to execute, and no quote stays open.
Splittable(value) == Arguments(value) # <<>> /\ Open(value)[Len(value) + 1] = "none"
=============================================================================
