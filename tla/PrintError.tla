------------------------------ MODULE PrintError ------------------------------
(***************************************************************************)
(* line_map and print_error, for the errors that the lexer pushes: the     *)
(* line of a position, the excerpt that is printed and the marks below it. *)
(***************************************************************************)
EXTENDS Lexer

\* Mutant: a line begins with the newline before it.
LineBreaksAtNewline == Ascending({1} \cup {i \in 1..Len(text) : text[i] = "nl"})

\* The first positions of the lines, line_breaks of line_map.
LineBreaks == Ascending({1} \cup {i + 1 : i \in {j \in 1..Len(text) : text[j] = "nl"}})

\* get_position: the last line that begins at p or before it.
Line(p) == Max({l \in DOMAIN LineBreaks : LineBreaks[l] <= p})
Column(p) == p - LineBreaks[Line(p)]

LineEnd(l) == IF l < Len(LineBreaks) THEN LineBreaks[l + 1] ELSE End

\* get_line_range_wo_newline looks at the character before the end of the line, even
\* when the line is empty.
ExcerptEnd(l) ==
    LET end == LineEnd(l) IN IF end > 1 /\ text[end - 1] = "nl" THEN end - 1 ELSE end

\* The line that print_error shows for an error, how many spaces go below it and how
\* many marks.
Excerpt(error) ==
    LET from == error[1]
        to == error[2]
        l == Line(from)
        size == ExcerptEnd(l) - LineBreaks[l]
    IN  [from |-> LineBreaks[l],
         to |-> ExcerptEnd(l),
         spaces |-> Column(from),
         marks |-> CASE from = to -> 1
                     [] from # to /\ Line(to) = l -> Column(to) - Column(from)
                     [] OTHER -> size - Column(from)]

-----------------------------------------------------------------------------
(* Properties *)

\* The error is on a last line that is empty: its excerpt would end before it begins,
\* and cannot be printed.
OnEmptyLastLine(error) == error[1] = End /\ LineBreaks[Len(LineBreaks)] = End /\ End > 1

\* What is printed points at the error: the excerpt is one line of the text, the marks
\* begin at the error and end with it or with the line, never with a negative count.
\* Columns count characters: a tab is one.
PointsAtError ==
    \A error \in ToSet(errors) : ~OnEmptyLastLine(error) =>
        LET e == Excerpt(error) IN
        /\ e.from + e.spaces = error[1]
        /\ \A i \in e.from..e.to - 1 : text[i] # "nl"
        /\ e.to = End \/ text[e.to] = "nl"
        /\ e.from = 1 \/ text[e.from - 1] = "nl"
        /\ e.marks > 0
        /\ error[1] < error[2] =>
             e.from + e.spaces + e.marks \in {error[2], e.to} /\ e.from + e.spaces + e.marks <= e.to
=============================================================================
