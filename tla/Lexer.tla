-------------------------------- MODULE Lexer --------------------------------
(***************************************************************************)
(* lexer::read_next_token over a text, one iteration of its loop per step. *)
(* A character is one of a few classes.                                    *)
(***************************************************************************)
EXTENDS Arrangement, Sequences, SequencesExt

CONSTANTS
    Texts,        \* the texts to read: sequences of characters
    Keywords,     \* the words that make_identifier_token knows
    IntModulus    \* the number of values of an int (2^32 in the code)

\* is_ascii_whitespace, control characters included.
Space == {"sp", "nl", "tab", "vtab", "cr", "formfeed", "bell", "backspace"}
Letter == {"a", "b", "f", "n", "r", "t", "v", "R"}
DigitValue == [x \in {"0", "9"} |-> IF x = "0" THEN 0 ELSE 9]   \* char_to_number
Digit == DOMAIN DigitValue
Punctuation == {"{", "}", "=", ";", ",", ":"}

\* The characters told apart; "?" is every other one.
Character ==
    UNION {Space, Letter, Digit, Punctuation, {"q", "apos", "bs", "(", ")", "/", "*", "?"}}

ASSUME LexerAssumption ==
    /\ Texts \subseteq Seq(Character)
    /\ IntModulus \in Nat /\ IntModulus % 2 = 0 /\ IntModulus > 18

\* The characters that may follow a backslash, and what they stand for.
Escape ==
    [a |-> "bell", b |-> "backspace", f |-> "formfeed", n |-> "nl", r |-> "cr", t |-> "tab", v |-> "vtab",
     bs |-> "bs", apos |-> "apos", q |-> "q"]

\* The characters that end the prefix of a raw string; other control characters do not.
RawStop == {"sp", "tab", "vtab", "cr", "nl", "(", ")"}

VARIABLES
    text,
    pos,      \* lexer::pos, End at the end of the text
    tokens,   \* what read_next_token has returned
    comments, \* ranges of the comments
    errors,   \* ranges of the errors pushed
    state     \* "lexing", "eof", or "aborted" by an assertion

vars == <<text, pos, tokens, comments, errors, state>>

End == Len(text) + 1

-----------------------------------------------------------------------------
(* Looking at the text *)

Matches(s, p) == p + Len(s) <= End /\ SubSeq(text, p, p + Len(s) - 1) = s

\* The first position from p on that is the end of the text or satisfies P.
FirstFrom(p, P(_)) == Min({i \in p..End : i = End \/ P(i)})

SkipWhitespace(p) == LET Solid(i) == text[i] \notin Space IN FirstFrom(p, Solid)

Lexeme(from, to) == SubSeq(text, from, to - 1)

Token(type, from, to, value) == [type |-> type, from |-> from, to |-> to, value |-> value]

Push(range) == errors' = Append(errors, range)

Comment(from, to) ==
    /\ comments' = Append(comments, <<from, to>>)
    /\ pos' = to
    /\ UNCHANGED <<text, tokens, state>>

Return(token) ==
    /\ tokens' = Append(tokens, token)
    /\ pos' = token.to
    /\ UNCHANGED <<text, comments, state>>

-----------------------------------------------------------------------------

Init ==
    /\ text \in Texts
    /\ pos = 1
    /\ tokens = <<>>
    /\ comments = <<>>
    /\ errors = <<>>
    /\ state = "lexing"

Eof(p) ==
    /\ p = End
    /\ pos' = p
    /\ state' = "eof"
    /\ UNCHANGED <<text, tokens, comments, errors>>

\* The comment ends with a newline, which advance_char skips; at the end of the text
\* there is nothing to skip and the assertion of advance_char fails.
LineComment(p) ==
    /\ Matches(<<"/", "/">>, p)
    /\ LET Newline(i) == text[i] = "nl"
           stop == FirstFrom(p + 2, Newline)
       IN  IF stop = End
           THEN state' = "aborted" /\ UNCHANGED <<text, pos, tokens, comments>>
           ELSE Comment(p, stop + 1)
    /\ UNCHANGED errors

\* Mutant: the star of the opening mark may close the comment.
BlockCommentReusesStar(p) ==
    /\ Matches(<<"/", "*">>, p)
    /\ LET Closing(i) == Matches(<<"*", "/">>, i)
           stop == FirstFrom(p + 1, Closing)
       IN  IF stop = End
           THEN Push(<<End, End>>) /\ Comment(p, End)
           ELSE Comment(p, stop + 2) /\ UNCHANGED errors

BlockComment(p) ==
    /\ Matches(<<"/", "*">>, p)
    /\ LET Closing(i) == Matches(<<"*", "/">>, i)
           stop == FirstFrom(p + 2, Closing)
       IN  IF stop = End
           THEN Push(<<End, End>>) /\ Comment(p, End)
           ELSE Comment(p, stop + 2) /\ UNCHANGED errors

RawString(p) ==
    /\ Matches(<<"R", "q">>, p)
    /\ LET Stops(i) == text[i] \in RawStop
           open == FirstFrom(p + 2, Stops)
           prefix == Lexeme(p + 2, open)
           Closing(i) == Matches(<<")">> \o prefix \o <<"q">>, i)
           stop == FirstFrom(open + 1, Closing)
       IN  IF ~Matches(<<"(">>, open)
           THEN Push(<<p, open>>) /\ Return(Token("bad_string", p, open, <<>>))
           ELSE IF stop = End
                THEN Push(<<p, End>>) /\ Return(Token("bad_string", p, End, Lexeme(open + 1, End)))
                ELSE /\ Return(Token("raw_string", p, stop + 2 + Len(prefix), Lexeme(open + 1, stop)))
                     /\ UNCHANGED errors

MakeIdentifierToken(from, to) ==
    Token(IF Lexeme(from, to) \in Keywords THEN "keyword" ELSE "identifier", from, to, <<>>)

Identifier(p) ==
    /\ ~Matches(<<"R", "q">>, p)
    /\ p < End /\ text[p] \in Letter
    /\ LET Other(i) == text[i] \notin Letter \cup Digit
           to == FirstFrom(p + 1, Other)
       IN  Return(MakeIdentifierToken(p, to))
    /\ UNCHANGED errors

\* An int that overflows wraps around, without an error.
Wrapped(n) == ((n + IntModulus \div 2) % IntModulus) - (IntModulus \div 2)

IntegerValue(digits) ==
    LET value[n \in 0..Len(digits)] ==
            IF n = 0 THEN 0 ELSE Wrapped(value[n - 1] * 10 + DigitValue[digits[n]])
    IN  value[Len(digits)]

Number(p) ==
    /\ p < End /\ text[p] \in Digit
    /\ LET Other(i) == text[i] \notin Digit
           to == FirstFrom(p + 1, Other)
       IN  Return(Token("number", p, to, <<IntegerValue(Lexeme(p, to))>>))
    /\ UNCHANGED errors

\* Mutant: a character is escaped whenever a backslash precedes it.
EscapedNaive(p) == [i \in p..End |-> i > p + 1 /\ text[i - 1] = "bs"]

\* Whether the character at i is the second one of an escape, in a string from p on.
Escaped(p) ==
    LET escaped[i \in p..End] == i > p + 1 /\ text[i - 1] = "bs" /\ ~escaped[i - 1]
    IN  escaped

\* What a string literal from p to stop says.
Unescape(p, stop, escaped) ==
    FlattenSeq([k \in 1..stop - p - 1 |->
        LET i == p + k
            c == text[i]
        IN  IF ~escaped[i] THEN IF c = "bs" THEN <<>> ELSE <<c>>
            ELSE IF c \in DOMAIN Escape THEN <<Escape[c]>> ELSE <<"bs", c>>])

String(p) ==
    /\ Matches(<<"q">>, p)
    /\ LET escaped == Escaped(p)
           Stops(i) == ~escaped[i] /\ text[i] \in {"nl", "q"}
           stop == FirstFrom(p + 1, Stops)
           invalid == {i \in p..stop - 1 : escaped[i] /\ text[i] \notin DOMAIN Escape}
           sorted == Ascending(invalid)
           marks == [k \in DOMAIN sorted |-> <<sorted[k] - 1, sorted[k] + 1>>]
           value == Unescape(p, stop, escaped)
       IN  IF Matches(<<"q">>, stop)
           THEN /\ errors' = errors \o marks
                /\ Return(Token(IF invalid = {} THEN "string" ELSE "bad_string", p, stop + 1, value))
           ELSE /\ errors' = errors \o marks \o <<<<p, stop>>>>
                /\ Return(Token("bad_string", p, stop, value))

\* Mutant: the lexer does not move over a character it does not know.
SimpleStuck(p) ==
    /\ p < End
    /\ text[p] \notin Letter \cup Digit \cup {"q"}
    /\ ~Matches(<<"/", "/">>, p) /\ ~Matches(<<"/", "*">>, p)
    /\ IF text[p] \in Punctuation
       THEN Return(Token(text[p], p, p + 1, <<>>))
       ELSE pos' = p /\ UNCHANGED <<text, tokens, comments, state>>
    /\ UNCHANGED errors

Simple(p) ==
    /\ p < End
    /\ text[p] \notin Letter \cup Digit \cup {"q"}
    /\ ~Matches(<<"/", "/">>, p) /\ ~Matches(<<"/", "*">>, p)
    /\ Return(Token(IF text[p] \in Punctuation THEN text[p] ELSE "unknown", p, p + 1, <<>>))
    /\ UNCHANGED errors

Next ==
    /\ state = "lexing"
    /\ LET p == SkipWhitespace(pos)
       IN  \/ Eof(p)
           \/ LineComment(p)
           \/ BlockComment(p)
           \/ RawString(p)
           \/ Identifier(p)
           \/ Number(p)
           \/ String(p)
           \/ Simple(p)

Spec == Init /\ [][Next]_vars /\ WF_vars(Next)

-----------------------------------------------------------------------------
(* Properties *)

\* The ways to write a character of a value in a string: as itself, if it may stand
\* there, or escaped.
Spellings(c) ==
    {<<"bs", e>> : e \in {d \in DOMAIN Escape : Escape[d] = c}}
        \cup {<<d>> : d \in {c} \ {"q", "bs", "nl"}}

\* The ways to write a value, one character after the other.
Writings(value) ==
    LET spellings == UNION {Spellings(value[k]) : k \in DOMAIN value}
        choices == {w \in [DOMAIN value -> spellings] : \A k \in DOMAIN value : w[k] \in Spellings(value[k])}
    IN  {FlattenSeq(w) : w \in choices}

\* The number that digits denote.
Denotes(digits) ==
    LET power[k \in 0..Len(digits)] == IF k = 0 THEN 1 ELSE 10 * power[k - 1]
        sum[n \in 0..Len(digits)] ==
            IF n = 0 THEN 0 ELSE sum[n - 1] + DigitValue[digits[n]] * power[Len(digits) - n]
    IN  sum[Len(digits)]

\* A literal without an error can be read back: the text between the quotes of a string
\* is one of the ways to write its value, and of no other value, since no spelling begins
\* another one or is shared by two characters; a raw string is the text between its
\* parentheses; and an integer that an int can hold is the number its digits denote,
\* whatever the overflow of longer ones does.
LiteralsReadBack ==
    \A i \in DOMAIN tokens :
        LET t == tokens[i]
            s == Lexeme(t.from, t.to)
        IN  /\ t.type = "string" => \E u \in Writings(t.value) : s = <<"q">> \o u \o <<"q">>
            /\ t.type = "raw_string" =>
                 \E n \in 0..Len(s) : s = <<"R", "q">> \o SubSeq(s, 3, n + 2) \o <<"(">> \o t.value
                                            \o <<")">> \o SubSeq(s, 3, n + 2) \o <<"q">>
            /\ t.type = "number" /\ Denotes(s) < IntModulus \div 2 => t.value = <<Denotes(s)>>

\* A comment ends at the first mark that closes it, and a block comment that is not
\* closed is an error at the end of the text.
CommentsClosed ==
    \A i \in DOMAIN comments :
        LET from == comments[i][1]
            to == comments[i][2]
            mark == IF text[from + 1] = "/" THEN <<"nl">> ELSE <<"*", "/">>
            closings == {k \in from + 2..End : Matches(mark, k)}
        IN  IF closings # {} THEN to = Min(closings) + Len(mark)
            ELSE to = End /\ <<End, End>> \in {errors[k] : k \in DOMAIN errors}

\* read_next_token comes to the end of every text.
LexingEnds == <>(state # "lexing")

\* The assertion of advance_char.
NoOverrun == state # "aborted"
=============================================================================
