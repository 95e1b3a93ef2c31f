----------------------------- MODULE SyntaxProofs -----------------------------
(* The lexer and the excerpts that show its errors, the errors of parser_context
   and what it reads without one, for every text and every file. *)
EXTENDS PrintError, Grammar, SequenceLemmas

-----------------------------------------------------------------------------
(* Searching the text *)

\* The text ends behind its last character.
LEMMA EndFacts ==
    ASSUME text \in Seq(Character)
    PROVE  /\ End \in Nat /\ End >= 1 /\ Len(text) \in Nat /\ End = Len(text) + 1
           /\ DOMAIN text = 1..Len(text)
  BY DEF End

\* A search ends in the text.
LEMMA Found ==
    ASSUME text \in Seq(Character), NEW p \in 1..End, NEW S \in SUBSET (p..End), End \in S
    PROVE  Min(S) \in p..End
<1>1. S \subseteq Nat /\ S # {}
  BY EndFacts
<1> QED
  BY <1>1, MinFacts

\* A mark matches character by character.
LEMMA MatchesFacts ==
    ASSUME text \in Seq(Character), NEW p \in Nat, p >= 1, NEW s \in Seq(Character)
    PROVE  Matches(s, p) <=> p + Len(s) <= End /\ \A i \in 1..Len(s) : text[p + i - 1] = s[i]
<1> DEFINE n == Len(s)
           m == p + n - 1
           u == SubSeq(text, p, m)
<1>1. n \in Nat /\ m \in Int /\ m - p + 1 = n
  OBVIOUS
<1>2. Matches(s, p) <=> p + n <= End /\ u = s
  BY DEF Matches
<1>3. ASSUME p + n <= End
      PROVE  u = s <=> \A i \in 1..n : text[p + i - 1] = s[i]
  <2>1. \A i \in p..m : text[i] \in Character
    <3>1. ASSUME NEW i \in p..m
          PROVE  i \in 1..Len(text)
      BY <1>1, <1>3, EndFacts
    <3> QED
      BY <3>1, ElementOfSeq
  <2>2. u \in Seq(Character) /\ Len(u) = (IF p <= m THEN n ELSE 0) /\ \A i \in 1..n : u[i] = text[p + i - 1]
    <3> HIDE DEF n, m
    <3> QED
      BY <1>1, <2>1, SubSeqProperties
  <2>3. Len(u) = n
    BY <1>1, <2>2
  <2>4. u = s <=> \A i \in 1..n : u[i] = s[i]
    <3> HIDE DEF u
    <3> QED
      BY <2>2, <2>3, SeqEqual
  <2> QED
    BY <2>2, <2>4
<1> HIDE DEF u, m
<1> QED
  BY <1>2, <1>3

\* Marks of one and of two characters.
LEMMA ShortMarks ==
    ASSUME text \in Seq(Character), NEW p \in Nat, p >= 1, NEW x \in Character, NEW y \in Character
    PROVE  /\ Matches(<<x>>, p) <=> p < End /\ text[p] = x
           /\ Matches(<<x, y>>, p) <=> p + 1 < End /\ text[p] = x /\ text[p + 1] = y
<1> DEFINE one == <<x>>
           two == <<x, y>>
           q == p + 1
<1>1. /\ one \in Seq(Character) /\ Len(one) = 1 /\ one[1] = x
      /\ two \in Seq(Character) /\ Len(two) = 2 /\ two[1] = x /\ two[2] = y
  BY TupleFacts
<1>2. p + 1 - 1 = p /\ p + 2 - 1 = q /\ 1..1 = {1} /\ 1..2 = {1, 2} /\ q \in Nat
  OBVIOUS
<1>3. End \in Nat
  BY EndFacts
<1> HIDE DEF one, two, q
<1>4. Matches(one, p) <=> p + 1 <= End /\ \A i \in {1} : text[p + i - 1] = one[i]
  <2>1. Matches(one, p) <=> p + Len(one) <= End /\ \A i \in 1..Len(one) : text[p + i - 1] = one[i]
    BY <1>1, MatchesFacts, Zenon
  <2> QED
    BY <1>1, <1>2, <2>1, Zenon
<1>5. Matches(two, p) <=> p + 2 <= End /\ \A i \in {1, 2} : text[p + i - 1] = two[i]
  <2>1. Matches(two, p) <=> p + Len(two) <= End /\ \A i \in 1..Len(two) : text[p + i - 1] = two[i]
    BY <1>1, MatchesFacts, Zenon
  <2> QED
    BY <1>1, <1>2, <2>1, Zenon
<1>6. Matches(one, p) <=> p + 1 <= End /\ text[p] = x
  BY <1>1, <1>2, <1>4
<1>7. Matches(two, p) <=> p + 2 <= End /\ text[p] = x /\ text[q] = y
  BY <1>1, <1>2, <1>5
<1>8. (p + 1 <= End <=> p < End) /\ (p + 2 <= End <=> p + 1 < End)
  BY <1>3
<1> QED
  BY <1>6, <1>7, <1>8 DEF one, two, q

\* The marks of the lexer.
LEMMA Marks ==
    ASSUME text \in Seq(Character), NEW p \in Nat, p >= 1
    PROVE  /\ Matches(<<"/", "/">>, p) <=> p + 1 < End /\ text[p] = "/" /\ text[p + 1] = "/"
           /\ Matches(<<"/", "*">>, p) <=> p + 1 < End /\ text[p] = "/" /\ text[p + 1] = "*"
           /\ Matches(<<"*", "/">>, p) <=> p + 1 < End /\ text[p] = "*" /\ text[p + 1] = "/"
           /\ Matches(<<"R", "q">>, p) <=> p + 1 < End /\ text[p] = "R" /\ text[p + 1] = "q"
           /\ Matches(<<"nl">>, p) <=> p < End /\ text[p] = "nl"
           /\ Matches(<<"q">>, p) <=> p < End /\ text[p] = "q"
           /\ Matches(<<"(">>, p) <=> p < End /\ text[p] = "("
<1>1. "/" \in Character /\ "*" \in Character /\ "R" \in Character /\ "q" \in Character /\ "nl" \in Character /\ "(" \in Character
  BY DEF Character, Space, Letter
<1>2. \A x, y \in Character :
        /\ Matches(<<x>>, p) <=> p < End /\ text[p] = x
        /\ Matches(<<x, y>>, p) <=> p + 1 < End /\ text[p] = x /\ text[p + 1] = y
  BY ShortMarks
<1> QED
  BY <1>1, <1>2, Zenon

\* The first of the places in C, or the end: what FirstFrom finds.
LEMMA FirstOf ==
    ASSUME text \in Seq(Character), NEW p \in 1..End, NEW C, C \subseteq p..End, End \notin C
    PROVE  /\ Min(C \cup {End}) \in p..End
           /\ Min(C \cup {End}) = End <=> C = {}
           /\ C # {} => Min(C) = Min(C \cup {End})
<1> DEFINE S == C \cup {End}
<1>1. End \in Nat /\ \A i \in p..End : i \in Nat /\ i <= End
  BY EndFacts
<1>2. S \subseteq Nat /\ S # {} /\ C \subseteq Nat /\ S \subseteq p..End
  BY <1>1, EndFacts
<1> HIDE DEF S
<1>3. Min(S) \in S /\ \A y \in S : Min(S) <= y
  BY <1>2, MinFacts
<1>4. ASSUME C # {}
      PROVE  Min(S) \in C
  <2>1. PICK c \in C : TRUE
    BY <1>4
  <2>2. c \in p..End /\ c # End /\ c \in S
    BY <2>1 DEF S
  <2>3. Min(S) <= c /\ Min(S) \in Nat
    BY <1>2, <1>3, <2>2
  <2>4. c < End /\ c \in Nat
    BY <1>1, <2>2
  <2> QED
    BY <1>1, <1>3, <2>3, <2>4 DEF S
<1>5. C # {} => Min(C) = Min(S)
  <2> SUFFICES ASSUME C # {}
               PROVE  Min(C) = Min(S)
    OBVIOUS
  <2>1. Min(S) \in C /\ \A y \in C : Min(S) <= y
    BY <1>3, <1>4 DEF S
  <2> QED
    BY <1>2, <2>1, MinIs
<1>6. C = {} => Min(S) = End
  BY <1>3 DEF S
<1> QED
  BY <1>2, <1>3, <1>4, <1>5, <1>6 DEF S

-----------------------------------------------------------------------------
(* The invariant *)

\* A comment from c[1] to c[2], when the errors in E have been pushed.
CommentOK(c, E) ==
    LET mark == IF text[c[1] + 1] = "/" THEN <<"nl">> ELSE <<"*", "/">>
        closings == {k \in c[1] + 2..End : Matches(mark, k)}
    IN  IF closings # {} THEN c[2] = Min(closings) + Len(mark)
        ELSE c[2] = End /\ <<End, End>> \in E

\* Errors are at the end of the text, or begin in front of a character that can be seen.
ErrorRanges ==
    {e \in Nat \X Nat : \/ e = <<End, End>>
                        \/ 1 <= e[1] /\ e[1] < e[2] /\ e[2] <= End /\ text[e[1]] # "nl"}

\* The position is in the text or at its end, and the comments so far are right.
LexInv ==
    /\ text \in Seq(Character)
    /\ pos \in 1..End
    /\ comments \in Seq(Nat \X Nat)
    /\ errors \in Seq(ErrorRanges)
    /\ \A i \in DOMAIN comments : CommentOK(comments[i], ToSet(errors))

\* Errors that are pushed later change nothing about a comment.
LEMMA CommentStays ==
    ASSUME NEW c, NEW D, NEW E, D \subseteq E, CommentOK(c, D)
    PROVE  CommentOK(c, E)
<1> DEFINE mark == IF text[c[1] + 1] = "/" THEN <<"nl">> ELSE <<"*", "/">>
           closings == {k \in c[1] + 2..End : Matches(mark, k)}
<1>1. IF closings # {} THEN c[2] = Min(closings) + Len(mark) ELSE c[2] = End /\ <<End, End>> \in D
  BY DEF CommentOK
<1>2. IF closings # {} THEN c[2] = Min(closings) + Len(mark) ELSE c[2] = End /\ <<End, End>> \in E
  <2> HIDE DEF mark, closings
  <2> QED
    BY <1>1
<1> QED
  BY <1>2 DEF CommentOK

\* The text stays.
LEMMA SameText ==
    ASSUME text' = text, NEW i, CommentOK(comments'[i], ToSet(errors'))
    PROVE  CommentOK(comments[i], ToSet(errors))'
<1>1. End' = End /\ \A s, k : Matches(s, k)' <=> Matches(s, k)
  BY DEF End, Matches
<1> QED
  BY <1>1 DEF CommentOK

\* Comments are appended, errors are pushed.
LEMMA LexStep ==
    ASSUME LexInv, text' = text, pos' \in 1..End, ToSet(errors) \subseteq ToSet(errors'), errors' \in Seq(ErrorRanges),
           \/ comments' = comments
           \/ \E c \in Nat \X Nat : comments' = Append(comments, c) /\ CommentOK(c, ToSet(errors'))
    PROVE  LexInv'
<1>1. End' = End /\ ErrorRanges' = ErrorRanges
  BY DEF End, ErrorRanges
<1>2. \A i \in DOMAIN comments : CommentOK(comments[i], ToSet(errors'))
  BY CommentStays DEF LexInv
<1>3. comments \in Seq(Nat \X Nat)
  BY DEF LexInv
<1>4. /\ comments' \in Seq(Nat \X Nat)
      /\ \A i \in DOMAIN comments' : CommentOK(comments'[i], ToSet(errors'))
  <2>1. CASE comments' = comments
    BY <1>2, <1>3, <2>1
  <2>2. ASSUME NEW c \in Nat \X Nat, comments' = Append(comments, c), CommentOK(c, ToSet(errors'))
        PROVE  /\ comments' \in Seq(Nat \X Nat)
               /\ \A i \in DOMAIN comments' : CommentOK(comments'[i], ToSet(errors'))
    <3> DEFINE n == Len(comments) + 1
               P == Nat \X Nat
    <3>1. /\ comments' \in Seq(P) /\ DOMAIN comments' = DOMAIN comments \cup {n}
          /\ comments'[n] = c /\ \A i \in DOMAIN comments : comments'[i] = comments[i]
      <4> HIDE DEF P
      <4> QED
        BY <1>3, <2>2, Appended DEF P
    <3> HIDE DEF n
    <3> QED
      BY <1>2, <2>2, <3>1
  <2> QED
    BY <2>1, <2>2
<1>5. ASSUME NEW i \in DOMAIN comments'
      PROVE  CommentOK(comments[i], ToSet(errors))'
  BY <1>4, SameText
<1> QED
  BY <1>1, <1>4, <1>5 DEF LexInv

\* An error is pushed.
LEMMA Pushed ==
    ASSUME LexInv, NEW e \in ErrorRanges, Push(e)
    PROVE  errors' \in Seq(ErrorRanges) /\ ToSet(errors) \subseteq ToSet(errors') /\ e \in ToSet(errors')
<1>1. errors \in Seq(ErrorRanges)
  BY DEF LexInv
<1>2. errors' = Append(errors, e)
  BY DEF Push
<1>3. /\ errors' \in Seq(ErrorRanges) /\ DOMAIN errors' = DOMAIN errors \cup {Len(errors) + 1}
      /\ errors'[Len(errors) + 1] = e /\ \A i \in DOMAIN errors : errors'[i] = errors[i]
  BY <1>1, <1>2, Appended
<1> QED
  BY <1>3 DEF ToSet

\* A range of the text is an error's when it does not begin with a newline.
LEMMA SpanIsError ==
    ASSUME text \in Seq(Character), NEW from \in 1..End, NEW to \in 1..End, from < to, text[from] # "nl"
    PROVE  <<from, to>> \in ErrorRanges
<1>1. End \in Nat
  BY EndFacts
<1> QED
  BY <1>1 DEF ErrorRanges

\* A line comment ends behind its newline.
LEMMA LineCommentInd ==
    ASSUME LexInv, NEW p \in 1..End, LineComment(p)
    PROVE  LexInv'
<1>1. text \in Seq(Character) /\ errors' = errors /\ Matches(<<"/", "/">>, p)
  BY DEF LexInv, LineComment
<1>2. p \in Nat /\ End \in Nat /\ p + 1 < End /\ text[p + 1] = "/"
  BY <1>1, EndFacts, Marks
<1> DEFINE C == {k \in p + 2..End : Matches(<<"nl">>, k)}
           S == {i \in p + 2..End : i = End \/ text[i] = "nl"}
           stop == Min(S)
<1>3. p + 2 \in 1..End
  BY <1>2
<1>4. \A k \in p + 2..End : Matches(<<"nl">>, k) <=> k # End /\ text[k] = "nl"
  BY <1>1, <1>2, Marks
<1>5. C \subseteq p + 2..End /\ End \notin C /\ S = C \cup {End}
  BY <1>2, <1>4
<1>6. /\ stop \in p + 2..End
      /\ stop = End <=> C = {}
      /\ C # {} => Min(C) = stop
  <2> HIDE DEF C, S
  <2> QED
    BY <1>1, <1>3, <1>5, FirstOf
<1>7. IF stop = End THEN UNCHANGED <<text, pos, tokens, comments>> ELSE Comment(p, stop + 1)
  BY DEF LineComment, FirstFrom
<1> HIDE DEF S, stop
<1>8. CASE stop = End
  BY <1>1, <1>7, <1>8, LexStep DEF LexInv
<1>9. CASE stop # End
  <2> DEFINE c == <<p, stop + 1>>
  <2>1. comments' = Append(comments, c) /\ pos' = stop + 1 /\ text' = text
    BY <1>7, <1>9 DEF Comment
  <2>2. stop + 1 \in 1..End /\ c \in Nat \X Nat /\ c[1] = p /\ c[2] = stop + 1
    BY <1>2, <1>6, <1>9
  <2>3. C # {} /\ Min(C) + 1 = stop + 1 /\ Len(<<"nl">>) = 1
    BY <1>6, <1>9
  <2> HIDE DEF c
  <2>4. CommentOK(c, ToSet(errors'))
    BY <1>2, <2>2, <2>3 DEF CommentOK, C
  <2> QED
    BY <1>1, <2>1, <2>2, <2>4, LexStep DEF LexInv
<1> QED
  BY <1>8, <1>9

\* A block comment ends behind the first mark that closes it, or with the text.
LEMMA BlockCommentInd ==
    ASSUME LexInv, NEW p \in 1..End, BlockComment(p)
    PROVE  LexInv'
<1>1. text \in Seq(Character) /\ Matches(<<"/", "*">>, p)
  BY DEF LexInv, BlockComment
<1>2. p \in Nat /\ End \in Nat /\ p + 1 < End /\ text[p + 1] = "*"
  BY <1>1, EndFacts, Marks
<1> DEFINE C == {k \in p + 2..End : Matches(<<"*", "/">>, k)}
           S == {i \in p + 2..End : i = End \/ Matches(<<"*", "/">>, i)}
           stop == Min(S)
<1>3. p + 2 \in 1..End
  BY <1>2
<1>4. \A k \in p + 2..End : Matches(<<"*", "/">>, k) => k + 1 < End
  BY <1>1, <1>2, Marks
<1>5. C \subseteq p + 2..End /\ End \notin C /\ S = C \cup {End}
  BY <1>2, <1>4
<1>6. /\ stop \in p + 2..End
      /\ stop = End <=> C = {}
      /\ C # {} => Min(C) = stop
      /\ stop \in S
  <2> HIDE DEF C, S
  <2>1. S \subseteq Nat /\ S # {}
    BY <1>2, <1>5
  <2> QED
    BY <1>1, <1>3, <1>5, <2>1, FirstOf, MinFacts
<1>7. IF stop = End THEN Push(<<End, End>>) /\ Comment(p, End) ELSE Comment(p, stop + 2) /\ errors' = errors
  BY DEF BlockComment, FirstFrom
<1>8. stop # End => stop + 1 < End
  BY <1>4, <1>6
<1> HIDE DEF S, stop
<1> DEFINE mark == <<"*", "/">>
<1>9. Len(mark) = 2 /\ "*" # "/"
  OBVIOUS
<1>10. CASE stop = End
  <2> DEFINE c == <<p, End>>
  <2>1. comments' = Append(comments, c) /\ pos' = End /\ text' = text /\ Push(<<End, End>>)
    BY <1>7, <1>10 DEF Comment
  <2>2. End \in 1..End /\ c \in Nat \X Nat /\ c[1] = p /\ c[2] = End
    BY <1>2
  <2>3. errors' \in Seq(ErrorRanges) /\ ToSet(errors) \subseteq ToSet(errors') /\ <<End, End>> \in ToSet(errors')
    <3>1. <<End, End>> \in ErrorRanges
      BY <1>2 DEF ErrorRanges
    <3> QED
      BY <2>1, <3>1, Pushed
  <2>4. C = {}
    BY <1>6, <1>10
  <2> HIDE DEF c
  <2>5. CommentOK(c, ToSet(errors'))
    BY <1>2, <1>9, <2>2, <2>3, <2>4 DEF CommentOK, C
  <2> QED
    BY <2>1, <2>2, <2>3, <2>5, LexStep
<1>11. CASE stop # End
  <2> DEFINE c == <<p, stop + 2>>
  <2>1. comments' = Append(comments, c) /\ pos' = stop + 2 /\ text' = text /\ errors' = errors
    BY <1>7, <1>11 DEF Comment
  <2>2. stop + 2 \in 1..End /\ c \in Nat \X Nat /\ c[1] = p /\ c[2] = stop + 2
    BY <1>2, <1>6, <1>8, <1>11
  <2>3. C # {} /\ Min(C) + 2 = stop + 2
    BY <1>6, <1>11
  <2> HIDE DEF c
  <2>4. CommentOK(c, ToSet(errors'))
    BY <1>2, <1>9, <2>2, <2>3 DEF CommentOK, C
  <2> QED
    BY <2>1, <2>2, <2>4, LexStep DEF LexInv
<1> QED
  BY <1>10, <1>11

\* A token that ends in the text is returned, and errors are pushed.
LEMMA TokenInd ==
    ASSUME LexInv, NEW type, NEW from, NEW to \in 1..End, NEW value, Return(Token(type, from, to, value)),
           ToSet(errors) \subseteq ToSet(errors'), errors' \in Seq(ErrorRanges)
    PROVE  LexInv'
<1>1. pos' = to /\ text' = text /\ comments' = comments
  BY DEF Return, Token
<1> QED
  BY <1>1, LexStep

\* No error is pushed.
LEMMA PlainTokenInd ==
    ASSUME LexInv, NEW type, NEW from, NEW to \in 1..End, NEW value, Return(Token(type, from, to, value)),
           errors' = errors
    PROVE  LexInv'
<1>1. ToSet(errors) \subseteq ToSet(errors') /\ errors' \in Seq(ErrorRanges)
  BY DEF LexInv
<1> QED
  BY <1>1, TokenInd

\* One error is pushed.
LEMMA BadTokenInd ==
    ASSUME LexInv, NEW type, NEW from, NEW to \in 1..End, NEW value, Return(Token(type, from, to, value)),
           NEW e \in ErrorRanges, Push(e)
    PROVE  LexInv'
<1>1. ToSet(errors) \subseteq ToSet(errors') /\ errors' \in Seq(ErrorRanges)
  BY Pushed
<1> QED
  BY <1>1, TokenInd

\* Identifiers, numbers and single characters.
LEMMA WordInd ==
    ASSUME LexInv, NEW p \in 1..End, Identifier(p) \/ Number(p) \/ Simple(p)
    PROVE  LexInv'
<1>1. text \in Seq(Character) /\ p < End /\ errors' = errors /\ p \in Nat /\ End \in Nat
  BY EndFacts DEF LexInv, Identifier, Number, Simple
<1>2. p + 1 \in 1..End
  BY <1>1
<1>3. CASE Identifier(p)
  <2> DEFINE S == {i \in p + 1..End : i = End \/ text[i] \notin Letter \cup Digit}
             to == Min(S)
  <2>1. S \in SUBSET (p + 1..End) /\ End \in S
    BY <1>1
  <2>2. to \in p + 1..End
    <3> HIDE DEF S
    <3> QED
      BY <1>1, <1>2, <2>1, Found
  <2>3. Return(MakeIdentifierToken(p, to))
    BY <1>3 DEF Identifier, FirstFrom
  <2> HIDE DEF to
  <2>4. to \in 1..End
    BY <1>1, <2>2
  <2> QED
    BY <1>1, <2>3, <2>4, PlainTokenInd DEF MakeIdentifierToken
<1>4. CASE Number(p)
  <2> DEFINE S == {i \in p + 1..End : i = End \/ text[i] \notin Digit}
             to == Min(S)
  <2>1. S \in SUBSET (p + 1..End) /\ End \in S
    BY <1>1
  <2>2. to \in p + 1..End
    <3> HIDE DEF S
    <3> QED
      BY <1>1, <1>2, <2>1, Found
  <2>3. Return(Token("number", p, to, <<IntegerValue(Lexeme(p, to))>>))
    BY <1>4 DEF Number, FirstFrom
  <2> HIDE DEF to
  <2>4. to \in 1..End
    BY <1>1, <2>2
  <2> QED
    BY <1>1, <2>3, <2>4, PlainTokenInd
<1>5. CASE Simple(p)
  BY <1>1, <1>2, <1>5, PlainTokenInd DEF Simple
<1> QED
  BY <1>3, <1>4, <1>5

\* Raw strings end in the text, closed or not.
LEMMA RawStringInd ==
    ASSUME LexInv, NEW p \in 1..End, RawString(p)
    PROVE  LexInv'
<1>1. text \in Seq(Character) /\ Matches(<<"R", "q">>, p)
  BY DEF LexInv, RawString
<1>2. p \in Nat /\ End \in Nat /\ p + 1 < End /\ text[p] # "nl"
  BY <1>1, EndFacts, Marks
<1> DEFINE O == {i \in p + 2..End : i = End \/ text[i] \in RawStop}
           open == Min(O)
           prefix == Lexeme(p + 2, open)
           closing == <<")">> \o prefix \o <<"q">>
           S == {i \in open + 1..End : i = End \/ Matches(closing, i)}
           stop == Min(S)
<1>3. IF ~Matches(<<"(">>, open)
      THEN Push(<<p, open>>) /\ Return(Token("bad_string", p, open, <<>>))
      ELSE IF stop = End
           THEN Push(<<p, End>>) /\ Return(Token("bad_string", p, End, Lexeme(open + 1, End)))
           ELSE /\ Return(Token("raw_string", p, stop + 2 + Len(prefix), Lexeme(open + 1, stop)))
                /\ errors' = errors
  BY DEF RawString, FirstFrom
<1>4. O \in SUBSET (p + 2..End) /\ End \in O /\ p + 2 \in 1..End
  BY <1>2
<1>5. open \in p + 2..End
  <2> HIDE DEF O
  <2> QED
    BY <1>1, <1>4, Found
<1> HIDE DEF open
<1>6. open \in 1..End /\ open \in Nat
  BY <1>2, <1>5
<1>7. prefix \in Seq(Character) /\ Len(prefix) \in Nat
  <2>1. \A i \in p + 2..open - 1 : text[i] \in Character
    <3>1. ASSUME NEW i \in p + 2..open - 1
          PROVE  i \in 1..Len(text)
      BY <1>1, <1>2, <1>5, EndFacts
    <3> QED
      BY <1>1, <3>1, ElementOfSeq
  <2>2. prefix \in Seq(Character)
    <3>1. p + 2 \in Int /\ open - 1 \in Int
      BY <1>2, <1>6
    <3> QED
      BY <2>1, <3>1, SubSeqProperties DEF Lexeme
  <2> QED
    BY <2>2, LenProperties
<1>8. ASSUME Matches(<<"(">>, open)
      PROVE  open + 1 \in 1..End /\ stop \in S /\ stop \in open + 1..End
  <2>1. open < End
    BY <1>1, <1>6, <1>8, Marks
  <2>2. open + 1 \in 1..End
    BY <1>2, <1>6, <2>1
  <2>3. S \in SUBSET (open + 1..End) /\ End \in S
    BY <1>2, <1>6, <2>1
  <2> HIDE DEF S
  <2>4. S \subseteq Nat /\ S # {}
    BY <1>2, <1>6, <2>3
  <2> QED
    BY <1>1, <2>2, <2>3, <2>4, Found, MinFacts
<1>9. CASE ~Matches(<<"(">>, open)
  <2>1. p < open
    BY <1>2, <1>5
  <2>2. <<p, open>> \in ErrorRanges
    BY <1>1, <1>2, <1>6, <2>1, SpanIsError, Zenon
  <2> QED
    BY <1>3, <1>6, <1>9, <2>2, BadTokenInd
<1>10. CASE Matches(<<"(">>, open) /\ stop = End
  <2>1. End \in 1..End /\ p < End
    BY <1>6, <1>2
  <2>2. <<p, End>> \in ErrorRanges
    BY <1>1, <1>2, <2>1, SpanIsError, Zenon
  <2> QED
    BY <1>3, <1>10, <2>1, <2>2, BadTokenInd
<1>11. CASE Matches(<<"(">>, open) /\ stop # End
  <2> DEFINE to == stop + 2 + Len(prefix)
  <2>1. Len(closing) = 2 + Len(prefix)
    <3>1. <<")">> \in Seq(Character) /\ Len(<<")">>) = 1 /\ <<"q">> \in Seq(Character) /\ Len(<<"q">>) = 1
      <4>1. ")" \in Character /\ "q" \in Character
        BY DEF Character
      <4> QED
        BY <4>1, TupleFacts
    <3> DEFINE x == <<")">>
               y == <<"q">>
    <3> HIDE DEF x, y, prefix
    <3>2. x \o prefix \in Seq(Character) /\ Len(x \o prefix) = 1 + Len(prefix)
      BY <1>7, <3>1, ConcatProperties DEF x
    <3>3. Len((x \o prefix) \o y) = (1 + Len(prefix)) + 1
      BY <3>1, <3>2, ConcatProperties DEF y
    <3> QED
      BY <1>7, <3>3 DEF x, y
  <2>2. Matches(closing, stop)
    BY <1>8, <1>11
  <2>3. stop + Len(closing) <= End
    BY <2>2 DEF Matches
  <2>4. stop \in Nat /\ stop >= 1
    BY <1>2, <1>6, <1>8, <1>11
  <2> HIDE DEF stop, prefix, closing
  <2>5. to \in 1..End
    BY <1>2, <1>7, <2>1, <2>3, <2>4
  <2> HIDE DEF to
  <2>6. Return(Token("raw_string", p, to, Lexeme(open + 1, stop))) /\ errors' = errors
    BY <1>3, <1>11 DEF to
  <2> QED
    BY <2>5, <2>6, PlainTokenInd
<1> QED
  BY <1>9, <1>10, <1>11

\* The recursion of Escaped has a solution.
LEMMA EscapedFacts ==
    ASSUME text \in Seq(Character), NEW p \in 1..End
    PROVE  /\ Escaped(p) \in [p..End -> BOOLEAN]
           /\ \A i \in p..End : Escaped(p)[i] <=> i > p + 1 /\ text[i - 1] = "bs" /\ ~Escaped(p)[i - 1]
<1> DEFINE bs(i) == i > p + 1 /\ text[i - 1] = "bs"
           step == [i \in p..End |-> [v \in BOOLEAN |-> bs(i) /\ ~v]]
           Is(f) == f = [i \in p..End |-> bs(i) /\ ~f[i - 1]]
<1>1. p \in Nat /\ End \in Nat /\ p <= End /\ \A i \in p..End : bs(i) \in BOOLEAN
  BY EndFacts
<1> HIDE DEF bs
<1>2. step \in [p..End -> [BOOLEAN -> BOOLEAN]]
  BY <1>1, Zenon
<1>3. \A i \in p..End, v \in BOOLEAN : step[i][v] = (bs(i) /\ ~v)
  BY <1>1, Zenon
<1> HIDE DEF step
<1>4. PICK f \in [p..End -> BOOLEAN] :
        f[p] = FALSE /\ \A i \in p + 1..End : f[i] = step[i][f[i - 1]]
  <2> DEFINE V == BOOLEAN
             base == FALSE
  <2>1. base \in V /\ step \in [p..End -> [V -> V]]
    BY <1>2, Zenon
  <2> HIDE DEF V, base
  <2>2. PICK f : Iterates(f, V, p, End, base, step)
    <3>1. p \in Nat /\ End \in Nat /\ p <= End
      BY <1>1
    <3> QED
      BY <2>1, <3>1, Iteration
  <2>3. f \in [p..End -> V] /\ f[p] = base /\ \A i \in p + 1..End : f[i] = step[i][f[i - 1]]
    BY <2>2 DEF Iterates
  <2> QED
    BY <2>3, Zenon DEF V, base
<1>5. ~bs(p)
  BY <1>1 DEF bs
<1>6. ASSUME NEW i \in p..End
      PROVE  f[i] = (bs(i) /\ ~f[i - 1])
  <2>1. CASE i = p
    BY <1>4, <1>5, <2>1
  <2>2. CASE i # p
    <3>1. i \in p + 1..End /\ i - 1 \in p..End
      BY <1>1, <2>2
    <3>2. f[i - 1] \in BOOLEAN
      BY <1>4, <3>1
    <3>3. f[i] = step[i][f[i - 1]]
      BY <1>4, <3>1
    <3> QED
      BY <1>3, <3>2, <3>3, Zenon
  <2> QED
    BY <2>1, <2>2
<1>7. Is(f)
  BY <1>4, <1>6, Zenon
<1>8. Is(Escaped(p))
  <2>1. Escaped(p) = CHOOSE g : Is(g)
    BY DEF Escaped, bs
  <2> HIDE DEF Is
  <2> QED
    BY <1>7, <2>1
<1>9. \A i \in p..End : Escaped(p)[i] = (bs(i) /\ ~Escaped(p)[i - 1])
  BY <1>8, Zenon
<1>10. Escaped(p) \in [p..End -> BOOLEAN]
  BY <1>1, <1>8, Zenon
<1> QED
  BY <1>9, <1>10 DEF bs

\* Strings end in the text, closed or not, and their bad escapes are pushed with them.
LEMMA StringInd ==
    ASSUME LexInv, NEW p \in 1..End, String(p)
    PROVE  LexInv'
<1>1. text \in Seq(Character) /\ errors \in Seq(ErrorRanges) /\ Matches(<<"q">>, p)
  BY DEF LexInv, String
<1>2. p \in Nat /\ End \in Nat /\ p < End /\ text[p] # "nl"
  BY <1>1, EndFacts, Marks
<1> DEFINE escaped == Escaped(p)
           S == {i \in p + 1..End : i = End \/ (~escaped[i] /\ text[i] \in {"nl", "q"})}
           stop == Min(S)
           invalid == {i \in p..stop - 1 : escaped[i] /\ text[i] \notin DOMAIN Escape}
           sorted == Ascending(invalid)
           marks == [k \in DOMAIN sorted |-> <<sorted[k] - 1, sorted[k] + 1>>]
           value == Unescape(p, stop, escaped)
           type == IF invalid = {} THEN "string" ELSE "bad_string"
<1>3. IF Matches(<<"q">>, stop)
      THEN errors' = errors \o marks /\ Return(Token(type, p, stop + 1, value))
      ELSE errors' = errors \o marks \o <<<<p, stop>>>> /\ Return(Token("bad_string", p, stop, value))
  BY DEF String, FirstFrom
<1>4. \A i \in p..End : escaped[i] => i > p + 1 /\ text[i - 1] = "bs"
  BY <1>1, EscapedFacts
<1> HIDE DEF escaped
<1>5. S \in SUBSET (p + 1..End) /\ End \in S /\ p + 1 \in 1..End
  BY <1>2
<1>6. stop \in p + 1..End
  <2> HIDE DEF S
  <2> QED
    BY <1>1, <1>5, Found
<1> HIDE DEF S, stop
<1>7. stop \in 1..End /\ stop \in Nat /\ p < stop
  BY <1>2, <1>6
<1>8. IsFiniteSet(invalid) /\ invalid \subseteq Int
  <2>1. p \in Int /\ stop - 1 \in Int
    BY <1>2, <1>7
  <2>2. IsFiniteSet(p..stop - 1)
    BY <2>1, FS_Interval
  <2>3. invalid \subseteq p..stop - 1
    OBVIOUS
  <2>4. \A i \in p..stop - 1 : i \in Int
    BY <2>1
  <2> HIDE DEF invalid
  <2>5. IsFiniteSet(invalid)
    BY <2>2, <2>3, FS_Subset
  <2> QED
    BY <2>3, <2>4, <2>5
<1>9. ASSUME NEW i \in invalid
      PROVE  <<i - 1, i + 1>> \in ErrorRanges
  <2>1. i \in p..End /\ i < End /\ text[i - 1] # "nl" /\ i > p + 1
    BY <1>2, <1>4, <1>7
  <2>2. i - 1 \in 1..End /\ i + 1 \in 1..End /\ i - 1 < i + 1
    BY <1>2, <2>1
  <2> HIDE DEF invalid
  <2> QED
    BY <1>1, <2>1, <2>2, SpanIsError, Zenon
<1> DEFINE n == Cardinality(invalid)
<1>10. n \in Nat /\ sorted \in [1..n -> invalid]
  <2> HIDE DEF invalid
  <2> QED
    BY <1>8, AscendingFacts
<1> HIDE DEF invalid, sorted, value, type, n
<1> DEFINE last == <<p, stop>>
           more == <<last>>
<1>11. marks \in Seq(ErrorRanges)
  <2>1. \A k \in 1..n : marks[k] \in ErrorRanges
    BY <1>9, <1>10
  <2>2. marks \in [1..n -> ErrorRanges]
    BY <1>10, <2>1
  <2> HIDE DEF marks
  <2> QED
    BY <1>10, <2>2
<1>12. more \in Seq(ErrorRanges)
  <2>1. last \in ErrorRanges
    BY <1>1, <1>2, <1>7, SpanIsError, Zenon
  <2> HIDE DEF last
  <2> QED
    BY <2>1, TupleFacts
<1> HIDE DEF marks, more
<1>13. errors \o marks \in Seq(ErrorRanges) /\ ToSet(errors) \subseteq ToSet(errors \o marks)
  BY <1>1, <1>11, Extended
<1>14. CASE Matches(<<"q">>, stop)
  <2>1. stop < End
    BY <1>1, <1>7, <1>14, Marks
  <2>2. stop + 1 \in 1..End
    BY <1>2, <1>7, <2>1
  <2>3. errors' = errors \o marks /\ Return(Token(type, p, stop + 1, value))
    BY <1>3, <1>14
  <2> QED
    BY <1>13, <2>2, <2>3, TokenInd
<1>15. CASE ~Matches(<<"q">>, stop)
  <2>1. errors' = (errors \o marks) \o more /\ Return(Token("bad_string", p, stop, value))
    BY <1>3, <1>15 DEF more
  <2>2. errors' \in Seq(ErrorRanges) /\ ToSet(errors \o marks) \subseteq ToSet(errors')
    <3> DEFINE so == errors \o marks
    <3> HIDE DEF so
    <3>1. so \in Seq(ErrorRanges) /\ errors' = so \o more
      BY <1>13, <2>1 DEF so
    <3>2. so \o more \in Seq(ErrorRanges) /\ ToSet(so \o more) = ToSet(so) \cup ToSet(more)
      BY <1>12, <3>1, Extended
    <3> QED
      BY <3>1, <3>2 DEF so
  <2> QED
    BY <1>7, <1>13, <2>1, <2>2, TokenInd
<1> QED
  BY <1>14, <1>15

\* An iteration of the loop looks at a place of the text.
LEMMA NextAt ==
    ASSUME LexInv, Next
    PROVE  \E p \in 1..End :
             \/ Eof(p) \/ LineComment(p) \/ BlockComment(p) \/ RawString(p)
             \/ Identifier(p) \/ Number(p) \/ String(p) \/ Simple(p)
<1> DEFINE p == SkipWhitespace(pos)
           S == {i \in pos..End : i = End \/ text[i] \notin Space}
<1>1. text \in Seq(Character) /\ pos \in 1..End /\ End \in Nat /\ pos \in Nat
  BY EndFacts DEF LexInv
<1>2. S \in SUBSET (pos..End) /\ End \in S
  BY <1>1
<1>3. p = Min(S)
  BY DEF SkipWhitespace, FirstFrom
<1>4. p \in pos..End
  <2> HIDE DEF S, p
  <2> QED
    BY <1>1, <1>2, <1>3, Found
<1>5. \/ Eof(p) \/ LineComment(p) \/ BlockComment(p) \/ RawString(p)
      \/ Identifier(p) \/ Number(p) \/ String(p) \/ Simple(p)
  BY DEF Next
<1> HIDE DEF p
<1>6. p \in 1..End
  BY <1>1, <1>4
<1> QED
  BY <1>5, <1>6

\* Each iteration of the loop of read_next_token keeps the invariant.
LEMMA NextInd ==
    ASSUME LexInv, [Next]_vars
    PROVE  LexInv'
<1>1. CASE UNCHANGED vars
  <2>1. /\ text' = text /\ pos' = pos /\ comments' = comments /\ errors' = errors
    BY <1>1 DEF vars
  <2> QED
    BY <2>1, LexStep DEF LexInv
<1>2. CASE Next
  <2>1. PICK p \in 1..End :
          \/ Eof(p) \/ LineComment(p) \/ BlockComment(p) \/ RawString(p)
          \/ Identifier(p) \/ Number(p) \/ String(p) \/ Simple(p)
    BY <1>2, NextAt
  <2>2. CASE Eof(p)
    BY <2>2, LexStep DEF LexInv, Eof
  <2> QED
    BY <2>1, <2>2, LineCommentInd, BlockCommentInd, RawStringInd, WordInd, StringInd
<1> QED
  BY <1>1, <1>2

\* The lexer stays in the text, and its comments are what they should be, for every
\* text, every set of keywords and every width of an int.
THEOREM LexInductive == Spec => []LexInv
<1>1. Init => LexInv
  <2> SUFFICES ASSUME Init PROVE LexInv
    OBVIOUS
  <2>1. text \in Seq(Character) /\ pos = 1 /\ comments = <<>> /\ errors = <<>>
    BY LexerAssumption DEF Init
  <2>2. pos \in 1..End
    BY <2>1, EndFacts
  <2>3. comments \in Seq(Nat \X Nat) /\ errors \in Seq(ErrorRanges) /\ DOMAIN comments = {}
    BY <2>1
  <2> QED
    BY <2>1, <2>2, <2>3 DEF LexInv
<1>2. LexInv /\ [Next]_vars => LexInv'
  BY NextInd
<1> QED
  BY <1>1, <1>2, PTL DEF Spec

\* skip_comment: a comment ends at the first mark that closes it, and a block comment
\* that nothing closes is an error at the end of the text.
THEOREM CommentsCorrect == Spec => []CommentsClosed
<1>1. LexInv => CommentsClosed
  <2>1. ToSet(errors) = {errors[k] : k \in DOMAIN errors}
    BY DEF ToSet
  <2> QED
    BY <2>1 DEF LexInv, CommentsClosed, CommentOK
<1> QED
  BY <1>1, LexInductive, PTL

-----------------------------------------------------------------------------
(* Numbers *)

\* The recursive functions of IntegerValue and Denotes.
Values(digits) ==
    CHOOSE f : f = [n \in 0..Len(digits) |->
                      IF n = 0 THEN 0 ELSE Wrapped(f[n - 1] * 10 + DigitValue[digits[n]])]
Powers(top) == CHOOSE f : f = [n \in 0..top |-> IF n = 0 THEN 1 ELSE 10 * f[n - 1]]
Sums(digits) ==
    CHOOSE f : f = [n \in 0..Len(digits) |->
                      IF n = 0 THEN 0 ELSE f[n - 1] + DigitValue[digits[n]] * Powers(Len(digits))[Len(digits) - n]]

\* They are the ones of the definitions.
LEMMA NumbersAre ==
    ASSUME NEW digits
    PROVE  IntegerValue(digits) = Values(digits)[Len(digits)] /\ Denotes(digits) = Sums(digits)[Len(digits)]
  BY Zenon DEF IntegerValue, Denotes, Values, Powers, Sums

\* The value of a digit.
LEMMA DigitFacts == ASSUME NEW c \in Digit PROVE DigitValue[c] \in 0..9
  BY DEF Digit, DigitValue

\* Wrapping around gives an integer, and changes nothing that an int can hold.
LEMMA WrappedFacts ==
    ASSUME NEW n \in Int
    PROVE  /\ Wrapped(n) \in Int
           /\ 0 <= n /\ n < IntModulus \div 2 => Wrapped(n) = n
<1> DEFINE M == IntModulus
           h == IntModulus \div 2
<1>1. M \in Nat /\ M > 0 /\ h \in Nat /\ h + h = M
  BY LexerAssumption
<1>2. Wrapped(n) = ((n + h) % M) - h
  BY DEF Wrapped
<1> HIDE DEF M, h
<1>3. (n + h) % M \in Int
  BY <1>1
<1>4. ASSUME 0 <= n, n < h
      PROVE  (n + h) % M = n + h
  <2>1. n + h \in 0..M - 1
    BY <1>1, <1>4
  <2> QED
    BY <1>1, <2>1
<1> QED
  BY <1>1, <1>2, <1>3, <1>4 DEF h

\* Powers of ten.
LEMMA PowersFacts ==
    ASSUME NEW top \in Nat
    PROVE  LET f == Powers(top) IN
           /\ f \in [0..top -> Int] /\ f[0] = 1
           /\ \A n \in 1..top : f[n] = 10 * f[n - 1]
<1> DEFINE V == Int
           base == 1
           last == top
           step == [n \in 0..last |-> [v \in V |-> IF n = 0 THEN v ELSE 10 * v]]
           Is(f) == f = [n \in 0..last |-> IF n = 0 THEN base ELSE 10 * f[n - 1]]
           g == Powers(top)
<1>1. last \in Nat /\ base \in V /\ 0 \in Nat /\ 0 <= last
  OBVIOUS
<1>2. step \in [0..last -> [V -> V]]
  <2> SUFFICES ASSUME NEW n \in 0..last, NEW v \in V
               PROVE  (IF n = 0 THEN v ELSE 10 * v) \in V
    BY Zenon
  <2>1. CASE n = 0
    BY <2>1
  <2>2. CASE n # 0
    OBVIOUS
  <2> QED
    BY <2>1, <2>2
<1>3. ASSUME NEW n \in 1..last, NEW v \in V
      PROVE  step[n][v] = 10 * v
  <2>1. n \in 0..last /\ n # 0
    BY <1>1
  <2> QED
    BY <2>1, Zenon
<1>4. g = CHOOSE f : Is(f)
  BY Zenon DEF Powers
<1> HIDE DEF step, V, base, last, g
<1>5. PICK f : Iterates(f, V, 0, last, base, step)
  BY <1>1, <1>2, Iteration
<1>6. f \in [0..last -> V] /\ f[0] = base /\ \A n \in 0 + 1..last : f[n] = step[n][f[n - 1]]
  BY <1>5 DEF Iterates
<1>7. ASSUME NEW n \in 0..last
      PROVE  f[n] = IF n = 0 THEN base ELSE 10 * f[n - 1]
  <2>1. CASE n = 0
    BY <1>6, <2>1
  <2>2. CASE n # 0
    <3>1. n \in 0 + 1..last /\ n \in 1..last /\ n - 1 \in 0..last
      BY <1>1, <2>2
    <3>2. f[n - 1] \in V
      BY <1>6, <3>1, Zenon
    <3>3. f[n] = step[n][f[n - 1]]
      BY <1>6, <3>1, Zenon
    <3> QED
      BY <1>3, <2>2, <3>1, <3>2, <3>3, Zenon
  <2> QED
    BY <2>1, <2>2
<1>8. Is(f)
  BY <1>6, <1>7, Zenon
<1>9. Is(g)
  <2> HIDE DEF Is
  <2> QED
    BY <1>4, <1>8, Zenon
<1>10. \A n \in 0..last : g[n] = IF n = 0 THEN base ELSE 10 * g[n - 1]
  BY <1>9, Zenon
<1>11. DOMAIN g = 0..last /\ g = [n \in DOMAIN g |-> g[n]]
  BY <1>9, Zenon
<1>12. g[0] = base
  <2>1. 0 \in 0..last
    BY <1>1
  <2> QED
    BY <1>10, <2>1, Zenon
<1>13. ASSUME NEW n \in 1..last
       PROVE  g[n] = 10 * g[n - 1]
  <2>1. n \in 0..last /\ n # 0
    BY <1>1
  <2> QED
    BY <1>10, <2>1, Zenon
<1>14. ASSUME NEW n \in 1..last, g[n - 1] \in V
       PROVE  g[n] = step[n][g[n - 1]]
  BY <1>3, <1>13, <1>14, Zenon
<1>15. Iterates(g, V, 0, last, base, step)
  BY <1>1, <1>2, <1>11, <1>12, <1>14, IterationIs, Zenon
<1>16. g \in [0..last -> V]
  BY <1>15 DEF Iterates
<1> QED
  BY <1>12, <1>13, <1>16, Zenon DEF g, V, base, last

\* The loop over the digits.
LEMMA ValuesFacts ==
    ASSUME NEW digits \in Seq(Digit)
    PROVE  LET f == Values(digits) IN
           /\ f \in [0..Len(digits) -> Int] /\ f[0] = 0
           /\ \A n \in 1..Len(digits) : f[n] = Wrapped(f[n - 1] * 10 + DigitValue[digits[n]])
<1> DEFINE V == Int
           base == 0
           last == Len(digits)
           step == [n \in 0..last |-> [v \in V |-> IF n = 0 THEN v ELSE Wrapped(v * 10 + DigitValue[digits[n]])]]
           Is(f) == f = [n \in 0..last |-> IF n = 0 THEN base ELSE Wrapped(f[n - 1] * 10 + DigitValue[digits[n]])]
           g == Values(digits)
<1>1. last \in Nat /\ base \in V /\ 0 \in Nat /\ 0 <= last
  OBVIOUS
<1>2. step \in [0..last -> [V -> V]]
  <2> SUFFICES ASSUME NEW n \in 0..last, NEW v \in V
               PROVE  (IF n = 0 THEN v ELSE Wrapped(v * 10 + DigitValue[digits[n]])) \in V
    BY Zenon
  <2>1. CASE n = 0
    BY <2>1
  <2>2. CASE n # 0
    <3>1. digits[n] \in Digit
      BY <1>1, <2>2
    <3>2. DigitValue[digits[n]] \in Int
      BY <3>1, DigitFacts
    <3>3. v * 10 + DigitValue[digits[n]] \in Int
      BY <3>2
    <3> QED
      BY <3>3, WrappedFacts
  <2> QED
    BY <2>1, <2>2
<1>3. ASSUME NEW n \in 1..last, NEW v \in V
      PROVE  step[n][v] = Wrapped(v * 10 + DigitValue[digits[n]])
  <2>1. n \in 0..last /\ n # 0
    BY <1>1
  <2> QED
    BY <2>1, Zenon
<1>4. g = CHOOSE f : Is(f)
  BY Zenon DEF Values
<1> HIDE DEF step, V, base, last, g
<1>5. PICK f : Iterates(f, V, 0, last, base, step)
  BY <1>1, <1>2, Iteration
<1>6. f \in [0..last -> V] /\ f[0] = base /\ \A n \in 0 + 1..last : f[n] = step[n][f[n - 1]]
  BY <1>5 DEF Iterates
<1>7. ASSUME NEW n \in 0..last
      PROVE  f[n] = IF n = 0 THEN base ELSE Wrapped(f[n - 1] * 10 + DigitValue[digits[n]])
  <2>1. CASE n = 0
    BY <1>6, <2>1
  <2>2. CASE n # 0
    <3>1. n \in 0 + 1..last /\ n \in 1..last /\ n - 1 \in 0..last
      BY <1>1, <2>2
    <3>2. f[n - 1] \in V
      BY <1>6, <3>1, Zenon
    <3>3. f[n] = step[n][f[n - 1]]
      BY <1>6, <3>1, Zenon
    <3> QED
      BY <1>3, <2>2, <3>1, <3>2, <3>3, Zenon
  <2> QED
    BY <2>1, <2>2
<1>8. Is(f)
  BY <1>6, <1>7, Zenon
<1>9. Is(g)
  <2> HIDE DEF Is
  <2> QED
    BY <1>4, <1>8, Zenon
<1>10. \A n \in 0..last : g[n] = IF n = 0 THEN base ELSE Wrapped(g[n - 1] * 10 + DigitValue[digits[n]])
  BY <1>9, Zenon
<1>11. DOMAIN g = 0..last /\ g = [n \in DOMAIN g |-> g[n]]
  BY <1>9, Zenon
<1>12. g[0] = base
  <2>1. 0 \in 0..last
    BY <1>1
  <2> QED
    BY <1>10, <2>1, Zenon
<1>13. ASSUME NEW n \in 1..last
       PROVE  g[n] = Wrapped(g[n - 1] * 10 + DigitValue[digits[n]])
  <2>1. n \in 0..last /\ n # 0
    BY <1>1
  <2> QED
    BY <1>10, <2>1, Zenon
<1>14. ASSUME NEW n \in 1..last, g[n - 1] \in V
       PROVE  g[n] = step[n][g[n - 1]]
  BY <1>3, <1>13, <1>14, Zenon
<1>15. Iterates(g, V, 0, last, base, step)
  BY <1>1, <1>2, <1>11, <1>12, <1>14, IterationIs, Zenon
<1>16. g \in [0..last -> V]
  BY <1>15 DEF Iterates
<1> QED
  BY <1>12, <1>13, <1>16, Zenon DEF g, V, base, last

\* The sum of the digits, each times its power of ten.
LEMMA SumsFacts ==
    ASSUME NEW digits \in Seq(Digit)
    PROVE  LET f == Sums(digits) IN
           /\ f \in [0..Len(digits) -> Int] /\ f[0] = 0
           /\ \A n \in 1..Len(digits) : f[n] = f[n - 1] + DigitValue[digits[n]] * Powers(Len(digits))[Len(digits) - n]
<1> DEFINE V == Int
           base == 0
           last == Len(digits)
           step == [n \in 0..last |-> [v \in V |-> IF n = 0 THEN v ELSE v + DigitValue[digits[n]] * Powers(Len(digits))[Len(digits) - n]]]
           Is(f) == f = [n \in 0..last |-> IF n = 0 THEN base ELSE f[n - 1] + DigitValue[digits[n]] * Powers(Len(digits))[Len(digits) - n]]
           g == Sums(digits)
<1>1. last \in Nat /\ base \in V /\ 0 \in Nat /\ 0 <= last
  OBVIOUS
<1>2. step \in [0..last -> [V -> V]]
  <2> SUFFICES ASSUME NEW n \in 0..last, NEW v \in V
               PROVE  (IF n = 0 THEN v ELSE v + DigitValue[digits[n]] * Powers(Len(digits))[Len(digits) - n]) \in V
    BY Zenon
  <2>1. CASE n = 0
    BY <2>1
  <2>2. CASE n # 0
    <3>1. digits[n] \in Digit /\ Len(digits) - n \in 0..Len(digits)
      BY <1>1, <2>2
    <3>2. DigitValue[digits[n]] \in Int
      BY <3>1, DigitFacts
    <3>3. Powers(Len(digits))[Len(digits) - n] \in Int
      BY <1>1, <3>1, PowersFacts
    <3> QED
      BY <3>2, <3>3
  <2> QED
    BY <2>1, <2>2
<1>3. ASSUME NEW n \in 1..last, NEW v \in V
      PROVE  step[n][v] = v + DigitValue[digits[n]] * Powers(Len(digits))[Len(digits) - n]
  <2>1. n \in 0..last /\ n # 0
    BY <1>1
  <2> QED
    BY <2>1, Zenon
<1>4. g = CHOOSE f : Is(f)
  BY Zenon DEF Sums
<1> HIDE DEF step, V, base, last, g
<1>5. PICK f : Iterates(f, V, 0, last, base, step)
  BY <1>1, <1>2, Iteration
<1>6. f \in [0..last -> V] /\ f[0] = base /\ \A n \in 0 + 1..last : f[n] = step[n][f[n - 1]]
  BY <1>5 DEF Iterates
<1>7. ASSUME NEW n \in 0..last
      PROVE  f[n] = IF n = 0 THEN base ELSE f[n - 1] + DigitValue[digits[n]] * Powers(Len(digits))[Len(digits) - n]
  <2>1. CASE n = 0
    BY <1>6, <2>1
  <2>2. CASE n # 0
    <3>1. n \in 0 + 1..last /\ n \in 1..last /\ n - 1 \in 0..last
      BY <1>1, <2>2
    <3>2. f[n - 1] \in V
      BY <1>6, <3>1, Zenon
    <3>3. f[n] = step[n][f[n - 1]]
      BY <1>6, <3>1, Zenon
    <3> QED
      BY <1>3, <2>2, <3>1, <3>2, <3>3, Zenon
  <2> QED
    BY <2>1, <2>2
<1>8. Is(f)
  BY <1>6, <1>7, Zenon
<1>9. Is(g)
  <2> HIDE DEF Is
  <2> QED
    BY <1>4, <1>8, Zenon
<1>10. \A n \in 0..last : g[n] = IF n = 0 THEN base ELSE g[n - 1] + DigitValue[digits[n]] * Powers(Len(digits))[Len(digits) - n]
  BY <1>9, Zenon
<1>11. DOMAIN g = 0..last /\ g = [n \in DOMAIN g |-> g[n]]
  BY <1>9, Zenon
<1>12. g[0] = base
  <2>1. 0 \in 0..last
    BY <1>1
  <2> QED
    BY <1>10, <2>1, Zenon
<1>13. ASSUME NEW n \in 1..last
       PROVE  g[n] = g[n - 1] + DigitValue[digits[n]] * Powers(Len(digits))[Len(digits) - n]
  <2>1. n \in 0..last /\ n # 0
    BY <1>1
  <2> QED
    BY <1>10, <2>1, Zenon
<1>14. ASSUME NEW n \in 1..last, g[n - 1] \in V
       PROVE  g[n] = step[n][g[n - 1]]
  BY <1>3, <1>13, <1>14, Zenon
<1>15. Iterates(g, V, 0, last, base, step)
  BY <1>1, <1>2, <1>11, <1>12, <1>14, IterationIs, Zenon
<1>16. g \in [0..last -> V]
  BY <1>15 DEF Iterates
<1> QED
  BY <1>12, <1>13, <1>16, Zenon DEF g, V, base, last

\* The arithmetic of one more digit.
LEMMA OneMoreDigit ==
    ASSUME NEW v \in Int, NEW d \in Int, NEW q \in Int, v >= 0, d >= 0, q >= 1
    PROVE  /\ d * q \in Int /\ d * q >= 0 /\ v * (10 * q) \in Int
           /\ (v * 10 + d) * q = v * (10 * q) + d * q
           /\ v * 10 + d \in Int /\ v * 10 + d >= 0 /\ v * 10 + d <= (v * 10 + d) * q
<1>1. d * q \in Int /\ d * q >= 0
  OBVIOUS
<1>2. v * (10 * q) \in Int /\ (v * 10 + d) * q = v * (10 * q) + d * q
  OBVIOUS
<1>3. v * 10 + d \in Int /\ v * 10 + d >= 0
  OBVIOUS
<1>4. ASSUME NEW u \in Int, u >= 0 PROVE u <= u * q
  BY <1>4
<1> QED
  BY <1>1, <1>2, <1>3, <1>4

\* An int that can hold the number has it: no value on the way is larger.
LEMMA NumberReads ==
    ASSUME NEW digits \in Seq(Digit), Denotes(digits) < IntModulus \div 2
    PROVE  IntegerValue(digits) = Denotes(digits)
<1> DEFINE L == Len(digits)
           value == Values(digits)
           power == Powers(L)
           sum == Sums(digits)
           d == [n \in 1..L |-> DigitValue[digits[n]]]
           h == IntModulus \div 2
<1>1. L \in Nat /\ h \in Nat /\ sum[L] < h /\ IntegerValue(digits) = value[L] /\ Denotes(digits) = sum[L]
  <2>1. h \in Nat
    BY LexerAssumption
  <2>2. IntegerValue(digits) = value[L] /\ Denotes(digits) = sum[L]
    BY NumbersAre, Zenon
  <2>3. L \in Nat
    OBVIOUS
  <2>4. Denotes(digits) < h
    OBVIOUS
  <2> HIDE DEF h, L, value, sum
  <2> QED
    BY <2>1, <2>2, <2>3, <2>4
<1>2. \A n \in 1..L : d[n] \in 0..9 /\ d[n] = DigitValue[digits[n]]
  BY DigitFacts
<1> HIDE DEF d
<1>3. /\ value \in [0..L -> Int] /\ value[0] = 0
      /\ \A n \in 1..L : value[n] = Wrapped(value[n - 1] * 10 + d[n])
  BY <1>2, ValuesFacts
<1>4. /\ power \in [0..L -> Int] /\ power[0] = 1 /\ \A n \in 1..L : power[n] = 10 * power[n - 1]
  BY <1>1, PowersFacts
<1>5. /\ sum \in [0..L -> Int] /\ sum[0] = 0
      /\ \A n \in 1..L : sum[n] = sum[n - 1] + d[n] * power[L - n]
  BY <1>2, SumsFacts
<1>6. IntegerValue(digits) = value[L] /\ Denotes(digits) = sum[L]
  BY <1>1
<1> HIDE DEF L, value, power, sum, h
<1>7. \A k \in 0..L : power[k] \in Int /\ power[k] >= 1
  <2> DEFINE S == {k \in 0..L : power[k] >= 1}
  <2>1. 0 \in S
    BY <1>1, <1>4
  <2>2. ASSUME NEW k \in 0..(L - 1), k \in S
        PROVE  k + 1 \in S
    <3>1. k + 1 \in 1..L /\ k + 1 \in 0..L /\ (k + 1) - 1 = k /\ k \in 0..L
      BY <1>1
    <3>2. power[k + 1] = 10 * power[k] /\ power[k] \in Int /\ power[k] >= 1
      BY <1>4, <2>2, <3>1
    <3> QED
      BY <3>1, <3>2
  <2> HIDE DEF S
  <2>3. 0..L \subseteq S
    BY <1>1, <2>1, <2>2, SetInduction
  <2> QED
    BY <1>4, <2>3 DEF S
<1>8. ASSUME NEW n \in 1..L
      PROVE  /\ sum[n - 1] \in Int /\ sum[n] \in Int /\ sum[n - 1] <= sum[n]
  <2>1. n - 1 \in 0..L /\ n \in 0..L /\ L - n \in 0..L
    BY <1>1
  <2>2. sum[n - 1] \in Int /\ sum[n] \in Int /\ sum[n] = sum[n - 1] + d[n] * power[L - n]
    BY <1>5, <2>1
  <2>3. d[n] \in Int /\ d[n] >= 0 /\ power[L - n] \in Int /\ power[L - n] >= 1
    <3>1. d[n] \in 0..9
      BY <1>2, Zenon
    <3>2. power[L - n] \in Int /\ power[L - n] >= 1
      BY <1>7, <2>1, Zenon
    <3> QED
      BY <3>1, <3>2
  <2>4. d[n] * power[L - n] \in Int /\ d[n] * power[L - n] >= 0
    BY <2>3, OneMoreDigit
  <2> QED
    BY <2>2, <2>4
<1>9. \A n \in 0..L : sum[n] \in Int /\ sum[n] < h
  <2> DEFINE S == {j \in 0..L : sum[L - j] < h}
  <2>1. 0 \in S
    BY <1>1
  <2>2. ASSUME NEW j \in 0..(L - 1), j \in S
        PROVE  j + 1 \in S
    <3>1. L - j \in 1..L /\ j + 1 \in 0..L /\ (L - j) - 1 = L - (j + 1)
      BY <1>1
    <3>2. sum[(L - j) - 1] \in Int /\ sum[L - j] \in Int /\ sum[(L - j) - 1] <= sum[L - j]
      BY <1>8, <3>1
    <3>3. sum[L - j] < h
      BY <2>2
    <3> QED
      BY <1>1, <3>1, <3>2, <3>3
  <2> HIDE DEF S
  <2>3. 0..L \subseteq S
    BY <1>1, <2>1, <2>2, SetInduction
  <2>4. ASSUME NEW n \in 0..L PROVE sum[n] \in Int /\ sum[n] < h
    <3>1. L - n \in 0..L /\ L - (L - n) = n
      BY <1>1
    <3>2. sum[L - (L - n)] < h
      BY <2>3, <3>1 DEF S
    <3> QED
      BY <1>5, <3>1, <3>2
  <2> QED
    BY <2>4
<1>10. \A n \in 0..L : value[n] >= 0 /\ value[n] * power[L - n] = sum[n]
  <2> DEFINE S == {n \in 0..L : value[n] >= 0 /\ value[n] * power[L - n] = sum[n]}
  <2>1. 0 \in S
    <3>1. power[L] \in Int /\ L - 0 = L /\ 0 \in 0..L
      BY <1>1, <1>7
    <3> QED
      BY <1>3, <1>5, <3>1
  <2>2. ASSUME NEW n \in 0..(L - 1), n \in S
        PROVE  n + 1 \in S
    <3>1. /\ n + 1 \in 1..L /\ n + 1 \in 0..L /\ (n + 1) - 1 = n /\ n \in 0..L
          /\ L - n \in 1..L /\ (L - n) - 1 = L - (n + 1) /\ L - (n + 1) \in 0..L
      BY <1>1
    <3>2. PICK v : v = value[n]
      OBVIOUS
    <3>3. PICK e : e = d[n + 1]
      OBVIOUS
    <3>4. PICK q : q = power[L - (n + 1)]
      OBVIOUS
    <3>5. PICK a : a = sum[n]
      OBVIOUS
    <3>6. PICK b : b = sum[n + 1]
      OBVIOUS
    <3>7. v \in Int /\ v >= 0 /\ e \in Int /\ e >= 0 /\ q \in Int /\ q >= 1
      <4>1. v \in Int
        BY <1>3, <3>1, <3>2
      <4>2. v >= 0
        BY <2>2, <3>2
      <4>3. e \in 0..9
        BY <1>2, <3>1, <3>3, Zenon
      <4>4. q \in Int /\ q >= 1
        BY <1>7, <3>1, <3>4, Zenon
      <4> QED
        BY <4>1, <4>2, <4>3, <4>4
    <3>8. power[L - n] = 10 * q
      BY <1>4, <3>1, <3>4
    <3>9. a = v * (10 * q)
      BY <2>2, <3>2, <3>5, <3>8
    <3>10. b = a + e * q /\ b \in Int /\ b < h
      BY <1>5, <1>9, <3>1, <3>3, <3>4, <3>5, <3>6
    <3>11. value[n + 1] = Wrapped(v * 10 + e)
      BY <1>3, <3>1, <3>2, <3>3
    <3>12. /\ (v * 10 + e) * q = v * (10 * q) + e * q
           /\ v * 10 + e \in Int /\ v * 10 + e >= 0 /\ v * 10 + e <= (v * 10 + e) * q
      BY <3>7, OneMoreDigit
    <3>13. (v * 10 + e) * q = b
      BY <3>9, <3>10, <3>12
    <3>14. v * 10 + e < h
      BY <1>1, <3>10, <3>12, <3>13
    <3>15. value[n + 1] = v * 10 + e
      BY <3>11, <3>12, <3>14, WrappedFacts DEF h
    <3> QED
      BY <3>1, <3>4, <3>6, <3>12, <3>13, <3>15
  <2> HIDE DEF S
  <2>3. 0..L \subseteq S
    BY <1>1, <2>1, <2>2, SetInduction
  <2> QED
    BY <2>3 DEF S
<1>11. value[L] = sum[L]
  <2>1. L \in 0..L /\ L - L = 0
    BY <1>1
  <2>2. value[L] * power[0] = sum[L] /\ value[L] \in Int
    BY <1>3, <1>10, <2>1
  <2> QED
    BY <1>4, <2>2
<1> QED
  BY <1>6, <1>11

-----------------------------------------------------------------------------
(* Pieces of the text *)

\* What a piece of the text consists of.
LEMMA LexemeFacts ==
    ASSUME text \in Seq(Character), NEW a \in 1..End, NEW b \in a..End
    PROVE  /\ Lexeme(a, b) \in Seq(Character) /\ Len(Lexeme(a, b)) = b - a
           /\ \A i \in 1..b - a : Lexeme(a, b)[i] = text[a + i - 1]
<1> DEFINE m == b - 1
           u == SubSeq(text, a, m)
<1>1. a \in Nat /\ b \in Nat /\ a >= 1 /\ a <= b /\ b <= End /\ m \in Int /\ m - a + 1 = b - a /\ m = b - 1
  BY EndFacts
<1>2. u = Lexeme(a, b)
  BY DEF Lexeme
<1>3. \A i \in a..m : text[i] \in Character
  <2>1. ASSUME NEW i \in a..m
        PROVE  i \in 1..Len(text)
    BY <1>1, EndFacts
  <2> QED
    BY <2>1, ElementOfSeq
<1>4. u \in Seq(Character) /\ Len(u) = (IF a <= m THEN m - a + 1 ELSE 0) /\ \A i \in 1..(m - a + 1) : u[i] = text[a + i - 1]
  <2> HIDE DEF m
  <2> QED
    BY <1>1, <1>3, SubSeqProperties
<1>5. Len(u) = b - a
  <2> HIDE DEF m, u
  <2> QED
    BY <1>1, <1>4
<1> HIDE DEF m, u
<1> QED
  BY <1>1, <1>2, <1>4, <1>5

\* Neighbouring pieces.
LEMMA LexemeJoin ==
    ASSUME text \in Seq(Character), NEW a \in 1..End, NEW b \in a..End, NEW c \in b..End
    PROVE  Joined(Lexeme(a, b), Lexeme(b, c)) = Lexeme(a, c)
<1>1. /\ a \in Nat /\ b \in Nat /\ c \in Nat /\ b \in 1..End /\ c \in a..End /\ End \in Nat
      /\ b - a \in Nat /\ c - b \in Nat /\ c - a = (b - a) + (c - b)
  BY EndFacts
<1>2. PICK u : u = Lexeme(a, b)
  OBVIOUS
<1>3. PICK v : v = Lexeme(b, c)
  OBVIOUS
<1>4. PICK w : w = Lexeme(a, c)
  OBVIOUS
<1>5. u \in Seq(Character) /\ Len(u) = b - a /\ \A i \in 1..b - a : u[i] = text[a + i - 1]
  BY <1>2, LexemeFacts, Zenon
<1>6. v \in Seq(Character) /\ Len(v) = c - b /\ \A i \in 1..c - b : v[i] = text[b + i - 1]
  BY <1>1, <1>3, LexemeFacts, Zenon
<1>7. w \in Seq(Character) /\ Len(w) = c - a /\ \A i \in 1..c - a : w[i] = text[a + i - 1]
  BY <1>1, <1>4, LexemeFacts, Zenon
<1> DEFINE j == u \o v
<1>8. /\ j \in Seq(Character) /\ Len(j) = Len(u) + Len(v)
      /\ \A i \in 1..Len(u) + Len(v) : j[i] = IF i <= Len(u) THEN u[i] ELSE v[i - Len(u)]
  BY <1>5, <1>6, ConcatProperties
<1> HIDE DEF j
<1>9. Len(j) = Len(w)
  BY <1>1, <1>5, <1>6, <1>7, <1>8
<1>10. ASSUME NEW i \in 1..Len(j)
       PROVE  j[i] = w[i]
  <2>1. i \in 1..(b - a) + (c - b) /\ i \in 1..c - a
    BY <1>1, <1>5, <1>6, <1>8
  <2>2. w[i] = text[a + i - 1]
    BY <1>7, <2>1
  <2>3. CASE i <= b - a
    <3>1. i \in 1..b - a
      BY <1>1, <2>1, <2>3
    <3> QED
      BY <1>5, <1>6, <1>8, <2>1, <2>2, <2>3, <3>1
  <2>4. CASE i > b - a
    <3>1. i - (b - a) \in 1..c - b /\ b + (i - (b - a)) - 1 = a + i - 1 /\ ~(i <= b - a)
      BY <1>1, <2>1, <2>4
    <3>2. v[i - (b - a)] = text[a + i - 1]
      BY <1>6, <3>1
    <3> QED
      BY <1>5, <1>6, <1>8, <2>1, <2>2, <3>1, <3>2
  <2> QED
    BY <1>1, <2>1, <2>3, <2>4
<1>11. j = w
  BY <1>7, <1>8, <1>9, <1>10, SeqEqual
<1> QED
  BY <1>2, <1>3, <1>4, <1>11 DEF Joined, j

\* No character, one and two.
LEMMA ShortLexemes ==
    ASSUME text \in Seq(Character), NEW a \in 1..End
    PROVE  /\ Lexeme(a, a) = <<>>
           /\ a < End => Lexeme(a, a + 1) = <<text[a]>>
           /\ a + 1 < End => Lexeme(a, a + 2) = <<text[a], text[a + 1]>>
<1>1. a \in Nat /\ End \in Nat /\ a - a = 0 /\ (a + 1) - a = 1 /\ (a + 2) - a = 2 /\ a \in a..End
  BY EndFacts
<1>2. Lexeme(a, a) = <<>>
  <2>1. Lexeme(a, a) \in Seq(Character) /\ Len(Lexeme(a, a)) = a - a
    BY <1>1, LexemeFacts, Zenon
  <2> QED
    BY <1>1, <2>1, EmptySeq
<1>3. ASSUME a < End
      PROVE  Lexeme(a, a + 1) = <<text[a]>>
  <2>1. a + 1 \in a..End /\ 1 \in 1..(a + 1) - a /\ a + 1 - 1 = a
    BY <1>1, <1>3
  <2>2. PICK s : s = Lexeme(a, a + 1)
    OBVIOUS
  <2>3. s \in Seq(Character) /\ Len(s) = 1 /\ s[1] = text[a]
    BY <1>1, <2>1, <2>2, LexemeFacts
  <2>4. s = <<text[a]>>
    BY <2>3
  <2> QED
    BY <2>2, <2>4
<1>4. ASSUME a + 1 < End
      PROVE  Lexeme(a, a + 2) = <<text[a], text[a + 1]>>
  <2>1. a + 2 \in a..End /\ 1 \in 1..(a + 2) - a /\ 2 \in 1..(a + 2) - a /\ a + 1 - 1 = a /\ a + 2 - 1 = a + 1
    BY <1>1, <1>4
  <2>2. PICK s : s = Lexeme(a, a + 2)
    OBVIOUS
  <2>3. s \in Seq(Character) /\ Len(s) = 2 /\ s[1] = text[a] /\ s[2] = text[a + 1]
    BY <1>1, <2>1, <2>2, LexemeFacts
  <2>4. s = <<text[a], text[a + 1]>>
    BY <2>3
  <2> QED
    BY <2>2, <2>4
<1> QED
  BY <1>2, <1>3, <1>4

\* A mark that matches is a piece of the text.
LEMMA MarkIsLexeme ==
    ASSUME text \in Seq(Character), NEW s, NEW p \in 1..End, Matches(s, p)
    PROVE  Lexeme(p, p + Len(s)) = s /\ p + Len(s) <= End
  BY DEF Matches, Lexeme

-----------------------------------------------------------------------------
(* Literals *)

\* A token that can be read back, when it is the piece s of the text.
ReadsBack(t, s) ==
    /\ t.type = "string" => \E u \in Writings(t.value) : s = <<"q">> \o u \o <<"q">>
    /\ t.type = "raw_string" =>
         \E n \in 0..Len(s) : s = <<"R", "q">> \o SubSeq(s, 3, n + 2) \o <<"(">> \o t.value
                                    \o <<")">> \o SubSeq(s, 3, n + 2) \o <<"q">>
    /\ t.type = "number" /\ Denotes(s) < IntModulus \div 2 => t.value = <<Denotes(s)>>

\* The tokens are a sequence, and each can be read back.
LiteralInv ==
    /\ \E W : tokens \in Seq(W)
    /\ \A i \in DOMAIN tokens : ReadsBack(tokens[i], Lexeme(tokens[i].from, tokens[i].to))

\* A token is returned.
LEMMA LiteralStep ==
    ASSUME LiteralInv, text' = text,
           \/ tokens' = tokens
           \/ \E t : tokens' = Append(tokens, t) /\ ReadsBack(t, Lexeme(t.from, t.to))
    PROVE  LiteralInv'
<1>1. \A a, b : Lexeme(a, b)' = Lexeme(a, b)
  BY DEF Lexeme
<1>2. PICK W : tokens \in Seq(W)
  BY DEF LiteralInv
<1>3. \A i \in DOMAIN tokens : ReadsBack(tokens[i], Lexeme(tokens[i].from, tokens[i].to))
  BY DEF LiteralInv
<1>4. /\ \E V : tokens' \in Seq(V)
      /\ \A i \in DOMAIN tokens' : ReadsBack(tokens'[i], Lexeme(tokens'[i].from, tokens'[i].to))
  <2>1. CASE tokens' = tokens
    <3>1. \A i \in DOMAIN tokens' : ReadsBack(tokens'[i], Lexeme(tokens'[i].from, tokens'[i].to))
      BY <1>3, <2>1, Zenon
    <3> QED
      BY <1>2, <2>1, <3>1, Zenon
  <2>2. ASSUME NEW t, tokens' = Append(tokens, t), ReadsBack(t, Lexeme(t.from, t.to))
        PROVE  /\ \E V : tokens' \in Seq(V)
               /\ \A i \in DOMAIN tokens' : ReadsBack(tokens'[i], Lexeme(tokens'[i].from, tokens'[i].to))
    <3> DEFINE V == W \cup {t}
               n == Len(tokens) + 1
    <3>1. tokens \in Seq(V) /\ t \in V
      BY <1>2
    <3> HIDE DEF V
    <3>2. /\ tokens' \in Seq(V) /\ DOMAIN tokens' = DOMAIN tokens \cup {n}
          /\ tokens'[n] = t /\ \A i \in DOMAIN tokens : tokens'[i] = tokens[i]
      BY <2>2, <3>1, Appended
    <3> HIDE DEF n
    <3>3. ASSUME NEW i \in DOMAIN tokens'
          PROVE  ReadsBack(tokens'[i], Lexeme(tokens'[i].from, tokens'[i].to))
      <4>1. CASE i = n
        <5>1. tokens'[i] = t
          BY <3>2, <4>1, Zenon
        <5> QED
          BY <2>2, <5>1, Zenon
      <4>2. CASE i \in DOMAIN tokens
        <5>1. tokens'[i] = tokens[i]
          BY <3>2, <4>2, Zenon
        <5> QED
          BY <1>3, <4>2, <5>1, Zenon
      <4> QED
        BY <3>2, <4>1, <4>2, Zenon
    <3> QED
      BY <3>2, <3>3, Zenon
  <2> QED
    BY <2>1, <2>2, Zenon
<1>5. \A t, s : ReadsBack(t, s)' <=> ReadsBack(t, s)
  BY Zenon DEF ReadsBack
<1>6. ASSUME NEW i \in DOMAIN tokens'
      PROVE  ReadsBack(tokens[i], Lexeme(tokens[i].from, tokens[i].to))'
  <2>1. ReadsBack(tokens'[i], Lexeme(tokens'[i].from, tokens'[i].to))
    BY <1>4, Zenon
  <2>2. Lexeme(tokens[i].from, tokens[i].to)' = Lexeme(tokens'[i].from, tokens'[i].to)
    BY <1>1 DEF Lexeme
  <2> QED
    BY <2>1, <2>2 DEF ReadsBack
<1> QED
  BY <1>4, <1>6 DEF LiteralInv

\* Other tokens say nothing.
LEMMA PlainReturn ==
    ASSUME LiteralInv, NEW type, NEW from, NEW to, NEW value, Return(Token(type, from, to, value)),
           type \notin {"string", "raw_string", "number"}
    PROVE  LiteralInv'
<1> DEFINE t == Token(type, from, to, value)
<1>1. t.type = type
  BY DEF Token
<1>2. text' = text /\ tokens' = Append(tokens, t)
  BY DEF Return
<1>3. ReadsBack(t, Lexeme(t.from, t.to))
  BY <1>1 DEF ReadsBack
<1> QED
  BY <1>2, <1>3, LiteralStep

\* A token whose literal can be read back.
LEMMA LiteralReturn ==
    ASSUME LiteralInv, NEW type, NEW from, NEW to, NEW value, Return(Token(type, from, to, value)),
           ReadsBack(Token(type, from, to, value), Lexeme(from, to))
    PROVE  LiteralInv'
<1> DEFINE t == Token(type, from, to, value)
<1>1. t.from = from /\ t.to = to
  BY DEF Token
<1>2. text' = text /\ tokens' = Append(tokens, t)
  BY DEF Return
<1> HIDE DEF t
<1>3. ReadsBack(t, Lexeme(t.from, t.to))
  BY <1>1 DEF t
<1> QED
  BY <1>2, <1>3, LiteralStep

\* Numbers consist of digits.
LEMMA NumberLiteral ==
    ASSUME LexInv, LiteralInv, NEW p \in 1..End, Number(p)
    PROVE  LiteralInv'
<1> DEFINE S == {i \in p + 1..End : i = End \/ text[i] \notin Digit}
           to == Min(S)
           s == Lexeme(p, to)
           t == Token("number", p, to, <<IntegerValue(s)>>)
<1>1. text \in Seq(Character) /\ p < End /\ p \in Nat /\ End \in Nat /\ text[p] \in Digit
  BY EndFacts DEF LexInv, Number
<1>2. S \subseteq Nat /\ S # {} /\ S \subseteq p + 1..End
  BY <1>1
<1>3. Return(t)
  BY DEF Number, FirstFrom
<1>4. to \in p + 1..End /\ \A i \in S : to <= i
  <2> HIDE DEF S
  <2> QED
    BY <1>2, MinFacts
<1>5. \A i \in p..End : i < to => text[i] \in Digit
  <2> SUFFICES ASSUME NEW i \in p..End, i < to, text[i] \notin Digit
               PROVE  FALSE
    OBVIOUS
  <2>1. i # p /\ i \in p + 1..End
    BY <1>1
  <2>2. i \in S
    BY <2>1
  <2> HIDE DEF S, to
  <2> QED
    BY <1>1, <1>4, <2>1, <2>2
<1> HIDE DEF S, to
<1>6. to \in p..End /\ to \in Nat
  BY <1>1, <1>4
<1>7. s \in Seq(Character) /\ Len(s) = to - p /\ \A i \in 1..to - p : s[i] = text[p + i - 1]
  BY <1>1, <1>6, LexemeFacts, Zenon
<1> HIDE DEF s
<1>8. ASSUME NEW i \in 1..to - p
      PROVE  s[i] \in Digit
  <2>1. p + i - 1 \in p..End /\ p + i - 1 < to
    BY <1>1, <1>4, <1>6
  <2> QED
    BY <1>5, <1>7, <2>1
<1>9. s \in Seq(Digit)
  BY <1>7, <1>8
<1>10. Denotes(s) < IntModulus \div 2 => <<IntegerValue(s)>> = <<Denotes(s)>>
  BY <1>9, NumberReads
<1>11. t.type = "number" /\ t.value = <<IntegerValue(s)>>
  BY DEF Token
<1> HIDE DEF t
<1>12. ReadsBack(t, s)
  BY <1>10, <1>11 DEF ReadsBack
<1> QED
  BY <1>3, <1>12, LiteralReturn DEF t, s

\* A raw string is the text between its parentheses.
LEMMA RawLiteral ==
    ASSUME LexInv, LiteralInv, NEW p \in 1..End, RawString(p)
    PROVE  LiteralInv'
<1>1. text \in Seq(Character) /\ Matches(<<"R", "q">>, p)
  BY DEF LexInv, RawString
<1>2. p \in Nat /\ End \in Nat /\ p + 1 < End /\ text[p] = "R" /\ text[p + 1] = "q"
  BY <1>1, EndFacts, Marks
<1> DEFINE O == {i \in p + 2..End : i = End \/ text[i] \in RawStop}
           open == Min(O)
           prefix == Lexeme(p + 2, open)
           closing == <<")">> \o prefix \o <<"q">>
           S == {i \in open + 1..End : i = End \/ Matches(closing, i)}
           stop == Min(S)
           to == stop + 2 + Len(prefix)
           value == Lexeme(open + 1, stop)
<1>3. IF ~Matches(<<"(">>, open)
      THEN Push(<<p, open>>) /\ Return(Token("bad_string", p, open, <<>>))
      ELSE IF stop = End
           THEN Push(<<p, End>>) /\ Return(Token("bad_string", p, End, Lexeme(open + 1, End)))
           ELSE Return(Token("raw_string", p, to, value)) /\ errors' = errors
  BY DEF RawString, FirstFrom
<1>4. O \in SUBSET (p + 2..End) /\ End \in O /\ p + 2 \in 1..End
  BY <1>2
<1>5. open \in p + 2..End
  <2> HIDE DEF O
  <2> QED
    BY <1>1, <1>4, Found
<1> HIDE DEF O, open
<1>6. open \in 1..End /\ open \in Nat /\ open - (p + 2) \in Nat
  BY <1>2, <1>5
<1>7. prefix \in Seq(Character) /\ Len(prefix) = open - (p + 2) /\ \A i \in 1..open - (p + 2) : prefix[i] = text[(p + 2) + i - 1]
  BY <1>1, <1>4, <1>5, LexemeFacts, Zenon
<1>8. CASE ~Matches(<<"(">>, open) \/ stop = End
  BY <1>3, <1>8, PlainReturn
<1>9. CASE Matches(<<"(">>, open) /\ stop # End
  <2>1. open < End /\ text[open] = "("
    BY <1>1, <1>6, <1>9, Marks
  <2>2. S \subseteq Nat /\ S # {} /\ S \subseteq open + 1..End
    BY <1>2, <1>6, <2>1
  <2>3. stop \in S
    <3> HIDE DEF S
    <3> QED
      BY <2>2, MinFacts
  <2>4. stop \in open + 1..End /\ Matches(closing, stop)
    BY <1>9, <2>3
  <2>5. Return(Token("raw_string", p, to, value))
    BY <1>3, <1>9
  <2> DEFINE paren == <<")">>
             quote == <<"q">>
             n == Len(prefix)
  <2>6. paren \in Seq(Character) /\ Len(paren) = 1 /\ quote \in Seq(Character) /\ Len(quote) = 1
    <3>1. ")" \in Character /\ "q" \in Character
      BY DEF Character
    <3> QED
      BY <3>1, TupleFacts
  <2>7. closing = Joined(Joined(paren, prefix), quote)
    BY DEF Joined
  <2> HIDE DEF S, stop, prefix, closing, paren, quote
  <2>8. Len(closing) = 2 + n
    <3>1. Joined(paren, prefix) \in Seq(Character) /\ Len(Joined(paren, prefix)) = 1 + n
      <4>1. prefix \in Seq(Character) /\ paren \in Seq(Character) /\ Len(paren) = 1
        BY <1>7, <2>6
      <4>2. paren \o prefix \in Seq(Character) /\ Len(paren \o prefix) = Len(paren) + Len(prefix)
        BY <4>1, ConcatProperties
      <4> QED
        BY <4>1, <4>2 DEF Joined
    <3>2. Len(Joined(Joined(paren, prefix), quote)) = (1 + n) + 1
      BY <2>6, <3>1, ConcatProperties DEF Joined
    <3> QED
      BY <1>6, <1>7, <2>7, <3>2
  <2>9. stop \in 1..End /\ stop \in Nat /\ stop \in open..End /\ open + 1 \in 1..End /\ n \in Nat
    BY <1>2, <1>6, <1>7, <2>1, <2>4
  <2>10. Lexeme(stop, stop + Len(closing)) = closing /\ stop + Len(closing) <= End
    BY <1>1, <2>4, <2>9, MarkIsLexeme
  <2>11. stop + Len(closing) = to /\ to \in Nat /\ to \in stop..End
    BY <1>2, <2>8, <2>9, <2>10
  <2> HIDE DEF to, value
  <2>12. Lexeme(p, p + 2) = <<"R", "q">> /\ Lexeme(open, open + 1) = <<"(">> /\ Lexeme(stop, to) = closing
    <3>1. Lexeme(p, p + 2) = <<text[p], text[p + 1]>> /\ Lexeme(open, open + 1) = <<text[open]>>
      BY <1>1, <1>2, <1>6, <2>1, ShortLexemes
    <3> QED
      BY <1>2, <2>1, <2>10, <2>11, <3>1
  <2>13. /\ p + 2 \in p..End /\ open \in p..End /\ open + 1 \in p..End /\ open + 1 \in open..End
         /\ stop \in p..End /\ to \in p..End /\ to \in 1..End
    BY <1>2, <1>4, <1>5, <1>6, <2>1, <2>4, <2>9, <2>11
  <2> DEFINE s == Lexeme(p, to)
  <2>14. /\ Joined(Lexeme(p, p + 2), prefix) = Lexeme(p, open)
         /\ Joined(Lexeme(p, open), Lexeme(open, open + 1)) = Lexeme(p, open + 1)
         /\ Joined(Lexeme(p, open + 1), value) = Lexeme(p, stop)
         /\ Joined(Lexeme(p, stop), Lexeme(stop, to)) = s
    <3>1. Joined(Lexeme(p, p + 2), Lexeme(p + 2, open)) = Lexeme(p, open)
      BY <1>1, <1>5, <2>13, LexemeJoin, Zenon
    <3>2. Joined(Lexeme(p, open), Lexeme(open, open + 1)) = Lexeme(p, open + 1)
      BY <1>1, <2>13, LexemeJoin, Zenon
    <3>3. Joined(Lexeme(p, open + 1), Lexeme(open + 1, stop)) = Lexeme(p, stop)
      BY <1>1, <2>4, <2>13, LexemeJoin, Zenon
    <3>4. Joined(Lexeme(p, stop), Lexeme(stop, to)) = Lexeme(p, to)
      BY <1>1, <2>11, <2>13, LexemeJoin, Zenon
    <3> QED
      BY <3>1, <3>2, <3>3, <3>4 DEF prefix, value
  <2>15. s \in Seq(Character) /\ Len(s) = to - p /\ \A i \in 1..to - p : s[i] = text[p + i - 1]
    BY <1>1, <2>13, LexemeFacts, Zenon
  <2>16. Lexeme(p, stop) \in Seq(Character)
    BY <1>1, <2>13, LexemeFacts, Zenon
  <2>17. s = Joined(Joined(Joined(Lexeme(p, stop), paren), prefix), quote)
    <3>1. PICK h : h = Lexeme(p, stop)
      OBVIOUS
    <3>2. h \in Seq(Character) /\ prefix \in Seq(Character) /\ paren \in Seq(Character) /\ quote \in Seq(Character)
      BY <1>7, <2>6, <2>16, <3>1
    <3>3. Joined(paren, prefix) \in Seq(Character)
      BY <3>2, JoinedFacts, Zenon
    <3>4. Joined(Joined(h, Joined(paren, prefix)), quote) = Joined(h, Joined(Joined(paren, prefix), quote))
      BY <3>2, <3>3, JoinedFacts
    <3>5. Joined(Joined(h, paren), prefix) = Joined(h, Joined(paren, prefix))
      BY <3>2, JoinedFacts
    <3>6. s = Joined(h, closing)
      BY <2>12, <2>14, <3>1
    <3> QED
      BY <2>7, <3>1, <3>4, <3>5, <3>6
  <2>18. n \in 0..Len(s) /\ SubSeq(s, 3, n + 2) = prefix
    <3> HIDE DEF s
    <3>1. Len(s) = to - p /\ n + 2 <= to - p /\ n = open - (p + 2)
      BY <1>2, <1>6, <1>7, <2>4, <2>8, <2>9, <2>11, <2>15
    <3> DEFINE u == SubSeq(s, 3, n + 2)
    <3>2. \A i \in 3..n + 2 : s[i] \in Character
      <4>1. ASSUME NEW i \in 3..n + 2 PROVE i \in 1..Len(s)
        BY <1>2, <2>9, <2>11, <3>1
      <4> QED
        BY <2>15, <4>1, ElementOfSeq
    <3> DEFINE m == n + 2
    <3>3. m \in Int /\ (m - 3) + 1 = n /\ 3 \in Int /\ (IF 3 <= m THEN (m - 3) + 1 ELSE 0) = n
      BY <2>9
    <3> HIDE DEF m
    <3>4. SubSeq(s, 3, m) \in Seq(Character) /\ Len(SubSeq(s, 3, m)) = n /\ \A i \in 1..n : SubSeq(s, 3, m)[i] = s[3 + i - 1]
      BY <3>2, <3>3, SubSeqProperties DEF m
    <3>5. PICK w : w = SubSeq(s, 3, m)
      OBVIOUS
    <3>6. ASSUME NEW i \in 1..n PROVE w[i] = prefix[i]
      <4>1. w[i] = s[3 + i - 1] /\ prefix[i] = text[(p + 2) + i - 1]
        BY <1>7, <3>1, <3>4, <3>5
      <4>2. 3 + i - 1 \in 1..to - p /\ p + (3 + i - 1) - 1 = (p + 2) + i - 1
        BY <1>2, <2>9, <2>11, <3>1
      <4>3. s[3 + i - 1] = text[p + (3 + i - 1) - 1]
        BY <2>15, <4>2, Zenon
      <4> QED
        BY <4>1, <4>2, <4>3
    <3>7. w = prefix
      BY <1>7, <3>4, <3>5, <3>6, SeqEqual
    <3>8. n \in 0..Len(s)
      BY <1>2, <2>9, <2>11, <3>1
    <3> QED
      BY <3>5, <3>7, <3>8, Zenon DEF m
  <2> DEFINE t == Token("raw_string", p, to, value)
  <2>19. t.type = "raw_string" /\ t.value = value
    BY DEF Token
  <2>20. s = <<"R", "q">> \o prefix \o <<"(">> \o value \o <<")">> \o prefix \o <<"q">>
    BY <2>12, <2>14, <2>17 DEF Joined, paren, quote
  <2> HIDE DEF s, t, n
  <2>21. \E k \in 0..Len(s) : s = <<"R", "q">> \o SubSeq(s, 3, k + 2) \o <<"(">> \o value
                                    \o <<")">> \o SubSeq(s, 3, k + 2) \o <<"q">>
    BY <2>18, <2>20, Zenon
  <2>22. ReadsBack(t, s)
    BY <2>19, <2>21 DEF ReadsBack
  <2> QED
    BY <2>5, <2>22, LiteralReturn DEF t, s
<1> QED
  BY <1>8, <1>9

\* A sequence of characters is one of the ways to write a value.
Spelt(value, s) ==
    \E w \in Seq(Seq(Character)) :
        /\ Len(w) = Len(value) /\ FlattenSeq(w) = s
        /\ \A k \in 1..Len(value) : w[k] \in Spellings(value[k])

\* An escape is a way to write what it stands for, and a character that needs none is a
\* way to write itself.
LEMMA SpellingFacts ==
    /\ \A x \in Character : Spellings(x) \subseteq Seq(Character)
    /\ \A c \in DOMAIN Escape : Escape[c] \in Character /\ <<"bs", c>> \in Spellings(Escape[c])
    /\ \A c \in Character \ {"q", "bs", "nl"} : <<c>> \in Spellings(c)
<1>1. /\ DOMAIN Escape = {"a", "b", "f", "n", "r", "t", "v", "bs", "apos", "q"}
      /\ {"a", "b", "f", "n", "r", "t", "v", "bs", "apos", "q"} \subseteq Character
  BY DEF Escape, Character, Letter
<1>2. /\ Escape["a"] = "bell" /\ Escape["b"] = "backspace" /\ Escape["f"] = "formfeed" /\ Escape["n"] = "nl"
      /\ Escape["r"] = "cr" /\ Escape["t"] = "tab" /\ Escape["v"] = "vtab"
      /\ Escape["bs"] = "bs" /\ Escape["apos"] = "apos" /\ Escape["q"] = "q"
  BY DEF Escape
<1>3. {"bell", "backspace", "formfeed", "nl", "cr", "tab", "vtab"} \subseteq Character
  BY DEF Character, Space
<1>4. \A c \in DOMAIN Escape : Escape[c] \in Character
  BY <1>1, <1>2, <1>3
<1>5. \A c \in DOMAIN Escape : <<"bs", c>> \in Spellings(Escape[c])
  BY DEF Spellings
<1>6. \A c \in Character \ {"q", "bs", "nl"} : <<c>> \in Spellings(c)
  BY DEF Spellings
<1>7. ASSUME NEW x \in Character, NEW u \in Spellings(x)
      PROVE  u \in Seq(Character)
  <2>1. CASE u \in {<<"bs", e>> : e \in {d \in DOMAIN Escape : Escape[d] = x}}
    <3>1. PICK e \in DOMAIN Escape : u = <<"bs", e>>
      BY <2>1
    <3>2. e \in Character /\ "bs" \in Character
      BY <1>1, <3>1
    <3> QED
      BY <3>1, <3>2, TupleFacts, Zenon
  <2>2. CASE u \in {<<d>> : d \in {x} \ {"q", "bs", "nl"}}
    <3>1. u = <<x>>
      BY <2>2
    <3> QED
      BY <3>1, TupleFacts, Zenon
  <2> QED
    BY <2>1, <2>2 DEF Spellings
<1> QED
  BY <1>4, <1>5, <1>6, <1>7

\* One more character is written behind the others.
LEMMA SpeltAppend ==
    ASSUME NEW v \in Seq(Character), NEW s, Spelt(v, s), NEW x \in Character, NEW u \in Spellings(x)
    PROVE  Joined(v, <<x>>) \in Seq(Character) /\ Spelt(Joined(v, <<x>>), Joined(s, u))
<1>1. PICK V : V = Seq(Character)
  OBVIOUS
<1>2. PICK w \in Seq(V) :
        /\ Len(w) = Len(v) /\ FlattenSeq(w) = s
        /\ \A k \in 1..Len(v) : w[k] \in Spellings(v[k])
  BY <1>1, Zenon DEF Spelt
<1>3. u \in V /\ Len(v) \in Nat
  BY <1>1, SpellingFacts
<1> DEFINE n == Len(v)
           y == Append(v, x)
           z == Append(w, u)
<1>4. y \in Seq(Character) /\ Len(y) = n + 1 /\ y[n + 1] = x /\ \A k \in 1..n : y[k] = v[k]
  BY AppendProperties
<1>5. z \in Seq(V) /\ Len(z) = n + 1 /\ z[n + 1] = u /\ \A k \in 1..n : z[k] = w[k]
  BY <1>2, <1>3, AppendProperties
<1>6. FlattenSeq(z) = Joined(s, u)
  BY <1>1, <1>2, <1>3, FlattenAppend, Zenon
<1>7. Joined(v, <<x>>) = y
  BY DEF Joined
<1> HIDE DEF n, y, z
<1>8. \A k \in 1..n + 1 : z[k] \in Spellings(y[k])
  <2> TAKE k \in 1..n + 1
  <2>1. CASE k = n + 1
    BY <1>4, <1>5, <2>1
  <2>2. CASE k # n + 1
    <3>1. k \in 1..n /\ k \in 1..Len(v)
      BY <1>3, <2>2 DEF n
    <3> QED
      BY <1>2, <1>4, <1>5, <3>1
  <2> QED
    BY <2>1, <2>2
<1>9. Spelt(y, Joined(s, u))
  <2>1. /\ z \in Seq(Seq(Character)) /\ Len(z) = Len(y) /\ FlattenSeq(z) = Joined(s, u)
        /\ \A k \in 1..Len(y) : z[k] \in Spellings(y[k])
    BY <1>1, <1>4, <1>5, <1>6, <1>8
  <2> QED
    BY <2>1, Zenon DEF Spelt
<1> QED
  BY <1>4, <1>7, <1>9

\* What is spelt is one of the writings.
LEMMA SpeltWriting ==
    ASSUME NEW v \in Seq(Character), NEW s, Spelt(v, s)
    PROVE  s \in Writings(v)
<1>1. PICK V : V = Seq(Character)
  OBVIOUS
<1>2. PICK w \in Seq(V) :
        /\ Len(w) = Len(v) /\ FlattenSeq(w) = s
        /\ \A k \in 1..Len(v) : w[k] \in Spellings(v[k])
  BY <1>1, Zenon DEF Spelt
<1> DEFINE D == DOMAIN v
           spellings == UNION {Spellings(v[k]) : k \in D}
<1>3. D = 1..Len(v)
  OBVIOUS
<1>4. w \in [D -> V]
  <2>1. w \in [1..Len(w) -> V]
    BY <1>2
  <2> QED
    BY <1>2, <1>3, <2>1
<1>5. \A k \in D : w[k] \in Spellings(v[k])
  BY <1>2, <1>3
<1> HIDE DEF D
<1>6. \A k \in D : w[k] \in spellings
  BY <1>5
<1> HIDE DEF spellings
<1>7. w \in [D -> spellings]
  BY <1>4, <1>6
<1>8. w \in {u \in [D -> spellings] : \A k \in D : u[k] \in Spellings(v[k])}
  BY <1>5, <1>7, Zenon
<1>9. FlattenSeq(w) \in {FlattenSeq(u) : u \in {u \in [D -> spellings] : \A k \in D : u[k] \in Spellings(v[k])}}
  BY <1>8, Zenon
<1>10. Writings(v) = {FlattenSeq(u) : u \in {u \in [D -> spellings] : \A k \in D : u[k] \in Spellings(v[k])}}
  BY Zenon DEF Writings, D, spellings
<1> QED
  BY <1>2, <1>9, <1>10, Zenon

\* What read_next_token appends to a string's value for the character at i.
Piece(i, escaped) ==
    IF ~escaped[i] THEN IF text[i] = "bs" THEN <<>> ELSE <<text[i]>>
    ELSE IF text[i] \in DOMAIN Escape THEN <<Escape[text[i]]>> ELSE <<"bs", text[i]>>

\* The text between the quotes of a string is a way to write what the string says.
LEMMA StringReads ==
    ASSUME text \in Seq(Character), NEW p \in 1..End, NEW stop \in p + 1..End, stop < End, NEW escaped,
           \A i \in p..End : escaped[i] <=> i > p + 1 /\ text[i - 1] = "bs" /\ ~escaped[i - 1],
           \A i \in p + 1..stop - 1 : ~escaped[i] => text[i] \notin {"nl", "q"},
           \A i \in p..stop - 1 : escaped[i] => text[i] \in DOMAIN Escape,
           ~escaped[stop]
    PROVE  Lexeme(p + 1, stop) \in Writings(Unescape(p, stop, escaped))
<1> DEFINE N == stop - p - 1
           pieces == [k \in 1..N |-> Piece(p + k, escaped)]
           U(j) == FlattenSeq(SubSeq(pieces, 1, j))
           upto(j) == IF escaped[p + j + 1] THEN p + j ELSE p + j + 1
           S == {j \in 0..N : U(j) \in Seq(Character) /\ Spelt(U(j), Lexeme(p + 1, upto(j)))}
<1>1. /\ End \in Nat /\ p \in Nat /\ stop \in Nat /\ N \in Nat /\ p < End /\ p + N + 1 = stop /\ p >= 1
      /\ p + 1 \in 1..End
  BY EndFacts
<1>2. Unescape(p, stop, escaped) = FlattenSeq(pieces)
  BY Zenon DEF Unescape, Piece
<1>3. ASSUME NEW k \in 1..N
      PROVE  /\ p + k \in p + 1..stop - 1 /\ p + k \in p..stop - 1 /\ p + k \in p..End /\ p + k + 1 \in p..End
             /\ p + k \in 1..End /\ p + k < End /\ text[p + k] \in Character /\ p + k \in Nat
  <2>1. p + k \in 1..Len(text)
    BY <1>1, EndFacts
  <2> QED
    BY <1>1, <2>1, ElementOfSeq
<1> HIDE DEF N
<1>4. ASSUME NEW k \in 1..N
      PROVE  Piece(p + k, escaped) \in Seq(Character)
  <2>1. PICK c : c = text[p + k]
    OBVIOUS
  <2>2. c \in Character
    BY <1>3, <2>1
  <2>3. CASE ~escaped[p + k] /\ c = "bs"
    <3>1. Piece(p + k, escaped) = <<>>
      BY <2>1, <2>3, Zenon DEF Piece
    <3> QED
      BY <3>1, EmptySeq
  <2>4. CASE ~escaped[p + k] /\ c # "bs"
    <3>1. Piece(p + k, escaped) = <<c>>
      BY <2>1, <2>4, Zenon DEF Piece
    <3>2. <<c>> \in Seq(Character)
      BY <2>2, TupleFacts, Zenon
    <3> QED
      BY <3>1, <3>2, Zenon
  <2>5. CASE escaped[p + k]
    <3>1. c \in DOMAIN Escape
      BY <1>3, <2>1, <2>5
    <3>2. Piece(p + k, escaped) = <<Escape[c]>>
      BY <2>1, <2>5, <3>1, Zenon DEF Piece
    <3>3. Escape[c] \in Character
      BY <3>1, SpellingFacts, Zenon
    <3>4. <<Escape[c]>> \in Seq(Character)
      BY <3>3, TupleFacts, Zenon
    <3> QED
      BY <3>2, <3>4, Zenon
  <2> QED
    BY <2>3, <2>4, <2>5
<1>5. pieces \in Seq(Seq(Character)) /\ Len(pieces) = N /\ \A k \in 1..N : pieces[k] = Piece(p + k, escaped)
  <2> DEFINE V == Seq(Character)
  <2>1. \A k \in 1..N : Piece(p + k, escaped) \in V
    BY <1>4
  <2>2. pieces \in [1..N -> V] /\ \A k \in 1..N : pieces[k] = Piece(p + k, escaped)
    BY <2>1, Zenon
  <2> HIDE DEF V, pieces
  <2>3. pieces \in Seq(V) /\ Len(pieces) = N
    BY <1>1, <2>2
  <2> QED
    BY <2>2, <2>3 DEF V
<1> HIDE DEF pieces
<1>6. /\ \A j \in 0..N : SubSeq(pieces, 1, j) \in Seq(Seq(Character))
      /\ \A j \in 0..(N - 1) : SubSeq(pieces, 1, j + 1) = Append(SubSeq(pieces, 1, j), pieces[j + 1])
      /\ SubSeq(pieces, 1, N) = pieces /\ SubSeq(pieces, 1, 0) = <<>>
  <2>1. PICK V : V = Seq(Character)
    OBVIOUS
  <2>2. pieces \in Seq(V) /\ Len(pieces) = N
    BY <1>5, <2>1
  <2>3. \A j \in 0..N : SubSeq(pieces, 1, j) \in Seq(V)
    BY <1>1, <2>2
  <2>4. \A j \in 0..(N - 1) : SubSeq(pieces, 1, j + 1) = Append(SubSeq(pieces, 1, j), pieces[j + 1])
    BY <1>1, <2>2
  <2>5. SubSeq(pieces, 1, N) = pieces /\ SubSeq(pieces, 1, 0) = <<>>
    BY <1>1, <2>2, SubSeqFull
  <2> QED
    BY <2>1, <2>3, <2>4, <2>5
<1>7. /\ U(0) = <<>> /\ U(N) = FlattenSeq(pieces)
      /\ \A j \in 0..(N - 1) : U(j + 1) = Joined(U(j), pieces[j + 1])
  <2>1. FlattenSeq(<<>>) = <<>>
    BY DEF FlattenSeq
  <2>2. ASSUME NEW j \in 0..(N - 1)
        PROVE  U(j + 1) = Joined(U(j), pieces[j + 1])
    <3>1. j \in 0..N /\ j + 1 \in 1..N
      BY <1>1
    <3>2. SubSeq(pieces, 1, j) \in Seq(Seq(Character)) /\ pieces[j + 1] \in Seq(Character)
      BY <1>4, <1>5, <1>6, <3>1
    <3>3. SubSeq(pieces, 1, j + 1) = Append(SubSeq(pieces, 1, j), pieces[j + 1])
      BY <1>6
    <3>4. FlattenSeq(Append(SubSeq(pieces, 1, j), pieces[j + 1])) = Joined(FlattenSeq(SubSeq(pieces, 1, j)), pieces[j + 1])
      BY <3>2, FlattenAppend, Zenon
    <3> QED
      BY <3>3, <3>4
  <2> QED
    BY <1>6, <2>1, <2>2
<1> HIDE DEF U
<1>8. 0 \in S
  <2>1. ~escaped[p + 0 + 1]
    <3>1. p + 0 + 1 \in p..End /\ ~(p + 0 + 1 > p + 1)
      BY <1>1
    <3> QED
      BY <3>1
  <2>2. upto(0) = p + 1
    BY <1>1, <2>1
  <2>3. Lexeme(p + 1, p + 1) = <<>>
    BY <1>1, ShortLexemes, Zenon
  <2>4. <<>> \in Seq(Character)
    BY EmptySeq
  <2>5. Spelt(<<>>, <<>>)
    <3>1. FlattenSeq(<<>>) = <<>> /\ <<>> \in Seq(Seq(Character))
      BY DEF FlattenSeq
    <3>2. Len(<<>>) = 0 /\ 1..0 = {}
      OBVIOUS
    <3> QED
      BY <3>1, <3>2, Zenon DEF Spelt
  <2>6. 0 \in 0..N
    BY <1>1
  <2> HIDE DEF upto
  <2> QED
    BY <1>7, <2>2, <2>3, <2>4, <2>5, <2>6
<1>9. ASSUME NEW j \in 0..(N - 1), j \in S
      PROVE  j + 1 \in S
  <2> DEFINE k == j + 1
             i == p + k
             c == text[i]
  <2>1. /\ k \in 1..N /\ k \in 0..N /\ i \in Nat /\ p + j + 1 = i /\ p + k + 1 = i + 1 /\ p + k = i /\ p + j = i - 1
        /\ i + 1 > p + 1 /\ (i + 1) - 1 = i /\ i - 1 \in Nat /\ i > p /\ (i - 1) + 1 = i /\ (i - 1) + 2 = i + 1
    BY <1>1
  <2>2. /\ i \in p + 1..stop - 1 /\ i \in p..stop - 1 /\ i \in p..End /\ i + 1 \in p..End /\ i \in 1..End
        /\ i < End /\ c \in Character
    BY <1>3, <2>1
  <2>3. /\ U(j) \in Seq(Character) /\ Spelt(U(j), Lexeme(p + 1, upto(j)))
        /\ U(k) = Joined(U(j), pieces[k]) /\ pieces[k] = Piece(i, escaped)
    BY <1>5, <1>7, <1>9, <2>1
  <2>4. escaped[i + 1] <=> c = "bs" /\ ~escaped[i]
    <3>1. escaped[i + 1] <=> i + 1 > p + 1 /\ text[(i + 1) - 1] = "bs" /\ ~escaped[(i + 1) - 1]
      BY <2>2, Zenon
    <3> QED
      BY <2>1, <3>1
  <2>5. upto(j) = (IF escaped[i] THEN i - 1 ELSE i) /\ upto(k) = (IF escaped[i + 1] THEN i ELSE i + 1)
    BY <2>1
  <2> HIDE DEF k, i, c, upto
  <2>6. i \in p + 1..End /\ i + 1 \in i..End /\ i + 1 \in p + 1..End /\ p + 1 \in 1..End
    BY <1>1, <2>1, <2>2
  <2>7. CASE ~escaped[i] /\ c = "bs"
    <3>1. pieces[k] = <<>>
      BY <2>3, <2>7, Zenon DEF Piece, c
    <3>2. U(k) = U(j)
      BY <2>3, <3>1, JoinedFacts
    <3>3. upto(j) = i /\ upto(k) = i
      BY <2>4, <2>5, <2>7
    <3> QED
      BY <2>1, <2>3, <3>2, <3>3 DEF k
  <2>8. CASE ~escaped[i] /\ c # "bs"
    <3>1. pieces[k] = <<c>>
      BY <2>3, <2>8, Zenon DEF Piece, c
    <3>2. c \in Character \ {"q", "bs", "nl"}
      BY <2>2, <2>8 DEF c
    <3>3. <<c>> \in Spellings(c)
      BY <3>2, SpellingFacts, Zenon
    <3>4. /\ Joined(U(j), <<c>>) \in Seq(Character)
          /\ Spelt(Joined(U(j), <<c>>), Joined(Lexeme(p + 1, upto(j)), <<c>>))
      BY <2>2, <2>3, <3>3, SpeltAppend, Zenon
    <3>5. upto(j) = i /\ upto(k) = i + 1
      BY <2>4, <2>5, <2>8
    <3>6. Joined(Lexeme(p + 1, i), Lexeme(i, i + 1)) = Lexeme(p + 1, i + 1)
      BY <2>6, LexemeJoin, Zenon
    <3>7. Lexeme(i, i + 1) = <<c>>
      BY <2>2, ShortLexemes, Zenon DEF c
    <3> QED
      BY <2>1, <2>3, <3>1, <3>4, <3>5, <3>6, <3>7 DEF k
  <2>9. CASE escaped[i]
    <3>1. c \in DOMAIN Escape
      BY <2>2, <2>9 DEF c
    <3>2. pieces[k] = <<Escape[c]>>
      BY <2>3, <2>9, <3>1, Zenon DEF Piece, c
    <3>3. Escape[c] \in Character /\ <<"bs", c>> \in Spellings(Escape[c])
      BY <3>1, SpellingFacts, Zenon
    <3>4. /\ Joined(U(j), <<Escape[c]>>) \in Seq(Character)
          /\ Spelt(Joined(U(j), <<Escape[c]>>), Joined(Lexeme(p + 1, upto(j)), <<"bs", c>>))
      BY <2>3, <3>3, SpeltAppend, Zenon
    <3>5. upto(j) = i - 1 /\ upto(k) = i + 1
      BY <2>4, <2>5, <2>9
    <3>6. i > p + 1 /\ text[i - 1] = "bs"
      BY <2>2, <2>9
    <3>7. i - 1 \in p + 1..End /\ i - 1 \in 1..End /\ i + 1 \in i - 1..End /\ (i - 1) + 1 < End
      BY <1>1, <2>1, <2>2, <2>6, <3>6
    <3>8. Joined(Lexeme(p + 1, i - 1), Lexeme(i - 1, i + 1)) = Lexeme(p + 1, i + 1)
      BY <2>6, <3>7, LexemeJoin, Zenon
    <3>9. Lexeme(i - 1, (i - 1) + 2) = <<text[i - 1], text[(i - 1) + 1]>>
      BY <3>7, ShortLexemes, Zenon
    <3>10. Lexeme(i - 1, i + 1) = <<"bs", c>>
      BY <2>1, <3>6, <3>9 DEF c
    <3> QED
      BY <2>1, <2>3, <3>2, <3>4, <3>5, <3>8, <3>10 DEF k
  <2> QED
    BY <2>7, <2>8, <2>9
<1>10. N \in S
  <2> HIDE DEF S
  <2>1. 0..N \subseteq S
    BY <1>1, <1>8, <1>9, SetInduction
  <2> QED
    BY <1>1, <2>1
<1>11. upto(N) = stop
  BY <1>1
<1>12. U(N) \in Seq(Character) /\ Spelt(U(N), Lexeme(p + 1, stop))
  BY <1>10, <1>11
<1>13. Lexeme(p + 1, stop) \in Writings(U(N))
  BY <1>12, SpeltWriting, Zenon
<1> QED
  BY <1>2, <1>7, <1>13

\* A string without an error says what is between its quotes.
LEMMA StringLiteral ==
    ASSUME LexInv, LiteralInv, NEW p \in 1..End, String(p)
    PROVE  LiteralInv'
<1>1. text \in Seq(Character) /\ Matches(<<"q">>, p)
  BY DEF LexInv, String
<1>2. p \in Nat /\ End \in Nat /\ p < End /\ text[p] = "q" /\ p + 1 \in 1..End
  BY <1>1, EndFacts, Marks
<1> DEFINE escaped == Escaped(p)
           S == {i \in p + 1..End : i = End \/ (~escaped[i] /\ text[i] \in {"nl", "q"})}
           stop == Min(S)
           invalid == {i \in p..stop - 1 : escaped[i] /\ text[i] \notin DOMAIN Escape}
           value == Unescape(p, stop, escaped)
           type == IF invalid = {} THEN "string" ELSE "bad_string"
<1>3. IF Matches(<<"q">>, stop) THEN Return(Token(type, p, stop + 1, value))
      ELSE Return(Token("bad_string", p, stop, value))
  BY DEF String, FirstFrom
<1>4. \A i \in p..End : escaped[i] <=> i > p + 1 /\ text[i - 1] = "bs" /\ ~escaped[i - 1]
  BY <1>1, EscapedFacts, Zenon
<1> HIDE DEF escaped
<1>5. S \subseteq Nat /\ S # {} /\ S \subseteq p + 1..End
  BY <1>2
<1>6. stop \in S /\ \A i \in S : stop <= i
  <2> HIDE DEF S
  <2> QED
    BY <1>5, MinFacts
<1>7. stop \in p + 1..End /\ stop \in Nat
  BY <1>2, <1>5, <1>6
<1>8. \A i \in p + 1..stop - 1 : ~escaped[i] => text[i] \notin {"nl", "q"}
  <2> SUFFICES ASSUME NEW i \in p + 1..stop - 1, ~escaped[i], text[i] \in {"nl", "q"}
               PROVE  FALSE
    OBVIOUS
  <2>1. i \in p + 1..End /\ i < stop /\ i \in Nat
    BY <1>2, <1>7
  <2>2. i \in S
    BY <2>1
  <2>3. stop <= i
    BY <1>6, <2>2, Zenon
  <2> QED
    BY <1>7, <2>1, <2>3
<1>9. stop # End => ~escaped[stop]
  BY <1>6
<1> HIDE DEF S, stop
<1>10. CASE ~Matches(<<"q">>, stop) \/ invalid # {}
  <2>1. \E to : Return(Token("bad_string", p, to, value))
    BY <1>3, <1>10
  <2> QED
    BY <2>1, PlainReturn
<1>11. CASE Matches(<<"q">>, stop) /\ invalid = {}
  <2>1. stop < End /\ text[stop] = "q"
    BY <1>1, <1>2, <1>7, <1>11, Marks
  <2>2. Return(Token("string", p, stop + 1, value))
    BY <1>3, <1>11
  <2>3. \A i \in p..stop - 1 : escaped[i] => text[i] \in DOMAIN Escape
    BY <1>11
  <2>4. ~escaped[stop]
    BY <1>2, <1>7, <1>9, <2>1
  <2>5. Lexeme(p + 1, stop) \in Writings(value)
    BY <1>1, <1>4, <1>7, <1>8, <2>1, <2>3, <2>4, StringReads, Zenon
  <2> HIDE DEF value
  <2>6. /\ p + 1 \in p..End /\ stop \in p..End /\ stop + 1 \in stop..End /\ stop \in 1..End /\ stop + 1 \in p..End
    BY <1>2, <1>7, <2>1
  <2>7. Lexeme(p, p + 1) = <<"q">> /\ Lexeme(stop, stop + 1) = <<"q">>
    <3>1. Lexeme(p, p + 1) = <<text[p]>>
      BY <1>1, <1>2, ShortLexemes, Zenon
    <3>2. Lexeme(stop, stop + 1) = <<text[stop]>>
      BY <1>1, <2>1, <2>6, ShortLexemes, Zenon
    <3> QED
      BY <1>2, <2>1, <3>1, <3>2
  <2>8. Joined(Lexeme(p, p + 1), Lexeme(p + 1, stop)) = Lexeme(p, stop)
    BY <1>1, <1>7, <2>6, LexemeJoin, Zenon
  <2>9. Joined(Lexeme(p, stop), Lexeme(stop, stop + 1)) = Lexeme(p, stop + 1)
    BY <1>1, <2>6, LexemeJoin, Zenon
  <2> DEFINE s == Lexeme(p, stop + 1)
             t == Token("string", p, stop + 1, value)
  <2>10. \E u \in Writings(value) : s = <<"q">> \o u \o <<"q">>
    <3>1. s = <<"q">> \o Lexeme(p + 1, stop) \o <<"q">>
      BY <2>7, <2>8, <2>9, Zenon DEF Joined
    <3> QED
      BY <2>5, <3>1, Zenon
  <2>11. t.type = "string" /\ t.value = value
    BY DEF Token
  <2> HIDE DEF s, t
  <2>12. ReadsBack(t, s)
    BY <2>10, <2>11 DEF ReadsBack
  <2> QED
    BY <2>2, <2>12, LiteralReturn DEF t, s
<1> QED
  BY <1>10, <1>11

\* Each iteration of the loop of read_next_token keeps the literals.
LEMMA NextLiteral ==
    ASSUME LexInv, LiteralInv, [Next]_vars
    PROVE  LiteralInv'
<1>1. CASE UNCHANGED vars
  BY <1>1, LiteralStep DEF vars
<1>2. CASE Next
  <2>1. PICK p \in 1..End :
          \/ Eof(p) \/ LineComment(p) \/ BlockComment(p) \/ RawString(p)
          \/ Identifier(p) \/ Number(p) \/ String(p) \/ Simple(p)
    BY <1>2, NextAt
  <2>2. CASE Eof(p) \/ LineComment(p) \/ BlockComment(p)
    <3>1. text' = text /\ tokens' = tokens
      BY <2>2 DEF Eof, LineComment, BlockComment, Comment
    <3> QED
      BY <3>1, LiteralStep
  <2>3. CASE Identifier(p)
    <3>1. \E to : Return(MakeIdentifierToken(p, to))
      BY <2>3 DEF Identifier
    <3> QED
      BY <3>1, PlainReturn DEF MakeIdentifierToken
  <2>4. CASE Simple(p)
    <3> DEFINE type == IF text[p] \in Punctuation THEN text[p] ELSE "unknown"
    <3>1. Return(Token(type, p, p + 1, <<>>))
      BY <2>4 DEF Simple
    <3>2. type \notin {"string", "raw_string", "number"}
      BY DEF Punctuation
    <3> QED
      BY <3>1, <3>2, PlainReturn
  <2> QED
    BY <2>1, <2>2, <2>3, <2>4, NumberLiteral, RawLiteral, StringLiteral
<1> QED
  BY <1>1, <1>2

\* read_next_token: a string without an error is one of the ways to write its value, raw
\* or escaped, a raw string and a number can be read back from their tokens, for every
\* text and every width of an int.
THEOREM LiteralsCorrect == Spec => []LiteralsReadBack
<1>1. Init => LiteralInv
  <2> SUFFICES ASSUME Init PROVE LiteralInv
    OBVIOUS
  <2>1. tokens = <<>> /\ tokens \in Seq({}) /\ DOMAIN tokens = {}
    BY DEF Init
  <2> QED
    BY <2>1 DEF LiteralInv
<1>2. LexInv /\ LiteralInv /\ [Next]_vars => LiteralInv'
  BY NextLiteral
<1>3. LiteralInv => LiteralsReadBack
  BY DEF LiteralInv, LiteralsReadBack, ReadsBack
<1> QED
  BY <1>1, <1>2, <1>3, LexInductive, PTL DEF Spec

-----------------------------------------------------------------------------
(* Printing errors *)

\* A line begins at x.
StartsLine(x) == x \in 1..End /\ (x = 1 \/ text[x - 1] = "nl")

\* The sequence b of length n has the beginnings of the lines, from first to last.
AreBreaks(b, n) ==
    /\ n \in Nat /\ n >= 1
    /\ b \in [1..n -> 1..End]
    /\ \A l \in 1..n : StartsLine(b[l])
    /\ \A x \in 1..End : StartsLine(x) => \E l \in 1..n : b[l] = x
    /\ \A l, m \in 1..n : l < m => b[l] < b[m]

\* line_map has all the lines.
LEMMA LineBreaksFacts ==
    ASSUME text \in Seq(Character)
    PROVE  AreBreaks(LineBreaks, Len(LineBreaks)) /\ DOMAIN LineBreaks = 1..Len(LineBreaks)
<1> DEFINE B == {1} \cup {i + 1 : i \in {j \in 1..Len(text) : text[j] = "nl"}}
           b == Ascending(B)
           n == Cardinality(B)
<1>1. End \in Nat /\ End >= 1 /\ Len(text) \in Nat /\ End = Len(text) + 1
  BY EndFacts
<1>2. \A x \in B : StartsLine(x)
  <2>1. StartsLine(1)
    BY <1>1 DEF StartsLine
  <2>2. ASSUME NEW i \in 1..Len(text), text[i] = "nl"
        PROVE  StartsLine(i + 1)
    <3>1. i + 1 \in 1..End /\ (i + 1) - 1 = i
      BY <1>1
    <3> QED
      BY <2>2, <3>1 DEF StartsLine
  <2> QED
    BY <2>1, <2>2
<1>3. ASSUME NEW x \in 1..End, StartsLine(x)
      PROVE  x \in B
  <2>1. CASE x = 1
    BY <2>1
  <2>2. CASE x # 1
    <3>1. x - 1 \in 1..Len(text) /\ text[x - 1] = "nl" /\ (x - 1) + 1 = x
      BY <1>1, <1>3, <2>2 DEF StartsLine
    <3> QED
      BY <3>1
  <2> QED
    BY <2>1, <2>2
<1>4. 1 \in B
  OBVIOUS
<1>5. LineBreaks = b
  BY DEF LineBreaks
<1> HIDE DEF B
<1>6. B \subseteq 1..End
  BY <1>2 DEF StartsLine
<1>7. IsFiniteSet(B) /\ B \subseteq Int
  <2>1. IsFiniteSet(1..End)
    BY <1>1, FS_Interval
  <2>2. \A i \in 1..End : i \in Int
    OBVIOUS
  <2>3. IsFiniteSet(B)
    BY <1>6, <2>1, FS_Subset
  <2> QED
    BY <1>6, <2>2, <2>3
<1>8. /\ n \in Nat /\ b \in [1..n -> B] /\ Len(b) = n
      /\ \A x \in B : \E l \in 1..n : b[l] = x
      /\ \A l, m \in 1..n : l < m => b[l] < b[m]
  BY <1>7, AscendingFacts
<1> HIDE DEF b, n
<1>9. n >= 1
  BY <1>4, <1>8
<1>10. b \in [1..n -> 1..End] /\ \A l \in 1..n : StartsLine(b[l])
  BY <1>2, <1>6, <1>8
<1>11. \A x \in 1..End : StartsLine(x) => \E l \in 1..n : b[l] = x
  BY <1>3, <1>8
<1>12. AreBreaks(b, n)
  BY <1>8, <1>9, <1>10, <1>11 DEF AreBreaks
<1> QED
  BY <1>5, <1>8, <1>12

\* get_position finds the line of a position.
LEMMA LineFacts ==
    ASSUME text \in Seq(Character), NEW p \in 1..End
    PROVE  LET b == LineBreaks
               n == Len(LineBreaks)
           IN  /\ Line(p) \in 1..n /\ b[Line(p)] \in Nat /\ b[Line(p)] >= 1 /\ b[Line(p)] <= p
               /\ Line(p) < n => p < b[Line(p) + 1]
<1> DEFINE b == LineBreaks
           n == Len(LineBreaks)
           S == {l \in 1..n : b[l] <= p}
           l == Line(p)
<1>1. AreBreaks(b, n) /\ l = Max(S)
  BY LineBreaksFacts DEF Line
<1> HIDE DEF b, n, l
<1>2. End \in Nat /\ p \in Nat /\ p >= 1
  BY EndFacts
<1>3. n \in Nat /\ n >= 1 /\ \A k \in 1..n : b[k] \in Nat /\ b[k] >= 1
  BY <1>1, <1>2 DEF AreBreaks
<1>4. \E k \in 1..n : b[k] = 1
  <2>1. StartsLine(1) /\ 1 \in 1..End
    BY EndFacts DEF StartsLine
  <2> QED
    BY <1>1, <2>1 DEF AreBreaks
<1>5. S # {} /\ S \subseteq Nat /\ \A k \in S : k <= n
  BY <1>2, <1>3, <1>4
<1>6. Max(S) \in S /\ \A k \in S : k <= Max(S)
  <2> HIDE DEF S
  <2> QED
    BY <1>3, <1>5, MaxFacts
<1>7. l \in 1..n /\ b[l] \in Nat /\ b[l] >= 1 /\ b[l] <= p
  BY <1>1, <1>3, <1>6
<1>8. l < n => p < b[l + 1]
  <2> SUFFICES ASSUME l < n, ~(p < b[l + 1])
               PROVE  FALSE
    OBVIOUS
  <2>1. l + 1 \in 1..n /\ b[l + 1] \in Nat
    BY <1>3, <1>7
  <2>2. l + 1 \in S
    BY <1>2, <2>1
  <2>3. l + 1 <= l
    BY <1>1, <1>6, <2>2
  <2> QED
    BY <1>7, <2>3
<1> QED
  BY <1>7, <1>8 DEF b, n, l

\* The excerpt of an error is its line, without the newline.
LEMMA ExcerptFacts ==
    ASSUME text \in Seq(Character), NEW p \in 1..End,
           ~(p = End /\ LineBreaks[Len(LineBreaks)] = End /\ End > 1)
    PROVE  LET l == Line(p)
               from == LineBreaks[l]
               to == ExcerptEnd(l)
           IN  /\ from \in Nat /\ to \in Nat /\ from >= 1 /\ from <= p /\ p <= to /\ to <= End
               /\ from = 1 \/ text[from - 1] = "nl"
               /\ \A i \in from..to - 1 : text[i] # "nl"
               /\ to = End \/ text[to] = "nl"
               /\ \A q \in p..End : Line(q) = l => q <= to
<1> DEFINE b == LineBreaks
           n == Len(LineBreaks)
           l == Line(p)
           e == LineEnd(l)
           to == ExcerptEnd(l)
<1>1. /\ AreBreaks(b, n)
      /\ l \in 1..n /\ b[l] \in Nat /\ b[l] >= 1 /\ b[l] <= p
      /\ l < n => p < b[l + 1]
      /\ \A q \in 1..End : Line(q) < n => q < b[Line(q) + 1]
  BY LineBreaksFacts, LineFacts
<1>2. /\ e = IF l < n THEN b[l + 1] ELSE End
      /\ to = IF e > 1 /\ text[e - 1] = "nl" THEN e - 1 ELSE e
      /\ ~(p = End /\ b[n] = End /\ End > 1)
  BY DEF LineEnd, ExcerptEnd
<1>3. End \in Nat /\ End >= 1 /\ p \in Nat /\ n \in Nat /\ l \in Nat
  BY <1>1, EndFacts
<1>4. b[l] = 1 \/ text[b[l] - 1] = "nl"
  BY <1>1 DEF AreBreaks, StartsLine
<1> HIDE DEF b, n, l, e, to
<1>5. \A k \in 1..n : b[k] \in Nat /\ b[k] <= End
  BY <1>1, <1>3 DEF AreBreaks
<1>6. CASE l < n
  <2>1. l + 1 \in 1..n /\ e = b[l + 1] /\ p < e /\ e \in Nat /\ e <= End
    BY <1>1, <1>2, <1>3, <1>5, <1>6
  <2>2. text[e - 1] = "nl" /\ e > 1
    BY <1>1, <1>3, <2>1 DEF AreBreaks, StartsLine
  <2>3. to = e - 1
    BY <1>2, <2>2
  <2>4. ASSUME NEW i \in b[l]..to - 1
        PROVE  text[i] # "nl"
    <3> SUFFICES ASSUME text[i] = "nl" PROVE FALSE
      OBVIOUS
    <3> DEFINE c == b[l]
    <3>1. i \in Nat /\ i >= 1 /\ i + 1 \in 1..End /\ (i + 1) - 1 = i /\ b[l] < i + 1 /\ i + 1 < b[l + 1]
      <4>1. c \in Nat /\ c >= 1
        BY <1>1
      <4>2. i \in c..(e - 1) - 1
        BY <2>3
      <4> HIDE DEF c
      <4>3. i \in Nat /\ i >= 1 /\ i + 1 \in 1..End /\ (i + 1) - 1 = i /\ c < i + 1 /\ i + 1 < e
        BY <1>3, <2>1, <4>1, <4>2
      <4> QED
        BY <2>1, <4>3 DEF c
    <3>2. StartsLine(i + 1)
      BY <3>1 DEF StartsLine
    <3>3. PICK k \in 1..n : b[k] = i + 1
      BY <1>1, <3>1, <3>2 DEF AreBreaks
    <3>4. k = l \/ k < l \/ k = l + 1 \/ l + 1 < k
      BY <1>3
    <3>5. (k < l => b[k] < b[l]) /\ (l + 1 < k => b[l + 1] < b[k])
      BY <1>1, <2>1 DEF AreBreaks
    <3>6. b[k] \in Nat /\ b[l] \in Nat /\ b[l + 1] \in Nat
      BY <1>1, <1>5, <2>1
    <3> QED
      BY <3>1, <3>3, <3>4, <3>5, <3>6
  <2>5. to \in Nat /\ p <= to /\ to <= End /\ text[to] = "nl"
    BY <1>3, <2>1, <2>2, <2>3
  <2>6. ASSUME NEW q \in p..End, Line(q) = l
        PROVE  q <= to
    <3>1. q \in 1..End /\ q \in Nat
      BY <1>3
    <3>2. q < e
      BY <1>1, <1>6, <2>1, <2>6, <3>1
    <3> QED
      BY <2>1, <2>3, <3>1, <3>2
  <2> QED
    BY <1>1, <1>4, <2>4, <2>5, <2>6 DEF b, l, to
<1>7. CASE ~(l < n)
  <2>1. l = n /\ e = End
    BY <1>1, <1>2, <1>3, <1>7
  <2>2. ASSUME NEW i \in b[l]..End - 1
        PROVE  text[i] # "nl"
    <3> SUFFICES ASSUME text[i] = "nl" PROVE FALSE
      OBVIOUS
    <3>1. i \in Nat /\ i >= 1 /\ i + 1 \in 1..End /\ (i + 1) - 1 = i /\ b[n] < i + 1
      BY <1>1, <1>3, <2>1
    <3>2. StartsLine(i + 1)
      BY <3>1 DEF StartsLine
    <3>3. PICK k \in 1..n : b[k] = i + 1
      BY <1>1, <3>1, <3>2 DEF AreBreaks
    <3>4. n \in 1..n /\ (k = n \/ k < n)
      BY <1>1, <1>3, <2>1
    <3>5. k < n => b[k] < b[n]
      BY <1>1, <3>4 DEF AreBreaks
    <3>6. b[k] \in Nat /\ b[n] \in Nat
      BY <1>5, <3>4
    <3> QED
      BY <3>1, <3>3, <3>4, <3>5, <3>6
  <2>3. ~(End > 1 /\ text[End - 1] = "nl")
    <3> SUFFICES ASSUME End > 1, text[End - 1] = "nl" PROVE FALSE
      OBVIOUS
    <3>1. ~(b[l] <= End - 1)
      BY <1>1, <1>3, <2>2
    <3>2. b[n] = End /\ p = End
      BY <1>1, <1>3, <1>5, <2>1, <3>1
    <3> QED
      BY <1>2, <3>2
  <2>4. to = End
    BY <1>2, <2>1, <2>3
  <2>5. p <= End /\ End <= End /\ \A q \in p..End : q <= End
    BY <1>3
  <2> QED
    BY <1>1, <1>3, <1>4, <2>2, <2>4, <2>5 DEF b, l, to
<1> QED
  BY <1>6, <1>7

\* print_error: what is printed for an error points at it.
LEMMA PrintsWell ==
    ASSUME LexInv
    PROVE  PointsAtError
<1> SUFFICES ASSUME NEW error \in ToSet(errors), ~OnEmptyLastLine(error)
             PROVE  LET e == Excerpt(error) IN
                    /\ e.from + e.spaces = error[1]
                    /\ \A i \in e.from..e.to - 1 : text[i] # "nl"
                    /\ e.to = End \/ text[e.to] = "nl"
                    /\ e.from = 1 \/ text[e.from - 1] = "nl"
                    /\ e.marks > 0
                    /\ error[1] < error[2] =>
                         /\ e.from + e.spaces + e.marks \in {error[2], e.to}
                         /\ e.from + e.spaces + e.marks <= e.to
  BY DEF PointsAtError
<1> DEFINE p == error[1]
           q == error[2]
           l == Line(p)
           from == LineBreaks[l]
           to == ExcerptEnd(l)
           marks == CASE p = q -> 1
                      [] p # q /\ Line(q) = l -> Column(q) - Column(p)
                      [] OTHER -> (to - from) - Column(p)
<1>1. text \in Seq(Character) /\ error \in ErrorRanges /\ End \in Nat /\ End >= 1
  BY EndFacts DEF LexInv, ToSet
<1>2. /\ p \in 1..End /\ q \in 1..End
      /\ \/ p = q
         \/ p < q /\ text[p] # "nl"
  <2>1. CASE error = <<End, End>>
    BY <1>1, <2>1
  <2>2. CASE error # <<End, End>>
    BY <1>1, <2>2 DEF ErrorRanges
  <2> QED
    BY <2>1, <2>2
<1>3. ~(p = End /\ LineBreaks[Len(LineBreaks)] = End /\ End > 1)
  BY DEF OnEmptyLastLine
<1>4. Excerpt(error) = [from |-> from, to |-> to, spaces |-> Column(p), marks |-> marks]
  BY DEF Excerpt
<1>5. Column(p) = p - from /\ Column(q) = q - LineBreaks[Line(q)]
  BY DEF Column
<1> HIDE DEF p, q, l, from, to
<1>6. /\ from \in Nat /\ to \in Nat /\ from >= 1 /\ from <= p /\ p <= to /\ to <= End
      /\ from = 1 \/ text[from - 1] = "nl"
      /\ \A i \in from..to - 1 : text[i] # "nl"
      /\ to = End \/ text[to] = "nl"
      /\ \A r \in p..End : Line(r) = l => r <= to
  BY <1>1, <1>2, <1>3, ExcerptFacts DEF l, from, to
<1>7. p \in Nat /\ q \in Nat /\ p >= 1
  BY <1>1, <1>2
<1>8. /\ p = q => marks = 1
      /\ p # q /\ Line(q) = l => marks = q - p
      /\ p # q /\ Line(q) # l => marks = to - p
  <2>1. p = q => marks = 1
    OBVIOUS
  <2>2. p # q /\ Line(q) = l => marks = Column(q) - Column(p) /\ LineBreaks[Line(q)] = from
    BY DEF from, l
  <2>3. p # q /\ Line(q) # l => marks = (to - from) - Column(p)
    OBVIOUS
  <2> HIDE DEF marks
  <2>4. (to - from) - (p - from) = to - p /\ (q - from) - (p - from) = q - p
    BY <1>6, <1>7
  <2> QED
    BY <1>5, <2>1, <2>2, <2>3, <2>4
<1> HIDE DEF marks
<1>9. from + (p - from) = p /\ p + (q - p) = q /\ p + (to - p) = to
  BY <1>6, <1>7
<1>10. CASE p = q
  BY <1>4, <1>5, <1>6, <1>7, <1>8, <1>9, <1>10 DEF p, q
<1>11. CASE p < q /\ text[p] # "nl"
  <2>1. p # q /\ q \in p..End
    BY <1>1, <1>2, <1>7, <1>11
  <2>2. p < to
    BY <1>1, <1>2, <1>6, <1>7, <1>11
  <2>3. CASE Line(q) = l
    <3>1. marks = q - p /\ q <= to /\ q - p > 0
      BY <1>6, <1>7, <1>8, <1>11, <2>1, <2>3
    <3> QED
      BY <1>4, <1>5, <1>6, <1>9, <3>1 DEF p, q
  <2>4. CASE Line(q) # l
    <3>1. marks = to - p /\ to - p > 0 /\ to <= to
      BY <1>6, <1>7, <1>8, <2>1, <2>2, <2>4
    <3> QED
      BY <1>4, <1>5, <1>6, <1>9, <3>1 DEF p, q
  <2> QED
    BY <2>3, <2>4
<1> QED
  BY <1>2, <1>10, <1>11

\* Every error of the lexer, in every text, is printed with the right line and marked
\* where it is; the one that cannot be printed is on an empty last line.
THEOREM ErrorsPointed == Spec => []PointsAtError
  BY PrintsWell, LexInductive, PTL

-----------------------------------------------------------------------------
(* The parser *)

Places == Nat \ {0}
Cursors == [pos : Places, errors : Seq(Places), lastErrorPlace : Nat]

Increasing(s) == \A i \in 2..Len(s) : s[i - 1] < s[i]

\* Errors are reported in the order of the file and last_error_place is the last one; the
\* parser is there or beyond it.  Without the latter two, a place that is reported could
\* lie before an earlier one.
CursorOK(c) ==
    /\ c \in Cursors
    /\ c.lastErrorPlace = IF c.errors = <<>> THEN 0 ELSE c.errors[Len(c.errors)]
    /\ c.lastErrorPlace <= c.pos
    /\ Increasing(c.errors)

\* What the methods of parser_context that move and report keep.
LEMMA AdvanceOK == ASSUME NEW c, CursorOK(c) PROVE CursorOK(Advance(c))
<1>1. CASE TT(c) = "eof"
  BY <1>1 DEF Advance
<1>2. CASE TT(c) # "eof"
  <2> DEFINE d == [c EXCEPT !.pos = @ + 1]
  <2>1. c \in Cursors /\ Advance(c) = d
    BY <1>2 DEF Advance, CursorOK
  <2>2. /\ d \in Cursors /\ d.pos = c.pos + 1 /\ d.errors = c.errors /\ d.lastErrorPlace = c.lastErrorPlace
        /\ c.pos \in Nat /\ c.lastErrorPlace \in Nat
    BY <2>1 DEF Cursors, Places
  <2> HIDE DEF d
  <2>3. d.lastErrorPlace <= d.pos
    BY <2>2 DEF CursorOK
  <2>4. CursorOK(d)
    BY <2>2, <2>3 DEF CursorOK
  <2> QED
    BY <2>1, <2>4
<1> QED
  BY <1>1, <1>2

\* An error is reported at a place that is beyond the last one.
LEMMA ErrorOK == ASSUME NEW c, CursorOK(c) PROVE CursorOK(Error(c))
<1>1. CASE c.lastErrorPlace = c.pos
  BY <1>1 DEF Error
<1>2. CASE c.lastErrorPlace # c.pos
  <2> DEFINE p == c.pos
             s == c.errors
             t == Append(s, p)
             n == Len(s)
             d == [c EXCEPT !.errors = t, !.lastErrorPlace = p]
  <2>1. c \in Cursors /\ Error(c) = d
    BY <1>2 DEF Error, CursorOK
  <2>2. p \in Places /\ s \in Seq(Places) /\ c.lastErrorPlace \in Nat
    BY <2>1 DEF Cursors
  <2>3. /\ t \in Seq(Places) /\ t # <<>> /\ Len(t) = n + 1 /\ t[n + 1] = p /\ n \in Nat
        /\ \A i \in 1..n : t[i] = s[i] /\ s[i] \in Places
    BY <2>2, AppendProperties, ElementOfSeq, LenProperties
  <2>4. c.lastErrorPlace < p
    BY <1>2, <2>2 DEF CursorOK, Places
  <2>5. n > 0 => s[n] < p
    <3>1. n > 0 => s # <<>>
      BY <2>2
    <3> QED
      BY <2>4, <3>1 DEF CursorOK
  <2>6. \A i \in 2..n : s[i - 1] < s[i]
    BY DEF CursorOK, Increasing
  <2>7. d \in Cursors /\ d.errors = t /\ d.lastErrorPlace = p /\ d.pos = p
    <3> HIDE DEF t
    <3> QED
      BY <2>1, <2>2, <2>3 DEF Cursors, Places
  <2> HIDE DEF t, s, n, d, p
  <2>8. Increasing(t)
    <3> SUFFICES ASSUME NEW i \in 2..(n + 1) PROVE t[i - 1] < t[i]
      BY <2>3 DEF Increasing
    <3>1. CASE i = n + 1
      <4>1. t[i] = p /\ i - 1 = n /\ n \in 1..n
        BY <2>3, <3>1
      <4>2. t[i - 1] = s[n] /\ s[n] < p
        BY <2>3, <2>5, <4>1
      <4> QED
        BY <4>1, <4>2
    <3>2. CASE i # n + 1
      <4>1. i \in 2..n /\ i \in 1..n /\ i - 1 \in 1..n
        BY <2>3, <3>2
      <4> QED
        BY <2>3, <2>6, <4>1
    <3> QED
      BY <3>1, <3>2
  <2>9. p <= p
    BY <2>2 DEF Places
  <2>10. CursorOK(d)
    BY <2>3, <2>7, <2>8, <2>9 DEF CursorOK
  <2> QED
    BY <2>1, <2>10
<1> QED
  BY <1>1, <1>2

\* expect_token advances or reports.
LEMMA ExpectOK == ASSUME NEW c, CursorOK(c), NEW type PROVE CursorOK(Expect(c, type))
  BY AdvanceOK, ErrorOK DEF Expect

-----------------------------------------------------------------------------
(* Theorems *)

\* Every function of the parser keeps the cursor and the errors in order.
THEOREM CursorInductive == ParserSpec => []CursorOK(cursor)
<1>1. ParserInit => CursorOK(cursor)
  <2> SUFFICES ASSUME ParserInit PROVE CursorOK(cursor)
    OBVIOUS
  <2>1. cursor = [pos |-> 1, errors |-> <<>>, lastErrorPlace |-> 0]
    BY DEF ParserInit
  <2>2. <<>> \in Seq(Places)
    BY EmptySeq
  <2> QED
    BY <2>1, <2>2 DEF CursorOK, Cursors, Places, Increasing
<1>2. CursorOK(cursor) /\ [ParserNext]_parserVars => CursorOK(cursor)'
  <2> SUFFICES ASSUME CursorOK(cursor), [ParserNext]_parserVars PROVE CursorOK(cursor')
    OBVIOUS
  <2> USE AdvanceOK, ErrorOK, ExpectOK
  <2>1. CASE UNCHANGED parserVars \/ EndOfFile \/ ReturnNode
    BY <2>1 DEF parserVars, EndOfFile, ReturnNode
  <2>2. ASSUME NEW token, NEW fn, Declaration(token, fn) PROVE CursorOK(cursor')
    BY <2>2 DEF Declaration
  <2>3. CASE ExpectedDeclaration
    BY <2>3 DEF ExpectedDeclaration
  <2>4. ASSUME NEW type, ExpectToken(type) PROVE CursorOK(cursor')
    BY <2>4 DEF ExpectToken
  <2>5. CASE ParseValue
    BY <2>5 DEF ParseValue, NoValue
  <2>6. CASE ParseProperties
    BY <2>6 DEF ParseProperties
  <2>7. CASE AfterProperty
    BY <2>7 DEF AfterProperty
  <2>8. CASE ParseNames
    <3> DEFINE id == Expect(cursor, "identifier")
    <3>1. cursor' \in {Advance(id), id, Error(id)}
      BY <2>8 DEF ParseNames
    <3>2. CursorOK(id)
      OBVIOUS
    <3> HIDE DEF id
    <3> QED
      BY <3>1, <3>2
  <2> QED
    BY <2>1, <2>2, <2>3, <2>4, <2>5, <2>6, <2>7, <2>8 DEF ParserNext
<1> QED
  BY <1>1, <1>2, PTL DEF ParserSpec

\* No place of any file is reported twice, and places are reported in the order of the file.
THEOREM ErrorsCorrect == ParserSpec => []OneErrorPerPlace
<1>1. CursorOK(cursor) => OneErrorPerPlace
  BY DEF CursorOK, Increasing, OneErrorPerPlace
<1> QED
  BY <1>1, CursorInductive, PTL

-----------------------------------------------------------------------------
(* The parser and the grammar.  Parts of sequences *)
-----------------------------------------------------------------------------
(* Parts of a sequence *)

\* From a up to, and without, b.
Cut(s, a, b) == SubSeq(s, a, b - 1)

\* What a part of a sequence consists of.
LEMMA CutFacts ==
    ASSUME NEW W, NEW s \in Seq(W), NEW a \in 1..Len(s) + 1, NEW b \in a..Len(s) + 1
    PROVE  /\ Cut(s, a, b) \in Seq(W) /\ Len(Cut(s, a, b)) = b - a
           /\ \A i \in 1..b - a : Cut(s, a, b)[i] = s[a + i - 1]
<1> DEFINE m == b - 1
           u == SubSeq(s, a, m)
           n == Len(s)
<1>1. n \in Nat /\ a \in Nat /\ b \in Nat /\ a >= 1 /\ a <= b /\ b <= n + 1 /\ m \in Int /\ m - a + 1 = b - a /\ m = b - 1
  OBVIOUS
<1>2. u = Cut(s, a, b)
  BY DEF Cut
<1>3. \A i \in a..m : s[i] \in W
  <2>1. ASSUME NEW i \in a..m
        PROVE  i \in 1..n
    BY <1>1
  <2> QED
    BY <2>1, ElementOfSeq
<1>4. u \in Seq(W) /\ Len(u) = (IF a <= m THEN m - a + 1 ELSE 0) /\ \A i \in 1..(m - a + 1) : u[i] = s[a + i - 1]
  <2> HIDE DEF m
  <2> QED
    BY <1>1, <1>3, SubSeqProperties
<1>5. Len(u) = b - a
  <2> HIDE DEF m, u
  <2> QED
    BY <1>1, <1>4
<1> HIDE DEF m, u
<1> QED
  BY <1>1, <1>2, <1>4, <1>5

\* Neighbouring parts.
LEMMA CutJoin ==
    ASSUME NEW W, NEW s \in Seq(W), NEW a \in 1..Len(s) + 1, NEW b \in a..Len(s) + 1, NEW c \in b..Len(s) + 1
    PROVE  Joined(Cut(s, a, b), Cut(s, b, c)) = Cut(s, a, c)
<1>1. /\ a \in Nat /\ b \in Nat /\ c \in Nat /\ b \in 1..Len(s) + 1 /\ c \in a..Len(s) + 1 /\ Len(s) \in Nat
      /\ b - a \in Nat /\ c - b \in Nat /\ c - a = (b - a) + (c - b)
  OBVIOUS
<1>2. PICK u : u = Cut(s, a, b)
  OBVIOUS
<1>3. PICK v : v = Cut(s, b, c)
  OBVIOUS
<1>4. PICK w : w = Cut(s, a, c)
  OBVIOUS
<1>5. u \in Seq(W) /\ Len(u) = b - a /\ \A i \in 1..b - a : u[i] = s[a + i - 1]
  BY <1>2, CutFacts, Zenon
<1>6. v \in Seq(W) /\ Len(v) = c - b /\ \A i \in 1..c - b : v[i] = s[b + i - 1]
  BY <1>1, <1>3, CutFacts, Zenon
<1>7. w \in Seq(W) /\ Len(w) = c - a /\ \A i \in 1..c - a : w[i] = s[a + i - 1]
  BY <1>1, <1>4, CutFacts, Zenon
<1> DEFINE j == u \o v
<1>8. /\ j \in Seq(W) /\ Len(j) = Len(u) + Len(v)
      /\ \A i \in 1..Len(u) + Len(v) : j[i] = IF i <= Len(u) THEN u[i] ELSE v[i - Len(u)]
  BY <1>5, <1>6, ConcatProperties
<1> HIDE DEF j
<1>9. Len(j) = Len(w)
  BY <1>1, <1>5, <1>6, <1>7, <1>8
<1>10. ASSUME NEW i \in 1..Len(j)
       PROVE  j[i] = w[i]
  <2>1. i \in 1..(b - a) + (c - b) /\ i \in 1..c - a
    BY <1>1, <1>5, <1>6, <1>8
  <2>2. w[i] = s[a + i - 1]
    BY <1>7, <2>1
  <2>3. CASE i <= b - a
    <3>1. i \in 1..b - a
      BY <1>1, <2>1, <2>3
    <3> QED
      BY <1>5, <1>6, <1>8, <2>1, <2>2, <2>3, <3>1
  <2>4. CASE i > b - a
    <3>1. i - (b - a) \in 1..c - b /\ b + (i - (b - a)) - 1 = a + i - 1 /\ ~(i <= b - a)
      BY <1>1, <2>1, <2>4
    <3>2. v[i - (b - a)] = s[a + i - 1]
      BY <1>6, <3>1
    <3> QED
      BY <1>5, <1>6, <1>8, <2>1, <2>2, <3>1, <3>2
  <2> QED
    BY <1>1, <2>1, <2>3, <2>4
<1>11. j = w
  BY <1>7, <1>8, <1>9, <1>10, SeqEqual
<1> QED
  BY <1>2, <1>3, <1>4, <1>11 DEF Joined, j

\* No element, one and two.
LEMMA ShortCuts ==
    ASSUME NEW W, NEW s \in Seq(W), NEW a \in 1..Len(s) + 1
    PROVE  /\ Cut(s, a, a) = <<>>
           /\ a <= Len(s) => Cut(s, a, a + 1) = <<s[a]>>
           /\ a < Len(s) => Cut(s, a, a + 2) = <<s[a], s[a + 1]>>
<1>1. a \in Nat /\ Len(s) \in Nat /\ a - a = 0 /\ (a + 1) - a = 1 /\ (a + 2) - a = 2 /\ a \in a..Len(s) + 1
  OBVIOUS
<1>2. Cut(s, a, a) = <<>>
  <2>1. ASSUME NEW e \in a..Len(s) + 1 PROVE Cut(s, a, e) \in Seq(W) /\ Len(Cut(s, a, e)) = e - a
    BY CutFacts, Zenon
  <2>2. Cut(s, a, a) \in Seq(W) /\ Len(Cut(s, a, a)) = a - a
    BY <1>1, <2>1, Zenon
  <2> QED
    BY <1>1, <2>2, EmptySeq
<1>3. ASSUME a <= Len(s)
      PROVE  Cut(s, a, a + 1) = <<s[a]>>
  <2>1. a + 1 \in a..Len(s) + 1 /\ 1 \in 1..(a + 1) - a /\ a + 1 - 1 = a
    BY <1>1, <1>3
  <2>2. PICK u : u = Cut(s, a, a + 1)
    OBVIOUS
  <2>3. u \in Seq(W) /\ Len(u) = (a + 1) - a /\ \A i \in 1..(a + 1) - a : u[i] = s[a + i - 1]
    BY <2>1, <2>2, CutFacts, Zenon
  <2>4. u \in Seq(W) /\ Len(u) = 1 /\ u[1] = s[a]
    BY <1>1, <2>1, <2>3
  <2>5. u = <<s[a]>>
    BY <2>4
  <2> QED
    BY <2>2, <2>5
<1>4. ASSUME a < Len(s)
      PROVE  Cut(s, a, a + 2) = <<s[a], s[a + 1]>>
  <2>1. a + 2 \in a..Len(s) + 1 /\ 1 \in 1..(a + 2) - a /\ 2 \in 1..(a + 2) - a /\ a + 1 - 1 = a /\ a + 2 - 1 = a + 1
    BY <1>1, <1>4
  <2>2. PICK u : u = Cut(s, a, a + 2)
    OBVIOUS
  <2>3. u \in Seq(W) /\ Len(u) = (a + 2) - a /\ \A i \in 1..(a + 2) - a : u[i] = s[a + i - 1]
    BY <2>1, <2>2, CutFacts, Zenon
  <2>4. u \in Seq(W) /\ Len(u) = 2 /\ u[1] = s[a] /\ u[2] = s[a + 1]
    BY <1>1, <2>1, <2>3
  <2>5. u = <<s[a], s[a + 1]>>
    BY <2>4
  <2> QED
    BY <2>2, <2>5
<1> QED
  BY <1>2, <1>3, <1>4

-----------------------------------------------------------------------------
(* Concatenations *)
-----------------------------------------------------------------------------
(* The grammar *)

\* A sequence is one of the concatenations if it consists of an element of each set.
LEMMA ConcatenationsAre ==
    ASSUME NEW W, NEW sets \in Seq(SUBSET Seq(W)), NEW r
    PROVE  r \in Concatenations(sets) <=>
             \E q \in Seq(Seq(W)) : /\ Len(q) = Len(sets) /\ r = FlattenSeq(q)
                                    /\ \A k \in 1..Len(sets) : q[k] \in sets[k]
<1> DEFINE n == Len(sets)
           U == UNION ToSet(sets)
           C == {f \in [DOMAIN sets -> U] : \A k \in DOMAIN sets : f[k] \in sets[k]}
<1>1. n \in Nat /\ DOMAIN sets = 1..n /\ \A k \in 1..n : sets[k] \subseteq Seq(W)
  BY ElementOfSeq, LenProperties
<1>2. Concatenations(sets) = {FlattenSeq(f) : f \in C}
  BY DEF Concatenations
<1>3. \A k \in 1..n : sets[k] \subseteq U
  BY <1>1 DEF ToSet
<1> HIDE DEF U
<1>4. ASSUME NEW f \in C
      PROVE  f \in Seq(Seq(W)) /\ Len(f) = n /\ \A k \in 1..n : f[k] \in sets[k]
  <2>1. f \in [1..n -> U] /\ \A k \in 1..n : f[k] \in sets[k]
    BY <1>1
  <2> DEFINE V == Seq(W)
  <2>2. \A k \in 1..n : f[k] \in V
    BY <1>1, <2>1
  <2> HIDE DEF V, C, n
  <2>3. f \in [1..n -> V]
    BY <2>1, <2>2
  <2>4. f \in Seq(V) /\ Len(f) = n
    BY <1>1, <2>3
  <2> QED
    BY <2>1, <2>4 DEF V
<1>5. ASSUME NEW q \in Seq(Seq(W)), Len(q) = n, \A k \in 1..n : q[k] \in sets[k]
      PROVE  q \in C
  <2> DEFINE V == Seq(W)
  <2>1. q \in [1..n -> V]
    <3> HIDE DEF V
    <3>1. q \in Seq(V)
      BY DEF V
    <3> QED
      BY <1>5, <3>1
  <2>2. q \in [1..n -> U]
    BY <1>3, <1>5, <2>1
  <2> QED
    BY <1>1, <1>5, <2>2
<1> HIDE DEF C
<1>6. r \in Concatenations(sets) <=> \E f \in C : r = FlattenSeq(f)
  BY <1>2
<1>7. ASSUME NEW f \in C, r = FlattenSeq(f)
      PROVE  \E q \in Seq(Seq(W)) : /\ Len(q) = n /\ r = FlattenSeq(q)
                                    /\ \A k \in 1..n : q[k] \in sets[k]
  BY <1>4, <1>7, Zenon
<1>8. ASSUME NEW q \in Seq(Seq(W)), Len(q) = n, r = FlattenSeq(q), \A k \in 1..n : q[k] \in sets[k]
      PROVE  \E f \in C : r = FlattenSeq(f)
  BY <1>5, <1>8, Zenon
<1> QED
  BY <1>6, <1>7, <1>8, Zenon

\* One more set.
LEMMA ConcatenationsAppend ==
    ASSUME NEW W, NEW sets \in Seq(SUBSET Seq(W)), NEW A \in SUBSET Seq(W), NEW r \in Concatenations(sets), NEW f \in A
    PROVE  Joined(r, f) \in Concatenations(Append(sets, A))
<1> DEFINE n == Len(sets)
           more == Append(sets, A)
<1>1. PICK q \in Seq(Seq(W)) : Len(q) = n /\ r = FlattenSeq(q) /\ \A k \in 1..n : q[k] \in sets[k]
  BY ConcatenationsAre, Zenon
<1>2. f \in Seq(W) /\ n \in Nat
  OBVIOUS
<1> DEFINE p == Append(q, f)
<1>3. p \in Seq(Seq(W)) /\ Len(p) = n + 1 /\ p[n + 1] = f /\ \A k \in 1..n : p[k] = q[k]
  <2>1. PICK V : V = Seq(W)
    OBVIOUS
  <2>2. q \in Seq(V) /\ f \in V
    BY <1>2, <2>1
  <2>3. p \in Seq(V) /\ Len(p) = n + 1 /\ p[n + 1] = f /\ \A k \in 1..n : p[k] = q[k]
    BY <1>1, <2>2, AppendProperties
  <2> QED
    BY <2>1, <2>3
<1>4. more \in Seq(SUBSET Seq(W)) /\ Len(more) = n + 1 /\ more[n + 1] = A /\ \A k \in 1..n : more[k] = sets[k]
  <2>1. PICK V : V = SUBSET Seq(W)
    OBVIOUS
  <2>2. sets \in Seq(V) /\ A \in V
    BY <2>1
  <2>3. more \in Seq(V) /\ Len(more) = n + 1 /\ more[n + 1] = A /\ \A k \in 1..n : more[k] = sets[k]
    BY <2>2, AppendProperties
  <2> QED
    BY <2>1, <2>3
<1>5. FlattenSeq(p) = Joined(r, f)
  BY <1>1, <1>2, FlattenAppend
<1> HIDE DEF p, more
<1>6. ASSUME NEW k \in 1..n + 1 PROVE p[k] \in more[k]
  <2>1. CASE k = n + 1
    BY <1>3, <1>4, <2>1
  <2>2. CASE k # n + 1
    <3>1. k \in 1..n
      BY <1>2, <2>2
    <3> QED
      BY <1>1, <1>3, <1>4, <3>1
  <2> QED
    BY <2>1, <2>2
<1>7. Len(p) = Len(more) /\ Joined(r, f) = FlattenSeq(p) /\ \A k \in 1..Len(more) : p[k] \in more[k]
  BY <1>3, <1>4, <1>5, <1>6
<1>8. Joined(r, f) \in Concatenations(more)
  BY <1>3, <1>4, <1>7, ConcatenationsAre, Zenon
<1> QED
  BY <1>8 DEF more

\* The concatenation of nothing, and the type of the others.
LEMMA ConcatenationsType ==
    ASSUME NEW W, NEW sets \in Seq(SUBSET Seq(W))
    PROVE  /\ Concatenations(sets) \in SUBSET Seq(W)
           /\ sets = <<>> => Concatenations(sets) = {<<>>}
<1>1. ASSUME NEW r \in Concatenations(sets)
      PROVE  r \in Seq(W)
  <2>1. PICK q \in Seq(Seq(W)) : Len(q) = Len(sets) /\ r = FlattenSeq(q) /\ \A k \in 1..Len(sets) : q[k] \in sets[k]
    BY ConcatenationsAre, Zenon
  <2> QED
    BY <2>1, FlattenElements
<1>2. ASSUME sets = <<>>
      PROVE  Concatenations(sets) = {<<>>}
  <2>1. Len(sets) = 0 /\ <<>> \in Seq(Seq(W)) /\ Len(<<>>) = 0 /\ 1..0 = {}
    BY <1>2
  <2>2. FlattenSeq(<<>>) = <<>>
    BY DEF FlattenSeq
  <2>3. <<>> \in Concatenations(sets)
    <3>1. Len(<<>>) = Len(sets) /\ <<>> = FlattenSeq(<<>>) /\ \A k \in 1..Len(sets) : <<>>[k] \in sets[k]
      BY <2>1, <2>2
    <3> QED
      BY <2>1, <3>1, ConcatenationsAre, Zenon
  <2>4. ASSUME NEW r \in Concatenations(sets)
        PROVE  r = <<>>
    <3>1. PICK q \in Seq(Seq(W)) : Len(q) = Len(sets) /\ r = FlattenSeq(q) /\ \A k \in 1..Len(sets) : q[k] \in sets[k]
      BY ConcatenationsAre, Zenon
    <3>2. q = <<>>
      BY <2>1, <3>1, EmptySeq
    <3> QED
      BY <2>2, <3>1, <3>2
  <2> QED
    BY <2>3, <2>4
<1> QED
  BY <1>1, <1>2

-----------------------------------------------------------------------------
(* The levels of forms *)
\* A function, element by element.
Mapped(s, h) == [k \in DOMAIN s |-> h[s[k]]]

\* A function is defined on X with values in Y.
Maps(h, X, Y) == \A x \in X : h[x] \in Y

\* One more element.
LEMMA MappedAppend ==
    ASSUME NEW X, NEW Y, NEW h, Maps(h, X, Y), NEW s \in Seq(X), NEW x \in X
    PROVE  /\ Mapped(s, h) \in Seq(Y) /\ Len(Mapped(s, h)) = Len(s) /\ DOMAIN Mapped(s, h) = 1..Len(s)
           /\ \A k \in 1..Len(s) : Mapped(s, h)[k] = h[s[k]]
           /\ Mapped(Append(s, x), h) = Append(Mapped(s, h), h[x])
<1> DEFINE n == Len(s)
           t == Append(s, x)
           a == Mapped(s, h)
           b == Mapped(t, h)
           c == Append(a, h[x])
<1>1. n \in Nat /\ DOMAIN s = 1..n /\ \A k \in 1..n : s[k] \in X
  BY ElementOfSeq, LenProperties
<1>2. t \in Seq(X) /\ DOMAIN t = 1..n + 1 /\ t[n + 1] = x /\ \A k \in 1..n : t[k] = s[k]
  BY AppendProperties
<1>3. \A k \in 1..n + 1 : t[k] \in X
  BY <1>1, <1>2
<1>4. a = [k \in 1..n |-> h[s[k]]] /\ b = [k \in 1..n + 1 |-> h[t[k]]]
  BY <1>1, <1>2, Zenon DEF Mapped
<1> HIDE DEF n, t, a, b
<1>5. a \in [1..n -> Y] /\ \A k \in 1..n : a[k] = h[s[k]]
  BY <1>1, <1>4 DEF Maps
<1>6. b \in [1..n + 1 -> Y] /\ \A k \in 1..n + 1 : b[k] = h[t[k]]
  BY <1>3, <1>4 DEF Maps
<1>7. a \in Seq(Y) /\ Len(a) = n /\ DOMAIN a = 1..n
  BY <1>1, <1>5
<1>8. b \in Seq(Y) /\ Len(b) = n + 1
  BY <1>1, <1>6
<1>9. c \in Seq(Y) /\ Len(c) = n + 1 /\ c[n + 1] = h[x] /\ \A k \in 1..n : c[k] = a[k]
  BY <1>7, AppendProperties DEF Maps
<1> HIDE DEF c
<1>10. ASSUME NEW k \in 1..n + 1 PROVE b[k] = c[k]
  <2>1. CASE k = n + 1
    BY <1>2, <1>6, <1>9, <2>1
  <2>2. CASE k # n + 1
    <3>1. k \in 1..n
      BY <1>1, <2>2
    <3>2. c[k] = h[s[k]]
      BY <1>5, <1>9, <3>1
    <3>3. b[k] = h[t[k]] /\ t[k] = s[k]
      BY <1>2, <1>6, <3>1
    <3> QED
      BY <3>2, <3>3
  <2> QED
    BY <2>1, <2>2
<1>11. b = c
  BY <1>8, <1>9, <1>10, SeqEqual
<1> QED
  BY <1>5, <1>7, <1>11 DEF a, b, c, n, t

\* The recursive function of FormsTo.
Levels(depth) == CHOOSE forms : forms = [d \in 0..depth |-> IF d = 0 THEN <<>> ELSE Deeper(forms[d - 1])]

\* It exists.
LEMMA LevelsFacts ==
    ASSUME NEW depth \in Nat
    PROVE  /\ FormsTo(depth) = Levels(depth)[depth] /\ Levels(depth)[0] = <<>>
           /\ \A d \in 1..depth : Levels(depth)[d] = Deeper(Levels(depth)[d - 1])
<1> DEFINE Is(f, n) == f = [d \in 0..n |-> IF d = 0 THEN <<>> ELSE Deeper(f[d - 1])]
           S == {n \in 0..depth : \E f : Is(f, n)}
<1>1. 0 \in S
  <2> DEFINE f == [d \in 0..0 |-> <<>>]
  <2>1. \A d \in 0..0 : <<>> = IF d = 0 THEN <<>> ELSE Deeper(f[d - 1])
    OBVIOUS
  <2>2. f = [d \in 0..0 |-> IF d = 0 THEN <<>> ELSE Deeper(f[d - 1])]
    BY <2>1, Zenon
  <2>3. Is(f, 0) /\ 0 \in 0..depth
    BY <2>2
  <2> HIDE DEF Is, f
  <2> QED
    BY <2>3, Zenon
<1>2. ASSUME NEW n \in 0..(depth - 1), n \in S
      PROVE  n + 1 \in S
  <2>1. PICK f : Is(f, n)
    BY <1>2
  <2> DEFINE m == n + 1
             g == [d \in 0..m |-> IF d = m THEN Deeper(f[n]) ELSE f[d]]
  <2>2. n \in Nat /\ m \in 0..depth /\ m - 1 = n
    OBVIOUS
  <2>3. ASSUME NEW d \in 0..m
        PROVE  g[d] = IF d = 0 THEN <<>> ELSE Deeper(g[d - 1])
    <3>1. CASE d = m
      <4>1. d # 0 /\ d - 1 = n /\ n \in 0..m /\ n # m
        BY <2>2, <3>1
      <4>2. g[d] = Deeper(f[n]) /\ g[n] = f[n]
        BY <3>1, <4>1, Zenon
      <4> QED
        BY <4>1, <4>2, Zenon
    <3>2. CASE d # m /\ d # 0
      <4>1. d \in 0..n /\ d - 1 \in 0..m /\ d - 1 # m
        BY <2>2, <3>2
      <4>2. g[d] = f[d] /\ g[d - 1] = f[d - 1]
        BY <3>2, <4>1, Zenon
      <4>3. f[d] = Deeper(f[d - 1])
        BY <2>1, <3>2, <4>1, Zenon
      <4> QED
        BY <3>2, <4>2, <4>3, Zenon
    <3>3. CASE d # m /\ d = 0
      <4>1. d \in 0..n
        BY <2>2, <3>3
      <4>2. g[d] = f[d] /\ f[d] = <<>>
        BY <2>1, <3>3, <4>1, Zenon
      <4> QED
        BY <3>3, <4>2, Zenon
    <3> QED
      BY <3>1, <3>2, <3>3
  <2>4. Is(g, m)
    <3>1. g = [d \in 0..m |-> g[d]]
      OBVIOUS
    <3> HIDE DEF g
    <3>2. [d \in 0..m |-> g[d]] = [d \in 0..m |-> IF d = 0 THEN <<>> ELSE Deeper(g[d - 1])]
      BY <2>3, Zenon
    <3> QED
      BY <3>1, <3>2, Zenon
  <2> HIDE DEF Is, g, m
  <2>5. m \in S
    BY <2>2, <2>4, Zenon
  <2> QED
    BY <2>5 DEF m
<1>3. depth \in S
  <2> HIDE DEF S
  <2>1. 0..depth \subseteq S
    BY <1>1, <1>2, SetInduction
  <2> QED
    BY <2>1
<1>4. Levels(depth) = CHOOSE f : Is(f, depth)
  BY Zenon DEF Levels
<1>5. Is(Levels(depth), depth)
  <2> HIDE DEF Is
  <2>1. \E f : Is(f, depth)
    BY <1>3, Zenon
  <2> QED
    BY <1>4, <2>1, Zenon
<1>6. FormsTo(depth) = Levels(depth)[depth]
  BY Zenon DEF FormsTo, Levels
<1>7. \A d \in 0..depth : Levels(depth)[d] = IF d = 0 THEN <<>> ELSE Deeper(Levels(depth)[d - 1])
  BY <1>5, Zenon
<1>8. Levels(depth)[0] = <<>>
  <2>1. 0 \in 0..depth
    OBVIOUS
  <2> QED
    BY <1>7, <2>1, Zenon
<1>9. ASSUME NEW d \in 1..depth PROVE Levels(depth)[d] = Deeper(Levels(depth)[d - 1])
  <2>1. d \in 0..depth /\ d # 0
    OBVIOUS
  <2> QED
    BY <1>7, <2>1, Zenon
<1> QED
  BY <1>6, <1>8, <1>9, Zenon

\* A level deeper.
LEMMA FormsDeeper ==
    ASSUME NEW depth \in Nat
    PROVE  FormsTo(0) = <<>> /\ FormsTo(depth + 1) = Deeper(FormsTo(depth))
<1> DEFINE a == Levels(depth)
           b == Levels(depth + 1)
           S == {d \in 0..depth : a[d] = b[d]}
<1>1. depth + 1 \in Nat /\ 0 \in Nat /\ (depth + 1) - 1 = depth /\ depth + 1 \in 1..depth + 1
  OBVIOUS
<1>2. /\ FormsTo(depth) = a[depth] /\ a[0] = <<>> /\ \A d \in 1..depth : a[d] = Deeper(a[d - 1])
  BY LevelsFacts, Zenon
<1>3. /\ FormsTo(depth + 1) = b[depth + 1] /\ b[0] = <<>> /\ \A d \in 1..depth + 1 : b[d] = Deeper(b[d - 1])
  BY <1>1, LevelsFacts, Zenon
<1>4. FormsTo(0) = <<>>
  BY <1>1, LevelsFacts, Zenon
<1> HIDE DEF a, b
<1>5. 0 \in S
  BY <1>2, <1>3
<1>6. ASSUME NEW d \in 0..(depth - 1), d \in S
      PROVE  d + 1 \in S
  <2>1. d + 1 \in 1..depth /\ d + 1 \in 1..depth + 1 /\ (d + 1) - 1 = d /\ d + 1 \in 0..depth
    OBVIOUS
  <2>2. a[d + 1] = Deeper(a[d]) /\ b[d + 1] = Deeper(b[d])
    BY <1>2, <1>3, <2>1
  <2> QED
    BY <1>6, <2>1, <2>2
<1>7. a[depth] = b[depth]
  <2>1. 0..depth \subseteq S
    <3> HIDE DEF S
    <3> QED
      BY <1>5, <1>6, SetInduction
  <2> QED
    BY <2>1
<1>8. b[depth + 1] = Deeper(b[depth])
  BY <1>1, <1>3
<1> QED
  BY <1>2, <1>3, <1>4, <1>7, <1>8

\* r consists of an element of P and one of A.
Splits(r, P, A) == \E p \in P, f \in A : r = Joined(p, f)

\* The last set can be taken off again.
LEMMA ConcatenationsLast ==
    ASSUME NEW W, NEW sets \in Seq(SUBSET Seq(W)), NEW A \in SUBSET Seq(W), NEW r \in Concatenations(Append(sets, A))
    PROVE  Splits(r, Concatenations(sets), A)
<1> DEFINE n == Len(sets)
           more == Append(sets, A)
<1>1. n \in Nat /\ more \in Seq(SUBSET Seq(W)) /\ Len(more) = n + 1 /\ more[n + 1] = A /\ \A k \in 1..n : more[k] = sets[k]
  <2>1. PICK V : V = SUBSET Seq(W)
    OBVIOUS
  <2>2. sets \in Seq(V) /\ A \in V
    BY <2>1
  <2>3. n \in Nat /\ more \in Seq(V) /\ Len(more) = n + 1 /\ more[n + 1] = A /\ \A k \in 1..n : more[k] = sets[k]
    BY <2>2, AppendProperties
  <2> QED
    BY <2>1, <2>3
<1> HIDE DEF more, n
<1>2. PICK q \in Seq(Seq(W)) : Len(q) = n + 1 /\ r = FlattenSeq(q) /\ \A k \in 1..n + 1 : q[k] \in more[k]
  <2>1. r \in Concatenations(more)
    BY DEF more
  <2>2. \E q \in Seq(Seq(W)) : Len(q) = Len(more) /\ r = FlattenSeq(q) /\ \A k \in 1..Len(more) : q[k] \in more[k]
    BY <1>1, <2>1, ConcatenationsAre, Zenon
  <2> QED
    BY <1>1, <2>2
<1> DEFINE f == q[n + 1]
           p == SubSeq(q, 1, n)
<1>3. p \in Seq(Seq(W)) /\ Len(p) = n /\ f \in Seq(W) /\ q = Append(p, f) /\ \A k \in 1..n : p[k] = q[k]
  <2>1. PICK V : V = Seq(W)
    OBVIOUS
  <2>2. q \in Seq(V) /\ Len(q) = n + 1 /\ n \in Nat
    BY <1>1, <1>2, <2>1
  <2>3. p \in Seq(V) /\ Len(p) = n /\ \A k \in 1..n : p[k] = q[k]
    BY <2>2
  <2>4. f \in V
    BY <2>2
  <2> DEFINE t == Append(p, f)
  <2> HIDE DEF p, f
  <2>5. t \in Seq(V) /\ Len(t) = n + 1 /\ t[n + 1] = f /\ \A k \in 1..n : t[k] = p[k]
    <3>1. p \in Seq(V) /\ f \in V /\ Len(p) = n
      BY <2>3, <2>4
    <3>2. t \in Seq(V) /\ Len(t) = Len(p) + 1 /\ t[Len(p) + 1] = f /\ \A k \in 1..Len(p) : t[k] = p[k]
      BY <3>1, AppendProperties
    <3> QED
      BY <3>1, <3>2
  <2> HIDE DEF t
  <2>6. ASSUME NEW k \in 1..n + 1 PROVE q[k] = t[k]
    <3>1. CASE k = n + 1
      BY <2>5, <3>1 DEF f
    <3>2. CASE k # n + 1
      <4>1. k \in 1..n
        BY <2>2, <3>2
      <4> QED
        BY <2>3, <2>5, <4>1
    <3> QED
      BY <3>1, <3>2
  <2>7. q = t
    BY <2>2, <2>5, <2>6, SeqEqual
  <2> QED
    BY <2>1, <2>3, <2>4, <2>7 DEF t
<1>4. f \in A /\ \A k \in 1..n : q[k] \in sets[k]
  <2>1. n + 1 \in 1..n + 1 /\ \A k \in 1..n : k \in 1..n + 1
    BY <1>1
  <2> QED
    BY <1>1, <1>2, <2>1, Zenon
<1> HIDE DEF f, p
<1>5. r = Joined(FlattenSeq(p), f)
  BY <1>2, <1>3, FlattenAppend
<1>6. FlattenSeq(p) \in Concatenations(sets)
  <2>1. Len(p) = Len(sets) /\ FlattenSeq(p) = FlattenSeq(p) /\ \A k \in 1..Len(sets) : p[k] \in sets[k]
    BY <1>3, <1>4 DEF n
  <2> QED
    BY <1>3, <2>1, ConcatenationsAre, Zenon
<1> QED
  BY <1>4, <1>5, <1>6, Zenon DEF Splits

-----------------------------------------------------------------------------
(* The ways to write a struct, names and nodes *)
Text == Seq(TokenType)
TypedForms(G) == G \in [DOMAIN G -> SUBSET Text]

\* The properties of a struct, each with a comma, and the same without the last one.
Separated(G) == [c \in DOMAIN G |-> {f \o <<"comma">> : f \in G[c]}]
Separate(ch, G) == Concatenations(Mapped(ch, Separated(G)))
Unended(ch, G) == [k \in DOMAIN ch |-> IF k = Len(ch) THEN G[ch[k]] ELSE Separated(G)[ch[k]]]

\* The properties with their commas are text as well.
LEMMA SeparatedType ==
    ASSUME NEW G, TypedForms(G)
    PROVE  /\ Separated(G) \in [DOMAIN G -> SUBSET Text] /\ DOMAIN Separated(G) = DOMAIN G
           /\ \A c \in DOMAIN G : \A f \in G[c] : Joined(f, <<"comma">>) \in Separated(G)[c]
<1>1. ASSUME NEW c \in DOMAIN G
      PROVE  {f \o <<"comma">> : f \in G[c]} \subseteq Text
  <2>1. G[c] \subseteq Text
    BY DEF TypedForms
  <2>2. <<"comma">> \in Text
    BY DEF Text, TokenType
  <2>3. ASSUME NEW f \in Text PROVE f \o <<"comma">> \in Text
    BY <2>2, JoinedFacts DEF Joined, Text
  <2> QED
    BY <2>1, <2>3
<1>2. \A c \in DOMAIN G : Separated(G)[c] = {f \o <<"comma">> : f \in G[c]}
  BY Zenon DEF Separated
<1>3. DOMAIN Separated(G) = DOMAIN G
  BY Zenon DEF Separated
<1>4. Separated(G) \in [DOMAIN G -> SUBSET Text]
  BY <1>1, Zenon DEF Separated
<1>5. ASSUME NEW c \in DOMAIN G, NEW f \in G[c]
      PROVE  Joined(f, <<"comma">>) \in Separated(G)[c]
  <2>1. f \o <<"comma">> \in {g \o <<"comma">> : g \in G[c]}
    BY Zenon
  <2> QED
    BY <1>2, <2>1, Zenon DEF Joined
<1> QED
  BY <1>3, <1>4, <1>5

\* How PropertyForms is put together.
LEMMA PropertyFormsAre ==
    ASSUME NEW G, TypedForms(G), NEW ch \in Seq(DOMAIN G)
    PROVE  PropertyForms(ch, G) = Separate(ch, G) \cup Concatenations(Unended(ch, G))
<1> DEFINE sep == [k \in DOMAIN ch |-> {f \o <<"comma">> : f \in G[ch[k]]}]
           end == [k \in DOMAIN ch |-> IF k = Len(ch) THEN G[ch[k]] ELSE sep[k]]
<1>1. PropertyForms(ch, G) = Concatenations(sep) \cup Concatenations(end)
  BY Zenon DEF PropertyForms
<1>2. \A k \in DOMAIN ch : ch[k] \in DOMAIN G
  OBVIOUS
<1>3. \A k \in DOMAIN ch : sep[k] = Separated(G)[ch[k]] /\ {f \o <<"comma">> : f \in G[ch[k]]} = Separated(G)[ch[k]]
  BY <1>2, Zenon DEF Separated
<1>4. sep = Mapped(ch, Separated(G))
  BY <1>3, Zenon DEF Mapped
<1>5. \A k \in DOMAIN ch : (IF k = Len(ch) THEN G[ch[k]] ELSE sep[k]) = IF k = Len(ch) THEN G[ch[k]] ELSE Separated(G)[ch[k]]
  BY <1>3, Zenon
<1>6. end = Unended(ch, G)
  <2> HIDE DEF sep
  <2> QED
    BY <1>5, Zenon DEF Unended
<1> QED
  BY <1>1, <1>4, <1>6, Zenon DEF Separate

\* One more property.
LEMMA UnendedAppend ==
    ASSUME NEW G, TypedForms(G), NEW ch \in Seq(DOMAIN G), NEW c \in DOMAIN G
    PROVE  Unended(Append(ch, c), G) = Append(Mapped(ch, Separated(G)), G[c])
<1> DEFINE n == Len(ch)
           t == Append(ch, c)
           a == Mapped(ch, Separated(G))
           b == Unended(t, G)
           e == Append(a, G[c])
           V == SUBSET Text
<1>1. n \in Nat /\ DOMAIN ch = 1..n /\ \A k \in 1..n : ch[k] \in DOMAIN G
  BY ElementOfSeq, LenProperties
<1>2. t \in Seq(DOMAIN G) /\ DOMAIN t = 1..n + 1 /\ Len(t) = n + 1 /\ t[n + 1] = c /\ \A k \in 1..n : t[k] = ch[k]
  BY AppendProperties
<1>3. Separated(G) \in [DOMAIN G -> V] /\ G \in [DOMAIN G -> V]
  BY SeparatedType, Zenon DEF TypedForms
<1>4. a \in Seq(V) /\ Len(a) = n /\ \A k \in 1..n : a[k] = Separated(G)[ch[k]]
  <2>1. PICK H : H = Separated(G)
    OBVIOUS
  <2>2. PICK X : X = DOMAIN G
    OBVIOUS
  <2> HIDE DEF V
  <2>3. Maps(H, X, V) /\ ch \in Seq(X) /\ c \in X
    BY <1>3, <2>1, <2>2 DEF Maps
  <2>4. Mapped(ch, H) \in Seq(V) /\ Len(Mapped(ch, H)) = Len(ch) /\ \A k \in 1..Len(ch) : Mapped(ch, H)[k] = H[ch[k]]
    BY <2>3, MappedAppend
  <2> QED
    BY <2>1, <2>4
<1>5. b = [k \in 1..n + 1 |-> IF k = n + 1 THEN G[t[k]] ELSE Separated(G)[t[k]]]
  BY <1>2, Zenon DEF Unended
<1> HIDE DEF n, t, a, b, V
<1>6. G[c] \in V
  BY <1>3
<1>7. e \in Seq(V) /\ Len(e) = n + 1 /\ e[n + 1] = G[c] /\ \A k \in 1..n : e[k] = a[k]
  BY <1>4, <1>6, AppendProperties
<1> HIDE DEF e
<1>8. ASSUME NEW k \in 1..n + 1 PROVE b[k] = e[k] /\ b[k] \in V
  <2>1. CASE k = n + 1
    <3>1. b[k] = G[c]
      BY <1>2, <1>5, <2>1, Zenon
    <3> QED
      BY <1>6, <1>7, <2>1, <3>1
  <2>2. CASE k # n + 1
    <3>1. k \in 1..n
      BY <1>1, <2>2
    <3>2. b[k] = Separated(G)[t[k]] /\ t[k] = ch[k]
      BY <1>2, <1>5, <2>2, <3>1, Zenon
    <3>3. b[k] = a[k] /\ e[k] = a[k]
      BY <1>4, <1>7, <3>1, <3>2, Zenon
    <3> QED
      BY <1>4, <3>1, <3>3
  <2> QED
    BY <2>1, <2>2
<1>9. b \in Seq(V) /\ Len(b) = n + 1
  <2>1. b = [k \in 1..n + 1 |-> b[k]]
    BY <1>5, Zenon
  <2>2. b \in [1..n + 1 -> V]
    BY <1>8, <2>1, Zenon
  <2> QED
    BY <1>1, <2>2
<1>10. b = e
  BY <1>7, <1>8, <1>9, SeqEqual
<1> QED
  BY <1>10 DEF b, e, a, t

\* What the loop over properties builds.
LEMMA PropertiesRead ==
    ASSUME NEW G, TypedForms(G), NEW ch \in Seq(DOMAIN G)
    PROVE  /\ Separate(ch, G) \in SUBSET Text /\ Separate(ch, G) \subseteq PropertyForms(ch, G)
           /\ <<>> \in Separate(<<>>, G)
           /\ \A c \in DOMAIN G : \A s \in Separate(ch, G), v \in G[c] :
                /\ Joined(s, v) \in PropertyForms(Append(ch, c), G)
                /\ Joined(s, Joined(v, <<"comma">>)) \in Separate(Append(ch, c), G)
<1> DEFINE h == Separated(G)
           V == SUBSET Text
<1>1. h \in [DOMAIN G -> V] /\ G \in [DOMAIN G -> V]
  BY SeparatedType, Zenon DEF TypedForms
<1>2. PropertyForms(ch, G) = Separate(ch, G) \cup Concatenations(Unended(ch, G))
  BY PropertyFormsAre, Zenon
<1>3. <<>> \in Separate(<<>>, G)
  <2>1. Mapped(<<>>, h) = <<>>
    BY DEF Mapped
  <2>2. <<>> \in Seq(SUBSET Seq(TokenType))
    OBVIOUS
  <2>3. Concatenations(<<>>) = {<<>>}
    BY <2>2, ConcatenationsType, Zenon
  <2> QED
    BY <2>1, <2>3, Zenon DEF Separate
<1>4. ASSUME NEW c \in DOMAIN G
      PROVE  /\ Mapped(ch, h) \in Seq(V) /\ Mapped(Append(ch, c), h) = Append(Mapped(ch, h), h[c])
             /\ G[c] \in V /\ h[c] \in V
  <2> HIDE DEF h, V
  <2>1. Mapped(ch, h) \in Seq(V) /\ Mapped(Append(ch, c), h) = Append(Mapped(ch, h), h[c])
    <3>1. PICK X : X = DOMAIN G
      OBVIOUS
    <3>2. Maps(h, X, V) /\ ch \in Seq(X) /\ c \in X
      BY <1>1, <3>1 DEF Maps
    <3> QED
      BY <3>2, MappedAppend
  <2> QED
    BY <1>1, <2>1
<1>5. Mapped(ch, h) \in Seq(V)
  <2>1. CASE DOMAIN G = {}
    <3>1. ch = <<>>
      <4>1. ch \in Seq({})
        BY <2>1
      <4>2. Len(ch) = 0
        <5> SUFFICES ASSUME Len(ch) # 0 PROVE FALSE
          OBVIOUS
        <5>1. 1 \in 1..Len(ch)
          BY <4>1
        <5> QED
          BY <4>1, <5>1, ElementOfSeq
      <4> QED
        BY <4>1, <4>2, EmptySeq
    <3>2. Mapped(ch, h) = <<>>
      BY <3>1 DEF Mapped
    <3> QED
      BY <3>2
  <2>2. CASE DOMAIN G # {}
    BY <1>4, <2>2
  <2> QED
    BY <2>1, <2>2
<1>6. Separate(ch, G) \in SUBSET Text
  BY <1>5, ConcatenationsType, Zenon DEF Separate, Text
<1>7. ASSUME NEW c \in DOMAIN G, NEW s \in Separate(ch, G), NEW v \in G[c]
      PROVE  /\ Joined(s, v) \in PropertyForms(Append(ch, c), G)
             /\ Joined(s, Joined(v, <<"comma">>)) \in Separate(Append(ch, c), G)
  <2>1. s \in Concatenations(Mapped(ch, h)) /\ Mapped(ch, h) \in Seq(SUBSET Seq(TokenType))
    BY <1>5, Zenon DEF Separate, Text
  <2>2. G[c] \in SUBSET Seq(TokenType) /\ h[c] \in SUBSET Seq(TokenType)
    BY <1>4, Zenon DEF Text
  <2>3. Joined(s, v) \in Concatenations(Append(Mapped(ch, h), G[c]))
    BY <2>1, <2>2, ConcatenationsAppend, Zenon
  <2>4. Joined(v, <<"comma">>) \in h[c]
    BY SeparatedType, Zenon
  <2>5. Joined(s, Joined(v, <<"comma">>)) \in Concatenations(Append(Mapped(ch, h), h[c]))
    <3> HIDE DEF h
    <3> QED
      BY <2>1, <2>2, <2>4, ConcatenationsAppend, Zenon
  <2>6. Append(ch, c) \in Seq(DOMAIN G)
    OBVIOUS
  <2>7. Joined(s, v) \in Concatenations(Unended(Append(ch, c), G))
    BY <2>3, UnendedAppend, Zenon
  <2>8. PropertyForms(Append(ch, c), G) = Separate(Append(ch, c), G) \cup Concatenations(Unended(Append(ch, c), G))
    BY <2>6, PropertyFormsAre, Zenon
  <2> QED
    BY <1>4, <2>5, <2>7, <2>8, Zenon DEF Separate
<1> QED
  BY <1>2, <1>3, <1>6, <1>7, Zenon

\* All ways to write the properties of a struct are text.
LEMMA PropertyFormsType ==
    ASSUME NEW G, TypedForms(G), NEW ch \in Seq(DOMAIN G)
    PROVE  PropertyForms(ch, G) \in SUBSET Text
<1> DEFINE V == SUBSET Text
<1>1. PropertyForms(ch, G) = Separate(ch, G) \cup Concatenations(Unended(ch, G))
  BY PropertyFormsAre, Zenon
<1>2. Unended(ch, G) \in Seq(V)
  <2>1. Separated(G) \in [DOMAIN G -> V] /\ G \in [DOMAIN G -> V]
    BY SeparatedType, Zenon DEF TypedForms
  <2>2. Len(ch) \in Nat /\ DOMAIN ch = 1..Len(ch) /\ \A k \in 1..Len(ch) : ch[k] \in DOMAIN G
    BY ElementOfSeq, LenProperties
  <2> HIDE DEF V
  <2>3. ASSUME NEW k \in 1..Len(ch)
        PROVE  (IF k = Len(ch) THEN G[ch[k]] ELSE Separated(G)[ch[k]]) \in V
    BY <2>1, <2>2
  <2>4. Unended(ch, G) \in [1..Len(ch) -> V]
    BY <2>2, <2>3, Zenon DEF Unended
  <2> QED
    BY <2>2, <2>4
<1>3. Concatenations(Unended(ch, G)) \in SUBSET Text
  BY <1>2, ConcatenationsType, Zenon DEF Text
<1> QED
  BY <1>1, <1>3, PropertiesRead

\* So many tokens of a list of names.
Names(n) == [i \in 1..n |-> IF i % 2 = 1 THEN "identifier" ELSE "comma"]

\* The list of names grows by a token.
LEMMA NamesFacts ==
    ASSUME NEW m \in Nat
    PROVE  /\ Names(m) \in Text /\ Len(Names(m)) = m /\ Names(0) = <<>>
           /\ m % 2 = 0 => Joined(Names(m), <<"identifier">>) = Names(m + 1)
           /\ m % 2 = 1 => Joined(Names(m), <<"comma">>) = Names(m + 1)
<1>1. ASSUME NEW n \in Nat
      PROVE  /\ Names(n) \in Text /\ Len(Names(n)) = n
             /\ \A i \in 1..n : Names(n)[i] = IF i % 2 = 1 THEN "identifier" ELSE "comma"
  <2>1. \A i \in 1..n : (IF i % 2 = 1 THEN "identifier" ELSE "comma") \in TokenType
    BY DEF TokenType
  <2>2. Names(n) \in [1..n -> TokenType] /\ \A i \in 1..n : Names(n)[i] = IF i % 2 = 1 THEN "identifier" ELSE "comma"
    BY <2>1, Zenon DEF Names
  <2> QED
    BY <2>2 DEF Text
<1>2. Names(0) = <<>>
  BY <1>1, EmptySeq DEF Text
<1>3. ASSUME NEW x \in {"identifier", "comma"}, x = IF (m + 1) % 2 = 1 THEN "identifier" ELSE "comma"
      PROVE  Joined(Names(m), <<x>>) = Names(m + 1)
  <2> DEFINE a == Names(m)
             b == a \o <<x>>
             c == Names(m + 1)
  <2>1. <<x>> \in Text /\ Len(<<x>>) = 1 /\ <<x>>[1] = x
    BY DEF Text, TokenType
  <2>2. m + 1 \in Nat
    OBVIOUS
  <2>3. a \in Text /\ Len(a) = m /\ \A i \in 1..m : a[i] = IF i % 2 = 1 THEN "identifier" ELSE "comma"
    BY <1>1, Zenon
  <2>4. c \in Text /\ Len(c) = m + 1 /\ \A i \in 1..m + 1 : c[i] = IF i % 2 = 1 THEN "identifier" ELSE "comma"
    BY <1>1, <2>2, Zenon
  <2> HIDE DEF a, c
  <2>5. /\ b \in Text /\ Len(b) = m + 1 /\ \A i \in 1..m + 1 : b[i] = IF i <= m THEN a[i] ELSE <<x>>[i - m]
    BY <2>1, <2>3, ConcatProperties DEF Text
  <2> HIDE DEF b
  <2>6. ASSUME NEW i \in 1..m + 1 PROVE b[i] = c[i]
    <3>1. CASE i = m + 1
      <4>1. ~(i <= m) /\ i - m = 1
        BY <3>1
      <4> QED
        BY <1>3, <2>1, <2>4, <2>5, <3>1, <4>1
    <3>2. CASE i # m + 1
      <4>1. i \in 1..m /\ i <= m
        BY <3>2
      <4>2. b[i] = a[i]
        BY <2>5, <4>1
      <4> QED
        BY <2>3, <2>4, <4>1, <4>2
    <3> QED
      BY <3>1, <3>2
  <2>7. b = c
    BY <2>4, <2>5, <2>6, SeqEqual DEF Text
  <2> QED
    BY <2>7 DEF b, a, c, Joined
<1>4. m % 2 = 0 => (m + 1) % 2 = 1
  OBVIOUS
<1>5. m % 2 = 1 => (m + 1) % 2 = 0
  OBVIOUS
<1>6. m % 2 = 0 => Joined(Names(m), <<"identifier">>) = Names(m + 1)
  BY <1>3, <1>4
<1>7. m % 2 = 1 => Joined(Names(m), <<"comma">>) = Names(m + 1)
  BY <1>3, <1>5
<1> QED
  BY <1>1, <1>2, <1>6, <1>7, Zenon

\* The names that NameForms asks for.
LEMMA NameFormsAre ==
    ASSUME NEW X, NEW ch \in Seq(X)
    PROVE  /\ NameForms(ch) \in SUBSET Text
           /\ \A x \in X : Names(2 * Len(ch) + 1) \in NameForms(Append(ch, x))
<1>1. Len(ch) \in Nat /\ (ch # <<>> => 2 * Len(ch) - 1 \in Nat)
  BY EmptySeq
<1>2. NameForms(ch) = IF ch = <<>> THEN {} ELSE {Names(2 * Len(ch) - 1)}
  BY Zenon DEF NameForms, Names
<1>3. NameForms(ch) \in SUBSET Text
  <2>1. ch # <<>> => Names(2 * Len(ch) - 1) \in Text
    BY <1>1, NamesFacts
  <2> QED
    BY <1>2, <2>1
<1>4. ASSUME NEW x \in X
      PROVE  Names(2 * Len(ch) + 1) \in NameForms(Append(ch, x))
  <2> DEFINE t == Append(ch, x)
  <2>1. t # <<>> /\ Len(t) = Len(ch) + 1
    BY AppendProperties
  <2>2. 2 * Len(t) - 1 = 2 * Len(ch) + 1
    BY <1>1, <2>1
  <2>3. NameForms(t) = IF t = <<>> THEN {} ELSE {Names(2 * Len(t) - 1)}
    BY Zenon DEF NameForms, Names
  <2> QED
    BY <2>1, <2>2, <2>3
<1> QED
  BY <1>3, <1>4

NodeOf(type, ch) == [type |-> type, missing |-> {}, children |-> ch]
ValuesIn(G) == OfType(ValueType, DOMAIN G)
PropertiesIn(G) == OfType({"property"}, DOMAIN G)

\* Texts put together.
LEMMA JoinText == ASSUME NEW a \in Text, NEW b \in Text PROVE Joined(a, b) \in Text
  BY JoinedFacts DEF Text

\* A few tokens are text.
LEMMA TokenText == \A a, b \in TokenType : \A c \in TokenType : <<a>> \in Text /\ <<a, b>> \in Text /\ <<a, b, c>> \in Text
  BY DEF Text

\* The forms one level deeper.
LEMMA DeeperType ==
    ASSUME NEW G, TypedForms(G)
    PROVE  /\ TypedForms(Deeper(G))
           /\ \A node : node \in DOMAIN Deeper(G) <=>
                \/ node \in Nodes({"literal", "pseudo_identifier"}, {})
                \/ node \in Nodes({"struct"}, PropertiesIn(G))
                \/ node \in Nodes({"property"}, ValuesIn(G))
           /\ \A node \in DOMAIN Deeper(G) : Deeper(G)[node] = ValueForms(node, G)
<1> DEFINE N == Nodes({"literal", "pseudo_identifier"}, {}) \cup Nodes({"struct"}, PropertiesIn(G)) \cup Nodes({"property"}, ValuesIn(G))
<1>1. Deeper(G) = [node \in N |-> ValueForms(node, G)]
  BY Zenon DEF Deeper, PropertiesIn, ValuesIn
<1>2. ASSUME NEW node \in N
      PROVE  ValueForms(node, G) \in SUBSET Text
  <2>1. \/ node.type \in {"literal", "pseudo_identifier"}
        \/ node.type = "struct" /\ node.children \in Seq(PropertiesIn(G))
        \/ node.type = "property" /\ node.children \in Seq(ValuesIn(G))
    BY DEF Nodes
  <2>2. CASE node.type \in {"literal", "pseudo_identifier"}
    <3>1. ValueForms(node, G) \in {{<<"literal">>}, {<<"identifier">>}}
      BY <2>2 DEF ValueForms
    <3>2. <<"literal">> \in Text /\ <<"identifier">> \in Text
      BY DEF Text, TokenType
    <3> QED
      BY <3>1, <3>2
  <2>3. CASE node.type = "struct" /\ node.children \in Seq(PropertiesIn(G))
    <3>1. PICK ch : ch = node.children
      OBVIOUS
    <3>2. ch \in Seq(DOMAIN G)
      <4>1. PropertiesIn(G) \subseteq DOMAIN G
        BY DEF PropertiesIn, OfType
      <4>2. ch \in Seq(PropertiesIn(G))
        BY <2>3, <3>1
      <4> QED
        BY <4>1, <4>2
    <3>3. ValueForms(node, G) = {<<"identifier", "lbrace">> \o p \o <<"rbrace">> : p \in PropertyForms(ch, G)}
      BY <2>3, <3>1, Zenon DEF ValueForms
    <3>4. <<"identifier", "lbrace">> \in Text /\ <<"rbrace">> \in Text
      BY DEF Text, TokenType
    <3>5. PropertyForms(ch, G) \in SUBSET Text
      BY <3>2, PropertyFormsType
    <3>6. ASSUME NEW p \in Text PROVE <<"identifier", "lbrace">> \o p \o <<"rbrace">> \in Text
      BY <3>4, JoinText DEF Joined
    <3> QED
      BY <3>3, <3>5, <3>6
  <2>4. CASE node.type = "property" /\ node.children \in Seq(ValuesIn(G))
    <3>1. CASE Len(node.children) = 1
      <4>1. PICK v : v = node.children[1]
        OBVIOUS
      <4>2. v \in DOMAIN G
        <5>1. v \in ValuesIn(G)
          BY <2>4, <3>1, <4>1
        <5> QED
          BY <5>1 DEF ValuesIn, OfType
      <4>3. ValueForms(node, G) = {<<"identifier", "equals">> \o w : w \in G[v]}
        BY <2>4, <3>1, <4>1 DEF ValueForms
      <4>4. G[v] \in SUBSET Text
        BY <4>2 DEF TypedForms
      <4>5. <<"identifier", "equals">> \in Text
        BY DEF Text, TokenType
      <4>6. ASSUME NEW w \in Text PROVE <<"identifier", "equals">> \o w \in Text
        BY <4>5, JoinText DEF Joined
      <4> QED
        BY <4>3, <4>4, <4>6
    <3>2. CASE Len(node.children) # 1
      <4>1. ValueForms(node, G) = {}
        BY <2>4, <3>2 DEF ValueForms
      <4> QED
        BY <4>1
    <3> QED
      BY <3>1, <3>2
  <2> QED
    BY <2>1, <2>2, <2>3, <2>4
<1> HIDE DEF N
<1>3. Deeper(G) \in [N -> SUBSET Text] /\ DOMAIN Deeper(G) = N
  BY <1>1, <1>2, Zenon
<1>4. \A node \in N : Deeper(G)[node] = ValueForms(node, G)
  BY <1>1, Zenon
<1>5. TypedForms(Deeper(G))
  BY <1>3, Zenon DEF TypedForms
<1>6. \A node : node \in N <=> \/ node \in Nodes({"literal", "pseudo_identifier"}, {})
                               \/ node \in Nodes({"struct"}, PropertiesIn(G))
                               \/ node \in Nodes({"property"}, ValuesIn(G))
  BY Zenon DEF N
<1> QED
  BY <1>3, <1>4, <1>5, <1>6, Zenon

\* What the forms to any depth are.
LEMMA FormsTyped == \A d \in Nat : TypedForms(FormsTo(d))
<1> SUFFICES ASSUME NEW top \in Nat PROVE TypedForms(FormsTo(top))
  OBVIOUS
<1> DEFINE S == {d \in Nat : TypedForms(FormsTo(d))}
<1>1. 0 \in S
  <2>1. FormsTo(0) = <<>>
    BY FormsDeeper
  <2>2. TypedForms(<<>>)
    BY DEF TypedForms
  <2> QED
    BY <2>1, <2>2
<1>2. ASSUME NEW d \in 0..(top - 1), d \in S PROVE d + 1 \in S
  <2>1. d \in Nat /\ d + 1 \in Nat
    OBVIOUS
  <2>2. FormsTo(d + 1) = Deeper(FormsTo(d))
    BY <2>1, FormsDeeper
  <2>3. TypedForms(Deeper(FormsTo(d)))
    BY <1>2, DeeperType
  <2> QED
    BY <2>1, <2>2, <2>3
<1>3. 0..top \subseteq S
  <2> HIDE DEF S
  <2> QED
    BY <1>1, <1>2, SetInduction
<1> QED
  BY <1>3

\* What a value or a property can be, one level deeper, and how it is written.
LEMMA DeeperNodes ==
    ASSUME NEW G, TypedForms(G), NEW F, F = Deeper(G)
    PROVE  /\ Leaf("literal") \in ValuesIn(F) /\ <<"literal">> \in F[Leaf("literal")]
           /\ Leaf("pseudo_identifier") \in ValuesIn(F) /\ <<"identifier">> \in F[Leaf("pseudo_identifier")]
           /\ \A ch \in Seq(PropertiesIn(G)) :
                /\ NodeOf("struct", ch) \in ValuesIn(F)
                /\ \A p \in PropertyForms(ch, G) :
                     Joined(Joined(<<"identifier", "lbrace">>, p), <<"rbrace">>) \in F[NodeOf("struct", ch)]
           /\ \A v \in ValuesIn(G) :
                /\ NodeOf("property", <<v>>) \in PropertiesIn(F)
                /\ \A w \in G[v] : Joined(<<"identifier", "equals">>, w) \in F[NodeOf("property", <<v>>)]
<1>1. /\ \A node : node \in DOMAIN F <=>
                \/ node \in Nodes({"literal", "pseudo_identifier"}, {})
                \/ node \in Nodes({"struct"}, PropertiesIn(G))
                \/ node \in Nodes({"property"}, ValuesIn(G))
      /\ \A node \in DOMAIN F : F[node] = ValueForms(node, G)
  BY DeeperType, Zenon
<1>2. \A node : node \in ValuesIn(F) <=> node \in DOMAIN F /\ node.type \in ValueType
  BY DEF ValuesIn, OfType
<1>3. \A node : node \in PropertiesIn(F) <=> node \in DOMAIN F /\ node.type = "property"
  BY DEF PropertiesIn, OfType
<1>4. ASSUME NEW type \in {"literal", "pseudo_identifier"}
      PROVE  Leaf(type) \in ValuesIn(F) /\ Leaf(type).type = type /\ F[Leaf(type)] = ValueForms(Leaf(type), G)
  <2>1. Leaf(type) \in Nodes({"literal", "pseudo_identifier"}, {}) /\ Leaf(type).type = type
    BY DEF Leaf, Nodes
  <2> QED
    BY <1>1, <1>2, <2>1 DEF ValueType
<1>5. <<"literal">> \in F[Leaf("literal")] /\ <<"identifier">> \in F[Leaf("pseudo_identifier")]
  BY <1>4 DEF ValueForms
<1>6. ASSUME NEW ch \in Seq(PropertiesIn(G))
      PROVE  /\ NodeOf("struct", ch) \in ValuesIn(F)
             /\ \A p \in PropertyForms(ch, G) :
                     Joined(Joined(<<"identifier", "lbrace">>, p), <<"rbrace">>) \in F[NodeOf("struct", ch)]
  <2>1. PICK node : node = NodeOf("struct", ch)
    OBVIOUS
  <2>2. node \in Nodes({"struct"}, PropertiesIn(G)) /\ node.type = "struct" /\ node.children = ch
    BY <2>1 DEF NodeOf, Nodes
  <2>3. node \in ValuesIn(F) /\ node \in DOMAIN F /\ F[node] = ValueForms(node, G)
    BY <1>1, <1>2, <2>2 DEF ValueType
  <2>4. ValueForms(node, G) = {<<"identifier", "lbrace">> \o p \o <<"rbrace">> : p \in PropertyForms(ch, G)}
    BY <2>2, Zenon DEF ValueForms
  <2>5. ASSUME NEW p \in PropertyForms(ch, G)
        PROVE  Joined(Joined(<<"identifier", "lbrace">>, p), <<"rbrace">>) \in F[node]
    BY <2>3, <2>4, Zenon DEF Joined
  <2> QED
    BY <2>1, <2>3, <2>5
<1>7. ASSUME NEW v \in ValuesIn(G)
      PROVE  /\ NodeOf("property", <<v>>) \in PropertiesIn(F)
             /\ \A w \in G[v] : Joined(<<"identifier", "equals">>, w) \in F[NodeOf("property", <<v>>)]
  <2>1. PICK node : node = NodeOf("property", <<v>>)
    OBVIOUS
  <2>2. node \in Nodes({"property"}, ValuesIn(G)) /\ node.type = "property" /\ Len(node.children) = 1 /\ node.children[1] = v
    BY <2>1 DEF NodeOf, Nodes
  <2>3. node \in PropertiesIn(F) /\ node \in DOMAIN F /\ F[node] = ValueForms(node, G)
    BY <1>1, <1>3, <2>2
  <2>4. ValueForms(node, G) = {<<"identifier", "equals">> \o w : w \in G[v]}
    BY <2>2 DEF ValueForms
  <2>5. ASSUME NEW w \in G[v]
        PROVE  Joined(<<"identifier", "equals">>, w) \in F[node]
    BY <2>3, <2>4, Zenon DEF Joined
  <2> QED
    BY <2>1, <2>3, <2>5
<1> QED
  BY <1>4, <1>5, <1>6, <1>7, Zenon

-----------------------------------------------------------------------------

\* The ways to write a declaration.
LEMMA DeclarationFormsAre ==
    ASSUME NEW G, TypedForms(G)
    PROVE  /\ \A node \in DeclarationNodes(G) : DeclarationForms(node, G) \in SUBSET Text
           /\ \A v \in ValuesIn(G) :
                /\ NodeOf("task", <<v>>) \in DeclarationNodes(G)
                /\ \A w \in G[v] :
                     Joined(Joined(<<"task", "identifier", "equals">>, w), <<"semicolon">>)
                       \in DeclarationForms(NodeOf("task", <<v>>), G)
           /\ \A ch \in Seq({Leaf("name")}) :
                /\ NodeOf("dependency", ch) \in DeclarationNodes(G) /\ NodeOf("run_level", ch) \in DeclarationNodes(G)
                /\ \A w \in NameForms(ch) :
                     /\ Joined(Joined(<<"identifier", "depends">>, w), <<"semicolon">>)
                          \in DeclarationForms(NodeOf("dependency", ch), G)
                     /\ Joined(Joined(<<"run_level", "identifier", "colon">>, w), <<"semicolon">>)
                          \in DeclarationForms(NodeOf("run_level", ch), G)
<1> DEFINE Ends(ways) == {w \o <<"semicolon">> : w \in ways}
<1>1. ASSUME NEW ways, ways \in SUBSET Text
      PROVE  Ends(ways) \in SUBSET Text
  <2>1. <<"semicolon">> \in Text
    BY DEF Text, TokenType
  <2>2. ASSUME NEW w \in Text PROVE w \o <<"semicolon">> \in Text
    BY <2>1, JoinText DEF Joined
  <2> QED
    BY <1>1, <2>2
<1>2. ASSUME NEW head \in Text, NEW tails, tails \in SUBSET Text
      PROVE  {head \o v : v \in tails} \in SUBSET Text
  <2>1. ASSUME NEW w \in Text PROVE head \o w \in Text
    BY JoinText DEF Joined
  <2> QED
    BY <1>2, <2>1
<1>3. <<"task", "identifier", "equals">> \in Text /\ <<"identifier", "depends">> \in Text /\ <<"run_level", "identifier", "colon">> \in Text
  BY DEF Text, TokenType
<1>4. ASSUME NEW node, node.type = "task", Len(node.children) = 1
      PROVE  DeclarationForms(node, G) = Ends({<<"task", "identifier", "equals">> \o v : v \in G[node.children[1]]})
  BY <1>4 DEF DeclarationForms
<1>5. ASSUME NEW node, node.type = "task", Len(node.children) # 1
      PROVE  DeclarationForms(node, G) = Ends({})
  BY <1>5 DEF DeclarationForms
<1>6. ASSUME NEW node, node.type = "dependency"
      PROVE  DeclarationForms(node, G) = Ends({<<"identifier", "depends">> \o n : n \in NameForms(node.children)})
  BY <1>6 DEF DeclarationForms
<1>7. ASSUME NEW node, node.type = "run_level"
      PROVE  DeclarationForms(node, G) = Ends({<<"run_level", "identifier", "colon">> \o n : n \in NameForms(node.children)})
  BY <1>7 DEF DeclarationForms
<1>8. \A ways : \A w \in ways : Joined(w, <<"semicolon">>) \in Ends(ways)
  BY Zenon DEF Joined
<1>9. \A head, tails : \A v \in tails : Joined(head, v) \in {head \o x : x \in tails}
  BY Zenon DEF Joined
<1>10. \A node : node \in DeclarationNodes(G) <=>
          node \in Nodes({"task"}, ValuesIn(G)) \/ node \in Nodes({"dependency", "run_level"}, {Leaf("name")})
  BY Zenon DEF DeclarationNodes, ValuesIn
<1> HIDE DEF Ends
<1>11. ASSUME NEW node \in DeclarationNodes(G)
       PROVE  DeclarationForms(node, G) \in SUBSET Text
  <2>1. CASE node \in Nodes({"task"}, ValuesIn(G))
    <3>1. node.type = "task" /\ node.children \in Seq(ValuesIn(G))
      BY <2>1 DEF Nodes
    <3>2. CASE Len(node.children) = 1
      <4>1. node.children[1] \in ValuesIn(G)
        BY <3>1, <3>2
      <4>2. G[node.children[1]] \in SUBSET Text
        BY <4>1 DEF ValuesIn, OfType, TypedForms
      <4> QED
        BY <1>1, <1>2, <1>3, <1>4, <3>1, <3>2, <4>2, Zenon
    <3>3. CASE Len(node.children) # 1
      BY <1>1, <1>5, <3>1, <3>3
    <3> QED
      BY <3>2, <3>3
  <2>2. CASE node \in Nodes({"dependency", "run_level"}, {Leaf("name")})
    <3>1. node.type \in {"dependency", "run_level"} /\ node.children \in Seq({Leaf("name")})
      BY <2>2 DEF Nodes
    <3>2. NameForms(node.children) \in SUBSET Text
      BY <3>1, NameFormsAre
    <3>3. CASE node.type = "dependency"
      BY <1>1, <1>2, <1>3, <1>6, <3>2, <3>3, Zenon
    <3>4. CASE node.type = "run_level"
      BY <1>1, <1>2, <1>3, <1>7, <3>2, <3>4, Zenon
    <3> QED
      BY <3>1, <3>3, <3>4
  <2> QED
    BY <1>10, <2>1, <2>2
<1>12. ASSUME NEW v \in ValuesIn(G)
       PROVE  /\ NodeOf("task", <<v>>) \in DeclarationNodes(G)
              /\ \A w \in G[v] : Joined(Joined(<<"task", "identifier", "equals">>, w), <<"semicolon">>)
                                   \in DeclarationForms(NodeOf("task", <<v>>), G)
  <2>1. PICK node : node = NodeOf("task", <<v>>)
    OBVIOUS
  <2>2. node \in Nodes({"task"}, ValuesIn(G)) /\ node.type = "task" /\ Len(node.children) = 1 /\ node.children[1] = v
    BY <2>1 DEF NodeOf, Nodes
  <2>3. DeclarationForms(node, G) = Ends({<<"task", "identifier", "equals">> \o x : x \in G[v]})
    BY <1>4, <2>2
  <2> QED
    BY <1>8, <1>9, <1>10, <2>1, <2>2, <2>3, Zenon
<1>13. ASSUME NEW ch \in Seq({Leaf("name")})
       PROVE  /\ NodeOf("dependency", ch) \in DeclarationNodes(G) /\ NodeOf("run_level", ch) \in DeclarationNodes(G)
              /\ \A w \in NameForms(ch) :
                     /\ Joined(Joined(<<"identifier", "depends">>, w), <<"semicolon">>)
                          \in DeclarationForms(NodeOf("dependency", ch), G)
                     /\ Joined(Joined(<<"run_level", "identifier", "colon">>, w), <<"semicolon">>)
                          \in DeclarationForms(NodeOf("run_level", ch), G)
  <2>1. ASSUME NEW type \in {"dependency", "run_level"}
        PROVE  /\ NodeOf(type, ch) \in Nodes({"dependency", "run_level"}, {Leaf("name")})
               /\ NodeOf(type, ch).type = type /\ NodeOf(type, ch).children = ch
    BY DEF NodeOf, Nodes
  <2>2. DeclarationForms(NodeOf("dependency", ch), G) = Ends({<<"identifier", "depends">> \o n : n \in NameForms(ch)})
    BY <1>6, <2>1
  <2>3. DeclarationForms(NodeOf("run_level", ch), G) = Ends({<<"run_level", "identifier", "colon">> \o n : n \in NameForms(ch)})
    BY <1>7, <2>1
  <2>4. NodeOf("dependency", ch) \in DeclarationNodes(G) /\ NodeOf("run_level", ch) \in DeclarationNodes(G)
    BY <1>10, <2>1
  <2>5. ASSUME NEW w \in NameForms(ch)
        PROVE  Joined(Joined(<<"identifier", "depends">>, w), <<"semicolon">>) \in DeclarationForms(NodeOf("dependency", ch), G)
    BY <1>8, <1>9, <2>2, Zenon
  <2>6. ASSUME NEW w \in NameForms(ch)
        PROVE  Joined(Joined(<<"run_level", "identifier", "colon">>, w), <<"semicolon">>) \in DeclarationForms(NodeOf("run_level", ch), G)
    BY <1>8, <1>9, <2>3, Zenon
  <2> QED
    BY <2>4, <2>5, <2>6, Zenon
<1> QED
  BY <1>11, <1>12, <1>13, Zenon

\* One more declaration.
LEMMA FileFormsAppend ==
    ASSUME NEW D \in Nat, NEW tr \in Seq(DeclarationNodes(FormsTo(D)))
    PROVE  /\ FileForms(tr, D) \in SUBSET Text /\ <<>> \in FileForms(<<>>, D)
           /\ \A node \in DeclarationNodes(FormsTo(D)) : \A r \in FileForms(tr, D), w \in DeclarationForms(node, FormsTo(D)) :
                Joined(r, w) \in FileForms(Append(tr, node), D)
<1> DEFINE G == FormsTo(D)
           X == DeclarationNodes(G)
           h == [node \in X |-> DeclarationForms(node, G)]
           V == SUBSET Text
<1>1. \A node \in X : DeclarationForms(node, G) \in V
  BY FormsTyped, DeclarationFormsAre
<1>2. Maps(h, X, V) /\ \A node \in X : h[node] = DeclarationForms(node, G)
  <2>1. \A node \in X : h[node] = DeclarationForms(node, G)
    BY Zenon
  <2> HIDE DEF h, X, V
  <2> QED
    BY <1>1, <2>1 DEF Maps
<1>3. ASSUME NEW s \in Seq(X)
      PROVE  FileForms(s, D) = Concatenations(Mapped(s, h))
  <2>1. \A k \in DOMAIN s : s[k] \in X
    OBVIOUS
  <2>2. \A k \in DOMAIN s : DeclarationForms(s[k], G) = h[s[k]]
    BY <1>2, <2>1, Zenon
  <2>3. [k \in DOMAIN s |-> DeclarationForms(s[k], G)] = Mapped(s, h)
    <3> HIDE DEF h
    <3> QED
      BY <2>2, Zenon DEF Mapped
  <2> QED
    BY <2>3, Zenon DEF FileForms
<1> HIDE DEF h, X, V
<1>4. tr \in Seq(X) /\ <<>> \in Seq(X) /\ NodeOf("dependency", <<>>) \in X
  <2>1. <<>> \in Seq({Leaf("name")})
    OBVIOUS
  <2>2. TypedForms(G)
    BY FormsTyped
  <2>3. NodeOf("dependency", <<>>) \in X
    BY <2>1, <2>2, DeclarationFormsAre, Zenon DEF X
  <2>4. tr \in Seq(X)
    BY DEF X
  <2> QED
    BY <2>3, <2>4
<1>5. Mapped(tr, h) \in Seq(V) /\ Mapped(<<>>, h) \in Seq(V) /\ Mapped(<<>>, h) = <<>>
  <2>1. Mapped(<<>>, h) = <<>>
    BY DEF Mapped
  <2>2. Mapped(tr, h) \in Seq(V) /\ Mapped(<<>>, h) \in Seq(V)
    BY <1>2, <1>4, MappedAppend, Zenon
  <2> QED
    BY <2>1, <2>2
<1>6. FileForms(tr, D) \in SUBSET Text
  BY <1>3, <1>4, <1>5, ConcatenationsType, Zenon DEF V, Text
<1>7. <<>> \in FileForms(<<>>, D)
  <2>1. Concatenations(<<>>) = {<<>>}
    BY <1>5, ConcatenationsType DEF V, Text
  <2> QED
    BY <1>3, <1>4, <1>5, <2>1
<1>8. ASSUME NEW node \in X, NEW r \in FileForms(tr, D), NEW w \in DeclarationForms(node, G)
      PROVE  Joined(r, w) \in FileForms(Append(tr, node), D)
  <2>1. Mapped(Append(tr, node), h) = Append(Mapped(tr, h), h[node])
    BY <1>2, <1>4, MappedAppend
  <2>2. h[node] \in V /\ w \in h[node]
    BY <1>2 DEF Maps
  <2>3. r \in Concatenations(Mapped(tr, h))
    BY <1>3, <1>4
  <2>4. Joined(r, w) \in Concatenations(Append(Mapped(tr, h), h[node]))
    BY <1>5, <2>2, <2>3, ConcatenationsAppend, Zenon DEF V, Text
  <2>5. Append(tr, node) \in Seq(X)
    BY <1>4
  <2> QED
    BY <1>3, <2>1, <2>4, <2>5
<1> QED
  BY <1>6, <1>7, <1>8 DEF X

-----------------------------------------------------------------------------
(* What the calls on the stack have read. *)

\* The tokens that begin and end what a function reads, the token its caller read
\* included, and its script between them.
Opening ==
    [task       |-> <<"task", "identifier", "equals">>,
     dependency |-> <<"identifier", "depends">>,
     run_level  |-> <<"run_level", "identifier", "colon">>,
     struct     |-> <<"identifier", "lbrace">>,
     property   |-> <<"identifier", "equals">>]
Body ==
    [task       |-> <<"VALUE", "semicolon">>,
     dependency |-> <<"NAMES", "semicolon">>,
     run_level  |-> <<"NAMES", "semicolon">>,
     struct     |-> <<"PROPERTIES", "rbrace">>,
     property   |-> <<"VALUE">>]
Closing ==
    [task       |-> <<"semicolon">>,
     dependency |-> <<"semicolon">>,
     run_level  |-> <<"semicolon">>,
     struct     |-> <<"rbrace">>,
     property   |-> <<>>]

Function == {"task", "dependency", "run_level", "struct", "property"}
DeclarationFn == {"task", "dependency", "run_level"}

\* A call that misses nothing.
Frame(fn, rest, ch) == [fn |-> fn, rest |-> rest, missing |-> {}, children |-> ch]
IsFrame(f, rest) == f.fn \in Function /\ f = Frame(f.fn, rest, f.children)

\* The children and the text m of a body that has been read.
BodyRead(fn, ch, G, m) ==
    \/ fn \in {"task", "property"} /\ \E v \in ValuesIn(G) : ch = <<v>> /\ m \in G[v]
    \/ fn \in {"dependency", "run_level"} /\ ch \in Seq({Leaf("name")}) /\ m \in NameForms(ch)
    \/ fn = "struct" /\ ch \in Seq(PropertiesIn(G)) /\ m \in PropertyForms(ch, G)

\* The same before a value or in a loop, where the next token is t.
InBody(fn, ch, G, t, m) ==
    \/ fn \in {"task", "property"} /\ ch = <<>> /\ m = <<>>
    \/ fn \in {"dependency", "run_level"} /\ ch \in Seq({Leaf("name")}) /\ m = Names(2 * Len(ch))
    \/ /\ fn = "struct" /\ ch \in Seq(PropertiesIn(G))
       /\ m \in Separate(ch, G) \/ (t = "rbrace" /\ m \in PropertyForms(ch, G))

\* The function on the top of the stack has read w.
OpeningRead(f, w) ==
    \/ f = Frame("task", <<"identifier", "equals", "VALUE", "semicolon">>, <<>>) /\ w = <<"task">>
    \/ f = Frame("task", <<"equals", "VALUE", "semicolon">>, <<>>) /\ w = <<"task", "identifier">>
    \/ f = Frame("dependency", <<"depends", "NAMES", "semicolon">>, <<>>) /\ w = <<"identifier">>
    \/ f = Frame("run_level", <<"identifier", "colon", "NAMES", "semicolon">>, <<>>) /\ w = <<"run_level">>
    \/ f = Frame("run_level", <<"colon", "NAMES", "semicolon">>, <<>>) /\ w = <<"run_level", "identifier">>
    \/ f = Frame("property", <<"equals", "VALUE">>, <<>>) /\ w = <<"identifier">>
AtBody(f, G, t, w) ==
    /\ IsFrame(f, Body[f.fn])
    /\ \E m \in Text : InBody(f.fn, f.children, G, t, m) /\ w = Joined(Opening[f.fn], m)
AtComma(f, G, w) ==
    /\ f.fn = "struct" /\ IsFrame(f, <<"COMMA", "PROPERTIES", "rbrace">>)
    /\ \E ch \in Seq(PropertiesIn(G)), c \in PropertiesIn(G) :
         /\ f.children = Append(ch, c)
         /\ \E s \in Separate(ch, G), v \in G[c] : w = Joined(Opening.struct, Joined(s, v))
AtClosing(f, G, w) ==
    /\ IsFrame(f, Closing[f.fn])
    /\ \E m \in Text : BodyRead(f.fn, f.children, G, m) /\ w = Joined(Opening[f.fn], m)
AtEnd(f, G, w) ==
    /\ f.fn # "property" /\ IsFrame(f, <<>>)
    /\ \E m \in Text : BodyRead(f.fn, f.children, G, m) /\ w = Joined(Joined(Opening[f.fn], m), Closing[f.fn])
Reads(f, G, t, w) ==
    \/ OpeningRead(f, w) \/ AtBody(f, G, t, w) \/ AtComma(f, G, w) \/ AtClosing(f, G, w) \/ AtEnd(f, G, w)

\* A function that has called another one had read w before.
Waits(f, G, w) ==
    \/ f.fn \in {"task", "property"} /\ f = Frame(f.fn, Closing[f.fn], <<>>) /\ w = Opening[f.fn]
    \/ /\ f.fn = "struct" /\ IsFrame(f, <<"COMMA", "PROPERTIES", "rbrace">>)
       /\ f.children \in Seq(PropertiesIn(G))
       /\ \E s \in Separate(f.children, G) : w = Joined(Opening.struct, s)

\* Declarations call struct, struct calls property and property calls struct.
FnsAt(i) == IF i = 1 THEN DeclarationFn ELSE IF i % 2 = 0 THEN {"struct"} ELSE {"property"}

FormsAt(i, D) == FormsTo(D + 1 - i)
ReadAt(f, i, D, t) == {w \in Text : f.fn \in FnsAt(i) /\ Reads(f, FormsAt(i, D), t, w)}
WaitAt(f, i, D) == {w \in Text : f.fn \in FnsAt(i) /\ Waits(f, FormsAt(i, D), w)}

\* What was read before the top call.
Sets(base, tr, D) == [k \in 1..Len(base) + 1 |-> IF k = 1 THEN FileForms(tr, D) ELSE WaitAt(base[k - 1], k - 1, D)]
Before(base, tr, D) == Concatenations(Sets(base, tr, D))

Tok(ts, a) == IF a > Len(ts) THEN "eof" ELSE ts[a]

\* What was read before a is what was read before the call f and by it.
Fits(ts, a, base, f, tr) ==
    Splits(Cut(ts, 1, a), Before(base, tr, Len(ts)), ReadAt(f, Len(base) + 1, Len(ts), Tok(ts, a)))

\* All that was read before a is accounted for by the tree and the stack.
Accounted(ts, a, st, tr) ==
    \/ st = <<>> /\ Cut(ts, 1, a) \in FileForms(tr, Len(ts))
    \/ \E X : \E base \in Seq(X), f \in X : st = Append(base, f) /\ Fits(ts, a, base, f, tr)

TreesTo(D) == Seq(DeclarationNodes(FormsTo(D)))

\* One set for the tree and one for every waiting call.
LEMMA SetsFacts ==
    ASSUME NEW D \in Nat, NEW tr \in TreesTo(D), NEW X, NEW base \in Seq(X)
    PROVE  /\ Sets(base, tr, D) \in Seq(SUBSET Text) /\ Sets(<<>>, tr, D) = Append(<<>>, FileForms(tr, D))
           /\ \A f \in X : Sets(Append(base, f), tr, D) = Append(Sets(base, tr, D), WaitAt(f, Len(base) + 1, D))
<1> DEFINE V == SUBSET Text
           A == FileForms(tr, D)
<1>1. A \in V
  BY FileFormsAppend, Zenon DEF TreesTo
<1>2. \A f, i : WaitAt(f, i, D) \in V
  BY DEF WaitAt
<1> HIDE DEF V, A
<1>3. ASSUME NEW b \in Seq(X)
      PROVE  /\ Sets(b, tr, D) \in Seq(V) /\ Len(Sets(b, tr, D)) = Len(b) + 1
             /\ \A k \in 1..Len(b) + 1 : Sets(b, tr, D)[k] = IF k = 1 THEN A ELSE WaitAt(b[k - 1], k - 1, D)
  <2>1. Sets(b, tr, D) = [k \in 1..Len(b) + 1 |-> IF k = 1 THEN A ELSE WaitAt(b[k - 1], k - 1, D)]
    BY Zenon DEF Sets, A
  <2>2. \A k \in 1..Len(b) + 1 : (IF k = 1 THEN A ELSE WaitAt(b[k - 1], k - 1, D)) \in V
    BY <1>1, <1>2
  <2>3. Sets(b, tr, D) \in [1..Len(b) + 1 -> V]
    BY <2>1, <2>2, Zenon
  <2>4. Len(b) + 1 \in Nat
    OBVIOUS
  <2>5. \A k \in 1..Len(b) + 1 : Sets(b, tr, D)[k] = IF k = 1 THEN A ELSE WaitAt(b[k - 1], k - 1, D)
    BY <2>1, Zenon
  <2>6. PICK S : S = Sets(b, tr, D)
    OBVIOUS
  <2>7. S \in Seq(V) /\ Len(S) = Len(b) + 1
    BY <2>3, <2>4, <2>6
  <2> QED
    BY <2>5, <2>6, <2>7, Zenon
<1>4. Sets(<<>>, tr, D) = Append(<<>>, A)
  <2>1. PICK S : S = Sets(<<>>, tr, D)
    OBVIOUS
  <2>2. <<>> \in Seq(X) /\ Len(<<>>) + 1 = 1 /\ 1 \in 1..1
    OBVIOUS
  <2>3. S \in Seq(V) /\ Len(S) = 1 /\ S[1] = A
    BY <1>3, <2>1, <2>2
  <2>4. Append(<<>>, A) = <<A>>
    OBVIOUS
  <2>5. S = <<A>>
    BY <2>3
  <2> QED
    BY <2>1, <2>4, <2>5
<1>5. ASSUME NEW f \in X
      PROVE  Sets(Append(base, f), tr, D) = Append(Sets(base, tr, D), WaitAt(f, Len(base) + 1, D))
  <2> DEFINE n == Len(base)
             b == Append(base, f)
             w == WaitAt(f, n + 1, D)
  <2>1. n \in Nat /\ b \in Seq(X) /\ Len(b) = n + 1 /\ b[n + 1] = f /\ \A k \in 1..n : b[k] = base[k]
    BY AppendProperties
  <2> HIDE DEF n, b
  <2>2. PICK S : S = Sets(base, tr, D)
    OBVIOUS
  <2>3. PICK T : T = Sets(b, tr, D)
    OBVIOUS
  <2>4. S \in Seq(V) /\ Len(S) = n + 1 /\ \A k \in 1..n + 1 : S[k] = IF k = 1 THEN A ELSE WaitAt(base[k - 1], k - 1, D)
    BY <1>3, <2>2, Zenon DEF n
  <2>5. T \in Seq(V) /\ Len(T) = Len(b) + 1 /\ \A k \in 1..Len(b) + 1 : T[k] = IF k = 1 THEN A ELSE WaitAt(b[k - 1], k - 1, D)
    BY <1>3, <2>1, <2>3, Zenon
  <2> DEFINE e == Append(S, w)
  <2>6. w \in V
    BY <1>2
  <2> HIDE DEF w
  <2>7. e \in Seq(V) /\ Len(e) = n + 2 /\ e[n + 2] = w /\ \A k \in 1..n + 1 : e[k] = S[k]
    BY <2>1, <2>4, <2>6, AppendProperties
  <2> HIDE DEF e
  <2>8. ASSUME NEW k \in 1..n + 2 PROVE T[k] = e[k]
    <3>1. CASE k = n + 2
      <4>1. k # 1 /\ k - 1 = n + 1 /\ k \in 1..Len(b) + 1
        BY <2>1, <3>1
      <4>2. T[k] = WaitAt(b[n + 1], n + 1, D)
        BY <2>5, <4>1, Zenon
      <4> QED
        BY <2>1, <2>7, <3>1, <4>2 DEF w
    <3>2. CASE k # n + 2 /\ k # 1
      <4>1. k \in 1..n + 1 /\ k \in 1..Len(b) + 1 /\ k - 1 \in 1..n
        BY <2>1, <3>2
      <4>2. T[k] = WaitAt(b[k - 1], k - 1, D) /\ S[k] = WaitAt(base[k - 1], k - 1, D)
        BY <2>4, <2>5, <3>2, <4>1, Zenon
      <4>3. b[k - 1] = base[k - 1] /\ e[k] = S[k]
        BY <2>1, <2>7, <4>1, Zenon
      <4> QED
        BY <4>2, <4>3, Zenon
    <3>3. CASE k = 1
      <4>1. k \in 1..n + 1 /\ k \in 1..Len(b) + 1
        BY <2>1, <3>3
      <4> QED
        BY <2>4, <2>5, <2>7, <3>3, <4>1, Zenon
    <3> QED
      BY <3>1, <3>2, <3>3
  <2>9. T = e
    <3>1. Len(T) = n + 2 /\ Len(e) = n + 2
      BY <2>1, <2>5, <2>7
    <3> QED
      BY <2>5, <2>7, <2>8, <3>1, SeqEqual
  <2> QED
    BY <2>2, <2>3, <2>9 DEF e, b, w, n
<1> QED
  BY <1>3, <1>4, <1>5 DEF A, V

\* The stack below the top call.
LEMMA BeforeFacts ==
    ASSUME NEW D \in Nat, NEW tr \in TreesTo(D), NEW X, NEW base \in Seq(X), NEW f \in X
    PROVE  /\ Before(base, tr, D) \in SUBSET Text
           /\ \A p : p \in Before(<<>>, tr, D) <=> p \in FileForms(tr, D)
           /\ \A p \in Before(base, tr, D), w \in WaitAt(f, Len(base) + 1, D) : Joined(p, w) \in Before(Append(base, f), tr, D)
           /\ \A q \in Before(Append(base, f), tr, D) : Splits(q, Before(base, tr, D), WaitAt(f, Len(base) + 1, D))
<1> DEFINE S == Sets(base, tr, D)
           A == FileForms(tr, D)
           B == WaitAt(f, Len(base) + 1, D)
<1>1. S \in Seq(SUBSET Seq(TokenType)) /\ Sets(<<>>, tr, D) = Append(<<>>, A) /\ Sets(Append(base, f), tr, D) = Append(S, B)
  BY SetsFacts, Zenon DEF Text
<1>2. A \in SUBSET Seq(TokenType) /\ B \in SUBSET Seq(TokenType)
  BY FileFormsAppend, Zenon DEF TreesTo, WaitAt, Text
<1> HIDE DEF S, A, B
<1>3. Before(base, tr, D) = Concatenations(S) /\ Before(Append(base, f), tr, D) = Concatenations(Append(S, B))
      /\ Before(<<>>, tr, D) = Concatenations(Append(<<>>, A))
  BY <1>1, Zenon DEF Before, S
<1>4. Concatenations(S) \in SUBSET Text
  BY <1>1, ConcatenationsType, Zenon DEF Text
<1>5. \A p \in Concatenations(S), w \in B : Joined(p, w) \in Concatenations(Append(S, B))
  BY <1>1, <1>2, ConcatenationsAppend, Zenon
<1>6. \A q \in Concatenations(Append(S, B)) : Splits(q, Concatenations(S), B)
  BY <1>1, <1>2, ConcatenationsLast, Zenon
<1>7. <<>> \in Seq(SUBSET Seq(TokenType))
  OBVIOUS
<1>8. Concatenations(<<>>) = {<<>>}
  BY <1>7, ConcatenationsType, Zenon
<1>9. ASSUME NEW p \in A PROVE p \in Concatenations(Append(<<>>, A))
  <2>1. <<>> \in Concatenations(<<>>)
    BY <1>8
  <2>2. Joined(<<>>, p) \in Concatenations(Append(<<>>, A))
    BY <1>2, <1>7, <2>1, ConcatenationsAppend, Zenon
  <2>3. p \in Seq(TokenType)
    BY <1>2
  <2>4. Joined(<<>>, p) = p
    BY <2>3, JoinedFacts
  <2> QED
    BY <2>2, <2>4
<1>10. ASSUME NEW p \in Concatenations(Append(<<>>, A)) PROVE p \in A
  <2>1. PICK e \in Concatenations(<<>>), a \in A : p = Joined(e, a)
    <3>1. Splits(p, Concatenations(<<>>), A)
      BY <1>2, <1>7, ConcatenationsLast, Zenon
    <3> QED
      BY <3>1, Zenon DEF Splits
  <2>2. e = <<>> /\ a \in Seq(TokenType)
    BY <1>2, <1>8
  <2>3. Joined(<<>>, a) = a
    BY <2>2, JoinedFacts
  <2> QED
    BY <2>1, <2>2, <2>3
<1> QED
  BY <1>3, <1>4, <1>5, <1>6, <1>9, <1>10 DEF A, B

-----------------------------------------------------------------------------
(* The steps of the parser on what was read *)
\* What was read grows by what is read next.
LEMMA CutsJoin ==
    ASSUME NEW ts \in Text, NEW a \in 1..Len(ts) + 1, NEW b \in a..Len(ts) + 1
    PROVE  /\ Cut(ts, 1, a) \in Text /\ Cut(ts, a, b) \in Text
           /\ Cut(ts, 1, b) = Joined(Cut(ts, 1, a), Cut(ts, a, b))
<1>1. Len(ts) \in Nat /\ ts \in Seq(TokenType)
  BY DEF Text
<1>2. 1 \in 1..Len(ts) + 1 /\ a \in 1..Len(ts) + 1
  BY <1>1
<1>3. Cut(ts, 1, a) \in Text /\ Cut(ts, a, b) \in Text
  BY <1>1, <1>2, CutFacts, Zenon DEF Text
<1>4. Joined(Cut(ts, 1, a), Cut(ts, a, b)) = Cut(ts, 1, b)
  BY <1>1, <1>2, CutJoin, Zenon
<1> QED
  BY <1>3, <1>4

\* Texts are joined in any order.
LEMMA JoinAssociates ==
    ASSUME NEW p \in Text, NEW r \in Text, NEW u \in Text
    PROVE  Joined(Joined(p, r), u) = Joined(p, Joined(r, u))
  BY JoinedFacts DEF Text

\* What a call has read is text.
LEMMA ReadText == \A f, i, D, t : ReadAt(f, i, D, t) \in SUBSET Text /\ WaitAt(f, i, D) \in SUBSET Text
  BY DEF ReadAt, WaitAt

\* The function on the top reads on.
LEMMA TopStep ==
    ASSUME NEW ts \in Text, NEW a \in 1..Len(ts) + 1, NEW b \in a..Len(ts) + 1, NEW tr \in TreesTo(Len(ts)),
           NEW X, NEW base \in Seq(X), NEW f \in X, Fits(ts, a, base, f, tr), NEW g,
           \A r \in ReadAt(f, Len(base) + 1, Len(ts), Tok(ts, a)) :
             Joined(r, Cut(ts, a, b)) \in ReadAt(g, Len(base) + 1, Len(ts), Tok(ts, b))
    PROVE  Fits(ts, b, base, g, tr)
<1> DEFINE D == Len(ts)
<1>1. D \in Nat
  BY DEF Text
<1>2. PICK p \in Before(base, tr, D), r \in ReadAt(f, Len(base) + 1, D, Tok(ts, a)) : Cut(ts, 1, a) = Joined(p, r)
  BY Zenon DEF Fits, Splits
<1>3. p \in Text /\ r \in Text
  BY <1>1, BeforeFacts, ReadText
<1>4. Cut(ts, a, b) \in Text /\ Cut(ts, 1, b) = Joined(Cut(ts, 1, a), Cut(ts, a, b))
  BY CutsJoin, Zenon
<1>5. Cut(ts, 1, b) = Joined(p, Joined(r, Cut(ts, a, b)))
  BY <1>2, <1>3, <1>4, JoinAssociates
<1>6. Joined(r, Cut(ts, a, b)) \in ReadAt(g, Len(base) + 1, D, Tok(ts, b))
  OBVIOUS
<1> QED
  BY <1>5, <1>6, Zenon DEF Fits, Splits

\* It calls a function.
LEMMA PushStep ==
    ASSUME NEW ts \in Text, NEW a \in 1..Len(ts) + 1, NEW b \in a..Len(ts) + 1, NEW tr \in TreesTo(Len(ts)),
           NEW X, NEW base \in Seq(X), NEW f \in X, Fits(ts, a, base, f, tr), NEW g \in X, NEW h,
           \A r \in ReadAt(f, Len(base) + 1, Len(ts), Tok(ts, a)) : r \in WaitAt(g, Len(base) + 1, Len(ts)),
           Cut(ts, a, b) \in ReadAt(h, Len(base) + 2, Len(ts), Tok(ts, b))
    PROVE  Fits(ts, b, Append(base, g), h, tr)
<1> DEFINE D == Len(ts)
<1>1. D \in Nat
  BY DEF Text
<1>2. PICK p \in Before(base, tr, D), r \in ReadAt(f, Len(base) + 1, D, Tok(ts, a)) : Cut(ts, 1, a) = Joined(p, r)
  BY Zenon DEF Fits, Splits
<1>3. r \in WaitAt(g, Len(base) + 1, D)
  OBVIOUS
<1>4. Joined(p, r) \in Before(Append(base, g), tr, D)
  BY <1>1, <1>3, BeforeFacts, Zenon
<1>5. Cut(ts, 1, b) = Joined(Joined(p, r), Cut(ts, a, b))
  BY <1>2, CutsJoin
<1>6. Len(Append(base, g)) + 1 = Len(base) + 2
  BY AppendProperties
<1> QED
  BY <1>4, <1>5, <1>6, Zenon DEF Fits, Splits

\* It returns to its caller.
LEMMA PopStep ==
    ASSUME NEW ts \in Text, NEW a \in 1..Len(ts) + 1, NEW tr \in TreesTo(Len(ts)),
           NEW X, NEW base \in Seq(X), NEW g \in X, NEW f, Fits(ts, a, Append(base, g), f, tr), NEW h,
           \A w \in WaitAt(g, Len(base) + 1, Len(ts)), r \in ReadAt(f, Len(base) + 2, Len(ts), Tok(ts, a)) :
             Joined(w, r) \in ReadAt(h, Len(base) + 1, Len(ts), Tok(ts, a))
    PROVE  Fits(ts, a, base, h, tr)
<1> DEFINE D == Len(ts)
<1>1. D \in Nat
  BY DEF Text
<1>2. Len(Append(base, g)) + 1 = Len(base) + 2
  BY AppendProperties
<1>3. PICK q \in Before(Append(base, g), tr, D), r \in ReadAt(f, Len(base) + 2, D, Tok(ts, a)) : Cut(ts, 1, a) = Joined(q, r)
  BY <1>2, Zenon DEF Fits, Splits
<1>4. PICK p \in Before(base, tr, D), w \in WaitAt(g, Len(base) + 1, D) : q = Joined(p, w)
  <2>1. Splits(q, Before(base, tr, D), WaitAt(g, Len(base) + 1, D))
    BY <1>1, BeforeFacts, Zenon
  <2> QED
    BY <2>1, Zenon DEF Splits
<1>5. p \in Text /\ w \in Text /\ r \in Text
  BY <1>1, BeforeFacts, ReadText
<1>6. Cut(ts, 1, a) = Joined(p, Joined(w, r))
  BY <1>3, <1>4, <1>5, JoinAssociates
<1>7. Joined(w, r) \in ReadAt(h, Len(base) + 1, D, Tok(ts, a))
  OBVIOUS
<1> QED
  BY <1>6, <1>7, Zenon DEF Fits, Splits

\* It returns its declaration to parse_file.
LEMMA TreeStep ==
    ASSUME NEW ts \in Text, NEW a \in 1..Len(ts) + 1, NEW tr \in TreesTo(Len(ts)),
           NEW f, Fits(ts, a, <<>>, f, tr), NEW node,
           \A r \in ReadAt(f, 1, Len(ts), Tok(ts, a)) :
             node \in DeclarationNodes(FormsTo(Len(ts))) /\ r \in DeclarationForms(node, FormsTo(Len(ts)))
    PROVE  Append(tr, node) \in TreesTo(Len(ts)) /\ Cut(ts, 1, a) \in FileForms(Append(tr, node), Len(ts))
<1> DEFINE D == Len(ts)
<1>1. D \in Nat
  BY DEF Text
<1>2. Len(<<>>) + 1 = 1 /\ <<>> \in Seq({f}) /\ f \in {f}
  OBVIOUS
<1>3. PICK p \in Before(<<>>, tr, D), r \in ReadAt(f, 1, D, Tok(ts, a)) : Cut(ts, 1, a) = Joined(p, r)
  BY <1>2, Zenon DEF Fits, Splits
<1>4. p \in FileForms(tr, D)
  BY <1>1, <1>2, BeforeFacts, Zenon
<1>5. node \in DeclarationNodes(FormsTo(D)) /\ r \in DeclarationForms(node, FormsTo(D))
  OBVIOUS
<1>6. Joined(p, r) \in FileForms(Append(tr, node), D)
  BY <1>1, <1>4, <1>5, FileFormsAppend, Zenon DEF TreesTo
<1>7. Append(tr, node) \in TreesTo(D)
  BY <1>5 DEF TreesTo
<1> QED
  BY <1>3, <1>6, <1>7

\* parse_file calls a function.
LEMMA DeclarationStep ==
    ASSUME NEW ts \in Text, NEW a \in 1..Len(ts) + 1, NEW b \in a..Len(ts) + 1, NEW tr \in TreesTo(Len(ts)),
           Cut(ts, 1, a) \in FileForms(tr, Len(ts)), NEW f, Cut(ts, a, b) \in ReadAt(f, 1, Len(ts), Tok(ts, b))
    PROVE  Fits(ts, b, <<>>, f, tr)
<1> DEFINE D == Len(ts)
<1>1. D \in Nat
  BY DEF Text
<1>2. Len(<<>>) + 1 = 1 /\ <<>> \in Seq({f}) /\ f \in {f}
  OBVIOUS
<1>3. Cut(ts, 1, a) \in Before(<<>>, tr, D)
  BY <1>1, <1>2, BeforeFacts, Zenon
<1>4. Cut(ts, 1, b) = Joined(Cut(ts, 1, a), Cut(ts, a, b))
  BY CutsJoin
<1> QED
  BY <1>2, <1>3, <1>4, Zenon DEF Fits, Splits

-----------------------------------------------------------------------------
(* The steps of a call *)
\* The fields of a frame.
LEMMA FrameFields ==
    \A fn, rest, ch : /\ Frame(fn, rest, ch).fn = fn /\ Frame(fn, rest, ch).rest = rest
                      /\ Frame(fn, rest, ch).missing = {} /\ Frame(fn, rest, ch).children = ch
  BY DEF Frame

\* Short texts joined.
LEMMA ShortJoins ==
    ASSUME NEW x, NEW y, NEW z
    PROVE  /\ Joined(<<x>>, <<y>>) = <<x, y>> /\ Joined(<<x, y>>, <<z>>) = <<x, y, z>>
           /\ Joined(<<x>>, <<y, z>>) = <<x, y, z>>
<1> DEFINE S == {x, y, z}
           a == <<x>> \o <<y>>
           b == <<x, y>> \o <<z>>
           c == <<x>> \o <<y, z>>
<1>1. <<x>> \in Seq(S) /\ <<y>> \in Seq(S) /\ <<z>> \in Seq(S) /\ <<x, y>> \in Seq(S) /\ <<y, z>> \in Seq(S)
  OBVIOUS
<1>2. Len(<<x>>) = 1 /\ Len(<<y>>) = 1 /\ Len(<<z>>) = 1 /\ Len(<<x, y>>) = 2 /\ Len(<<y, z>>) = 2
  OBVIOUS
<1> HIDE DEF S
<1>3. a \in Seq(S) /\ Len(a) = 2 /\ \A i \in 1..2 : a[i] = IF i <= 1 THEN <<x>>[i] ELSE <<y>>[i - 1]
  BY <1>1, <1>2, ConcatProperties
<1>4. b \in Seq(S) /\ Len(b) = 3 /\ \A i \in 1..3 : b[i] = IF i <= 2 THEN <<x, y>>[i] ELSE <<z>>[i - 2]
  BY <1>1, <1>2, ConcatProperties
<1>9. c \in Seq(S) /\ Len(c) = 3 /\ \A i \in 1..3 : c[i] = IF i <= 1 THEN <<x>>[i] ELSE <<y, z>>[i - 1]
  BY <1>1, <1>2, ConcatProperties
<1> HIDE DEF a, b, c
<1>5. a[1] = x /\ a[2] = y
  BY <1>3
<1>6. b[1] = x /\ b[2] = y /\ b[3] = z
  BY <1>4
<1>7. a = <<x, y>>
  BY <1>3, <1>5
<1>8. b = <<x, y, z>>
  BY <1>4, <1>6
<1>10. c[1] = x /\ c[2] = y /\ c[3] = z
  BY <1>9
<1>11. c = <<x, y, z>>
  BY <1>9, <1>10
<1> QED
  BY <1>7, <1>8, <1>11 DEF a, b, c, Joined

\* The frame is done with its step and has got nodes; has got nodes; expects a comma.
Gets(f, nodes) == [f EXCEPT !.rest = Tail(@), !.children = @ \o nodes]
More(f, nodes) == [f EXCEPT !.children = @ \o nodes]
WithComma(f) == [f EXCEPT !.rest = <<"COMMA">> \o @]

\* They make frames of frames.
LEMMA FrameUpdates ==
    ASSUME NEW f, f = Frame(f.fn, f.rest, f.children)
    PROVE  /\ \A nodes : Gets(f, nodes) = Frame(f.fn, Tail(f.rest), f.children \o nodes)
           /\ \A nodes : More(f, nodes) = Frame(f.fn, f.rest, f.children \o nodes)
           /\ WithComma(f) = Frame(f.fn, <<"COMMA">> \o f.rest, f.children)
<1>1. PICK fn, rest, ch : fn = f.fn /\ rest = f.rest /\ ch = f.children
  OBVIOUS
<1>f. f = Frame(fn, rest, ch)
  BY <1>1
<1>2. ASSUME NEW r, NEW c PROVE [f EXCEPT !.rest = r, !.children = c] = Frame(fn, r, c)
  <2>1. [f EXCEPT !.rest = r, !.children = c] = [[f EXCEPT !.rest = r] EXCEPT !.children = c]
    OBVIOUS
  <2>2. [f EXCEPT !.rest = r] = Frame(fn, r, ch)
    BY <1>f DEF Frame
  <2>3. [Frame(fn, r, ch) EXCEPT !.children = c] = Frame(fn, r, c)
    BY DEF Frame
  <2> QED
    BY <2>1, <2>2, <2>3, Zenon
<1>3. \A c : [f EXCEPT !.children = c] = Frame(fn, rest, c)
  BY <1>f DEF Frame
<1>4. \A r : [f EXCEPT !.rest = r] = Frame(fn, r, ch)
  BY <1>f DEF Frame
<1>5. ASSUME NEW nodes PROVE Gets(f, nodes) = Frame(fn, Tail(rest), ch \o nodes)
  BY <1>1, <1>2, Zenon DEF Gets
<1>6. ASSUME NEW nodes PROVE More(f, nodes) = Frame(fn, rest, ch \o nodes)
  BY <1>1, <1>3, Zenon DEF More
<1>7. WithComma(f) = Frame(fn, <<"COMMA">> \o rest, ch)
  BY <1>1, <1>4, Zenon DEF WithComma
<1> QED
  BY <1>1, <1>5, <1>6, <1>7, Zenon

\* The tokens around a body, function by function.
LEMMA OpeningsAre ==
    /\ Opening["task"] = <<"task", "identifier", "equals">> /\ Closing["task"] = <<"semicolon">>
    /\ Opening["dependency"] = <<"identifier", "depends">> /\ Closing["dependency"] = <<"semicolon">>
    /\ Opening["run_level"] = <<"run_level", "identifier", "colon">> /\ Closing["run_level"] = <<"semicolon">>
    /\ Opening["struct"] = <<"identifier", "lbrace">> /\ Closing["struct"] = <<"rbrace">>
    /\ Opening["property"] = <<"identifier", "equals">> /\ Closing["property"] = <<>>
  BY DEF Opening, Closing

\* They are text.
LEMMA OpeningText ==
    \A fn \in Function : Opening[fn] \in Text /\ Closing[fn] \in Text /\ Joined(Opening[fn], <<>>) = Opening[fn]
<1> SUFFICES ASSUME NEW fn \in Function PROVE Opening[fn] \in Text /\ Closing[fn] \in Text /\ Joined(Opening[fn], <<>>) = Opening[fn]
  OBVIOUS
<1>1. fn \in {"task", "dependency", "run_level", "struct", "property"}
  BY DEF Function
<1>2. /\ <<"task", "identifier", "equals">> \in Text /\ <<"identifier", "depends">> \in Text
      /\ <<"run_level", "identifier", "colon">> \in Text /\ <<"identifier", "lbrace">> \in Text
      /\ <<"identifier", "equals">> \in Text /\ <<"semicolon">> \in Text /\ <<"rbrace">> \in Text /\ <<>> \in Text
  BY DEF Text, TokenType
<1>3. Opening[fn] \in Text /\ Closing[fn] \in Text
  BY <1>1, <1>2, OpeningsAre
<1> QED
  BY <1>3, JoinedFacts DEF Text

\* The frames of the calls that read, and the next step of each.
LEMMA ReadsFrame ==
    ASSUME NEW G, NEW f, NEW t, NEW w, Reads(f, G, t, w)
    PROVE  f.fn \in Function /\ f = Frame(f.fn, f.rest, f.children) /\ f.children \o <<>> = f.children
<1>1. CASE OpeningRead(f, w)
  BY <1>1 DEF OpeningRead, Function, Frame
<1>2. ASSUME NEW Y, f.children \in Seq(Y) PROVE f.children \o <<>> = f.children
  BY <1>2
<1>3. ASSUME NEW rest, IsFrame(f, rest) PROVE f.fn \in Function /\ f = Frame(f.fn, f.rest, f.children)
  BY <1>3, FrameFields DEF IsFrame
<1>4. CASE AtBody(f, G, t, w)
  <2>1. PICK m \in Text : InBody(f.fn, f.children, G, t, m)
    BY <1>4 DEF AtBody
  <2>2. f.children = <<>> \/ f.children \in Seq({Leaf("name")}) \/ f.children \in Seq(PropertiesIn(G))
    BY <2>1 DEF InBody
  <2>3. f.children \o <<>> = f.children
    BY <1>2, <2>2
  <2> QED
    BY <1>3, <1>4, <2>3, Zenon DEF AtBody
<1>5. ASSUME NEW m, BodyRead(f.fn, f.children, G, m) PROVE f.children \o <<>> = f.children
  <2>1. (\E v : f.children = <<v>>) \/ f.children \in Seq({Leaf("name")}) \/ f.children \in Seq(PropertiesIn(G))
    BY <1>5, Zenon DEF BodyRead
  <2>2. ASSUME NEW v, f.children = <<v>> PROVE f.children \in Seq({v})
    BY <2>2
  <2> QED
    BY <1>2, <2>1, <2>2
<1>6. CASE AtClosing(f, G, w)
  BY <1>3, <1>5, <1>6, Zenon DEF AtClosing
<1>7. CASE AtEnd(f, G, w)
  BY <1>3, <1>5, <1>7, Zenon DEF AtEnd
<1>8. CASE AtComma(f, G, w)
  <2>1. PICK ch \in Seq(PropertiesIn(G)), c \in PropertiesIn(G) : f.children = Append(ch, c)
    BY <1>8 DEF AtComma
  <2>2. f.children \in Seq(PropertiesIn(G))
    BY <2>1
  <2> QED
    BY <1>2, <1>3, <1>8, <2>2, Zenon DEF AtComma
<1> QED
  BY <1>1, <1>4, <1>6, <1>7, <1>8 DEF Reads

\* Which step belongs to which place in a function.
LEMMA StepsAre ==
    ASSUME NEW G, NEW f, NEW t, NEW w, Reads(f, G, t, w)
    PROVE  /\ f.rest = <<>> => AtEnd(f, G, w) \/ (f.fn = "property" /\ AtClosing(f, G, w))
           /\ f.rest # <<>> =>
                /\ Head(f.rest) \in {"VALUE", "NAMES", "PROPERTIES"} => AtBody(f, G, t, w)
                /\ Head(f.rest) = "COMMA" => AtComma(f, G, w)
                /\ Head(f.rest) \in TokenType => OpeningRead(f, w) \/ (f.fn # "property" /\ AtClosing(f, G, w))
<1>1. CASE OpeningRead(f, w)
  <2>1. f.rest # <<>> /\ Head(f.rest) \in {"identifier", "equals", "depends", "colon"}
    BY <1>1 DEF OpeningRead, Frame
  <2> QED
    BY <1>1, <2>1
<1>2. ASSUME NEW rest, IsFrame(f, rest) PROVE f.rest = rest /\ f.fn \in Function
  BY <1>2, FrameFields DEF IsFrame
<1>3. CASE AtBody(f, G, t, w)
  <2>1. f.rest = Body[f.fn] /\ f.fn \in Function
    BY <1>2, <1>3, Zenon DEF AtBody
  <2>2. f.rest # <<>> /\ Head(f.rest) \in {"VALUE", "NAMES", "PROPERTIES"}
    BY <2>1 DEF Body, Function
  <2> QED
    BY <1>3, <2>2 DEF TokenType
<1>4. CASE AtComma(f, G, w)
  <2>1. f.rest = <<"COMMA", "PROPERTIES", "rbrace">>
    BY <1>2, <1>4, Zenon DEF AtComma
  <2>2. f.rest # <<>> /\ Head(f.rest) = "COMMA"
    BY <2>1
  <2> QED
    BY <1>4, <2>2 DEF TokenType
<1>5. CASE AtClosing(f, G, w)
  <2>1. f.rest = Closing[f.fn] /\ f.fn \in Function
    BY <1>2, <1>5, Zenon DEF AtClosing
  <2>2. IF f.fn = "property" THEN f.rest = <<>> ELSE f.rest # <<>> /\ Head(f.rest) \in {"semicolon", "rbrace"}
    BY <2>1 DEF Closing, Function
  <2> QED
    BY <1>5, <2>2
<1>6. CASE AtEnd(f, G, w)
  <2>1. f.rest = <<>>
    BY <1>2, <1>6, Zenon DEF AtEnd
  <2> QED
    BY <1>6, <2>1
<1> QED
  BY <1>1, <1>3, <1>4, <1>5, <1>6 DEF Reads

\* An expected token.
LEMMA ExpectReads ==
    ASSUME NEW G, NEW f, NEW t, NEW w \in Text, Reads(f, G, t, w), NEW type \in TokenType,
           f.rest # <<>>, Head(f.rest) = type, NEW u
    PROVE  Reads(Frame(f.fn, Tail(f.rest), f.children), G, u, Joined(w, <<type>>))
<1> DEFINE g == Frame(f.fn, Tail(f.rest), f.children)
<1>1. g.fn = f.fn /\ g.rest = Tail(f.rest) /\ g.children = f.children
  BY FrameFields
<1>2. CASE AtClosing(f, G, w) /\ f.fn # "property"
  <2>1. IsFrame(f, Closing[f.fn]) /\ f.fn \in Function /\ f.rest = Closing[f.fn]
    BY <1>2, FrameFields DEF AtClosing, IsFrame
  <2>2. Closing[f.fn] = <<type>> /\ Tail(f.rest) = <<>>
    <3>1. Closing[f.fn] = <<"semicolon">> \/ Closing[f.fn] = <<"rbrace">>
      BY <1>2, <2>1, OpeningsAre DEF Function
    <3>2. PICK x : Closing[f.fn] = <<x>>
      BY <3>1
    <3>3. Head(<<x>>) = x /\ Tail(<<x>>) = <<>>
      OBVIOUS
    <3> QED
      BY <2>1, <3>2, <3>3
  <2>3. PICK m \in Text : BodyRead(f.fn, f.children, G, m) /\ w = Joined(Opening[f.fn], m)
    BY <1>2 DEF AtClosing
  <2>4. Joined(w, <<type>>) = Joined(Joined(Opening[f.fn], m), Closing[f.fn])
    BY <2>2, <2>3
  <2>5. g.fn # "property" /\ IsFrame(g, <<>>)
    BY <1>1, <1>2, <2>1, <2>2 DEF IsFrame
  <2>6. AtEnd(g, G, Joined(w, <<type>>))
    BY <1>1, <2>3, <2>4, <2>5, Zenon DEF AtEnd
  <2> QED
    BY <2>6 DEF Reads
<1>3. CASE OpeningRead(f, w)
  <2>1. f.children = <<>>
    BY <1>3 DEF OpeningRead, Frame
  <2>2. ASSUME g = Frame(f.fn, Body[f.fn], <<>>), f.fn \in {"task", "property", "dependency", "run_level"},
               Joined(w, <<type>>) = Opening[f.fn]
        PROVE  Reads(g, G, u, Joined(w, <<type>>))
    <3>1. g.children = <<>> /\ IsFrame(g, Body[g.fn])
      BY <1>1, <2>1, <2>2 DEF IsFrame, Function
    <3>2. Names(2 * Len(<<>>)) = <<>> /\ <<>> \in Seq({Leaf("name")}) /\ <<>> \in Text
      BY NamesFacts DEF Text
    <3>3. InBody(g.fn, g.children, G, u, <<>>)
      BY <1>1, <2>2, <3>1, <3>2 DEF InBody
    <3>4. Joined(w, <<type>>) = Joined(Opening[g.fn], <<>>)
      BY <1>1, <2>2, OpeningText DEF Function
    <3>5. AtBody(g, G, u, Joined(w, <<type>>))
      BY <3>1, <3>2, <3>3, <3>4, Zenon DEF AtBody
    <3> QED
      BY <3>5 DEF Reads
  <2>3. CASE f = Frame("task", <<"identifier", "equals", "VALUE", "semicolon">>, <<>>) /\ w = <<"task">>
    <3>1. f.fn = "task" /\ f.rest = <<"identifier", "equals", "VALUE", "semicolon">>
      BY <2>3, FrameFields
    <3>2. g = Frame("task", <<"equals", "VALUE", "semicolon">>, <<>>) /\ type = "identifier"
      BY <2>1, <3>1
    <3>3. Joined(w, <<type>>) = <<"task", "identifier">>
      BY <2>3, <3>2, ShortJoins
    <3> QED
      BY <3>2, <3>3 DEF Reads, OpeningRead
  <2>4. CASE f = Frame("task", <<"equals", "VALUE", "semicolon">>, <<>>) /\ w = <<"task", "identifier">>
    <3>1. f.fn = "task" /\ f.rest = <<"equals", "VALUE", "semicolon">>
      BY <2>4, FrameFields
    <3>2. g = Frame("task", <<"VALUE", "semicolon">>, <<>>) /\ type = "equals"
      BY <2>1, <3>1
    <3>3. Joined(w, <<type>>) = <<"task", "identifier", "equals">>
      <4>1. Joined(<<"task", "identifier">>, <<"equals">>) = <<"task", "identifier", "equals">>
        BY ShortJoins
      <4> QED
        BY <2>4, <3>2, <4>1
    <3> QED
      BY <2>2, <3>1, <3>2, <3>3 DEF Body, Opening
  <2>5. CASE f = Frame("dependency", <<"depends", "NAMES", "semicolon">>, <<>>) /\ w = <<"identifier">>
    <3>1. f.fn = "dependency" /\ f.rest = <<"depends", "NAMES", "semicolon">>
      BY <2>5, FrameFields
    <3>2. g = Frame("dependency", <<"NAMES", "semicolon">>, <<>>) /\ type = "depends"
      BY <2>1, <3>1
    <3>3. Joined(w, <<type>>) = <<"identifier", "depends">>
      BY <2>5, <3>2, ShortJoins
    <3> QED
      BY <2>2, <3>1, <3>2, <3>3 DEF Body, Opening
  <2>6. CASE f = Frame("run_level", <<"identifier", "colon", "NAMES", "semicolon">>, <<>>) /\ w = <<"run_level">>
    <3>1. f.fn = "run_level" /\ f.rest = <<"identifier", "colon", "NAMES", "semicolon">>
      BY <2>6, FrameFields
    <3>2. g = Frame("run_level", <<"colon", "NAMES", "semicolon">>, <<>>) /\ type = "identifier"
      BY <2>1, <3>1
    <3>3. Joined(w, <<type>>) = <<"run_level", "identifier">>
      BY <2>6, <3>2, ShortJoins
    <3> QED
      BY <3>2, <3>3 DEF Reads, OpeningRead
  <2>7. CASE f = Frame("run_level", <<"colon", "NAMES", "semicolon">>, <<>>) /\ w = <<"run_level", "identifier">>
    <3>1. f.fn = "run_level" /\ f.rest = <<"colon", "NAMES", "semicolon">>
      BY <2>7, FrameFields
    <3>2. g = Frame("run_level", <<"NAMES", "semicolon">>, <<>>) /\ type = "colon"
      BY <2>1, <3>1
    <3>3. Joined(w, <<type>>) = <<"run_level", "identifier", "colon">>
      <4>1. Joined(<<"run_level", "identifier">>, <<"colon">>) = <<"run_level", "identifier", "colon">>
        BY ShortJoins
      <4> QED
        BY <2>7, <3>2, <4>1
    <3> QED
      BY <2>2, <3>1, <3>2, <3>3 DEF Body, Opening
  <2>8. CASE f = Frame("property", <<"equals", "VALUE">>, <<>>) /\ w = <<"identifier">>
    <3>1. f.fn = "property" /\ f.rest = <<"equals", "VALUE">>
      BY <2>8, FrameFields
    <3>2. g = Frame("property", <<"VALUE">>, <<>>) /\ type = "equals"
      BY <2>1, <3>1
    <3>3. Joined(w, <<type>>) = <<"identifier", "equals">>
      BY <2>8, <3>2, ShortJoins
    <3> QED
      BY <2>2, <3>1, <3>2, <3>3 DEF Body, Opening
  <2> QED
    BY <1>3, <2>3, <2>4, <2>5, <2>6, <2>7, <2>8 DEF OpeningRead
<1> QED
  BY <1>2, <1>3, StepsAre

\* The bodies.
LEMMA BodiesAre ==
    ASSUME NEW fn \in Function
    PROVE  /\ Body[fn] # <<>> /\ Tail(Body[fn]) = Closing[fn]
           /\ Head(Body[fn]) = "VALUE" <=> fn \in {"task", "property"}
           /\ Head(Body[fn]) = "NAMES" <=> fn \in {"dependency", "run_level"}
           /\ Head(Body[fn]) = "PROPERTIES" <=> fn = "struct"
<1>1. ASSUME NEW x, NEW y PROVE Head(<<x, y>>) = x /\ Tail(<<x, y>>) = <<y>> /\ Head(<<x>>) = x /\ Tail(<<x>>) = <<>> /\ <<x>> # <<>> /\ <<x, y>> # <<>>
  OBVIOUS
<1>2. /\ Body["task"] = <<"VALUE", "semicolon">> /\ Body["dependency"] = <<"NAMES", "semicolon">>
      /\ Body["run_level"] = <<"NAMES", "semicolon">> /\ Body["struct"] = <<"PROPERTIES", "rbrace">>
      /\ Body["property"] = <<"VALUE">>
  BY DEF Body
<1>3. CASE fn = "task"
  <2>1. Head(Body[fn]) = "VALUE" /\ Tail(Body[fn]) = <<"semicolon">> /\ Body[fn] # <<>>
    <3>1. PICK b : b = Body[fn]
      OBVIOUS
    <3>2. b = <<"VALUE", "semicolon">>
      BY <1>2, <1>3, <3>1
    <3>3. Head(b) = "VALUE" /\ Tail(b) = <<"semicolon">> /\ b # <<>>
      BY <3>2
    <3> QED
      BY <3>1, <3>3
  <2> QED
    BY <1>3, <2>1, OpeningsAre
<1>4. CASE fn = "dependency"
  <2>1. Head(Body[fn]) = "NAMES" /\ Tail(Body[fn]) = <<"semicolon">> /\ Body[fn] # <<>>
    <3>1. PICK b : b = Body[fn]
      OBVIOUS
    <3>2. b = <<"NAMES", "semicolon">>
      BY <1>2, <1>4, <3>1
    <3>3. Head(b) = "NAMES" /\ Tail(b) = <<"semicolon">> /\ b # <<>>
      BY <3>2
    <3> QED
      BY <3>1, <3>3
  <2> QED
    BY <1>4, <2>1, OpeningsAre
<1>5. CASE fn = "run_level"
  <2>1. Head(Body[fn]) = "NAMES" /\ Tail(Body[fn]) = <<"semicolon">> /\ Body[fn] # <<>>
    <3>1. PICK b : b = Body[fn]
      OBVIOUS
    <3>2. b = <<"NAMES", "semicolon">>
      BY <1>2, <1>5, <3>1
    <3>3. Head(b) = "NAMES" /\ Tail(b) = <<"semicolon">> /\ b # <<>>
      BY <3>2
    <3> QED
      BY <3>1, <3>3
  <2> QED
    BY <1>5, <2>1, OpeningsAre
<1>6. CASE fn = "struct"
  <2>1. Head(Body[fn]) = "PROPERTIES" /\ Tail(Body[fn]) = <<"rbrace">> /\ Body[fn] # <<>>
    <3>1. PICK b : b = Body[fn]
      OBVIOUS
    <3>2. b = <<"PROPERTIES", "rbrace">>
      BY <1>2, <1>6, <3>1
    <3>3. Head(b) = "PROPERTIES" /\ Tail(b) = <<"rbrace">> /\ b # <<>>
      BY <3>2
    <3> QED
      BY <3>1, <3>3
  <2> QED
    BY <1>6, <2>1, OpeningsAre
<1>7. CASE fn = "property"
  BY <1>1, <1>2, <1>7, OpeningsAre
<1> QED
  BY <1>3, <1>4, <1>5, <1>6, <1>7 DEF Function

\* The frame after the body of a function.
LEMMA ClosesWith ==
    ASSUME NEW G, NEW fn \in Function, NEW ch, NEW m \in Text, BodyRead(fn, ch, G, m), NEW u
    PROVE  Reads(Frame(fn, Closing[fn], ch), G, u, Joined(Opening[fn], m))
<1>1. PICK g : g = Frame(fn, Closing[fn], ch)
  OBVIOUS
<1>2. g.fn = fn /\ g.children = ch
  BY <1>1, FrameFields
<1>3. AtClosing(g, G, Joined(Opening[fn], m))
  BY <1>1, <1>2, Zenon DEF AtClosing, IsFrame
<1> QED
  BY <1>1, <1>3 DEF Reads

\* Where a value is read.
LEMMA ValueIsRead ==
    ASSUME NEW G, NEW f, NEW t, NEW w, Reads(f, G, t, w), f.rest # <<>>, Head(f.rest) = "VALUE"
    PROVE  /\ f.fn \in {"task", "property"} /\ f = Frame(f.fn, Body[f.fn], <<>>) /\ w = Opening[f.fn]
           /\ Tail(f.rest) = Closing[f.fn] /\ f.children = <<>>
<1>1. AtBody(f, G, t, w)
  BY StepsAre
<1>2. IsFrame(f, Body[f.fn]) /\ f.fn \in Function
  BY <1>1 DEF AtBody, IsFrame
<1>3. PICK m \in Text : InBody(f.fn, f.children, G, t, m) /\ w = Joined(Opening[f.fn], m)
  BY <1>1 DEF AtBody
<1>4. f.rest = Body[f.fn]
  BY <1>2, FrameFields DEF IsFrame
<1>5. f.fn \in {"task", "property"} /\ Tail(f.rest) = Closing[f.fn]
  BY <1>2, <1>4, BodiesAre
<1>6. f.children = <<>> /\ m = <<>>
  BY <1>3, <1>5 DEF InBody
<1>7. w = Opening[f.fn]
  BY <1>2, <1>3, <1>6, OpeningText
<1> QED
  BY <1>2, <1>5, <1>6, <1>7 DEF IsFrame

\* The literal or the identifier is the value.
LEMMA LeafReads ==
    ASSUME NEW G, NEW f, NEW t, NEW w, Reads(f, G, t, w), f.rest # <<>>, Head(f.rest) = "VALUE",
           NEW v \in ValuesIn(G), NEW x \in TokenType, <<x>> \in G[v], NEW u
    PROVE  Reads(Frame(f.fn, Tail(f.rest), f.children \o <<v>>), G, u, Joined(w, <<x>>))
<1>1. /\ f.fn \in {"task", "property"} /\ w = Opening[f.fn]
      /\ Tail(f.rest) = Closing[f.fn] /\ f.children = <<>>
  BY ValueIsRead
<1>2. f.children \o <<v>> = <<v>>
  BY <1>1
<1>3. f.fn \in Function /\ <<x>> \in Text
  BY <1>1 DEF Function, Text
<1>4. BodyRead(f.fn, <<v>>, G, <<x>>)
  BY <1>1 DEF BodyRead
<1> QED
  BY <1>1, <1>2, <1>3, <1>4, ClosesWith

\* The value is a struct.
LEMMA ValueWaits ==
    ASSUME NEW G, NEW f, NEW t, NEW w, Reads(f, G, t, w), f.rest # <<>>, Head(f.rest) = "VALUE"
    PROVE  Waits(Frame(f.fn, Tail(f.rest), f.children \o <<>>), G, w)
<1>1. /\ f.fn \in {"task", "property"} /\ w = Opening[f.fn]
      /\ Tail(f.rest) = Closing[f.fn] /\ f.children = <<>>
  BY ValueIsRead
<1>2. PICK g : g = Frame(f.fn, Tail(f.rest), f.children \o <<>>)
  OBVIOUS
<1>3. f.children \o <<>> = <<>>
  BY <1>1
<1>4. g = Frame(f.fn, Closing[f.fn], <<>>) /\ g.fn = f.fn
  BY <1>1, <1>2, <1>3, FrameFields
<1> QED
  BY <1>1, <1>2, <1>4, Zenon DEF Waits

\* The loop over properties.
LEMMA PropertiesAre ==
    ASSUME NEW G, TypedForms(G), NEW f, NEW t, NEW w, Reads(f, G, t, w), f.rest # <<>>, Head(f.rest) = "PROPERTIES"
    PROVE  /\ f.fn = "struct" /\ f = Frame("struct", <<"PROPERTIES", "rbrace">>, f.children)
           /\ f.children \in Seq(PropertiesIn(G)) /\ f.children \in Seq(DOMAIN G)
           /\ \E m \in PropertyForms(f.children, G) :
                w = Joined(Opening["struct"], m) /\ (t # "rbrace" => m \in Separate(f.children, G))
<1>1. AtBody(f, G, t, w)
  BY StepsAre
<1>2. IsFrame(f, Body[f.fn]) /\ f.fn \in Function
  BY <1>1 DEF AtBody, IsFrame
<1>3. PICK m \in Text : InBody(f.fn, f.children, G, t, m) /\ w = Joined(Opening[f.fn], m)
  BY <1>1 DEF AtBody
<1>4. f.rest = Body[f.fn]
  BY <1>2, FrameFields DEF IsFrame
<1>5. f.fn = "struct" /\ Body["struct"] = <<"PROPERTIES", "rbrace">>
  BY <1>2, <1>4 DEF Body, Function
<1>6. f.children \in Seq(PropertiesIn(G)) /\ (m \in Separate(f.children, G) \/ (t = "rbrace" /\ m \in PropertyForms(f.children, G)))
  BY <1>3, <1>5 DEF InBody
<1>7. f.children \in Seq(DOMAIN G)
  <2>1. PropertiesIn(G) \subseteq DOMAIN G
    BY DEF PropertiesIn, OfType
  <2>2. PICK ch : ch = f.children
    OBVIOUS
  <2>3. ch \in Seq(PropertiesIn(G))
    BY <1>6, <2>2
  <2> QED
    BY <2>1, <2>2, <2>3
<1>8. Separate(f.children, G) \subseteq PropertyForms(f.children, G)
  BY <1>7, PropertiesRead
<1> QED
  BY <1>2, <1>3, <1>5, <1>6, <1>7, <1>8 DEF IsFrame

\* It ends.
LEMMA PropertiesEnd ==
    ASSUME NEW G, TypedForms(G), NEW f, NEW t, NEW w, Reads(f, G, t, w), f.rest # <<>>, Head(f.rest) = "PROPERTIES", NEW u
    PROVE  Reads(Frame(f.fn, Tail(f.rest), f.children \o <<>>), G, u, w)
<1>1. /\ f.fn = "struct" /\ f = Frame("struct", <<"PROPERTIES", "rbrace">>, f.children)
      /\ f.children \in Seq(PropertiesIn(G)) /\ f.children \in Seq(DOMAIN G)
  BY PropertiesAre
<1>2. PICK m \in PropertyForms(f.children, G) : w = Joined(Opening["struct"], m)
  BY PropertiesAre
<1>3. m \in Text
  BY <1>1, PropertyFormsType
<1>4. f.rest = <<"PROPERTIES", "rbrace">>
  BY <1>1, FrameFields
<1>5. Tail(f.rest) = <<"rbrace">>
  BY <1>4
<1>6. Tail(f.rest) = Closing[f.fn]
  BY <1>1, <1>5, OpeningsAre
<1>7. f.children \o <<>> = f.children
  BY <1>1
<1>8. BodyRead(f.fn, f.children, G, m) /\ f.fn \in Function
  BY <1>1 DEF BodyRead, Function
<1> QED
  BY <1>1, <1>2, <1>3, <1>6, <1>7, <1>8, ClosesWith

\* Another property comes.
LEMMA PropertiesWait ==
    ASSUME NEW G, TypedForms(G), NEW f, NEW t, t # "rbrace", NEW w, Reads(f, G, t, w), f.rest # <<>>, Head(f.rest) = "PROPERTIES"
    PROVE  Waits(Frame(f.fn, <<"COMMA">> \o f.rest, f.children), G, w)
<1>1. /\ f.fn = "struct" /\ f = Frame("struct", <<"PROPERTIES", "rbrace">>, f.children)
      /\ f.children \in Seq(PropertiesIn(G))
  BY PropertiesAre
<1>2. PICK m \in Separate(f.children, G) : w = Joined(Opening["struct"], m)
  BY PropertiesAre
<1>3. f.rest = <<"PROPERTIES", "rbrace">>
  BY <1>1, FrameFields
<1>4. <<"COMMA">> \o f.rest = <<"COMMA", "PROPERTIES", "rbrace">>
  <2>1. Joined(<<"COMMA">>, <<"PROPERTIES", "rbrace">>) = <<"COMMA", "PROPERTIES", "rbrace">>
    BY ShortJoins
  <2> QED
    BY <1>3, <2>1 DEF Joined
<1>5. PICK g : g = Frame(f.fn, <<"COMMA">> \o f.rest, f.children)
  OBVIOUS
<1>6. g.fn = "struct" /\ g.children = f.children /\ IsFrame(g, <<"COMMA", "PROPERTIES", "rbrace">>)
  <2>1. g = Frame("struct", <<"COMMA", "PROPERTIES", "rbrace">>, f.children)
    BY <1>1, <1>4, <1>5
  <2>2. g.fn = "struct" /\ g.children = f.children
    BY <2>1, FrameFields
  <2> QED
    BY <2>1, <2>2 DEF IsFrame, Function
<1>7. w = Joined(Opening.struct, m)
  BY <1>2
<1> QED
  BY <1>1, <1>2, <1>5, <1>6, <1>7, Zenon DEF Waits

\* After a property.
LEMMA CommaIs ==
    ASSUME NEW G, NEW f, NEW t, NEW w, Reads(f, G, t, w), f.rest # <<>>, Head(f.rest) = "COMMA"
    PROVE  /\ f.fn = "struct" /\ Tail(f.rest) = Body["struct"]
           /\ \E ch \in Seq(PropertiesIn(G)), c \in PropertiesIn(G) :
                /\ f.children = Append(ch, c)
                /\ \E s \in Separate(ch, G), v \in G[c] : w = Joined(Opening["struct"], Joined(s, v))
<1>1. AtComma(f, G, w)
  BY StepsAre
<1>2. f.rest = <<"COMMA", "PROPERTIES", "rbrace">>
  BY <1>1, FrameFields DEF AtComma, IsFrame
<1>3. Tail(<<"COMMA", "PROPERTIES", "rbrace">>) = <<"PROPERTIES", "rbrace">>
  OBVIOUS
<1>4. Tail(f.rest) = Body["struct"]
  BY <1>2, <1>3 DEF Body
<1> QED
  BY <1>1, <1>4, Zenon DEF AtComma

\* After a property comes a comma, or the end of the struct.
LEMMA CommaReads ==
    ASSUME NEW G, TypedForms(G), NEW f, NEW t, NEW w \in Text, Reads(f, G, t, w), f.rest # <<>>, Head(f.rest) = "COMMA"
    PROVE  /\ t = "rbrace" => Reads(Frame(f.fn, Tail(f.rest), f.children \o <<>>), G, t, w)
           /\ \A u : Reads(Frame(f.fn, Tail(f.rest), f.children \o <<>>), G, u, Joined(w, <<"comma">>))
<1>1. f.fn = "struct" /\ Tail(f.rest) = Body["struct"]
  BY CommaIs
<1>2. PICK ch \in Seq(PropertiesIn(G)), c \in PropertiesIn(G) :
        /\ f.children = Append(ch, c)
        /\ \E s \in Separate(ch, G), v \in G[c] : w = Joined(Opening["struct"], Joined(s, v))
  BY CommaIs
<1>3. PICK s \in Separate(ch, G), v \in G[c] : w = Joined(Opening["struct"], Joined(s, v))
  BY <1>2
<1>4. ch \in Seq(DOMAIN G) /\ c \in DOMAIN G
  <2>1. PropertiesIn(G) \subseteq DOMAIN G
    BY DEF PropertiesIn, OfType
  <2> QED
    BY <2>1
<1>5. Append(ch, c) \in Seq(PropertiesIn(G)) /\ Append(ch, c) \in Seq(DOMAIN G)
  BY <1>4
<1>6. s \in Text /\ v \in Text /\ <<"comma">> \in Text /\ Opening["struct"] \in Text
  <2>1. s \in Text
    BY <1>4, PropertiesRead
  <2>2. v \in Text
    BY <1>4 DEF TypedForms
  <2>3. <<"comma">> \in Text
    BY DEF Text, TokenType
  <2>4. Opening["struct"] \in Text
    BY OpeningText DEF Function
  <2> QED
    BY <2>1, <2>2, <2>3, <2>4
<1>7. /\ Joined(s, v) \in PropertyForms(Append(ch, c), G)
      /\ Joined(s, Joined(v, <<"comma">>)) \in Separate(Append(ch, c), G)
  BY <1>4, PropertiesRead, Zenon
<1>8. Joined(s, v) \in Text /\ Joined(v, <<"comma">>) \in Text /\ Joined(s, Joined(v, <<"comma">>)) \in Text
  BY <1>6, JoinText
<1>9. PICK g : g = Frame(f.fn, Tail(f.rest), f.children \o <<>>)
  OBVIOUS
<1>10. g.fn = "struct" /\ g.children = Append(ch, c) /\ IsFrame(g, Body[g.fn])
  <2>1. f.children \o <<>> = f.children
    BY ReadsFrame
  <2>2. g = Frame("struct", Body["struct"], Append(ch, c))
    BY <1>1, <1>2, <1>9, <2>1
  <2>3. g.fn = "struct" /\ g.children = Append(ch, c)
    <3>1. PICK k : k = Append(ch, c)
      OBVIOUS
    <3>2. PICK b : b = Body["struct"]
      OBVIOUS
    <3>3. g = Frame("struct", b, k)
      BY <2>2, <3>1, <3>2, Zenon
    <3>4. g.fn = "struct" /\ g.children = k
      BY <3>3, FrameFields
    <3> QED
      BY <3>1, <3>4
  <2> QED
    BY <2>2, <2>3 DEF IsFrame, Function
<1>11. ASSUME t = "rbrace" PROVE Reads(g, G, t, w)
  <2>1. InBody(g.fn, g.children, G, t, Joined(s, v))
    BY <1>5, <1>7, <1>10, <1>11 DEF InBody
  <2>2. AtBody(g, G, t, w)
    BY <1>3, <1>8, <1>10, <2>1, Zenon DEF AtBody
  <2> QED
    BY <2>2 DEF Reads
<1>12. ASSUME NEW u PROVE Reads(g, G, u, Joined(w, <<"comma">>))
  <2>1. Joined(w, <<"comma">>) = Joined(Opening["struct"], Joined(Joined(s, v), <<"comma">>))
    BY <1>3, <1>6, <1>8, JoinAssociates
  <2>2. Joined(Joined(s, v), <<"comma">>) = Joined(s, Joined(v, <<"comma">>))
    BY <1>6, JoinAssociates
  <2>3. InBody(g.fn, g.children, G, u, Joined(s, Joined(v, <<"comma">>)))
    BY <1>5, <1>7, <1>10 DEF InBody
  <2>4. AtBody(g, G, u, Joined(w, <<"comma">>))
    BY <1>8, <1>10, <2>1, <2>2, <2>3, Zenon DEF AtBody
  <2> QED
    BY <2>4 DEF Reads
<1> QED
  BY <1>9, <1>11, <1>12

\* The loop over names: another one follows, and the last one.
LEMMA NamesReads ==
    ASSUME NEW G, NEW f, NEW t, NEW w \in Text, Reads(f, G, t, w), f.rest # <<>>, Head(f.rest) = "NAMES", NEW u
    PROVE  /\ Reads(Frame(f.fn, f.rest, f.children \o <<Leaf("name")>>), G, u, Joined(w, <<"identifier", "comma">>))
           /\ Reads(Frame(f.fn, Tail(f.rest), f.children \o <<Leaf("name")>>), G, u, Joined(w, <<"identifier">>))
<1> DEFINE ch == f.children
           n == Len(ch)
           name == Leaf("name")
           more == ch \o <<name>>
<1>1. AtBody(f, G, t, w)
  BY StepsAre
<1>2. IsFrame(f, Body[f.fn]) /\ f.fn \in Function
  BY <1>1 DEF AtBody, IsFrame
<1>3. PICK m \in Text : InBody(f.fn, ch, G, t, m) /\ w = Joined(Opening[f.fn], m)
  BY <1>1 DEF AtBody
<1>4. f.rest = Body[f.fn]
  BY <1>2, FrameFields DEF IsFrame
<1>5. f.fn \in {"dependency", "run_level"} /\ Tail(f.rest) = Closing[f.fn]
  BY <1>2, <1>4, BodiesAre
<1>6. ch \in Seq({name}) /\ m = Names(2 * n)
  BY <1>3, <1>5 DEF InBody
<1> HIDE DEF ch, name
<1>7. n \in Nat /\ more = Append(ch, name) /\ more \in Seq({name}) /\ Len(more) = n + 1
  <2>1. more = Append(ch, name)
    BY <1>6
  <2>2. Append(ch, name) \in Seq({name}) /\ Len(Append(ch, name)) = n + 1 /\ n \in Nat
    BY <1>6, AppendProperties
  <2> QED
    BY <2>1, <2>2
<1>8. /\ 2 * n \in Nat /\ (2 * n) % 2 = 0 /\ 2 * n + 1 \in Nat /\ (2 * n + 1) % 2 = 1
      /\ (2 * n + 1) + 1 = 2 * (n + 1) /\ 2 * n + 2 = 2 * (n + 1)
  BY <1>7
<1>9. Joined(m, <<"identifier">>) = Names(2 * n + 1)
  BY <1>6, <1>8, NamesFacts
<1>10. Joined(Names(2 * n + 1), <<"comma">>) = Names(2 * (n + 1))
  BY <1>8, NamesFacts
<1>11. Names(2 * n + 1) \in Text /\ Names(2 * (n + 1)) \in Text
  BY <1>8, NamesFacts
<1>12. <<"identifier">> \in Text /\ <<"comma">> \in Text /\ <<"identifier", "comma">> \in Text /\ Opening[f.fn] \in Text
  <2>1. <<"identifier">> \in Text /\ <<"comma">> \in Text /\ <<"identifier", "comma">> \in Text
    BY DEF Text, TokenType
  <2> QED
    BY <1>2, <2>1, OpeningText
<1>13. Joined(w, <<"identifier">>) = Joined(Opening[f.fn], Names(2 * n + 1))
  BY <1>3, <1>9, <1>12, JoinAssociates
<1>14. Joined(w, <<"identifier", "comma">>) = Joined(Opening[f.fn], Names(2 * (n + 1)))
  <2>1. <<"identifier", "comma">> = Joined(<<"identifier">>, <<"comma">>)
    BY ShortJoins
  <2>2. Joined(w, <<"identifier", "comma">>) = Joined(Joined(w, <<"identifier">>), <<"comma">>)
    BY <1>12, <2>1, JoinAssociates
  <2>3. Joined(Joined(Opening[f.fn], Names(2 * n + 1)), <<"comma">>) = Joined(Opening[f.fn], Joined(Names(2 * n + 1), <<"comma">>))
    BY <1>11, <1>12, JoinAssociates
  <2> QED
    BY <1>10, <1>13, <2>2, <2>3
<1> HIDE DEF more
<1>15. Reads(Frame(f.fn, f.rest, more), G, u, Joined(w, <<"identifier", "comma">>))
  <2>1. PICK g : g = Frame(f.fn, f.rest, more)
    OBVIOUS
  <2>2. g.fn = f.fn /\ g.children = more
    BY <2>1, FrameFields
  <2>3. IsFrame(g, Body[g.fn])
    BY <1>2, <1>4, <2>1, <2>2 DEF IsFrame
  <2>4. InBody(g.fn, g.children, G, u, Names(2 * (n + 1)))
    BY <1>5, <1>7, <2>2 DEF InBody, name
  <2>5. AtBody(g, G, u, Joined(w, <<"identifier", "comma">>))
    BY <1>11, <1>14, <2>2, <2>3, <2>4, Zenon DEF AtBody
  <2> QED
    BY <2>1, <2>5 DEF Reads
<1>16. Reads(Frame(f.fn, Tail(f.rest), more), G, u, Joined(w, <<"identifier">>))
  <2>1. Names(2 * n + 1) \in NameForms(more)
    <3>1. name \in {name}
      OBVIOUS
    <3> QED
      BY <1>6, <1>7, <3>1, NameFormsAre
  <2>2. BodyRead(f.fn, more, G, Names(2 * n + 1))
    BY <1>5, <1>7, <2>1 DEF BodyRead, name
  <2> QED
    BY <1>2, <1>5, <1>11, <1>13, <2>2, ClosesWith
<1> QED
  BY <1>15, <1>16 DEF more, ch, name

\* A function that returns has read its node.
LEMMA ReturnsDeclaration ==
    ASSUME NEW G, TypedForms(G), NEW f, NEW t, NEW w, Reads(f, G, t, w), f.rest = <<>>, f.fn \in DeclarationFn
    PROVE  /\ NodeOf(f.fn, f.children) \in DeclarationNodes(G)
           /\ w \in DeclarationForms(NodeOf(f.fn, f.children), G)
<1>1. AtEnd(f, G, w)
  <2>1. f.fn # "property"
    BY DEF DeclarationFn
  <2> QED
    BY <2>1, StepsAre
<1>2. PICK m \in Text : BodyRead(f.fn, f.children, G, m) /\ w = Joined(Joined(Opening[f.fn], m), Closing[f.fn])
  BY <1>1 DEF AtEnd
<1>3. CASE f.fn = "task"
  <2>1. PICK v \in ValuesIn(G) : f.children = <<v>> /\ m \in G[v]
    BY <1>2, <1>3 DEF BodyRead
  <2>2. w = Joined(Joined(<<"task", "identifier", "equals">>, m), <<"semicolon">>)
    BY <1>2, <1>3, OpeningsAre
  <2>3. /\ NodeOf("task", <<v>>) \in DeclarationNodes(G)
        /\ Joined(Joined(<<"task", "identifier", "equals">>, m), <<"semicolon">>) \in DeclarationForms(NodeOf("task", <<v>>), G)
    BY <2>1, DeclarationFormsAre, Zenon
  <2> QED
    BY <1>3, <2>1, <2>2, <2>3
<1>4. CASE f.fn = "dependency"
  <2>1. f.children \in Seq({Leaf("name")}) /\ m \in NameForms(f.children)
    BY <1>2, <1>4 DEF BodyRead
  <2>2. w = Joined(Joined(<<"identifier", "depends">>, m), <<"semicolon">>)
    BY <1>2, <1>4, OpeningsAre
  <2>3. /\ NodeOf("dependency", f.children) \in DeclarationNodes(G)
        /\ Joined(Joined(<<"identifier", "depends">>, m), <<"semicolon">>) \in DeclarationForms(NodeOf("dependency", f.children), G)
    BY <2>1, DeclarationFormsAre, Zenon
  <2> QED
    BY <1>4, <2>2, <2>3
<1>5. CASE f.fn = "run_level"
  <2>1. f.children \in Seq({Leaf("name")}) /\ m \in NameForms(f.children)
    BY <1>2, <1>5 DEF BodyRead
  <2>2. w = Joined(Joined(<<"run_level", "identifier", "colon">>, m), <<"semicolon">>)
    BY <1>2, <1>5, OpeningsAre
  <2>3. /\ NodeOf("run_level", f.children) \in DeclarationNodes(G)
        /\ Joined(Joined(<<"run_level", "identifier", "colon">>, m), <<"semicolon">>) \in DeclarationForms(NodeOf("run_level", f.children), G)
    BY <2>1, DeclarationFormsAre, Zenon
  <2> QED
    BY <1>5, <2>2, <2>3
<1> QED
  BY <1>3, <1>4, <1>5 DEF DeclarationFn

\* struct returns a value, whose text it has read.
LEMMA ReturnsStruct ==
    ASSUME NEW G, TypedForms(G), NEW F, F = Deeper(G), NEW f, NEW t, NEW w, Reads(f, G, t, w), f.rest = <<>>, f.fn = "struct"
    PROVE  NodeOf("struct", f.children) \in ValuesIn(F) /\ w \in F[NodeOf("struct", f.children)]
<1>1. AtEnd(f, G, w)
  BY StepsAre
<1>2. PICK m \in Text : BodyRead(f.fn, f.children, G, m) /\ w = Joined(Joined(Opening[f.fn], m), Closing[f.fn])
  BY <1>1 DEF AtEnd
<1>3. f.children \in Seq(PropertiesIn(G)) /\ m \in PropertyForms(f.children, G)
  BY <1>2 DEF BodyRead
<1>4. w = Joined(Joined(<<"identifier", "lbrace">>, m), <<"rbrace">>)
  BY <1>2, OpeningsAre
<1>5. /\ NodeOf("struct", f.children) \in ValuesIn(F)
      /\ Joined(Joined(<<"identifier", "lbrace">>, m), <<"rbrace">>) \in F[NodeOf("struct", f.children)]
  BY <1>3, DeeperNodes, Zenon
<1> QED
  BY <1>4, <1>5

\* And property returns a property.
LEMMA ReturnsProperty ==
    ASSUME NEW G, TypedForms(G), NEW F, F = Deeper(G), NEW f, NEW t, NEW w, Reads(f, G, t, w), f.rest = <<>>, f.fn = "property"
    PROVE  NodeOf("property", f.children) \in PropertiesIn(F) /\ w \in F[NodeOf("property", f.children)]
<1>1. AtClosing(f, G, w)
  <2>1. ~AtEnd(f, G, w)
    BY DEF AtEnd
  <2> QED
    BY <2>1, StepsAre
<1>2. PICK m \in Text : BodyRead(f.fn, f.children, G, m) /\ w = Joined(Opening[f.fn], m)
  BY <1>1 DEF AtClosing
<1>3. PICK v \in ValuesIn(G) : f.children = <<v>> /\ m \in G[v]
  BY <1>2 DEF BodyRead
<1>4. w = Joined(<<"identifier", "equals">>, m)
  BY <1>2, OpeningsAre
<1>5. /\ NodeOf("property", <<v>>) \in PropertiesIn(F)
      /\ Joined(<<"identifier", "equals">>, m) \in F[NodeOf("property", <<v>>)]
  BY <1>3, DeeperNodes, Zenon
<1> QED
  BY <1>3, <1>4, <1>5

\* And its caller has read that too.
LEMMA CallerReads ==
    ASSUME NEW F, TypedForms(F), NEW g, NEW w \in Text, Waits(g, F, w), NEW node, NEW r \in F[node],
           \/ g.fn \in {"task", "property"} /\ node \in ValuesIn(F)
           \/ g.fn = "struct" /\ node \in PropertiesIn(F),
           NEW u
    PROVE  g = Frame(g.fn, g.rest, g.children) /\ Reads(Frame(g.fn, g.rest, g.children \o <<node>>), F, u, Joined(w, r))
<1>1. node \in DOMAIN F
  BY DEF ValuesIn, PropertiesIn, OfType
<1>2. r \in Text
  BY <1>1 DEF TypedForms
<1>3. CASE g.fn \in {"task", "property"}
  <2>1. g = Frame(g.fn, Closing[g.fn], <<>>) /\ w = Opening[g.fn]
    BY <1>3 DEF Waits
  <2>2. g.rest = Closing[g.fn] /\ g.children = <<>>
    BY <2>1, FrameFields
  <2>3. g.children \o <<node>> = <<node>>
    BY <2>2
  <2>4. BodyRead(g.fn, <<node>>, F, r) /\ g.fn \in Function
    BY <1>3 DEF BodyRead, Function
  <2>5. Reads(Frame(g.fn, Closing[g.fn], <<node>>), F, u, Joined(Opening[g.fn], r))
    BY <1>2, <2>4, ClosesWith, Zenon
  <2> QED
    BY <2>1, <2>2, <2>3, <2>5
<1>4. CASE g.fn = "struct" /\ node \in PropertiesIn(F)
  <2> DEFINE ch == g.children
             rest == <<"COMMA", "PROPERTIES", "rbrace">>
  <2>1. IsFrame(g, rest) /\ ch \in Seq(PropertiesIn(F))
    BY <1>4 DEF Waits
  <2>2. PICK s \in Separate(ch, F) : w = Joined(Opening.struct, s)
    BY <1>4 DEF Waits
  <2>3. g = Frame("struct", rest, ch) /\ g.rest = rest
    <3>1. g = Frame("struct", rest, ch)
      BY <1>4, <2>1 DEF IsFrame
    <3> HIDE DEF rest
    <3> QED
      BY <3>1, FrameFields
  <2> HIDE DEF ch, rest
  <2>4. ch \o <<node>> = Append(ch, node)
    BY <1>4, <2>1
  <2>5. s \in Text /\ Opening.struct \in Text
    <3>1. PropertiesIn(F) \subseteq DOMAIN F
      BY DEF PropertiesIn, OfType
    <3>2. ch \in Seq(DOMAIN F)
      BY <2>1, <3>1
    <3>3. Opening.struct \in Text
      BY OpeningText DEF Function
    <3> QED
      BY <3>2, <3>3, PropertiesRead
  <2>6. Joined(w, r) = Joined(Opening.struct, Joined(s, r))
    BY <1>2, <2>2, <2>5, JoinAssociates
  <2>7. PICK k : k = Append(ch, node)
    OBVIOUS
  <2>8. PICK h : h = Frame("struct", rest, k)
    OBVIOUS
  <2>9. h.fn = "struct" /\ h.children = k
    BY <2>8, FrameFields
  <2>10. IsFrame(h, rest)
    BY <2>8, <2>9 DEF IsFrame, Function
  <2>11. AtComma(h, F, Joined(w, r))
    BY <1>4, <2>1, <2>6, <2>7, <2>9, <2>10, Zenon DEF AtComma, rest
  <2>12. Frame(g.fn, g.rest, g.children \o <<node>>) = h
    BY <1>4, <2>3, <2>4, <2>7, <2>8 DEF ch
  <2> QED
    BY <1>4, <2>3, <2>11, <2>12 DEF Reads, ch
<1> QED
  BY <1>3, <1>4

-----------------------------------------------------------------------------
(* The steps on the whole stack *)
\* The part of the invariant that holds as long as no error is reported.
Good(ts, a, st, tr) ==
    /\ a \in 1..Len(ts) + 1 /\ tr \in TreesTo(Len(ts))
    /\ Len(st) < a
    /\ Accounted(ts, a, st, tr)

\* The last element and the ones before it.
LEMMA FrontLast ==
    ASSUME NEW X, NEW base \in Seq(X), NEW f \in X
    PROVE  /\ Front(Append(base, f)) = base /\ Last(Append(base, f)) = f
           /\ Len(Append(base, f)) = Len(base) + 1 /\ Len(base) \in Nat /\ Append(base, f) # <<>>
<1> DEFINE s == Append(base, f)
           n == Len(base)
<1>1. n \in Nat /\ s \in Seq(X) /\ Len(s) = n + 1 /\ s[n + 1] = f /\ \A k \in 1..n : s[k] = base[k]
  BY AppendProperties
<1> HIDE DEF s
<1>2. Last(s) = f
  BY <1>1 DEF Last
<1>3. SubSeq(s, 1, n) \in Seq(X) /\ Len(SubSeq(s, 1, n)) = n /\ \A k \in 1..n : SubSeq(s, 1, n)[k] = s[k]
  BY <1>1
<1>4. Front(s) = SubSeq(s, 1, n)
  BY <1>1 DEF Front
<1>5. SubSeq(s, 1, n) = base
  BY <1>1, <1>3, SeqEqual
<1>6. s # <<>>
  BY <1>1
<1> QED
  BY <1>1, <1>2, <1>4, <1>5, <1>6 DEF s

\* The top of the stack.
LEMMA TopIs ==
    ASSUME NEW ts, NEW a, NEW st, NEW tr, Good(ts, a, st, tr), st # <<>>
    PROVE  \E X : \E base \in Seq(X), f \in X :
             /\ st = Append(base, f) /\ Fits(ts, a, base, f, tr)
             /\ Front(st) = base /\ Last(st) = f /\ Len(st) = Len(base) + 1 /\ Len(base) \in Nat
<1>1. PICK X : \E base \in Seq(X), f \in X : st = Append(base, f) /\ Fits(ts, a, base, f, tr)
  BY DEF Good, Accounted
<1>2. PICK base \in Seq(X), f \in X : st = Append(base, f) /\ Fits(ts, a, base, f, tr)
  BY <1>1
<1>3. Front(st) = base /\ Last(st) = f /\ Len(st) = Len(base) + 1 /\ Len(base) \in Nat
  BY <1>2, FrontLast
<1> QED
  BY <1>2, <1>3

\* The call on the top reads what is written in forms one level deeper than those of its own calls.
LEMMA TopFacts ==
    ASSUME NEW ts \in Text, NEW a, NEW st, NEW tr, Good(ts, a, st, tr), st # <<>>
    PROVE  /\ Len(st) \in 1..Len(ts) /\ Last(st).fn \in FnsAt(Len(st))
           /\ \E w \in Text : Reads(Last(st), FormsAt(Len(st), Len(ts)), Tok(ts, a), w)
           /\ TypedForms(FormsAt(Len(st), Len(ts))) /\ TypedForms(FormsAt(Len(st) + 1, Len(ts)))
           /\ FormsAt(Len(st), Len(ts)) = Deeper(FormsAt(Len(st) + 1, Len(ts)))
<1> DEFINE D == Len(ts)
           n == Len(st)
<1>1. PICK X : \E base \in Seq(X), f \in X :
             /\ st = Append(base, f) /\ Fits(ts, a, base, f, tr)
             /\ Front(st) = base /\ Last(st) = f /\ Len(st) = Len(base) + 1 /\ Len(base) \in Nat
  BY TopIs
<1>2. PICK base \in Seq(X), f \in X :
             /\ st = Append(base, f) /\ Fits(ts, a, base, f, tr)
             /\ Front(st) = base /\ Last(st) = f /\ Len(st) = Len(base) + 1 /\ Len(base) \in Nat
  BY <1>1
<1>3. D \in Nat /\ n \in Nat /\ n >= 1 /\ n < a /\ a \in 1..D + 1
  BY <1>2 DEF Good, Text
<1>4. n \in 1..D /\ D + 1 - n \in Nat /\ D + 1 - (n + 1) \in Nat /\ (D + 1 - (n + 1)) + 1 = D + 1 - n
  BY <1>3
<1>5. PICK p \in Before(base, tr, D), r \in ReadAt(f, n, D, Tok(ts, a)) : Cut(ts, 1, a) = Joined(p, r)
  BY <1>2, Zenon DEF Fits, Splits
<1>6. r \in Text /\ f.fn \in FnsAt(n) /\ Reads(f, FormsAt(n, D), Tok(ts, a), r)
  BY <1>5, Zenon DEF ReadAt
<1>7. TypedForms(FormsAt(n, D)) /\ TypedForms(FormsAt(n + 1, D))
  BY <1>4, FormsTyped DEF FormsAt
<1>8. FormsTo((D + 1 - (n + 1)) + 1) = Deeper(FormsTo(D + 1 - (n + 1)))
  BY <1>4, FormsDeeper
<1>9. FormsAt(n, D) = Deeper(FormsAt(n + 1, D))
  BY <1>4, <1>8 DEF FormsAt
<1> QED
  BY <1>2, <1>4, <1>6, <1>7, <1>9

\* The steps again, on the whole stack.
LEMMA GoodStep ==
    ASSUME NEW ts \in Text, NEW a, NEW st, NEW tr, Good(ts, a, st, tr), st # <<>>, NEW b \in a..Len(ts) + 1,
           NEW g, g.fn = Last(st).fn,
           \A w \in Text : Reads(Last(st), FormsAt(Len(st), Len(ts)), Tok(ts, a), w)
             => Reads(g, FormsAt(Len(st), Len(ts)), Tok(ts, b), Joined(w, Cut(ts, a, b)))
    PROVE  Good(ts, b, Append(Front(st), g), tr)
<1> DEFINE D == Len(ts)
           n == Len(st)
<1>1. PICK X : \E base \in Seq(X), f \in X :
             /\ st = Append(base, f) /\ Fits(ts, a, base, f, tr)
             /\ Front(st) = base /\ Last(st) = f /\ Len(st) = Len(base) + 1 /\ Len(base) \in Nat
  BY TopIs
<1>2. PICK base \in Seq(X), f \in X :
             /\ st = Append(base, f) /\ Fits(ts, a, base, f, tr)
             /\ Front(st) = base /\ Last(st) = f /\ Len(st) = Len(base) + 1 /\ Len(base) \in Nat
  BY <1>1
<1>3. a \in 1..D + 1 /\ tr \in TreesTo(D) /\ n < a /\ D \in Nat
  BY DEF Good, Text
<1>4. Cut(ts, a, b) \in Text
  BY <1>3, CutsJoin
<1>5. ASSUME NEW r \in ReadAt(f, n, D, Tok(ts, a))
      PROVE  Joined(r, Cut(ts, a, b)) \in ReadAt(g, n, D, Tok(ts, b))
  <2>1. r \in Text /\ f.fn \in FnsAt(n) /\ Reads(f, FormsAt(n, D), Tok(ts, a), r)
    BY Zenon DEF ReadAt
  <2>2. Reads(g, FormsAt(n, D), Tok(ts, b), Joined(r, Cut(ts, a, b)))
    BY <1>2, <2>1
  <2>3. Joined(r, Cut(ts, a, b)) \in Text
    BY <1>4, <2>1, JoinText
  <2>4. g.fn \in FnsAt(n)
    BY <1>2, <2>1
  <2> QED
    BY <2>2, <2>3, <2>4, Zenon DEF ReadAt
<1>6. Fits(ts, b, base, g, tr)
  <2>1. \A r \in ReadAt(f, Len(base) + 1, D, Tok(ts, a)) : Joined(r, Cut(ts, a, b)) \in ReadAt(g, Len(base) + 1, D, Tok(ts, b))
    BY <1>2, <1>5
  <2> QED
    BY <1>2, <1>3, <2>1, TopStep, Zenon
<1>7. b \in 1..D + 1 /\ a <= b
  BY <1>3
<1>8. base \in Seq(X \cup {g}) /\ g \in X \cup {g}
  OBVIOUS
<1>9. Len(Append(base, g)) = n
  BY <1>2, <1>8, FrontLast
<1>10. Accounted(ts, b, Append(base, g), tr)
  BY <1>6, <1>8, Zenon DEF Accounted
<1>11. Len(Append(base, g)) < b
  BY <1>2, <1>3, <1>7, <1>9
<1> QED
  BY <1>2, <1>3, <1>7, <1>10, <1>11 DEF Good

\* A function calls another one.
LEMMA GoodPush ==
    ASSUME NEW ts \in Text, NEW a, NEW st, NEW tr, Good(ts, a, st, tr), st # <<>>, NEW b \in a..Len(ts) + 1, a # b,
           NEW g, g.fn = Last(st).fn, NEW h, h.fn \in FnsAt(Len(st) + 1),
           \A w \in Text : Reads(Last(st), FormsAt(Len(st), Len(ts)), Tok(ts, a), w) => Waits(g, FormsAt(Len(st), Len(ts)), w),
           Reads(h, FormsAt(Len(st) + 1, Len(ts)), Tok(ts, b), Cut(ts, a, b))
    PROVE  Good(ts, b, Append(Append(Front(st), g), h), tr)
<1> DEFINE D == Len(ts)
           n == Len(st)
<1>1. PICK X : \E base \in Seq(X), f \in X :
             /\ st = Append(base, f) /\ Fits(ts, a, base, f, tr)
             /\ Front(st) = base /\ Last(st) = f /\ Len(st) = Len(base) + 1 /\ Len(base) \in Nat
  BY TopIs
<1>2. PICK base \in Seq(X), f \in X :
             /\ st = Append(base, f) /\ Fits(ts, a, base, f, tr)
             /\ Front(st) = base /\ Last(st) = f /\ Len(st) = Len(base) + 1 /\ Len(base) \in Nat
  BY <1>1
<1>3. a \in 1..D + 1 /\ tr \in TreesTo(D) /\ n < a /\ D \in Nat
  BY DEF Good, Text
<1>4. Cut(ts, a, b) \in Text
  BY <1>3, CutsJoin
<1>5. ASSUME NEW r \in ReadAt(f, n, D, Tok(ts, a))
      PROVE  r \in WaitAt(g, n, D)
  <2>1. r \in Text /\ f.fn \in FnsAt(n) /\ Reads(f, FormsAt(n, D), Tok(ts, a), r)
    BY Zenon DEF ReadAt
  <2>2. Waits(g, FormsAt(n, D), r) /\ g.fn \in FnsAt(n)
    BY <1>2, <2>1
  <2> QED
    BY <2>1, <2>2, Zenon DEF WaitAt
<1>6. Cut(ts, a, b) \in ReadAt(h, n + 1, D, Tok(ts, b))
  BY <1>4, Zenon DEF ReadAt
<1>7. PICK Y : Y = X \cup {g, h}
  OBVIOUS
<1>8. base \in Seq(Y) /\ f \in Y /\ g \in Y /\ h \in Y
  BY <1>7
<1>9. n = Len(base) + 1 /\ n + 1 = Len(base) + 2
  BY <1>2
<1>10. Fits(ts, b, Append(base, g), h, tr)
  <2>1. \A r \in ReadAt(f, Len(base) + 1, D, Tok(ts, a)) : r \in WaitAt(g, Len(base) + 1, D)
    BY <1>5, <1>9
  <2>2. Cut(ts, a, b) \in ReadAt(h, Len(base) + 2, D, Tok(ts, b))
    BY <1>6, <1>9
  <2> QED
    BY <1>2, <1>3, <1>8, <2>1, <2>2, PushStep, Zenon
<1>11. Append(base, g) \in Seq(Y) /\ Len(Append(base, g)) = n
  BY <1>8, <1>9, FrontLast
<1>12. Len(Append(Append(base, g), h)) = n + 1
  BY <1>8, <1>11, FrontLast
<1>13. Accounted(ts, b, Append(Append(base, g), h), tr)
  BY <1>8, <1>10, <1>11, Zenon DEF Accounted
<1>14. b \in 1..D + 1 /\ n + 1 < b
  BY <1>3, <1>2
<1> QED
  BY <1>2, <1>3, <1>12, <1>13, <1>14 DEF Good

\* A call returns to its caller.
LEMMA GoodPop ==
    ASSUME NEW ts \in Text, NEW a, NEW st, NEW tr, Good(ts, a, st, tr), st # <<>>, Front(st) # <<>>, NEW h,
           \A w \in Text, r \in Text :
             /\ Last(Front(st)).fn \in FnsAt(Len(st) - 1) /\ Waits(Last(Front(st)), FormsAt(Len(st) - 1, Len(ts)), w)
             /\ Reads(Last(st), FormsAt(Len(st), Len(ts)), Tok(ts, a), r)
             => h.fn \in FnsAt(Len(st) - 1) /\ Reads(h, FormsAt(Len(st) - 1, Len(ts)), Tok(ts, a), Joined(w, r))
    PROVE  Good(ts, a, Append(Front(Front(st)), h), tr)
<1> DEFINE D == Len(ts)
           n == Len(st)
<1>1. PICK X : \E base \in Seq(X), f \in X :
             /\ st = Append(base, f) /\ Fits(ts, a, base, f, tr)
             /\ Front(st) = base /\ Last(st) = f /\ Len(st) = Len(base) + 1 /\ Len(base) \in Nat
  BY TopIs
<1>2. PICK callers \in Seq(X), f \in X :
             /\ st = Append(callers, f) /\ Fits(ts, a, callers, f, tr)
             /\ Front(st) = callers /\ Last(st) = f /\ Len(st) = Len(callers) + 1 /\ Len(callers) \in Nat
  BY <1>1
<1>3. PICK base \in Seq(X), g \in X : callers = Append(base, g)
  <2>1. callers # <<>> /\ callers \in Seq(X)
    BY <1>2
  <2> QED
    BY <2>1, SequenceEmptyOrAppend
<1>4. a \in 1..D + 1 /\ tr \in TreesTo(D) /\ n < a /\ D \in Nat
  BY DEF Good, Text
<1>5. Front(callers) = base /\ Last(callers) = g /\ Len(callers) = Len(base) + 1 /\ Len(base) \in Nat
  BY <1>3, FrontLast
<1>6. n - 1 = Len(base) + 1 /\ n = Len(base) + 2
  BY <1>2, <1>5
<1>7. ASSUME NEW w \in WaitAt(g, Len(base) + 1, D), NEW r \in ReadAt(f, Len(base) + 2, D, Tok(ts, a))
      PROVE  Joined(w, r) \in ReadAt(h, Len(base) + 1, D, Tok(ts, a))
  <2>1. w \in Text /\ g.fn \in FnsAt(n - 1) /\ Waits(g, FormsAt(n - 1, D), w)
    BY <1>6, Zenon DEF WaitAt
  <2>2. r \in Text /\ Reads(f, FormsAt(n, D), Tok(ts, a), r)
    BY <1>6, Zenon DEF ReadAt
  <2>3. h.fn \in FnsAt(n - 1) /\ Reads(h, FormsAt(n - 1, D), Tok(ts, a), Joined(w, r))
    BY <1>2, <1>5, <2>1, <2>2
  <2>4. Joined(w, r) \in Text
    BY <2>1, <2>2, JoinText
  <2> QED
    BY <1>6, <2>3, <2>4, Zenon DEF ReadAt
<1>8. Fits(ts, a, base, h, tr)
  <2>1. Fits(ts, a, Append(base, g), f, tr)
    BY <1>2, <1>3
  <2> QED
    BY <1>4, <1>7, <2>1, PopStep, Zenon
<1>9. PICK Y : Y = X \cup {h}
  OBVIOUS
<1>10. base \in Seq(Y) /\ h \in Y
  BY <1>9
<1>11. Len(Append(base, h)) < a
  BY <1>4, <1>5, <1>6, <1>10, FrontLast
<1>12. Accounted(ts, a, Append(base, h), tr)
  BY <1>8, <1>10, Zenon DEF Accounted
<1> QED
  BY <1>2, <1>4, <1>5, <1>11, <1>12 DEF Good

\* A declaration is complete.
LEMMA GoodReturn ==
    ASSUME NEW ts \in Text, NEW a, NEW st, NEW tr, Good(ts, a, st, tr), st # <<>>, Front(st) = <<>>, NEW node,
           \A r \in Text : Last(st).fn \in FnsAt(1) /\ Reads(Last(st), FormsAt(1, Len(ts)), Tok(ts, a), r)
             => node \in DeclarationNodes(FormsTo(Len(ts))) /\ r \in DeclarationForms(node, FormsTo(Len(ts)))
    PROVE  Good(ts, a, <<>>, Append(tr, node))
<1> DEFINE D == Len(ts)
<1>1. PICK X : \E base \in Seq(X), f \in X :
             /\ st = Append(base, f) /\ Fits(ts, a, base, f, tr)
             /\ Front(st) = base /\ Last(st) = f /\ Len(st) = Len(base) + 1 /\ Len(base) \in Nat
  BY TopIs
<1>2. PICK base \in Seq(X), f \in X :
             /\ st = Append(base, f) /\ Fits(ts, a, base, f, tr)
             /\ Front(st) = base /\ Last(st) = f /\ Len(st) = Len(base) + 1 /\ Len(base) \in Nat
  BY <1>1
<1>3. a \in 1..D + 1 /\ tr \in TreesTo(D) /\ D \in Nat /\ Len(<<>>) < a
  BY DEF Good, Text
<1>4. Fits(ts, a, <<>>, f, tr)
  BY <1>2
<1>5. ASSUME NEW r \in ReadAt(f, 1, D, Tok(ts, a))
      PROVE  node \in DeclarationNodes(FormsTo(D)) /\ r \in DeclarationForms(node, FormsTo(D))
  BY <1>2, Zenon DEF ReadAt
<1>6. Append(tr, node) \in TreesTo(D) /\ Cut(ts, 1, a) \in FileForms(Append(tr, node), D)
  BY <1>3, <1>4, <1>5, TreeStep, Zenon
<1> QED
  BY <1>3, <1>6, Zenon DEF Good, Accounted

\* A declaration begins.
LEMMA GoodDeclaration ==
    ASSUME NEW ts \in Text, NEW a, NEW tr, Good(ts, a, <<>>, tr), NEW b \in a..Len(ts) + 1, a # b,
           NEW f, f.fn \in DeclarationFn, Reads(f, FormsAt(1, Len(ts)), Tok(ts, b), Cut(ts, a, b))
    PROVE  Good(ts, b, <<f>>, tr)
<1> DEFINE D == Len(ts)
<1>1. a \in 1..D + 1 /\ tr \in TreesTo(D) /\ D \in Nat /\ b \in 1..D + 1 /\ 1 < b
  BY DEF Good, Text
<1>2. Cut(ts, 1, a) \in FileForms(tr, D)
  <2>1. ASSUME NEW X, NEW base \in Seq(X), NEW f2 \in X PROVE <<>> # Append(base, f2)
    BY FrontLast
  <2> QED
    BY <2>1, Zenon DEF Good, Accounted
<1>3. Cut(ts, a, b) \in Text
  BY <1>1, CutsJoin
<1>4. f.fn \in FnsAt(1)
  BY DEF FnsAt
<1>5. Cut(ts, a, b) \in ReadAt(f, 1, D, Tok(ts, b))
  BY <1>3, <1>4, Zenon DEF ReadAt
<1>6. Fits(ts, b, <<>>, f, tr)
  BY <1>1, <1>2, <1>5, DeclarationStep, Zenon
<1>7. <<f>> = Append(<<>>, f) /\ <<>> \in Seq({f}) /\ f \in {f} /\ Len(<<f>>) = 1
  OBVIOUS
<1>8. Accounted(ts, b, <<f>>, tr)
  BY <1>6, <1>7, Zenon DEF Accounted
<1> QED
  BY <1>1, <1>7, <1>8 DEF Good

-----------------------------------------------------------------------------
(* The cursor *)

\* What the methods of the cursor do to it: an error is never forgotten, and a token is passed.
LEMMA CursorFacts ==
    ASSUME NEW c, CursorOK(c)
    PROVE  /\ TT(c) = Tok(fileTokens, c.pos) /\ c.pos \in Nat
           /\ Error(c).errors # <<>> /\ Advance(c).errors = c.errors
           /\ TT(c) # "eof" => Advance(c).pos = c.pos + 1
<1>1. c \in Cursors /\ c.pos \in Places /\ c.errors \in Seq(Places)
  BY DEF CursorOK, Cursors
<1>2. TT(c) = Tok(fileTokens, c.pos)
  BY DEF TT, Tok
<1>3. Advance(c).errors = c.errors /\ (TT(c) # "eof" => Advance(c).pos = c.pos + 1)
  <2>1. PICK d : d = [c EXCEPT !.pos = @ + 1]
    OBVIOUS
  <2>2. d.errors = c.errors /\ d.pos = c.pos + 1
    BY <1>1, <2>1 DEF Cursors
  <2>3. Advance(c) = IF TT(c) = "eof" THEN c ELSE d
    BY <2>1 DEF Advance
  <2> QED
    BY <2>2, <2>3
<1>4. Error(c).errors # <<>>
  <2>1. CASE c.lastErrorPlace = c.pos
    <3>1. Error(c) = c /\ c.pos # 0
      BY <1>1, <2>1 DEF Error, Places
    <3> QED
      BY <2>1, <3>1 DEF CursorOK
  <2>2. CASE c.lastErrorPlace # c.pos
    <3>1. PICK e : e = Append(c.errors, c.pos)
      OBVIOUS
    <3>2. Error(c) = [c EXCEPT !.errors = e, !.lastErrorPlace = c.pos]
      BY <2>2, <3>1 DEF Error
    <3>3. Error(c).errors = e
      BY <1>1, <3>2 DEF Cursors
    <3>4. e # <<>>
      BY <1>1, <3>1, AppendProperties
    <3> QED
      BY <3>3, <3>4
  <2> QED
    BY <2>1, <2>2
<1> QED
  BY <1>1, <1>2, <1>3, <1>4 DEF Places

\* A token that is read.
LEMMA OneToken ==
    ASSUME NEW ts \in Text, NEW a \in 1..Len(ts) + 1, Tok(ts, a) # "eof"
    PROVE  a + 1 \in a..Len(ts) + 1 /\ a + 1 # a /\ Cut(ts, a, a + 1) = <<Tok(ts, a)>> /\ Tok(ts, a) \in TokenType
<1>1. Len(ts) \in Nat /\ a <= Len(ts) /\ Tok(ts, a) = ts[a] /\ ts \in Seq(TokenType)
  BY DEF Tok, Text
<1>2. Cut(ts, a, a + 1) = <<ts[a]>>
  BY <1>1, ShortCuts
<1> QED
  BY <1>1, <1>2

\* Two tokens that are read.
LEMMA TwoTokens ==
    ASSUME NEW ts \in Text, NEW a \in 1..Len(ts) + 1, Tok(ts, a) # "eof", Tok(ts, a + 1) # "eof"
    PROVE  a + 2 \in a..Len(ts) + 1 /\ a + 2 # a /\ Cut(ts, a, a + 2) = <<Tok(ts, a), Tok(ts, a + 1)>>
<1>1. Len(ts) \in Nat /\ a + 1 <= Len(ts) /\ Tok(ts, a) = ts[a] /\ Tok(ts, a + 1) = ts[a + 1] /\ ts \in Seq(TokenType)
  BY DEF Tok, Text
<1>2. Cut(ts, a, a + 2) = <<ts[a], ts[a + 1]>>
  BY <1>1, ShortCuts
<1> QED
  BY <1>1, <1>2

\* Nothing is read.
LEMMA NoToken ==
    ASSUME NEW ts \in Text, NEW a \in 1..Len(ts) + 1
    PROVE  a \in a..Len(ts) + 1 /\ Cut(ts, a, a) = <<>> /\ \A w \in Text : Joined(w, Cut(ts, a, a)) = w
<1>1. Len(ts) \in Nat /\ ts \in Seq(TokenType)
  BY DEF Text
<1>2. Cut(ts, a, a) = <<>>
  BY <1>1, ShortCuts
<1>3. \A w \in Text : Joined(w, <<>>) = w
  BY JoinedFacts DEF Text
<1> QED
  BY <1>1, <1>2, <1>3

-----------------------------------------------------------------------------
(* The actions *)
\* All of the invariant, when no error has been reported.
Sound == fileTokens \in Text /\ CursorOK(cursor) /\ Good(fileTokens, cursor.pos, stack, tree)

\* The top frame, and what the functions make of it.
LEMMA TopFrame ==
    ASSUME Sound, stack # <<>>
    PROVE  /\ Top = Frame(Top.fn, Top.rest, Top.children) /\ Top.children \o <<>> = Top.children
           /\ \A nodes : Done(nodes) = Frame(Top.fn, Tail(Top.rest), Top.children \o nodes)
           /\ \A nodes : [Top EXCEPT !.children = @ \o nodes] = Frame(Top.fn, Top.rest, Top.children \o nodes)
           /\ [Top EXCEPT !.rest = <<"COMMA">> \o @] = Frame(Top.fn, <<"COMMA">> \o Top.rest, Top.children)
<1> DEFINE G == FormsAt(Len(stack), Len(fileTokens))
           t == Tok(fileTokens, cursor.pos)
<1>1. fileTokens \in Text /\ Good(fileTokens, cursor.pos, stack, tree) /\ Top = Last(stack)
  BY DEF Sound, Top
<1>2. \E w \in Text : Reads(Last(stack), G, t, w)
  BY <1>1, TopFacts, Zenon
<1>3. PICK w \in Text : Reads(Top, G, t, w)
  BY <1>1, <1>2
<1>4. Top = Frame(Top.fn, Top.rest, Top.children) /\ Top.children \o <<>> = Top.children
  BY <1>3, ReadsFrame, Zenon
<1>5. /\ \A nodes : Gets(Top, nodes) = Frame(Top.fn, Tail(Top.rest), Top.children \o nodes)
      /\ \A nodes : More(Top, nodes) = Frame(Top.fn, Top.rest, Top.children \o nodes)
      /\ WithComma(Top) = Frame(Top.fn, <<"COMMA">> \o Top.rest, Top.children)
  BY <1>4, FrameUpdates, Zenon
<1> QED
  BY <1>4, <1>5, Zenon DEF Done, Gets, More, WithComma

\* The cursor reads one token, or two.
LEMMA CursorMoves ==
    ASSUME Sound
    PROVE  /\ TT(cursor) = Tok(fileTokens, cursor.pos)
           /\ Error(cursor).errors # <<>> /\ Advance(Error(cursor)).errors # <<>> /\ Advance(cursor).errors = cursor.errors
           /\ TT(cursor) # "eof" =>
                /\ Advance(cursor).pos = cursor.pos + 1
                /\ TT(Advance(cursor)) = Tok(fileTokens, cursor.pos + 1)
                /\ Error(Advance(cursor)).errors # <<>>
                /\ TT(Advance(cursor)) # "eof" => Advance(Advance(cursor)).pos = cursor.pos + 2
<1>1. CursorOK(cursor) /\ CursorOK(Advance(cursor)) /\ CursorOK(Error(cursor))
  BY AdvanceOK, ErrorOK DEF Sound
<1>2. /\ TT(cursor) = Tok(fileTokens, cursor.pos) /\ cursor.pos \in Nat
      /\ Error(cursor).errors # <<>> /\ Advance(cursor).errors = cursor.errors
      /\ TT(cursor) # "eof" => Advance(cursor).pos = cursor.pos + 1
  BY <1>1, CursorFacts
<1>3. Advance(Error(cursor)).errors = Error(cursor).errors
  BY <1>1, CursorFacts
<1>4. PICK d : d = Advance(cursor)
  OBVIOUS
<1>5. /\ TT(d) = Tok(fileTokens, d.pos) /\ d.pos \in Nat /\ Error(d).errors # <<>>
      /\ TT(d) # "eof" => Advance(d).pos = d.pos + 1
  BY <1>1, <1>4, CursorFacts
<1> QED
  BY <1>2, <1>3, <1>4, <1>5

\* parse_file calls the function of a declaration.
LEMMA DeclarationGood ==
    ASSUME Sound, NEW token, NEW fn, Declaration(token, fn),
           <<token, fn>> \in {<<"task", "task">>, <<"identifier", "dependency">>, <<"run_level", "run_level">>}
    PROVE  Good(fileTokens, cursor'.pos, stack', tree')
<1> DEFINE ts == fileTokens
           a == cursor.pos
           f == Call(fn)
<1>1. /\ ts \in Text /\ stack = <<>> /\ TT(cursor) = token /\ cursor' = Advance(cursor) /\ stack' = <<f>> /\ tree' = tree
      /\ Good(ts, a, <<>>, tree) /\ a \in 1..Len(ts) + 1
  BY DEF Sound, Declaration, Good
<1>2. token # "eof" /\ fn \in DeclarationFn
  BY DEF DeclarationFn
<1>3. cursor'.pos = a + 1 /\ Tok(ts, a) = token
  BY <1>1, <1>2, CursorMoves
<1>4. a + 1 \in a..Len(ts) + 1 /\ a + 1 # a /\ Cut(ts, a, a + 1) = <<token>>
  BY <1>1, <1>2, <1>3, OneToken
<1>5. f = Frame(fn, Script[fn], <<>>) /\ f.fn = fn
  BY DEF Call, Frame
<1>6. OpeningRead(f, <<token>>)
  BY <1>5 DEF OpeningRead, Script
<1>7. Reads(f, FormsAt(1, Len(ts)), Tok(ts, a + 1), Cut(ts, a, a + 1))
  BY <1>4, <1>6 DEF Reads
<1>8. Good(ts, a + 1, <<f>>, tree)
  BY <1>1, <1>2, <1>4, <1>5, <1>7, GoodDeclaration, Zenon
<1> QED
  BY <1>1, <1>3, <1>8

\* A token that was expected and is there.
LEMMA ExpectTokenGood ==
    ASSUME Sound, NEW type \in TokenType, ExpectToken(type), cursor'.errors = <<>>
    PROVE  Good(fileTokens, cursor'.pos, stack', tree')
<1> DEFINE ts == fileTokens
           a == cursor.pos
           G == FormsAt(Len(stack), Len(ts))
<1>1. /\ ts \in Text /\ Good(ts, a, stack, tree) /\ a \in 1..Len(ts) + 1 /\ stack # <<>> /\ Top = Last(stack)
      /\ Top.rest # <<>> /\ Head(Top.rest) = type /\ tree' = tree /\ cursor' = Expect(cursor, type)
  BY DEF Sound, ExpectToken, Doing, Good, Top
<1>2. TT(cursor) = type /\ cursor' = Advance(cursor)
  BY <1>1, CursorMoves DEF Expect
<1>3. type # "eof" /\ cursor'.pos = a + 1 /\ Tok(ts, a) = type
  BY <1>2, CursorMoves DEF TokenType
<1>4. a + 1 \in a..Len(ts) + 1 /\ Cut(ts, a, a + 1) = <<type>>
  BY <1>1, <1>3, OneToken
<1>5. PICK g : g = Frame(Top.fn, Tail(Top.rest), Top.children)
  OBVIOUS
<1>6. Done(<<>>) = g /\ g.fn = Top.fn
  <2>1. Done(<<>>) = Frame(Top.fn, Tail(Top.rest), Top.children \o <<>>) /\ Top.children \o <<>> = Top.children
    BY <1>1, TopFrame
  <2>2. Frame(Top.fn, Tail(Top.rest), Top.children).fn = Top.fn
    BY FrameFields
  <2> QED
    BY <1>5, <2>1, <2>2
<1>7. [g EXCEPT !.missing = @] = g
  BY <1>5 DEF Frame
<1>8. stack' = Append(Front(stack), g)
  BY <1>2, <1>6, <1>7 DEF ExpectToken, Replace
<1>9. ASSUME NEW w \in Text, Reads(Top, G, Tok(ts, a), w) PROVE Reads(g, G, Tok(ts, a + 1), Joined(w, <<type>>))
  BY <1>1, <1>5, <1>9, ExpectReads
<1>10. Good(ts, a + 1, Append(Front(stack), g), tree)
  BY <1>1, <1>4, <1>6, <1>9, GoodStep
<1> QED
  BY <1>1, <1>3, <1>8, <1>10

\* What a step of a function on the top of the stack starts from.
LEMMA TopReads ==
    ASSUME Sound, NEW step, Doing(step)
    PROVE  /\ fileTokens \in Text /\ Good(fileTokens, cursor.pos, stack, tree) /\ cursor.pos \in 1..Len(fileTokens) + 1
           /\ stack # <<>> /\ Last(stack) = Top /\ Top.rest # <<>> /\ Head(Top.rest) = step
           /\ Len(stack) \in Nat /\ Len(stack) # 0 /\ Top.fn \in FnsAt(Len(stack))
           /\ TypedForms(FormsAt(Len(stack), Len(fileTokens)))
           /\ TypedForms(FormsAt(Len(stack) + 1, Len(fileTokens)))
           /\ FormsAt(Len(stack), Len(fileTokens)) = Deeper(FormsAt(Len(stack) + 1, Len(fileTokens)))
           /\ \E w \in Text : Reads(Top, FormsAt(Len(stack), Len(fileTokens)), Tok(fileTokens, cursor.pos), w)
           /\ \A nodes : Done(nodes) = Frame(Top.fn, Tail(Top.rest), Top.children \o nodes) /\ Done(nodes).fn = Top.fn
<1>1. /\ fileTokens \in Text /\ Good(fileTokens, cursor.pos, stack, tree) /\ cursor.pos \in 1..Len(fileTokens) + 1
      /\ stack # <<>> /\ Last(stack) = Top /\ Top.rest # <<>> /\ Head(Top.rest) = step
  BY DEF Sound, Doing, Good, Top
<1>2. /\ Len(stack) \in 1..Len(fileTokens) /\ Top.fn \in FnsAt(Len(stack))
      /\ \E w \in Text : Reads(Top, FormsAt(Len(stack), Len(fileTokens)), Tok(fileTokens, cursor.pos), w)
      /\ TypedForms(FormsAt(Len(stack), Len(fileTokens))) /\ TypedForms(FormsAt(Len(stack) + 1, Len(fileTokens)))
      /\ FormsAt(Len(stack), Len(fileTokens)) = Deeper(FormsAt(Len(stack) + 1, Len(fileTokens)))
  BY <1>1, TopFacts
<1>3. ASSUME NEW nodes
      PROVE Done(nodes) = Frame(Top.fn, Tail(Top.rest), Top.children \o nodes) /\ Done(nodes).fn = Top.fn
  <2>1. Done(nodes) = Frame(Top.fn, Tail(Top.rest), Top.children \o nodes)
    BY <1>1, TopFrame
  <2>2. Frame(Top.fn, Tail(Top.rest), Top.children \o nodes).fn = Top.fn
    BY FrameFields
  <2> QED
    BY <2>1, <2>2
<1> QED
  BY <1>1, <1>2, <1>3

\* Odd and even depths of the stack.
LEMMA Parity ==
    ASSUME NEW n \in Nat, n # 0
    PROVE  /\ (n = 1 \/ n % 2 # 0) => n + 1 # 1 /\ (n + 1) % 2 = 0
           /\ n % 2 = 0 => n + 1 # 1 /\ (n + 1) % 2 # 0
<1>1. n % 2 \in {0, 1} /\ 1 % 2 = 1 /\ 0 % 2 = 0
  OBVIOUS
<1>2. n % 2 = 1 => (n + 1) % 2 = 0
  OBVIOUS
<1>3. n % 2 = 0 => (n + 1) % 2 = 1
  OBVIOUS
<1>4. n + 1 = 1 => n = 0
  OBVIOUS
<1> QED
  BY <1>1, <1>2, <1>3, <1>4

\* The value is one token.
LEMMA LeafGood ==
    ASSUME Sound, Doing("VALUE"), NEW x, NEW leaf,
           <<x, leaf>> \in {<<"literal", "literal">>, <<"identifier", "pseudo_identifier">>}, TT(cursor) = x
    PROVE  Good(fileTokens, Advance(cursor).pos, Replace(Done(<<Leaf(leaf)>>)), tree)
<1> DEFINE ts == fileTokens
           a == cursor.pos
           G == FormsAt(Len(stack), Len(ts))
           v == Leaf(leaf)
<1>1. x \in TokenType /\ x # "eof"
  BY DEF TokenType
<1>2. Advance(cursor).pos = a + 1 /\ Tok(ts, a) = x
  BY <1>1, CursorMoves
<1>3. /\ ts \in Text /\ Good(ts, a, stack, tree) /\ a \in 1..Len(ts) + 1
      /\ stack # <<>> /\ Last(stack) = Top /\ Top.rest # <<>> /\ Head(Top.rest) = "VALUE"
      /\ TypedForms(FormsAt(Len(stack) + 1, Len(ts))) /\ G = Deeper(FormsAt(Len(stack) + 1, Len(ts)))
  BY TopReads
<1>4. a + 1 \in a..Len(ts) + 1 /\ Cut(ts, a, a + 1) = <<x>>
  BY <1>1, <1>2, <1>3, OneToken
<1>5. v \in ValuesIn(G) /\ <<x>> \in G[v]
  BY <1>3, DeeperNodes
<1>6. PICK g : g = Frame(Top.fn, Tail(Top.rest), Top.children \o <<v>>)
  OBVIOUS
<1>7. Done(<<v>>) = g /\ g.fn = Top.fn
  BY <1>6, TopReads
<1>8. ASSUME NEW w \in Text, Reads(Top, G, Tok(ts, a), w) PROVE Reads(g, G, Tok(ts, a + 1), Joined(w, <<x>>))
  BY <1>1, <1>3, <1>5, <1>6, <1>8, LeafReads
<1>9. Good(ts, a + 1, Append(Front(stack), g), tree)
  BY <1>3, <1>4, <1>7, <1>8, GoodStep
<1> QED
  BY <1>2, <1>7, <1>9 DEF Replace

\* A struct begins.
LEMMA StructGood ==
    ASSUME Sound, Doing("VALUE"), TT(cursor) = "identifier", TT(Advance(cursor)) = "lbrace"
    PROVE  Good(fileTokens, Advance(Advance(cursor)).pos, Append(Replace(Done(<<>>)), Call("struct")), tree)
<1> DEFINE ts == fileTokens
           a == cursor.pos
           n == Len(stack)
           G == FormsAt(n, Len(ts))
           H == FormsAt(n + 1, Len(ts))
           h == Call("struct")
<1>1. Advance(Advance(cursor)).pos = a + 2 /\ Tok(ts, a) = "identifier" /\ Tok(ts, a + 1) = "lbrace"
  BY CursorMoves
<1>2. /\ ts \in Text /\ Good(ts, a, stack, tree) /\ a \in 1..Len(ts) + 1
      /\ stack # <<>> /\ Last(stack) = Top /\ Top.rest # <<>> /\ Head(Top.rest) = "VALUE"
      /\ n \in Nat /\ n # 0 /\ Top.fn \in FnsAt(n) /\ TypedForms(H)
  BY TopReads
<1>3. a + 2 \in a..Len(ts) + 1 /\ a + 2 # a /\ Cut(ts, a, a + 2) = <<"identifier", "lbrace">>
  BY <1>1, <1>2, TwoTokens
<1>4. PICK g : g = Frame(Top.fn, Tail(Top.rest), Top.children \o <<>>)
  OBVIOUS
<1>5. Done(<<>>) = g /\ g.fn = Top.fn
  BY <1>4, TopReads
<1>6. ASSUME NEW w \in Text, Reads(Top, G, Tok(ts, a), w) PROVE Waits(g, G, w) /\ Top.fn \in {"task", "property"}
  <2>1. Waits(g, G, w)
    BY <1>2, <1>4, <1>6, ValueWaits
  <2>2. Top.fn \in {"task", "property"}
    BY <1>2, <1>6, ValueIsRead
  <2> QED
    BY <2>1, <2>2
<1>7. Top.fn \in {"task", "property"}
  <2>1. PICK w \in Text : Reads(Top, G, Tok(ts, a), w)
    BY TopReads
  <2> QED
    BY <1>6, <2>1
<1>8. FnsAt(n + 1) = {"struct"}
  <2>1. n = 1 \/ (n # 1 /\ n % 2 # 0)
    BY <1>2, <1>7 DEF FnsAt
  <2>2. n + 1 # 1 /\ (n + 1) % 2 = 0
    BY <1>2, <2>1, Parity
  <2> QED
    BY <2>2 DEF FnsAt
<1>9. h = Frame("struct", <<"PROPERTIES", "rbrace">>, <<>>)
  BY DEF Call, Frame, Script
<1>10. h.fn = "struct" /\ h.rest = <<"PROPERTIES", "rbrace">> /\ h.children = <<>>
  BY <1>9, FrameFields
<1>11. AtBody(h, H, Tok(ts, a + 2), <<"identifier", "lbrace">>)
  <2>1. "struct" \in Function /\ Body["struct"] = <<"PROPERTIES", "rbrace">>
    BY DEF Function, Body
  <2>2. IsFrame(h, Body[h.fn])
    BY <1>9, <1>10, <2>1 DEF IsFrame
  <2>3. <<>> \in Seq(PropertiesIn(H)) /\ <<>> \in Text /\ <<>> \in Seq(DOMAIN H)
    BY DEF Text
  <2>4. <<>> \in Separate(<<>>, H)
    BY <1>2, <2>3, PropertiesRead
  <2>5. InBody("struct", <<>>, H, Tok(ts, a + 2), <<>>)
    BY <2>3, <2>4, Zenon DEF InBody
  <2>6. Joined(Opening["struct"], <<>>) = <<"identifier", "lbrace">>
    BY <2>1, OpeningText, OpeningsAre
  <2>7. \E m \in Text : InBody(h.fn, h.children, H, Tok(ts, a + 2), m) /\ <<"identifier", "lbrace">> = Joined(Opening[h.fn], m)
    BY <1>10, <2>3, <2>5, <2>6
  <2> QED
    BY <2>2, <2>7, Zenon DEF AtBody
<1>12. Reads(h, H, Tok(ts, a + 2), Cut(ts, a, a + 2))
  BY <1>3, <1>11 DEF Reads
<1>13. h.fn \in FnsAt(n + 1)
  BY <1>8, <1>10
<1>14. \A w \in Text : Reads(Top, G, Tok(ts, a), w) => Waits(g, G, w)
  BY <1>6
<1>15. Good(ts, a + 2, Append(Append(Front(stack), g), h), tree)
  BY <1>2, <1>3, <1>5, <1>12, <1>13, <1>14, GoodPush
<1> QED
  BY <1>1, <1>5, <1>15 DEF Replace

\* parse_value.
LEMMA ParseValueGood ==
    ASSUME Sound, ParseValue, cursor'.errors = <<>>
    PROVE  Good(fileTokens, cursor'.pos, stack', tree')
<1>1. tree' = tree /\ Doing("VALUE")
  BY DEF ParseValue
<1>2. CASE /\ TT(cursor) = "literal" /\ cursor' = Advance(cursor)
           /\ stack' = Replace(Done(<<Leaf("literal")>>))
  BY <1>1, <1>2, LeafGood
<1>3. CASE /\ TT(cursor) = "identifier" /\ cursor' = Advance(cursor)
           /\ stack' = Replace(Done(<<Leaf("pseudo_identifier")>>))
  BY <1>1, <1>3, LeafGood
<1>4. CASE /\ TT(cursor) = "identifier" /\ TT(Advance(cursor)) = "lbrace"
           /\ cursor' = Advance(Advance(cursor))
           /\ stack' = Append(Replace(Done(<<>>)), Call("struct"))
  BY <1>1, <1>4, StructGood
<1>5. CASE cursor' = Error(cursor)
  BY <1>5, CursorMoves
<1> QED
  BY <1>2, <1>3, <1>4, <1>5 DEF ParseValue, NoValue

\* A round of the loop over properties.
LEMMA ParsePropertiesGood ==
    ASSUME Sound, ParseProperties, cursor'.errors = <<>>
    PROVE  Good(fileTokens, cursor'.pos, stack', tree')
<1> DEFINE ts == fileTokens
           a == cursor.pos
           n == Len(stack)
           G == FormsAt(n, Len(ts))
           H == FormsAt(n + 1, Len(ts))
           h == Call("property")
<1>0. tree' = tree /\ Doing("PROPERTIES")
  BY DEF ParseProperties
<1>1. /\ ts \in Text /\ Good(ts, a, stack, tree) /\ a \in 1..Len(ts) + 1
      /\ stack # <<>> /\ Last(stack) = Top /\ Top.rest # <<>> /\ Head(Top.rest) = "PROPERTIES"
      /\ n \in Nat /\ n # 0 /\ Top.fn \in FnsAt(n) /\ TypedForms(G)
  BY <1>0, TopReads
<1>2. CASE stack' = Replace(Done(<<>>)) /\ cursor' = cursor
  <2>1. PICK g : g = Frame(Top.fn, Tail(Top.rest), Top.children \o <<>>)
    OBVIOUS
  <2>2. Done(<<>>) = g /\ g.fn = Top.fn
    BY <1>0, <2>1, TopReads
  <2>3. a \in a..Len(ts) + 1 /\ \A w \in Text : Joined(w, Cut(ts, a, a)) = w
    BY <1>1, NoToken
  <2>4. ASSUME NEW w \in Text, Reads(Top, G, Tok(ts, a), w) PROVE Reads(g, G, Tok(ts, a), Joined(w, Cut(ts, a, a)))
    <3>1. Reads(g, G, Tok(ts, a), w)
      BY <1>1, <2>1, <2>4, PropertiesEnd
    <3> QED
      BY <2>3, <3>1
  <2>5. Good(ts, a, Append(Front(stack), g), tree)
    BY <1>1, <2>2, <2>3, <2>4, GoodStep
  <2> QED
    BY <1>0, <1>2, <2>2, <2>5 DEF Replace
<1>3. CASE /\ TT(cursor) = "identifier" /\ cursor' = Advance(cursor)
           /\ stack' = Append(Replace([Top EXCEPT !.rest = <<"COMMA">> \o @]), Call("property"))
  <2>1. cursor'.pos = a + 1 /\ Tok(ts, a) = "identifier"
    BY <1>3, CursorMoves
  <2>2. a + 1 \in a..Len(ts) + 1 /\ a + 1 # a /\ Cut(ts, a, a + 1) = <<"identifier">>
    BY <1>1, <2>1, OneToken
  <2>3. PICK g : g = Frame(Top.fn, <<"COMMA">> \o Top.rest, Top.children)
    OBVIOUS
  <2>4. [Top EXCEPT !.rest = <<"COMMA">> \o @] = g
    BY <1>1, <2>3, TopFrame
  <2>5. g.fn = Top.fn
    BY <2>3, FrameFields
  <2>6. \A w \in Text : Reads(Top, G, Tok(ts, a), w) => Waits(g, G, w)
    BY <1>1, <2>1, <2>3, PropertiesWait
  <2>7. Top.fn = "struct"
    <3>1. PICK w \in Text : Reads(Top, G, Tok(ts, a), w)
      BY <1>0, TopReads
    <3> QED
      BY <1>1, <3>1, PropertiesAre
  <2>8. FnsAt(n + 1) = {"property"}
    <3>1. n # 1 /\ n % 2 = 0
      BY <2>7, <1>1 DEF FnsAt, DeclarationFn
    <3>2. n + 1 # 1 /\ (n + 1) % 2 # 0
      BY <1>1, <3>1, Parity
    <3> QED
      BY <3>2 DEF FnsAt
  <2>9. h = Frame("property", <<"equals", "VALUE">>, <<>>)
    BY DEF Call, Frame, Script
  <2>10. OpeningRead(h, <<"identifier">>) /\ h.fn = "property"
    BY <2>9, FrameFields DEF OpeningRead
  <2>11. Reads(h, H, Tok(ts, a + 1), Cut(ts, a, a + 1)) /\ h.fn \in FnsAt(n + 1)
    BY <2>2, <2>8, <2>10 DEF Reads
  <2>12. Good(ts, a + 1, Append(Append(Front(stack), g), h), tree)
    BY <1>1, <2>2, <2>5, <2>6, <2>11, GoodPush
  <2> QED
    BY <1>0, <1>3, <2>1, <2>4, <2>12 DEF Replace
<1>4. CASE cursor' = Advance(Error(cursor))
  BY <1>4, CursorMoves
<1> QED
  BY <1>2, <1>3, <1>4 DEF ParseProperties

\* The comma after a property.
LEMMA AfterPropertyGood ==
    ASSUME Sound, AfterProperty, cursor'.errors = <<>>
    PROVE  Good(fileTokens, cursor'.pos, stack', tree')
<1> DEFINE ts == fileTokens
           a == cursor.pos
           G == FormsAt(Len(stack), Len(ts))
<1>0. tree' = tree /\ Doing("COMMA")
  BY DEF AfterProperty
<1>1. /\ ts \in Text /\ Good(ts, a, stack, tree) /\ a \in 1..Len(ts) + 1
      /\ stack # <<>> /\ Last(stack) = Top /\ Top.rest # <<>> /\ Head(Top.rest) = "COMMA" /\ TypedForms(G)
  BY <1>0, TopReads
<1>2. PICK g : g = Frame(Top.fn, Tail(Top.rest), Top.children \o <<>>)
  OBVIOUS
<1>3. Done(<<>>) = g /\ g.fn = Top.fn
  BY <1>0, <1>2, TopReads
<1>4. stack' = Append(Front(stack), g)
  BY <1>3 DEF AfterProperty, Replace
<1>5. CASE TT(cursor) = "rbrace"
  <2>1. cursor' = cursor /\ Tok(ts, a) = "rbrace"
    BY <1>5, CursorMoves DEF AfterProperty
  <2>2. a \in a..Len(ts) + 1 /\ \A w \in Text : Joined(w, Cut(ts, a, a)) = w
    BY <1>1, NoToken
  <2>3. ASSUME NEW w \in Text, Reads(Top, G, Tok(ts, a), w) PROVE Reads(g, G, Tok(ts, a), Joined(w, Cut(ts, a, a)))
    <3>1. Reads(g, G, Tok(ts, a), w)
      BY <1>1, <1>2, <2>1, <2>3, CommaReads
    <3> QED
      BY <2>2, <3>1
  <2>4. Good(ts, a, Append(Front(stack), g), tree)
    BY <1>1, <1>3, <2>2, <2>3, GoodStep
  <2> QED
    BY <1>0, <1>4, <2>1, <2>4
<1>6. CASE TT(cursor) # "rbrace"
  <2>1. TT(cursor) = "comma" /\ cursor' = Advance(cursor)
    BY <1>6, CursorMoves DEF AfterProperty, Expect
  <2>2. cursor'.pos = a + 1 /\ Tok(ts, a) = "comma"
    BY <2>1, CursorMoves
  <2>3. a + 1 \in a..Len(ts) + 1 /\ Cut(ts, a, a + 1) = <<"comma">>
    BY <1>1, <2>2, OneToken
  <2>4. ASSUME NEW w \in Text, Reads(Top, G, Tok(ts, a), w) PROVE Reads(g, G, Tok(ts, a + 1), Joined(w, <<"comma">>))
    BY <1>1, <1>2, <2>4, CommaReads
  <2>5. Good(ts, a + 1, Append(Front(stack), g), tree)
    BY <1>1, <1>3, <2>3, <2>4, GoodStep
  <2> QED
    BY <1>0, <1>4, <2>2, <2>5
<1> QED
  BY <1>5, <1>6

\* A round of the loop over names.
LEMMA ParseNamesGood ==
    ASSUME Sound, ParseNames, cursor'.errors = <<>>
    PROVE  Good(fileTokens, cursor'.pos, stack', tree')
<1> DEFINE ts == fileTokens
           a == cursor.pos
           G == FormsAt(Len(stack), Len(ts))
           v == Leaf("name")
           id == Expect(cursor, "identifier")
           found == TT(cursor) = "identifier"
           names == IF found THEN <<Leaf("name")>> ELSE <<>>
           more == [Top EXCEPT !.children = @ \o names]
<1>0. tree' = tree /\ Doing("NAMES")
  BY DEF ParseNames
<1>1. /\ ts \in Text /\ Good(ts, a, stack, tree) /\ a \in 1..Len(ts) + 1
      /\ stack # <<>> /\ Last(stack) = Top /\ Top.rest # <<>> /\ Head(Top.rest) = "NAMES"
  BY <1>0, TopReads
<1>2. \/ TT(id) = "comma" /\ cursor' = Advance(id) /\ stack' = Replace(more)
      \/ cursor' = id /\ stack' = Replace(Done(names))
      \/ cursor' = Error(id)
  BY DEF ParseNames
<1>3. TT(cursor) = "identifier"
  <2> SUFFICES ASSUME TT(cursor) # "identifier" PROVE FALSE
    OBVIOUS
  <2>1. PICK e : e = id
    OBVIOUS
  <2>2. e = Error(cursor) /\ e.errors # <<>>
    BY <2>1, CursorMoves DEF Expect
  <2>3. CursorOK(e)
    BY <2>2, ErrorOK DEF Sound
  <2>4. Error(e).errors # <<>> /\ Advance(e).errors = e.errors
    BY <2>3, CursorFacts
  <2> QED
    BY <1>2, <2>1, <2>2, <2>4
<1>4. id = Advance(cursor) /\ names = <<v>>
  BY <1>3 DEF Expect
<1>5. /\ Tok(ts, a) = "identifier" /\ Advance(cursor).pos = a + 1 /\ TT(Advance(cursor)) = Tok(ts, a + 1)
      /\ Error(Advance(cursor)).errors # <<>>
      /\ TT(Advance(cursor)) # "eof" => Advance(Advance(cursor)).pos = a + 2
  BY <1>3, CursorMoves
<1>6. CASE TT(id) = "comma" /\ cursor' = Advance(id) /\ stack' = Replace(more)
  <2>1. cursor'.pos = a + 2 /\ Tok(ts, a + 1) = "comma"
    BY <1>4, <1>5, <1>6
  <2>2. a + 2 \in a..Len(ts) + 1 /\ Cut(ts, a, a + 2) = <<"identifier", "comma">>
    BY <1>1, <1>5, <2>1, TwoTokens
  <2>3. PICK g : g = Frame(Top.fn, Top.rest, Top.children \o <<v>>)
    OBVIOUS
  <2>4. more = g
    BY <1>1, <1>4, <2>3, TopFrame
  <2>5. g.fn = Top.fn
    BY <2>3, FrameFields
  <2>6. ASSUME NEW w \in Text, Reads(Top, G, Tok(ts, a), w)
        PROVE  Reads(g, G, Tok(ts, a + 2), Joined(w, <<"identifier", "comma">>))
    BY <1>1, <2>3, <2>6, NamesReads
  <2>7. Good(ts, a + 2, Append(Front(stack), g), tree)
    BY <1>1, <2>2, <2>5, <2>6, GoodStep
  <2>8. stack' = Append(Front(stack), g)
    BY <1>6, <2>4 DEF Replace
  <2> QED
    BY <1>0, <2>1, <2>7, <2>8
<1>7. CASE cursor' = id /\ stack' = Replace(Done(names))
  <2>1. cursor'.pos = a + 1
    BY <1>4, <1>5, <1>7
  <2>2. a + 1 \in a..Len(ts) + 1 /\ Cut(ts, a, a + 1) = <<"identifier">>
    BY <1>1, <1>5, OneToken
  <2>3. PICK g : g = Frame(Top.fn, Tail(Top.rest), Top.children \o <<v>>)
    OBVIOUS
  <2>4. Done(<<v>>) = g /\ g.fn = Top.fn
    BY <1>0, <2>3, TopReads
  <2>5. ASSUME NEW w \in Text, Reads(Top, G, Tok(ts, a), w)
        PROVE  Reads(g, G, Tok(ts, a + 1), Joined(w, <<"identifier">>))
    BY <1>1, <2>3, <2>5, NamesReads
  <2>6. Good(ts, a + 1, Append(Front(stack), g), tree)
    BY <1>1, <2>2, <2>4, <2>5, GoodStep
  <2>7. stack' = Append(Front(stack), g)
    BY <1>4, <1>7, <2>4 DEF Replace
  <2> QED
    BY <1>0, <2>1, <2>6, <2>7
<1>8. CASE cursor' = Error(id)
  BY <1>4, <1>5, <1>8
<1> QED
  BY <1>2, <1>6, <1>7, <1>8

\* The caller has the node and, before it, what it waited with.
LEMMA CallerReturns ==
    ASSUME NEW F, TypedForms(F), NEW g, NEW w \in Text, Waits(g, F, w), NEW node, NEW r, r \in F[node],
           \/ g.fn \in {"task", "property"} /\ node \in ValuesIn(F)
           \/ g.fn = "struct" /\ node \in PropertiesIn(F),
           NEW u, NEW h, h = Frame(g.fn, g.rest, g.children \o <<node>>)
    PROVE  h = More(g, <<node>>) /\ Reads(h, F, u, Joined(w, r))
<1>1. g = Frame(g.fn, g.rest, g.children) /\ Reads(Frame(g.fn, g.rest, g.children \o <<node>>), F, u, Joined(w, r))
  BY CallerReads, Zenon
<1>2. More(g, <<node>>) = Frame(g.fn, g.rest, g.children \o <<node>>)
  BY <1>1, FrameUpdates, Zenon
<1> QED
  BY <1>1, <1>2

\* Below the top, a call waits for it.
LEMMA CallerWaits ==
    ASSUME NEW ts \in Text, NEW a, NEW st, NEW tr, Good(ts, a, st, tr), st # <<>>, Front(st) # <<>>
    PROVE  \E w \in Text, r \in Text :
             /\ Last(Front(st)).fn \in FnsAt(Len(st) - 1) /\ Waits(Last(Front(st)), FormsAt(Len(st) - 1, Len(ts)), w)
             /\ Reads(Last(st), FormsAt(Len(st), Len(ts)), Tok(ts, a), r)
<1> DEFINE D == Len(ts)
           n == Len(st)
<1>1. PICK X : \E base \in Seq(X), f \in X :
             /\ st = Append(base, f) /\ Fits(ts, a, base, f, tr)
             /\ Front(st) = base /\ Last(st) = f /\ Len(st) = Len(base) + 1 /\ Len(base) \in Nat
  BY TopIs
<1>2. PICK callers \in Seq(X), f \in X :
             /\ st = Append(callers, f) /\ Fits(ts, a, callers, f, tr)
             /\ Front(st) = callers /\ Last(st) = f /\ Len(st) = Len(callers) + 1 /\ Len(callers) \in Nat
  BY <1>1
<1>3. PICK base \in Seq(X), g \in X : callers = Append(base, g)
  <2>1. callers # <<>> /\ callers \in Seq(X)
    BY <1>2
  <2> QED
    BY <2>1, SequenceEmptyOrAppend
<1>4. tr \in TreesTo(D) /\ D \in Nat
  BY DEF Good, Text
<1>5. Last(callers) = g /\ n - 1 = Len(base) + 1
  BY <1>2, <1>3, FrontLast
<1>6. PICK q \in Before(Append(base, g), tr, D), r \in ReadAt(f, Len(callers) + 1, D, Tok(ts, a)) : Cut(ts, 1, a) = Joined(q, r)
  BY <1>2, <1>3, Zenon DEF Fits, Splits
<1>7. r \in Text /\ Reads(f, FormsAt(n, D), Tok(ts, a), r)
  BY <1>2, <1>6, Zenon DEF ReadAt
<1>8. Splits(q, Before(base, tr, D), WaitAt(g, Len(base) + 1, D))
  BY <1>4, <1>6, BeforeFacts
<1>9. PICK w : w \in WaitAt(g, Len(base) + 1, D)
  BY <1>8, Zenon DEF Splits
<1>10. w \in Text /\ g.fn \in FnsAt(n - 1) /\ Waits(g, FormsAt(n - 1, D), w)
  BY <1>5, <1>9, Zenon DEF WaitAt
<1>11. Last(Front(st)) = g /\ Last(st) = f
  BY <1>2, <1>5
<1> QED
  BY <1>7, <1>10, <1>11, Zenon

\* A function returns its node.
LEMMA ReturnNodeGood ==
    ASSUME Sound, ReturnNode
    PROVE  Good(fileTokens, cursor'.pos, stack', tree')
<1> DEFINE ts == fileTokens
           a == cursor.pos
           n == Len(stack)
           G == FormsAt(n, Len(ts))
           F == FormsAt(n - 1, Len(ts))
           node == NodeOf(Top.fn, Top.children)
           nodes == IF Required[Top.fn] \cap Top.missing # {} THEN <<>>
                    ELSE <<[type |-> Top.fn, missing |-> Top.missing, children |-> Top.children]>>
           callers == Front(stack)
           g == Last(callers)
<1>1. /\ ts \in Text /\ Good(ts, a, stack, tree) /\ stack # <<>> /\ Last(stack) = Top /\ Top.rest = <<>>
      /\ cursor' = cursor
  BY DEF Sound, ReturnNode, Top
<1>2. /\ n \in 1..Len(ts) /\ Top.fn \in FnsAt(n) /\ TypedForms(G)
      /\ \E w \in Text : Reads(Top, G, Tok(ts, a), w)
  BY <1>1, TopFacts
<1>3. nodes = <<node>>
  <2>1. Top = Frame(Top.fn, Top.rest, Top.children)
    BY <1>1, TopFrame
  <2>2. Top.missing = {}
    BY <2>1, FrameFields
  <2> QED
    BY <2>2 DEF NodeOf
<1>4. CASE callers = <<>>
  <2>1. stack' = <<>> /\ tree' = tree \o <<node>>
    BY <1>3, <1>4 DEF ReturnNode
  <2>2. tree \in TreesTo(Len(ts)) /\ Len(ts) \in Nat
    BY <1>1 DEF Good, Text
  <2>3. tree \o <<node>> = Append(tree, node)
    BY <2>2 DEF TreesTo
  <2>4. n = 1
    <3>1. PICK X : \E base \in Seq(X), f \in X :
             /\ stack = Append(base, f) /\ Fits(ts, a, base, f, tree)
             /\ Front(stack) = base /\ Last(stack) = f /\ Len(stack) = Len(base) + 1 /\ Len(base) \in Nat
      BY <1>1, TopIs
    <3> QED
      BY <1>4, <3>1
  <2>5. FormsAt(1, Len(ts)) = FormsTo(Len(ts)) /\ FnsAt(1) = DeclarationFn
    BY <2>2 DEF FormsAt, FnsAt
  <2>6. ASSUME NEW r \in Text, Top.fn \in FnsAt(1), Reads(Top, FormsAt(1, Len(ts)), Tok(ts, a), r)
        PROVE  node \in DeclarationNodes(FormsTo(Len(ts))) /\ r \in DeclarationForms(node, FormsTo(Len(ts)))
    BY <1>1, <1>2, <2>4, <2>5, <2>6, ReturnsDeclaration
  <2>7. Good(ts, a, <<>>, Append(tree, node))
    BY <1>1, <1>4, <2>6, GoodReturn
  <2> QED
    BY <1>1, <2>1, <2>3, <2>7
<1>5. CASE callers # <<>>
  <2>1. stack' = Append(Front(callers), [g EXCEPT !.children = @ \o <<node>>]) /\ tree' = tree
    BY <1>3, <1>5 DEF ReturnNode
  <2>2. PICK h : h = Frame(g.fn, g.rest, g.children \o <<node>>)
    OBVIOUS
  <2>3. n - 1 \in Nat /\ n - 1 # 0 /\ n = (n - 1) + 1
    <3>1. PICK X : \E base \in Seq(X), f \in X :
             /\ stack = Append(base, f) /\ Fits(ts, a, base, f, tree)
             /\ Front(stack) = base /\ Last(stack) = f /\ Len(stack) = Len(base) + 1 /\ Len(base) \in Nat
      BY <1>1, TopIs
    <3>2. PICK base \in Seq(X) : callers = base /\ n = Len(base) + 1 /\ Len(base) \in Nat
      BY <3>1
    <3>3. Len(base) # 0
      BY <1>5, <3>2
    <3> QED
      BY <3>2, <3>3
  <2>4. TypedForms(F) /\ F = Deeper(G)
    <3>1. Len(ts) \in Nat
      BY <1>1 DEF Text
    <3>2. PICK d \in Nat : d = Len(ts) + 1 - n /\ d + 1 = Len(ts) + 1 - (n - 1)
      BY <1>2, <3>1
    <3>3. G = FormsTo(d) /\ F = FormsTo(d + 1)
      BY <3>2 DEF FormsAt
    <3>4. FormsTo(d + 1) = Deeper(FormsTo(d)) /\ TypedForms(FormsTo(d + 1))
      BY FormsTyped, FormsDeeper
    <3> QED
      BY <3>3, <3>4
  <2>5. ASSUME NEW w \in Text, NEW r \in Text, g.fn \in FnsAt(n - 1), Waits(g, F, w), Reads(Top, G, Tok(ts, a), r)
        PROVE  /\ h.fn \in FnsAt(n - 1) /\ Reads(h, F, Tok(ts, a), Joined(w, r))
               /\ h = More(g, <<node>>)
    <3>1. h.fn = g.fn
      BY <2>2, FrameFields
    <3>2. \/ Top.fn = "struct" /\ g.fn \in {"task", "property", "dependency", "run_level"}
          \/ Top.fn = "property" /\ g.fn = "struct"
      <4>1. n # 1
        BY <2>3
      <4>2. CASE n - 1 = 1 \/ (n - 1) % 2 # 0
        <5>1. n % 2 = 0 /\ Top.fn = "struct"
          BY <1>2, <2>3, <4>1, <4>2, Parity DEF FnsAt
        <5>2. g.fn \in DeclarationFn \cup {"property"}
          BY <2>5, <4>2 DEF FnsAt
        <5> QED
          BY <5>1, <5>2 DEF DeclarationFn
      <4>3. CASE n - 1 # 1 /\ (n - 1) % 2 = 0
        <5>1. n % 2 # 0 /\ Top.fn = "property"
          BY <1>2, <2>3, <4>1, <4>3, Parity DEF FnsAt
        <5>2. g.fn = "struct"
          BY <2>5, <4>3 DEF FnsAt
        <5> QED
          BY <5>1, <5>2
      <4> QED
        BY <4>2, <4>3
    <3>3. g.fn \in {"task", "property", "struct"}
      BY <2>5 DEF Waits
    <3>6. ASSUME r \in F[node],
                 \/ g.fn \in {"task", "property"} /\ node \in ValuesIn(F)
                 \/ g.fn = "struct" /\ node \in PropertiesIn(F)
          PROVE  Reads(h, F, Tok(ts, a), Joined(w, r)) /\ h = More(g, <<node>>)
      <4>1. PICK k, x, B, u : k = g /\ x = node /\ B = F /\ u = Tok(ts, a)
        OBVIOUS
      <4>2. TypedForms(B) /\ Waits(k, B, w) /\ h = Frame(k.fn, k.rest, k.children \o <<x>>)
        BY <2>2, <2>4, <2>5, <4>1
      <4>3. r \in B[x] /\ (\/ k.fn \in {"task", "property"} /\ x \in ValuesIn(B)
                           \/ k.fn = "struct" /\ x \in PropertiesIn(B))
        BY <3>6, <4>1
      <4>4. h = More(k, <<x>>) /\ Reads(h, B, u, Joined(w, r))
        BY <4>2, <4>3, CallerReturns
      <4> QED
        BY <4>1, <4>4
    <3>4. ASSUME Top.fn = "struct", g.fn \in {"task", "property"}
          PROVE  Reads(h, F, Tok(ts, a), Joined(w, r)) /\ h = More(g, <<node>>)
      <4>1. node \in ValuesIn(F) /\ r \in F[node]
        BY <1>1, <1>2, <2>4, <2>5, <3>4, ReturnsStruct
      <4> QED
        BY <3>4, <4>1, <3>6
    <3>5. ASSUME Top.fn = "property", g.fn = "struct"
          PROVE  Reads(h, F, Tok(ts, a), Joined(w, r)) /\ h = More(g, <<node>>)
      <4>1. node \in PropertiesIn(F) /\ r \in F[node]
        BY <1>1, <1>2, <2>4, <2>5, <3>5, ReturnsProperty
      <4> QED
        BY <3>5, <4>1, <3>6
    <3> QED
      BY <2>5, <3>1, <3>2, <3>3, <3>4, <3>5
  <2>6. More(g, <<node>>) = h
    <3>1. PICK w \in Text, r \in Text : g.fn \in FnsAt(n - 1) /\ Waits(g, F, w) /\ Reads(Top, G, Tok(ts, a), r)
      BY <1>1, <1>5, CallerWaits
    <3> QED
      BY <2>5, <3>1
  <2>7. Good(ts, a, Append(Front(callers), h), tree)
    BY <1>1, <1>5, <2>5, GoodPop
  <2> QED
    BY <1>1, <2>1, <2>6, <2>7 DEF More
<1> QED
  BY <1>4, <1>5

-----------------------------------------------------------------------------
(* Nothing is lost silently *)
\* As long as no error has been reported, all that was read is accounted for.
ReadingInv == fileTokens \in Text /\ (cursor.errors = <<>> => Good(fileTokens, cursor.pos, stack, tree))

\* No function takes an error back.
LEMMA ErrorsStay ==
    ASSUME CursorOK(cursor), [ParserNext]_parserVars, cursor'.errors = <<>>
    PROVE  cursor.errors = <<>>
<1> DEFINE id == Expect(cursor, "identifier")
<1>1. CursorOK(id) /\ CursorOK(Error(cursor)) /\ CursorOK(Advance(cursor))
  BY AdvanceOK, ErrorOK, ExpectOK
<1>2. /\ Advance(cursor).errors = cursor.errors /\ Error(cursor).errors # <<>>
      /\ Advance(Error(cursor)).errors # <<>> /\ Advance(Advance(cursor)).errors = cursor.errors
      /\ Advance(id).errors = id.errors /\ Error(id).errors # <<>>
  BY <1>1, CursorFacts
<1>3. \A type : Expect(cursor, type).errors = <<>> => cursor.errors = <<>>
  BY <1>2 DEF Expect
<1>4. \/ cursor' \in {cursor, Advance(cursor), Advance(Advance(cursor)), Error(cursor), Advance(Error(cursor))}
      \/ cursor' \in {id, Advance(id), Error(id)}
      \/ \E type : cursor' = Expect(cursor, type)
  BY DEF ParserNext, Declaration, ExpectedDeclaration, EndOfFile, ExpectToken, ParseValue, NoValue, ParseProperties,
         AfterProperty, ParseNames, ReturnNode, parserVars
<1> HIDE DEF id
<1>5. id.errors = <<>> => cursor.errors = <<>>
  BY <1>3 DEF id
<1> QED
  BY <1>2, <1>3, <1>4, <1>5

\* A file that is read without an error is read into the tree and the stack.
THEOREM ReadingInductive == ParserSpec => []ReadingInv
<1>1. ParserInit => ReadingInv
  <2> SUFFICES ASSUME ParserInit PROVE ReadingInv
    OBVIOUS
  <2>1. fileTokens \in Text /\ cursor.pos = 1 /\ stack = <<>> /\ tree = <<>>
    BY ParserAssumption DEF ParserInit, Text
  <2>2. Len(fileTokens) \in Nat /\ 1 \in 1..Len(fileTokens) + 1
    BY <2>1 DEF Text
  <2>3. Cut(fileTokens, 1, 1) = <<>>
    BY <2>1, <2>2, NoToken
  <2>4. tree \in TreesTo(Len(fileTokens))
    BY <2>1 DEF TreesTo
  <2>5. <<>> \in FileForms(<<>>, Len(fileTokens))
    BY <2>1, <2>2, <2>4, FileFormsAppend DEF TreesTo
  <2>6. Accounted(fileTokens, 1, <<>>, <<>>)
    BY <2>3, <2>5, Zenon DEF Accounted
  <2>7. Len(<<>>) < 1
    OBVIOUS
  <2> QED
    BY <2>1, <2>2, <2>4, <2>6, <2>7 DEF ReadingInv, Good
<1>2. ReadingInv /\ CursorOK(cursor) /\ [ParserNext]_parserVars => ReadingInv'
  <2> SUFFICES ASSUME ReadingInv, CursorOK(cursor), [ParserNext]_parserVars PROVE ReadingInv'
    OBVIOUS
  <2>1. fileTokens' = fileTokens
    BY DEF ParserNext, Declaration, ExpectedDeclaration, EndOfFile, ExpectToken, ParseValue, ParseProperties,
           AfterProperty, ParseNames, ReturnNode, parserVars
  <2> SUFFICES ASSUME cursor'.errors = <<>> PROVE Good(fileTokens, cursor'.pos, stack', tree')
    BY <2>1 DEF ReadingInv
  <2>2. cursor.errors = <<>>
    BY ErrorsStay
  <2>3. Sound
    BY <2>2 DEF ReadingInv, Sound
  <2>4. CASE Declaration("task", "task")
    BY <2>3, <2>4, DeclarationGood
  <2>5. CASE Declaration("identifier", "dependency")
    BY <2>3, <2>5, DeclarationGood
  <2>6. CASE Declaration("run_level", "run_level")
    BY <2>3, <2>6, DeclarationGood
  <2>7. CASE ExpectedDeclaration
    BY <2>3, <2>7, CursorMoves DEF ExpectedDeclaration
  <2>8. CASE EndOfFile
    BY <2>3, <2>8 DEF EndOfFile, Sound
  <2>9. ASSUME NEW type \in {"identifier", "equals", "colon", "depends", "semicolon", "rbrace"}, ExpectToken(type)
        PROVE  Good(fileTokens, cursor'.pos, stack', tree')
    <3>1. type \in TokenType
      BY DEF TokenType
    <3> QED
      BY <2>3, <2>9, <3>1, ExpectTokenGood
  <2>10. CASE ParseValue
    BY <2>3, <2>10, ParseValueGood
  <2>11. CASE ParseProperties
    BY <2>3, <2>11, ParsePropertiesGood
  <2>12. CASE AfterProperty
    BY <2>3, <2>12, AfterPropertyGood
  <2>13. CASE ParseNames
    BY <2>3, <2>13, ParseNamesGood
  <2>14. CASE ReturnNode
    BY <2>3, <2>14, ReturnNodeGood
  <2>15. CASE UNCHANGED parserVars
    BY <2>3, <2>15 DEF parserVars, Sound
  <2> QED
    BY <2>4, <2>5, <2>6, <2>7, <2>8, <2>9, <2>10, <2>11, <2>12, <2>13, <2>14, <2>15 DEF ParserNext
<1> QED
  BY <1>1, <1>2, CursorInductive, PTL DEF ParserSpec

\* Whatever is in a file: as long as parser_context reports nothing, what it has read at the
\* end of a declaration is a way to write the declarations in the tree.
THEOREM SilenceCorrect == ParserSpec => []SilentMeansComplete
<1>1. ReadingInv => SilentMeansComplete
  <2> SUFFICES ASSUME ReadingInv, stack = <<>>, cursor.errors = <<>>
               PROVE  SubSeq(fileTokens, 1, cursor.pos - 1) \in FileForms(tree, Len(fileTokens))
    BY DEF SilentMeansComplete
  <2>1. Accounted(fileTokens, cursor.pos, <<>>, tree)
    BY DEF ReadingInv, Good
  <2>2. ASSUME NEW X, NEW base \in Seq(X), NEW f \in X PROVE <<>> # Append(base, f)
    BY FrontLast
  <2>3. Cut(fileTokens, 1, cursor.pos) \in FileForms(tree, Len(fileTokens))
    BY <2>1, <2>2, Zenon DEF Accounted
  <2> QED
    BY <2>3 DEF Cut
<1> QED
  BY <1>1, ReadingInductive, PTL

\* The first sequence and the others.
LEMMA FlattenFirst ==
    ASSUME NEW W, NEW q \in Seq(Seq(W)), q # <<>>
    PROVE  FlattenSeq(q) = Joined(q[1], FlattenSeq(Tail(q))) /\ Tail(q) \in Seq(Seq(W)) /\ q[1] \in Seq(W)
<1> DEFINE n == Len(q)
           S == {b \in 2..n + 1 : FlattenSeq(Cut(q, 1, b)) = Joined(q[1], FlattenSeq(Cut(q, 2, b)))}
<1>1. n \in Nat /\ n >= 1 /\ \A k \in 1..n : q[k] \in Seq(W)
  BY ElementOfSeq, LenProperties, EmptySeq
<1>2. PICK X : X = Seq(W)
  OBVIOUS
<1>3. q \in Seq(X) /\ 1 \in 1..n + 1 /\ 2 \in 1..n + 1 /\ n + 1 \in Nat
  BY <1>1, <1>2
<1>4. ASSUME NEW b \in 2..n + 1 PROVE Cut(q, 1, b) \in Seq(Seq(W)) /\ Cut(q, 2, b) \in Seq(Seq(W))
  <2>1. b \in 1..n + 1
    BY <1>1
  <2> QED
    BY <1>1, <1>2, <1>3, <2>1, CutFacts
<1>5. ASSUME NEW b \in 2..n
      PROVE  Cut(q, 1, b + 1) = Append(Cut(q, 1, b), q[b]) /\ Cut(q, 2, b + 1) = Append(Cut(q, 2, b), q[b])
  <2>1. b \in 1..n + 1 /\ b <= n /\ b + 1 \in b..n + 1 /\ b \in 2..n + 1
    BY <1>1
  <2>2. Cut(q, b, b + 1) = <<q[b]>>
    BY <1>3, <2>1, ShortCuts
  <2>3. Joined(Cut(q, 1, b), Cut(q, b, b + 1)) = Cut(q, 1, b + 1) /\ Joined(Cut(q, 2, b), Cut(q, b, b + 1)) = Cut(q, 2, b + 1)
    BY <1>1, <1>3, <2>1, CutJoin
  <2>4. Cut(q, 1, b) \in Seq(X) /\ Cut(q, 2, b) \in Seq(X) /\ q[b] \in X
    BY <1>1, <1>2, <1>4, <2>1
  <2>5. ASSUME NEW s \in Seq(X), NEW x \in X PROVE Joined(s, <<x>>) = Append(s, x)
    BY DEF Joined
  <2> QED
    BY <2>2, <2>3, <2>4, <2>5
<1>6. 2 \in S
  <2>1. Cut(q, 1, 2) = <<q[1]>> /\ Cut(q, 2, 2) = <<>>
    <3>1. 1 <= n /\ 1 + 1 = 2
      BY <1>1
    <3> QED
      BY <1>3, <3>1, ShortCuts
  <2>2. <<q[1]>> = Append(<<>>, q[1]) /\ <<>> \in Seq(Seq(W)) /\ q[1] \in Seq(W) /\ <<>> \in Seq(W)
    BY <1>1
  <2>3. FlattenSeq(<<>>) = <<>> /\ FlattenSeq(Append(<<>>, q[1])) = Joined(FlattenSeq(<<>>), q[1])
    BY <2>2, FlattenAppend
  <2>4. Joined(<<>>, q[1]) = q[1] /\ Joined(q[1], <<>>) = q[1]
    BY <2>2, JoinedFacts
  <2> QED
    BY <1>1, <2>1, <2>2, <2>3, <2>4
<1>7. ASSUME NEW b \in 2..n, b \in S PROVE b + 1 \in S
  <2>1. b \in 2..n + 1 /\ b + 1 \in 2..n + 1 /\ q[b] \in Seq(W)
    BY <1>1
  <2>2. FlattenSeq(Append(Cut(q, 1, b), q[b])) = Joined(FlattenSeq(Cut(q, 1, b)), q[b])
    BY <1>4, <2>1, FlattenAppend
  <2>3. FlattenSeq(Append(Cut(q, 2, b), q[b])) = Joined(FlattenSeq(Cut(q, 2, b)), q[b]) /\ FlattenSeq(Cut(q, 2, b)) \in Seq(W)
    BY <1>4, <2>1, FlattenAppend
  <2>4. Joined(Joined(q[1], FlattenSeq(Cut(q, 2, b))), q[b]) = Joined(q[1], Joined(FlattenSeq(Cut(q, 2, b)), q[b]))
    <3>1. PICK x, y, z : x = q[1] /\ y = FlattenSeq(Cut(q, 2, b)) /\ z = q[b]
      OBVIOUS
    <3>2. x \in Seq(W) /\ y \in Seq(W) /\ z \in Seq(W)
      BY <1>1, <2>1, <2>3, <3>1
    <3>3. Joined(Joined(x, y), z) = Joined(x, Joined(y, z))
      BY <3>2, JoinedFacts
    <3> QED
      BY <3>1, <3>3
  <2>5. FlattenSeq(Cut(q, 1, b)) = Joined(q[1], FlattenSeq(Cut(q, 2, b)))
    BY <1>7
  <2>6. FlattenSeq(Cut(q, 1, b + 1)) = Joined(q[1], FlattenSeq(Cut(q, 2, b + 1)))
    BY <1>5, <2>2, <2>3, <2>4, <2>5
  <2> QED
    BY <2>1, <2>6
<1>8. n + 1 \in S
  <2> HIDE DEF S
  <2>1. \A b \in 2..(n + 1) - 1 : b \in S => b + 1 \in S
    BY <1>1, <1>7
  <2>2. 2..n + 1 \subseteq S
    BY <1>3, <1>6, <2>1, SetInduction
  <2> QED
    BY <1>1, <2>2
<1>9. Cut(q, 1, n + 1) = q /\ Cut(q, 2, n + 1) = Tail(q)
  BY <1>1 DEF Cut
<1>10. Tail(q) \in Seq(Seq(W))
  BY <1>2
<1>11. FlattenSeq(Cut(q, 1, n + 1)) = Joined(q[1], FlattenSeq(Cut(q, 2, n + 1))) /\ q[1] \in Seq(W)
  BY <1>1, <1>8
<1> QED
  BY <1>9, <1>10, <1>11, Zenon

\* The first set can be taken off as well.
LEMMA ConcatenationsFirst ==
    ASSUME NEW W, NEW sets \in Seq(SUBSET Seq(W)), sets # <<>>, NEW r \in Concatenations(sets)
    PROVE  Splits(r, sets[1], Concatenations(Tail(sets))) /\ Tail(sets) \in Seq(SUBSET Seq(W))
<1>1. PICK q \in Seq(Seq(W)) : /\ Len(q) = Len(sets) /\ r = FlattenSeq(q)
                               /\ \A k \in 1..Len(sets) : q[k] \in sets[k]
  BY ConcatenationsAre
<1>2. PICK X : X = SUBSET Seq(W)
  OBVIOUS
<1>3. PICK Y : Y = Seq(W)
  OBVIOUS
<1>4. sets \in Seq(X) /\ q \in Seq(Y)
  BY <1>2, <1>3
<1>5. Len(sets) \in Nat /\ Len(sets) >= 1
  BY <1>4, EmptySeq
<1>6. q # <<>>
  BY <1>1, <1>5
<1>7. /\ Tail(sets) \in Seq(X) /\ Len(Tail(sets)) = Len(sets) - 1 /\ \A k \in 1..Len(sets) - 1 : Tail(sets)[k] = sets[k + 1]
      /\ Tail(q) \in Seq(Y) /\ Len(Tail(q)) = Len(q) - 1 /\ \A k \in 1..Len(q) - 1 : Tail(q)[k] = q[k + 1]
  BY <1>4, <1>6, HeadTailProperties
<1>8. r = Joined(q[1], FlattenSeq(Tail(q)))
  BY <1>1, <1>6, FlattenFirst
<1>9. PICK u, v : u = Tail(q) /\ v = Tail(sets)
  OBVIOUS
<1>10. u \in Seq(Seq(W)) /\ v \in Seq(SUBSET Seq(W)) /\ Len(u) = Len(v) /\ \A k \in 1..Len(v) : u[k] \in v[k]
  <2>1. u \in Seq(Seq(W)) /\ v \in Seq(SUBSET Seq(W)) /\ Len(u) = Len(v) /\ Len(v) = Len(sets) - 1
    BY <1>1, <1>2, <1>3, <1>7, <1>9
  <2>2. ASSUME NEW k \in 1..Len(v) PROVE u[k] \in v[k]
    <3>1. k \in 1..Len(sets) - 1 /\ k + 1 \in 1..Len(sets)
      BY <1>5, <2>1
    <3> QED
      BY <1>1, <1>7, <1>9, <3>1
  <2> QED
    BY <2>1, <2>2
<1>11. FlattenSeq(u) \in Concatenations(v)
  BY <1>10, ConcatenationsAre
<1>12. q[1] \in sets[1]
  BY <1>1, <1>5
<1>13. Splits(r, sets[1], Concatenations(v))
  BY <1>8, <1>9, <1>11, <1>12, Zenon DEF Splits
<1> QED
  BY <1>9, <1>10, <1>13

\* The first element and the others, one by one.
LEMMA MappedTail ==
    ASSUME NEW X, NEW Y, NEW h, Maps(h, X, Y), NEW s \in Seq(X), s # <<>>
    PROVE  /\ Mapped(s, h) \in Seq(Y) /\ Mapped(s, h) # <<>> /\ Mapped(s, h)[1] = h[s[1]]
           /\ Tail(s) \in Seq(X) /\ s[1] \in X /\ Tail(Mapped(s, h)) = Mapped(Tail(s), h)
<1>1. PICK x \in X : TRUE
  BY HeadTailProperties
<1>2. Len(s) \in Nat /\ Len(s) >= 1
  BY EmptySeq
<1>3. PICK m : m = Mapped(s, h)
  OBVIOUS
<1>4. m \in Seq(Y) /\ Len(m) = Len(s) /\ \A k \in 1..Len(s) : m[k] = h[s[k]]
  BY <1>1, <1>3, MappedAppend
<1>5. m # <<>> /\ m[1] = h[s[1]]
  BY <1>2, <1>4
<1>6. PICK t : t = Tail(s)
  OBVIOUS
<1>7. t \in Seq(X) /\ Len(t) = Len(s) - 1 /\ \A k \in 1..Len(s) - 1 : t[k] = s[k + 1]
  BY <1>6, HeadTailProperties
<1>8. PICK u : u = Tail(m)
  OBVIOUS
<1>9. u \in Seq(Y) /\ Len(u) = Len(s) - 1 /\ \A k \in 1..Len(s) - 1 : u[k] = m[k + 1]
  BY <1>4, <1>5, <1>8, HeadTailProperties
<1>10. PICK v : v = Mapped(t, h)
  OBVIOUS
<1>11. v \in Seq(Y) /\ Len(v) = Len(t) /\ \A k \in 1..Len(t) : v[k] = h[t[k]]
  <2>1. t \in Seq(X)
    BY <1>7
  <2>2. ASSUME NEW z \in Seq(X)
        PROVE  Mapped(z, h) \in Seq(Y) /\ Len(Mapped(z, h)) = Len(z) /\ \A k \in 1..Len(z) : Mapped(z, h)[k] = h[z[k]]
    BY <1>1, MappedAppend
  <2> QED
    BY <1>10, <2>1, <2>2
<1>12. ASSUME NEW k \in 1..Len(u) PROVE u[k] = v[k]
  <2>1. k \in 1..Len(s) - 1 /\ k + 1 \in 1..Len(s) /\ k \in 1..Len(t)
    BY <1>2, <1>7, <1>9
  <2> QED
    BY <1>4, <1>7, <1>9, <1>11, <2>1
<1>13. u = v
  BY <1>7, <1>9, <1>11, <1>12, SeqEqual
<1>14. s[1] \in X
  BY <1>2
<1> QED
  BY <1>3, <1>4, <1>5, <1>6, <1>7, <1>8, <1>10, <1>13, <1>14

\* The first declaration of a file.
LEMMA FileFormsFirst ==
    ASSUME NEW D \in Nat, NEW s \in Seq(DeclarationNodes(FormsTo(D))), NEW r \in FileForms(s, D)
    PROVE  \/ r = <<>>
           \/ /\ s # <<>> /\ s[1] \in DeclarationNodes(FormsTo(D)) /\ Tail(s) \in Seq(DeclarationNodes(FormsTo(D)))
              /\ Splits(r, DeclarationForms(s[1], FormsTo(D)), FileForms(Tail(s), D))
<1> DEFINE G == FormsTo(D)
           X == DeclarationNodes(G)
           h == [node \in X |-> DeclarationForms(node, G)]
           V == SUBSET Text
<1>1. \A node \in X : DeclarationForms(node, G) \in V
  BY FormsTyped, DeclarationFormsAre
<1>2. Maps(h, X, V) /\ \A node \in X : h[node] = DeclarationForms(node, G)
  <2>1. \A node \in X : h[node] = DeclarationForms(node, G)
    BY Zenon
  <2> HIDE DEF h, X, V
  <2> QED
    BY <1>1, <2>1 DEF Maps
<1>3. ASSUME NEW t \in Seq(X)
      PROVE  FileForms(t, D) = Concatenations(Mapped(t, h))
  <2>1. \A k \in DOMAIN t : t[k] \in X
    OBVIOUS
  <2>2. \A k \in DOMAIN t : DeclarationForms(t[k], G) = h[t[k]]
    BY <1>2, <2>1, Zenon
  <2>3. [k \in DOMAIN t |-> DeclarationForms(t[k], G)] = Mapped(t, h)
    <3> HIDE DEF h
    <3> QED
      BY <2>2, Zenon DEF Mapped
  <2> QED
    BY <2>3, Zenon DEF FileForms
<1> HIDE DEF h, X, V
<1>4. s \in Seq(X)
  BY DEF X
<1>5. CASE s = <<>>
  <2>1. Mapped(<<>>, h) = <<>> /\ <<>> \in Seq(V)
    BY DEF Mapped
  <2>2. Concatenations(<<>>) = {<<>>}
    BY <2>1, ConcatenationsType DEF V, Text
  <2>3. FileForms(s, D) = Concatenations(Mapped(s, h))
    BY <1>3, <1>4
  <2>4. FileForms(s, D) = {<<>>}
    BY <1>5, <2>1, <2>2, <2>3
  <2>5. r \in FileForms(s, D)
    OBVIOUS
  <2> QED
    BY <2>4, <2>5
<1>6. CASE s # <<>>
  <2>1. /\ Mapped(s, h) \in Seq(V) /\ Mapped(s, h) # <<>> /\ Mapped(s, h)[1] = h[s[1]]
        /\ Tail(s) \in Seq(X) /\ s[1] \in X /\ Tail(Mapped(s, h)) = Mapped(Tail(s), h)
    BY <1>2, <1>4, <1>6, MappedTail
  <2>2. PICK m : m = Mapped(s, h)
    OBVIOUS
  <2>3. m \in Seq(V) /\ m # <<>> /\ r \in Concatenations(m)
    BY <1>3, <1>4, <2>1, <2>2
  <2>4. Splits(r, m[1], Concatenations(Tail(m)))
    BY <2>3, ConcatenationsFirst, Zenon DEF V, Text
  <2>5. m[1] = DeclarationForms(s[1], G) /\ Concatenations(Tail(m)) = FileForms(Tail(s), D)
    BY <1>2, <1>3, <2>1, <2>2
  <2> QED
    BY <1>6, <2>1, <2>4, <2>5 DEF X
<1> QED
  BY <1>5, <1>6

\* The first property of a struct.
LEMMA PropertyFormsFirst ==
    ASSUME NEW G, TypedForms(G), NEW ch \in Seq(DOMAIN G), NEW r \in PropertyForms(ch, G)
    PROVE  \/ r = <<>>
           \/ ch # <<>> /\ ch[1] \in DOMAIN G /\ r \in G[ch[1]]
           \/ /\ ch # <<>> /\ ch[1] \in DOMAIN G /\ Tail(ch) \in Seq(DOMAIN G)
              /\ Splits(r, Separated(G)[ch[1]], PropertyForms(Tail(ch), G))
<1> DEFINE X == DOMAIN G
           S == SUBSET Text
           h == Separated(G)
<1>1. Maps(h, X, S) /\ Maps(G, X, S)
  BY SeparatedType DEF Maps, TypedForms
<1>2. PropertyForms(ch, G) = Concatenations(Mapped(ch, h)) \cup Concatenations(Unended(ch, G))
  BY PropertyFormsAre DEF Separate
<1>3. CASE ch = <<>>
  <2>1. Mapped(<<>>, h) = <<>> /\ Unended(<<>>, G) = <<>> /\ <<>> \in Seq(SUBSET Text)
    BY DEF Mapped, Unended
  <2>2. Concatenations(<<>>) = {<<>>}
    BY <2>1, ConcatenationsType DEF Text
  <2> QED
    BY <1>2, <1>3, <2>1, <2>2
<1>4. CASE ch # <<>>
  <2>0. /\ Len(ch) \in Nat /\ Len(ch) >= 1 /\ ch[1] \in X /\ Tail(ch) \in Seq(X) /\ Len(Tail(ch)) = Len(ch) - 1
        /\ \A k \in 1..Len(ch) - 1 : Tail(ch)[k] = ch[k + 1]
    BY <1>4, HeadTailProperties, EmptySeq
  <2>1. CASE r \in Concatenations(Mapped(ch, h))
    <3>1. /\ Mapped(ch, h) \in Seq(S) /\ Mapped(ch, h) # <<>> /\ Mapped(ch, h)[1] = h[ch[1]]
          /\ Tail(Mapped(ch, h)) = Mapped(Tail(ch), h)
      BY <1>1, <1>4, MappedTail
    <3>2. PICK m : m = Mapped(ch, h)
      OBVIOUS
    <3>3. m \in Seq(SUBSET Text) /\ m # <<>> /\ r \in Concatenations(m)
      BY <2>1, <3>1, <3>2
    <3>4. Splits(r, m[1], Concatenations(Tail(m)))
      BY <3>3, ConcatenationsFirst, Zenon DEF Text
    <3>5. Concatenations(Tail(m)) = Separate(Tail(ch), G) /\ m[1] = Separated(G)[ch[1]]
      BY <3>1, <3>2 DEF Separate
    <3>6. Separate(Tail(ch), G) \subseteq PropertyForms(Tail(ch), G)
      BY <2>0, PropertiesRead
    <3>7. Splits(r, Separated(G)[ch[1]], PropertyForms(Tail(ch), G))
      BY <3>4, <3>5, <3>6 DEF Splits
    <3> QED
      BY <1>4, <2>0, <3>7
  <2>2. CASE r \in Concatenations(Unended(ch, G))
    <3>1. PICK m : m = Unended(ch, G)
      OBVIOUS
    <3>2. PICK n : n = Len(ch)
      OBVIOUS
    <3>3. n \in Nat /\ n >= 1 /\ DOMAIN ch = 1..n /\ \A k \in 1..n : ch[k] \in X
      BY <2>0, <3>2
    <3>4. \A k \in 1..n : (IF k = n THEN G[ch[k]] ELSE h[ch[k]]) \in S
      BY <1>1, <3>3 DEF Maps
    <3>5. m = [k \in 1..n |-> IF k = n THEN G[ch[k]] ELSE h[ch[k]]]
      BY <3>1, <3>2, <3>3 DEF Unended
    <3>6. m \in [1..n -> S] /\ \A k \in 1..n : m[k] = IF k = n THEN G[ch[k]] ELSE h[ch[k]]
      <4> HIDE DEF h, S
      <4> QED
        BY <3>4, <3>5, Zenon
    <3>7. m \in Seq(S) /\ Len(m) = n /\ m # <<>>
      <4> HIDE DEF h, S
      <4> QED
        BY <3>3, <3>6
    <3>8. Splits(r, m[1], Concatenations(Tail(m)))
      <4>1. m \in Seq(SUBSET Text) /\ r \in Concatenations(m)
        BY <2>2, <3>1, <3>7
      <4> QED
        BY <3>7, <4>1, ConcatenationsFirst, Zenon DEF Text
    <3>9. /\ Tail(m) \in Seq(S) /\ Len(Tail(m)) = n - 1 /\ \A k \in 1..n - 1 : Tail(m)[k] = m[k + 1]
      BY <3>7, HeadTailProperties
    <3>10. CASE n = 1
      <4>1. m[1] = G[ch[1]]
        BY <3>6, <3>10
      <4>2. Tail(m) = <<>>
        <5>1. PICK u : u = Tail(m)
          OBVIOUS
        <5>2. u \in Seq(S) /\ Len(u) = 0
          BY <3>9, <3>10, <5>1
        <5>3. u = <<>>
          BY <5>2, EmptySeq
        <5> QED
          BY <5>1, <5>3
      <4>3. Concatenations(<<>>) = {<<>>}
        BY <3>9, <4>2, ConcatenationsType DEF Text
      <4>4. PICK p \in G[ch[1]] : r = Joined(p, <<>>)
        <5>1. Splits(r, G[ch[1]], {<<>>})
          BY <3>8, <4>1, <4>2, <4>3
        <5>2. \E p \in G[ch[1]], f \in {<<>>} : r = Joined(p, f)
          BY <5>1, Zenon DEF Splits
        <5> QED
          BY <5>2
      <4>5. p \in Text
        BY <1>1, <2>0 DEF Maps
      <4>6. r = p
        BY <4>4, <4>5, JoinedFacts DEF Text
      <4> QED
        BY <1>4, <2>0, <4>6
    <3>11. CASE n # 1
      <4>1. m[1] = h[ch[1]]
        BY <3>3, <3>6, <3>11
      <4>2. PICK t : t = Tail(ch)
        OBVIOUS
      <4>3. t \in Seq(X) /\ Len(t) = n - 1 /\ DOMAIN t = 1..n - 1 /\ \A k \in 1..n - 1 : t[k] = ch[k + 1]
        BY <2>0, <3>2, <4>2
      <4>4. Unended(t, G) = [k \in 1..n - 1 |-> IF k = n - 1 THEN G[t[k]] ELSE h[t[k]]]
        BY <4>3 DEF Unended
      <4>5. ASSUME NEW k \in 1..n - 1 PROVE Tail(m)[k] = IF k = n - 1 THEN G[t[k]] ELSE h[t[k]]
        <5>1. k + 1 \in 1..n /\ (k + 1 = n <=> k = n - 1)
          BY <3>3
        <5> QED
          BY <3>6, <3>9, <4>3, <5>1
      <4>6. Tail(m) = [k \in 1..n - 1 |-> IF k = n - 1 THEN G[t[k]] ELSE h[t[k]]]
        <5>1. PICK u : u = Tail(m)
          OBVIOUS
        <5>2. u \in Seq(S) /\ Len(u) = n - 1
          BY <3>9, <5>1
        <5>3. DOMAIN u = 1..n - 1 /\ u = [k \in DOMAIN u |-> u[k]]
          BY <3>3, <5>2
        <5> HIDE DEF h
        <5> QED
          BY <4>5, <5>1, <5>3, Zenon
      <4>7. Concatenations(Tail(m)) \subseteq PropertyForms(t, G)
        BY <4>3, <4>4, <4>6, PropertyFormsAre
      <4>8. Splits(r, Separated(G)[ch[1]], PropertyForms(Tail(ch), G))
        BY <3>8, <4>1, <4>2, <4>7 DEF Splits
      <4> QED
        BY <1>4, <2>0, <4>8
    <3> QED
      BY <3>10, <3>11
  <2> QED
    BY <1>2, <2>1, <2>2
<1> QED
  BY <1>3, <1>4

\* What can be written, at whatever depth.
IsValue(w) == \E d \in Nat : \E v \in ValuesIn(FormsTo(d)) : w \in FormsTo(d)[v]
IsProperty(w) == \E d \in Nat : \E p \in PropertiesIn(FormsTo(d)) : w \in FormsTo(d)[p]
IsList(w) == \E d \in Nat : \E ch \in Seq(PropertiesIn(FormsTo(d))) : w \in PropertyForms(ch, FormsTo(d))
IsDeclaration(w) == \E d \in Nat : \E node \in DeclarationNodes(FormsTo(d)) : w \in DeclarationForms(node, FormsTo(d))
IsFile(w) == \E d \in Nat : \E s \in TreesTo(d) : w \in FileForms(s, d)

\* Nodes that can be written are at least one deep.
LEMMA NodeForms ==
    ASSUME NEW d \in Nat, NEW node \in DOMAIN FormsTo(d), NEW w \in FormsTo(d)[node]
    PROVE  /\ w \in Text
           /\ \E e \in Nat : w \in ValueForms(node, FormsTo(e)) /\ node \in DOMAIN Deeper(FormsTo(e))
<1>1. TypedForms(FormsTo(d))
  BY FormsTyped
<1>2. w \in Text
  BY <1>1 DEF TypedForms
<1>3. CASE d = 0
  <2>1. FormsTo(0) = <<>> /\ DOMAIN <<>> = {}
    BY FormsDeeper
  <2> QED
    BY <1>3, <2>1
<1>4. CASE d # 0
  <2>1. d - 1 \in Nat /\ (d - 1) + 1 = d
    BY <1>4
  <2>2. FormsTo((d - 1) + 1) = Deeper(FormsTo(d - 1)) /\ TypedForms(FormsTo(d - 1))
    BY <2>1, FormsDeeper, FormsTyped
  <2>3. FormsTo(d) = Deeper(FormsTo(d - 1))
    BY <2>1, <2>2
  <2>4. node \in DOMAIN Deeper(FormsTo(d - 1)) /\ w \in Deeper(FormsTo(d - 1))[node]
    BY <2>3
  <2>5. Deeper(FormsTo(d - 1))[node] = ValueForms(node, FormsTo(d - 1))
    BY <2>2, <2>4, DeeperType
  <2> QED
    BY <1>2, <2>1, <2>4, <2>5
<1> QED
  BY <1>3, <1>4

\* The shapes of a value.
LEMMA ValueShapes ==
    ASSUME NEW w, IsValue(w)
    PROVE  /\ w \in Text
           /\ \/ w = <<"literal">> \/ w = <<"identifier">>
              \/ \E p \in Text : IsList(p) /\ w = Joined(Joined(<<"identifier", "lbrace">>, p), <<"rbrace">>)
<1>1. PICK d \in Nat : \E v \in ValuesIn(FormsTo(d)) : w \in FormsTo(d)[v]
  BY DEF IsValue
<1>2. PICK v \in ValuesIn(FormsTo(d)) : w \in FormsTo(d)[v]
  BY <1>1
<1>3. v \in DOMAIN FormsTo(d) /\ v.type \in {"literal", "pseudo_identifier", "struct"}
  BY DEF ValuesIn, OfType, ValueType
<1>4. w \in Text /\ \E e \in Nat : w \in ValueForms(v, FormsTo(e)) /\ v \in DOMAIN Deeper(FormsTo(e))
  BY <1>2, <1>3, NodeForms
<1>5. PICK e \in Nat : w \in ValueForms(v, FormsTo(e)) /\ v \in DOMAIN Deeper(FormsTo(e))
  BY <1>4
<1>6. PICK G : G = FormsTo(e)
  OBVIOUS
<1>7. TypedForms(G) /\ w \in ValueForms(v, G) /\ v \in DOMAIN Deeper(G)
  BY <1>5, <1>6, FormsTyped
<1>8. CASE v.type = "literal"
  BY <1>4, <1>7, <1>8 DEF ValueForms
<1>9. CASE v.type = "pseudo_identifier"
  BY <1>4, <1>7, <1>9 DEF ValueForms
<1>10. CASE v.type = "struct"
  <2>1. v \in Nodes({"struct"}, PropertiesIn(G))
    <3>1. \/ v \in Nodes({"literal", "pseudo_identifier"}, {})
          \/ v \in Nodes({"struct"}, PropertiesIn(G))
          \/ v \in Nodes({"property"}, ValuesIn(G))
      BY <1>7, DeeperType
    <3> QED
      BY <1>10, <3>1 DEF Nodes
  <2>2. v.children \in Seq(PropertiesIn(G))
    BY <2>1 DEF Nodes
  <2>3. ValueForms(v, G) = {<<"identifier", "lbrace">> \o p \o <<"rbrace">> : p \in PropertyForms(v.children, G)}
    BY <1>10, Zenon DEF ValueForms
  <2>4. PICK p \in PropertyForms(v.children, G) : w = <<"identifier", "lbrace">> \o p \o <<"rbrace">>
    BY <1>7, <2>3
  <2>5. v.children \in Seq(DOMAIN G)
    <3>1. PropertiesIn(G) \subseteq DOMAIN G
      BY DEF PropertiesIn, OfType
    <3> QED
      BY <2>2, <3>1
  <2>6. p \in Text
    BY <1>7, <2>4, <2>5, PropertyFormsType
  <2>7. IsList(p)
    BY <1>6, <2>2, <2>4 DEF IsList
  <2> QED
    BY <1>4, <2>4, <2>6, <2>7 DEF Joined
<1> QED
  BY <1>3, <1>8, <1>9, <1>10

\* The shape of a property.
LEMMA PropertyShape ==
    ASSUME NEW w, IsProperty(w)
    PROVE  w \in Text /\ \E v \in Text : IsValue(v) /\ w = Joined(<<"identifier", "equals">>, v)
<1>1. PICK d \in Nat : \E p \in PropertiesIn(FormsTo(d)) : w \in FormsTo(d)[p]
  BY DEF IsProperty
<1>2. PICK p \in PropertiesIn(FormsTo(d)) : w \in FormsTo(d)[p]
  BY <1>1
<1>3. p \in DOMAIN FormsTo(d) /\ p.type = "property"
  BY DEF PropertiesIn, OfType
<1>4. w \in Text /\ \E e \in Nat : w \in ValueForms(p, FormsTo(e)) /\ p \in DOMAIN Deeper(FormsTo(e))
  BY <1>2, <1>3, NodeForms
<1>5. PICK e \in Nat : w \in ValueForms(p, FormsTo(e)) /\ p \in DOMAIN Deeper(FormsTo(e))
  BY <1>4
<1>6. PICK G : G = FormsTo(e)
  OBVIOUS
<1>7. TypedForms(G) /\ w \in ValueForms(p, G) /\ p \in DOMAIN Deeper(G)
  BY <1>5, <1>6, FormsTyped
<1>8. p \in Nodes({"property"}, ValuesIn(G))
  <2>1. \/ p \in Nodes({"literal", "pseudo_identifier"}, {})
        \/ p \in Nodes({"struct"}, PropertiesIn(G))
        \/ p \in Nodes({"property"}, ValuesIn(G))
    BY <1>7, DeeperType
  <2> QED
    BY <1>3, <2>1 DEF Nodes
<1>9. p.children \in Seq(ValuesIn(G))
  BY <1>8 DEF Nodes
<1>10. CASE Len(p.children) = 1
  <2>1. ValueForms(p, G) = {<<"identifier", "equals">> \o v : v \in G[p.children[1]]}
    BY <1>3, <1>10 DEF ValueForms
  <2>2. PICK v \in G[p.children[1]] : w = <<"identifier", "equals">> \o v
    BY <1>7, <2>1
  <2>3. p.children[1] \in ValuesIn(G)
    BY <1>9, <1>10
  <2>4. v \in Text
    BY <1>7, <2>3 DEF TypedForms, ValuesIn, OfType
  <2>5. IsValue(v)
    BY <1>6, <2>2, <2>3 DEF IsValue
  <2> QED
    BY <1>4, <2>2, <2>4, <2>5 DEF Joined
<1>11. CASE Len(p.children) # 1
  BY <1>3, <1>7, <1>11 DEF ValueForms
<1> QED
  BY <1>10, <1>11

\* The shapes of the properties of a struct.
LEMMA ListShapes ==
    ASSUME NEW w, IsList(w)
    PROVE  \/ w = <<>> \/ IsProperty(w)
           \/ \E p, q \in Text : IsProperty(p) /\ IsList(q) /\ w = Joined(Joined(p, <<"comma">>), q)
<1>1. PICK d \in Nat : \E ch \in Seq(PropertiesIn(FormsTo(d))) : w \in PropertyForms(ch, FormsTo(d))
  BY DEF IsList
<1>2. PICK ch \in Seq(PropertiesIn(FormsTo(d))) : w \in PropertyForms(ch, FormsTo(d))
  BY <1>1
<1>3. PICK G : G = FormsTo(d)
  OBVIOUS
<1>4. PropertiesIn(G) \subseteq DOMAIN G
  BY DEF PropertiesIn, OfType
<1>5. TypedForms(G) /\ ch \in Seq(PropertiesIn(G)) /\ ch \in Seq(DOMAIN G) /\ w \in PropertyForms(ch, G)
  BY <1>2, <1>3, <1>4, FormsTyped
<1>6. ch # <<>> => ch[1] \in PropertiesIn(G) /\ Tail(ch) \in Seq(PropertiesIn(G))
  BY <1>5, HeadTailProperties, EmptySeq
<1>7. \/ w = <<>>
      \/ ch # <<>> /\ ch[1] \in DOMAIN G /\ w \in G[ch[1]]
      \/ /\ ch # <<>> /\ ch[1] \in DOMAIN G /\ Tail(ch) \in Seq(DOMAIN G)
         /\ Splits(w, Separated(G)[ch[1]], PropertyForms(Tail(ch), G))
  BY <1>5, PropertyFormsFirst
<1>8. CASE ch # <<>> /\ ch[1] \in DOMAIN G /\ w \in G[ch[1]]
  BY <1>3, <1>6, <1>8 DEF IsProperty
<1>9. CASE /\ ch # <<>> /\ ch[1] \in DOMAIN G /\ Tail(ch) \in Seq(DOMAIN G)
           /\ Splits(w, Separated(G)[ch[1]], PropertyForms(Tail(ch), G))
  <2>1. PICK x \in Separated(G)[ch[1]], q \in PropertyForms(Tail(ch), G) : w = Joined(x, q)
    BY <1>9 DEF Splits
  <2>2. PICK p \in G[ch[1]] : x = p \o <<"comma">>
    BY <1>9 DEF Separated
  <2>3. p \in Text
    BY <1>5, <1>9 DEF TypedForms
  <2>4. q \in Text
    BY <1>5, <1>9, PropertyFormsType
  <2>5. IsProperty(p)
    BY <1>3, <1>6, <1>9 DEF IsProperty
  <2>6. IsList(q)
    BY <1>3, <1>6, <1>9 DEF IsList
  <2>7. w = Joined(Joined(p, <<"comma">>), q)
    BY <2>1, <2>2 DEF Joined
  <2> QED
    BY <2>3, <2>4, <2>5, <2>6, <2>7
<1> QED
  BY <1>7, <1>8, <1>9

\* An empty file, or a declaration and others.
LEMMA FileShapes ==
    ASSUME NEW w, IsFile(w)
    PROVE  \/ w = <<>>
           \/ \E x, y \in Text : IsDeclaration(x) /\ IsFile(y) /\ w = Joined(x, y)
<1>1. PICK d \in Nat : \E s \in TreesTo(d) : w \in FileForms(s, d)
  BY DEF IsFile
<1>2. PICK s \in TreesTo(d) : w \in FileForms(s, d)
  BY <1>1
<1>3. s \in Seq(DeclarationNodes(FormsTo(d)))
  BY DEF TreesTo
<1>4. \/ w = <<>>
      \/ /\ s # <<>> /\ s[1] \in DeclarationNodes(FormsTo(d)) /\ Tail(s) \in Seq(DeclarationNodes(FormsTo(d)))
         /\ Splits(w, DeclarationForms(s[1], FormsTo(d)), FileForms(Tail(s), d))
  BY <1>2, <1>3, FileFormsFirst
<1>5. CASE /\ s # <<>> /\ s[1] \in DeclarationNodes(FormsTo(d)) /\ Tail(s) \in Seq(DeclarationNodes(FormsTo(d)))
           /\ Splits(w, DeclarationForms(s[1], FormsTo(d)), FileForms(Tail(s), d))
  <2>1. PICK x \in DeclarationForms(s[1], FormsTo(d)), y \in FileForms(Tail(s), d) : w = Joined(x, y)
    BY <1>5 DEF Splits
  <2>2. IsDeclaration(x)
    BY <1>5 DEF IsDeclaration
  <2>3. IsFile(y)
    BY <1>5 DEF IsFile, TreesTo
  <2>4. y \in Text
    BY <1>5, FileFormsAppend
  <2>5. x \in Text
    <3>1. DeclarationForms(s[1], FormsTo(d)) \in SUBSET Text
      BY <1>5, FormsTyped, DeclarationFormsAre
    <3> QED
      BY <3>1
  <2> QED
    BY <2>1, <2>2, <2>3, <2>4, <2>5
<1> QED
  BY <1>4, <1>5

\* Names with commas between them.
IsNames(w) ==
    \E k \in Nat : /\ Len(w) = 2 * k + 1
                   /\ \A i \in 0..k : w[2 * i + 1] = "identifier"
                   /\ \A i \in 0..k - 1 : w[2 * i + 2] = "comma"

\* Names and commas in turn, a name first and last.
LEMMA NamesAreNames ==
    ASSUME NEW X, NEW ch \in Seq(X), NEW w \in NameForms(ch)
    PROVE  w \in Text /\ IsNames(w)
<1>1. NameForms(ch) \in SUBSET Text
  BY NameFormsAre
<1>2. ch # <<>> /\ NameForms(ch) = {[i \in 1..2 * Len(ch) - 1 |-> IF i % 2 = 1 THEN "identifier" ELSE "comma"]}
  BY DEF NameForms
<1>3. PICK n : n = Len(ch)
  OBVIOUS
<1>4. n \in Nat /\ n >= 1
  BY <1>2, <1>3, EmptySeq
<1>5. w = [i \in 1..2 * n - 1 |-> IF i % 2 = 1 THEN "identifier" ELSE "comma"]
  BY <1>2, <1>3
<1>6. PICK k \in Nat : n = k + 1
  <2>1. n - 1 \in Nat /\ n = (n - 1) + 1
    BY <1>4
  <2> QED
    BY <2>1
<1>7. 2 * n - 1 = 2 * k + 1 /\ 2 * k + 1 \in Nat
  BY <1>6
<1>8. w \in Text
  BY <1>1
<1>9. Len(w) = 2 * k + 1
  BY <1>5, <1>7
<1>10. ASSUME NEW i \in 0..k PROVE w[2 * i + 1] = "identifier"
  <2>1. 2 * i + 1 \in 1..2 * k + 1 /\ (2 * i + 1) % 2 = 1
    OBVIOUS
  <2> QED
    BY <1>5, <1>7, <2>1
<1>11. ASSUME NEW i \in 0..k - 1 PROVE w[2 * i + 2] = "comma"
  <2>1. 2 * i + 2 \in 1..2 * k + 1 /\ (2 * i + 2) % 2 = 0
    OBVIOUS
  <2> QED
    BY <1>5, <1>7, <2>1
<1> QED
  BY <1>8, <1>9, <1>10, <1>11 DEF IsNames

\* The shapes of a declaration.
LEMMA DeclarationShapes ==
    ASSUME NEW w, IsDeclaration(w)
    PROVE  \/ \E v \in Text : IsValue(v) /\ w = Joined(Joined(<<"task", "identifier", "equals">>, v), <<"semicolon">>)
           \/ \E n \in Text : IsNames(n) /\ w = Joined(Joined(<<"identifier", "depends">>, n), <<"semicolon">>)
           \/ \E n \in Text : IsNames(n) /\ w = Joined(Joined(<<"run_level", "identifier", "colon">>, n), <<"semicolon">>)
<1>1. PICK d \in Nat : \E node \in DeclarationNodes(FormsTo(d)) : w \in DeclarationForms(node, FormsTo(d))
  BY DEF IsDeclaration
<1>2. PICK node \in DeclarationNodes(FormsTo(d)) : w \in DeclarationForms(node, FormsTo(d))
  BY <1>1
<1>3. PICK G : G = FormsTo(d)
  OBVIOUS
<1>4. TypedForms(G) /\ node \in DeclarationNodes(G) /\ w \in DeclarationForms(node, G)
  BY <1>2, <1>3, FormsTyped
<1>5. \/ node \in Nodes({"task"}, ValuesIn(G))
      \/ node \in Nodes({"dependency", "run_level"}, {Leaf("name")})
  BY <1>4 DEF DeclarationNodes, ValuesIn
<1>6. CASE node \in Nodes({"task"}, ValuesIn(G))
  <2>1. node.type = "task" /\ node.children \in Seq(ValuesIn(G))
    BY <1>6 DEF Nodes
  <2>2. CASE Len(node.children) = 1
    <3>1. DeclarationForms(node, G) =
            {x \o <<"semicolon">> : x \in {<<"task", "identifier", "equals">> \o v : v \in G[node.children[1]]}}
      BY <2>1, <2>2 DEF DeclarationForms
    <3>2. PICK v \in G[node.children[1]] : w = <<"task", "identifier", "equals">> \o v \o <<"semicolon">>
      BY <1>4, <3>1
    <3>3. node.children[1] \in ValuesIn(G)
      BY <2>1, <2>2
    <3>4. v \in Text
      BY <1>4, <3>3 DEF TypedForms, ValuesIn, OfType
    <3>5. IsValue(v)
      BY <1>3, <3>2, <3>3 DEF IsValue
    <3> QED
      BY <3>2, <3>4, <3>5 DEF Joined
  <2>3. CASE Len(node.children) # 1
    <3>1. DeclarationForms(node, G) = {x \o <<"semicolon">> : x \in {}}
      BY <2>1, <2>3 DEF DeclarationForms
    <3> QED
      BY <1>4, <3>1
  <2> QED
    BY <2>2, <2>3
<1>7. CASE node \in Nodes({"dependency", "run_level"}, {Leaf("name")})
  <2>1. node.type \in {"dependency", "run_level"} /\ node.children \in Seq({Leaf("name")})
    BY <1>7 DEF Nodes
  <2>2. \A n \in NameForms(node.children) : n \in Text /\ IsNames(n)
    BY <2>1, NamesAreNames
  <2>3. CASE node.type = "dependency"
    <3>1. DeclarationForms(node, G) =
            {x \o <<"semicolon">> : x \in {<<"identifier", "depends">> \o n : n \in NameForms(node.children)}}
      BY <2>3 DEF DeclarationForms
    <3>2. PICK n \in NameForms(node.children) : w = <<"identifier", "depends">> \o n \o <<"semicolon">>
      BY <1>4, <3>1
    <3> QED
      BY <2>2, <3>2 DEF Joined
  <2>4. CASE node.type = "run_level"
    <3>1. DeclarationForms(node, G) =
            {x \o <<"semicolon">> : x \in {<<"run_level", "identifier", "colon">> \o n : n \in NameForms(node.children)}}
      BY <2>4 DEF DeclarationForms
    <3>2. PICK n \in NameForms(node.children) : w = <<"run_level", "identifier", "colon">> \o n \o <<"semicolon">>
      BY <1>4, <3>1
    <3> QED
      BY <2>2, <3>2 DEF Joined
  <2> QED
    BY <2>1, <2>3, <2>4
<1> QED
  BY <1>5, <1>6, <1>7

\* The files in the grammar.
LEMMA WellFormedFiles == \A w \in WellFormed : IsFile(w)
<1> SUFFICES ASSUME NEW w \in WellFormed PROVE IsFile(w)
  OBVIOUS
<1>1. PICK s \in Trees : w \in FileForms(s, Depth)
  BY DEF WellFormed
<1>2. Depth \in Nat /\ s \in TreesTo(Depth)
  BY GrammarAssumption DEF TreesTo
<1> QED
  BY <1>1, <1>2 DEF IsFile

-----------------------------------------------------------------------------
(* Pieces of the file *)

\* A piece that is two texts can be cut between them.
LEMMA CutBetween ==
    ASSUME NEW ts \in Text, NEW a \in 1..Len(ts) + 1, NEW b \in a..Len(ts) + 1,
           NEW x \in Text, NEW y \in Text, Cut(ts, a, b) = Joined(x, y)
    PROVE  \E c \in a..b : c = a + Len(x) /\ Cut(ts, a, c) = x /\ Cut(ts, c, b) = y
<1>1. PICK u, n, m : u = Cut(ts, a, b) /\ n = Len(x) /\ m = Len(y)
  OBVIOUS
<1>2. u \in Text /\ Len(u) = b - a /\ \A i \in 1..b - a : u[i] = ts[a + i - 1]
  BY <1>1, CutFacts DEF Text
<1>3. n \in Nat /\ m \in Nat /\ Len(ts) \in Nat
  BY <1>1 DEF Text
<1>4. u = Joined(x, y)
  BY <1>1
<1>5. Len(u) = n + m /\ (\A i \in 1..n : u[i] = x[i]) /\ (\A i \in 1..m : u[n + i] = y[i])
  BY <1>1, <1>4 DEF Joined, Text
<1>6. PICK c : c = a + n
  OBVIOUS
<1>7. c \in a..b /\ c \in 1..Len(ts) + 1 /\ b \in c..Len(ts) + 1 /\ c \in a..Len(ts) + 1 /\ b \in 1..Len(ts) + 1 /\ c - a = n /\ b - c = m
  BY <1>2, <1>3, <1>5, <1>6
<1>8. PICK p, q : p = Cut(ts, a, c) /\ q = Cut(ts, c, b)
  OBVIOUS
<1>9. /\ p \in Text /\ Len(p) = n /\ \A i \in 1..n : p[i] = ts[a + i - 1]
      /\ q \in Text /\ Len(q) = m /\ \A i \in 1..m : q[i] = ts[c + i - 1]
  <2>1. p \in Seq(TokenType) /\ Len(p) = c - a /\ \A i \in 1..c - a : p[i] = ts[a + i - 1]
    BY <1>7, <1>8, CutFacts DEF Text
  <2>2. q \in Seq(TokenType) /\ Len(q) = b - c /\ \A i \in 1..b - c : q[i] = ts[c + i - 1]
    BY <1>7, <1>8, CutFacts DEF Text
  <2> QED
    BY <1>7, <2>1, <2>2, Zenon DEF Text
<1>10. \A i \in 1..n : p[i] = x[i]
  <2> TAKE i \in 1..n
  <2>1. i \in 1..b - a
    BY <1>2, <1>3, <1>5
  <2> QED
    BY <1>2, <1>5, <1>9, <2>1
<1>11. \A i \in 1..m : q[i] = y[i]
  <2> TAKE i \in 1..m
  <2>1. n + i \in 1..b - a /\ a + (n + i) - 1 = c + i - 1
    BY <1>2, <1>3, <1>5, <1>6
  <2> QED
    BY <1>2, <1>5, <1>9, <2>1
<1>12. p = x /\ q = y
  BY <1>1, <1>9, <1>10, <1>11, SeqEqual DEF Text
<1> QED
  BY <1>1, <1>6, <1>7, <1>8, <1>12

\* Pieces of one token and more.
LEMMA CutIs ==
    ASSUME NEW ts \in Text, NEW a \in 1..Len(ts) + 1, NEW b \in a..Len(ts) + 1, NEW x, Cut(ts, a, b) = x
    PROVE  /\ x = <<>> => b = a
           /\ \A t : x = <<t>> => b = a + 1 /\ Tok(ts, a) = t
           /\ \A t, u : x = <<t, u>> => b = a + 2 /\ Tok(ts, a) = t /\ Tok(ts, a + 1) = u
           /\ \A t, u, v : x = <<t, u, v>> => b = a + 3 /\ Tok(ts, a) = t /\ Tok(ts, a + 1) = u /\ Tok(ts, a + 2) = v
<1>1. Len(x) = b - a /\ (\A i \in 1..b - a : x[i] = ts[a + i - 1]) /\ Len(ts) \in Nat /\ a \in Nat /\ b \in Nat /\ b <= Len(ts) + 1
  <2>1. Len(ts) \in Nat
    BY DEF Text
  <2>2. Len(Cut(ts, a, b)) = b - a /\ \A i \in 1..b - a : Cut(ts, a, b)[i] = ts[a + i - 1]
    BY CutFacts DEF Text
  <2> QED
    BY <2>1, <2>2
<1>2. x = <<>> => b = a
  BY <1>1
<1>3. ASSUME NEW t, x = <<t>> PROVE b = a + 1 /\ Tok(ts, a) = t
  <2>1. PICK z : z = <<t>>
    OBVIOUS
  <2>2. Len(z) = 1 /\ z[1] = t /\ z = x
    BY <1>3, <2>1
  <2>3. b = a + 1
    <3>1. b - a = 1
      BY <1>1, <2>2, Zenon
    <3> QED
      BY <1>1, <3>1
  <2>4. 1 \in 1..b - a /\ a + 1 - 1 = a
    BY <1>1, <2>3
  <2>5. ts[a] = t
    BY <1>1, <2>2, <2>4
  <2> QED
    BY <1>1, <2>3, <2>5 DEF Tok
<1>4. ASSUME NEW t, NEW u, x = <<t, u>> PROVE b = a + 2 /\ Tok(ts, a) = t /\ Tok(ts, a + 1) = u
  <2>1. PICK z : z = <<t, u>>
    OBVIOUS
  <2>2. Len(z) = 2 /\ z[1] = t /\ z[2] = u /\ z = x
    BY <1>4, <2>1
  <2>3. b = a + 2
    <3>1. b - a = 2
      BY <1>1, <2>2, Zenon
    <3> QED
      BY <1>1, <3>1
  <2>4. 1 \in 1..b - a /\ 2 \in 1..b - a /\ a + 1 - 1 = a /\ a + 2 - 1 = a + 1
    BY <2>3
  <2>5. ts[a] = t /\ ts[a + 1] = u
    BY <1>1, <2>2, <2>4
  <2> QED
    BY <1>1, <2>3, <2>5 DEF Tok
<1>5. ASSUME NEW t, NEW u, NEW v, x = <<t, u, v>>
      PROVE b = a + 3 /\ Tok(ts, a) = t /\ Tok(ts, a + 1) = u /\ Tok(ts, a + 2) = v
  <2>1. PICK z : z = <<t, u, v>>
    OBVIOUS
  <2>2. Len(z) = 3 /\ z[1] = t /\ z[2] = u /\ z[3] = v /\ z = x
    BY <1>5, <2>1
  <2>3. b = a + 3
    <3>1. b - a = 3
      BY <1>1, <2>2, Zenon
    <3> QED
      BY <1>1, <3>1
  <2>4. 1 \in 1..b - a /\ 2 \in 1..b - a /\ 3 \in 1..b - a /\ a + 1 - 1 = a /\ a + 2 - 1 = a + 1 /\ a + 3 - 1 = a + 2
    BY <2>3
  <2>5. ts[a] = t /\ ts[a + 1] = u /\ ts[a + 2] = v
    BY <1>1, <2>2, <2>4
  <2> QED
    BY <1>1, <2>3, <2>5 DEF Tok
<1> QED
  BY <1>2, <1>3, <1>4, <1>5

-----------------------------------------------------------------------------
(* What the calls on the stack have in front of them *)

\* What a call has left to read: tokens, and parts of the grammar with steps of their own.
CallSteps == TokenType \cup {"VALUE", "NAMES", "PROPERTIES", "COMMA"}

\* The places of a file's tokens, and the place of the eof behind them.
PlacesIn(ts) == 1..Len(ts) + 1

\* Names from the token at a to the one before b.
NamesFrom(ts, a, b) ==
    \E k \in Nat : /\ b = a + 2 * k + 1
                   /\ \A i \in 0..k : Tok(ts, a + 2 * i) = "identifier"
                   /\ \A i \in 0..k - 1 : Tok(ts, a + 2 * i + 1) = "comma"

\* A step reads, in the grammar, the tokens from a to the one before b.
Takes(ts, a, step, b) ==
    \/ step \in TokenType /\ Tok(ts, a) = step /\ b = a + 1
    \/ step = "VALUE" /\ a <= b /\ IsValue(Cut(ts, a, b)) /\ Tok(ts, b) # "lbrace"
    \/ step = "NAMES" /\ NamesFrom(ts, a, b) /\ Tok(ts, b) = "semicolon"
    \/ step = "PROPERTIES" /\ a <= b /\ IsList(Cut(ts, a, b)) /\ Tok(ts, b) = "rbrace"
    \/ step = "COMMA" /\ (IF Tok(ts, a) = "rbrace" THEN b = a ELSE Tok(ts, a) = "comma" /\ b = a + 1)

\* The steps of a call that are left take the tokens from a to the one before e.
Awaits(ts, a, rest, e) ==
    \E p \in Seq(PlacesIn(ts)) :
        /\ Len(p) = Len(rest) + 1 /\ p[1] = a /\ p[Len(p)] = e
        /\ \A i \in 1..Len(rest) : Takes(ts, p[i], rest[i], p[i + 1])

\* A call of parser_context: the fields of Call, with steps that are left.
IsCall(f) ==
    /\ f = [fn |-> f.fn, rest |-> f.rest, missing |-> f.missing, children |-> f.children]
    /\ f.rest \in Seq(CallSteps)

\* The calls of the stack, the last one first, take the tokens from a on, and what is
\* left then is a file.
Coming(ts, a, st) ==
    \E X : /\ st \in Seq(X)
           /\ \E p \in Seq(PlacesIn(ts)) :
                /\ Len(p) = Len(st) + 1 /\ p[Len(p)] = a
                /\ IsFile(Cut(ts, p[1], Len(ts) + 1))
                /\ \A k \in 1..Len(st) : IsCall(st[k]) /\ Awaits(ts, p[k + 1], st[k].rest, p[k])

\* A call that is done.
LEMMA AwaitsNone ==
    ASSUME NEW ts \in Text, NEW a \in PlacesIn(ts), NEW e
    PROVE  Awaits(ts, a, <<>>, e) <=> a = e
<1>1. ASSUME Awaits(ts, a, <<>>, e) PROVE a = e
  <2>1. PICK p \in Seq(PlacesIn(ts)) : Len(p) = Len(<<>>) + 1 /\ p[1] = a /\ p[Len(p)] = e
    BY <1>1 DEF Awaits
  <2> QED
    BY <2>1
<1>2. Awaits(ts, a, <<>>, a)
  <2>1. PICK p : p = <<a>>
    OBVIOUS
  <2>2. p \in Seq(PlacesIn(ts)) /\ Len(p) = 1 /\ p[1] = a
    BY <2>1
  <2>3. Len(<<>>) = 0 /\ 1..0 = {}
    OBVIOUS
  <2> QED
    BY <2>2, <2>3 DEF Awaits
<1> QED
  BY <1>1, <1>2

\* The next step of a call.
LEMMA AwaitsStep ==
    ASSUME NEW ts \in Text, NEW a, NEW rest \in Seq(CallSteps), rest # <<>>, NEW e, Awaits(ts, a, rest, e)
    PROVE  \E b \in PlacesIn(ts) : Takes(ts, a, Head(rest), b) /\ Awaits(ts, b, Tail(rest), e)
<1>1. PICK p \in Seq(PlacesIn(ts)) :
        /\ Len(p) = Len(rest) + 1 /\ p[1] = a /\ p[Len(p)] = e
        /\ \A i \in 1..Len(rest) : Takes(ts, p[i], rest[i], p[i + 1])
  BY DEF Awaits
<1>2. PICK n : n = Len(rest)
  OBVIOUS
<1>3. n \in Nat /\ n >= 1 /\ Head(rest) = rest[1]
  BY <1>2, EmptySeq
<1>4. PICK t : t = Tail(rest)
  OBVIOUS
<1>5. t \in Seq(CallSteps) /\ Len(t) = n - 1 /\ \A i \in 1..n - 1 : t[i] = rest[i + 1]
  BY <1>2, <1>4, HeadTailProperties
<1>6. p # <<>> /\ Len(p) = n + 1
  BY <1>1, <1>2, <1>3
<1>7. PICK q : q = Tail(p)
  OBVIOUS
<1>8. q \in Seq(PlacesIn(ts)) /\ Len(q) = n /\ \A i \in 1..n : q[i] = p[i + 1]
  <2>1. q \in Seq(PlacesIn(ts)) /\ Len(q) = Len(p) - 1 /\ \A i \in 1..Len(p) - 1 : q[i] = p[i + 1]
    BY <1>6, <1>7, HeadTailProperties
  <2>2. Len(p) - 1 = n
    BY <1>3, <1>6
  <2> QED
    BY <2>1, <2>2
<1>9. Takes(ts, a, Head(rest), p[2]) /\ q[1] = p[2] /\ p[2] \in PlacesIn(ts)
  <2>1. 1 \in 1..Len(rest) /\ 1 + 1 = 2 /\ 1 \in 1..n /\ 2 \in 1..n + 1
    BY <1>2, <1>3
  <2>2. p[2] \in PlacesIn(ts)
    BY <1>6, <2>1, ElementOfSeq
  <2>3. Takes(ts, p[1], rest[1], p[1 + 1]) /\ q[1] = p[1 + 1]
    BY <1>1, <1>8, <2>1
  <2> QED
    BY <1>1, <1>3, <2>1, <2>2, <2>3
<1>10. ASSUME NEW i \in 1..n - 1 PROVE Takes(ts, q[i], t[i], q[i + 1])
  <2>1. i \in 1..n /\ i + 1 \in 1..n /\ i + 1 \in 1..Len(rest)
    BY <1>2, <1>3
  <2>2. Takes(ts, p[i + 1], rest[i + 1], p[(i + 1) + 1])
    BY <1>1, <2>1
  <2>3. q[i] = p[i + 1] /\ q[i + 1] = p[(i + 1) + 1] /\ t[i] = rest[i + 1]
    BY <1>5, <1>8, <2>1
  <2> QED
    BY <2>2, <2>3
<1>11. q[n] = e
  <2>1. n \in 1..n
    BY <1>3
  <2> QED
    BY <1>1, <1>6, <1>8, <2>1
<1>12. Awaits(ts, p[2], t, e)
  <2>1. Len(q) = Len(t) + 1 /\ Len(t) = n - 1
    BY <1>3, <1>5, <1>8
  <2> QED
    BY <1>8, <1>9, <1>10, <1>11, <2>1 DEF Awaits
<1> QED
  BY <1>4, <1>9, <1>12

\* One more step in front.
LEMMA AwaitsMore ==
    ASSUME NEW ts \in Text, NEW a \in PlacesIn(ts), NEW step, NEW b, Takes(ts, a, step, b),
           NEW rest \in Seq(CallSteps), NEW e, Awaits(ts, b, rest, e), NEW more, more = <<step>> \o rest
    PROVE  Awaits(ts, a, more, e)
<1>1. PICK p \in Seq(PlacesIn(ts)) :
        /\ Len(p) = Len(rest) + 1 /\ p[1] = b /\ p[Len(p)] = e
        /\ \A i \in 1..Len(rest) : Takes(ts, p[i], rest[i], p[i + 1])
  BY DEF Awaits
<1>2. PICK n : n = Len(rest)
  OBVIOUS
<1>3. n \in Nat
  BY <1>2
<1>4. Len(more) = n + 1 /\ more[1] = step /\ \A i \in 1..n : more[i + 1] = rest[i]
  BY <1>2
<1>5. PICK q : q = <<a>> \o p
  OBVIOUS
<1>6. q \in Seq(PlacesIn(ts)) /\ Len(q) = n + 2 /\ q[1] = a /\ \A i \in 1..n + 1 : q[i + 1] = p[i]
  <2>1. Len(p) = n + 1
    BY <1>1, <1>2
  <2>2. <<a>> \in Seq(PlacesIn(ts)) /\ Len(<<a>>) = 1
    OBVIOUS
  <2>3. q \in Seq(PlacesIn(ts))
    BY <1>5, <2>2
  <2>4. Len(q) = 1 + Len(p)
    BY <1>5, <2>2
  <2>5. q[1] = a /\ \A i \in 1..Len(p) : q[i + 1] = p[i]
    BY <1>5
  <2> QED
    BY <1>3, <2>1, <2>3, <2>4, <2>5
<1>7. q[n + 2] = e
  <2>1. n + 1 \in 1..n + 1 /\ (n + 1) + 1 = n + 2 /\ Len(p) = n + 1
    BY <1>1, <1>2, <1>3
  <2>2. q[(n + 1) + 1] = p[n + 1]
    BY <1>6, <2>1
  <2> QED
    BY <1>1, <2>1, <2>2
<1>8. ASSUME NEW i \in 1..n + 1 PROVE Takes(ts, q[i], more[i], q[i + 1])
  <2>1. CASE i = 1
    <3>1. q[1 + 1] = p[1]
      BY <1>3, <1>6
    <3> QED
      BY <1>1, <1>4, <1>6, <2>1, <3>1
  <2>2. CASE i # 1
    <3>1. PICK j \in 1..n : i = j + 1
      <4>1. i - 1 \in 1..n /\ i = (i - 1) + 1
        BY <1>3, <2>2
      <4> QED
        BY <4>1
    <3>2. j \in 1..n + 1 /\ j + 1 \in 1..n + 1
      BY <1>3
    <3>3. q[j + 1] = p[j] /\ q[(j + 1) + 1] = p[j + 1] /\ more[j + 1] = rest[j]
      BY <1>4, <1>6, <3>2
    <3>4. Takes(ts, p[j], rest[j], p[j + 1])
      BY <1>1, <1>2
    <3> QED
      BY <3>1, <3>3, <3>4
  <2> QED
    BY <2>1, <2>2
<1>9. Len(q) = Len(more) + 1 /\ Len(q) = n + 2 /\ Len(more) = n + 1
  BY <1>3, <1>4, <1>6
<1> QED
  BY <1>6, <1>7, <1>8, <1>9 DEF Awaits

\* No call: what is left is a file.
LEMMA ComingEmpty ==
    ASSUME NEW ts \in Text, NEW a \in PlacesIn(ts)
    PROVE  Coming(ts, a, <<>>) <=> IsFile(Cut(ts, a, Len(ts) + 1))
<1>1. ASSUME Coming(ts, a, <<>>) PROVE IsFile(Cut(ts, a, Len(ts) + 1))
  <2>1. PICK p \in Seq(PlacesIn(ts)) :
          Len(p) = Len(<<>>) + 1 /\ p[Len(p)] = a /\ IsFile(Cut(ts, p[1], Len(ts) + 1))
    BY <1>1 DEF Coming
  <2>2. Len(p) = 1 /\ p[1] = a
    BY <2>1
  <2> QED
    BY <2>1, <2>2
<1>2. ASSUME IsFile(Cut(ts, a, Len(ts) + 1)) PROVE Coming(ts, a, <<>>)
  <2>1. PICK p : p = <<a>>
    OBVIOUS
  <2>2. p \in Seq(PlacesIn(ts)) /\ Len(p) = 1 /\ p[1] = a
    BY <2>1
  <2>3. Len(<<>>) = 0 /\ 1..0 = {} /\ <<>> \in Seq({}) /\ Len(p) = Len(<<>>) + 1
    BY <2>2
  <2>4. /\ Len(p) = Len(<<>>) + 1 /\ p[Len(p)] = a
        /\ IsFile(Cut(ts, p[1], Len(ts) + 1))
        /\ \A k \in 1..Len(<<>>) : IsCall(<<>>[k]) /\ Awaits(ts, p[k + 1], <<>>[k].rest, p[k])
    BY <1>2, <2>2, <2>3
  <2> QED
    BY <2>2, <2>3, <2>4, Zenon DEF Coming
<1> QED
  BY <1>1, <1>2

\* The last call and the others.
LEMMA ComingTop ==
    ASSUME NEW ts \in Text, NEW a \in PlacesIn(ts), NEW st, st # <<>>, Coming(ts, a, st)
    PROVE  /\ IsCall(Last(st))
           /\ \E e \in PlacesIn(ts) : Coming(ts, e, Front(st)) /\ Awaits(ts, a, Last(st).rest, e)
<1>1. PICK X : /\ st \in Seq(X)
               /\ \E p \in Seq(PlacesIn(ts)) :
                    /\ Len(p) = Len(st) + 1 /\ p[Len(p)] = a
                    /\ IsFile(Cut(ts, p[1], Len(ts) + 1))
                    /\ \A k \in 1..Len(st) : IsCall(st[k]) /\ Awaits(ts, p[k + 1], st[k].rest, p[k])
  BY Zenon DEF Coming
<1>2. PICK p \in Seq(PlacesIn(ts)) :
        /\ Len(p) = Len(st) + 1 /\ p[Len(p)] = a
        /\ IsFile(Cut(ts, p[1], Len(ts) + 1))
        /\ \A k \in 1..Len(st) : IsCall(st[k]) /\ Awaits(ts, p[k + 1], st[k].rest, p[k])
  BY <1>1
<1>3. PICK n : n = Len(st)
  OBVIOUS
<1>4. n \in Nat /\ n >= 1 /\ Last(st) = st[n]
  BY <1>1, <1>3, EmptySeq DEF Last
<1>5. PICK base : base = Front(st)
  OBVIOUS
<1>6. base \in Seq(X) /\ Len(base) = n - 1 /\ \A k \in 1..n - 1 : base[k] = st[k]
  BY <1>1, <1>3, <1>4, <1>5 DEF Front
<1>7. PICK q : q = SubSeq(p, 1, n)
  OBVIOUS
<1>8. q \in Seq(PlacesIn(ts)) /\ Len(q) = n /\ \A k \in 1..n : q[k] = p[k]
  <2>1. Len(p) = n + 1
    BY <1>2, <1>3
  <2>2. \A k \in 1..n : p[k] \in PlacesIn(ts)
    <3>1. \A k \in 1..n : k \in 1..Len(p)
      BY <1>4, <2>1
    <3> QED
      BY <3>1, ElementOfSeq
  <2> QED
    BY <1>4, <1>7, <2>2, SubSeqProperties
<1>9. n \in 1..n /\ 1 \in 1..n /\ n + 1 = Len(p) /\ n \in 1..Len(p)
  BY <1>2, <1>3, <1>4
<1>10. p[n] \in PlacesIn(ts) /\ p[n + 1] = a
  BY <1>2, <1>9, ElementOfSeq
<1>11. IsCall(st[n]) /\ Awaits(ts, a, st[n].rest, p[n])
  BY <1>2, <1>3, <1>9, <1>10
<1>12. Coming(ts, p[n], base)
  <2>1. Len(q) = Len(base) + 1 /\ q[Len(q)] = p[n] /\ q[1] = p[1]
    BY <1>4, <1>6, <1>8, <1>9
  <2>2. ASSUME NEW k \in 1..Len(base) PROVE IsCall(base[k]) /\ Awaits(ts, q[k + 1], base[k].rest, q[k])
    <3>1. k \in 1..n - 1 /\ k \in 1..n /\ k + 1 \in 1..n /\ k \in 1..Len(st)
      BY <1>3, <1>4, <1>6
    <3>2. base[k] = st[k] /\ q[k] = p[k] /\ q[k + 1] = p[k + 1]
      BY <1>6, <1>8, <3>1
    <3> QED
      BY <1>2, <3>1, <3>2
  <2>3. IsFile(Cut(ts, q[1], Len(ts) + 1))
    BY <1>2, <2>1
  <2> QED
    BY <1>6, <1>8, <2>1, <2>2, <2>3 DEF Coming
<1> QED
  BY <1>4, <1>5, <1>10, <1>11, <1>12

\* One more call.
LEMMA ComingMore ==
    ASSUME NEW ts \in Text, NEW a \in PlacesIn(ts), NEW e, NEW base, Coming(ts, e, base),
           NEW f, IsCall(f), Awaits(ts, a, f.rest, e)
    PROVE  Coming(ts, a, Append(base, f))
<1>1. PICK X : /\ base \in Seq(X)
               /\ \E p \in Seq(PlacesIn(ts)) :
                    /\ Len(p) = Len(base) + 1 /\ p[Len(p)] = e
                    /\ IsFile(Cut(ts, p[1], Len(ts) + 1))
                    /\ \A k \in 1..Len(base) : IsCall(base[k]) /\ Awaits(ts, p[k + 1], base[k].rest, p[k])
  BY Zenon DEF Coming
<1>2. PICK p \in Seq(PlacesIn(ts)) :
        /\ Len(p) = Len(base) + 1 /\ p[Len(p)] = e
        /\ IsFile(Cut(ts, p[1], Len(ts) + 1))
        /\ \A k \in 1..Len(base) : IsCall(base[k]) /\ Awaits(ts, p[k + 1], base[k].rest, p[k])
  BY <1>1
<1>3. PICK n : n = Len(base)
  OBVIOUS
<1>4. n \in Nat
  BY <1>1, <1>3
<1>5. PICK Y : Y = X \cup {f}
  OBVIOUS
<1>6. PICK st : st = Append(base, f)
  OBVIOUS
<1>7. st \in Seq(Y) /\ Len(st) = n + 1 /\ st[n + 1] = f /\ \A k \in 1..n : st[k] = base[k]
  <2>1. base \in Seq(Y) /\ f \in Y
    BY <1>1, <1>5
  <2> QED
    BY <1>3, <1>6, <2>1, AppendProperties
<1>8. PICK q : q = Append(p, a)
  OBVIOUS
<1>9. Len(p) = n + 1
  BY <1>2, <1>3
<1>10. q \in Seq(PlacesIn(ts)) /\ Len(q) = n + 2 /\ q[n + 2] = a /\ \A k \in 1..n + 1 : q[k] = p[k]
  <2>1. /\ q \in Seq(PlacesIn(ts)) /\ Len(q) = Len(p) + 1 /\ q[Len(p) + 1] = a /\ \A k \in 1..Len(p) : q[k] = p[k]
    BY <1>8, AppendProperties
  <2>2. Len(p) + 1 = n + 2
    BY <1>4, <1>9
  <2> QED
    BY <1>9, <2>1, <2>2
<1>11. q[n + 1] = e /\ q[1] = p[1]
  <2>1. n + 1 \in 1..n + 1 /\ 1 \in 1..n + 1
    BY <1>4
  <2> QED
    BY <1>2, <1>9, <1>10, <2>1
<1>12. ASSUME NEW k \in 1..Len(st) PROVE IsCall(st[k]) /\ Awaits(ts, q[k + 1], st[k].rest, q[k])
  <2>1. CASE k = n + 1
    <3>1. (n + 1) + 1 = n + 2
      BY <1>4
    <3> QED
      BY <1>7, <1>10, <1>11, <2>1, <3>1
  <2>2. CASE k # n + 1
    <3>1. k \in 1..n /\ k \in 1..n + 1 /\ k + 1 \in 1..n + 1 /\ k \in 1..Len(base)
      BY <1>3, <1>4, <1>7, <2>2
    <3>2. st[k] = base[k] /\ q[k] = p[k] /\ q[k + 1] = p[k + 1]
      BY <1>7, <1>10, <3>1
    <3> QED
      BY <1>2, <3>1, <3>2
  <2> QED
    BY <2>1, <2>2
<1>13. Len(q) = Len(st) + 1 /\ q[Len(q)] = a /\ IsFile(Cut(ts, q[1], Len(ts) + 1))
  <2>1. Len(q) = Len(st) + 1
    BY <1>4, <1>7, <1>10
  <2>2. q[Len(q)] = a
    BY <1>10
  <2> QED
    BY <1>2, <1>11, <2>1, <2>2
<1>14. Coming(ts, a, st)
  BY <1>7, <1>10, <1>12, <1>13 DEF Coming
<1> QED
  BY <1>6, <1>14

-----------------------------------------------------------------------------
(* Taking a step *)

\* Tokens that begin a declaration and what is left of it then.
DeclarationPairs == {<<"task", "task">>, <<"identifier", "dependency">>, <<"run_level", "run_level">>}

\* Scripts, one step after the other.
LEMMA ScriptsAre ==
    /\ Script["task"] = <<"identifier">> \o (<<"equals">> \o (<<"VALUE">> \o <<"semicolon">>))
    /\ Script["dependency"] = <<"depends">> \o (<<"NAMES">> \o <<"semicolon">>)
    /\ Script["run_level"] = <<"identifier">> \o (<<"colon">> \o (<<"NAMES">> \o <<"semicolon">>))
    /\ Script["struct"] = <<"PROPERTIES">> \o <<"rbrace">>
    /\ Script["property"] = <<"equals">> \o <<"VALUE">>
<1>1. /\ Script["task"] = <<"identifier", "equals", "VALUE", "semicolon">>
      /\ Script["dependency"] = <<"depends", "NAMES", "semicolon">>
      /\ Script["run_level"] = <<"identifier", "colon", "NAMES", "semicolon">>
      /\ Script["struct"] = <<"PROPERTIES", "rbrace">>
      /\ Script["property"] = <<"equals", "VALUE">>
  BY DEF Script
<1>2. ASSUME NEW x, NEW y PROVE <<x>> \o <<y>> = <<x, y>>
  BY ShortJoins DEF Joined
<1>3. ASSUME NEW x, NEW y, NEW z PROVE <<x>> \o <<y, z>> = <<x, y, z>>
  BY ShortJoins DEF Joined
<1>4. ASSUME NEW x, NEW y, NEW z, NEW u PROVE <<x>> \o <<y, z, u>> = <<x, y, z, u>>
  <2>1. PICK s, t, r : s = <<x>> /\ t = <<y, z, u>> /\ r = <<x, y, z, u>>
    OBVIOUS
  <2>2. PICK W : W = {x, y, z, u}
    OBVIOUS
  <2>3. s \in Seq(W) /\ Len(s) = 1 /\ s[1] = x /\ t \in Seq(W) /\ Len(t) = 3 /\ t[1] = y /\ t[2] = z /\ t[3] = u
    BY <2>1, <2>2
  <2>4. r \in Seq(W) /\ Len(r) = 4 /\ r[1] = x /\ r[2] = y /\ r[3] = z /\ r[4] = u
    BY <2>1, <2>2
  <2>5. PICK q : q = s \o t
    OBVIOUS
  <2>6. q \in Seq(W) /\ Len(q) = 4 /\ \A i \in 1..4 : q[i] = IF i <= 1 THEN s[i] ELSE t[i - 1]
    <3>1. s \in Seq(W) /\ t \in Seq(W)
      BY <2>3
    <3>2. /\ s \o t \in Seq(W) /\ Len(s \o t) = Len(s) + Len(t)
          /\ \A i \in 1..Len(s) + Len(t) : (s \o t)[i] = IF i <= Len(s) THEN s[i] ELSE t[i - Len(s)]
      BY <3>1, ConcatProperties
    <3>3. Len(s) + Len(t) = 4
      BY <2>3
    <3> QED
      BY <2>3, <2>5, <3>2, <3>3
  <2>7. q[1] = x /\ q[2] = y /\ q[3] = z /\ q[4] = u
    BY <2>3, <2>6
  <2>8. \A i \in 1..Len(r) : q[i] = r[i]
    BY <2>4, <2>7
  <2>9. q = r
    BY <2>4, <2>6, <2>8, SeqEqual
  <2> QED
    BY <2>1, <2>5, <2>9
<1> QED
  BY <1>1, <1>2, <1>3, <1>4

\* What parser_context calls has the steps of its function's script before it.
LEMMA CallIs ==
    ASSUME NEW fn \in Function
    PROVE  IsCall(Call(fn)) /\ Call(fn).rest = Script[fn] /\ Call(fn).fn = fn
<1>1. Script[fn] \in Seq(CallSteps)
  <2>1. /\ {"identifier", "equals", "VALUE", "semicolon"} \subseteq CallSteps /\ {"depends", "NAMES"} \subseteq CallSteps
        /\ {"colon", "PROPERTIES", "rbrace"} \subseteq CallSteps
    BY DEF CallSteps, TokenType
  <2>2. \A x, y \in CallSteps : \A s \in Seq(CallSteps) : <<x>> \o s \in Seq(CallSteps) /\ <<y>> \in Seq(CallSteps)
    OBVIOUS
  <2>3. fn \in {"task", "dependency", "run_level", "struct", "property"}
    BY DEF Function
  <2>4. CASE fn = "task"
    BY <2>1, <2>2, <2>4, ScriptsAre
  <2>5. CASE fn = "dependency"
    BY <2>1, <2>2, <2>5, ScriptsAre
  <2>6. CASE fn = "run_level"
    BY <2>1, <2>2, <2>6, ScriptsAre
  <2>7. CASE fn = "struct"
    BY <2>1, <2>2, <2>7, ScriptsAre
  <2>8. CASE fn = "property"
    BY <2>1, <2>2, <2>8, ScriptsAre
  <2> QED
    BY <2>3, <2>4, <2>5, <2>6, <2>7, <2>8
<1>2. Call(fn).rest = Script[fn] /\ Call(fn) = [fn |-> Call(fn).fn, rest |-> Call(fn).rest, missing |-> Call(fn).missing, children |-> Call(fn).children]
  BY DEF Call
<1> QED
  BY <1>1, <1>2 DEF IsCall, Call

\* One step alone.
LEMMA AwaitsOne ==
    ASSUME NEW ts \in Text, NEW a \in PlacesIn(ts), NEW b \in PlacesIn(ts), NEW step \in CallSteps, Takes(ts, a, step, b)
    PROVE  Awaits(ts, a, <<step>>, b)
<1>1. Awaits(ts, b, <<>>, b)
  BY AwaitsNone
<1>2. <<step>> = <<step>> \o <<>> /\ <<>> \in Seq(CallSteps)
  OBVIOUS
<1> QED
  BY <1>1, <1>2, AwaitsMore

\* No properties is a list of them.
LEMMA EmptyList == IsList(<<>>)
<1>1. PICK G : G = FormsTo(0)
  OBVIOUS
<1>2. TypedForms(G) /\ <<>> \in Seq(PropertiesIn(G)) /\ <<>> \in Seq(DOMAIN G)
  BY <1>1, FormsTyped
<1>3. <<>> \in PropertyForms(<<>>, G)
  BY <1>2, PropertiesRead
<1> QED
  BY <1>1, <1>2, <1>3 DEF IsList

\* Places of a piece.
LEMMA PlaceFacts ==
    ASSUME NEW ts \in Text, NEW a \in PlacesIn(ts)
    PROVE  /\ a \in Nat /\ Len(ts) \in Nat /\ a >= 1 /\ a <= Len(ts) + 1
           /\ Tok(ts, a) # "eof" <=> a <= Len(ts)
           /\ Tok(ts, a) # "eof" => a + 1 \in PlacesIn(ts) /\ Tok(ts, a) \in TokenType
           /\ \A b \in PlacesIn(ts) : a <= b => b \in a..Len(ts) + 1
           /\ \A b \in PlacesIn(ts) : \A c \in a..b : c \in PlacesIn(ts) /\ c <= b /\ a <= c
<1>1. Len(ts) \in Nat /\ a \in Nat /\ a >= 1 /\ a <= Len(ts) + 1
  BY DEF PlacesIn, Text
<1>2. a <= Len(ts) => Tok(ts, a) \in TokenType /\ Tok(ts, a) # "eof"
  <2> SUFFICES ASSUME a <= Len(ts) PROVE Tok(ts, a) \in TokenType /\ Tok(ts, a) # "eof"
    OBVIOUS
  <2>1. ts[a] \in TokenType /\ Tok(ts, a) = ts[a]
    BY <1>1 DEF Tok, Text
  <2> QED
    BY <2>1 DEF TokenType
<1>3. a > Len(ts) => Tok(ts, a) = "eof"
  BY DEF Tok
<1> QED
  BY <1>1, <1>2, <1>3 DEF PlacesIn

\* A piece that begins with known tokens.
LEMMA PieceBegins ==
    ASSUME NEW ts \in Text, NEW a \in PlacesIn(ts), NEW b \in PlacesIn(ts), a <= b,
           NEW x \in Text, NEW y \in Text, Cut(ts, a, b) = Joined(x, y)
    PROVE  \E c \in PlacesIn(ts) : a <= c /\ c <= b /\ Cut(ts, a, c) = x /\ Cut(ts, c, b) = y
<1>1. a \in 1..Len(ts) + 1 /\ b \in a..Len(ts) + 1
  BY PlaceFacts DEF PlacesIn
<1>2. \E c \in a..b : c = a + Len(x) /\ Cut(ts, a, c) = x /\ Cut(ts, c, b) = y
  BY <1>1, CutBetween
<1> QED
  BY <1>2, PlaceFacts

\* What it says of the tokens that a piece of the file is one, two or three given ones.
LEMMA PieceIs ==
    ASSUME NEW ts \in Text, NEW a \in PlacesIn(ts), NEW b \in PlacesIn(ts), a <= b, NEW x, Cut(ts, a, b) = x
    PROVE  /\ x = <<>> => b = a
           /\ \A t : x = <<t>> => b = a + 1 /\ Tok(ts, a) = t
           /\ \A t, u : x = <<t, u>> => b = a + 2 /\ Tok(ts, a) = t /\ Tok(ts, a + 1) = u
           /\ \A t, u, v : x = <<t, u, v>> => b = a + 3 /\ Tok(ts, a) = t /\ Tok(ts, a + 1) = u /\ Tok(ts, a + 2) = v
<1>1. a \in 1..Len(ts) + 1 /\ b \in a..Len(ts) + 1
  BY PlaceFacts DEF PlacesIn
<1> QED
  BY <1>1, CutIs

\* The short sequences of tokens that the forms of the grammar are joined from.
LEMMA KnownTexts ==
    /\ <<>> \in Text /\ <<"comma">> \in Text /\ <<"semicolon">> \in Text /\ <<"rbrace">> \in Text
    /\ <<"identifier", "lbrace">> \in Text /\ <<"identifier", "equals">> \in Text /\ <<"identifier", "depends">> \in Text
    /\ <<"task", "identifier", "equals">> \in Text /\ <<"run_level", "identifier", "colon">> \in Text
<1>1. /\ "comma" \in TokenType /\ "semicolon" \in TokenType /\ "rbrace" \in TokenType /\ "identifier" \in TokenType
      /\ "lbrace" \in TokenType /\ "equals" \in TokenType /\ "depends" \in TokenType /\ "task" \in TokenType
      /\ "run_level" \in TokenType /\ "colon" \in TokenType
  BY DEF TokenType
<1>2. <<>> \in Text
  BY DEF Text
<1> QED
  BY <1>1, <1>2, TokenText

\* The properties of a struct and the brace behind them.
LEMMA PropertiesTake ==
    ASSUME NEW ts \in Text, NEW a \in PlacesIn(ts), NEW b \in PlacesIn(ts), Takes(ts, a, "PROPERTIES", b)
    PROVE  \/ Tok(ts, a) = "rbrace" /\ b = a
           \/ /\ Tok(ts, a) = "identifier"
              /\ \E c \in PlacesIn(ts), d \in PlacesIn(ts) :
                   Awaits(ts, a + 1, Script["property"], c) /\ Takes(ts, c, "COMMA", d) /\ Takes(ts, d, "PROPERTIES", b)
<1>1. a <= b /\ IsList(Cut(ts, a, b)) /\ Tok(ts, b) = "rbrace"
  BY DEF Takes, TokenType
<1>2. ASSUME NEW c \in PlacesIn(ts), a <= c, IsProperty(Cut(ts, a, c)), Tok(ts, c) # "lbrace"
      PROVE  Tok(ts, a) = "identifier" /\ Awaits(ts, a + 1, Script["property"], c)
  <2>1. PICK v \in Text : IsValue(v) /\ Cut(ts, a, c) = Joined(<<"identifier", "equals">>, v)
    BY <1>2, PropertyShape
  <2>2. PICK m \in PlacesIn(ts) : a <= m /\ m <= c /\ Cut(ts, a, m) = <<"identifier", "equals">> /\ Cut(ts, m, c) = v
    BY <1>2, <2>1, KnownTexts, PieceBegins
  <2>3. m = a + 2 /\ Tok(ts, a) = "identifier" /\ Tok(ts, a + 1) = "equals"
    BY <2>2, PieceIs
  <2>4. a + 1 \in PlacesIn(ts) /\ (a + 1) + 1 = m
    BY <2>3, PlaceFacts
  <2>5. Takes(ts, m, "VALUE", c)
    BY <1>2, <2>1, <2>2 DEF Takes
  <2>6. Takes(ts, a + 1, "equals", m)
    BY <2>3, <2>4 DEF Takes, TokenType
  <2>7. Awaits(ts, m, <<"VALUE">>, c) /\ <<"VALUE">> \in Seq(CallSteps)
    BY <2>5, AwaitsOne DEF CallSteps
  <2>8. Awaits(ts, a + 1, Script["property"], c)
    BY <2>4, <2>6, <2>7, ScriptsAre, AwaitsMore
  <2> QED
    BY <2>3, <2>8
<1>3. CASE Cut(ts, a, b) = <<>>
  BY <1>1, <1>3, PieceIs
<1>4. CASE IsProperty(Cut(ts, a, b))
  <2>1. Tok(ts, a) = "identifier" /\ Awaits(ts, a + 1, Script["property"], b)
    BY <1>1, <1>2, <1>4
  <2>2. Takes(ts, b, "COMMA", b)
    BY <1>1 DEF Takes
  <2>3. Cut(ts, b, b) = <<>>
    <3>1. b \in 1..Len(ts) + 1
      BY DEF PlacesIn
    <3> QED
      BY <3>1, ShortCuts DEF Text
  <2>4. Takes(ts, b, "PROPERTIES", b)
    <3>1. b <= b
      BY PlaceFacts
    <3> QED
      BY <1>1, <2>3, <3>1, EmptyList DEF Takes
  <2> QED
    BY <2>1, <2>2, <2>4
<1>5. ASSUME NEW p \in Text, NEW q \in Text, IsProperty(p), IsList(q), Cut(ts, a, b) = Joined(Joined(p, <<"comma">>), q)
      PROVE  /\ Tok(ts, a) = "identifier"
             /\ \E c \in PlacesIn(ts), d \in PlacesIn(ts) :
                  Awaits(ts, a + 1, Script["property"], c) /\ Takes(ts, c, "COMMA", d) /\ Takes(ts, d, "PROPERTIES", b)
  <2>1. Joined(p, <<"comma">>) \in Text
    BY KnownTexts, JoinText
  <2>2. PICK d \in PlacesIn(ts) : a <= d /\ d <= b /\ Cut(ts, a, d) = Joined(p, <<"comma">>) /\ Cut(ts, d, b) = q
    BY <1>1, <1>5, <2>1, PieceBegins
  <2>3. PICK c \in PlacesIn(ts) : a <= c /\ c <= d /\ Cut(ts, a, c) = p /\ Cut(ts, c, d) = <<"comma">>
    BY <2>2, KnownTexts, PieceBegins
  <2>4. d = c + 1 /\ Tok(ts, c) = "comma"
    BY <2>3, PieceIs
  <2>5. Tok(ts, a) = "identifier" /\ Awaits(ts, a + 1, Script["property"], c)
    BY <1>2, <1>5, <2>3, <2>4
  <2>6. Takes(ts, c, "COMMA", d)
    BY <2>4 DEF Takes
  <2>7. Takes(ts, d, "PROPERTIES", b)
    BY <1>1, <1>5, <2>2 DEF Takes
  <2> QED
    BY <2>5, <2>6, <2>7
<1> QED
  BY <1>1, <1>3, <1>4, <1>5, ListShapes

\* A value and what is not a brace behind it.
LEMMA ValueTakes ==
    ASSUME NEW ts \in Text, NEW a \in PlacesIn(ts), NEW b \in PlacesIn(ts), Takes(ts, a, "VALUE", b)
    PROVE  \/ Tok(ts, a) = "literal" /\ b = a + 1
           \/ Tok(ts, a) = "identifier" /\ b = a + 1 /\ Tok(ts, b) # "lbrace"
           \/ /\ Tok(ts, a) = "identifier" /\ Tok(ts, a + 1) = "lbrace"
              /\ a + 2 \in PlacesIn(ts) /\ Awaits(ts, a + 2, Script["struct"], b)
<1>1. a <= b /\ IsValue(Cut(ts, a, b)) /\ Tok(ts, b) # "lbrace"
  BY DEF Takes, TokenType
<1>2. \/ Cut(ts, a, b) = <<"literal">> \/ Cut(ts, a, b) = <<"identifier">>
      \/ \E p \in Text : IsList(p) /\ Cut(ts, a, b) = Joined(Joined(<<"identifier", "lbrace">>, p), <<"rbrace">>)
  BY <1>1, ValueShapes
<1>3. CASE Cut(ts, a, b) = <<"literal">>
  BY <1>1, <1>3, PieceIs
<1>4. CASE Cut(ts, a, b) = <<"identifier">>
  BY <1>1, <1>4, PieceIs
<1>5. ASSUME NEW p \in Text, IsList(p), Cut(ts, a, b) = Joined(Joined(<<"identifier", "lbrace">>, p), <<"rbrace">>)
      PROVE  /\ Tok(ts, a) = "identifier" /\ Tok(ts, a + 1) = "lbrace"
             /\ a + 2 \in PlacesIn(ts) /\ Awaits(ts, a + 2, Script["struct"], b)
  <2>1. Joined(<<"identifier", "lbrace">>, p) \in Text
    BY KnownTexts, JoinText
  <2>2. PICK d \in PlacesIn(ts) : /\ a <= d /\ d <= b /\ Cut(ts, a, d) = Joined(<<"identifier", "lbrace">>, p)
                                /\ Cut(ts, d, b) = <<"rbrace">>
    BY <1>1, <1>5, <2>1, KnownTexts, PieceBegins
  <2>3. PICK c \in PlacesIn(ts) : a <= c /\ c <= d /\ Cut(ts, a, c) = <<"identifier", "lbrace">> /\ Cut(ts, c, d) = p
    BY <2>2, KnownTexts, PieceBegins
  <2>4. c = a + 2 /\ Tok(ts, a) = "identifier" /\ Tok(ts, a + 1) = "lbrace"
    BY <2>3, PieceIs
  <2>5. b = d + 1 /\ Tok(ts, d) = "rbrace"
    BY <2>2, PieceIs
  <2>6. Takes(ts, c, "PROPERTIES", d)
    BY <1>5, <2>3, <2>5 DEF Takes
  <2>7. Takes(ts, d, "rbrace", b) /\ "rbrace" \in CallSteps
    BY <2>5 DEF Takes, TokenType, CallSteps
  <2>8. Awaits(ts, d, <<"rbrace">>, b) /\ <<"rbrace">> \in Seq(CallSteps)
    BY <2>7, AwaitsOne
  <2>9. Awaits(ts, c, Script["struct"], b)
    BY <2>6, <2>8, ScriptsAre, AwaitsMore
  <2> QED
    BY <2>4, <2>9
<1> QED
  BY <1>2, <1>3, <1>4, <1>5

\* The last name, or a name and a comma.
LEMMA NamesTake ==
    ASSUME NEW ts \in Text, NEW a \in PlacesIn(ts), NEW b \in PlacesIn(ts), Takes(ts, a, "NAMES", b)
    PROVE  /\ Tok(ts, a) = "identifier" /\ a + 1 \in PlacesIn(ts)
           /\ \/ b = a + 1 /\ Tok(ts, a + 1) = "semicolon"
              \/ Tok(ts, a + 1) = "comma" /\ a + 2 \in PlacesIn(ts) /\ Takes(ts, a + 2, "NAMES", b)
<1>1. NamesFrom(ts, a, b) /\ Tok(ts, b) = "semicolon"
  BY DEF Takes, TokenType
<1>2. PICK k \in Nat : /\ b = a + 2 * k + 1
                       /\ \A i \in 0..k : Tok(ts, a + 2 * i) = "identifier"
                       /\ \A i \in 0..k - 1 : Tok(ts, a + 2 * i + 1) = "comma"
  BY <1>1 DEF NamesFrom
<1>3. a \in Nat /\ b \in Nat
  BY PlaceFacts
<1>4. Tok(ts, a) = "identifier"
  <2>1. 0 \in 0..k /\ a + 2 * 0 = a
    BY <1>3
  <2>2. Tok(ts, a + 2 * 0) = "identifier"
    BY <1>2, <2>1
  <2> QED
    BY <2>1, <2>2
<1>5. a + 1 \in PlacesIn(ts)
  BY <1>4, PlaceFacts
<1>6. CASE k = 0
  <2>1. b = a + 1
    BY <1>2, <1>3, <1>6
  <2> QED
    BY <1>1, <1>4, <1>5, <2>1
<1>7. CASE k # 0
  <2>1. Tok(ts, a + 1) = "comma"
    <3>1. 0 \in 0..k - 1 /\ a + 2 * 0 + 1 = a + 1
      BY <1>3, <1>7
    <3>2. Tok(ts, a + 2 * 0 + 1) = "comma"
      BY <1>2, <3>1
    <3> QED
      BY <3>1, <3>2
  <2>2. a + 2 \in PlacesIn(ts)
    <3>1. (a + 1) + 1 \in PlacesIn(ts) /\ (a + 1) + 1 = a + 2
      BY <1>3, <1>5, <2>1, PlaceFacts
    <3> QED
      BY <3>1
  <2>3. PICK j \in Nat : k = j + 1
    <3>1. k - 1 \in Nat /\ k = (k - 1) + 1
      BY <1>7
    <3> QED
      BY <3>1
  <2>4. b = (a + 2) + 2 * j + 1
    BY <1>2, <1>3, <2>3
  <2>5. ASSUME NEW i \in 0..j PROVE Tok(ts, (a + 2) + 2 * i) = "identifier"
    <3>1. i + 1 \in 0..k /\ a + 2 * (i + 1) = (a + 2) + 2 * i
      BY <1>3, <2>3
    <3>2. Tok(ts, a + 2 * (i + 1)) = "identifier"
      BY <1>2, <3>1
    <3> QED
      BY <3>1, <3>2
  <2>6. ASSUME NEW i \in 0..j - 1 PROVE Tok(ts, (a + 2) + 2 * i + 1) = "comma"
    <3>1. i + 1 \in 0..k - 1 /\ a + 2 * (i + 1) + 1 = (a + 2) + 2 * i + 1
      BY <1>3, <2>3
    <3>2. Tok(ts, a + 2 * (i + 1) + 1) = "comma"
      BY <1>2, <3>1
    <3> QED
      BY <3>1, <3>2
  <2>7. NamesFrom(ts, a + 2, b)
    BY <2>3, <2>4, <2>5, <2>6 DEF NamesFrom
  <2>8. Takes(ts, a + 2, "NAMES", b)
    BY <1>1, <2>7 DEF Takes
  <2> QED
    BY <1>4, <1>5, <2>1, <2>2, <2>8
<1> QED
  BY <1>6, <1>7

\* A piece of names and the semicolon behind it.
LEMMA NamesAhead ==
    ASSUME NEW ts \in Text, NEW a \in PlacesIn(ts), NEW b \in PlacesIn(ts), a <= b, IsNames(Cut(ts, a, b)),
           Tok(ts, b) = "semicolon"
    PROVE  Takes(ts, a, "NAMES", b)
<1>1. a \in 1..Len(ts) + 1 /\ b \in a..Len(ts) + 1 /\ a \in Nat /\ b \in Nat /\ Len(ts) \in Nat /\ b <= Len(ts) + 1
  BY PlaceFacts DEF PlacesIn
<1>2. PICK w : w = Cut(ts, a, b)
  OBVIOUS
<1>3. Len(w) = b - a /\ \A i \in 1..b - a : w[i] = ts[a + i - 1]
  BY <1>1, <1>2, CutFacts DEF Text
<1>4. PICK k \in Nat : /\ Len(w) = 2 * k + 1
                       /\ \A i \in 0..k : w[2 * i + 1] = "identifier"
                       /\ \A i \in 0..k - 1 : w[2 * i + 2] = "comma"
  BY <1>2 DEF IsNames
<1>5. b = a + 2 * k + 1 /\ b - a = 2 * k + 1
  BY <1>1, <1>3, <1>4
<1>6. ASSUME NEW i \in 0..k PROVE Tok(ts, a + 2 * i) = "identifier"
  <2>1. 2 * i + 1 \in 1..b - a /\ a + (2 * i + 1) - 1 = a + 2 * i /\ a + 2 * i <= Len(ts)
    BY <1>1, <1>5
  <2>2. ts[a + 2 * i] = "identifier"
    BY <1>3, <1>4, <2>1
  <2> QED
    BY <1>1, <2>1, <2>2 DEF Tok
<1>7. ASSUME NEW i \in 0..k - 1 PROVE Tok(ts, a + 2 * i + 1) = "comma"
  <2>1. 2 * i + 2 \in 1..b - a /\ a + (2 * i + 2) - 1 = a + 2 * i + 1 /\ a + 2 * i + 1 <= Len(ts)
    BY <1>1, <1>5
  <2>2. ts[a + 2 * i + 1] = "comma"
    BY <1>3, <1>4, <2>1
  <2> QED
    BY <1>1, <2>1, <2>2 DEF Tok
<1>8. NamesFrom(ts, a, b)
  BY <1>5, <1>6, <1>7 DEF NamesFrom
<1> QED
  BY <1>8 DEF Takes

\* A declaration: the token that tells which, and what its script takes.
LEMMA DeclarationTakes ==
    ASSUME NEW ts \in Text, NEW a \in PlacesIn(ts), NEW c \in PlacesIn(ts), a <= c, IsDeclaration(Cut(ts, a, c))
    PROVE  \E pair \in DeclarationPairs : Tok(ts, a) = pair[1] /\ Awaits(ts, a + 1, Script[pair[2]], c)
<1>1. /\ "semicolon" \in CallSteps /\ "VALUE" \in CallSteps /\ "NAMES" \in CallSteps /\ "equals" \in CallSteps /\ "identifier" \in CallSteps
      /\ "colon" \in CallSteps
      /\ {"semicolon", "equals", "identifier", "depends", "colon"} \subseteq TokenType
  BY DEF CallSteps, TokenType
<1>2. ASSUME NEW x \in Text, NEW y \in Text, Cut(ts, a, c) = Joined(Joined(x, y), <<"semicolon">>)
      PROVE  \E m \in PlacesIn(ts), b \in PlacesIn(ts) :
               /\ a <= m /\ m <= b /\ Cut(ts, a, m) = x /\ Cut(ts, m, b) = y
               /\ Tok(ts, b) = "semicolon" /\ Awaits(ts, b, <<"semicolon">>, c)
  <2>1. Joined(x, y) \in Text
    BY JoinText
  <2>2. PICK b \in PlacesIn(ts) : a <= b /\ b <= c /\ Cut(ts, a, b) = Joined(x, y) /\ Cut(ts, b, c) = <<"semicolon">>
    BY <1>2, <2>1, KnownTexts, PieceBegins
  <2>3. PICK m \in PlacesIn(ts) : a <= m /\ m <= b /\ Cut(ts, a, m) = x /\ Cut(ts, m, b) = y
    BY <2>2, PieceBegins
  <2>4. c = b + 1 /\ Tok(ts, b) = "semicolon"
    BY <2>2, PieceIs
  <2>5. Takes(ts, b, "semicolon", c)
    BY <1>1, <2>4 DEF Takes
  <2>6. Awaits(ts, b, <<"semicolon">>, c)
    BY <1>1, <2>5, AwaitsOne
  <2> QED
    BY <2>2, <2>3, <2>4, <2>6
<1>3. ASSUME NEW m \in PlacesIn(ts), NEW b, NEW step \in CallSteps, Takes(ts, m, step, b), Awaits(ts, b, <<"semicolon">>, c)
      PROVE  Awaits(ts, m, <<step>> \o <<"semicolon">>, c) /\ <<step>> \o <<"semicolon">> \in Seq(CallSteps)
  <2>1. PICK w, q : w = <<"semicolon">> /\ q = <<step>> \o w
    OBVIOUS
  <2>2. w \in Seq(CallSteps)
    BY <1>1, <2>1
  <2>3. q \in Seq(CallSteps)
    BY <2>1, <2>2
  <2>4. Awaits(ts, b, w, c)
    BY <1>3, <2>1
  <2>5. Awaits(ts, m, q, c)
    BY <1>3, <2>1, <2>2, <2>4, AwaitsMore
  <2> QED
    BY <2>1, <2>3, <2>5
<1>4. ASSUME NEW v \in Text, IsValue(v),
             Cut(ts, a, c) = Joined(Joined(<<"task", "identifier", "equals">>, v), <<"semicolon">>)
      PROVE  Tok(ts, a) = "task" /\ Awaits(ts, a + 1, Script["task"], c)
  <2>1. PICK m \in PlacesIn(ts), b \in PlacesIn(ts) :
          /\ a <= m /\ m <= b /\ Cut(ts, a, m) = <<"task", "identifier", "equals">> /\ Cut(ts, m, b) = v
          /\ Tok(ts, b) = "semicolon" /\ Awaits(ts, b, <<"semicolon">>, c)
    BY <1>2, <1>4, KnownTexts
  <2>2. m = a + 3 /\ Tok(ts, a) = "task" /\ Tok(ts, a + 1) = "identifier" /\ Tok(ts, a + 2) = "equals"
    BY <2>1, PieceIs
  <2>3. a + 1 \in PlacesIn(ts) /\ a + 2 \in PlacesIn(ts) /\ (a + 1) + 1 = a + 2 /\ (a + 2) + 1 = m
    <3>1. a \in Nat /\ a + 1 \in PlacesIn(ts)
      BY <2>2, PlaceFacts
    <3>2. (a + 1) + 1 \in PlacesIn(ts) /\ (a + 1) + 1 = a + 2 /\ (a + 2) + 1 = m
      BY <2>2, <3>1, PlaceFacts
    <3> QED
      BY <3>1, <3>2
  <2>4. Takes(ts, m, "VALUE", b)
    BY <1>4, <2>1 DEF Takes
  <2>5. Awaits(ts, m, <<"VALUE">> \o <<"semicolon">>, c) /\ <<"VALUE">> \o <<"semicolon">> \in Seq(CallSteps)
    BY <1>1, <1>3, <2>1, <2>4
  <2>6. Takes(ts, a + 2, "equals", m) /\ Takes(ts, a + 1, "identifier", a + 2)
    BY <1>1, <2>2, <2>3 DEF Takes
  <2>7. PICK r, s : r = <<"VALUE">> \o <<"semicolon">> /\ s = <<"equals">> \o r
    OBVIOUS
  <2>8. Awaits(ts, a + 2, s, c)
    BY <2>3, <2>5, <2>6, <2>7, AwaitsMore
  <2>9. s \in Seq(CallSteps)
    BY <1>1, <2>5, <2>7
  <2>10. Awaits(ts, a + 1, <<"identifier">> \o s, c)
    BY <2>3, <2>6, <2>8, <2>9, AwaitsMore
  <2> QED
    BY <2>2, <2>7, <2>10, ScriptsAre
<1>5. ASSUME NEW n \in Text, IsNames(n),
             Cut(ts, a, c) = Joined(Joined(<<"identifier", "depends">>, n), <<"semicolon">>)
      PROVE  Tok(ts, a) = "identifier" /\ Awaits(ts, a + 1, Script["dependency"], c)
  <2>1. PICK m \in PlacesIn(ts), b \in PlacesIn(ts) :
          /\ a <= m /\ m <= b /\ Cut(ts, a, m) = <<"identifier", "depends">> /\ Cut(ts, m, b) = n
          /\ Tok(ts, b) = "semicolon" /\ Awaits(ts, b, <<"semicolon">>, c)
    BY <1>2, <1>5, KnownTexts
  <2>2. m = a + 2 /\ Tok(ts, a) = "identifier" /\ Tok(ts, a + 1) = "depends"
    BY <2>1, PieceIs
  <2>3. a + 1 \in PlacesIn(ts) /\ (a + 1) + 1 = m
    BY <2>2, PlaceFacts
  <2>4. Takes(ts, m, "NAMES", b)
    BY <1>5, <2>1, NamesAhead
  <2>5. Awaits(ts, m, <<"NAMES">> \o <<"semicolon">>, c) /\ <<"NAMES">> \o <<"semicolon">> \in Seq(CallSteps)
    BY <1>1, <1>3, <2>1, <2>4
  <2>6. Takes(ts, a + 1, "depends", m)
    BY <1>1, <2>2, <2>3 DEF Takes
  <2>7. PICK r : r = <<"NAMES">> \o <<"semicolon">>
    OBVIOUS
  <2>8. Awaits(ts, a + 1, <<"depends">> \o r, c)
    BY <2>3, <2>5, <2>6, <2>7, AwaitsMore
  <2> QED
    BY <2>2, <2>7, <2>8, ScriptsAre
<1>6. ASSUME NEW n \in Text, IsNames(n),
             Cut(ts, a, c) = Joined(Joined(<<"run_level", "identifier", "colon">>, n), <<"semicolon">>)
      PROVE  Tok(ts, a) = "run_level" /\ Awaits(ts, a + 1, Script["run_level"], c)
  <2>1. PICK m \in PlacesIn(ts), b \in PlacesIn(ts) :
          /\ a <= m /\ m <= b /\ Cut(ts, a, m) = <<"run_level", "identifier", "colon">> /\ Cut(ts, m, b) = n
          /\ Tok(ts, b) = "semicolon" /\ Awaits(ts, b, <<"semicolon">>, c)
    BY <1>2, <1>6, KnownTexts
  <2>2. m = a + 3 /\ Tok(ts, a) = "run_level" /\ Tok(ts, a + 1) = "identifier" /\ Tok(ts, a + 2) = "colon"
    BY <2>1, PieceIs
  <2>3. a + 1 \in PlacesIn(ts) /\ a + 2 \in PlacesIn(ts) /\ (a + 1) + 1 = a + 2 /\ (a + 2) + 1 = m
    <3>1. a \in Nat /\ a + 1 \in PlacesIn(ts)
      BY <2>2, PlaceFacts
    <3>2. (a + 1) + 1 \in PlacesIn(ts) /\ (a + 1) + 1 = a + 2 /\ (a + 2) + 1 = m
      BY <2>2, <3>1, PlaceFacts
    <3> QED
      BY <3>1, <3>2
  <2>4. Takes(ts, m, "NAMES", b)
    BY <1>6, <2>1, NamesAhead
  <2>5. Awaits(ts, m, <<"NAMES">> \o <<"semicolon">>, c) /\ <<"NAMES">> \o <<"semicolon">> \in Seq(CallSteps)
    BY <1>1, <1>3, <2>1, <2>4
  <2>6. Takes(ts, a + 2, "colon", m) /\ Takes(ts, a + 1, "identifier", a + 2)
    BY <1>1, <2>2, <2>3 DEF Takes
  <2>7. PICK r, s : r = <<"NAMES">> \o <<"semicolon">> /\ s = <<"colon">> \o r
    OBVIOUS
  <2>8. Awaits(ts, a + 2, s, c)
    BY <2>3, <2>5, <2>6, <2>7, AwaitsMore
  <2>9. s \in Seq(CallSteps)
    BY <1>1, <2>5, <2>7
  <2>10. Awaits(ts, a + 1, <<"identifier">> \o s, c)
    BY <2>3, <2>6, <2>8, <2>9, AwaitsMore
  <2> QED
    BY <2>2, <2>7, <2>10, ScriptsAre
<1>7. \/ Tok(ts, a) = "task" /\ Awaits(ts, a + 1, Script["task"], c)
      \/ Tok(ts, a) = "identifier" /\ Awaits(ts, a + 1, Script["dependency"], c)
      \/ Tok(ts, a) = "run_level" /\ Awaits(ts, a + 1, Script["run_level"], c)
  BY <1>4, <1>5, <1>6, DeclarationShapes
<1> QED
  BY <1>7 DEF DeclarationPairs

\* Between declarations the file ends or the next one begins.
LEMMA FileTakes ==
    ASSUME NEW ts \in Text, NEW a \in PlacesIn(ts), Coming(ts, a, <<>>)
    PROVE  \/ Tok(ts, a) = "eof"
           \/ \E c \in PlacesIn(ts) :
                /\ Coming(ts, c, <<>>)
                /\ \E pair \in DeclarationPairs : Tok(ts, a) = pair[1] /\ Awaits(ts, a + 1, Script[pair[2]], c)
<1>1. PICK e : e = Len(ts) + 1
  OBVIOUS
<1>2. e \in PlacesIn(ts) /\ a <= e /\ IsFile(Cut(ts, a, e))
  <2>1. IsFile(Cut(ts, a, e))
    BY <1>1, ComingEmpty
  <2>2. Len(ts) \in Nat /\ a <= e
    BY <1>1, PlaceFacts
  <2> QED
    BY <1>1, <2>1, <2>2 DEF PlacesIn
<1>3. CASE Cut(ts, a, e) = <<>>
  <2>1. e = a
    BY <1>2, <1>3, PieceIs
  <2>2. a > Len(ts)
    BY <1>1, <2>1, PlaceFacts
  <2> QED
    BY <2>2 DEF Tok
<1>4. ASSUME NEW x \in Text, NEW y \in Text, IsDeclaration(x), IsFile(y), Cut(ts, a, e) = Joined(x, y)
      PROVE  \E c \in PlacesIn(ts) :
               /\ Coming(ts, c, <<>>)
               /\ \E pair \in DeclarationPairs : Tok(ts, a) = pair[1] /\ Awaits(ts, a + 1, Script[pair[2]], c)
  <2>1. PICK c \in PlacesIn(ts) : a <= c /\ c <= e /\ Cut(ts, a, c) = x /\ Cut(ts, c, e) = y
    BY <1>2, <1>4, PieceBegins
  <2>2. Coming(ts, c, <<>>)
    BY <1>1, <1>4, <2>1, ComingEmpty
  <2>3. \E pair \in DeclarationPairs : Tok(ts, a) = pair[1] /\ Awaits(ts, a + 1, Script[pair[2]], c)
    BY <1>4, <2>1, DeclarationTakes
  <2> QED
    BY <2>2, <2>3
<1> QED
  BY <1>2, <1>3, <1>4, FileShapes

-----------------------------------------------------------------------------
(* CallSteps of the parser in front of what is in the grammar *)

\* What the grammar has the rest of the file be is in front of the cursor.
Ahead ==
    /\ fileTokens \in Text /\ CursorOK(cursor) /\ cursor.pos \in PlacesIn(fileTokens)
    /\ Coming(fileTokens, cursor.pos, stack)

\* No error is added, and the same holds of the tokens behind.
Passes ==
    /\ cursor'.errors = cursor.errors
    /\ cursor'.pos \in PlacesIn(fileTokens) /\ cursor.pos <= cursor'.pos
    /\ Coming(fileTokens, cursor'.pos, stack')

\* The updates that the steps of a call make leave a call, with the steps they say.
LEMMA CallUpdates ==
    ASSUME NEW f, IsCall(f)
    PROVE  /\ \A nodes : /\ IsCall([f EXCEPT !.children = @ \o nodes])
                         /\ [f EXCEPT !.children = @ \o nodes].rest = f.rest
           /\ f.rest # <<>> =>
                \A nodes : /\ IsCall([f EXCEPT !.rest = Tail(@), !.children = @ \o nodes])
                           /\ [f EXCEPT !.rest = Tail(@), !.children = @ \o nodes].rest = Tail(f.rest)
           /\ IsCall([f EXCEPT !.rest = <<"COMMA">> \o @])
           /\ [f EXCEPT !.rest = <<"COMMA">> \o @].rest = <<"COMMA">> \o f.rest
           /\ \A x : IsCall([f EXCEPT !.missing = x]) /\ [f EXCEPT !.missing = x].rest = f.rest
<1>1. PICK fn, rest, missing, ch : f = [fn |-> fn, rest |-> rest, missing |-> missing, children |-> ch]
  BY DEF IsCall
<1>2. f.rest = rest /\ rest \in Seq(CallSteps)
  BY <1>1 DEF IsCall
<1>3. ASSUME NEW r \in Seq(CallSteps), NEW m, NEW c, NEW g, g = [fn |-> fn, rest |-> r, missing |-> m, children |-> c]
      PROVE  IsCall(g) /\ g.rest = r
  BY <1>3 DEF IsCall
<1>4. ASSUME NEW y PROVE IsCall([f EXCEPT !.children = y]) /\ [f EXCEPT !.children = y].rest = f.rest
  <2>1. [f EXCEPT !.children = y] = [fn |-> fn, rest |-> rest, missing |-> missing, children |-> y]
    BY <1>1
  <2> QED
    BY <1>2, <1>3, <2>1
<1>5. ASSUME NEW r \in Seq(CallSteps), NEW y
      PROVE  IsCall([f EXCEPT !.rest = r, !.children = y]) /\ [f EXCEPT !.rest = r, !.children = y].rest = r
  <2>1. [f EXCEPT !.rest = r, !.children = y] = [fn |-> fn, rest |-> r, missing |-> missing, children |-> y]
    <3>1. [f EXCEPT !.rest = r, !.children = y] = [[f EXCEPT !.rest = r] EXCEPT !.children = y]
      OBVIOUS
    <3>2. PICK h : h = [f EXCEPT !.rest = r]
      OBVIOUS
    <3>3. h = [fn |-> fn, rest |-> r, missing |-> missing, children |-> ch]
      BY <1>1, <3>2
    <3>4. [h EXCEPT !.children = y] = [fn |-> fn, rest |-> r, missing |-> missing, children |-> y]
      BY <3>3
    <3> QED
      BY <3>1, <3>2, <3>4
  <2> QED
    BY <1>3, <2>1
<1>6. ASSUME NEW r \in Seq(CallSteps)
      PROVE  IsCall([f EXCEPT !.rest = r]) /\ [f EXCEPT !.rest = r].rest = r
  <2>1. [f EXCEPT !.rest = r] = [fn |-> fn, rest |-> r, missing |-> missing, children |-> ch]
    BY <1>1
  <2> QED
    BY <1>3, <2>1
<1>7. ASSUME NEW x PROVE IsCall([f EXCEPT !.missing = x]) /\ [f EXCEPT !.missing = x].rest = f.rest
  <2>1. [f EXCEPT !.missing = x] = [fn |-> fn, rest |-> rest, missing |-> x, children |-> ch]
    BY <1>1
  <2> QED
    BY <1>2, <1>3, <2>1
<1>8. f.rest # <<>> => Tail(f.rest) \in Seq(CallSteps)
  BY <1>2, HeadTailProperties
<1>9. <<"COMMA">> \o f.rest \in Seq(CallSteps)
  <2>1. <<"COMMA">> \in Seq(CallSteps)
    BY DEF CallSteps
  <2> QED
    BY <1>2, <2>1
<1>10. ASSUME NEW nodes
       PROVE  /\ IsCall([f EXCEPT !.children = @ \o nodes])
              /\ [f EXCEPT !.children = @ \o nodes].rest = f.rest
  <2>1. PICK y : y = f.children \o nodes
    OBVIOUS
  <2> QED
    BY <1>4, <2>1
<1>11. ASSUME NEW nodes, f.rest # <<>>
       PROVE  /\ IsCall([f EXCEPT !.rest = Tail(@), !.children = @ \o nodes])
              /\ [f EXCEPT !.rest = Tail(@), !.children = @ \o nodes].rest = Tail(f.rest)
  <2>1. PICK y, r : y = f.children \o nodes /\ r = Tail(f.rest)
    OBVIOUS
  <2>2. r \in Seq(CallSteps)
    BY <1>8, <1>11, <2>1
  <2> QED
    BY <1>5, <2>1, <2>2
<1>12. IsCall([f EXCEPT !.rest = <<"COMMA">> \o @]) /\ [f EXCEPT !.rest = <<"COMMA">> \o @].rest = <<"COMMA">> \o f.rest
  <2>1. PICK r : r = <<"COMMA">> \o f.rest
    OBVIOUS
  <2> QED
    BY <1>6, <1>9, <2>1
<1> QED
  BY <1>7, <1>10, <1>11, <1>12

\* The next step of the last call, and what is left of the call then.
LEMMA TopTakes ==
    ASSUME Ahead, NEW step, Doing(step)
    PROVE  /\ fileTokens \in Text /\ cursor.pos \in PlacesIn(fileTokens) /\ stack # <<>>
           /\ IsCall(Top) /\ Top.rest \in Seq(CallSteps) /\ Top.rest # <<>> /\ Tail(Top.rest) \in Seq(CallSteps)
           /\ <<step>> \o Tail(Top.rest) = Top.rest
           /\ \E e \in PlacesIn(fileTokens), b \in PlacesIn(fileTokens) :
                /\ Coming(fileTokens, e, Front(stack))
                /\ Takes(fileTokens, cursor.pos, step, b) /\ Awaits(fileTokens, b, Tail(Top.rest), e)
<1>1. fileTokens \in Text /\ cursor.pos \in PlacesIn(fileTokens) /\ Coming(fileTokens, cursor.pos, stack)
  BY DEF Ahead
<1>2. stack # <<>> /\ Top.rest # <<>> /\ Head(Top.rest) = step /\ Top = Last(stack)
  BY DEF Doing, Top
<1>3. PICK e \in PlacesIn(fileTokens) : Coming(fileTokens, e, Front(stack)) /\ Awaits(fileTokens, cursor.pos, Last(stack).rest, e)
  BY <1>1, <1>2, ComingTop
<1>4. IsCall(Top)
  BY <1>1, <1>2, ComingTop
<1>5. PICK r : r = Top.rest
  OBVIOUS
<1>6. r \in Seq(CallSteps) /\ r # <<>> /\ Head(r) = step /\ Awaits(fileTokens, cursor.pos, r, e)
  BY <1>2, <1>3, <1>4, <1>5 DEF IsCall
<1>7. Tail(r) \in Seq(CallSteps) /\ <<Head(r)>> \o Tail(r) = r
  BY <1>6, HeadTailProperties
<1>8. \E b \in PlacesIn(fileTokens) : Takes(fileTokens, cursor.pos, Head(r), b) /\ Awaits(fileTokens, b, Tail(r), e)
  BY <1>1, <1>6, AwaitsStep
<1> QED
  BY <1>1, <1>2, <1>3, <1>4, <1>5, <1>6, <1>7, <1>8

\* The last call goes on behind its step.
LEMMA DoneComing ==
    ASSUME Ahead, NEW step, Doing(step), NEW g, IsCall(g), g.rest = Tail(Top.rest), NEW e, NEW b \in PlacesIn(fileTokens),
           Coming(fileTokens, e, Front(stack)), Awaits(fileTokens, b, Tail(Top.rest), e)
    PROVE  Coming(fileTokens, b, Replace(g))
<1>1. fileTokens \in Text /\ Awaits(fileTokens, b, g.rest, e)
  BY DEF Ahead
<1>2. Coming(fileTokens, b, Append(Front(stack), g))
  BY <1>1, ComingMore
<1> QED
  BY <1>2 DEF Replace

\* lex looks at the token at the cursor, and next moves behind it without a report.
LEMMA CursorAhead ==
    ASSUME Ahead
    PROVE  /\ TT(cursor) = Tok(fileTokens, cursor.pos) /\ Advance(cursor).errors = cursor.errors
           /\ cursor.pos <= cursor.pos /\ cursor.pos \in Nat
           /\ TT(cursor) # "eof" =>
                /\ Advance(cursor).pos = cursor.pos + 1 /\ cursor.pos + 1 \in PlacesIn(fileTokens)
                /\ cursor.pos <= cursor.pos + 1
                /\ TT(Advance(cursor)) = Tok(fileTokens, cursor.pos + 1)
                /\ Advance(Advance(cursor)).errors = cursor.errors
                /\ TT(Advance(cursor)) # "eof" =>
                     /\ Advance(Advance(cursor)).pos = cursor.pos + 2 /\ cursor.pos + 2 \in PlacesIn(fileTokens)
                     /\ cursor.pos <= cursor.pos + 2
<1>1. fileTokens \in Text /\ CursorOK(cursor) /\ cursor.pos \in PlacesIn(fileTokens)
  BY DEF Ahead
<1>2. PICK c, d, p : c = Advance(cursor) /\ d = Advance(c) /\ p = cursor.pos
  OBVIOUS
<1>3. CursorOK(c) /\ p \in Nat /\ p <= p /\ p <= p + 1 /\ p <= p + 2
  BY <1>1, <1>2, AdvanceOK, PlaceFacts
<1>4. TT(cursor) = Tok(fileTokens, p) /\ c.errors = cursor.errors /\ (TT(cursor) # "eof" => c.pos = p + 1)
  BY <1>1, <1>2, CursorFacts
<1>5. TT(c) = Tok(fileTokens, c.pos) /\ d.errors = c.errors /\ (TT(c) # "eof" => d.pos = c.pos + 1)
  BY <1>2, <1>3, CursorFacts
<1>6. ASSUME NEW q \in PlacesIn(fileTokens), Tok(fileTokens, q) # "eof" PROVE q + 1 \in PlacesIn(fileTokens)
  BY <1>1, <1>6, PlaceFacts
<1>7. TT(cursor) # "eof" => p + 1 \in PlacesIn(fileTokens) /\ TT(c) = Tok(fileTokens, p + 1)
  BY <1>1, <1>2, <1>4, <1>5, <1>6
<1>8. TT(cursor) # "eof" /\ TT(c) # "eof" => d.pos = p + 2 /\ p + 2 \in PlacesIn(fileTokens)
  <2> SUFFICES ASSUME TT(cursor) # "eof", TT(c) # "eof"
               PROVE  d.pos = p + 2 /\ p + 2 \in PlacesIn(fileTokens)
    OBVIOUS
  <2>1. Tok(fileTokens, p + 1) # "eof" /\ p + 1 \in PlacesIn(fileTokens)
    BY <1>7
  <2>2. (p + 1) + 1 \in PlacesIn(fileTokens) /\ (p + 1) + 1 = p + 2
    BY <1>3, <1>6, <2>1
  <2> QED
    BY <1>4, <1>5, <2>2
<1> QED
  BY <1>2, <1>3, <1>4, <1>5, <1>7, <1>8

\* A declaration begins.
LEMMA DeclarationPasses ==
    ASSUME Ahead, NEW token, NEW fn, <<token, fn>> \in DeclarationPairs, Declaration(token, fn)
    PROVE  Passes
<1>1. stack = <<>> /\ TT(cursor) = token /\ cursor' = Advance(cursor) /\ stack' = <<Call(fn)>>
  BY DEF Declaration
<1>2. TT(cursor) # "eof" /\ fn \in Function
  BY <1>1 DEF DeclarationPairs, Function
<1>3. fileTokens \in Text /\ cursor.pos \in PlacesIn(fileTokens) /\ Coming(fileTokens, cursor.pos, <<>>)
  BY <1>1 DEF Ahead
<1>4. /\ TT(cursor) = Tok(fileTokens, cursor.pos) /\ cursor'.errors = cursor.errors /\ cursor'.pos = cursor.pos + 1
      /\ cursor.pos + 1 \in PlacesIn(fileTokens) /\ cursor.pos <= cursor.pos + 1
  BY <1>1, <1>2, CursorAhead
<1>5. PICK c \in PlacesIn(fileTokens) :
        /\ Coming(fileTokens, c, <<>>)
        /\ \E pair \in DeclarationPairs :
             Tok(fileTokens, cursor.pos) = pair[1] /\ Awaits(fileTokens, cursor.pos + 1, Script[pair[2]], c)
  BY <1>1, <1>2, <1>3, <1>4, FileTakes
<1>6. Awaits(fileTokens, cursor.pos + 1, Script[fn], c)
  BY <1>1, <1>4, <1>5 DEF DeclarationPairs
<1>7. IsCall(Call(fn)) /\ Call(fn).rest = Script[fn]
  BY <1>2, CallIs
<1>8. Coming(fileTokens, cursor.pos + 1, Append(<<>>, Call(fn)))
  BY <1>3, <1>4, <1>5, <1>6, <1>7, ComingMore
<1>9. Append(<<>>, Call(fn)) = <<Call(fn)>>
  OBVIOUS
<1> QED
  BY <1>1, <1>4, <1>8, <1>9 DEF Passes

\* There is no other token between declarations.
LEMMA NoOtherToken ==
    ASSUME Ahead, ExpectedDeclaration
    PROVE  FALSE
<1>1. stack = <<>> /\ TT(cursor) \notin {"eof", "task", "identifier", "run_level"}
  BY DEF ExpectedDeclaration
<1>2. fileTokens \in Text /\ cursor.pos \in PlacesIn(fileTokens) /\ Coming(fileTokens, cursor.pos, <<>>)
  BY <1>1 DEF Ahead
<1>3. TT(cursor) = Tok(fileTokens, cursor.pos)
  BY CursorAhead
<1>4. \/ Tok(fileTokens, cursor.pos) = "eof"
      \/ \E c \in PlacesIn(fileTokens) :
           /\ Coming(fileTokens, c, <<>>)
           /\ \E pair \in DeclarationPairs :
                Tok(fileTokens, cursor.pos) = pair[1] /\ Awaits(fileTokens, cursor.pos + 1, Script[pair[2]], c)
  BY <1>2, FileTakes
<1> QED
  BY <1>1, <1>3, <1>4 DEF DeclarationPairs

\* The token that is expected is there.
LEMMA ExpectTokenPasses ==
    ASSUME Ahead, NEW type \in TokenType, ExpectToken(type)
    PROVE  Passes
<1>1. Doing(type) /\ cursor' = Expect(cursor, type)
      /\ stack' = Replace([Done(<<>>) EXCEPT !.missing = IF TT(cursor) = type THEN @ ELSE @ \cup {type}])
  BY DEF ExpectToken
<1>2. /\ fileTokens \in Text /\ cursor.pos \in PlacesIn(fileTokens) /\ IsCall(Top) /\ Top.rest # <<>>
      /\ \E e \in PlacesIn(fileTokens), b \in PlacesIn(fileTokens) :
           /\ Coming(fileTokens, e, Front(stack))
           /\ Takes(fileTokens, cursor.pos, type, b) /\ Awaits(fileTokens, b, Tail(Top.rest), e)
  BY <1>1, TopTakes
<1>3. PICK e \in PlacesIn(fileTokens), b \in PlacesIn(fileTokens) :
        /\ Coming(fileTokens, e, Front(stack))
        /\ Takes(fileTokens, cursor.pos, type, b) /\ Awaits(fileTokens, b, Tail(Top.rest), e)
  BY <1>2
<1>4. Tok(fileTokens, cursor.pos) = type /\ b = cursor.pos + 1
  BY <1>3 DEF Takes, TokenType
<1>5. TT(cursor) = type /\ TT(cursor) # "eof"
  BY <1>4, CursorAhead DEF TokenType
<1>6. cursor' = Advance(cursor)
  BY <1>1, <1>5 DEF Expect
<1>7. cursor'.errors = cursor.errors /\ cursor'.pos = b /\ cursor.pos <= b
  BY <1>4, <1>5, <1>6, CursorAhead
<1>8. PICK d : d = Done(<<>>)
  OBVIOUS
<1>9. IsCall(d) /\ d.rest = Tail(Top.rest)
  BY <1>2, <1>8, CallUpdates DEF Done
<1>10. PICK x : x = IF TT(cursor) = type THEN d.missing ELSE d.missing \cup {type}
  OBVIOUS
<1>11. PICK g : g = [d EXCEPT !.missing = x]
  OBVIOUS
<1>12. IsCall(g) /\ g.rest = Tail(Top.rest)
  BY <1>9, <1>11, CallUpdates
<1>13. Coming(fileTokens, b, Replace(g))
  BY <1>1, <1>3, <1>12, DoneComing
<1>14. stack' = Replace(g)
  BY <1>1, <1>8, <1>10, <1>11
<1> QED
  BY <1>3, <1>7, <1>13, <1>14 DEF Passes

\* The value that is expected is there.
LEMMA ParseValuePasses ==
    ASSUME Ahead, ParseValue
    PROVE  Passes
<1>1. Doing("VALUE")
  BY DEF ParseValue
<1>2. /\ fileTokens \in Text /\ cursor.pos \in PlacesIn(fileTokens) /\ IsCall(Top) /\ Top.rest # <<>>
      /\ \E e \in PlacesIn(fileTokens), b \in PlacesIn(fileTokens) :
           /\ Coming(fileTokens, e, Front(stack))
           /\ Takes(fileTokens, cursor.pos, "VALUE", b) /\ Awaits(fileTokens, b, Tail(Top.rest), e)
  BY <1>1, TopTakes
<1>3. PICK e \in PlacesIn(fileTokens), b \in PlacesIn(fileTokens) :
        /\ Coming(fileTokens, e, Front(stack))
        /\ Takes(fileTokens, cursor.pos, "VALUE", b) /\ Awaits(fileTokens, b, Tail(Top.rest), e)
  BY <1>2
<1>4. ASSUME NEW nodes PROVE Coming(fileTokens, b, Replace(Done(nodes)))
  <2>1. PICK g : g = Done(nodes)
    OBVIOUS
  <2>2. IsCall(g) /\ g.rest = Tail(Top.rest)
    BY <1>2, <2>1, CallUpdates DEF Done
  <2>3. Coming(fileTokens, b, Replace(g))
    BY <1>1, <1>3, <2>2, DoneComing
  <2> QED
    BY <2>1, <2>3
<1>5. TT(cursor) = Tok(fileTokens, cursor.pos)
  BY CursorAhead
<1>6. \/ TT(cursor) = "literal" /\ b = cursor.pos + 1
      \/ TT(cursor) = "identifier" /\ b = cursor.pos + 1 /\ Tok(fileTokens, b) # "lbrace"
      \/ /\ TT(cursor) = "identifier" /\ Tok(fileTokens, cursor.pos + 1) = "lbrace"
         /\ cursor.pos + 2 \in PlacesIn(fileTokens) /\ Awaits(fileTokens, cursor.pos + 2, Script["struct"], b)
  BY <1>2, <1>3, <1>5, ValueTakes
<1>7. TT(cursor) # "eof"
  BY <1>6
<1>8. /\ Advance(cursor).errors = cursor.errors /\ Advance(cursor).pos = cursor.pos + 1
      /\ cursor.pos <= cursor.pos + 1 /\ TT(Advance(cursor)) = Tok(fileTokens, cursor.pos + 1)
      /\ TT(Advance(cursor)) = "lbrace" =>
           /\ Advance(Advance(cursor)).errors = cursor.errors /\ Advance(Advance(cursor)).pos = cursor.pos + 2
           /\ cursor.pos <= cursor.pos + 2
  BY <1>7, CursorAhead
<1>9. CASE TT(cursor) = "literal"
  <2>1. cursor' = Advance(cursor) /\ stack' = Replace(Done(<<Leaf("literal")>>))
    BY <1>9 DEF ParseValue, NoValue
  <2>2. b = cursor.pos + 1
    BY <1>6, <1>9
  <2> QED
    BY <1>3, <1>4, <1>8, <2>1, <2>2 DEF Passes
<1>10. CASE TT(cursor) = "identifier" /\ TT(Advance(cursor)) # "lbrace"
  <2>1. cursor' = Advance(cursor) /\ stack' = Replace(Done(<<Leaf("pseudo_identifier")>>))
    BY <1>10 DEF ParseValue, NoValue
  <2>2. b = cursor.pos + 1
    BY <1>6, <1>8, <1>10
  <2> QED
    BY <1>3, <1>4, <1>8, <2>1, <2>2 DEF Passes
<1>11. CASE TT(cursor) = "identifier" /\ TT(Advance(cursor)) = "lbrace"
  <2>1. cursor' = Advance(Advance(cursor)) /\ stack' = Append(Replace(Done(<<>>)), Call("struct"))
    BY <1>11 DEF ParseValue, NoValue
  <2>2. cursor.pos + 2 \in PlacesIn(fileTokens) /\ Awaits(fileTokens, cursor.pos + 2, Script["struct"], b)
    <3>1. Tok(fileTokens, cursor.pos + 1) = "lbrace"
      BY <1>8, <1>11
    <3>2. ~(b = cursor.pos + 1 /\ Tok(fileTokens, b) # "lbrace")
      BY <3>1
    <3>3. TT(cursor) # "literal"
      BY <1>11
    <3> QED
      BY <1>6, <3>2, <3>3
  <2>3. IsCall(Call("struct")) /\ Call("struct").rest = Script["struct"]
    BY CallIs DEF Function
  <2>4. Coming(fileTokens, b, Replace(Done(<<>>)))
    BY <1>4
  <2>5. PICK base, h : base = Replace(Done(<<>>)) /\ h = Call("struct")
    OBVIOUS
  <2>6. Coming(fileTokens, cursor.pos + 2, Append(base, h))
    BY <1>2, <2>2, <2>3, <2>4, <2>5, ComingMore
  <2> QED
    BY <1>8, <1>11, <2>1, <2>2, <2>5, <2>6 DEF Passes
<1> QED
  BY <1>6, <1>9, <1>10, <1>11

\* A property is there, or the end of the struct.
LEMMA ParsePropertiesPasses ==
    ASSUME Ahead, ParseProperties
    PROVE  Passes
<1>1. Doing("PROPERTIES")
  BY DEF ParseProperties
<1>2. /\ fileTokens \in Text /\ cursor.pos \in PlacesIn(fileTokens) /\ IsCall(Top) /\ Top.rest # <<>> /\ Top.rest \in Seq(CallSteps)
      /\ Tail(Top.rest) \in Seq(CallSteps) /\ <<"PROPERTIES">> \o Tail(Top.rest) = Top.rest
      /\ \E e \in PlacesIn(fileTokens), b \in PlacesIn(fileTokens) :
           /\ Coming(fileTokens, e, Front(stack))
           /\ Takes(fileTokens, cursor.pos, "PROPERTIES", b) /\ Awaits(fileTokens, b, Tail(Top.rest), e)
  BY <1>1, TopTakes
<1>3. PICK e \in PlacesIn(fileTokens), b \in PlacesIn(fileTokens) :
        /\ Coming(fileTokens, e, Front(stack))
        /\ Takes(fileTokens, cursor.pos, "PROPERTIES", b) /\ Awaits(fileTokens, b, Tail(Top.rest), e)
  BY <1>2
<1>4. TT(cursor) = Tok(fileTokens, cursor.pos) /\ cursor.pos <= cursor.pos
  BY CursorAhead
<1>5. \/ TT(cursor) = "rbrace" /\ b = cursor.pos
      \/ /\ TT(cursor) = "identifier"
         /\ \E c \in PlacesIn(fileTokens), d \in PlacesIn(fileTokens) :
              /\ Awaits(fileTokens, cursor.pos + 1, Script["property"], c)
              /\ Takes(fileTokens, c, "COMMA", d) /\ Takes(fileTokens, d, "PROPERTIES", b)
  BY <1>2, <1>3, <1>4, PropertiesTake
<1>6. CASE TT(cursor) = "rbrace"
  <2>1. stack' = Replace(Done(<<>>)) /\ cursor' = cursor /\ b = cursor.pos
    BY <1>5, <1>6 DEF ParseProperties
  <2>2. PICK g : g = Done(<<>>)
    OBVIOUS
  <2>3. IsCall(g) /\ g.rest = Tail(Top.rest)
    BY <1>2, <2>2, CallUpdates DEF Done
  <2>4. Coming(fileTokens, b, Replace(g))
    BY <1>1, <1>3, <2>3, DoneComing
  <2> QED
    BY <1>2, <1>4, <2>1, <2>2, <2>4 DEF Passes
<1>7. CASE TT(cursor) = "identifier"
  <2>1. cursor' = Advance(cursor) /\ stack' = Append(Replace([Top EXCEPT !.rest = <<"COMMA">> \o @]), Call("property"))
    BY <1>7 DEF ParseProperties
  <2>2. /\ cursor'.errors = cursor.errors /\ cursor'.pos = cursor.pos + 1
        /\ cursor.pos + 1 \in PlacesIn(fileTokens) /\ cursor.pos <= cursor.pos + 1
    BY <1>7, <2>1, CursorAhead
  <2>3. PICK c \in PlacesIn(fileTokens), d \in PlacesIn(fileTokens) :
          /\ Awaits(fileTokens, cursor.pos + 1, Script["property"], c)
          /\ Takes(fileTokens, c, "COMMA", d) /\ Takes(fileTokens, d, "PROPERTIES", b)
    BY <1>5, <1>7
  <2>4. PICK rest, r : rest = Top.rest /\ r = Tail(Top.rest)
    OBVIOUS
  <2>5. rest \in Seq(CallSteps) /\ r \in Seq(CallSteps) /\ rest = <<"PROPERTIES">> \o r /\ Awaits(fileTokens, b, r, e)
    BY <1>2, <1>3, <2>4
  <2>6. Awaits(fileTokens, d, rest, e)
    BY <1>2, <2>3, <2>5, AwaitsMore
  <2>7. Awaits(fileTokens, c, <<"COMMA">> \o rest, e)
    BY <1>2, <2>3, <2>5, <2>6, AwaitsMore
  <2>8. PICK g : g = [Top EXCEPT !.rest = <<"COMMA">> \o @]
    OBVIOUS
  <2>9. IsCall(g) /\ g.rest = <<"COMMA">> \o rest
    BY <1>2, <2>4, <2>8, CallUpdates
  <2>10. Awaits(fileTokens, c, g.rest, e)
    BY <2>7, <2>9
  <2>11. Coming(fileTokens, c, Append(Front(stack), g))
    BY <1>2, <1>3, <2>3, <2>9, <2>10, ComingMore
  <2>12. IsCall(Call("property")) /\ Call("property").rest = Script["property"]
    BY CallIs DEF Function
  <2>13. PICK base, h : base = Append(Front(stack), g) /\ h = Call("property")
    OBVIOUS
  <2>14. Awaits(fileTokens, cursor.pos + 1, h.rest, c)
    BY <2>3, <2>12, <2>13
  <2>15. Coming(fileTokens, cursor.pos + 1, Append(base, h))
    BY <1>2, <2>2, <2>11, <2>12, <2>13, <2>14, ComingMore
  <2>16. stack' = Append(base, h)
    BY <2>1, <2>8, <2>13 DEF Replace
  <2> QED
    BY <2>2, <2>15, <2>16 DEF Passes
<1> QED
  BY <1>5, <1>6, <1>7

\* A comma, or the brace behind the last property.
LEMMA AfterPropertyPasses ==
    ASSUME Ahead, AfterProperty
    PROVE  Passes
<1>1. Doing("COMMA") /\ stack' = Replace(Done(<<>>))
      /\ cursor' = IF TT(cursor) = "rbrace" THEN cursor ELSE Expect(cursor, "comma")
  BY DEF AfterProperty
<1>2. /\ fileTokens \in Text /\ cursor.pos \in PlacesIn(fileTokens) /\ IsCall(Top) /\ Top.rest # <<>>
      /\ \E e \in PlacesIn(fileTokens), b \in PlacesIn(fileTokens) :
           /\ Coming(fileTokens, e, Front(stack))
           /\ Takes(fileTokens, cursor.pos, "COMMA", b) /\ Awaits(fileTokens, b, Tail(Top.rest), e)
  BY <1>1, TopTakes
<1>3. PICK e \in PlacesIn(fileTokens), b \in PlacesIn(fileTokens) :
        /\ Coming(fileTokens, e, Front(stack))
        /\ Takes(fileTokens, cursor.pos, "COMMA", b) /\ Awaits(fileTokens, b, Tail(Top.rest), e)
  BY <1>2
<1>4. TT(cursor) = Tok(fileTokens, cursor.pos) /\ cursor.pos <= cursor.pos
  BY CursorAhead
<1>5. PICK g : g = Done(<<>>)
  OBVIOUS
<1>6. IsCall(g) /\ g.rest = Tail(Top.rest)
  BY <1>2, <1>5, CallUpdates DEF Done
<1>7. Coming(fileTokens, b, stack')
  BY <1>1, <1>3, <1>5, <1>6, DoneComing
<1>8. IF TT(cursor) = "rbrace" THEN b = cursor.pos ELSE TT(cursor) = "comma" /\ b = cursor.pos + 1
  BY <1>3, <1>4 DEF Takes, TokenType
<1>9. CASE TT(cursor) = "rbrace"
  BY <1>1, <1>2, <1>4, <1>7, <1>8, <1>9 DEF Passes
<1>10. CASE TT(cursor) # "rbrace"
  <2>1. cursor' = Advance(cursor) /\ TT(cursor) # "eof"
    BY <1>1, <1>8, <1>10 DEF Expect
  <2>2. cursor'.errors = cursor.errors /\ cursor'.pos = b /\ cursor.pos <= b
    BY <1>8, <1>10, <2>1, CursorAhead
  <2> QED
    BY <1>3, <1>7, <2>2 DEF Passes
<1> QED
  BY <1>9, <1>10

\* A name is there, and a comma or the end of the names behind it.
LEMMA ParseNamesPasses ==
    ASSUME Ahead, ParseNames
    PROVE  Passes
<1>1. Doing("NAMES")
  BY DEF ParseNames
<1>2. /\ fileTokens \in Text /\ cursor.pos \in PlacesIn(fileTokens) /\ IsCall(Top) /\ Top.rest # <<>> /\ Top.rest \in Seq(CallSteps)
      /\ Tail(Top.rest) \in Seq(CallSteps) /\ <<"NAMES">> \o Tail(Top.rest) = Top.rest
      /\ \E e \in PlacesIn(fileTokens), b \in PlacesIn(fileTokens) :
           /\ Coming(fileTokens, e, Front(stack))
           /\ Takes(fileTokens, cursor.pos, "NAMES", b) /\ Awaits(fileTokens, b, Tail(Top.rest), e)
  BY <1>1, TopTakes
<1>3. PICK e \in PlacesIn(fileTokens), b \in PlacesIn(fileTokens) :
        /\ Coming(fileTokens, e, Front(stack))
        /\ Takes(fileTokens, cursor.pos, "NAMES", b) /\ Awaits(fileTokens, b, Tail(Top.rest), e)
  BY <1>2
<1>4. /\ Tok(fileTokens, cursor.pos) = "identifier"
      /\ \/ b = cursor.pos + 1 /\ Tok(fileTokens, cursor.pos + 1) = "semicolon"
         \/ /\ Tok(fileTokens, cursor.pos + 1) = "comma" /\ cursor.pos + 2 \in PlacesIn(fileTokens)
            /\ Takes(fileTokens, cursor.pos + 2, "NAMES", b)
  BY <1>2, <1>3, NamesTake
<1>5. TT(cursor) = "identifier" /\ TT(cursor) # "eof"
  BY <1>4, CursorAhead
<1>6. PICK id : id = Expect(cursor, "identifier")
  OBVIOUS
<1>7. id = Advance(cursor)
  BY <1>5, <1>6 DEF Expect
<1>8. /\ id.errors = cursor.errors /\ id.pos = cursor.pos + 1 /\ cursor.pos <= cursor.pos + 1
      /\ TT(id) = Tok(fileTokens, cursor.pos + 1) /\ Advance(id).errors = cursor.errors
      /\ TT(id) # "eof" => Advance(id).pos = cursor.pos + 2 /\ cursor.pos <= cursor.pos + 2
  BY <1>5, <1>7, CursorAhead
<1>9. PICK names : names = <<Leaf("name")>>
  OBVIOUS
<1>10. PICK more : more = [Top EXCEPT !.children = @ \o names]
  OBVIOUS
<1>11. \/ TT(id) = "comma" /\ cursor' = Advance(id) /\ stack' = Replace(more)
       \/ TT(id) # "comma" /\ TT(id) \in {"eof", "semicolon"} /\ cursor' = id /\ stack' = Replace(Done(names))
       \/ TT(id) \notin {"comma", "eof", "semicolon"}
  BY <1>5, <1>6, <1>9, <1>10 DEF ParseNames
<1>12. CASE Tok(fileTokens, cursor.pos + 1) = "semicolon"
  <2>1. cursor' = id /\ stack' = Replace(Done(names)) /\ b = cursor.pos + 1
    BY <1>4, <1>8, <1>11, <1>12
  <2>2. PICK g : g = Done(names)
    OBVIOUS
  <2>3. IsCall(g) /\ g.rest = Tail(Top.rest)
    BY <1>2, <2>2, CallUpdates DEF Done
  <2>4. Coming(fileTokens, b, Replace(g))
    BY <1>1, <1>3, <2>3, DoneComing
  <2> QED
    BY <1>3, <1>8, <2>1, <2>2, <2>4 DEF Passes
<1>13. CASE Tok(fileTokens, cursor.pos + 1) = "comma"
  <2>1. cursor' = Advance(id) /\ stack' = Replace(more)
    BY <1>8, <1>11, <1>13
  <2>2. cursor'.pos = cursor.pos + 2 /\ cursor.pos <= cursor.pos + 2 /\ cursor'.errors = cursor.errors
    BY <1>8, <1>13, <2>1
  <2>3. cursor.pos + 2 \in PlacesIn(fileTokens) /\ Takes(fileTokens, cursor.pos + 2, "NAMES", b)
    BY <1>4, <1>13
  <2>4. IsCall(more) /\ more.rest = Top.rest
    BY <1>2, <1>10, CallUpdates
  <2>5. PICK rest, r : rest = Top.rest /\ r = Tail(Top.rest)
    OBVIOUS
  <2>6. r \in Seq(CallSteps) /\ rest = <<"NAMES">> \o r /\ Awaits(fileTokens, b, r, e)
    BY <1>2, <1>3, <2>5
  <2>7. Awaits(fileTokens, cursor.pos + 2, rest, e)
    BY <1>2, <2>3, <2>6, AwaitsMore
  <2>8. Awaits(fileTokens, cursor.pos + 2, more.rest, e)
    BY <2>4, <2>5, <2>7
  <2>9. Coming(fileTokens, cursor.pos + 2, Append(Front(stack), more))
    BY <1>2, <1>3, <2>3, <2>4, <2>8, ComingMore
  <2> QED
    BY <2>1, <2>2, <2>3, <2>9 DEF Passes, Replace
<1> QED
  BY <1>4, <1>12, <1>13

\* A call that has read everything returns.
LEMMA ReturnNodePasses ==
    ASSUME Ahead, ReturnNode
    PROVE  Passes
<1>1. stack # <<>> /\ Top.rest = <<>> /\ Top = Last(stack) /\ cursor' = cursor
  BY DEF ReturnNode, Top
<1>2. fileTokens \in Text /\ cursor.pos \in PlacesIn(fileTokens) /\ Coming(fileTokens, cursor.pos, stack) /\ cursor.pos <= cursor.pos
  BY CursorAhead DEF Ahead
<1>3. PICK e \in PlacesIn(fileTokens) : Coming(fileTokens, e, Front(stack)) /\ Awaits(fileTokens, cursor.pos, Last(stack).rest, e)
  BY <1>1, <1>2, ComingTop
<1>4. e = cursor.pos
  BY <1>1, <1>2, <1>3, AwaitsNone
<1>5. Coming(fileTokens, cursor.pos, Front(stack))
  BY <1>3, <1>4
<1>6. \E nodes : IF Front(stack) = <<>> THEN stack' = <<>>
                 ELSE stack' = Append(Front(Front(stack)), [Last(Front(stack)) EXCEPT !.children = @ \o nodes])
  BY DEF ReturnNode
<1>7. CASE Front(stack) = <<>>
  BY <1>1, <1>2, <1>5, <1>6, <1>7 DEF Passes
<1>8. CASE Front(stack) # <<>>
  <2>1. PICK nodes : stack' = Append(Front(Front(stack)), [Last(Front(stack)) EXCEPT !.children = @ \o nodes])
    BY <1>6, <1>8
  <2>2. PICK callers : callers = Front(stack)
    OBVIOUS
  <2>3. callers # <<>> /\ Coming(fileTokens, cursor.pos, callers)
    BY <1>5, <1>8, <2>2
  <2>4. IsCall(Last(callers))
    BY <1>2, <2>3, ComingTop
  <2>5. PICK d \in PlacesIn(fileTokens) :
          Coming(fileTokens, d, Front(callers)) /\ Awaits(fileTokens, cursor.pos, Last(callers).rest, d)
    BY <1>2, <2>3, ComingTop
  <2>6. PICK f : f = Last(callers)
    OBVIOUS
  <2>7. PICK g : g = [f EXCEPT !.children = @ \o nodes]
    OBVIOUS
  <2>8. IsCall(g) /\ g.rest = f.rest
    BY <2>4, <2>6, <2>7, CallUpdates
  <2>9. Awaits(fileTokens, cursor.pos, g.rest, d)
    BY <2>5, <2>6, <2>8
  <2>10. Coming(fileTokens, cursor.pos, Append(Front(callers), g))
    BY <1>2, <2>5, <2>8, <2>9, ComingMore
  <2>11. stack' = Append(Front(callers), g)
    BY <2>1, <2>2, <2>6, <2>7
  <2> QED
    BY <1>1, <1>2, <2>10, <2>11 DEF Passes
<1> QED
  BY <1>7, <1>8

\* In front of a file of the grammar no step reports an error.
LEMMA StepPasses ==
    ASSUME Ahead, [ParserNext]_parserVars
    PROVE  Passes /\ fileTokens' = fileTokens
<1>1. ASSUME cursor' = cursor, stack' = stack PROVE Passes
  BY <1>1, CursorAhead DEF Ahead, Passes
<1>2. ASSUME UNCHANGED parserVars PROVE Passes
  BY <1>1, <1>2 DEF parserVars
<1>3. ASSUME ParserNext PROVE Passes
  <2>2. CASE \/ Declaration("task", "task") \/ Declaration("identifier", "dependency")
             \/ Declaration("run_level", "run_level")
    BY <2>2, DeclarationPasses DEF DeclarationPairs
  <2>3. CASE ExpectedDeclaration
    BY <2>3, NoOtherToken
  <2>4. CASE EndOfFile
    BY <1>1, <2>4 DEF EndOfFile
  <2>5. ASSUME NEW type \in {"identifier", "equals", "colon", "depends", "semicolon", "rbrace"}, ExpectToken(type)
        PROVE  Passes
    <3>1. type \in TokenType
      BY DEF TokenType
    <3> QED
      BY <2>5, <3>1, ExpectTokenPasses
  <2>6. CASE ParseValue
    BY <2>6, ParseValuePasses
  <2>7. CASE ParseProperties
    BY <2>7, ParsePropertiesPasses
  <2>8. CASE AfterProperty
    BY <2>8, AfterPropertyPasses
  <2>9. CASE ParseNames
    BY <2>9, ParseNamesPasses
  <2>10. CASE ReturnNode
    BY <2>10, ReturnNodePasses
  <2> QED
    BY <1>3, <2>2, <2>3, <2>4, <2>5, <2>6, <2>7, <2>8, <2>9, <2>10 DEF ParserNext
<1>4. fileTokens' = fileTokens
  BY DEF parserVars, ParserNext, Declaration, ExpectedDeclaration, EndOfFile, ExpectToken, ParseValue,
                    ParseProperties, AfterProperty, ParseNames, ReturnNode
<1>5. ParserNext \/ UNCHANGED parserVars
  OBVIOUS
<1> QED
  BY <1>2, <1>3, <1>4, <1>5

-----------------------------------------------------------------------------
(* Semicolons outside braces *)

\* Behind the token at m a file of the grammar begins, and the file or a declaration
\* ends in front of it.
Restart(ts, m) ==
    /\ m \in 0..Len(ts)
    /\ m # 0 => ts[m] = "semicolon"
    /\ \A i \in 1..m : ts[i] \notin {"lbrace", "rbrace"}
    /\ IsFile(Cut(ts, m + 1, Len(ts) + 1))

\* What is left of the scripts of declarations.
DeclarationRests ==
    {<<"identifier", "equals", "VALUE", "semicolon">>, <<"equals", "VALUE", "semicolon">>, <<"VALUE", "semicolon">>,
     <<"depends", "NAMES", "semicolon">>, <<"identifier", "colon", "NAMES", "semicolon">>,
     <<"colon", "NAMES", "semicolon">>, <<"NAMES", "semicolon">>, <<"semicolon">>, <<>>}

\* No struct is being read.
Outside(st) ==
    st = <<>> \/ \E f : st = <<f>> /\ IsCall(f) /\ f.rest \in DeclarationRests

\* No report is beyond the token at m.
ErrorsUpTo(c, m) == \A i \in 1..Len(c.errors) : c.errors[i] <= m

\* The steps of a declaration are read one after the other, the semicolon last.
LEMMA RestsAre ==
    ASSUME NEW r \in DeclarationRests, r # <<>>
    PROVE  /\ Tail(r) \in DeclarationRests
           /\ Head(r) \in {"identifier", "equals", "depends", "colon", "VALUE", "NAMES", "semicolon"}
           /\ Head(r) = "semicolon" => Tail(r) = <<>>
<1>1. \/ r = <<"identifier", "equals", "VALUE", "semicolon">>
      \/ r = <<"equals", "VALUE", "semicolon">>
      \/ r = <<"VALUE", "semicolon">>
      \/ r = <<"depends", "NAMES", "semicolon">>
      \/ r = <<"identifier", "colon", "NAMES", "semicolon">>
      \/ r = <<"colon", "NAMES", "semicolon">>
      \/ r = <<"NAMES", "semicolon">>
      \/ r = <<"semicolon">>
  BY Zenon DEF DeclarationRests
<1>2. CASE r = <<"identifier", "equals", "VALUE", "semicolon">>
  <2>1. Head(r) = "identifier" /\ Tail(r) = <<"equals", "VALUE", "semicolon">>
    BY <1>2
  <2>2. <<"equals", "VALUE", "semicolon">> \in DeclarationRests
    BY Zenon DEF DeclarationRests
  <2> QED
    BY <2>1, <2>2
<1>3. CASE r = <<"equals", "VALUE", "semicolon">>
  <2>1. Head(r) = "equals" /\ Tail(r) = <<"VALUE", "semicolon">>
    BY <1>3
  <2>2. <<"VALUE", "semicolon">> \in DeclarationRests
    BY Zenon DEF DeclarationRests
  <2> QED
    BY <2>1, <2>2
<1>4. CASE r = <<"VALUE", "semicolon">>
  <2>1. Head(r) = "VALUE" /\ Tail(r) = <<"semicolon">>
    BY <1>4
  <2>2. <<"semicolon">> \in DeclarationRests
    BY Zenon DEF DeclarationRests
  <2> QED
    BY <2>1, <2>2
<1>5. CASE r = <<"depends", "NAMES", "semicolon">>
  <2>1. Head(r) = "depends" /\ Tail(r) = <<"NAMES", "semicolon">>
    BY <1>5
  <2>2. <<"NAMES", "semicolon">> \in DeclarationRests
    BY Zenon DEF DeclarationRests
  <2> QED
    BY <2>1, <2>2
<1>6. CASE r = <<"identifier", "colon", "NAMES", "semicolon">>
  <2>1. Head(r) = "identifier" /\ Tail(r) = <<"colon", "NAMES", "semicolon">>
    BY <1>6
  <2>2. <<"colon", "NAMES", "semicolon">> \in DeclarationRests
    BY Zenon DEF DeclarationRests
  <2> QED
    BY <2>1, <2>2
<1>7. CASE r = <<"colon", "NAMES", "semicolon">>
  <2>1. Head(r) = "colon" /\ Tail(r) = <<"NAMES", "semicolon">>
    BY <1>7
  <2>2. <<"NAMES", "semicolon">> \in DeclarationRests
    BY Zenon DEF DeclarationRests
  <2> QED
    BY <2>1, <2>2
<1>8. CASE r = <<"NAMES", "semicolon">>
  <2>1. Head(r) = "NAMES" /\ Tail(r) = <<"semicolon">>
    BY <1>8
  <2>2. <<"semicolon">> \in DeclarationRests
    BY Zenon DEF DeclarationRests
  <2> QED
    BY <2>1, <2>2
<1>9. CASE r = <<"semicolon">>
  <2>1. Head(r) = "semicolon" /\ Tail(r) = <<>>
    BY <1>9
  <2>2. <<>> \in DeclarationRests
    BY Zenon DEF DeclarationRests
  <2> QED
    BY <2>1, <2>2
<1> QED
  BY <1>1, <1>2, <1>3, <1>4, <1>5, <1>6, <1>7, <1>8, <1>9

\* The scripts of the declarations that start with a token of theirs.
LEMMA ScriptRests == \A pair \in DeclarationPairs : Script[pair[2]] \in DeclarationRests /\ pair[2] \in Function /\ pair[1] # "semicolon"
  BY DEF DeclarationPairs, DeclarationRests, Script, Function

\* A cursor in front of the token behind m.
CursorBefore(c, m) == CursorOK(c) /\ c.pos \in 1..m /\ ErrorsUpTo(c, m)

\* In front of the semicolon next and report_error stay in front of it or at it.
LEMMA MovesBefore ==
    ASSUME fileTokens \in Text, NEW m, Restart(fileTokens, m), NEW c, CursorBefore(c, m)
    PROVE  /\ TT(c) \in TokenType /\ TT(c) \notin {"eof", "lbrace", "rbrace"} /\ m \in Nat /\ c.pos \in Nat
           /\ c.pos + 1 \in PlacesIn(fileTokens) /\ c.pos \in PlacesIn(fileTokens)
           /\ c.pos = m => TT(c) = "semicolon"
           /\ CursorBefore(Error(c), m) /\ TT(Error(c)) = TT(c) /\ Error(c).pos = c.pos
           /\ ErrorsUpTo(Advance(c), m) /\ Advance(c).pos = c.pos + 1
           /\ TT(c) # "semicolon" => CursorBefore(Advance(c), m)
<1>1. m \in Nat /\ Len(fileTokens) \in Nat /\ m <= Len(fileTokens) /\ c.pos \in Nat /\ c.pos >= 1 /\ c.pos <= m
  BY DEF Restart, CursorBefore, Text
<1>2. c.pos \in 1..Len(fileTokens) /\ c.pos \in 1..m
  BY <1>1
<1>3. CursorOK(c) /\ ErrorsUpTo(c, m)
  BY DEF CursorBefore
<1>4. TT(c) = fileTokens[c.pos] /\ TT(c) \in TokenType
  <2>1. fileTokens[c.pos] \in TokenType
    BY <1>2 DEF Text
  <2> QED
    BY <1>1, <2>1 DEF TT
<1>5. TT(c) \notin {"eof", "lbrace", "rbrace"}
  BY <1>2, <1>4 DEF Restart, TokenType
<1>6. c.pos = m => TT(c) = "semicolon"
  BY <1>1, <1>4 DEF Restart
<1>7. CursorOK(Error(c)) /\ Error(c).pos = c.pos /\ ErrorsUpTo(Error(c), m)
  <2>1. CursorOK(Error(c))
    BY <1>3, ErrorOK
  <2>2. CASE c.lastErrorPlace = c.pos
    BY <1>3, <2>1, <2>2 DEF Error
  <2>3. CASE c.lastErrorPlace # c.pos
    <3>1. PICK p, s, e : p = c.pos /\ s = c.errors /\ e = Append(s, p)
      OBVIOUS
    <3>2. c \in Cursors /\ s \in Seq(Places) /\ p \in Places
      BY <1>3, <3>1 DEF CursorOK, Cursors
    <3>3. Error(c) = [c EXCEPT !.errors = e, !.lastErrorPlace = p]
      BY <2>3, <3>1 DEF Error
    <3>4. Error(c).pos = p /\ Error(c).errors = e
      BY <3>1, <3>2, <3>3 DEF Cursors
    <3>5. e \in Seq(Places) /\ Len(e) = Len(s) + 1 /\ e[Len(s) + 1] = p /\ \A i \in 1..Len(s) : e[i] = s[i]
      BY <3>1, <3>2, AppendProperties
    <3>6. \A i \in 1..Len(s) : s[i] <= m
      BY <1>3, <3>1 DEF ErrorsUpTo
    <3>7. \A i \in 1..Len(e) : e[i] <= m
      BY <1>1, <3>1, <3>2, <3>5, <3>6
    <3> QED
      BY <2>1, <3>1, <3>4, <3>7 DEF ErrorsUpTo
  <2> QED
    BY <2>2, <2>3
<1>8. CursorBefore(Error(c), m) /\ TT(Error(c)) = TT(c)
  BY <1>1, <1>7 DEF CursorBefore, TT
<1>9. CursorOK(Advance(c)) /\ Advance(c).errors = c.errors /\ Advance(c).pos = c.pos + 1
  BY <1>3, <1>5, AdvanceOK, CursorFacts
<1>10. ErrorsUpTo(Advance(c), m)
  BY <1>3, <1>9 DEF ErrorsUpTo
<1>11. TT(c) # "semicolon" => CursorBefore(Advance(c), m)
  <2> SUFFICES ASSUME TT(c) # "semicolon" PROVE CursorBefore(Advance(c), m)
    OBVIOUS
  <2>1. c.pos + 1 \in 1..m
    BY <1>1, <1>6
  <2> QED
    BY <1>9, <1>10, <2>1 DEF CursorBefore
<1>12. c.pos + 1 \in PlacesIn(fileTokens) /\ c.pos \in PlacesIn(fileTokens)
  BY <1>1 DEF PlacesIn
<1> QED
  BY <1>1, <1>4, <1>5, <1>6, <1>7, <1>8, <1>9, <1>10, <1>11, <1>12

\* In front of the semicolon at m.
BeforeRestart(m) ==
    /\ fileTokens \in Text /\ Restart(fileTokens, m)
    /\ CursorBefore(cursor, m) /\ Outside(stack)

\* Up to it, or behind it with nothing left to be read.
Reaches(m) ==
    /\ ErrorsUpTo(cursor', m) /\ Outside(stack')
    /\ \/ cursor'.pos \in 1..m
       \/ cursor'.pos = m + 1 /\ (stack' = <<>> \/ \E f : stack' = <<f>> /\ IsCall(f) /\ f.rest = <<>>)

\* Behind it and outside of everything the file goes on.
LEMMA ReachedIsComing ==
    ASSUME NEW ts \in Text, NEW m, Restart(ts, m), NEW st, st = <<>> \/ \E f : st = <<f>> /\ IsCall(f) /\ f.rest = <<>>
    PROVE  Coming(ts, m + 1, st) /\ m + 1 \in PlacesIn(ts)
<1>1. m \in 0..Len(ts) /\ IsFile(Cut(ts, m + 1, Len(ts) + 1)) /\ Len(ts) \in Nat
  BY DEF Restart, Text
<1>2. m + 1 \in PlacesIn(ts)
  BY <1>1 DEF PlacesIn
<1>3. Coming(ts, m + 1, <<>>)
  BY <1>1, <1>2, ComingEmpty
<1>4. ASSUME NEW f, st = <<f>>, IsCall(f), f.rest = <<>> PROVE Coming(ts, m + 1, st)
  <2>1. Awaits(ts, m + 1, f.rest, m + 1)
    BY <1>2, <1>4, AwaitsNone
  <2>2. Coming(ts, m + 1, Append(<<>>, f))
    BY <1>2, <1>3, <1>4, <2>1, ComingMore
  <2>3. Append(<<>>, f) = <<f>>
    OBVIOUS
  <2> QED
    BY <1>4, <2>2, <2>3
<1> QED
  BY <1>2, <1>3, <1>4

\* The only call.
LEMMA OutsideTop ==
    ASSUME Outside(stack), stack # <<>>
    PROVE  /\ IsCall(Top) /\ Top.rest \in DeclarationRests /\ Front(stack) = <<>>
           /\ \A g : Replace(g) = <<g>>
<1>1. PICK f : stack = <<f>> /\ IsCall(f) /\ f.rest \in DeclarationRests
  BY DEF Outside
<1>2. Front(<<f>>) = <<>> /\ Last(<<f>>) = f /\ \A g : Append(<<>>, g) = <<g>>
  BY DEF Front, Last
<1> QED
  BY <1>1, <1>2 DEF Top, Replace

\* Outside of structs one call is on the stack, that of a declaration in the making.
LEMMA OutsideStep ==
    ASSUME Outside(stack), NEW step, Doing(step)
    PROVE  /\ stack # <<>> /\ IsCall(Top) /\ Top.rest \in DeclarationRests /\ Top.rest # <<>>
           /\ Tail(Top.rest) \in DeclarationRests
           /\ step \in {"identifier", "equals", "depends", "colon", "VALUE", "NAMES", "semicolon"}
           /\ step = "semicolon" => Tail(Top.rest) = <<>>
           /\ \A g : Replace(g) = <<g>>
           /\ \A nodes : IsCall(Done(nodes)) /\ Done(nodes).rest = Tail(Top.rest)
<1>1. stack # <<>> /\ Top.rest # <<>> /\ Head(Top.rest) = step
  BY DEF Doing
<1>2. IsCall(Top) /\ Top.rest \in DeclarationRests /\ \A g : Replace(g) = <<g>>
  BY <1>1, OutsideTop
<1>3. PICK r : r = Top.rest
  OBVIOUS
<1>4. /\ Tail(r) \in DeclarationRests
      /\ Head(r) \in {"identifier", "equals", "depends", "colon", "VALUE", "NAMES", "semicolon"}
      /\ Head(r) = "semicolon" => Tail(r) = <<>>
  BY <1>1, <1>2, <1>3, RestsAre
<1>5. \A nodes : IsCall(Done(nodes)) /\ Done(nodes).rest = Tail(Top.rest)
  BY <1>1, <1>2, CallUpdates DEF Done
<1> QED
  BY <1>1, <1>2, <1>3, <1>4, <1>5

\* One call of a declaration on the stack is outside of structs.
LEMMA StaysOutside ==
    ASSUME NEW st, NEW f, st = <<f>>, IsCall(f), f.rest \in DeclarationRests
    PROVE  Outside(st)
  BY DEF Outside

\* The steps in front of the semicolon.
LEMMA DeclarationReaches ==
    ASSUME NEW m, BeforeRestart(m), NEW token, NEW fn, <<token, fn>> \in DeclarationPairs, Declaration(token, fn)
    PROVE  Reaches(m)
<1>1. fileTokens \in Text /\ Restart(fileTokens, m) /\ CursorBefore(cursor, m)
  BY DEF BeforeRestart
<1>2. TT(cursor) = token /\ cursor' = Advance(cursor) /\ stack' = <<Call(fn)>>
  BY DEF Declaration
<1>3. token # "semicolon" /\ fn \in Function /\ Script[fn] \in DeclarationRests
  BY ScriptRests DEF DeclarationPairs
<1>4. CursorBefore(cursor', m)
  BY <1>1, <1>2, <1>3, MovesBefore
<1>5. IsCall(Call(fn)) /\ Call(fn).rest \in DeclarationRests
  BY <1>3, CallIs
<1>6. Outside(stack')
  BY <1>2, <1>5, StaysOutside
<1> QED
  BY <1>4, <1>6 DEF Reaches, CursorBefore

\* A declaration that starts with something else: report_error and skip.
LEMMA ExpectedDeclarationReaches ==
    ASSUME NEW m, BeforeRestart(m), ExpectedDeclaration
    PROVE  Reaches(m)
<1>1. fileTokens \in Text /\ Restart(fileTokens, m) /\ CursorBefore(cursor, m)
  BY DEF BeforeRestart
<1>2. stack = <<>> /\ stack' = stack /\ cursor' = Advance(Error(cursor))
  BY DEF ExpectedDeclaration
<1>3. CursorBefore(Error(cursor), m) /\ Error(cursor).pos = cursor.pos
  BY <1>1, MovesBefore
<1>4. ErrorsUpTo(cursor', m) /\ cursor'.pos = cursor.pos + 1
  BY <1>1, <1>2, <1>3, MovesBefore
<1>5. m \in Nat /\ cursor.pos \in 1..m
  BY <1>1, MovesBefore DEF CursorBefore
<1>6. cursor'.pos \in 1..m \/ cursor'.pos = m + 1
  BY <1>4, <1>5
<1> QED
  BY <1>2, <1>4, <1>6 DEF Reaches, Outside

\* expect: the token is read, or reported as missing with the cursor where it is.
LEMMA ExpectTokenReaches ==
    ASSUME NEW m, BeforeRestart(m), NEW type \in TokenType, ExpectToken(type)
    PROVE  Reaches(m)
<1>1. fileTokens \in Text /\ Restart(fileTokens, m) /\ CursorBefore(cursor, m) /\ Outside(stack)
  BY DEF BeforeRestart
<1>2. Doing(type) /\ cursor' = Expect(cursor, type)
      /\ stack' = Replace([Done(<<>>) EXCEPT !.missing = IF TT(cursor) = type THEN @ ELSE @ \cup {type}])
  BY DEF ExpectToken
<1>3. /\ Tail(Top.rest) \in DeclarationRests /\ (type = "semicolon" => Tail(Top.rest) = <<>>)
      /\ (\A g : Replace(g) = <<g>>) /\ \A nodes : IsCall(Done(nodes)) /\ Done(nodes).rest = Tail(Top.rest)
  BY <1>1, <1>2, OutsideStep
<1>4. PICK d : d = Done(<<>>)
  OBVIOUS
<1>5. PICK x : x = IF TT(cursor) = type THEN d.missing ELSE d.missing \cup {type}
  OBVIOUS
<1>6. PICK g : g = [d EXCEPT !.missing = x]
  OBVIOUS
<1>7. IsCall(d) /\ d.rest = Tail(Top.rest)
  BY <1>3, <1>4
<1>8. IsCall(g) /\ g.rest = Tail(Top.rest)
  BY <1>6, <1>7, CallUpdates
<1>9. stack' = Replace(g)
  BY <1>2, <1>4, <1>5, <1>6
<1>10. stack' = <<g>> /\ Outside(stack')
  BY <1>3, <1>8, <1>9, StaysOutside
<1>11. m \in Nat /\ cursor.pos \in 1..m
  BY <1>1, MovesBefore DEF CursorBefore
<1>12. CASE TT(cursor) = type
  <2>1. cursor' = Advance(cursor)
    BY <1>2, <1>12 DEF Expect
  <2>2. ErrorsUpTo(cursor', m) /\ cursor'.pos = cursor.pos + 1 /\ (cursor.pos = m => type = "semicolon")
    BY <1>1, <1>12, <2>1, MovesBefore
  <2>3. CASE cursor.pos = m
    BY <1>3, <1>8, <1>10, <2>2, <2>3 DEF Reaches
  <2>4. CASE cursor.pos # m
    <3>1. cursor'.pos \in 1..m
      BY <1>11, <2>2, <2>4
    <3> QED
      BY <1>10, <2>2, <3>1 DEF Reaches
  <2> QED
    BY <2>3, <2>4
<1>13. CASE TT(cursor) # type
  <2>1. cursor' = Error(cursor)
    BY <1>2, <1>13 DEF Expect
  <2>2. CursorBefore(cursor', m)
    BY <1>1, <2>1, MovesBefore
  <2> QED
    BY <1>10, <2>2 DEF Reaches, CursorBefore
<1> QED
  BY <1>12, <1>13

\* parse_value where no brace is in front: an identifier or a literal, or a report.
LEMMA ParseValueReaches ==
    ASSUME NEW m, BeforeRestart(m), ParseValue
    PROVE  Reaches(m)
<1>1. fileTokens \in Text /\ Restart(fileTokens, m) /\ CursorBefore(cursor, m) /\ Outside(stack)
  BY DEF BeforeRestart
<1>2. Doing("VALUE")
  BY DEF ParseValue
<1>3. /\ Tail(Top.rest) \in DeclarationRests
      /\ (\A g : Replace(g) = <<g>>) /\ \A nodes : IsCall(Done(nodes)) /\ Done(nodes).rest = Tail(Top.rest)
  BY <1>1, <1>2, OutsideStep
<1>4. ASSUME NEW nodes, stack' = Replace(Done(nodes)), CursorBefore(cursor', m)
      PROVE  Reaches(m)
  <2>1. PICK g : g = Done(nodes)
    OBVIOUS
  <2>2. stack' = <<g>> /\ IsCall(g) /\ g.rest \in DeclarationRests
    BY <1>3, <1>4, <2>1
  <2>3. Outside(stack')
    BY <2>2, StaysOutside
  <2> QED
    BY <1>4, <2>3 DEF Reaches, CursorBefore
<1>5. TT(cursor) # "semicolon" => CursorBefore(Advance(cursor), m)
  BY <1>1, MovesBefore
<1>6. CASE TT(cursor) = "literal"
  <2>1. cursor' = Advance(cursor) /\ stack' = Replace(Done(<<Leaf("literal")>>))
    BY <1>6 DEF ParseValue, NoValue
  <2> QED
    BY <1>4, <1>5, <1>6, <2>1
<1>7. CASE TT(cursor) = "identifier"
  <2>1. CursorBefore(Advance(cursor), m)
    BY <1>5, <1>7
  <2>2. TT(Advance(cursor)) # "lbrace"
    BY <1>1, <2>1, MovesBefore
  <2>3. cursor' = Advance(cursor) /\ stack' = Replace(Done(<<Leaf("pseudo_identifier")>>))
    BY <1>7, <2>2 DEF ParseValue, NoValue
  <2> QED
    BY <1>4, <2>1, <2>3
<1>8. CASE TT(cursor) \notin {"literal", "identifier"}
  <2>1. cursor' = Error(cursor) /\ stack' = Replace(Done(<<None>>))
    BY <1>8 DEF ParseValue, NoValue
  <2>2. CursorBefore(cursor', m)
    BY <1>1, <2>1, MovesBefore
  <2> QED
    BY <1>4, <2>1, <2>2
<1> QED
  BY <1>6, <1>7, <1>8

\* The loop over names and commas, to the token that is neither.
LEMMA ParseNamesReaches ==
    ASSUME NEW m, BeforeRestart(m), ParseNames
    PROVE  Reaches(m)
<1>1. fileTokens \in Text /\ Restart(fileTokens, m) /\ CursorBefore(cursor, m) /\ Outside(stack)
  BY DEF BeforeRestart
<1>2. Doing("NAMES")
  BY DEF ParseNames
<1>3. /\ IsCall(Top) /\ Top.rest \in DeclarationRests /\ Tail(Top.rest) \in DeclarationRests
      /\ (\A g : Replace(g) = <<g>>) /\ \A nodes : IsCall(Done(nodes)) /\ Done(nodes).rest = Tail(Top.rest)
  BY <1>1, <1>2, OutsideStep
<1>4. PICK id : id = Expect(cursor, "identifier")
  OBVIOUS
<1>5. CursorBefore(id, m)
  <2>1. CASE TT(cursor) = "identifier"
    BY <1>1, <1>4, <2>1, MovesBefore DEF Expect
  <2>2. CASE TT(cursor) # "identifier"
    BY <1>1, <1>4, <2>2, MovesBefore DEF Expect
  <2> QED
    BY <2>1, <2>2
<1>6. \E names, f : /\ f \in {Done(names), [Top EXCEPT !.children = @ \o names]}
                    /\ stack' = Replace(f)
                    /\ \/ TT(id) = "comma" /\ cursor' = Advance(id)
                       \/ cursor' = id
                       \/ cursor' = Error(id)
  BY <1>4 DEF ParseNames
<1>7. PICK names, f : /\ f \in {Done(names), [Top EXCEPT !.children = @ \o names]}
                      /\ stack' = Replace(f)
                      /\ \/ TT(id) = "comma" /\ cursor' = Advance(id)
                         \/ cursor' = id
                         \/ cursor' = Error(id)
  BY <1>6
<1>8. IsCall(f) /\ f.rest \in DeclarationRests
  <2>1. CASE f = Done(names)
    BY <1>3, <2>1
  <2>2. CASE f = [Top EXCEPT !.children = @ \o names]
    BY <1>3, <2>2, CallUpdates
  <2> QED
    BY <1>7, <2>1, <2>2
<1>9. Outside(stack')
  BY <1>3, <1>7, <1>8, StaysOutside
<1>10. CursorBefore(cursor', m)
  <2>1. CASE TT(id) = "comma" /\ cursor' = Advance(id)
    BY <1>1, <1>5, <2>1, MovesBefore
  <2>2. CASE cursor' = Error(id)
    BY <1>1, <1>5, <2>2, MovesBefore
  <2> QED
    BY <1>5, <1>7, <2>1, <2>2
<1> QED
  BY <1>9, <1>10 DEF Reaches, CursorBefore

\* A call that is done adds its node to the tree.
LEMMA ReturnNodeReaches ==
    ASSUME NEW m, BeforeRestart(m), ReturnNode
    PROVE  Reaches(m)
<1>1. Outside(stack) /\ CursorBefore(cursor, m) /\ stack # <<>>
  BY DEF BeforeRestart, ReturnNode
<1>2. Front(stack) = <<>>
  BY <1>1, OutsideTop
<1>3. stack' = <<>> /\ cursor' = cursor
  BY <1>2 DEF ReturnNode
<1> QED
  BY <1>1, <1>3 DEF Reaches, CursorBefore, Outside

\* Every step of parser_context from in front of the semicolon.
LEMMA StepReaches ==
    ASSUME NEW m, BeforeRestart(m), [ParserNext]_parserVars
    PROVE  Reaches(m)
<1>1. ASSUME cursor' = cursor, stack' = stack PROVE Reaches(m)
  BY <1>1 DEF BeforeRestart, Reaches, CursorBefore
<1>2. ASSUME UNCHANGED parserVars PROVE Reaches(m)
  BY <1>1, <1>2 DEF parserVars
<1>3. ASSUME ParserNext PROVE Reaches(m)
  <2>1. CASE \/ Declaration("task", "task") \/ Declaration("identifier", "dependency")
             \/ Declaration("run_level", "run_level")
    BY <2>1, DeclarationReaches DEF DeclarationPairs
  <2>2. CASE ExpectedDeclaration
    BY <2>2, ExpectedDeclarationReaches
  <2>3. CASE EndOfFile
    BY <1>1, <2>3 DEF EndOfFile
  <2>4. ASSUME NEW type \in {"identifier", "equals", "colon", "depends", "semicolon", "rbrace"}, ExpectToken(type)
        PROVE  Reaches(m)
    <3>1. type \in TokenType
      BY DEF TokenType
    <3> QED
      BY <2>4, <3>1, ExpectTokenReaches
  <2>5. CASE ParseValue
    BY <2>5, ParseValueReaches
  <2>6. CASE ParseProperties \/ AfterProperty
    <3>1. Doing("PROPERTIES") \/ Doing("COMMA")
      BY <2>6 DEF ParseProperties, AfterProperty
    <3>2. Outside(stack)
      BY DEF BeforeRestart
    <3> QED
      BY <3>1, <3>2, OutsideStep
  <2>7. CASE ParseNames
    BY <2>7, ParseNamesReaches
  <2>8. CASE ReturnNode
    BY <2>8, ReturnNodeReaches
  <2> QED
    BY <1>3, <2>1, <2>2, <2>3, <2>4, <2>5, <2>6, <2>7, <2>8 DEF ParserNext
<1> QED
  BY <1>2, <1>3

\* In front of the semicolon no struct is being read; behind it, what the stack has yet
\* to read is there.
Resumed(m) ==
    /\ ErrorsUpTo(cursor, m)
    /\ \/ cursor.pos \in 1..m /\ Outside(stack)
       \/ cursor.pos > m /\ cursor.pos \in PlacesIn(fileTokens) /\ Coming(fileTokens, cursor.pos, stack)

\* For the beginning of the file and for every semicolon behind which the file is in order.
ResumingInv ==
    /\ fileTokens \in Text
    /\ \A m \in 0..Len(fileTokens) : Restart(fileTokens, m) => Resumed(m)

\* The file is not written while it is read.
LEMMA FileStays == [ParserNext]_parserVars => fileTokens' = fileTokens
  BY DEF parserVars, ParserNext, Declaration, ExpectedDeclaration, EndOfFile, ExpectToken, ParseValue,
         ParseProperties, AfterProperty, ParseNames, ReturnNode

\* The steps of parser_context in front of the semicolon and those behind it.
LEMMA ResumingStep ==
    ASSUME CursorOK(cursor), CursorOK(cursor'), ResumingInv, [ParserNext]_parserVars
    PROVE  ResumingInv'
<1>1. fileTokens' = fileTokens /\ fileTokens \in Text
  BY FileStays DEF ResumingInv
<1>2. ASSUME NEW m \in 0..Len(fileTokens), Restart(fileTokens, m)
      PROVE  Resumed(m)'
  <2>1. Resumed(m)
    BY <1>2 DEF ResumingInv
  <2>2. CASE cursor.pos \in 1..m /\ Outside(stack)
    <3>1. BeforeRestart(m)
      BY <1>1, <1>2, <2>1, <2>2 DEF BeforeRestart, CursorBefore, Resumed
    <3>2. Reaches(m)
      BY <3>1, StepReaches
    <3>3. CASE cursor'.pos \in 1..m
      BY <3>2, <3>3 DEF Reaches, Resumed
    <3>4. CASE cursor'.pos = m + 1 /\ (stack' = <<>> \/ \E f : stack' = <<f>> /\ IsCall(f) /\ f.rest = <<>>)
      <4>1. Coming(fileTokens, m + 1, stack') /\ m + 1 \in PlacesIn(fileTokens)
        BY <1>1, <1>2, <3>4, ReachedIsComing
      <4>2. cursor'.pos > m
        BY <3>4
      <4>3. Coming(fileTokens', cursor'.pos, stack') /\ cursor'.pos \in PlacesIn(fileTokens')
        BY <1>1, <3>4, <4>1
      <4> QED
        BY <3>2, <4>2, <4>3 DEF Reaches, Resumed
    <3> QED
      BY <3>2, <3>3, <3>4 DEF Reaches
  <2>3. CASE cursor.pos > m /\ cursor.pos \in PlacesIn(fileTokens) /\ Coming(fileTokens, cursor.pos, stack)
    <3>1. Ahead
      BY <1>1, <2>3 DEF Ahead
    <3>2. Passes
      BY <3>1, StepPasses
    <3>3. cursor'.errors = cursor.errors
      BY <3>2 DEF Passes
    <3>4. ErrorsUpTo(cursor', m)
      BY <2>1, <3>3 DEF Resumed, ErrorsUpTo
    <3>5. cursor'.pos > m
      <4>1. cursor.pos \in Nat /\ cursor'.pos \in Nat /\ cursor.pos <= cursor'.pos
        BY <2>3, <3>2 DEF Passes, PlacesIn
      <4> QED
        BY <2>3, <4>1
    <3>6. Coming(fileTokens', cursor'.pos, stack') /\ cursor'.pos \in PlacesIn(fileTokens')
      BY <1>1, <3>2 DEF Passes
    <3> QED
      BY <3>4, <3>5, <3>6 DEF Resumed
  <2> QED
    BY <2>1, <2>2, <2>3 DEF Resumed
<1> QED
  BY <1>1, <1>2 DEF ResumingInv

\* Parsing resumes behind every semicolon outside braces that a file of the grammar
\* follows, and at the beginning of the file.
THEOREM ResumingInductive == ParserSpec => []ResumingInv
<1>1. ParserInit => ResumingInv
  <2> SUFFICES ASSUME ParserInit PROVE ResumingInv
    OBVIOUS
  <2>1. fileTokens \in Text /\ cursor = [pos |-> 1, errors |-> <<>>, lastErrorPlace |-> 0] /\ stack = <<>>
    BY ParserAssumption DEF ParserInit, Text
  <2>2. ASSUME NEW m \in 0..Len(fileTokens), Restart(fileTokens, m)
        PROVE  Resumed(m)
    <3>1. cursor.pos = 1 /\ cursor.errors = <<>> /\ Len(fileTokens) \in Nat
      BY <2>1 DEF Text
    <3>2. ErrorsUpTo(cursor, m) /\ Outside(stack)
      BY <2>1, <3>1 DEF ErrorsUpTo, Outside
    <3>3. CASE m = 0
      <4>1. Coming(fileTokens, m + 1, stack) /\ m + 1 \in PlacesIn(fileTokens)
        BY <2>1, <2>2, ReachedIsComing
      <4> QED
        BY <3>1, <3>2, <3>3, <4>1 DEF Resumed
    <3>4. CASE m # 0
      <4>1. cursor.pos \in 1..m
        BY <3>1, <3>4
      <4> QED
        BY <3>2, <4>1 DEF Resumed
    <3> QED
      BY <3>3, <3>4
  <2> QED
    BY <2>1, <2>2 DEF ResumingInv
<1>2. CursorOK(cursor) /\ CursorOK(cursor)' /\ ResumingInv /\ [ParserNext]_parserVars => ResumingInv'
  BY ResumingStep
<1> QED
  BY <1>1, <1>2, CursorInductive, PTL DEF ParserSpec

\* A file in the grammar is read without a complaint.
THEOREM GrammarAccepted == ParserSpec => []AcceptsGrammar
<1>1. CursorOK(cursor) /\ ResumingInv => AcceptsGrammar
  <2> SUFFICES ASSUME CursorOK(cursor), ResumingInv, fileTokens \in WellFormed PROVE cursor.errors = <<>>
    BY DEF AcceptsGrammar
  <2>1. fileTokens \in Text /\ Len(fileTokens) \in Nat /\ IsFile(fileTokens)
    BY WellFormedFiles DEF ResumingInv, Text
  <2>2. Cut(fileTokens, 0 + 1, Len(fileTokens) + 1) = fileTokens
    BY <2>1 DEF Cut, Text
  <2>3. 0 \in 0..Len(fileTokens) /\ 1..0 = {}
    BY <2>1
  <2>4. Restart(fileTokens, 0)
    BY <2>1, <2>2, <2>3 DEF Restart
  <2>5. ErrorsUpTo(cursor, 0)
    BY <2>3, <2>4 DEF ResumingInv, Resumed
  <2>6. PICK s : s = cursor.errors
    OBVIOUS
  <2>7. s \in Seq(Places)
    BY <2>6 DEF CursorOK, Cursors
  <2>8. \A i \in 1..Len(s) : s[i] <= 0 /\ s[i] \in Places
    BY <2>5, <2>6, <2>7 DEF ErrorsUpTo
  <2>9. Len(s) = 0
    BY <2>7, <2>8 DEF Places
  <2> QED
    BY <2>6, <2>7, <2>9, EmptySeq
<1> QED
  BY <1>1, ResumingInductive, CursorInductive, PTL

\* Behind a semicolon outside braces the parser has recovered.
THEOREM RecoveryCorrect == ParserSpec => []RecoversAtSemicolon
<1>1. ResumingInv => RecoversAtSemicolon
  <2> SUFFICES ASSUME ResumingInv, NEW k \in 1..Len(fileTokens), fileTokens[k] = "semicolon",
                      \A i \in 1..k : fileTokens[i] \notin {"lbrace", "rbrace"},
                      SubSeq(fileTokens, k + 1, Len(fileTokens)) \in WellFormed
               PROVE  \A i \in 1..Len(cursor.errors) : cursor.errors[i] <= k
    BY DEF RecoversAtSemicolon
  <2>1. fileTokens \in Text /\ Len(fileTokens) \in Nat
    BY DEF ResumingInv, Text
  <2>2. k \in 0..Len(fileTokens) /\ (Len(fileTokens) + 1) - 1 = Len(fileTokens)
    BY <2>1
  <2>3. Cut(fileTokens, k + 1, Len(fileTokens) + 1) = SubSeq(fileTokens, k + 1, Len(fileTokens))
    BY <2>2 DEF Cut
  <2>4. IsFile(Cut(fileTokens, k + 1, Len(fileTokens) + 1))
    BY <2>3, WellFormedFiles
  <2>5. Restart(fileTokens, k)
    BY <2>2, <2>4 DEF Restart
  <2>6. ErrorsUpTo(cursor, k)
    BY <2>2, <2>5 DEF ResumingInv, Resumed
  <2> QED
    BY <2>6 DEF ErrorsUpTo
<1> QED
  BY <1>1, ResumingInductive, PTL
=============================================================================
