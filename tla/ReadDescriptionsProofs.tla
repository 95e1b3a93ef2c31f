------------------------ MODULE ReadDescriptionsProofs ------------------------
(* Reading the configuration: command lines of every length are split as their quotes
   say, and the descriptions of every tree are closed. *)
EXTENDS ReadDescriptions, SequenceLemmas

-----------------------------------------------------------------------------
(* Splitting a command line *)

Separators(value) == {k \in 1..Len(value) : Open(value)[k] = "none" /\ value[k] \in Space}
Marks(value) == {k \in 1..Len(value) : value[k] \in Quotes /\ Open(value)[k] \in {"none", value[k]}}
Starts(value) ==
    {k \in 1..Len(value) : k \notin Separators(value) /\ (k = 1 \/ k - 1 \in Separators(value))}

\* The first separator from i on.
EndOf(value, i) == Min({j \in Separators(value) : j >= i} \cup {Len(value) + 1})

\* What of the text from i on belongs to the argument there.
Kept(value, i) == Picked(value, (i..EndOf(value, i) - 1) \ Marks(value))

\* std::find_if
LEMMA FirstInFacts ==
    ASSUME NEW W, NEW value \in Seq(W), NEW i \in 1..Len(value) + 1, NEW chars
    PROVE  LET first == FirstIn(value, i, chars) IN
           /\ first \in i..Len(value) + 1
           /\ first <= Len(value) => value[first] \in chars
           /\ \A j \in i..first - 1 : value[j] \notin chars
<1> DEFINE T == {j \in i..Len(value) : value[j] \in chars} \cup {Len(value) + 1}
           first == FirstIn(value, i, chars)
<1>1. Len(value) \in Nat
  OBVIOUS
<1>2. T \subseteq Nat /\ T # {} /\ first = Min(T)
  BY <1>1 DEF FirstIn
<1>3. first \in T /\ \A y \in T : first <= y
  <2> HIDE DEF T
  <2> QED
    BY <1>2, MinFacts
<1> HIDE DEF first
<1>4. first \in i..Len(value) + 1 /\ (first <= Len(value) => value[first] \in chars)
  BY <1>1, <1>3
<1>5. ASSUME NEW j \in i..first - 1, value[j] \in chars
      PROVE  FALSE
  <2>1. j \in T /\ j < first /\ j \in Nat /\ first \in Nat
    BY <1>1, <1>4, <1>5
  <2> QED
    BY <1>3, <2>1
<1> QED
  BY <1>4, <1>5 DEF first

\* std::find_if with the opposite condition.
LEMMA FirstNotInFacts ==
    ASSUME NEW W, NEW value \in Seq(W), NEW i \in 1..Len(value) + 1, NEW chars
    PROVE  LET first == FirstNotIn(value, i, chars) IN
           /\ first \in i..Len(value) + 1
           /\ first <= Len(value) => value[first] \notin chars
           /\ \A j \in i..first - 1 : value[j] \in chars
<1> DEFINE T == {j \in i..Len(value) : value[j] \notin chars} \cup {Len(value) + 1}
           first == FirstNotIn(value, i, chars)
<1>1. Len(value) \in Nat
  OBVIOUS
<1>2. T \subseteq Nat /\ T # {} /\ first = Min(T)
  BY <1>1 DEF FirstNotIn
<1>3. first \in T /\ \A y \in T : first <= y
  <2> HIDE DEF T
  <2> QED
    BY <1>2, MinFacts
<1> HIDE DEF first
<1>4. first \in i..Len(value) + 1 /\ (first <= Len(value) => value[first] \notin chars)
  BY <1>1, <1>3
<1>5. ASSUME NEW j \in i..first - 1, value[j] \notin chars
      PROVE  FALSE
  <2>1. j \in T /\ j < first /\ j \in Nat /\ first \in Nat
    BY <1>1, <1>4, <1>5
  <2> QED
    BY <1>3, <2>1
<1> QED
  BY <1>4, <1>5 DEF first

\* A character opens a quote, closes it or leaves it.
After(quote, c) ==
    IF quote = "none" THEN IF c \in Quotes THEN c ELSE "none" ELSE IF c = quote THEN "none" ELSE quote

\* The recursion of Open has a solution.
LEMMA OpenFacts ==
    ASSUME NEW W, NEW value \in Seq(W)
    PROVE  /\ Open(value)[1] = "none"
           /\ \A k \in 1..Len(value) : Open(value)[k + 1] = After(Open(value)[k], value[k])
<1> DEFINE N == Len(value)
           V == Quotes \cup {"none"}
           step == [k \in 1..N + 1 |-> [v \in V |-> After(v, value[k - 1])]]
           Is(f) == f = [k \in 1..N + 1 |->
                           IF k = 1 THEN "none"
                           ELSE LET c == value[k - 1] IN
                                IF f[k - 1] = "none" THEN IF c \in Quotes THEN c ELSE "none"
                                ELSE IF c = f[k - 1] THEN "none" ELSE f[k - 1]]
<1>1. N \in Nat
  OBVIOUS
<1>2. "none" \in V /\ \A v \in V : \A c : After(v, c) \in V
  BY DEF After
<1>3. step \in [1..N + 1 -> [V -> V]] /\ \A k \in 1..N + 1, v \in V : step[k][v] = After(v, value[k - 1])
  <2> HIDE DEF V
  <2> QED
    BY <1>2
<1>4. PICK f : Iterates(f, V, 1, N + 1, "none", step)
  <2> HIDE DEF V, step, N
  <2>1. 1 \in Nat /\ N + 1 \in Nat /\ 1 <= N + 1
    BY <1>1
  <2> QED
    BY <1>2, <1>3, <2>1, Iteration
<1> HIDE DEF step, N
<1>5. f \in [1..N + 1 -> V] /\ f[1] = "none" /\ \A k \in 2..N + 1 : f[k] = After(f[k - 1], value[k - 1])
  <2>1. /\ f \in [1..N + 1 -> V] /\ f[1] = "none"
        /\ \A k \in 1 + 1..N + 1 : f[k] = step[k][f[k - 1]]
    BY <1>4 DEF Iterates
  <2> HIDE DEF V
  <2>2. \A k \in 2..N + 1 : k \in 1..N + 1 /\ k - 1 \in 1..N + 1 /\ k \in 1 + 1..N + 1
    BY <1>1
  <2>3. \A k \in 2..N + 1 : f[k - 1] \in V
    BY <2>1, <2>2
  <2> QED
    BY <1>3, <2>1, <2>2, <2>3
<1>6. Is(f)
  <2>1. ASSUME NEW k \in 1..N + 1
        PROVE  f[k] = IF k = 1 THEN "none"
                      ELSE LET c == value[k - 1] IN
                           IF f[k - 1] = "none" THEN IF c \in Quotes THEN c ELSE "none"
                           ELSE IF c = f[k - 1] THEN "none" ELSE f[k - 1]
    <3>1. k # 1 => k \in 2..N + 1
      BY <1>1
    <3> QED
      BY <1>5, <3>1 DEF After
  <2> HIDE DEF V
  <2> QED
    BY <1>5, <2>1
<1>7. Is(Open(value))
  <2>1. Open(value) = CHOOSE g : Is(g)
    BY DEF Open, N
  <2> HIDE DEF Is
  <2> QED
    BY <1>6, <2>1
<1>8. Open(value)[1] = "none"
  <2>1. 1 \in 1..N + 1
    BY <1>1
  <2> QED
    BY <1>7, <2>1
<1>9. ASSUME NEW k \in 1..N
      PROVE  Open(value)[k + 1] = After(Open(value)[k], value[k])
  <2>1. k + 1 \in 1..N + 1 /\ k + 1 # 1 /\ (k + 1) - 1 = k
    BY <1>1
  <2> QED
    BY <1>7, <2>1 DEF After
<1> QED
  BY <1>8, <1>9 DEF N

\* The null at the end is white space; no character is white space and a quote.
LEMMA CharFacts ==
    ASSUME NEW W, NEW value \in Seq(W)
    PROVE  /\ Len(value) \in Nat
           /\ Char(value, Len(value) + 1) \in Space
           /\ \A i \in 1..Len(value) : Char(value, i) = value[i] /\ value[i] \in W
           /\ Quotes \cap Space = {}
<1>1. Len(value) \in Nat /\ \A i \in 1..Len(value) : i # Len(value) + 1 /\ value[i] \in W
  OBVIOUS
<1> QED
  BY <1>1 DEF Char, Space, Quotes

\* The recursion of ReadArgument has a solution.
LEMMA ReadEquation ==
    ASSUME NEW W, NEW value \in Seq(W), NEW i \in 1..Len(value) + 1
    PROVE  ReadArgument(value)[i] =
               IF Char(value, i) \in Quotes
               THEN IF Closing(value, i) > Len(value) THEN None
                    ELSE Behind(SubSeq(value, i + 1, Closing(value, i) - 1),
                                ReadArgument(value)[Closing(value, i) + 1])
               ELSE IF Char(value, i) \in Space THEN Some([arg |-> <<>>, end |-> i])
               ELSE Behind(<<value[i]>>, ReadArgument(value)[i + 1])
<1> DEFINE N == Len(value)
           D == 1..N + 1
           quoted(k) == Char(value, k) \in Quotes
           close(k) == Closing(value, k)
           V == {None} \cup {Some(x) : x \in [arg : Seq(W), end : Nat]}
           stops == {k \in D : IF quoted(k) THEN close(k) > N ELSE Char(value, k) \in Space}
           init == [k \in D |-> IF quoted(k) THEN None ELSE Some([arg |-> <<>>, end |-> k])]
           jump == [k \in D |-> IF quoted(k) THEN close(k) + 1 ELSE k + 1]
           text(k) == IF quoted(k) THEN SubSeq(value, k + 1, close(k) - 1) ELSE <<value[k]>>
           step == [k \in D |-> [v \in V |-> Behind(text(k), v)]]
           Value(f, k) == IF quoted(k)
                          THEN IF close(k) > N THEN None
                               ELSE Behind(SubSeq(value, k + 1, close(k) - 1), f[close(k) + 1])
                          ELSE IF Char(value, k) \in Space THEN Some([arg |-> <<>>, end |-> k])
                          ELSE Behind(<<value[k]>>, f[k + 1])
           Is(f) == f = [k \in D |->
                           CASE Char(value, k) \in Quotes ->
                                  LET c == Closing(value, k) IN
                                  IF c > Len(value) THEN None
                                  ELSE Behind(SubSeq(value, k + 1, c - 1), f[c + 1])
                             [] Char(value, k) \in Space -> Some([arg |-> <<>>, end |-> k])
                             [] OTHER -> Behind(<<value[k]>>, f[k + 1])]
<1>1. /\ N \in Nat /\ Char(value, N + 1) \in Space /\ Quotes \cap Space = {}
      /\ \A k \in 1..N : Char(value, k) = value[k] /\ value[k] \in W
  BY CharFacts
<1>2. ASSUME NEW k \in D
      PROVE  /\ k \notin stops => k \in 1..N
             /\ quoted(k) => k \in 1..N /\ close(k) \in k + 1..N + 1
  <2>1. quoted(k) \/ Char(value, k) \notin Space => k # N + 1
    BY <1>1
  <2>2. k # N + 1 => k \in 1..N
    BY <1>1
  <2>3. ASSUME k \in 1..N PROVE close(k) \in k + 1..N + 1
    <3>1. k + 1 \in 1..N + 1
      BY <1>1, <2>3
    <3> QED
      BY <3>1, FirstInFacts DEF Closing
  <2> QED
    BY <2>1, <2>2, <2>3
<1>3. \A k \in D : k \in stops => init[k] \in V
  <2>1. \A k \in D : [arg |-> <<>>, end |-> k] \in [arg : Seq(W), end : Nat]
    BY <1>1, EmptySeq
  <2> QED
    BY <2>1
<1>4. \A k \in D : k \notin stops => jump[k] \in k + 1..N + 1
  BY <1>1, <1>2
<1>5. ASSUME NEW k \in D, k \notin stops
      PROVE  text(k) \in Seq(W)
  <2>1. CASE quoted(k)
    <3>1. k + 1 \in Int /\ close(k) - 1 \in Int /\ \A j \in k + 1..close(k) - 1 : value[j] \in W
      BY <1>1, <1>2, <2>1
    <3>2. SubSeq(value, k + 1, close(k) - 1) \in Seq(W)
      <4> HIDE DEF close
      <4> QED
        BY <3>1, SubSeqProperties
    <3> QED
      BY <2>1, <3>2
  <2>2. CASE ~quoted(k)
    BY <1>1, <1>2, <1>5, <2>2, TupleFacts
  <2> QED
    BY <2>1, <2>2
<1>6. ASSUME NEW t \in Seq(W), NEW v \in V
      PROVE  Behind(t, v) \in V
  <2>1. CASE v = None
    BY <2>1 DEF Behind
  <2>2. CASE v # None
    <3>1. PICK x \in [arg : Seq(W), end : Nat] : v = Some(x)
      BY <2>2
    <3>2. v[1] = x
      BY <3>1 DEF Some
    <3>3. x.arg \in Seq(W) /\ t \o x.arg \in Seq(W)
      BY <3>1, ConcatProperties
    <3>4. [x EXCEPT !.arg = t \o @] \in [arg : Seq(W), end : Nat]
      BY <3>1, <3>3
    <3> QED
      BY <2>2, <3>2, <3>4 DEF Behind
  <2> QED
    BY <2>1, <2>2
<1>7. \A k \in D : \A v \in V : step[k][v] = Behind(text(k), v)
  <2> HIDE DEF V, text
  <2> QED
    OBVIOUS
<1>8. \A k \in D : k \notin stops => \A v \in V : step[k][v] \in V
  <2> HIDE DEF V, text, step, stops, D
  <2> QED
    BY <1>5, <1>6, <1>7
<1>9. PICK f : Descends(f, V, N + 1, stops, init, jump, step)
  <2> HIDE DEF V, stops, init, jump, step
  <2>1. N + 1 \in Nat
    BY <1>1
  <2> HIDE DEF N
  <2> QED
    BY <1>3, <1>4, <1>8, <2>1, Descent
<1>10. f \in [D -> V] /\ \A k \in D : f[k] = IF k \in stops THEN init[k] ELSE step[k][f[jump[k]]]
  BY <1>9 DEF Descends
<1>11. ASSUME NEW k \in D
       PROVE  f[k] = Value(f, k)
  <2>1. CASE k \in stops
    <3>1. f[k] = init[k]
      BY <1>10, <2>1
    <3>2. init[k] = IF quoted(k) THEN None ELSE Some([arg |-> <<>>, end |-> k])
      OBVIOUS
    <3>3. IF quoted(k) THEN close(k) > N ELSE Char(value, k) \in Space
      BY <2>1
    <3> HIDE DEF init, stops
    <3> QED
      BY <3>1, <3>2, <3>3
  <2>2. CASE k \notin stops
    <3>1. f[k] = step[k][f[jump[k]]] /\ jump[k] \in D
      <4>1. k + 1..N + 1 \subseteq D
        BY <1>1
      <4> HIDE DEF stops, init, jump, step
      <4> QED
        BY <1>4, <1>10, <2>2, <4>1
    <3>2. f[jump[k]] \in V
      <4> HIDE DEF stops, init, jump, step, V
      <4> QED
        BY <1>10, <3>1
    <3>3. f[k] = Behind(text(k), f[jump[k]])
      <4> HIDE DEF stops, init, jump, step, V, text
      <4> QED
        BY <1>7, <3>1, <3>2
    <3>4. jump[k] = IF quoted(k) THEN close(k) + 1 ELSE k + 1
      OBVIOUS
    <3>5. ~(IF quoted(k) THEN close(k) > N ELSE Char(value, k) \in Space)
      BY <2>2
    <3> HIDE DEF stops, jump
    <3> QED
      BY <3>3, <3>4, <3>5
  <2> QED
    BY <2>1, <2>2
<1>12. ASSUME NEW g, NEW k
       PROVE  (CASE Char(value, k) \in Quotes ->
                      LET c == Closing(value, k) IN
                      IF c > Len(value) THEN None
                      ELSE Behind(SubSeq(value, k + 1, c - 1), g[c + 1])
                 [] Char(value, k) \in Space -> Some([arg |-> <<>>, end |-> k])
                 [] OTHER -> Behind(<<value[k]>>, g[k + 1]))
              = Value(g, k)
  <2>1. ~(Char(value, k) \in Quotes /\ Char(value, k) \in Space)
    BY <1>1
  <2> QED
    BY <2>1
<1>13. Is(f)
  <2>1. f = [k \in D |-> Value(f, k)]
    <3> HIDE DEF Value, V
    <3> QED
      BY <1>10, <1>11
  <2> HIDE DEF Value
  <2> QED
    BY <1>12, <2>1
<1>14. Is(ReadArgument(value))
  <2>1. ReadArgument(value) = CHOOSE g : Is(g)
    BY DEF ReadArgument
  <2> HIDE DEF Is
  <2> QED
    BY <1>13, <2>1
<1>15. ReadArgument(value)[i] = Value(ReadArgument(value), i)
  <2> HIDE DEF Value
  <2> QED
    BY <1>12, <1>14
<1> QED
  BY <1>15

\* The end of an argument.
LEMMA EndOfFacts ==
    ASSUME NEW W, NEW value \in Seq(W), NEW i \in 1..Len(value) + 1
    PROVE  /\ EndOf(value, i) \in i..Len(value) + 1
           /\ EndOf(value, i) # Len(value) + 1 => EndOf(value, i) \in Separators(value)
           /\ \A j \in i..EndOf(value, i) - 1 : j \notin Separators(value)
<1> DEFINE N == Len(value)
           T == {j \in Separators(value) : j >= i} \cup {N + 1}
           end == EndOf(value, i)
<1>1. N \in Nat /\ Separators(value) \subseteq 1..N
  <2>1. N \in Nat
    OBVIOUS
  <2> QED
    BY <2>1, Zenon DEF Separators
<1>2. T \subseteq Nat /\ T # {} /\ end = Min(T)
  BY <1>1 DEF EndOf
<1>3. end \in T /\ \A y \in T : end <= y
  <2> HIDE DEF T
  <2> QED
    BY <1>2, MinFacts
<1> HIDE DEF end, N
<1>4. end \in i..N + 1 /\ (end # N + 1 => end \in Separators(value))
  BY <1>1, <1>3 DEF N
<1>5. ASSUME NEW j \in i..end - 1, j \in Separators(value)
      PROVE  FALSE
  <2>1. j \in T /\ j < end /\ j \in Nat /\ end \in Nat
    BY <1>1, <1>4, <1>5
  <2> QED
    BY <1>3, <2>1
<1> QED
  BY <1>4, <1>5 DEF end, N

\* What it depends on.
LEMMA EndOfIs ==
    ASSUME NEW W, NEW value \in Seq(W), NEW i \in 1..Len(value) + 1, NEW m \in i..Len(value) + 1,
           \A j \in i..m - 1 : j \notin Separators(value)
    PROVE  /\ EndOf(value, i) = EndOf(value, m)
           /\ m \in Separators(value) \cup {Len(value) + 1} => EndOf(value, i) = m
<1> DEFINE N == Len(value)
           a == EndOf(value, i)
           b == EndOf(value, m)
<1>1. N \in Nat /\ m \in 1..N + 1
  OBVIOUS
<1>2. /\ a \in i..N + 1 /\ (a # N + 1 => a \in Separators(value)) /\ \A j \in i..a - 1 : j \notin Separators(value)
      /\ b \in m..N + 1 /\ (b # N + 1 => b \in Separators(value)) /\ \A j \in m..b - 1 : j \notin Separators(value)
  BY <1>1, EndOfFacts
<1> HIDE DEF a, b, N
<1>3. a >= m
  <2> SUFFICES ASSUME a < m PROVE FALSE
    BY <1>1, <1>2
  <2>1. a \in i..m - 1 /\ a # N + 1
    BY <1>1, <1>2
  <2> QED
    BY <1>2, <2>1
<1>4. ~(a < b)
  <2> SUFFICES ASSUME a < b PROVE FALSE
    OBVIOUS
  <2>1. a \in m..b - 1 /\ a # N + 1
    BY <1>1, <1>2, <1>3
  <2> QED
    BY <1>2, <2>1
<1>5. ~(b < a)
  <2> SUFFICES ASSUME b < a PROVE FALSE
    OBVIOUS
  <2>1. b \in i..a - 1 /\ b # N + 1
    BY <1>1, <1>2
  <2> QED
    BY <1>2, <2>1
<1>6. a = b
  BY <1>1, <1>2, <1>4, <1>5
<1>7. ASSUME m \in Separators(value) \cup {N + 1}
      PROVE  a = m
  <2>1. m \in i..a - 1 => m \notin Separators(value) /\ m # N + 1
    BY <1>1, <1>2
  <2> QED
    BY <1>1, <1>2, <1>3, <1>7, <2>1
<1> QED
  BY <1>6, <1>7 DEF a, b, N

\* Between the quotes a quote is open, and behind them none.
LEMMA QuoteSpan ==
    ASSUME NEW W, NEW value \in Seq(W), NEW i \in 1..Len(value), Open(value)[i] = "none", value[i] \in Quotes
    PROVE  LET close == Closing(value, i) IN
           /\ close \in i + 1..Len(value) + 1
           /\ \A j \in i + 1..close : Open(value)[j] = value[i]
           /\ close <= Len(value) => value[close] = value[i] /\ Open(value)[close + 1] = "none"
           /\ \A j \in i + 1..close - 1 : value[j] # value[i]
           /\ value[i] # "none"
<1> DEFINE N == Len(value)
           q == value[i]
           close == Closing(value, i)
           S == {j \in i + 1..close : Open(value)[j] = q}
<1>1. /\ N \in Nat /\ i \in 1..N /\ i + 1 \in 1..N + 1 /\ q # "none"
      /\ \A k \in 1..N : Open(value)[k + 1] = After(Open(value)[k], value[k])
  <2>1. N \in Nat /\ i \in 1..N /\ i + 1 \in 1..N + 1
    OBVIOUS
  <2>2. q # "none"
    BY DEF Quotes
  <2>3. \A k \in 1..N : Open(value)[k + 1] = After(Open(value)[k], value[k])
    BY OpenFacts
  <2> QED
    BY <2>1, <2>2, <2>3
<1>2. /\ close \in i + 1..N + 1
      /\ close <= N => value[close] = q
      /\ \A j \in i + 1..close - 1 : value[j] # q
  <2>1. /\ close \in i + 1..N + 1
        /\ close <= N => value[close] \in {q}
        /\ \A j \in i + 1..close - 1 : value[j] \notin {q}
    BY <1>1, FirstInFacts DEF Closing
  <2> QED
    BY <2>1
<1> HIDE DEF close, N
<1>3. i + 1 \in S
  <2>1. i + 1 \in i + 1..close
    BY <1>1, <1>2
  <2>2. Open(value)[i + 1] = q
    BY <1>1, <1>2 DEF After
  <2> QED
    BY <2>1, <2>2
<1>4. ASSUME NEW n \in i + 1..close - 1, n \in S
      PROVE  n + 1 \in S
  <2>1. n \in 1..N /\ n + 1 \in i + 1..close
    BY <1>1, <1>2
  <2>2. Open(value)[n + 1] = After(q, value[n]) /\ value[n] # q
    BY <1>1, <1>2, <1>4, <2>1
  <2> QED
    BY <1>1, <2>1, <2>2 DEF After
<1>5. i + 1..close \subseteq S
  <2>1. i + 1 \in Nat /\ close \in Nat
    BY <1>1, <1>2
  <2> HIDE DEF S
  <2> QED
    BY <1>3, <1>4, <2>1, SetInduction
<1>6. ASSUME close <= N PROVE Open(value)[close + 1] = "none"
  <2>1. close \in 1..N /\ close \in i + 1..close
    BY <1>1, <1>2, <1>6
  <2>2. Open(value)[close] = q
    BY <1>5, <2>1
  <2> QED
    BY <1>1, <1>2, <1>6, <2>1, <2>2 DEF After
<1> QED
  BY <1>1, <1>2, <1>5, <1>6 DEF close, N

\* The inner loop reads the argument that the quotes and separators describe.
ReadsRight(value, i) ==
    ReadArgument(value)[i] =
        IF EndOf(value, i) = Len(value) + 1 /\ Open(value)[Len(value) + 1] # "none" THEN None
        ELSE Some([arg |-> Kept(value, i), end |-> EndOf(value, i)])

\* It goes on like that with the next round.
LEMMA BehindRight ==
    ASSUME NEW value, NEW t, NEW i, NEW j,
           ReadsRight(value, j), EndOf(value, i) = EndOf(value, j),
           Kept(value, i) = t \o Kept(value, j),
           ReadArgument(value)[i] = Behind(t, ReadArgument(value)[j])
    PROVE  ReadsRight(value, i)
<1> DEFINE a == Kept(value, j)
           n == EndOf(value, j)
           x == [arg |-> a, end |-> n]
           open == n = Len(value) + 1 /\ Open(value)[Len(value) + 1] # "none"
<1>1. ReadArgument(value)[j] = IF open THEN None ELSE Some(x)
  BY DEF ReadsRight
<1> HIDE DEF a, n
<1>2. Behind(t, None) = None
  BY DEF Behind
<1>3. Behind(t, Some(x)) = Some([arg |-> t \o a, end |-> n])
  <2>1. Some(x) # None /\ Some(x)[1] = x
    BY DEF Some, None
  <2>2. [x EXCEPT !.arg = t \o @] = [arg |-> t \o a, end |-> n]
    <3> DEFINE y == t \o a
    <3>1. x.arg = a
      OBVIOUS
    <3>2. [x EXCEPT !.arg = y] = [arg |-> y, end |-> n]
      <4> HIDE DEF y
      <4> QED
        OBVIOUS
    <3> HIDE DEF x
    <3> QED
      BY <3>1, <3>2
  <2> HIDE DEF x
  <2> QED
    BY <2>1, <2>2 DEF Behind
<1>4. ReadArgument(value)[i] = IF open THEN None ELSE Some([arg |-> t \o a, end |-> n])
  <2> HIDE DEF x
  <2> QED
    BY <1>1, <1>2, <1>3
<1> QED
  BY <1>4 DEF ReadsRight, a, n

\* The inner loop reads an argument right when it does so from every later position.
LEMMA ReadStep ==
    ASSUME NEW W, NEW value \in Seq(W), NEW i \in 1..Len(value) + 1, Open(value)[i] = "none",
           \A j \in i + 1..Len(value) + 1 : Open(value)[j] = "none" => ReadsRight(value, j)
    PROVE  ReadsRight(value, i)
<1> DEFINE N == Len(value)
           Sep == Separators(value)
           M == Marks(value)
           r == ReadArgument(value)
<1>1. /\ N \in Nat /\ i \in 1..N + 1 /\ Char(value, N + 1) \in Space /\ Quotes \cap Space = {}
      /\ \A k \in 1..N : Char(value, k) = value[k] /\ value[k] \in W
  BY CharFacts
<1>2. /\ \A k \in 1..N : k \in Sep <=> Open(value)[k] = "none" /\ value[k] \in Space
      /\ \A k \in 1..N : k \in M <=> value[k] \in Quotes /\ Open(value)[k] \in {"none", value[k]}
      /\ Sep \subseteq 1..N /\ M \subseteq 1..N /\ DOMAIN value = 1..N
  <2>1. DOMAIN value = 1..N
    OBVIOUS
  <2> QED
    BY <2>1, Zenon DEF Separators, Marks
<1>3. /\ \A k \in 1..N : Open(value)[k + 1] = After(Open(value)[k], value[k])
      /\ Picked(value, {}) = <<>>
  BY OpenFacts, PickedFew
<1>4. \A j \in 1..N + 1 : EndOf(value, j) \in j..N + 1
  BY EndOfFacts
<1>5. \A j \in 1..N + 1 : Kept(value, j) = Picked(value, (j..EndOf(value, j) - 1) \ M)
  BY DEF Kept
<1> HIDE DEF N, Sep, M
<1>6. CASE Char(value, i) \in Quotes
  <2> DEFINE c == Closing(value, i)
             q == value[i]
  <2>1. i \in 1..N /\ q \in Quotes
    <3>1. i # N + 1
      BY <1>1, <1>6
    <3> QED
      BY <1>1, <1>6, <3>1 DEF N
  <2>2. /\ c \in i + 1..N + 1 /\ q # "none"
        /\ \A j \in i + 1..c : Open(value)[j] = q
        /\ c <= N => value[c] = q /\ Open(value)[c + 1] = "none"
        /\ \A j \in i + 1..c - 1 : value[j] # q
    BY <2>1, QuoteSpan DEF N
  <2>3. r[i] = IF c > N THEN None ELSE Behind(SubSeq(value, i + 1, c - 1), r[c + 1])
    BY <1>6, ReadEquation DEF N
  <2> HIDE DEF c, q
  <2>4. ASSUME NEW j \in i..c, j \in 1..N
        PROVE  j \notin Sep
    <3>1. CASE j = i
      BY <1>1, <1>2, <2>1, <3>1 DEF q
    <3>2. CASE j # i
      <4>1. j \in i + 1..c
        BY <2>1, <2>2, <3>2
      <4> QED
        BY <1>2, <2>2, <2>4, <4>1
    <3> QED
      BY <3>1, <3>2
  <2>5. CASE c > N
    <3>1. c = N + 1 /\ c \in i + 1..c
      BY <1>1, <2>1, <2>2, <2>5
    <3>2. Open(value)[N + 1] # "none"
      BY <2>2, <3>1
    <3>3. \A j \in i..(N + 1) - 1 : j \notin Sep
      <4>1. \A j \in i..(N + 1) - 1 : j \in i..c /\ j \in 1..N
        BY <1>1, <2>1, <3>1
      <4> QED
        BY <2>4, <4>1
    <3>4. N + 1 \in i..N + 1
      BY <1>1, <2>1
    <3>5. EndOf(value, i) = N + 1
      BY <3>3, <3>4, EndOfIs DEF N, Sep
    <3> QED
      BY <2>3, <2>5, <3>2, <3>5 DEF ReadsRight, N
  <2>6. CASE ~(c > N)
    <3> DEFINE n == EndOf(value, i)
               t == SubSeq(value, i + 1, c - 1)
               A == i + 1..c - 1
               B == (c + 1..n - 1) \ M
    <3>1. /\ c \in 1..N /\ c + 1 \in i + 1..N + 1 /\ c + 1 \in i..N + 1 /\ c + 1 \in 1..N + 1
          /\ i <= c - 1 /\ c \in i + 1..c /\ i + 1 <= c
      BY <1>1, <2>1, <2>2, <2>6
    <3>2. ReadsRight(value, c + 1)
      BY <2>2, <2>6, <3>1 DEF N
    <3>3. \A j \in i..(c + 1) - 1 : j \notin Sep
      <4>1. \A j \in i..(c + 1) - 1 : j \in i..c /\ j \in 1..N
        BY <1>1, <2>1, <3>1
      <4> QED
        BY <2>4, <4>1
    <3>4. n = EndOf(value, c + 1) /\ n \in c + 1..N + 1
      <4>1. n = EndOf(value, c + 1)
        BY <3>1, <3>3, EndOfIs DEF N, Sep
      <4> QED
        BY <1>4, <3>1, <4>1
    <3> HIDE DEF n
    <3>5. i \in M /\ c \in M
      <4>1. Open(value)[c] = q /\ value[c] = q
        BY <2>2, <2>6, <3>1
      <4> QED
        BY <1>2, <2>1, <3>1, <4>1 DEF q
    <3>6. ASSUME NEW j \in A PROVE j \notin M
      <4>1. j \in 1..N /\ j \in i + 1..c
        BY <1>1, <2>1, <3>1
      <4>2. Open(value)[j] = q /\ value[j] # q
        BY <2>2, <4>1
      <4> QED
        BY <1>2, <2>2, <4>1, <4>2
    <3>7. (i..n - 1) \ M = A \cup B
      <4>1. \A j \in i..n - 1 : j = i \/ j \in A \/ j = c \/ j \in c + 1..n - 1
        BY <1>1, <2>1, <3>1, <3>4
      <4>2. \A j \in A : j \in i..n - 1
        BY <1>1, <2>1, <3>1, <3>4
      <4>3. \A j \in c + 1..n - 1 : j \in i..n - 1
        BY <1>1, <2>1, <3>1, <3>4
      <4> HIDE DEF A
      <4> QED
        BY <3>5, <3>6, <4>1, <4>2, <4>3
    <3>8. A \subseteq DOMAIN value /\ B \subseteq DOMAIN value /\ \A x \in A, y \in B : x < y
      BY <1>1, <1>2, <2>1, <3>1, <3>4
    <3>9. Picked(value, A) = t
      <4>1. i + 1 \in Nat /\ c - 1 \in Nat /\ i + 1 >= 1 /\ c - 1 <= Len(value) /\ i + 1 <= (c - 1) + 1
        BY <1>1, <2>1, <3>1 DEF N
      <4> QED
        BY <4>1, PickedInterval
    <3>10. Picked(value, A \cup B) = Picked(value, A) \o Picked(value, B)
      <4> HIDE DEF A, B
      <4> QED
        BY <3>8, PickedJoin
    <3>11. Kept(value, c + 1) = Picked(value, B)
      BY <1>5, <3>1, <3>4
    <3>12. Kept(value, i) = Picked(value, A \cup B)
      BY <1>5, <3>7 DEF n, N
    <3> HIDE DEF A, B, t
    <3>13. Kept(value, i) = t \o Kept(value, c + 1)
      BY <3>9, <3>10, <3>11, <3>12
    <3>14. r[i] = Behind(t, r[c + 1])
      BY <2>3, <2>6 DEF t
    <3> QED
      BY <3>2, <3>4, <3>13, <3>14, BehindRight DEF n
  <2> QED
    BY <2>5, <2>6
<1>7. CASE Char(value, i) \notin Quotes /\ Char(value, i) \in Space
  <2>1. r[i] = Some([arg |-> <<>>, end |-> i])
    BY <1>7, ReadEquation
  <2>2. i \in Sep \cup {N + 1}
    <3>1. i # N + 1 => i \in 1..N
      BY <1>1 DEF N
    <3> QED
      BY <1>1, <1>2, <1>7, <3>1
  <2>3. EndOf(value, i) = i
    <3>1. i \in i..N + 1 /\ \A j \in i..i - 1 : j \notin Sep
      BY <1>1 DEF N
    <3> QED
      BY <2>2, <3>1, EndOfIs DEF N, Sep
  <2>4. Kept(value, i) = <<>>
    <3>1. (i..i - 1) \ M = {}
      BY <1>1 DEF N
    <3> QED
      BY <1>3, <1>5, <2>3, <3>1 DEF N
  <2>5. i = N + 1 => Open(value)[N + 1] = "none"
    OBVIOUS
  <2> QED
    BY <2>1, <2>3, <2>4, <2>5 DEF ReadsRight, N
<1>8. CASE Char(value, i) \notin Quotes /\ Char(value, i) \notin Space
  <2> DEFINE n == EndOf(value, i)
             t == <<value[i]>>
             B == (i + 1..n - 1) \ M
  <2>1. i \in 1..N /\ value[i] \notin Quotes /\ value[i] \notin Space
    <3>1. i # N + 1
      BY <1>1, <1>8
    <3> QED
      BY <1>1, <1>8, <3>1 DEF N
  <2>2. r[i] = Behind(t, r[i + 1])
    BY <1>8, ReadEquation
  <2>3. i + 1 \in i + 1..N + 1 /\ i + 1 \in i..N + 1 /\ i + 1 \in 1..N + 1
    BY <1>1, <2>1
  <2>4. ReadsRight(value, i + 1)
    <3>1. Open(value)[i + 1] = "none"
      BY <1>3, <2>1 DEF After
    <3> QED
      BY <2>3, <3>1 DEF N
  <2>5. i \notin Sep /\ i \notin M
    BY <1>2, <2>1
  <2>6. n = EndOf(value, i + 1) /\ n \in i + 1..N + 1
    <3>1. \A j \in i..(i + 1) - 1 : j \notin Sep
      <4>1. \A j \in i..(i + 1) - 1 : j = i
        BY <1>1, <2>1
      <4> QED
        BY <2>5, <4>1
    <3>2. n = EndOf(value, i + 1)
      BY <2>3, <3>1, EndOfIs DEF N, Sep
    <3> QED
      BY <1>4, <2>3, <3>2
  <2>7. Kept(value, i) = Picked(value, (i..n - 1) \ M) /\ Kept(value, i + 1) = Picked(value, B)
    <3>1. i \in 1..N + 1
      BY <1>1, <2>1
    <3> QED
      BY <1>5, <2>3, <2>6, <3>1
  <2> HIDE DEF n
  <2>8. (i..n - 1) \ M = {i} \cup B
    <3>1. \A j \in i..n - 1 : j = i \/ j \in i + 1..n - 1
      BY <1>1, <2>1, <2>6
    <3>2. i \in i..n - 1 /\ \A j \in i + 1..n - 1 : j \in i..n - 1
      BY <1>1, <2>1, <2>6
    <3> QED
      BY <2>5, <3>1, <3>2
  <2>9. {i} \subseteq DOMAIN value /\ B \subseteq DOMAIN value /\ \A x \in {i}, y \in B : x < y
    BY <1>1, <1>2, <2>1, <2>6
  <2>10. Picked(value, {i}) = t
    BY <1>2, <2>1, PickedFew
  <2> HIDE DEF B, t
  <2>11. Picked(value, {i} \cup B) = t \o Picked(value, B)
    <3> DEFINE A == {i}
    <3>1. A \subseteq DOMAIN value /\ \A x \in A, y \in B : x < y
      BY <2>9
    <3>2. Picked(value, A) = t
      BY <2>10
    <3> HIDE DEF A
    <3>3. Picked(value, A \cup B) = Picked(value, A) \o Picked(value, B)
      BY <2>9, <3>1, PickedJoin
    <3> QED
      BY <3>2, <3>3 DEF A
  <2>12. Kept(value, i) = t \o Kept(value, i + 1)
    BY <2>7, <2>8, <2>11
  <2> QED
    BY <2>2, <2>4, <2>6, <2>12, BehindRight DEF n
<1> QED
  BY <1>6, <1>7, <1>8

\* The inner loop reads every argument that starts outside quotes right.
LEMMA ArgumentRead ==
    ASSUME NEW W, NEW value \in Seq(W), NEW i \in 1..Len(value) + 1, Open(value)[i] = "none"
    PROVE  ReadsRight(value, i)
<1> DEFINE D == 1..Len(value) + 1
           Bad == {j \in D : Open(value)[j] = "none" /\ ~ReadsRight(value, j)}
           m == Max(Bad)
<1> SUFFICES ASSUME Bad # {} PROVE FALSE
  OBVIOUS
<1>1. Len(value) + 1 \in Nat /\ Bad \subseteq Nat /\ \A x \in Bad : x <= Len(value) + 1
  OBVIOUS
<1>2. m \in Bad /\ \A y \in Bad : y <= m
  <2> HIDE DEF Bad
  <2> QED
    BY <1>1, MaxFacts
<1> HIDE DEF m
<1>3. ASSUME NEW j \in m + 1..Len(value) + 1, Open(value)[j] = "none"
      PROVE  ReadsRight(value, j)
  <2>1. j \in D /\ ~(j <= m)
    BY <1>1, <1>2
  <2> QED
    BY <1>2, <1>3, <2>1
<1>4. m \in D /\ Open(value)[m] = "none" /\ ~ReadsRight(value, m)
  BY <1>2
<1> QED
  BY <1>3, <1>4, ReadStep

\* The inner loop ends, beyond the position where it begins.
Ends(W, value, i) ==
    LET r == ReadArgument(value)[i] IN
    r = None \/ \E x \in [arg : Seq(W), end : i..Len(value) + 1] :
                   r = Some(x) /\ (Char(value, i) \notin Space => x.end # i)

\* The inner loop ends where it should when it does so from every later position.
LEMMA ReadEndsStep ==
    ASSUME NEW W, NEW value \in Seq(W), NEW i \in 1..Len(value) + 1,
           \A j \in i + 1..Len(value) + 1 : Ends(W, value, j)
    PROVE  Ends(W, value, i)
<1> DEFINE N == Len(value)
           r == ReadArgument(value)
<1>1. /\ N \in Nat /\ i \in 1..N + 1 /\ Char(value, N + 1) \in Space /\ Quotes \cap Space = {}
      /\ \A k \in 1..N : Char(value, k) = value[k] /\ value[k] \in W
  BY CharFacts
<1>2. r[i] = IF Char(value, i) \in Quotes
             THEN IF Closing(value, i) > N THEN None
                  ELSE Behind(SubSeq(value, i + 1, Closing(value, i) - 1), r[Closing(value, i) + 1])
             ELSE IF Char(value, i) \in Space THEN Some([arg |-> <<>>, end |-> i])
             ELSE Behind(<<value[i]>>, r[i + 1])
  BY ReadEquation
<1>3. ASSUME NEW j \in i + 1..N + 1, NEW t \in Seq(W), r[i] = Behind(t, r[j])
      PROVE  Ends(W, value, i)
  <2>1. CASE r[j] = None
    BY <1>3, <2>1 DEF Behind, Ends
  <2>2. CASE r[j] # None
    <3>1. PICK x \in [arg : Seq(W), end : j..N + 1] : r[j] = Some(x)
      BY <2>2 DEF Ends
    <3> DEFINE y == [x EXCEPT !.arg = t \o @]
    <3>2. x.arg \in Seq(W) /\ t \o x.arg \in Seq(W) /\ x.end \in j..N + 1
      BY <3>1, ConcatProperties
    <3>3. x.end \in i..N + 1 /\ x.end # i
      BY <1>1, <3>2
    <3>4. y \in [arg : Seq(W), end : i..N + 1] /\ y.end # i
      BY <3>1, <3>2, <3>3
    <3>5. r[i] = Some(y)
      <4>1. r[j][1] = x
        BY <3>1 DEF Some
      <4> QED
        BY <1>3, <2>2, <4>1 DEF Behind
    <3> HIDE DEF y
    <3> QED
      BY <3>4, <3>5 DEF Ends
  <2> QED
    BY <2>1, <2>2
<1> HIDE DEF r
<1>4. CASE Char(value, i) \in Quotes
  <2> DEFINE c == Closing(value, i)
  <2>1. i \in 1..N /\ i + 1 \in 1..N + 1
    BY <1>1, <1>4
  <2>2. c \in i + 1..N + 1
    BY <2>1, FirstInFacts DEF Closing
  <2>3. CASE c > N
    BY <1>2, <1>4, <2>3 DEF Ends, r
  <2>4. CASE ~(c > N)
    <3>1. c + 1 \in i + 1..N + 1 /\ i + 1 \in Int /\ c - 1 \in Int /\ \A j \in i + 1..c - 1 : value[j] \in W
      BY <1>1, <2>1, <2>2, <2>4
    <3>2. SubSeq(value, i + 1, c - 1) \in Seq(W)
      <4> HIDE DEF c
      <4> QED
        BY <3>1, SubSeqProperties
    <3> QED
      BY <1>2, <1>3, <1>4, <2>4, <3>1, <3>2
  <2> QED
    BY <2>3, <2>4
<1>5. CASE Char(value, i) \notin Quotes /\ Char(value, i) \in Space
  <2> DEFINE x == [arg |-> <<>>, end |-> i]
  <2>1. x \in [arg : Seq(W), end : i..N + 1]
    BY <1>1, EmptySeq
  <2>2. r[i] = Some(x)
    BY <1>2, <1>5
  <2> HIDE DEF x
  <2> QED
    BY <1>5, <2>1, <2>2 DEF Ends, r
<1>6. CASE Char(value, i) \notin Quotes /\ Char(value, i) \notin Space
  <2>1. i \in 1..N /\ i + 1 \in i + 1..N + 1
    BY <1>1, <1>6
  <2>2. <<value[i]>> \in Seq(W)
    BY <1>1, <2>1, TupleFacts
  <2> QED
    BY <1>2, <1>3, <1>6, <2>1, <2>2
<1> QED
  BY <1>4, <1>5, <1>6

\* The inner loop ends in the string or at its terminating null, and moves on unless it
\* starts at white space.
LEMMA ReadEnds ==
    ASSUME NEW W, NEW value \in Seq(W), NEW i \in 1..Len(value) + 1
    PROVE  Ends(W, value, i)
<1> DEFINE D == 1..Len(value) + 1
           Bad == {j \in D : ~Ends(W, value, j)}
           m == Max(Bad)
<1> SUFFICES ASSUME Bad # {} PROVE FALSE
  OBVIOUS
<1>1. Len(value) + 1 \in Nat /\ Bad \subseteq Nat /\ \A x \in Bad : x <= Len(value) + 1
  OBVIOUS
<1>2. m \in Bad /\ \A y \in Bad : y <= m
  <2> HIDE DEF Bad
  <2> QED
    BY <1>1, MaxFacts
<1> HIDE DEF m
<1>3. ASSUME NEW j \in m + 1..Len(value) + 1
      PROVE  Ends(W, value, j)
  <2>1. j \in D /\ ~(j <= m)
    BY <1>1, <1>2
  <2> QED
    BY <1>2, <2>1
<1>4. m \in D /\ ~Ends(W, value, m)
  BY <1>2
<1> QED
  BY <1>3, <1>4, ReadEndsStep

\* The outer loop goes on where the inner loop has ended.
InFront(arg, rest) == IF rest = None THEN None ELSE Some(<<arg>> \o rest[1])

\* The recursion of SplitFrom has a solution.
LEMMA SplitEquation ==
    ASSUME NEW W, NEW value \in Seq(W), NEW i \in 1..Len(value) + 1
    PROVE  LET start == FirstNotIn(value, i, Space)
               read == ReadArgument(value)[start]
           IN  SplitFrom(value)[i] =
                   IF start > Len(value) THEN Some(<<>>)
                   ELSE IF read = None THEN None
                   ELSE InFront(read[1].arg, SplitFrom(value)[read[1].end])
<1> DEFINE N == Len(value)
           D == 1..N + 1
           start(k) == FirstNotIn(value, k, Space)
           read(k) == ReadArgument(value)[start(k)]
           V == {None} \cup {Some(x) : x \in Seq(Seq(W))}
           stops == {k \in D : start(k) > N \/ read(k) = None}
           init == [k \in D |-> IF start(k) > N THEN Some(<<>>) ELSE None]
           jump == [k \in D |-> read(k)[1].end]
           step == [k \in D |-> [v \in V |-> InFront(read(k)[1].arg, v)]]
           Value(f, k) == IF start(k) > N THEN Some(<<>>)
                          ELSE IF read(k) = None THEN None
                          ELSE InFront(read(k)[1].arg, f[read(k)[1].end])
           Is(f) == f = [k \in D |->
                           LET st == FirstNotIn(value, k, Space)
                               rd == ReadArgument(value)[st]
                               rest == f[rd[1].end]
                           IN  CASE st > Len(value) -> Some(<<>>)
                                 [] st <= Len(value) /\ rd = None -> None
                                 [] OTHER -> IF rest = None THEN None ELSE Some(<<rd[1].arg>> \o rest[1])]
<1>1. /\ N \in Nat /\ \A k \in 1..N : Char(value, k) = value[k]
  BY CharFacts
<1>2. ASSUME NEW k \in D
      PROVE  start(k) \in k..N + 1 /\ (start(k) <= N => value[start(k)] \notin Space)
  BY FirstNotInFacts
<1>3. ASSUME NEW k \in D, k \notin stops
      PROVE  /\ start(k) \in 1..N
             /\ read(k)[1].end \in k + 1..N + 1
             /\ read(k)[1].arg \in Seq(W)
  <2>1. start(k) \in k..N + 1 /\ ~(start(k) > N) /\ read(k) # None
    BY <1>2, <1>3
  <2>2. start(k) \in 1..N /\ start(k) \in 1..N + 1 /\ start(k) >= k /\ start(k) <= N
    BY <1>1, <2>1
  <2>3. Ends(W, value, start(k))
    BY <2>2, ReadEnds
  <2>4. Char(value, start(k)) \notin Space
    BY <1>1, <1>2, <2>2
  <2>5. PICK x \in [arg : Seq(W), end : start(k)..N + 1] : read(k) = Some(x) /\ x.end # start(k)
    BY <2>1, <2>3, <2>4 DEF Ends
  <2>6. read(k)[1] = x
    BY <2>5 DEF Some
  <2>7. x.arg \in Seq(W) /\ x.end \in start(k)..N + 1
    BY <2>5
  <2> HIDE DEF start, read
  <2>8. x.end \in k + 1..N + 1
    BY <1>1, <2>2, <2>5, <2>7
  <2> QED
    BY <2>2, <2>6, <2>7, <2>8
<1> HIDE DEF start, read
<1>4. \A k \in D : k \in stops => init[k] \in V
  BY EmptySeq
<1>5. \A k \in D : k \notin stops => jump[k] \in k + 1..N + 1
  <2> HIDE DEF stops
  <2> QED
    BY <1>3
<1>6. ASSUME NEW a \in Seq(W), NEW v \in V
      PROVE  InFront(a, v) \in V
  <2>1. CASE v = None
    BY <2>1 DEF InFront
  <2>2. CASE v # None
    <3>1. PICK x \in Seq(Seq(W)) : v = Some(x)
      BY <2>2
    <3>2. v[1] = x
      BY <3>1 DEF Some
    <3>3. <<a>> \o x \in Seq(Seq(W))
      <4> DEFINE U == Seq(W)
      <4>1. a \in U /\ x \in Seq(U)
        BY <3>1
      <4> HIDE DEF U
      <4>2. <<a>> \in Seq(U)
        BY <4>1, TupleFacts
      <4>3. <<a>> \o x \in Seq(U)
        BY <4>1, <4>2, ConcatProperties
      <4> QED
        BY <4>3 DEF U
    <3> QED
      BY <2>2, <3>2, <3>3 DEF InFront
  <2> QED
    BY <2>1, <2>2
<1>7. \A k \in D : \A v \in V : step[k][v] = InFront(read(k)[1].arg, v)
  <2> HIDE DEF V
  <2> QED
    OBVIOUS
<1>8. \A k \in D : k \notin stops => \A v \in V : step[k][v] \in V
  <2> HIDE DEF V, step, stops, D
  <2> QED
    BY <1>3, <1>6, <1>7
<1>9. PICK f : Descends(f, V, N + 1, stops, init, jump, step)
  <2> HIDE DEF V, stops, init, jump, step
  <2>1. N + 1 \in Nat
    BY <1>1
  <2> HIDE DEF N
  <2> QED
    BY <1>4, <1>5, <1>8, <2>1, Descent
<1>10. f \in [D -> V] /\ \A k \in D : f[k] = IF k \in stops THEN init[k] ELSE step[k][f[jump[k]]]
  BY <1>9 DEF Descends
<1>11. ASSUME NEW k \in D
       PROVE  f[k] = Value(f, k)
  <2>1. CASE k \in stops
    <3>1. f[k] = init[k]
      BY <1>10, <2>1
    <3>2. init[k] = IF start(k) > N THEN Some(<<>>) ELSE None
      OBVIOUS
    <3>3. start(k) > N \/ read(k) = None
      BY <2>1
    <3> HIDE DEF init, stops
    <3> QED
      BY <3>1, <3>2, <3>3
  <2>2. CASE k \notin stops
    <3>1. f[k] = step[k][f[jump[k]]] /\ jump[k] \in D
      <4>1. k + 1..N + 1 \subseteq D
        BY <1>1
      <4> HIDE DEF stops, init, jump, step
      <4> QED
        BY <1>5, <1>10, <2>2, <4>1
    <3>2. f[jump[k]] \in V
      <4> HIDE DEF stops, init, jump, step, V
      <4> QED
        BY <1>10, <3>1
    <3>3. f[k] = InFront(read(k)[1].arg, f[jump[k]])
      <4> HIDE DEF stops, init, jump, step, V
      <4> QED
        BY <1>7, <3>1, <3>2
    <3>4. jump[k] = read(k)[1].end
      OBVIOUS
    <3>5. ~(start(k) > N \/ read(k) = None)
      BY <2>2
    <3> HIDE DEF stops, jump
    <3> QED
      BY <3>3, <3>4, <3>5
  <2> QED
    BY <2>1, <2>2
<1>12. ASSUME NEW g, NEW k \in D
       PROVE  (LET st == FirstNotIn(value, k, Space)
                   rd == ReadArgument(value)[st]
                   rest == g[rd[1].end]
               IN  CASE st > Len(value) -> Some(<<>>)
                     [] st <= Len(value) /\ rd = None -> None
                     [] OTHER -> IF rest = None THEN None ELSE Some(<<rd[1].arg>> \o rest[1]))
              = Value(g, k)
  <2>1. start(k) <= N <=> ~(start(k) > N)
    <3>1. start(k) \in Int
      BY <1>2
    <3> QED
      BY <1>1, <3>1
  <2> DEFINE st == start(k)
             rd == read(k)
             rest == g[rd[1].end]
  <2>2. (CASE st > N -> Some(<<>>)
           [] st <= N /\ rd = None -> None
           [] OTHER -> IF rest = None THEN None ELSE Some(<<rd[1].arg>> \o rest[1]))
        = Value(g, k)
    <3>1. CASE st > N
      BY <2>1, <3>1
    <3>2. CASE ~(st > N) /\ rd = None
      BY <2>1, <3>2
    <3>3. CASE ~(st > N) /\ rd # None
      BY <2>1, <3>3 DEF InFront
    <3> QED
      BY <3>1, <3>2, <3>3
  <2> QED
    BY <2>2 DEF start, read
<1>13. Is(f)
  <2>1. f = [k \in D |-> Value(f, k)]
    <3> HIDE DEF Value, V
    <3> QED
      BY <1>10, <1>11
  <2> HIDE DEF Value
  <2> QED
    BY <1>12, <2>1
<1>14. Is(SplitFrom(value))
  <2>1. SplitFrom(value) = CHOOSE g : Is(g)
    BY DEF SplitFrom
  <2> HIDE DEF Is
  <2> QED
    BY <1>13, <2>1
<1>15. SplitFrom(value)[i] = Value(SplitFrom(value), i)
  <2> HIDE DEF Value
  <2> QED
    BY <1>12, <1>14
<1> QED
  BY <1>15 DEF start, read

\* The arguments, by the position where they start.
ArgumentsAt(value) == [k \in 1..Len(value) |-> Kept(value, k)]
ArgumentsFrom(value, i) == Picked(ArgumentsAt(value), {k \in Starts(value) : k >= i})

\* What is kept of an argument is a part of the text.
LEMMA KeptType ==
    ASSUME NEW W, NEW value \in Seq(W)
    PROVE  /\ ArgumentsAt(value) \in Seq(Seq(W)) /\ DOMAIN ArgumentsAt(value) = 1..Len(value)
           /\ \A k \in 1..Len(value) : ArgumentsAt(value)[k] = Kept(value, k)
<1> DEFINE N == Len(value)
           f == ArgumentsAt(value)
<1>1. N \in Nat /\ DOMAIN value = 1..N
  OBVIOUS
<1>2. f = [k \in 1..N |-> Kept(value, k)]
  BY DEF ArgumentsAt
<1>3. ASSUME NEW k \in 1..N
      PROVE  Kept(value, k) \in Seq(W)
  <2> DEFINE A == (k..EndOf(value, k) - 1) \ Marks(value)
  <2>1. k \in 1..N + 1
    BY <1>1
  <2>2. EndOf(value, k) \in k..N + 1
    BY <2>1, EndOfFacts
  <2>3. A \subseteq DOMAIN value
    BY <1>1, <2>2
  <2>4. Picked(value, A) \in Seq(W)
    <3> HIDE DEF A
    <3> QED
      BY <2>3, PickedFacts
  <2> QED
    BY <2>4 DEF Kept
<1>4. f \in [1..N -> Seq(W)]
  BY <1>2, <1>3
<1> HIDE DEF f
<1> QED
  BY <1>1, <1>2, <1>4 DEF f

\* The outer loop finds the arguments from a place on that is outside of them.
Outside(value, i) ==
    Open(value)[i] = "none" /\ i \in {1, Len(value) + 1} \cup Separators(value)
SplitsRight(value, i) ==
    SplitFrom(value)[i] =
        IF Open(value)[Len(value) + 1] # "none" THEN None ELSE Some(ArgumentsFrom(value, i))

\* Over white space no quote opens.
LEMMA SpaceSpan ==
    ASSUME NEW W, NEW value \in Seq(W), NEW i \in 1..Len(value) + 1, Open(value)[i] = "none",
           NEW m \in i..Len(value) + 1, \A j \in i..m - 1 : value[j] \in Space
    PROVE  (\A j \in i..m : Open(value)[j] = "none") /\ \A j \in i..m - 1 : j \in Separators(value)
<1> DEFINE N == Len(value)
           S == {j \in i..m : Open(value)[j] = "none"}
<1>1. /\ N \in Nat /\ i \in 1..N + 1 /\ m \in i..N + 1 /\ Quotes \cap Space = {}
      /\ \A k \in 1..N : Open(value)[k + 1] = After(Open(value)[k], value[k])
  BY OpenFacts, CharFacts
<1> HIDE DEF N
<1>2. i \in S
  BY <1>1
<1>3. ASSUME NEW n \in i..m - 1, n \in S
      PROVE  n + 1 \in S
  <2>1. n \in 1..N /\ n + 1 \in i..m
    BY <1>1
  <2>2. Open(value)[n + 1] = After("none", value[n]) /\ value[n] \in Space
    BY <1>1, <1>3, <2>1
  <2> QED
    BY <1>1, <2>1, <2>2 DEF After
<1>4. i..m \subseteq S
  <2>1. i \in Nat /\ m \in Nat
    BY <1>1
  <2> HIDE DEF S
  <2> QED
    BY <1>2, <1>3, <2>1, SetInduction
<1>5. \A j \in i..m - 1 : j \in i..m /\ j \in 1..N
  BY <1>1
<1>6. \A j \in i..m - 1 : j \in Separators(value)
  BY <1>4, <1>5 DEF Separators, N
<1> QED
  BY <1>4, <1>6

\* The outer loop splits right when it does so from every later position.
LEMMA SplitStep ==
    ASSUME NEW W, NEW value \in Seq(W), NEW i \in 1..Len(value) + 1, Outside(value, i),
           \A j \in i + 1..Len(value) + 1 : Outside(value, j) => SplitsRight(value, j)
    PROVE  SplitsRight(value, i)
<1> DEFINE N == Len(value)
           Sep == Separators(value)
           f == ArgumentsAt(value)
           start == FirstNotIn(value, i, Space)
           read == ReadArgument(value)[start]
           open == Open(value)[N + 1] # "none"
           From(j) == {k \in Starts(value) : k >= j}
<1>1. /\ N \in Nat /\ i \in 1..N + 1
      /\ start \in i..N + 1 /\ start \in 1..N + 1
      /\ start <= N => value[start] \notin Space
      /\ \A j \in i..start - 1 : value[j] \in Space
  <2>1. N \in Nat /\ i \in 1..N + 1
    OBVIOUS
  <2>2. /\ start \in i..N + 1
        /\ start <= N => value[start] \notin Space
        /\ \A j \in i..start - 1 : value[j] \in Space
    BY FirstNotInFacts
  <2> HIDE DEF start
  <2> QED
    BY <2>1, <2>2
<1>2. (\A j \in i..start : Open(value)[j] = "none") /\ \A j \in i..start - 1 : j \in Sep
  BY <1>1, SpaceSpan DEF Outside
<1>3. SplitFrom(value)[i] =
          IF start > N THEN Some(<<>>)
          ELSE IF read = None THEN None
          ELSE InFront(read[1].arg, SplitFrom(value)[read[1].end])
  BY SplitEquation
<1>4. f \in Seq(Seq(W)) /\ DOMAIN f = 1..N /\ \A k \in 1..N : f[k] = Kept(value, k)
  BY KeptType
<1>5. \A k : k \in Starts(value) <=> k \in 1..N /\ k \notin Sep /\ (k = 1 \/ k - 1 \in Sep)
  BY Zenon DEF Starts
<1>6. Sep \subseteq 1..N /\ \A k \in Sep : Open(value)[k] = "none" /\ value[k] \in Space
  BY Zenon DEF Separators
<1>7. \A j : ArgumentsFrom(value, j) = Picked(f, From(j))
  BY DEF ArgumentsFrom
<1>8. i \in {1, N + 1} \cup Sep
  BY DEF Outside
<1> HIDE DEF start, N, Sep, f
<1>9. CASE start > N
  <2>1. start = N + 1 /\ start \in i..start
    BY <1>1, <1>9
  <2>2. ~open
    BY <1>2, <2>1
  <2>3. From(i) = {}
    <3> SUFFICES ASSUME NEW k \in 1..N, k >= i, k \notin Sep PROVE FALSE
      BY <1>5
    <3>1. k \in i..start - 1
      BY <1>1, <2>1
    <3> QED
      BY <1>2, <3>1
  <2>4. Picked(f, {}) = <<>>
    <3> DEFINE U == Seq(W)
    <3>1. f \in Seq(U)
      BY <1>4
    <3> HIDE DEF U
    <3> QED
      BY <3>1, PickedFew
  <2>5. ArgumentsFrom(value, i) = <<>>
    BY <1>7, <2>3, <2>4
  <2> QED
    BY <1>3, <1>9, <2>2, <2>5 DEF SplitsRight, N
<1>10. CASE ~(start > N)
  <2> DEFINE n == EndOf(value, start)
             B == From(n)
  <2>1. start \in 1..N /\ value[start] \notin Space /\ Open(value)[start] = "none"
    <3>1. start \in i..start
      BY <1>1
    <3> QED
      BY <1>1, <1>2, <1>10, <3>1
  <2>2. start \notin Sep
    BY <1>6, <2>1
  <2>3. start \in Starts(value)
    <3>1. CASE start = i
      <4>1. start = 1
        BY <1>1, <1>8, <2>1, <2>2, <3>1
      <4> QED
        BY <1>5, <2>1, <2>2, <4>1
    <3>2. CASE start # i
      <4>1. start - 1 \in i..start - 1
        BY <1>1, <3>2
      <4> QED
        BY <1>2, <1>5, <2>1, <2>2, <4>1
    <3> QED
      BY <3>1, <3>2
  <2>4. read = IF n = N + 1 /\ open THEN None ELSE Some([arg |-> Kept(value, start), end |-> n])
    <3>1. ReadsRight(value, start)
      BY <1>1, <2>1, ArgumentRead DEF N
    <3> QED
      BY <3>1 DEF ReadsRight, N
  <2>5. /\ n \in start..N + 1 /\ (n # N + 1 => n \in Sep)
        /\ \A j \in start..n - 1 : j \notin Sep
    BY <1>1, EndOfFacts DEF N, Sep
  <2> HIDE DEF n
  <2>6. n # start /\ n \in i + 1..N + 1
    <3>1. n # start
      BY <1>1, <2>1, <2>2, <2>5
    <3> QED
      BY <1>1, <2>1, <2>5, <3>1
  <2>7. CASE n = N + 1 /\ open
    BY <1>3, <1>10, <2>4, <2>7 DEF SplitsRight, N
  <2>8. CASE ~(n = N + 1 /\ open)
    <3> DEFINE a == Kept(value, start)
               x == [arg |-> a, end |-> n]
    <3>1. read # None /\ read[1].arg = a /\ read[1].end = n
      <4>1. read = Some(x)
        BY <2>4, <2>8
      <4>2. Some(x)[1] = x /\ Some(x) # None
        BY DEF Some, None
      <4>3. x.arg = a /\ x.end = n
        OBVIOUS
      <4> HIDE DEF x, read
      <4> QED
        BY <4>1, <4>2, <4>3
    <3>2. Outside(value, n)
      <4>1. CASE n = N + 1
        BY <2>8, <4>1 DEF Outside, N
      <4>2. CASE n # N + 1
        BY <1>6, <2>5, <4>2 DEF Outside, Sep
      <4> QED
        BY <4>1, <4>2
    <3>3. SplitsRight(value, n)
      BY <2>6, <3>2 DEF N
    <3>4. SplitFrom(value)[i] = InFront(a, SplitFrom(value)[n])
      <4> HIDE DEF a, read
      <4> QED
        BY <1>3, <1>10, <3>1
    <3>5. From(i) = {start} \cup B
      <4>1. ASSUME NEW k \in From(i), k # start
            PROVE  k \in B
        <5>1. k \in 1..N /\ k >= i /\ k \notin Sep /\ (k = 1 \/ k - 1 \in Sep) /\ k \in Starts(value)
          BY <1>5, <4>1
        <5>2. ~(k < start)
          <6>1. k < start => k \in i..start - 1
            BY <1>1, <5>1
          <6> QED
            BY <1>2, <5>1, <6>1
        <5>3. ~(k < n)
          <6>1. k < n => k - 1 \in start..n - 1 /\ k # 1
            BY <1>1, <2>1, <2>5, <4>1, <5>1, <5>2
          <6> QED
            BY <2>5, <5>1, <6>1
        <5>4. k >= n
          BY <1>1, <2>5, <5>1, <5>3
        <5> QED
          BY <5>1, <5>4
      <4>2. ASSUME NEW k \in B
            PROVE  k \in From(i)
        <5>1. k \in 1..N /\ k >= n
          BY <1>5
        <5>2. k >= i
          BY <1>1, <2>6, <5>1
        <5> QED
          BY <5>2
      <4>3. start \in From(i)
        BY <1>1, <2>3
      <4> HIDE DEF From, B
      <4> QED
        BY <4>1, <4>2, <4>3
    <3>6. {start} \subseteq DOMAIN f /\ B \subseteq DOMAIN f /\ \A p \in {start}, q \in B : p < q
      <4>1. \A q \in B : q \in 1..N /\ q >= n
        BY <1>5
      <4>2. \A q \in B : start < q
        BY <1>1, <2>1, <2>5, <2>6, <4>1
      <4> QED
        BY <1>4, <2>1, <4>1, <4>2
    <3>7. Picked(f, {start} \cup B) = <<a>> \o Picked(f, B)
      <4> DEFINE U == Seq(W)
                 A == {start}
      <4>1. f \in Seq(U) /\ start \in DOMAIN f /\ f[start] = a
        BY <1>4, <2>1
      <4>2. A \subseteq DOMAIN f /\ B \subseteq DOMAIN f /\ \A p \in A, q \in B : p < q
        BY <3>6
      <4> HIDE DEF U, a, B
      <4>3. Picked(f, A) = <<a>>
        BY <4>1, PickedFew
      <4> HIDE DEF A
      <4>4. Picked(f, A \cup B) = Picked(f, A) \o Picked(f, B)
        BY <4>1, <4>2, PickedJoin
      <4> QED
        BY <4>3, <4>4 DEF A
    <3>8. ArgumentsFrom(value, i) = <<a>> \o ArgumentsFrom(value, n)
      <4> HIDE DEF From, a
      <4>1. ArgumentsFrom(value, n) = Picked(f, B)
        BY <1>7
      <4> QED
        BY <1>7, <3>5, <3>7, <4>1
    <3> HIDE DEF a, B, open
    <3>9. SplitFrom(value)[n] = IF open THEN None ELSE Some(ArgumentsFrom(value, n))
      BY <3>3 DEF SplitsRight, open, N
    <3>10. InFront(a, None) = None
      BY DEF InFront
    <3>11. InFront(a, Some(ArgumentsFrom(value, n))) = Some(<<a>> \o ArgumentsFrom(value, n))
      <4> DEFINE y == ArgumentsFrom(value, n)
      <4> HIDE DEF y
      <4>1. Some(y) # None /\ Some(y)[1] = y
        BY DEF Some, None
      <4>2. InFront(a, Some(y)) = Some(<<a>> \o y)
        BY <4>1 DEF InFront
      <4> QED
        BY <4>2 DEF y
    <3>12. SplitFrom(value)[i] = IF open THEN None ELSE Some(ArgumentsFrom(value, i))
      BY <3>4, <3>8, <3>9, <3>10, <3>11
    <3> QED
      BY <3>12 DEF SplitsRight, open, N
  <2> QED
    BY <2>7, <2>8
<1> QED
  BY <1>9, <1>10

\* The outer loop splits right from every position outside quotes.
LEMMA AllSplit ==
    ASSUME NEW W, NEW value \in Seq(W), NEW i \in 1..Len(value) + 1, Outside(value, i)
    PROVE  SplitsRight(value, i)
<1> DEFINE D == 1..Len(value) + 1
           Bad == {j \in D : Outside(value, j) /\ ~SplitsRight(value, j)}
           m == Max(Bad)
<1> SUFFICES ASSUME Bad # {} PROVE FALSE
  OBVIOUS
<1>1. Len(value) + 1 \in Nat /\ Bad \subseteq Nat /\ \A x \in Bad : x <= Len(value) + 1
  OBVIOUS
<1>2. m \in Bad /\ \A y \in Bad : y <= m
  <2> HIDE DEF Bad
  <2> QED
    BY <1>1, MaxFacts
<1> HIDE DEF m
<1>3. ASSUME NEW j \in m + 1..Len(value) + 1, Outside(value, j)
      PROVE  SplitsRight(value, j)
  <2>1. j \in D /\ ~(j <= m)
    BY <1>1, <1>2
  <2> QED
    BY <1>2, <1>3, <2>1
<1>4. m \in D /\ Outside(value, m) /\ ~SplitsRight(value, m)
  BY <1>2
<1> QED
  BY <1>3, <1>4, SplitStep

\* The reference has the same arguments.
LEMMA ArgumentsAre ==
    ASSUME NEW W, NEW value \in Seq(W)
    PROVE  Arguments(value) = ArgumentsFrom(value, 1)
<1> DEFINE N == Len(value)
           Sep == Separators(value)
           M == Marks(value)
           S == Starts(value)
           o == Ascending(S)
           ArgumentAt(k) == Picked(value, (k..Min({j \in Sep : j > k} \cup {N + 1}) - 1) \ M)
<1>1. Arguments(value) = [n \in DOMAIN o |-> ArgumentAt(o[n])]
  BY DEF Arguments, Separators, Marks, Starts
<1>2. N \in Nat /\ S \subseteq 1..N /\ Sep \subseteq 1..N /\ \A k \in S : k \notin Sep
  <2>1. N \in Nat
    OBVIOUS
  <2> QED
    BY <2>1, Zenon DEF Starts, Separators
<1>3. \A k \in 1..N : ArgumentsAt(value)[k] = Kept(value, k)
  BY KeptType
<1>4. {k \in S : k >= 1} = S
  BY <1>2
<1>5. ArgumentsFrom(value, 1) = [n \in DOMAIN o |-> ArgumentsAt(value)[o[n]]]
  <2>1. ArgumentsFrom(value, 1) = Picked(ArgumentsAt(value), S)
    BY <1>4 DEF ArgumentsFrom
  <2> QED
    BY <2>1 DEF Picked
<1>6. ASSUME NEW k \in S
      PROVE  ArgumentAt(k) = ArgumentsAt(value)[k]
  <2>1. {j \in Sep : j > k} = {j \in Sep : j >= k}
    BY <1>2
  <2>2. ArgumentAt(k) = Kept(value, k)
    BY <2>1 DEF Kept, EndOf
  <2> HIDE DEF ArgumentAt
  <2> QED
    BY <1>2, <1>3, <2>2
<1>7. DOMAIN o = 1..Cardinality(S) /\ o \in [1..Cardinality(S) -> S]
  <2>1. S \subseteq Int /\ S \in SUBSET (1..N)
    BY <1>2
  <2>2. IsFiniteSet(S)
    <3>1. IsFiniteSet(1..N)
      BY <1>2, FS_Interval
    <3> HIDE DEF S, N
    <3> QED
      BY <2>1, <3>1, FS_Subset
  <2>3. o \in [1..Cardinality(S) -> S]
    <3> HIDE DEF S
    <3> QED
      BY <2>1, <2>2, AscendingFacts
  <2> HIDE DEF o
  <2> QED
    BY <2>3
<1> HIDE DEF o, S, ArgumentAt
<1>8. \A n \in DOMAIN o : ArgumentAt(o[n]) = ArgumentsAt(value)[o[n]]
  BY <1>6, <1>7
<1> QED
  BY <1>1, <1>5, <1>8

\* read_value_node_impl<cmd_line>::read, for every string: the result is the longest runs
\* of characters that no unquoted white space interrupts, each without its quotes, and
\* there is none exactly if a quote stays open or there is nothing to execute.
THEOREM SplitCorrect ==
    ASSUME NEW W, NEW value \in Seq(W)
    PROVE  Split(value) = IF Splittable(value) THEN Some(Arguments(value)) ELSE None
<1> DEFINE a == Arguments(value)
           open == Open(value)[Len(value) + 1] # "none"
<1>1. 1 \in 1..Len(value) + 1 /\ Outside(value, 1)
  <2>1. 1 \in 1..Len(value) + 1
    OBVIOUS
  <2> QED
    BY <2>1, OpenFacts DEF Outside
<1>2. SplitsRight(value, 1)
  BY <1>1, AllSplit
<1>3. SplitFrom(value)[1] = IF open THEN None ELSE Some(a)
  BY <1>2, ArgumentsAre DEF SplitsRight
<1>4. Splittable(value) <=> a # <<>> /\ ~open
  BY DEF Splittable
<1> HIDE DEF a, open
<1>5. None # Some(<<>>) /\ (Some(a) = Some(<<>>) <=> a = <<>>)
  BY DEF None, Some
<1> QED
  BY <1>3, <1>4, <1>5 DEF Split, a

-----------------------------------------------------------------------------
(* The multimaps *)

\* Walking over a multimap meets every entry once, by key, equal keys as they were inserted.
Walks(order, ranks) ==
    /\ order \in [1..Len(ranks) -> 1..Len(ranks)] /\ order \in Seq(1..Len(ranks))
    /\ Len(order) = Len(ranks) /\ DOMAIN order = 1..Len(ranks)
    /\ \A i \in 1..Len(ranks) : \E k \in 1..Len(ranks) : order[k] = i
    /\ \A j, k \in 1..Len(ranks) : j < k =>
          \/ ranks[order[j]] < ranks[order[k]]
          \/ (ranks[order[j]] = ranks[order[k]] /\ order[j] < order[k])

\* The order of a multimap.
LEMMA MultimapFacts ==
    ASSUME NEW ranks \in Seq(Nat)
    PROVE  Walks(MultimapOrder(ranks), ranks)
<1> DEFINE order == MultimapOrder(ranks)
           S == 1..Len(ranks)
           R == {p \in S \X S : \/ ranks[p[1]] < ranks[p[2]]
                                \/ ranks[p[1]] = ranks[p[2]] /\ p[1] <= p[2]}
           n == Cardinality(S)
<1>1. Len(ranks) \in Nat /\ DOMAIN ranks = S /\ \A i \in S : ranks[i] \in Nat
  OBVIOUS
<1>2. order = Arranged(S, R)
  BY <1>1 DEF MultimapOrder
<1>3. IsFiniteSet(S) /\ n = Len(ranks)
  <2> DEFINE m == Len(ranks)
  <2> HIDE DEF m
  <2>1. m \in Nat /\ 1 \in Int /\ m \in Int
    BY <1>1 DEF m
  <2>2. IsFiniteSet(1..m) /\ Cardinality(1..m) = IF 1 > m THEN 0 ELSE m - 1 + 1
    BY <2>1, FS_Interval
  <2>3. Cardinality(1..m) = m
    BY <2>1, <2>2
  <2> QED
    BY <2>2, <2>3 DEF m
<1>4. \A x, y \in S : <<x, y>> \in R <=> ranks[x] < ranks[y] \/ (ranks[x] = ranks[y] /\ x <= y)
  OBVIOUS
<1>5. S \subseteq Nat
  OBVIOUS
<1> HIDE DEF S, R
<1>6. Orders(R, S)
  <2>1. \A x \in S : ranks[x] \in Nat /\ x \in Nat
    BY <1>1, <1>5
  <2>2. \A x \in S : <<x, x>> \in R
    BY <1>4, <2>1
  <2>3. \A x, y \in S : <<x, y>> \in R \/ <<y, x>> \in R
    <3> TAKE x, y \in S
    <3>1. ranks[x] \in Nat /\ ranks[y] \in Nat /\ x \in Nat /\ y \in Nat
      BY <2>1
    <3>2. ranks[x] < ranks[y] \/ ranks[y] < ranks[x] \/ (ranks[x] = ranks[y] /\ (x <= y \/ y <= x))
      BY <3>1
    <3> QED
      BY <1>4, <3>2
  <2>4. \A x, y \in S : <<x, y>> \in R /\ <<y, x>> \in R => x = y
    <3> TAKE x, y \in S
    <3>1. ranks[x] \in Nat /\ ranks[y] \in Nat /\ x \in Nat /\ y \in Nat
      BY <2>1
    <3>2. /\ <<x, y>> \in R <=> ranks[x] < ranks[y] \/ (ranks[x] = ranks[y] /\ x <= y)
          /\ <<y, x>> \in R <=> ranks[y] < ranks[x] \/ (ranks[y] = ranks[x] /\ y <= x)
      BY <1>4, Zenon
    <3>3. /\ ranks[x] < ranks[y] \/ (ranks[x] = ranks[y] /\ x <= y)
          /\ ranks[y] < ranks[x] \/ (ranks[y] = ranks[x] /\ y <= x)
          => x = y
      BY <3>1
    <3> QED
      BY <3>2, <3>3, Zenon
  <2>5. \A x, y, z \in S : <<x, y>> \in R /\ <<y, z>> \in R => <<x, z>> \in R
    <3> TAKE x, y, z \in S
    <3>1. ranks[x] \in Nat /\ ranks[y] \in Nat /\ ranks[z] \in Nat /\ x \in Nat /\ y \in Nat /\ z \in Nat
      BY <2>1
    <3>2. /\ <<x, y>> \in R <=> ranks[x] < ranks[y] \/ (ranks[x] = ranks[y] /\ x <= y)
          /\ <<y, z>> \in R <=> ranks[y] < ranks[z] \/ (ranks[y] = ranks[z] /\ y <= z)
          /\ <<x, z>> \in R <=> ranks[x] < ranks[z] \/ (ranks[x] = ranks[z] /\ x <= z)
      BY <1>4, Zenon
    <3>3. /\ ranks[x] < ranks[y] \/ (ranks[x] = ranks[y] /\ x <= y)
          /\ ranks[y] < ranks[z] \/ (ranks[y] = ranks[z] /\ y <= z)
          => ranks[x] < ranks[z] \/ (ranks[x] = ranks[z] /\ x <= z)
      BY <3>1
    <3> QED
      BY <3>2, <3>3, Zenon
  <2> QED
    BY <2>2, <2>3, <2>4, <2>5 DEF Orders
<1>7. /\ order \in Seq(S) /\ order \in [1..n -> S] /\ Len(order) = n
      /\ \A x \in S : Place(x, S, R) \in 1..n /\ order[Place(x, S, R)] = x
      /\ \A j, k \in 1..n : j < k => <<order[j], order[k]>> \in R /\ order[j] # order[k]
  <2> DEFINE s == Arranged(S, R)
  <2>1. /\ s \in Seq(S) /\ s \in [1..n -> S] /\ Len(s) = n
        /\ \A x \in S : Place(x, S, R) \in 1..n /\ s[Place(x, S, R)] = x
        /\ \A j, k \in 1..n : j < k => <<s[j], s[k]>> \in R /\ s[j] # s[k]
    <3>1. IsFiniteSet(S)
      BY <1>3
    <3> QED
      BY <1>6, <3>1, ArrangedFacts
  <2>2. s = order
    BY <1>2
  <2> HIDE DEF s, n, order
  <2> QED
    BY <2>1, <2>2
<1>8. \A x \in S : \E k \in 1..n : order[k] = x
  BY <1>7
<1> HIDE DEF n, order
<1>9. \A j, k \in 1..n : j < k => \/ ranks[order[j]] < ranks[order[k]]
                                  \/ (ranks[order[j]] = ranks[order[k]] /\ order[j] < order[k])
  <2> TAKE j, k \in 1..n
  <2> HAVE j < k
  <2>1. order[j] \in S /\ order[k] \in S /\ <<order[j], order[k]>> \in R /\ order[j] # order[k]
    BY <1>7
  <2>2. order[j] \in Nat /\ order[k] \in Nat
    BY <1>5, <2>1
  <2>3. \/ ranks[order[j]] < ranks[order[k]]
        \/ (ranks[order[j]] = ranks[order[k]] /\ order[j] <= order[k])
    BY <1>4, <2>1
  <2> QED
    BY <2>1, <2>2, <2>3
<1> QED
  BY <1>3, <1>7, <1>8, <1>9 DEF S, Walks, order

\* The reports are entries.
LEMMA DuplicatesType ==
    ASSUME NEW W, NEW keys \in Seq(W)
    PROVE  ReportDuplicates(keys) \subseteq 1..Len(keys) /\ IsFiniteSet(ReportDuplicates(keys))
<1> DEFINE n == Len(keys)
           T == ReportDuplicates(keys)
<1>1. n \in Nat
  OBVIOUS
<1>2. T \in SUBSET (1..n)
  BY <1>1 DEF ReportDuplicates
<1>3. IsFiniteSet(1..n)
  BY <1>1, FS_Interval
<1> HIDE DEF T, n
<1>4. T \subseteq 1..n
  BY <1>2
<1>5. IsFiniteSet(T)
  BY <1>3, <1>4, FS_Subset
<1> QED
  BY <1>4, <1>5 DEF T, n

\* Every entry but the first one of its key is reported.
LEMMA DuplicatesReported ==
    ASSUME NEW ranks \in Seq(Nat), NEW order, Walks(order, ranks),
           NEW W, NEW keys \in Seq(W), Len(keys) = Len(ranks),
           \A j, k \in 1..Len(ranks) : ranks[order[j]] = ranks[order[k]] => keys[j] = keys[k],
           NEW a \in 1..Len(ranks), NEW b \in 1..Len(ranks), a < b, ranks[order[a]] = ranks[order[b]]
    PROVE  b \in ReportDuplicates(keys)
<1> DEFINE n == Len(ranks)
           r(j) == ranks[order[j]]
<1>1. n \in Nat /\ \A i \in 1..n : ranks[i] \in Nat
  OBVIOUS
<1>2. /\ order \in [1..n -> 1..n]
      /\ \A j, k \in 1..n : j < k => r(j) < r(k) \/ (r(j) = r(k) /\ order[j] < order[k])
  <2>1. /\ order \in [1..Len(ranks) -> 1..Len(ranks)]
        /\ \A j, k \in 1..Len(ranks) : j < k =>
              \/ ranks[order[j]] < ranks[order[k]]
              \/ (ranks[order[j]] = ranks[order[k]] /\ order[j] < order[k])
    BY DEF Walks
  <2> QED
    BY <2>1, Zenon
<1>3. \A j \in 1..n : r(j) \in Nat
  BY <1>1, <1>2
<1>4. r(a) = r(b) /\ a \in 1..n /\ b \in 1..n /\ \A j, k \in 1..n : r(j) = r(k) => keys[j] = keys[k]
  OBVIOUS
<1> HIDE DEF r
<1>5. \A j, k \in 1..n : j < k => r(j) <= r(k)
  <2> TAKE j, k \in 1..n
  <2>1. r(j) \in Nat /\ r(k) \in Nat
    BY <1>3
  <2> HAVE j < k
  <2>2. r(j) < r(k) \/ r(j) = r(k)
    BY <1>2
  <2> QED
    BY <2>1, <2>2
<1>6. b - 1 \in 1..n /\ b \in 2..n /\ b - 1 < b /\ (a = b - 1 \/ a < b - 1)
  BY <1>1, <1>4
<1>7. b \in 2..Len(keys)
  BY <1>6
<1> HIDE DEF n
<1>8. r(a) <= r(b - 1) /\ r(b - 1) <= r(b) /\ r(a) \in Nat /\ r(b - 1) \in Nat
  <2>1. r(a) \in Nat /\ r(b - 1) \in Nat
    BY <1>3, <1>4, <1>6
  <2>2. r(b - 1) <= r(b)
    BY <1>4, <1>5, <1>6
  <2>3. a < b - 1 => r(a) <= r(b - 1)
    BY <1>4, <1>5, <1>6
  <2>4. a = b - 1 => r(a) <= r(b - 1)
    BY <2>1
  <2> QED
    BY <1>6, <2>1, <2>2, <2>3, <2>4
<1>9. r(b - 1) = r(b)
  BY <1>4, <1>8
<1>10. keys[b - 1] = keys[b]
  BY <1>4, <1>6, <1>9
<1> QED
  BY <1>7, <1>10 DEF ReportDuplicates

-----------------------------------------------------------------------------
(* Looking tasks up *)

\* The data of a task whose value is this node.
DataRead(node) ==
    LET read == ReadTask(node) IN IF read.value = None THEN [tag |-> "null", fields |-> <<>>] ELSE read.value[1]

Data == {DataRead(tree.tasks[i].value) : i \in DOMAIN tree.tasks}
TaskRecords == [name : Nat, data : Data, dependencies : Seq(Nat)]

\* task_by_name.find
LEMMA NamedFacts ==
    ASSUME allTasks \in Seq(TaskRecords), NEW x
    PROVE  /\ Named(x) \subseteq DOMAIN allTasks /\ Named(x) \subseteq Nat
           /\ Named(x) # {} => /\ Min(Named(x)) \in DOMAIN allTasks
                               /\ allTasks[Min(Named(x))].name = x
                               /\ \A u \in Named(x) : Min(Named(x)) <= u
<1>1. DOMAIN allTasks \subseteq Nat
  OBVIOUS
<1>2. Named(x) \subseteq DOMAIN allTasks /\ \A t \in Named(x) : allTasks[t].name = x
  BY DEF Named
<1>3. Named(x) \subseteq Nat
  BY <1>1, <1>2
<1>4. ASSUME Named(x) # {}
      PROVE  Min(Named(x)) \in Named(x) /\ \A u \in Named(x) : Min(Named(x)) <= u
  <2> DEFINE T == Named(x)
  <2>1. T \subseteq Nat /\ T # {}
    BY <1>3, <1>4
  <2> HIDE DEF T
  <2>2. Min(T) \in T /\ \A u \in T : Min(T) <= u
    BY <2>1, MinFacts
  <2> QED
    BY <2>2 DEF T
<1> QED
  BY <1>2, <1>3, <1>4

\* Leaving out the names that there is no task for.
LEMMA KnownFacts ==
    ASSUME NEW names \in Seq(Nat)
    PROVE  /\ Known(names) \in Seq(Nat) /\ ToSet(Known(names)) \subseteq ToSet(names)
           /\ \A n \in DOMAIN Known(names) : Named(Known(names)[n]) # {}
           /\ (\A k \in DOMAIN names : Named(names[k]) # {}) => Known(names) = names
<1> DEFINE A == {k \in DOMAIN names : Named(names[k]) # {}}
           p == Picked(names, A)
<1>1. A \subseteq DOMAIN names /\ DOMAIN names = 1..Len(names) /\ Len(names) \in Nat
  OBVIOUS
<1>2. p \in Seq(Nat) /\ ToSet(p) = {names[k] : k \in A}
  <2>1. A \subseteq DOMAIN names
    BY <1>1
  <2> HIDE DEF A
  <2> QED
    BY <2>1, PickedFacts
<1>3. Known(names) = p
  BY DEF Known
<1>4. ToSet(p) \subseteq ToSet(names)
  BY <1>2, Zenon DEF ToSet
<1>5. \A x \in ToSet(p) : Named(x) # {}
  BY <1>2
<1>6. \A n \in DOMAIN p : Named(p[n]) # {}
  <2> HIDE DEF p
  <2> QED
    BY <1>5 DEF ToSet
<1>7. ASSUME \A k \in DOMAIN names : Named(names[k]) # {}
      PROVE  p = names
  <2>1. A = 1..Len(names)
    BY <1>1, <1>7
  <2> HIDE DEF A
  <2>2. Picked(names, 1..Len(names)) = SubSeq(names, 1, Len(names))
    <3> DEFINE j == Len(names)
    <3>1. j \in Nat /\ 1 \in Nat /\ 1 >= 1 /\ j <= Len(names) /\ 1 <= j + 1
      BY <1>1
    <3> HIDE DEF j
    <3>2. Picked(names, 1..j) = SubSeq(names, 1, j)
      BY <3>1, PickedInterval
    <3> QED
      BY <3>2 DEF j
  <2>3. SubSeq(names, 1, Len(names)) = names
    BY SubSeqFull
  <2> QED
    BY <2>1, <2>2, <2>3
<1> QED
  BY <1>2, <1>3, <1>4, <1>6, <1>7, Zenon

\* Name by name.
LEMMA KnownConcat ==
    ASSUME NEW a \in Seq(Nat), NEW b \in Seq(Nat)
    PROVE  Known(a \o b) = Known(a) \o Known(b)
<1> DEFINE P == {x \in Nat : Named(x) # {}}
<1>1. ASSUME NEW s \in Seq(Nat)
      PROVE  Known(s) = Within(s, P)
  <2>1. \A k \in DOMAIN s : s[k] \in P <=> Named(s[k]) # {}
    <3>1. \A k \in DOMAIN s : s[k] \in Nat
      BY <1>1
    <3> QED
      BY <3>1
  <2>2. {k \in DOMAIN s : s[k] \in P} = {k \in DOMAIN s : Named(s[k]) # {}}
    BY <2>1
  <2> QED
    BY <2>2 DEF Known, Within
<1>2. a \o b \in Seq(Nat)
  BY ConcatProperties
<1> HIDE DEF P
<1>3. Within(a \o b, P) = Within(a, P) \o Within(b, P)
  BY PickedConcat
<1> QED
  BY <1>1, <1>2, <1>3

\* What a task is called.
LEMMA NamesOfFacts ==
    ASSUME NEW s \in Seq(Nat)
    PROVE  /\ NamesOf(s) = [k \in 1..Len(s) |-> allTasks[s[k]].name] /\ DOMAIN s = 1..Len(s)
           /\ Len(s) \in Nat
  BY DEF NamesOf

\* resolve_task leads from the names that are known to tasks that have them, and every
\* other one is reported.
LEMMA ResolveFacts ==
    ASSUME allTasks \in Seq(TaskRecords), NEW names \in Seq(Nat), NEW place
    PROVE  /\ Resolve(names, place).found \in Seq(DOMAIN allTasks)
           /\ Resolve(names, place).found \in Seq(Nat)
           /\ ToSet(Resolve(names, place).found) \subseteq DOMAIN allTasks
           /\ NamesOf(Resolve(names, place).found) = Known(names)
           /\ \A u \in ToSet(Resolve(names, place).found) : allTasks[u].name \in ToSet(names)
           /\ Resolve(names, place).errors \in Seq({"undeclared"} \X {place} \X Nat)
           /\ \A k \in DOMAIN names : Named(names[k]) = {} =>
                 <<"undeclared", place, k>> \in ToSet(Resolve(names, place).errors)
<1> DEFINE K == Known(names)
           N == Len(K)
           found == [n \in 1..N |-> Min(Named(K[n]))]
           U == {k \in DOMAIN names : Named(names[k]) = {}}
           unknown == Ascending(U)
           m == Cardinality(U)
           errs == [n \in 1..m |-> <<"undeclared", place, unknown[n]>>]
<1>1. /\ K \in Seq(Nat) /\ ToSet(K) \subseteq ToSet(names) /\ \A n \in DOMAIN K : Named(K[n]) # {}
  BY KnownFacts
<1>2. N \in Nat /\ DOMAIN K = 1..N
  BY <1>1
<1>3. U \subseteq DOMAIN names /\ U \subseteq Nat
  OBVIOUS
<1>4. /\ m \in Nat /\ unknown \in [1..m -> U] /\ DOMAIN unknown = 1..m
      /\ \A x \in U : \E n \in 1..m : unknown[n] = x
  <2>1. U \subseteq DOMAIN names
    BY <1>3
  <2> HIDE DEF U
  <2>2. IsFiniteSet(U) /\ U \subseteq Int
    BY <2>1, PickedFacts
  <2>3. m \in Nat /\ unknown \in [1..m -> U] /\ \A x \in U : \E n \in 1..m : unknown[n] = x
    BY <2>2, AscendingFacts
  <2> HIDE DEF m, unknown
  <2> QED
    BY <2>3
<1>5. Resolve(names, place) = [found |-> found, errors |-> errs]
  BY <1>2, <1>4 DEF Resolve
<1>6. Resolve(names, place).found = found /\ Resolve(names, place).errors = errs
  BY <1>5
<1> HIDE DEF K, N, U, unknown, m
<1>7. \A n \in 1..N : found[n] \in DOMAIN allTasks /\ allTasks[found[n]].name = K[n]
  <2> TAKE n \in 1..N
  <2>1. Named(K[n]) # {}
    BY <1>1, <1>2
  <2>2. Min(Named(K[n])) \in DOMAIN allTasks /\ allTasks[Min(Named(K[n]))].name = K[n]
    BY <2>1, NamedFacts
  <2> QED
    BY <2>2
<1>8. found \in Seq(DOMAIN allTasks) /\ Len(found) = N
  <2>1. found \in [1..N -> DOMAIN allTasks]
    BY <1>7
  <2> HIDE DEF found
  <2> QED
    BY <1>2, <2>1
<1>9. DOMAIN allTasks \subseteq Nat
  OBVIOUS
<1>10. found \in Seq(Nat)
  <2> HIDE DEF found
  <2> QED
    BY <1>8, <1>9
<1>11. DOMAIN found = 1..N
  OBVIOUS
<1>12. ToSet(found) \subseteq DOMAIN allTasks
  BY <1>7, <1>11 DEF ToSet
<1>13. NamesOf(found) = K
  <2> HIDE DEF found
  <2>1. NamesOf(found) = [k \in 1..N |-> allTasks[found[k]].name]
    BY <1>11 DEF NamesOf
  <2>2. NamesOf(found) = [k \in 1..N |-> K[k]]
    BY <1>7, <2>1
  <2>3. K = [k \in 1..N |-> K[k]]
    BY <1>1, <1>2
  <2> QED
    BY <2>2, <2>3
<1>14. \A u \in ToSet(found) : allTasks[u].name \in ToSet(names)
  <2> HIDE DEF found
  <2>1. \A n \in 1..N : K[n] \in ToSet(names)
    BY <1>1, <1>2 DEF ToSet
  <2> QED
    BY <1>7, <1>11, <2>1 DEF ToSet
<1>15. errs \in Seq({"undeclared"} \X {place} \X Nat)
  <2> DEFINE E == {"undeclared"} \X {place} \X Nat
  <2>1. \A n \in 1..m : unknown[n] \in Nat
    BY <1>3, <1>4
  <2>2. \A n \in 1..m : <<"undeclared", place, unknown[n]>> \in E
    BY <2>1
  <2> HIDE DEF E
  <2>3. errs \in [1..m -> E]
    BY <2>2
  <2> HIDE DEF errs
  <2>4. errs \in Seq(E)
    BY <1>4, <2>3
  <2> QED
    BY <2>4 DEF E
<1>16. ASSUME NEW k \in DOMAIN names, Named(names[k]) = {}
       PROVE  <<"undeclared", place, k>> \in ToSet(errs)
  <2>1. k \in U
    BY <1>16 DEF U
  <2>2. PICK n \in 1..m : unknown[n] = k
    BY <1>4, <2>1
  <2>3. errs[n] = <<"undeclared", place, k>> /\ n \in DOMAIN errs
    BY <2>2
  <2> HIDE DEF errs
  <2> QED
    BY <2>3 DEF ToSet
<1> HIDE DEF found, errs
<1>17. NamesOf(found) = Known(names)
  BY <1>13 DEF K
<1> QED
  BY <1>6, <1>8, <1>10, <1>12, <1>14, <1>15, <1>16, <1>17

-----------------------------------------------------------------------------
(* What the reader has made so far *)

\* How many tasks, declarations of dependencies and run levels have been read.
TaskCount == IF phase = "tasks" THEN next - 1 ELSE Len(tree.tasks)
DependencyCount ==
    IF phase = "tasks" THEN 0 ELSE IF phase = "dependencies" THEN next - 1 ELSE Len(tree.dependencies)
RunLevelCount ==
    IF phase = "run_levels" THEN next - 1 ELSE IF phase = "returned" THEN Len(tree.runLevels) ELSE 0

Progress ==
    /\ tree \in Trees
    /\ phase \in {"tasks", "dependencies", "crashed", "run_levels", "returned"}
    /\ next \in Nat /\ next >= 1
    /\ phase = "tasks" => next <= Len(tree.tasks) + 1
    /\ phase = "dependencies" => next <= Len(tree.dependencies) + 1
    /\ phase = "run_levels" => next <= Len(tree.runLevels) + 1

\* The task that a task description was made from.
TaskOf(t) == tree.tasks[TaskOrder[t]]

TasksMade ==
    /\ allTasks \in Seq(TaskRecords) /\ Len(allTasks) = TaskCount
    /\ \A t \in 1..TaskCount : allTasks[t].name = TaskOf(t).name /\ allTasks[t].data = DataRead(TaskOf(t).value)

\* The dependencies of a name in the first n declarations.
DeclaredIn(name, n) ==
    FlattenSeq([k \in 1..n |->
        IF tree.dependencies[k].name = name THEN tree.dependencies[k].names ELSE <<>>])

DependenciesClosed ==
    \A t \in DOMAIN allTasks : \A u \in ToSet(allTasks[t].dependencies) :
        /\ u \in DOMAIN allTasks
        /\ \E d \in ToSet(tree.dependencies) :
             d.name = allTasks[t].name /\ allTasks[u].name \in ToSet(d.names)

DependenciesMade ==
    /\ phase = "tasks" => \A t \in DOMAIN allTasks : allTasks[t].dependencies = <<>>
    /\ \A name \in Nat : Named(name) # {} =>
         NamesOf(allTasks[Min(Named(name))].dependencies) = Known(DeclaredIn(name, DependencyCount))

\* The k-th run level that is read.
RunLevelAt(k) == tree.runLevels[RunLevelOrder[k]]

\* The first of its name to be read counts.
RunLevelsMade ==
    /\ \A r : r \in DOMAIN runLevels <=> \E k \in 1..RunLevelCount : RunLevelAt(k).name = r
    /\ \A r \in DOMAIN runLevels :
         /\ runLevels[r] \in Seq(Nat) /\ ToSet(runLevels[r]) \subseteq DOMAIN allTasks
         /\ \E k \in 1..RunLevelCount :
              /\ RunLevelAt(k).name = r /\ \A j \in 1..k - 1 : RunLevelAt(j).name # r
              /\ NamesOf(runLevels[r]) = Known(RunLevelAt(k).names)

ReadInv == Progress /\ TasksMade /\ DependenciesClosed /\ DependenciesMade /\ RunLevelsMade

\* The parts of a tree.
LEMMA TreeFacts ==
    ASSUME tree \in Trees
    PROVE  /\ tree.tasks \in Seq([name : Nat, value : ValueNode])
           /\ tree.dependencies \in Seq(List) /\ tree.runLevels \in Seq(List)
           /\ tree.errors \in Seq({"expected"} \X Nat)
           /\ Len(tree.tasks) \in Nat /\ Len(tree.dependencies) \in Nat /\ Len(tree.runLevels) \in Nat
           /\ DOMAIN tree.tasks = 1..Len(tree.tasks) /\ DOMAIN tree.dependencies = 1..Len(tree.dependencies)
           /\ DOMAIN tree.runLevels = 1..Len(tree.runLevels)
<1>1. tree \in [tasks : Seq([name : Nat, value : ValueNode]), dependencies : Seq(List),
                runLevels : Seq(List), errors : Seq({"expected"} \X Nat)]
  BY TreesAssumption, Zenon
<1>2. /\ tree.tasks \in Seq([name : Nat, value : ValueNode])
      /\ tree.dependencies \in Seq(List) /\ tree.runLevels \in Seq(List)
      /\ tree.errors \in Seq({"expected"} \X Nat)
  BY <1>1
<1> QED
  BY <1>2

\* The elements of a tree.
LEMMA NodeFacts ==
    ASSUME tree \in Trees
    PROVE  /\ \A i \in 1..Len(tree.tasks) : tree.tasks[i].name \in Nat /\ tree.tasks[i].value \in ValueNode
           /\ \A k \in 1..Len(tree.dependencies) :
                 /\ tree.dependencies[k].name \in Nat /\ tree.dependencies[k].names \in Seq(Nat)
                 /\ tree.dependencies[k] \in ToSet(tree.dependencies)
           /\ \A i \in 1..Len(tree.runLevels) :
                 tree.runLevels[i].name \in Nat /\ tree.runLevels[i].names \in Seq(Nat)
<1>1. /\ \A i \in 1..Len(tree.tasks) : tree.tasks[i] \in [name : Nat, value : ValueNode]
      /\ \A k \in 1..Len(tree.dependencies) : tree.dependencies[k] \in List
      /\ \A i \in 1..Len(tree.runLevels) : tree.runLevels[i] \in List
  <2>1. /\ tree.tasks \in Seq([name : Nat, value : ValueNode])
        /\ tree.dependencies \in Seq(List) /\ tree.runLevels \in Seq(List)
    BY TreeFacts, Zenon
  <2>2. \A S : \A s \in Seq(S) : \A i \in 1..Len(s) : s[i] \in S
    BY ElementOfSeq
  <2> QED
    BY <2>1, <2>2, Zenon
<1>2. \A l \in List : l.name \in Nat /\ l.names \in Seq(Nat)
  BY DEF List
<1>3. \A k \in 1..Len(tree.dependencies) : tree.dependencies[k] \in ToSet(tree.dependencies)
  BY TreeFacts DEF ToSet
<1> QED
  BY <1>1, <1>2, <1>3

\* The orders in which tasks and run levels are read.
LEMMA OrderFacts ==
    ASSUME tree \in Trees
    PROVE  /\ Walks(TaskOrder, [i \in 1..Len(tree.tasks) |-> tree.tasks[i].name])
           /\ Walks(RunLevelOrder, [i \in 1..Len(tree.runLevels) |-> tree.runLevels[i].name])
           /\ TaskOrder \in [1..Len(tree.tasks) -> 1..Len(tree.tasks)]
           /\ RunLevelOrder \in [1..Len(tree.runLevels) -> 1..Len(tree.runLevels)]
<1> DEFINE a == [i \in 1..Len(tree.tasks) |-> tree.tasks[i].name]
           b == [i \in 1..Len(tree.runLevels) |-> tree.runLevels[i].name]
<1>1. TaskOrder = MultimapOrder(a) /\ RunLevelOrder = MultimapOrder(b)
  BY TreeFacts DEF TaskOrder, RunLevelOrder
<1>2. a \in [1..Len(tree.tasks) -> Nat] /\ b \in [1..Len(tree.runLevels) -> Nat]
  BY NodeFacts
<1>3. Len(tree.tasks) \in Nat /\ Len(tree.runLevels) \in Nat
  BY TreeFacts
<1> HIDE DEF a, b
<1>4. a \in Seq(Nat) /\ b \in Seq(Nat) /\ Len(a) = Len(tree.tasks) /\ Len(b) = Len(tree.runLevels)
  BY <1>2, <1>3
<1>5. Walks(TaskOrder, a) /\ Walks(RunLevelOrder, b)
  BY <1>1, <1>4, MultimapFacts
<1> QED
  BY <1>4, <1>5 DEF a, b, Walks

\* What depends on the tree and on the names of tasks only.
LEMMA SameTasks ==
    ASSUME UNCHANGED <<tree, allTasks>>
    PROVE  /\ TaskRecords' = TaskRecords /\ TaskOrder' = TaskOrder /\ RunLevelOrder' = RunLevelOrder
           /\ \A x : Named(x)' = Named(x)
           /\ \A s : Known(s)' = Known(s)
           /\ \A s : NamesOf(s)' = NamesOf(s)
           /\ \A name, n : DeclaredIn(name, n)' = DeclaredIn(name, n)
<1>1. TaskRecords' = TaskRecords /\ TaskOrder' = TaskOrder /\ RunLevelOrder' = RunLevelOrder
  BY DEF TaskRecords, Data, TaskOrder, RunLevelOrder
<1>2. \A x : Named(x)' = Named(x)
  BY DEF Named
<1>3. \A s : Known(s)' = Known(s)
  BY DEF Named, Known
<1>4. \A s : NamesOf(s)' = NamesOf(s)
  BY DEF NamesOf
<1>5. \A name, n : DeclaredIn(name, n)' = DeclaredIn(name, n)
  BY DEF DeclaredIn
<1> QED
  BY <1>1, <1>2, <1>3, <1>4, <1>5

\* The types of the counts.
LEMMA Counts ==
    ASSUME Progress
    PROVE  /\ TaskCount \in 0..Len(tree.tasks) /\ DependencyCount \in 0..Len(tree.dependencies)
           /\ RunLevelCount \in 0..Len(tree.runLevels)
<1> DEFINE a == Len(tree.tasks)
           b == Len(tree.dependencies)
           c == Len(tree.runLevels)
<1>1. a \in Nat /\ b \in Nat /\ c \in Nat
  BY TreeFacts DEF Progress
<1>2. /\ next \in Nat /\ next >= 1 /\ (phase = "tasks" => next <= a + 1)
      /\ (phase = "dependencies" => next <= b + 1) /\ (phase = "run_levels" => next <= c + 1)
  BY DEF Progress
<1>3. /\ phase = "tasks" => TaskCount = next - 1
      /\ phase # "tasks" => TaskCount = a
  BY Zenon DEF TaskCount
<1>4. /\ phase = "tasks" => DependencyCount = 0
      /\ phase = "dependencies" => DependencyCount = next - 1
      /\ phase \notin {"tasks", "dependencies"} => DependencyCount = b
  BY DEF DependencyCount
<1>5. /\ phase = "run_levels" => RunLevelCount = next - 1
      /\ phase = "returned" => RunLevelCount = c
      /\ phase \notin {"run_levels", "returned"} => RunLevelCount = 0
  BY DEF RunLevelCount
<1> HIDE DEF a, b, c
<1>6. TaskCount \in 0..a
  <2>1. next \in Nat /\ next >= 1 /\ (phase = "tasks" => next <= a + 1)
    BY <1>2
  <2>2. a \in Nat
    BY <1>1
  <2>3. phase = "tasks" => TaskCount = next - 1
    BY <1>3
  <2>4. phase # "tasks" => TaskCount \in {0, a}
    BY <1>3
  <2> QED
    BY <2>1, <2>2, <2>3, <2>4
<1>7. DependencyCount \in 0..b
  <2>1. next \in Nat /\ next >= 1 /\ (phase = "dependencies" => next <= b + 1)
    BY <1>2
  <2>2. b \in Nat
    BY <1>1
  <2>3. phase = "dependencies" => DependencyCount = next - 1
    BY <1>4
  <2>4. phase # "dependencies" => DependencyCount \in {0, b}
    BY <1>4
  <2> QED
    BY <2>1, <2>2, <2>3, <2>4
<1>8. RunLevelCount \in 0..c
  <2>1. next \in Nat /\ next >= 1 /\ (phase = "run_levels" => next <= c + 1)
    BY <1>2
  <2>2. c \in Nat
    BY <1>1
  <2>3. phase = "run_levels" => RunLevelCount = next - 1
    BY <1>5
  <2>4. phase # "run_levels" => RunLevelCount \in {0, c}
    BY <1>5
  <2> QED
    BY <2>1, <2>2, <2>3, <2>4
<1> QED
  BY <1>6, <1>7, <1>8 DEF a, b, c

\* Nothing has been read.
LEMMA ReadInit == Init => ReadInv
<1> SUFFICES ASSUME Init PROVE ReadInv
  OBVIOUS
<1>0. tree \in Trees /\ phase = "tasks" /\ next = 1 /\ allTasks = <<>> /\ runLevels = <<>>
  BY Zenon DEF Init
<1>1. Progress
  <2>1. Len(tree.tasks) \in Nat
    BY <1>0, TreeFacts
  <2> QED
    BY <1>0, <2>1 DEF Progress
<1>2. TaskCount = 0 /\ DependencyCount = 0 /\ RunLevelCount = 0
  BY <1>0 DEF TaskCount, DependencyCount, RunLevelCount
<1>3. allTasks = <<>> /\ runLevels = <<>> /\ DOMAIN allTasks = {} /\ DOMAIN runLevels = {}
  BY <1>0
<1>4. 1..0 = {}
  OBVIOUS
<1>5. TasksMade
  <2>1. allTasks \in Seq(TaskRecords) /\ Len(allTasks) = 0
    BY <1>3
  <2> QED
    BY <1>2, <1>4, <2>1 DEF TasksMade
<1>6. DependenciesClosed
  BY <1>3 DEF DependenciesClosed
<1>7. DependenciesMade
  <2>1. \A name : Named(name) = {}
    BY <1>3 DEF Named
  <2> QED
    BY <1>3, <2>1 DEF DependenciesMade
<1>8. RunLevelsMade
  BY <1>2, <1>3, <1>4 DEF RunLevelsMade
<1> QED
  BY <1>1, <1>5, <1>6, <1>7, <1>8 DEF ReadInv

\* A step that reads nothing.
LEMMA ReadOn ==
    ASSUME ReadInv, UNCHANGED <<tree, allTasks, runLevels>>, Progress',
           TaskCount' = TaskCount, DependencyCount' = DependencyCount, RunLevelCount' = RunLevelCount,
           phase' = "tasks" => phase = "tasks"
    PROVE  ReadInv'
<1> USE DEF ReadInv
<1>1. TaskOrder' = TaskOrder /\ RunLevelOrder' = RunLevelOrder /\ TaskRecords' = TaskRecords
  BY SameTasks
<1>2. TasksMade'
  <2>1. \A t : TaskOf(t)' = TaskOf(t)
    BY <1>1 DEF TaskOf
  <2> QED
    BY <1>1, <2>1 DEF TasksMade
<1>3. DependenciesClosed'
  BY DEF DependenciesClosed
<1>4. DependenciesMade'
  <2>1. /\ \A x : Named(x)' = Named(x) 
        /\ \A s : Known(s)' = Known(s)
        /\ \A s : NamesOf(s)' = NamesOf(s)
        /\ \A name, n : DeclaredIn(name, n)' = DeclaredIn(name, n)
    BY SameTasks
  <2> QED
    BY <2>1 DEF DependenciesMade
<1>5. RunLevelsMade'
  <2>1. \A k : RunLevelAt(k)' = RunLevelAt(k)
    BY <1>1 DEF RunLevelAt
  <2>2. \A s : Known(s)' = Known(s) /\ NamesOf(s)' = NamesOf(s)
    BY SameTasks
  <2> QED
    BY <2>1, <2>2 DEF RunLevelsMade
<1> QED
  BY <1>2, <1>3, <1>4, <1>5

\* Between the loops.
LEMMA LoopEnds ==
    ASSUME ReadInv, TasksRead \/ DependenciesRead \/ RunLevelsRead
    PROVE  ReadInv'
<1> DEFINE a == Len(tree.tasks)
           b == Len(tree.dependencies)
           c == Len(tree.runLevels)
<1>1. Progress /\ tree \in Trees /\ next \in Nat
  BY DEF ReadInv, Progress
<1>2. a \in Nat /\ b \in Nat /\ c \in Nat
  BY <1>1, TreeFacts
<1>3. tree' = tree /\ allTasks' = allTasks /\ runLevels' = runLevels /\ phase' # "tasks"
  BY DEF TasksRead, DependenciesRead, RunLevelsRead
<1>4. /\ (phase = "tasks" => next <= a + 1)
      /\ (phase = "dependencies" => next <= b + 1) /\ (phase = "run_levels" => next <= c + 1)
  BY <1>1 DEF Progress
<1>5. CASE TasksRead
  <2>1. phase = "tasks" /\ next > a /\ phase' = "dependencies" /\ next' = 1
    BY <1>5 DEF TasksRead
  <2>2. Progress'
    BY <1>1, <1>2, <1>3, <2>1 DEF Progress
  <2>3. TaskCount' = TaskCount
    BY <1>1, <1>2, <1>3, <1>4, <2>1 DEF TaskCount
  <2>4. DependencyCount' = DependencyCount /\ RunLevelCount' = RunLevelCount
    BY <2>1 DEF DependencyCount, RunLevelCount
  <2> QED
    BY <1>3, <2>2, <2>3, <2>4, ReadOn
<1>6. CASE DependenciesRead
  <2>1. phase = "dependencies" /\ next > b /\ next' = 1 /\ (phase' = "crashed" \/ phase' = "run_levels")
    BY <1>6 DEF DependenciesRead
  <2>2. Progress'
    BY <1>1, <1>2, <1>3, <2>1 DEF Progress
  <2>3. TaskCount' = TaskCount
    BY <1>3, <2>1 DEF TaskCount
  <2>4. DependencyCount' = DependencyCount
    BY <1>1, <1>2, <1>3, <1>4, <2>1 DEF DependencyCount
  <2>5. RunLevelCount' = RunLevelCount
    BY <2>1 DEF RunLevelCount
  <2> QED
    BY <1>3, <2>2, <2>3, <2>4, <2>5, ReadOn
<1>7. CASE RunLevelsRead
  <2>1. phase = "run_levels" /\ next > c /\ next' = next /\ phase' = "returned"
    BY <1>7 DEF RunLevelsRead
  <2>2. Progress'
    BY <1>1, <1>2, <1>3, <2>1 DEF Progress
  <2>3. TaskCount' = TaskCount /\ DependencyCount' = DependencyCount
    BY <1>3, <2>1 DEF TaskCount, DependencyCount
  <2>4. RunLevelCount' = RunLevelCount
    BY <1>1, <1>2, <1>3, <1>4, <2>1 DEF RunLevelCount
  <2> QED
    BY <1>3, <2>2, <2>3, <2>4, ReadOn
<1> QED
  BY <1>5, <1>6, <1>7

\* There is no declaration yet.
LEMMA NoneDeclared ==
    ASSUME NEW name
    PROVE  DeclaredIn(name, 0) = <<>> /\ Known(<<>>) = <<>> /\ NamesOf(<<>>) = <<>>
<1> DEFINE parts == [k \in 1..0 |->
               IF tree.dependencies[k].name = name THEN tree.dependencies[k].names ELSE <<>>]
<1>1. parts = <<>>
  OBVIOUS
<1> HIDE DEF parts
<1>2. FlattenSeq(<<>>) = <<>>
  BY DEF FlattenSeq
<1>3. DeclaredIn(name, 0) = <<>>
  BY <1>1, <1>2 DEF DeclaredIn, parts
<1>4. <<>> \in Seq(Nat) /\ \A k \in DOMAIN <<>> : Named(<<>>[k]) # {}
  OBVIOUS
<1>5. Known(<<>>) = <<>>
  BY <1>4, KnownFacts
<1>6. NamesOf(<<>>) = <<>>
  BY DEF NamesOf
<1> QED
  BY <1>3, <1>5, <1>6

\* One more task.
LEMMA TaskMade ==
    ASSUME ReadInv, CreateTaskDescription
    PROVE  ReadInv'
<1> DEFINE a == Len(tree.tasks)
           node == TaskOf(next)
           task == [name |-> node.name, data |-> DataRead(node.value), dependencies |-> <<>>]
<1>1. Progress /\ tree \in Trees /\ next \in Nat /\ next >= 1
  BY DEF ReadInv, Progress
<1>2. /\ tree' = tree /\ runLevels' = runLevels /\ phase' = "tasks" /\ phase = "tasks"
      /\ next' = next + 1 /\ next <= a
  BY DEF CreateTaskDescription
<1>3. allTasks' = Append(allTasks, task)
  BY Zenon DEF CreateTaskDescription, TaskOf, DataRead
<1>4. a \in Nat /\ next \in 1..a
  BY <1>1, <1>2, TreeFacts
<1>5. TaskOrder[next] \in 1..a
  BY <1>1, <1>4, OrderFacts
<1>6. task \in TaskRecords
  <2>1. node.name \in Nat
    BY <1>1, <1>5, NodeFacts DEF TaskOf
  <2>2. DataRead(node.value) \in Data
    <3>1. TaskOrder[next] \in DOMAIN tree.tasks
      BY <1>1, <1>5, TreeFacts
    <3> QED
      BY <3>1 DEF Data, TaskOf
  <2>3. <<>> \in Seq(Nat)
    OBVIOUS
  <2> HIDE DEF node
  <2> QED
    BY <2>1, <2>2, <2>3 DEF TaskRecords
<1>7. /\ TaskCount = next - 1 /\ TaskCount' = next /\ DependencyCount = 0 /\ DependencyCount' = 0
      /\ RunLevelCount = 0 /\ RunLevelCount' = 0
  BY <1>1, <1>2 DEF TaskCount, DependencyCount, RunLevelCount
<1>8. allTasks \in Seq(TaskRecords) /\ Len(allTasks) = next - 1 /\ DOMAIN allTasks = 1..next - 1
  BY <1>1, <1>7 DEF ReadInv, TasksMade
<1> HIDE DEF task
<1>9. /\ allTasks' \in Seq(TaskRecords) /\ Len(allTasks') = next
      /\ DOMAIN allTasks' = 1..next
      /\ allTasks'[next] = task /\ \A t \in 1..next - 1 : allTasks'[t] = allTasks[t]
  <2>1. /\ Append(allTasks, task) \in Seq(TaskRecords) /\ Len(Append(allTasks, task)) = Len(allTasks) + 1
        /\ Append(allTasks, task)[Len(allTasks) + 1] = task
        /\ \A t \in 1..Len(allTasks) : Append(allTasks, task)[t] = allTasks[t]
    BY <1>6, <1>8, AppendProperties
  <2>2. Len(allTasks) + 1 = next
    BY <1>1, <1>8
  <2> QED
    BY <1>1, <1>3, <1>8, <2>1, <2>2
<1>10. TaskRecords' = TaskRecords /\ TaskOrder' = TaskOrder /\ RunLevelOrder' = RunLevelOrder
  BY <1>2 DEF TaskRecords, Data, TaskOrder, RunLevelOrder
<1>11. Progress'
  BY <1>1, <1>2, <1>4 DEF Progress
<1>12. TasksMade'
  <2>1. \A t : TaskOf(t)' = TaskOf(t)
    BY <1>2, <1>10 DEF TaskOf
  <2>2. \A t \in 1..next - 1 : allTasks[t].name = TaskOf(t).name /\ allTasks[t].data = DataRead(TaskOf(t).value)
    BY <1>7 DEF ReadInv, TasksMade
  <2>3. task.name = TaskOf(next).name /\ task.data = DataRead(TaskOf(next).value)
    BY DEF task
  <2>4. \A t \in 1..next : t \in 1..next - 1 \/ t = next
    BY <1>1
  <2>5. \A t \in 1..next : allTasks'[t].name = TaskOf(t).name /\ allTasks'[t].data = DataRead(TaskOf(t).value)
    BY <1>9, <2>2, <2>3, <2>4
  <2> QED
    BY <1>7, <1>9, <1>10, <2>1, <2>5 DEF TasksMade
<1>13. \A t \in DOMAIN allTasks' : allTasks'[t].dependencies = <<>>
  <2>1. \A t \in 1..next - 1 : allTasks[t].dependencies = <<>>
    BY <1>2, <1>8 DEF ReadInv, DependenciesMade
  <2>2. task.dependencies = <<>>
    BY DEF task
  <2>3. \A t \in 1..next : t \in 1..next - 1 \/ t = next
    BY <1>1
  <2> QED
    BY <1>9, <2>1, <2>2, <2>3
<1>14. DependenciesClosed'
  <2>1. ToSet(<<>>) = {}
    BY DEF ToSet
  <2> QED
    BY <1>13, <2>1 DEF DependenciesClosed
<1>15. DependenciesMade'
  <2>1. ASSUME NEW name \in Nat, Named(name)' # {}
        PROVE  NamesOf(allTasks[Min(Named(name))].dependencies)' = Known(DeclaredIn(name, 0))'
    <3>1. Min(Named(name))' \in DOMAIN allTasks'
      <4> DEFINE T == Named(name)'
      <4>1. T \subseteq DOMAIN allTasks' /\ T # {}
        BY <2>1 DEF Named
      <4>2. T \subseteq Nat
        BY <1>9, <4>1
      <4> HIDE DEF T
      <4>3. Min(T) \in T
        BY <4>1, <4>2, MinFacts
      <4>4. Min(Named(name))' = Min(T)
        BY DEF T, Min
      <4> QED
        BY <4>1, <4>3, <4>4
    <3>2. NamesOf(allTasks[Min(Named(name))].dependencies)' = <<>>
      BY <1>13, <3>1 DEF NamesOf
    <3>3. DeclaredIn(name, 0)' = DeclaredIn(name, 0) /\ DeclaredIn(name, 0) = <<>>
      BY <1>2, NoneDeclared DEF DeclaredIn
    <3>4. Known(DeclaredIn(name, 0))' = <<>>
      <4>1. Picked(<<>>, {}) = <<>>
        BY AscendingEmpty DEF Picked
      <4>2. {k \in DOMAIN <<>> : Named(<<>>[k]) # {}}' = {}
        OBVIOUS
      <4>3. Known(<<>>)' = <<>>
        BY <4>1, <4>2 DEF Known
      <4> QED
        BY <3>3, <4>3 DEF Known
    <3> QED
      BY <3>2, <3>4
  <2> QED
    BY <1>7, <1>13, <2>1 DEF DependenciesMade
<1>16. RunLevelsMade'
  <2>1. \A k \in 1..0 : FALSE
    OBVIOUS
  <2>2. DOMAIN runLevels = {}
    BY <1>7, <2>1 DEF ReadInv, RunLevelsMade
  <2> QED
    BY <1>2, <1>7, <2>1, <2>2 DEF RunLevelsMade
<1> QED
  BY <1>11, <1>12, <1>14, <1>15, <1>16 DEF ReadInv

\* One declaration more.
LEMMA DeclaredNext ==
    ASSUME tree \in Trees, NEW n \in 1..Len(tree.dependencies), NEW name
    PROVE  /\ DeclaredIn(name, n - 1) \in Seq(Nat)
           /\ DeclaredIn(name, n) = DeclaredIn(name, n - 1) \o
                (IF tree.dependencies[n].name = name THEN tree.dependencies[n].names ELSE <<>>)
<1> DEFINE Part(k) == IF tree.dependencies[k].name = name THEN tree.dependencies[k].names ELSE <<>>
           s == [k \in 1..n - 1 |-> Part(k)]
           t == [k \in 1..n |-> Part(k)]
           U == Seq(Nat)
<1>1. Len(tree.dependencies) \in Nat
  BY TreeFacts
<1>2. \A k \in 1..Len(tree.dependencies) : tree.dependencies[k].names \in U
  BY NodeFacts
<1>3. <<>> \in U
  OBVIOUS
<1>4. \A k \in 1..n : Part(k) \in U
  BY <1>1, <1>2, <1>3
<1>5. DeclaredIn(name, n - 1) = FlattenSeq(s) /\ DeclaredIn(name, n) = FlattenSeq(t)
  BY DEF DeclaredIn
<1> HIDE DEF Part
<1>6. n \in Nat /\ n - 1 \in Nat
  BY <1>1
<1> HIDE DEF U
<1>7. s \in Seq(U) /\ t \in Seq(U) /\ Len(s) = n - 1 /\ Len(t) = n
  <2>1. s \in [1..n - 1 -> U] /\ t \in [1..n -> U]
    BY <1>4, <1>6
  <2> HIDE DEF s, t
  <2> QED
    BY <1>6, <2>1
<1>8. t = Append(s, Part(n))
  <2> DEFINE q == Append(s, Part(n))
  <2>1. Part(n) \in U
    BY <1>4, <1>6
  <2>2. /\ q \in Seq(U) /\ Len(q) = Len(s) + 1
        /\ q[Len(s) + 1] = Part(n) /\ \A k \in 1..Len(s) : q[k] = s[k]
    <3> HIDE DEF s
    <3> QED
      BY <1>7, <2>1, AppendProperties
  <2>3. \A k \in 1..n - 1 : s[k] = Part(k) /\ t[k] = Part(k)
    BY <1>6
  <2>4. t[n] = Part(n)
    BY <1>6
  <2> HIDE DEF q, s, t
  <2>5. Len(q) = n /\ q[n] = Part(n) /\ \A k \in 1..n - 1 : q[k] = s[k]
    BY <1>6, <1>7, <2>2
  <2>6. \A k \in 1..n : q[k] = t[k]
    <3>1. \A k \in 1..n : k = n \/ k \in 1..n - 1
      BY <1>6
    <3> QED
      BY <2>3, <2>4, <2>5, <3>1
  <2>7. q = t
    BY <1>7, <2>2, <2>5, <2>6, SeqEqual
  <2> QED
    BY <2>7 DEF q
<1> HIDE DEF s, t
<1>9. Part(n) \in U
  BY <1>4, <1>6
<1>10. FlattenSeq(s) \in Seq(Nat) /\ FlattenSeq(Append(s, Part(n))) = Joined(FlattenSeq(s), Part(n))
  <2>1. s \in Seq(Seq(Nat)) /\ Part(n) \in Seq(Nat)
    BY <1>7, <1>9 DEF U
  <2> QED
    BY <2>1, FlattenAppend
<1> QED
  BY <1>5, <1>8, <1>10 DEF Joined, Part

\* The names of tasks in a row.
LEMMA NamesOfConcat ==
    ASSUME allTasks \in Seq(TaskRecords), NEW s \in Seq(Nat), NEW t \in Seq(Nat),
           ToSet(s) \subseteq DOMAIN allTasks, ToSet(t) \subseteq DOMAIN allTasks
    PROVE  NamesOf(s \o t) = NamesOf(s) \o NamesOf(t)
<1> DEFINE m == Len(s)
           n == Len(t)
           u == s \o t
           a == NamesOf(s)
           b == NamesOf(t)
           c == NamesOf(u)
<1>1. \A k \in DOMAIN allTasks : allTasks[k].name \in Nat
  <2>1. \A k \in DOMAIN allTasks : allTasks[k] \in TaskRecords
    OBVIOUS
  <2> QED
    BY <2>1 DEF TaskRecords
<1>2. m \in Nat /\ n \in Nat /\ DOMAIN s = 1..m /\ DOMAIN t = 1..n
  OBVIOUS
<1>3. u \in Seq(Nat) /\ Len(u) = m + n /\ \A i \in 1..m + n : u[i] = IF i <= m THEN s[i] ELSE t[i - m]
  BY ConcatProperties
<1>4. \A k \in 1..m : allTasks[s[k]].name \in Nat
  BY <1>1, <1>2 DEF ToSet
<1>5. \A k \in 1..n : allTasks[t[k]].name \in Nat
  BY <1>1, <1>2 DEF ToSet
<1>6. /\ a = [k \in 1..m |-> allTasks[s[k]].name] /\ b = [k \in 1..n |-> allTasks[t[k]].name]
      /\ c = [k \in 1..m + n |-> allTasks[u[k]].name]
  BY <1>2, <1>3, NamesOfFacts
<1> HIDE DEF m, n, u, a, b, c
<1>7. a \in Seq(Nat) /\ Len(a) = m
  <2>1. a \in [1..m -> Nat]
    BY <1>4, <1>6
  <2> QED
    BY <1>2, <2>1
<1>8. b \in Seq(Nat) /\ Len(b) = n
  <2>1. b \in [1..n -> Nat]
    BY <1>5, <1>6
  <2> QED
    BY <1>2, <2>1
<1>9. \A i \in 1..m + n : (i <= m => i \in 1..m) /\ (~(i <= m) => i - m \in 1..n)
  BY <1>2
<1>10. \A i \in 1..m + n : allTasks[u[i]].name = IF i <= m THEN a[i] ELSE b[i - m]
  <2>1. \A i \in 1..m : a[i] = allTasks[s[i]].name
    BY <1>6
  <2>2. \A i \in 1..n : b[i] = allTasks[t[i]].name
    BY <1>6
  <2> QED
    BY <1>3, <1>9, <2>1, <2>2
<1>11. \A i \in 1..m + n : allTasks[u[i]].name \in Nat
  BY <1>4, <1>5, <1>3, <1>9
<1>12. c \in Seq(Nat) /\ Len(c) = m + n
  <2> DEFINE w == m + n
  <2>1. w \in Nat /\ c \in [1..w -> Nat]
    BY <1>2, <1>6, <1>11
  <2> HIDE DEF w
  <2>2. c \in Seq(Nat) /\ Len(c) = w
    BY <2>1
  <2> QED
    BY <2>2 DEF w
<1>13. /\ a \o b \in Seq(Nat) /\ Len(a \o b) = m + n
       /\ \A i \in 1..m + n : (a \o b)[i] = IF i <= m THEN a[i] ELSE b[i - m]
  BY <1>7, <1>8, ConcatProperties
<1>14. \A i \in 1..m + n : c[i] = (a \o b)[i]
  <2>1. \A i \in 1..m + n : c[i] = allTasks[u[i]].name
    BY <1>6
  <2> QED
    BY <1>10, <1>13, <2>1
<1>15. c = a \o b
  BY <1>12, <1>13, <1>14, SeqEqual
<1> QED
  BY <1>15 DEF a, b, c, u

\* A declaration of dependencies of a task that there is.
LEMMA DependenciesExtended ==
    ASSUME ReadInv, NEW d \in ToSet(tree.dependencies), d.name \in Nat, d.names \in Seq(Nat),
           NEW place, Named(d.name) # {}, phase # "tasks",
           allTasks' = [allTasks EXCEPT ![Min(Named(d.name))].dependencies = @ \o Resolve(d.names, place).found],
           UNCHANGED tree
    PROVE  /\ allTasks' \in Seq(TaskRecords) /\ Len(allTasks') = Len(allTasks)
           /\ \A t \in DOMAIN allTasks : allTasks'[t].name = allTasks[t].name /\ allTasks'[t].data = allTasks[t].data
           /\ \A x : Named(x)' = Named(x)
           /\ \A s : Known(s)' = Known(s)
           /\ \A s \in Seq(Nat) : ToSet(s) \subseteq DOMAIN allTasks => NamesOf(s)' = NamesOf(s)
           /\ DependenciesClosed'
           /\ NamesOf(allTasks[Min(Named(d.name))].dependencies)' =
                NamesOf(allTasks[Min(Named(d.name))].dependencies) \o Known(d.names)
           /\ \A t \in DOMAIN allTasks : t # Min(Named(d.name)) => allTasks'[t] = allTasks[t]
<1> DEFINE m == Min(Named(d.name))
           found == Resolve(d.names, place).found
           old == allTasks[m].dependencies
<1>1. allTasks \in Seq(TaskRecords)
  BY DEF ReadInv, TasksMade
<1>2. m \in DOMAIN allTasks /\ allTasks[m].name = d.name
  BY <1>1, NamedFacts
<1>3. /\ found \in Seq(Nat) /\ ToSet(found) \subseteq DOMAIN allTasks /\ NamesOf(found) = Known(d.names)
      /\ \A u \in ToSet(found) : allTasks[u].name \in ToSet(d.names)
  BY <1>1, ResolveFacts
<1> HIDE DEF m, found
<1>4. allTasks[m] \in TaskRecords /\ old \in Seq(Nat)
  <2>1. allTasks[m] \in TaskRecords
    BY <1>1, <1>2
  <2> QED
    BY <2>1 DEF TaskRecords
<1>5. ToSet(old) \subseteq DOMAIN allTasks
  BY <1>2 DEF ReadInv, DependenciesClosed
<1>6. allTasks' = [allTasks EXCEPT ![m] = [allTasks[m] EXCEPT !.dependencies = old \o found]]
  BY DEF m, found
<1> DEFINE new == old \o found
           task == [allTasks[m] EXCEPT !.dependencies = new]
<1>7. new \in Seq(Nat) /\ ToSet(new) = ToSet(old) \cup ToSet(found)
  BY <1>3, <1>4, Extended
<1> HIDE DEF new, old
<1>8. /\ task \in TaskRecords /\ task.name = allTasks[m].name /\ task.data = allTasks[m].data
      /\ task.dependencies = new
  BY <1>4, <1>7 DEF TaskRecords
<1>9. allTasks' = [allTasks EXCEPT ![m] = task]
  BY <1>6 DEF new, old
<1> HIDE DEF task
<1>10. /\ DOMAIN allTasks' = DOMAIN allTasks /\ allTasks'[m] = task
       /\ \A t \in DOMAIN allTasks : t # m => allTasks'[t] = allTasks[t]
  BY <1>2, <1>9
<1>11. allTasks' \in Seq(TaskRecords) /\ Len(allTasks') = Len(allTasks)
  <2> DEFINE n == Len(allTasks)
  <2>1. n \in Nat /\ allTasks \in [1..n -> TaskRecords] /\ DOMAIN allTasks = 1..n
    BY <1>1
  <2> HIDE DEF n
  <2>2. allTasks' \in [1..n -> TaskRecords]
    BY <1>2, <1>8, <1>9, <2>1
  <2>3. allTasks' \in Seq(TaskRecords) /\ Len(allTasks') = n
    BY <2>1, <2>2
  <2> QED
    BY <2>3 DEF n
<1>12. \A t \in DOMAIN allTasks : allTasks'[t].name = allTasks[t].name /\ allTasks'[t].data = allTasks[t].data
  BY <1>8, <1>10
<1>13. \A x : Named(x)' = Named(x)
  BY <1>10, <1>12 DEF Named
<1>14. \A s : Known(s)' = Known(s)
  BY <1>13 DEF Known
<1>15. ASSUME NEW s \in Seq(Nat), ToSet(s) \subseteq DOMAIN allTasks
       PROVE  NamesOf(s)' = NamesOf(s)
  <2>1. \A k \in DOMAIN s : s[k] \in DOMAIN allTasks
    BY <1>15 DEF ToSet
  <2> QED
    BY <1>12, <2>1 DEF NamesOf
<1>16. [k \in DOMAIN new |-> allTasks'[new[k]].name] = NamesOf(old) \o Known(d.names)
  <2>1. ToSet(new) \subseteq DOMAIN allTasks
    BY <1>3, <1>5, <1>7
  <2>2. NamesOf(new) = NamesOf(old) \o NamesOf(found)
    BY <1>1, <1>3, <1>4, <1>5, NamesOfConcat DEF new
  <2>3. [k \in DOMAIN new |-> allTasks'[new[k]].name] = NamesOf(new)
    <3>1. \A k \in DOMAIN new : new[k] \in DOMAIN allTasks
      BY <2>1 DEF ToSet
    <3> QED
      BY <1>12, <3>1 DEF NamesOf
  <2> QED
    BY <1>3, <2>2, <2>3
<1>17. DependenciesClosed'
  <2>1. ASSUME NEW t \in DOMAIN allTasks, NEW u \in ToSet(allTasks'[t].dependencies)
        PROVE  /\ u \in DOMAIN allTasks
               /\ \E e \in ToSet(tree.dependencies) :
                    e.name = allTasks[t].name /\ allTasks[u].name \in ToSet(e.names)
    <3>1. CASE u \in ToSet(allTasks[t].dependencies)
      BY <3>1 DEF ReadInv, DependenciesClosed
    <3>2. CASE u \notin ToSet(allTasks[t].dependencies)
      <4>1. t = m
        BY <1>10, <2>1, <3>2
      <4>2. u \in ToSet(found)
        BY <1>7, <1>8, <1>10, <2>1, <3>2, <4>1 DEF old
      <4> QED
        BY <1>2, <1>3, <4>1, <4>2
    <3> QED
      BY <3>1, <3>2
  <2>2. \A t \in DOMAIN allTasks : \A u \in ToSet(allTasks'[t].dependencies) :
          /\ u \in DOMAIN allTasks'
          /\ \E e \in ToSet(tree'.dependencies) :
               e.name = allTasks'[t].name /\ allTasks'[u].name \in ToSet(e.names)
    BY <1>10, <1>12, <2>1
  <2> QED
    BY <1>10, <2>2 DEF DependenciesClosed
<1>18. NamesOf(allTasks[Min(Named(d.name))].dependencies)' = [k \in DOMAIN new |-> allTasks'[new[k]].name]
  <2>1. Min(Named(d.name))' = m
    BY <1>13 DEF m, Min
  <2> DEFINE now == (allTasks[Min(Named(d.name))].dependencies)'
  <2>2. now = new
    BY <1>8, <1>10, <2>1
  <2>3. NamesOf(allTasks[Min(Named(d.name))].dependencies)' = [k \in DOMAIN now |-> allTasks'[now[k]].name]
    BY DEF NamesOf
  <2> HIDE DEF now
  <2> QED
    BY <2>2, <2>3, Zenon
<1> QED
  BY <1>10, <1>11, <1>12, <1>13, <1>14, <1>15, <1>16, <1>17, <1>18 DEF m, old

\* One more declaration of dependencies.
LEMMA DeclarationMade ==
    ASSUME ReadInv, ReadDependencies
    PROVE  ReadInv'
<1> DEFINE b == Len(tree.dependencies)
<1>1. Progress /\ tree \in Trees /\ next \in Nat /\ next >= 1 /\ allTasks \in Seq(TaskRecords)
  BY DEF ReadInv, Progress, TasksMade
<1>2. /\ tree' = tree /\ runLevels' = runLevels /\ phase' = "dependencies" /\ phase = "dependencies"
      /\ next' = next + 1 /\ next <= b
  BY DEF ReadDependencies
<1>3. b \in Nat /\ next \in 1..b
  BY <1>1, <1>2, TreeFacts
<1>4. PICK n \in 1..b : n = next
  BY <1>3
<1> DEFINE d == tree.dependencies[n]
<1>5. PICK e \in ToSet(tree.dependencies) : e = d /\ e.name \in Nat /\ e.names \in Seq(Nat)
  BY <1>1, NodeFacts
<1>6. /\ DependencyCount = n - 1 /\ DependencyCount' = n
      /\ TaskCount = Len(tree.tasks) /\ TaskCount' = Len(tree.tasks)
      /\ RunLevelCount = 0 /\ RunLevelCount' = 0
  BY <1>1, <1>2, <1>4 DEF TaskCount, DependencyCount, RunLevelCount
<1>7. TaskRecords' = TaskRecords /\ TaskOrder' = TaskOrder /\ RunLevelOrder' = RunLevelOrder
  BY <1>2 DEF TaskRecords, Data, TaskOrder, RunLevelOrder
<1>8. \A name, m : DeclaredIn(name, m)' = DeclaredIn(name, m)
  BY <1>2 DEF DeclaredIn
<1>9. ASSUME NEW name
      PROVE  /\ DeclaredIn(name, n - 1) \in Seq(Nat)
             /\ e.name = name => Known(DeclaredIn(name, n)) = Known(DeclaredIn(name, n - 1)) \o Known(e.names)
             /\ e.name # name => DeclaredIn(name, n) = DeclaredIn(name, n - 1)
  <2> DEFINE old == DeclaredIn(name, n - 1)
  <2>1. old \in Seq(Nat) /\ DeclaredIn(name, n) = old \o (IF e.name = name THEN e.names ELSE <<>>)
    BY <1>1, <1>5, DeclaredNext
  <2> HIDE DEF old
  <2>2. old \o <<>> = old
    BY <2>1, ConcatEmptySeq
  <2>3. Known(old \o e.names) = Known(old) \o Known(e.names)
    BY <1>5, <2>1, KnownConcat
  <2> QED
    BY <2>1, <2>2, <2>3 DEF old
<1>10. Progress'
  BY <1>1, <1>2, <1>3 DEF Progress
<1>11. RunLevelsMade'
  <2>1. \A k \in 1..0 : FALSE
    OBVIOUS
  <2>2. DOMAIN runLevels = {}
    BY <1>6, <2>1 DEF ReadInv, RunLevelsMade
  <2> QED
    BY <1>2, <1>6, <2>1, <2>2 DEF RunLevelsMade
<1>12. \A t : TaskOf(t)' = TaskOf(t)
  BY <1>2, <1>7 DEF TaskOf
<1>13. \A name \in Nat : Named(name) # {} =>
          NamesOf(allTasks[Min(Named(name))].dependencies) = Known(DeclaredIn(name, n - 1))
  BY <1>6 DEF ReadInv, DependenciesMade
<1>14. CASE Named(e.name) = {}
  <2>1. allTasks' = allTasks
    BY <1>4, <1>5, <1>14 DEF ReadDependencies
  <2>2. TasksMade'
    BY <1>6, <1>7, <1>12, <2>1 DEF ReadInv, TasksMade
  <2>3. DependenciesClosed'
    BY <1>2, <2>1 DEF ReadInv, DependenciesClosed
  <2>4. DependenciesMade'
    <3>1. /\ \A x : Named(x)' = Named(x)
          /\ \A s : Known(s)' = Known(s)
          /\ \A s : NamesOf(s)' = NamesOf(s)
      BY <1>2, <2>1, SameTasks
    <3>2. \A name \in Nat : Named(name) # {} => DeclaredIn(name, n) = DeclaredIn(name, n - 1)
      BY <1>9, <1>14
    <3>3. ASSUME NEW name \in Nat, Named(name)' # {}
          PROVE  NamesOf(allTasks[Min(Named(name))].dependencies)' = Known(DeclaredIn(name, n))'
      <4>1. Named(name) # {}
        BY <3>1, <3>3
      <4>2. NamesOf(allTasks[Min(Named(name))].dependencies) = Known(DeclaredIn(name, n))
        BY <1>13, <3>2, <4>1
      <4>3. Known(DeclaredIn(name, n))' = Known(DeclaredIn(name, n))
        BY <1>8, <3>1
      <4>4. NamesOf(allTasks[Min(Named(name))].dependencies)' = NamesOf(allTasks[Min(Named(name))].dependencies)
        BY <2>1, <3>1
      <4> QED
        BY <4>2, <4>3, <4>4
    <3> QED
      BY <1>2, <1>6, <3>3 DEF DependenciesMade
  <2> QED
    BY <1>10, <1>11, <2>2, <2>3, <2>4 DEF ReadInv
<1>15. CASE Named(e.name) # {}
  <2> DEFINE m == Min(Named(e.name))
             place == <<"dependency", next>>
  <2>1. allTasks' = [allTasks EXCEPT ![m].dependencies = @ \o Resolve(e.names, place).found]
    BY <1>4, <1>5, <1>15, Zenon DEF ReadDependencies
  <2>2. phase # "tasks" /\ UNCHANGED tree
    BY <1>2
  <2>3. /\ allTasks' \in Seq(TaskRecords) /\ Len(allTasks') = Len(allTasks)
        /\ \A t \in DOMAIN allTasks : allTasks'[t].name = allTasks[t].name /\ allTasks'[t].data = allTasks[t].data
        /\ \A x : Named(x)' = Named(x)
        /\ \A s : Known(s)' = Known(s)
        /\ \A s \in Seq(Nat) : ToSet(s) \subseteq DOMAIN allTasks => NamesOf(s)' = NamesOf(s)
        /\ DependenciesClosed'
        /\ NamesOf(allTasks[Min(Named(e.name))].dependencies)' =
             NamesOf(allTasks[m].dependencies) \o Known(e.names)
        /\ \A t \in DOMAIN allTasks : t # m => allTasks'[t] = allTasks[t]
    <3> PICK pl : pl = place
      OBVIOUS
    <3>1. allTasks' = [allTasks EXCEPT ![Min(Named(e.name))].dependencies = @ \o Resolve(e.names, pl).found]
      BY <2>1
    <3> QED
      BY <1>5, <1>15, <2>2, <3>1, DependenciesExtended
  <2>4. TasksMade'
    <3>1. DOMAIN allTasks = 1..Len(tree.tasks) /\ Len(allTasks) = Len(tree.tasks)
      BY <1>1, <1>6 DEF ReadInv, TasksMade
    <3>2. \A t \in 1..Len(tree.tasks) : allTasks[t].name = TaskOf(t).name /\ allTasks[t].data = DataRead(TaskOf(t).value)
      BY <1>6 DEF ReadInv, TasksMade
    <3>3. \A t \in 1..Len(tree.tasks) : allTasks'[t].name = TaskOf(t).name /\ allTasks'[t].data = DataRead(TaskOf(t).value)
      BY <2>3, <3>1, <3>2
    <3> QED
      BY <1>6, <1>7, <1>12, <2>3, <3>1, <3>3 DEF TasksMade
  <2>5. DependenciesMade'
    <3>1. ASSUME NEW name \in Nat, Named(name)' # {}
          PROVE  NamesOf(allTasks[Min(Named(name))].dependencies)' = Known(DeclaredIn(name, n))'
      <4>1. Named(name) # {} /\ Named(name)' = Named(name)
        BY <2>3, <3>1
      <4>2. Known(DeclaredIn(name, n))' = Known(DeclaredIn(name, n))
        BY <1>8, <2>3
      <4>3. NamesOf(allTasks[Min(Named(name))].dependencies) = Known(DeclaredIn(name, n - 1))
        BY <1>13, <4>1
      <4>4. CASE name = e.name
        <5>1. NamesOf(allTasks[m].dependencies) = Known(DeclaredIn(name, n - 1))
          BY <4>3, <4>4
        <5>2. NamesOf(allTasks[Min(Named(name))].dependencies)' =
                NamesOf(allTasks[m].dependencies) \o Known(e.names)
          BY <2>3, <4>4
        <5>3. Known(DeclaredIn(name, n)) = Known(DeclaredIn(name, n - 1)) \o Known(e.names)
          BY <1>9, <4>4
        <5> QED
          BY <4>2, <5>1, <5>2, <5>3
      <4>5. CASE name # e.name
        <5>1. PICK t : t = Min(Named(name))
          OBVIOUS
        <5>2. /\ t \in DOMAIN allTasks /\ allTasks[t].name = name
          BY <1>1, <4>1, <5>1, NamedFacts
        <5>3. t # m
          BY <1>1, <1>15, <4>5, <5>2, NamedFacts
        <5>4. PICK s : s = allTasks[t].dependencies
          OBVIOUS
        <5>5. Min(Named(name))' = t
          BY <4>1, <5>1
        <5>6. (allTasks[Min(Named(name))].dependencies)' = s
          BY <2>3, <5>2, <5>3, <5>4, <5>5
        <5>7. NamesOf(allTasks[Min(Named(name))].dependencies)' = NamesOf(s)'
          BY <5>6 DEF NamesOf
        <5>8. s \in Seq(Nat) /\ ToSet(s) \subseteq DOMAIN allTasks
          <6>1. allTasks[t] \in TaskRecords
            BY <1>1, <5>2
          <6>2. s \in Seq(Nat)
            BY <5>4, <6>1 DEF TaskRecords
          <6> QED
            BY <5>2, <5>4, <6>2 DEF ReadInv, DependenciesClosed
        <5>9. NamesOf(s)' = NamesOf(s)
          BY <2>3, <5>8
        <5>10. DeclaredIn(name, n) = DeclaredIn(name, n - 1)
          BY <1>9, <4>5
        <5>11. NamesOf(s) = Known(DeclaredIn(name, n - 1))
          BY <4>3, <5>1, <5>4
        <5> QED
          BY <4>2, <5>7, <5>9, <5>10, <5>11
      <4> QED
        BY <4>4, <4>5
    <3> QED
      BY <1>2, <1>6, <3>1 DEF DependenciesMade
  <2> QED
    BY <1>10, <1>11, <2>3, <2>4, <2>5 DEF ReadInv
<1> QED
  BY <1>14, <1>15

\* One more run level.
LEMMA RunLevelMade ==
    ASSUME ReadInv, CreateRunLevel
    PROVE  ReadInv'
<1> DEFINE c == Len(tree.runLevels)
<1>1. Progress /\ tree \in Trees /\ next \in Nat /\ next >= 1 /\ allTasks \in Seq(TaskRecords)
  BY DEF ReadInv, Progress, TasksMade
<1>2. /\ tree' = tree /\ allTasks' = allTasks /\ phase' = "run_levels" /\ phase = "run_levels"
      /\ next' = next + 1 /\ next <= c
  BY DEF CreateRunLevel
<1>3. c \in Nat /\ next \in 1..c
  BY <1>1, <1>2, TreeFacts
<1>4. PICK n \in 1..c : n = next
  BY <1>3
<1>5. PICK i \in 1..c : i = RunLevelOrder[n]
  BY <1>1, OrderFacts
<1>6. PICK node : node = RunLevelAt(n)
  OBVIOUS
<1>7. node = tree.runLevels[i] /\ node.name \in Nat /\ node.names \in Seq(Nat)
  BY <1>1, <1>5, <1>6, NodeFacts DEF RunLevelAt
<1>8. PICK found : found = Resolve(node.names, <<"run_level", i>>).found
  OBVIOUS
<1>9. found \in Seq(Nat) /\ ToSet(found) \subseteq DOMAIN allTasks /\ NamesOf(found) = Known(node.names)
  BY <1>1, <1>7, <1>8, ResolveFacts
<1>10. runLevels' = IF node.name \in DOMAIN runLevels THEN runLevels
                    ELSE [r \in DOMAIN runLevels \cup {node.name} |->
                            IF r = node.name THEN found ELSE runLevels[r]]
  BY <1>4, <1>5, <1>7, <1>8, Zenon DEF CreateRunLevel
<1>11. /\ RunLevelCount = n - 1 /\ RunLevelCount' = n
       /\ TaskCount' = TaskCount /\ DependencyCount' = DependencyCount
  BY <1>1, <1>2, <1>4 DEF TaskCount, DependencyCount, RunLevelCount
<1>12. /\ TaskRecords' = TaskRecords /\ TaskOrder' = TaskOrder /\ RunLevelOrder' = RunLevelOrder
       /\ \A x : Named(x)' = Named(x)
       /\ \A s : Known(s)' = Known(s)
       /\ \A s : NamesOf(s)' = NamesOf(s)
       /\ \A name, m : DeclaredIn(name, m)' = DeclaredIn(name, m)
  BY <1>2, SameTasks
<1>13. Progress'
  BY <1>1, <1>2, <1>3 DEF Progress
<1>14. TasksMade'
  <2>1. \A t : TaskOf(t)' = TaskOf(t)
    BY <1>2, <1>12 DEF TaskOf
  <2> QED
    BY <1>2, <1>11, <1>12, <2>1 DEF ReadInv, TasksMade
<1>15. DependenciesClosed'
  BY <1>2 DEF ReadInv, DependenciesClosed
<1>16. DependenciesMade'
  BY <1>2, <1>11, <1>12 DEF ReadInv, DependenciesMade
<1>17. \A k : RunLevelAt(k)' = RunLevelAt(k)
  BY <1>2, <1>12 DEF RunLevelAt
<1>18. \A k \in 1..n : k \in 1..n - 1 \/ k = n
  OBVIOUS
<1>19. n \in 1..n /\ \A k \in 1..n - 1 : k \in 1..n
  BY <1>3
<1>20. /\ \A r : r \in DOMAIN runLevels <=> \E k \in 1..n - 1 : RunLevelAt(k).name = r
       /\ \A r \in DOMAIN runLevels :
            /\ runLevels[r] \in Seq(Nat) /\ ToSet(runLevels[r]) \subseteq DOMAIN allTasks
            /\ \E k \in 1..n - 1 :
                 /\ RunLevelAt(k).name = r /\ \A j \in 1..k - 1 : RunLevelAt(j).name # r
                 /\ NamesOf(runLevels[r]) = Known(RunLevelAt(k).names)
  BY <1>11 DEF ReadInv, RunLevelsMade
<1> DEFINE Right(m, levels, r) ==
             /\ levels[r] \in Seq(Nat) /\ ToSet(levels[r]) \subseteq DOMAIN allTasks
             /\ \E k \in 1..m :
                  /\ RunLevelAt(k).name = r /\ \A j \in 1..k - 1 : RunLevelAt(j).name # r
                  /\ NamesOf(levels[r]) = Known(RunLevelAt(k).names)
<1>21. \A r \in DOMAIN runLevels : Right(n, runLevels, r)
  BY <1>19, <1>20
<1>22. \A r : (\E k \in 1..n : RunLevelAt(k).name = r) <=> r \in DOMAIN runLevels \/ r = node.name
  BY <1>6, <1>18, <1>19, <1>20
<1>23. /\ \A r : r \in DOMAIN runLevels' <=> r \in DOMAIN runLevels \/ r = node.name
       /\ \A r \in DOMAIN runLevels' : Right(n, runLevels', r)
  <2>1. CASE node.name \in DOMAIN runLevels
    <3>1. runLevels' = runLevels
      BY <1>10, <2>1
    <3> HIDE DEF Right
    <3> QED
      BY <1>21, <2>1, <3>1
  <2>2. CASE node.name \notin DOMAIN runLevels
    <3>1. /\ DOMAIN runLevels' = DOMAIN runLevels \cup {node.name} /\ runLevels'[node.name] = found
          /\ \A r \in DOMAIN runLevels : runLevels'[r] = runLevels[r]
      BY <1>10, <2>2
    <3>2. \A j \in 1..n - 1 : RunLevelAt(j).name # node.name
      BY <1>20, <2>2
    <3>3. Right(n, runLevels', node.name)
      BY <1>6, <1>9, <1>19, <3>1, <3>2
    <3>4. \A r \in DOMAIN runLevels : Right(n, runLevels', r)
      BY <1>21, <3>1
    <3> HIDE DEF Right
    <3> QED
      BY <3>1, <3>3, <3>4
  <2> QED
    BY <2>1, <2>2
<1>24. RunLevelsMade'
  <2>1. \A r \in DOMAIN runLevels' :
          /\ runLevels'[r] \in Seq(Nat) /\ ToSet(runLevels'[r]) \subseteq DOMAIN allTasks
          /\ \E k \in 1..n :
               /\ RunLevelAt(k).name = r /\ \A j \in 1..k - 1 : RunLevelAt(j).name # r
               /\ NamesOf(runLevels'[r]) = Known(RunLevelAt(k).names)
    BY <1>23
  <2>2. ASSUME NEW r \in DOMAIN runLevels'
        PROVE  \E k \in 1..n :
                 /\ RunLevelAt(k)'.name = r /\ \A j \in 1..k - 1 : RunLevelAt(j)'.name # r
                 /\ NamesOf(runLevels[r])' = Known(RunLevelAt(k).names)'
    <3>1. PICK k \in 1..n : /\ RunLevelAt(k).name = r /\ \A j \in 1..k - 1 : RunLevelAt(j).name # r
                            /\ NamesOf(runLevels'[r]) = Known(RunLevelAt(k).names)
      BY <2>1
    <3>2. PICK s : s = runLevels'[r]
      OBVIOUS
    <3>3. NamesOf(runLevels[r])' = NamesOf(s)'
      BY <3>2 DEF NamesOf
    <3>4. NamesOf(runLevels[r])' = NamesOf(runLevels'[r])
      BY <1>12, <3>2, <3>3
    <3>5. PICK q : q = RunLevelAt(k).names
      OBVIOUS
    <3>6. Known(RunLevelAt(k).names)' = Known(q)'
      BY <1>17, <3>5
    <3>7. Known(RunLevelAt(k).names)' = Known(RunLevelAt(k).names)
      BY <1>12, <3>5, <3>6
    <3> QED
      BY <1>17, <3>1, <3>4, <3>7
  <2>3. \A r : r \in DOMAIN runLevels' <=> \E k \in 1..n : RunLevelAt(k)'.name = r
    BY <1>17, <1>22, <1>23
  <2> QED
    BY <1>2, <1>11, <2>1, <2>2, <2>3 DEF RunLevelsMade
<1> QED
  BY <1>13, <1>14, <1>15, <1>16, <1>24 DEF ReadInv

\* What has been made follows from what has been read.
THEOREM ReadInvariant == Spec => []ReadInv
<1>1. Init => ReadInv
  BY ReadInit
<1>2. ReadInv /\ [Next]_vars => ReadInv'
  <2> SUFFICES ASSUME ReadInv, [Next]_vars PROVE ReadInv'
    OBVIOUS
  <2>1. CASE CreateTaskDescription
    BY <2>1, TaskMade
  <2>2. CASE TasksRead \/ DependenciesRead \/ RunLevelsRead
    BY <2>2, LoopEnds
  <2>3. CASE ReadDependencies
    BY <2>3, DeclarationMade
  <2>4. CASE CreateRunLevel
    BY <2>4, RunLevelMade
  <2>5. CASE UNCHANGED vars
    <3>1. UNCHANGED <<tree, allTasks, runLevels>> /\ UNCHANGED <<phase, next>>
      BY <2>5 DEF vars
    <3>2. Progress' /\ TaskCount' = TaskCount /\ DependencyCount' = DependencyCount /\ RunLevelCount' = RunLevelCount
      BY <3>1 DEF ReadInv, Progress, TaskCount, DependencyCount, RunLevelCount
    <3> QED
      BY <3>1, <3>2, ReadOn
  <2> QED
    BY <2>1, <2>2, <2>3, <2>4, <2>5 DEF Next
<1> QED
  BY <1>1, <1>2, PTL DEF Spec

\* task_description holds dependencies and requisites as pointers: in every state each of
\* them leads to a description of the same file with a name that was written down.
THEOREM DescriptionsClosed == Spec => []Closed
<1>1. ReadInv => Closed
  <2> SUFFICES ASSUME ReadInv PROVE Closed
    OBVIOUS
  <2>1. \A r \in DOMAIN runLevels : ToSet(runLevels[r]) \subseteq DOMAIN allTasks
    BY DEF ReadInv, RunLevelsMade
  <2> QED
    BY <2>1 DEF ReadInv, DependenciesClosed, Closed
<1> QED
  BY <1>1, ReadInvariant, PTL

-----------------------------------------------------------------------------
(* Reading values *)

\* The read function of a struct, when these are the results for its properties.
KeyOrder(node) == MultimapOrder([i \in DOMAIN node.properties |-> Rank(node.properties[i].key)])
KeyDuplicates(node) ==
    ReportDuplicates([i \in DOMAIN KeyOrder(node) |-> node.properties[KeyOrder(node)[i]].key])
Failed(tag, results) == {k \in DOMAIN Schema[tag] : Schema[tag][k].required /\ results[k].value = None}
Extracted(tag, results) == IF tag = "sethostname" /\ Failed(tag, results) # {} THEN <<results[1]>> ELSE results
Fields(tag, results) ==
    [key \in {Schema[tag][k].key : k \in DOMAIN Schema[tag]} |->
        results[CHOOSE k \in DOMAIN Schema[tag] : Schema[tag][k].key = key].value[1]]
StructRead(node, results) ==
    Result(IF Failed(node.tag, results) = {} THEN Some([tag |-> node.tag, fields |-> Fields(node.tag, results)]) ELSE None,
           [n \in 1..Cardinality(KeyDuplicates(node)) |-> "duplicate_property"]
             \o FlattenSeq([k \in DOMAIN Extracted(node.tag, results) |-> Extracted(node.tag, results)[k].errors]))

\* The same read function.
LEMMA ReadsStruct ==
    ASSUME NEW node, NEW results
    PROVE  ReadStruct(node, results) = StructRead(node, results)
  BY Zenon DEF ReadStruct, StructRead, KeyOrder, KeyDuplicates, Failed, Extracted, Fields

\* The reader of a property, with what it calls as arguments.
LEMMA ReadsProperty ==
    ASSUME NEW type, NEW node
    PROVE ReadProperty(type, node) =
      IF type = "command" THEN StructRead(node, PrimitiveResults(node)) ELSE ReadPrimitive(type, node)
  BY ReadsStruct, Zenon DEF ReadProperty

Tags == {"sethostname", "command", "start_stop", "control", "null"}

\* What is known of every property of every schema.
RightProperty(tag, k, p) ==
    /\ p.type \in {"string", "bool", "cmd_line", "command"} /\ p.required \in BOOLEAN
    /\ p.required => p.default = None
    /\ ~p.required => p.type \in {"string", "bool"} /\ \E x : p.default = Some(x)
    /\ p.type = "command" => tag = "start_stop" /\ p.key \in {"start", "stop"}
    /\ p.type = "cmd_line" => tag = "command" /\ p.key = "cmd"
    /\ tag = "sethostname" /\ p.required => k = 1
    /\ tag = "start_stop" => p.required /\ p.type = "command"

\* Properties without a default value.
LEMMA RequiredRight ==
    ASSUME NEW tag, NEW k, NEW key, NEW type \in {"string", "bool", "cmd_line", "command"},
           type = "command" => tag = "start_stop" /\ key \in {"start", "stop"},
           type = "cmd_line" => tag = "command" /\ key = "cmd",
           tag = "sethostname" => k = 1, tag = "start_stop" => type = "command"
    PROVE  RightProperty(tag, k, Required(key, type)) /\ Required(key, type).key = key
  BY DEF RightProperty, Required

\* Properties with a default value.
LEMMA OptionalRight ==
    ASSUME NEW tag, NEW k, NEW key, NEW type \in {"string", "bool"}, NEW default, tag # "start_stop"
    PROVE  RightProperty(tag, k, Optional(key, type, default)) /\ Optional(key, type, default).key = key
<1>1. PICK x : x = default
  OBVIOUS
<1> QED
  BY <1>1 DEF RightProperty, Optional

\* The schemas.
LEMMA SchemaFacts ==
    ASSUME NEW tag \in Tags
    PROVE  /\ \E n \in 0..2 : Len(Schema[tag]) = n /\ DOMAIN Schema[tag] = 1..n
           /\ \A k \in DOMAIN Schema[tag] : RightProperty(tag, k, Schema[tag][k])
           /\ \A j, k \in DOMAIN Schema[tag] : Schema[tag][j].key = Schema[tag][k].key => j = k
           /\ tag = "sethostname" => 1 \in DOMAIN Schema[tag]
           /\ tag = "command" => \E k \in DOMAIN Schema[tag] : Schema[tag][k].key = "cmd" /\ Schema[tag][k].type = "cmd_line"
           /\ tag = "start_stop" => \A key \in {"start", "stop"} : \E k \in DOMAIN Schema[tag] : Schema[tag][k].key = key
<1> DEFINE s == Schema[tag]
           Right(n) == /\ Len(s) = n /\ DOMAIN s = 1..n
                       /\ \A k \in 1..n : RightProperty(tag, k, s[k])
                       /\ \A j, k \in 1..n : s[j].key = s[k].key => j = k
<1>1. 1..0 = {} /\ 1..1 = {1} /\ 1..2 = {1, 2}
  OBVIOUS
<1>2. ASSUME NEW p, NEW q, s = <<p, q>>, RightProperty(tag, 1, p), RightProperty(tag, 2, q), p.key # q.key
      PROVE  Right(2)
  <2> HIDE DEF s
  <2>1. Len(s) = 2 /\ DOMAIN s = 1..2 /\ s[1] = p /\ s[2] = q
    BY <1>2
  <2> QED
    BY <1>1, <1>2, <2>1
<1>3. ASSUME NEW p, s = <<p>>, RightProperty(tag, 1, p)
      PROVE  Right(1)
  <2> HIDE DEF s
  <2>1. Len(s) = 1 /\ DOMAIN s = 1..1 /\ s[1] = p
    BY <1>3
  <2> QED
    BY <1>1, <1>3, <2>1
<1>4. ASSUME s = <<>>
      PROVE  Right(0)
  <2> HIDE DEF s
  <2>1. Len(s) = 0 /\ DOMAIN s = 1..0
    BY <1>4
  <2> QED
    BY <1>1, <2>1
<1>5. CASE tag = "sethostname"
  <2> DEFINE p == Required("hostname", "string")
             q == Optional("no_restore", "bool", <<"false">>)
  <2>1. s = <<p, q>>
    BY <1>5, Zenon DEF Schema
  <2>2. RightProperty(tag, 1, p) /\ p.key = "hostname"
    BY <1>5, RequiredRight
  <2>3. RightProperty(tag, 2, q) /\ q.key = "no_restore"
    BY <1>5, OptionalRight
  <2> HIDE DEF p, q, s, Right
  <2>4. Right(2)
    BY <1>2, <2>1, <2>2, <2>3
  <2> QED
    BY <1>1, <1>5, <2>4 DEF Right, s
<1>6. CASE tag = "command"
  <2> DEFINE p == Required("cmd", "cmd_line")
             q == Optional("working_directory", "string", <<"/">>)
  <2>1. s = <<p, q>>
    BY <1>6, Zenon DEF Schema
  <2>2. RightProperty(tag, 1, p) /\ p.key = "cmd"
    BY <1>6, RequiredRight
  <2>3. RightProperty(tag, 2, q) /\ q.key = "working_directory"
    BY <1>6, OptionalRight
  <2>4. p.type = "cmd_line"
    BY DEF Required
  <2> HIDE DEF p, q, s, Right
  <2>5. Right(2)
    BY <1>2, <2>1, <2>2, <2>3
  <2>6. 1 \in 1..2 /\ s[1] = p
    BY <2>1
  <2>7. \E k \in 1..2 : s[k].key = "cmd" /\ s[k].type = "cmd_line"
    BY <2>2, <2>4, <2>6
  <2> QED
    BY <1>6, <2>5, <2>7 DEF Right, s
<1>7. CASE tag = "start_stop"
  <2> DEFINE p == Required("start", "command")
             q == Required("stop", "command")
  <2>1. s = <<p, q>>
    BY <1>7, Zenon DEF Schema
  <2>2. RightProperty(tag, 1, p) /\ p.key = "start"
    BY <1>7, RequiredRight
  <2>3. RightProperty(tag, 2, q) /\ q.key = "stop"
    BY <1>7, RequiredRight
  <2> HIDE DEF p, q, s, Right
  <2>4. Right(2)
    BY <1>2, <2>1, <2>2, <2>3
  <2>5. 1 \in 1..2 /\ s[1] = p /\ 2 \in 1..2 /\ s[2] = q
    BY <2>1
  <2>6. \A key \in {"start", "stop"} : \E k \in 1..2 : s[k].key = key
    BY <2>2, <2>3, <2>5
  <2> QED
    BY <1>7, <2>4, <2>6 DEF Right, s
<1>8. CASE tag = "control"
  <2> DEFINE p == Required("uds_filename", "string")
  <2>1. s = <<p>>
    BY <1>8, Zenon DEF Schema
  <2>2. RightProperty(tag, 1, p)
    BY <1>8, RequiredRight
  <2> HIDE DEF p, s, Right
  <2>3. Right(1)
    BY <1>3, <2>1, <2>2
  <2> QED
    BY <1>8, <2>3 DEF Right, s
<1>9. CASE tag = "null"
  <2>1. s = <<>>
    BY <1>9, Zenon DEF Schema
  <2>2. Right(0)
    BY <1>4, <2>1
  <2> HIDE DEF s
  <2> QED
    BY <1>9, <2>2 DEF s
<1> QED
  BY <1>5, <1>6, <1>7, <1>8, <1>9 DEF Tags

\* Keys are ordered.
LEMMA RankFacts ==
    ASSUME NEW x \in ToSet(Keys)
    PROVE  Rank(x) \in Nat /\ Keys[Rank(x)] = x
<1>1. DOMAIN Keys \subseteq Nat
  BY DEF Keys
<1>2. \E n \in DOMAIN Keys : Keys[n] = x
  BY Zenon DEF ToSet
<1>3. Rank(x) \in DOMAIN Keys /\ Keys[Rank(x)] = x
  BY <1>2, Zenon DEF Rank
<1> QED
  BY <1>1, <1>3

\* Every property is there once.
Distinct(node) ==
    \A i, j \in DOMAIN node.properties : node.properties[i].key = node.properties[j].key => i = j

\* Properties that are there twice are reported.
LEMMA DuplicatesFound ==
    ASSUME NEW V, NEW node \in NodeOver(PropertiesOf(V))
    PROVE  IsFiniteSet(KeyDuplicates(node)) /\ (KeyDuplicates(node) = {} => Distinct(node))
<1> DEFINE s == node.properties
           n == Len(s)
           ranks == [i \in 1..n |-> Rank(s[i].key)]
           order == MultimapOrder(ranks)
           keys == [i \in 1..n |-> s[order[i]].key]
           K == ToSet(Keys)
<1>1. s \in PropertiesOf(V)
  BY DEF NodeOver
<1>2. s \in Seq([key : K, value : V])
  BY <1>1, Zenon DEF PropertiesOf
<1> HIDE DEF K
<1>3. n \in Nat /\ DOMAIN s = 1..n
  BY <1>2
<1>4. \A i \in 1..n : s[i].key \in K
  <2>1. \A i \in 1..n : s[i] \in [key : K, value : V]
    <3> DEFINE P == [key : K, value : V]
    <3>1. s \in Seq(P)
      BY <1>2
    <3> HIDE DEF P, s
    <3>2. \A i \in 1..n : s[i] \in P
      BY <3>1, ElementOfSeq
    <3> QED
      BY <3>2 DEF P
  <2> QED
    BY <2>1
<1>5. KeyOrder(node) = order
  BY <1>3, Zenon DEF KeyOrder
<1>6. \A i \in 1..n : Rank(s[i].key) \in Nat /\ Keys[Rank(s[i].key)] = s[i].key
  BY <1>4, RankFacts DEF K
<1> HIDE DEF s, n
<1>7. ranks \in Seq(Nat) /\ Len(ranks) = n /\ \A i \in 1..n : ranks[i] = Rank(s[i].key)
  <2>1. ranks \in [1..n -> Nat]
    BY <1>6
  <2>2. \A i \in 1..n : ranks[i] = Rank(s[i].key)
    OBVIOUS
  <2> HIDE DEF ranks
  <2> QED
    BY <1>3, <2>1, <2>2
<1> HIDE DEF ranks
<1>8. Walks(order, ranks)
  BY <1>7, MultimapFacts
<1> HIDE DEF order
<1>9. /\ order \in [1..n -> 1..n] /\ DOMAIN order = 1..n
      /\ \A i \in 1..n : \E k \in 1..n : order[k] = i
  BY <1>7, <1>8 DEF Walks
<1>10. keys \in Seq(K) /\ Len(keys) = n /\ \A i \in 1..n : keys[i] = s[order[i]].key
  <2>1. \A i \in 1..n : s[order[i]].key \in K
    BY <1>4, <1>9
  <2>2. keys \in [1..n -> K]
    BY <2>1
  <2>3. \A i \in 1..n : keys[i] = s[order[i]].key
    OBVIOUS
  <2> HIDE DEF keys
  <2> QED
    BY <1>3, <2>2, <2>3
<1>11. KeyDuplicates(node) = ReportDuplicates(keys)
  BY <1>5, <1>9, Zenon DEF KeyDuplicates, s
<1> HIDE DEF keys
<1>12. IsFiniteSet(ReportDuplicates(keys))
  BY <1>10, DuplicatesType
<1>13. \A j, k \in 1..n : ranks[order[j]] = ranks[order[k]] => keys[j] = keys[k]
  <2> TAKE j, k \in 1..n
  <2>1. order[j] \in 1..n /\ order[k] \in 1..n
    BY <1>9
  <2>2. ranks[order[j]] = Rank(s[order[j]].key) /\ ranks[order[k]] = Rank(s[order[k]].key)
    BY <1>7, <2>1
  <2>3. Keys[Rank(s[order[j]].key)] = s[order[j]].key /\ Keys[Rank(s[order[k]].key)] = s[order[k]].key
    BY <1>6, <2>1
  <2>4. keys[j] = s[order[j]].key /\ keys[k] = s[order[k]].key
    BY <1>10
  <2> QED
    BY <2>2, <2>3, <2>4, Zenon
<1>14. ASSUME NEW a \in 1..n, NEW b \in 1..n, a < b, s[order[a]].key = s[order[b]].key
       PROVE  ReportDuplicates(keys) # {}
  <2>1. order[a] \in 1..n /\ order[b] \in 1..n
    BY <1>9
  <2>2. ranks[order[a]] = ranks[order[b]]
    BY <1>7, <1>14, <2>1
  <2>3. b \in ReportDuplicates(keys)
    <3>1. /\ a \in 1..Len(ranks) /\ b \in 1..Len(ranks) /\ Len(keys) = Len(ranks) /\ ranks \in Seq(Nat)
          /\ \A j, k \in 1..Len(ranks) : ranks[order[j]] = ranks[order[k]] => keys[j] = keys[k]
      BY <1>7, <1>10, <1>13
    <3> QED
      BY <1>8, <1>10, <1>14, <2>2, <3>1, DuplicatesReported
  <2> QED
    BY <2>3
<1>15. ASSUME ReportDuplicates(keys) = {}, NEW i \in 1..n, NEW j \in 1..n, s[i].key = s[j].key
       PROVE  i = j
  <2>1. PICK a \in 1..n : order[a] = i
    BY <1>9
  <2>2. PICK b \in 1..n : order[b] = j
    BY <1>9
  <2>3. ~(a < b) /\ ~(b < a)
    BY <1>14, <1>15, <2>1, <2>2
  <2>4. a = b
    BY <2>3
  <2> QED
    BY <2>1, <2>2, <2>4
<1> QED
  BY <1>3, <1>11, <1>12, <1>15 DEF Distinct, s

\* What the readers report.
Messages == {"not_found", "identifier", "type", "cmd_line", "duplicate_property", "not_a_task"}

\* A required property that is missing is reported.
Loud(tag, results) ==
    \A k \in DOMAIN Schema[tag] :
        Schema[tag][k].required /\ results[k].value = None => results[k].errors # <<>>

\* The read functions of structs pass errors on, and what they return without an error has
\* every property.
LEMMA StructFacts ==
    ASSUME NEW V, NEW node \in NodeOver(PropertiesOf(V)), node.tag \in Tags,
           NEW results, DOMAIN results = DOMAIN Schema[node.tag],
           \A k \in DOMAIN Schema[node.tag] : results[k].errors \in Seq(Messages)
    PROVE  /\ StructRead(node, results).errors \in Seq(Messages)
           /\ \A x \in ToSet(StructRead(node, results).errors) :
                 x = "duplicate_property" \/ \E k \in DOMAIN Schema[node.tag] : x \in ToSet(results[k].errors)
           /\ Loud(node.tag, results) /\ StructRead(node, results).errors = <<>> =>
                 /\ Distinct(node) /\ \A k \in DOMAIN Schema[node.tag] : results[k].errors = <<>>
                 /\ StructRead(node, results).value = Some([tag |-> node.tag, fields |-> Fields(node.tag, results)])
                 /\ \A k \in DOMAIN Schema[node.tag] :
                       Fields(node.tag, results)[Schema[node.tag][k].key] = results[k].value[1]
<1> DEFINE tag == node.tag
           schema == Schema[tag]
           D == DOMAIN schema
           x == Extracted(tag, results)
           parts == [k \in DOMAIN x |-> x[k].errors]
           c == Cardinality(KeyDuplicates(node))
           twice == [i \in 1..c |-> "duplicate_property"]
           flat == FlattenSeq(parts)
           U == Seq(Messages)
<1>1. PICK n \in 0..2 : Len(schema) = n /\ D = 1..n
  BY SchemaFacts
<1>2. tag = "sethostname" => 1 \in D
  BY SchemaFacts
<1>3. IsFiniteSet(KeyDuplicates(node)) /\ (KeyDuplicates(node) = {} => Distinct(node))
  BY DuplicatesFound
<1>4. c \in Nat /\ (c = 0 <=> KeyDuplicates(node) = {})
  BY <1>3, FS_CardinalityType, FS_EmptySet
<1>5. StructRead(node, results).errors = twice \o flat
  BY DEF StructRead, Result
<1>6. StructRead(node, results).value =
          IF Failed(tag, results) = {} THEN Some([tag |-> tag, fields |-> Fields(tag, results)]) ELSE None
  BY DEF StructRead, Result
<1>7. /\ x = results \/ (tag = "sethostname" /\ x = <<results[1]>> /\ Failed(tag, results) # {})
      /\ Failed(tag, results) = {} => x = results
  BY Zenon DEF Extracted
<1>8. /\ DOMAIN results = 1..n
      /\ \A k \in 1..n : results[k].errors \in U
  BY <1>1
<1>9. /\ (tag = "sethostname" => 1 \in 1..n) /\ n \in Nat
  BY <1>1, <1>2
<1> HIDE DEF x, c, schema, D, U
<1>10. twice \in Seq(Messages) /\ Len(twice) = c /\ (c # 0 => twice # <<>>)
       /\ \A e \in ToSet(twice) : e = "duplicate_property"
  <2>1. twice \in [1..c -> Messages] /\ DOMAIN twice = 1..c /\ \A i \in 1..c : twice[i] = "duplicate_property"
    <3>1. "duplicate_property" \in Messages
      BY DEF Messages
    <3> QED
      BY <3>1, Zenon
  <2> HIDE DEF twice
  <2>2. twice \in Seq(Messages) /\ Len(twice) = c
    BY <1>4, <2>1
  <2> QED
    BY <1>4, <2>1, <2>2 DEF ToSet
<1>11. PICK m \in Nat : /\ DOMAIN x = 1..m /\ \A k \in 1..m : k \in 1..n /\ x[k] = results[k]
  <2>1. CASE x = results
    BY <1>8, <1>9, <2>1
  <2>2. CASE tag = "sethostname" /\ x = <<results[1]>>
    <3>1. DOMAIN x = 1..1 /\ x[1] = results[1] /\ 1..1 = {1} /\ 1 \in Nat
      BY <2>2
    <3> QED
      BY <1>9, <2>2, <3>1
  <2> QED
    BY <1>7, <2>1, <2>2
<1>12. parts \in Seq(U) /\ Len(parts) = m /\ \A k \in 1..m : parts[k] = results[k].errors
  <2>1. parts \in [1..m -> U] /\ \A k \in 1..m : parts[k] = results[k].errors
    BY <1>8, <1>11
  <2> HIDE DEF parts
  <2> QED
    BY <2>1
<1> HIDE DEF parts, twice
<1>13. flat \in Seq(Messages) /\ \A e : e \in ToSet(flat) <=> \E k \in 1..m : e \in ToSet(results[k].errors)
  <2>1. parts \in Seq(Seq(Messages))
    BY <1>12 DEF U
  <2>2. flat \in Seq(Messages) /\ \A e : e \in ToSet(flat) <=> \E k \in 1..Len(parts) : e \in ToSet(parts[k])
    BY <2>1, FlattenElements
  <2> HIDE DEF flat
  <2> QED
    BY <1>12, <2>2
<1> HIDE DEF flat
<1>14. /\ twice \o flat \in Seq(Messages) /\ ToSet(twice \o flat) = ToSet(twice) \cup ToSet(flat)
       /\ (ToSet(twice \o flat) = {} <=> twice \o flat = <<>>)
       /\ (ToSet(twice) = {} <=> twice = <<>>) /\ (ToSet(flat) = {} <=> flat = <<>>)
  <2>1. twice \o flat \in Seq(Messages) /\ ToSet(twice \o flat) = ToSet(twice) \cup ToSet(flat)
    BY <1>10, <1>13, Extended
  <2>2. \A s \in Seq(Messages) : ToSet(s) = {} <=> s = <<>>
    BY Extended
  <2> QED
    BY <1>10, <1>13, <2>1, <2>2
<1>15. \A e \in ToSet(twice \o flat) : e = "duplicate_property" \/ \E k \in D : e \in ToSet(results[k].errors)
  BY <1>1, <1>10, <1>11, <1>13, <1>14
<1>16. ASSUME Loud(tag, results), twice \o flat = <<>>
       PROVE  /\ Distinct(node) /\ \A k \in D : results[k].errors = <<>>
              /\ Failed(tag, results) = {}
  <2>1. twice = <<>> /\ ToSet(flat) = {}
    BY <1>14, <1>16
  <2>2. Distinct(node)
    BY <1>3, <1>4, <1>10, <2>1
  <2>3. \A k \in 1..m : results[k].errors = <<>>
    <3> TAKE k \in 1..m
    <3>1. ToSet(results[k].errors) = {}
      BY <1>13, <2>1
    <3>2. results[k].errors \in Seq(Messages)
      BY <1>8, <1>11 DEF U
    <3>3. PICK s \in Seq(Messages) : s = results[k].errors
      BY <3>2
    <3>4. s = <<>>
      BY <3>1, <3>3, EmptySequence
    <3> QED
      BY <3>3, <3>4
  <2>4. Failed(tag, results) = {}
    <3> SUFFICES ASSUME NEW k \in Failed(tag, results) PROVE FALSE
      OBVIOUS
    <3>1. k \in D /\ schema[k].required /\ results[k].value = None
      BY DEF Failed, D, schema
    <3>2. results[k].errors # <<>>
      BY <1>16, <3>1 DEF Loud, D, schema
    <3>3. ~(k \in 1..m)
      BY <2>3, <3>2
    <3>4. k \in 1..n
      BY <1>1, <3>1
    <3>5. x # results
      BY <1>8, <1>11, <3>3, <3>4
    <3>6. tag = "sethostname" /\ x = <<results[1]>>
      BY <1>7, <3>5
    <3>7. k = 1
      <4>1. RightProperty(tag, k, schema[k])
        BY <3>1, SchemaFacts DEF D, schema
      <4> QED
        BY <3>1, <3>6, <4>1 DEF RightProperty
    <3>8. 1 \in DOMAIN x
      BY <3>6
    <3> QED
      BY <1>11, <3>3, <3>7, <3>8
  <2>5. x = results
    BY <1>7, <2>4
  <2>6. \A k \in D : k \in 1..m
    BY <1>1, <1>8, <1>11, <2>5
  <2> QED
    BY <2>2, <2>3, <2>4, <2>6
<1>17. \A k \in D : Fields(tag, results)[schema[k].key] = results[k].value[1]
  <2> TAKE k \in D
  <2> DEFINE j == CHOOSE i \in D : schema[i].key = schema[k].key
  <2>1. \A i, l \in D : schema[i].key = schema[l].key => i = l
    BY SchemaFacts DEF D, schema
  <2>2. j \in D /\ schema[j].key = schema[k].key
    OBVIOUS
  <2>3. j = k
    BY <2>1, <2>2
  <2>4. schema[k].key \in {schema[i].key : i \in D}
    OBVIOUS
  <2>5. Fields(tag, results)[schema[k].key] = results[j].value[1]
    BY <2>4 DEF Fields, D, schema
  <2> QED
    BY <2>3, <2>5
<1> QED
  BY <1>5, <1>6, <1>14, <1>15, <1>16, <1>17 DEF D, schema

\* What a leaf means, where a value of this type is wanted.
Meaning(type, text) == IF type = "cmd_line" THEN Arguments(text) ELSE text

\* The readers of leaves.
LEMMA PrimitiveFacts ==
    ASSUME NEW type, NEW node, node.text \in Seq(STRING)
    PROVE  /\ ReadPrimitive(type, node).errors \in Seq(Messages)
           /\ \A x \in ToSet(ReadPrimitive(type, node).errors) :
                 x = "cmd_line" /\ type = "cmd_line" /\ ~Splittable(node.text)
           /\ ReadPrimitive(type, node).errors = <<>> =>
                 /\ ReadPrimitive(type, node).value = Some(Meaning(type, node.text))
                 /\ type = "cmd_line" => Splittable(node.text)
<1> DEFINE r == ReadPrimitive(type, node)
           v == IF type = "cmd_line" THEN Split(node.text) ELSE Some(node.text)
           text == node.text
           m == <<"cmd_line">>
<1>1. Split(text) = IF Splittable(text) THEN Some(Arguments(text)) ELSE None
  BY SplitCorrect
<1>2. r.value = v /\ r.errors = IF v = None THEN m ELSE <<>>
  BY DEF ReadPrimitive, Result
<1>3. \A x : Some(x) # None
  BY DEF Some, None
<1>4. m \in Seq(Messages) /\ m # <<>> /\ ToSet(m) = {"cmd_line"}
  <2>1. "cmd_line" \in Messages
    BY DEF Messages
  <2>2. m \in Seq(Messages) /\ DOMAIN m = {1} /\ m[1] = "cmd_line" /\ m # <<>>
    BY <2>1
  <2> HIDE DEF m
  <2> QED
    BY <2>2 DEF ToSet
<1>5. <<>> \in Seq(Messages) /\ ToSet(<<>>) = {}
  BY DEF ToSet
<1> HIDE DEF r, m
<1>6. v = None <=> type = "cmd_line" /\ ~Splittable(text)
  BY <1>1, <1>3
<1>7. v # None => v = Some(Meaning(type, text))
  BY <1>1 DEF Meaning
<1> HIDE DEF v
<1>8. r.errors \in Seq(Messages)
  BY <1>2, <1>4, <1>5
<1>9. \A x \in ToSet(r.errors) : x = "cmd_line" /\ type = "cmd_line" /\ ~Splittable(text)
  BY <1>2, <1>4, <1>5, <1>6
<1>10. r.errors = <<>> => r.value = Some(Meaning(type, text)) /\ (type = "cmd_line" => Splittable(text))
  BY <1>2, <1>4, <1>6, <1>7
<1> QED
  BY <1>8, <1>9, <1>10 DEF r

\* No value is missing.
Whole(properties) == \A q \in ToSet(properties) : q.value.type # "none"

\* The node that is read is one of the struct's.
LEMMA FirstNodeFacts ==
    ASSUME NEW V, NEW properties \in PropertiesOf(V), NEW p, Written(p, properties) # {}
    PROVE  /\ FirstNode(p, properties) \in V
           /\ \E i \in Written(p, properties) :
                 FirstNode(p, properties) = properties[i].value /\ properties[i] \in ToSet(properties)
<1> DEFINE T == Written(p, properties)
           i == Min(T)
           P == [key : ToSet(Keys), value : V]
<1>1. properties \in Seq(P)
  BY Zenon DEF PropertiesOf
<1> HIDE DEF P
<1>2. DOMAIN properties \subseteq Nat /\ \A k \in DOMAIN properties : properties[k] \in P
  BY <1>1
<1>3. T \subseteq DOMAIN properties
  BY DEF Written
<1>4. T \subseteq Nat /\ T # {}
  BY <1>2, <1>3
<1> HIDE DEF T
<1>5. i \in T
  BY <1>4, MinFacts
<1>6. FirstNode(p, properties) = properties[i].value
  BY DEF FirstNode, T, Written
<1> HIDE DEF i
<1>7. properties[i] \in P /\ properties[i] \in ToSet(properties)
  BY <1>2, <1>3, <1>5 DEF ToSet
<1>8. properties[i].value \in V
  BY <1>7 DEF P
<1> QED
  BY <1>5, <1>6, <1>7, <1>8 DEF T

\* When its node can be read without an error there is a value.
Gives(p, properties, r) ==
    /\ Written(p, properties) # {} /\ CanRead(p.type, FirstNode(p, properties)) /\ r.errors = <<>>
    => r.value # None

\* extract_property_from_map: the default, an error or the value.
LEMMA ExtractionFacts ==
    ASSUME NEW V, NEW properties \in PropertiesOf(V), NEW tag, NEW k, NEW p, RightProperty(tag, k, p), NEW r,
           Written(p, properties) # {} /\ CanRead(p.type, FirstNode(p, properties)) => r.errors \in Seq(Messages)
    PROVE  /\ Extract(p, properties, r).errors \in Seq(Messages)
           /\ \A x \in ToSet(Extract(p, properties, r).errors) :
                 \/ x \in {"not_found", "identifier", "type"}
                 \/ (/\ Written(p, properties) # {} /\ CanRead(p.type, FirstNode(p, properties))
                     /\ x \in ToSet(r.errors))
           /\ Whole(properties) /\ Gives(p, properties, r) /\ Extract(p, properties, r).errors = <<>> =>
                 /\ Extract(p, properties, r).value # None
                 /\ \/ (Written(p, properties) = {} /\ Extract(p, properties, r).value = p.default)
                    \/ (/\ Written(p, properties) # {} /\ CanRead(p.type, FirstNode(p, properties))
                        /\ r.errors = <<>> /\ Extract(p, properties, r).value = r.value)
<1> DEFINE e == Extract(p, properties, r)
           node == FirstNode(p, properties)
           T == Written(p, properties)
           Or(value) == IF value = None THEN p.default ELSE value
<1>1. ASSUME NEW x \in Messages
      PROVE  <<x>> \in Seq(Messages) /\ <<x>> # <<>> /\ ToSet(<<x>>) = {x}
  <2> DEFINE m == <<x>>
  <2>1. m \in Seq(Messages) /\ DOMAIN m = {1} /\ m[1] = x /\ m # <<>>
    BY <1>1
  <2> HIDE DEF m
  <2>2. ToSet(m) = {x}
    BY <2>1 DEF ToSet
  <2> QED
    BY <2>1, <2>2 DEF m
<1>2. /\ <<"not_found">> \in Seq(Messages) /\ <<"not_found">> # <<>> /\ ToSet(<<"not_found">>) = {"not_found"}
      /\ <<"identifier">> \in Seq(Messages) /\ <<"identifier">> # <<>> /\ ToSet(<<"identifier">>) = {"identifier"}
      /\ <<"type">> \in Seq(Messages) /\ <<"type">> # <<>> /\ ToSet(<<"type">>) = {"type"}
  <2>1. "not_found" \in Messages /\ "identifier" \in Messages /\ "type" \in Messages
    BY DEF Messages
  <2> QED
    BY <1>1, <2>1, Zenon
<1>3. <<>> \in Seq(Messages) /\ ToSet(<<>>) = {}
  BY DEF ToSet
<1>4. /\ p.required \in BOOLEAN /\ (~p.required => p.default # None) /\ (p.required => p.default = None)
  <2>1. \A x : Some(x) # None
    BY DEF Some, None
  <2> QED
    BY <2>1 DEF RightProperty
<1> DEFINE Good ==
              /\ e.errors \in Seq(Messages)
              /\ \A x \in ToSet(e.errors) :
                    \/ x \in {"not_found", "identifier", "type"}
                    \/ (T # {} /\ CanRead(p.type, node) /\ x \in ToSet(r.errors))
              /\ Whole(properties) /\ Gives(p, properties, r) /\ e.errors = <<>> =>
                    /\ e.value # None
                    /\ \/ (T = {} /\ e.value = p.default)
                       \/ (T # {} /\ CanRead(p.type, node) /\ r.errors = <<>> /\ e.value = r.value)
<1>5. ASSUME T = {}
      PROVE  Good
  <2>1. e = Result(p.default, IF p.required THEN <<"not_found">> ELSE <<>>)
    BY <1>5, Zenon DEF Extract, Written
  <2>2. e.value = p.default /\ e.errors = IF p.required THEN <<"not_found">> ELSE <<>>
    BY <2>1 DEF Result
  <2> HIDE DEF e
  <2> QED
    BY <1>2, <1>3, <1>4, <1>5, <2>2
<1>6. ASSUME T # {}
      PROVE  Good
  <2>1. \E i \in T : node = properties[i].value /\ properties[i] \in ToSet(properties)
    BY <1>6, FirstNodeFacts
  <2>2. Whole(properties) => node.type # "none"
    BY <2>1 DEF Whole
  <2>3. e = CASE node.type = "none" -> Result(p.default, <<>>)
              [] node.type = "pseudo_identifier" -> Result(Or(ForPseudoIdentifier(p.type, node)), <<"identifier">>)
              [] OTHER -> IF ~CanRead(p.type, node) THEN Result(p.default, <<"type">>)
                          ELSE Result(Or(r.value), r.errors)
    BY <1>6, Zenon DEF Extract, Written
  <2>4. CASE node.type = "none"
    <3>1. e = Result(p.default, <<>>)
      BY <2>3, <2>4
    <3>2. e.errors = <<>>
      BY <3>1 DEF Result
    <3> HIDE DEF e, node
    <3> QED
      BY <1>3, <2>2, <2>4, <3>2
  <2>5. CASE node.type = "pseudo_identifier"
    <3>1. e = Result(Or(ForPseudoIdentifier(p.type, node)), <<"identifier">>)
      BY <2>3, <2>5
    <3>2. e.errors = <<"identifier">>
      BY <3>1 DEF Result
    <3> HIDE DEF e, node
    <3> QED
      BY <1>2, <3>2
  <2>6. CASE node.type \notin {"none", "pseudo_identifier"} /\ ~CanRead(p.type, node)
    <3>1. e = Result(p.default, <<"type">>)
      BY <2>3, <2>6
    <3>2. e.errors = <<"type">>
      BY <3>1 DEF Result
    <3> HIDE DEF e, node
    <3> QED
      BY <1>2, <3>2
  <2>7. CASE node.type \notin {"none", "pseudo_identifier"} /\ CanRead(p.type, node)
    <3>1. e = Result(Or(r.value), r.errors)
      BY <2>3, <2>7
    <3>2. e.errors = r.errors /\ e.value = Or(r.value)
      BY <3>1 DEF Result
    <3>3. r.errors \in Seq(Messages) /\ (Gives(p, properties, r) => (r.errors = <<>> => r.value # None))
      BY <1>6, <2>7 DEF Gives
    <3> HIDE DEF e, node
    <3> QED
      BY <1>6, <2>7, <3>2, <3>3
  <2> QED
    BY <2>4, <2>5, <2>6, <2>7
<1>7. Good
  BY <1>5, <1>6
<1> QED
  BY <1>7

\* Reading a leaf as a property.
PrimitiveProperty(p, properties) ==
    Extract(p, properties, ReadPrimitive(p.type, FirstNode(p, properties)))

\* What the reader of a leaf reports, and that it is not silent when it has no value.
LEMMA PrimitivePropertyFacts ==
    ASSUME NEW V, \A v \in V : v.text \in Seq(STRING), NEW properties \in PropertiesOf(V),
           NEW tag, NEW k, NEW p, RightProperty(tag, k, p)
    PROVE  /\ PrimitiveProperty(p, properties).errors \in Seq(Messages)
           /\ "cmd_line" \in ToSet(PrimitiveProperty(p, properties).errors) =>
                 p.type = "cmd_line" /\ \E q \in ToSet(properties) : q.key = p.key /\ ~Splittable(q.value.text)
           /\ Whole(properties) /\ PrimitiveProperty(p, properties).errors = <<>> =>
                 PrimitiveProperty(p, properties).value # None
<1> DEFINE T == Written(p, properties)
           first == FirstNode(p, properties)
           r == ReadPrimitive(p.type, first)
           e == Extract(p, properties, r)
<1>1. T # {} => first.text \in Seq(STRING)
  BY FirstNodeFacts
<1>2. \A x : Some(x) # None
  BY DEF Some, None
<1>3. T # {} => /\ r.errors \in Seq(Messages)
                /\ \A x \in ToSet(r.errors) : x = "cmd_line" /\ p.type = "cmd_line" /\ ~Splittable(first.text)
                /\ (r.errors = <<>> => r.value # None)
  <2> HAVE T # {}
  <2>1. first.text \in Seq(STRING)
    BY <1>1
  <2> HIDE DEF first
  <2>2. r.errors \in Seq(Messages)
    BY <2>1, PrimitiveFacts, Zenon
  <2>3. \A x \in ToSet(r.errors) : x = "cmd_line" /\ p.type = "cmd_line" /\ ~Splittable(first.text)
    BY <2>1, PrimitiveFacts, Zenon
  <2>4. r.errors = <<>> => r.value = Some(Meaning(p.type, first.text))
    BY <2>1, PrimitiveFacts, Zenon
  <2> HIDE DEF r
  <2>5. r.errors = <<>> => r.value # None
    BY <1>2, <2>4, Zenon
  <2> QED
    BY <2>2, <2>3, <2>5, Zenon
<1> HIDE DEF r
<1>4. (T # {} /\ CanRead(p.type, first) => r.errors \in Seq(Messages)) /\ Gives(p, properties, r)
  BY <1>3 DEF Gives
<1>5. /\ e.errors \in Seq(Messages)
      /\ \A x \in ToSet(e.errors) : x \in {"not_found", "identifier", "type"} \/ (T # {} /\ x \in ToSet(r.errors))
      /\ Whole(properties) /\ e.errors = <<>> => e.value # None
  <2>1. e.errors \in Seq(Messages)
    BY <1>4, ExtractionFacts
  <2>2. \A x \in ToSet(e.errors) :
           \/ x \in {"not_found", "identifier", "type"}
           \/ (T # {} /\ CanRead(p.type, first) /\ x \in ToSet(r.errors))
    BY <1>4, ExtractionFacts
  <2>3. Whole(properties) /\ e.errors = <<>> => e.value # None
    BY <1>4, ExtractionFacts
  <2> HIDE DEF e, T, first
  <2> QED
    BY <2>1, <2>2, <2>3
<1>6. PrimitiveProperty(p, properties) = e
  BY DEF PrimitiveProperty, r
<1>7. ASSUME "cmd_line" \in ToSet(e.errors)
      PROVE  p.type = "cmd_line" /\ \E q \in ToSet(properties) : q.key = p.key /\ ~Splittable(q.value.text)
  <2>1. T # {} /\ "cmd_line" \in ToSet(r.errors)
    BY <1>5, <1>7
  <2>2. p.type = "cmd_line" /\ ~Splittable(first.text)
    BY <1>3, <2>1
  <2>3. PICK i \in T : first = properties[i].value /\ properties[i] \in ToSet(properties)
    BY <2>1, FirstNodeFacts
  <2>4. properties[i].key = p.key
    BY <2>3 DEF Written
  <2> QED
    BY <2>2, <2>3, <2>4
<1> HIDE DEF e
<1> QED
  BY <1>5, <1>6, <1>7

\* What a struct says.
LEMMA SaysProperty ==
    ASSUME NEW V, \A v \in V : v.text \in Seq(STRING), NEW node, node.properties \in PropertiesOf(V),
           NEW tag, NEW k, NEW p, RightProperty(tag, k, p), p.type # "command",
           Whole(node.properties), Distinct(node), PrimitiveProperty(p, node.properties).errors = <<>>,
           NEW data, data.fields[p.key] = PrimitiveProperty(p, node.properties).value[1]
    PROVE  /\ Says(data, node, p)
           /\ p.type = "cmd_line" =>
                 \A q \in ToSet(node.properties) : q.key = p.key => Splittable(q.value.text)
<1> DEFINE properties == node.properties
           T == Written(p, properties)
           first == FirstNode(p, properties)
           r == ReadPrimitive(p.type, first)
           e == Extract(p, properties, r)
           value == data.fields[p.key]
<1>1. T # {} => first.text \in Seq(STRING)
  BY FirstNodeFacts
<1>2. \A x : Some(x) # None /\ Some(x)[1] = x
  BY DEF Some, None
<1>3. T # {} => /\ r.errors \in Seq(Messages)
                /\ r.errors = <<>> => /\ r.value = Some(Meaning(p.type, first.text))
                                      /\ (p.type = "cmd_line" => Splittable(first.text))
  <2> HAVE T # {}
  <2>1. first.text \in Seq(STRING)
    BY <1>1
  <2> HIDE DEF first
  <2> QED
    BY <2>1, PrimitiveFacts
<1>4. PrimitiveProperty(p, properties) = e
  BY DEF PrimitiveProperty
<1>5. e.errors = <<>> /\ value = e.value[1]
  BY <1>4
<1> HIDE DEF r
<1>6. (T # {} /\ CanRead(p.type, first) => r.errors \in Seq(Messages)) /\ Gives(p, properties, r)
  BY <1>2, <1>3 DEF Gives
<1>7. /\ e.value # None
      /\ \/ (T = {} /\ e.value = p.default)
         \/ (T # {} /\ r.errors = <<>> /\ e.value = r.value)
  <2>1. /\ Whole(properties) /\ e.errors = <<>> =>
                 /\ e.value # None
                 /\ \/ (T = {} /\ e.value = p.default)
                    \/ (T # {} /\ CanRead(p.type, first) /\ r.errors = <<>> /\ e.value = r.value)
    BY <1>6, ExtractionFacts
  <2> HIDE DEF e, T, first
  <2> QED
    BY <1>5, <2>1
<1> HIDE DEF e, value
<1>8. Says(data, node, p) <=>
          /\ T = {} => Some(value) = p.default
          /\ \A j \in T : p.type # "command" => value = Meaning(p.type, properties[j].value.text)
  BY Zenon DEF Says, Written, Meaning, value
<1>9. CASE T = {}
  <2>1. e.value = p.default
    BY <1>7, <1>9
  <2>2. \E x : p.default = Some(x)
    BY <1>7, <2>1 DEF RightProperty
  <2>3. Some(value) = p.default
    BY <1>2, <1>5, <2>1, <2>2
  <2>4. \A i \in DOMAIN properties : properties[i].key # p.key
    BY <1>9 DEF Written
  <2>5. \A q \in ToSet(properties) : q.key # p.key
    BY <2>4 DEF ToSet
  <2> QED
    BY <1>8, <1>9, <2>3, <2>5
<1>10. CASE T # {}
  <2>1. e.value = Some(Meaning(p.type, first.text)) /\ (p.type = "cmd_line" => Splittable(first.text))
    BY <1>3, <1>7, <1>10
  <2>2. value = Meaning(p.type, first.text)
    BY <1>2, <1>5, <2>1
  <2>3. PICK i \in T : first = properties[i].value
    BY <1>10, FirstNodeFacts
  <2>4. \A j \in T : j = i
    BY <2>3 DEF Distinct, Written
  <2>5. \A j \in T : value = Meaning(p.type, properties[j].value.text)
    BY <2>2, <2>3, <2>4
  <2>6. \A q \in ToSet(properties) : q.key = p.key => q.value = first
    <3> SUFFICES ASSUME NEW j \in DOMAIN properties, properties[j].key = p.key PROVE properties[j].value = first
      BY DEF ToSet
    <3>1. j \in T
      BY DEF Written
    <3> QED
      BY <2>3, <2>4, <3>1
  <2> QED
    BY <1>8, <1>10, <2>1, <2>5, <2>6
<1> QED
  BY <1>9, <1>10

\* The command lines among the properties of a command.
LinesIn(properties) == {q.value.text : q \in {r \in ToSet(properties) : r.key = "cmd"}}

\* read_value_node_impl<task_command>
CommandRead(node) == StructRead(node, PrimitiveResults(node))

\* The parts of nodes.
LEMMA NodeTypes ==
    /\ \A node \in ValueNode : /\ node \in NodeOver(PropertiesOf(CommandNode))
                               /\ node.properties \in PropertiesOf(CommandNode)
    /\ \A node \in CommandNode : /\ node \in NodeOver(PropertiesOf(LeafNode)) /\ node.text \in Seq(STRING)
                                 /\ node.properties \in PropertiesOf(LeafNode)
    /\ \A node \in LeafNode : node.text \in Seq(STRING)
<1>1. \A P : \A node \in NodeOver(P) : node.properties \in P /\ node.text \in Seq(STRING)
  BY DEF NodeOver
<1> QED
  BY <1>1, Zenon DEF ValueNode, CommandNode, LeafNode

\* What the reader of a command reports, and that what it is silent about was read as it
\* was written.
LEMMA CommandFacts ==
    ASSUME NEW node \in CommandNode, node.tag = "command"
    PROVE  /\ CommandRead(node).errors \in Seq(Messages)
           /\ "cmd_line" \in ToSet(CommandRead(node).errors) =>
                 \E line \in LinesIn(node.properties) : ~Splittable(line)
           /\ Whole(node.properties) /\ CommandRead(node).errors = <<>> =>
                 \E d : /\ CommandRead(node).value = Some(d)
                        /\ \A p \in ToSet(Schema["command"]) : Says(d, node, p)
                        /\ \A line \in LinesIn(node.properties) : Splittable(line)
<1> DEFINE s == Schema["command"]
           D == DOMAIN s
           properties == node.properties
           results == PrimitiveResults(node)
           r == StructRead(node, results)
           d == [tag |-> "command", fields |-> Fields("command", results)]
<1>1. /\ node \in NodeOver(PropertiesOf(LeafNode)) /\ properties \in PropertiesOf(LeafNode)
      /\ \A v \in LeafNode : v.text \in Seq(STRING)
  BY NodeTypes
<1>2. "command" \in Tags /\ node.tag \in Tags
  BY DEF Tags
<1>3. DOMAIN results = D /\ \A k \in D : results[k] = PrimitiveProperty(s[k], properties)
  BY DEF PrimitiveResults, PrimitiveProperty
<1>4. /\ \A k \in D : RightProperty("command", k, s[k])
      /\ \E k \in D : s[k].key = "cmd" /\ s[k].type = "cmd_line"
  BY <1>2, SchemaFacts
<1> HIDE DEF results, s
<1>5. ASSUME NEW k \in D
      PROVE  /\ results[k].errors \in Seq(Messages)
             /\ "cmd_line" \in ToSet(results[k].errors) =>
                  s[k].type = "cmd_line" /\ \E q \in ToSet(properties) : q.key = s[k].key /\ ~Splittable(q.value.text)
             /\ Whole(properties) /\ results[k].errors = <<>> => results[k].value # None
  <2>1. RightProperty("command", k, s[k])
    BY <1>4
  <2>2. PICK p : p = s[k]
    OBVIOUS
  <2>3. /\ PrimitiveProperty(p, properties).errors \in Seq(Messages)
        /\ "cmd_line" \in ToSet(PrimitiveProperty(p, properties).errors) =>
             p.type = "cmd_line" /\ \E q \in ToSet(properties) : q.key = p.key /\ ~Splittable(q.value.text)
        /\ Whole(properties) /\ PrimitiveProperty(p, properties).errors = <<>> =>
             PrimitiveProperty(p, properties).value # None
    <3> DEFINE w == properties
    <3>1. w \in PropertiesOf(LeafNode) /\ RightProperty("command", k, p)
      BY <1>1, <2>1, <2>2
    <3> HIDE DEF w
    <3>2. /\ PrimitiveProperty(p, w).errors \in Seq(Messages)
          /\ "cmd_line" \in ToSet(PrimitiveProperty(p, w).errors) =>
               p.type = "cmd_line" /\ \E q \in ToSet(w) : q.key = p.key /\ ~Splittable(q.value.text)
          /\ Whole(w) /\ PrimitiveProperty(p, w).errors = <<>> => PrimitiveProperty(p, w).value # None
      BY <1>1, <3>1, PrimitivePropertyFacts
    <3> QED
      BY <3>2 DEF w
  <2> QED
    BY <1>3, <2>2, <2>3
<1>6. Whole(properties) => Loud("command", results)
  BY <1>5 DEF Loud, s
<1>7. /\ r.errors \in Seq(Messages)
      /\ \A x \in ToSet(r.errors) : x = "duplicate_property" \/ \E k \in D : x \in ToSet(results[k].errors)
      /\ Loud("command", results) /\ r.errors = <<>> =>
           /\ Distinct(node) /\ \A k \in D : results[k].errors = <<>>
           /\ r.value = Some(d) /\ \A k \in D : Fields("command", results)[s[k].key] = results[k].value[1]
  <2>1. DOMAIN results = DOMAIN Schema[node.tag] /\ D = DOMAIN Schema[node.tag] /\ s = Schema[node.tag]
    BY <1>3 DEF s
  <2>2. \A k \in DOMAIN Schema[node.tag] : results[k].errors \in Seq(Messages)
    BY <1>5, <2>1
  <2>3. /\ r.errors \in Seq(Messages)
        /\ \A x \in ToSet(r.errors) :
              x = "duplicate_property" \/ \E k \in DOMAIN Schema[node.tag] : x \in ToSet(results[k].errors)
        /\ Loud(node.tag, results) /\ r.errors = <<>> =>
              /\ Distinct(node) /\ \A k \in DOMAIN Schema[node.tag] : results[k].errors = <<>>
              /\ r.value = Some([tag |-> node.tag, fields |-> Fields(node.tag, results)])
              /\ \A k \in DOMAIN Schema[node.tag] :
                    Fields(node.tag, results)[Schema[node.tag][k].key] = results[k].value[1]
    BY <1>1, <1>2, <2>1, <2>2, StructFacts
  <2> HIDE DEF r
  <2> QED
    BY <2>1, <2>3
<1>8. CommandRead(node) = r
  BY DEF CommandRead, results
<1> HIDE DEF r
<1>9. ASSUME "cmd_line" \in ToSet(r.errors)
      PROVE  \E line \in LinesIn(properties) : ~Splittable(line)
  <2>1. PICK k \in D : "cmd_line" \in ToSet(results[k].errors)
    BY <1>7, <1>9
  <2>2. s[k].key = "cmd"
    BY <1>4, <1>5, <2>1 DEF RightProperty
  <2>3. PICK q \in ToSet(properties) : q.key = "cmd" /\ ~Splittable(q.value.text)
    BY <1>5, <2>1, <2>2
  <2>4. q.value.text \in LinesIn(properties)
    BY <2>3 DEF LinesIn
  <2> QED
    BY <2>3, <2>4
<1>10. ASSUME Whole(properties), r.errors = <<>>
       PROVE  /\ r.value = Some(d)
              /\ \A p \in ToSet(s) : Says(d, node, p)
              /\ \A line \in LinesIn(properties) : Splittable(line)
  <2>1. /\ Distinct(node) /\ \A k \in D : results[k].errors = <<>>
        /\ r.value = Some(d) /\ \A k \in D : d.fields[s[k].key] = results[k].value[1]
    BY <1>6, <1>7, <1>10
  <2>2. ASSUME NEW k \in D
        PROVE  /\ Says(d, node, s[k])
               /\ s[k].type = "cmd_line" =>
                    \A q \in ToSet(properties) : q.key = s[k].key => Splittable(q.value.text)
    <3>1. RightProperty("command", k, s[k])
      BY <1>4
    <3>2. s[k].type # "command"
      BY <3>1 DEF RightProperty
    <3>3. PICK p : p = s[k]
      OBVIOUS
    <3>4. PICK e : e = d
      OBVIOUS
    <3>5. /\ PrimitiveProperty(p, node.properties).errors = <<>>
          /\ e.fields[p.key] = PrimitiveProperty(p, node.properties).value[1]
      BY <1>3, <2>1, <3>3, <3>4
    <3>6. /\ Says(e, node, p)
          /\ p.type = "cmd_line" =>
               \A q \in ToSet(node.properties) : q.key = p.key => Splittable(q.value.text)
      BY <1>1, <1>10, <2>1, <3>1, <3>2, <3>3, <3>5, SaysProperty
    <3> QED
      BY <3>3, <3>4, <3>6
  <2> HIDE DEF d
  <2>3. \A p \in ToSet(s) : Says(d, node, p)
    BY <2>2 DEF ToSet
  <2>4. PICK k \in D : s[k].key = "cmd" /\ s[k].type = "cmd_line"
    BY <1>4
  <2>5. \A line \in LinesIn(properties) : Splittable(line)
    BY <2>2, <2>4 DEF LinesIn
  <2> QED
    BY <2>1, <2>3, <2>5
<1> QED
  BY <1>7, <1>8, <1>9, <1>10 DEF s

\* Reading a command as a property.
CommandProperty(p, properties) == Extract(p, properties, CommandRead(FirstNode(p, properties)))

\* The same for a command that is a property.
LEMMA CommandPropertyFacts ==
    ASSUME NEW properties \in PropertiesOf(CommandNode), NEW tag, NEW k, NEW p, RightProperty(tag, k, p),
           p.type = "command"
    PROVE  /\ CommandProperty(p, properties).errors \in Seq(Messages)
           /\ "cmd_line" \in ToSet(CommandProperty(p, properties).errors) =>
                 \E q \in ToSet(properties) :
                    q.key = p.key /\ \E line \in LinesIn(q.value.properties) : ~Splittable(line)
           /\ /\ Whole(properties) /\ (\A q \in ToSet(properties) : Whole(q.value.properties))
              /\ CommandProperty(p, properties).errors = <<>>
              => \E d, i : /\ CommandProperty(p, properties).value = Some(d)
                           /\ i \in Written(p, properties)
                           /\ \A c \in ToSet(Schema["command"]) : Says(d, properties[i].value, c)
                           /\ \A line \in LinesIn(properties[i].value.properties) : Splittable(line)
<1> DEFINE T == Written(p, properties)
           first == FirstNode(p, properties)
           r == CommandRead(first)
           e == Extract(p, properties, r)
           AllWhole == \A q \in ToSet(properties) : Whole(q.value.properties)
           Reads(c) == /\ r.value = Some(c)
                       /\ \A q \in ToSet(Schema["command"]) : Says(c, first, q)
                       /\ \A line \in LinesIn(first.properties) : Splittable(line)
<1>1. T # {} => /\ first \in CommandNode
                /\ \E i \in T : first = properties[i].value /\ properties[i] \in ToSet(properties)
  BY FirstNodeFacts
<1>2. CanRead(p.type, first) => first.tag = "command"
  BY DEF CanRead
<1>3. ASSUME T # {}, CanRead(p.type, first)
      PROVE  /\ r.errors \in Seq(Messages)
             /\ "cmd_line" \in ToSet(r.errors) => \E line \in LinesIn(first.properties) : ~Splittable(line)
             /\ Whole(first.properties) /\ r.errors = <<>> => \E c : Reads(c)
  <2>1. first \in CommandNode /\ first.tag = "command"
    BY <1>1, <1>2, <1>3
  <2> HIDE DEF first
  <2> QED
    BY <2>1, CommandFacts
<1>4. T # {} /\ AllWhole => Whole(first.properties)
  BY <1>1
<1>5. \A x : Some(x) # None
  BY DEF Some, None
<1> HIDE DEF r
<1>6. T # {} /\ CanRead(p.type, first) => r.errors \in Seq(Messages)
  BY <1>3
<1>7. e.errors \in Seq(Messages)
  BY <1>6, ExtractionFacts
<1>8. \A x \in ToSet(e.errors) :
         \/ x \in {"not_found", "identifier", "type"}
         \/ (T # {} /\ CanRead(p.type, first) /\ x \in ToSet(r.errors))
  BY <1>6, ExtractionFacts
<1>9. Whole(properties) /\ Gives(p, properties, r) /\ e.errors = <<>> =>
         /\ e.value # None
         /\ \/ (T = {} /\ e.value = p.default)
            \/ (T # {} /\ CanRead(p.type, first) /\ r.errors = <<>> /\ e.value = r.value)
  BY <1>6, ExtractionFacts
<1>10. CommandProperty(p, properties) = e
  BY DEF CommandProperty, r
<1> HIDE DEF e
<1>11. ASSUME "cmd_line" \in ToSet(e.errors)
       PROVE  \E q \in ToSet(properties) :
                 q.key = p.key /\ \E line \in LinesIn(q.value.properties) : ~Splittable(line)
  <2>1. T # {} /\ CanRead(p.type, first) /\ "cmd_line" \in ToSet(r.errors)
    <3>1. "cmd_line" \notin {"not_found", "identifier", "type"}
      OBVIOUS
    <3> HIDE DEF T, first
    <3> QED
      BY <1>8, <1>11, <3>1
  <2>2. \E line \in LinesIn(first.properties) : ~Splittable(line)
    BY <1>3, <2>1
  <2>3. PICK i \in T : first = properties[i].value /\ properties[i] \in ToSet(properties)
    BY <1>1, <2>1
  <2>4. properties[i].key = p.key
    BY <2>3 DEF Written
  <2> QED
    BY <2>2, <2>3, <2>4
<1>12. ASSUME Whole(properties), AllWhole, e.errors = <<>>
       PROVE  \E d, i : /\ e.value = Some(d) /\ i \in T
                        /\ \A c \in ToSet(Schema["command"]) : Says(d, properties[i].value, c)
                        /\ \A line \in LinesIn(properties[i].value.properties) : Splittable(line)
  <2> HIDE DEF Reads
  <2>1. T # {} /\ CanRead(p.type, first) /\ r.errors = <<>> => \E c : Reads(c)
    BY <1>3, <1>4, <1>12
  <2>2. \A c : Reads(c) => r.value = Some(c)
    BY DEF Reads
  <2>3. Gives(p, properties, r)
    BY <1>5, <2>1, <2>2 DEF Gives
  <2>4. p.required
    BY DEF RightProperty
  <2>5. p.default = None
    BY <2>4 DEF RightProperty
  <2>6. T # {} /\ CanRead(p.type, first) /\ r.errors = <<>> /\ e.value = r.value
    <3> HIDE DEF T, first
    <3> QED
      BY <1>9, <1>12, <2>3, <2>5
  <2>7. PICK c : Reads(c)
    BY <2>1, <2>6
  <2>8. PICK i \in T : first = properties[i].value
    BY <1>1, <2>6
  <2>9. /\ e.value = Some(c) /\ i \in T
        /\ \A q \in ToSet(Schema["command"]) : Says(c, properties[i].value, q)
        /\ \A line \in LinesIn(properties[i].value.properties) : Splittable(line)
    <3>1. /\ r.value = Some(c)
          /\ \A q \in ToSet(Schema["command"]) : Says(c, first, q)
          /\ \A line \in LinesIn(first.properties) : Splittable(line)
      BY <2>7 DEF Reads
    <3> HIDE DEF first
    <3> QED
      BY <2>6, <2>8, <3>1
  <2> QED
    BY <2>9
<1> QED
  BY <1>7, <1>10, <1>11, <1>12

\* read_task for the structs that are tasks.
TaskResult(node) == StructRead(node, PropertyResults(node))

\* The command lines that are read for a task.
LEMMA CommandLinesAre ==
    ASSUME NEW node
    PROVE  /\ \A q \in ToSet(node.properties) :
                 node.tag = "start_stop" /\ q.key \in {"start", "stop"} =>
                    LinesIn(q.value.properties) \subseteq CommandLines(node)
           /\ \A line \in CommandLines(node) :
                 node.tag = "start_stop" /\ \E q \in ToSet(node.properties) :
                    q.key \in {"start", "stop"} /\ line \in LinesIn(q.value.properties)
<1> DEFINE commands == {p \in ToSet(node.properties) : node.tag = "start_stop" /\ p.key \in {"start", "stop"}}
           all == UNION {ToSet(p.value.properties) : p \in commands}
<1>1. CommandLines(node) = {q.value.text : q \in {r \in all : r.key = "cmd"}}
  BY Zenon DEF CommandLines
<1>2. \A x : x \in all <=> \E p \in commands : x \in ToSet(p.value.properties)
  OBVIOUS
<1> HIDE DEF all
<1>3. \A line : line \in CommandLines(node) <=> \E r \in all : r.key = "cmd" /\ line = r.value.text
  BY <1>1
<1>4. \A s : \A line : line \in LinesIn(s) <=> \E r \in ToSet(s) : r.key = "cmd" /\ line = r.value.text
  BY DEF LinesIn
<1>5. \A line : line \in CommandLines(node) <=> \E p \in commands : line \in LinesIn(p.value.properties)
  BY <1>2, <1>3, <1>4
<1> QED
  BY <1>5

\* Reading a property of a task.
TaskProperty(p, properties) == Extract(p, properties, ReadProperty(p.type, FirstNode(p, properties)))

\* A property of a task is a leaf or a command.
LEMMA TaskPropertyIs ==
    ASSUME NEW p, NEW properties
    PROVE  TaskProperty(p, properties) =
             IF p.type = "command" THEN CommandProperty(p, properties) ELSE PrimitiveProperty(p, properties)
<1>1. p.type = "command" => TaskProperty(p, properties) = CommandProperty(p, properties)
  BY ReadsProperty DEF TaskProperty, CommandProperty, CommandRead
<1>2. p.type # "command" => TaskProperty(p, properties) = PrimitiveProperty(p, properties)
  BY ReadsProperty DEF TaskProperty, PrimitiveProperty
<1> QED
  BY <1>1, <1>2

\* What the reader of one property of a task reports, and that it is not silent about a
\* property it has no value for.
LEMMA TaskPropertyFacts ==
    ASSUME NEW node \in ValueNode, node.tag \in TaskTags, NEW k, NEW p, RightProperty(node.tag, k, p)
    PROVE  /\ TaskProperty(p, node.properties).errors \in Seq(Messages)
           /\ "cmd_line" \in ToSet(TaskProperty(p, node.properties).errors) =>
                 \E line \in CommandLines(node) : ~Splittable(line)
           /\ Complete(node) /\ TaskProperty(p, node.properties).errors = <<>> =>
                 TaskProperty(p, node.properties).value # None
<1>1. node.properties \in PropertiesOf(CommandNode) /\ \A v \in CommandNode : v.text \in Seq(STRING)
  BY NodeTypes
<1>2. PICK properties : properties = node.properties
  OBVIOUS
<1>3. Complete(node) => Whole(properties) /\ \A q \in ToSet(properties) : Whole(q.value.properties)
  BY <1>2 DEF Complete, Whole
<1>4. CASE p.type = "command"
  <2>1. TaskProperty(p, properties) = CommandProperty(p, properties)
    BY <1>4, TaskPropertyIs
  <2> DEFINE Reads(d, i) ==
               /\ CommandProperty(p, properties).value = Some(d) /\ i \in Written(p, properties)
               /\ \A c \in ToSet(Schema["command"]) : Says(d, properties[i].value, c)
               /\ \A line \in LinesIn(properties[i].value.properties) : Splittable(line)
  <2>2. /\ CommandProperty(p, properties).errors \in Seq(Messages)
        /\ "cmd_line" \in ToSet(CommandProperty(p, properties).errors) =>
             \E q \in ToSet(properties) :
                q.key = p.key /\ \E line \in LinesIn(q.value.properties) : ~Splittable(line)
        /\ /\ Whole(properties) /\ (\A q \in ToSet(properties) : Whole(q.value.properties))
           /\ CommandProperty(p, properties).errors = <<>>
           => \E d : CommandProperty(p, properties).value = Some(d)
    <3>1. properties \in PropertiesOf(CommandNode)
      BY <1>1, <1>2
    <3>2. CommandProperty(p, properties).errors \in Seq(Messages)
      BY <1>4, <3>1, CommandPropertyFacts
    <3>3. "cmd_line" \in ToSet(CommandProperty(p, properties).errors) =>
             \E q \in ToSet(properties) :
                q.key = p.key /\ \E line \in LinesIn(q.value.properties) : ~Splittable(line)
      BY <1>4, <3>1, CommandPropertyFacts
    <3>4. /\ Whole(properties) /\ (\A q \in ToSet(properties) : Whole(q.value.properties))
          /\ CommandProperty(p, properties).errors = <<>>
          => \E d, i : Reads(d, i)
      BY <1>4, <3>1, CommandPropertyFacts
    <3>5. \A d, i : Reads(d, i) => CommandProperty(p, properties).value = Some(d)
      OBVIOUS
    <3> HIDE DEF Reads
    <3> QED
      BY <3>2, <3>3, <3>4, <3>5
  <2>3. \A x : Some(x) # None
    BY DEF Some, None
  <2>4. node.tag = "start_stop" /\ p.key \in {"start", "stop"}
    BY <1>4 DEF RightProperty
  <2>5. \A q \in ToSet(properties) : q.key = p.key => LinesIn(q.value.properties) \subseteq CommandLines(node)
    BY <1>2, <2>4, CommandLinesAre
  <2> QED
    BY <1>2, <1>3, <2>1, <2>2, <2>3, <2>5
<1>5. CASE p.type # "command"
  <2>1. TaskProperty(p, properties) = PrimitiveProperty(p, properties)
    BY <1>5, TaskPropertyIs
  <2>2. /\ PrimitiveProperty(p, properties).errors \in Seq(Messages)
        /\ "cmd_line" \in ToSet(PrimitiveProperty(p, properties).errors) => p.type = "cmd_line"
        /\ Whole(properties) /\ PrimitiveProperty(p, properties).errors = <<>> =>
             PrimitiveProperty(p, properties).value # None
    BY <1>1, <1>2, PrimitivePropertyFacts
  <2>3. p.type # "cmd_line"
    BY DEF RightProperty, TaskTags
  <2> QED
    BY <1>2, <1>3, <2>1, <2>2, <2>3
<1> QED
  BY <1>4, <1>5

\* What was written for one property of a task is what its data have.
MeansProperty(data, node, p) ==
    /\ Says(data, node, p)
    /\ p.type = "command" =>
         \A j \in DOMAIN node.properties : \A q \in ToSet(Schema["command"]) :
            node.properties[j].key = p.key => Says(data.fields[p.key], node.properties[j].value, q)

\* A property that is read without an error is faithful, and its command line can be split.
LEMMA TaskPropertyMeans ==
    ASSUME NEW node \in ValueNode, node.tag \in TaskTags, NEW k, NEW p, RightProperty(node.tag, k, p),
           Complete(node), Distinct(node), TaskProperty(p, node.properties).errors = <<>>,
           NEW data, data.fields[p.key] = TaskProperty(p, node.properties).value[1]
    PROVE  /\ MeansProperty(data, node, p)
           /\ p.type = "command" =>
                \A q \in ToSet(node.properties) : q.key = p.key =>
                   \A line \in LinesIn(q.value.properties) : Splittable(line)
<1> DEFINE properties == node.properties
<1>1. properties \in PropertiesOf(CommandNode) /\ \A v \in CommandNode : v.text \in Seq(STRING)
  BY NodeTypes
<1>2. Whole(properties) /\ \A q \in ToSet(properties) : Whole(q.value.properties)
  BY DEF Complete, Whole
<1>3. CASE p.type # "command"
  <2>1. TaskProperty(p, properties) = PrimitiveProperty(p, properties)
    BY <1>3, TaskPropertyIs
  <2>2. Says(data, node, p)
    BY <1>1, <1>2, <1>3, <2>1, SaysProperty
  <2> QED
    BY <1>3, <2>2 DEF MeansProperty
<1>4. CASE p.type = "command"
  <2>1. TaskProperty(p, properties) = CommandProperty(p, properties)
    BY <1>4, TaskPropertyIs
  <2> DEFINE Reads(d, i) ==
               /\ CommandProperty(p, properties).value = Some(d) /\ i \in Written(p, properties)
               /\ \A c \in ToSet(Schema["command"]) : Says(d, properties[i].value, c)
               /\ \A line \in LinesIn(properties[i].value.properties) : Splittable(line)
  <2>2. /\ Whole(properties) /\ (\A q \in ToSet(properties) : Whole(q.value.properties))
        /\ CommandProperty(p, properties).errors = <<>>
        => \E d, i : Reads(d, i)
    BY <1>1, <1>4, CommandPropertyFacts
  <2>3. \E d, i : Reads(d, i)
    BY <1>2, <2>1, <2>2
  <2>4. PICK d, i : Reads(d, i)
    BY <2>3
  <2>5. data.fields[p.key] = d
    BY <2>1, <2>4 DEF Some
  <2>6. i \in DOMAIN properties /\ properties[i].key = p.key
    BY <2>4 DEF Written
  <2>7. \A j \in DOMAIN properties : properties[j].key = p.key => j = i
    BY <2>6 DEF Distinct
  <2>8. Says(data, node, p)
    <3>1. {j \in DOMAIN properties : properties[j].key = p.key} # {}
      BY <2>6
    <3> QED
      BY <1>4, <3>1 DEF Says
  <2>9. \A c \in ToSet(Schema["command"]) : Says(d, properties[i].value, c)
    BY <2>4
  <2>10. \A line \in LinesIn(properties[i].value.properties) : Splittable(line)
    BY <2>4
  <2> HIDE DEF Reads
  <2>11. MeansProperty(data, node, p)
    BY <2>5, <2>7, <2>8, <2>9 DEF MeansProperty
  <2>12. \A q \in ToSet(properties) : q.key = p.key =>
            \A line \in LinesIn(q.value.properties) : Splittable(line)
    BY <2>7, <2>10 DEF ToSet
  <2> QED
    BY <2>11, <2>12
<1> QED
  BY <1>3, <1>4

\* The readers of tasks, for a struct with a known tag.
LEMMA TaskStructFacts ==
    ASSUME NEW node \in ValueNode, node.tag \in TaskTags
    PROVE  /\ TaskResult(node).errors \in Seq(Messages)
           /\ "cmd_line" \in ToSet(TaskResult(node).errors) => \E line \in CommandLines(node) : ~Splittable(line)
           /\ Complete(node) /\ TaskResult(node).errors = <<>> =>
                 \E d : /\ TaskResult(node).value = Some(d) /\ Means(d, node)
                        /\ \A line \in CommandLines(node) : Splittable(line)
<1> DEFINE s == Schema[node.tag]
           D == DOMAIN s
           results == PropertyResults(node)
           r == StructRead(node, results)
           d == [tag |-> node.tag, fields |-> Fields(node.tag, results)]
<1>1. node \in NodeOver(PropertiesOf(CommandNode)) /\ node.tag \in Tags
  BY NodeTypes DEF Tags, TaskTags
<1>2. DOMAIN results = D /\ \A k \in D : results[k] = TaskProperty(s[k], node.properties)
  BY DEF PropertyResults, TaskProperty
<1>3. /\ \A k \in D : RightProperty(node.tag, k, s[k])
      /\ node.tag = "start_stop" => \A key \in {"start", "stop"} : \E k \in D : s[k].key = key
  BY <1>1, SchemaFacts
<1> HIDE DEF results, s
<1>4. ASSUME NEW k \in D
      PROVE  /\ results[k].errors \in Seq(Messages)
             /\ "cmd_line" \in ToSet(results[k].errors) => \E line \in CommandLines(node) : ~Splittable(line)
             /\ Complete(node) /\ results[k].errors = <<>> => results[k].value # None
  <2>1. PICK p : p = s[k]
    OBVIOUS
  <2>2. RightProperty(node.tag, k, p)
    BY <1>3, <2>1
  <2>3. results[k] = TaskProperty(p, node.properties)
    BY <1>2, <2>1
  <2> QED
    BY <2>2, <2>3, TaskPropertyFacts
<1>5. Complete(node) => Loud(node.tag, results)
  BY <1>4 DEF Loud, s
<1>6. /\ r.errors \in Seq(Messages)
      /\ \A x \in ToSet(r.errors) : x = "duplicate_property" \/ \E k \in D : x \in ToSet(results[k].errors)
      /\ Loud(node.tag, results) /\ r.errors = <<>> =>
           /\ Distinct(node) /\ \A k \in D : results[k].errors = <<>>
           /\ r.value = Some(d) /\ \A k \in D : Fields(node.tag, results)[s[k].key] = results[k].value[1]
  <2>1. DOMAIN results = DOMAIN Schema[node.tag] /\ D = DOMAIN Schema[node.tag] /\ s = Schema[node.tag]
    BY <1>2 DEF s
  <2>2. \A k \in DOMAIN Schema[node.tag] : results[k].errors \in Seq(Messages)
    BY <1>4, <2>1
  <2>3. /\ r.errors \in Seq(Messages)
        /\ \A x \in ToSet(r.errors) :
              x = "duplicate_property" \/ \E k \in DOMAIN Schema[node.tag] : x \in ToSet(results[k].errors)
        /\ Loud(node.tag, results) /\ r.errors = <<>> =>
              /\ Distinct(node) /\ \A k \in DOMAIN Schema[node.tag] : results[k].errors = <<>>
              /\ r.value = Some([tag |-> node.tag, fields |-> Fields(node.tag, results)])
              /\ \A k \in DOMAIN Schema[node.tag] :
                    Fields(node.tag, results)[Schema[node.tag][k].key] = results[k].value[1]
    BY <1>1, <2>1, <2>2, StructFacts
  <2> HIDE DEF r
  <2> QED
    BY <2>1, <2>3
<1>7. TaskResult(node) = r
  BY DEF TaskResult, results
<1> HIDE DEF r
<1>8. ASSUME "cmd_line" \in ToSet(r.errors)
      PROVE  \E line \in CommandLines(node) : ~Splittable(line)
  <2>1. PICK k \in D : "cmd_line" \in ToSet(results[k].errors)
    <3>1. "cmd_line" # "duplicate_property"
      OBVIOUS
    <3> QED
      BY <1>6, <1>8, <3>1
  <2> QED
    BY <1>4, <2>1
<1>9. ASSUME Complete(node), r.errors = <<>>
      PROVE  /\ r.value = Some(d) /\ Means(d, node)
             /\ \A line \in CommandLines(node) : Splittable(line)
  <2>1. /\ Distinct(node) /\ \A k \in D : results[k].errors = <<>>
        /\ r.value = Some(d) /\ \A k \in D : d.fields[s[k].key] = results[k].value[1]
    BY <1>5, <1>6, <1>9
  <2>2. d.tag = node.tag
    OBVIOUS
  <2> HIDE DEF d
  <2>3. ASSUME NEW k \in D
        PROVE  /\ MeansProperty(d, node, s[k])
               /\ s[k].type = "command" =>
                    \A q \in ToSet(node.properties) : q.key = s[k].key =>
                       \A line \in LinesIn(q.value.properties) : Splittable(line)
    <3>1. PICK p : p = s[k]
      OBVIOUS
    <3>2. RightProperty(node.tag, k, p)
      BY <1>3, <3>1
    <3>3. /\ TaskProperty(p, node.properties).errors = <<>>
          /\ d.fields[p.key] = TaskProperty(p, node.properties).value[1]
      BY <1>2, <2>1, <3>1
    <3>4. /\ MeansProperty(d, node, p)
          /\ p.type = "command" =>
               \A q \in ToSet(node.properties) : q.key = p.key =>
                  \A line \in LinesIn(q.value.properties) : Splittable(line)
      BY <1>9, <2>1, <3>2, <3>3, TaskPropertyMeans
    <3> QED
      BY <3>1, <3>4
  <2>4. \A p \in ToSet(s) : MeansProperty(d, node, p)
    BY <2>3 DEF ToSet
  <2>5. Means(d, node)
    BY <2>2, <2>4, Zenon DEF Means, MeansProperty, s
  <2>6. ASSUME NEW line \in CommandLines(node)
        PROVE  Splittable(line)
    <3>1. /\ node.tag = "start_stop"
          /\ \E q \in ToSet(node.properties) : q.key \in {"start", "stop"} /\ line \in LinesIn(q.value.properties)
      BY CommandLinesAre
    <3>2. PICK q \in ToSet(node.properties) : q.key \in {"start", "stop"} /\ line \in LinesIn(q.value.properties)
      BY <3>1
    <3>3. PICK k \in D : s[k].key = q.key
      BY <1>3, <3>1, <3>2
    <3>4. s[k].type = "command"
      BY <1>3, <3>1 DEF RightProperty
    <3> QED
      BY <2>3, <3>2, <3>3, <3>4
  <2> QED
    BY <2>1, <2>5, <2>6
<1> QED
  BY <1>6, <1>7, <1>8, <1>9

\* read_task: what it reports, and that what it is silent about was read as it was written.
LEMMA TaskFacts ==
    ASSUME NEW node \in ValueNode
    PROVE  /\ ReadTask(node).errors \in Seq(Messages)
           /\ "cmd_line" \in ToSet(ReadTask(node).errors) => \E line \in CommandLines(node) : ~Splittable(line)
           /\ Complete(node) /\ ReadTask(node).errors = <<>> =>
                 /\ Means(DataRead(node), node)
                 /\ \A line \in CommandLines(node) : Splittable(line)
<1> DEFINE r == ReadTask(node)
           struct == node.type = "struct" /\ node.tag \in TaskTags
           Good == /\ r.errors \in Seq(Messages)
                   /\ "cmd_line" \in ToSet(r.errors) => \E line \in CommandLines(node) : ~Splittable(line)
                   /\ Complete(node) /\ r.errors = <<>> =>
                        Means(DataRead(node), node) /\ \A line \in CommandLines(node) : Splittable(line)
<1>1. r = CASE node.type = "none" -> Result(None, <<>>)
            [] node.type = "pseudo_identifier" -> Result(None, <<"identifier">>)
            [] struct -> TaskResult(node)
            [] OTHER -> Result(None, <<"not_a_task">>)
  BY ReadsStruct, Zenon DEF ReadTask, TaskResult
<1>2. DataRead(node) = IF r.value = None THEN [tag |-> "null", fields |-> <<>>] ELSE r.value[1]
  BY Zenon DEF DataRead
<1> HIDE DEF r
<1>3. <<>> \in Seq(Messages) /\ ToSet(<<>>) = {}
  BY DEF ToSet
<1>4. ASSUME NEW x \in Messages, x # "cmd_line", r = Result(None, <<x>>)
      PROVE  Good
  <2> DEFINE m == <<x>>
  <2>1. m \in Seq(Messages) /\ DOMAIN m = {1} /\ m[1] = x /\ m # <<>>
    OBVIOUS
  <2>2. r.errors = m
    BY <1>4 DEF Result
  <2> HIDE DEF m
  <2>3. ToSet(m) = {x}
    BY <2>1 DEF ToSet
  <2> QED
    BY <1>4, <2>1, <2>2, <2>3
<1>5. CASE node.type = "none"
  <2>1. r.errors = <<>>
    BY <1>1, <1>5 DEF Result
  <2>2. ~Complete(node)
    BY <1>5 DEF Complete
  <2> QED
    BY <1>3, <2>1, <2>2 DEF r
<1>6. CASE node.type = "pseudo_identifier"
  <2>1. r = Result(None, <<"identifier">>) /\ "identifier" \in Messages /\ "identifier" # "cmd_line"
    BY <1>1, <1>6 DEF Messages
  <2>2. Good
    BY <1>4, <2>1
  <2> QED
    BY <2>2 DEF r
<1>7. CASE node.type \notin {"none", "pseudo_identifier"} /\ struct
  <2>1. r = TaskResult(node)
    BY <1>1, <1>7
  <2>2. Good
    <3>1. /\ TaskResult(node).errors \in Seq(Messages)
          /\ "cmd_line" \in ToSet(TaskResult(node).errors) => \E line \in CommandLines(node) : ~Splittable(line)
      BY <1>7, TaskStructFacts
    <3>2. ASSUME Complete(node), r.errors = <<>>
          PROVE  Means(DataRead(node), node) /\ \A line \in CommandLines(node) : Splittable(line)
      <4>1. PICK d : /\ TaskResult(node).value = Some(d) /\ Means(d, node)
                     /\ \A line \in CommandLines(node) : Splittable(line)
        BY <1>7, <2>1, <3>2, TaskStructFacts
      <4>2. Some(d) # None /\ Some(d)[1] = d
        BY DEF Some, None
      <4>3. DataRead(node) = d
        BY <1>2, <2>1, <4>1, <4>2
      <4> QED
        BY <4>1, <4>3
    <3> QED
      BY <2>1, <3>1, <3>2
  <2> QED
    BY <2>2 DEF r
<1>8. CASE node.type \notin {"none", "pseudo_identifier"} /\ ~struct
  <2>1. r = Result(None, <<"not_a_task">>) /\ "not_a_task" \in Messages /\ "not_a_task" # "cmd_line"
    BY <1>1, <1>8 DEF Messages
  <2>2. Good
    BY <1>4, <2>1
  <2> QED
    BY <2>2 DEF r
<1> QED
  BY <1>5, <1>6, <1>7, <1>8

-----------------------------------------------------------------------------
(* What has been reported so far *)

Reports ==
    ((Messages \cup {"expected", "duplicate_task", "duplicate_run_level"}) \X Nat)
      \cup ({"undeclared"} \X ({"dependency", "run_level"} \X Nat) \X Nat)

\* What is reported for the t-th task that is read.
TaskReports(t) ==
    LET read == ReadTask(TaskOf(t).value).errors IN [k \in DOMAIN read |-> <<read[k], TaskOrder[t]>>]

\* There is a task for every one of these names.
AllKnown(names) == \A k \in DOMAIN names : Named(names[k]) # {}

DuplicatesKept ==
    /\ ToSet(DuplicateErrors(tree.tasks, TaskOrder, "duplicate_task")) \subseteq ToSet(errors)
    /\ phase \in {"run_levels", "returned"} =>
         ToSet(DuplicateErrors(tree.runLevels, RunLevelOrder, "duplicate_run_level")) \subseteq ToSet(errors)

TaskReportsKept == \A t \in 1..TaskCount : ToSet(TaskReports(t)) \subseteq ToSet(errors)

\* The names in the k-th declaration of dependencies, or the k-th run level that is read.
DependenciesJudged(k) ==
    AboutDependencies(k) = {} => Named(tree.dependencies[k].name) # {} /\ AllKnown(tree.dependencies[k].names)
RunLevelJudged(k) == AboutRunLevel(RunLevelOrder[k]) = {} => AllKnown(RunLevelAt(k).names)

NamesJudged ==
    /\ \A k \in 1..DependencyCount : DependenciesJudged(k)
    /\ \A k \in 1..RunLevelCount : RunLevelJudged(k)

\* A command line is reported by the reader of a task only.
LineReport(t) == "cmd_line" \in ToSet(ReadTask(TaskOf(t).value).errors)
LinesReported == \A e \in ToSet(errors) : e[1] = "cmd_line" => \E t \in 1..TaskCount : LineReport(t)

ErrorsKept ==
    /\ errors \in Seq(Reports)
    /\ ToSet(tree.errors) \subseteq ToSet(errors)
    /\ DuplicatesKept /\ TaskReportsKept /\ NamesJudged /\ LinesReported

\* What depends on the tree only.
LEMMA SameTree ==
    ASSUME tree' = tree
    PROVE  /\ TaskOrder' = TaskOrder /\ RunLevelOrder' = RunLevelOrder
           /\ \A t : TaskOf(t)' = TaskOf(t) /\ RunLevelAt(t)' = RunLevelAt(t)
           /\ \A t : TaskReports(t)' = TaskReports(t) /\ LineReport(t)' = LineReport(t)
<1>1. TaskOrder' = TaskOrder /\ RunLevelOrder' = RunLevelOrder
  BY DEF TaskOrder, RunLevelOrder
<1>2. \A t : TaskOf(t)' = TaskOf(t) /\ RunLevelAt(t)' = RunLevelAt(t)
  BY <1>1 DEF TaskOf, RunLevelAt
<1>3. \A t : TaskReports(t)' = TaskReports(t) /\ LineReport(t)' = LineReport(t)
  BY <1>1, <1>2 DEF TaskReports, LineReport
<1> QED
  BY <1>1, <1>2, <1>3

\* error_tag_sink only grows, and tasks keep their names: what was reported stays reported,
\* and a step has to account for what it reads.
LEMMA KeptOn ==
    ASSUME ErrorsKept, tree' = tree, errors' \in Seq(Reports), ToSet(errors) \subseteq ToSet(errors'),
           \A x : Named(x) # {} => Named(x)' # {},
           TaskCount \in Nat, TaskCount' \in Nat, TaskCount <= TaskCount',
           \/ phase' \in {"run_levels", "returned"} => phase \in {"run_levels", "returned"}
           \/ ToSet(DuplicateErrors(tree.runLevels, RunLevelOrder, "duplicate_run_level")) \subseteq ToSet(errors'),
           \A t \in 1..TaskCount' : t \in 1..TaskCount \/ ToSet(TaskReports(t)) \subseteq ToSet(errors'),
           \A k \in 1..DependencyCount' : k \in 1..DependencyCount \/ DependenciesJudged(k)',
           \A k \in 1..RunLevelCount' : k \in 1..RunLevelCount \/ RunLevelJudged(k)',
           \A e \in ToSet(errors') : e \in ToSet(errors) \/ e[1] # "cmd_line" \/ \E t \in 1..TaskCount' : LineReport(t)
    PROVE  ErrorsKept'
<1>1. /\ TaskOrder' = TaskOrder /\ RunLevelOrder' = RunLevelOrder
      /\ \A t : TaskOf(t)' = TaskOf(t) /\ RunLevelAt(t)' = RunLevelAt(t)
      /\ \A t : TaskReports(t)' = TaskReports(t) /\ LineReport(t)' = LineReport(t)
  BY SameTree
<1>2. /\ ToSet(tree.errors) \subseteq ToSet(errors)
      /\ DuplicatesKept /\ TaskReportsKept /\ NamesJudged /\ LinesReported
  BY Zenon DEF ErrorsKept
<1>3. PICK E : E = ToSet(errors)
  OBVIOUS
<1>4. PICK F : F = ToSet(errors')
  OBVIOUS
<1>5. ToSet(errors)' = F /\ E \subseteq F
  BY <1>3, <1>4
<1>6. \A names : AllKnown(names) => AllKnown(names)'
  BY DEF AllKnown
<1>7. DuplicatesKept'
  <2>1. PICK a : a = ToSet(DuplicateErrors(tree.tasks, TaskOrder, "duplicate_task"))
    OBVIOUS
  <2>2. PICK b : b = ToSet(DuplicateErrors(tree.runLevels, RunLevelOrder, "duplicate_run_level"))
    OBVIOUS
  <2>3. /\ ToSet(DuplicateErrors(tree.tasks, TaskOrder, "duplicate_task"))' = a
        /\ ToSet(DuplicateErrors(tree.runLevels, RunLevelOrder, "duplicate_run_level"))' = b
    BY <1>1, <2>1, <2>2, Zenon DEF DuplicateErrors
  <2>4. a \subseteq E /\ (phase \in {"run_levels", "returned"} => b \subseteq E)
    BY <1>2, <1>3, <2>1, <2>2 DEF DuplicatesKept
  <2>5. a \subseteq F
    BY <1>5, <2>4
  <2>6. phase' \in {"run_levels", "returned"} => b \subseteq F
    BY <1>4, <1>5, <2>2, <2>4
  <2> QED
    BY <1>5, <2>3, <2>5, <2>6 DEF DuplicatesKept
<1>8. TaskReportsKept'
  <2>1. \A t \in 1..TaskCount : ToSet(TaskReports(t)) \subseteq E
    BY <1>2, <1>3 DEF TaskReportsKept
  <2>2. \A t \in 1..TaskCount' : ToSet(TaskReports(t)) \subseteq F
    BY <1>4, <1>5, <2>1
  <2>3. \A t : ToSet(TaskReports(t))' = ToSet(TaskReports(t))
    BY <1>1
  <2> QED
    BY <1>5, <2>2, <2>3 DEF TaskReportsKept
<1>9. ASSUME NEW k, DependenciesJudged(k)
      PROVE  DependenciesJudged(k)'
  <2>1. AboutDependencies(k) \subseteq AboutDependencies(k)'
    BY <1>3, <1>4, <1>5 DEF AboutDependencies
  <2> QED
    BY <1>6, <1>9, <2>1 DEF DependenciesJudged
<1>10. ASSUME NEW k, RunLevelJudged(k)
       PROVE  RunLevelJudged(k)'
  <2>1. AboutRunLevel(RunLevelOrder[k]) \subseteq AboutRunLevel(RunLevelOrder[k])'
    BY <1>1, <1>3, <1>4, <1>5 DEF AboutRunLevel
  <2> QED
    BY <1>1, <1>6, <1>10, <2>1 DEF RunLevelJudged
<1>11. NamesJudged'
  BY <1>2, <1>9, <1>10 DEF NamesJudged
<1>12. LinesReported'
  <2>1. ASSUME NEW e \in F, e[1] = "cmd_line"
        PROVE  \E t \in 1..TaskCount' : LineReport(t)
    <3>1. CASE e \in E
      <4>1. \E t \in 1..TaskCount : LineReport(t)
        BY <1>2, <1>3, <2>1, <3>1 DEF LinesReported
      <4> QED
        BY <4>1
    <3>2. CASE e \notin E
      BY <1>3, <1>4, <2>1, <3>2
    <3> QED
      BY <3>1, <3>2
  <2> QED
    BY <1>1, <1>5, <2>1 DEF LinesReported
<1>13. (ToSet(tree.errors) \subseteq ToSet(errors))'
  <2>1. ToSet(tree.errors)' = ToSet(tree.errors)
    OBVIOUS
  <2> QED
    BY <1>2, <1>3, <1>5, <2>1
<1> QED
  BY <1>7, <1>8, <1>11, <1>12, <1>13 DEF ErrorsKept

\* report_duplicates: of several declarations of a name all but the first that is read are
\* reported.
LEMMA DuplicateErrorsFacts ==
    ASSUME NEW nodes, Len(nodes) \in Nat, \A i \in 1..Len(nodes) : nodes[i].name \in Nat,
           NEW order, Walks(order, [i \in 1..Len(nodes) |-> nodes[i].name]), NEW what
    PROVE  /\ DuplicateErrors(nodes, order, what) \in Seq({what} \X Nat)
           /\ \A a, b \in 1..Len(nodes) : a < b /\ nodes[order[a]].name = nodes[order[b]].name =>
                 <<what, order[b]>> \in ToSet(DuplicateErrors(nodes, order, what))
<1> DEFINE n == Len(nodes)
           ranks == [i \in 1..n |-> nodes[i].name]
           keys == [i \in 1..n |-> nodes[order[i]].name]
           T == ReportDuplicates(keys)
           m == Cardinality(T)
           reported == Ascending(T)
           errs == [j \in 1..m |-> <<what, order[reported[j]]>>]
<1>1. n \in Nat /\ \A i \in 1..n : nodes[i].name \in Nat
  OBVIOUS
<1> HIDE DEF n
<1>2. ranks \in Seq(Nat) /\ Len(ranks) = n
  BY <1>1
<1>3. Walks(order, ranks)
  BY DEF n
<1>4. order \in [1..n -> 1..n] /\ DOMAIN order = 1..n
  BY <1>2, <1>3 DEF Walks
<1>5. keys \in Seq(Nat) /\ Len(keys) = n /\ \A i \in 1..n : keys[i] = ranks[order[i]]
  BY <1>1, <1>4
<1>6. T \subseteq 1..n /\ IsFiniteSet(T)
  <2> HIDE DEF keys
  <2> QED
    BY <1>5, DuplicatesType
<1>7. DuplicateErrors(nodes, order, what) = [j \in DOMAIN reported |-> <<what, order[reported[j]]>>]
  BY <1>4 DEF DuplicateErrors
<1> HIDE DEF T, keys, ranks
<1>8. T \subseteq Int
  BY <1>1, <1>6
<1>9. m \in Nat /\ reported \in [1..m -> T] /\ \A x \in T : \E j \in 1..m : reported[j] = x
  BY <1>6, <1>8, AscendingFacts
<1> HIDE DEF reported, m
<1>10. DuplicateErrors(nodes, order, what) = errs
  BY <1>7, <1>9
<1>11. errs \in Seq({what} \X Nat)
  <2> DEFINE E == {what} \X Nat
  <2>1. \A j \in 1..m : order[reported[j]] \in Nat
    <3> TAKE j \in 1..m
    <3>1. reported[j] \in T
      BY <1>9
    <3>2. reported[j] \in 1..n
      BY <1>6, <3>1
    <3>3. order[reported[j]] \in 1..n
      BY <1>4, <3>2
    <3> QED
      BY <1>1, <3>3
  <2>2. \A j \in 1..m : <<what, order[reported[j]]>> \in E
    BY <2>1
  <2> HIDE DEF E
  <2>3. errs \in [1..m -> E]
    BY <2>2
  <2> HIDE DEF errs
  <2>4. errs \in Seq(E)
    BY <1>9, <2>3
  <2> QED
    BY <2>4 DEF E
<1>12. ASSUME NEW a \in 1..n, NEW b \in 1..n, a < b, nodes[order[a]].name = nodes[order[b]].name
       PROVE  <<what, order[b]>> \in ToSet(errs)
  <2>1. ranks[order[a]] = ranks[order[b]]
    <3>1. \A i \in 1..n : ranks[order[i]] = nodes[order[i]].name
      BY <1>4 DEF ranks
    <3> QED
      BY <1>12, <3>1
  <2>2. b \in T
    <3>1. Len(keys) = Len(ranks) /\ a \in 1..Len(ranks) /\ b \in 1..Len(ranks) /\ keys \in Seq(Nat)
      BY <1>2, <1>5, <1>12
    <3>2. \A j, k \in 1..Len(ranks) : ranks[order[j]] = ranks[order[k]] => keys[j] = keys[k]
      BY <1>2, <1>5
    <3> QED
      BY <1>2, <1>3, <1>12, <2>1, <3>1, <3>2, DuplicatesReported DEF T
  <2>3. PICK j \in 1..m : reported[j] = b
    BY <1>9, <2>2
  <2>4. j \in DOMAIN errs /\ errs[j] = <<what, order[b]>>
    BY <2>3
  <2> HIDE DEF errs
  <2> QED
    BY <2>4 DEF ToSet
<1> HIDE DEF errs
<1> QED
  BY <1>10, <1>11, <1>12 DEF n

\* What every part of the reader reports.
LEMMA ReportTypes ==
    ASSUME NEW x \in Nat, NEW s
    PROVE  /\ s \in Seq({"expected"} \X Nat) \/ s \in Seq({"duplicate_task"} \X Nat)
                \/ s \in Seq({"duplicate_run_level"} \X Nat) \/ s \in Seq(Messages \X {x})
                \/ s \in Seq({"undeclared"} \X {<<"dependency", x>>} \X Nat)
                \/ s \in Seq({"undeclared"} \X {<<"run_level", x>>} \X Nat)
              => s \in Seq(Reports)
           /\ s \in Seq({"expected"} \X Nat) \/ s \in Seq({"duplicate_task"} \X Nat)
                \/ s \in Seq({"duplicate_run_level"} \X Nat)
                \/ s \in Seq({"undeclared"} \X {<<"dependency", x>>} \X Nat)
                \/ s \in Seq({"undeclared"} \X {<<"run_level", x>>} \X Nat)
              => \A e \in ToSet(s) : e[1] # "cmd_line"
<1>1. ASSUME NEW S, S \subseteq Reports, s \in Seq(S)
      PROVE  s \in Seq(Reports)
  BY <1>1
<1>2. ASSUME NEW S, s \in Seq(S)
      PROVE  ToSet(s) \subseteq S
  BY <1>2, Extended
<1> DEFINE A == {"expected"} \X Nat
           B == {"duplicate_task"} \X Nat
           C == {"duplicate_run_level"} \X Nat
           D == Messages \X {x}
           G == {"undeclared"} \X {<<"dependency", x>>} \X Nat
           H == {"undeclared"} \X {<<"run_level", x>>} \X Nat
<1>3. A \subseteq Reports /\ B \subseteq Reports /\ C \subseteq Reports /\ D \subseteq Reports
  BY DEF Reports
<1>4. G \subseteq Reports /\ H \subseteq Reports
  BY DEF Reports
<1>5. \A e : (e \in A \/ e \in B \/ e \in C) => e[1] # "cmd_line"
  OBVIOUS
<1>6. \A e : (e \in G \/ e \in H) => e[1] # "cmd_line"
  OBVIOUS
<1> HIDE DEF A, B, C, D, G, H
<1>7. s \in Seq(A) \/ s \in Seq(B) \/ s \in Seq(C) \/ s \in Seq(D) \/ s \in Seq(G) \/ s \in Seq(H) => s \in Seq(Reports)
  BY <1>1, <1>3, <1>4
<1>8. s \in Seq(A) \/ s \in Seq(B) \/ s \in Seq(C) \/ s \in Seq(G) \/ s \in Seq(H) =>
        \A e \in ToSet(s) : e[1] # "cmd_line"
  BY <1>2, <1>5, <1>6
<1> QED
  BY <1>7, <1>8 DEF A, B, C, D, G, H

\* What is reported for one task.
LEMMA TaskReportFacts ==
    ASSUME tree \in Trees, NEW t \in 1..Len(tree.tasks)
    PROVE  /\ TaskOrder[t] \in Nat /\ TaskReports(t) \in Seq(Messages \X {TaskOrder[t]})
           /\ \A x \in ToSet(ReadTask(TaskOf(t).value).errors) : <<x, TaskOrder[t]>> \in ToSet(TaskReports(t))
           /\ \A e \in ToSet(TaskReports(t)) : e[1] = "cmd_line" => LineReport(t)
<1>1. PICK i : i = TaskOrder[t]
  OBVIOUS
<1>2. i \in 1..Len(tree.tasks) /\ Len(tree.tasks) \in Nat
  BY <1>1, OrderFacts, TreeFacts
<1>3. TaskOf(t).value \in ValueNode
  BY <1>1, <1>2, NodeFacts DEF TaskOf
<1>4. PICK read : read = ReadTask(TaskOf(t).value).errors
  OBVIOUS
<1>5. read \in Seq(Messages)
  BY <1>3, <1>4, TaskFacts
<1> DEFINE errs == [k \in 1..Len(read) |-> <<read[k], i>>]
           E == Messages \X {i}
<1>6. Len(read) \in Nat /\ DOMAIN read = 1..Len(read) /\ \A k \in 1..Len(read) : read[k] \in Messages
  BY <1>5
<1>7. TaskReports(t) = errs
  BY <1>1, <1>4, <1>6 DEF TaskReports
<1>8. \A k \in 1..Len(read) : <<read[k], i>> \in E
  BY <1>6
<1>9. errs \in Seq(E)
  <2> HIDE DEF E
  <2>1. errs \in [1..Len(read) -> E]
    BY <1>8
  <2> HIDE DEF errs
  <2> QED
    BY <1>6, <2>1
<1>10. DOMAIN errs = 1..Len(read) /\ \A k \in 1..Len(read) : errs[k] = <<read[k], i>> /\ errs[k][1] = read[k]
  OBVIOUS
<1> HIDE DEF errs
<1>11. \A x \in ToSet(read) : <<x, i>> \in ToSet(errs)
  BY <1>6, <1>10 DEF ToSet
<1>12. \A e \in ToSet(errs) : e[1] = "cmd_line" => "cmd_line" \in ToSet(read)
  BY <1>6, <1>10 DEF ToSet
<1> QED
  BY <1>1, <1>2, <1>4, <1>7, <1>9, <1>11, <1>12 DEF LineReport

\* Errors are pushed behind the others.
LEMMA Pushed ==
    ASSUME errors \in Seq(Reports), NEW s \in Seq(Reports), errors' = errors \o s
    PROVE  errors' \in Seq(Reports) /\ ToSet(errors') = ToSet(errors) \cup ToSet(s)
  BY Extended

\* What the parser and the names of tasks gave rise to.
LEMMA ErrorsInit == Init => ErrorsKept
<1> SUFFICES ASSUME Init PROVE ErrorsKept
  OBVIOUS
<1>1. /\ tree \in Trees /\ phase = "tasks" /\ next = 1
      /\ errors = tree.errors \o DuplicateErrors(tree.tasks, TaskOrder, "duplicate_task")
  BY Zenon DEF Init
<1>2. TaskCount = 0 /\ DependencyCount = 0 /\ RunLevelCount = 0
  BY <1>1 DEF TaskCount, DependencyCount, RunLevelCount
<1>3. PICK a : a = tree.errors
  OBVIOUS
<1>4. PICK b : b = DuplicateErrors(tree.tasks, TaskOrder, "duplicate_task")
  OBVIOUS
<1>5. a \in Seq({"expected"} \X Nat)
  BY <1>1, <1>3, TreeFacts
<1>6. b \in Seq({"duplicate_task"} \X Nat)
  <2>1. Len(tree.tasks) \in Nat /\ \A i \in 1..Len(tree.tasks) : tree.tasks[i].name \in Nat
    BY <1>1, TreeFacts, NodeFacts
  <2>2. Walks(TaskOrder, [i \in 1..Len(tree.tasks) |-> tree.tasks[i].name])
    BY <1>1, OrderFacts
  <2> QED
    BY <1>4, <2>1, <2>2, DuplicateErrorsFacts
<1>7. 0 \in Nat
  OBVIOUS
<1>8. a \in Seq(Reports) /\ \A e \in ToSet(a) : e[1] # "cmd_line"
  BY <1>5, <1>7, ReportTypes
<1>9. b \in Seq(Reports) /\ \A e \in ToSet(b) : e[1] # "cmd_line"
  BY <1>6, <1>7, ReportTypes
<1>10. errors \in Seq(Reports) /\ ToSet(errors) = ToSet(a) \cup ToSet(b)
  BY <1>1, <1>3, <1>4, <1>8, <1>9, Extended
<1>11. 1..0 = {}
  OBVIOUS
<1>12. DuplicatesKept
  BY <1>1, <1>4, <1>10 DEF DuplicatesKept
<1>13. TaskReportsKept /\ NamesJudged
  BY <1>2, <1>11 DEF TaskReportsKept, NamesJudged
<1>14. LinesReported
  BY <1>8, <1>9, <1>10 DEF LinesReported
<1> QED
  BY <1>3, <1>10, <1>12, <1>13, <1>14 DEF ErrorsKept

\* The tasks that have a name, by the tasks of the file.
LEMMA NamedAre ==
    ASSUME ReadInv
    PROVE  \A x : Named(x) = {t \in 1..TaskCount : TaskOf(t).name = x}
<1>1. DOMAIN allTasks = 1..TaskCount /\ \A t \in 1..TaskCount : allTasks[t].name = TaskOf(t).name
  BY DEF ReadInv, TasksMade
<1> QED
  BY <1>1 DEF Named

\* Tasks keep their names.
LEMMA NamesStay ==
    ASSUME ReadInv, ReadInv', tree' = tree
    PROVE  /\ TaskCount \in Nat /\ TaskCount' \in Nat
           /\ TaskCount' = TaskCount => \A x : Named(x)' = Named(x)
           /\ TaskCount <= TaskCount' => \A x : Named(x) # {} => Named(x)' # {}
<1>1. \A x : Named(x) = {t \in 1..TaskCount : TaskOf(t).name = x}
  BY NamedAre
<1>2. \A x : Named(x)' = {t \in 1..TaskCount' : TaskOf(t)'.name = x}
  <2>1. DOMAIN allTasks' = 1..TaskCount' /\ \A t \in 1..TaskCount' : allTasks'[t].name = TaskOf(t)'.name
    BY DEF ReadInv, TasksMade
  <2> QED
    BY <2>1 DEF Named
<1>3. \A t : TaskOf(t)' = TaskOf(t)
  BY SameTree
<1>4. TaskCount \in Nat /\ TaskCount' \in Nat
  <2>1. TaskCount \in 0..Len(tree.tasks) /\ Len(tree.tasks) \in Nat
    BY Counts, TreeFacts DEF ReadInv, Progress
  <2>2. Len(allTasks') = TaskCount' /\ allTasks' \in Seq(TaskRecords')
    BY DEF ReadInv, TasksMade
  <2> QED
    BY <2>1, <2>2
<1>5. TaskCount' = TaskCount => \A x : Named(x)' = Named(x)
  BY <1>1, <1>2, <1>3
<1>6. ASSUME TaskCount <= TaskCount', NEW x, Named(x) # {}
      PROVE  Named(x)' # {}
  <2>1. PICK t \in 1..TaskCount : TaskOf(t).name = x
    BY <1>1, <1>6
  <2>2. t \in 1..TaskCount'
    BY <1>4, <1>6
  <2> QED
    BY <1>2, <1>3, <2>1, <2>2
<1> QED
  BY <1>4, <1>5, <1>6

\* One more task.
LEMMA TaskReported ==
    ASSUME ReadInv, ReadInv', ErrorsKept, CreateTaskDescription
    PROVE  ErrorsKept'
<1>1. Progress /\ tree \in Trees /\ next \in Nat /\ next >= 1
  BY DEF ReadInv, Progress
<1>2. /\ tree' = tree /\ phase' = "tasks" /\ phase = "tasks" /\ next' = next + 1 /\ next <= Len(tree.tasks)
  BY DEF CreateTaskDescription
<1>3. errors' = errors \o TaskReports(next)
  BY Zenon DEF CreateTaskDescription, TaskReports, TaskOf
<1>4. PICK n \in 1..Len(tree.tasks) : n = next
  BY <1>1, <1>2, TreeFacts
<1>5. /\ TaskCount = n - 1 /\ TaskCount' = n /\ DependencyCount' = 0 /\ RunLevelCount' = 0 /\ n \in Nat
  BY <1>1, <1>2, <1>4 DEF TaskCount, DependencyCount, RunLevelCount
<1>6. PICK s : s = TaskReports(n)
  OBVIOUS
<1>7. s \in Seq(Reports) /\ \A e \in ToSet(s) : e[1] = "cmd_line" => LineReport(n)
  <2>1. PICK i \in Nat : i = TaskOrder[n]
    BY <1>1, TaskReportFacts
  <2>2. s \in Seq(Messages \X {i}) /\ \A e \in ToSet(s) : e[1] = "cmd_line" => LineReport(n)
    BY <1>1, <1>6, <2>1, TaskReportFacts
  <2>3. s \in Seq(Reports)
    BY <2>1, <2>2, ReportTypes
  <2> QED
    BY <2>2, <2>3
<1>8. errors \in Seq(Reports)
  BY DEF ErrorsKept
<1>9. errors' \in Seq(Reports) /\ ToSet(errors') = ToSet(errors) \cup ToSet(s)
  BY <1>3, <1>4, <1>6, <1>7, <1>8, Pushed
<1>10. \A x : Named(x) # {} => Named(x)' # {}
  BY <1>2, <1>5, NamesStay
<1>11. \A t \in 1..TaskCount' : t \in 1..TaskCount \/ ToSet(TaskReports(t)) \subseteq ToSet(errors')
  <2>1. \A t \in 1..n : t \in 1..n - 1 \/ t = n
    BY <1>5
  <2>2. ToSet(TaskReports(n)) \subseteq ToSet(errors')
    BY <1>6, <1>9
  <2> QED
    BY <1>5, <2>1, <2>2
<1>12. \A e \in ToSet(errors') : e \in ToSet(errors) \/ e[1] # "cmd_line" \/ \E t \in 1..TaskCount' : LineReport(t)
  BY <1>5, <1>7, <1>9
<1>13. \A k \in 1..0 : FALSE
  OBVIOUS
<1>14. TaskCount \in Nat /\ TaskCount' \in Nat /\ TaskCount <= TaskCount'
  BY <1>5
<1> QED
  BY <1>2, <1>5, <1>9, <1>10, <1>11, <1>12, <1>13, <1>14, KeptOn

\* The ends of the loops.
LEMMA LoopEndReported ==
    ASSUME ReadInv, ReadInv', ErrorsKept, TasksRead \/ DependenciesRead \/ RunLevelsRead
    PROVE  ErrorsKept'
<1>1. Progress /\ tree \in Trees /\ next \in Nat /\ next >= 1
  BY DEF ReadInv, Progress
<1> DEFINE a == Len(tree.tasks)
           b == Len(tree.dependencies)
           c == Len(tree.runLevels)
<1>2. a \in Nat /\ b \in Nat /\ c \in Nat
  BY <1>1, TreeFacts
<1>3. /\ tree' = tree
      /\ \/ phase = "tasks" /\ phase' = "dependencies" /\ next' = 1 /\ next > a
         \/ phase = "dependencies" /\ phase' \in {"crashed", "run_levels"} /\ next' = 1 /\ next > b
         \/ phase = "run_levels" /\ phase' = "returned" /\ next' = next /\ next > c
  BY DEF TasksRead, DependenciesRead, RunLevelsRead
<1>4. /\ phase = "tasks" => next <= a + 1
      /\ phase = "dependencies" => next <= b + 1
      /\ phase = "run_levels" => next <= c + 1
  BY DEF ReadInv, Progress
<1> HIDE DEF a, b, c
<1>5. TaskCount' = TaskCount
  BY <1>1, <1>2, <1>3, <1>4 DEF TaskCount, a
<1>6. DependencyCount' = DependencyCount
  BY <1>1, <1>2, <1>3, <1>4 DEF DependencyCount, b
<1>7. RunLevelCount' = RunLevelCount
  BY <1>1, <1>2, <1>3, <1>4 DEF RunLevelCount, c
<1>8. TaskCount \in Nat /\ TaskCount' \in Nat /\ \A x : Named(x) # {} => Named(x)' # {}
  BY <1>3, <1>5, NamesStay
<1>9. errors \in Seq(Reports)
  BY DEF ErrorsKept
<1>10. PICK s : s = DuplicateErrors(tree.runLevels, RunLevelOrder, "duplicate_run_level")
  OBVIOUS
<1>11. s \in Seq({"duplicate_run_level"} \X Nat)
  <2>1. Len(tree.runLevels) \in Nat /\ \A i \in 1..Len(tree.runLevels) : tree.runLevels[i].name \in Nat
    BY <1>1, TreeFacts, NodeFacts
  <2>2. Walks(RunLevelOrder, [i \in 1..Len(tree.runLevels) |-> tree.runLevels[i].name])
    BY <1>1, OrderFacts
  <2> QED
    BY <1>10, <2>1, <2>2, DuplicateErrorsFacts
<1>12. s \in Seq(Reports) /\ \A e \in ToSet(s) : e[1] # "cmd_line"
  <2>1. 0 \in Nat
    OBVIOUS
  <2> QED
    BY <1>11, <2>1, ReportTypes
<1>13. \/ errors' = errors \o s
       \/ errors' = errors /\ (phase' \in {"run_levels", "returned"} => phase \in {"run_levels", "returned"})
  BY <1>10 DEF TasksRead, DependenciesRead, RunLevelsRead
<1>14. /\ errors' \in Seq(Reports) /\ ToSet(errors) \subseteq ToSet(errors')
       /\ \A e \in ToSet(errors') : e \in ToSet(errors) \/ e[1] # "cmd_line"
       /\ \/ phase' \in {"run_levels", "returned"} => phase \in {"run_levels", "returned"}
          \/ ToSet(s) \subseteq ToSet(errors')
  <2>1. CASE errors' = errors \o s
    <3>1. errors' \in Seq(Reports) /\ ToSet(errors') = ToSet(errors) \cup ToSet(s)
      BY <1>9, <1>12, <2>1, Pushed
    <3> QED
      BY <1>12, <3>1
  <2>2. CASE errors' = errors /\ (phase' \in {"run_levels", "returned"} => phase \in {"run_levels", "returned"})
    BY <1>9, <2>2
  <2> QED
    BY <1>13, <2>1, <2>2
<1>15. TaskCount <= TaskCount'
  BY <1>5, <1>8
<1> QED
  BY <1>3, <1>5, <1>6, <1>7, <1>8, <1>10, <1>14, <1>15, KeptOn

\* One more declaration of dependencies.
LEMMA DeclarationReported ==
    ASSUME ReadInv, ReadInv', ErrorsKept, ReadDependencies
    PROVE  ErrorsKept'
<1>1. Progress /\ tree \in Trees /\ next \in Nat /\ next >= 1 /\ allTasks \in Seq(TaskRecords)
  BY DEF ReadInv, Progress, TasksMade
<1>2. /\ tree' = tree /\ phase' = "dependencies" /\ phase = "dependencies"
      /\ next' = next + 1 /\ next <= Len(tree.dependencies)
  BY DEF ReadDependencies
<1>3. PICK n \in 1..Len(tree.dependencies) : n = next
  BY <1>1, <1>2, TreeFacts
<1>4. /\ TaskCount' = TaskCount /\ DependencyCount = n - 1 /\ DependencyCount' = n
      /\ RunLevelCount' = RunLevelCount /\ n \in Nat
  BY <1>1, <1>2, <1>3 DEF TaskCount, DependencyCount, RunLevelCount
<1>5. /\ TaskCount \in Nat /\ TaskCount' \in Nat /\ TaskCount <= TaskCount'
      /\ \A x : Named(x)' = Named(x)
  BY <1>2, <1>4, NamesStay
<1>6. PICK d : d = tree.dependencies[n]
  OBVIOUS
<1>7. d.name \in Nat /\ d.names \in Seq(Nat)
  BY <1>1, <1>6, NodeFacts
<1>8. PICK place : place = <<"dependency", n>>
  OBVIOUS
<1>9. PICK missing : missing = <<"undeclared", place, 0>>
  OBVIOUS
<1>10. PICK s : s = IF Named(d.name) = {} THEN <<missing>> ELSE Resolve(d.names, place).errors
  OBVIOUS
<1>11. errors' = errors \o s
  <2>1. CASE Named(d.name) = {}
    <3>1. errors' = Append(errors, missing)
      BY <1>3, <1>6, <1>8, <1>9, <2>1, Zenon DEF ReadDependencies
    <3>2. errors \in Seq(Reports) /\ s = <<missing>>
      BY <1>10, <2>1 DEF ErrorsKept
    <3> QED
      BY <3>1, <3>2
  <2>2. CASE Named(d.name) # {}
    BY <1>3, <1>6, <1>8, <1>10, <2>2, Zenon DEF ReadDependencies
  <2> QED
    BY <2>1, <2>2
<1> DEFINE E == {"undeclared"} \X {place} \X Nat
<1>12. missing \in E
  BY <1>9
<1>13. s \in Seq(E)
  <2>1. Resolve(d.names, place).errors \in Seq(E)
    BY <1>1, <1>7, ResolveFacts
  <2> HIDE DEF E
  <2> QED
    BY <1>10, <1>12, <2>1
<1>14. s \in Seq(Reports) /\ \A e \in ToSet(s) : e[1] # "cmd_line"
  BY <1>4, <1>8, <1>13, ReportTypes
<1>15. errors' \in Seq(Reports) /\ ToSet(errors') = ToSet(errors) \cup ToSet(s)
  <2>1. errors \in Seq(Reports)
    BY DEF ErrorsKept
  <2> QED
    BY <1>11, <1>14, <2>1, Pushed
<1> HIDE DEF E
<1>16. s = <<>> => Named(d.name) # {} /\ AllKnown(d.names)
  <2> SUFFICES ASSUME s = <<>> PROVE Named(d.name) # {} /\ AllKnown(d.names)
    OBVIOUS
  <2>1. Named(d.name) # {} /\ Resolve(d.names, place).errors = <<>>
    BY <1>10
  <2>2. ToSet(<<>>) = {}
    BY DEF ToSet
  <2>3. \A k \in DOMAIN d.names : Named(d.names[k]) = {} => <<"undeclared", place, k>> \in ToSet(<<>>)
    BY <1>1, <1>7, <2>1, ResolveFacts
  <2> QED
    BY <2>1, <2>2, <2>3 DEF AllKnown
<1>17. DependenciesJudged(n)'
  <2>1. \A e \in ToSet(s) : e \in E
    BY <1>13, Extended
  <2>2. \A e \in ToSet(s) : e[1] = "undeclared" /\ e[2] = <<"dependency", n>>
    BY <1>8, <2>1 DEF E
  <2>3. ToSet(s) \subseteq AboutDependencies(n)'
    BY <1>15, <2>2 DEF AboutDependencies
  <2>4. s # <<>> => ToSet(s) # {}
    BY <1>14, Extended
  <2>5. AboutDependencies(n)' = {} => s = <<>>
    BY <2>3, <2>4
  <2>6. AllKnown(d.names) => AllKnown(d.names)'
    BY <1>5 DEF AllKnown
  <2>7. tree'.dependencies[n] = d
    BY <1>2, <1>6
  <2>8. AllKnown(tree.dependencies[n].names)' <=> AllKnown(d.names)'
    BY <2>7 DEF AllKnown
  <2>9. Named(tree.dependencies[n].name)' = Named(d.name)'
    BY <2>7 DEF Named
  <2> QED
    BY <1>5, <1>16, <2>5, <2>6, <2>8, <2>9 DEF DependenciesJudged
<1>18. \A k \in 1..DependencyCount' : k \in 1..DependencyCount \/ DependenciesJudged(k)'
  <2>1. \A k \in 1..n : k \in 1..n - 1 \/ k = n
    BY <1>4
  <2> QED
    BY <1>4, <1>17, <2>1
<1>19. /\ ToSet(errors) \subseteq ToSet(errors')
       /\ \A e \in ToSet(errors') : e \in ToSet(errors) \/ e[1] # "cmd_line"
  BY <1>14, <1>15
<1>20. \A x : Named(x) # {} => Named(x)' # {}
  BY <1>5
<1> QED
  BY <1>2, <1>4, <1>5, <1>15, <1>18, <1>19, <1>20, KeptOn

\* One more run level.
LEMMA RunLevelReported ==
    ASSUME ReadInv, ReadInv', ErrorsKept, CreateRunLevel
    PROVE  ErrorsKept'
<1>1. Progress /\ tree \in Trees /\ next \in Nat /\ next >= 1 /\ allTasks \in Seq(TaskRecords)
  BY DEF ReadInv, Progress, TasksMade
<1>2. /\ tree' = tree /\ phase' = "run_levels" /\ phase = "run_levels"
      /\ next' = next + 1 /\ next <= Len(tree.runLevels)
  BY DEF CreateRunLevel
<1>3. PICK n \in 1..Len(tree.runLevels) : n = next
  BY <1>1, <1>2, TreeFacts
<1>4. /\ TaskCount' = TaskCount /\ DependencyCount' = DependencyCount
      /\ RunLevelCount = n - 1 /\ RunLevelCount' = n /\ n \in Nat
  BY <1>1, <1>2, <1>3 DEF TaskCount, DependencyCount, RunLevelCount
<1>5. /\ TaskCount \in Nat /\ TaskCount' \in Nat /\ TaskCount <= TaskCount'
      /\ \A x : Named(x)' = Named(x)
  BY <1>2, <1>4, NamesStay
<1>6. PICK i \in 1..Len(tree.runLevels) : i = RunLevelOrder[n]
  BY <1>1, OrderFacts
<1>7. PICK names : names = RunLevelAt(n).names
  OBVIOUS
<1>8. names \in Seq(Nat) /\ i \in Nat
  BY <1>1, <1>6, <1>7, NodeFacts DEF RunLevelAt
<1>9. PICK place : place = <<"run_level", i>>
  OBVIOUS
<1>10. PICK s : s = Resolve(names, place).errors
  OBVIOUS
<1>11. errors' = errors \o s
  BY <1>3, <1>6, <1>7, <1>9, <1>10, Zenon DEF CreateRunLevel, RunLevelAt
<1> DEFINE E == {"undeclared"} \X {place} \X Nat
<1>12. s \in Seq(E) /\ \A k \in DOMAIN names : Named(names[k]) = {} => <<"undeclared", place, k>> \in ToSet(s)
  BY <1>1, <1>8, <1>10, ResolveFacts
<1>13. s \in Seq(Reports) /\ \A e \in ToSet(s) : e[1] # "cmd_line"
  BY <1>8, <1>9, <1>12, ReportTypes
<1>14. errors' \in Seq(Reports) /\ ToSet(errors') = ToSet(errors) \cup ToSet(s)
  <2>1. errors \in Seq(Reports)
    BY DEF ErrorsKept
  <2> QED
    BY <1>11, <1>13, <2>1, Pushed
<1> HIDE DEF E
<1>15. RunLevelJudged(n)'
  <2>1. RunLevelOrder'[n] = i /\ RunLevelAt(n)'.names = names
    BY <1>2, <1>6, <1>7, SameTree
  <2>2. \A e \in ToSet(s) : e \in E
    BY <1>12, Extended
  <2>3. \A e \in ToSet(s) : e[1] = "undeclared" /\ e[2] = <<"run_level", i>>
    BY <1>9, <2>2 DEF E
  <2>4. ToSet(s) \subseteq AboutRunLevel(RunLevelOrder[n])'
    BY <1>14, <2>1, <2>3 DEF AboutRunLevel
  <2>5. AboutRunLevel(RunLevelOrder[n])' = {} => AllKnown(names)
    BY <1>12, <2>4 DEF AllKnown
  <2>6. AllKnown(names) => AllKnown(names)'
    BY <1>5 DEF AllKnown
  <2>7. AllKnown(RunLevelAt(n).names)' <=> AllKnown(names)'
    BY <2>1 DEF AllKnown
  <2> QED
    BY <2>5, <2>6, <2>7 DEF RunLevelJudged
<1>16. \A k \in 1..RunLevelCount' : k \in 1..RunLevelCount \/ RunLevelJudged(k)'
  <2>1. \A k \in 1..n : k \in 1..n - 1 \/ k = n
    BY <1>4
  <2> QED
    BY <1>4, <1>15, <2>1
<1>17. /\ ToSet(errors) \subseteq ToSet(errors')
       /\ \A e \in ToSet(errors') : e \in ToSet(errors) \/ e[1] # "cmd_line"
  BY <1>13, <1>14
<1>18. \A x : Named(x) # {} => Named(x)' # {}
  BY <1>5
<1> QED
  BY <1>2, <1>4, <1>5, <1>14, <1>16, <1>17, <1>18, KeptOn

\* Every complaint there was a reason for is in error_tag_sink and stays there.
THEOREM ErrorsInvariant == Spec => []ErrorsKept
<1>1. Init => ErrorsKept
  BY ErrorsInit
<1>2. ReadInv /\ ReadInv' /\ ErrorsKept /\ [Next]_vars => ErrorsKept'
  <2> SUFFICES ASSUME ReadInv, ReadInv', ErrorsKept, [Next]_vars PROVE ErrorsKept'
    OBVIOUS
  <2>1. CASE CreateTaskDescription
    BY <2>1, TaskReported
  <2>2. CASE TasksRead \/ DependenciesRead \/ RunLevelsRead
    BY <2>2, LoopEndReported
  <2>3. CASE ReadDependencies
    BY <2>3, DeclarationReported
  <2>4. CASE CreateRunLevel
    BY <2>4, RunLevelReported
  <2>5. CASE UNCHANGED vars
    <3>1. UNCHANGED <<tree, allTasks, runLevels>> /\ UNCHANGED <<errors, phase, next>>
      BY <2>5 DEF vars
    <3>2. TaskCount' = TaskCount /\ DependencyCount' = DependencyCount /\ RunLevelCount' = RunLevelCount
      BY <3>1 DEF TaskCount, DependencyCount, RunLevelCount
    <3>3. errors' \in Seq(Reports)
      BY <3>1 DEF ErrorsKept
    <3>4. TaskCount \in Nat /\ TaskCount' \in Nat /\ TaskCount <= TaskCount' /\ \A x : Named(x)' = Named(x)
      BY <3>1, <3>2, NamesStay
    <3> QED
      BY <3>1, <3>2, <3>3, <3>4, KeptOn
  <2> QED
    BY <2>1, <2>2, <2>3, <2>4, <2>5 DEF Next
<1> QED
  BY <1>1, <1>2, ReadInvariant, PTL DEF Spec

\* Every task of the file is read at some place, and when nothing is reported for it, it is
\* what it says.
LEMMA ReadAsWritten ==
    ASSUME ReadInv, ErrorsKept, phase = "returned", NEW i \in DOMAIN tree.tasks
    PROVE  \E t \in 1..Len(tree.tasks) :
              /\ TaskOrder[t] = i /\ TaskOf(t) = tree.tasks[i] /\ TaskCount = Len(tree.tasks)
              /\ \A x \in ToSet(ReadTask(tree.tasks[i].value).errors) : x \in Messages /\ <<x, i>> \in ToSet(errors)
              /\ tree.errors = <<>> /\ ToSet(ReadTask(tree.tasks[i].value).errors) = {} =>
                   /\ Means(DataRead(tree.tasks[i].value), tree.tasks[i].value)
                   /\ \A line \in CommandLines(tree.tasks[i].value) : Splittable(line)
<1>1. tree \in Trees
  BY DEF ReadInv, Progress
<1>2. i \in 1..Len(tree.tasks) /\ Len(tree.tasks) \in Nat
  BY <1>1, TreeFacts
<1>3. PICK t \in 1..Len(tree.tasks) : TaskOrder[t] = i
  <2> DEFINE ranks == [k \in 1..Len(tree.tasks) |-> tree.tasks[k].name]
  <2>1. Walks(TaskOrder, ranks)
    BY <1>1, OrderFacts
  <2>2. \A k \in 1..Len(tree.tasks) : tree.tasks[k].name \in Nat
    BY <1>1, NodeFacts
  <2>3. Len(ranks) = Len(tree.tasks)
    <3>1. ranks \in [1..Len(tree.tasks) -> Nat]
      BY <2>2
    <3> HIDE DEF ranks
    <3> QED
      BY <1>2, <3>1
  <2> HIDE DEF ranks
  <2> QED
    BY <1>2, <2>1, <2>3 DEF Walks
<1>4. TaskOf(t) = tree.tasks[i] /\ TaskCount = Len(tree.tasks)
  BY <1>3 DEF TaskOf, TaskCount
<1>5. PICK node : node = tree.tasks[i].value
  OBVIOUS
<1>6. node \in ValueNode
  BY <1>1, <1>2, <1>5, NodeFacts
<1>7. PICK read : read = ReadTask(node).errors
  OBVIOUS
<1>8. read \in Seq(Messages)
  BY <1>6, <1>7, TaskFacts
<1>9. \A x \in ToSet(read) : x \in Messages /\ <<x, i>> \in ToSet(errors)
  <2>1. ToSet(read) \subseteq Messages
    BY <1>8, Extended
  <2>2. \A x \in ToSet(ReadTask(TaskOf(t).value).errors) : <<x, TaskOrder[t]>> \in ToSet(TaskReports(t))
    BY <1>1, TaskReportFacts
  <2>3. ToSet(TaskReports(t)) \subseteq ToSet(errors)
    BY <1>4 DEF ErrorsKept, TaskReportsKept
  <2> QED
    BY <1>3, <1>4, <1>5, <1>7, <2>1, <2>2, <2>3
<1>10. ASSUME tree.errors = <<>>, ToSet(read) = {}
       PROVE  Means(DataRead(node), node) /\ \A line \in CommandLines(node) : Splittable(line)
  <2>1. read = <<>>
    BY <1>8, <1>10, EmptySequence
  <2>2. \A task \in ToSet(tree.tasks) : Complete(task.value)
    BY <1>1, <1>10, TreesAssumption, Zenon
  <2>3. tree.tasks[i] \in ToSet(tree.tasks)
    BY DEF ToSet
  <2>4. Complete(node)
    BY <1>5, <2>2, <2>3
  <2>5. /\ Complete(node) /\ ReadTask(node).errors = <<>> =>
             /\ Means(DataRead(node), node)
             /\ \A line \in CommandLines(node) : Splittable(line)
    BY <1>6, TaskFacts
  <2> QED
    BY <1>7, <2>1, <2>4, <2>5
<1> QED
  BY <1>3, <1>4, <1>5, <1>7, <1>9, <1>10

\* A task that nothing is reported for is the one its name leads to, with the data that
\* were written down.
LEMMA TasksFaithful ==
    ASSUME ReadInv, ErrorsKept, phase = "returned", tree.errors = <<>>,
           NEW i \in DOMAIN tree.tasks, AboutTask(i) = {}
    PROVE  Means(allTasks[Min(Named(tree.tasks[i].name))].data, tree.tasks[i].value)
<1>1. tree \in Trees /\ allTasks \in Seq(TaskRecords)
  BY DEF ReadInv, Progress, TasksMade
<1>2. PICK node : node = tree.tasks[i]
  OBVIOUS
<1>3. PICK t \in 1..Len(tree.tasks) :
              /\ TaskOrder[t] = i /\ TaskOf(t) = node /\ TaskCount = Len(tree.tasks)
              /\ \A x \in ToSet(ReadTask(node.value).errors) : x \in Messages /\ <<x, i>> \in ToSet(errors)
              /\ tree.errors = <<>> /\ ToSet(ReadTask(node.value).errors) = {} => Means(DataRead(node.value), node.value)
  BY <1>2, ReadAsWritten
<1>4. \A x : x \in Messages \/ x = "duplicate_task" => <<x, i>> \notin ToSet(errors)
  <2>1. \A x : x \in Messages \/ x = "duplicate_task" => x \notin {"undeclared", "duplicate_run_level"}
    BY DEF Messages
  <2>2. \A x : <<x, i>>[1] = x /\ <<x, i>>[2] = i
    OBVIOUS
  <2> QED
    BY <2>1, <2>2 DEF AboutTask
<1>5. Means(DataRead(node.value), node.value)
  BY <1>3, <1>4
<1>6. t \in Named(node.name)
  BY <1>3, NamedAre
<1>7. PICK m : m = Min(Named(node.name))
  OBVIOUS
<1>8. m \in Named(node.name) /\ m <= t
  <2>1. m \in DOMAIN allTasks /\ allTasks[m].name = node.name /\ \A u \in Named(node.name) : m <= u
    BY <1>1, <1>6, <1>7, NamedFacts
  <2> QED
    BY <1>6, <2>1 DEF Named
<1>9. m \in 1..Len(tree.tasks) /\ TaskOf(m).name = node.name
  BY <1>3, <1>8, NamedAre
<1>10. m = t
  <2> SUFFICES ASSUME m # t PROVE FALSE
    OBVIOUS
  <2>1. m < t
    BY <1>8, <1>9
  <2>2. tree.tasks[TaskOrder[m]].name = tree.tasks[TaskOrder[t]].name
    BY <1>3, <1>9 DEF TaskOf
  <2>3. Len(tree.tasks) \in Nat /\ \A k \in 1..Len(tree.tasks) : tree.tasks[k].name \in Nat
    BY <1>1, TreeFacts, NodeFacts
  <2>4. Walks(TaskOrder, [k \in 1..Len(tree.tasks) |-> tree.tasks[k].name])
    BY <1>1, OrderFacts
  <2>5. <<"duplicate_task", TaskOrder[t]>> \in ToSet(DuplicateErrors(tree.tasks, TaskOrder, "duplicate_task"))
    BY <1>9, <2>1, <2>2, <2>3, <2>4, DuplicateErrorsFacts
  <2>6. ToSet(DuplicateErrors(tree.tasks, TaskOrder, "duplicate_task")) \subseteq ToSet(errors)
    BY DEF ErrorsKept, DuplicatesKept
  <2> QED
    BY <1>3, <1>4, <2>5, <2>6
<1>11. allTasks[m].data = DataRead(node.value)
  BY <1>3, <1>10 DEF ReadInv, TasksMade
<1> QED
  BY <1>2, <1>5, <1>7, <1>11

\* A run level that nothing is reported for has the requisites that were written down.
LEMMA RunLevelsFaithful ==
    ASSUME ReadInv, ErrorsKept, phase = "returned", NEW i \in DOMAIN tree.runLevels, AboutRunLevel(i) = {}
    PROVE  NamesOf(runLevels[tree.runLevels[i].name]) = tree.runLevels[i].names
<1>1. tree \in Trees
  BY DEF ReadInv, Progress
<1> DEFINE c == Len(tree.runLevels)
           ranks == [k \in 1..c |-> tree.runLevels[k].name]
<1>2. i \in 1..c /\ c \in Nat /\ \A k \in 1..c : tree.runLevels[k].name \in Nat /\ tree.runLevels[k].names \in Seq(Nat)
  BY <1>1, TreeFacts, NodeFacts
<1>3. Walks(RunLevelOrder, ranks)
  BY <1>1, OrderFacts
<1>4. PICK t \in 1..c : RunLevelOrder[t] = i
  <2>1. Len(ranks) = c
    <3>1. ranks \in [1..c -> Nat]
      BY <1>2
    <3> HIDE DEF ranks
    <3> QED
      BY <1>2, <3>1
  <2> HIDE DEF ranks
  <2> QED
    BY <1>2, <1>3, <2>1 DEF Walks
<1>5. PICK node : node = tree.runLevels[i]
  OBVIOUS
<1>6. RunLevelAt(t) = node /\ RunLevelCount = c
  BY <1>4, <1>5 DEF RunLevelAt, RunLevelCount
<1>7. PICK r : r = node.name
  OBVIOUS
<1>8. r \in DOMAIN runLevels
  BY <1>6, <1>7 DEF ReadInv, RunLevelsMade
<1>9. PICK k \in 1..c : /\ RunLevelAt(k).name = r /\ \A j \in 1..k - 1 : RunLevelAt(j).name # r
                        /\ NamesOf(runLevels[r]) = Known(RunLevelAt(k).names)
  BY <1>6, <1>8 DEF ReadInv, RunLevelsMade
<1>10. k = t
  <2> SUFFICES ASSUME k # t PROVE FALSE
    OBVIOUS
  <2>1. k < t
    BY <1>2, <1>4, <1>6, <1>7, <1>9
  <2>2. tree.runLevels[RunLevelOrder[k]].name = tree.runLevels[RunLevelOrder[t]].name
    BY <1>6, <1>7, <1>9 DEF RunLevelAt
  <2>3. <<"duplicate_run_level", RunLevelOrder[t]>>
           \in ToSet(DuplicateErrors(tree.runLevels, RunLevelOrder, "duplicate_run_level"))
    BY <1>2, <1>3, <2>1, <2>2, DuplicateErrorsFacts
  <2>4. ToSet(DuplicateErrors(tree.runLevels, RunLevelOrder, "duplicate_run_level")) \subseteq ToSet(errors)
    BY DEF ErrorsKept, DuplicatesKept
  <2> QED
    BY <1>4, <2>3, <2>4 DEF AboutRunLevel
<1>11. AllKnown(node.names)
  <2>1. RunLevelJudged(t)
    BY <1>6 DEF ErrorsKept, NamesJudged
  <2> QED
    BY <1>4, <1>6, <2>1 DEF RunLevelJudged
<1>12. Known(node.names) = node.names
  <2>1. node.names \in Seq(Nat)
    BY <1>2, <1>5
  <2> QED
    BY <1>11, <2>1, KnownFacts DEF AllKnown
<1> QED
  BY <1>5, <1>6, <1>7, <1>9, <1>10, <1>12

\* For every tree that satisfies the assumption, what no reader complains about means what
\* it says.
THEOREM ReadingFaithful == Spec => []UnreportedIsFaithful
<1>1. ReadInv /\ ErrorsKept => UnreportedIsFaithful
  <2> SUFFICES ASSUME ReadInv, ErrorsKept, phase = "returned", tree.errors = <<>>
               PROVE  UnreportedIsFaithful
    BY DEF UnreportedIsFaithful
  <2>1. \A i \in DOMAIN tree.tasks : AboutTask(i) = {} =>
          Means(allTasks[Min(Named(tree.tasks[i].name))].data, tree.tasks[i].value)
    BY TasksFaithful
  <2>2. \A i \in DOMAIN tree.runLevels : AboutRunLevel(i) = {} =>
          NamesOf(runLevels[tree.runLevels[i].name]) = tree.runLevels[i].names
    BY RunLevelsFaithful
  <2>3. tree \in Trees /\ DOMAIN tree.dependencies = 1..Len(tree.dependencies)
        /\ DependencyCount = Len(tree.dependencies)
    BY TreeFacts DEF ReadInv, Progress, DependencyCount
  <2>4. \A x : Named(x) # {} => x \in {task.name : task \in ToSet(allTasks)}
    BY DEF Named, ToSet
  <2>5. ASSUME NEW k \in DOMAIN tree.dependencies, AboutDependencies(k) = {}
        PROVE  ToSet(tree.dependencies[k].names) \cup {tree.dependencies[k].name}
                 \subseteq {task.name : task \in ToSet(allTasks)}
    <3>1. DependenciesJudged(k)
      BY <2>3 DEF ErrorsKept, NamesJudged
    <3>2. Named(tree.dependencies[k].name) # {} /\ AllKnown(tree.dependencies[k].names)
      BY <2>5, <3>1 DEF DependenciesJudged
    <3>3. \A x \in ToSet(tree.dependencies[k].names) : Named(x) # {}
      BY <3>2 DEF AllKnown, ToSet
    <3> QED
      BY <2>4, <3>2, <3>3
  <2>6. ASSUME NEW t \in DOMAIN allTasks, t = Min(Named(allTasks[t].name))
        PROVE  NamesOf(allTasks[t].dependencies) = Known(DeclaredDependencies(allTasks[t].name))
    <3>1. PICK name : name = allTasks[t].name
      OBVIOUS
    <3>2. Named(name) # {} /\ name \in Nat
      <4>1. t \in Named(name)
        BY <3>1 DEF Named
      <4>2. allTasks \in Seq(TaskRecords) /\ Len(allTasks) = TaskCount
        BY DEF ReadInv, TasksMade
      <4>3. allTasks[t] \in TaskRecords
        <5> HIDE DEF TaskRecords
        <5> QED
          BY <4>2
      <4> QED
        BY <3>1, <4>1, <4>3 DEF TaskRecords
    <3>3. NamesOf(allTasks[t].dependencies) = Known(DeclaredIn(name, Len(tree.dependencies)))
      BY <2>3, <2>6, <3>1, <3>2 DEF ReadInv, DependenciesMade
    <3>4. DeclaredDependencies(name) = DeclaredIn(name, Len(tree.dependencies))
      BY <2>3 DEF DeclaredDependencies, DeclaredIn
    <3> QED
      BY <3>1, <3>3, <3>4
  <2> QED
    BY <2>1, <2>2, <2>5, <2>6, Zenon DEF UnreportedIsFaithful
<1> QED
  BY <1>1, ReadInvariant, ErrorsInvariant, PTL

\* For every tree that satisfies the assumption, a command line is reported exactly when it
\* cannot be split.
THEOREM CommandLinesRight == Spec => []CommandLinesJudged
<1>1. ReadInv /\ ErrorsKept => CommandLinesJudged
  <2> SUFFICES ASSUME ReadInv, ErrorsKept, phase = "returned", \A e \in ToSet(errors) : e[1] = "cmd_line"
               PROVE  errors # <<>> <=> \E t \in ToSet(tree.tasks) : \E line \in CommandLines(t.value) : ~Splittable(line)
    BY DEF CommandLinesJudged
  <2>1. tree \in Trees /\ errors \in Seq(Reports)
    BY DEF ReadInv, Progress, ErrorsKept
  <2>2. ASSUME errors # <<>>
        PROVE  \E t \in ToSet(tree.tasks) : \E line \in CommandLines(t.value) : ~Splittable(line)
    <3>1. ToSet(errors) # {}
      BY <2>1, <2>2, EmptySequence
    <3>2. PICK t \in 1..TaskCount : LineReport(t)
      BY <3>1 DEF ErrorsKept, LinesReported
    <3>3. TaskCount = Len(tree.tasks) /\ DOMAIN tree.tasks = 1..Len(tree.tasks)
      BY <2>1, TreeFacts DEF TaskCount
    <3>4. PICK i \in 1..Len(tree.tasks) : i = TaskOrder[t]
      BY <2>1, <3>3, OrderFacts
    <3>5. PICK task : task = tree.tasks[i]
      OBVIOUS
    <3>6. task.value \in ValueNode /\ task \in ToSet(tree.tasks)
      BY <2>1, <3>3, <3>5, NodeFacts DEF ToSet
    <3>7. "cmd_line" \in ToSet(ReadTask(task.value).errors)
      BY <3>2, <3>4, <3>5 DEF LineReport, TaskOf
    <3>8. PICK node \in ValueNode : node = task.value
      BY <3>6
    <3>9. \E line \in CommandLines(node) : ~Splittable(line)
      BY <3>7, <3>8, TaskFacts
    <3> QED
      BY <3>6, <3>8, <3>9
  <2>3. ASSUME errors = <<>>, NEW t \in ToSet(tree.tasks), NEW line \in CommandLines(t.value)
        PROVE  Splittable(line)
    <3>1. ToSet(errors) = {}
      BY <2>3 DEF ToSet
    <3>2. tree.errors = <<>>
      <4>1. tree.errors \in Seq({"expected"} \X Nat) /\ ToSet(tree.errors) = {}
        BY <2>1, <3>1, TreeFacts DEF ErrorsKept
      <4> QED
        BY <4>1, EmptySequence
    <3>3. PICK i \in DOMAIN tree.tasks : t = tree.tasks[i]
      BY DEF ToSet
    <3>4. /\ \A x \in ToSet(ReadTask(tree.tasks[i].value).errors) : <<x, i>> \in ToSet(errors)
          /\ tree.errors = <<>> /\ ToSet(ReadTask(tree.tasks[i].value).errors) = {} =>
                \A l \in CommandLines(tree.tasks[i].value) : Splittable(l)
      BY ReadAsWritten
    <3> QED
      BY <2>3, <3>1, <3>2, <3>3, <3>4
  <2> QED
    BY <2>2, <2>3
<1> QED
  BY <1>1, ReadInvariant, ErrorsInvariant, PTL
=============================================================================
