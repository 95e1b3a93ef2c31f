---------------------------- MODULE SequenceLemmas ----------------------------
(* Facts about numbers, finite sets and sequences that the proofs share. *)
EXTENDS Arrangement, Sequences, SequencesExt, FiniteSetTheorems, SequenceTheorems,
        FunctionTheorems, WellFoundedInduction, TLAPS

-----------------------------------------------------------------------------
(* Induction over the natural numbers, with a set in the place of a predicate *)

\* A set of natural numbers has a least element.
LEMMA LeastNumber ==
    ASSUME NEW T, T \subseteq Nat, T # {}
    PROVE  \E x \in T : \A y \in T : x <= y
<1> DEFINE R == OpToRel(<, Nat)
<1>1. PICK x \in T : \A y \in T : ~(<<y, x>> \in R)
  <2>1. IsWellFoundedOn(R, Nat)
    BY NatLessThanWellFounded
  <2> HIDE DEF R
  <2> QED
    BY <2>1, WFMin
<1>2. \A y \in T : ~(y < x)
  BY <1>1 DEF OpToRel
<1> QED
  BY <1>2

\* Min chooses it.
LEMMA MinFacts ==
    ASSUME NEW T, T \subseteq Nat, T # {}
    PROVE  Min(T) \in T /\ \A y \in T : Min(T) <= y
<1>1. PICK x \in T : \A y \in T : x <= y
  BY LeastNumber
<1> QED
  BY <1>1 DEF Min

\* The least element is unique.
LEMMA MinIs ==
    ASSUME NEW T, T \subseteq Nat, NEW x \in T, \A y \in T : x <= y
    PROVE  Min(T) = x
<1>1. Min(T) \in T /\ Min(T) <= x
  BY MinFacts
<1>2. x <= Min(T) /\ x \in Nat /\ Min(T) \in Nat
  BY <1>1
<1> QED
  BY <1>1, <1>2

\* A bounded set of numbers has a greatest element, which Max chooses.
LEMMA MaxFacts ==
    ASSUME NEW T, T \subseteq Nat, T # {}, NEW b \in Nat, \A x \in T : x <= b
    PROVE  Max(T) \in T /\ \A y \in T : y <= Max(T)
<1> DEFINE D == {b - x : x \in T}
<1>1. D \subseteq Nat /\ D # {}
  OBVIOUS
<1>2. PICK d \in D : \A e \in D : d <= e
  <2> HIDE DEF D
  <2> QED
    BY <1>1, LeastNumber
<1>3. PICK x \in T : d = b - x
  OBVIOUS
<1>4. ASSUME NEW y \in T PROVE y <= x
  <2>1. d <= b - y
    BY <1>2
  <2> QED
    BY <1>3, <2>1
<1>5. \A y \in T : x >= y
  BY <1>4
<1> QED
  BY <1>5 DEF Max

\* A set that holds the first number, and with a number the next, holds all of them.
LEMMA SetInduction ==
    ASSUME NEW first \in Nat, NEW last \in Nat, NEW S,
           first \in S,
           \A n \in first..(last - 1) : n \in S => n + 1 \in S
    PROVE  first..last \subseteq S
<1> DEFINE T == (first..last) \ S
<1> SUFFICES ASSUME T # {} PROVE FALSE
  OBVIOUS
<1>1. PICK x \in T : \A y \in T : x <= y
  <2>1. T \subseteq Nat
    OBVIOUS
  <2> HIDE DEF T
  <2> QED
    BY <2>1, LeastNumber
<1>2. x - 1 \in first..(last - 1)
  OBVIOUS
<1>3. x - 1 \in S
  BY <1>1, <1>2
<1>4. (x - 1) + 1 \in S
  BY <1>2, <1>3
<1> QED
  BY <1>4

\* The function f begins with base, and step[i] gives its value at i from the one before.
Iterates(f, V, first, last, base, step) ==
    /\ f \in [first..last -> V]
    /\ f[first] = base
    /\ \A i \in first + 1..last : f[i] = step[i][f[i - 1]]

\* There is such a function, which makes a definition by recursion one.
LEMMA Iteration ==
    ASSUME NEW V, NEW base \in V, NEW first \in Nat, NEW last \in Nat, first <= last,
           NEW step \in [first..last -> [V -> V]]
    PROVE  \E f : Iterates(f, V, first, last, base, step)
<1> DEFINE Is(f, n) == f \in [first..n -> V] /\ f[first] = base /\ \A i \in first + 1..n : f[i] = step[i][f[i - 1]]
           S == {n \in first..last : \E f : Is(f, n)}
<1>1. first \in S
  <2> DEFINE f == [i \in first..first |-> base]
  <2>1. Is(f, first)
    OBVIOUS
  <2> HIDE DEF Is
  <2> QED
    BY <2>1
<1>2. ASSUME NEW n \in first..(last - 1), n \in S
      PROVE  n + 1 \in S
  <2>1. PICK f : Is(f, n)
    BY <1>2
  <2> DEFINE v == step[n + 1][f[n]]
             g == [i \in first..n + 1 |-> IF i = n + 1 THEN v ELSE f[i]]
  <2>2. f \in [first..n -> V] /\ f[n] \in V /\ n + 1 \in first..last
    BY <2>1
  <2>3. v \in V
    BY <2>2
  <2>4. g \in [first..n + 1 -> V]
    <3> HIDE DEF v
    <3> QED
      BY <2>2, <2>3
  <2>5. g[first] = base
    <3>1. first # n + 1 /\ first \in first..n + 1
      OBVIOUS
    <3> QED
      BY <2>1, <3>1
  <2>6. ASSUME NEW i \in first + 1..n + 1
        PROVE  g[i] = step[i][g[i - 1]]
    <3>1. i - 1 \in first..n + 1 /\ i - 1 # n + 1 /\ i \in first..n + 1
      OBVIOUS
    <3>2. g[i - 1] = f[i - 1]
      BY <3>1
    <3>3. CASE i = n + 1
      <4>1. g[i] = v /\ i - 1 = n
        BY <3>1, <3>3
      <4> QED
        BY <3>2, <3>3, <4>1
    <3>4. CASE i # n + 1
      <4>1. i \in first + 1..n /\ g[i] = f[i]
        BY <3>1, <3>4
      <4> QED
        BY <2>1, <3>2, <4>1
    <3> QED
      BY <3>3, <3>4
  <2> HIDE DEF g
  <2>7. Is(g, n + 1)
    BY <2>4, <2>5, <2>6
  <2> HIDE DEF Is
  <2> QED
    BY <2>2, <2>7
<1> HIDE DEF S
<1>3. first..last \subseteq S
  BY <1>1, <1>2, SetInduction
<1>4. last \in S
  BY <1>3
<1> QED
  BY <1>4 DEF S, Iterates

\* What such a definition chooses is such a function.
LEMMA IterationIs ==
    ASSUME NEW V, NEW base \in V, NEW last \in Nat, NEW step \in [0..last -> [V -> V]],
           NEW g, DOMAIN g = 0..last, g = [n \in DOMAIN g |-> g[n]], g[0] = base,
           \A n \in 1..last : g[n - 1] \in V => g[n] = step[n][g[n - 1]]
    PROVE  Iterates(g, V, 0, last, base, step)
<1> DEFINE S == {n \in 0..last : g[n] \in V}
<1>1. 0 \in S
  OBVIOUS
<1>2. ASSUME NEW n \in 0..(last - 1), n \in S
      PROVE  n + 1 \in S
  <2>1. n + 1 \in 1..last /\ (n + 1) - 1 = n /\ g[n] \in V /\ n + 1 \in 0..last
    BY <1>2
  <2>2. g[n + 1] = step[n + 1][g[n]]
    BY <2>1
  <2>3. step[n + 1][g[n]] \in V
    BY <2>1
  <2> QED
    BY <2>1, <2>2, <2>3
<1>3. 0..last \subseteq S
  <2> HIDE DEF S
  <2> QED
    BY <1>1, <1>2, SetInduction
<1>4. \A n \in 0..last : g[n] \in V
  BY <1>3
<1>5. g \in [0..last -> V]
  BY <1>4, Zenon
<1>6. ASSUME NEW n \in 0 + 1..last
      PROVE  g[n] = step[n][g[n - 1]]
  <2>1. n \in 1..last /\ n - 1 \in 0..last
    OBVIOUS
  <2> QED
    BY <1>4, <2>1
<1> QED
  BY <1>5, <1>6 DEF Iterates

\* The function f has the value init[i] where i stops, and step[i] gives it elsewhere from
\* the value at jump[i].
Descends(f, V, last, stops, init, jump, step) ==
    /\ f \in [1..last -> V]
    /\ \A i \in 1..last : f[i] = IF i \in stops THEN init[i] ELSE step[i][f[jump[i]]]

\* There is such a function when every jump leads ahead: a loop that goes through a sequence
\* from the left, as a recursion.
LEMMA Descent ==
    ASSUME NEW V, NEW last \in Nat, NEW stops, NEW init, NEW jump, NEW step,
           \A i \in 1..last : i \in stops => init[i] \in V,
           \A i \in 1..last : i \notin stops => jump[i] \in i + 1..last,
           \A i \in 1..last : i \notin stops => \A v \in V : step[i][v] \in V
    PROVE  \E f : Descends(f, V, last, stops, init, jump, step)
<1> DEFINE Value(f, i) == IF i \in stops THEN init[i] ELSE step[i][f[jump[i]]]
           Is(f, n) == f \in [last + 1 - n..last -> V] /\ \A i \in last + 1 - n..last : f[i] = Value(f, i)
           S == {n \in 0..last : \E f : Is(f, n)}
<1>1. 0 \in S
  <2> DEFINE f == [i \in last + 1..last |-> init[i]]
  <2>1. last + 1 - 0 = last + 1 /\ last + 1..last = {}
    OBVIOUS
  <2>2. f \in [last + 1 - 0..last -> V]
    BY <2>1
  <2>3. Is(f, 0)
    BY <2>1, <2>2
  <2> HIDE DEF Is
  <2> QED
    BY <2>3
<1>2. ASSUME NEW n \in 0..(last - 1), n \in S
      PROVE  n + 1 \in S
  <2>1. PICK f : Is(f, n)
    BY <1>2
  <2> DEFINE m == last - n
             v == Value(f, m)
             g == [i \in m..last |-> IF i = m THEN v ELSE f[i]]
  <2>2. m \in 1..last /\ last + 1 - n = m + 1 /\ last + 1 - (n + 1) = m /\ n + 1 \in 0..last
    OBVIOUS
  <2> HIDE DEF m
  <2>3. f \in [m + 1..last -> V] /\ \A i \in m + 1..last : f[i] = Value(f, i)
    BY <2>1, <2>2
  <2>4. v \in V
    BY <2>2, <2>3
  <2> HIDE DEF v
  <2>5. g \in [m..last -> V]
    BY <2>2, <2>3, <2>4
  <2>6. g[m] = v /\ \A i \in m + 1..last : g[i] = f[i]
    BY <2>2
  <2> HIDE DEF g
  <2>7. ASSUME NEW i \in m..last
        PROVE  g[i] = Value(g, i)
    <3>1. i \notin stops => jump[i] \in m + 1..last
      BY <2>2
    <3>2. i \notin stops => g[jump[i]] = f[jump[i]]
      BY <2>6, <3>1
    <3>3. Value(g, i) = Value(f, i)
      BY <3>2
    <3>4. g[i] = Value(f, i)
      <4>1. CASE i = m
        BY <2>6, <4>1 DEF v
      <4>2. CASE i # m
        <5>1. i \in m + 1..last
          BY <2>2, <4>2
        <5> QED
          BY <2>3, <2>6, <5>1
      <4> QED
        BY <4>1, <4>2
    <3> QED
      BY <3>3, <3>4
  <2> HIDE DEF Value
  <2>8. Is(g, n + 1)
    BY <2>2, <2>5, <2>7
  <2> HIDE DEF Is
  <2> QED
    BY <2>2, <2>8
<1>3. 0..last \subseteq S
  <2> HIDE DEF S
  <2>1. 0 \in Nat
    OBVIOUS
  <2> QED
    BY <1>1, <1>2, <2>1, SetInduction
<1>4. \E f : Is(f, last)
  <2>1. last \in S
    BY <1>3
  <2> HIDE DEF Is
  <2> QED
    BY <2>1
<1>5. PICK f : Is(f, last)
  BY <1>4
<1>6. last + 1 - last = 1
  OBVIOUS
<1>7. Descends(f, V, last, stops, init, jump, step)
  BY <1>5, <1>6 DEF Descends
<1> QED
  BY <1>7

-----------------------------------------------------------------------------
(* Sequences *)

\* A function on 1..n is a sequence.
LEMMA FunctionSequence ==
    ASSUME NEW W, NEW S, S \subseteq W, NEW n \in Nat, NEW f \in [1..n -> S]
    PROVE  f \in Seq(W) /\ Len(f) = n
<1>1. f \in [1..n -> W]
  BY Zenon
<1> QED
  BY <1>1

\* Tuples are sequences.
LEMMA TupleFacts ==
    ASSUME NEW S, NEW x \in S, NEW y \in S
    PROVE  /\ <<x>> \in Seq(S) /\ Len(<<x>>) = 1 /\ <<x>>[1] = x
           /\ <<x, y>> \in Seq(S) /\ Len(<<x, y>>) = 2 /\ <<x, y>>[1] = x /\ <<x, y>>[2] = y
<1>1. <<x>> \in Seq(S) /\ <<x, y>> \in Seq(S)
  OBVIOUS
<1>2. Len(<<x>>) = 1 /\ Len(<<x, y>>) = 2
  OBVIOUS
<1>3. <<x>>[1] = x /\ <<x, y>>[1] = x /\ <<x, y>>[2] = y
  OBVIOUS
<1> QED
  BY <1>1, <1>2, <1>3

\* One more element.
LEMMA Appended ==
    ASSUME NEW P, NEW s \in Seq(P), NEW c \in P
    PROVE  /\ Append(s, c) \in Seq(P) /\ DOMAIN Append(s, c) = DOMAIN s \cup {Len(s) + 1}
           /\ Append(s, c)[Len(s) + 1] = c /\ \A i \in DOMAIN s : Append(s, c)[i] = s[i]
<1>1. Len(s) \in Nat /\ DOMAIN s = 1..Len(s)
  OBVIOUS
<1>2. /\ Append(s, c) \in Seq(P) /\ Len(Append(s, c)) = Len(s) + 1 /\ DOMAIN Append(s, c) = 1..Len(s) + 1
      /\ Append(s, c)[Len(s) + 1] = c /\ \A i \in 1..Len(s) : Append(s, c)[i] = s[i]
  BY <1>1, AppendProperties
<1> QED
  BY <1>1, <1>2

\* The elements of two sequences in a row.
LEMMA Extended ==
    ASSUME NEW P, NEW s \in Seq(P), NEW m \in Seq(P)
    PROVE  /\ s \o m \in Seq(P) /\ ToSet(s \o m) = ToSet(s) \cup ToSet(m)
           /\ ToSet(s) \subseteq P /\ (ToSet(s) = {} <=> s = <<>>)
<1> DEFINE e == s \o m
<1>1. /\ e \in Seq(P) /\ Len(e) = Len(s) + Len(m)
      /\ \A i \in 1..Len(s) + Len(m) : e[i] = IF i <= Len(s) THEN s[i] ELSE m[i - Len(s)]
  BY ConcatProperties
<1>2. Len(s) \in Nat /\ Len(m) \in Nat /\ DOMAIN s = 1..Len(s) /\ DOMAIN m = 1..Len(m) /\ DOMAIN e = 1..Len(e)
  BY <1>1
<1> HIDE DEF e
<1>3. \A i \in DOMAIN s : i \in DOMAIN e /\ e[i] = s[i]
  BY <1>1, <1>2
<1>4. \A i \in DOMAIN m : Len(s) + i \in DOMAIN e /\ e[Len(s) + i] = m[i]
  BY <1>1, <1>2
<1>5. \A i \in DOMAIN e : i \in DOMAIN s \/ i - Len(s) \in DOMAIN m
  BY <1>1, <1>2
<1>6. \A i \in DOMAIN e : i \notin DOMAIN s => e[i] = m[i - Len(s)]
  BY <1>1, <1>2
<1>7. ToSet(e) = ToSet(s) \cup ToSet(m)
  BY <1>3, <1>4, <1>5, <1>6 DEF ToSet
<1>8. ToSet(s) \subseteq P
  BY <1>2 DEF ToSet
<1>9. ToSet(s) = {} <=> s = <<>>
  <2>1. s # <<>> => 1 \in DOMAIN s
    BY <1>2, EmptySeq
  <2>2. s = <<>> => DOMAIN s = {}
    BY <1>2
  <2> QED
    BY <2>1, <2>2 DEF ToSet
<1> QED
  BY <1>1, <1>7, <1>8, <1>9 DEF e

\* A sequence without elements is empty.
LEMMA EmptySequence ==
    ASSUME NEW S, NEW s \in Seq(S), ToSet(s) = {}
    PROVE  s = <<>>
  BY Extended

-----------------------------------------------------------------------------
(* Arranging a finite set *)

\* R orders S, reflexively and totally.
Orders(R, S) ==
    /\ \A x \in S : <<x, x>> \in R
    /\ \A x, y \in S : <<x, y>> \in R \/ <<y, x>> \in R
    /\ \A x, y \in S : <<x, y>> \in R /\ <<y, x>> \in R => x = y
    /\ \A x, y, z \in S : <<x, y>> \in R /\ <<y, z>> \in R => <<x, z>> \in R

\* Places count.
LEMMA PlaceType ==
    ASSUME NEW S, IsFiniteSet(S), NEW R, Orders(R, S), NEW x \in S
    PROVE  Place(x, S, R) \in 1..Cardinality(S)
<1> DEFINE A == {y \in S : <<y, x>> \in R}
<1>1. A \in SUBSET S /\ x \in A
  BY DEF Orders
<1>2. Place(x, S, R) = Cardinality(A)
  BY DEF Place
<1> HIDE DEF A
<1>3. IsFiniteSet(A) /\ Cardinality(A) <= Cardinality(S)
  BY <1>1, FS_Subset
<1>4. Cardinality(A) \in Nat /\ Cardinality(S) \in Nat /\ Cardinality(A) # 0
  BY <1>1, <1>3, FS_CardinalityType, FS_EmptySet
<1> QED
  BY <1>2, <1>3, <1>4

\* Places keep the order.
LEMMA PlaceOrder ==
    ASSUME NEW S, IsFiniteSet(S), NEW R, Orders(R, S), NEW x \in S, NEW y \in S, x # y, <<x, y>> \in R
    PROVE  Place(x, S, R) < Place(y, S, R)
<1> DEFINE A == {z \in S : <<z, x>> \in R}
           B == {z \in S : <<z, y>> \in R}
<1>1. y \in B /\ y \notin A
  BY DEF Orders
<1>2. \A z \in A : z \in B
  BY DEF Orders
<1>3. B \in SUBSET S
  OBVIOUS
<1>4. Place(x, S, R) = Cardinality(A) /\ Place(y, S, R) = Cardinality(B)
  BY DEF Place
<1> HIDE DEF A, B
<1>5. A \in SUBSET B /\ A # B
  BY <1>1, <1>2
<1>6. IsFiniteSet(B)
  BY <1>3, FS_Subset
<1>7. Cardinality(A) <= Cardinality(B) /\ Cardinality(A) # Cardinality(B) /\ IsFiniteSet(A)
  BY <1>5, <1>6, FS_Subset
<1>8. Cardinality(A) \in Nat /\ Cardinality(B) \in Nat
  BY <1>6, <1>7, FS_CardinalityType
<1> QED
  BY <1>4, <1>7, <1>8

\* Every place is taken, by one element.
LEMMA PlaceBijective ==
    ASSUME NEW S, IsFiniteSet(S), NEW R, Orders(R, S)
    PROVE  /\ \A x, y \in S : Place(x, S, R) = Place(y, S, R) => x = y
           /\ \A n \in 1..Cardinality(S) : \E x \in S : Place(x, S, R) = n
<1> DEFINE f == [x \in S |-> Place(x, S, R)]
           T == 1..Cardinality(S)
<1>1. Cardinality(S) \in Nat
  BY FS_CardinalityType
<1>2. IsFiniteSet(T) /\ Cardinality(T) = Cardinality(S)
  BY <1>1, FS_Interval
<1>3. ASSUME NEW x \in S, NEW y \in S, x # y
      PROVE  Place(x, S, R) # Place(y, S, R)
  <2>1. Place(x, S, R) \in Nat /\ Place(y, S, R) \in Nat
    BY <1>1, PlaceType
  <2>2. Place(x, S, R) < Place(y, S, R) \/ Place(y, S, R) < Place(x, S, R)
    BY <1>3, PlaceOrder DEF Orders
  <2> QED
    BY <2>1, <2>2
<1>4. f \in [S -> T]
  BY PlaceType
<1>5. f \in Injection(S, T)
  BY <1>3, <1>4 DEF Injection, IsInjective
<1>6. f \in Surjection(S, T)
  <2> HIDE DEF f, T
  <2> QED
    BY <1>2, <1>5, FS_Injection
<1>7. \A n \in T : \E x \in S : f[x] = n
  <2> HIDE DEF f, T
  <2> QED
    BY <1>6 DEF Surjection
<1> QED
  BY <1>3, <1>7

\* The sequence has every element once, in the order.
LEMMA ArrangedFacts ==
    ASSUME NEW S, IsFiniteSet(S), NEW R, Orders(R, S)
    PROVE  /\ Cardinality(S) \in Nat
           /\ Arranged(S, R) \in Seq(S) /\ Arranged(S, R) \in [1..Cardinality(S) -> S]
           /\ Len(Arranged(S, R)) = Cardinality(S)
           /\ \A x \in S : Place(x, S, R) \in 1..Cardinality(S) /\ Arranged(S, R)[Place(x, S, R)] = x
           /\ \A n \in 1..Cardinality(S) : Place(Arranged(S, R)[n], S, R) = n
           /\ \A m, n \in 1..Cardinality(S) : m < n =>
                 <<Arranged(S, R)[m], Arranged(S, R)[n]>> \in R /\ Arranged(S, R)[m] # Arranged(S, R)[n]
<1> DEFINE s == Arranged(S, R)
           N == Cardinality(S)
<1>1. N \in Nat
  BY FS_CardinalityType
<1>2. s = [n \in 1..N |-> CHOOSE x \in S : Place(x, S, R) = n]
  BY DEF Arranged
<1>3. /\ \A x, y \in S : Place(x, S, R) = Place(y, S, R) => x = y
      /\ \A n \in 1..N : \E x \in S : Place(x, S, R) = n
  BY PlaceBijective
<1> HIDE DEF s, N
<1>4. \A n \in 1..N : s[n] \in S /\ Place(s[n], S, R) = n
  BY <1>2, <1>3
<1>5. s \in [1..N -> S]
  BY <1>2, <1>4
<1>6. s \in Seq(S) /\ Len(s) = N
  BY <1>1, <1>5
<1>7. \A x \in S : Place(x, S, R) \in 1..N
  BY PlaceType DEF N
<1>8. \A x \in S : s[Place(x, S, R)] = x
  BY <1>3, <1>4, <1>7
<1>9. ASSUME NEW m \in 1..N, NEW n \in 1..N, m < n
      PROVE  <<s[m], s[n]>> \in R /\ s[m] # s[n]
  <2>1. s[m] \in S /\ s[n] \in S /\ s[m] # s[n]
    BY <1>4, <1>9
  <2>2. ~(<<s[n], s[m]>> \in R)
    <3> SUFFICES ASSUME <<s[n], s[m]>> \in R PROVE FALSE
      OBVIOUS
    <3>1. Place(s[n], S, R) < Place(s[m], S, R)
      BY <2>1, PlaceOrder
    <3> QED
      BY <1>4, <1>9, <3>1
  <2> QED
    BY <2>1, <2>2 DEF Orders
<1> QED
  BY <1>1, <1>4, <1>5, <1>6, <1>7, <1>8, <1>9 DEF s, N

\* The usual order on numbers.
LEMMA AtMostOrders ==
    ASSUME NEW S, S \subseteq Int
    PROVE  Orders(AtMost(S), S)
<1>1. \A x, y \in S : <<x, y>> \in AtMost(S) <=> x <= y
  BY DEF AtMost
<1> QED
  BY <1>1 DEF Orders

\* Ascending sequences ascend, and have the elements of the set.
LEMMA AscendingFacts ==
    ASSUME NEW S, IsFiniteSet(S), S \subseteq Int
    PROVE  /\ Cardinality(S) \in Nat
           /\ Ascending(S) \in Seq(S) /\ Ascending(S) \in [1..Cardinality(S) -> S]
           /\ Len(Ascending(S)) = Cardinality(S)
           /\ \A x \in S : \E n \in 1..Cardinality(S) : Ascending(S)[n] = x
           /\ \A m, n \in 1..Cardinality(S) : m < n => Ascending(S)[m] < Ascending(S)[n]
<1> DEFINE R == AtMost(S)
           s == Arranged(S, R)
           N == Cardinality(S)
<1>1. Orders(R, S) /\ s = Ascending(S)
  BY AtMostOrders DEF Ascending
<1> HIDE DEF R
<1>2. /\ N \in Nat /\ s \in Seq(S) /\ s \in [1..N -> S] /\ Len(s) = N
      /\ \A x \in S : \E n \in 1..N : s[n] = x
      /\ \A m, n \in 1..N : m < n => <<s[m], s[n]>> \in R /\ s[m] # s[n]
  <2>1. /\ N \in Nat /\ s \in Seq(S) /\ s \in [1..N -> S] /\ Len(s) = N
        /\ \A x \in S : Place(x, S, R) \in 1..N /\ s[Place(x, S, R)] = x
        /\ \A m, n \in 1..N : m < n => <<s[m], s[n]>> \in R /\ s[m] # s[n]
    BY <1>1, ArrangedFacts
  <2> QED
    BY <2>1
<1> HIDE DEF s, N
<1>3. ASSUME NEW m \in 1..N, NEW n \in 1..N, m < n
      PROVE  s[m] < s[n]
  <2>1. s[m] <= s[n] /\ s[m] # s[n] /\ s[m] \in Int /\ s[n] \in Int
    BY <1>2, <1>3 DEF AtMost, R
  <2> QED
    BY <2>1
<1> QED
  BY <1>1, <1>2, <1>3 DEF N

\* An element stands where its place says.
LEMMA AscendingPlaces ==
    ASSUME NEW S, IsFiniteSet(S), S \subseteq Int
    PROVE  /\ \A x \in S : Cardinality({y \in S : y <= x}) \in 1..Cardinality(S)
           /\ \A x \in S : Ascending(S)[Cardinality({y \in S : y <= x})] = x
           /\ \A n \in 1..Cardinality(S) : Cardinality({y \in S : y <= Ascending(S)[n]}) = n
<1> DEFINE R == AtMost(S)
           s == Arranged(S, R)
           N == Cardinality(S)
<1>1. Orders(R, S) /\ s = Ascending(S)
  BY AtMostOrders DEF Ascending
<1>2. ASSUME NEW x \in S
      PROVE  Place(x, S, R) = Cardinality({y \in S : y <= x})
  <2>1. {y \in S : <<y, x>> \in R} = {y \in S : y <= x}
    BY DEF AtMost
  <2> QED
    BY <2>1 DEF Place
<1> HIDE DEF R
<1>3. /\ s \in [1..N -> S]
      /\ \A x \in S : Place(x, S, R) \in 1..N /\ s[Place(x, S, R)] = x
      /\ \A n \in 1..N : Place(s[n], S, R) = n
  BY <1>1, ArrangedFacts
<1> HIDE DEF s, N
<1>4. \A n \in 1..N : s[n] \in S
  BY <1>3
<1> QED
  BY <1>1, <1>2, <1>3, <1>4 DEF N

\* Nothing to arrange.
LEMMA AscendingEmpty == Ascending({}) = <<>>
<1>1. IsFiniteSet({}) /\ Cardinality({}) = 0 /\ {} \subseteq Int
  BY FS_EmptySet
<1>2. Ascending({}) \in Seq({}) /\ Len(Ascending({})) = 0
  BY <1>1, AscendingFacts
<1> QED
  BY <1>2, EmptySeq

\* The numbers of a set that are below those of another come first.
LEMMA AscendingJoin ==
    ASSUME NEW A, NEW B, IsFiniteSet(A), IsFiniteSet(B), A \subseteq Int, B \subseteq Int,
           \A x \in A, y \in B : x < y
    PROVE  Ascending(A \cup B) = Ascending(A) \o Ascending(B)
<1> DEFINE S == A \cup B
           a == Ascending(A)
           b == Ascending(B)
           s == Ascending(S)
           t == a \o b
           M == Cardinality(A)
           N == Cardinality(B)
<1>1. A \cap B = {}
  <2> SUFFICES ASSUME NEW x \in A, x \in B PROVE FALSE
    OBVIOUS
  <2>1. x < x /\ x \in Int
    OBVIOUS
  <2> QED
    BY <2>1
<1>2. IsFiniteSet(S) /\ Cardinality(S) = M + N /\ M \in Nat /\ N \in Nat
  <2>1. IsFiniteSet(S) /\ Cardinality(S) = M + N - Cardinality(A \cap B)
    BY FS_Union
  <2>2. Cardinality(A \cap B) = 0 /\ M \in Nat /\ N \in Nat
    BY <1>1, FS_EmptySet, FS_CardinalityType
  <2> HIDE DEF M, N
  <2> QED
    BY <2>1, <2>2
<1>3. S \subseteq Int
  OBVIOUS
<1>4. /\ a \in Seq(A) /\ a \in [1..M -> A] /\ Len(a) = M
      /\ b \in Seq(B) /\ b \in [1..N -> B] /\ Len(b) = N
  BY AscendingFacts
<1>5. s \in Seq(S) /\ Len(s) = M + N /\ s \in [1..M + N -> S]
  <2>1. s \in Seq(S) /\ Len(s) = Cardinality(S) /\ s \in [1..Cardinality(S) -> S]
    <3> HIDE DEF S
    <3> QED
      BY <1>2, <1>3, AscendingFacts
  <2> QED
    BY <1>2, <2>1
<1>6. /\ \A n \in 1..M : Cardinality({y \in A : y <= a[n]}) = n
      /\ \A n \in 1..N : Cardinality({y \in B : y <= b[n]}) = n
  BY AscendingPlaces
<1>7. \A x \in S : s[Cardinality({y \in S : y <= x})] = x
  <2> HIDE DEF S
  <2> QED
    BY <1>2, <1>3, AscendingPlaces
<1> HIDE DEF a, b, s, M, N
<1>8. /\ t \in Seq(S) /\ Len(t) = M + N
      /\ \A n \in 1..M + N : t[n] = IF n <= M THEN a[n] ELSE b[n - M]
  <2>1. a \in Seq(S) /\ b \in Seq(S)
    BY <1>4
  <2> HIDE DEF S
  <2> QED
    BY <1>4, <2>1, ConcatProperties
<1>9. ASSUME NEW n \in 1..M + N
      PROVE  s[n] = t[n]
  <2>1. CASE n <= M
    <3>1. n \in 1..M /\ t[n] = a[n] /\ a[n] \in A
      BY <1>2, <1>4, <1>8, <2>1
    <3>2. {y \in S : y <= a[n]} = {y \in A : y <= a[n]}
      <4>1. ASSUME NEW y \in B PROVE ~(y <= a[n])
        <5>1. a[n] < y /\ a[n] \in Int /\ y \in Int
          BY <3>1
        <5> QED
          BY <5>1
      <4> QED
        BY <4>1
    <3>3. s[n] = a[n]
      BY <1>6, <1>7, <3>1, <3>2
    <3> QED
      BY <3>1, <3>3
  <2>2. CASE ~(n <= M)
    <3> DEFINE k == n - M
               C == {y \in B : y <= b[k]}
    <3>1. k \in 1..N /\ t[n] = b[k]
      BY <1>2, <1>8, <2>2
    <3>2. b[k] \in B
      BY <1>4, <3>1
    <3>3. Cardinality(C) = k
      BY <1>6, <3>1
    <3>4. {y \in S : y <= b[k]} = A \cup C
      <4>1. ASSUME NEW y \in A PROVE y <= b[k]
        <5>1. y < b[k] /\ b[k] \in Int /\ y \in Int
          BY <3>2
        <5> QED
          BY <5>1
      <4> QED
        BY <4>1
    <3>5. C \in SUBSET B
      OBVIOUS
    <3> HIDE DEF C, k
    <3>6. A \cap C = {} /\ IsFiniteSet(C)
      BY <1>1, <3>5, FS_Subset
    <3>7. Cardinality(A \cup C) = M + k
      <4>1. Cardinality(A \cup C) = Cardinality(A) + Cardinality(C) - Cardinality(A \cap C)
        BY <3>6, FS_Union
      <4>2. Cardinality(A \cap C) = 0
        BY <3>6, FS_EmptySet
      <4>3. M + k - 0 = M + k
        BY <1>2, <3>1
      <4> QED
        BY <3>3, <4>1, <4>2, <4>3 DEF M
    <3>8. M + k = n
      BY <1>2 DEF k
    <3>9. s[n] = b[k]
      BY <1>7, <3>2, <3>4, <3>7, <3>8
    <3> QED
      BY <3>1, <3>9
  <2> QED
    BY <2>1, <2>2
<1> HIDE DEF t, S
<1>10. s = t
  BY <1>5, <1>8, <1>9, SeqEqual
<1> QED
  BY <1>10 DEF s, t, S, a, b

\* The numbers from one to another.
LEMMA AscendingInterval ==
    ASSUME NEW a \in Int, NEW k \in Nat
    PROVE  Ascending(a..a + k - 1) = [n \in 1..k |-> a + n - 1]
<1> DEFINE S == a..a + k - 1
           s == Ascending(S)
           t == [n \in 1..k |-> a + n - 1]
<1>1. \A x \in Int, y \in Int : IsFiniteSet(x..y) /\ Cardinality(x..y) = IF x > y THEN 0 ELSE y - x + 1
  BY FS_Interval
<1>2. IsFiniteSet(S) /\ Cardinality(S) = k
  BY <1>1
<1>3. S \subseteq Int
  OBVIOUS
<1>4. s \in Seq(S) /\ Len(s) = k
  <2> HIDE DEF S
  <2> QED
    BY <1>2, <1>3, AscendingFacts
<1>5. t \in Seq(S) /\ Len(t) = k
  <2>1. t \in [1..k -> S]
    OBVIOUS
  <2> HIDE DEF t, S
  <2> QED
    BY <2>1
<1>6. ASSUME NEW n \in 1..k
      PROVE  s[n] = t[n]
  <2> DEFINE x == a + n - 1
  <2>1. x \in S /\ {y \in S : y <= x} = a..x /\ ~(a > x) /\ x - a + 1 = n
    OBVIOUS
  <2>2. s[Cardinality({y \in S : y <= x})] = x
    <3> HIDE DEF S, x
    <3> QED
      BY <1>2, <1>3, <2>1, AscendingPlaces
  <2>3. Cardinality(a..x) = n
    BY <1>1, <2>1
  <2>4. t[n] = x
    OBVIOUS
  <2> HIDE DEF s, t, x, S
  <2> QED
    BY <2>1, <2>2, <2>3, <2>4
<1> HIDE DEF s, t, S
<1>7. s = t
  BY <1>4, <1>5, <1>6, SeqEqual
<1> QED
  BY <1>7 DEF s, t, S

\* Picking from a sequence gives a sequence.
LEMMA PickedFacts ==
    ASSUME NEW W, NEW s \in Seq(W), NEW A, A \subseteq DOMAIN s
    PROVE  /\ IsFiniteSet(A) /\ A \subseteq Int /\ Cardinality(A) \in Nat
           /\ Ascending(A) \in [1..Cardinality(A) -> A] /\ Len(Ascending(A)) = Cardinality(A)
           /\ Picked(s, A) \in Seq(W) /\ Len(Picked(s, A)) = Cardinality(A)
           /\ \A n \in 1..Cardinality(A) : Picked(s, A)[n] = s[Ascending(A)[n]]
           /\ ToSet(Picked(s, A)) = {s[k] : k \in A}
<1> DEFINE o == Ascending(A)
           N == Cardinality(A)
           t == [n \in 1..N |-> s[o[n]]]
<1>1. Len(s) \in Nat /\ DOMAIN s = 1..Len(s) /\ \A k \in DOMAIN s : s[k] \in W
  OBVIOUS
<1>2. A \in SUBSET (1..Len(s)) /\ A \subseteq Int
  BY <1>1
<1>3. IsFiniteSet(A)
  <2>1. IsFiniteSet(1..Len(s))
    BY <1>1, FS_Interval
  <2> QED
    BY <1>2, <2>1, FS_Subset
<1>4. /\ N \in Nat /\ o \in [1..N -> A] /\ o \in Seq(A) /\ Len(o) = N
      /\ \A x \in A : \E n \in 1..N : o[n] = x
  BY <1>2, <1>3, AscendingFacts
<1>5. Picked(s, A) = t
  BY <1>4 DEF Picked
<1> HIDE DEF o, N
<1>6. t \in [1..N -> W]
  <2>1. \A n \in 1..N : s[o[n]] \in W
    BY <1>1, <1>4
  <2> QED
    BY <2>1
<1>7. t \in Seq(W) /\ Len(t) = N
  <2> HIDE DEF t
  <2> QED
    BY <1>4, <1>6
<1>8. \A n \in 1..N : t[n] = s[o[n]]
  OBVIOUS
<1>9. ToSet(t) = {s[k] : k \in A}
  <2>1. DOMAIN t = 1..N
    OBVIOUS
  <2> HIDE DEF t
  <2> QED
    BY <1>4, <1>8, <2>1 DEF ToSet
<1> QED
  BY <1>2, <1>3, <1>4, <1>5, <1>7, <1>8, <1>9 DEF o, N

\* What stands further to the left is picked first.
LEMMA PickedJoin ==
    ASSUME NEW W, NEW s \in Seq(W), NEW A, NEW B, A \subseteq DOMAIN s, B \subseteq DOMAIN s,
           \A x \in A, y \in B : x < y
    PROVE  Picked(s, A \cup B) = Picked(s, A) \o Picked(s, B)
<1> DEFINE C == A \cup B
           a == Ascending(A)
           b == Ascending(B)
           c == Ascending(C)
           M == Cardinality(A)
           N == Cardinality(B)
           p == Picked(s, A)
           q == Picked(s, B)
           r == Picked(s, C)
<1>1. C \subseteq DOMAIN s
  OBVIOUS
<1>2. /\ IsFiniteSet(A) /\ A \subseteq Int /\ M \in Nat
      /\ a \in [1..M -> A] /\ Len(a) = M /\ p \in Seq(W) /\ Len(p) = M
      /\ \A n \in 1..M : p[n] = s[a[n]]
  BY PickedFacts
<1>3. /\ IsFiniteSet(B) /\ B \subseteq Int /\ N \in Nat
      /\ b \in [1..N -> B] /\ Len(b) = N /\ q \in Seq(W) /\ Len(q) = N
      /\ \A n \in 1..N : q[n] = s[b[n]]
  BY PickedFacts
<1>4. /\ Cardinality(C) \in Nat /\ Len(c) = Cardinality(C) /\ r \in Seq(W) /\ Len(r) = Cardinality(C)
      /\ \A n \in 1..Cardinality(C) : r[n] = s[c[n]]
  <2> HIDE DEF C
  <2> QED
    BY <1>1, PickedFacts
<1>5. c = a \o b
  BY <1>2, <1>3, AscendingJoin
<1> HIDE DEF a, b, c, M, N, p, q, r, C
<1>6. /\ Len(c) = M + N /\ \A n \in 1..M + N : c[n] = IF n <= M THEN a[n] ELSE b[n - M]
  <2>1. a \in Seq(Int) /\ b \in Seq(Int)
    <3>1. M \in Nat /\ N \in Nat /\ A \subseteq Int /\ B \subseteq Int
      BY <1>2, <1>3
    <3>2. a \in [1..M -> A] /\ b \in [1..N -> B]
      BY <1>2, <1>3
    <3> QED
      BY <3>1, <3>2, FunctionSequence
  <2>2. /\ Len(a \o b) = Len(a) + Len(b)
        /\ \A n \in 1..Len(a) + Len(b) : (a \o b)[n] = IF n <= Len(a) THEN a[n] ELSE b[n - Len(a)]
    BY <2>1, ConcatProperties
  <2>3. Len(a) = M /\ Len(b) = N
    BY <1>2, <1>3
  <2> QED
    BY <1>5, <2>2, <2>3
<1>7. /\ p \o q \in Seq(W) /\ Len(p \o q) = M + N
      /\ \A n \in 1..M + N : (p \o q)[n] = IF n <= M THEN p[n] ELSE q[n - M]
  <2>1. p \in Seq(W) /\ q \in Seq(W)
    BY <1>2, <1>3
  <2>2. /\ p \o q \in Seq(W) /\ Len(p \o q) = Len(p) + Len(q)
        /\ \A n \in 1..Len(p) + Len(q) : (p \o q)[n] = IF n <= Len(p) THEN p[n] ELSE q[n - Len(p)]
    BY <2>1, ConcatProperties
  <2>3. Len(p) = M /\ Len(q) = N
    BY <1>2, <1>3
  <2> QED
    BY <2>2, <2>3
<1>8. ASSUME NEW n \in 1..M + N
      PROVE  r[n] = (p \o q)[n]
  <2>1. r[n] = s[c[n]]
    BY <1>4, <1>6
  <2>2. n <= M => n \in 1..M
    BY <1>2
  <2>3. ~(n <= M) => n - M \in 1..N
    BY <1>2, <1>3
  <2> QED
    BY <1>2, <1>3, <1>6, <1>7, <2>1, <2>2, <2>3
<1>9. r = p \o q
  BY <1>4, <1>6, <1>7, <1>8, SeqEqual
<1> QED
  BY <1>9 DEF p, q, r, C

\* A run of places is a subsequence.
LEMMA PickedInterval ==
    ASSUME NEW W, NEW s \in Seq(W), NEW i \in Nat, NEW j \in Nat, i >= 1, j <= Len(s), i <= j + 1
    PROVE  Picked(s, i..j) = SubSeq(s, i, j)
<1> DEFINE k == j - i + 1
           A == i..j
           p == Picked(s, A)
           q == SubSeq(s, i, j)
<1>1. k \in Nat /\ i + k - 1 = j /\ A \subseteq DOMAIN s
  OBVIOUS
<1>2. Ascending(A) = [n \in 1..k |-> i + n - 1]
  <2>1. Ascending(i..i + k - 1) = [n \in 1..k |-> i + n - 1]
    <3> HIDE DEF k
    <3> QED
      BY <1>1, AscendingInterval
  <2> QED
    BY <1>1, <2>1
<1>3. p \in Seq(W)
  <2> HIDE DEF A
  <2> QED
    BY <1>1, PickedFacts
<1>4. p = [n \in 1..k |-> s[i + n - 1]]
  <2> HIDE DEF k, A
  <2>1. \A n \in 1..k : Ascending(A)[n] = i + n - 1
    BY <1>2
  <2>2. DOMAIN Ascending(A) = 1..k
    BY <1>2
  <2> QED
    BY <2>1, <2>2 DEF Picked
<1>5. q = [n \in 1..k |-> s[i + n - 1]]
  BY SubSeqProperties
<1> QED
  BY <1>4, <1>5

\* One place is one element, none is none.
LEMMA PickedFew ==
    ASSUME NEW W, NEW s \in Seq(W)
    PROVE  Picked(s, {}) = <<>> /\ \A i \in DOMAIN s : Picked(s, {i}) = <<s[i]>>
<1>1. Picked(s, {}) = <<>>
  <2>1. Picked(s, {}) \in Seq(W) /\ Len(Picked(s, {})) = Cardinality({})
    BY PickedFacts
  <2>2. Cardinality({}) = 0
    BY FS_EmptySet
  <2> QED
    BY <2>1, <2>2, EmptySeq
<1>2. ASSUME NEW i \in DOMAIN s
      PROVE  Picked(s, {i}) = <<s[i]>>
  <2>1. i \in Nat /\ i >= 1 /\ i <= Len(s) /\ i <= i + 1 /\ i..i = {i}
    OBVIOUS
  <2>2. Picked(s, i..i) = SubSeq(s, i, i)
    BY <2>1, PickedInterval
  <2>3. SubSeq(s, i, i) = <<s[i]>>
    <3> DEFINE q == SubSeq(s, i, i)
    <3>1. q \in Seq(W) /\ Len(q) = 1 /\ q[1] = s[i]
      BY <2>1, SubSeqProperties
    <3>2. <<s[i]>> \in Seq(W) /\ Len(<<s[i]>>) = 1 /\ <<s[i]>>[1] = s[i]
      BY TupleFacts
    <3> HIDE DEF q
    <3>3. \A n \in 1..Len(q) : q[n] = <<s[i]>>[n]
      BY <3>1, <3>2
    <3>4. q = <<s[i]>>
      BY <3>1, <3>2, <3>3, SeqEqual
    <3> QED
      BY <3>4 DEF q
  <2> QED
    BY <2>1, <2>2, <2>3
<1> QED
  BY <1>1, <1>2

\* Moving by a distance is one to one.
LEMMA MovedTogether ==
    ASSUME NEW m \in Int, NEW x \in Int, NEW y \in Int, m + x = m + y
    PROVE  x = y
  OBVIOUS

\* Places that are all moved by the same distance stay in order.
LEMMA AscendingShift ==
    ASSUME NEW B, IsFiniteSet(B), B \subseteq Int, NEW m \in Int, NEW C, C = {m + x : x \in B}
    PROVE  /\ IsFiniteSet(C) /\ C \subseteq Int /\ Cardinality(C) = Cardinality(B)
           /\ \A n \in 1..Cardinality(B) : Ascending(C)[n] = m + Ascending(B)[n]
<1> DEFINE N == Cardinality(B)
           b == Ascending(B)
<1>1. ASSUME NEW A, A \in SUBSET B
      PROVE  IsFiniteSet({m + x : x \in A}) /\ Cardinality({m + x : x \in A}) = Cardinality(A)
  <2> DEFINE D == {m + x : x \in A}
             f == [x \in A |-> m + x]
  <2>1. f \in [A -> D]
    OBVIOUS
  <2>2. ASSUME NEW x \in A, NEW y \in A, f[x] = f[y]
        PROVE  x = y
    <3>1. x \in Int /\ y \in Int
      BY <1>1
    <3>2. f[x] = m + x /\ f[y] = m + y
      BY Zenon
    <3>3. m + x = m + y
      BY <2>2, <3>2, Zenon
    <3> QED
      BY <3>1, <3>3, MovedTogether, Zenon
  <2>3. \A d \in D : \E x \in A : f[x] = d
    OBVIOUS
  <2> HIDE DEF D, f
  <2>4. f \in Bijection(A, D)
    BY <2>1, <2>2, <2>3 DEF Bijection, Injection, Surjection, IsInjective
  <2>5. ExistsBijection(A, D)
    BY <2>4 DEF ExistsBijection
  <2>6. A \subseteq B
    BY <1>1
  <2>7. IsFiniteSet(A)
    BY <2>6, FS_Subset
  <2>8. IsFiniteSet(D) /\ Cardinality(D) = Cardinality(A)
    BY <2>5, <2>7, FS_Bijection
  <2> QED
    BY <2>8 DEF D
<1>2. B \in SUBSET B
  OBVIOUS
<1>3. IsFiniteSet(C) /\ Cardinality(C) = N /\ C \subseteq Int
  <2>1. C \subseteq Int
    OBVIOUS
  <2> QED
    BY <1>1, <1>2, <2>1
<1>4. b \in [1..N -> B] /\ \A n \in 1..N : Cardinality({y \in B : y <= b[n]}) = n
  BY AscendingFacts, AscendingPlaces
<1>5. \A x \in C : Ascending(C)[Cardinality({y \in C : y <= x})] = x
  BY <1>3, AscendingPlaces
<1> HIDE DEF N, b
<1>6. ASSUME NEW n \in 1..N
      PROVE  Ascending(C)[n] = m + b[n]
  <2> DEFINE x == m + b[n]
             A == {y \in B : y <= b[n]}
  <2>1. b[n] \in B /\ b[n] \in Int
    BY <1>4
  <2>2. x \in C
    BY <2>1
  <2>3. {y \in C : y <= x} = {m + y : y \in A}
    <3>1. \A y \in B : m + y <= x <=> y <= b[n]
      BY <2>1
    <3> HIDE DEF x
    <3> QED
      BY <3>1
  <2>4. A \in SUBSET B /\ Cardinality(A) = n
    BY <1>4
  <2> HIDE DEF x, A
  <2>5. Cardinality({m + y : y \in A}) = n
    BY <1>1, <2>4
  <2>6. Ascending(C)[n] = x
    BY <1>5, <2>2, <2>3, <2>5
  <2> QED
    BY <2>6 DEF x
<1> QED
  BY <1>3, <1>6 DEF N, b

\* What of a sequence is in P.
Within(s, P) == Picked(s, {k \in DOMAIN s : s[k] \in P})

\* Picking what is in P from two sequences in a row.
LEMMA PickedConcat ==
    ASSUME NEW W, NEW s \in Seq(W), NEW t \in Seq(W), NEW P
    PROVE  Within(s \o t, P) = Within(s, P) \o Within(t, P)
<1> DEFINE u == s \o t
           m == Len(s)
           A == {k \in DOMAIN s : s[k] \in P}
           B == {k \in DOMAIN t : t[k] \in P}
           C == {m + k : k \in B}
           D == {k \in DOMAIN u : u[k] \in P}
<1>1. /\ u \in Seq(W) /\ Len(u) = m + Len(t)
      /\ \A i \in 1..m + Len(t) : u[i] = IF i <= m THEN s[i] ELSE t[i - m]
  BY ConcatProperties
<1>2. m \in Nat /\ Len(t) \in Nat /\ DOMAIN s = 1..m /\ DOMAIN t = 1..Len(t) /\ DOMAIN u = 1..m + Len(t)
  BY <1>1
<1>3. A \subseteq 1..m /\ B \subseteq 1..Len(t)
  BY <1>2
<1>4. \A k \in 1..m : k \in DOMAIN u /\ u[k] = s[k]
  BY <1>1, <1>2
<1>5. \A k \in 1..Len(t) : m + k \in DOMAIN u /\ u[m + k] = t[k] /\ ~(m + k \in 1..m)
  BY <1>1, <1>2
<1>6. \A k \in DOMAIN u : k \in 1..m \/ \E j \in 1..Len(t) : k = m + j
  <2>1. \A k \in DOMAIN u : k \in 1..m \/ (k - m \in 1..Len(t) /\ k = m + (k - m))
    BY <1>2
  <2> QED
    BY <2>1
<1> HIDE DEF u, m
<1>7. D = A \cup C
  <2>1. ASSUME NEW k \in D
        PROVE  k \in A \cup C
    BY <1>2, <1>4, <1>5, <1>6
  <2>2. ASSUME NEW k \in A \cup C
        PROVE  k \in D
    BY <1>2, <1>4, <1>5
  <2> QED
    BY <2>1, <2>2
<1>8. A \subseteq DOMAIN u /\ C \subseteq DOMAIN u /\ \A x \in A, y \in C : x < y
  <2>1. A \subseteq DOMAIN u /\ C \subseteq DOMAIN u
    BY <1>2, <1>3, <1>4, <1>5
  <2>2. \A x \in A, k \in B : x < m + k
    BY <1>2, <1>3
  <2> QED
    BY <2>1, <2>2
<1>9. Picked(u, A \cup C) = Picked(u, A) \o Picked(u, C)
  <2> HIDE DEF A, C
  <2> QED
    BY <1>1, <1>8, PickedJoin
<1>10. Picked(u, A) = Picked(s, A)
  <2>1. A \subseteq DOMAIN s
    OBVIOUS
  <2> HIDE DEF A
  <2>2. Ascending(A) \in [1..Cardinality(A) -> A]
    BY <2>1, PickedFacts
  <2>3. \A n \in DOMAIN Ascending(A) : u[Ascending(A)[n]] = s[Ascending(A)[n]]
    BY <1>3, <1>4, <2>2
  <2> QED
    BY <2>3 DEF Picked
<1>11. Picked(u, C) = Picked(t, B)
  <2>1. B \subseteq DOMAIN t /\ C = {m + x : x \in B}
    OBVIOUS
  <2> HIDE DEF B, C
  <2> DEFINE N == Cardinality(B)
  <2>2. /\ IsFiniteSet(B) /\ B \subseteq Int /\ N \in Nat /\ Ascending(B) \in [1..N -> B]
        /\ Picked(t, B) \in Seq(W) /\ Len(Picked(t, B)) = N
        /\ \A n \in 1..N : Picked(t, B)[n] = t[Ascending(B)[n]]
    BY <2>1, PickedFacts
  <2>3. m \in Int
    BY <1>2
  <2>4. Cardinality(C) = N /\ \A n \in 1..N : Ascending(C)[n] = m + Ascending(B)[n]
    <3>1. IsFiniteSet(B) /\ B \subseteq Int /\ C = {m + x : x \in B}
      BY <2>1, <2>2
    <3>2. Cardinality(C) = Cardinality(B)
      BY <2>3, <3>1, AscendingShift, Zenon
    <3>3. \A n \in 1..Cardinality(B) : Ascending(C)[n] = m + Ascending(B)[n]
      BY <2>3, <3>1, AscendingShift, Zenon
    <3> QED
      BY <3>2, <3>3, Zenon
  <2>5. /\ Picked(u, C) \in Seq(W) /\ Len(Picked(u, C)) = Cardinality(C)
        /\ \A n \in 1..Cardinality(C) : Picked(u, C)[n] = u[Ascending(C)[n]]
    BY <1>1, <1>8, PickedFacts
  <2> HIDE DEF N
  <2>6. \A n \in 1..N : Picked(u, C)[n] = Picked(t, B)[n]
    <3> TAKE n \in 1..N
    <3>1. Ascending(B)[n] \in B
      BY <2>2
    <3>2. Ascending(B)[n] \in 1..Len(t)
      BY <1>3, <3>1 DEF B
    <3> QED
      BY <1>5, <2>2, <2>4, <2>5, <3>2
  <2> QED
    BY <2>2, <2>4, <2>5, <2>6, SeqEqual
<1> QED
  BY <1>7, <1>9, <1>10, <1>11 DEF u, Within

-----------------------------------------------------------------------------
(* FlattenSeq *)

\* The concatenation, by a name that the provers need not open.
Joined(a, b) == a \o b

\* What the proofs use of concatenation.
LEMMA JoinedFacts ==
    ASSUME NEW W, NEW a \in Seq(W), NEW b \in Seq(W), NEW c \in Seq(W)
    PROVE  /\ Joined(a, b) \in Seq(W)
           /\ Joined(Joined(a, b), c) = Joined(a, Joined(b, c))
           /\ Joined(a, <<>>) = a /\ Joined(<<>>, a) = a
           /\ Joined(a, b) = Joined(a, c) => b = c
<1>1. a \o b \in Seq(W) /\ a \o <<>> = a /\ <<>> \o a = a
  BY ConcatProperties, ConcatEmptySeq
<1>2. (a \o b) \o c = a \o (b \o c)
  OBVIOUS
<1>3. a \o b = a \o c => b = c
  <2> SUFFICES ASSUME a \o b = a \o c PROVE b = c
    OBVIOUS
  <2>1. Len(b) = Len(c)
    OBVIOUS
  <2>2. \A i \in 1..Len(b) : b[i] = (a \o b)[Len(a) + i] /\ c[i] = (a \o c)[Len(a) + i]
    BY <2>1
  <2> QED
    BY <2>1, <2>2, SeqEqual
<1> QED
  BY <1>1, <1>2, <1>3 DEF Joined

\* The function that FlattenSeq defines by recursion, for the first n of the sequences s.
Flattens(f, s, n) == f = [i \in 1..n |-> IF i = 1 THEN s[i] ELSE Joined(f[i - 1], s[i])]

\* There is such a function for every number of sequences.
LEMMA FlattensExists ==
    ASSUME NEW s, NEW n \in Nat, n >= 1
    PROVE  \E f : Flattens(f, s, n)
<1> DEFINE S == {m \in Nat : \E f : Flattens(f, s, m)}
<1>1. 1 \in S
  <2> DEFINE f == [i \in 1..1 |-> s[i]]
  <2>1. Flattens(f, s, 1)
    BY DEF Flattens
  <2> QED
    BY <2>1
<1>2. ASSUME NEW m \in 1..(n - 1), m \in S PROVE m + 1 \in S
  <2>1. PICK f : Flattens(f, s, m)
    BY <1>2
  <2> DEFINE g == [i \in 1..(m + 1) |-> IF i = m + 1 THEN Joined(f[m], s[m + 1]) ELSE f[i]]
             h == [i \in 1..(m + 1) |-> IF i = 1 THEN s[i] ELSE Joined(g[i - 1], s[i])]
  <2>2. ASSUME NEW i \in 1..(m + 1) PROVE g[i] = h[i]
    <3>1. CASE i = m + 1
      <4>1. g[i] = Joined(f[m], s[m + 1]) /\ g[m] = f[m] /\ i # 1 /\ i - 1 = m
        BY <3>1
      <4>2. h[i] = Joined(g[i - 1], s[i])
        BY <3>1
      <4> HIDE DEF g, h
      <4> QED
        BY <3>1, <4>1, <4>2
    <3>2. CASE i # m + 1
      <4>1. i \in 1..m /\ g[i] = f[i]
        BY <3>2
      <4>2. f[i] = IF i = 1 THEN s[i] ELSE Joined(f[i - 1], s[i])
        BY <2>1, <4>1 DEF Flattens
      <4>3. i # 1 => g[i - 1] = f[i - 1]
        BY <4>1
      <4>4. h[i] = IF i = 1 THEN s[i] ELSE Joined(g[i - 1], s[i])
        OBVIOUS
      <4> HIDE DEF g, h
      <4> QED
        BY <4>1, <4>2, <4>3, <4>4
    <3> QED
      BY <3>1, <3>2
  <2>3. g = h
    BY <2>2
  <2> HIDE DEF g
  <2>4. Flattens(g, s, m + 1)
    BY <2>3 DEF Flattens
  <2> QED
    BY <2>4
<1> HIDE DEF S
<1>3. 1..n \subseteq S
  BY <1>1, <1>2, SetInduction
<1> QED
  BY <1>3 DEF S

\* FlattenSeq is the last value of the function.
LEMMA FlattenIsLast ==
    ASSUME NEW M, NEW s \in Seq(M), s # <<>>
    PROVE  \E f : Flattens(f, s, Len(s)) /\ FlattenSeq(s) = f[Len(s)]
<1> DEFINE f == CHOOSE f : Flattens(f, s, Len(s))
<1>1. Len(s) \in Nat /\ Len(s) >= 1
  OBVIOUS
<1>2. Flattens(f, s, Len(s))
  BY <1>1, FlattensExists
<1>3. FlattenSeq(s) = f[Len(s)]
  BY <1>1 DEF FlattenSeq, Flattens, Joined
<1> QED
  BY <1>2, <1>3

\* The sequences s and t agree up to n.
Agree(s, t, n) == \A i \in 1..n : s[i] = t[i]

\* Its values depend only on the sequences up to there, and are sequences themselves.
LEMMA FlattensAgree ==
    ASSUME NEW s, NEW t, NEW n \in Nat, NEW m \in Nat, NEW f, NEW g,
           n <= m, Flattens(f, s, n), Flattens(g, t, m), Agree(s, t, n)
    PROVE  Agree(f, g, n)
<1> USE DEF Agree
<1> DEFINE S == {i \in 1..n : f[i] = g[i]}
<1> SUFFICES ASSUME n >= 1 PROVE 1..n \subseteq S
  OBVIOUS
<1>1. 1 \in S
  BY DEF Flattens
<1>2. ASSUME NEW k \in 1..(n - 1), k \in S PROVE k + 1 \in S
  <2>1. f[k + 1] = Joined(f[(k + 1) - 1], s[k + 1])
    BY DEF Flattens
  <2>2. g[k + 1] = Joined(g[(k + 1) - 1], t[k + 1])
    BY DEF Flattens
  <2> QED
    BY <1>2, <2>1, <2>2
<1> HIDE DEF S
<1> QED
  BY <1>1, <1>2, SetInduction

\* The sequences of a sequence are sequences of the same words when joined.
LEMMA FlattensType ==
    ASSUME NEW W, NEW s \in Seq(Seq(W)), NEW n \in 1..Len(s), NEW f, Flattens(f, s, n)
    PROVE  f[n] \in Seq(W)
<1> DEFINE S == {i \in 1..n : f[i] \in Seq(W)}
<1>1. Len(s) \in Nat /\ \A i \in 1..n : s[i] \in Seq(W)
  OBVIOUS
<1>2. 1 \in S
  BY <1>1 DEF Flattens
<1>3. ASSUME NEW k \in 1..(n - 1), k \in S PROVE k + 1 \in S
  <2>1. f[k + 1] = Joined(f[(k + 1) - 1], s[k + 1])
    BY <1>1 DEF Flattens
  <2>2. (k + 1) - 1 = k /\ k + 1 \in 1..n
    BY <1>1
  <2>3. f[k] \in Seq(W) /\ s[k + 1] \in Seq(W)
    BY <1>1, <1>3, <2>2
  <2>4. Joined(f[k], s[k + 1]) \in Seq(W)
    BY <2>3, JoinedFacts
  <2> QED
    BY <2>1, <2>2, <2>4
<1>4. 1..n \subseteq S
  <2>1. n \in Nat /\ 1 \in Nat
    BY <1>1
  <2> HIDE DEF S
  <2> QED
    BY <1>2, <1>3, <2>1, SetInduction
<1> QED
  BY <1>1, <1>4

\* What FlattenSeq makes of one sequence more.
LEMMA FlattenAppend ==
    ASSUME NEW W, NEW s \in Seq(Seq(W)), NEW e \in Seq(W)
    PROVE  /\ FlattenSeq(<<>>) = <<>>
           /\ FlattenSeq(s) \in Seq(W)
           /\ FlattenSeq(Append(s, e)) = Joined(FlattenSeq(s), e)
<1> DEFINE t == Append(s, e)
           n == Len(s)
<1>1. /\ n \in Nat /\ t \in Seq(Seq(W)) /\ t # <<>> /\ Len(t) = n + 1
      /\ t[n + 1] = e /\ \A i \in 1..n : t[i] = s[i]
  BY AppendProperties
<1>2. FlattenSeq(<<>>) = <<>>
  BY DEF FlattenSeq
<1> HIDE DEF t
<1>3. PICK g : Flattens(g, t, n + 1) /\ FlattenSeq(t) = g[n + 1]
  BY <1>1, FlattenIsLast
<1>4. CASE s = <<>>
  <2>1. n = 0 /\ g[1] = t[1]
    BY <1>1, <1>3, <1>4 DEF Flattens
  <2>2. FlattenSeq(t) = e
    BY <1>1, <1>3, <2>1
  <2>3. Joined(<<>>, e) = e /\ <<>> \in Seq(W)
    BY JoinedFacts, EmptySeq
  <2> QED
    BY <1>2, <1>4, <2>2, <2>3 DEF t
<1>5. CASE s # <<>>
  <2>1. PICK f : Flattens(f, s, n) /\ FlattenSeq(s) = f[n]
    BY <1>5, FlattenIsLast
  <2>2. n >= 1 /\ n \in 1..n
    BY <1>1, <1>5, EmptySeq
  <2>3. f[n] = g[n]
    <3>1. n + 1 \in Nat /\ n <= n + 1 /\ Agree(s, t, n)
      BY <1>1 DEF Agree
    <3> DEFINE m == n + 1
    <3>2. n \in Nat /\ Flattens(f, s, n) /\ Flattens(g, t, m) /\ m \in Nat /\ n <= m
      BY <1>1, <1>3, <2>1, <3>1
    <3> HIDE DEF n, m
    <3>3. Agree(f, g, n)
      BY <3>1, <3>2, FlattensAgree, Zenon
    <3> QED
      BY <2>2, <3>3 DEF Agree
  <2>4. g[n + 1] = Joined(g[(n + 1) - 1], t[n + 1])
    <3> HIDE DEF n
    <3> QED
      BY <1>1, <1>3, <2>2 DEF Flattens
  <2>5. FlattenSeq(t) = Joined(f[n], e)
    <3>1. (n + 1) - 1 = n
      BY <1>1
    <3> QED
      BY <1>1, <1>3, <2>3, <2>4, <3>1
  <2>6. f[n] \in Seq(W)
    BY <2>1, <2>2, FlattensType
  <2> QED
    BY <1>2, <2>1, <2>5, <2>6 DEF t
<1> QED
  BY <1>4, <1>5

\* The first k sequences, the next one and what comes after it.
LEMMA FlattenSplit ==
    ASSUME NEW W, NEW s \in Seq(Seq(W)), NEW k \in 0..(Len(s) - 1)
    PROVE  \E rest \in Seq(W) :
             /\ FlattenSeq(s) = Joined(FlattenSeq(SubSeq(s, 1, k)), Joined(s[k + 1], rest))
             /\ k + 1 = Len(s) => rest = <<>>
<1> DEFINE n == Len(s)
           A(j) == SubSeq(s, 1, j)
           F == FlattenSeq(A(k))
           S == {j \in 1..n : \E rest \in Seq(W) : FlattenSeq(A(j)) = Joined(F, Joined(s[k + 1], rest))}
<1>1. n \in Nat /\ k + 1 \in 1..n /\ \A j \in 1..n : s[j] \in Seq(W)
  BY ElementOfSeq, LenProperties
<1>2. \A j \in 0..n : A(j) \in Seq(Seq(W))
  OBVIOUS
<1>3. \A j \in 0..(n - 1) : A(j + 1) = Append(A(j), s[j + 1])
  OBVIOUS
<1>4. A(n) = s
  BY SubSeqFull
<1> HIDE DEF A, n
<1>5. \A j \in 0..(n - 1) : FlattenSeq(A(j + 1)) = Joined(FlattenSeq(A(j)), s[j + 1])
  <2> TAKE j \in 0..(n - 1)
  <2>1. A(j) \in Seq(Seq(W)) /\ s[j + 1] \in Seq(W) /\ A(j + 1) = Append(A(j), s[j + 1])
    BY <1>1, <1>2, <1>3
  <2> QED
    BY <2>1, FlattenAppend, Zenon
<1>6. F \in Seq(W) /\ <<>> \in Seq(W)
  BY <1>1, <1>2, FlattenAppend, EmptySeq
<1>7. s[k + 1] \in Seq(W) /\ Joined(s[k + 1], <<>>) = s[k + 1]
  BY <1>1, JoinedFacts
<1>8. FlattenSeq(A(k + 1)) = Joined(F, Joined(s[k + 1], <<>>))
  BY <1>1, <1>5, <1>7
<1> HIDE DEF F
<1>9. k + 1 \in S
  BY <1>1, <1>6, <1>8
<1>10. ASSUME NEW j \in (k + 1)..(n - 1), j \in S PROVE j + 1 \in S
  <2>1. PICK rest : rest \in Seq(W) /\ FlattenSeq(A(j)) = Joined(F, Joined(s[k + 1], rest))
    BY <1>10
  <2>2. j \in 0..(n - 1) /\ j + 1 \in 1..n
    BY <1>1
  <2>3. s[j + 1] \in Seq(W)
    BY <1>1, <2>2
  <2>4. Joined(rest, s[j + 1]) \in Seq(W) /\ Joined(s[k + 1], rest) \in Seq(W)
    BY <1>7, <2>1, <2>3, JoinedFacts
  <2>5. Joined(Joined(F, Joined(s[k + 1], rest)), s[j + 1]) = Joined(F, Joined(s[k + 1], Joined(rest, s[j + 1])))
    <3> DEFINE b == s[k + 1]
               d == s[j + 1]
    <3>1. F \in Seq(W) /\ b \in Seq(W) /\ rest \in Seq(W) /\ d \in Seq(W) /\ Joined(b, rest) \in Seq(W)
      BY <1>6, <1>7, <2>1, <2>3, <2>4
    <3> HIDE DEF S, b, d
    <3>2. Joined(Joined(b, rest), d) = Joined(b, Joined(rest, d))
      BY <3>1, JoinedFacts
    <3>3. Joined(Joined(F, Joined(b, rest)), d) = Joined(F, Joined(Joined(b, rest), d))
      BY <3>1, JoinedFacts
    <3> QED
      BY <3>2, <3>3 DEF b, d
  <2>6. FlattenSeq(A(j + 1)) = Joined(F, Joined(s[k + 1], Joined(rest, s[j + 1])))
    BY <1>5, <2>1, <2>2, <2>5
  <2> QED
    BY <2>2, <2>4, <2>6
<1>11. n \in S
  <2>1. k + 1 \in Nat /\ n \in (k + 1)..n
    BY <1>1
  <2> HIDE DEF S
  <2>2. (k + 1)..n \subseteq S
    BY <1>1, <1>9, <1>10, <2>1, SetInduction
  <2> QED
    BY <2>1, <2>2
<1>12. CASE k + 1 = n
  BY <1>4, <1>6, <1>8, <1>12 DEF A, n, F
<1>13. CASE k + 1 # n
  BY <1>4, <1>11, <1>13 DEF A, n, F
<1> QED
  BY <1>12, <1>13

\* The elements of a flattened sequence.
LEMMA FlattenElements ==
    ASSUME NEW W, NEW s \in Seq(Seq(W))
    PROVE  /\ FlattenSeq(s) \in Seq(W)
           /\ \A x : x \in ToSet(FlattenSeq(s)) <=> \E k \in 1..Len(s) : x \in ToSet(s[k])
<1> DEFINE n == Len(s)
           A(j) == SubSeq(s, 1, j)
           Has(j) == \A x : x \in ToSet(FlattenSeq(A(j))) <=> \E k \in 1..j : x \in ToSet(s[k])
           S == {j \in 0..n : Has(j)}
<1>1. n \in Nat /\ \A j \in 1..n : s[j] \in Seq(W)
  BY ElementOfSeq, LenProperties
<1>2. \A j \in 0..n : A(j) \in Seq(Seq(W))
  OBVIOUS
<1>3. \A j \in 0..(n - 1) : A(j + 1) = Append(A(j), s[j + 1])
  OBVIOUS
<1>4. A(n) = s /\ A(0) = <<>>
  BY SubSeqFull
<1>5. <<>> \in Seq(W) /\ s \in Seq(Seq(W))
  BY EmptySeq
<1>6. FlattenSeq(<<>>) = <<>> /\ FlattenSeq(s) \in Seq(W)
  BY <1>5, FlattenAppend
<1> HIDE DEF A, n
<1>7. 0 \in S
  <2>1. ToSet(<<>>) = {}
    BY DEF ToSet
  <2>2. 1..0 = {} /\ 0 \in 0..n
    BY <1>1
  <2> QED
    BY <1>4, <1>6, <2>1, <2>2
<1>8. ASSUME NEW j \in 0..(n - 1), j \in S
      PROVE  j + 1 \in S
  <2> DEFINE F == FlattenSeq(A(j))
             e == s[j + 1]
  <2>1. j \in 0..n /\ j + 1 \in 1..n /\ j + 1 \in 0..n
    BY <1>1
  <2>2. A(j) \in Seq(Seq(W)) /\ e \in Seq(W) /\ A(j + 1) = Append(A(j), e)
    BY <1>1, <1>2, <1>3, <2>1
  <2>3. F \in Seq(W) /\ FlattenSeq(A(j + 1)) = Joined(F, e)
    BY <2>2, FlattenAppend
  <2>4. ToSet(F \o e) = ToSet(F) \cup ToSet(e)
    <3> HIDE DEF F, e
    <3> QED
      BY <2>2, <2>3, Extended
  <2>5. \A x : x \in ToSet(F) <=> \E k \in 1..j : x \in ToSet(s[k])
    BY <1>8
  <2>6. 1..j + 1 = 1..j \cup {j + 1}
    BY <2>1
  <2> HIDE DEF F
  <2>7. Has(j + 1)
    BY <2>3, <2>4, <2>5, <2>6 DEF Joined
  <2> QED
    BY <2>1, <2>7
<1>9. n \in S
  <2>1. 0 \in Nat /\ n \in 0..n
    BY <1>1
  <2> HIDE DEF S
  <2>2. 0..n \subseteq S
    BY <1>1, <1>7, <1>8, <2>1, SetInduction
  <2> QED
    BY <2>1, <2>2
<1> QED
  BY <1>4, <1>6, <1>9 DEF n
=============================================================================
