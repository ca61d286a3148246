----------------------------- MODULE DataLemmas -----------------------------
(***************************************************************************)
(* What the proofs need to know of the data they are about: inserting into *)
(* and removing from the sequences that stand for queues, lists and trees, *)
(* and sums over the fields of many objects.  Induction is by the least    *)
(* counterexample.                                                         *)
(***************************************************************************)
EXTENDS Integers, SequencesExt, FiniteSetTheorems, SequenceTheorems, WellFoundedInduction, TLAPS

LEMMA ElementsOf ==
    ASSUME NEW S, NEW s \in Seq(S)
    PROVE  /\ ToSet(s) \subseteq S
           /\ \A i \in 1..Len(s) : s[i] \in ToSet(s)
           /\ \A x \in ToSet(s) : \E i \in 1..Len(s) : s[i] = x
  BY DEF ToSet

LEMMA InsertedAt ==
    ASSUME NEW S, NEW s \in Seq(S), NEW e \in S, NEW i \in 1..(Len(s) + 1)
    PROVE  /\ InsertAt(s, i, e) \in Seq(S)
           /\ Len(InsertAt(s, i, e)) = Len(s) + 1
           /\ \A j \in 1..(i - 1) : InsertAt(s, i, e)[j] = s[j]
           /\ InsertAt(s, i, e)[i] = e
           /\ \A j \in i..Len(s) : InsertAt(s, i, e)[j + 1] = s[j]
<1> DEFINE a == SubSeq(s, 1, i - 1)
           b == SubSeq(s, i, Len(s))
<1>1. a \in Seq(S) /\ Len(a) = i - 1 /\ \A j \in 1..(i - 1) : a[j] = s[j]
  BY SubSeqProperties
<1>2. b \in Seq(S) /\ Len(b) = Len(s) - i + 1 /\ \A j \in 1..Len(b) : b[j] = s[i + j - 1]
  BY SubSeqProperties
<1>3. InsertAt(s, i, e) = a \o <<e>> \o b
  BY DEF InsertAt
<1> HIDE DEF a, b
<1> DEFINE c == a \o <<e>>
<1>4. c \in Seq(S) /\ Len(c) = i /\ \A j \in 1..i : c[j] = IF j < i THEN s[j] ELSE e
  BY <1>1
<1> HIDE DEF c
<1>5. /\ c \o b \in Seq(S) /\ Len(c \o b) = Len(s) + 1
      /\ \A j \in 1..(Len(s) + 1) : (c \o b)[j] = IF j <= i THEN c[j] ELSE b[j - i]
  BY <1>2, <1>4, ConcatProperties
<1> QED
  <2>1. InsertAt(s, i, e) = c \o b
    BY <1>3 DEF c
  <2>2. ASSUME NEW j \in 1..i PROVE (c \o b)[j] = c[j]
    BY <1>5
  <2>3. ASSUME NEW j \in i..Len(s) PROVE (c \o b)[j + 1] = s[j]
    <3>1. j + 1 \in 1..(Len(s) + 1) /\ ~ (j + 1 <= i) /\ (j + 1) - i \in 1..Len(b)
      BY <1>2
    <3>2. (c \o b)[j + 1] = b[(j + 1) - i]
      BY <1>5, <3>1
    <3>3. b[(j + 1) - i] = s[i + ((j + 1) - i) - 1] /\ i + ((j + 1) - i) - 1 = j
      BY <1>2, <3>1
    <3> QED
      BY <3>2, <3>3
  <2> QED
    BY <1>4, <1>5, <2>1, <2>2, <2>3

LEMMA RemovedAt ==
    ASSUME NEW S, NEW s \in Seq(S), NEW i \in 1..Len(s)
    PROVE  /\ RemoveAt(s, i) \in Seq(S)
           /\ Len(RemoveAt(s, i)) = Len(s) - 1
           /\ \A j \in 1..(i - 1) : RemoveAt(s, i)[j] = s[j]
           /\ \A j \in i..(Len(s) - 1) : RemoveAt(s, i)[j] = s[j + 1]
<1> DEFINE a == SubSeq(s, 1, i - 1)
           b == SubSeq(s, i + 1, Len(s))
<1>1. a \in Seq(S) /\ Len(a) = i - 1 /\ \A j \in 1..(i - 1) : a[j] = s[j]
  BY SubSeqProperties
<1>2. b \in Seq(S) /\ Len(b) = Len(s) - i /\ \A j \in 1..Len(b) : b[j] = s[i + j]
  BY SubSeqProperties
<1>3. RemoveAt(s, i) = a \o b
  BY DEF RemoveAt
<1> HIDE DEF a, b
<1>4. /\ a \o b \in Seq(S) /\ Len(a \o b) = Len(s) - 1
      /\ \A j \in 1..(Len(s) - 1) : (a \o b)[j] = IF j <= i - 1 THEN a[j] ELSE b[j - (i - 1)]
  <2>1. Len(a) + Len(b) = Len(s) - 1 /\ Len(a) = i - 1
    BY <1>1, <1>2
  <2>2. /\ a \o b \in Seq(S) /\ Len(a \o b) = Len(a) + Len(b)
        /\ \A j \in 1..(Len(a) + Len(b)) :
              (a \o b)[j] = IF j <= Len(a) THEN a[j] ELSE b[j - Len(a)]
    BY <1>1, <1>2, ConcatProperties
  <2> QED
    BY <2>1, <2>2
<1>5. ASSUME NEW j \in 1..(i - 1) PROVE (a \o b)[j] = s[j]
  BY <1>1, <1>4
<1>6. ASSUME NEW j \in i..(Len(s) - 1) PROVE (a \o b)[j] = s[j + 1]
  <2>1. j - (i - 1) \in 1..Len(b) /\ i + (j - (i - 1)) = j + 1
    BY <1>2
  <2>2. b[j - (i - 1)] = s[i + (j - (i - 1))]
    BY <1>2, <2>1
  <2> QED
    BY <1>4, <2>1, <2>2
<1> QED
  BY <1>3, <1>4, <1>5, <1>6

LEMMA InsertedElements ==
    ASSUME NEW S, NEW s \in Seq(S), NEW e \in S, NEW i \in 1..(Len(s) + 1)
    PROVE  ToSet(InsertAt(s, i, e)) = ToSet(s) \cup {e}
<1> DEFINE t == InsertAt(s, i, e)
<1>0. Len(s) \in Nat /\ i \in Int
  OBVIOUS
<1>1. /\ t \in Seq(S) /\ Len(t) = Len(s) + 1
      /\ \A j \in 1..(i - 1) : t[j] = s[j]
      /\ t[i] = e
      /\ \A j \in i..Len(s) : t[j + 1] = s[j]
  BY InsertedAt
<1> HIDE DEF t
<1>2. ASSUME NEW j \in 1..Len(t) PROVE t[j] \in ToSet(s) \cup {e}
  <2>1. CASE j < i
    <3>1. j \in 1..(i - 1) /\ j \in 1..Len(s)
      BY <1>0, <1>1, <2>1
    <3> QED
      BY <1>1, <3>1, ElementsOf
  <2>2. CASE j = i
    BY <1>1, <2>2
  <2>3. CASE j > i
    <3>1. j - 1 \in i..Len(s) /\ j - 1 \in 1..Len(s) /\ j = (j - 1) + 1
      BY <1>0, <1>1, <2>3
    <3>2. t[j] = s[j - 1]
      BY <1>1, <3>1
    <3> QED
      BY <3>1, <3>2, ElementsOf
  <2> QED
    BY <1>0, <2>1, <2>2, <2>3
<1>3. e \in ToSet(t)
  <2>1. i \in 1..Len(t)
    BY <1>0, <1>1
  <2> QED
    BY <1>1, <2>1, ElementsOf
<1>4. ASSUME NEW j \in 1..Len(s) PROVE s[j] \in ToSet(t)
  <2>1. CASE j < i
    <3>1. j \in 1..(i - 1) /\ j \in 1..Len(t)
      BY <1>0, <1>1, <2>1
    <3> QED
      BY <1>1, <3>1, ElementsOf
  <2>2. CASE ~ (j < i)
    <3>1. j \in i..Len(s) /\ j + 1 \in 1..Len(t)
      BY <1>0, <1>1, <2>2
    <3> QED
      BY <1>1, <3>1, ElementsOf
  <2> QED
    BY <2>1, <2>2
<1>5. ToSet(t) \subseteq ToSet(s) \cup {e}
  BY <1>1, <1>2, ElementsOf
<1>6. ToSet(s) \subseteq ToSet(t)
  BY <1>4, ElementsOf
<1> QED
  BY <1>3, <1>5, <1>6 DEF t

\* Where an element of the shorter sequence comes from.
LEMMA RemovedElements ==
    ASSUME NEW S, NEW s \in Seq(S), NEW i \in 1..Len(s),
           \A a, b \in 1..Len(s) : s[a] = s[b] => a = b
    PROVE  /\ ToSet(RemoveAt(s, i)) = ToSet(s) \ {s[i]}
           /\ \A a, b \in 1..Len(RemoveAt(s, i)) : RemoveAt(s, i)[a] = RemoveAt(s, i)[b] => a = b
<1> DEFINE t == RemoveAt(s, i)
           from(j) == IF j < i THEN j ELSE j + 1
<1>0. Len(s) \in Nat /\ i \in Int
  OBVIOUS
<1>1. /\ t \in Seq(S) /\ Len(t) = Len(s) - 1
      /\ \A j \in 1..(i - 1) : t[j] = s[j]
      /\ \A j \in i..(Len(s) - 1) : t[j] = s[j + 1]
  BY RemovedAt
<1> HIDE DEF t
<1>2. ASSUME NEW j \in 1..Len(t)
      PROVE  from(j) \in 1..Len(s) /\ from(j) # i /\ t[j] = s[from(j)]
  <2>1. CASE j < i
    <3>1. j \in 1..(i - 1) /\ j \in 1..Len(s) /\ j # i
      BY <1>0, <1>1, <2>1
    <3> QED
      BY <1>1, <2>1, <3>1
  <2>2. CASE ~ (j < i)
    <3>1. j \in i..(Len(s) - 1) /\ j + 1 \in 1..Len(s) /\ j + 1 # i
      BY <1>0, <1>1, <2>2
    <3>2. from(j) = j + 1 /\ t[j] = s[j + 1]
      BY <1>1, <2>2, <3>1
    <3> QED
      BY <3>1, <3>2
  <2> QED
    BY <2>1, <2>2
<1>3. ASSUME NEW a \in 1..Len(t), NEW b \in 1..Len(t), from(a) = from(b) PROVE a = b
  <2>1. a \in Int /\ b \in Int
    BY <1>0, <1>1
  <2> QED
    BY <1>0, <1>3, <2>1
<1> HIDE DEF from
<1>4. ASSUME NEW j \in 1..Len(s), j # i PROVE s[j] \in ToSet(t)
  <2>1. CASE j < i
    <3>1. j \in 1..(i - 1) /\ j \in 1..Len(t)
      BY <1>0, <1>1, <2>1
    <3> QED
      BY <1>1, <3>1, ElementsOf
  <2>2. CASE j > i
    <3>1. j - 1 \in i..(Len(s) - 1) /\ j - 1 \in 1..Len(t) /\ (j - 1) + 1 = j
      BY <1>0, <1>1, <2>2
    <3>2. t[j - 1] = s[j]
      BY <1>1, <3>1
    <3> QED
      BY <1>1, <3>1, <3>2, ElementsOf
  <2> QED
    BY <1>0, <1>4, <2>1, <2>2
<1>5. ToSet(t) \subseteq ToSet(s) \ {s[i]}
  <2> SUFFICES ASSUME NEW j \in 1..Len(t) PROVE t[j] \in ToSet(s) /\ t[j] # s[i]
    BY <1>1, ElementsOf
  <2> QED
    BY <1>2, ElementsOf
<1>6. ToSet(s) \ {s[i]} \subseteq ToSet(t)
  <2> SUFFICES ASSUME NEW j \in 1..Len(s), s[j] # s[i] PROVE s[j] \in ToSet(t)
    BY ElementsOf
  <2> QED
    BY <1>4
<1>7. \A a, b \in 1..Len(t) : t[a] = t[b] => a = b
  BY <1>2, <1>3
<1> QED
  BY <1>5, <1>6, <1>7 DEF t

LEMMA AppendedElements ==
    ASSUME NEW S, NEW s \in Seq(S), NEW e \in S
    PROVE  /\ Append(s, e) \in Seq(S) /\ Len(Append(s, e)) = Len(s) + 1
           /\ ToSet(Append(s, e)) = ToSet(s) \cup {e}
           /\ (\A a, b \in 1..Len(s) : s[a] = s[b] => a = b) /\ e \notin ToSet(s)
                 => \A a, b \in 1..Len(Append(s, e)) : Append(s, e)[a] = Append(s, e)[b] => a = b
<1> DEFINE t == Append(s, e)
<1>1. /\ t \in Seq(S) /\ Len(t) = Len(s) + 1 /\ Len(s) \in Nat
      /\ \A j \in 1..Len(s) : t[j] = s[j]
      /\ t[Len(s) + 1] = e
  BY AppendProperties
<1> HIDE DEF t
<1>2. ASSUME NEW j \in 1..Len(t) PROVE j \in 1..Len(s) \/ j = Len(s) + 1
  BY <1>1
<1>3. ToSet(t) \subseteq ToSet(s) \cup {e}
  <2> SUFFICES ASSUME NEW j \in 1..Len(t) PROVE t[j] \in ToSet(s) \cup {e}
    BY <1>1, ElementsOf
  <2> QED
    BY <1>1, <1>2, ElementsOf
<1>4. ToSet(s) \cup {e} \subseteq ToSet(t)
  <2>1. Len(s) + 1 \in 1..Len(t) /\ \A j \in 1..Len(s) : j \in 1..Len(t)
    BY <1>1
  <2>2. e \in ToSet(t)
    BY <1>1, <2>1, ElementsOf
  <2>3. ASSUME NEW j \in 1..Len(s) PROVE s[j] \in ToSet(t)
    BY <1>1, <2>1, ElementsOf
  <2> QED
    BY <2>2, <2>3, ElementsOf
<1>5. ASSUME \A a, b \in 1..Len(s) : s[a] = s[b] => a = b, e \notin ToSet(s),
             NEW a \in 1..Len(t), NEW b \in 1..Len(t), t[a] = t[b]
      PROVE  a = b
  <2>1. \A j \in 1..Len(s) : s[j] # e
    BY <1>5, ElementsOf
  <2> QED
    BY <1>1, <1>2, <1>5, <2>1
<1> QED
  BY <1>1, <1>3, <1>4, <1>5 DEF t

LEMMA NoElements == ToSet(<< >>) = {}
  BY DEF ToSet

\* The induction behind what follows: of some numbers one is the least.
LEMMA LeastNat ==
    ASSUME NEW T \in SUBSET Nat, T # {}
    PROVE  \E n \in T : \A m \in T : n <= m
<1>1. \E x \in T : \A y \in T : ~ (<<y, x>> \in OpToRel(<, Nat))
  BY WFMin, NatLessThanWellFounded, Zenon
<1>2. PICK x \in T : \A y \in T : ~ (<<y, x>> \in OpToRel(<, Nat))
  BY <1>1
<1>3. ASSUME NEW y \in T PROVE ~ (y < x)
  <2>1. <<y, x>> \notin OpToRel(<, Nat) /\ <<y, x>> \in Nat \X Nat
    BY <1>2
  <2>2. <<y, x>>[1] = y /\ <<y, x>>[2] = x
    OBVIOUS
  <2> QED
    BY <2>1, <2>2, Zenon DEF OpToRel
<1> QED
  BY <1>3

\* A set of positions that holds all those before each of its own.
LEMMA InitialPositions ==
    ASSUME NEW n \in Nat, NEW C \in SUBSET (1..n),
           \A j \in C : \A i \in 1..j : i \in C
    PROVE  Cardinality(C) \in 0..n /\ C = 1..Cardinality(C)
<1> DEFINE D == {x \in 1..(n + 1) : x \notin C}
<1>1. D \in SUBSET Nat /\ D # {}
  <2>1. n + 1 \in D
    OBVIOUS
  <2> QED
    BY <2>1
<1>2. PICK d \in D : \A x \in D : d <= x
  <2> HIDE DEF D
  <2> QED
    BY <1>1, LeastNat
<1>3. ASSUME NEW j \in 1..n PROVE j \in C <=> j <= d - 1
  <2>1. CASE j <= d - 1
    BY <1>2, <2>1
  <2>2. CASE ~ (j <= d - 1)
    <3>1. d \in 1..j
      BY <2>2
    <3> QED
      BY <2>2, <3>1
  <2> QED
    BY <2>1, <2>2
<1>4. C = 1..(d - 1) /\ d - 1 \in 0..n
  <2>1. d \in 1..(n + 1)
    OBVIOUS
  <2>2. 1..(d - 1) \subseteq 1..n
    BY <2>1
  <2>3. \A j \in 1..n : j \in 1..(d - 1) <=> j <= d - 1
    BY <2>1
  <2>4. C = 1..(d - 1)
    BY <1>3, <2>2, <2>3, Zenon
  <2> QED
    BY <2>1, <2>4
<1>5. Cardinality(1..(d - 1)) = d - 1
  <2>1. 1 \in Int /\ d - 1 \in Int /\ d >= 1
    OBVIOUS
  <2> QED
    BY <2>1, FS_Interval
<1> QED
  BY <1>4, <1>5

LEMMA TailRemovesFirst ==
    ASSUME NEW S, NEW s \in Seq(S), s # << >>
    PROVE  Tail(s) = RemoveAt(s, 1) /\ 1 \in 1..Len(s) /\ Head(s) = s[1]
<1>1. 1 \in 1..Len(s) /\ Head(s) = s[1]
  BY EmptySeq
<1>2. /\ RemoveAt(s, 1) \in Seq(S) /\ Len(RemoveAt(s, 1)) = Len(s) - 1
      /\ \A j \in 1..(Len(s) - 1) : RemoveAt(s, 1)[j] = s[j + 1]
  BY <1>1, RemovedAt
<1>3. /\ Tail(s) \in Seq(S) /\ Len(Tail(s)) = Len(s) - 1
      /\ \A j \in 1..(Len(s) - 1) : Tail(s)[j] = s[j + 1]
  BY <1>1, HeadTailProperties
<1> QED
  BY <1>1, <1>2, <1>3, SeqEqual
-----------------------------------------------------------------------------
(***************************************************************************)
(* Sums.  SumFunctionOnSet() is a recursive function on the subsets of a   *)
(* set, which takes its elements one by one.                               *)
(***************************************************************************)

anyOf(s) == CHOOSE x \in s : TRUE
othersOf(s) == s \ {anyOf(s)}
summand(f, g, s) == IF s = {} THEN 0 ELSE f[anyOf(s)] + g[othersOf(s)]

SumsUp(f, g, S) == /\ g \in [SUBSET S -> Int]
                   /\ SumFunctionOnSet(f, S) = g[S]
                   /\ \A s \in SUBSET S : g[s] = summand(f, g, s)

LEMMA RestIsSmaller ==
    ASSUME NEW S, IsFiniteSet(S), NEW s \in SUBSET S, s # {}
    PROVE  /\ anyOf(s) \in s /\ othersOf(s) \in SUBSET S
           /\ Cardinality(s) \in Nat /\ Cardinality(othersOf(s)) \in Nat
           /\ Cardinality(othersOf(s)) = Cardinality(s) - 1
<1>1. anyOf(s) \in s
  BY DEF anyOf
<1>2. IsFiniteSet(s)
  BY FS_Subset
<1> QED
  BY <1>1, <1>2, FS_RemoveElement, FS_CardinalityType DEF othersOf

\* What holds of the empty set, and of a set when it holds of the rest of it,
\* holds of all: P is the set of the sets it holds of.
LEMMA SubsetInduction ==
    ASSUME NEW S, IsFiniteSet(S), NEW P \in SUBSET (SUBSET S), {} \in P,
           \A s \in SUBSET S : s # {} /\ othersOf(s) \in P => s \in P
    PROVE  P = SUBSET S
<1> DEFINE Bad == {n \in Nat : \E s \in SUBSET S : s \notin P /\ Cardinality(s) = n}
<1> SUFFICES ASSUME NEW t \in SUBSET S, t \notin P PROVE FALSE
  OBVIOUS
<1>1. Bad \in SUBSET Nat /\ Bad # {}
  <2>1. Cardinality(t) \in Nat
    BY FS_Subset, FS_CardinalityType
  <2> QED
    BY <2>1
<1>2. PICK n \in Bad : \A m \in Bad : n <= m
  <2> HIDE DEF Bad
  <2> QED
    BY <1>1, LeastNat
<1>3. PICK s \in SUBSET S : s \notin P /\ Cardinality(s) = n
  OBVIOUS
<1>4. s # {} /\ othersOf(s) \in SUBSET S /\ othersOf(s) \notin P
  BY <1>3, RestIsSmaller
<1>5. Cardinality(othersOf(s)) \in Bad /\ Cardinality(othersOf(s)) < n /\ Cardinality(othersOf(s)) \in Nat
  BY <1>3, <1>4, RestIsSmaller
<1> QED
  BY <1>2, <1>5

LEMMA SumRecursion ==
    ASSUME NEW S, IsFiniteSet(S), NEW f \in [S -> Int]
    PROVE  \E g : SumsUp(f, g, S)
<1> DEFINE Until(n) == \E g \in [SUBSET S -> Int] : \A s \in SUBSET S :
                          Cardinality(s) <= n => g[s] = summand(f, g, s)
           Bad == {n \in Nat : ~ Until(n)}
<1>0. \A s \in SUBSET S : Cardinality(s) \in Nat
  BY FS_Subset, FS_CardinalityType
<1>1. Bad = {}
  <2> SUFFICES ASSUME Bad # {} PROVE FALSE
    OBVIOUS
  <2>1. PICK n \in Bad : \A m \in Bad : n <= m
    <3>1. Bad \in SUBSET Nat
      OBVIOUS
    <3> HIDE DEF Bad
    <3> QED
      BY <3>1, LeastNat
  <2>2. n \in Nat /\ ~ Until(n)
    OBVIOUS
  <2>3. CASE n = 0
    <3> DEFINE g == [s \in SUBSET S |-> 0]
    <3>1. g \in [SUBSET S -> Int]
      OBVIOUS
    <3>2. ASSUME NEW s \in SUBSET S, Cardinality(s) <= 0 PROVE g[s] = summand(f, g, s)
      <4>1. s = {}
        BY <1>0, <3>2, FS_Subset, FS_EmptySet
      <4> QED
        BY <4>1 DEF summand
    <3> HIDE DEF g
    <3> QED
      BY <2>2, <2>3, <3>1, <3>2
  <2>4. CASE n # 0
    <3>1. n - 1 \in Nat /\ n - 1 \notin Bad
      <4> HIDE DEF Bad, Until
      <4> QED
        BY <2>1, <2>2, <2>4
    <3>2. Until(n - 1)
      BY <3>1
    <3>3. PICK h \in [SUBSET S -> Int] : \A s \in SUBSET S :
                  Cardinality(s) <= n - 1 => h[s] = summand(f, h, s)
      BY <3>2
    <3> DEFINE g == [s \in SUBSET S |-> IF Cardinality(s) <= n - 1 THEN h[s] ELSE summand(f, h, s)]
    <3>4. ASSUME NEW s \in SUBSET S
          PROVE  /\ summand(f, h, s) \in Int
                 /\ Cardinality(s) <= n => summand(f, h, s) = summand(f, g, s)
      <4>1. CASE s = {}
        BY <4>1 DEF summand
      <4>2. CASE s # {}
        <5>1. /\ anyOf(s) \in S /\ othersOf(s) \in SUBSET S
              /\ Cardinality(s) <= n => Cardinality(othersOf(s)) <= n - 1
          BY <2>2, <4>2, RestIsSmaller
        <5>2. Cardinality(s) <= n => g[othersOf(s)] = h[othersOf(s)]
          BY <5>1
        <5> QED
          BY <4>2, <5>1, <5>2 DEF summand
      <4> QED
        BY <4>1, <4>2
    <3>5. g \in [SUBSET S -> Int]
      BY <3>4
    <3>6. ASSUME NEW s \in SUBSET S, Cardinality(s) <= n PROVE g[s] = summand(f, g, s)
      BY <3>3, <3>4, <3>6
    <3> HIDE DEF g
    <3> QED
      BY <2>2, <3>5, <3>6
  <2> QED
    BY <2>3, <2>4
<1> DEFINE Rec(g) == g = [s \in SUBSET S |-> summand(f, g, s)]
<1>2. \E g : Rec(g)
  <2>1. Cardinality(S) \in Nat /\ \A s \in SUBSET S : Cardinality(s) <= Cardinality(S)
    BY FS_Subset, FS_CardinalityType
  <2>2. Until(Cardinality(S))
    BY <1>1, <2>1
  <2>3. PICK g \in [SUBSET S -> Int] : \A s \in SUBSET S : g[s] = summand(f, g, s)
    BY <2>1, <2>2
  <2> QED
    BY <2>3
<1> DEFINE h == CHOOSE g : Rec(g)
<1>3. Rec(h)
  BY <1>2
<1>4. SumFunctionOnSet(f, S) = h[S]
  BY DEF SumFunctionOnSet, FoldFunctionOnSet, MapThenFoldSet, summand, anyOf, othersOf
<1> HIDE DEF h
<1>5. \A s \in SUBSET S : h[s] = summand(f, h, s)
  BY <1>3
<1>6. h \in [SUBSET S -> Int]
  <2> DEFINE P == {s \in SUBSET S : h[s] \in Int}
  <2>1. {} \in P
    BY <1>5 DEF summand
  <2>2. ASSUME NEW s \in SUBSET S, s # {}, othersOf(s) \in P PROVE s \in P
    BY <1>5, <2>2, RestIsSmaller DEF summand
  <2>3. P = SUBSET S
    <3> HIDE DEF P
    <3>1. P \in SUBSET (SUBSET S)
      BY DEF P
    <3> QED
      BY <2>1, <2>2, <3>1, SubsetInduction
  <2> QED
    BY <1>3, <2>3
<1> QED
  BY <1>4, <1>5, <1>6 DEF SumsUp

\* One field changes: the sum changes by as much.
LEMMA SumChange ==
    ASSUME NEW S, IsFiniteSet(S), NEW f \in [S -> Int], NEW x \in S, NEW v \in Int
    PROVE  /\ SumFunctionOnSet(f, S) \in Int
           /\ SumFunctionOnSet([f EXCEPT ![x] = v], S) = SumFunctionOnSet(f, S) + v - f[x]
<1> DEFINE f2 == [f EXCEPT ![x] = v]
<1>1. PICK g : SumsUp(f, g, S)
  BY SumRecursion
<1>2. f2 \in [S -> Int] /\ f2[x] = v /\ \A y \in S : y # x => f2[y] = f[y]
  OBVIOUS
<1> HIDE DEF f2
<1>3. PICK h : SumsUp(f2, h, S)
  BY <1>2, SumRecursion
<1>a. g \in [SUBSET S -> Int] /\ h \in [SUBSET S -> Int]
  BY <1>1, <1>3 DEF SumsUp
<1> DEFINE delta(s) == IF x \in s THEN v - f[x] ELSE 0
           P == {s \in SUBSET S : h[s] = g[s] + delta(s)}
<1>4. {} \in P
  <2>1. h[{}] = 0 /\ g[{}] = 0
    BY <1>1, <1>3 DEF SumsUp, summand
  <2> QED
    BY <2>1
<1>5. ASSUME NEW s \in SUBSET S, s # {}, othersOf(s) \in P PROVE s \in P
  <2>1. /\ anyOf(s) \in s /\ anyOf(s) \in S /\ othersOf(s) \in SUBSET S
        /\ othersOf(s) = s \ {anyOf(s)}
    BY <1>5, RestIsSmaller DEF othersOf
  <2>2. h[s] = f2[anyOf(s)] + h[othersOf(s)] /\ g[s] = f[anyOf(s)] + g[othersOf(s)]
    BY <1>1, <1>3, <1>5 DEF SumsUp, summand
  <2>3. h[othersOf(s)] = g[othersOf(s)] + delta(othersOf(s))
    BY <1>5
  <2>4. CASE anyOf(s) = x
    <3>1. delta(s) = v - f[x] /\ delta(othersOf(s)) = 0
      BY <2>1, <2>4
    <3> QED
      BY <1>2, <1>a, <2>1, <2>2, <2>3, <2>4, <3>1
  <2>5. CASE anyOf(s) # x
    <3>1. delta(s) = delta(othersOf(s)) /\ delta(s) \in Int
      BY <2>1, <2>5
    <3>2. f2[anyOf(s)] = f[anyOf(s)]
      BY <1>2, <2>1, <2>5
    <3> QED
      BY <1>a, <2>1, <2>2, <2>3, <3>1, <3>2
  <2> QED
    BY <2>4, <2>5
<1>6. P = SUBSET S
  <2>1. P \in SUBSET (SUBSET S)
    OBVIOUS
  <2> HIDE DEF P
  <2> QED
    BY <1>4, <1>5, <2>1, SubsetInduction
<1>7. h[S] = g[S] + (v - f[x])
  <2>1. S \in P
    BY <1>6
  <2> QED
    BY <2>1
<1> QED
  BY <1>1, <1>3, <1>7, <1>a DEF f2, SumsUp

LEMMA SumOfNaturals ==
    ASSUME NEW S, IsFiniteSet(S), NEW f \in [S -> Nat]
    PROVE  SumFunctionOnSet(f, S) \in Nat
<1>0. f \in [S -> Int]
  OBVIOUS
<1>1. PICK g : SumsUp(f, g, S)
  BY <1>0, SumRecursion
<1> DEFINE P == {s \in SUBSET S : g[s] \in Nat}
<1>2. {} \in P
  BY <1>1 DEF SumsUp, summand
<1>3. ASSUME NEW s \in SUBSET S, s # {}, othersOf(s) \in P PROVE s \in P
  BY <1>1, <1>3, RestIsSmaller DEF SumsUp, summand
<1>4. P = SUBSET S
  <2>1. P \in SUBSET (SUBSET S)
    OBVIOUS
  <2> HIDE DEF P
  <2> QED
    BY <1>2, <1>3, <2>1, SubsetInduction
<1> QED
  BY <1>1, <1>4 DEF SumsUp

LEMMA SumOfZeros ==
    ASSUME NEW S, IsFiniteSet(S)
    PROVE  SumFunctionOnSet([x \in S |-> 0], S) = 0
<1> DEFINE f == [x \in S |-> 0]
<1>0. f \in [S -> Int] /\ \A x \in S : f[x] = 0
  OBVIOUS
<1> HIDE DEF f
<1>1. PICK g : SumsUp(f, g, S)
  BY <1>0, SumRecursion
<1> DEFINE P == {s \in SUBSET S : g[s] = 0}
<1>2. {} \in P
  BY <1>1 DEF SumsUp, summand
<1>3. ASSUME NEW s \in SUBSET S, s # {}, othersOf(s) \in P PROVE s \in P
  BY <1>0, <1>1, <1>3, RestIsSmaller DEF SumsUp, summand
<1>4. P = SUBSET S
  <2>1. P \in SUBSET (SUBSET S)
    OBVIOUS
  <2> HIDE DEF P
  <2> QED
    BY <1>2, <1>3, <2>1, SubsetInduction
<1> QED
  BY <1>1, <1>4 DEF f, SumsUp

\* Two functions that differ in one place have sums that differ by as much.
LEMMA NatSumChange ==
    ASSUME NEW S, IsFiniteSet(S), NEW f \in [S -> Nat], NEW g \in [S -> Nat], NEW x \in S,
           \A y \in S : y # x => g[y] = f[y]
    PROVE  /\ SumFunctionOnSet(f, S) \in Nat /\ SumFunctionOnSet(g, S) \in Nat
           /\ SumFunctionOnSet(g, S) = SumFunctionOnSet(f, S) + g[x] - f[x]
<1>1. f \in [S -> Int] /\ g[x] \in Int
  OBVIOUS
<1>2. g = [f EXCEPT ![x] = g[x]]
  OBVIOUS
<1>3. SumFunctionOnSet([f EXCEPT ![x] = g[x]], S) = SumFunctionOnSet(f, S) + g[x] - f[x]
  BY <1>1, SumChange, Zenon
<1>4. SumFunctionOnSet(f, S) \in Nat /\ SumFunctionOnSet(g, S) \in Nat
  BY SumOfNaturals
<1> QED
  BY <1>2, <1>3, <1>4, Zenon
=============================================================================
