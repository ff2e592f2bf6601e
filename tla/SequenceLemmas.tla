--------------------------- MODULE SequenceLemmas ---------------------------
(***************************************************************************)
(* What the proofs about queues and streams need of natural numbers and of *)
(* the operators on sequences: induction, as a fact about a set of numbers, *)
(* the removal of an element, the number of different elements.            *)
(***************************************************************************)
EXTENDS SequencesExt, Integers, FiniteSetTheorems, SequenceTheorems,
        WellFoundedInduction, TLAPS

-----------------------------------------------------------------------------
(* Natural numbers                                                         *)

LEMMA LessThanWellFounded ==
  \E R : /\ IsWellFoundedOn(R, Nat)
         /\ \A x, y \in Nat : <<y, x>> \in R <=> y < x
<1>1. \A x, y \in Nat : <<y, x>> \in OpToRel(<, Nat) <=> y < x
  BY DEF OpToRel
<1>2. QED BY <1>1, NatLessThanWellFounded

LEMMA LeastElement ==
  ASSUME NEW T \in SUBSET Nat, T # {}
  PROVE  \E x \in T : \A y \in T : x <= y
<1>1. PICK R : /\ IsWellFoundedOn(R, Nat)
               /\ \A x, y \in Nat : <<y, x>> \in R <=> y < x
  BY LessThanWellFounded
<1>2. PICK x \in T : \A y \in T : ~ (<<y, x>> \in R)
  BY <1>1, WFMin
<1>3. ASSUME NEW y \in T PROVE x <= y
  <2>1. x \in Nat /\ y \in Nat /\ ~ (y < x)
    BY <1>1, <1>2
  <2>2. QED BY <2>1
<1>4. QED BY <1>3

\* Induction: a set with zero and every successor has all natural numbers.
LEMMA SetInduction ==
  ASSUME NEW T, 0 \in T, \A n \in Nat : n \in T => n + 1 \in T
  PROVE  Nat \subseteq T
<1> SUFFICES ASSUME NEW m \in Nat, m \notin T PROVE FALSE
  OBVIOUS
<1> DEFINE F == {n \in Nat : n \notin T}
<1>1. F \in SUBSET Nat /\ F # {}
  OBVIOUS
<1>2. PICK x \in F : \A y \in F : x <= y
  BY <1>1, LeastElement
<1>3. x # 0 /\ x \in Nat
  BY <1>2
<1>4. x - 1 \in Nat /\ x - 1 \notin F
  BY <1>2, <1>3
<1>5. QED BY <1>2, <1>3, <1>4

\* ... and a set with one and every successor up to n has the numbers up to n.
LEMMA RangeInduction ==
  ASSUME NEW n \in Nat, NEW T, 1 \in T, \A i \in 2 .. n : i - 1 \in T => i \in T
  PROVE  1 .. n \subseteq T
<1> SUFFICES ASSUME NEW m \in 1 .. n, m \notin T PROVE FALSE
  OBVIOUS
<1> DEFINE F == {i \in 1 .. n : i \notin T}
<1>1. F \in SUBSET Nat /\ F # {}
  OBVIOUS
<1>2. PICK x \in F : \A y \in F : x <= y
  BY <1>1, LeastElement
<1>3. x \in 2 .. n /\ x - 1 \in 1 .. n /\ ~ (x <= x - 1)
  BY <1>2
<1>4. x - 1 \notin F
  BY <1>2, <1>3
<1>5. QED BY <1>2, <1>3, <1>4

-----------------------------------------------------------------------------
(* Sequences                                                               *)

LEMMA RemoveAtProperties ==
  ASSUME NEW S, NEW s \in Seq(S), NEW i \in 1 .. Len(s)
  PROVE  /\ RemoveAt(s, i) \in Seq(S)
         /\ Len(RemoveAt(s, i)) = Len(s) - 1
         /\ \A j \in 1 .. Len(s) - 1 :
              RemoveAt(s, i)[j] = IF j < i THEN s[j] ELSE s[j + 1]
<1> DEFINE a == SubSeq(s, 1, i - 1)
           b == SubSeq(s, i + 1, Len(s))
<1>1. Len(s) \in Nat /\ i \in Nat /\ i >= 1 /\ i <= Len(s)
      /\ \A j \in 1 .. Len(s) : s[j] \in S
  OBVIOUS
<1>2. /\ a \in Seq(S) /\ Len(a) = i - 1
      /\ \A j \in 1 .. i - 1 : a[j] = s[j]
  <2>1. \A j \in 1 .. i - 1 : s[j] \in S
    BY <1>1
  <2>2. QED BY <1>1, <2>1, SubSeqProperties
<1>3. /\ b \in Seq(S) /\ Len(b) = Len(s) - i
      /\ \A j \in 1 .. Len(s) - i : b[j] = s[i + j]
  <2>1. \A j \in i + 1 .. Len(s) : s[j] \in S
    BY <1>1
  <2>2. /\ b \in Seq(S)
        /\ Len(b) = IF i + 1 <= Len(s) THEN Len(s) - (i + 1) + 1 ELSE 0
        /\ \A j \in 1 .. Len(s) - (i + 1) + 1 : b[j] = s[(i + 1) + j - 1]
    BY <1>1, <2>1, SubSeqProperties
  <2>3. QED BY <1>1, <2>2
<1>4. /\ a \o b \in Seq(S) /\ Len(a \o b) = Len(a) + Len(b)
      /\ \A j \in 1 .. Len(a) + Len(b) :
           (a \o b)[j] = IF j <= Len(a) THEN a[j] ELSE b[j - Len(a)]
  BY <1>2, <1>3, ConcatProperties
<1>5. RemoveAt(s, i) = a \o b
  BY DEF RemoveAt
<1> HIDE DEF a, b
<1>6. ASSUME NEW j \in 1 .. Len(s) - 1
      PROVE  (a \o b)[j] = IF j < i THEN s[j] ELSE s[j + 1]
  <2>1. (a \o b)[j] = IF j <= Len(a) THEN a[j] ELSE b[j - Len(a)]
    BY <1>1, <1>2, <1>3, <1>4
  <2>2. CASE j < i
    BY <1>1, <1>2, <2>1, <2>2
  <2>3. CASE ~ (j < i)
    <3>1. j - Len(a) = j - i + 1 /\ j - i + 1 \in 1 .. Len(s) - i /\ ~ (j <= Len(a))
      BY <1>1, <1>2, <2>3
    <3>2. b[j - i + 1] = s[i + (j - i + 1)]
      BY <1>3, <3>1
    <3>3. i + (j - i + 1) = j + 1
      BY <1>1
    <3>4. QED BY <2>1, <2>3, <3>1, <3>2, <3>3
  <2>4. QED BY <2>2, <2>3
<1>7. Len(a) + Len(b) = Len(s) - 1
  BY <1>1, <1>2, <1>3
<1>8. QED BY <1>4, <1>5, <1>6, <1>7

LEMMA ToSetProperties ==
  ASSUME NEW S, NEW s \in Seq(S)
  PROVE  /\ ToSet(s) = {s[i] : i \in 1 .. Len(s)}
         /\ ToSet(s) \subseteq S
         /\ s = <<>> <=> Len(s) = 0
         /\ s = <<>> <=> ToSet(s) = {}
<1>1. DOMAIN s = 1 .. Len(s) /\ Len(s) \in Nat /\ \A i \in 1 .. Len(s) : s[i] \in S
  OBVIOUS
<1>2. s = <<>> <=> Len(s) = 0
  BY EmptySeq
<1>3. ToSet(s) = {s[i] : i \in 1 .. Len(s)}
  BY <1>1 DEF ToSet
<1>4. ToSet(s) \subseteq S
  BY <1>1, <1>3
<1>5. Len(s) # 0 => s[1] \in ToSet(s)
  BY <1>1, <1>3
<1>6. Len(s) = 0 => ToSet(s) = {}
  BY <1>1, <1>3
<1>7. QED BY <1>2, <1>3, <1>4, <1>5, <1>6

LEMMA ToSetAppend ==
  ASSUME NEW S, NEW s \in Seq(S), NEW e \in S
  PROVE  ToSet(Append(s, e)) = ToSet(s) \union {e}
<1>1. /\ Append(s, e) \in Seq(S) /\ Len(Append(s, e)) = Len(s) + 1 /\ Len(s) \in Nat
      /\ \A i \in 1 .. Len(s) : Append(s, e)[i] = s[i]
      /\ Append(s, e)[Len(s) + 1] = e
  BY AppendProperties, LenProperties
<1>2. 1 .. Len(s) + 1 = (1 .. Len(s)) \union {Len(s) + 1}
  BY <1>1
<1>3. DOMAIN Append(s, e) = 1 .. Len(s) + 1 /\ DOMAIN s = 1 .. Len(s)
  BY <1>1, LenProperties
<1>4. QED BY <1>1, <1>2, <1>3 DEF ToSet

\* A sequence without repetitions has as many elements as it is long.
LEMMA DistinctElements ==
  ASSUME NEW S, NEW s \in Seq(S), \A i, j \in DOMAIN s : s[i] = s[j] => i = j
  PROVE  IsFiniteSet(ToSet(s)) /\ Cardinality(ToSet(s)) = Len(s)
<1>1. DOMAIN s = 1 .. Len(s) /\ Len(s) \in Nat /\ s \in [1 .. Len(s) -> S]
  BY LenProperties
<1>2. s \in Bijection(1 .. Len(s), ToSet(s))
  <2>1. s \in [1 .. Len(s) -> ToSet(s)]
    BY <1>1 DEF ToSet
  <2>2. s \in Injection(1 .. Len(s), ToSet(s))
    BY <1>1, <2>1 DEF Injection, IsInjective
  <2>3. s \in Surjection(1 .. Len(s), ToSet(s))
    BY <1>1, <2>1 DEF Surjection, ToSet
  <2>4. QED BY <2>2, <2>3 DEF Bijection
<1>3. ExistsBijection(1 .. Len(s), ToSet(s))
  BY <1>2 DEF ExistsBijection
<1>4. IsFiniteSet(ToSet(s))
  BY <1>1, <1>3, FS_NatBijection
<1>5. QED BY <1>1, <1>3, <1>4, FS_CountingElements

-----------------------------------------------------------------------------
(* Sequences that are put together to one: FlattenSeq of SequencesExt      *)

FlatUpTo(s, n, f) == f = [i \in 1 .. n |-> IF i = 1 THEN s[i] ELSE f[i - 1] \o s[i]]

LEMMA FlatValues ==
  ASSUME NEW s, NEW n \in Nat, n # 0, NEW f, FlatUpTo(s, n, f)
  PROVE  f[1] = s[1] /\ \A i \in 2 .. n : f[i] = f[i - 1] \o s[i]
<1> DEFINE h == [i \in 1 .. n |-> IF i = 1 THEN s[i] ELSE f[i - 1] \o s[i]]
<1>1. f = h
  BY DEF FlatUpTo
<1>2. h[1] = s[1]
  <2>1. 1 \in 1 .. n
    OBVIOUS
  <2>2. QED BY <2>1
<1>3. ASSUME NEW i \in 2 .. n PROVE h[i] = f[i - 1] \o s[i]
  <2>1. i \in 1 .. n /\ i # 1
    OBVIOUS
  <2>2. QED BY <2>1
<1> HIDE DEF h
<1>4. QED BY <1>1, <1>2, <1>3

\* The recursive function exists.
LEMMA FlatExists ==
  ASSUME NEW s, NEW n \in Nat
  PROVE  \E f : FlatUpTo(s, n, f)
<1> DEFINE T == {m \in Nat : \E f : FlatUpTo(s, m, f)}
<1>1. 0 \in T
  <2> DEFINE f == [i \in 1 .. 0 |-> <<>>]
  <2>1. FlatUpTo(s, 0, f)
    BY DEF FlatUpTo
  <2>2. QED BY <2>1
<1>2. ASSUME NEW m \in Nat, m \in T PROVE m + 1 \in T
  <2>1. PICK f : FlatUpTo(s, m, f)
    BY <1>2
  <2> DEFINE g == [i \in 1 .. m + 1 |-> IF i = 1 THEN s[i] ELSE f[i - 1] \o s[i]]
  <2>2. ASSUME NEW i \in 1 .. m PROVE g[i] = f[i]
    <3>1. m # 0 /\ i \in 1 .. m + 1
      OBVIOUS
    <3>2. f[1] = s[1] /\ \A j \in 2 .. m : f[j] = f[j - 1] \o s[j]
      BY <2>1, <3>1, FlatValues
    <3>3. CASE i = 1
      BY <3>1, <3>2, <3>3
    <3>4. CASE i # 1
      <4>1. i \in 2 .. m
        BY <3>4
      <4>2. QED BY <3>1, <3>2, <3>4, <4>1
    <3>5. QED BY <3>3, <3>4
  <2>3. ASSUME NEW i \in 1 .. m + 1, i # 1 PROVE g[i - 1] = f[i - 1]
    <3>1. i - 1 \in 1 .. m
      BY <2>3
    <3> HIDE DEF g
    <3>2. QED BY <2>2, <3>1
  <2>4. FlatUpTo(s, m + 1, g)
    <3> HIDE DEF g
    <3> DEFINE h == [i \in 1 .. m + 1 |-> IF i = 1 THEN s[i] ELSE g[i - 1] \o s[i]]
    <3>1. ASSUME NEW i \in 1 .. m + 1 PROVE g[i] = h[i]
      BY <2>3 DEF g
    <3>2. g = h
      BY <3>1 DEF g
    <3>3. QED BY <3>2 DEF FlatUpTo
  <2>5. QED BY <2>4
<1>3. Nat \subseteq T
  <2> HIDE DEF T
  <2>1. QED BY <1>1, <1>2, SetInduction
<1>4. QED BY <1>3

LEMMA FlatStep ==
  ASSUME NEW s, Len(s) \in Nat, Len(s) # 0
  PROVE  \E f : /\ f[1] = s[1] /\ FlattenSeq(s) = f[Len(s)]
                /\ \A i \in 2 .. Len(s) : f[i] = f[i - 1] \o s[i]
<1> DEFINE f == CHOOSE f : FlatUpTo(s, Len(s), f)
<1>1. FlatUpTo(s, Len(s), f)
  BY FlatExists
<1>2. FlattenSeq(s) = f[Len(s)]
  BY DEF FlattenSeq, FlatUpTo
<1> HIDE DEF f
<1>3. f[1] = s[1] /\ \A i \in 2 .. Len(s) : f[i] = f[i - 1] \o s[i]
  <2> DEFINE n == Len(s)
  <2>1. n \in Nat /\ n # 0 /\ FlatUpTo(s, n, f)
    BY <1>1
  <2> HIDE DEF n
  <2>2. f[1] = s[1] /\ \A i \in 2 .. n : f[i] = f[i - 1] \o s[i]
    BY <2>1, FlatValues
  <2>3. QED BY <2>2 DEF n
<1>4. QED BY <1>2, <1>3

\* Sequences over S make a sequence over S.
LEMMA FlattenType ==
  ASSUME NEW S, NEW s \in Seq(Seq(S))
  PROVE  FlattenSeq(s) \in Seq(S) /\ (s = <<>> => FlattenSeq(s) = <<>>)
<1>1. /\ Len(s) \in Nat /\ (Len(s) = 0 <=> s = <<>>) /\ \A i \in 1 .. Len(s) : s[i] \in Seq(S)
  BY ToSetProperties, LenProperties
<1>2. CASE s = <<>>
  BY <1>1, <1>2, EmptySeq DEF FlattenSeq
<1>3. CASE s # <<>>
  <2>1. PICK f : /\ f[1] = s[1] /\ FlattenSeq(s) = f[Len(s)]
                 /\ \A i \in 2 .. Len(s) : f[i] = f[i - 1] \o s[i]
    <3>1. Len(s) \in Nat /\ Len(s) # 0
      BY <1>1, <1>3
    <3>2. QED BY ONLY <3>1, FlatStep
  <2> DEFINE T == {i \in Nat : f[i] \in Seq(S)}
  <2>2. 1 \in 1 .. Len(s) /\ Len(s) \in 1 .. Len(s)
    BY <1>1, <1>3
  <2>3. 1 \in T
    BY <1>1, <2>1, <2>2
  <2>4. ASSUME NEW i \in 2 .. Len(s), i - 1 \in T PROVE i \in T
    <3>1. i \in 1 .. Len(s) /\ i \in Nat /\ f[i - 1] \in Seq(S)
      BY <1>1, <2>4
    <3>2. f[i] = f[i - 1] \o s[i]
      BY <2>1
    <3>3. s[i] \in Seq(S)
      BY <1>1, <3>1
    <3>4. QED BY <3>1, <3>2, <3>3, ConcatProperties
  <2>5. f[Len(s)] \in Seq(S)
    <3> HIDE DEF T
    <3>1. 1 .. Len(s) \subseteq T
      BY <1>1, <2>3, <2>4, RangeInduction
    <3>2. QED BY <2>2, <3>1 DEF T
  <2>6. QED BY <1>3, <2>1, <2>5
<1>4. QED BY <1>2, <1>3

\* The first of them comes first.
LEMMA FlattenFirst ==
  ASSUME NEW S, NEW s \in Seq(Seq(S)), s # <<>>
  PROVE  FlattenSeq(s) = s[1] \o FlattenSeq(Tail(s))
<1> DEFINE t == Tail(s)
<1>1. /\ Len(s) \in Nat /\ Len(s) # 0 /\ \A i \in 1 .. Len(s) : s[i] \in Seq(S)
  BY ToSetProperties, LenProperties
<1>2. /\ t \in Seq(Seq(S)) /\ Len(t) = Len(s) - 1
      /\ \A i \in 1 .. Len(t) : t[i] = s[i + 1]
  BY HeadTailProperties
<1>3. PICK f : /\ f[1] = s[1] /\ FlattenSeq(s) = f[Len(s)]
               /\ \A i \in 2 .. Len(s) : f[i] = f[i - 1] \o s[i]
  <2>1. Len(s) \in Nat /\ Len(s) # 0
    BY <1>1
  <2>2. QED BY ONLY <2>1, FlatStep
<1> HIDE DEF t
<1>4. CASE Len(s) = 1
  <2>1. t = <<>>
    BY <1>2, <1>4, ToSetProperties
  <2>2. FlattenSeq(t) = <<>>
    BY <1>2, <2>1, FlattenType
  <2>3. s[1] \o <<>> = s[1]
    BY <1>1, ConcatEmptySeq
  <2>4. QED BY <1>3, <1>4, <2>2, <2>3 DEF t
<1>5. CASE Len(s) # 1
  <2>1. PICK g : /\ g[1] = t[1] /\ FlattenSeq(t) = g[Len(t)]
                 /\ \A i \in 2 .. Len(t) : g[i] = g[i - 1] \o t[i]
    <3>1. Len(t) \in Nat /\ Len(t) # 0
      BY <1>1, <1>2, <1>5
    <3>2. QED BY ONLY <3>1, FlatStep
  <2> DEFINE T == {i \in Nat : g[i] \in Seq(S) /\ f[i + 1] = s[1] \o g[i]}
  <2>2. \A i \in 1 .. Len(t) : t[i] \in Seq(S)
    BY <1>2, ElementOfSeq
  <2>3. Len(t) \in Nat /\ 1 \in 1 .. Len(t) /\ Len(t) \in 1 .. Len(t) /\ Len(t) + 1 = Len(s)
        /\ s[1] \in Seq(S)
    BY <1>1, <1>2, <1>5
  <2>4. \A i \in 1 .. Len(t) : f[i + 1] = f[i] \o t[i]
    <3> SUFFICES ASSUME NEW i \in 1 .. Len(t) PROVE f[i + 1] = f[i] \o t[i]
      OBVIOUS
    <3>1. i + 1 \in 2 .. Len(s) /\ (i + 1) - 1 = i
      BY <1>1, <1>2
    <3>2. f[i + 1] = f[(i + 1) - 1] \o s[i + 1]
      BY <1>3, <3>1
    <3>3. QED BY <1>2, <3>1, <3>2
  <2>5. 1 \in T
    BY <1>3, <2>1, <2>2, <2>3, <2>4
  <2>6. ASSUME NEW i \in 2 .. Len(t), i - 1 \in T PROVE i \in T
    <3>1. i \in 1 .. Len(t) /\ i \in Nat /\ (i - 1) + 1 = i
      BY <2>3
    <3>2. g[i - 1] \in Seq(S) /\ f[i] = s[1] \o g[i - 1]
      BY <2>6, <3>1
    <3>3. g[i] = g[i - 1] \o t[i] /\ t[i] \in Seq(S) /\ f[i + 1] = f[i] \o t[i]
      BY <2>1, <2>2, <2>4, <3>1
    <3> DEFINE u == g[i - 1]
               v == t[i]
               w == s[1]
    <3>4. u \in Seq(S) /\ v \in Seq(S) /\ w \in Seq(S)
      BY <2>3, <3>2, <3>3
    <3> HIDE DEF u, v, w
    <3>5. (w \o u) \o v = w \o (u \o v) /\ u \o v \in Seq(S)
      <4>1. (w \o u) \o v = w \o (u \o v)
        BY ONLY <3>4, ConcatAssociative
      <4>2. u \o v \in Seq(S)
        BY ONLY <3>4, ConcatProperties
      <4>3. QED BY <4>1, <4>2
    <3>6. g[i] = u \o v /\ f[i + 1] = (w \o u) \o v
      BY <3>2, <3>3 DEF u, v, w
    <3>7. g[i] \in Seq(S) /\ f[i + 1] = s[1] \o g[i]
      BY <3>5, <3>6 DEF w
    <3>8. QED BY <3>1, <3>7
  <2>7. Len(t) \in T
    <3> HIDE DEF T
    <3>1. 1 .. Len(t) \subseteq T
      BY <2>3, <2>5, <2>6, RangeInduction
    <3>2. QED BY <2>3, <3>1
  <2>8. f[Len(s)] = s[1] \o g[Len(t)]
    BY <2>3, <2>7
  <2>9. QED BY <1>3, <2>1, <2>8 DEF t
<1>6. QED BY <1>4, <1>5
=============================================================================
