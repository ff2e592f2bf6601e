-------------------------- MODULE LobbyQueueProofs --------------------------
(***************************************************************************)
(* For every set of connections and every size of a queue and of a match:  *)
(* the two vectors of the lobby go together, no connection is lost, doubled *)
(* or used after it was closed, and only players with an avatar play.      *)
(***************************************************************************)
EXTENDS LobbyQueue, SequenceLemmas

-----------------------------------------------------------------------------
(* The elements that are kept                                              *)

KeptUpTo(s, K, n, f) ==
  f = [i \in 0 .. n |->
         IF i = 0 THEN <<>>
         ELSE IF s[i] \in K THEN Append(f[i - 1], s[i]) ELSE f[i - 1]]

LEMMA KeptValues ==
  ASSUME NEW s, NEW K, NEW n \in Nat, NEW f, KeptUpTo(s, K, n, f)
  PROVE  /\ f[0] = <<>>
         /\ \A i \in 1 .. n :
              f[i] = IF s[i] \in K THEN Append(f[i - 1], s[i]) ELSE f[i - 1]
<1> DEFINE h == [i \in 0 .. n |->
                   IF i = 0 THEN <<>>
                   ELSE IF s[i] \in K THEN Append(f[i - 1], s[i]) ELSE f[i - 1]]
<1>1. f = h
  BY DEF KeptUpTo
<1>2. h[0] = <<>>
  OBVIOUS
<1>3. ASSUME NEW i \in 1 .. n
      PROVE  h[i] = IF s[i] \in K THEN Append(f[i - 1], s[i]) ELSE f[i - 1]
  <2>1. i \in 0 .. n /\ i # 0
    OBVIOUS
  <2>2. QED BY <2>1
<1> HIDE DEF h
<1>4. QED BY <1>1, <1>2, <1>3

\* The recursive function exists.
LEMMA KeptExists ==
  ASSUME NEW s, NEW K, NEW n \in Nat
  PROVE  \E f : KeptUpTo(s, K, n, f)
<1> DEFINE T == {m \in Nat : \E f : KeptUpTo(s, K, m, f)}
<1>1. 0 \in T
  <2> DEFINE f == [i \in 0 .. 0 |-> <<>>]
  <2>1. KeptUpTo(s, K, 0, f)
    BY DEF KeptUpTo
  <2>2. QED BY <2>1
<1>2. ASSUME NEW m \in Nat, m \in T PROVE m + 1 \in T
  <2>1. PICK f : KeptUpTo(s, K, m, f)
    BY <1>2
  <2> DEFINE g == [i \in 0 .. m + 1 |->
                     IF i = 0 THEN <<>>
                     ELSE IF s[i] \in K THEN Append(f[i - 1], s[i]) ELSE f[i - 1]]
  <2>2. ASSUME NEW i \in 0 .. m PROVE g[i] = f[i]
    <3>1. CASE i = 0
      <4>1. f[0] = <<>>
        BY <2>1, KeptValues
      <4>2. g[0] = <<>>
        OBVIOUS
      <4> HIDE DEF g
      <4>3. QED BY <3>1, <4>1, <4>2
    <3>2. CASE i # 0
      <4>1. i \in 1 .. m /\ i \in 0 .. m + 1
        BY <3>2
      <4>2. f[i] = IF s[i] \in K THEN Append(f[i - 1], s[i]) ELSE f[i - 1]
        BY <2>1, <4>1, KeptValues
      <4>3. QED BY <3>2, <4>1, <4>2
    <3>3. QED BY <3>1, <3>2
  <2>3. ASSUME NEW i \in 0 .. m + 1, i # 0 PROVE g[i - 1] = f[i - 1]
    <3>1. i - 1 \in 0 .. m
      BY <2>3
    <3> HIDE DEF g
    <3>2. QED BY <2>2, <3>1
  <2>4. KeptUpTo(s, K, m + 1, g)
    <3> HIDE DEF g
    <3> DEFINE h == [i \in 0 .. m + 1 |->
                     IF i = 0 THEN <<>>
                     ELSE IF s[i] \in K THEN Append(g[i - 1], s[i]) ELSE g[i - 1]]
    <3>1. ASSUME NEW i \in 0 .. m + 1 PROVE g[i] = h[i]
      BY <2>3 DEF g
    <3>2. g = h
      BY <3>1 DEF g
    <3>3. QED BY <3>2 DEF KeptUpTo
  <2>5. QED BY <2>4
<1>3. Nat \subseteq T
  <2> HIDE DEF T
  <2>1. QED BY <1>1, <1>2, SetInduction
<1>4. QED BY <1>3

LEMMA KeptStep ==
  ASSUME NEW s, NEW K, Len(s) \in Nat
  PROVE  \E f : /\ f[0] = <<>> /\ Kept(s, K) = f[Len(s)]
                /\ \A i \in 1 .. Len(s) :
                     f[i] = IF s[i] \in K THEN Append(f[i - 1], s[i]) ELSE f[i - 1]
<1> DEFINE f == CHOOSE f : KeptUpTo(s, K, Len(s), f)
<1>1. KeptUpTo(s, K, Len(s), f)
  BY KeptExists
<1>2. Kept(s, K) = f[Len(s)]
  BY DEF Kept, KeptUpTo
<1> HIDE DEF f
<1>3. QED BY <1>1, <1>2, KeptValues

\* Nothing but elements of K is kept, all of them, and none is doubled.
LEMMA KeptProperties ==
  ASSUME NEW S, NEW s \in Seq(S), NEW K
  PROVE  /\ Kept(s, K) \in Seq(S)
         /\ ToSet(Kept(s, K)) = ToSet(s) \cap K
         /\ (\A i, j \in DOMAIN s : s[i] = s[j] => i = j)
              => \A i, j \in DOMAIN Kept(s, K) : Kept(s, K)[i] = Kept(s, K)[j] => i = j
         /\ ToSet(s) \subseteq K => Kept(s, K) = s
<1>1. Len(s) \in Nat /\ DOMAIN s = 1 .. Len(s) /\ \A i \in 1 .. Len(s) : s[i] \in S
  OBVIOUS
<1>2. PICK f : /\ f[0] = <<>> /\ Kept(s, K) = f[Len(s)]
               /\ \A i \in 1 .. Len(s) :
                    f[i] = IF s[i] \in K THEN Append(f[i - 1], s[i]) ELSE f[i - 1]
  <2>1. Len(s) \in Nat
    BY <1>1
  <2>2. QED BY ONLY <2>1, KeptStep
<1> DEFINE Distinct(r) == \A i, j \in DOMAIN r : r[i] = r[j] => i = j
           First(n) == {s[i] : i \in 1 .. n}
           P(n) == /\ f[n] \in Seq(S)
                   /\ ToSet(f[n]) = First(n) \cap K
                   /\ Distinct(s) => Distinct(f[n])
                   /\ ToSet(s) \subseteq K => /\ Len(f[n]) = n
                                              /\ \A i \in 1 .. n : f[n][i] = s[i]
           T == {n \in Nat : n <= Len(s) => P(n)}
<1>3. 0 \in T
  <2>1. f[0] \in Seq(S) /\ Len(f[0]) = 0
    BY <1>2
  <2>2. ToSet(f[0]) = {} /\ DOMAIN f[0] = {}
    BY <1>2, <2>1 DEF ToSet
  <2>3. First(0) = {}
    OBVIOUS
  <2>4. QED BY <2>1, <2>2, <2>3
<1>4. ASSUME NEW n \in Nat, n \in T PROVE n + 1 \in T
  <2> SUFFICES ASSUME n + 1 <= Len(s) PROVE P(n + 1)
    OBVIOUS
  <2>1. P(n) /\ n + 1 \in 1 .. Len(s)
    BY <1>1, <1>4
  <2>2. f[n + 1] = IF s[n + 1] \in K THEN Append(f[n], s[n + 1]) ELSE f[n]
    BY <1>2, <2>1
  <2>3. First(n + 1) = First(n) \union {s[n + 1]}
    <3>1. 1 .. n + 1 = (1 .. n) \union {n + 1}
      OBVIOUS
    <3>2. QED BY <3>1
  <2>4. s[n + 1] \in S
    BY <1>1, <2>1
  <2>5. Distinct(s) => s[n + 1] \notin First(n)
    BY <1>1, <2>1
  <2>6. s[n + 1] \in ToSet(s)
    BY <1>1, <2>1 DEF ToSet
  <2> HIDE DEF First
  <2>7. CASE s[n + 1] \in K
    <3> DEFINE a == Append(f[n], s[n + 1])
    <3>1. f[n + 1] = a
      BY <2>2, <2>7
    <3>2. a \in Seq(S) /\ ToSet(a) = ToSet(f[n]) \union {s[n + 1]}
      BY <2>1, <2>4, ToSetAppend, AppendProperties
    <3>3. ToSet(a) = First(n + 1) \cap K
      BY <2>1, <2>3, <2>7, <3>2
    <3>4. /\ Len(f[n]) \in Nat /\ Len(a) = Len(f[n]) + 1
          /\ \A i \in 1 .. Len(f[n]) : a[i] = f[n][i]
          /\ a[Len(f[n]) + 1] = s[n + 1]
          /\ DOMAIN a = 1 .. Len(f[n]) + 1 /\ DOMAIN f[n] = 1 .. Len(f[n])
      BY <2>1, <2>4, AppendProperties, LenProperties
    <3>5. ASSUME Distinct(s) PROVE Distinct(a)
      <4>1. \A i \in 1 .. Len(f[n]) : f[n][i] # s[n + 1]
        BY <2>1, <2>5, <3>4, <3>5 DEF ToSet
      <4>2. Distinct(f[n])
        BY <2>1, <3>5
      <4> HIDE DEF a
      <4>3. ASSUME NEW i \in DOMAIN a, NEW j \in DOMAIN a, a[i] = a[j] PROVE i = j
        <5>1. CASE i = Len(f[n]) + 1 \/ j = Len(f[n]) + 1
          BY <3>4, <4>1, <4>3, <5>1
        <5>2. CASE i # Len(f[n]) + 1 /\ j # Len(f[n]) + 1
          <6>1. i \in 1 .. Len(f[n]) /\ j \in 1 .. Len(f[n])
            BY <3>4, <5>2
          <6>2. QED BY <3>4, <4>2, <4>3, <6>1
        <5>3. QED BY <5>1, <5>2
      <4>4. QED BY <4>3
    <3>6. ASSUME ToSet(s) \subseteq K
          PROVE  Len(a) = n + 1 /\ \A i \in 1 .. n + 1 : a[i] = s[i]
      <4>1. Len(f[n]) = n /\ \A i \in 1 .. n : f[n][i] = s[i]
        BY <2>1, <3>6
      <4> HIDE DEF a
      <4>2. QED BY <3>4, <4>1
    <3> HIDE DEF a, Distinct
    <3>7. QED BY <3>1, <3>2, <3>3, <3>5, <3>6
  <2>8. CASE s[n + 1] \notin K
    <3>1. f[n + 1] = f[n]
      BY <2>2, <2>8
    <3>2. ~ (ToSet(s) \subseteq K)
      BY <2>6, <2>8
    <3>3. First(n + 1) \cap K = First(n) \cap K
      BY <2>3, <2>8
    <3> HIDE DEF Distinct
    <3>4. QED BY <2>1, <3>1, <3>2, <3>3
  <2>9. QED BY <2>7, <2>8
<1>5. P(Len(s))
  <2>1. Nat \subseteq T
    <3> HIDE DEF T
    <3>1. QED BY <1>3, <1>4, SetInduction
  <2>2. Len(s) \in T
    <3> HIDE DEF T
    <3>1. QED BY <1>1, <2>1
  <2>3. Len(s) \in T => (Len(s) <= Len(s) => P(Len(s)))
    <3> HIDE DEF P
    <3>1. QED OBVIOUS
  <2>4. Len(s) <= Len(s)
    BY <1>1
  <2> HIDE DEF T, P
  <2>5. QED BY <2>2, <2>3, <2>4
<1>6. First(Len(s)) = ToSet(s)
  BY <1>1 DEF ToSet
<1>7. ToSet(s) \subseteq K => f[Len(s)] = s
  BY <1>1, <1>5, SeqEqual
<1> HIDE DEF First
<1>8. QED BY <1>2, <1>5, <1>6, <1>7

-----------------------------------------------------------------------------
(* The vector of queues: what each way to change it does.                  *)

All(Q) == UNION {ToSet(Q[q]) : q \in DOMAIN Q}

Sound(Q) ==
  /\ Q \in Seq(Seq(Conns))
  /\ \A q \in DOMAIN Q : Len(Q[q]) \in 1 .. Capacity
  /\ \A q, r \in DOMAIN Q : \A i \in DOMAIN Q[q], j \in DOMAIN Q[r] :
       Q[q][i] = Q[r][j] => q = r /\ i = j

\* A connection is in at most one queue.
LEMMA QueuesDisjoint ==
  ASSUME NEW Q, Sound(Q), NEW q \in DOMAIN Q, NEW r \in DOMAIN Q,
         NEW c, c \in ToSet(Q[q]), c \in ToSet(Q[r])
  PROVE  q = r
BY DEF Sound, ToSet

LEMMA QueueType ==
  ASSUME NEW Q, Sound(Q)
  PROVE  /\ Len(Q) \in Nat /\ DOMAIN Q = 1 .. Len(Q) /\ All(Q) \subseteq Conns
         /\ \A q \in DOMAIN Q : /\ Q[q] \in Seq(Conns) /\ Len(Q[q]) \in Nat
                                /\ DOMAIN Q[q] = 1 .. Len(Q[q])
                                /\ ToSet(Q[q]) \subseteq Conns
                                /\ ToSet(Q[q]) \subseteq All(Q)
<1>1. Len(Q) \in Nat /\ DOMAIN Q = 1 .. Len(Q) /\ \A q \in DOMAIN Q : Q[q] \in Seq(Conns)
  BY DEF Sound
<1>2. ASSUME NEW q \in DOMAIN Q
      PROVE  /\ Len(Q[q]) \in Nat /\ DOMAIN Q[q] = 1 .. Len(Q[q])
             /\ ToSet(Q[q]) \subseteq Conns
  BY <1>1, LenProperties, ToSetProperties
<1>3. QED BY <1>1, <1>2 DEF All

\* A queue is started or emptied, and removed.
LEMMA RemoveQueue ==
  ASSUME NEW Q, Sound(Q), NEW k \in DOMAIN Q
  PROVE  /\ Sound(RemoveAt(Q, k))
         /\ Len(RemoveAt(Q, k)) = Len(Q) - 1
         /\ All(RemoveAt(Q, k)) = All(Q) \ ToSet(Q[k])
         /\ \A q \in 1 .. k - 1 : RemoveAt(Q, k)[q] = Q[q]
<1> DEFINE R == RemoveAt(Q, k)
           Was(q) == IF q < k THEN q ELSE q + 1
<1>1. /\ Len(Q) \in Nat /\ DOMAIN Q = 1 .. Len(Q) /\ k \in 1 .. Len(Q)
      /\ Q \in Seq(Seq(Conns))
  BY QueueType DEF Sound
<1>2. /\ R \in Seq(Seq(Conns)) /\ Len(R) = Len(Q) - 1
      /\ \A q \in 1 .. Len(Q) - 1 : R[q] = IF q < k THEN Q[q] ELSE Q[q + 1]
  BY <1>1, RemoveAtProperties
<1>3. DOMAIN R = 1 .. Len(Q) - 1
  BY <1>2
<1> HIDE DEF R
<1>4. ASSUME NEW q \in DOMAIN R
      PROVE  Was(q) \in DOMAIN Q /\ Was(q) # k /\ R[q] = Q[Was(q)]
  BY <1>1, <1>2, <1>3
<1>5. ASSUME NEW q \in DOMAIN R, NEW r \in DOMAIN R, Was(q) = Was(r) PROVE q = r
  <2>1. q \in Nat /\ r \in Nat /\ k \in Nat
    BY <1>1, <1>3
  <2>2. QED BY <1>5, <2>1
<1>6. ASSUME NEW m \in DOMAIN Q, m # k PROVE \E q \in DOMAIN R : Was(q) = m
  <2>1. CASE m < k
    BY <1>1, <1>3, <2>1
  <2>2. CASE m > k
    <3>1. m - 1 \in DOMAIN R /\ Was(m - 1) = m
      BY <1>1, <1>3, <2>2
    <3>2. QED BY <3>1
  <2>3. QED BY <1>1, <1>6, <2>1, <2>2
<1> HIDE DEF Was
<1>7. Sound(R)
  <2>1. \A q \in DOMAIN R : Len(R[q]) \in 1 .. Capacity
    BY <1>4 DEF Sound
  <2>2. ASSUME NEW q \in DOMAIN R, NEW r \in DOMAIN R, NEW i \in DOMAIN R[q],
               NEW j \in DOMAIN R[r], R[q][i] = R[r][j]
        PROVE  q = r /\ i = j
    <3>1. Was(q) = Was(r) /\ i = j
      BY <1>4, <2>2 DEF Sound
    <3>2. QED BY <1>5, <3>1
  <2>3. QED BY <1>2, <2>1, <2>2 DEF Sound
<1>8. All(R) = All(Q) \ ToSet(Q[k])
  <2>1. ASSUME NEW c \in All(R) PROVE c \in All(Q) /\ c \notin ToSet(Q[k])
    <3>1. PICK q \in DOMAIN R : c \in ToSet(R[q])
      BY DEF All
    <3>2. c \in ToSet(Q[Was(q)]) /\ Was(q) \in DOMAIN Q /\ Was(q) # k
      BY <1>4, <3>1
    <3>3. QED BY <3>2, QueuesDisjoint DEF All
  <2>2. ASSUME NEW c \in All(Q), c \notin ToSet(Q[k]) PROVE c \in All(R)
    <3>1. PICK m \in DOMAIN Q : c \in ToSet(Q[m])
      BY DEF All
    <3>2. PICK q \in DOMAIN R : Was(q) = m
      BY <1>6, <2>2, <3>1
    <3>3. c \in ToSet(R[q])
      BY <1>4, <3>1, <3>2
    <3>4. QED BY <3>3 DEF All
  <2>3. QED BY <2>1, <2>2
<1>9. ASSUME NEW q \in 1 .. k - 1 PROVE R[q] = Q[q]
  <2>1. q \in 1 .. Len(Q) - 1 /\ q < k
    BY <1>1
  <2>2. QED BY <1>2, <2>1
<1>10. QED BY <1>2, <1>7, <1>8, <1>9 DEF R

\* Some clients leave a queue, and others stay.
LEMMA ShortenQueue ==
  ASSUME NEW Q, Sound(Q), NEW k \in DOMAIN Q, NEW K,
         Kept(Q[k], K) # <<>>
  PROVE  LET R == [Q EXCEPT ![k] = Kept(Q[k], K)]
         IN  /\ Sound(R) /\ Len(R) = Len(Q)
             /\ All(R) = All(Q) \ (ToSet(Q[k]) \ K)
             /\ ToSet(R[k]) = ToSet(Q[k]) \cap K
             /\ \A q \in DOMAIN Q : q # k => R[q] = Q[q]
<1> DEFINE s == Kept(Q[k], K)
           R == [Q EXCEPT ![k] = s]
<1>1. /\ Len(Q) \in Nat /\ DOMAIN Q = 1 .. Len(Q) /\ Q \in Seq(Seq(Conns))
      /\ Q[k] \in Seq(Conns) /\ Len(Q[k]) \in Nat /\ Len(Q[k]) <= Capacity
  BY QueueType, LobbyAssumption DEF Sound
<1>2. \A i, j \in DOMAIN Q[k] : Q[k][i] = Q[k][j] => i = j
  BY DEF Sound
<1>3. /\ s \in Seq(Conns) /\ ToSet(s) = ToSet(Q[k]) \cap K
      /\ \A i, j \in DOMAIN s : s[i] = s[j] => i = j
  BY <1>1, <1>2, KeptProperties
<1>4. Len(s) \in 1 .. Capacity
  <2>1. IsFiniteSet(ToSet(Q[k])) /\ Cardinality(ToSet(Q[k])) = Len(Q[k])
    BY <1>1, <1>2, DistinctElements
  <2>2. IsFiniteSet(ToSet(s)) /\ Cardinality(ToSet(s)) = Len(s)
    BY <1>3, DistinctElements
  <2>3. Cardinality(ToSet(s)) <= Cardinality(ToSet(Q[k]))
    BY <1>3, <2>1, FS_Subset
  <2>4. Len(s) \in Nat /\ Len(s) # 0
    BY <1>3, LenProperties, ToSetProperties
  <2>5. QED BY <1>1, <2>1, <2>2, <2>3, <2>4, LobbyAssumption
<1> HIDE DEF s
<1>5. /\ R \in Seq(Seq(Conns)) /\ Len(R) = Len(Q) /\ DOMAIN R = DOMAIN Q
      /\ R[k] = s /\ \A q \in DOMAIN Q : q # k => R[q] = Q[q]
  BY <1>1, <1>3, ExceptSeq
<1> HIDE DEF R
<1>6. Sound(R)
  <2>1. \A q \in DOMAIN R : Len(R[q]) \in 1 .. Capacity
    BY <1>4, <1>5 DEF Sound
  <2>2. ASSUME NEW q \in DOMAIN R, NEW r \in DOMAIN R, NEW i \in DOMAIN R[q],
               NEW j \in DOMAIN R[r], R[q][i] = R[r][j]
        PROVE  q = r /\ i = j
    <3>1. R[q][i] \in ToSet(Q[q]) /\ R[r][j] \in ToSet(Q[r])
      <4>1. \A p \in DOMAIN R : ToSet(R[p]) \subseteq ToSet(Q[p])
        BY <1>3, <1>5
      <4>2. R[q][i] \in ToSet(R[q]) /\ R[r][j] \in ToSet(R[r])
        BY DEF ToSet
      <4>3. QED BY <4>1, <4>2
    <3>2. q = r
      BY <1>5, <2>2, <3>1, QueuesDisjoint
    <3>3. CASE q = k
      BY <1>3, <1>5, <2>2, <3>2, <3>3
    <3>4. CASE q # k
      BY <1>5, <2>2, <3>2, <3>4 DEF Sound
    <3>5. QED BY <3>2, <3>3, <3>4
  <2>3. QED BY <1>5, <2>1, <2>2 DEF Sound
<1>7. All(R) = All(Q) \ (ToSet(Q[k]) \ K)
  <2>1. ASSUME NEW c \in All(R) PROVE c \in All(Q) /\ c \notin ToSet(Q[k]) \ K
    <3>1. PICK q \in DOMAIN R : c \in ToSet(R[q])
      BY DEF All
    <3>2. c \in ToSet(Q[q]) /\ q \in DOMAIN Q /\ (q = k => c \in K)
      BY <1>3, <1>5, <3>1
    <3>3. QED BY <3>2, QueuesDisjoint DEF All
  <2>2. ASSUME NEW c \in All(Q), c \notin ToSet(Q[k]) \ K PROVE c \in All(R)
    <3>1. PICK q \in DOMAIN Q : c \in ToSet(Q[q])
      BY DEF All
    <3>2. c \in ToSet(R[q]) /\ q \in DOMAIN R
      BY <1>3, <1>5, <2>2, <3>1
    <3>3. QED BY <3>2 DEF All
  <2>3. QED BY <2>1, <2>2
<1>8. QED BY <1>3, <1>5, <1>6, <1>7 DEF R, s

\* A client joins a queue with room.
LEMMA JoinQueue ==
  ASSUME NEW Q, Sound(Q), NEW k \in DOMAIN Q, Len(Q[k]) < Capacity,
         NEW c \in Conns, c \notin All(Q)
  PROVE  LET R == [Q EXCEPT ![k] = Append(@, c)]
         IN  Sound(R) /\ Len(R) = Len(Q) /\ All(R) = All(Q) \union {c}
<1> DEFINE s == Append(Q[k], c)
           R == [Q EXCEPT ![k] = s]
<1>1. /\ Len(Q) \in Nat /\ DOMAIN Q = 1 .. Len(Q) /\ Q \in Seq(Seq(Conns))
      /\ Q[k] \in Seq(Conns) /\ Len(Q[k]) \in Nat /\ DOMAIN Q[k] = 1 .. Len(Q[k])
      /\ ToSet(Q[k]) \subseteq All(Q)
  BY QueueType DEF Sound
<1>2. /\ s \in Seq(Conns) /\ Len(s) = Len(Q[k]) + 1
      /\ \A i \in 1 .. Len(Q[k]) : s[i] = Q[k][i]
      /\ s[Len(Q[k]) + 1] = c /\ DOMAIN s = 1 .. Len(Q[k]) + 1
  BY <1>1, AppendProperties, LenProperties
<1>3. ToSet(s) = ToSet(Q[k]) \union {c}
  BY <1>1, ToSetAppend
<1> HIDE DEF s
<1>4. /\ R \in Seq(Seq(Conns)) /\ Len(R) = Len(Q) /\ DOMAIN R = DOMAIN Q
      /\ R[k] = s /\ \A q \in DOMAIN Q : q # k => R[q] = Q[q]
  BY <1>1, <1>2, ExceptSeq
<1> HIDE DEF R
<1>5. \A q \in DOMAIN Q : c \notin ToSet(Q[q])
  BY DEF All
<1>6. Sound(R)
  <2>1. \A q \in DOMAIN R : Len(R[q]) \in 1 .. Capacity
    <3>1. Len(s) \in 1 .. Capacity
      BY <1>1, <1>2, LobbyAssumption
    <3>2. \A q \in DOMAIN Q : Len(Q[q]) \in 1 .. Capacity
      BY DEF Sound
    <3>3. QED BY <1>4, <3>1, <3>2
  <2>2. ASSUME NEW q \in DOMAIN R, NEW r \in DOMAIN R, NEW i \in DOMAIN R[q],
               NEW j \in DOMAIN R[r], R[q][i] = R[r][j]
        PROVE  q = r /\ i = j
    <3>1. CASE R[q][i] = c
      <4>1. \A p \in DOMAIN R : \A n \in DOMAIN R[p] :
              R[p][n] = c => p = k /\ n = Len(Q[k]) + 1
        <5> SUFFICES ASSUME NEW p \in DOMAIN R, NEW n \in DOMAIN R[p], R[p][n] = c
                     PROVE  p = k /\ n = Len(Q[k]) + 1
          OBVIOUS
        <5>1. p = k
          BY <1>4, <1>5 DEF ToSet
        <5>2. n \notin 1 .. Len(Q[k])
          BY <1>1, <1>2, <1>4, <1>5, <5>1 DEF ToSet
        <5>3. QED BY <1>1, <1>2, <1>4, <5>1, <5>2
      <4>2. QED BY <2>2, <3>1, <4>1
    <3>2. CASE R[q][i] # c
      <4>1. \A p \in DOMAIN R : \A n \in DOMAIN R[p] :
              R[p][n] # c => n \in DOMAIN Q[p] /\ R[p][n] = Q[p][n]
        <5> SUFFICES ASSUME NEW p \in DOMAIN R, NEW n \in DOMAIN R[p], R[p][n] # c
                     PROVE  n \in DOMAIN Q[p] /\ R[p][n] = Q[p][n]
          OBVIOUS
        <5>1. CASE p = k
          BY <1>1, <1>2, <1>4, <5>1
        <5>2. CASE p # k
          BY <1>4, <5>2
        <5>3. QED BY <5>1, <5>2
      <4>2. QED BY <1>4, <2>2, <3>2, <4>1 DEF Sound
    <3>3. QED BY <3>1, <3>2
  <2>3. QED BY <1>4, <2>1, <2>2 DEF Sound
<1>7. All(R) = All(Q) \union {c}
  BY <1>3, <1>4 DEF All
<1>8. QED BY <1>4, <1>6, <1>7 DEF R, s

\* A client opens a queue of its own.
LEMMA OpenQueue ==
  ASSUME NEW Q, Sound(Q), NEW c \in Conns, c \notin All(Q)
  PROVE  LET R == Append(Q, <<c>>)
         IN  Sound(R) /\ Len(R) = Len(Q) + 1 /\ All(R) = All(Q) \union {c}
<1> DEFINE R == Append(Q, <<c>>)
<1>1. Len(Q) \in Nat /\ DOMAIN Q = 1 .. Len(Q) /\ Q \in Seq(Seq(Conns))
  BY QueueType DEF Sound
<1>2. <<c>> \in Seq(Conns) /\ Len(<<c>>) = 1 /\ <<c>>[1] = c /\ ToSet(<<c>>) = {c}
      /\ DOMAIN <<c>> = {1}
  BY DEF ToSet
<1> DEFINE s == <<c>>
<1> HIDE DEF s
<1>3. /\ R \in Seq(Seq(Conns)) /\ Len(R) = Len(Q) + 1 /\ DOMAIN R = 1 .. Len(Q) + 1
      /\ \A q \in DOMAIN Q : R[q] = Q[q]
      /\ R[Len(Q) + 1] = s
  BY <1>1, <1>2, AppendProperties, LenProperties DEF s
<1> HIDE DEF R
<1>4. DOMAIN R = DOMAIN Q \union {Len(Q) + 1} /\ Len(Q) + 1 \notin DOMAIN Q
  BY <1>1, <1>3
<1>5. \A q \in DOMAIN Q : c \notin ToSet(Q[q])
  BY DEF All
<1>6. Sound(R)
  <2>1. \A q \in DOMAIN R : Len(R[q]) \in 1 .. Capacity
    <3>1. 1 \in 1 .. Capacity
      BY LobbyAssumption
    <3>2. Len(R[Len(Q) + 1]) = 1
      BY <1>2, <1>3 DEF s
    <3>3. \A q \in DOMAIN Q : Len(R[q]) \in 1 .. Capacity
      BY <1>3 DEF Sound
    <3>4. QED BY <1>4, <3>1, <3>2, <3>3
  <2>2. ASSUME NEW q \in DOMAIN R, NEW r \in DOMAIN R, NEW i \in DOMAIN R[q],
               NEW j \in DOMAIN R[r], R[q][i] = R[r][j]
        PROVE  q = r /\ i = j
    <3>1. CASE q \in DOMAIN Q /\ r \in DOMAIN Q
      BY <1>3, <2>2, <3>1 DEF Sound
    <3>2. CASE q = Len(Q) + 1 /\ r = Len(Q) + 1
      BY <1>2, <1>3, <2>2, <3>2 DEF s
    <3>3. CASE q = Len(Q) + 1 /\ r \in DOMAIN Q
      BY <1>2, <1>3, <1>5, <2>2, <3>3 DEF s, ToSet
    <3>4. CASE q \in DOMAIN Q /\ r = Len(Q) + 1
      BY <1>2, <1>3, <1>5, <2>2, <3>4 DEF s, ToSet
    <3>5. QED BY <1>4, <3>1, <3>2, <3>3, <3>4
  <2>3. QED BY <1>3, <2>1, <2>2 DEF Sound
<1>7. All(R) = All(Q) \union {c}
  <2>1. ToSet(R[Len(Q) + 1]) = {c}
    BY <1>2, <1>3 DEF s
  <2>2. \A q \in DOMAIN Q : ToSet(R[q]) = ToSet(Q[q])
    BY <1>3
  <2>3. QED BY <1>4, <2>1, <2>2 DEF All
<1>8. QED BY <1>3, <1>6, <1>7 DEF R

\* No queue is empty, so there are no more queues than connections.
LEMMA QueueCount ==
  ASSUME NEW Q, Sound(Q)
  PROVE  Len(Q) <= Cardinality(Conns)
<1> DEFINE f == [q \in 1 .. Len(Q) |-> Q[q][1]]
<1>1. Len(Q) \in Nat /\ DOMAIN Q = 1 .. Len(Q)
  BY QueueType
<1>2. \A q \in DOMAIN Q : 1 \in DOMAIN Q[q] /\ Q[q][1] \in Conns
  BY QueueType, LobbyAssumption DEF Sound
<1>3. f \in [1 .. Len(Q) -> Conns]
  BY <1>1, <1>2
<1>4. \A q, r \in 1 .. Len(Q) : f[q] = f[r] => q = r
  BY <1>1, <1>2 DEF Sound
<1>5. f \in Injection(1 .. Len(Q), Conns)
  BY <1>3, <1>4 DEF Injection, IsInjective
<1>6. Cardinality(1 .. Len(Q)) <= Cardinality(Conns)
  BY <1>5, LobbyAssumption, FS_Injection
<1>7. Cardinality(1 .. Len(Q)) = IF 1 > Len(Q) THEN 0 ELSE Len(Q) - 1 + 1
  BY <1>1, FS_Interval
<1>8. QED BY <1>1, <1>6, <1>7

-----------------------------------------------------------------------------
(* The inductive invariant.                                                *)

\* The functions RunQueue calls get the index of a queue, except -1 after the
\* first queue was removed; then there is another one.
LoopInv ==
  /\ pc = "color" => t + 1 \in DOMAIN clients
  /\ pc \in {"start", "send"} => clients # <<>> /\ t + 1 \in 0 .. Len(clients)

\* The queues ColorAndName has looked at in this call of RunQueue.
Served(q) == \/ pc = "color" /\ q <= t
             \/ pc \in {"start", "send"} /\ q <= t + 1

\* A timer that runs there belongs to a queue in which everybody has an avatar.
ReadyInv ==
  \A q \in DOMAIN clients : Served(q) /\ timer[q] > 0 => EveryoneNamed(clients[q])

\* An avatar comes through an accepted connection.
NamedInv ==
  /\ named \cap failed = {}
  /\ \A c \in named \union failed : peer[c] \notin {"away", "calling"}

LobbyInv ==
  TypeOK /\ QueuesAgree /\ OnlyNamedPlay /\ LoopInv /\ ReadyInv /\ NamedInv

-----------------------------------------------------------------------------
(* What a step does to the connections: it accepts one, finds some that    *)
(* have an avatar now and some that are gone, drops some that wait, starts *)
(* a match with some, or nothing.                                          *)

Accepted(c) ==
  /\ c \notin Queued /\ c \notin Playing /\ c \notin shut /\ c \notin named
  /\ Queued' = Queued \union {c} /\ Playing' = Playing /\ UNCHANGED <<shut, named>>

Chosen(N, D) ==
  /\ N \subseteq Queued \ named /\ D \subseteq Queued \ named /\ N \cap D = {}
  /\ Queued' = Queued \ D /\ Playing' = Playing
  /\ shut' = shut \union D /\ named' = named \union N

Dropped(D) ==
  /\ D \subseteq Queued \cap named
  /\ Queued' = Queued \ D /\ Playing' = Playing
  /\ shut' = shut \union D /\ named' = named \ D

Started(P) ==
  /\ P \subseteq Queued \cap named /\ Cardinality(P) \in StartSize .. Capacity
  /\ Queued' = Queued \ P /\ Playing' = Playing \union P /\ UNCHANGED <<shut, named>>

Same == Queued' = Queued /\ Playing' = Playing /\ UNCHANGED <<shut, named>>

LEMMA SoundQueues ==
  ASSUME TypeOK, QueuesAgree
  PROVE  Sound(clients) /\ Queued = All(clients)
BY DEF TypeOK, QueuesAgree, Sound, Queued, All

LEMMA AgreeStep ==
  ASSUME QueuesAgree, UNCHANGED games, Sound(clients'), Len(clients') = Len(timer'),
         Queued' \cap Playing = {}, Queued' \cap shut' = {}, Playing \cap shut' = {},
         \A c \in Conns :
           c \in Queued' \union Playing \union shut' <=> peer'[c] \notin {"away", "calling"}
  PROVE  QueuesAgree'
<1>1. Playing' = Playing
  BY DEF Playing
<1>2. QED BY <1>1 DEF QueuesAgree, Sound

LEMMA TimerType ==
  ASSUME TypeOK
  PROVE  /\ timer \in Seq(0 .. Countdown + 1) /\ Len(timer) \in Nat
         /\ DOMAIN timer = 1 .. Len(timer)
         /\ \A q \in DOMAIN timer : timer[q] \in 0 .. Countdown + 1
<1>1. timer \in Seq(0 .. Countdown + 1)
  BY DEF TypeOK
<1>2. QED BY <1>1, LenProperties, ElementOfSeq

LEMMA TickType ==
  ASSUME TypeOK, NEW d \in {0, 1}
  PROVE  /\ Tick(timer, d) \in Seq(0 .. Countdown + 1)
         /\ Len(Tick(timer, d)) = Len(timer)
<1> DEFINE S == 0 .. Countdown + 1
<1>1. /\ Len(timer) \in Nat /\ DOMAIN timer = 1 .. Len(timer)
      /\ \A q \in DOMAIN timer : timer[q] \in Nat
  BY TimerType, LobbyAssumption
<1>2. \A n \in Nat : Cap(n) \in S
  BY LobbyAssumption DEF Cap
<1>3. Tick(timer, d) \in [1 .. Len(timer) -> S]
  <2>1. \A q \in DOMAIN timer : timer[q] + d \in Nat
    BY <1>1
  <2>2. \A q \in DOMAIN timer : Cap(timer[q] + d) \in S
    BY <1>2, <2>1
  <2>3. QED BY <1>1, <2>2 DEF Tick
<1>4. Tick(timer, d) \in Seq(S)
  BY <1>1, <1>3, SeqDef
<1>5. DOMAIN Tick(timer, d) = 1 .. Len(Tick(timer, d)) /\ Len(Tick(timer, d)) \in Nat
  BY <1>4, LenProperties
<1>6. 1 .. Len(Tick(timer, d)) = 1 .. Len(timer)
  BY <1>3, <1>5
<1>7. \A m, n \in Nat : 1 .. m = 1 .. n => m = n
  OBVIOUS
<1>8. QED BY <1>1, <1>4, <1>5, <1>6, <1>7

LEMMA CountConns == Cardinality(Conns) \in Nat
BY LobbyAssumption, FS_CardinalityType

-----------------------------------------------------------------------------
(* Waiting for connections.                                                *)

LEMMA AddClientStep ==
  ASSUME TypeOK, QueuesAgree, NEW c \in Conns, c \notin Queued,
         NEW tm \in Seq(0 .. Countdown + 1), Len(tm) = Len(timer), AddClient(c, tm)
  PROVE  /\ Sound(clients') /\ Queued' = Queued \union {c}
         /\ Len(clients') = Len(timer')
         /\ timer' \in Seq(0 .. Countdown + 1)
<1> DEFINE I == {i \in 1 .. Len(clients) : Len(clients[i]) < Capacity}
           open == SelectInSeq(clients, LAMBDA q : Len(q) < Capacity)
<1>1. /\ Sound(clients) /\ Queued = All(clients) /\ Len(clients) = Len(timer)
      /\ Len(clients) \in Nat /\ DOMAIN clients = 1 .. Len(clients)
  BY SoundQueues, QueueType DEF QueuesAgree
<1>2. open > 0 => open \in I
  <2>1. I \in SUBSET Nat
    BY <1>1
  <2>2. CASE I = {}
    <3>1. open = 0
      BY <2>2 DEF SelectInSeq
    <3>2. QED BY <3>1
  <2>3. CASE I # {}
    <3>1. \E x \in I : \A y \in I : x <= y
      BY <2>1, <2>3, LeastElement
    <3>2. open = Min(I)
      BY <2>3 DEF SelectInSeq
    <3>3. QED BY <3>1, <3>2 DEF Min
  <2>4. QED BY <2>2, <2>3
<1>3. AddClient(c, tm) <=>
        IF open > 0
        THEN /\ clients' = [clients EXCEPT ![open] = Append(@, c)]
             /\ timer' = tm
        ELSE /\ clients' = Append(clients, <<c>>)
             /\ timer' = Append(tm, NewTimer)
  BY DEF AddClient
<1> HIDE DEF open
<1>4. Queued' = All(clients')
  BY DEF Queued, All
<1>5. CASE open > 0
  <2>1. open \in DOMAIN clients /\ Len(clients[open]) < Capacity
    BY <1>1, <1>2, <1>5
  <2>2. clients' = [clients EXCEPT ![open] = Append(@, c)] /\ timer' = tm
    BY <1>3, <1>5
  <2>3. Sound(clients') /\ Len(clients') = Len(clients)
        /\ All(clients') = All(clients) \union {c}
    BY <1>1, <2>1, <2>2, JoinQueue
  <2>4. QED BY <1>1, <1>4, <2>2, <2>3
<1>6. CASE ~ (open > 0)
  <2>1. clients' = Append(clients, <<c>>) /\ timer' = Append(tm, NewTimer)
    BY <1>3, <1>6
  <2>2. Sound(clients') /\ Len(clients') = Len(clients) + 1
        /\ All(clients') = All(clients) \union {c}
    BY <1>1, <2>1, OpenQueue
  <2>3. NewTimer \in 0 .. Countdown + 1
    BY LobbyAssumption DEF NewTimer
  <2>4. timer' \in Seq(0 .. Countdown + 1) /\ Len(timer') = Len(tm) + 1
    BY <2>1, <2>3, AppendProperties
  <2>5. QED BY <1>1, <1>4, <2>2, <2>4
<1>7. QED BY <1>5, <1>6

\* A call of RunQueue begins.
LEMMA EnterStep ==
  ASSUME EnterRunQueue, Sound(clients'), Len(clients') = Len(timer'),
         timer' \in Seq(0 .. Countdown + 1)
  PROVE  /\ t' \in -1 .. Cardinality(Conns)
         /\ pc' \in {"clean", "color"} /\ LoopInv' /\ ReadyInv'
<1> USE DEF EnterRunQueue
<1>1. Len(clients') \in Nat /\ DOMAIN clients' = 1 .. Len(clients')
  BY QueueType
<1>2. timer' # <<>> => 1 \in DOMAIN clients'
  BY <1>1, EmptySeq
<1>3. LoopInv'
  BY <1>2 DEF LoopInv
<1>4. ReadyInv'
  BY <1>1 DEF ReadyInv, Served
<1>5. t' \in -1 .. Cardinality(Conns)
  BY CountConns
<1>6. QED BY <1>3, <1>4, <1>5

LEMMA AcceptStep ==
  ASSUME LobbyInv, WaitAndAcceptConnection
  PROVE  LobbyInv' /\ \E c \in Conns : Accepted(c)
<1> USE DEF LobbyInv
<1>1. PICK c \in Conns, d \in {0, 1} :
        /\ peer[c] = "calling"
        /\ AddClient(c, Tick(timer, d))
        /\ \/ peer' = [peer EXCEPT ![c] = "quiet"] /\ UNCHANGED failed
           \/ peer' = [peer EXCEPT ![c] = "closed"] /\ failed' = failed \union {c}
  BY DEF WaitAndAcceptConnection
<1>2. UNCHANGED <<named, games, shut>> /\ EnterRunQueue
  BY DEF WaitAndAcceptConnection
<1>3. c \notin Queued /\ c \notin Playing /\ c \notin shut /\ c \notin named
      /\ c \notin failed
  BY <1>1 DEF QueuesAgree, NamedInv
<1>4. /\ Tick(timer, d) \in Seq(0 .. Countdown + 1)
      /\ Len(Tick(timer, d)) = Len(timer)
  BY TickType
<1>5. /\ Sound(clients') /\ Queued' = Queued \union {c} /\ Len(clients') = Len(timer')
      /\ timer' \in Seq(0 .. Countdown + 1)
  BY <1>1, <1>3, <1>4, AddClientStep
<1>6. /\ t' \in -1 .. Cardinality(Conns)
      /\ pc' \in {"clean", "color"} /\ LoopInv' /\ ReadyInv'
  BY <1>2, <1>5, EnterStep
<1>7. /\ peer' \in [Conns -> PeerState] /\ failed' \subseteq Conns
      /\ peer'[c] \notin {"away", "calling"}
      /\ \A b \in Conns : b # c => peer'[b] = peer[b]
      /\ failed \subseteq failed' /\ failed' \subseteq failed \union {c}
  BY <1>1 DEF TypeOK, PeerState
<1>8. TypeOK'
  BY <1>2, <1>5, <1>6, <1>7 DEF TypeOK, Sound
<1>9. QueuesAgree'
  <2>1. Playing' = Playing
    BY <1>2 DEF Playing
  <2>2. \A b \in Conns :
          b \in Queued' \union Playing \union shut' <=> peer'[b] \notin {"away", "calling"}
    BY <1>2, <1>3, <1>5, <1>7 DEF QueuesAgree
  <2>3. Queued' \cap Playing = {} /\ Queued' \cap shut' = {} /\ Playing \cap shut' = {}
    BY <1>2, <1>3, <1>5 DEF QueuesAgree
  <2>4. QED BY <1>2, <1>5, <2>2, <2>3, AgreeStep
<1>10. OnlyNamedPlay'
  <2>1. \A g \in DOMAIN games : c \notin games[g].players
    BY <1>3 DEF Playing
  <2>2. QED BY <1>2, <1>7, <2>1 DEF OnlyNamedPlay
<1>11. NamedInv'
  BY <1>2, <1>3, <1>7 DEF NamedInv, TypeOK
<1>12. Accepted(c)
  <2>1. Playing' = Playing
    BY <1>2 DEF Playing
  <2>2. QED BY <1>2, <1>3, <1>5, <2>1 DEF Accepted
<1>13. QED BY <1>6, <1>8, <1>9, <1>10, <1>11, <1>12

LEMMA NoConnectionStep ==
  ASSUME LobbyInv, NEW d \in {0, 1}, NoConnection(d)
  PROVE  LobbyInv' /\ Same
<1> USE DEF LobbyInv, NoConnection
<1>1. timer' \in Seq(0 .. Countdown + 1) /\ Len(timer') = Len(timer)
  BY TickType
<1>2. Sound(clients') /\ Len(clients') = Len(timer') /\ Queued' = Queued /\ Playing' = Playing
  BY <1>1, SoundQueues DEF QueuesAgree, Sound, Queued, Playing
<1>3. /\ t' \in -1 .. Cardinality(Conns)
      /\ pc' \in {"clean", "color"} /\ LoopInv' /\ ReadyInv'
  BY <1>1, <1>2, EnterStep
<1>4. TypeOK'
  BY <1>1, <1>3 DEF TypeOK
<1>5. QueuesAgree'
  BY <1>2, AgreeStep DEF QueuesAgree
<1>6. OnlyNamedPlay' /\ NamedInv'
  BY DEF OnlyNamedPlay, NamedInv
<1>7. Same
  BY <1>2 DEF Same
<1>8. QED BY <1>3, <1>4, <1>5, <1>6, <1>7

-----------------------------------------------------------------------------
(* RunQueue.                                                               *)

LEMMA DismissStep ==
  ASSUME TypeOK, QueuesAgree, t + 1 \in DOMAIN clients,
         NEW D, D \subseteq ToSet(clients[t + 1]),
         NEW a \in 0 .. Countdown + 1, Dismiss(D, a)
  PROVE  /\ Sound(clients') /\ Len(clients') = Len(timer')
         /\ timer' \in Seq(0 .. Countdown + 1)
         /\ Queued' = Queued \ D /\ shut' = shut \union D
         /\ \A q \in 1 .. t : clients'[q] = clients[q] /\ timer'[q] = timer[q]
         /\ \/ /\ Len(clients') = Len(clients) - 1 /\ Back = t - 1
               /\ D = ToSet(clients[t + 1])
            \/ /\ Len(clients') = Len(clients) /\ Back = t
               /\ timer'[t + 1] = a
               /\ ToSet(clients'[t + 1]) = ToSet(clients[t + 1]) \ D
<1> DEFINE k == t + 1
           q0 == Kept(clients[k], Conns \ D)
<1>1. /\ Sound(clients) /\ Queued = All(clients) /\ Len(clients) = Len(timer)
      /\ Len(clients) \in Nat /\ DOMAIN clients = 1 .. Len(clients)
      /\ k \in 1 .. Len(clients) /\ t \in Int
  BY SoundQueues, QueueType DEF QueuesAgree, TypeOK
<1>2. Queued' = All(clients')
  BY DEF Queued, All
<1>3. clients[k] \in Seq(Conns) /\ ToSet(clients[k]) \subseteq Conns
  BY <1>1, QueueType
<1>4. /\ q0 \in Seq(Conns) /\ ToSet(q0) = ToSet(clients[k]) \cap (Conns \ D)
      /\ q0 = <<>> <=> ToSet(q0) = {}
  <2>1. q0 \in Seq(Conns) /\ ToSet(q0) = ToSet(clients[k]) \cap (Conns \ D)
    BY <1>3, KeptProperties
  <2> HIDE DEF q0
  <2>2. QED BY <2>1, ToSetProperties
<1>5. timer \in Seq(0 .. Countdown + 1)
  BY TimerType
<1>6. CASE q0 = <<>>
  <2>1. clients' = RemoveAt(clients, k) /\ timer' = RemoveAt(timer, k) /\ shut' = shut \union D
    BY <1>6 DEF Dismiss
  <2>2. D = ToSet(clients[k])
    BY <1>3, <1>4, <1>6
  <2>3. /\ Sound(clients') /\ Len(clients') = Len(clients) - 1
        /\ All(clients') = All(clients) \ ToSet(clients[k])
        /\ \A q \in 1 .. k - 1 : clients'[q] = clients[q]
    BY <1>1, <2>1, RemoveQueue
  <2>4. /\ timer' \in Seq(0 .. Countdown + 1) /\ Len(timer') = Len(timer) - 1
        /\ \A q \in 1 .. Len(timer) - 1 :
             timer'[q] = IF q < k THEN timer[q] ELSE timer[q + 1]
    BY <1>1, <1>5, <2>1, RemoveAtProperties
  <2>5. \A q \in 1 .. t : clients'[q] = clients[q] /\ timer'[q] = timer[q]
    <3> SUFFICES ASSUME NEW q \in 1 .. t
                 PROVE  clients'[q] = clients[q] /\ timer'[q] = timer[q]
      OBVIOUS
    <3>1. q \in 1 .. k - 1 /\ q \in 1 .. Len(timer) - 1 /\ q < k
      BY <1>1
    <3>2. QED BY <2>3, <2>4, <3>1
  <2>6. Back = t - 1
    BY <1>1, <2>3 DEF Back
  <2>7. QED BY <1>1, <1>2, <2>1, <2>2, <2>3, <2>4, <2>5, <2>6
<1>7. CASE q0 # <<>>
  <2>1. /\ clients' = [clients EXCEPT ![k] = q0] /\ timer' = [timer EXCEPT ![k] = a]
        /\ shut' = shut \union D
    BY <1>7 DEF Dismiss
  <2>2. /\ Sound(clients') /\ Len(clients') = Len(clients)
        /\ All(clients') = All(clients) \ (ToSet(clients[k]) \ (Conns \ D))
        /\ ToSet(clients'[k]) = ToSet(clients[k]) \cap (Conns \ D)
        /\ \A q \in DOMAIN clients : q # k => clients'[q] = clients[q]
    BY <1>1, <1>7, <2>1, ShortenQueue
  <2>3. /\ timer' \in Seq(0 .. Countdown + 1) /\ Len(timer') = Len(timer)
        /\ \A q \in 1 .. Len(timer) : timer'[q] = IF q = k THEN a ELSE timer[q]
    BY <1>1, <1>5, <2>1, ExceptSeq
  <2>4. \A q \in 1 .. t : clients'[q] = clients[q] /\ timer'[q] = timer[q]
    <3> SUFFICES ASSUME NEW q \in 1 .. t
                 PROVE  clients'[q] = clients[q] /\ timer'[q] = timer[q]
      OBVIOUS
    <3>1. q \in DOMAIN clients /\ q \in 1 .. Len(timer) /\ q # k
      BY <1>1
    <3>2. QED BY <2>2, <2>3, <3>1
  <2>5. Back = t
    BY <1>1, <2>2 DEF Back
  <2>6. timer'[k] = a
    BY <1>1, <2>3
  <2>7. /\ ToSet(clients[k]) \cap (Conns \ D) = ToSet(clients[k]) \ D
        /\ ToSet(clients[k]) \ (Conns \ D) = D
    BY <1>3
  <2>8. QED BY <1>1, <1>2, <2>1, <2>2, <2>3, <2>4, <2>5, <2>6, <2>7
<1>8. QED BY <1>6, <1>7

\* A timer that runs after TryResetTimer belongs to a queue with avatars only.
LEMMA ResetType ==
  ASSUME NEW q, NEW a \in 0 .. Countdown + 1
  PROVE  /\ TryResetTimer(q, a) \in 0 .. Countdown + 1
         /\ TryResetTimer(q, a) > 0 => EveryoneNamed(q)
BY LobbyAssumption DEF TryResetTimer, NewTimer, Cap

LEMMA ColorStep ==
  ASSUME LobbyInv, ColorAndName
  PROVE  LobbyInv' /\ \E N, D \in SUBSET Conns : Chosen(N, D)
<1> USE DEF LobbyInv
<1> DEFINE unnamed == ToSet(clients[t + 1]) \ named
           ready   == {c \in unnamed \ failed : peer[c] \in {"avatar", "trash", "closed"}}
           a       == TryResetTimer(clients[t + 1], timer[t + 1])
<1>1. PICK N \in SUBSET {c \in ready : peer[c] # "trash"} :
           /\ named' = named \union N
           /\ peer' = [c \in Conns |-> IF c \in N /\ peer[c] = "avatar" THEN "quiet"
                                       ELSE peer[c]]
           /\ Dismiss(ready \ N, a)
  BY DEF ColorAndName
<1> DEFINE D == ready \ N
<1>2. /\ pc = "color" /\ t' = Back /\ pc' = (IF timer' = <<>> THEN "clean" ELSE "start")
      /\ UNCHANGED <<games, failed>>
  BY DEF ColorAndName
<1>3. /\ t + 1 \in DOMAIN clients /\ Sound(clients) /\ Queued = All(clients)
      /\ DOMAIN clients = 1 .. Len(clients) /\ Len(clients) \in Nat
      /\ Len(clients) = Len(timer) /\ t \in Int
      /\ ToSet(clients[t + 1]) \subseteq Queued /\ ToSet(clients[t + 1]) \subseteq Conns
  BY <1>2, SoundQueues, QueueType DEF LoopInv, QueuesAgree, TypeOK
<1>4. timer[t + 1] \in 0 .. Countdown + 1
  BY <1>3, TimerType
<1>5. a \in 0 .. Countdown + 1 /\ (a > 0 => EveryoneNamed(clients[t + 1]))
  BY <1>4, ResetType
<1>6. /\ D \subseteq ToSet(clients[t + 1]) /\ N \subseteq ToSet(clients[t + 1])
      /\ N \cap failed = {} /\ D \cap N = {} /\ D \cap named = {} /\ N \cap named = {}
  OBVIOUS
<1>7. \A c \in N : peer[c] \in {"avatar", "trash", "closed"}
  OBVIOUS
<1> HIDE DEF ready, unnamed, a, D
<1>8. Dismiss(D, a)
  BY <1>1 DEF D
<1>9.   /\ Sound(clients') /\ Len(clients') = Len(timer')
        /\ timer' \in Seq(0 .. Countdown + 1)
        /\ Queued' = Queued \ D /\ shut' = shut \union D
        /\ \A q \in 1 .. t : clients'[q] = clients[q] /\ timer'[q] = timer[q]
        /\ \/ /\ Len(clients') = Len(clients) - 1 /\ Back = t - 1
              /\ D = ToSet(clients[t + 1])
           \/ /\ Len(clients') = Len(clients) /\ Back = t
              /\ timer'[t + 1] = a
              /\ ToSet(clients'[t + 1]) = ToSet(clients[t + 1]) \ D
  BY <1>3, <1>5, <1>6, <1>8, DismissStep
<1>10. Len(clients') \in Nat /\ DOMAIN clients' = 1 .. Len(clients')
  BY <1>9, QueueType
<1>11. t \in Int /\ t >= 0 /\ t' \in {t - 1, t} /\ t' \in -1 .. Cardinality(Conns)
  <2>1. t \in Int /\ t >= 0
    BY <1>3
  <2>2. t' \in {t - 1, t}
    BY <1>2, <1>9
  <2>3. t <= Cardinality(Conns)
    BY DEF TypeOK
  <2>4. QED BY <2>1, <2>2, <2>3, CountConns
<1>12. /\ peer' \in [Conns -> PeerState]
       /\ \A c \in Conns : peer'[c] \in {"away", "calling"} <=> peer[c] \in {"away", "calling"}
  BY <1>1 DEF TypeOK, PeerState
<1>13. TypeOK'
  BY <1>1, <1>2, <1>3, <1>6, <1>9, <1>11, <1>12 DEF TypeOK, Sound
<1>14. QueuesAgree'
  <2>1. Queued' \cap Playing = {} /\ Queued' \cap shut' = {} /\ Playing \cap shut' = {}
    BY <1>3, <1>6, <1>9 DEF QueuesAgree
  <2>2. \A c \in Conns :
          c \in Queued' \union Playing \union shut' <=> peer'[c] \notin {"away", "calling"}
    BY <1>3, <1>6, <1>9, <1>12 DEF QueuesAgree
  <2>3. QED BY <1>2, <1>9, <2>1, <2>2, AgreeStep
<1>15. OnlyNamedPlay'
  BY <1>1, <1>2 DEF OnlyNamedPlay
<1>16. LoopInv'
  <2> SUFFICES ASSUME pc' = "start" PROVE clients' # <<>> /\ t' + 1 \in 0 .. Len(clients')
    BY <1>2 DEF LoopInv
  <2>1. Len(clients') # 0
    BY <1>2, <1>9, EmptySeq
  <2>2. clients' # <<>>
    BY <2>1, EmptySeq
  <2>3. CASE Len(clients') = Len(clients) - 1 /\ Back = t - 1
    <3>1. t' = t - 1 /\ t + 1 <= Len(clients)
      BY <1>2, <1>3, <2>3
    <3>2. QED BY <1>3, <1>10, <1>11, <2>2, <2>3, <3>1
  <2>4. CASE Len(clients') = Len(clients) /\ Back = t
    <3>1. t' = t
      BY <1>2, <2>4
    <3>2. QED BY <1>3, <1>10, <2>2, <2>4, <3>1
  <2>5. QED BY <1>9, <2>3, <2>4
<1>17. ReadyInv'
  <2> SUFFICES ASSUME NEW q \in DOMAIN clients', q <= t' + 1, timer'[q] > 0
               PROVE  ToSet(clients'[q]) \subseteq named'
    BY <1>2 DEF ReadyInv, Served, EveryoneNamed
  <2>1. CASE q <= t
    <3>1. q \in 1 .. t /\ q \in DOMAIN clients
      BY <1>3, <1>10, <2>1
    <3>2. clients'[q] = clients[q] /\ timer[q] > 0
      BY <1>9, <3>1
    <3>3. ToSet(clients[q]) \subseteq named
      BY <1>2, <2>1, <3>1, <3>2 DEF ReadyInv, Served, EveryoneNamed
    <3>4. QED BY <1>1, <3>2, <3>3
  <2>2. CASE q > t
    <3>1. q \in Int
      BY <1>10
    <3>2. q = t + 1 /\ t' = t
      BY <1>11, <2>2, <3>1
    <3>3. Back # t - 1
      BY <1>2, <1>11, <3>2
    <3>4. timer'[t + 1] = a /\ ToSet(clients'[t + 1]) \subseteq ToSet(clients[t + 1])
      BY <1>9, <3>3
    <3>5. QED BY <1>1, <1>5, <3>2, <3>4 DEF EveryoneNamed
  <2>3. QED BY <1>3, <1>10, <2>1, <2>2
<1>18. NamedInv'
  BY <1>1, <1>2, <1>3, <1>6, <1>7, <1>12 DEF NamedInv, TypeOK
<1>19. Chosen(N, D) /\ N \subseteq Conns /\ D \subseteq Conns
  <2>1. Playing' = Playing
    BY <1>2 DEF Playing
  <2>2. QED BY <1>1, <1>3, <1>6, <1>9, <2>1 DEF Chosen
<1>20. QED BY <1>13, <1>14, <1>15, <1>16, <1>17, <1>18, <1>19

\* Nothing happens but that the loop goes on, or the program crashes.
LEMMA OnlyLoopStep ==
  ASSUME LobbyInv, UNCHANGED <<clients, timer, named, games, failed, shut, peer>>
  PROVE  QueuesAgree' /\ OnlyNamedPlay' /\ NamedInv' /\ Same
<1>1. Queued' = Queued /\ Playing' = Playing
  BY DEF Queued, Playing
<1>2. QED BY <1>1 DEF LobbyInv, QueuesAgree, OnlyNamedPlay, NamedInv, Same
LEMMA UnchangedStep ==
  ASSUME LobbyInv, UNCHANGED vars
  PROVE  LobbyInv' /\ Same
<1>1. UNCHANGED <<clients, timer, named, t, pc, games, failed, shut, peer>>
  BY DEF vars
<1>2. QueuesAgree' /\ OnlyNamedPlay' /\ NamedInv' /\ Same
  BY <1>1, OnlyLoopStep
<1>3. TypeOK' /\ LoopInv' /\ ReadyInv'
  BY <1>1 DEF LobbyInv, TypeOK, LoopInv, ReadyInv, Served, EveryoneNamed
<1>4. QED BY <1>2, <1>3 DEF LobbyInv

\* A call at index -1 leaves everything as it is, if it does not crash.
LEMMA OutOfRangeStep ==
  ASSUME LobbyInv, pc \in {"start", "send"}, NEW next, OutOfRange(next),
         next => ToSend \/ LoopOn
  PROVE  LobbyInv' /\ Same
<1> USE DEF LobbyInv
<1>1. /\ t = -1 /\ UNCHANGED <<clients, timer, named, games, failed, shut, peer>>
      /\ \/ pc' = "crashed" /\ t' = t
         \/ pc' = "send" /\ t' = t
         \/ pc' = "color" /\ t' = t + 1
  BY DEF OutOfRange, ToSend, LoopOn
<1>2. QueuesAgree' /\ OnlyNamedPlay' /\ NamedInv' /\ Same
  BY <1>1, OnlyLoopStep
<1>3. Len(clients) \in Nat /\ DOMAIN clients = 1 .. Len(clients) /\ clients # <<>>
      /\ Len(clients) # 0
  BY SoundQueues, QueueType, EmptySeq DEF LoopInv
<1>4. LoopInv'
  BY <1>1, <1>3 DEF LoopInv
<1>5. t' \in {-1, 0}
  BY <1>1
<1>6. TypeOK'
  BY <1>1, <1>5, CountConns DEF TypeOK
<1>7. ReadyInv'
  <2> SUFFICES ASSUME NEW q \in DOMAIN clients, Served(q)' PROVE FALSE
    BY <1>1 DEF ReadyInv
  <2>1. q >= 1 /\ q \in Int
    BY <1>3
  <2>2. q <= t' + 1 /\ (pc' = "color" => q <= t')
    BY <1>1, <1>5, <2>1 DEF Served
  <2>3. QED BY <1>1, <2>1, <2>2 DEF Served
<1>8. QED BY <1>2, <1>4, <1>6, <1>7

\* A match starts: its players leave the queues together.
LEMMA MatchStep ==
  ASSUME LobbyInv, pc = "start", t >= 0, Ready(clients[t + 1], timer[t + 1]),
         games' = Append(games, [players |-> ToSet(clients[t + 1]), running |-> TRUE]),
         clients' = RemoveAt(clients, t + 1), timer' = RemoveAt(timer, t + 1),
         t' = t - 1, pc' = IF timer' = <<>> THEN "clean" ELSE "send",
         UNCHANGED <<named, failed, shut, peer>>
  PROVE  LobbyInv' /\ \E P \in SUBSET Conns : Started(P)
<1> USE DEF LobbyInv
<1> DEFINE k == t + 1
           P == ToSet(clients[k])
           G == [players : SUBSET Conns, running : BOOLEAN]
           g0 == [players |-> P, running |-> TRUE]
<1>1. /\ Sound(clients) /\ Queued = All(clients) /\ Len(clients) = Len(timer)
      /\ Len(clients) \in Nat /\ DOMAIN clients = 1 .. Len(clients)
      /\ t \in Int /\ k \in DOMAIN clients
  <2>1. /\ Sound(clients) /\ Queued = All(clients) /\ Len(clients) = Len(timer)
        /\ Len(clients) \in Nat /\ DOMAIN clients = 1 .. Len(clients) /\ t \in Int
    BY SoundQueues, QueueType DEF QueuesAgree, TypeOK
  <2>2. k \in 0 .. Len(clients) /\ k # 0
    BY <2>1 DEF LoopInv
  <2>3. QED BY <2>1, <2>2
<1>2. /\ clients[k] \in Seq(Conns) /\ Len(clients[k]) \in Nat
      /\ P \subseteq Conns /\ P \subseteq Queued
  BY <1>1, QueueType
<1>3. timer \in Seq(0 .. Countdown + 1) /\ timer[k] \in 0 .. Countdown + 1
  BY <1>1, TimerType
<1>4. /\ Sound(clients') /\ Len(clients') = Len(clients) - 1
      /\ All(clients') = All(clients) \ P
      /\ \A q \in 1 .. k - 1 : clients'[q] = clients[q]
  BY <1>1, RemoveQueue
<1>5. /\ timer' \in Seq(0 .. Countdown + 1) /\ Len(timer') = Len(timer) - 1
      /\ \A q \in 1 .. Len(timer) - 1 :
           timer'[q] = IF q < k THEN timer[q] ELSE timer[q + 1]
  BY <1>1, <1>3, RemoveAtProperties
<1>6. P \subseteq named \ failed
  <2>1. timer[k] > 0
    BY <1>3, LobbyAssumption DEF Ready
  <2>2. Served(k)
    BY <1>1 DEF Served
  <2>3. EveryoneNamed(clients[k])
    BY <1>1, <2>1, <2>2 DEF ReadyInv
  <2>4. QED BY <2>3 DEF EveryoneNamed, NamedInv
<1>7. Cardinality(P) \in StartSize .. Capacity
  <2>1. \A i, j \in DOMAIN clients[k] : clients[k][i] = clients[k][j] => i = j
    BY <1>1 DEF Sound
  <2>2. Cardinality(P) = Len(clients[k])
    BY <1>2, <2>1, DistinctElements
  <2>3. Len(clients[k]) <= Capacity /\ Len(clients[k]) >= StartSize
    BY <1>1, <1>2, LobbyAssumption DEF Sound, Ready
  <2>4. QED BY <1>2, <2>2, <2>3, LobbyAssumption
<1>8. /\ games' \in Seq(G) /\ Len(games) \in Nat /\ DOMAIN games = 1 .. Len(games)
      /\ DOMAIN games' = DOMAIN games \union {Len(games) + 1}
      /\ \A g \in DOMAIN games : games'[g] = games[g]
      /\ games'[Len(games) + 1].players = P
  <2>1. games \in Seq(G) /\ g0 \in G
    BY <1>2 DEF TypeOK
  <2>2. g0.players = P
    OBVIOUS
  <2> HIDE DEF g0, G
  <2>3. games' = Append(games, g0)
    BY DEF g0
  <2>4. /\ games' \in Seq(G) /\ Len(games') = Len(games) + 1
        /\ \A g \in 1 .. Len(games) : games'[g] = games[g]
        /\ games'[Len(games) + 1] = g0
    BY <2>1, <2>3, AppendProperties
  <2>5. Len(games) \in Nat /\ DOMAIN games = 1 .. Len(games)
        /\ DOMAIN games' = 1 .. Len(games) + 1
    BY <2>1, <2>4, LenProperties
  <2>6. 1 .. Len(games) + 1 = (1 .. Len(games)) \union {Len(games) + 1}
    BY <2>5
  <2>7. QED BY <2>2, <2>4, <2>5, <2>6
<1> HIDE DEF G, g0, P
<1>9. Playing' = Playing \union P
  BY <1>8 DEF Playing
<1>10. Queued' = Queued \ P
  <2>1. Queued' = All(clients')
    BY DEF Queued, All
  <2>2. QED BY <1>1, <1>4, <2>1
<1>11. QueuesAgree'
  <2>1. Queued' \cap Playing' = {} /\ Queued' \cap shut' = {} /\ Playing' \cap shut' = {}
    BY <1>2, <1>9, <1>10 DEF QueuesAgree
  <2>2. \A c \in Conns :
          c \in Queued' \union Playing' \union shut' <=> peer'[c] \notin {"away", "calling"}
    BY <1>2, <1>9, <1>10 DEF QueuesAgree
  <2>3. \A g \in DOMAIN games : games[g].players \cap P = {}
    BY <1>2 DEF QueuesAgree, Playing
  <2>4. \A g, h \in DOMAIN games' :
          g # h => games'[g].players \cap games'[h].players = {}
    BY <1>8, <2>3 DEF QueuesAgree
  <2>5. Len(clients') = Len(timer')
    BY <1>1, <1>4, <1>5
  <2>6. QED BY <1>4, <2>1, <2>2, <2>4, <2>5 DEF QueuesAgree, Sound
<1>12. OnlyNamedPlay'
  BY <1>6, <1>7, <1>8 DEF OnlyNamedPlay
<1>13. /\ Len(clients') \in Nat /\ DOMAIN clients' = 1 .. Len(clients')
       /\ t' \in -1 .. Cardinality(Conns) /\ pc' \in {"clean", "send"}
  <2>1. t <= Cardinality(Conns)
    BY <1>1 DEF TypeOK
  <2>2. QED BY <1>1, <1>4, <2>1, QueueType, CountConns
<1>14. LoopInv'
  <2> SUFFICES ASSUME pc' = "send" PROVE clients' # <<>> /\ t' + 1 \in 0 .. Len(clients')
    BY DEF LoopInv
  <2>1. Len(clients') # 0 /\ clients' # <<>>
    BY <1>1, <1>4, <1>5, EmptySeq
  <2>2. QED BY <1>1, <1>4, <1>13, <2>1
<1>15. ReadyInv'
  <2> SUFFICES ASSUME NEW q \in DOMAIN clients', q <= t' + 1, timer'[q] > 0
               PROVE  ToSet(clients'[q]) \subseteq named
    BY <1>13 DEF ReadyInv, Served, EveryoneNamed
  <2>1. q \in 1 .. k - 1 /\ q \in DOMAIN clients /\ q < k /\ q \in 1 .. Len(timer) - 1
    BY <1>1, <1>4, <1>13
  <2>2. clients'[q] = clients[q] /\ timer[q] > 0
    BY <1>4, <1>5, <2>1
  <2>3. Served(q)
    BY <1>1, <2>1 DEF Served
  <2>4. QED BY <2>1, <2>2, <2>3 DEF ReadyInv, EveryoneNamed
<1>16. NamedInv'
  BY DEF NamedInv
<1>17. TypeOK'
  <2>1. games' \in Seq([players : SUBSET Conns, running : BOOLEAN])
    BY <1>8 DEF G
  <2>2. QED BY <1>4, <1>5, <1>13, <2>1 DEF TypeOK, Sound
<1>18. Started(P)
  BY <1>2, <1>6, <1>7, <1>9, <1>10 DEF Started
<1>19. QED BY <1>2, <1>11, <1>12, <1>14, <1>15, <1>16, <1>17, <1>18

LEMMA StartStep ==
  ASSUME LobbyInv, CheckStartNewGame
  PROVE  LobbyInv' /\ (Same \/ \E P \in SUBSET Conns : Started(P))
<1>1. CASE OutOfRange(ToSend)
  BY <1>1, OutOfRangeStep DEF CheckStartNewGame
<1>2. CASE /\ ToSend
           /\ UNCHANGED <<clients, timer, named, games, failed, shut, peer>>
  <2>1. pc = "start" /\ pc' = "send" /\ t' = t
    BY <1>2 DEF ToSend, CheckStartNewGame
  <2>2. QueuesAgree' /\ OnlyNamedPlay' /\ NamedInv' /\ Same
    BY <1>2, OnlyLoopStep
  <2>3. TypeOK' /\ LoopInv' /\ ReadyInv'
    BY <1>2, <2>1 DEF LobbyInv, TypeOK, LoopInv, ReadyInv, Served, EveryoneNamed
  <2>4. QED BY <2>2, <2>3 DEF LobbyInv
<1>3. CASE /\ t >= 0
           /\ Ready(clients[t + 1], timer[t + 1])
           /\ games' = Append(games, [players |-> ToSet(clients[t + 1]), running |-> TRUE])
           /\ clients' = RemoveAt(clients, t + 1)
           /\ timer' = RemoveAt(timer, t + 1)
           /\ t' = t - 1
           /\ pc' = IF timer' = <<>> THEN "clean" ELSE "send"
           /\ UNCHANGED <<named, failed, shut, peer>>
  <2>1. pc = "start"
    BY DEF CheckStartNewGame
  <2>2. QED BY <1>3, <2>1, MatchStep
<1>4. QED BY <1>1, <1>2, <1>3 DEF CheckStartNewGame

\* The clients that read nothing more leave the queue.
LEMMA DroppedStep ==
  ASSUME LobbyInv, pc = "send", t >= 0,
         NEW D, D \subseteq ToSet(clients[t + 1]) \cap named, Dismiss(D, timer[t + 1]),
         named' = named \ D, NextQueue(Back + 1), UNCHANGED <<games, failed, peer>>
  PROVE  LobbyInv' /\ D \subseteq Conns /\ Dropped(D)
<1> USE DEF LobbyInv
<1>1. /\ Sound(clients) /\ Queued = All(clients) /\ Len(clients) = Len(timer)
      /\ Len(clients) \in Nat /\ DOMAIN clients = 1 .. Len(clients)
      /\ t \in Int /\ t + 1 \in DOMAIN clients
      /\ ToSet(clients[t + 1]) \subseteq Queued /\ ToSet(clients[t + 1]) \subseteq Conns
  <2>1. /\ Sound(clients) /\ Queued = All(clients) /\ Len(clients) = Len(timer)
        /\ Len(clients) \in Nat /\ DOMAIN clients = 1 .. Len(clients) /\ t \in Int
    BY SoundQueues, QueueType DEF QueuesAgree, TypeOK
  <2>2. t + 1 \in 0 .. Len(clients) /\ t + 1 # 0
    BY <2>1 DEF LoopInv
  <2>3. QED BY <2>1, <2>2, QueueType
<1>2. timer[t + 1] \in 0 .. Countdown + 1
  BY <1>1, TimerType
<1>3.   /\ Sound(clients') /\ Len(clients') = Len(timer')
        /\ timer' \in Seq(0 .. Countdown + 1)
        /\ Queued' = Queued \ D /\ shut' = shut \union D
        /\ \A q \in 1 .. t : clients'[q] = clients[q] /\ timer'[q] = timer[q]
        /\ \/ /\ Len(clients') = Len(clients) - 1 /\ Back = t - 1
              /\ D = ToSet(clients[t + 1])
           \/ /\ Len(clients') = Len(clients) /\ Back = t
              /\ timer'[t + 1] = timer[t + 1]
              /\ ToSet(clients'[t + 1]) = ToSet(clients[t + 1]) \ D
  BY <1>1, <1>2, DismissStep
<1>4. Len(clients') \in Nat /\ DOMAIN clients' = 1 .. Len(clients')
      /\ Len(clients') <= Cardinality(Conns)
  BY <1>3, QueueType, QueueCount
<1>5. t' = Back + 1 /\ pc' = IF t' < Len(clients') THEN "color" ELSE "clean"
  BY <1>3 DEF NextQueue
<1>6. t' \in 0 .. Len(clients') /\ (Back = t - 1 => t' = t) /\ (Back = t => t' = t + 1)
  <2>1. t <= Len(clients) - 1 /\ t >= 0
    BY <1>1
  <2>2. CASE Len(clients') = Len(clients) - 1 /\ Back = t - 1
    <3>1. t' = t
      BY <1>1, <1>5, <2>2
    <3>2. QED BY <1>1, <1>4, <2>1, <2>2, <3>1
  <2>3. CASE Len(clients') = Len(clients) /\ Back = t
    <3>1. t' = t + 1
      BY <1>1, <1>5, <2>3
    <3>2. QED BY <1>1, <1>4, <2>1, <2>3, <3>1
  <2>4. QED BY <1>3, <2>2, <2>3
<1>7. t' \in -1 .. Cardinality(Conns)
  BY <1>4, <1>6, CountConns
<1>8. TypeOK'
  BY <1>1, <1>3, <1>5, <1>7 DEF TypeOK, Sound
<1>9. QueuesAgree'
  <2>1. Queued' \cap Playing = {} /\ Queued' \cap shut' = {} /\ Playing \cap shut' = {}
    BY <1>1, <1>3 DEF QueuesAgree
  <2>2. \A c \in Conns :
          c \in Queued' \union Playing \union shut' <=> peer'[c] \notin {"away", "calling"}
    BY <1>1, <1>3 DEF QueuesAgree
  <2>3. QED BY <1>3, <2>1, <2>2, AgreeStep
<1>10. OnlyNamedPlay'
  <2>1. \A g \in DOMAIN games : games[g].players \cap D = {}
    BY <1>1 DEF QueuesAgree, Playing
  <2>2. QED BY <2>1 DEF OnlyNamedPlay
<1>11. LoopInv'
  <2> SUFFICES ASSUME pc' = "color" PROVE t' + 1 \in DOMAIN clients'
    BY <1>5 DEF LoopInv
  <2>1. t' < Len(clients')
    BY <1>5
  <2>2. Len(clients') \in Nat /\ t' \in 0 .. Len(clients')
    BY <1>4, <1>6
  <2>3. \A n \in Nat : \A i \in 0 .. n : i < n => i + 1 \in 1 .. n
    OBVIOUS
  <2>4. t' + 1 \in 1 .. Len(clients')
    BY ONLY <2>1, <2>2, <2>3
  <2>5. QED BY <1>4, <2>4
<1>12. ReadyInv'
  <2> SUFFICES ASSUME NEW q \in DOMAIN clients', q <= t', timer'[q] > 0
               PROVE  ToSet(clients'[q]) \subseteq named'
    BY <1>5 DEF ReadyInv, Served, EveryoneNamed
  <2>1. q \in Int /\ q >= 1
    BY <1>4
  <2>2. ASSUME NEW p \in DOMAIN clients, p <= t + 1, timer[p] > 0
        PROVE  ToSet(clients[p]) \subseteq named
    BY <2>2 DEF ReadyInv, Served, EveryoneNamed
  <2>3. CASE q <= t
    <3>1. q \in 1 .. t /\ q \in DOMAIN clients /\ q <= t + 1
      BY <1>1, <2>1, <2>3
    <3>2. clients'[q] = clients[q] /\ timer[q] > 0
      BY <1>3, <3>1
    <3>3. ToSet(clients[q]) \subseteq named
      BY <2>2, <3>1, <3>2
    <3>4. ToSet(clients[q]) \cap D = {}
      <4>1. q # t + 1
        BY <1>1, <2>1, <2>3
      <4>2. QED BY <1>1, <3>1, <4>1, QueuesDisjoint
    <3>5. QED BY <3>2, <3>3, <3>4
  <2>4. CASE q > t
    <3>1. Back # t - 1 /\ q = t + 1
      <4>1. t' # t
        BY <1>1, <2>1, <2>4
      <4>2. Back # t - 1 /\ Back = t
        BY <1>3, <1>6, <4>1
      <4>3. t' = t + 1
        BY <1>6, <4>2
      <4>4. QED BY <1>1, <2>1, <2>4, <4>2, <4>3
    <3>2. timer[t + 1] > 0 /\ ToSet(clients'[t + 1]) = ToSet(clients[t + 1]) \ D
      BY <1>3, <3>1
    <3>3. ToSet(clients[t + 1]) \subseteq named
      <4>1. t + 1 <= t + 1
        BY <1>1
      <4>2. QED BY <1>1, <2>2, <3>2, <4>1
    <3>4. QED BY <3>1, <3>2, <3>3
  <2>5. QED BY <1>1, <2>1, <2>3, <2>4
<1>13. NamedInv'
  BY DEF NamedInv
<1>14. Dropped(D) /\ D \subseteq Conns
  <2>1. Playing' = Playing
    BY DEF Playing
  <2>2. QED BY <1>1, <1>3, <2>1 DEF Dropped
<1>15. QED BY <1>8, <1>9, <1>10, <1>11, <1>12, <1>13, <1>14

LEMMA SendStep ==
  ASSUME LobbyInv, SendQueueState
  PROVE  LobbyInv' /\ (Same \/ \E D \in SUBSET Conns : Dropped(D))
<1>1. pc = "send"
  BY DEF SendQueueState
<1>2. CASE OutOfRange(LoopOn)
  BY <1>1, <1>2, OutOfRangeStep
<1>3. CASE ~ OutOfRange(LoopOn)
  <2>1. /\ t >= 0 /\ NextQueue(Back + 1) /\ UNCHANGED <<games, failed, peer>>
        /\ \E D \in SUBSET (ToSet(clients[t + 1]) \intersect named) :
             Dismiss(D, timer[t + 1]) /\ named' = named \ D
    BY <1>3 DEF SendQueueState
  <2>2. PICK D \in SUBSET (ToSet(clients[t + 1]) \intersect named) :
          Dismiss(D, timer[t + 1]) /\ named' = named \ D
    BY <2>1
  <2>3. QED BY <1>1, <2>1, <2>2, DroppedStep
<1>4. QED BY <1>2, <1>3

\* Every thread is joinable, so no match is ever erased.
LEMMA CleanStep ==
  ASSUME LobbyInv, ClearOldGames
  PROVE  LobbyInv' /\ Same
<1>1. games' = games
  <2> DEFINE G == [players : SUBSET Conns, running : BOOLEAN]
  <2>1. games \in Seq(G)
    BY DEF LobbyInv, TypeOK
  <2>2. ToSet(games) = {g \in ToSet(games) : Joinable(g)}
    BY DEF Joinable
  <2> HIDE DEF G
  <2>3. Kept(games, ToSet(games)) = games
    BY <2>1, KeptProperties
  <2>4. QED BY <2>2, <2>3 DEF ClearOldGames
<1>2. /\ UNCHANGED <<clients, timer, named, t, failed, shut, peer>> /\ pc' = "accept"
  BY DEF ClearOldGames
<1>3. QueuesAgree' /\ OnlyNamedPlay' /\ NamedInv' /\ Same
  BY <1>1, <1>2, OnlyLoopStep
<1>4. TypeOK' /\ LoopInv' /\ ReadyInv'
  BY <1>1, <1>2 DEF LobbyInv, TypeOK, LoopInv, ReadyInv, Served
<1>5. QED BY <1>3, <1>4 DEF LobbyInv

-----------------------------------------------------------------------------
(* The environment, and the theorems.                                      *)

\* A client program acts: only what waits at the other end changes.
LEMMA PeerStep ==
  ASSUME LobbyInv, NEW c \in Conns, NEW s \in PeerState,
         peer' = [peer EXCEPT ![c] = s],
         peer[c] \in {"away", "calling"} <=> s \in {"away", "calling"},
         UNCHANGED <<clients, timer, named, t, pc, games, failed, shut>>
  PROVE  LobbyInv' /\ Same
<1> USE DEF LobbyInv
<1>1. /\ peer' \in [Conns -> PeerState]
      /\ \A b \in Conns : peer'[b] \in {"away", "calling"} <=> peer[b] \in {"away", "calling"}
  BY DEF TypeOK
<1>2. Queued' = Queued /\ Playing' = Playing
  BY DEF Queued, Playing
<1>3. QueuesAgree'
  BY <1>1, <1>2, SoundQueues, AgreeStep DEF QueuesAgree
<1>4. NamedInv'
  BY <1>1 DEF NamedInv, TypeOK
<1>5. TypeOK' /\ OnlyNamedPlay' /\ LoopInv' /\ ReadyInv'
  BY <1>1 DEF TypeOK, OnlyNamedPlay, LoopInv, ReadyInv, Served, EveryoneNamed
<1>6. QED BY <1>2, <1>3, <1>4, <1>5 DEF Same

LEMMA ClientStep ==
  ASSUME LobbyInv, NEW c \in Conns, Connect(c) \/ Send(c) \/ HangUp(c)
  PROVE  LobbyInv' /\ Same
<1>1. PICK s \in PeerState : /\ peer' = [peer EXCEPT ![c] = s]
                             /\ peer[c] \in {"away", "calling"} <=> s \in {"away", "calling"}
  BY DEF Connect, Send, HangUp, PeerState
<1>2. UNCHANGED <<clients, timer, named, t, pc, games, failed, shut>>
  BY DEF Connect, Send, HangUp
<1>3. QED BY <1>1, <1>2, PeerStep

LEMMA GameOverStep ==
  ASSUME LobbyInv, GameOver
  PROVE  LobbyInv' /\ Same
<1> USE DEF LobbyInv
<1> DEFINE G == [players : SUBSET Conns, running : BOOLEAN]
<1>1. PICK g \in DOMAIN games : games' = [games EXCEPT ![g].running = FALSE]
  BY DEF GameOver
<1>2. UNCHANGED <<clients, timer, named, t, pc, failed, shut, peer>>
  BY DEF GameOver
<1>3. games \in Seq(G) /\ DOMAIN games = 1 .. Len(games) /\ games[g] \in G
  BY LenProperties, ElementOfSeq DEF TypeOK
<1> DEFINE r == [games[g] EXCEPT !.running = FALSE]
<1>4. r \in G /\ r.players = games[g].players /\ games' = [games EXCEPT ![g] = r]
  BY <1>1, <1>3
<1> HIDE DEF r, G
<1>5. /\ games' \in Seq(G) /\ DOMAIN games' = DOMAIN games
      /\ \A h \in DOMAIN games : games'[h] = IF h = g THEN r ELSE games[h]
  BY <1>3, <1>4, ExceptSeq
<1>6. \A h \in DOMAIN games : games'[h].players = games[h].players
  BY <1>4, <1>5
<1>7. Queued' = Queued /\ Playing' = Playing
  BY <1>2, <1>5, <1>6 DEF Queued, Playing
<1>8. QueuesAgree'
  BY <1>2, <1>5, <1>6, <1>7 DEF QueuesAgree
<1>9. OnlyNamedPlay'
  BY <1>2, <1>5, <1>6 DEF OnlyNamedPlay
<1>10. TypeOK' /\ LoopInv' /\ ReadyInv' /\ NamedInv'
  BY <1>2, <1>5 DEF G, TypeOK, LoopInv, ReadyInv, NamedInv, Served, EveryoneNamed
<1>11. QED BY <1>2, <1>7, <1>8, <1>9, <1>10 DEF Same

LEMMA InitLobby == Init => LobbyInv
<1> SUFFICES ASSUME Init PROVE LobbyInv
  OBVIOUS
<1> USE DEF Init
<1>1. TypeOK
  BY CountConns, LobbyAssumption, EmptySeq DEF TypeOK, PeerState
<1>2. Queued = {} /\ Playing = {}
  BY DEF Queued, Playing
<1>3. QueuesAgree
  BY <1>2 DEF QueuesAgree
<1>4. QED BY <1>1, <1>3 DEF LobbyInv, OnlyNamedPlay, LoopInv, ReadyInv, Served, NamedInv

LEMMA NextLobby ==
  LobbyInv /\ [Next]_vars =>
    /\ LobbyInv'
    /\ \/ Same
       \/ \E c \in Conns : Accepted(c)
       \/ \E N, D \in SUBSET Conns : Chosen(N, D)
       \/ \E D \in SUBSET Conns : Dropped(D)
       \/ \E P \in SUBSET Conns : Started(P)
<1> SUFFICES ASSUME LobbyInv, [Next]_vars
             PROVE  /\ LobbyInv'
                    /\ \/ Same
                       \/ \E c \in Conns : Accepted(c)
                       \/ \E N, D \in SUBSET Conns : Chosen(N, D)
                       \/ \E D \in SUBSET Conns : Dropped(D)
                       \/ \E P \in SUBSET Conns : Started(P)
  OBVIOUS
<1>1. CASE WaitAndAcceptConnection
  BY <1>1, AcceptStep
<1>2. CASE \E d \in {0, 1} : NoConnection(d)
  BY <1>2, NoConnectionStep
<1>3. CASE ColorAndName
  BY <1>3, ColorStep
<1>4. CASE CheckStartNewGame
  BY <1>4, StartStep
<1>5. CASE SendQueueState
  BY <1>5, SendStep
<1>6. CASE ClearOldGames
  BY <1>6, CleanStep
<1>7. CASE \E c \in Conns : Connect(c) \/ Send(c) \/ HangUp(c)
  BY <1>7, ClientStep
<1>8. CASE GameOver
  BY <1>8, GameOverStep
<1>9. CASE UNCHANGED vars
  BY <1>9, UnchangedStep
<1>10. QED
  BY <1>1, <1>2, <1>3, <1>4, <1>5, <1>6, <1>7, <1>8, <1>9 DEF Next, LobbyThread

\* The loop of RunQueue removes queues while it walks them by index: in every
\* reachable state the two vectors agree, the index is one of a queue where a
\* function uses it, and timers run out for queues with avatars only.
THEOREM LobbyInvariance == Spec => []LobbyInv
BY InitLobby, NextLobby, PTL DEF Spec

\* Every variable of the lobby thread has its type: there are never more queues
\* than connections, which bounds the index.
THEOREM LobbyTypes == Spec => []TypeOK
<1>1. LobbyInv => TypeOK
  BY DEF LobbyInv
<1>2. QED BY <1>1, LobbyInvariance, PTL

\* The vectors clients and timer go together, and every accepted connection is
\* in one place of one queue, in one match or closed: Queue::AddClient,
\* DismissClients, StartNewGame lose none and double none.
THEOREM NobodyLost == Spec => []QueuesAgree
<1>1. LobbyInv => QueuesAgree
  BY DEF LobbyInv
<1>2. QED BY <1>1, LobbyInvariance, PTL

\* A match starts with StartSize to Capacity players, each with an avatar and a
\* socket: PlayerHandling::createPlayer dereferences the avatar of each.
THEOREM PlayersReady == Spec => []OnlyNamedPlay
<1>1. LobbyInv => OnlyNamedPlay
  BY DEF LobbyInv
<1>2. QED BY <1>1, LobbyInvariance, PTL

-----------------------------------------------------------------------------
(* The lobby implements LobbyPromise.                                      *)

Places == [c \in Conns |-> Place(c)]

\* A connection is in one place; whoever plays has an avatar.
LEMMA PlaceType ==
  ASSUME LobbyInv
  PROVE  \A c \in Conns :
           /\ Place(c) = "outside" <=> c \notin Queued \union Playing \union shut
           /\ Place(c) = "choosing" <=> c \in Queued \ named
           /\ Place(c) = "waiting" <=> c \in Queued \cap named
           /\ Place(c) = "playing" <=> c \in Playing
           /\ Place(c) = "dropped" <=> c \in shut
<1>1. Queued \cap Playing = {} /\ Queued \cap shut = {} /\ Playing \cap shut = {}
  BY DEF LobbyInv, QueuesAgree
<1>2. QED BY <1>1 DEF Place

LEMMA InitImplements == Init => Promise!Init
<1> SUFFICES ASSUME Init PROVE Promise!Init
  OBVIOUS
<1>1. Queued = {} /\ Playing = {} /\ shut = {}
  BY DEF Init, Queued, Playing
<1>2. QED BY <1>1 DEF Promise!Init, Place

LEMMA NextImplements == LobbyInv /\ [Next]_vars => [Promise!Next]_Places
<1> SUFFICES ASSUME LobbyInv, [Next]_vars PROVE Promise!Next \/ Places' = Places
  OBVIOUS
<1>1. Queued \cap Playing = {} /\ Queued \cap shut = {} /\ Playing \cap shut = {}
  BY DEF LobbyInv, QueuesAgree
<1>2. CASE Same
  BY <1>2 DEF Same, Places, Place
<1>3. ASSUME NEW c \in Conns, Accepted(c) PROVE Promise!Accept
  <2>1. Place(c) = "outside"
    BY <1>3 DEF Accepted, Place
  <2>2. Places' = [b \in Conns |-> IF b = c THEN "choosing" ELSE Places[b]]
    BY <1>3 DEF Accepted, Places, Place
  <2>3. QED BY <2>1, <2>2 DEF Promise!Accept, Promise!At, Promise!Move, Places
<1>4. ASSUME NEW N \in SUBSET Conns, NEW D \in SUBSET Conns, Chosen(N, D)
      PROVE  Promise!Choose
  <2>1. \A b \in N \union D : Place(b) = "choosing"
    BY <1>1, <1>4, PlaceType DEF Chosen
  <2>2. Places' = [b \in Conns |-> IF b \in N THEN "waiting"
                                  ELSE IF b \in D THEN "dropped" ELSE Places[b]]
    BY <1>1, <1>4 DEF Chosen, Places, Place
  <2>3. N \cap D = {}
    BY <1>4 DEF Chosen
  <2>4. QED BY <2>1, <2>2, <2>3 DEF Promise!Choose, Promise!At, Places
<1>5. ASSUME NEW D \in SUBSET Conns, Dropped(D) PROVE Promise!Drop
  <2>1. \A b \in D : Place(b) = "waiting"
    BY <1>1, <1>5, PlaceType DEF Dropped
  <2>2. Places' = [b \in Conns |-> IF b \in D THEN "dropped" ELSE Places[b]]
    BY <1>1, <1>5 DEF Dropped, Places, Place
  <2>3. QED BY <2>1, <2>2 DEF Promise!Drop, Promise!At, Promise!Move, Places
<1>6. ASSUME NEW P \in SUBSET Conns, Started(P) PROVE Promise!Start
  <2>1. \A b \in P : Place(b) = "waiting"
    BY <1>1, <1>6, PlaceType DEF Started
  <2>2. Places' = [b \in Conns |-> IF b \in P THEN "playing" ELSE Places[b]]
    BY <1>1, <1>6 DEF Started, Places, Place
  <2>3. Cardinality(P) \in StartSize .. Capacity
    BY <1>6 DEF Started
  <2>4. P \in SUBSET Promise!At("waiting")
    BY <2>1 DEF Promise!At, Places
  <2>5. Places' = Promise!Move(P, "playing")
    BY <2>2 DEF Promise!Move, Places
  <2>6. Promise!Cardinality(P) = Cardinality(P)
    BY DEF Promise!Cardinality, Cardinality
  <2>7. QED BY <2>3, <2>4, <2>5, <2>6 DEF Promise!Start, Places
<1>7. QED BY <1>2, <1>3, <1>4, <1>5, <1>6, NextLobby DEF Promise!Next

\* As each connection sees it, the lobby thread is the simple LobbyPromise,
\* whatever queue it sits in and however the queues move: it is accepted once,
\* chooses, waits, and plays with others that wait, or is dropped for good.
THEOREM LobbyRefinement == Spec => ImplementsPromise
BY LobbyInvariance, InitImplements, NextImplements, PTL
   DEF Spec, ImplementsPromise, Promise!Spec, Places
=============================================================================
