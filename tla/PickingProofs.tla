--------------------------- MODULE PickingProofs ---------------------------
(***************************************************************************)
(* Lemmas about positions in a sequence and what is picked at them.        *)
(***************************************************************************)
EXTENDS Picking, SequencesExt, Integers, FiniteSetTheorems, FunctionTheorems, NaturalsInduction,
        WellFoundedInduction, TLAPS

\* Positions are finitely many.
LEMMA PositionsFinite ==
  ASSUME NEW n \in Nat, NEW K \in SUBSET (1..n)
  PROVE  IsFiniteSet(K) /\ Cardinality(K) \in 0..n
<1>1. 1 \in Int /\ n \in Int
  OBVIOUS
<1>2. IsFiniteSet(1..n) /\ Cardinality(1..n) = n
  BY <1>1, FS_Interval
<1>3. IsFiniteSet(K) /\ Cardinality(K) <= n
  BY <1>2, FS_Subset
<1> QED BY <1>3, FS_CardinalityType

\* Sets of numbers have a least one, and of positions a last one.
LEMMA LeastNumber == ASSUME NEW S \in SUBSET Nat, S # {} PROVE \E n \in S : \A m \in S : n <= m
<1>1. PICK n \in S : \A m \in S : ~(<<m, n>> \in OpToRel(<, Nat))
  BY NatLessThanWellFounded, WFMin
<1>2. \A m \in S : ~(m < n)
  BY <1>1 DEF OpToRel
<1> QED BY <1>2

LEMMA LastPosition ==
  ASSUME NEW N \in Nat, NEW K \in SUBSET (1..N), K # {}
  PROVE  \E i \in K : \A j \in K : j <= i
<1> DEFINE D == {N - i : i \in K}
<1>1. D \in SUBSET Nat /\ D # {}
  <2>1. \A i \in K : N - i \in Nat
    OBVIOUS
  <2> QED BY <2>1
<1>2. PICK d \in D : \A e \in D : ~(<<e, d>> \in OpToRel(<, Nat))
  BY <1>1, NatLessThanWellFounded, WFMin
<1>3. PICK i \in K : d = N - i
  BY <1>2
<1>4. ASSUME NEW j \in K PROVE j <= i
  <2>1. N - j \in D /\ N - j \in Nat /\ d \in Nat
    BY <1>1, <1>2
  <2>2. ~(N - j < d)
    BY <1>2, <2>1 DEF OpToRel
  <2> QED BY <1>3, <2>2
<1> QED BY <1>4

\* The rank of a position among others, and its inverse.
Rank(K, k) == Cardinality({j \in K : j <= k})

LEMMA RankIs ==
  ASSUME NEW N \in Nat, NEW K \in SUBSET (1..N), NEW k \in K
  PROVE  /\ Rank(K, k) \in 1..Cardinality(K)
         /\ \A j \in K : Rank(K, j) = Rank(K, k) => j = k
<1>1. IsFiniteSet(K) /\ Cardinality(K) \in Nat
  BY PositionsFinite
<1>2. ASSUME NEW i \in K
      PROVE  /\ IsFiniteSet({j \in K : j <= i}) /\ Cardinality({j \in K : j <= i}) \in Nat
             /\ Cardinality({j \in K : j <= i}) <= Cardinality(K)
             /\ Cardinality({j \in K : j <= i}) # 0
  <2> DEFINE U == {j \in K : j <= i}
  <2>1. U \in SUBSET K /\ i \in U
    OBVIOUS
  <2> HIDE DEF U
  <2>2. IsFiniteSet(U) /\ Cardinality(U) <= Cardinality(K)
    BY <1>1, <2>1, FS_Subset
  <2>3. Cardinality(U) \in Nat /\ Cardinality(U) # 0
    BY <2>1, <2>2, FS_CardinalityType, FS_EmptySet
  <2> QED BY <2>2, <2>3 DEF U
<1>3. ASSUME NEW i \in K, NEW j \in K, i < j PROVE Rank(K, i) # Rank(K, j)
  <2> DEFINE U == {m \in K : m <= i}
             V == {m \in K : m <= j}
  <2>1. U \in SUBSET V /\ j \in V /\ j \notin U
    <3>1. \A m \in K : m \in Int
      OBVIOUS
    <3>2. \A m \in K : m <= i => m <= j
      BY <1>3, <3>1
    <3>3. j <= j /\ ~(j <= i)
      BY <1>3, <3>1
    <3> QED BY <3>2, <3>3
  <2>2. IsFiniteSet(V)
    BY <1>2
  <2> HIDE DEF U, V
  <2>3. Cardinality(U) # Cardinality(V)
    BY <2>1, <2>2, FS_Subset
  <2> QED BY <2>3 DEF U, V, Rank
<1>4. \A j \in K : Rank(K, j) = Rank(K, k) => j = k
  <2>1. ASSUME NEW j \in K, Rank(K, j) = Rank(K, k) PROVE j = k
    <3>1. ~(j < k) /\ ~(k < j)
      BY <1>3, <2>1
    <3> QED BY <3>1
  <2> QED BY <2>1
<1>5. Rank(K, k) \in Nat /\ Rank(K, k) <= Cardinality(K) /\ Rank(K, k) # 0
  BY <1>2 DEF Rank
<1>6. Rank(K, k) \in 1..Cardinality(K)
  BY <1>1, <1>5
<1> QED BY <1>4, <1>6

LEMMA NthIs ==
  ASSUME NEW N \in Nat, NEW K \in SUBSET (1..N)
  PROVE  /\ Cardinality(K) \in Nat
         /\ \A n \in 1..Cardinality(K) : Nth(K, n) \in K /\ Rank(K, Nth(K, n)) = n
         /\ \A k \in K : Rank(K, k) \in 1..Cardinality(K) /\ Nth(K, Rank(K, k)) = k
<1> DEFINE C == Cardinality(K)
           rank == [k \in K |-> Rank(K, k)]
<1>1. IsFiniteSet(K) /\ C \in Nat
  BY PositionsFinite
<1>2. \A k \in K : Rank(K, k) \in 1..C /\ \A j \in K : Rank(K, j) = Rank(K, k) => j = k
  BY RankIs
<1> HIDE DEF C
<1>3. rank \in Injection(K, 1..C)
  BY <1>2 DEF Injection, IsInjective
<1>4. IsFiniteSet(1..C) /\ Cardinality(1..C) = C
  <2>1. 1 \in Int /\ C \in Int
    BY <1>1
  <2> QED BY <1>1, <2>1, FS_Interval
<1>5. Cardinality(K) = Cardinality(1..C)
  BY <1>4 DEF C
<1> HIDE DEF rank
<1>6. rank \in Surjection(K, 1..C)
  BY <1>3, <1>4, <1>5, FS_Injection
<1>7. \A n \in 1..C : \E k \in K : Rank(K, k) = n
  BY <1>6 DEF Surjection, rank
<1>8. \A n \in 1..C : Nth(K, n) \in K /\ Rank(K, Nth(K, n)) = n
  BY <1>7 DEF Nth, Rank
<1>9. \A k \in K : Nth(K, Rank(K, k)) = k
  BY <1>2, <1>8
<1> QED BY <1>1, <1>2, <1>8, <1>9 DEF C

\* What is picked keeps its order.
LEMMA NthOrder ==
  ASSUME NEW N \in Nat, NEW K \in SUBSET (1..N),
         NEW i \in 1..Cardinality(K), NEW j \in 1..Cardinality(K), i < j
  PROVE  Nth(K, i) < Nth(K, j)
<1> DEFINE a == Nth(K, i)
           b == Nth(K, j)
           U == {m \in K : m <= b}
           V == {m \in K : m <= a}
<1>1. a \in K /\ b \in K /\ Rank(K, a) = i /\ Rank(K, b) = j
  BY NthIs
<1>0. \A m \in K : m \in Nat
  OBVIOUS
<1>3. a \in Nat /\ b \in Nat
  BY <1>0, <1>1
<1> HIDE DEF a, b
<1>2. ASSUME b <= a PROVE FALSE
  <2>1. \A m \in K : m <= b => m <= a
    BY <1>0, <1>2, <1>3
  <2>2. U \in SUBSET V /\ V \in SUBSET (1..N)
    BY <2>1
  <2>3. IsFiniteSet(V) /\ Cardinality(V) \in Nat
    BY <2>2, PositionsFinite
  <2>4. Cardinality(U) \in Nat /\ Cardinality(U) <= Cardinality(V)
    BY <2>2, <2>3, FS_Subset, FS_CardinalityType
  <2>5. Cardinality(U) = j /\ Cardinality(V) = i
    BY <1>1 DEF Rank
  <2> QED BY <2>4, <2>5
<1> QED BY <1>2, <1>3 DEF a, b

LEMMA PickedIn ==
  ASSUME NEW S, NEW text \in Seq(S), NEW K \in SUBSET DOMAIN text
  PROVE  /\ Picked(text, K) \in Seq(S)
         /\ \A n \in DOMAIN Picked(text, K) : \E k \in K : Picked(text, K)[n] = text[k]
<1>1. K \in SUBSET (1..Len(text)) /\ Len(text) \in Nat
  OBVIOUS
<1>2. /\ Cardinality(K) \in Nat
      /\ \A n \in 1..Cardinality(K) : Nth(K, n) \in K
  BY <1>1, NthIs
<1> QED BY <1>1, <1>2 DEF Picked

\* A set in some order.
LEMMA SetToSeqIs ==
  ASSUME NEW T, IsFiniteSet(T)
  PROVE  /\ SetToSeq(T) \in [1..Cardinality(T) -> T] /\ Cardinality(T) \in Nat
         /\ SetToSeq(T) \in Seq(T) /\ Len(SetToSeq(T)) = Cardinality(T)
         /\ IsInjective(SetToSeq(T)) /\ Range(SetToSeq(T)) = T
<1> DEFINE C == Cardinality(T)
           s == SetToSeq(T)
<1>1. C \in Nat /\ ExistsBijection(1..C, T)
  BY FS_CardinalityType
<1>2. \E f \in [1..C -> T] : IsInjective(f)
  BY <1>1 DEF ExistsBijection, Bijection, Injection, IsInjective
<1>3. s \in [1..C -> T] /\ IsInjective(s)
  BY <1>2 DEF SetToSeq
<1> HIDE DEF s
<1>4. IsFiniteSet(1..C) /\ Cardinality(1..C) = C
  <2>1. 1 \in Int /\ C \in Int
    BY <1>1
  <2> QED BY <1>1, <2>1, FS_Interval
<1>5. s \in Injection(1..C, T)
  BY <1>3 DEF Injection
<1>6. s \in Surjection(1..C, T)
  BY <1>4, <1>5, FS_Injection
<1>7. Range(s) = T
  <2>1. \A x \in T : \E i \in 1..C : s[i] = x
    BY <1>6 DEF Surjection
  <2> HIDE DEF C
  <2> QED BY <1>3, <2>1 DEF Range
<1> HIDE DEF C
<1>8. s \in Seq(T) /\ Len(s) = C
  BY <1>1, <1>3
<1> QED BY <1>1, <1>3, <1>7, <1>8 DEF C, s

LEMMA SetToSeqSequence ==
  ASSUME NEW T, IsFiniteSet(T) PROVE SetToSeq(T) \in Seq(T)
BY SetToSeqIs
-----------------------------------------------------------------------------
(* Sequences that are joined, and functions defined step by step.          *)

LEMMA Concatenated ==
  ASSUME NEW S, NEW s \in Seq(S), NEW t \in Seq(S)
  PROVE  s \o t \in Seq(S) /\ Len(s \o t) = Len(s) + Len(t)
OBVIOUS

LEMMA SeqWider == ASSUME NEW A, NEW B, A \subseteq B, NEW s \in Seq(A) PROVE s \in Seq(B)
OBVIOUS

\* FlattenSeq joins its texts one by one.
LEMMA FlattenIn ==
  ASSUME NEW S, NEW files \in Seq(Seq(S)) PROVE FlattenSeq(files) \in Seq(S)
<1> DEFINE N == Len(files)
           Join(g, i) == IF i = 1 THEN files[i] ELSE g[i - 1] \o files[i]
           Joined(g, k) == g = [i \in 1..k |-> Join(g, i)] /\ \A i \in 1..k : g[i] \in Seq(S)
<1>1. N \in Nat /\ \A i \in 1..N : files[i] \in Seq(S)
  OBVIOUS
<1>2. CASE N = 0
  BY <1>2 DEF FlattenSeq
<1>3. CASE N # 0
  <2> DEFINE Lacking == {k \in 0..N : ~\E g : Joined(g, k)}
  <2>1. \A k \in 0..N : \E g : Joined(g, k)
    <3> SUFFICES ASSUME Lacking # {} PROVE FALSE
      OBVIOUS
    <3>1. Lacking \in SUBSET Nat
      <4>1. 0..N \subseteq Nat
        BY <1>1
      <4>2. Lacking \subseteq 0..N
        OBVIOUS
      <4> QED BY <4>1, <4>2
    <3>2. PICK k \in Lacking : \A m \in Lacking : k <= m
      BY <3>1, LeastNumber
    <3>3. k \in 0..N /\ ~\E g : Joined(g, k)
      BY <3>2
    <3>4. k # 0
      <4>1. 1..0 = {}
        OBVIOUS
      <4>2. Joined([i \in 1..0 |-> <<>>], 0)
        BY <4>1
      <4> HIDE DEF Joined
      <4> QED BY <3>3, <4>2
    <3>5. k - 1 \in 0..N /\ ~(k <= k - 1)
      BY <1>1, <3>3, <3>4
    <3>6. PICK g : Joined(g, k - 1)
      <4> HIDE DEF Joined
      <4> QED BY <3>2, <3>5
    <3> HIDE DEF Lacking
    <3> DEFINE h == [i \in 1..k |-> IF i = k THEN Join(g, k) ELSE g[i]]
    <3>7. ASSUME NEW i \in 1..k PROVE Join(h, i) = Join(g, i) /\ h[i] = Join(g, i)
      <4>1. i # 1 => i - 1 \in 1..k /\ i - 1 # k
        BY <1>1, <3>3
      <4>2. i # 1 => h[i - 1] = g[i - 1]
        BY <4>1
      <4>3. Join(h, i) = Join(g, i)
        BY <4>2
      <4>4. CASE i = k
        BY <4>3, <4>4
      <4>5. CASE i # k
        <5>1. i \in 1..(k - 1)
          BY <1>1, <3>3, <4>5
        <5>2. g[i] = Join(g, i)
          BY <3>6, <5>1
        <5>3. h[i] = g[i]
          BY <4>5
        <5> QED BY <4>3, <5>2, <5>3
      <4> QED BY <4>4, <4>5
    <3>8. h = [i \in 1..k |-> Join(h, i)]
      <4>1. h = [i \in 1..k |-> h[i]]
        OBVIOUS
      <4> HIDE DEF h, Join
      <4> QED BY <3>7, <4>1
    <3>9. ASSUME NEW i \in 1..k PROVE h[i] \in Seq(S)
      <4>1. files[i] \in Seq(S)
        BY <1>1, <3>3
      <4>2. CASE i = 1
        BY <3>7, <4>1, <4>2
      <4>3. CASE i # 1
        <5>1. i - 1 \in 1..(k - 1)
          BY <1>1, <3>3, <4>3
        <5>2. g[i - 1] \in Seq(S)
          BY <3>6, <5>1
        <5>3. g[i - 1] \o files[i] \in Seq(S)
          BY <4>1, <5>2, Concatenated, Zenon
        <5> QED BY <3>7, <4>3, <5>3
      <4> QED BY <4>2, <4>3
    <3>10. Joined(h, k)
      <4> HIDE DEF h, Join
      <4> QED BY <3>8, <3>9
    <3> HIDE DEF Joined
    <3> QED BY <3>3, <3>10
  <2> HIDE DEF Lacking
  <2> DEFINE flatten == CHOOSE g : g = [i \in 1..N |-> IF i = 1 THEN files[i] ELSE g[i - 1] \o files[i]]
  <2>2. FlattenSeq(files) = flatten[N]
    BY <1>3 DEF FlattenSeq
  <2>3. PICK g : Joined(g, N)
    <3>1. N \in 0..N
      BY <1>1
    <3> HIDE DEF Joined, N
    <3> QED BY <2>1, <3>1
  <2>4. flatten = [i \in 1..N |-> IF i = 1 THEN files[i] ELSE flatten[i - 1] \o files[i]]
    BY <2>3
  <2> HIDE DEF flatten
  <2> DEFINE Wrong == {i \in 1..N : flatten[i] \notin Seq(S)}
  <2>5. Wrong = {}
    <3> SUFFICES ASSUME Wrong # {} PROVE FALSE
      OBVIOUS
    <3>1. Wrong \in SUBSET Nat
      BY <1>1
    <3>2. PICK i \in Wrong : \A j \in Wrong : i <= j
      BY <3>1, LeastNumber
    <3>3. i \in 1..N /\ flatten[i] \notin Seq(S) /\ files[i] \in Seq(S)
      BY <1>1, <3>2
    <3>4. i # 1
      BY <2>4, <3>3
    <3>5. i - 1 \in 1..N /\ ~(i <= i - 1)
      BY <1>1, <3>3, <3>4
    <3>6. flatten[i - 1] \in Seq(S)
      BY <3>2, <3>5
    <3>7. flatten[i - 1] \o files[i] \in Seq(S)
      BY <3>3, <3>6, Concatenated, Zenon
    <3> QED BY <2>4, <3>3, <3>4, <3>7
  <2>6. N \in 1..N
    BY <1>1, <1>3
  <2> QED BY <2>2, <2>5, <2>6
<1> QED BY <1>2, <1>3

\* A function defined from its value one step before exists.
Steps(N, T, start, step) == N \in Nat /\ start \in T /\ step \in [1..N -> [T -> T]]

Follows(g, N, T, start, step) ==
  g \in [0..N -> T] /\ g[0] = start /\ \A n \in 1..N : g[n] = step[n][g[n - 1]]

LEMMA StepByStep ==
  ASSUME NEW N, NEW T, NEW start, NEW step, Steps(N, T, start, step)
  PROVE  \E g : Follows(g, N, T, start, step)
<1> USE DEF Steps, Follows
<1>0. N \in Nat /\ start \in T /\ step \in [1..N -> [T -> T]]
  OBVIOUS
<1> DEFINE Upto(k, g) == /\ g \in [0..k -> T] /\ g[0] = start
                         /\ \A n \in 1..k : g[n] = step[n][g[n - 1]]
           Lacking == {k \in 0..N : ~\E g : Upto(k, g)}
<1> HIDE DEF Steps, Follows
<1>1. Lacking = {}
  <2> SUFFICES ASSUME Lacking # {} PROVE FALSE
    OBVIOUS
  <2>1. Lacking \in SUBSET Nat
    <3>1. 0..N \subseteq Nat /\ Lacking \subseteq 0..N
      BY <1>0
    <3> QED BY <3>1
  <2>2. PICK k \in Lacking : \A m \in Lacking : k <= m
    BY <2>1, LeastNumber
  <2>3. k \in 0..N /\ ~\E g : Upto(k, g)
    BY <2>2
  <2>4. k # 0
    <3>1. Upto(0, [n \in 0..0 |-> start])
      <4>1. 1..0 = {} /\ 0 \in 0..0
        OBVIOUS
      <4> QED BY <1>0, <4>1
    <3> HIDE DEF Upto
    <3> QED BY <2>3, <3>1
  <2>5. k - 1 \in 0..N /\ ~(k <= k - 1)
    BY <1>0, <2>3, <2>4
  <2>6. PICK g : Upto(k - 1, g)
    <3> HIDE DEF Upto
    <3> QED BY <2>2, <2>5
  <2> HIDE DEF Lacking
  <2> DEFINE h == [n \in 0..k |-> IF n = k THEN step[k][g[k - 1]] ELSE g[n]]
  <2>7. \A n \in 0..k : n # k => n \in 0..(k - 1)
    BY <1>0, <2>3
  <2>8. g[k - 1] \in T /\ k \in 1..N
    BY <1>0, <2>3, <2>4, <2>6
  <2>9. step[k][g[k - 1]] \in T
    BY <1>0, <2>8
  <2>10. h \in [0..k -> T]
    BY <2>6, <2>7, <2>9
  <2>11. h[0] = start
    BY <1>0, <2>3, <2>4, <2>6
  <2>12. ASSUME NEW n \in 1..k PROVE h[n] = step[n][h[n - 1]]
    <3>1. n - 1 \in 0..k /\ n \in 0..k /\ n - 1 # k
      BY <1>0, <2>3
    <3>2. h[n - 1] = g[n - 1]
      BY <3>1
    <3>3. CASE n = k
      BY <3>1, <3>2, <3>3
    <3>4. CASE n # k
      <4>1. n \in 1..(k - 1) /\ h[n] = g[n]
        BY <1>0, <2>3, <3>1, <3>4
      <4> QED BY <2>6, <3>2, <4>1
    <3> QED BY <3>3, <3>4
  <2>13. Upto(k, h)
    BY <2>10, <2>11, <2>12
  <2> HIDE DEF Upto
  <2> QED BY <2>3, <2>13
<1>2. N \in 0..N
  BY <1>0
<1>3. PICK g : Upto(N, g)
  <2> HIDE DEF Upto
  <2> QED BY <1>1, <1>2
<1> QED BY <1>3 DEF Follows

\* What is defined by such steps keeps to them.
LEMMA StepsStay ==
  ASSUME NEW N, NEW T, NEW start, NEW step, Steps(N, T, start, step),
         NEW h, h[0] = start, \A n \in 1..N : h[n - 1] \in T => h[n] = step[n][h[n - 1]]
  PROVE  \A n \in 0..N : h[n] \in T
<1> DEFINE Wrong == {n \in 0..N : h[n] \notin T}
<1>1. N \in Nat /\ start \in T /\ step \in [1..N -> [T -> T]]
  BY DEF Steps
<1> SUFFICES ASSUME Wrong # {} PROVE FALSE
  OBVIOUS
<1>2. Wrong \in SUBSET Nat
  <2>1. 0..N \subseteq Nat /\ Wrong \subseteq 0..N
    BY <1>1
  <2> QED BY <2>1
<1>3. PICK n \in Wrong : \A m \in Wrong : n <= m
  BY <1>2, LeastNumber
<1>4. n \in 0..N /\ h[n] \notin T
  BY <1>3
<1>5. n # 0
  BY <1>1, <1>4
<1>6. n \in 1..N /\ n - 1 \in 0..N /\ ~(n <= n - 1)
  BY <1>1, <1>4, <1>5
<1>7. h[n - 1] \in T
  BY <1>3, <1>6
<1>8. h[n] = step[n][h[n - 1]] /\ step[n] \in [T -> T]
  BY <1>1, <1>6, <1>7
<1> QED BY <1>4, <1>7, <1>8

\* The same where what is kept differs from step to step.
LEMMA StepsWithin ==
  ASSUME NEW N \in Nat, NEW T, NEW h, h[0] \in T[0],
         \A n \in 1..N : h[n - 1] \in T[n - 1] => h[n] \in T[n]
  PROVE  \A n \in 0..N : h[n] \in T[n]
<1> DEFINE Wrong == {n \in 0..N : h[n] \notin T[n]}
<1> SUFFICES ASSUME Wrong # {} PROVE FALSE
  OBVIOUS
<1>1. Wrong \in SUBSET Nat
  <2>1. 0..N \subseteq Nat /\ Wrong \subseteq 0..N
    OBVIOUS
  <2> QED BY <2>1
<1>2. PICK n \in Wrong : \A m \in Wrong : n <= m
  BY <1>1, LeastNumber
<1>3. n \in 0..N /\ h[n] \notin T[n]
  BY <1>2
<1>4. n \in 1..N /\ n - 1 \in 0..N /\ ~(n <= n - 1)
  BY <1>3
<1>5. h[n - 1] \in T[n - 1]
  BY <1>2, <1>4
<1> QED BY <1>3, <1>4, <1>5
=============================================================================
