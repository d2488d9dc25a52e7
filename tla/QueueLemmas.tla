---------------------------- MODULE QueueLemmas -----------------------------
(* What a send to and a receive from a channel do to its contents: facts     *)
(* about Append and Tail of sequences without repetitions.                   *)
EXTENDS Integers, Sequences, FiniteSets, SeqFilter, SequenceTheorems, FiniteSetTheorems, TLAPS

Holds(s, x) == \E i \in DOMAIN s : s[i] = x
Distinct(s) == \A i, k \in DOMAIN s : s[i] = s[k] => i = k

\* Append adds its element behind those that were there.
LEMMA AppendHolds ==
    ASSUME NEW S, NEW s \in Seq(S), NEW e \in S
    PROVE  /\ Append(s, e) \in Seq(S)
           /\ \A x : Holds(Append(s, e), x) <=> (x = e \/ Holds(s, x))
  <1>1. /\ Append(s, e) \in Seq(S)
        /\ DOMAIN s = 1..Len(s) /\ DOMAIN Append(s, e) = 1..(Len(s) + 1)
        /\ Len(s) \in Nat
        /\ Append(s, e)[Len(s) + 1] = e
        /\ \A i \in 1..Len(s) : Append(s, e)[i] = s[i]
    OBVIOUS
  <1>2. ASSUME NEW x, Holds(Append(s, e), x) PROVE x = e \/ Holds(s, x)
    BY <1>1, <1>2 DEF Holds
  <1>3. ASSUME NEW x, x = e \/ Holds(s, x) PROVE Holds(Append(s, e), x)
    BY <1>1, <1>3 DEF Holds
  <1>4. QED
    BY <1>1, <1>2, <1>3

\* Appending a new element keeps the elements distinct.
LEMMA AppendDistinct ==
    ASSUME NEW S, NEW s \in Seq(S), NEW e \in S, Distinct(s), ~Holds(s, e)
    PROVE  Distinct(Append(s, e))
  BY DEF Distinct, Holds

\* Tail removes the first element, and leaves no second copy of it.
LEMMA TailHolds ==
    ASSUME NEW S, NEW s \in Seq(S), s # <<>>, Distinct(s)
    PROVE  /\ Tail(s) \in Seq(S)
           /\ Head(s) \in S
           /\ Holds(s, Head(s))
           /\ \A x : Holds(Tail(s), x) <=> (x # Head(s) /\ Holds(s, x))
           /\ Distinct(Tail(s))
  <1>1. /\ Tail(s) \in Seq(S) /\ Head(s) \in S /\ Head(s) = s[1]
        /\ DOMAIN s = 1..Len(s) /\ DOMAIN Tail(s) = 1..(Len(s) - 1)
        /\ Len(s) \in Nat \ {0}
        /\ \A i \in 1..(Len(s) - 1) : Tail(s)[i] = s[i + 1]
    OBVIOUS
  <1>2. Holds(s, Head(s))
    BY <1>1 DEF Holds
  <1>3. ASSUME NEW x, Holds(Tail(s), x) PROVE x # Head(s) /\ Holds(s, x)
    BY <1>1, <1>3 DEF Holds, Distinct
  <1>4. ASSUME NEW x, x # Head(s), Holds(s, x) PROVE Holds(Tail(s), x)
    <2>1. PICK i \in DOMAIN s : s[i] = x
      BY <1>4 DEF Holds
    <2>2. i # 1 /\ i - 1 \in 1..(Len(s) - 1)
      BY <1>1, <1>4, <2>1
    <2>3. Tail(s)[i - 1] = x
      BY <1>1, <2>1, <2>2
    <2>4. QED
      BY <1>1, <2>2, <2>3 DEF Holds
  <1>5. Distinct(Tail(s))
    BY <1>1 DEF Distinct
  <1>6. QED
    BY <1>1, <1>2, <1>3, <1>4, <1>5

\* The elements of a concatenation are those of its two parts.
LEMMA ConcatHolds ==
    ASSUME NEW S, NEW s \in Seq(S), NEW q \in Seq(S)
    PROVE  \A x : Holds(s \o q, x) <=> (Holds(s, x) \/ Holds(q, x))
  <1>1. /\ DOMAIN s = 1..Len(s) /\ DOMAIN q = 1..Len(q)
        /\ DOMAIN (s \o q) = 1..(Len(s) + Len(q))
        /\ Len(s) \in Nat /\ Len(q) \in Nat
        /\ \A i \in 1..Len(s) + Len(q) :
               (s \o q)[i] = IF i <= Len(s) THEN s[i] ELSE q[i - Len(s)]
    BY ConcatProperties
  <1>2. ASSUME NEW x, Holds(s \o q, x) PROVE Holds(s, x) \/ Holds(q, x)
    <2>1. PICK i \in 1..(Len(s) + Len(q)) : (s \o q)[i] = x
      BY <1>1, <1>2 DEF Holds
    <2>2. CASE i <= Len(s)
      BY <1>1, <2>1, <2>2 DEF Holds
    <2>3. CASE i > Len(s)
      <3>1. i - Len(s) \in 1..Len(q) /\ q[i - Len(s)] = x
        BY <1>1, <2>1, <2>3
      <3>2. QED
        BY <1>1, <3>1 DEF Holds
    <2>4. QED
      BY <1>1, <2>2, <2>3
  <1>3. ASSUME NEW x, Holds(s, x) PROVE Holds(s \o q, x)
    BY <1>1, <1>3 DEF Holds
  <1>4. ASSUME NEW x, Holds(q, x) PROVE Holds(s \o q, x)
    <2>1. PICK i \in 1..Len(q) : q[i] = x
      BY <1>1, <1>4 DEF Holds
    <2>2. i + Len(s) \in 1..(Len(s) + Len(q)) /\ (s \o q)[i + Len(s)] = x
      BY <1>1, <2>1
    <2>3. QED
      BY <1>1, <2>2 DEF Holds
  <1>5. QED
    BY <1>2, <1>3, <1>4

\* A send behind a concatenation is a send behind its second part.
LEMMA ConcatAppend ==
    ASSUME NEW S, NEW s \in Seq(S), NEW q \in Seq(S), NEW e \in S
    PROVE  s \o Append(q, e) = Append(s \o q, e)
  <1>1. s \o q \in Seq(S) /\ <<e>> \in Seq(S)
    BY ConcatProperties
  <1>2. Append(s \o q, e) = (s \o q) \o <<e>> /\ Append(q, e) = q \o <<e>>
    BY <1>1, AppendIsConcat
  <1>3. QED
    BY <1>1, <1>2, ConcatAssociative

\* A receive moves the boundary between what was taken and what is left.
LEMMA ConcatTake ==
    ASSUME NEW S, NEW s \in Seq(S), NEW q \in Seq(S), q # <<>>
    PROVE  s \o q = Append(s, Head(q)) \o Tail(q)
  <1>1. Head(q) \in S /\ Tail(q) \in Seq(S) /\ <<Head(q)>> \in Seq(S)
    BY HeadTailProperties
  <1>2. q = <<Head(q)>> \o Tail(q)
    OBVIOUS
  <1>3. Append(s, Head(q)) = s \o <<Head(q)>>
    BY <1>1, AppendIsConcat
  <1>4. QED
    BY <1>1, <1>2, <1>3, ConcatAssociative

\* A sequence without repetitions has as many elements as places.
LEMMA DistinctCardinality ==
    ASSUME NEW S, NEW s \in Seq(S), Distinct(s)
    PROVE  LET R == {s[i] : i \in DOMAIN s}
           IN  IsFiniteSet(R) /\ Cardinality(R) = Len(s)
  <1> DEFINE R == {s[i] : i \in DOMAIN s}
  <1>1. DOMAIN s = 1..Len(s) /\ Len(s) \in Nat
    OBVIOUS
  <1>2. IsFiniteSet(1..Len(s)) /\ Cardinality(1..Len(s)) = Len(s)
    BY <1>1, FS_Interval
  <1>3. s \in Bijection(1..Len(s), R)
    <2>1. s \in [1..Len(s) -> R]
      BY <1>1
    <2>2. QED
      BY <1>1, <2>1 DEF Bijection, Injection, Surjection, IsInjective, Distinct
  <1>4. QED
    BY <1>2, <1>3, FS_Bijection DEF ExistsBijection

\* The elements behind the first k of a sequence without repetitions.
LEMMA LastCardinality ==
    ASSUME NEW S, NEW s \in Seq(S), Distinct(s), NEW k \in 0..Len(s)
    PROVE  LET R == {s[i] : i \in k + 1..Len(s)}
           IN  IsFiniteSet(R) /\ Cardinality(R) = Len(s) - k
  <1> DEFINE n == Len(s)
             I == k + 1..n
             R == {s[i] : i \in I}
             f == [i \in I |-> s[i]]
  <1>1. DOMAIN s = 1..n /\ n \in Nat /\ I \subseteq 1..n
    OBVIOUS
  <1>2. IsFiniteSet(I) /\ Cardinality(I) = n - k
    <2>1. k + 1 \in Int /\ n \in Int
      BY <1>1
    <2>2. IsFiniteSet(I) /\ Cardinality(I) = IF k + 1 > n THEN 0 ELSE n - (k + 1) + 1
      BY <2>1, FS_Interval
    <2>3. ASSUME NEW l \in Nat, NEW j \in 0..l
          PROVE  (IF j + 1 > l THEN 0 ELSE l - (j + 1) + 1) = l - j
      OBVIOUS
    <2>4. QED
      BY <1>1, <2>2, <2>3
  <1>3. f \in Bijection(I, R)
    <2>1. f \in [I -> R]
      BY <1>1
    <2>2. QED
      BY <1>1, <2>1 DEF Bijection, Injection, Surjection, IsInjective, Distinct
  <1>4. QED
    BY <1>2, <1>3, FS_Bijection DEF ExistsBijection

-----------------------------------------------------------------------------
(* Induction.  The library's induction theorems are about an operator; the  *)
(* provers can use them only for sets, so they are stated here for sets.    *)

\* The least number principle, from the fact that a finite set has no
\* infinite descending chain of subsets.
LEMMA LeastNat ==
    ASSUME NEW U \in SUBSET Nat, U # {}
    PROVE  \E x \in U : \A y \in U : x <= y
  <1>0. PICK n \in U : TRUE
    OBVIOUS
  <1> DEFINE F == 0..n
             T == {0..k : k \in {i \in U : i <= n}}
  <1>1. IsFiniteSet(F)
    BY FS_Interval
  <1>2. IsWellFoundedOn(StrictSubsetOrdering(F), FiniteSubsetsOf(F))
    BY FS_StrictSubsetOrderingWellFounded
  <1>3. T \subseteq FiniteSubsetsOf(F) /\ T # {}
    <2>1. T \subseteq SUBSET F
      OBVIOUS
    <2>2. \A X \in SUBSET F : IsFiniteSet(X)
      BY <1>1, FS_Subset
    <2>3. 0..n \in T
      OBVIOUS
    <2>4. QED
      BY <2>1, <2>2, <2>3 DEF FiniteSubsetsOf
  <1>4. PICK X \in T : \A Y \in T : ~(<<Y, X>> \in StrictSubsetOrdering(F))
    <2> HIDE DEF T, F
    <2>1. QED
      BY <1>2, <1>3, WFMin
  <1>5. PICK k \in U : k <= n /\ X = 0..k
    BY <1>4
  <1>6. ASSUME NEW y \in U, y < k PROVE FALSE
    <2>1. y <= n /\ y \in Nat /\ k \in Nat
      BY <1>5, <1>6
    <2>2. 0..y \in T
      BY <2>1
    <2>3. 0..y \subseteq 0..k
      BY <1>6, <2>1
    <2>4. k \in 0..k /\ k \notin 0..y
      BY <1>6, <2>1
    <2>5. 0..y \in SUBSET F /\ 0..k \in SUBSET F
      BY <1>5, <1>6
    <2>6. <<0..y, 0..k>> \in StrictSubsetOrdering(F)
      BY <2>3, <2>4, <2>5 DEF StrictSubsetOrdering
    <2>7. QED
      BY <1>4, <1>5, <2>2, <2>6
  <1>7. QED
    BY <1>5, <1>6

\* Induction up to n, for membership in a set.
LEMMA InductionUpTo ==
    ASSUME NEW n \in Nat, NEW T, 0 \in T,
           \A i \in 0..n - 1 : i \in T => i + 1 \in T
    PROVE  \A i \in 0..n : i \in T
  <1> SUFFICES ASSUME NEW j \in 0..n, j \notin T PROVE FALSE
    OBVIOUS
  <1> DEFINE U == {i \in 0..n : i \notin T}
  <1>1. U \in SUBSET Nat /\ U # {}
    OBVIOUS
  <1>2. PICK x \in U : \A y \in U : x <= y
    BY <1>1, LeastNat
  <1>3. x - 1 \in 0..n - 1 /\ x - 1 \notin U
    BY <1>2
  <1>4. QED
    BY <1>2, <1>3

-----------------------------------------------------------------------------
(* What Keep computes.                                                      *)

\* The loop of Keep: the copy after each iteration.
Copies(A, s, S) ==
    {k \in [0..Len(s) -> Seq(A)] :
        /\ k[0] = <<>>
        /\ \A i \in 1..Len(s) :
              k[i] = IF s[i] \in S THEN Append(k[i - 1], s[i]) ELSE k[i - 1]}

\* Its definition by recursion has a solution, so Keep is the last copy.
LEMMA KeepLoop ==
    ASSUME NEW A, NEW s \in Seq(A), NEW S
    PROVE  \E k \in Copies(A, s, S) : Keep(s, S) = k[Len(s)]
  <1> DEFINE n == Len(s)
             Iterate(i, x) == IF s[i] \in S THEN Append(x, s[i]) ELSE x
             Body(k) == [i \in 0..n |-> IF i = 0 THEN <<>> ELSE Iterate(i, k[i - 1])]
             kept == CHOOSE k : k = Body(k)
  <1>1. n \in Nat /\ <<>> \in Seq(A)
    OBVIOUS
  <1>2. \A i \in 1..n, x \in Seq(A) : Iterate(i, x) \in Seq(A)
    OBVIOUS
  <1>3. Keep(s, S) = kept[n]
    BY DEF Keep
  <1> HIDE DEF n, Iterate
  <1>4. \E g \in [0..n -> Seq(A)] : g[0] = <<>> /\ \A i \in 1..n : g[i] = Iterate(i, g[i - 1])
    <2> DEFINE Good(k) == {g \in [0..k -> Seq(A)] :
                              g[0] = <<>> /\ \A i \in 1..k : g[i] = Iterate(i, g[i - 1])}
               T == {k \in 0..n : Good(k) # {}}
    <2>1. Good(0) # {}
      <3>1. /\ [i \in 0..0 |-> <<>>] \in [0..0 -> Seq(A)]
            /\ [i \in 0..0 |-> <<>>][0] = <<>>
            /\ \A i \in 1..0 : FALSE
        BY <1>1
      <3>2. [i \in 0..0 |-> <<>>] \in Good(0)
        BY <3>1
      <3>3. QED
        BY <3>2
    <2>2. ASSUME NEW k \in 0..n - 1, Good(k) # {} PROVE Good(k + 1) # {}
      <3>1. PICK g \in [0..k -> Seq(A)] :
                g[0] = <<>> /\ \A i \in 1..k : g[i] = Iterate(i, g[i - 1])
        BY <2>2
      <3> DEFINE v == Iterate(k + 1, g[k])
                 h == [i \in 0..k + 1 |-> IF i = k + 1 THEN v ELSE g[i]]
      <3>2. v \in Seq(A)
        BY <1>1, <1>2, <2>2
      <3>3. h \in [0..k + 1 -> Seq(A)]
        BY <3>2
      <3>4. h[k + 1] = v /\ \A i \in 0..k : h[i] = g[i]
        <4> HIDE DEF v
        <4>1. QED
          BY <1>1, <2>2
      <3> HIDE DEF h
      <3>5. h[0] = <<>>
        <4>1. 0 \in 0..k
          BY <1>1
        <4>2. h[0] = g[0]
          BY <3>4, <4>1
        <4>3. QED
          BY <3>1, <4>2, Zenon
      <3>6. ASSUME NEW i \in 1..k + 1 PROVE h[i] = Iterate(i, h[i - 1])
        <4>1. CASE i \in 1..k
          <5>1. h[i] = g[i] /\ h[i - 1] = g[i - 1]
            BY <1>1, <3>4, <4>1
          <5>2. QED
            BY <3>1, <4>1, <5>1
        <4>2. CASE i = k + 1
          <5>1. i - 1 = k /\ h[k] = g[k]
            BY <1>1, <3>4, <4>2
          <5>2. QED
            BY <3>4, <4>2, <5>1
        <4>3. QED
          BY <1>1, <4>1, <4>2
      <3>7. h \in Good(k + 1)
        BY <3>3, <3>5, <3>6
      <3>8. QED
        BY <3>7
    <2>3. Good(n) # {}
      <3> HIDE DEF Good
      <3>1. 0 \in T /\ \A k \in 0..n - 1 : k \in T => k + 1 \in T
        BY <1>1, <2>1, <2>2
      <3> HIDE DEF T
      <3>2. \A k \in 0..n : k \in T
        BY <1>1, <3>1, InductionUpTo
      <3>3. QED
        BY <1>1, <3>2 DEF T
    <2>4. QED
      BY <2>3
  <1>5. PICK g \in [0..n -> Seq(A)] :
            g[0] = <<>> /\ \A i \in 1..n : g[i] = Iterate(i, g[i - 1])
    BY <1>4
  <1>6. g = Body(g)
    BY <1>1, <1>5
  <1>7. kept = Body(kept)
    <2> HIDE DEF Body
    <2>1. QED
      BY <1>6
  <1> HIDE DEF kept
  <1>8. kept[0] = <<>> /\ \A i \in 1..n : kept[i] = Iterate(i, kept[i - 1])
    BY <1>1, <1>7
  <1>9. \A i \in 0..n : kept[i] \in Seq(A)
    <2> DEFINE T == {i \in 0..n : kept[i] \in Seq(A)}
    <2>1. 0 \in T
      <3>1. kept[0] \in Seq(A)
        BY <1>1, <1>8, Zenon
      <3>2. QED
        BY <1>1, <3>1
    <2>2. ASSUME NEW i \in 0..n - 1, i \in T PROVE i + 1 \in T
      <3>1. i + 1 \in 1..n /\ (i + 1) - 1 = i
        BY <1>1
      <3>2. kept[i + 1] = Iterate(i + 1, kept[i])
        BY <1>8, <3>1
      <3>3. QED
        BY <1>2, <2>2, <3>1, <3>2
    <2> HIDE DEF T
    <2>3. \A i \in 0..n : i \in T
      BY <1>1, <2>1, <2>2, InductionUpTo
    <2>4. QED
      BY <2>3 DEF T
  <1>10. kept \in [0..n -> Seq(A)]
    BY <1>7, <1>9
  <1>11. kept \in Copies(A, s, S)
    BY <1>8, <1>10 DEF Copies, n, Iterate
  <1>12. QED
    BY <1>3, <1>11 DEF n

\* Keep copies, in order and each once, the places of s whose element is in S:
\* m gives for every place of the copy the place it comes from.
LEMMA KeepPlaces ==
    ASSUME NEW A, NEW s \in Seq(A), NEW S
    PROVE  /\ Keep(s, S) \in Seq(A)
           /\ \E m \in [1..Len(Keep(s, S)) -> 1..Len(s)] :
                 /\ \A a, c \in 1..Len(Keep(s, S)) : a < c => m[a] < m[c]
                 /\ \A a \in 1..Len(Keep(s, S)) :
                       Keep(s, S)[a] = s[m[a]] /\ s[m[a]] \in S
                 /\ \A i \in 1..Len(s) :
                       s[i] \in S => \E a \in 1..Len(Keep(s, S)) : m[a] = i
  <1>0. PICK k \in Copies(A, s, S) : Keep(s, S) = k[Len(s)]
    BY KeepLoop
  <1>1. /\ k \in [0..Len(s) -> Seq(A)] /\ k[0] = <<>>
        /\ \A i \in 1..Len(s) :
              k[i] = IF s[i] \in S THEN Append(k[i - 1], s[i]) ELSE k[i - 1]
    BY DEF Copies
  <1> DEFINE n == Len(s)
             Increasing(m, l) == \A a, c \in 1..l : a < c => m[a] < m[c]
             Places(i) == {m \in [1..Len(k[i]) -> 1..i] :
                             /\ Increasing(m, Len(k[i]))
                             /\ \A a \in 1..Len(k[i]) : k[i][a] = s[m[a]] /\ s[m[a]] \in S
                             /\ \A j \in 1..i : s[j] \in S => \E a \in 1..Len(k[i]) : m[a] = j}
             T == {i \in 0..n : Places(i) # {}}
  <1>2. n \in Nat /\ \A i \in 0..n : k[i] \in Seq(A) /\ Len(k[i]) \in Nat
    BY <1>1
  <1>3. Places(0) # {}
    <2>1. Len(k[0]) = 0
      BY <1>1
    <2>2. 1..0 = {} /\ <<>> \in [1..0 -> 1..0]
      OBVIOUS
    <2>3. <<>> \in Places(0)
      BY <2>1, <2>2
    <2>4. QED
      BY <2>3
  <1>4. ASSUME NEW i \in 0..n - 1, Places(i) # {} PROVE Places(i + 1) # {}
    <2>0. i \in Nat /\ i + 1 \in 1..n /\ i \in 0..n /\ (i + 1) - 1 = i
      BY <1>2
    <2> DEFINE l == Len(k[i])
    <2>1. l \in Nat /\ k[i] \in Seq(A)
      BY <1>2, <2>0
    <2>2. PICK m \in [1..l -> 1..i] :
              /\ Increasing(m, l)
              /\ \A a \in 1..l : k[i][a] = s[m[a]] /\ s[m[a]] \in S
              /\ \A j \in 1..i : s[j] \in S => \E a \in 1..l : m[a] = j
      BY <1>4
    <2>3. k[i + 1] = IF s[i + 1] \in S THEN Append(k[i], s[i + 1]) ELSE k[i]
      BY <1>1, <2>0
    <2>4. CASE s[i + 1] \notin S
      <3>1. k[i + 1] = k[i]
        BY <2>3, <2>4
      <3>2. m \in [1..l -> 1..i + 1]
        BY <2>0, <2>2
      <3>3. \A j \in 1..i + 1 : s[j] \in S => \E a \in 1..l : m[a] = j
        BY <2>0, <2>2, <2>4
      <3>4. m \in Places(i + 1)
        BY <2>2, <3>1, <3>2, <3>3
      <3>5. QED
        BY <3>4
    <2>5. CASE s[i + 1] \in S
      <3>1. k[i + 1] = Append(k[i], s[i + 1])
        BY <2>3, <2>5
      <3>2. /\ Len(k[i + 1]) = l + 1
            /\ \A a \in 1..l : k[i + 1][a] = k[i][a]
            /\ k[i + 1][l + 1] = s[i + 1]
        BY <1>2, <2>0, <2>1, <3>1
      <3> DEFINE h == [a \in 1..l + 1 |-> IF a = l + 1 THEN i + 1 ELSE m[a]]
      <3> HIDE DEF l
      <3>3. h \in [1..l + 1 -> 1..i + 1]
        BY <2>0, <2>1, <2>2
      <3>4. h[l + 1] = i + 1 /\ \A a \in 1..l : h[a] = m[a] /\ m[a] \in 1..i
        BY <2>1, <2>2
      <3> HIDE DEF h
      <3>5. Increasing(h, l + 1)
        <4>1. ASSUME NEW a \in 1..l + 1, NEW c \in 1..l + 1, a < c PROVE h[a] < h[c]
          <5>1. a \in 1..l /\ h[a] = m[a] /\ m[a] < i + 1
            BY <2>0, <2>1, <3>4, <4>1
          <5>2. CASE c = l + 1
            BY <3>4, <5>1, <5>2
          <5>3. CASE c \in 1..l
            BY <2>2, <3>4, <4>1, <5>1, <5>3
          <5>4. QED
            BY <2>1, <5>2, <5>3
        <4>2. QED
          BY <4>1
      <3>6. \A a \in 1..l + 1 : k[i + 1][a] = s[h[a]] /\ s[h[a]] \in S
        <4>1. ASSUME NEW a \in 1..l + 1 PROVE k[i + 1][a] = s[h[a]] /\ s[h[a]] \in S
          <5>1. CASE a = l + 1
            BY <2>5, <3>2, <3>4, <5>1
          <5>2. CASE a \in 1..l
            BY <2>2, <3>2, <3>4, <5>2
          <5>3. QED
            BY <2>1, <5>1, <5>2
        <4>2. QED
          BY <4>1
      <3>7. \A j \in 1..i + 1 : s[j] \in S => \E a \in 1..l + 1 : h[a] = j
        <4>1. ASSUME NEW j \in 1..i + 1, s[j] \in S PROVE \E a \in 1..l + 1 : h[a] = j
          <5>1. CASE j = i + 1
            BY <2>1, <3>4, <5>1
          <5>2. CASE j \in 1..i
            <6>1. PICK a \in 1..l : m[a] = j
              BY <2>2, <4>1, <5>2
            <6>2. a \in 1..l + 1 /\ h[a] = j
              BY <2>1, <3>4, <6>1
            <6>3. QED
              BY <6>2
          <5>3. QED
            BY <2>0, <5>1, <5>2
        <4>2. QED
          BY <4>1
      <3>8. h \in Places(i + 1)
        BY <3>2, <3>3, <3>5, <3>6, <3>7
      <3>9. QED
        BY <3>8
    <2>6. QED
      BY <2>4, <2>5
  <1>5. Places(n) # {}
    <2> HIDE DEF Places, n
    <2>0. n \in Nat
      BY <1>2
    <2>1. 0 \in T /\ \A i \in 0..n - 1 : i \in T => i + 1 \in T
      BY <1>3, <1>4, <2>0
    <2> HIDE DEF T
    <2>2. \A i \in 0..n : i \in T
      BY <2>0, <2>1, InductionUpTo
    <2>3. QED
      BY <2>0, <2>2 DEF T
  <1>6. k[n] = Keep(s, S) /\ k[n] \in Seq(A)
    BY <1>0, <1>2
  <1>7. QED
    BY <1>5, <1>6

\* So the copy has the elements of s that are in S, is not longer, and keeps
\* the order and the distinctness of s.
LEMMA KeepFacts ==
    ASSUME NEW A, NEW s \in Seq(A), NEW S
    PROVE  /\ Keep(s, S) \in Seq(A)
           /\ \A x : Holds(Keep(s, S), x) <=> (Holds(s, x) /\ x \in S)
           /\ \A a, c \in DOMAIN Keep(s, S) : a < c =>
                 \E i, j \in DOMAIN s : i < j /\ Keep(s, S)[a] = s[i] /\ Keep(s, S)[c] = s[j]
           /\ Len(Keep(s, S)) <= Len(s)
           /\ Distinct(s) => Distinct(Keep(s, S))
  <1> DEFINE q == Keep(s, S)
             l == Len(q)
  <1>1. q \in Seq(A)
    BY KeepPlaces
  <1>2. PICK m \in [1..l -> 1..Len(s)] :
            /\ \A a, c \in 1..l : a < c => m[a] < m[c]
            /\ \A a \in 1..l : q[a] = s[m[a]] /\ s[m[a]] \in S
            /\ \A i \in 1..Len(s) : s[i] \in S => \E a \in 1..l : m[a] = i
    BY KeepPlaces
  <1> HIDE DEF q
  <1>3. DOMAIN s = 1..Len(s) /\ DOMAIN q = 1..l /\ Len(s) \in Nat /\ l \in Nat
    BY <1>1
  <1> HIDE DEF l
  <1>4. \A x : Holds(q, x) <=> (Holds(s, x) /\ x \in S)
    <2>1. ASSUME NEW x, Holds(q, x) PROVE Holds(s, x) /\ x \in S
      BY <1>2, <1>3, <2>1 DEF Holds
    <2>2. ASSUME NEW x, Holds(s, x), x \in S PROVE Holds(q, x)
      <3>1. PICK i \in 1..Len(s) : s[i] = x
        BY <1>3, <2>2 DEF Holds
      <3>2. PICK a \in 1..l : m[a] = i
        BY <1>2, <2>2, <3>1
      <3>3. QED
        BY <1>2, <1>3, <3>1, <3>2 DEF Holds
    <2>3. QED
      BY <2>1, <2>2
  <1>5. \A a, c \in 1..l : a < c =>
           \E i, j \in DOMAIN s : i < j /\ q[a] = s[i] /\ q[c] = s[j]
    BY <1>2, <1>3
  <1>6. \A a, c \in 1..l : m[a] = m[c] => a = c
    BY <1>2, <1>3
  <1>7. l <= Len(s)
    <2>1. m \in Injection(1..l, 1..Len(s))
      BY <1>2, <1>6 DEF Injection, IsInjective
    <2>2. IsFiniteSet(1..Len(s)) /\ Cardinality(1..Len(s)) = Len(s) /\ Cardinality(1..l) = l
      <3>1. ASSUME NEW i \in Nat PROVE IsFiniteSet(1..i) /\ Cardinality(1..i) = i
        BY FS_Interval
      <3>2. QED
        BY <1>3, <3>1
    <2>3. Cardinality(1..l) <= Cardinality(1..Len(s))
      BY <2>1, <2>2, FS_Injection
    <2>4. QED
      BY <2>2, <2>3
  <1>8. Distinct(s) => Distinct(q)
    BY <1>2, <1>3, <1>6 DEF Distinct
  <1>9. QED
    BY <1>1, <1>3, <1>4, <1>5, <1>7, <1>8 DEF q, l

=============================================================================
