----------------------------- MODULE DataLemmas -----------------------------
(***************************************************************************)
(* Facts about data that the proofs about the components share: induction  *)
(* over a set of numbers, the places of a set of numbers in their order,   *)
(* and what a fold over a sequence keeps.  A predicate is a set here, and  *)
(* the step of a fold a function, as a prover cannot instantiate a fact    *)
(* about operators.                                                        *)
(***************************************************************************)
EXTENDS Integers, Sequences, SequencesExt, FiniteSets, SequenceTheorems, FiniteSetTheorems,
  WellFoundedInduction, TLAPS

-----------------------------------------------------------------------------
(* Induction. *)

\* A set of natural numbers that has a member has a least one.
LEMMA LeastMember ==
  ASSUME NEW T \in SUBSET Nat, T # {}
  PROVE  \E x \in T : \A y \in T : x <= y
<1>1. IsWellFoundedOn(OpToRel(<, Nat), Nat)
  BY NatLessThanWellFounded
<1>2. PICK x \in T : \A y \in T : ~ (<<y, x>> \in OpToRel(<, Nat))
  BY <1>1, WFMin
<1>3. \A y \in T : ~ (y < x)
  BY <1>2 DEF OpToRel
<1>4. \A y \in T : x <= y
  BY <1>3
<1> QED BY <1>4

\* A set of numbers that has 0, and with each number its successor, has them all.
LEMMA NatSet ==
  ASSUME NEW S, 0 \in S, \A n \in Nat : n \in S => n + 1 \in S
  PROVE  Nat \subseteq S
<1> DEFINE T == Nat \ S
<1>1. SUFFICES ASSUME T # {} PROVE FALSE
  OBVIOUS
<1>2. T \in SUBSET Nat
  OBVIOUS
<1> HIDE DEF T
<1>3. PICK x \in T : \A y \in T : x <= y
  BY <1>1, <1>2, LeastMember
<1>4. x \in Nat /\ x \notin S
  BY <1>3 DEF T
<1>5. x # 0 /\ x - 1 \in Nat
  BY <1>4
<1>6. x - 1 \notin T
  BY <1>3, <1>4, <1>5
<1> QED BY <1>4, <1>5, <1>6 DEF T

\* The same up to a bound.
LEMMA IntervalSet ==
  ASSUME NEW n \in Nat, NEW S, 0 \in S, \A k \in 0..(n - 1) : k \in S => k + 1 \in S
  PROVE  0..n \subseteq S
<1> DEFINE T == {k \in Nat : k <= n => k \in S}
<1>1. 0 \in T
  OBVIOUS
<1>2. \A k \in Nat : k \in T => k + 1 \in T
  OBVIOUS
<1> HIDE DEF T
<1>3. Nat \subseteq T
  BY <1>1, <1>2, NatSet
<1> QED BY <1>3 DEF T

-----------------------------------------------------------------------------
(* The members of a finite set of numbers in their order. *)

\* How many members of S are not above k.
Rank(S, k) == Cardinality({m \in S : m <= k})

\* The ranks of the members are one to the size of the set, each of them once, and
\* grow with the members.
LEMMA Ranks ==
  ASSUME NEW S \in SUBSET Int, IsFiniteSet(S)
  PROVE  /\ Cardinality(S) \in Nat
         /\ \A k \in S : Rank(S, k) \in 1..Cardinality(S)
         /\ \A k, l \in S : k < l => Rank(S, k) < Rank(S, l)
         /\ \A j \in 1..Cardinality(S) : \E k \in S : Rank(S, k) = j
<1> DEFINE upto(k) == {m \in S : m <= k}
           n == Cardinality(S)
<1>1. n \in Nat
  BY FS_CardinalityType
<1>2. ASSUME NEW k \in S
      PROVE  IsFiniteSet(upto(k)) /\ Cardinality(upto(k)) \in 1..n
  <2>1. IsFiniteSet(upto(k)) /\ Cardinality(upto(k)) <= n
    BY FS_Subset
  <2>2. Cardinality(upto(k)) \in Nat
    BY <2>1, FS_CardinalityType
  <2>3. upto(k) # {}
    BY k <= k
  <2>4. Cardinality(upto(k)) # 0
    BY <2>1, <2>3, FS_EmptySet
  <2> QED BY <1>1, <2>1, <2>2, <2>4
<1>3. ASSUME NEW k \in S, NEW l \in S, k < l
      PROVE  Cardinality(upto(k)) < Cardinality(upto(l))
  <2>1. upto(k) \subseteq upto(l)
    <3>1. \A m \in S : m \in Int
      OBVIOUS
    <3>2. \A m \in Int : m <= k => m <= l
      BY <1>3, <3>1
    <3> QED BY <3>1, <3>2
  <2>2. l \in upto(l) /\ l \notin upto(k)
    BY <1>3
  <2>3. Cardinality(upto(k)) <= Cardinality(upto(l)) /\ Cardinality(upto(k)) # Cardinality(upto(l))
    BY <1>2, <2>1, <2>2, FS_Subset
  <2> QED BY <1>1, <1>2, <2>3
<1> DEFINE f == [k \in S |-> Cardinality(upto(k))]
<1>4. f \in [S -> 1..n]
  BY <1>2
<1>5. \A k, l \in S : f[k] = f[l] => k = l
  <2> SUFFICES ASSUME NEW k \in S, NEW l \in S, f[k] = f[l], k # l PROVE FALSE
    OBVIOUS
  <2>1. k < l \/ l < k
    OBVIOUS
  <2>2. f[k] < f[l] \/ f[l] < f[k]
    BY <1>3, <2>1
  <2>3. f[k] \in Int /\ f[l] \in Int
    BY <1>1, <1>4
  <2> QED BY <2>2, <2>3
<1> HIDE DEF f
<1>6. f \in Injection(S, 1..n)
  BY <1>4, <1>5 DEF Injection, IsInjective
<1>7. IsFiniteSet(1..n) /\ Cardinality(1..n) = n
  BY <1>1, FS_Interval
<1>8. f \in Surjection(S, 1..n)
  BY <1>6, <1>7, FS_Injection
<1>9. \A j \in 1..n : \E k \in S : f[k] = j
  BY <1>8 DEF Surjection
<1> QED BY <1>1, <1>2, <1>3, <1>9 DEF f, Rank

-----------------------------------------------------------------------------
(* Suffixes. *)

\* A suffix of a sequence has its last elements, in their order.
LEMMA SuffixPlaces ==
  ASSUME NEW S, NEW s \in Seq(S), NEW t \in Seq(S)
  PROVE  IsSuffix(s, t) <=>
           Len(s) <= Len(t) /\ \A k \in 1..Len(s) : s[k] = t[Len(t) - Len(s) + k]
<1> DEFINE r == Reverse(s)
           u == Reverse(t)
           m == Len(s)
           n == Len(t)
<1>1. /\ m \in Nat /\ n \in Nat
      /\ \A k \in 1..m : s[k] \in S
      /\ \A k \in 1..n : t[k] \in S
  OBVIOUS
<1>2. r \in Seq(S) /\ Len(r) = m /\ \A k \in 1..m : r[k] = s[m - k + 1]
  BY <1>1 DEF Reverse
<1>3. u \in Seq(S) /\ Len(u) = n /\ \A k \in 1..n : u[k] = t[n - k + 1]
  BY <1>1 DEF Reverse
<1> HIDE DEF r, u
<1>4. IsSuffix(s, t) <=> m <= n /\ SubSeq(r, 1, m) = SubSeq(u, 1, m)
  BY <1>2, <1>3 DEF IsSuffix, IsPrefix, r, u
<1>5. SUFFICES ASSUME m <= n
               PROVE  SubSeq(r, 1, m) = SubSeq(u, 1, m) <=>
                        \A k \in 1..m : s[k] = t[n - m + k]
  BY <1>4
<1>6. /\ SubSeq(r, 1, m) = [k \in 1..m |-> r[k]]
      /\ SubSeq(u, 1, m) = [k \in 1..m |-> u[k]]
  BY <1>1, <1>2, <1>3, <1>5
<1>7. SubSeq(r, 1, m) = SubSeq(u, 1, m) <=> \A k \in 1..m : r[k] = u[k]
  BY <1>6
<1>8. ASSUME \A k \in 1..m : r[k] = u[k], NEW k \in 1..m
      PROVE  s[k] = t[n - m + k]
  <2>1. m - k + 1 \in 1..m /\ m - k + 1 \in 1..n
    BY <1>1, <1>5
  <2>2. s[m - (m - k + 1) + 1] = t[n - (m - k + 1) + 1]
    <3>1. PICK j : j = m - k + 1
      OBVIOUS
    <3>2. j \in 1..m /\ j \in 1..n
      BY ONLY <2>1, <3>1
    <3>3. r[j] = u[j] /\ r[j] = s[m - j + 1] /\ u[j] = t[n - j + 1]
      BY ONLY <1>2, <1>3, <1>8, <3>2
    <3> QED BY ONLY <3>1, <3>3
  <2>3. m - (m - k + 1) + 1 = k /\ n - (m - k + 1) + 1 = n - m + k
    BY <1>1
  <2> QED BY <2>2, <2>3
<1>9. ASSUME \A k \in 1..m : s[k] = t[n - m + k], NEW k \in 1..m
      PROVE  r[k] = u[k]
  <2>1. m - k + 1 \in 1..m /\ k \in 1..n
    BY <1>1, <1>5
  <2>2. s[m - k + 1] = t[n - m + (m - k + 1)]
    BY <1>9, <2>1
  <2>3. n - m + (m - k + 1) = n - k + 1
    BY <1>1
  <2> QED BY <1>2, <1>3, <2>1, <2>2, <2>3
<1> QED BY <1>7, <1>8, <1>9

\* A sequence is its own suffix, and what is left of a suffix is one.
LEMMA SuffixTail ==
  ASSUME NEW S, NEW s \in Seq(S), NEW t \in Seq(S)
  PROVE  /\ IsSuffix(t, t)
         /\ s # <<>> /\ IsSuffix(s, t) => IsSuffix(Tail(s), t)
<1>1. Len(s) \in Nat /\ Len(t) \in Nat
  OBVIOUS
<1>2. IsSuffix(t, t)
  <2>1. \A k \in 1..Len(t) : Len(t) - Len(t) + k = k
    BY <1>1
  <2> QED BY <1>1, <2>1, SuffixPlaces
<1>3. ASSUME s # <<>>, IsSuffix(s, t) PROVE IsSuffix(Tail(s), t)
  <2>1. /\ Tail(s) \in Seq(S) /\ Len(Tail(s)) = Len(s) - 1
        /\ \A k \in 1..(Len(s) - 1) : Tail(s)[k] = s[k + 1]
    BY <1>3
  <2>2. Len(s) <= Len(t) /\ \A k \in 1..Len(s) : s[k] = t[Len(t) - Len(s) + k]
    BY <1>3, SuffixPlaces
  <2>3. ASSUME NEW k \in 1..Len(Tail(s))
        PROVE  Tail(s)[k] = t[Len(t) - Len(Tail(s)) + k]
    <3>1. k \in 1..(Len(s) - 1) /\ k + 1 \in 1..Len(s)
      BY <1>1, <2>1
    <3>2. Len(t) - Len(Tail(s)) + k = Len(t) - Len(s) + (k + 1)
      BY <1>1, <2>1
    <3> QED BY <2>1, <2>2, <3>1, <3>2
  <2>4. Len(Tail(s)) <= Len(t)
    BY <1>1, <2>1, <2>2
  <2> QED BY <2>1, <2>3, <2>4, SuffixPlaces
<1> QED BY <1>2, <1>3


-----------------------------------------------------------------------------
(* Definitions by recursion. *)

\* G takes f from each number to the next,
Steps(f, n, b, G) == f[0] = b /\ \A k \in 1..n : f[k] = G[<<f[k - 1], k>>]

\* or from each set of numbers without its greatest member to the set.
SetSteps(f, n, b, G) ==
  \A s \in SUBSET (1..n) : f[s] = IF s = {} THEN b ELSE G[<<f[s \ {Max(s)}], Max(s)>>]

\* A function from an interval is defined by its first value and its steps.
LEMMA Recursion ==
  ASSUME NEW n \in Nat, NEW X, NEW b \in X, NEW G \in [X \X (1..n) -> X]
  PROVE  \E f \in [0..n -> X] : Steps(f, n, b, G)
<1> DEFINE Upto(m) == {f \in [0..m -> X] :
                         f[0] = b /\ \A k \in 1..m : f[k] = G[<<f[k - 1], k>>]}
           S == {m \in 0..n : Upto(m) # {}}
<1>1. 0 \in S
  <2>1. [k \in 0..0 |-> b] \in Upto(0)
    OBVIOUS
  <2> QED BY <2>1
<1>2. ASSUME NEW m \in 0..(n - 1), m \in S PROVE m + 1 \in S
  <2>1. PICK f \in Upto(m) : TRUE
    BY <1>2
  <2>2. m \in Nat /\ m + 1 \in 1..n /\ m \in 0..m
    OBVIOUS
  <2>3. /\ f \in [0..m -> X] /\ f[0] = b
        /\ \A k \in 1..m : f[k] = G[<<f[k - 1], k>>]
    BY <2>1
  <2> DEFINE g == [k \in 0..(m + 1) |-> IF k = m + 1 THEN G[<<f[m], k>>] ELSE f[k]]
  <2>4. g[m + 1] = G[<<f[m], m + 1>>] /\ \A k \in 0..m : g[k] = f[k]
    BY <2>2
  <2>5. g[m + 1] \in X
    BY <2>2, <2>3, <2>4
  <2>6. \A k \in 0..(m + 1) : g[k] \in X
    <3> HIDE DEF g
    <3>1. \A k \in 0..(m + 1) : k = m + 1 \/ k \in 0..m
      BY <2>2
    <3> QED BY <2>3, <2>4, <2>5, <3>1
  <2>7. g \in [0..(m + 1) -> X]
    BY <2>6
  <2> HIDE DEF g
  <2>8. g[0] = b
    BY <2>2, <2>3, <2>4
  <2>9. ASSUME NEW k \in 1..(m + 1) PROVE g[k] = G[<<g[k - 1], k>>]
    <3>1. CASE k = m + 1
      <4>1. k - 1 = m
        BY <2>2, <3>1
      <4>2. g[k - 1] = f[m]
        BY <2>2, <2>4, <4>1
      <4> QED BY <2>4, <3>1, <4>2
    <3>2. CASE k # m + 1
      <4>1. k \in 1..m /\ k \in 0..m /\ k - 1 \in 0..m
        BY <2>2, <3>2
      <4> QED BY <2>3, <2>4, <4>1
    <3> QED BY <3>1, <3>2
  <2>10. g \in Upto(m + 1)
    BY <2>7, <2>8, <2>9
  <2> QED BY <2>2, <2>10
<1> HIDE DEF S
<1>3. 0..n \subseteq S
  BY ONLY <1>1, <1>2, IntervalSet, n \in Nat
<1>4. n \in S
  BY <1>3
<1> QED BY <1>4 DEF S, Steps

\* A set of numbers up to n that is not empty has a greatest one, which is its Max.
LEMMA MaxOfSet ==
  ASSUME NEW n \in Nat, NEW s \in SUBSET (1..n), s # {}
  PROVE  Max(s) \in s /\ \A k \in s : k <= Max(s)
<1>1. s \in SUBSET Int /\ \A k \in s : k \in Int
  OBVIOUS
<1>2. IsFiniteSet(s)
  <2>1. IsFiniteSet(1..n)
    BY FS_Interval
  <2> QED BY <2>1, FS_Subset
<1>3. Cardinality(s) \in 1..Cardinality(s)
  <2>1. Cardinality(s) \in Nat /\ Cardinality(s) # 0
    BY <1>2, FS_CardinalityType, FS_EmptySet
  <2> QED BY <2>1
<1>4. PICK k \in s : Rank(s, k) = Cardinality(s)
  BY <1>1, <1>2, <1>3, Ranks
<1>5. \A l \in s : ~ (k < l)
  <2> SUFFICES ASSUME NEW l \in s, k < l PROVE FALSE
    OBVIOUS
  <2>1. Rank(s, k) < Rank(s, l) /\ Rank(s, l) \in 1..Cardinality(s)
    BY <1>1, <1>2, Ranks
  <2> QED BY <1>3, <1>4, <2>1
<1>6. \A l \in s : l <= k
  BY <1>1, <1>5
<1>7. \A l \in s : k >= l
  BY <1>1, <1>6
<1>8. Max(s) \in s /\ \A l \in s : Max(s) >= l
  BY <1>7 DEF Max
<1> QED BY <1>1, <1>8

\* So is a function from the sets of numbers in an interval, by what it has for the
\* empty set and by its step from a set without its greatest member: the way in which
\* a fold over a sequence is defined.
LEMMA SetRecursion ==
  ASSUME NEW n \in Nat, NEW X, NEW b \in X, NEW G \in [X \X (1..n) -> X]
  PROVE  \E f \in [SUBSET (1..n) -> X] : SetSteps(f, n, b, G)
<1> DEFINE Upto(m) == {f \in [SUBSET (1..m) -> X] :
                         \A s \in SUBSET (1..m) :
                           f[s] = IF s = {} THEN b ELSE G[<<f[s \ {Max(s)}], Max(s)>>]}
           S == {m \in 0..n : Upto(m) # {}}
<1>1. 0 \in S
  <2>1. \A s \in SUBSET (1..0) : s = {}
    OBVIOUS
  <2>2. [s \in SUBSET (1..0) |-> b] \in Upto(0)
    BY <2>1
  <2> HIDE DEF Upto
  <2>3. 0 \in 0..n /\ Upto(0) # {}
    BY <2>2
  <2> QED BY <2>3
<1>2. ASSUME NEW m \in 0..(n - 1), m \in S PROVE m + 1 \in S
  <2>1. PICK f \in Upto(m) : TRUE
    BY <1>2
  <2>2. m \in Nat /\ m + 1 \in 1..n /\ 1..m \subseteq 1..n
    OBVIOUS
  <2>3. /\ f \in [SUBSET (1..m) -> X]
        /\ \A s \in SUBSET (1..m) :
             f[s] = IF s = {} THEN b ELSE G[<<f[s \ {Max(s)}], Max(s)>>]
    BY <2>1
  <2> DEFINE g == [s \in SUBSET (1..(m + 1)) |->
                     IF m + 1 \in s THEN G[<<f[s \ {m + 1}], m + 1>>] ELSE f[s]]
  <2>4. /\ \A s \in SUBSET (1..(m + 1)) : m + 1 \in s => g[s] = G[<<f[s \ {m + 1}], m + 1>>]
        /\ \A s \in SUBSET (1..(m + 1)) : m + 1 \notin s => g[s] = f[s]
    OBVIOUS
  <2>5. \A s \in SUBSET (1..(m + 1)) :
          /\ s \ {m + 1} \in SUBSET (1..m)
          /\ m + 1 \notin s => s \in SUBSET (1..m)
    BY <2>2
  <2>6. \A s \in SUBSET (1..m) : s \in SUBSET (1..(m + 1)) /\ m + 1 \notin s
    BY <2>2
  <2>7. g \in [SUBSET (1..(m + 1)) -> X]
    <3>1. \A s \in SUBSET (1..(m + 1)) : f[s \ {m + 1}] \in X
      BY <2>3, <2>5
    <3>2. \A s \in SUBSET (1..(m + 1)) : g[s] \in X
      <4> SUFFICES ASSUME NEW s \in SUBSET (1..(m + 1)) PROVE g[s] \in X
        OBVIOUS
      <4> HIDE DEF g
      <4>1. CASE m + 1 \in s
        <5>1. <<f[s \ {m + 1}], m + 1>> \in X \X (1..n)
          BY <2>2, <3>1
        <5>2. G[<<f[s \ {m + 1}], m + 1>>] \in X
          BY <5>1
        <5> QED BY <2>4, <4>1, <5>2
      <4>2. CASE m + 1 \notin s
        BY <2>3, <2>4, <2>5, <4>2
      <4> QED BY <4>1, <4>2
    <3> QED BY <3>2
  <2> HIDE DEF g
  <2>8. ASSUME NEW s \in SUBSET (1..(m + 1))
        PROVE  g[s] = IF s = {} THEN b ELSE G[<<g[s \ {Max(s)}], Max(s)>>]
    <3>1. CASE m + 1 \in s
      <4>1. Max(s) \in s /\ \A k \in s : k <= Max(s)
        <5>1. m + 1 \in Nat /\ s # {}
          BY <2>2, <3>1
        <5> QED BY ONLY <5>1, s \in SUBSET (1..(m + 1)), MaxOfSet
      <4>2. Max(s) = m + 1
        <5>1. Max(s) \in 1..(m + 1) /\ m + 1 <= Max(s)
          BY <3>1, <4>1
        <5> QED BY <2>2, <5>1
      <4>3. g[s \ {m + 1}] = f[s \ {m + 1}]
        BY <2>4, <2>5, <2>6
      <4> QED BY <2>4, <3>1, <4>2, <4>3
    <3>2. CASE m + 1 \notin s /\ s = {}
      BY <2>3, <2>4, <2>5, <3>2
    <3>3. CASE m + 1 \notin s /\ s # {}
      <4>1. s \in SUBSET (1..m)
        BY <2>5, <3>3
      <4>2. s \ {Max(s)} \in SUBSET (1..m)
        BY <4>1
      <4>3. g[s \ {Max(s)}] = f[s \ {Max(s)}] /\ g[s] = f[s]
        BY <2>4, <2>6, <4>1, <4>2
      <4>4. f[s] = G[<<f[s \ {Max(s)}], Max(s)>>]
        BY <2>3, <3>3, <4>1
      <4> QED BY <3>3, <4>3, <4>4
    <3> QED BY <3>1, <3>2, <3>3
  <2>9. g \in Upto(m + 1)
    BY <2>7, <2>8
  <2> HIDE DEF Upto
  <2>10. m + 1 \in 0..n /\ Upto(m + 1) # {}
    BY <2>2, <2>9
  <2> QED BY <2>10
<1> HIDE DEF S
<1>3. 0..n \subseteq S
  BY ONLY <1>1, <1>2, IntervalSet, n \in Nat
<1>4. n \in S
  BY <1>3
<1> QED BY <1>4 DEF S, SetSteps

\* What such a function has for an interval follows from what it has for the one before.
LEMMA IntervalRecursion ==
  ASSUME NEW n \in Nat, NEW k \in 1..n
  PROVE  /\ 1..k \in SUBSET (1..n) /\ 1..k # {} /\ Max(1..k) = k
         /\ (1..k) \ {k} = 1..(k - 1)
<1>1. 1..k \in SUBSET (1..n) /\ k \in 1..k /\ k \in Nat
  OBVIOUS
<1>2. Max(1..k) \in 1..k /\ \A l \in 1..k : l <= Max(1..k)
  BY <1>1, MaxOfSet
<1>3. Max(1..k) = k
  BY <1>1, <1>2
<1>4. (1..k) \ {k} = 1..(k - 1)
  BY <1>1
<1> QED BY <1>1, <1>3, <1>4

\* The same as long as it is in X.
SetStepsWithin(f, n, X, b, G) ==
  /\ f[{}] = b
  /\ \A s \in SUBSET (1..n) :
       s # {} /\ f[s \ {Max(s)}] \in X => f[s] = G[<<f[s \ {Max(s)}], Max(s)>>]

\* A function that agrees with G wherever it is in X takes the steps of G one number
\* after the other.
LEMMA FoldSteps ==
  ASSUME NEW n \in Nat, NEW X, NEW b \in X, NEW G \in [X \X (1..n) -> X], NEW it,
         SetStepsWithin(it, n, X, b, G)
  PROVE  \E f \in [0..n -> X] : f[n] = it[1..n] /\ Steps(f, n, b, G)
<1> DEFINE f == [k \in 0..n |-> it[1..k]]
           S == {k \in 0..n : it[1..k] \in X}
<1>1. 0 \in S /\ it[1..0] = b
  <2>1. 1..0 = {}
    OBVIOUS
  <2> QED BY <2>1 DEF SetStepsWithin
<1>2. ASSUME NEW k \in 1..n, it[1..(k - 1)] \in X
      PROVE  it[1..k] = G[<<it[1..(k - 1)], k>>]
  <2>1. /\ 1..k \in SUBSET (1..n) /\ 1..k # {} /\ Max(1..k) = k
        /\ (1..k) \ {k} = 1..(k - 1)
    BY IntervalRecursion
  <2> QED BY <1>2, <2>1 DEF SetStepsWithin
<1>3. ASSUME NEW k \in 0..(n - 1), k \in S PROVE k + 1 \in S
  <2>1. k + 1 \in 1..n /\ k + 1 \in 0..n /\ (k + 1) - 1 = k
    OBVIOUS
  <2>2. it[1..k] \in X
    BY <1>3
  <2>3. it[1..(k + 1)] = G[<<it[1..k], k + 1>>]
    BY <1>2, <2>1, <2>2
  <2>4. it[1..(k + 1)] \in X
    BY <2>1, <2>2, <2>3
  <2> QED BY <2>1, <2>4
<1> HIDE DEF S
<1>4. 0..n \subseteq S
  BY ONLY <1>1, <1>3, IntervalSet, n \in Nat
<1>5. \A k \in 0..n : it[1..k] \in X
  BY <1>4 DEF S
<1>6. f \in [0..n -> X] /\ f[0] = b /\ f[n] = it[1..n]
  BY <1>1, <1>5
<1>7. ASSUME NEW k \in 1..n PROVE f[k] = G[<<f[k - 1], k>>]
  <2>1. k \in 0..n /\ k - 1 \in 0..n
    OBVIOUS
  <2>2. f[k] = it[1..k] /\ f[k - 1] = it[1..(k - 1)]
    BY <2>1
  <2> QED BY <1>2, <1>5, <2>1, <2>2
<1> HIDE DEF f
<1>8. Steps(f, n, b, G)
  BY <1>6, <1>7 DEF Steps
<1> QED BY <1>6, <1>8

-----------------------------------------------------------------------------
(* Sequences that are joined. *)

\* Sequences are joined one after the other.
LEMMA FlattenSteps ==
  ASSUME NEW T, NEW s \in Seq(Seq(T))
  PROVE  \E f \in [0..Len(s) -> Seq(T)] :
           /\ f[0] = <<>> /\ f[Len(s)] = FlattenSeq(s)
           /\ \A k \in 1..Len(s) : f[k] = f[k - 1] \o s[k]
<1> DEFINE n == Len(s)
           X == Seq(T)
           G == [z \in X \X (1..n) |-> z[1] \o s[z[2]]]
           Eq(h) == h = [i \in 1..n |-> IF i = 1 THEN s[i] ELSE h[i - 1] \o s[i]]
           it == CHOOSE h : Eq(h)
<1>1. n \in Nat /\ <<>> \in X /\ \A k \in 1..n : s[k] \in X
  OBVIOUS
<1>2. \A x \in X, k \in 1..n : x \o s[k] \in X
  BY <1>1
<1>3. G \in [X \X (1..n) -> X] /\ \A x \in X, k \in 1..n : G[<<x, k>>] = x \o s[k]
  BY <1>2
<1> HIDE DEF G
<1>4. PICK f \in [0..n -> X] : Steps(f, n, <<>>, G)
  BY <1>1, <1>3, Recursion
<1>5. f[0] = <<>> /\ \A k \in 1..n : f[k - 1] \in X /\ f[k] = f[k - 1] \o s[k]
  <2>1. \A k \in 1..n : k - 1 \in 0..n
    BY <1>1
  <2>2. \A k \in 1..n : f[k - 1] \in X
    BY <1>4, <2>1
  <2> QED BY <1>3, <1>4, <2>2 DEF Steps
<1>6. f[n] = FlattenSeq(s)
  <2>1. CASE n = 0
    BY <1>5, <2>1 DEF FlattenSeq
  <2>2. CASE n # 0
    <3>1. FlattenSeq(s) = it[n]
      BY <2>2 DEF FlattenSeq
    <3> HIDE DEF it
    <3> DEFINE g == [i \in 1..n |-> f[i]]
    <3>2. Eq(g)
      <4>1. ASSUME NEW i \in 1..n
            PROVE  g[i] = IF i = 1 THEN s[i] ELSE g[i - 1] \o s[i]
        <5>1. CASE i = 1
          <6>1. 1 \in 1..n /\ 1 - 1 = 0 /\ s[1] \in X
            BY <1>1, <5>1
          <6>2. f[1] = f[1 - 1] \o s[1]
            BY <1>5, <6>1
          <6>3. f[1] = <<>> \o s[1]
            BY <1>5, <6>1, <6>2
          <6>4. f[1] = s[1]
            BY ONLY <6>1, <6>3
          <6> QED BY <5>1, <6>4
        <5>2. CASE i # 1
          <6>1. i - 1 \in 1..n
            BY <1>1, <5>2
          <6> QED BY <1>5, <5>2, <6>1
        <5> QED BY <5>1, <5>2
      <4> QED BY <4>1
    <3>3. Eq(it)
      BY <3>2 DEF it
    <3>4. \A i \in 1..n : it[i] = IF i = 1 THEN s[i] ELSE it[i - 1] \o s[i]
      BY <3>3
    <3> DEFINE S == {k \in 0..n : k # 0 => it[k] = f[k]}
    <3>5. 0 \in S
      BY <1>1
    <3>6. ASSUME NEW k \in 0..(n - 1), k \in S PROVE k + 1 \in S
      <4>1. k + 1 \in 1..n /\ k + 1 \in 0..n /\ (k + 1) - 1 = k
        BY <1>1
      <4>2. f[k + 1] = f[k] \o s[k + 1] /\ s[k + 1] \in X
        BY <1>1, <1>5, <4>1
      <4>3. it[k + 1] = IF k + 1 = 1 THEN s[k + 1] ELSE it[k] \o s[k + 1]
        BY <3>4, <4>1
      <4>4. CASE k = 0
        <5>1. f[k + 1] = <<>> \o s[k + 1]
          BY <1>5, <4>2, <4>4
        <5>2. f[k + 1] = s[k + 1]
          BY ONLY <4>2, <5>1
        <5>3. it[k + 1] = s[k + 1]
          BY ONLY <4>3, <4>4
        <5>4. it[k + 1] = f[k + 1]
          BY ONLY <5>2, <5>3
        <5> QED BY <4>1, <5>4
      <4>5. CASE k # 0
        <5>1. it[k] = f[k]
          BY <3>6, <4>5
        <5>2. k + 1 # 1
          BY <1>1, <4>5
        <5>3. it[k + 1] = it[k] \o s[k + 1]
          BY ONLY <4>3, <5>2
        <5>4. it[k + 1] = f[k + 1]
          BY ONLY <4>2, <5>1, <5>3
        <5> QED BY <4>1, <5>4
      <4> QED BY <4>4, <4>5
    <3> HIDE DEF S
    <3>7. 0..n \subseteq S
      BY ONLY <1>1, <3>5, <3>6, IntervalSet
    <3>8. n \in S
      BY <1>1, <3>7
    <3> QED BY <2>2, <3>1, <3>8 DEF S
  <2> QED BY <2>1, <2>2
<1> QED BY <1>4, <1>5, <1>6

\* One more is joined to them.
LEMMA FlattenAppend ==
  ASSUME NEW T, NEW s \in Seq(Seq(T)), NEW e \in Seq(T)
  PROVE  /\ FlattenSeq(s) \in Seq(T) /\ FlattenSeq(<<>>) = <<>>
         /\ FlattenSeq(Append(s, e)) = FlattenSeq(s) \o e
<1> DEFINE n == Len(s)
           t == Append(s, e)
<1>1. n \in Nat /\ t \in Seq(Seq(T)) /\ Len(t) = n + 1 /\ t[n + 1] = e
      /\ \A k \in 1..n : t[k] = s[k]
  OBVIOUS
<1> HIDE DEF t
<1>2. PICK f \in [0..n -> Seq(T)] :
        f[0] = <<>> /\ f[n] = FlattenSeq(s) /\ \A k \in 1..n : f[k] = f[k - 1] \o s[k]
  BY FlattenSteps
<1>3. PICK g \in [0..(n + 1) -> Seq(T)] :
        /\ g[0] = <<>> /\ g[n + 1] = FlattenSeq(t)
        /\ \A k \in 1..(n + 1) : g[k] = g[k - 1] \o t[k]
  <2>1. PICK g \in [0..Len(t) -> Seq(T)] :
          /\ g[0] = <<>> /\ g[Len(t)] = FlattenSeq(t)
          /\ \A k \in 1..Len(t) : g[k] = g[k - 1] \o t[k]
    BY <1>1, FlattenSteps
  <2> QED BY <1>1, <2>1
<1> DEFINE S == {k \in 0..n : g[k] = f[k]}
<1>4. 0 \in S
  BY <1>1, <1>2, <1>3
<1>5. ASSUME NEW k \in 0..(n - 1), k \in S PROVE k + 1 \in S
  <2>1. k + 1 \in 1..n /\ k + 1 \in 1..(n + 1) /\ k + 1 \in 0..n /\ (k + 1) - 1 = k
    BY <1>1
  <2>2. f[k + 1] = f[k] \o s[k + 1] /\ g[k + 1] = g[k] \o t[k + 1]
    BY <1>2, <1>3, <2>1
  <2>3. t[k + 1] = s[k + 1] /\ g[k] = f[k]
    BY <1>1, <1>5, <2>1
  <2> QED BY <2>1, <2>2, <2>3
<1> HIDE DEF S
<1>6. 0..n \subseteq S
  BY ONLY <1>1, <1>4, <1>5, IntervalSet
<1>7. g[n] = f[n]
  <2>1. n \in S
    <3>1. n \in 0..n
      BY <1>1
    <3> QED BY ONLY <3>1, <1>6
  <2> QED BY <2>1 DEF S
<1>8. n + 1 \in 1..(n + 1) /\ (n + 1) - 1 = n /\ n \in 0..n
  BY <1>1
<1>9. g[n + 1] = g[n] \o e
  BY <1>1, <1>3, <1>8
<1>10. FlattenSeq(s) \in Seq(T)
  BY <1>2, <1>8
<1> QED BY <1>2, <1>3, <1>7, <1>9, <1>10 DEF t, FlattenSeq

\* A function on 1..n is a sequence.
LEMMA FromFunction ==
  ASSUME NEW T, NEW n \in Nat, NEW s \in [1..n -> T]
  PROVE  s \in Seq(T) /\ Len(s) = n /\ DOMAIN s = 1..n
OBVIOUS

\* The parts from its first member on make up a sequence one by one.
LEMMA PrefixSteps ==
  ASSUME NEW T, NEW c \in Seq(T)
  PROVE  /\ SubSeq(c, 1, 0) = <<>> /\ SubSeq(c, 1, Len(c)) = c
         /\ \A i \in 0..Len(c) : SubSeq(c, 1, i) \in Seq(T) /\ Len(SubSeq(c, 1, i)) = i
         /\ \A i \in 0..(Len(c) - 1) : SubSeq(c, 1, i + 1) = Append(SubSeq(c, 1, i), c[i + 1])
<1>1. Len(c) \in Nat /\ c \in [1..Len(c) -> T]
  OBVIOUS
<1>2. PICK n \in Nat : n = Len(c)
  BY <1>1
<1>3. ASSUME NEW i \in 0..n
      PROVE  /\ SubSeq(c, 1, i) \in Seq(T) /\ Len(SubSeq(c, 1, i)) = i
             /\ \A k \in 1..i : SubSeq(c, 1, i)[k] = c[k]
  <2>1. i \in Nat /\ i <= Len(c)
    BY <1>2
  <2> QED BY <2>1
<1>4. SubSeq(c, 1, 0) = <<>>
  <2>1. 0 \in 0..n
    BY <1>2
  <2>2. SubSeq(c, 1, 0) \in Seq(T) /\ Len(SubSeq(c, 1, 0)) = 0
    BY <1>3, <2>1
  <2> QED BY <2>2
<1>5. SubSeq(c, 1, Len(c)) = c
  <2>1. n \in 0..n
    BY <1>2
  <2>2. PICK s \in Seq(T) : s = SubSeq(c, 1, n) /\ Len(s) = n /\ \A k \in 1..n : s[k] = c[k]
    BY <1>3, <2>1
  <2>3. s = c
    BY <1>2, <2>2
  <2> QED BY <1>2, <2>2, <2>3
<1>6. ASSUME NEW i \in 0..(n - 1)
      PROVE  SubSeq(c, 1, i + 1) = Append(SubSeq(c, 1, i), c[i + 1])
  <2>1. i \in 0..n /\ i + 1 \in 0..n /\ i + 1 \in 1..n
    BY <1>2
  <2>2. PICK s \in Seq(T) : s = SubSeq(c, 1, i) /\ Len(s) = i /\ \A k \in 1..i : s[k] = c[k]
    BY <1>3, <2>1
  <2>3. PICK t \in Seq(T) :
          t = SubSeq(c, 1, i + 1) /\ Len(t) = i + 1 /\ \A k \in 1..(i + 1) : t[k] = c[k]
    BY <1>3, <2>1
  <2>4. c[i + 1] \in T
    BY <1>1, <1>2, <2>1
  <2>5. PICK u \in Seq(T) : /\ u = Append(s, c[i + 1]) /\ Len(u) = i + 1 /\ u[i + 1] = c[i + 1]
                           /\ \A k \in 1..i : u[k] = s[k]
    <3>1. PICK e \in T : e = c[i + 1]
      BY <2>4
    <3>2. PICK u : u = Append(s, e)
      OBVIOUS
    <3>3. u \in Seq(T) /\ Len(u) = Len(s) + 1
      BY ONLY <3>2, s \in Seq(T), e \in T
    <3>4. u[Len(s) + 1] = e /\ \A k \in 1..Len(s) : u[k] = s[k]
      BY ONLY <3>2, s \in Seq(T), e \in T
    <3>5. Len(s) = i
      BY ONLY <2>2
    <3> QED BY ONLY <3>1, <3>2, <3>3, <3>4, <3>5
  <2>6. \A k \in 1..(i + 1) : u[k] = t[k]
    BY <2>1, <2>2, <2>3, <2>5
  <2>7. u = t
    BY <2>3, <2>5, <2>6
  <2> QED BY <2>2, <2>3, <2>5, <2>7
<1> QED BY <1>2, <1>3, <1>4, <1>5, <1>6

\* A sequence stands at a place of another.
Stands(s, big, a) ==
  /\ a \in Nat \ {0} /\ a + Len(s) <= Len(big) + 1
  /\ \A m \in 1..Len(s) : big[a + m - 1] = s[m]

\* So do its parts.
LEMMA StandsParts ==
  ASSUME NEW T, NEW big \in Seq(T), NEW s \in Seq(T), NEW t \in Seq(T), NEW a,
         Stands(s \o t, big, a)
  PROVE  /\ Stands(s, big, a) /\ Stands(t, big, a + Len(s))
         /\ a + Len(s) + Len(t) = a + Len(s \o t)
<1>1. Len(s) \in Nat /\ Len(t) \in Nat /\ Len(big) \in Nat /\ Len(s \o t) = Len(s) + Len(t)
  OBVIOUS
<1>2. /\ \A m \in 1..Len(s) : (s \o t)[m] = s[m]
      /\ \A m \in 1..Len(t) : (s \o t)[Len(s) + m] = t[m]
  OBVIOUS
<1>3. PICK c : c = s \o t
  OBVIOUS
<1>4. /\ a \in Nat \ {0} /\ a + Len(s) + Len(t) <= Len(big) + 1
      /\ \A m \in 1..(Len(s) + Len(t)) : big[a + m - 1] = c[m]
  BY <1>1, <1>3 DEF Stands
<1>5. ASSUME NEW m \in 1..Len(s) PROVE big[a + m - 1] = s[m]
  <2>1. m \in 1..(Len(s) + Len(t))
    BY <1>1
  <2> QED BY <1>2, <1>3, <1>4, <2>1
<1>6. ASSUME NEW m \in 1..Len(t) PROVE big[(a + Len(s)) + m - 1] = t[m]
  <2>1. Len(s) + m \in 1..(Len(s) + Len(t)) /\ a + (Len(s) + m) - 1 = (a + Len(s)) + m - 1
    BY <1>1, <1>4
  <2> QED BY <1>2, <1>3, <1>4, <2>1
<1>7. a + Len(s) <= Len(big) + 1 /\ a + Len(s) \in Nat \ {0}
  BY <1>1, <1>4
<1> QED BY <1>1, <1>4, <1>5, <1>6, <1>7 DEF Stands

\* Sequences stand one behind the other.
Layout(pos, s, big, a) ==
  /\ pos \in [1..(Len(s) + 1) -> Nat \ {0}]
  /\ pos[1] = a /\ pos[Len(s) + 1] = a + Len(FlattenSeq(s))
  /\ \A k \in 1..Len(s) : pos[k + 1] = pos[k] + Len(s[k]) /\ Stands(s[k], big, pos[k])

\* So they do when they are joined.
LEMMA StandsJoined ==
  ASSUME NEW T, NEW big \in Seq(T), NEW s \in Seq(Seq(T)), NEW a, Stands(FlattenSeq(s), big, a)
  PROVE  \E pos : Layout(pos, s, big, a)
<1> DEFINE n == Len(s)
<1>1. n \in Nat /\ \A k \in 1..n : s[k] \in Seq(T) /\ Len(s[k]) \in Nat
  OBVIOUS
<1>2. PICK f \in [0..n -> Seq(T)] :
        f[0] = <<>> /\ f[n] = FlattenSeq(s) /\ \A k \in 1..n : f[k] = f[k - 1] \o s[k]
  BY FlattenSteps
<1> HIDE DEF n
<1>3. \A k \in 0..n : f[k] \in Seq(T) /\ Len(f[k]) \in Nat
  <2>1. \A k \in 0..n : f[k] \in Seq(T)
    BY <1>2
  <2>2. \A x \in Seq(T) : Len(x) \in Nat
    OBVIOUS
  <2> QED BY <2>1, <2>2
<1> DEFINE S == {k \in 0..n : Stands(f[n - k], big, a)}
<1>4. 0 \in S
  <2>1. n - 0 = n /\ 0 \in 0..n
    BY <1>1
  <2> QED BY <1>2, <2>1 DEF n
<1>5. ASSUME NEW k \in 1..n, Stands(f[k], big, a)
      PROVE  Stands(f[k - 1], big, a) /\ Stands(s[k], big, a + Len(f[k - 1]))
  <2>1. k - 1 \in 0..n
    BY <1>1
  <2>2. f[k - 1] \in Seq(T) /\ s[k] \in Seq(T) /\ f[k] = f[k - 1] \o s[k]
    BY <1>1, <1>2, <1>3, <2>1
  <2>3. Stands(f[k - 1] \o s[k], big, a)
    BY <1>5, <2>2
  <2> QED BY <2>2, <2>3, StandsParts
<1>6. ASSUME NEW k \in 0..(n - 1), k \in S PROVE k + 1 \in S
  <2>1. n - k \in 1..n /\ k + 1 \in 0..n /\ (n - k) - 1 = n - (k + 1)
    BY <1>1
  <2>2. Stands(f[n - k], big, a)
    BY <1>6
  <2>3. Stands(f[n - (k + 1)], big, a)
    BY <1>5, <2>1, <2>2
  <2> QED BY <2>1, <2>3
<1> HIDE DEF S
<1>7. 0..n \subseteq S
  BY ONLY <1>1, <1>4, <1>6, IntervalSet
<1>8. ASSUME NEW k \in 0..n PROVE Stands(f[k], big, a)
  <2>1. n - k \in 0..n /\ n - (n - k) = k
    BY <1>1
  <2> QED BY <1>7, <2>1 DEF S
<1>9. a \in Nat \ {0}
  BY DEF Stands
<1> DEFINE pos == [k \in 1..(n + 1) |-> a + Len(f[k - 1])]
<1>10. \A k \in 1..(n + 1) : k - 1 \in 0..n /\ pos[k] = a + Len(f[k - 1]) /\ pos[k] \in Nat \ {0}
  <2>1. \A k \in 1..(n + 1) : k - 1 \in 0..n
    BY <1>1
  <2> QED BY <1>3, <1>9, <2>1
<1>11. pos \in [1..(n + 1) -> Nat \ {0}]
  BY <1>10
<1> HIDE DEF pos
<1>12. pos[1] = a /\ pos[n + 1] = a + Len(f[n])
  <2>1. 1 \in 1..(n + 1) /\ n + 1 \in 1..(n + 1) /\ 1 - 1 = 0 /\ (n + 1) - 1 = n
    BY <1>1
  <2>2. pos[1] = a + Len(f[0]) /\ Len(f[0]) = 0
    BY <1>2, <1>10, <2>1
  <2>3. pos[1] = a
    BY ONLY <1>9, <2>2
  <2>4. pos[n + 1] = a + Len(f[n])
    BY <1>10, <2>1
  <2> QED BY <2>3, <2>4
<1>13. ASSUME NEW k \in 1..n
       PROVE  pos[k + 1] = pos[k] + Len(s[k]) /\ Stands(s[k], big, pos[k])
  <2>1. k \in 1..(n + 1) /\ k + 1 \in 1..(n + 1) /\ (k + 1) - 1 = k /\ k \in 0..n /\ k - 1 \in 0..n
    BY <1>1
  <2>2. f[k] = f[k - 1] \o s[k] /\ f[k - 1] \in Seq(T) /\ s[k] \in Seq(T)
    BY <1>1, <1>2, <1>3, <2>1
  <2>3. Len(f[k]) = Len(f[k - 1]) + Len(s[k])
    BY <2>2
  <2>4. pos[k + 1] = a + Len(f[k]) /\ pos[k] = a + Len(f[k - 1])
    BY <1>10, <2>1
  <2>5. Len(f[k - 1]) \in Nat /\ Len(s[k]) \in Nat
    BY <2>2
  <2>6. pos[k + 1] = pos[k] + Len(s[k])
    <3>1. PICK x, y : x = Len(f[k - 1]) /\ y = Len(s[k])
      OBVIOUS
    <3>2. x \in Nat /\ y \in Nat /\ pos[k + 1] = a + (x + y) /\ pos[k] = a + x
      BY ONLY <2>3, <2>4, <2>5, <3>1
    <3>3. pos[k + 1] = pos[k] + y
      BY ONLY <1>9, <3>2
    <3> QED BY ONLY <3>1, <3>3
  <2> QED BY <1>5, <1>8, <2>1, <2>4, <2>6
<1> QED BY <1>2, <1>11, <1>12, <1>13 DEF n, Layout
=============================================================================
