----------------------------- MODULE BasicFacts -----------------------------
(***************************************************************************)
(* Facts about numbers, sets and sequences that the proofs share.          *)
(***************************************************************************)
EXTENDS SequencesExt, FiniteSetTheorems, SequenceTheorems, WellFoundedInduction, TLAPS

\* A nonempty set of natural numbers has a least element.
LEMMA LeastNat ==
  ASSUME NEW S \in SUBSET Nat, S # {}
  PROVE  \E m \in S : \A k \in S : m <= k
<1>1. PICK m \in S : \A k \in S : ~ (<<k, m>> \in OpToRel(<, Nat))
  BY WFMin, NatLessThanWellFounded
<1>2. \A k \in S : ~ (k < m)
  <2> SUFFICES ASSUME NEW k \in S, k < m PROVE FALSE
    OBVIOUS
  <2>1. <<k, m>> \in Nat \X Nat /\ <<k, m>>[1] < <<k, m>>[2]
    OBVIOUS
  <2>2. <<k, m>> \in OpToRel(<, Nat)
    BY <2>1, Zenon DEF OpToRel
  <2> QED BY <1>1, <2>2
<1> QED BY <1>2

\* One that is bounded has a greatest element.
LEMMA GreatestNat ==
  ASSUME NEW S \in SUBSET Nat, S # {}, NEW n \in Nat, \A k \in S : k <= n
  PROVE  \E m \in S : \A k \in S : k <= m
<1> DEFINE D == {d \in Nat : n - d \in S}
<1>1. D # {}
  <2>1. PICK k \in S : TRUE
    OBVIOUS
  <2>2. n - k \in Nat /\ n - (n - k) = k
    OBVIOUS
  <2> QED BY <2>1, <2>2
<1>2. PICK d \in D : \A e \in D : d <= e
  <2>1. D \in SUBSET Nat
    OBVIOUS
  <2> HIDE DEF D
  <2> QED BY <1>1, <2>1, LeastNat
<1>3. n - d \in S /\ d \in Nat
  OBVIOUS
<1>4. ASSUME NEW k \in S PROVE k <= n - d
  <2>1. n - k \in Nat /\ n - (n - k) = k
    OBVIOUS
  <2>2. n - k \in D
    BY <2>1
  <2>3. d <= n - k
    BY <1>2, <2>2
  <2> QED BY <1>3, <2>3
<1> QED BY <1>3, <1>4

\* What Min and Max choose.
LEMMA MinNat ==
  ASSUME NEW S \in SUBSET Nat, S # {}
  PROVE  Min(S) \in S /\ \A k \in S : Min(S) <= k
BY LeastNat DEF Min

LEMMA MaxNat ==
  ASSUME NEW S \in SUBSET Nat, S # {}, NEW n \in Nat, \A k \in S : k <= n
  PROVE  Max(S) \in S /\ \A k \in S : k <= Max(S)
<1>1. PICK m \in S : \A k \in S : k <= m
  BY GreatestNat
<1>2. \A k \in S : m >= k
  BY <1>1
<1>3. Max(S) \in S /\ \A k \in S : Max(S) >= k
  BY <1>2 DEF Max
<1> QED BY <1>3

\* Induction, for a set instead of a predicate.
LEMMA Induct ==
  ASSUME NEW S, 0 \in S, \A n \in Nat : n \in S => n + 1 \in S
  PROVE  Nat \subseteq S
<1> DEFINE out == Nat \ S
<1>1. SUFFICES ASSUME out # {} PROVE FALSE
  OBVIOUS
<1>2. PICK m \in out : \A k \in out : m <= k
  <2>1. out \in SUBSET Nat
    OBVIOUS
  <2> HIDE DEF out
  <2> QED BY <1>1, <2>1, LeastNat
<1>3. m # 0 /\ m \in Nat
  OBVIOUS
<1>4. m - 1 \in Nat /\ m - 1 \notin out
  BY <1>2, <1>3
<1> QED BY <1>3, <1>4

\* A sequence without its last element.
LEMMA FrontProperties ==
  ASSUME NEW T, NEW s \in Seq(T), s # <<>>
  PROVE  /\ Front(s) \in Seq(T)
         /\ Len(Front(s)) = Len(s) - 1
         /\ \A i \in 1 .. Len(s) - 1 : Front(s)[i] = s[i]
         /\ Last(s) \in T
<1>1. Len(s) \in Nat \ {0} /\ \A i \in 1 .. Len(s) : s[i] \in T
  BY EmptySeq
<1> DEFINE n == Len(s) - 1
<1>3. n \in Nat /\ Len(s) = n + 1
  BY <1>1
<1> HIDE DEF n
<1>4. /\ SubSeq(s, 1, n) \in Seq(T)
      /\ Len(SubSeq(s, 1, n)) = IF 1 <= n THEN n - 1 + 1 ELSE 0
      /\ \A i \in 1 .. n - 1 + 1 : SubSeq(s, 1, n)[i] = s[1 + i - 1]
  <2>1. \A i \in 1 .. n : s[i] \in T
    BY <1>1, <1>3
  <2> QED BY <1>3, <2>1, SubSeqProperties
<1>5. Front(s) = SubSeq(s, 1, n)
  BY DEF Front, n
<1>6. Last(s) \in T
  BY <1>1 DEF Last
<1>7. \A i \in 1 .. n : SubSeq(s, 1, n)[i] = s[i]
  BY <1>3, <1>4
<1>8. Len(Front(s)) = n /\ n = Len(s) - 1
  BY <1>3, <1>4, <1>5
<1> QED BY <1>4, <1>5, <1>6, <1>7, <1>8

\* The greatest of the first numbers, and the others.
LEMMA MaxInitial ==
  ASSUME NEW k \in Nat
  PROVE  Max(1 .. k + 1) = k + 1 /\ (1 .. k + 1) \ {k + 1} = 1 .. k
<1>1. 1 .. k + 1 \in SUBSET Nat /\ 1 .. k + 1 # {} /\ \A i \in 1 .. k + 1 : i <= k + 1
  OBVIOUS
<1>2. Max(1 .. k + 1) \in 1 .. k + 1 /\ \A i \in 1 .. k + 1 : i <= Max(1 .. k + 1)
  <2> DEFINE I == 1 .. k + 1
  <2>1. k + 1 \in Nat
    OBVIOUS
  <2>2. I \in SUBSET Nat /\ I # {} /\ \A i \in I : i <= k + 1
    BY <1>1
  <2> HIDE DEF I
  <2>3. Max(I) \in I /\ \A i \in I : i <= Max(I)
    BY <2>1, <2>2, MaxNat
  <2> QED BY <2>3 DEF I
<1> QED BY <1>2

\* The image of a finite set under a function that tells its members apart.
LEMMA ImageCount ==
  ASSUME NEW S, IsFiniteSet(S), NEW f, DOMAIN f = S,
         \A x, y \in S : x # y => f[x] # f[y]
  PROVE  Cardinality({f[x] : x \in S}) = Cardinality(S)
<1> DEFINE T == {f[x] : x \in S}
           g == [x \in S |-> f[x]]
<1>1. g \in Surjection(S, T) /\ g \in Injection(S, T)
  BY DEF Surjection, Injection, IsInjective
<1> HIDE DEF T, g
<1>2. Cardinality(T) = Cardinality(S)
  BY <1>1, FS_Surjection
<1> QED BY <1>2 DEF T

\* What the first value of a sequence of steps has, and each step keeps, the last one has.
LEMMA Along ==
  ASSUME NEW n \in Nat, NEW f, NEW S, f[0] \in S,
         \A k \in 0 .. n - 1 : f[k] \in S => f[k + 1] \in S
  PROVE  f[n] \in S
<1> DEFINE Good == {k \in Nat : k <= n => f[k] \in S}
<1>1. 0 \in Good
  OBVIOUS
<1>2. \A k \in Nat : k \in Good => k + 1 \in Good
  OBVIOUS
<1>3. Nat \subseteq Good
  <2> HIDE DEF Good
  <2> QED BY <1>1, <1>2, Induct
<1> QED BY <1>3

\* The recursion of the folds over sets of indices (SequencesExt, Folds).
HasFold(X, file, init, op) ==
  \E g \in [SUBSET (1 .. Len(file)) -> X] :
    \A s \in SUBSET (1 .. Len(file)) :
      g[s] = IF s = {} THEN init ELSE op[<<g[s \ {Max(s)}], file[Max(s)]>>]

\* On values that the operation stays among, some function satisfies it.
LEMMA FoldRecursion ==
  ASSUME NEW X, NEW S, NEW file \in Seq(S), NEW init \in X, NEW op \in [X \X S -> X]
  PROVE  HasFold(X, file, init, op)
<1> DEFINE n == Len(file)
           Fits(g, k) == \A s \in SUBSET (1 .. k) :
             g[s] = IF s = {} THEN init ELSE op[<<g[s \ {Max(s)}], file[Max(s)]>>]
           Good == {k \in Nat : k <= n => \E g \in [SUBSET (1 .. k) -> X] : Fits(g, k)}
<1>1. n \in Nat /\ \A i \in 1 .. n : file[i] \in S
  OBVIOUS
<1>2. 0 \in Good
  <2>1. 1 .. 0 = {}
    OBVIOUS
  <2>2. [s \in SUBSET (1 .. 0) |-> init] \in [SUBSET (1 .. 0) -> X]
    OBVIOUS
  <2>3. Fits([s \in SUBSET (1 .. 0) |-> init], 0)
    BY <2>1
  <2> QED BY <2>2, <2>3
<1>3. ASSUME NEW k \in Nat, k \in Good, k + 1 <= n
      PROVE  \E g \in [SUBSET (1 .. k + 1) -> X] : Fits(g, k + 1)
  <2>1. PICK g \in [SUBSET (1 .. k) -> X] : Fits(g, k)
    <3>1. k <= n
      BY <1>1, <1>3
    <3> QED BY <1>3, <3>1
  <2> DEFINE h == [s \in SUBSET (1 .. k + 1) |->
                     IF s \in SUBSET (1 .. k) THEN g[s] ELSE op[<<g[s \ {k + 1}], file[k + 1]>>]]
  <2>2. file[k + 1] \in S
    BY <1>1, <1>3
  <2>3. \A s \in SUBSET (1 .. k + 1) : s \ {k + 1} \in SUBSET (1 .. k)
    OBVIOUS
  <2>4. h \in [SUBSET (1 .. k + 1) -> X]
    BY <2>2, <2>3
  <2>5. ASSUME NEW s \in SUBSET (1 .. k + 1)
        PROVE  h[s] = IF s = {} THEN init ELSE op[<<h[s \ {Max(s)}], file[Max(s)]>>]
    <3> DEFINE m == Max(s)
    <3>1. ASSUME s # {}
          PROVE  m \in s /\ \A i \in s : i <= m
      <4>1. s \in SUBSET Nat /\ k + 1 \in Nat /\ \A i \in s : i <= k + 1
        OBVIOUS
      <4> QED BY <3>1, <4>1, MaxNat
    <3>2. CASE s \in SUBSET (1 .. k)
      <4>1. h[s] = g[s]
        BY <3>2
      <4>2. ASSUME s # {} PROVE h[s \ {m}] = g[s \ {m}]
        <5>1. s \ {m} \in SUBSET (1 .. k) /\ s \ {m} \in SUBSET (1 .. k + 1)
          BY <3>2
        <5> QED BY <5>1
      <4>3. g[s] = IF s = {} THEN init ELSE op[<<g[s \ {m}], file[m]>>]
        BY <2>1, <3>2
      <4> HIDE DEF h, m
      <4> QED BY <4>1, <4>2, <4>3 DEF m
    <3>3. CASE s \notin SUBSET (1 .. k)
      <4>1. k + 1 \in s
        BY <3>3
      <4>2. m = k + 1
        <5>1. m \in 1 .. k + 1 /\ k + 1 <= m
          BY <3>1, <4>1
        <5> QED BY <5>1
      <4>3. h[s] = op[<<g[s \ {k + 1}], file[k + 1]>>]
        BY <3>3
      <4>4. h[s \ {k + 1}] = g[s \ {k + 1}]
        <5>1. s \ {k + 1} \in SUBSET (1 .. k) /\ s \ {k + 1} \in SUBSET (1 .. k + 1)
          OBVIOUS
        <5> QED BY <5>1
      <4> HIDE DEF h, m
      <4> QED BY <4>1, <4>2, <4>3, <4>4 DEF m
    <3> QED BY <3>2, <3>3
  <2> HIDE DEF h
  <2> QED BY <2>4, <2>5
<1>4. n \in Good
  <2>1. \A k \in Nat : k \in Good => k + 1 \in Good
    <3> SUFFICES ASSUME NEW k \in Nat, k \in Good PROVE k + 1 \in Good
      OBVIOUS
    <3>1. k + 1 \in Nat
      OBVIOUS
    <3>2. k + 1 <= n => \E g \in [SUBSET (1 .. k + 1) -> X] : Fits(g, k + 1)
      BY <1>3
    <3> HIDE DEF Fits, n
    <3> QED BY <3>1, <3>2
  <2>2. Nat \subseteq Good
    <3> HIDE DEF Good
    <3> QED BY <1>2, <2>1, Induct
  <2> QED BY <1>1, <2>2
<1>5. \E g \in [SUBSET (1 .. n) -> X] : Fits(g, n)
  <2>1. n <= n
    BY <1>1
  <2> HIDE DEF Fits, n
  <2> QED BY <1>4, <2>1
<1> QED BY <1>5 DEF HasFold
=============================================================================
