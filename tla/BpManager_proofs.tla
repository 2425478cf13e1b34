-------------------------- MODULE BpManager_proofs --------------------------
(***************************************************************************)
(* For every pool size, limit, set of files and set of requests: the types *)
(* of BpManager, that its pointers always form one finite list, that its   *)
(* loops keep their bookkeeping, that the DLL is never left holding a dead *)
(* node, and that the hardware limit is respected.                         *)
(***************************************************************************)
EXTENDS BpManager, BasicFacts

-----------------------------------------------------------------------------
\* Facts about sequences.

\* RemoveFirst takes the element at k out of a sequence without duplicates and
\* closes the gap.
LEMMA RemoveFirstProperties ==
  ASSUME NEW S, NEW s \in Seq(S), NEW k \in 1 .. Len(s),
         \A i, j \in 1 .. Len(s) : i # j => s[i] # s[j]
  PROVE  /\ RemoveFirst(s, s[k]) \in Seq(S)
         /\ Len(RemoveFirst(s, s[k])) = Len(s) - 1
         /\ \A i \in 1 .. Len(s) - 1 :
              RemoveFirst(s, s[k])[i] = IF i < k THEN s[i] ELSE s[i + 1]
<1> DEFINE I     == {i \in 1 .. Len(s) : s[i] = s[k]}
           front == SubSeq(s, 1, k - 1)
           back  == SubSeq(s, k + 1, Len(s))
<1>1. I = {k}
  OBVIOUS
<1>2. Min(I) = k
  BY <1>1 DEF Min
<1>3. SelectInSeq(s, LAMBDA v : v = s[k]) = k
  BY <1>1, <1>2 DEF SelectInSeq
<1>4. RemoveFirst(s, s[k]) = RemoveAt(s, k)
  BY <1>3 DEF RemoveFirst
<1>5. /\ front \in Seq(S)
      /\ Len(front) = k - 1
      /\ \A i \in 1 .. k - 1 : front[i] = s[i]
  BY SubSeqProperties
<1>6. /\ back \in Seq(S)
      /\ Len(back) = Len(s) - k
      /\ \A i \in 1 .. Len(s) - k : back[i] = s[k + i]
  BY SubSeqProperties
<1>7. RemoveAt(s, k) = front \o back
  BY DEF RemoveAt
<1> HIDE DEF front, back
<1>8. /\ front \o back \in Seq(S)
      /\ Len(front \o back) = Len(front) + Len(back)
      /\ \A i \in 1 .. Len(front) + Len(back) :
           (front \o back)[i] = IF i <= Len(front) THEN front[i] ELSE back[i - Len(front)]
  BY <1>5, <1>6, ConcatProperties
<1> QED BY <1>4, <1>5, <1>6, <1>7, <1>8

\* RemoveFirst of anything stays in the type of the sequence.
LEMMA RemoveFirstType ==
  ASSUME NEW S, NEW s \in Seq(S), NEW e
  PROVE  RemoveFirst(s, e) \in Seq(S)
<1> DEFINE I == {i \in 1 .. Len(s) : s[i] = e}
<1>1. CASE I = {}
  BY <1>1 DEF RemoveFirst
<1>2. CASE I # {}
  <2>1. PICK m \in I : \A j \in I : m <= j
    <3>1. I \in SUBSET Nat
      OBVIOUS
    <3> HIDE DEF I
    <3> QED BY <1>2, <3>1, LeastNat
  <2>2. Min(I) \in I
    BY <2>1 DEF Min
  <2>3. SelectInSeq(s, LAMBDA v : v = e) = Min(I)
    BY <1>2 DEF SelectInSeq
  <2>4. PICK k \in 1 .. Len(s) : RemoveFirst(s, e) = RemoveAt(s, k)
    BY <1>2, <2>2, <2>3 DEF RemoveFirst
  <2>5. /\ SubSeq(s, 1, k - 1) \in Seq(S)
        /\ SubSeq(s, k + 1, Len(s)) \in Seq(S)
    BY SubSeqProperties
  <2> QED BY <2>4, <2>5, ConcatProperties DEF RemoveAt
<1> QED BY <1>1, <1>2

-----------------------------------------------------------------------------
\* The three ways an operation changes the list, as facts about any pool.

\* A wiped node is a node.
LEMMA FreeNodeType == FreeNode \in NodeRecord
<1>1. 0 \in Nat /\ 0 \in 0 .. TempNumber
  BY DEF TempNumber
<1> QED BY <1>1 DEF FreeNode, NodeRecord

\* A node Alloc may return is not in the list: a linked node without an
\* address either has a prev pointer or is the head.
LEMMA FreeNodeNotLinked ==
  ASSUME NEW nodes \in [Nodes -> NodeRecord], NEW first \in Nodes \cup {NULL},
         NEW s \in Seq(Nodes), Represents(nodes, first, s),
         NEW bp \in Nodes, nodes[bp].prev = NULL, bp # first
  PROVE  \A i \in DOMAIN s : s[i] # bp
<1> SUFFICES ASSUME NEW i \in DOMAIN s, s[i] = bp PROVE FALSE
  OBVIOUS
<1>1. i # 1
  BY DEF Represents
<1>2. i \in 1 .. Len(s) /\ i - 1 \in 1 .. Len(s)
  BY <1>1
<1>3. nodes[s[i]].prev = s[i - 1] /\ s[i - 1] \in Nodes
  BY <1>1, <1>2 DEF Represents
<1> QED BY <1>3 DEF Nodes, NULL

\* What TryArm makes of the pool.
Appended(nodes, last, bp, a, k) ==
  [n \in Nodes |->
     IF n = bp THEN [adr |-> a, number |-> k, next |-> NULL, prev |-> last]
     ELSE IF n = last THEN [nodes[n] EXCEPT !.next = bp]
     ELSE nodes[n]]

\* Linking a node at the tail (TryArm).
LEMMA AppendRepresents ==
  ASSUME NEW nodes \in [Nodes -> NodeRecord], NEW first \in Nodes \cup {NULL},
         NEW s \in Seq(Nodes), Represents(nodes, first, s),
         NEW bp \in Nodes, \A i \in DOMAIN s : s[i] # bp,
         NEW a \in Nat, NEW k \in 0 .. TempNumber,
         NEW last, last = IF s = <<>> THEN NULL ELSE s[Len(s)]
  PROVE  /\ Appended(nodes, last, bp, a, k) \in [Nodes -> NodeRecord]
         /\ Represents(Appended(nodes, last, bp, a, k), IF first = NULL THEN bp ELSE first, Append(s, bp))
<1> DEFINE t     == Append(s, bp)
           after == Appended(nodes, last, bp, a, k)
<1> HIDE DEF after
<1>1. /\ t \in Seq(Nodes)
      /\ Len(t) = Len(s) + 1
      /\ DOMAIN t = 1 .. Len(s) + 1
      /\ \A i \in 1 .. Len(s) : t[i] = s[i]
      /\ t[Len(s) + 1] = bp
      /\ t # <<>>
      /\ DOMAIN s = 1 .. Len(s)
      /\ Len(s) \in Nat
  <2>1. Len(s) \in Nat /\ DOMAIN s = 1 .. Len(s)
    OBVIOUS
  <2>2. /\ t \in Seq(Nodes)
        /\ Len(t) = Len(s) + 1
        /\ \A i \in 1 .. Len(s) : t[i] = s[i]
        /\ t[Len(s) + 1] = bp
    BY AppendProperties
  <2> QED BY <2>1, <2>2
<1>2. last \in Nodes \cup {NULL} /\ last # bp /\ NULL \notin Nodes
  <2>1. NULL \notin Nodes
    BY DEF Nodes, NULL
  <2>2. CASE s = <<>>
    BY <2>1, <2>2
  <2>3. CASE s # <<>>
    <3>1. Len(s) \in DOMAIN s
      BY <2>3, <1>1
    <3> QED BY <2>1, <2>3, <3>1
  <2> QED BY <2>2, <2>3
<1>3. after \in [Nodes -> NodeRecord]
  BY <1>2 DEF NodeRecord, after, Appended
<1> HIDE DEF t
<1>4. \A i, j \in DOMAIN t : i # j => t[i] # t[j]
  <2>1. \A i, j \in 1 .. Len(s) : i # j => t[i] # t[j]
    <3>1. \A i, j \in 1 .. Len(s) : i # j => s[i] # s[j]
      BY <1>1 DEF Represents
    <3> QED BY <1>1, <3>1
  <2>2. \A i \in 1 .. Len(s) : t[i] # t[Len(s) + 1]
    BY <1>1
  <2> QED BY <2>1, <2>2, <1>1
<1>5. (IF first = NULL THEN bp ELSE first) = t[1]
  <2>1. CASE s = <<>>
    <3>1. first = NULL /\ Len(s) = 0
      BY <2>1 DEF Represents
    <3> QED BY <3>1, <1>1
  <2>2. CASE s # <<>>
    <3>1. first = s[1] /\ s[1] \in Nodes /\ t[1] = s[1]
      <4>1. 1 \in DOMAIN s
        BY <2>2, <1>1
      <4>2. t[1] = s[1] /\ s[1] \in Nodes
        BY <4>1, <1>1
      <4>3. first = s[1]
        BY <2>2 DEF Represents
      <4> QED BY <4>2, <4>3
    <3> QED BY <3>1, <1>2
  <2> QED BY <2>1, <2>2
<1>6. ASSUME NEW i \in DOMAIN t
      PROVE  /\ after[t[i]].next = IF i = Len(t) THEN NULL ELSE t[i + 1]
             /\ after[t[i]].prev = IF i = 1 THEN NULL ELSE t[i - 1]
  <2>1. CASE i = Len(s) + 1
    <3>1. after[t[i]].next = NULL /\ after[t[i]].prev = last
      BY <2>1, <1>1 DEF after, Appended
    <3>2. last = IF i = 1 THEN NULL ELSE t[i - 1]
      BY <2>1, <1>1
    <3> QED BY <3>1, <3>2, <2>1, <1>1
  <2>2. CASE i = Len(s)
    <3>1. i \in 1 .. Len(s) /\ t[i] = s[i] /\ s[i] \in Nodes /\ last = s[i] /\ s[i] # bp
      BY <2>2, <1>1
    <3>2. after[s[i]] = [nodes[s[i]] EXCEPT !.next = bp]
      BY <3>1 DEF after, Appended
    <3>3. nodes[s[i]] \in NodeRecord
      BY <3>1
    <3>4. after[s[i]].next = bp /\ after[s[i]].prev = nodes[s[i]].prev
      BY <3>2, <3>3 DEF NodeRecord
    <3>5. nodes[s[i]].prev = IF i = 1 THEN NULL ELSE s[i - 1]
      BY <3>1 DEF Represents
    <3>6. i # 1 => i - 1 \in 1 .. Len(s)
      BY <3>1
    <3> QED BY <3>1, <3>4, <3>5, <3>6, <2>2, <1>1
  <2>3. CASE i \in 1 .. Len(s) - 1
    <3>1. i \in 1 .. Len(s) /\ t[i] = s[i] /\ s[i] \in Nodes /\ s[i] # bp
      BY <2>3, <1>1
    <3>2. s[i] # last
      BY <2>3 DEF Represents
    <3>3. after[s[i]] = nodes[s[i]]
      BY <3>1, <3>2 DEF after, Appended
    <3>4. /\ nodes[s[i]].next = s[i + 1]
          /\ nodes[s[i]].prev = IF i = 1 THEN NULL ELSE s[i - 1]
      BY <2>3, <3>1 DEF Represents
    <3>5. i + 1 \in 1 .. Len(s) /\ (i # 1 => i - 1 \in 1 .. Len(s)) /\ i # Len(s) /\ i # Len(t)
      BY <2>3, <1>1
    <3>6. t[i + 1] = s[i + 1] /\ (i # 1 => t[i - 1] = s[i - 1])
      BY <3>5, <1>1
    <3> QED BY <3>1, <3>3, <3>4, <3>5, <3>6
  <2>4. Len(s) \in Nat /\ i \in 1 .. Len(s) + 1
    BY <1>1
  <2>5. i = Len(s) + 1 \/ i = Len(s) \/ i \in 1 .. Len(s) - 1
    BY <2>4
  <2> QED BY <2>1, <2>2, <2>3, <2>5
<1>7. ASSUME NEW n \in Nodes, \A i \in DOMAIN t : t[i] # n
      PROVE  after[n] = FreeNode
  <2>1. n # bp /\ \A i \in DOMAIN s : s[i] # n
    <3>1. Len(s) + 1 \in DOMAIN t /\ DOMAIN s \subseteq DOMAIN t
      BY <1>1
    <3> QED BY <1>7, <1>1, <3>1
  <2>2. n # last
    <3>1. CASE s = <<>>
      BY <3>1 DEF Nodes, NULL
    <3>2. CASE s # <<>>
      <4>1. Len(s) \in DOMAIN s
        BY <3>2
      <4> QED BY <3>2, <4>1, <2>1
    <3> QED BY <3>1, <3>2
  <2>3. after[n] = nodes[n]
    BY <2>1, <2>2 DEF after, Appended
  <2> QED BY <2>1, <2>3 DEF Represents
<1>8. Represents(after, IF first = NULL THEN bp ELSE first, t)
  BY <1>1, <1>4, <1>5, <1>6, <1>7 DEF Represents
<1> QED BY <1>3, <1>8 DEF t, after

\* What AddTempBreakpoint makes of the pool.
Prepended(nodes, first, bp, a, k) ==
  [n \in Nodes |->
     IF n = bp THEN [adr |-> a, number |-> k, next |-> first, prev |-> NULL]
     ELSE IF n = first THEN [nodes[n] EXCEPT !.prev = bp]
     ELSE nodes[n]]

\* Linking a node in front of the head (AddTempBreakpoint).
LEMMA PrependRepresents ==
  ASSUME NEW nodes \in [Nodes -> NodeRecord], NEW first \in Nodes \cup {NULL},
         NEW s \in Seq(Nodes), Represents(nodes, first, s),
         NEW bp \in Nodes, \A i \in DOMAIN s : s[i] # bp,
         NEW a \in Nat, NEW k \in 0 .. TempNumber
  PROVE  /\ Prepended(nodes, first, bp, a, k) \in [Nodes -> NodeRecord]
         /\ Represents(Prepended(nodes, first, bp, a, k), bp, <<bp>> \o s)
<1> DEFINE t     == <<bp>> \o s
           after == Prepended(nodes, first, bp, a, k)
<1> HIDE DEF after
<1>1. /\ t \in Seq(Nodes)
      /\ Len(t) = Len(s) + 1
      /\ DOMAIN t = 1 .. Len(s) + 1
      /\ t[1] = bp
      /\ \A i \in 1 .. Len(s) : t[i + 1] = s[i]
      /\ t # <<>>
      /\ DOMAIN s = 1 .. Len(s)
      /\ Len(s) \in Nat
  <2>1. Len(s) \in Nat /\ DOMAIN s = 1 .. Len(s)
    OBVIOUS
  <2>2. <<bp>> \in Seq(Nodes) /\ Len(<<bp>>) = 1 /\ <<bp>>[1] = bp
    OBVIOUS
  <2>3. /\ t \in Seq(Nodes)
        /\ Len(t) = 1 + Len(s)
        /\ \A i \in 1 .. 1 + Len(s) : t[i] = IF i <= 1 THEN <<bp>>[i] ELSE s[i - 1]
    BY <2>2, ConcatProperties
  <2> HIDE DEF t
  <2>4. DOMAIN t = 1 .. Len(s) + 1 /\ Len(t) = Len(s) + 1 /\ t # <<>>
    BY <2>1, <2>3
  <2>5. t[1] = bp
    BY <2>1, <2>2, <2>3
  <2>6. ASSUME NEW i \in 1 .. Len(s) PROVE t[i + 1] = s[i]
    <3>1. i + 1 \in 1 .. 1 + Len(s) /\ ~ (i + 1 <= 1) /\ (i + 1) - 1 = i
      BY <2>1
    <3> QED BY <3>1, <2>3
  <2> QED BY <2>1, <2>3, <2>4, <2>5, <2>6
<1>2. NULL \notin Nodes
  BY DEF Nodes, NULL
<1>3. after \in [Nodes -> NodeRecord]
  BY <1>2 DEF NodeRecord, after, Prepended
<1>4. first # bp
  <2>1. CASE s = <<>>
    BY <2>1, <1>2 DEF Represents
  <2>2. CASE s # <<>>
    <3>1. first = s[1] /\ 1 \in DOMAIN s
      BY <2>2, <1>1 DEF Represents
    <3> QED BY <3>1
  <2> QED BY <2>1, <2>2
<1> HIDE DEF t
<1>5. \A i, j \in DOMAIN t : i # j => t[i] # t[j]
  <2>1. \A i, j \in 1 .. Len(s) : i # j => s[i] # s[j]
    BY <1>1 DEF Represents
  <2>2. \A i \in 2 .. Len(s) + 1 : i - 1 \in 1 .. Len(s) /\ t[i] = s[i - 1]
    BY <1>1
  <2>3. \A i \in 2 .. Len(s) + 1 : t[i] # t[1]
    BY <2>2, <1>1
  <2>4. \A i, j \in 2 .. Len(s) + 1 : i # j => t[i] # t[j]
    BY <2>1, <2>2
  <2> QED BY <2>3, <2>4, <1>1
<1>6. ASSUME NEW i \in DOMAIN t
      PROVE  /\ after[t[i]].next = IF i = Len(t) THEN NULL ELSE t[i + 1]
             /\ after[t[i]].prev = IF i = 1 THEN NULL ELSE t[i - 1]
  <2>1. CASE i = 1
    <3>1. after[t[i]].next = first /\ after[t[i]].prev = NULL
      BY <2>1, <1>1 DEF after, Prepended
    <3>2. first = IF i = Len(t) THEN NULL ELSE t[i + 1]
      <4>1. CASE s = <<>>
        <5>1. first = NULL /\ Len(s) = 0
          BY <4>1 DEF Represents
        <5> QED BY <5>1, <2>1, <1>1
      <4>2. CASE s # <<>>
        <5>1. first = s[1] /\ 1 \in 1 .. Len(s)
          BY <4>2, <1>1 DEF Represents
        <5> QED BY <5>1, <2>1, <1>1
      <4> QED BY <4>1, <4>2
    <3> QED BY <3>1, <3>2, <2>1
  <2>2. CASE i = 2
    <3>1. 1 \in 1 .. Len(s) /\ t[i] = s[1] /\ s[1] \in Nodes /\ s[1] # bp
      BY <2>2, <1>1
    <3>2. first = s[1]
      <4>1. s # <<>>
        BY <3>1
      <4> QED BY <4>1 DEF Represents
    <3>3. nodes[s[1]] \in NodeRecord /\ after[s[1]] = [nodes[s[1]] EXCEPT !.prev = bp]
      BY <3>1, <3>2, <1>4 DEF after, Prepended
    <3>4. after[s[1]].next = nodes[s[1]].next /\ after[s[1]].prev = bp
      BY <3>3 DEF NodeRecord
    <3>5. nodes[s[1]].next = IF 1 = Len(s) THEN NULL ELSE s[2]
      BY <3>1, <1>1 DEF Represents
    <3>6. 1 # Len(s) => 2 \in 1 .. Len(s)
      BY <3>1, <1>1
    <3>7. 1 # Len(s) => t[3] = s[2]
      BY <3>6, <1>1
    <3>8. i + 1 = 3 /\ i - 1 = 1 /\ i # 1
      BY <2>2
    <3>9. i = Len(t) <=> 1 = Len(s)
      <4>1. Len(t) = Len(s) + 1 /\ Len(s) \in Nat
        BY <1>1
      <4>2. \A l \in Nat : 2 = l + 1 <=> 1 = l
        OBVIOUS
      <4> QED BY <2>2, <4>1, <4>2
    <3> QED BY <3>1, <3>4, <3>5, <3>7, <3>8, <3>9, <1>1
  <2>3. CASE i \in 3 .. Len(s) + 1
    <3> DEFINE j == i - 1
    <3>1. /\ j \in 2 .. Len(s)
          /\ t[i] = s[j]
          /\ s[j] \in Nodes
          /\ s[j] # bp
          /\ t[i - 1] = s[j - 1]
          /\ j # Len(s) => t[i + 1] = s[j + 1]
          /\ i = Len(t) <=> j = Len(s)
      <4>1. j \in 2 .. Len(s) /\ i = j + 1 /\ j \in 1 .. Len(s) /\ j - 1 \in 1 .. Len(s)
        BY <2>3, <1>1
      <4>2. j # Len(s) => j + 1 \in 1 .. Len(s) /\ i + 1 = (j + 1) + 1
        BY <4>1, <1>1
      <4>3. i - 1 = (j - 1) + 1
        BY <4>1
      <4> HIDE DEF j
      <4>4. t[i] = s[j] /\ s[j] \in Nodes /\ s[j] # bp
        BY <4>1, <1>1
      <4>5. t[i - 1] = s[j - 1]
        BY <4>1, <4>3, <1>1
      <4>6. j # Len(s) => t[i + 1] = s[j + 1]
        BY <4>2, <1>1
      <4>7. i = Len(t) <=> j = Len(s)
        <5>1. j \in Nat /\ Len(s) \in Nat /\ Len(t) = Len(s) + 1
          BY <4>1, <1>1
        <5>2. \A l, m \in Nat : m + 1 = l + 1 <=> m = l
          OBVIOUS
        <5> QED BY <4>1, <5>1, <5>2
      <4> QED BY <4>1, <4>4, <4>5, <4>6, <4>7
    <3> HIDE DEF j
    <3>2. s[j] # first
      <4>1. Len(s) \in Nat /\ DOMAIN s = 1 .. Len(s)
        BY <1>1
      <4>2. j # 1 /\ j \in DOMAIN s /\ 1 \in DOMAIN s
        <5>1. j \in 2 .. Len(s)
          BY <3>1
        <5> QED BY <4>1, <5>1
      <4>3. s # <<>>
        BY <4>2
      <4> QED BY <4>2, <4>3 DEF Represents
    <3>3. after[s[j]] = nodes[s[j]]
      BY <3>1, <3>2 DEF after, Prepended
    <3>4. /\ nodes[s[j]].next = IF j = Len(s) THEN NULL ELSE s[j + 1]
          /\ nodes[s[j]].prev = IF j = 1 THEN NULL ELSE s[j - 1]
      <4>1. Len(s) \in Nat /\ DOMAIN s = 1 .. Len(s)
        BY <1>1
      <4>2. j \in DOMAIN s
        BY <3>1, <4>1
      <4> QED BY <4>2 DEF Represents
    <3>5. i # 1 /\ j # 1
      BY <3>1, <2>3
    <3> QED BY <3>1, <3>3, <3>4, <3>5
  <2>4. i = 1 \/ i = 2 \/ i \in 3 .. Len(s) + 1
    BY <1>1
  <2> QED BY <2>1, <2>2, <2>3, <2>4
<1>7. ASSUME NEW n \in Nodes, \A i \in DOMAIN t : t[i] # n
      PROVE  after[n] = FreeNode
  <2>1. n # bp
    BY <1>7, <1>1
  <2>2. \A i \in DOMAIN s : s[i] # n
    <3>1. \A i \in DOMAIN s : i + 1 \in DOMAIN t /\ t[i + 1] = s[i]
      BY <1>1
    <3> QED BY <1>7, <3>1
  <2>3. n # first
    <3>1. CASE s = <<>>
      BY <3>1, <1>2 DEF Represents
    <3>2. CASE s # <<>>
      <4>1. first = s[1] /\ 1 \in DOMAIN s
        BY <3>2, <1>1 DEF Represents
      <4> QED BY <4>1, <2>2
    <3> QED BY <3>1, <3>2
  <2>4. after[n] = nodes[n]
    BY <2>1, <2>3 DEF after, Prepended
  <2> QED BY <2>2, <2>4 DEF Represents
<1>8. Represents(after, bp, t)
  BY <1>1, <1>5, <1>6, <1>7 DEF Represents
<1> QED BY <1>3, <1>8 DEF t, after

\* What RemoveTempBreakpoint makes of the pool.
Unlinked(nodes, bp) ==
  [n \in Nodes |->
     IF n = bp THEN FreeNode
     ELSE [nodes[n] EXCEPT
             !.next = IF n = nodes[bp].prev THEN nodes[bp].next ELSE nodes[n].next,
             !.prev = IF n = nodes[bp].next THEN nodes[bp].prev ELSE nodes[n].prev]]

\* Unlinking a node changes only the pointers of the others.
LEMMA UnlinkedSame ==
  ASSUME NEW nodes \in [Nodes -> NodeRecord], NEW bp, NEW n \in Nodes, n # bp
  PROVE  /\ Unlinked(nodes, bp)[n].adr = nodes[n].adr
         /\ Unlinked(nodes, bp)[n].number = nodes[n].number
<1>1. nodes[n] \in NodeRecord
  OBVIOUS
<1> QED BY <1>1 DEF Unlinked, NodeRecord

\* Unlinking a node from anywhere in the list (RemoveTempBreakpoint).
LEMMA RemoveRepresents ==
  ASSUME NEW nodes \in [Nodes -> NodeRecord], NEW first \in Nodes \cup {NULL},
         NEW s \in Seq(Nodes), Represents(nodes, first, s),
         NEW k \in 1 .. Len(s), NEW bp, bp = s[k]
  PROVE  /\ Unlinked(nodes, bp) \in [Nodes -> NodeRecord]
         /\ Represents(Unlinked(nodes, bp), IF first = bp THEN nodes[bp].next ELSE first, RemoveFirst(s, bp))
<1> DEFINE t     == RemoveFirst(s, bp)
           after == Unlinked(nodes, bp)
<1>0. Len(s) \in Nat
  OBVIOUS
<1>1. /\ DOMAIN s = 1 .. Len(s)
      /\ Len(s) \in Nat
      /\ \A i \in 1 .. Len(s) : s[i] \in Nodes
      /\ \A i, j \in 1 .. Len(s) : i # j => s[i] # s[j]
      /\ bp \in Nodes
      /\ NULL \notin Nodes
  <2>1. DOMAIN s = 1 .. Len(s) /\ Len(s) \in Nat
    OBVIOUS
  <2>2. \A i \in 1 .. Len(s) : s[i] \in Nodes
    OBVIOUS
  <2>3. \A i, j \in 1 .. Len(s) : i # j => s[i] # s[j]
    BY <2>1 DEF Represents
  <2>4. NULL \notin Nodes
    BY DEF Nodes, NULL
  <2> QED BY <2>1, <2>2, <2>3, <2>4
<1>2. /\ t \in Seq(Nodes)
      /\ Len(t) = Len(s) - 1
      /\ \A i \in 1 .. Len(s) - 1 : t[i] = IF i < k THEN s[i] ELSE s[i + 1]
  BY <1>1, RemoveFirstProperties
<1> HIDE DEF t, after
<1>3. DOMAIN t = 1 .. Len(s) - 1
  BY <1>2
<1>4. \A i \in 1 .. Len(s) :
        /\ nodes[s[i]] \in NodeRecord
        /\ nodes[s[i]].next = IF i = Len(s) THEN NULL ELSE s[i + 1]
        /\ nodes[s[i]].prev = IF i = 1 THEN NULL ELSE s[i - 1]
  BY <1>1 DEF Represents
<1>5. /\ nodes[bp].next = IF k = Len(s) THEN NULL ELSE s[k + 1]
      /\ nodes[bp].prev = IF k = 1 THEN NULL ELSE s[k - 1]
  BY <1>4
<1>6. nodes[bp].next \in Nodes \cup {NULL} /\ nodes[bp].prev \in Nodes \cup {NULL}
  BY <1>1 DEF NodeRecord
<1>7. after \in [Nodes -> NodeRecord]
  <2>1. ASSUME NEW n \in Nodes PROVE after[n] \in NodeRecord
    <3>1. nodes[n] \in NodeRecord
      OBVIOUS
    <3> QED BY <3>1, <1>6, FreeNodeType DEF NodeRecord, after, Unlinked
  <2>2. after = [n \in Nodes |-> after[n]]
    BY DEF after, Unlinked
  <2> QED BY <2>1, <2>2
\* What a node that stays looks like afterwards.
<1>8. ASSUME NEW i \in 1 .. Len(s), i # k
      PROVE  /\ after[s[i]].next = IF i = k - 1 THEN nodes[bp].next ELSE nodes[s[i]].next
             /\ after[s[i]].prev = IF i = k + 1 THEN nodes[bp].prev ELSE nodes[s[i]].prev
  <2>1. s[i] \in Nodes /\ s[i] # bp
    BY <1>8, <1>1
  <2>2. (s[i] = nodes[bp].prev) <=> (i = k - 1)
    <3>1. CASE k = 1
      BY <3>1, <2>1, <1>1, <1>5
    <3>2. CASE k # 1
      <4>1. nodes[bp].prev = s[k - 1] /\ k - 1 \in 1 .. Len(s)
        BY <3>2, <1>5
      <4> QED BY <4>1, <1>1
    <3> QED BY <3>1, <3>2
  <2>3. (s[i] = nodes[bp].next) <=> (i = k + 1)
    <3>1. CASE k = Len(s)
      BY <3>1, <2>1, <1>1, <1>5
    <3>2. CASE k # Len(s)
      <4>1. nodes[bp].next = s[k + 1] /\ k + 1 \in 1 .. Len(s)
        BY <3>2, <1>5, <1>1
      <4> QED BY <4>1, <1>1
    <3> QED BY <3>1, <3>2
  <2>4. nodes[s[i]] \in NodeRecord
    BY <2>1
  <2>5. after[s[i]] = [nodes[s[i]] EXCEPT
                            !.next = IF s[i] = nodes[bp].prev THEN nodes[bp].next ELSE nodes[s[i]].next,
                            !.prev = IF s[i] = nodes[bp].next THEN nodes[bp].prev ELSE nodes[s[i]].prev]
    BY <2>1 DEF after, Unlinked
  <2>6. /\ after[s[i]].next = IF s[i] = nodes[bp].prev THEN nodes[bp].next ELSE nodes[s[i]].next
        /\ after[s[i]].prev = IF s[i] = nodes[bp].next THEN nodes[bp].prev ELSE nodes[s[i]].prev
    BY <2>4, <2>5 DEF NodeRecord
  <2> QED BY <2>2, <2>3, <2>6
<1>9. \A i, j \in DOMAIN t : i # j => t[i] # t[j]
  <2> SUFFICES ASSUME NEW i \in 1 .. Len(s) - 1, NEW j \in 1 .. Len(s) - 1, i # j
               PROVE  t[i] # t[j]
    BY <1>3
  <2> DEFINE ii == IF i < k THEN i ELSE i + 1
             jj == IF j < k THEN j ELSE j + 1
  <2>1. ii \in 1 .. Len(s) /\ jj \in 1 .. Len(s) /\ ii # jj
    BY <1>1
  <2>2. t[i] = s[ii] /\ t[j] = s[jj]
    BY <1>2
  <2> QED BY <2>1, <2>2, <1>1
<1>10. (IF first = bp THEN nodes[bp].next ELSE first) = IF t = <<>> THEN NULL ELSE t[1]
  <2>1. first = s[1] /\ 1 \in 1 .. Len(s)
    <3>1. s # <<>> /\ 1 \in 1 .. Len(s)
      BY <1>1
    <3> QED BY <3>1 DEF Represents
  <2>2. CASE Len(s) = 1
    <3>1. k = 1 /\ k = Len(s) /\ first = bp
      BY <2>1, <2>2
    <3>2. t = <<>>
      BY <1>2, <2>2
    <3> QED BY <3>1, <3>2, <1>5
  <2>3. CASE Len(s) # 1
    <3>1. t # <<>> /\ 1 \in 1 .. Len(s) - 1 /\ 2 \in 1 .. Len(s)
      BY <1>1, <1>2, <2>1, <2>3
    <3>2. CASE k = 1
      <4>1. first = bp /\ k # Len(s) /\ t[1] = s[2]
        BY <2>1, <2>3, <3>1, <3>2, <1>2
      <4> QED BY <3>1, <3>2, <4>1, <1>5
    <3>3. CASE k # 1
      <4>1. first # bp /\ t[1] = s[1]
        BY <2>1, <3>1, <3>3, <1>1, <1>2
      <4> QED BY <2>1, <3>1, <4>1
    <3> QED BY <3>2, <3>3
  <2> HIDE DEF t
  <2> QED BY <2>2, <2>3, Zenon
<1>11. ASSUME NEW i \in DOMAIN t
       PROVE  /\ after[t[i]].next = IF i = Len(t) THEN NULL ELSE t[i + 1]
              /\ after[t[i]].prev = IF i = 1 THEN NULL ELSE t[i - 1]
  <2>1. i \in 1 .. Len(s) - 1
    BY <1>3
  <2>2. CASE i < k - 1
    <3>1. /\ t[i] = s[i]
          /\ i # Len(t) /\ t[i + 1] = s[i + 1]
          /\ i # 1 => t[i - 1] = s[i - 1]
      <4>1. i + 1 \in 1 .. Len(s) - 1 /\ i + 1 < k /\ i < k /\ i # Len(s) - 1
        BY <2>1, <2>2, <1>1
      <4>2. i # 1 => i - 1 \in 1 .. Len(s) - 1 /\ i - 1 < k
        BY <2>1, <2>2, <1>1
      <4> QED BY <2>1, <4>1, <4>2, <1>2
    <3>2. i \in 1 .. Len(s) /\ i # k /\ i # k - 1 /\ i # k + 1 /\ i # Len(s)
      BY <2>1, <2>2, <1>1
    <3>3. after[s[i]].next = s[i + 1] /\ after[s[i]].prev = IF i = 1 THEN NULL ELSE s[i - 1]
      BY <3>2, <1>4, <1>8
    <3> QED BY <3>1, <3>3
  <2>3. CASE i = k - 1
    <3>1. /\ t[i] = s[i]
          /\ i # 1 => t[i - 1] = s[i - 1]
          /\ i = Len(t) => k = Len(s)
          /\ i # Len(t) => k # Len(s) /\ t[i + 1] = s[k + 1]
      <4>1. i < k /\ (i = Len(s) - 1 <=> k = Len(s))
        BY <2>1, <2>3, <1>1
      <4>2. i # 1 => i - 1 \in 1 .. Len(s) - 1 /\ i - 1 < k
        BY <2>1, <2>3, <1>1
      <4>3. i # Len(s) - 1 => i + 1 \in 1 .. Len(s) - 1 /\ i + 1 = k /\ ~ (i + 1 < k)
        BY <1>0, <2>1, <2>3
      <4> QED BY <2>1, <4>1, <4>2, <4>3, <1>2
    <3>2. i \in 1 .. Len(s) /\ i # k /\ i # k + 1
      BY <2>1, <2>3, <1>1
    <3>3. /\ after[s[i]].next = IF k = Len(s) THEN NULL ELSE s[k + 1]
          /\ after[s[i]].prev = IF i = 1 THEN NULL ELSE s[i - 1]
      BY <2>3, <3>2, <1>4, <1>5, <1>8
    <3> QED BY <3>1, <3>3
  <2>4. CASE i >= k
    <3>1. i + 1 \in 1 .. Len(s) /\ i + 1 # k /\ i + 1 # k - 1
      BY <2>1, <2>4, <1>1
    <3>2. t[i] = s[i + 1]
      BY <2>1, <2>4, <1>2
    <3>3. after[t[i]].next = IF i + 1 = Len(s) THEN NULL ELSE s[(i + 1) + 1]
      BY <3>1, <3>2, <1>4, <1>8
    <3>4. i # Len(t) => t[i + 1] = s[(i + 1) + 1] /\ i + 1 # Len(s)
      BY <2>1, <2>4, <1>1, <1>2
    <3>5. i = Len(t) => i + 1 = Len(s)
      BY <1>1, <1>2
    <3>6. CASE i = k
      <4>1. after[t[i]].prev = IF k = 1 THEN NULL ELSE s[k - 1]
        BY <3>1, <3>2, <3>6, <1>5, <1>8
      <4>2. k # 1 => t[i - 1] = s[k - 1]
        BY <2>1, <3>6, <1>1, <1>2
      <4> QED BY <3>3, <3>4, <3>5, <3>6, <4>1, <4>2
    <3>7. CASE i # k
      <4>1. i + 1 # k + 1 /\ i + 1 # 1 /\ (i + 1) - 1 = i /\ i # 1
        BY <2>1, <2>4, <3>7, <1>1
      <4>2. after[t[i]].prev = s[i]
        BY <3>1, <3>2, <4>1, <1>4, <1>8
      <4>3. t[i - 1] = s[i]
        BY <2>1, <2>4, <3>7, <4>1, <1>1, <1>2
      <4> QED BY <3>3, <3>4, <3>5, <4>1, <4>2, <4>3
    <3> QED BY <3>6, <3>7
  <2>5. i < k - 1 \/ i = k - 1 \/ i >= k
    BY <2>1
  <2> QED BY <2>2, <2>3, <2>4, <2>5
<1>12. ASSUME NEW n \in Nodes, \A i \in DOMAIN t : t[i] # n
       PROVE  after[n] = FreeNode
  <2>1. CASE n = bp
    BY <2>1 DEF after, Unlinked
  <2>2. CASE n # bp
    <3>1. \A i \in 1 .. Len(s) : s[i] # n
      <4> SUFFICES ASSUME NEW i \in 1 .. Len(s), s[i] = n PROVE FALSE
        OBVIOUS
      <4>1. i # k
        BY <2>2
      <4>2. CASE i < k
        <5>1. i \in 1 .. Len(s) - 1 /\ t[i] = s[i]
          BY <4>2, <1>1, <1>2
        <5> QED BY <5>1, <1>3, <1>12
      <4>3. CASE i > k
        <5>1. i - 1 \in 1 .. Len(s) - 1 /\ ~ (i - 1 < k) /\ (i - 1) + 1 = i
          BY <4>3, <1>1
        <5>2. t[i - 1] = s[i]
          BY <5>1, <1>2
        <5> QED BY <5>1, <5>2, <1>3, <1>12
      <4> QED BY <4>1, <4>2, <4>3
    <3>2. nodes[n] = FreeNode
      BY <3>1, <1>1 DEF Represents
    <3>3. n # nodes[bp].prev /\ n # nodes[bp].next
      <4>1. (k # 1 => k - 1 \in 1 .. Len(s)) /\ (k # Len(s) => k + 1 \in 1 .. Len(s))
        BY <1>0
      <4>2. n # NULL
        BY <1>1
      <4>3. n # nodes[bp].prev
        BY <3>1, <4>1, <4>2, <1>5
      <4>4. n # nodes[bp].next
        BY <3>1, <4>1, <4>2, <1>5
      <4> QED BY <4>3, <4>4
    <3>4. after[n] = [nodes[n] EXCEPT !.next = nodes[n].next, !.prev = nodes[n].prev]
      BY <2>2, <3>3 DEF after, Unlinked
    <3> QED BY <3>2, <3>4 DEF FreeNode
  <2> QED BY <2>1, <2>2
<1>13. Represents(after, IF first = bp THEN nodes[bp].next ELSE first, t)
  BY <1>9, <1>10, <1>11, <1>12 DEF Represents
<1> QED BY <1>7, <1>13 DEF t, after

-----------------------------------------------------------------------------
\* Types.

\* The elements of a sequence form a finite set, and so does it with one more.
LEMMA RangeFinite ==
  ASSUME NEW S, NEW s \in Seq(S), NEW e
  PROVE  IsFiniteSet(ToSet(s) \cup {e})
<1>1. Len(s) \in Nat /\ DOMAIN s = 1 .. Len(s)
  OBVIOUS
<1>2. IsFiniteSet(1 .. Len(s))
  BY <1>1, FS_Interval
<1>3. s \in Surjection(1 .. Len(s), ToSet(s))
  BY <1>1 DEF Surjection, ToSet
<1>4. IsFiniteSet(ToSet(s))
  BY <1>2, <1>3, FS_Surjection
<1> QED BY <1>4, FS_AddElement

\* Every order of a finite set is a sequence of its elements.
LEMMA OrderIsSeq ==
  ASSUME NEW T, NEW S \in SUBSET T, IsFiniteSet(S), NEW s \in SetToSeqs(S)
  PROVE  s \in Seq(T)
<1>1. Cardinality(S) \in Nat
  BY FS_CardinalityType
<1>2. s \in [1 .. Cardinality(S) -> S]
  BY DEF SetToSeqs
<1>3. s \in [1 .. Cardinality(S) -> T]
  BY <1>2
<1> QED BY <1>1, <1>3

\* Alloc returns a free node of the pool or NULL.
LEMMA AllocFree ==
  /\ Alloc \in Nodes \cup {NULL}
  /\ Alloc # NULL => Alloc \in Nodes /\ IsFree(Alloc)
<1> DEFINE free == {n \in Nodes : IsFree(n)}
<1>1. CASE free = {}
  BY <1>1 DEF Alloc
<1>2. CASE free # {}
  <2>1. free \in SUBSET Nat
    BY DEF Nodes
  <2>2. \E m \in free : \A k \in free : m <= k
    <3> HIDE DEF free
    <3> QED BY <1>2, <2>1, LeastNat
  <2>3. \E n \in Nodes : IsFree(n) /\ \A m \in Nodes : IsFree(m) => n <= m
    BY <2>2
  <2> QED BY <1>2, <2>3 DEF Alloc
<1> QED BY <1>1, <1>2

\* The addresses of a table are a sequence of addresses.
LEMMA AddressesType ==
  ASSUME TypeOK, NEW table \in Tables
  PROVE  Addresses(table) \in Seq(Addr)
BY DEF TypeOK, Addresses, Tables

\* The types hold of the initial state.
LEMMA TypeInit == Init => TypeOK
<1> SUFFICES ASSUME Init PROVE TypeOK
  OBVIOUS
<1>1. pool \in [Nodes -> NodeRecord]
  BY FreeNodeType DEF Init
<1>2. told \in [Tables -> SUBSET Addr] /\ caller \in Tables
  BY DEF Init, NoneTold, Tables
<1> QED BY <1>1, <1>2 DEF Init, TypeOK, Phases

\* Every step keeps the types.
LEMMA TypeStep == TypeOK /\ [Next]_vars => TypeOK'
<1> SUFFICES ASSUME TypeOK, [Next]_vars PROVE TypeOK'
  OBVIOUS
<1> USE ConstantsAssumption
<1>1. CASE InitDebugSession
  BY <1>1, FreeNodeType DEF TypeOK, InitDebugSession
<1>2. CASE InitFlashSession
  BY <1>2 DEF TypeOK, InitFlashSession, tables
<1>3. CASE UninitAgdiSession
  <2>1. told' \in [Tables -> SUBSET Addr]
    BY <1>3 DEF UninitAgdiSession, NoneTold
  <2> QED BY <1>3, <2>1 DEF TypeOK, UninitAgdiSession, tables
<1>4. ASSUME NEW f \in Files, NEW addresses \in Requests, SetFileBreakpoints(f, addresses)
      PROVE  TypeOK'
  <2>1. addresses \in Seq(Addr) /\ ToSet(addresses) \subseteq Addr
    BY DEF ToSet
  <2>2. fileBreakpoints' \in [Files -> Seq(Addr)]
    BY <1>4, <2>1 DEF SetFileBreakpoints, TypeOK
  <2>3. fileOrder' \in Seq(Files)
    <3>1. fileOrder \in Seq(Files)
      BY DEF TypeOK
    <3>2. RemoveFirst(fileOrder, f) \in Seq(Files)
      BY <3>1, RemoveFirstType
    <3>3. ASSUME NEW s \in SetToSeqs(ToSet(fileOrder) \cup {f}) PROVE s \in Seq(Files)
      <4>1. ToSet(fileOrder) \cup {f} \in SUBSET Files
        BY <3>1 DEF ToSet
      <4>2. IsFiniteSet(ToSet(fileOrder) \cup {f})
        BY <3>1, RangeFinite
      <4> QED BY <4>1, <4>2, OrderIsSeq
    <3> QED BY <1>4, <3>1, <3>2, <3>3 DEF SetFileBreakpoints
  <2> QED BY <1>4, <2>1, <2>2, <2>3 DEF SetFileBreakpoints, StartRebuild, RebuildFrom, TypeOK, Tables, Phases
<1>5. ASSUME NEW addresses \in Requests, SetInstructionBreakpoints(addresses)
      PROVE  TypeOK'
  <2>1. addresses \in Seq(Addr) /\ ToSet(addresses) \subseteq Addr
    BY DEF ToSet
  <2> QED BY <1>5, <2>1 DEF SetInstructionBreakpoints, StartRebuild, RebuildFrom, TypeOK, Tables, Phases
<1>6. ASSUME NEW exits \in Exits, StepOutBegin(exits)
      PROVE  TypeOK'
  BY <1>6 DEF StepOutBegin, TypeOK, tables, Phases
<1>7. CASE ClearAllUnlink
  <2>1. pool[cursor].next \in Nodes \cup {NULL}
    BY <1>7 DEF ClearAllUnlink, TypeOK, NodeRecord
  <2> QED BY <1>7, <2>1 DEF ClearAllUnlink, TypeOK, tables
<1>8. CASE ClearAllWipe
  <2>1. TablesInOrder \in Seq(Tables)
    <3>1. fileOrder \in Seq(Tables)
      BY DEF TypeOK, Tables
    <3> QED BY <3>1 DEF TablesInOrder, Tables
  <2> QED BY <1>8, <2>1, FreeNodeType DEF ClearAllWipe, TypeOK, tables, Phases
<1>9. CASE NextTable
  <2>1. Head(tablesLeft) \in Tables /\ Tail(tablesLeft) \in Seq(Tables)
    BY <1>9 DEF NextTable, TypeOK
  <2> QED BY <1>9, <2>1, AddressesType DEF NextTable, TypeOK, tables
<1>10. CASE TryArm
  <2>1. Head(todo) \in Addr /\ Head(todo) \in Nat /\ Tail(todo) \in Seq(Addr)
    <3>1. todo \in Seq(Addr) /\ todo # <<>>
      BY <1>10 DEF TryArm, TryArmUpTo, TypeOK
    <3>2. Head(todo) \in Addr /\ Tail(todo) \in Seq(Addr)
      BY <3>1, HeadTailProperties
    <3> QED BY <3>2
  <2>2. CASE UNCHANGED <<pool, head, tail, list, dll, armed>>
    BY <1>10, <2>1, <2>2 DEF TryArm, TryArmUpTo, TypeOK, tables
  <2>3. ASSUME Len(armed) < MaxUserBreakpoints, Alloc # NULL, ArmNode(Alloc, Head(todo))
        PROVE  TypeOK'
    <3>1. Alloc \in Nodes
      BY <2>3, AllocFree
    <3>2. Len(armed) + 1 \in 0 .. TempNumber
      <4>1. Len(armed) \in Nat /\ TempNumber \in Nat
        BY DEF TypeOK, TempNumber
      <4> QED BY <2>3, <4>1
    <3>3. pool' \in [Nodes -> NodeRecord]
      <4>1. tail \in Nodes \cup {NULL} /\ pool \in [Nodes -> NodeRecord]
        BY DEF TypeOK
      <4>2. [adr |-> Head(todo), number |-> Len(armed) + 1, next |-> NULL, prev |-> tail] \in NodeRecord
        BY <2>1, <3>2, <4>1 DEF NodeRecord
      <4>3. \A n \in Nodes : [pool[n] EXCEPT !.next = Alloc] \in NodeRecord
        BY <3>1, <4>1 DEF NodeRecord
      <4> QED BY <2>3, <4>1, <4>2, <4>3 DEF ArmNode, LinkAtTail
    <3>4. list' \in Seq(Nodes) /\ armed' \in Seq(Addr)
      BY <2>1, <2>3, <3>1 DEF ArmNode, LinkAtTail, TypeOK
    <3>5. dll' \subseteq Nodes \X Nat /\ head' \in Nodes \cup {NULL} /\ tail' \in Nodes \cup {NULL}
      BY <2>1, <2>3, <3>1 DEF ArmNode, LinkAtTail, TypeOK
    <3> QED BY <1>10, <2>1, <3>3, <3>4, <3>5 DEF TryArm, TryArmUpTo, TypeOK, tables
  <2> QED
    <3>1. Len(armed) \in Nat
      BY DEF TypeOK
    <3> QED BY <1>10, <2>2, <2>3, <3>1 DEF TryArm, TryArmUpTo
<1>11. CASE Reply
  <2>1. ToSet(Addresses(caller)) \subseteq Addr
    <3>1. Addresses(caller) \in Seq(Addr)
      BY AddressesType DEF TypeOK
    <3> QED BY <3>1 DEF ToSet
  <2>2. told' \in [Tables -> SUBSET Addr]
    BY <1>11, <2>1 DEF Reply, TypeOK
  <2> QED BY <1>11, <2>2 DEF Reply, TypeOK, tables, Phases
<1>12. CASE AddTempBreakpoint
  <2>1. Head(todo) \in Addr /\ Head(todo) \in Nat /\ Tail(todo) \in Seq(Addr)
    <3>1. todo \in Seq(Addr) /\ todo # <<>>
      BY <1>12 DEF AddTempBreakpoint, TypeOK
    <3>2. Head(todo) \in Addr /\ Tail(todo) \in Seq(Addr)
      BY <3>1, HeadTailProperties
    <3> QED BY <3>2
  <2>2. CASE UNCHANGED <<pool, head, list, dll, temps>>
    BY <1>12, <2>1, <2>2 DEF AddTempBreakpoint, TypeOK, tables
  <2>3. ASSUME Alloc # NULL, LinkTemp(Alloc, Head(todo))
        PROVE  TypeOK'
    <3>1. Alloc \in Nodes
      BY <2>3, AllocFree
    <3>2. TempNumber \in 0 .. TempNumber
      BY DEF TempNumber
    <3>3. pool' \in [Nodes -> NodeRecord]
      <4>1. head \in Nodes \cup {NULL} /\ pool \in [Nodes -> NodeRecord]
        BY DEF TypeOK
      <4>2. [adr |-> Head(todo), number |-> TempNumber, next |-> head, prev |-> NULL] \in NodeRecord
        BY <2>1, <3>2, <4>1 DEF NodeRecord
      <4>3. \A n \in Nodes : [pool[n] EXCEPT !.prev = Alloc] \in NodeRecord
        BY <3>1, <4>1 DEF NodeRecord
      <4> QED BY <2>3, <4>1, <4>2, <4>3 DEF LinkTemp
    <3>4. list' \in Seq(Nodes) /\ temps' \in Seq(Nodes)
      BY <2>3, <3>1, ConcatProperties DEF LinkTemp, TypeOK
    <3>5. dll' \subseteq Nodes \X Nat /\ head' \in Nodes \cup {NULL}
      BY <2>1, <2>3, <3>1 DEF LinkTemp, TypeOK
    <3> QED BY <1>12, <2>1, <3>3, <3>4, <3>5 DEF AddTempBreakpoint, TypeOK, tables
  <2> QED BY <1>12, <2>2, <2>3 DEF AddTempBreakpoint
<1>13. CASE StepOutRun
  BY <1>13 DEF StepOutRun, TypeOK, tables, Phases
<1>14. CASE RemoveTempBreakpoint
  <2>1. Head(temps) \in Nodes /\ Tail(temps) \in Seq(Nodes)
    BY <1>14 DEF RemoveTempBreakpoint, TypeOK
  <2>2. /\ pool[Head(temps)].next \in Nodes \cup {NULL}
        /\ pool[Head(temps)].prev \in Nodes \cup {NULL}
    BY <2>1 DEF TypeOK, NodeRecord
  <2>0. Unlink(Head(temps))
    BY <1>14 DEF RemoveTempBreakpoint
  <2>3. pool' = Unlinked(pool, Head(temps))
    BY <2>0, Zenon DEF Unlink, Unlinked
  <2>4. pool' \in [Nodes -> NodeRecord]
    <3>1. ASSUME NEW n \in Nodes PROVE Unlinked(pool, Head(temps))[n] \in NodeRecord
      <4>1. pool[n] \in NodeRecord
        BY DEF TypeOK
      <4> QED BY <2>2, <4>1, FreeNodeType DEF Unlinked, NodeRecord
    <3>2. Unlinked(pool, Head(temps)) = [n \in Nodes |-> Unlinked(pool, Head(temps))[n]]
      BY DEF Unlinked
    <3> QED BY <2>3, <3>1, <3>2
  <2>5. list' \in Seq(Nodes)
    BY <2>0, RemoveFirstType, Zenon DEF Unlink, TypeOK
  <2>6. dll' \subseteq Nodes \X Nat /\ head' \in Nodes \cup {NULL}
    <3>1. /\ dll' = dll \ {<<Head(temps), pool[Head(temps)].adr>>}
          /\ head' = head \/ head' = pool[Head(temps)].next
      BY <2>0, Zenon DEF Unlink
    <3> QED BY <2>2, <3>1 DEF TypeOK
  <2> QED BY <1>14, <2>1, <2>4, <2>5, <2>6 DEF RemoveTempBreakpoint, TypeOK, tables
<1>15. CASE StepOutDone
  BY <1>15 DEF StepOutDone, TypeOK, tables, Phases
<1>16. CASE UNCHANGED vars
  BY <1>16 DEF vars, TypeOK
<1> QED
  BY <1>1, <1>2, <1>3, <1>4, <1>5, <1>6, <1>7, <1>8, <1>9, <1>10, <1>11, <1>12,
     <1>13, <1>14, <1>15, <1>16 DEF Next, HandlerStep

\* Whatever the constants, every variable of the breakpoint manager has its
\* type: in particular no pointer ever leaves the pool, m_pool[kMaxBreakpoints].
THEOREM TypeCorrect == Spec => []TypeOK
BY TypeInit, TypeStep, PTL DEF Spec

-----------------------------------------------------------------------------
\* What the three operations do to the state they share.

\* Facts about the list that hold wherever it is well formed.
LEMMA ListFacts ==
  ASSUME TypeOK, ListRepresented
  PROVE  /\ Len(list) \in Nat
         /\ DOMAIN list = 1 .. Len(list)
         /\ ToSet(list) \subseteq Nodes
         /\ \A i \in DOMAIN list : list[i] \in ToSet(list)
         /\ \A i, j \in DOMAIN list : i # j => list[i] # list[j]
         /\ NULL \notin Nodes
<1>1. list \in Seq(Nodes)
  BY DEF TypeOK
<1>2. Len(list) \in Nat /\ DOMAIN list = 1 .. Len(list) /\ \A i \in 1 .. Len(list) : list[i] \in Nodes
  BY <1>1
<1>3. \A i, j \in DOMAIN list : i # j => list[i] # list[j]
  BY DEF ListRepresented, Represents
<1>4. NULL \notin Nodes
  BY DEF Nodes, NULL
<1> QED BY <1>2, <1>3, <1>4 DEF ToSet

\* Arming a free node appends it and disturbs no other.
LEMMA ArmNodeEffect ==
  ASSUME TypeOK, ListRepresented, LoopInv, phase = "arm",
         Len(armed) < MaxUserBreakpoints,
         NEW bp \in Nodes, IsFree(bp), NEW a \in Nat, ArmNode(bp, a)
  PROVE  /\ ListRepresented'
         /\ bp \notin ToSet(list)
         /\ ToSet(list') = ToSet(list) \cup {bp}
         /\ \A n \in ToSet(list) : /\ pool'[n].adr = pool[n].adr
                                   /\ pool'[n].number = pool[n].number
         /\ pool'[bp].adr = a /\ pool'[bp].number = Len(armed) + 1
         /\ Len(list') = Len(list) + 1
         /\ \A i \in 1 .. Len(list) : list'[i] = list[i]
         /\ list'[Len(list) + 1] = bp
<1> USE ConstantsAssumption
<1>1. /\ pool \in [Nodes -> NodeRecord]
      /\ head \in Nodes \cup {NULL}
      /\ list \in Seq(Nodes)
      /\ Represents(pool, head, list)
  BY DEF TypeOK, ListRepresented
<1>2. pool[bp].prev = NULL /\ bp # head
  BY DEF IsFree
<1>3. \A i \in DOMAIN list : list[i] # bp
  BY <1>1, <1>2, FreeNodeNotLinked, Zenon
<1>4. tail = IF list = <<>> THEN NULL ELSE list[Len(list)]
  BY DEF LoopInv
<1>5. Len(armed) + 1 \in 0 .. TempNumber
  <2>1. Len(armed) \in Nat /\ TempNumber \in Nat
    BY DEF TypeOK, TempNumber
  <2> QED BY <2>1
<1>6. /\ pool' = [n \in Nodes |->
                    IF n = bp THEN [adr |-> a, number |-> Len(armed) + 1,
                                    next |-> NULL, prev |-> tail]
                    ELSE IF n = tail THEN [pool[n] EXCEPT !.next = bp]
                    ELSE pool[n]]
      /\ head' = IF head = NULL THEN bp ELSE head
      /\ list' = Append(list, bp)
  BY DEF ArmNode, LinkAtTail
<1>7. ListRepresented'
  <2>1. pool' = Appended(pool, tail, bp, a, Len(armed) + 1)
    BY <1>6, Zenon DEF Appended
  <2>2. Represents(Appended(pool, tail, bp, a, Len(armed) + 1),
                   IF head = NULL THEN bp ELSE head, Append(list, bp))
    BY <1>1, <1>3, <1>4, <1>5, AppendRepresents, Zenon
  <2> QED BY <2>1, <2>2, <1>6 DEF ListRepresented
<1>8. /\ list' \in Seq(Nodes)
      /\ Len(list') = Len(list) + 1
      /\ \A i \in 1 .. Len(list) : list'[i] = list[i]
      /\ list'[Len(list) + 1] = bp
  BY <1>1, <1>6, AppendProperties
<1>9. ToSet(list') = ToSet(list) \cup {bp}
  <2>1. DOMAIN list' = 1 .. Len(list) + 1 /\ DOMAIN list = 1 .. Len(list) /\ Len(list) \in Nat
    BY <1>1, <1>8
  <2>2. DOMAIN list' = DOMAIN list \cup {Len(list) + 1}
    BY <2>1
  <2> QED BY <1>8, <2>1, <2>2 DEF ToSet
<1>10. bp \notin ToSet(list) /\ ToSet(list) \subseteq Nodes
  BY <1>1, <1>3 DEF ToSet
<1>11. ASSUME NEW n \in ToSet(list)
       PROVE  pool'[n].adr = pool[n].adr /\ pool'[n].number = pool[n].number
  <2>1. n \in Nodes /\ n # bp /\ pool[n] \in NodeRecord
    BY <1>1, <1>10
  <2>2. pool'[n] = pool[n] \/ pool'[n] = [pool[n] EXCEPT !.next = bp]
    BY <2>1, <1>6, Zenon
  <2> QED BY <2>1, <2>2 DEF NodeRecord
<1>12. pool'[bp].adr = a /\ pool'[bp].number = Len(armed) + 1
  BY <1>6
<1> QED BY <1>7, <1>8, <1>9, <1>10, <1>11, <1>12

\* Linking a temporary breakpoint puts a free node in front and disturbs no other.
LEMMA LinkTempEffect ==
  ASSUME TypeOK, ListRepresented,
         NEW bp \in Nodes, IsFree(bp), NEW a \in Nat, LinkTemp(bp, a)
  PROVE  /\ ListRepresented'
         /\ bp \notin ToSet(list)
         /\ ToSet(list') = ToSet(list) \cup {bp}
         /\ \A n \in ToSet(list) : /\ pool'[n].adr = pool[n].adr
                                   /\ pool'[n].number = pool[n].number
         /\ pool'[bp].adr = a /\ pool'[bp].number = TempNumber
<1>1. /\ pool \in [Nodes -> NodeRecord]
      /\ head \in Nodes \cup {NULL}
      /\ list \in Seq(Nodes)
      /\ Represents(pool, head, list)
  BY DEF TypeOK, ListRepresented
<1>2. pool[bp].prev = NULL /\ bp # head
  BY DEF IsFree
<1>3. \A i \in DOMAIN list : list[i] # bp
  BY <1>1, <1>2, FreeNodeNotLinked, Zenon
<1>4. TempNumber \in 0 .. TempNumber
  BY DEF TempNumber
<1>5. /\ pool' = [n \in Nodes |->
                    IF n = bp THEN [adr |-> a, number |-> TempNumber,
                                    next |-> head, prev |-> NULL]
                    ELSE IF n = head THEN [pool[n] EXCEPT !.prev = bp]
                    ELSE pool[n]]
      /\ head' = bp
      /\ list' = <<bp>> \o list
  BY DEF LinkTemp
<1>6. ListRepresented'
  <2>1. pool' = Prepended(pool, head, bp, a, TempNumber)
    BY <1>5, Zenon DEF Prepended
  <2>2. Represents(Prepended(pool, head, bp, a, TempNumber), bp, <<bp>> \o list)
    BY <1>1, <1>3, <1>4, PrependRepresents, Zenon
  <2> QED BY <2>1, <2>2, <1>5 DEF ListRepresented
<1>7. ToSet(list') = ToSet(list) \cup {bp}
  <2>1. Len(list) \in Nat /\ DOMAIN list = 1 .. Len(list)
    BY <1>1
  <2>2. <<bp>> \in Seq(Nodes) /\ Len(<<bp>>) = 1 /\ <<bp>>[1] = bp
    OBVIOUS
  <2>3. /\ list' \in Seq(Nodes)
        /\ Len(list') = 1 + Len(list)
        /\ \A i \in 1 .. 1 + Len(list) : list'[i] = IF i <= 1 THEN <<bp>>[i] ELSE list[i - 1]
    BY <1>1, <1>5, <2>2, ConcatProperties
  <2>4. DOMAIN list' = 1 .. 1 + Len(list)
    BY <2>3
  <2>5. list'[1] = bp /\ \A i \in 1 .. Len(list) : list'[i + 1] = list[i]
    <3>1. list'[1] = bp
      BY <2>1, <2>2, <2>3
    <3>2. ASSUME NEW i \in 1 .. Len(list) PROVE list'[i + 1] = list[i]
      <4>1. i + 1 \in 1 .. 1 + Len(list) /\ ~ (i + 1 <= 1) /\ (i + 1) - 1 = i
        BY <2>1
      <4> QED BY <2>3, <4>1
    <3> QED BY <3>1, <3>2
  <2>6. ASSUME NEW i \in DOMAIN list' PROVE i = 1 \/ (i - 1 \in 1 .. Len(list) /\ i = (i - 1) + 1)
    BY <2>1, <2>4
  <2>7. \A i \in 1 .. Len(list) : i + 1 \in DOMAIN list'
    BY <2>1, <2>4
  <2>8. 1 \in DOMAIN list'
    BY <2>1, <2>4
  <2>9. ToSet(list') \subseteq ToSet(list) \cup {bp}
    BY <2>1, <2>5, <2>6 DEF ToSet
  <2>10. ToSet(list) \cup {bp} \subseteq ToSet(list')
    BY <2>1, <2>5, <2>7, <2>8 DEF ToSet
  <2> QED BY <2>9, <2>10
<1>8. bp \notin ToSet(list) /\ ToSet(list) \subseteq Nodes
  BY <1>1, <1>3 DEF ToSet
<1>9. ASSUME NEW n \in ToSet(list)
      PROVE  pool'[n].adr = pool[n].adr /\ pool'[n].number = pool[n].number
  <2>1. n \in Nodes /\ n # bp /\ pool[n] \in NodeRecord
    BY <1>1, <1>8
  <2>2. pool'[n] = pool[n] \/ pool'[n] = [pool[n] EXCEPT !.prev = bp]
    BY <2>1, <1>5, Zenon
  <2> QED BY <2>1, <2>2 DEF NodeRecord
<1>10. pool'[bp].adr = a /\ pool'[bp].number = TempNumber
  BY <1>5
<1> QED BY <1>6, <1>7, <1>8, <1>9, <1>10

\* Unlinking a linked node removes it and disturbs no other.
LEMMA UnlinkEffect ==
  ASSUME TypeOK, ListRepresented, NEW bp \in ToSet(list), Unlink(bp)
  PROVE  /\ ListRepresented'
         /\ ToSet(list') = ToSet(list) \ {bp}
         /\ \A n \in ToSet(list') : /\ pool'[n].adr = pool[n].adr
                                    /\ pool'[n].number = pool[n].number
<1>1. /\ pool \in [Nodes -> NodeRecord]
      /\ head \in Nodes \cup {NULL}
      /\ list \in Seq(Nodes)
      /\ Represents(pool, head, list)
  BY DEF TypeOK, ListRepresented
<1>2. /\ Len(list) \in Nat
      /\ DOMAIN list = 1 .. Len(list)
      /\ ToSet(list) \subseteq Nodes
      /\ \A i, j \in 1 .. Len(list) : i # j => list[i] # list[j]
  BY ListFacts
<1>3. PICK k \in 1 .. Len(list) : bp = list[k]
  BY <1>2 DEF ToSet
<1>4. /\ pool' = Unlinked(pool, bp)
      /\ head' = IF head = bp THEN pool[bp].next ELSE head
      /\ list' = RemoveFirst(list, bp)
  BY Zenon DEF Unlink, Unlinked
<1>5. Represents(Unlinked(pool, bp), IF head = bp THEN pool[bp].next ELSE head,
                 RemoveFirst(list, bp))
  <2>1. Represents(Unlinked(pool, list[k]), IF head = list[k] THEN pool[list[k]].next ELSE head,
                   RemoveFirst(list, list[k]))
    BY <1>1, RemoveRepresents, Zenon
  <2> QED BY <2>1, <1>3
<1>6. ListRepresented'
  BY <1>4, <1>5, Zenon DEF ListRepresented
<1>7. ToSet(list') = ToSet(list) \ {bp}
  <2>1. /\ RemoveFirst(list, list[k]) \in Seq(Nodes)
        /\ Len(RemoveFirst(list, list[k])) = Len(list) - 1
        /\ \A i \in 1 .. Len(list) - 1 :
             RemoveFirst(list, list[k])[i] = IF i < k THEN list[i] ELSE list[i + 1]
    BY <1>1, <1>2, RemoveFirstProperties, Zenon
  <2>2. /\ DOMAIN list' = 1 .. Len(list) - 1
        /\ \A i \in 1 .. Len(list) - 1 : list'[i] = IF i < k THEN list[i] ELSE list[i + 1]
    BY <2>1, <1>3, <1>4
  <2>3. ASSUME NEW i \in DOMAIN list' PROVE list'[i] \in ToSet(list) \ {bp}
    <3>1. i \in 1 .. Len(list) - 1
      BY <2>2
    <3> DEFINE ii == IF i < k THEN i ELSE i + 1
    <3>2. ii \in 1 .. Len(list) /\ ii # k /\ list'[i] = list[ii]
      BY <1>2, <2>2, <3>1
    <3> HIDE DEF ii
    <3> QED BY <1>2, <1>3, <3>2 DEF ToSet
  <2>4. ASSUME NEW i \in 1 .. Len(list), i # k PROVE list[i] \in ToSet(list')
    <3>1. CASE i < k
      <4>1. i \in 1 .. Len(list) - 1 /\ list'[i] = list[i]
        BY <1>2, <2>2, <3>1
      <4> QED BY <2>2, <4>1 DEF ToSet
    <3>2. CASE i > k
      <4>1. i - 1 \in 1 .. Len(list) - 1 /\ ~ (i - 1 < k) /\ (i - 1) + 1 = i
        BY <1>2, <3>2
      <4>2. list'[i - 1] = list[i]
        BY <2>2, <4>1
      <4> QED BY <2>2, <4>1, <4>2 DEF ToSet
    <3> QED BY <2>4, <3>1, <3>2
  <2>5. ToSet(list') \subseteq ToSet(list) \ {bp}
    BY <2>3 DEF ToSet
  <2>6. ToSet(list) \ {bp} \subseteq ToSet(list')
    BY <1>2, <1>3, <2>4 DEF ToSet
  <2> QED BY <2>5, <2>6
<1>8. \A n \in ToSet(list') : n \in Nodes /\ n # bp
  BY <1>2, <1>7
<1>9. \A n \in ToSet(list') : /\ pool'[n].adr = pool[n].adr
                              /\ pool'[n].number = pool[n].number
  <2> SUFFICES ASSUME NEW n \in ToSet(list')
               PROVE  pool'[n].adr = pool[n].adr /\ pool'[n].number = pool[n].number
    OBVIOUS
  <2>1. n \in Nodes /\ n # bp
    BY <1>8
  <2>2. /\ Unlinked(pool, bp)[n].adr = pool[n].adr
        /\ Unlinked(pool, bp)[n].number = pool[n].number
    BY <1>1, <2>1, UnlinkedSame, Zenon
  <2> QED BY <1>4, <2>2
<1> QED BY <1>6, <1>7, <1>9

-----------------------------------------------------------------------------
\* The inductive invariant.  DllMirror and UserLimit hold only because the
\* list is well formed and because the loops' bookkeeping agrees with it;
\* ListRepresented holds only because tail is the last node while
\* RebuildDllBreakpoints arms, and because the nodes HandleStepOut removes are
\* linked.
IInv == TypeOK /\ ListRepresented /\ LoopInv /\ DllMirror /\ UserLimit

\* What the DLL should hold, and the hardware limit, said of the nodes linked
\* instead of the places of the list.
Linked == {<<n, pool[n].adr>> : n \in ToSet(list)}

NodeLimit ==
  /\ \A n \in ToSet(list) : pool[n].number \in (1 .. MaxUserBreakpoints) \cup {TempNumber}
  /\ \A m, n \in ToSet(list) :
       \/ m = n
       \/ pool[m].number = TempNumber
       \/ pool[n].number = TempNumber
       \/ pool[m].number # pool[n].number /\ pool[m].adr # pool[n].adr

\* Outside ClearAll, DllMirror compares the DLL with all linked nodes.
LEMMA MirrorOfNodes ==
  /\ phase # "clear" =>
       (DllMirror <=> dll \subseteq Linked /\ (session = "debug" => dll = Linked))
  /\ phase' # "clear" =>
       (DllMirror' <=> dll' \subseteq Linked' /\ (session' = "debug" => dll' = Linked'))
<1>1. {<<list[i], pool[list[i]].adr>> : i \in DOMAIN list} = Linked
  BY Zenon DEF Linked, ToSet
<1>2. {<<list'[i], pool'[list'[i]].adr>> : i \in DOMAIN list'} = Linked'
  BY Zenon DEF Linked, ToSet
<1>3. phase # "clear" => NotCleared = DOMAIN list
  BY DEF NotCleared
<1>4. phase' # "clear" => NotCleared' = DOMAIN list'
  BY DEF NotCleared
<1> QED BY <1>1, <1>2, <1>3, <1>4, Zenon DEF DllMirror

\* No node is linked twice, so UserLimit is a fact about the nodes.
LEMMA LimitOfNodes ==
  /\ ListRepresented => (UserLimit <=> NodeLimit)
  /\ ListRepresented' => (UserLimit' <=> NodeLimit')
<1>1. ListRepresented => \A i, j \in DOMAIN list : i # j => list[i] # list[j]
  BY Zenon DEF ListRepresented, Represents
<1>2. ListRepresented' => \A i, j \in DOMAIN list' : i # j => list'[i] # list'[j]
  BY Zenon DEF ListRepresented, Represents
<1>3. ASSUME ListRepresented PROVE UserLimit <=> NodeLimit
  BY <1>1, <1>3, Zenon DEF UserLimit, NodeLimit, ToSet
<1>4. ASSUME ListRepresented' PROVE UserLimit' <=> NodeLimit'
  BY <1>2, <1>4, Zenon DEF UserLimit, NodeLimit, ToSet
<1> QED BY <1>3, <1>4

\* The empty list is represented by a wiped pool.
LEMMA EmptyRepresented == Represents([n \in Nodes |-> FreeNode], NULL, <<>>)
BY DEF Represents

LEMMA InvInit == Init => IInv
<1> SUFFICES ASSUME Init PROVE IInv
  OBVIOUS
<1>1. TypeOK
  BY TypeInit
<1>2. ListRepresented
  BY EmptyRepresented DEF Init, ListRepresented
<1>3. LoopInv
  BY DEF Init, LoopInv
<1>4. DllMirror
  BY DEF Init, DllMirror, NotCleared
<1>5. UserLimit
  BY DEF Init, UserLimit
<1> QED BY <1>1, <1>2, <1>3, <1>4, <1>5 DEF IInv

\* A step that leaves the pool and the list alone.
LEMMA PoolUntouched ==
  ASSUME IInv, UNCHANGED <<pool, head, list>>
  PROVE  /\ ListRepresented'
         /\ UserLimit'
         /\ Linked' = Linked
<1>1. pool' = pool /\ head' = head /\ list' = list
  OBVIOUS
<1>2. ListRepresented'
  BY <1>1 DEF IInv, ListRepresented
<1>3. UserLimit'
  BY <1>1 DEF IInv, UserLimit
<1>4. Linked' = Linked
  BY <1>1 DEF Linked
<1> QED BY <1>2, <1>3, <1>4

\* A step that leaves the pool, the list, the DLL and the session alone and
\* stays outside ClearAll.
LEMMA MirrorUntouched ==
  ASSUME IInv, UNCHANGED <<pool, head, list, dll, session>>,
         phase # "clear", phase' # "clear"
  PROVE  ListRepresented' /\ UserLimit' /\ DllMirror'
<1>1. ListRepresented' /\ UserLimit' /\ Linked' = Linked
  BY PoolUntouched
<1>2. DllMirror
  BY DEF IInv
<1> QED BY <1>1, <1>2, MirrorOfNodes

\* ClearAll starts with the whole list before it.
LEMMA StartRebuildStep ==
  ASSUME IInv, phase = "idle", session # "none",
         NEW table, NEW addresses, StartRebuild(table, addresses)
  PROVE  ListRepresented' /\ LoopInv' /\ DllMirror' /\ UserLimit'
<1>1. /\ UNCHANGED <<pool, head, list, dll, session>>
      /\ phase' = "clear"
      /\ cursor' = head
  BY DEF StartRebuild, RebuildFrom
<1>2. ListRepresented' /\ UserLimit'
  BY <1>1, PoolUntouched
<1>3. /\ Len(list) \in Nat
      /\ DOMAIN list = 1 .. Len(list)
  BY ListFacts DEF IInv
<1>4. head = IF list = <<>> THEN NULL ELSE list[1]
  BY DEF IInv, ListRepresented, Represents
<1>5. list # <<>> => 1 \in DOMAIN list
  BY <1>3 DEF IInv, TypeOK
<1>6. LoopInv'
  BY <1>1, <1>4, <1>5 DEF LoopInv
<1>7. DllMirror'
  <2>1. NotCleared' = DOMAIN list
    <3>1. NotCleared' = {i \in DOMAIN list : \E j \in DOMAIN list : j <= i /\ list[j] = head}
      BY <1>1 DEF NotCleared
    <3>2. ASSUME NEW i \in DOMAIN list PROVE \E j \in DOMAIN list : j <= i /\ list[j] = head
      <4>1. 1 \in DOMAIN list /\ 1 <= i
        BY <1>3
      <4>2. list # <<>>
        BY <1>3
      <4> QED BY <1>4, <4>1, <4>2
    <3> QED BY <3>1, <3>2
  <2>2. NotCleared = DOMAIN list
    BY DEF NotCleared
  <2> QED BY <1>1, <2>1, <2>2 DEF IInv, DllMirror
<1> QED BY <1>2, <1>6, <1>7

\* ClearAll tells the DLL of one node and goes on to the next.
LEMMA ClearAllUnlinkStep ==
  ASSUME IInv, ClearAllUnlink
  PROVE  ListRepresented' /\ LoopInv' /\ DllMirror' /\ UserLimit'
<1>1. /\ UNCHANGED <<pool, head, list, session, phase>>
      /\ phase = "clear"
      /\ cursor # NULL
      /\ cursor' = pool[cursor].next
      /\ dll' = dll \ {<<cursor, pool[cursor].adr>>}
  BY DEF ClearAllUnlink
<1>2. ListRepresented' /\ UserLimit'
  BY <1>1, PoolUntouched
<1>3. /\ Len(list) \in Nat
      /\ DOMAIN list = 1 .. Len(list)
      /\ ToSet(list) \subseteq Nodes
      /\ \A i \in DOMAIN list : list[i] \in ToSet(list)
      /\ \A i, j \in DOMAIN list : i # j => list[i] # list[j]
      /\ NULL \notin Nodes
  BY ListFacts DEF IInv
<1>4. PICK k \in DOMAIN list : list[k] = cursor
  BY <1>1 DEF IInv, LoopInv
<1>5. cursor' = IF k = Len(list) THEN NULL ELSE list[k + 1]
  BY <1>1, <1>4 DEF IInv, ListRepresented, Represents
<1>6. k # Len(list) => k + 1 \in DOMAIN list
  BY <1>3
<1>7. LoopInv'
  <2>1. cursor' = NULL \/ \E i \in DOMAIN list : list[i] = cursor'
    BY <1>5, <1>6
  <2>2. session # "none"
    BY <1>1 DEF IInv, LoopInv
  <2> QED BY <1>1, <2>1, <2>2 DEF LoopInv
<1>8. NotCleared = {i \in DOMAIN list : k <= i}
  BY <1>1, <1>3, <1>4 DEF NotCleared
<1>9. NotCleared' = {i \in DOMAIN list : k + 1 <= i}
  <2>1. NotCleared' = {i \in DOMAIN list : \E j \in DOMAIN list : j <= i /\ list[j] = cursor'}
    BY <1>1 DEF NotCleared
  <2>2. CASE k = Len(list)
    <3>1. \A j \in DOMAIN list : list[j] # cursor'
      BY <1>3, <1>5, <2>2
    <3>2. \A i \in DOMAIN list : ~ (k + 1 <= i)
      BY <1>3, <2>2
    <3> QED BY <2>1, <3>1, <3>2
  <2>3. CASE k # Len(list)
    <3>1. \A j \in DOMAIN list : list[j] = cursor' <=> j = k + 1
      BY <1>3, <1>5, <1>6, <2>3
    <3> QED BY <1>6, <2>1, <2>3, <3>1
  <2> QED BY <2>2, <2>3
<1>10. DllMirror'
  <2> DEFINE F(I) == {<<list[i], pool[list[i]].adr>> : i \in I}
  <2>1. dll \subseteq F(NotCleared) /\ (session = "debug" => dll = F(NotCleared))
    BY DEF IInv, DllMirror
  <2>2. F(NotCleared') = F(NotCleared) \ {<<cursor, pool[cursor].adr>>}
    <3>1. NotCleared = NotCleared' \cup {k}
      BY <1>3, <1>8, <1>9
    <3>2. \A i \in NotCleared' : list[i] # list[k]
      BY <1>3, <1>9
    <3> QED BY <1>4, <3>1, <3>2
  <2>3. dll' \subseteq F(NotCleared') /\ (session' = "debug" => dll' = F(NotCleared'))
    BY <1>1, <2>1, <2>2
  <2> QED BY <1>1, <2>3 DEF DllMirror
<1> QED BY <1>2, <1>7, <1>10

\* A wiped pool and an empty list, with a DLL that holds nothing.
LEMMA WipedStep ==
  ASSUME pool' = [n \in Nodes |-> FreeNode], head' = NULL, list' = <<>>,
         dll' = {}, phase' # "clear"
  PROVE  ListRepresented' /\ DllMirror' /\ UserLimit'
<1>1. ListRepresented'
  BY EmptyRepresented DEF ListRepresented
<1>2. ToSet(list') = {}
  BY DEF ToSet
<1>3. DllMirror'
  BY <1>2, MirrorOfNodes DEF Linked
<1>4. UserLimit'
  BY DEF UserLimit
<1> QED BY <1>1, <1>3, <1>4

\* TryArm arms a node or does nothing.
LEMMA TryArmStep ==
  ASSUME IInv, TryArm
  PROVE  ListRepresented' /\ LoopInv' /\ DllMirror' /\ UserLimit'
<1>1. phase = "arm" /\ phase' = "arm" /\ session' = session /\ todo # <<>>
  BY DEF TryArm, TryArmUpTo
<1>2. session # "none"
  BY <1>1 DEF IInv, LoopInv
<1>3. CASE UNCHANGED <<pool, head, tail, list, dll, armed>>
  <2>1. ListRepresented' /\ UserLimit' /\ DllMirror'
    BY <1>1, <1>3, MirrorUntouched
  <2>2. LoopInv'
    BY <1>1, <1>2, <1>3 DEF IInv, LoopInv
  <2> QED BY <2>1, <2>2
<1>4. ASSUME Len(armed) < MaxUserBreakpoints, Head(todo) \notin ToSet(armed), Alloc # NULL,
             ArmNode(Alloc, Head(todo))
      PROVE  ListRepresented' /\ LoopInv' /\ DllMirror' /\ UserLimit'
  <2> DEFINE bp == Alloc
             a  == Head(todo)
  <2>1. bp \in Nodes /\ IsFree(bp)
    BY <1>4, AllocFree
  <2>2. a \in Addr /\ a \in Nat /\ todo \in Seq(Addr)
    <3>1. todo \in Seq(Addr)
      BY DEF IInv, TypeOK
    <3>2. Head(todo) \in Addr
      BY <1>1, <3>1, HeadTailProperties
    <3> QED BY <3>1, <3>2, ConstantsAssumption
  <2>3. ArmNode(bp, a)
    BY <1>4
  <2> HIDE DEF bp, a
  <2>4. /\ ListRepresented'
        /\ bp \notin ToSet(list)
        /\ ToSet(list') = ToSet(list) \cup {bp}
        /\ \A n \in ToSet(list) : /\ pool'[n].adr = pool[n].adr
                                  /\ pool'[n].number = pool[n].number
        /\ pool'[bp].adr = a /\ pool'[bp].number = Len(armed) + 1
        /\ Len(list') = Len(list) + 1
        /\ \A i \in 1 .. Len(list) : list'[i] = list[i]
        /\ list'[Len(list) + 1] = bp
    BY <1>1, <1>4, <2>1, <2>2, <2>3, ArmNodeEffect DEF IInv
  <2>5. /\ Len(list) = Len(armed)
        /\ \A i \in DOMAIN list : pool[list[i]].adr = armed[i] /\ pool[list[i]].number = i
        /\ \A i, j \in DOMAIN armed : i # j => armed[i] # armed[j]
    BY <1>1 DEF IInv, LoopInv
  <2>6. /\ Len(list) \in Nat
        /\ DOMAIN list = 1 .. Len(list)
        /\ \A i \in DOMAIN list : list[i] \in ToSet(list)
    BY ListFacts DEF IInv
  <2>7. list \in Seq(Nodes) /\ armed \in Seq(Addr) /\ list' \in Seq(Nodes)
    <3>1. TypeOK'
      BY TypeStep DEF IInv, Next, HandlerStep
    <3> QED BY <3>1 DEF IInv, TypeOK
  <2>8. /\ armed' = Append(armed, a)
        /\ tail' = bp
        /\ dll' = dll \cup {<<bp, a>>}
    BY <2>3 DEF ArmNode, LinkAtTail
  <2>9. /\ Len(armed') = Len(armed) + 1
        /\ \A i \in 1 .. Len(armed) : armed'[i] = armed[i]
        /\ armed'[Len(armed) + 1] = a
        /\ DOMAIN armed' = 1 .. Len(armed) + 1
        /\ DOMAIN armed = 1 .. Len(armed)
    BY <2>2, <2>7, <2>8, AppendProperties
  <2>10. DOMAIN list' = 1 .. Len(list) + 1
    BY <2>4, <2>7
  <2>11. \A i \in 1 .. Len(armed) : armed[i] # a
    BY <1>4, <2>9 DEF ToSet, a
  <2>12. LoopInv'
    <3>1. tail' = IF list' = <<>> THEN NULL ELSE list'[Len(list')]
      BY <2>4, <2>6, <2>8
    <3>2. Len(list') = Len(armed') /\ Len(armed') <= MaxUserBreakpoints
      BY <1>4, <2>4, <2>5, <2>6, <2>9, ConstantsAssumption
    <3>3. ASSUME NEW i \in DOMAIN list'
          PROVE  pool'[list'[i]].adr = armed'[i] /\ pool'[list'[i]].number = i
      <4>1. CASE i = Len(list) + 1
        BY <2>4, <2>5, <2>9, <4>1
      <4>2. CASE i \in 1 .. Len(list)
        <5>1. list'[i] = list[i] /\ list[i] \in ToSet(list) /\ armed'[i] = armed[i]
          BY <2>4, <2>5, <2>6, <2>9, <4>2
        <5> QED BY <2>4, <2>5, <2>6, <4>2, <5>1
      <4> QED BY <2>6, <2>10, <4>1, <4>2
    <3>4. \A i, j \in DOMAIN armed' : i # j => armed'[i] # armed'[j]
      <4>1. Len(armed) \in Nat
        BY <2>7
      <4>2. \A i \in DOMAIN armed' : i \in 1 .. Len(armed) \/ i = Len(armed) + 1
        BY <2>9, <4>1
      <4> QED BY <2>5, <2>9, <2>11, <4>2
    <3> QED BY <1>1, <1>2, <3>1, <3>2, <3>3, <3>4 DEF LoopInv
  <2>13. DllMirror'
    <3>1. Linked' = Linked \cup {<<bp, a>>}
      BY <2>4 DEF Linked
    <3>2. dll \subseteq Linked /\ (session = "debug" => dll = Linked)
      BY <1>1, MirrorOfNodes DEF IInv
    <3> QED BY <1>1, <2>8, <3>1, <3>2, MirrorOfNodes
  <2>14. UserLimit'
    <3>1. NodeLimit
      BY LimitOfNodes DEF IInv
    <3>2. Len(armed) + 1 \in 1 .. MaxUserBreakpoints
      BY <1>4, <2>7, ConstantsAssumption
    <3>3. ASSUME NEW n \in ToSet(list)
          PROVE  pool[n].number # Len(armed) + 1 /\ pool[n].adr # a
      <4>1. PICK i \in 1 .. Len(list) : n = list[i]
        BY <2>6 DEF ToSet
      <4> QED BY <2>5, <2>6, <2>11, <4>1
    <3>4. \A n \in ToSet(list') :
            pool'[n].number \in (1 .. MaxUserBreakpoints) \cup {TempNumber}
      BY <2>4, <3>1, <3>2 DEF NodeLimit
    <3>5. ASSUME NEW m \in ToSet(list'), NEW n \in ToSet(list'), m # n,
                 pool'[m].number # TempNumber, pool'[n].number # TempNumber
          PROVE  pool'[m].number # pool'[n].number /\ pool'[m].adr # pool'[n].adr
      <4>1. CASE m \in ToSet(list) /\ n \in ToSet(list)
        BY <2>4, <3>1, <3>5, <4>1 DEF NodeLimit
      <4>2. CASE m = bp \/ n = bp
        BY <2>4, <3>3, <3>5, <4>2
      <4> QED BY <2>4, <4>1, <4>2
    <3>6. NodeLimit'
      BY <3>4, <3>5 DEF NodeLimit
    <3> QED BY <2>4, <3>6, LimitOfNodes
  <2> QED BY <2>4, <2>12, <2>13, <2>14
<1>5. Len(armed) \in Nat /\ MaxUserBreakpoints \in Nat
  BY ConstantsAssumption DEF IInv, TypeOK
<1> QED BY <1>3, <1>4, <1>5 DEF TryArm, TryArmUpTo

\* AddTempBreakpoint links a node or does nothing.
LEMMA AddTempStep ==
  ASSUME IInv, AddTempBreakpoint
  PROVE  ListRepresented' /\ LoopInv' /\ DllMirror' /\ UserLimit'
<1>1. phase = "temp" /\ phase' = "temp" /\ session' = session /\ todo # <<>>
  BY DEF AddTempBreakpoint
<1>2. session # "none"
  BY <1>1 DEF IInv, LoopInv
<1>3. CASE UNCHANGED <<pool, head, list, dll, temps>>
  <2>1. ListRepresented' /\ UserLimit' /\ DllMirror'
    BY <1>1, <1>3, MirrorUntouched
  <2>2. LoopInv'
    BY <1>1, <1>2, <1>3 DEF IInv, LoopInv
  <2> QED BY <2>1, <2>2
<1>4. ASSUME Alloc # NULL, LinkTemp(Alloc, Head(todo))
      PROVE  ListRepresented' /\ LoopInv' /\ DllMirror' /\ UserLimit'
  <2> DEFINE bp == Alloc
             a  == Head(todo)
  <2>1. bp \in Nodes /\ IsFree(bp)
    BY <1>4, AllocFree
  <2>2. a \in Nat
    <3>1. todo \in Seq(Addr)
      BY DEF IInv, TypeOK
    <3>2. Head(todo) \in Addr
      BY <1>1, <3>1, HeadTailProperties
    <3> QED BY <3>2, ConstantsAssumption
  <2>3. LinkTemp(bp, a)
    BY <1>4
  <2> HIDE DEF bp, a
  <2>4. /\ ListRepresented'
        /\ bp \notin ToSet(list)
        /\ ToSet(list') = ToSet(list) \cup {bp}
        /\ \A n \in ToSet(list) : /\ pool'[n].adr = pool[n].adr
                                  /\ pool'[n].number = pool[n].number
        /\ pool'[bp].adr = a /\ pool'[bp].number = TempNumber
    BY <2>1, <2>2, <2>3, LinkTempEffect DEF IInv
  <2>5. temps' = Append(temps, bp) /\ dll' = dll \cup {<<bp, a>>}
    BY <2>3 DEF LinkTemp
  <2>6. temps \in Seq(Nodes)
    BY DEF IInv, TypeOK
  <2>7. LoopInv'
    <3>1. /\ Len(temps) \in Nat
          /\ DOMAIN temps = 1 .. Len(temps)
          /\ DOMAIN temps' = 1 .. Len(temps) + 1
          /\ \A i \in 1 .. Len(temps) : temps'[i] = temps[i]
          /\ temps'[Len(temps) + 1] = bp
      BY <2>1, <2>5, <2>6, AppendProperties
    <3>2. /\ \A i, j \in DOMAIN temps : i # j => temps[i] # temps[j]
          /\ \A i \in DOMAIN temps : temps[i] \in ToSet(list)
      BY <1>1 DEF IInv, LoopInv, ToSet
    <3>3. \A i \in DOMAIN temps' : i \in 1 .. Len(temps) \/ i = Len(temps) + 1
      BY <3>1
    <3>4. \A i, j \in DOMAIN temps' : i # j => temps'[i] # temps'[j]
      BY <2>4, <3>1, <3>2, <3>3
    <3>5. \A i \in DOMAIN temps' : temps'[i] \in ToSet(list')
      BY <2>4, <3>1, <3>2, <3>3
    <3>6. \A i \in DOMAIN temps' : \E j \in DOMAIN list' : list'[j] = temps'[i]
      BY <3>5 DEF ToSet
    <3> QED BY <1>1, <1>2, <3>4, <3>6 DEF LoopInv
  <2>8. DllMirror'
    <3>1. Linked' = Linked \cup {<<bp, a>>}
      BY <2>4 DEF Linked
    <3>2. dll \subseteq Linked /\ (session = "debug" => dll = Linked)
      BY <1>1, MirrorOfNodes DEF IInv
    <3> QED BY <1>1, <2>5, <3>1, <3>2, MirrorOfNodes
  <2>9. UserLimit'
    <3>1. NodeLimit
      BY LimitOfNodes DEF IInv
    <3>2. NodeLimit'
      BY <2>4, <3>1 DEF NodeLimit
    <3> QED BY <2>4, <3>2, LimitOfNodes
  <2> QED BY <2>4, <2>7, <2>8, <2>9
<1> QED BY <1>3, <1>4 DEF AddTempBreakpoint

\* RemoveTempBreakpoint unlinks the first of the nodes still to be removed.
LEMMA RemoveTempStep ==
  ASSUME IInv, RemoveTempBreakpoint
  PROVE  ListRepresented' /\ LoopInv' /\ DllMirror' /\ UserLimit'
<1> DEFINE bp == Head(temps)
<1>1. /\ phase = "untemp" /\ phase' = "untemp" /\ session' = session
      /\ temps # <<>>
      /\ temps' = Tail(temps)
      /\ Unlink(bp)
  BY DEF RemoveTempBreakpoint
<1>2. session # "none"
  BY <1>1 DEF IInv, LoopInv
<1>3. temps \in Seq(Nodes)
  BY DEF IInv, TypeOK
<1>4. /\ \A i, j \in DOMAIN temps : i # j => temps[i] # temps[j]
      /\ \A i \in DOMAIN temps : temps[i] \in ToSet(list)
  BY <1>1 DEF IInv, LoopInv, ToSet
<1>5. /\ Len(temps) \in Nat \ {0}
      /\ DOMAIN temps = 1 .. Len(temps)
      /\ bp = temps[1]
  BY <1>1, <1>3
<1>6. /\ DOMAIN temps' = 1 .. Len(temps) - 1
      /\ \A i \in 1 .. Len(temps) - 1 : temps'[i] = temps[i + 1]
  <2>1. /\ temps' \in Seq(Nodes)
        /\ Len(temps') = Len(temps) - 1
        /\ \A i \in 1 .. Len(temps') : temps'[i] = temps[i + 1]
    BY <1>1, <1>3, HeadTailProperties
  <2> QED BY <2>1
<1>7. bp \in ToSet(list)
  <2>1. 1 \in DOMAIN temps
    BY <1>5
  <2> QED BY <1>4, <1>5, <2>1
<1> HIDE DEF bp
<1>8. /\ ListRepresented'
      /\ ToSet(list') = ToSet(list) \ {bp}
      /\ \A n \in ToSet(list') : /\ pool'[n].adr = pool[n].adr
                                 /\ pool'[n].number = pool[n].number
  BY <1>1, <1>7, UnlinkEffect DEF IInv
<1>9. LoopInv'
  <2>1. ASSUME NEW i \in DOMAIN temps'
        PROVE  /\ i + 1 \in DOMAIN temps
               /\ temps'[i] = temps[i + 1]
               /\ temps[i + 1] # bp
    <3>1. i + 1 \in DOMAIN temps /\ 1 \in DOMAIN temps /\ i + 1 # 1 /\ temps'[i] = temps[i + 1]
      BY <1>5, <1>6
    <3> QED BY <1>4, <1>5, <3>1
  <2>2. \A i, j \in DOMAIN temps' : i # j => temps'[i] # temps'[j]
    <3>1. \A i, j \in DOMAIN temps' : i # j => i + 1 # j + 1
      BY <1>5, <1>6
    <3> QED BY <1>4, <2>1, <3>1
  <2>3. \A i \in DOMAIN temps' : temps'[i] \in ToSet(list')
    BY <1>4, <1>8, <2>1
  <2>4. \A i \in DOMAIN temps' : \E j \in DOMAIN list' : list'[j] = temps'[i]
    BY <2>3 DEF ToSet
  <2> QED BY <1>1, <1>2, <2>2, <2>4 DEF LoopInv
<1>10. DllMirror'
  <2>1. dll' = dll \ {<<bp, pool[bp].adr>>}
    BY <1>1, Zenon DEF Unlink
  <2>2. Linked' = Linked \ {<<bp, pool[bp].adr>>}
    BY <1>8 DEF Linked
  <2>3. dll \subseteq Linked /\ (session = "debug" => dll = Linked)
    BY <1>1, MirrorOfNodes DEF IInv
  <2> QED BY <1>1, <2>1, <2>2, <2>3, MirrorOfNodes
<1>11. UserLimit'
  <2>1. NodeLimit
    BY LimitOfNodes DEF IInv
  <2>2. NodeLimit'
    BY <1>8, <2>1 DEF NodeLimit
  <2> QED BY <1>8, <2>2, LimitOfNodes
<1> QED BY <1>8, <1>9, <1>10, <1>11

\* Every step keeps the inductive invariant.
LEMMA InvStep == IInv /\ [Next]_vars => IInv'
<1> SUFFICES ASSUME IInv, [Next]_vars PROVE IInv'
  OBVIOUS
<1>0. TypeOK'
  BY TypeStep DEF IInv
<1> SUFFICES ListRepresented' /\ LoopInv' /\ DllMirror' /\ UserLimit'
  BY <1>0 DEF IInv
<1>1. CASE InitDebugSession
  <2>1. ListRepresented' /\ DllMirror' /\ UserLimit'
    BY <1>1, WipedStep DEF InitDebugSession
  <2>2. LoopInv'
    BY <1>1 DEF InitDebugSession, LoopInv
  <2> QED BY <2>1, <2>2
<1>2. CASE InitFlashSession
  <2>1. /\ UNCHANGED <<pool, head, list, dll>>
        /\ phase = "idle" /\ phase' = "idle"
        /\ session = "none" /\ session' = "flash"
    BY <1>2 DEF InitFlashSession
  <2>2. ListRepresented' /\ UserLimit' /\ Linked' = Linked
    BY <2>1, PoolUntouched
  <2>3. dll = {}
    BY <2>1 DEF IInv, LoopInv
  <2>4. DllMirror'
    BY <2>1, <2>3, MirrorOfNodes
  <2>5. LoopInv'
    BY <2>1 DEF LoopInv
  <2> QED BY <2>2, <2>4, <2>5
<1>3. CASE UninitAgdiSession
  <2>1. /\ UNCHANGED <<pool, head, list>>
        /\ phase = "idle" /\ phase' = "idle"
        /\ session' = "none" /\ dll' = {}
    BY <1>3 DEF UninitAgdiSession
  <2>2. ListRepresented' /\ UserLimit'
    BY <2>1, PoolUntouched
  <2>3. DllMirror'
    BY <2>1, MirrorOfNodes
  <2>4. LoopInv'
    BY <2>1 DEF LoopInv
  <2> QED BY <2>2, <2>3, <2>4
<1>4. ASSUME NEW f \in Files, NEW addresses \in Requests, SetFileBreakpoints(f, addresses)
      PROVE  ListRepresented' /\ LoopInv' /\ DllMirror' /\ UserLimit'
  BY <1>4, StartRebuildStep DEF SetFileBreakpoints
<1>5. ASSUME NEW addresses \in Requests, SetInstructionBreakpoints(addresses)
      PROVE  ListRepresented' /\ LoopInv' /\ DllMirror' /\ UserLimit'
  BY <1>5, StartRebuildStep DEF SetInstructionBreakpoints
<1>6. ASSUME NEW exits \in Exits, StepOutBegin(exits)
      PROVE  ListRepresented' /\ LoopInv' /\ DllMirror' /\ UserLimit'
  <2>1. /\ UNCHANGED <<pool, head, list, dll, session>>
        /\ phase = "idle" /\ phase' = "temp"
        /\ session = "debug" /\ temps' = <<>>
    BY <1>6 DEF StepOutBegin
  <2>2. LoopInv'
    BY <2>1 DEF LoopInv
  <2> QED BY <2>1, <2>2, MirrorUntouched
<1>7. CASE ClearAllUnlink
  BY <1>7, ClearAllUnlinkStep
<1>8. CASE ClearAllWipe
  <2>1. dll' = {}
    <3>1. \A i \in DOMAIN list : list[i] # NULL
      BY ListFacts DEF IInv
    <3>2. NotCleared = {}
      BY <1>8, <3>1 DEF ClearAllWipe, NotCleared
    <3>3. dll = {}
      BY <3>2 DEF IInv, DllMirror
    <3> QED BY <1>8, <3>3 DEF ClearAllWipe
  <2>2. ListRepresented' /\ DllMirror' /\ UserLimit'
    BY <1>8, <2>1, WipedStep DEF ClearAllWipe
  <2>3. LoopInv'
    <3>1. session # "none"
      BY <1>8 DEF ClearAllWipe, IInv, LoopInv
    <3>2. Len(<<>>) = 0 /\ 0 <= MaxUserBreakpoints
      BY ConstantsAssumption
    <3> QED BY <1>8, <3>1, <3>2 DEF ClearAllWipe, LoopInv
  <2> QED BY <2>2, <2>3
<1>9. CASE NextTable
  <2>1. UNCHANGED <<pool, head, list, dll, session, phase, tail, armed>> /\ phase = "arm"
    BY <1>9 DEF NextTable
  <2>2. LoopInv'
    BY <2>1 DEF IInv, LoopInv
  <2> QED BY <2>1, <2>2, MirrorUntouched
<1>10. CASE TryArm
  BY <1>10, TryArmStep
<1>11. CASE Reply
  <2>1. /\ UNCHANGED <<pool, head, list, dll, session>>
        /\ phase = "arm" /\ phase' = "idle"
    BY <1>11 DEF Reply
  <2>2. LoopInv'
    BY <2>1 DEF IInv, LoopInv
  <2> QED BY <2>1, <2>2, MirrorUntouched
<1>12. CASE AddTempBreakpoint
  BY <1>12, AddTempStep
<1>13. CASE StepOutRun
  <2>1. /\ UNCHANGED <<pool, head, list, dll, session, temps>>
        /\ phase = "temp" /\ phase' = "untemp"
    BY <1>13 DEF StepOutRun
  <2>2. LoopInv'
    BY <2>1 DEF IInv, LoopInv
  <2> QED BY <2>1, <2>2, MirrorUntouched
<1>14. CASE RemoveTempBreakpoint
  BY <1>14, RemoveTempStep
<1>15. CASE StepOutDone
  <2>1. /\ UNCHANGED <<pool, head, list, dll, session>>
        /\ phase = "untemp" /\ phase' = "idle"
    BY <1>15 DEF StepOutDone
  <2>2. LoopInv'
    BY <2>1 DEF IInv, LoopInv
  <2> QED BY <2>1, <2>2, MirrorUntouched
<1>16. CASE UNCHANGED vars
  <2>1. UNCHANGED <<pool, head, list, dll, session, phase, cursor, tail, armed, temps>>
    BY <1>16 DEF vars
  <2>2. ListRepresented' /\ UserLimit'
    BY <2>1, PoolUntouched
  <2>3. LoopInv' /\ DllMirror'
    BY <2>1 DEF IInv, LoopInv, DllMirror, NotCleared
  <2> QED BY <2>2, <2>3
<1> QED
  BY <1>1, <1>2, <1>3, <1>4, <1>5, <1>6, <1>7, <1>8, <1>9, <1>10, <1>11, <1>12,
     <1>13, <1>14, <1>15, <1>16 DEF Next, HandlerStep

LEMMA Inductive == Spec => []IInv
BY InvInit, InvStep, PTL DEF Spec

\* Between any two steps of any handler the list the DLL walks through m_head
\* is finite, doubly linked and free of dead nodes, for every pool size, with
\* breakpoints at address 0 and with an exhausted pool.
THEOREM ListAlwaysWellFormed == Spec => []ListRepresented
<1>1. IInv => ListRepresented
  BY DEF IInv
<1> QED BY <1>1, Inductive, PTL

\* The loops' bookkeeping always agrees with the list: ClearAll's cursor and
\* HandleStepOut's nodes are linked, tail and armed[] describe what is armed.
THEOREM LoopsAgree == Spec => []LoopInv
<1>1. IInv => LoopInv
  BY DEF IInv
<1> QED BY <1>1, Inductive, PTL

\* One notification is paired with every change of the list: the DLL never
\* keeps a node that is free, reused or armed elsewhere, and in a debug session
\* it misses none.
THEOREM DllNeverStale == Spec => []DllMirror
<1>1. IInv => DllMirror
  BY DEF IInv
<1> QED BY <1>1, Inductive, PTL

\* kMaxUserBreakpoints is never exceeded and no slot is spent twice on one
\* address, however the requests of files and instructions interleave.
THEOREM HardwareLimit == Spec => []UserLimit
<1>1. IInv => UserLimit
  BY DEF IInv
<1> QED BY <1>1, Inductive, PTL
=============================================================================
