------------------------- MODULE ProgramData_proofs -------------------------
(***************************************************************************)
(* Proofs about module ProgramData.                                        *)
(*                                                                         *)
(* The image of a HEX file is the result of two folds over its records,    *)
(* the tables of a map file that of one.  Each fold is unrolled into the   *)
(* values it goes through (ExtentSteps, FillSteps, ParseSteps), and an     *)
(* induction over the records shows what they are.  What a request says of *)
(* an image or a table follows for all requests, because g_hexLoader and   *)
(* g_symtab hold what some file made them.                                 *)
(*                                                                         *)
(* For the Locals scope the parser is followed into each function (Inside, *)
(* Between, Tracks): where the scope of its locals begins and ends.  For   *)
(* the edits, the sizes that Sized infers keep the variables of a list     *)
(* apart (Separate, Fits), and what MemWrite leaves of a memory, MemRead   *)
(* finds again (ReadBack) or does not touch (ReadAside).                   *)
(***************************************************************************)
EXTENDS ProgramData, BasicFacts

\* What the bases of a file come to, one record at a time.
LEMMA BaseStep ==
  ASSUME NEW file \in Seq(HexRecord), NEW k \in 0 .. Len(file) - 1
  PROVE  /\ BaseAt(file, 0) = 0
         /\ BaseAt(file, k + 1) = IF file[k + 1].type = "base" THEN file[k + 1].base
                                  ELSE BaseAt(file, k)
<1> DEFINE Bases(i) == {j \in 1 .. i : file[j].type = "base"}
<1>1. BaseAt(file, 0) = 0
  BY DEF BaseAt
<1>2. CASE file[k + 1].type = "base"
  <2>1. /\ Bases(k + 1) \in SUBSET Nat /\ Bases(k + 1) # {}
        /\ k + 1 \in Nat /\ \A j \in Bases(k + 1) : j <= k + 1
        /\ k + 1 \in Bases(k + 1)
    BY <1>2
  <2>2. Max(Bases(k + 1)) \in Bases(k + 1) /\ k + 1 <= Max(Bases(k + 1))
    <3> DEFINE B == Bases(k + 1)
    <3> HIDE DEF Bases
    <3>1. B \in SUBSET Nat /\ B # {} /\ k + 1 \in B /\ \A j \in B : j <= k + 1
      BY <2>1
    <3> HIDE DEF B
    <3>2. Max(B) \in B /\ \A i \in B : i <= Max(B)
      BY <2>1, <3>1, MaxNat
    <3> QED BY <3>1, <3>2 DEF B
  <2>3. Max(Bases(k + 1)) = k + 1
    BY <2>2
  <2>4. BaseAt(file, k + 1) = file[k + 1].base
    <3>1. BaseAt(file, k + 1) = IF Bases(k + 1) = {} THEN 0 ELSE file[Max(Bases(k + 1))].base
      BY DEF BaseAt
    <3> HIDE DEF Bases
    <3> QED BY <2>1, <2>3, <3>1
  <2> QED BY <1>1, <1>2, <2>4
<1>3. CASE file[k + 1].type # "base"
  <2>1. Bases(k + 1) = Bases(k)
    BY <1>3
  <2>2. BaseAt(file, k + 1) = BaseAt(file, k)
    BY <2>1 DEF BaseAt
  <2> QED BY <1>1, <1>3, <2>2
<1> QED BY <1>2, <1>3

\* The records of a file have their fields.
LEMMA RecordFields ==
  ASSUME NEW r \in HexRecord
  PROVE  /\ r.type = "base" => r.base \in Nat
         /\ r.type = "data" => /\ r.addr \in Nat /\ r.count \in Nat
                               /\ r.data \in Seq(0 .. 255) /\ r.ok \in BOOLEAN
BY DEF HexRecord

-----------------------------------------------------------------------------
\* The first pass.
Extents == [base : Nat, min : 0 .. AddrWord - 1, max : Nat, got : BOOLEAN]
Extent0 == [base |-> 0, min |-> AddrWord - 1, max |-> 0, got |-> FALSE]

LEMMA ExtendType ==
  ASSUME NEW s \in Extents, NEW r \in HexRecord
  PROVE  Extend(s, r) \in Extents
<1>1. CASE r.type = "base"
  <2>1. r.base \in Nat
    BY <1>1, RecordFields
  <2> QED BY <1>1, <2>1 DEF Extend, Extents
<1>2. CASE r.type # "base" /\ ~ IsData(r)
  BY <1>2 DEF Extend
<1>3. CASE r.type # "base" /\ IsData(r)
  <2>1. r.addr \in Nat /\ r.count \in Nat
    BY <1>3, RecordFields DEF IsData
  <2> DEFINE start == (s.base + r.addr) % AddrWord
             end   == (start + r.count) % AddrWord
  <2>2. start \in 0 .. AddrWord - 1 /\ end \in Nat
    BY <2>1, HexAssumption DEF Extents
  <2>3. Extend(s, r) = [base |-> s.base,
                        min  |-> IF start < s.min THEN start ELSE s.min,
                        max  |-> IF end > s.max THEN end ELSE s.max,
                        got  |-> TRUE]
    BY <1>3 DEF Extend
  <2> HIDE DEF start, end
  <2> QED BY <2>2, <2>3 DEF Extents
<1> QED BY <1>1, <1>2, <1>3

LEMMA ExtentSteps ==
  ASSUME NEW file \in Seq(HexRecord)
  PROVE  \E f : /\ f[0] = Extent0
                /\ \A k \in 0 .. Len(file) - 1 : f[k + 1] = Extend(f[k], file[k + 1])
                /\ Extent(file) = f[Len(file)]
<1> DEFINE n  == Len(file)
           Is(g) == g = [s \in SUBSET DOMAIN file |->
                           IF s = {} THEN Extent0
                           ELSE Extend(g[s \ {Max(s)}], file[Max(s)])]
<1>1. n \in Nat /\ DOMAIN file = 1 .. n /\ \A i \in 1 .. n : file[i] \in HexRecord
  OBVIOUS
<1>2. Extent(file) = (CHOOSE g : Is(g))[DOMAIN file]
  BY DEF Extent, Extent0, FoldLeft, MapThenFoldSet
<1>3. \E g : Is(g)
  <2> DEFINE op == [p \in Extents \X HexRecord |-> Extend(p[1], p[2])]
  <2>1. op \in [Extents \X HexRecord -> Extents]
    BY ExtendType
  <2>2. Extent0 \in Extents
    BY HexAssumption DEF Extent0, Extents
  <2>3. \A s \in Extents, r \in HexRecord : op[<<s, r>>] = Extend(s, r)
    OBVIOUS
  <2> HIDE DEF op
  <2>4. PICK g \in [SUBSET (1 .. n) -> Extents] :
               \A s \in SUBSET (1 .. n) :
                 g[s] = IF s = {} THEN Extent0 ELSE op[<<g[s \ {Max(s)}], file[Max(s)]>>]
    <3>1. HasFold(Extents, file, Extent0, op)
      BY <2>1, <2>2, FoldRecursion
    <3> QED BY <3>1 DEF HasFold
  <2>5. ASSUME NEW s \in SUBSET (1 .. n)
        PROVE  g[s] = IF s = {} THEN Extent0 ELSE Extend(g[s \ {Max(s)}], file[Max(s)])
    <3>1. CASE s = {}
      BY <2>4, <3>1
    <3>2. CASE s # {}
      <4>1. s \in SUBSET Nat /\ \A i \in s : i <= n
        OBVIOUS
      <4>2. Max(s) \in s
        BY <1>1, <3>2, <4>1, MaxNat
      <4>3. g[s \ {Max(s)}] \in Extents /\ file[Max(s)] \in HexRecord
        BY <1>1, <2>4, <4>2
      <4> QED BY <2>3, <2>4, <3>2, <4>3
    <3> QED BY <3>1, <3>2
  <2>6. g = [s \in SUBSET (1 .. n) |->
               IF s = {} THEN Extent0 ELSE Extend(g[s \ {Max(s)}], file[Max(s)])]
    <3> DEFINE h == [s \in SUBSET (1 .. n) |->
               IF s = {} THEN Extent0 ELSE Extend(g[s \ {Max(s)}], file[Max(s)])]
    <3>1. \A s \in SUBSET (1 .. n) : g[s] = h[s]
      BY <2>5
    <3>2. DOMAIN g = SUBSET (1 .. n) /\ DOMAIN h = SUBSET (1 .. n)
      OBVIOUS
    <3>3. g = [s \in DOMAIN g |-> g[s]] /\ h = [s \in DOMAIN h |-> h[s]]
      OBVIOUS
    <3> HIDE DEF h
    <3>4. g = h
      BY <3>1, <3>2, <3>3
    <3> QED BY <3>4 DEF h
  <2>7. Is(g)
    BY <1>1, <2>6, Zenon
  <2> HIDE DEF Is
  <2> QED BY <2>7
<1> DEFINE it == CHOOSE g : Is(g)
           f  == [k \in 0 .. n |-> it[1 .. k]]
<1>4. Is(it)
  BY <1>3
<1>5. \A s \in SUBSET (1 .. n) :
        it[s] = IF s = {} THEN Extent0 ELSE Extend(it[s \ {Max(s)}], file[Max(s)])
  <2> HIDE DEF it
  <2> QED BY <1>1, <1>4, Zenon
<1> HIDE DEF it, Is
<1>6. f[0] = Extent0
  <2>1. f[0] = it[1 .. 0] /\ 1 .. 0 = {}
    BY <1>1
  <2> QED BY <1>5, <2>1
<1>7. ASSUME NEW k \in 0 .. n - 1 PROVE f[k + 1] = Extend(f[k], file[k + 1])
  <2>1. f[k + 1] = it[1 .. k + 1] /\ f[k] = it[1 .. k]
    BY <1>1
  <2> HIDE DEF f
  <2>2. Max(1 .. k + 1) = k + 1 /\ (1 .. k + 1) \ {k + 1} = 1 .. k
    <3>1. k \in Nat
      BY <1>1
    <3> QED BY <3>1, MaxInitial
  <2>3. 1 .. k + 1 \in SUBSET (1 .. n) /\ 1 .. k + 1 # {}
    <3>1. \A i \in 1 .. k + 1 : i \in 1 .. n
      BY <1>1
    <3>2. 1 \in 1 .. k + 1
      BY <1>1
    <3> QED BY <3>1, <3>2
  <2> QED BY <1>5, <2>1, <2>2, <2>3, Zenon
<1>8. Extent(file) = f[n]
  BY <1>1, <1>2 DEF it
<1> HIDE DEF f
<1> QED BY <1>6, <1>7, <1>8

LEMMA SmallRemainder ==
  ASSUME NEW n \in Nat, NEW w \in Nat \ {0}, n < w
  PROVE  n % w = n
OBVIOUS

\* Where a data record begins, and where it ends; in 32 bits neither wraps.
From(file, i) == BaseAt(file, i) + file[i].addr
To(file, i)   == From(file, i) + file[i].count

LEMMA BaseType ==
  ASSUME NEW file \in Seq(HexRecord), NEW k \in 0 .. Len(file)
  PROVE  BaseAt(file, k) \in Nat
<1> DEFINE Good == {i \in Nat : i <= Len(file) => BaseAt(file, i) \in Nat}
<1>1. Len(file) \in Nat
  OBVIOUS
<1>2. ASSUME NEW i \in Nat, i \in Good PROVE i + 1 \in Good
  <2>1. SUFFICES ASSUME i + 1 <= Len(file) PROVE BaseAt(file, i + 1) \in Nat
    OBVIOUS
  <2>2. i \in 0 .. Len(file) - 1 /\ BaseAt(file, i) \in Nat
    BY <1>1, <1>2, <2>1
  <2>3. file[i + 1] \in HexRecord
    BY <1>1, <2>1
  <2>4. BaseAt(file, i + 1) = IF file[i + 1].type = "base" THEN file[i + 1].base
                              ELSE BaseAt(file, i)
    BY <2>2, BaseStep
  <2> QED BY <2>2, <2>3, <2>4, RecordFields
<1>3. 0 \in Good
  BY DEF BaseAt
<1>4. Nat \subseteq Good
  <2> HIDE DEF Good
  <2> QED BY <1>2, <1>3, Induct
<1> QED BY <1>1, <1>4

LEMMA RecordRange ==
  ASSUME NEW file \in Seq(HexRecord), Within32Bits(file),
         NEW i \in 1 .. Len(file), file[i].type = "data"
  PROVE  /\ BaseAt(file, i) \in Nat /\ file[i].addr \in Nat /\ file[i].count \in Nat
         /\ From(file, i) \in Nat /\ To(file, i) \in Nat
         /\ From(file, i) = BaseAt(file, i) + file[i].addr
         /\ To(file, i) = From(file, i) + file[i].count
         /\ From(file, i) < AddrWord /\ To(file, i) < AddrWord
         /\ From(file, i) % AddrWord = From(file, i)
         /\ To(file, i) % AddrWord = To(file, i)
         /\ i \in 1 .. Len(file) /\ i - 1 \in 0 .. Len(file) - 1
         /\ BaseAt(file, i) = BaseAt(file, i - 1)
<1>1. i - 1 \in 0 .. Len(file) - 1 /\ i \in 0 .. Len(file) /\ i - 1 + 1 = i
  OBVIOUS
<1>2. file[i] \in HexRecord
  OBVIOUS
<1>3. file[i].addr \in Nat /\ file[i].count \in Nat
  BY <1>2, RecordFields
<1>4. BaseAt(file, i) \in Nat
  BY <1>1, BaseType
<1>5. From(file, i) \in Nat /\ To(file, i) \in Nat /\ From(file, i) <= To(file, i)
  BY <1>3, <1>4 DEF From, To
<1>6. To(file, i) < AddrWord
  <2>1. i \in DOMAIN file
    OBVIOUS
  <2> QED BY <2>1 DEF Within32Bits, From, To
<1>7. AddrWord \in Nat \ {0}
  BY HexAssumption
<1>8. From(file, i) < AddrWord
  BY <1>5, <1>6, <1>7
<1>9. From(file, i) % AddrWord = From(file, i) /\ To(file, i) % AddrWord = To(file, i)
  BY <1>5, <1>6, <1>7, <1>8, SmallRemainder
<1>10. BaseAt(file, i) = BaseAt(file, i - 1)
  <2>1. BaseAt(file, i - 1 + 1) = IF file[i - 1 + 1].type = "base" THEN file[i - 1 + 1].base
                                  ELSE BaseAt(file, i - 1)
    BY <1>1, BaseStep
  <2> QED BY <1>1, <2>1
<1> QED BY <1>1, <1>3, <1>4, <1>5, <1>6, <1>8, <1>9, <1>10 DEF From, To

\* Where the first pass ends, it bounds every data record.
Bounds(file, s, k) ==
  /\ s \in Extents
  /\ s.base = BaseAt(file, k)
  /\ \A i \in 1 .. k : IsData(file[i]) => s.min <= From(file, i) /\ To(file, i) <= s.max

LEMMA ExtendBounds ==
  ASSUME NEW file \in Seq(HexRecord), Within32Bits(file), NEW k \in 0 .. Len(file) - 1,
         NEW s, Bounds(file, s, k)
  PROVE  Bounds(file, Extend(s, file[k + 1]), k + 1)
<1> DEFINE r == file[k + 1]
           t == Extend(s, r)
<1>1. k \in Nat /\ k + 1 \in 1 .. Len(file) /\ r \in HexRecord /\ k + 1 - 1 = k
  OBVIOUS
<1>2. t \in Extents
  BY <1>1, ExtendType DEF Bounds
<1>3. s \in Extents /\ s.min \in Nat /\ s.max \in Nat /\ s.base = BaseAt(file, k)
  BY DEF Bounds, Extents
<1>4. t.base = BaseAt(file, k + 1)
  <2>1. BaseAt(file, k + 1) = IF r.type = "base" THEN r.base ELSE BaseAt(file, k)
    BY BaseStep
  <2>2. CASE r.type = "base"
    BY <1>3, <2>1, <2>2 DEF Extend, Extents
  <2>3. CASE r.type # "base"
    BY <1>3, <2>1, <2>3 DEF Extend, Extents
  <2> QED BY <2>2, <2>3
<1>5. CASE IsData(r) /\ r.type # "base"
  <2>1. /\ From(file, k + 1) \in Nat /\ To(file, k + 1) \in Nat
        /\ From(file, k + 1) = s.base + r.addr
        /\ To(file, k + 1) = From(file, k + 1) + r.count
        /\ From(file, k + 1) % AddrWord = From(file, k + 1)
        /\ To(file, k + 1) % AddrWord = To(file, k + 1)
    BY <1>1, <1>3, <1>5, RecordRange DEF IsData
  <2>2. t = [base |-> s.base,
             min  |-> IF From(file, k + 1) < s.min THEN From(file, k + 1) ELSE s.min,
             max  |-> IF To(file, k + 1) > s.max THEN To(file, k + 1) ELSE s.max,
             got  |-> TRUE]
    BY <1>5, <2>1, Zenon DEF Extend
  <2>3. /\ t.min = IF From(file, k + 1) < s.min THEN From(file, k + 1) ELSE s.min
        /\ t.max = IF To(file, k + 1) > s.max THEN To(file, k + 1) ELSE s.max
    BY <2>2
  <2> HIDE DEF t
  <2>4. /\ t.min <= s.min /\ t.min <= From(file, k + 1) /\ s.max <= t.max
        /\ To(file, k + 1) <= t.max /\ t.min \in Nat /\ t.max \in Nat
    BY <1>3, <2>1, <2>3
  <2>5. ASSUME NEW i \in 1 .. k + 1, IsData(file[i])
        PROVE  t.min <= From(file, i) /\ To(file, i) <= t.max
    <3>1. CASE i = k + 1
      BY <2>4, <3>1
    <3>2. CASE i # k + 1
      <4>1. i \in 1 .. k /\ i \in 1 .. Len(file)
        BY <3>2
      <4>2. s.min <= From(file, i) /\ To(file, i) <= s.max
        BY <2>5, <4>1 DEF Bounds
      <4>3. From(file, i) \in Nat /\ To(file, i) \in Nat
        BY <2>5, <4>1, RecordRange DEF IsData
      <4> QED BY <1>3, <2>4, <4>2, <4>3
    <3> QED BY <3>1, <3>2
  <2> QED BY <1>2, <1>4, <2>5 DEF Bounds, t
<1>6. CASE ~ (IsData(r) /\ r.type # "base")
  <2>1. t.min = s.min /\ t.max = s.max /\ ~ IsData(r)
    BY <1>3, <1>6 DEF Extend, Extents, IsData
  <2>2. ASSUME NEW i \in 1 .. k + 1, IsData(file[i])
        PROVE  t.min <= From(file, i) /\ To(file, i) <= t.max
    <3>1. i \in 1 .. k
      BY <2>1, <2>2
    <3> QED BY <2>1, <2>2, <3>1 DEF Bounds
  <2> QED BY <1>2, <1>4, <2>2 DEF Bounds
<1> QED BY <1>5, <1>6

LEMMA ExtentBounds ==
  ASSUME NEW file \in Seq(HexRecord), Within32Bits(file)
  PROVE  Bounds(file, Extent(file), Len(file))
<1> DEFINE n == Len(file)
<1>1. n \in Nat
  OBVIOUS
<1>2. PICK f : /\ f[0] = Extent0
               /\ \A k \in 0 .. n - 1 : f[k + 1] = Extend(f[k], file[k + 1])
               /\ Extent(file) = f[n]
  BY ExtentSteps
<1> DEFINE Good == {k \in Nat : k <= n => Bounds(file, f[k], k)}
<1>3. 0 \in Good
  <2>1. Extent0 \in Extents /\ Extent0.base = 0
    BY HexAssumption DEF Extent0, Extents
  <2>2. BaseAt(file, 0) = 0
    BY DEF BaseAt
  <2> QED BY <1>2, <2>1, <2>2 DEF Bounds
<1>4. ASSUME NEW k \in Nat, k \in Good PROVE k + 1 \in Good
  <2>1. SUFFICES ASSUME k + 1 <= n PROVE Bounds(file, f[k + 1], k + 1)
    OBVIOUS
  <2>2. k \in 0 .. n - 1 /\ Bounds(file, f[k], k)
    BY <1>1, <1>4, <2>1
  <2>3. f[k + 1] = Extend(f[k], file[k + 1])
    BY <1>2, <2>2
  <2>4. Bounds(file, Extend(f[k], file[k + 1]), k + 1)
    BY <2>2, ExtendBounds
  <2> QED BY <2>3, <2>4
<1>5. Nat \subseteq Good
  <2> HIDE DEF Good
  <2> QED BY <1>3, <1>4, Induct
<1> QED BY <1>1, <1>2, <1>5

-----------------------------------------------------------------------------
\* The second pass.
Fills(D) == [base : Nat, min : Nat, bytes : [D -> 0 .. 255]]

LEMMA StoreType ==
  ASSUME NEW D, NEW s \in Fills(D), NEW r \in HexRecord
  PROVE  Store(s, r) \in Fills(D)
<1>1. CASE r.type = "base"
  <2>1. r.base \in Nat
    BY <1>1, RecordFields
  <2> QED BY <1>1, <2>1 DEF Store, Fills
<1> DEFINE good == IsData(r) /\ ~ IsShort(r) /\ r.ok
<1>2. CASE r.type # "base" /\ ~ good
  BY <1>2 DEF Store
<1>3. CASE r.type # "base" /\ good
  <2>1. r.count \in Nat /\ r.data \in Seq(0 .. 255) /\ r.count <= Len(r.data)
    BY <1>3, RecordFields DEF IsData, IsShort
  <2>2. ASSUME NEW j \in 0 .. r.count - 1 PROVE r.data[1 + j] \in 0 .. 255
    <3>1. 1 + j \in 1 .. Len(r.data)
      BY <2>1
    <3> QED BY <2>1, <3>1, ElementOfSeq
  <2> DEFINE Hits(o) == {j \in 0 .. r.count - 1 : Offset(s, r, j) = o}
             b == [o \in D |-> IF Hits(o) = {} THEN s.bytes[o]
                               ELSE r.data[1 + CHOOSE j \in Hits(o) : TRUE]]
  <2>3. DOMAIN s.bytes = D /\ \A o \in D : s.bytes[o] \in 0 .. 255
    BY DEF Fills
  <2>4. Store(s, r) = [s EXCEPT !.bytes = b]
    BY <1>3, <2>3 DEF Store
  <2>5. ASSUME NEW o \in D PROVE b[o] \in 0 .. 255
    <3>1. CASE Hits(o) = {}
      BY <2>3, <3>1
    <3>2. CASE Hits(o) # {}
      <4>1. (CHOOSE j \in Hits(o) : TRUE) \in 0 .. r.count - 1
        BY <3>2
      <4>2. b[o] = r.data[1 + CHOOSE j \in Hits(o) : TRUE]
        BY <3>2
      <4> HIDE DEF Hits
      <4> QED BY <2>2, <4>1, <4>2
    <3> QED BY <3>1, <3>2
  <2>6. b \in [D -> 0 .. 255]
    <3>1. b = [o \in D |-> b[o]]
      OBVIOUS
    <3> HIDE DEF b
    <3> QED BY <2>5, <3>1
  <2> HIDE DEF b
  <2> QED BY <2>4, <2>6 DEF Fills
<1> QED BY <1>1, <1>2, <1>3

StoreAll(init, file) == FoldLeft(Store, init, file)

LEMMA FillSteps ==
  ASSUME NEW file \in Seq(HexRecord), NEW D, NEW init \in Fills(D)
  PROVE  \E f : /\ f[0] = init
                /\ \A k \in 0 .. Len(file) - 1 : f[k + 1] = Store(f[k], file[k + 1])
                /\ StoreAll(init, file) = f[Len(file)]
<1> DEFINE n  == Len(file)
           Is(g) == g = [s \in SUBSET DOMAIN file |->
                           IF s = {} THEN init ELSE Store(g[s \ {Max(s)}], file[Max(s)])]
<1>1. n \in Nat /\ DOMAIN file = 1 .. n /\ \A i \in 1 .. n : file[i] \in HexRecord
  OBVIOUS
<1>2. StoreAll(init, file) = (CHOOSE g : Is(g))[DOMAIN file]
  BY DEF StoreAll, FoldLeft, MapThenFoldSet
<1>3. \E g : Is(g)
  <2> DEFINE op == [p \in Fills(D) \X HexRecord |-> Store(p[1], p[2])]
  <2>1. op \in [Fills(D) \X HexRecord -> Fills(D)]
    BY StoreType
  <2>2. \A s \in Fills(D), r \in HexRecord : op[<<s, r>>] = Store(s, r)
    OBVIOUS
  <2> HIDE DEF op
  <2>3. PICK g \in [SUBSET (1 .. n) -> Fills(D)] :
               \A s \in SUBSET (1 .. n) :
                 g[s] = IF s = {} THEN init ELSE op[<<g[s \ {Max(s)}], file[Max(s)]>>]
    <3>1. HasFold(Fills(D), file, init, op)
      BY <2>1, FoldRecursion
    <3> QED BY <3>1 DEF HasFold
  <2>4. ASSUME NEW s \in SUBSET (1 .. n)
        PROVE  g[s] = IF s = {} THEN init ELSE Store(g[s \ {Max(s)}], file[Max(s)])
    <3>1. CASE s = {}
      BY <2>3, <3>1
    <3>2. CASE s # {}
      <4>1. s \in SUBSET Nat /\ \A i \in s : i <= n
        OBVIOUS
      <4>2. Max(s) \in s
        BY <1>1, <3>2, <4>1, MaxNat
      <4>3. g[s \ {Max(s)}] \in Fills(D) /\ file[Max(s)] \in HexRecord
        BY <1>1, <2>3, <4>2
      <4> QED BY <2>2, <2>3, <3>2, <4>3
    <3> QED BY <3>1, <3>2
  <2>5. g = [s \in SUBSET (1 .. n) |->
               IF s = {} THEN init ELSE Store(g[s \ {Max(s)}], file[Max(s)])]
    <3> DEFINE h == [s \in SUBSET (1 .. n) |->
               IF s = {} THEN init ELSE Store(g[s \ {Max(s)}], file[Max(s)])]
    <3>1. \A s \in SUBSET (1 .. n) : g[s] = h[s]
      BY <2>4
    <3>2. DOMAIN g = SUBSET (1 .. n) /\ DOMAIN h = SUBSET (1 .. n)
      OBVIOUS
    <3>3. g = [s \in DOMAIN g |-> g[s]] /\ h = [s \in DOMAIN h |-> h[s]]
      OBVIOUS
    <3> HIDE DEF h
    <3>4. g = h
      BY <3>1, <3>2, <3>3
    <3> QED BY <3>4 DEF h
  <2>6. Is(g)
    BY <1>1, <2>5, Zenon
  <2> HIDE DEF Is
  <2> QED BY <2>6
<1> DEFINE it == CHOOSE g : Is(g)
           f  == [k \in 0 .. n |-> it[1 .. k]]
<1>4. Is(it)
  BY <1>3
<1>5. \A s \in SUBSET (1 .. n) :
        it[s] = IF s = {} THEN init ELSE Store(it[s \ {Max(s)}], file[Max(s)])
  <2> HIDE DEF it
  <2> QED BY <1>1, <1>4, Zenon
<1> HIDE DEF it, Is
<1>6. f[0] = init
  <2>1. f[0] = it[1 .. 0] /\ 1 .. 0 = {}
    BY <1>1
  <2> QED BY <1>5, <2>1
<1>7. ASSUME NEW k \in 0 .. n - 1 PROVE f[k + 1] = Store(f[k], file[k + 1])
  <2>1. f[k + 1] = it[1 .. k + 1] /\ f[k] = it[1 .. k]
    BY <1>1
  <2> HIDE DEF f
  <2>2. Max(1 .. k + 1) = k + 1 /\ (1 .. k + 1) \ {k + 1} = 1 .. k
    <3>1. k \in Nat
      BY <1>1
    <3> QED BY <3>1, MaxInitial
  <2>3. 1 .. k + 1 \in SUBSET (1 .. n) /\ 1 .. k + 1 # {}
    <3>1. \A i \in 1 .. k + 1 : i \in 1 .. n
      BY <1>1
    <3>2. 1 \in 1 .. k + 1
      BY <1>1
    <3> QED BY <3>1, <3>2
  <2> QED BY <1>5, <2>1, <2>2, <2>3, Zenon
<1>8. StoreAll(init, file) = f[n]
  BY <1>1, <1>2 DEF it
<1> HIDE DEF f
<1> QED BY <1>6, <1>7, <1>8

\* The last good record up to the k-th that covers an address, and its byte.
Covered(file, k, addr) == Covering(file, addr) \cap (1 .. k)
ByteOf(file, i, addr)  == file[i].data[1 + addr - BaseAt(file, i) - file[i].addr]

LastByte(file, k, addr) ==
  IF Covered(file, k, addr) = {} THEN Erased ELSE ByteOf(file, Max(Covered(file, k, addr)), addr)

\* What the second pass has stored.
Filled(file, D, s, k) ==
  /\ s \in Fills(D)
  /\ s.base = BaseAt(file, k)
  /\ s.min = Extent(file).min
  /\ \A o \in D : s.bytes[o] = LastByte(file, k, s.min + o)

\* The next record covers an address, or leaves it as it was.
LEMMA LastByteStep ==
  ASSUME NEW file \in Seq(HexRecord), NEW k \in 0 .. Len(file) - 1, NEW addr
  PROVE  LastByte(file, k + 1, addr) = IF k + 1 \in Covering(file, addr)
                                       THEN ByteOf(file, k + 1, addr)
                                       ELSE LastByte(file, k, addr)
<1>1. CASE k + 1 \in Covering(file, addr)
  <2> DEFINE C == Covered(file, k + 1, addr)
  <2>1. C \in SUBSET Nat /\ C # {} /\ k + 1 \in C /\ k + 1 \in Nat /\ \A i \in C : i <= k + 1
    BY <1>1 DEF Covered
  <2> HIDE DEF C
  <2>2. Max(C) \in C /\ \A i \in C : i <= Max(C)
    BY <2>1, MaxNat
  <2>3. Max(C) = k + 1
    <3>1. k \in Nat
      OBVIOUS
    <3>2. Max(C) \in Nat /\ Max(C) <= k + 1 /\ k + 1 <= Max(C)
      BY <2>1, <2>2
    <3> QED BY <3>1, <3>2
  <2> QED BY <1>1, <2>1, <2>3 DEF LastByte, C
<1>2. CASE k + 1 \notin Covering(file, addr)
  <2>1. Covered(file, k + 1, addr) = Covered(file, k, addr)
    BY <1>2 DEF Covered
  <2> QED BY <1>2, <2>1 DEF LastByte
<1> QED BY <1>1, <1>2

\* Where a byte of a record goes, and which byte of it goes there.
LEMMA OffsetExact ==
  ASSUME NEW base \in Nat, NEW addr \in Nat, NEW min \in Nat, NEW count \in Nat,
         NEW w \in Nat \ {0}, NEW j \in 0 .. count - 1,
         min <= base + addr, base + addr + count < w
  PROVE  (base + addr - min + j) % w = base + addr - min + j
<1>1. base + addr - min + j \in Nat /\ base + addr - min + j < w
  OBVIOUS
<1> QED BY <1>1, SmallRemainder

LEMMA HitIndex ==
  ASSUME NEW base \in Nat, NEW addr \in Nat, NEW min \in Nat, NEW o \in Nat, NEW i \in Int
  PROVE  base + addr - min + i = o <=> i = (min + o) - base - addr
OBVIOUS

\* The next record stores its bytes over those of the records before it.
LEMMA StoreFilled ==
  ASSUME NEW file \in Seq(HexRecord), Within32Bits(file), NEW D \in SUBSET Nat,
         NEW k \in 0 .. Len(file) - 1, NEW s, Filled(file, D, s, k)
  PROVE  Filled(file, D, Store(s, file[k + 1]), k + 1)
<1> DEFINE r == file[k + 1]
           t == Store(s, r)
           good == r.type = "data" /\ IsData(r) /\ ~ IsShort(r) /\ r.ok
<1>1. k \in Nat /\ k + 1 \in 1 .. Len(file) /\ r \in HexRecord /\ k + 1 \in DOMAIN file
  OBVIOUS
<1>2. t \in Fills(D)
  BY <1>1, StoreType DEF Filled
<1>3. /\ s \in Fills(D) /\ s.min \in Nat /\ s.base = BaseAt(file, k) /\ DOMAIN s.bytes = D
      /\ s.min = Extent(file).min
  BY DEF Filled, Fills
<1>4. t.base = BaseAt(file, k + 1) /\ t.min = s.min
  <2>1. BaseAt(file, k + 1) = IF r.type = "base" THEN r.base ELSE BaseAt(file, k)
    BY BaseStep
  <2>2. CASE r.type = "base"
    BY <1>3, <2>1, <2>2 DEF Store, Fills
  <2>3. CASE r.type # "base"
    BY <1>3, <2>1, <2>3 DEF Store, Fills
  <2> QED BY <2>2, <2>3
<1>5. CASE good
  <2>1. /\ From(file, k + 1) \in Nat /\ r.count \in Nat /\ r.addr \in Nat
        /\ BaseAt(file, k + 1) \in Nat
        /\ From(file, k + 1) = BaseAt(file, k + 1) + r.addr
        /\ From(file, k + 1) + r.count < AddrWord
        /\ s.base = BaseAt(file, k + 1)
    <3>1. BaseAt(file, k + 1) = BaseAt(file, k)
      BY <1>5, BaseStep
    <3> QED BY <1>1, <1>3, <1>5, <3>1, RecordRange
  <2>2. s.min <= From(file, k + 1)
    <3>1. Bounds(file, Extent(file), Len(file))
      BY ExtentBounds
    <3> QED BY <1>1, <1>3, <1>5, <3>1 DEF Bounds
  <2>3. ASSUME NEW j \in 0 .. r.count - 1
        PROVE  Offset(s, r, j) = BaseAt(file, k + 1) + r.addr - s.min + j
    <3>1. AddrWord \in Nat \ {0} /\ s.min \in Nat
      BY <1>3, HexAssumption
    <3>2. /\ s.min <= BaseAt(file, k + 1) + r.addr
          /\ BaseAt(file, k + 1) + r.addr + r.count < AddrWord
      BY <2>1, <2>2
    <3> DEFINE base  == BaseAt(file, k + 1)
               addr  == r.addr
               count == r.count
               min   == s.min
    <3>3. (base + addr - min + j) % AddrWord = base + addr - min + j
      <4>1. base \in Nat /\ addr \in Nat /\ count \in Nat /\ min \in Nat /\ j \in 0 .. count - 1
        BY <2>1, <3>1
      <4>2. min <= base + addr /\ base + addr + count < AddrWord
        BY <3>2
      <4> HIDE DEF base, addr, count, min
      <4> QED BY <3>1, <4>1, <4>2, OffsetExact
    <3> QED BY <2>1, <3>3 DEF Offset
  <2> DEFINE Hits(o) == {j \in 0 .. r.count - 1 : Offset(s, r, j) = o}
  <2>4. ASSUME NEW o \in D
        PROVE  t.bytes[o] = IF Hits(o) = {} THEN s.bytes[o]
                            ELSE r.data[1 + CHOOSE j \in Hits(o) : TRUE]
    BY <1>3, <1>5, <2>4 DEF Store, Fills
  <2>5. ASSUME NEW o \in D
        PROVE  t.bytes[o] = LastByte(file, k + 1, s.min + o)
    <3> DEFINE a == s.min + o
               j == a - BaseAt(file, k + 1) - r.addr
    <3>1. s.min \in Nat /\ o \in Nat
      BY <1>3
    <3> DEFINE base == BaseAt(file, k + 1)
               addr == r.addr
               min  == s.min
    <3>2. \A i \in 0 .. r.count - 1 : Offset(s, r, i) = o <=> i = j
      <4> SUFFICES ASSUME NEW i \in 0 .. r.count - 1 PROVE Offset(s, r, i) = o <=> i = j
        OBVIOUS
      <4>1. Offset(s, r, i) = base + addr - min + i
        BY <2>3, Zenon
      <4>2. j = (min + o) - base - addr
        OBVIOUS
      <4>3. base \in Nat /\ addr \in Nat /\ min \in Nat /\ i \in Int
        BY <2>1, <3>1
      <4> HIDE DEF base, addr, min, j
      <4>4. base + addr - min + i = o <=> i = (min + o) - base - addr
        BY <3>1, <4>3, HitIndex
      <4> QED BY <4>1, <4>2, <4>4
    <3>3. k + 1 \in Covering(file, a) <=> j \in 0 .. r.count - 1
      BY <1>1, <1>5 DEF Covering
    <3>4. LastByte(file, k + 1, a) = IF k + 1 \in Covering(file, a)
                                     THEN ByteOf(file, k + 1, a) ELSE LastByte(file, k, a)
      BY LastByteStep
    <3>5. CASE j \in 0 .. r.count - 1
      <4>1. Hits(o) = {j}
        BY <3>5, <3>2
      <4>2. (CHOOSE i \in Hits(o) : TRUE) = j
        BY <4>1
      <4>3. t.bytes[o] = r.data[1 + j]
        <5> HIDE DEF t, j
        <5> QED BY <2>4, <4>1, <4>2
      <4>4. 1 + j = 1 + a - BaseAt(file, k + 1) - r.addr
        BY <1>3, <2>1, <3>1
      <4>5. ByteOf(file, k + 1, a) = r.data[1 + j]
        BY <4>4 DEF ByteOf
      <4> HIDE DEF t, j
      <4> QED BY <3>3, <3>4, <3>5, <4>3, <4>5
    <3>6. CASE j \notin 0 .. r.count - 1
      <4>1. Hits(o) = {}
        BY <3>6, <3>2
      <4>2. t.bytes[o] = s.bytes[o]
        <5> HIDE DEF t, Hits
        <5> QED BY <2>4, <4>1
      <4>3. s.bytes[o] = LastByte(file, k, a)
        BY DEF Filled
      <4> HIDE DEF t, j
      <4> QED BY <3>3, <3>4, <3>6, <4>2, <4>3
    <3> HIDE DEF t, j
    <3> QED BY <3>5, <3>6
  <2> HIDE DEF t
  <2> QED BY <1>2, <1>3, <1>4, <2>5 DEF Filled, t
<1>6. CASE ~ good
  <2>1. t.bytes = s.bytes
    BY <1>3, <1>6 DEF Store, Fills, IsData
  <2>2. ASSUME NEW a PROVE k + 1 \notin Covering(file, a)
    <3>1. SUFFICES ASSUME k + 1 \in Covering(file, a) PROVE FALSE
      OBVIOUS
    <3>2. /\ r.type = "data" /\ r.ok /\ ~ IsShort(r)
          /\ a - BaseAt(file, k + 1) - r.addr \in 0 .. r.count - 1
      BY <3>1 DEF Covering
    <3>3. r.count \in Nat /\ ~ (r.count > 0)
      BY <1>1, <1>6, <3>2, RecordFields DEF IsData
    <3> QED BY <3>2, <3>3
  <2>3. ASSUME NEW o \in D PROVE t.bytes[o] = LastByte(file, k + 1, s.min + o)
    <3>1. LastByte(file, k + 1, s.min + o) = LastByte(file, k, s.min + o)
      BY <2>2, LastByteStep
    <3> QED BY <2>1, <3>1 DEF Filled
  <2> HIDE DEF t
  <2> QED BY <1>2, <1>3, <1>4, <2>3 DEF Filled, t
<1> QED BY <1>5, <1>6

\* The bytes after the second pass.
LEMMA FillRight ==
  ASSUME NEW file \in Seq(HexRecord), Within32Bits(file), NEW D \in SUBSET Nat,
         NEW init, init = [base |-> 0, min |-> Extent(file).min, bytes |-> [o \in D |-> Erased]]
  PROVE  Filled(file, D, StoreAll(init, file), Len(file))
<1> DEFINE n == Len(file)
<1>1. n \in Nat
  OBVIOUS
<1>2. init \in Fills(D) /\ init.base = 0 /\ init.min = Extent(file).min
      /\ \A o \in D : init.bytes[o] = Erased
  <2>1. Extent(file).min \in Nat
    BY ExtentBounds DEF Bounds, Extents
  <2> QED BY <2>1, HexAssumption DEF Fills
<1>3. PICK f : /\ f[0] = init
               /\ \A k \in 0 .. n - 1 : f[k + 1] = Store(f[k], file[k + 1])
               /\ StoreAll(init, file) = f[n]
  BY <1>2, FillSteps
<1> DEFINE Good == {k \in Nat : k <= n => Filled(file, D, f[k], k)}
<1>4. 0 \in Good
  <2>1. BaseAt(file, 0) = 0
    BY DEF BaseAt
  <2>2. \A a : LastByte(file, 0, a) = Erased
    <3>1. \A a : Covered(file, 0, a) = {}
      BY DEF Covered
    <3> QED BY <3>1 DEF LastByte
  <2> QED BY <1>2, <1>3, <2>1, <2>2 DEF Filled
<1>5. ASSUME NEW k \in Nat, k \in Good PROVE k + 1 \in Good
  <2>1. SUFFICES ASSUME k + 1 <= n PROVE Filled(file, D, f[k + 1], k + 1)
    OBVIOUS
  <2>2. k \in 0 .. n - 1 /\ Filled(file, D, f[k], k)
    BY <1>1, <1>5, <2>1
  <2>3. f[k + 1] = Store(f[k], file[k + 1])
    BY <1>3, <2>2
  <2>4. Filled(file, D, Store(f[k], file[k + 1]), k + 1)
    BY <2>2, StoreFilled
  <2> QED BY <2>3, <2>4
<1>6. Nat \subseteq Good
  <2> HIDE DEF Good
  <2> QED BY <1>4, <1>5, Induct
<1> QED BY <1>1, <1>3, <1>6

-----------------------------------------------------------------------------
\* What LoadFile makes of one file.
ImageRight(file, image) ==
  /\ \A i \in DOMAIN file :
       file[i].type = "data" /\ file[i].ok /\ ~ IsShort(file[i]) /\ file[i].count > 0 =>
         LET a == BaseAt(file, i) + file[i].addr
         IN  image.base <= a /\ a + file[i].count <= image.base + Cardinality(DOMAIN image.bytes)
  /\ \A o \in DOMAIN image.bytes :
       image.bytes[o] = IF Covering(file, image.base + o) = {} THEN Erased
                        ELSE Described(file, image.base + o)

LEMMA LoadFileRight ==
  ASSUME NEW file \in Seq(HexRecord), Within32Bits(file), LoadFile(file).loaded
  PROVE  ImageRight(file, LoadFile(file))
<1> DEFINE x     == Extent(file)
           image == LoadFile(file)
           D     == 0 .. x.max - x.min - 1
           init  == [base |-> 0, min |-> x.min, bytes |-> [o \in D |-> Erased]]
           full  == StoreAll(init, file)
<1>1. Bounds(file, x, Len(file)) /\ x.min \in Nat /\ x.max \in Nat
  BY ExtentBounds DEF Bounds, Extents
<1>2. x.min < x.max
      /\ image = [loaded |-> TRUE, base |-> x.min, bytes |-> Fill(file, x)]
  <2>1. ~ NoImage.loaded
    BY DEF NoImage
  <2> QED BY <1>1, <2>1 DEF LoadFile
<1>3. Filled(file, D, full, Len(file))
  <2>1. D \in SUBSET Nat
    BY <1>1
  <2> HIDE DEF D
  <2> QED BY <2>1, FillRight
<1>4. Fill(file, x) = full.bytes
  BY DEF Fill, StoreAll
<1> HIDE DEF x, full
<1>5. image.base = x.min /\ image.bytes = full.bytes
  BY <1>2, <1>4
<1>6. DOMAIN image.bytes = D
  BY <1>3, <1>5 DEF Filled, Fills
<1>7. x.min + Cardinality(DOMAIN image.bytes) = x.max
  <2>1. 0 \in Int /\ x.max - x.min - 1 \in Int
    BY <1>1
  <2>2. Cardinality(D) = IF 0 > x.max - x.min - 1 THEN 0 ELSE x.max - x.min - 1 - 0 + 1
    BY <2>1, FS_Interval
  <2>3. Cardinality(D) = x.max - x.min
    <3> HIDE DEF D
    <3> QED BY <1>1, <1>2, <2>2
  <2> QED BY <1>1, <1>6, <2>3
<1> HIDE DEF image
<1>8. ASSUME NEW i \in DOMAIN file, file[i].type = "data", file[i].count > 0
      PROVE  /\ image.base <= BaseAt(file, i) + file[i].addr
             /\ BaseAt(file, i) + file[i].addr + file[i].count
                  <= image.base + Cardinality(DOMAIN image.bytes)
  <2>1. i \in 1 .. Len(file) /\ IsData(file[i])
    BY <1>8 DEF IsData
  <2>2. x.min <= From(file, i) /\ To(file, i) <= x.max
    BY <1>1, <2>1 DEF Bounds
  <2> QED BY <1>5, <1>7, <2>2 DEF From, To
<1>9. ASSUME NEW o \in DOMAIN image.bytes
      PROVE  image.bytes[o] = IF Covering(file, image.base + o) = {} THEN Erased
                              ELSE Described(file, image.base + o)
  <2> DEFINE a == image.base + o
  <2>1. image.bytes[o] = LastByte(file, Len(file), a)
    <3>1. full.bytes[o] = LastByte(file, Len(file), full.min + o) /\ full.min = x.min
      BY <1>3, <1>6 DEF Filled, x
    <3> QED BY <1>5, <3>1
  <2> HIDE DEF a
  <2>2. Covered(file, Len(file), a) = Covering(file, a)
    BY DEF Covered, Covering
  <2>3. LastByte(file, Len(file), a) = IF Covering(file, a) = {} THEN Erased
                                       ELSE Described(file, a)
    BY <2>2 DEF LastByte, ByteOf, Described
  <2> QED BY <2>1, <2>3 DEF a
<1> QED BY <1>8, <1>9 DEF ImageRight, image

-----------------------------------------------------------------------------
\* g_hexLoader holds the image of a file it was given, or none.
FlashListed == flash \in {NoName} \cup DOMAIN HexFiles

LEMMA FlashStep ==
  ASSUME FlashListed, [Next]_vars
  PROVE  FlashListed'
<1>1. CASE \E hex \in DOMAIN HexFiles : HandleLaunchNoImage(hex)
  BY <1>1 DEF HandleLaunchNoImage, FlashListed
<1>2. CASE \E hex \in DOMAIN HexFiles, map \in DOMAIN MapFiles : Loads(hex, map)
  BY <1>2 DEF Loads, FlashListed
<1>3. CASE UNCHANGED flash
  BY <1>3 DEF FlashListed
<1>4. Launches => \/ \E hex \in DOMAIN HexFiles : HandleLaunchNoImage(hex)
                  \/ \E hex \in DOMAIN HexFiles, map \in DOMAIN MapFiles : Loads(hex, map)
  BY DEF Launches, HandleLaunch, HandleLaunchNoTarget
<1>5. TargetStops \/ ClientReads => UNCHANGED flash
  BY DEF TargetStops, ClientReads
<1>6. Reads => UNCHANGED flash
  BY DEF Reads, HandleScopes, HandleVariables, HandleEvaluate, HandleReadMemory,
         HandleDisassemble, Answer
<1>7. Edits => UNCHANGED flash
  BY DEF Edits, HandleSetExpression, HandleSetVariable, HandleWriteMemory, Edit
<1>8. UNCHANGED vars => UNCHANGED flash
  BY DEF vars
<1> QED BY <1>1, <1>2, <1>3, <1>4, <1>5, <1>6, <1>7, <1>8 DEF Next

\* Whatever files are launched, the image that is loaded has at each address the
\* byte of the last good record that covers it, and elsewhere erased flash, and
\* loses no byte of a good record (HexLoader::LoadFile).
THEOREM ImageHolds == Spec => []HexImageRight
<1>1. Init => FlashListed
  BY DEF Init, FlashListed
<1>2. FlashListed /\ [Next]_vars => FlashListed'
  BY FlashStep
<1>3. FlashListed => HexImageRight
  <2> SUFFICES ASSUME FlashListed, Image.loaded, Within32Bits(HexFiles[flash])
               PROVE  ImageRight(HexFiles[flash], Image)
    BY DEF HexImageRight, ImageRight
  <2>1. ~ NoImage.loaded
    BY DEF NoImage
  <2>2. flash # NoName /\ flash \in DOMAIN HexFiles
    BY <2>1 DEF FlashListed, Image
  <2>3. Image = LoadFile(HexFiles[flash])
    BY <2>2 DEF Image, Images
  <2>4. HexFiles[flash] \in Seq(HexRecord)
    BY <2>2, FilesAssumption
  <2> QED BY <2>3, <2>4, LoadFileRight
<1> QED BY <1>1, <1>2, <1>3, PTL DEF Spec

-----------------------------------------------------------------------------
\* The answer to a watch still says what the name means: nothing that a name
\* stands for changes before the response is looked at.
WatchKept ==
  reply.kind = "evaluate" =>
    LET place == Evaluated(Table, reply.name, cachedPC)
    IN  reply.value = IF place = None THEN 0 ELSE Shown(mem, place, cachedPC)

LEMMA WatchStep ==
  ASSUME WatchKept, [Next]_vars
  PROVE  WatchKept'
<1>1. CASE reply' = NoReply
  BY <1>1 DEF WatchKept, NoReply
<1>2. Launches => reply' = NoReply
  BY DEF Launches, HandleLaunchNoImage, HandleLaunchNoTarget, HandleLaunch, Loads
<1>3. TargetStops \/ ClientReads => reply' = NoReply
  BY DEF TargetStops, ClientReads
<1>4. Edits => reply' = NoReply
  BY DEF Edits, HandleSetExpression, HandleSetVariable, HandleWriteMemory, Edit
<1>5. CASE UNCHANGED <<symtab, mem, cachedPC>> /\ reply'.kind # "evaluate"
  BY <1>5 DEF WatchKept
<1>6. HandleScopes \/ (\E scope \in Scopes : HandleVariables(scope)) =>
        UNCHANGED <<symtab, mem, cachedPC>> /\ reply'.kind # "evaluate"
  BY DEF HandleScopes, HandleVariables, Answer
<1>7. ASSUME NEW r, HandleReadMemory(r) \/ HandleDisassemble(r)
      PROVE  UNCHANGED <<symtab, mem, cachedPC>> /\ reply'.kind # "evaluate"
  BY <1>7 DEF HandleReadMemory, HandleDisassemble, Answer
<1>8. ASSUME NEW name \in Names, HandleEvaluate(name) PROVE WatchKept'
  <2> DEFINE place == Evaluated(Table, name, cachedPC)
  <2>1. /\ reply' = [kind |-> "evaluate", name |-> name, found |-> place # None,
                     value |-> IF place = None THEN 0 ELSE Shown(mem, place, cachedPC)]
        /\ UNCHANGED <<symtab, mem, cachedPC>>
    BY <1>8 DEF HandleEvaluate, Answer
  <2>2. Table' = Table
    BY <2>1 DEF Table
  <2>3. /\ reply'.name = name
        /\ reply'.value = IF place = None THEN 0 ELSE Shown(mem, place, cachedPC)
    BY <2>1
  <2>4. Evaluated(Table', reply'.name, cachedPC') = place /\ mem' = mem /\ cachedPC' = cachedPC
    BY <2>1, <2>2, <2>3
  <2> HIDE DEF place
  <2> QED BY <2>3, <2>4, Zenon DEF WatchKept
<1>9. CASE UNCHANGED vars
  <2>1. /\ reply' = reply /\ mem' = mem /\ cachedPC' = cachedPC /\ symtab' = symtab
    BY <1>9 DEF vars
  <2>2. Table' = Table
    BY <2>1 DEF Table
  <2> QED BY <2>1, <2>2 DEF WatchKept
<1> QED BY <1>1, <1>2, <1>3, <1>4, <1>5, <1>6, <1>7, <1>8, <1>9 DEF Next, Reads

\* A name that has a meaning as a local, and none as a built-in, is a local in
\* every order that tries the locals right after the built-in names.
LEMMA LocalFirst ==
  ASSUME NEW t, NEW name, NEW pc, NEW order, NEW n \in Nat,
         DOMAIN order = 1 .. n, n >= 5,
         order[1] = "pc", order[2] = "Rn", order[3] = "dptr", order[4] = "sfr", order[5] = "local",
         \A kind \in {"pc", "Rn", "dptr", "sfr"} : Meaning(kind, t, name, pc) = None,
         Meaning("local", t, name, pc) # None
  PROVE  Resolve(order, t, name, pc) = Meaning("local", t, name, pc)
<1> DEFINE has == {i \in DOMAIN order : Meaning(order[i], t, name, pc) # None}
<1>1. 5 \in has /\ has \in SUBSET Nat
  OBVIOUS
<1>2. \A i \in has : 5 <= i
  <2>1. 1 \notin has /\ 2 \notin has /\ 3 \notin has /\ 4 \notin has
    OBVIOUS
  <2>2. \A i \in has : i \in Nat /\ i >= 1
    OBVIOUS
  <2> HIDE DEF has
  <2> QED BY <2>1, <2>2
<1>3. Resolve(order, t, name, pc)
        = IF has = {} THEN None ELSE Meaning(order[Min(has)], t, name, pc)
  BY DEF Resolve
<1> HIDE DEF has
<1>4. Min(has) = 5
  <2>1. Min(has) \in has /\ \A i \in has : Min(has) <= i
    BY <1>1, MinNat
  <2>2. Min(has) \in Nat /\ Min(has) <= 5 /\ 5 <= Min(has)
    BY <1>1, <1>2, <2>1
  <2> QED BY <2>2
<1> QED BY <1>1, <1>3, <1>4

LEMMA WatchAgrees ==
  ASSUME WatchKept
  PROVE  WatchAgreesWithPanel
<1> DEFINE row(name) == RowTarget(Table, "locals", name, cachedPC)
<1> SUFFICES ASSUME NEW name \in Names, row(name) # None, ~ BuiltIn(name)
             PROVE  /\ SetTarget(Table, name, cachedPC) = row(name)
                    /\ reply.kind = "evaluate" /\ reply.name = name =>
                         reply.value = Shown(mem, row(name), cachedPC)
  BY DEF WatchAgreesWithPanel
<1>1. row(name) = Meaning("local", Table, name, cachedPC)
  BY DEF RowTarget
<1>2. \A kind \in {"pc", "Rn", "dptr", "sfr"} : Meaning(kind, Table, name, cachedPC) = None
  BY DEF BuiltIn
<1> HIDE DEF row
<1>3. SetTarget(Table, name, cachedPC) = row(name)
  <2>1. /\ DOMAIN SetOrder = 1 .. 7
        /\ SetOrder[1] = "pc" /\ SetOrder[2] = "Rn" /\ SetOrder[3] = "dptr"
        /\ SetOrder[4] = "sfr" /\ SetOrder[5] = "local"
    BY DEF SetOrder
  <2>2. Resolve(SetOrder, Table, name, cachedPC) = Meaning("local", Table, name, cachedPC)
    <3>1. 7 \in Nat /\ 7 >= 5
      OBVIOUS
    <3> QED BY <1>1, <1>2, <2>1, <3>1, LocalFirst
  <2> QED BY <1>1, <2>2 DEF SetTarget
<1>4. Evaluated(Table, name, cachedPC) = row(name)
  <2>1. /\ DOMAIN EvaluateOrder = 1 .. 9
        /\ EvaluateOrder[1] = "pc" /\ EvaluateOrder[2] = "Rn" /\ EvaluateOrder[3] = "dptr"
        /\ EvaluateOrder[4] = "sfr" /\ EvaluateOrder[5] = "local"
    BY DEF EvaluateOrder
  <2>2. Resolve(EvaluateOrder, Table, name, cachedPC) = Meaning("local", Table, name, cachedPC)
    <3>1. 9 \in Nat /\ 9 >= 5
      OBVIOUS
    <3> QED BY <1>1, <1>2, <2>1, <3>1, LocalFirst
  <2> QED BY <1>1, <2>2 DEF Evaluated
<1>5. ASSUME reply.kind = "evaluate", reply.name = name
      PROVE  reply.value = Shown(mem, row(name), cachedPC)
  BY <1>4, <1>5 DEF WatchKept
<1> QED BY <1>3, <1>5

\* Whatever the program and its symbols, a watch shows the local that the panel
\* shows under that name, and an edit of the watch goes where an edit of the row
\* goes (HandleEvaluate, HandleSetExpression, HandleSetVariable).
THEOREM WatchIsPanel == Spec => []WatchAgreesWithPanel
<1>1. Init => WatchKept
  BY DEF Init, NoReply, WatchKept
<1>2. WatchKept /\ [Next]_vars => WatchKept'
  BY WatchStep
<1>3. WatchKept => WatchAgreesWithPanel
  BY WatchAgrees
<1> QED BY <1>1, <1>2, <1>3, PTL DEF Spec

-----------------------------------------------------------------------------
\* The parser of the map file: its fold unrolled, as for the HEX file.  Its
\* states have no type of their own, so that the function is built here.
ParseAll(file) == FoldLeft(Parse, Start, file)

LEMMA ParseSteps ==
  ASSUME NEW file \in Seq(MapRecord)
  PROVE  \E f : /\ f[0] = Start
                /\ \A k \in 0 .. Len(file) - 1 : f[k + 1] = Parse(f[k], file[k + 1])
                /\ ParseAll(file) = f[Len(file)]
<1> DEFINE n == Len(file)
           Step1(g, s) == IF s = {} THEN Start ELSE Parse(g[s \ {Max(s)}], file[Max(s)])
           Is(g, k) == g = [s \in SUBSET (1 .. k) |-> Step1(g, s)]
<1>1. n \in Nat /\ DOMAIN file = 1 .. n
  OBVIOUS
<1>2. ParseAll(file) = (CHOOSE g : Is(g, n))[1 .. n]
  BY <1>1 DEF ParseAll, FoldLeft, MapThenFoldSet
<1>3. \E g : Is(g, n)
  <2> DEFINE Good == {k \in Nat : \E g : Is(g, k)}
  <2>1. 0 \in Good
    <3> DEFINE g == [s \in SUBSET (1 .. 0) |-> Start]
    <3>1. \A s \in SUBSET (1 .. 0) : s = {}
      OBVIOUS
    <3>2. \A s \in SUBSET (1 .. 0) : Step1(g, s) = Start
      BY <3>1
    <3> HIDE DEF Step1
    <3>3. Is(g, 0)
      BY <3>2
    <3> HIDE DEF Is
    <3> QED BY <3>3
  <2>2. ASSUME NEW k \in Nat, NEW g, Is(g, k) PROVE \E h : Is(h, k + 1)
    <3> DEFINE h == [s \in SUBSET (1 .. k + 1) |->
                       IF s \in SUBSET (1 .. k) THEN g[s] ELSE Parse(g[s \ {k + 1}], file[k + 1])]
    <3>1. ASSUME NEW s \in SUBSET (1 .. k + 1) PROVE h[s] = Step1(h, s)
      <4> DEFINE m == Max(s)
      <4>1. s # {} => m \in s /\ \A i \in s : i <= m
        <5>1. s \in SUBSET Nat /\ k + 1 \in Nat /\ \A i \in s : i <= k + 1
          OBVIOUS
        <5> QED BY <5>1, MaxNat
      <4>2. CASE s \in SUBSET (1 .. k)
        <5>1. h[s] = g[s] /\ g[s] = Step1(g, s)
          <6> HIDE DEF Step1
          <6> QED BY <2>2, <4>2
        <5>2. s # {} => h[s \ {m}] = g[s \ {m}]
          <6>1. s \ {m} \in SUBSET (1 .. k) /\ s \ {m} \in SUBSET (1 .. k + 1)
            BY <4>2
          <6> QED BY <6>1
        <5> HIDE DEF h
        <5> QED BY <5>1, <5>2
      <4>3. CASE s \notin SUBSET (1 .. k)
        <5>1. k + 1 \in s
          BY <4>3
        <5>2. m = k + 1
          <6>1. m \in 1 .. k + 1 /\ k + 1 <= m
            BY <4>1, <5>1
          <6> QED BY <6>1
        <5>3. h[s] = Parse(g[s \ {k + 1}], file[k + 1])
          BY <4>3
        <5>4. h[s \ {k + 1}] = g[s \ {k + 1}]
          <6>1. s \ {k + 1} \in SUBSET (1 .. k) /\ s \ {k + 1} \in SUBSET (1 .. k + 1)
            OBVIOUS
          <6> QED BY <6>1
        <5> HIDE DEF h, m
        <5> QED BY <5>1, <5>2, <5>3, <5>4 DEF m
      <4> QED BY <4>2, <4>3
    <3>2. h = [s \in SUBSET (1 .. k + 1) |-> h[s]]
      OBVIOUS
    <3> HIDE DEF h, Step1
    <3>3. Is(h, k + 1)
      BY <3>1, <3>2
    <3> HIDE DEF Is
    <3> QED BY <3>3
  <2> HIDE DEF Is
  <2>3. \A k \in Nat : k \in Good => k + 1 \in Good
    BY <2>2
  <2>4. Nat \subseteq Good
    <3> HIDE DEF Good
    <3> QED BY <2>1, <2>3, Induct
  <2> QED BY <1>1, <2>4
<1> DEFINE it == CHOOSE g : Is(g, n)
           f  == [k \in 0 .. n |-> it[1 .. k]]
<1>4. Is(it, n)
  BY <1>3
<1>5. \A s \in SUBSET (1 .. n) : it[s] = Step1(it, s)
  <2> HIDE DEF it, Step1
  <2> QED BY <1>4
<1>6. ParseAll(file) = it[1 .. n]
  BY <1>2
<1> HIDE DEF it, Is
<1>7. f[0] = Start
  <2>1. f[0] = it[1 .. 0] /\ 1 .. 0 = {}
    BY <1>1
  <2> QED BY <1>5, <2>1
<1>8. ASSUME NEW k \in 0 .. n - 1 PROVE f[k + 1] = Parse(f[k], file[k + 1])
  <2>1. f[k + 1] = it[1 .. k + 1] /\ f[k] = it[1 .. k]
    BY <1>1
  <2> HIDE DEF f
  <2>2. Max(1 .. k + 1) = k + 1 /\ (1 .. k + 1) \ {k + 1} = 1 .. k
    <3>1. k \in Nat
      BY <1>1
    <3> QED BY <3>1, MaxInitial
  <2>3. 1 .. k + 1 \in SUBSET (1 .. n) /\ 1 .. k + 1 # {}
    <3>1. \A i \in 1 .. k + 1 : i \in 1 .. n
      BY <1>1
    <3>2. 1 \in 1 .. k + 1
      BY <1>1
    <3> QED BY <3>1, <3>2
  <2> QED BY <1>5, <2>1, <2>2, <2>3, Zenon
<1>9. ParseAll(file) = f[n]
  BY <1>1, <1>6
<1> HIDE DEF f
<1> QED BY <1>7, <1>8, <1>9

\* What every table of lines is: addresses and lines are numbers, and one of
\* them is the greatest line.
BoundedBy(lines, m) == \A e \in lines : e.addr \in Nat /\ e.line \in Nat /\ e.line <= m
LinesOK(lines)      == \E m \in Nat : BoundedBy(lines, m)

Parser(p) ==
  /\ {"table", "globals", "file", "inProc", "start", "last", "pending"} \subseteq DOMAIN p
  /\ {"symbols", "lines", "locals", "globals", "bits"} \subseteq DOMAIN p.table
  /\ LinesOK(p.table.lines)

LEMMA MoreLines ==
  ASSUME NEW lines, LinesOK(lines), NEW e, e.addr \in Nat, e.line \in Nat
  PROVE  LinesOK(lines \cup {e})
<1>1. PICK m \in Nat : BoundedBy(lines, m)
  BY DEF LinesOK
<1> DEFINE most == IF e.line > m THEN e.line ELSE m
<1>2. most \in Nat /\ m <= most /\ e.line <= most
  BY <1>1
<1> HIDE DEF most
<1>3. BoundedBy(lines \cup {e}, most)
  BY <1>1, <1>2 DEF BoundedBy
<1> QED BY <1>2, <1>3 DEF LinesOK

LEMMA MapRecordFields ==
  ASSUME NEW r \in MapRecord, r.rec \in {"code", "line", "label"}
  PROVE  r.addr \in Nat /\ (r.rec = "line" => r.line \in Int)
BY DEF MapRecord

LEMMA ParseLines ==
  ASSUME NEW p, Parser(p), NEW r \in MapRecord
  PROVE  Parser(Parse(p, r))
<1> DEFINE Fields == {"table", "globals", "file", "inProc", "start", "last", "pending"}
           Tab    == {"symbols", "lines", "locals", "globals", "bits"}
           Same(q) == /\ Fields \subseteq DOMAIN q /\ Tab \subseteq DOMAIN q.table
                      /\ q.table.lines = p.table.lines
<1>1. Fields \subseteq DOMAIN p /\ Tab \subseteq DOMAIN p.table /\ LinesOK(p.table.lines)
  BY DEF Parser
<1>2. ASSUME NEW q, Same(q) PROVE Parser(q)
  BY <1>1, <1>2 DEF Parser
<1> HIDE DEF Parser
<1>3. CASE r.rec = "module"
  BY <1>1, <1>2, <1>3 DEF Parse, Module
<1>4. CASE r.rec = "proc"
  BY <1>1, <1>2, <1>4 DEF Parse, Proc
<1>5. CASE r.rec = "endproc"
  <2>1. Same(EndProc(p))
    BY <1>1 DEF EndProc
  <2> QED BY <1>2, <1>5, <2>1 DEF Parse
<1>6. CASE r.rec = "local"
  <2>1. Same(Local(p, r))
    BY <1>1 DEF Local
  <2> QED BY <1>2, <1>6, <2>1 DEF Parse
<1>7. CASE r.rec = "global"
  <2>1. Same(Global(p, r))
    BY <1>1 DEF Global
  <2> QED BY <1>2, <1>7, <2>1 DEF Parse
<1>8. CASE r.rec = "bit"
  <2>1. Same(Bit(p, r))
    BY <1>1 DEF Bit
  <2> QED BY <1>2, <1>8, <2>1 DEF Parse
<1>9. CASE r.rec \in {"code", "line", "label"}
  <2> DEFINE q == IF p.inProc /\ p.start = 0 THEN [p EXCEPT !.start = r.addr] ELSE p
  <2>1. Same(q) /\ q.table = p.table
    BY <1>1
  <2>2. Parse(p, r) = CodeLine(p, r)
    BY <1>9 DEF Parse
  <2>3. CodeLine(p, r) =
          CASE r.rec = "code" -> [q EXCEPT !.table.symbols = (r.addr :> r.name) @@ @]
            [] r.rec = "line" /\ p.file # NoName /\ r.line > 0 ->
                 [q EXCEPT !.table.lines = @ \cup {[addr |-> r.addr, file |-> p.file, line |-> r.line]},
                           !.last = IF p.inProc THEN r.addr ELSE @]
            [] OTHER -> q
    BY DEF CodeLine
  <2> HIDE DEF q
  <2>4. CASE r.rec = "code"
    <3>1. CodeLine(p, r) = [q EXCEPT !.table.symbols = (r.addr :> r.name) @@ @]
      BY <2>3, <2>4
    <3>2. Same([q EXCEPT !.table.symbols = (r.addr :> r.name) @@ @])
      BY <2>1
    <3> QED BY <1>2, <2>2, <3>1, <3>2
  <2>5. CASE r.rec = "line" /\ p.file # NoName /\ r.line > 0
    <3> DEFINE e == [addr |-> r.addr, file |-> p.file, line |-> r.line]
               c == [q EXCEPT !.table.lines = @ \cup {e}, !.last = IF p.inProc THEN r.addr ELSE @]
    <3>1. CodeLine(p, r) = c
      BY <2>3, <2>5
    <3>2. e.addr \in Nat /\ e.line \in Nat
      BY <2>5, MapRecordFields
    <3>3. LinesOK(p.table.lines \cup {e})
      <4> HIDE DEF e
      <4> QED BY <1>1, <3>2, MoreLines
    <3>4. Fields \subseteq DOMAIN c /\ Tab \subseteq DOMAIN c.table
          /\ c.table.lines = p.table.lines \cup {e}
      <4> HIDE DEF e
      <4> QED BY <2>1
    <3> HIDE DEF c, e
    <3>5. Parser(c)
      BY <3>3, <3>4 DEF Parser
    <3> QED BY <2>2, <3>1, <3>5
  <2>6. CASE r.rec # "code" /\ ~ (r.rec = "line" /\ p.file # NoName /\ r.line > 0)
    <3>1. CodeLine(p, r) = q
      BY <2>3, <2>6
    <3> QED BY <1>2, <2>1, <2>2, <3>1
  <2> QED BY <2>4, <2>5, <2>6
<1>10. r.rec \in {"module", "proc", "endproc", "local", "global", "bit", "code", "line", "label"}
  BY DEF MapRecord
<1> QED BY <1>3, <1>4, <1>5, <1>6, <1>7, <1>8, <1>9, <1>10

LEMMA ParsedLines ==
  ASSUME NEW file \in Seq(MapRecord)
  PROVE  Parser(ParseAll(file))
<1> DEFINE n == Len(file)
<1>1. n \in Nat /\ \A i \in 1 .. n : file[i] \in MapRecord
  OBVIOUS
<1>2. PICK f : /\ f[0] = Start
               /\ \A k \in 0 .. n - 1 : f[k + 1] = Parse(f[k], file[k + 1])
               /\ ParseAll(file) = f[n]
  BY ParseSteps
<1> DEFINE Good == {k \in Nat : k <= n => Parser(f[k])}
<1>3. 0 \in Good
  <2>1. LinesOK({})
    BY DEF LinesOK, BoundedBy
  <2>2. /\ Start.table = EmptyTable /\ EmptyTable.lines = {}
        /\ {"symbols", "lines", "locals", "globals", "bits"} \subseteq DOMAIN EmptyTable
        /\ {"table", "globals", "file", "inProc", "start", "last", "pending"} \subseteq DOMAIN Start
    BY DEF Start, EmptyTable
  <2>3. Parser(Start)
    BY <2>1, <2>2 DEF Parser
  <2> QED BY <1>2, <2>3
<1>4. ASSUME NEW k \in Nat, k \in Good PROVE k + 1 \in Good
  <2>1. SUFFICES ASSUME k + 1 <= n PROVE Parser(f[k + 1])
    OBVIOUS
  <2>2. k \in 0 .. n - 1 /\ Parser(f[k]) /\ file[k + 1] \in MapRecord
    BY <1>1, <1>4, <2>1
  <2> QED BY <1>2, <2>2, ParseLines
<1>5. Nat \subseteq Good
  <2> HIDE DEF Good
  <2> QED BY <1>3, <1>4, Induct
<1> QED BY <1>1, <1>2, <1>5

\* The lines of a table that Load makes.
LEMMA LoadLines ==
  ASSUME NEW file \in Seq(MapRecord)
  PROVE  LinesOK(Load(file).lines)
<1> DEFINE p == ParseAll(file)
           t == ParseM51(file)
<1>1. Parser(p)
  BY ParsedLines
<1>2. t = [p.table EXCEPT !.globals = Sized(p.globals)]
  BY DEF ParseM51, ParseAll
<1> HIDE DEF p, t
<1>3. t.lines = p.table.lines /\ LinesOK(t.lines) /\ {"lines"} \subseteq DOMAIN t
  BY <1>1, <1>2 DEF Parser
<1> DEFINE e == [addr |-> 0, file |-> StartupLine.file, line |-> StartupLine.line]
<1>4. e.addr \in Nat /\ e.line \in Nat
  BY StartupAssumption
<1> HIDE DEF e
<1>5. LinesOK(t.lines \cup {e})
  BY <1>3, <1>4, MoreLines
<1>6. Load(file) = t \/ Load(file) = [t EXCEPT !.lines = @ \cup {e}]
  BY DEF Load, t, e
<1>7. CASE Load(file) = t
  BY <1>3, <1>7
<1>8. CASE Load(file) = [t EXCEPT !.lines = @ \cup {e}]
  <2>1. Load(file).lines = t.lines \cup {e}
    BY <1>3, <1>8
  <2> QED BY <1>5, <2>1
<1> QED BY <1>6, <1>7, <1>8

-----------------------------------------------------------------------------
\* Lookups in a table of lines.
OneFile(lines) == \A e, f \in lines : e.addr = f.addr => e.file = f.file

LEMMA LastEntryRight ==
  ASSUME NEW t, LinesOK(t.lines), NEW g \in t.lines
  PROVE  /\ LastEntry(t, g.addr) \in EntriesAt(t, g.addr)
         /\ \A f \in EntriesAt(t, g.addr) : f.line <= LastEntry(t, g.addr).line
<1> DEFINE at    == EntriesAt(t, g.addr)
           lines == {f.line : f \in at}
<1>1. PICK m \in Nat : BoundedBy(t.lines, m)
  BY DEF LinesOK
<1>2. \A f \in at : f \in t.lines /\ f.line \in Nat /\ f.line <= m
  BY <1>1 DEF EntriesAt, BoundedBy
<1>3. g \in at
  BY DEF EntriesAt
<1> HIDE DEF at
<1>4. lines \in SUBSET Nat /\ lines # {} /\ \A k \in lines : k <= m
  BY <1>2, <1>3
<1> HIDE DEF lines
<1>5. PICK l \in lines : \A k \in lines : k <= l
  BY <1>4, GreatestNat
<1>6. PICK e \in at : e.line = l
  BY <1>5 DEF lines
<1>7. \A f \in at : f.line \in lines
  BY DEF lines
<1>8. \A f \in at : e.line >= f.line
  BY <1>2, <1>5, <1>6, <1>7
<1>9. LastEntry(t, g.addr) \in at /\ \A f \in at : LastEntry(t, g.addr).line >= f.line
  <2>1. LastEntry(t, g.addr) = CHOOSE d \in at : \A f \in at : d.line >= f.line
    BY DEF LastEntry, at
  <2> QED BY <1>6, <1>8, <2>1
<1>10. \A f \in at : f.line <= LastEntry(t, g.addr).line
  BY <1>2, <1>9
<1> QED BY <1>9, <1>10 DEF at

LEMMA EntryAfterRight ==
  ASSUME NEW t, LinesOK(t.lines), NEW addr \in Nat, NextLineAddr(t, addr) # NoAddr
  PROVE  /\ EntryAfter(t, addr) \in t.lines
         /\ EntryAfter(t, addr).addr \in Nat /\ EntryAfter(t, addr).addr > addr
<1> DEFINE above == Above(LineAddrs(t), addr)
           next  == NextLineAddr(t, addr)
           at    == EntriesAt(t, next)
           lines == {f.line : f \in at}
<1>1. \A f \in t.lines : f.addr \in Nat /\ f.line \in Nat
  BY DEF LinesOK, BoundedBy
<1>2. above # {} /\ next = Min(above)
  BY DEF NextLineAddr, Following
<1>3. above \in SUBSET Nat /\ \A a \in above : a > addr /\ \E f \in t.lines : f.addr = a
  BY <1>1 DEF Above, LineAddrs
<1> HIDE DEF above, next
<1>4. next \in above
  BY <1>2, <1>3, MinNat
<1>5. PICK f \in t.lines : f.addr = next
  BY <1>3, <1>4
<1>6. f \in at /\ \A g \in at : g \in t.lines /\ g.addr = next /\ g.line \in Nat
  BY <1>1, <1>5 DEF EntriesAt
<1>7. EntryAfter(t, addr) = CHOOSE d \in at : \A g \in at : d.line <= g.line
  BY DEF EntryAfter, next
<1> HIDE DEF at
<1>8. lines \in SUBSET Nat /\ lines # {}
  BY <1>6
<1> HIDE DEF lines
<1>9. PICK l \in lines : \A k \in lines : l <= k
  BY <1>8, LeastNat
<1>10. PICK d \in at : d.line = l
  BY <1>9 DEF lines
<1>11. \A g \in at : g.line \in lines
  BY DEF lines
<1>12. \A g \in at : d.line <= g.line
  BY <1>9, <1>10, <1>11
<1>13. EntryAfter(t, addr) \in at
  BY <1>7, <1>10, <1>12
<1> QED BY <1>1, <1>3, <1>4, <1>6, <1>13

\* A breakpoint on a line and the line of the place it halts at.
LEMMA RoundTrip ==
  ASSUME NEW t, LinesOK(t.lines), OneFile(t.lines), NEW e \in t.lines
  PROVE  LET a == LookupAddress(t, e.file, e.line)
         IN  \E f \in t.lines :
               /\ LookupLine(t, a) = [file |-> f.file, line |-> f.line]
               /\ f.file = e.file /\ f.line >= e.line
               /\ f.addr \in a .. a + PrologueReach
<1> DEFINE a   == LookupAddress(t, e.file, e.line)
           loc == LookupLine(t, a)
           le  == LastEntry(t, a)
           of  == {d.addr : d \in {f \in t.lines : f.line = e.line /\ f.file = e.file}}
<1>1. \A f \in t.lines : f.addr \in Nat /\ f.line \in Nat
  BY DEF LinesOK, BoundedBy
<1>2. of \in SUBSET Nat /\ of # {}
  BY <1>1
<1>3. a = Min(of)
  BY <1>2 DEF LookupAddress
<1>4. a \in of
  <2> HIDE DEF a, of
  <2> QED BY <1>2, <1>3, MinNat
<1> HIDE DEF a
<1>5. PICK g \in t.lines : g.addr = a /\ g.line = e.line /\ g.file = e.file
  BY <1>4
<1>6. a \in Nat /\ a \in LineAddrs(t) /\ e.line \in Nat
  BY <1>1, <1>5 DEF LineAddrs
<1>7. le \in t.lines /\ le.addr = a /\ le.file = e.file /\ e.line <= le.line
      /\ le \in EntriesAt(t, a) /\ g \in EntriesAt(t, a)
  <2>1. le \in EntriesAt(t, a) /\ \A f \in EntriesAt(t, a) : f.line <= le.line
    BY <1>5, LastEntryRight
  <2>2. g \in EntriesAt(t, a)
    BY <1>5 DEF EntriesAt
  <2>3. le \in t.lines /\ le.addr = a
    BY <2>1 DEF EntriesAt
  <2>4. le.file = g.file
    BY <1>5, <2>3 DEF OneFile
  <2> HIDE DEF le
  <2> QED BY <1>5, <2>1, <2>2, <2>3, <2>4
<1>8. Nearest(LineAddrs(t), a) = a
  <2> DEFINE upto == AtMost(LineAddrs(t), a)
  <2>1. upto \in SUBSET Nat /\ a \in upto /\ \A k \in upto : k <= a
    BY <1>1, <1>6 DEF AtMost, LineAddrs
  <2>2. Nearest(LineAddrs(t), a) = IF upto = {} THEN NoAddr ELSE Max(upto)
    BY DEF Nearest
  <2> HIDE DEF upto
  <2>3. Max(upto) \in upto /\ \A k \in upto : k <= Max(upto)
    BY <1>6, <2>1, MaxNat
  <2>4. Max(upto) \in Nat /\ Max(upto) <= a /\ a <= Max(upto)
    BY <2>1, <2>3
  <2> QED BY <1>6, <2>1, <2>2, <2>4
<1>9. loc = [file |-> le.file,
             line |-> IF InPrologue(t, le, a) THEN EntryAfter(t, a).line ELSE le.line]
  <2>1. a # NoAddr /\ ~ (a - a > LineReach)
    BY <1>6, ReachAssumption DEF NoAddr
  <2> HIDE DEF le
  <2> QED BY <1>8, <2>1 DEF LookupLine, le
<1> HIDE DEF loc, le
<1>10. PrologueReach \in Nat
  BY ReachAssumption
<1>11. CASE ~ InPrologue(t, le, a)
  <2>1. loc = [file |-> le.file, line |-> le.line]
    BY <1>9, <1>11
  <2>2. a \in a .. a + PrologueReach
    BY <1>6, <1>10
  <2>3. le.line >= e.line
    BY <1>1, <1>7, <1>6
  <2> QED BY <1>7, <2>1, <2>2, <2>3 DEF loc, a
<1>12. CASE InPrologue(t, le, a)
  <2> DEFINE next == EntryAfter(t, a)
  <2>1. /\ NextLineAddr(t, a) # NoAddr
        /\ next.file = le.file /\ next.line > le.line /\ next.addr - a <= PrologueReach
    BY <1>7, <1>12 DEF InPrologue
  <2>2. next \in t.lines /\ next.addr \in Nat /\ next.addr > a
    BY <1>6, <2>1, EntryAfterRight
  <2>3. loc = [file |-> next.file, line |-> next.line] /\ next.file = e.file
    BY <1>7, <1>9, <1>12, <2>1
  <2> HIDE DEF next
  <2>4. next.addr \in a .. a + PrologueReach
    BY <1>6, <1>10, <2>1, <2>2
  <2>5. next.line >= e.line
    BY <1>1, <1>6, <1>7, <2>1, <2>2
  <2> QED BY <1>7, <2>1, <2>2, <2>3, <2>4, <2>5 DEF loc, a
<1> QED BY <1>11, <1>12 DEF loc, a

\* g_symtab holds the tables of a file it was given, or none.
SymtabListed == symtab \in {NoName} \cup DOMAIN MapFiles

LEMMA SymtabStep ==
  ASSUME SymtabListed, [Next]_vars
  PROVE  SymtabListed'
<1>1. CASE \E hex \in DOMAIN HexFiles, map \in DOMAIN MapFiles : Loads(hex, map)
  BY <1>1 DEF Loads, SymtabListed
<1>2. CASE UNCHANGED symtab
  BY <1>2 DEF SymtabListed
<1>3. Launches => \/ UNCHANGED symtab
                  \/ \E hex \in DOMAIN HexFiles, map \in DOMAIN MapFiles : Loads(hex, map)
  BY DEF Launches, HandleLaunch, HandleLaunchNoTarget, HandleLaunchNoImage
<1>4. TargetStops \/ ClientReads => UNCHANGED symtab
  BY DEF TargetStops, ClientReads
<1>5. Reads => UNCHANGED symtab
  BY DEF Reads, HandleScopes, HandleVariables, HandleEvaluate, HandleReadMemory,
         HandleDisassemble, Answer
<1>6. Edits => UNCHANGED symtab
  BY DEF Edits, HandleSetExpression, HandleSetVariable, HandleWriteMemory, Edit
<1>7. UNCHANGED vars => UNCHANGED symtab
  BY DEF vars
<1> QED BY <1>1, <1>2, <1>3, <1>4, <1>5, <1>6, <1>7 DEF Next

\* Whatever map files are loaded, a breakpoint set on a line halts where the
\* stack trace shows that line, or a later one of its file at the same address or
\* past the prologue that begins there (LookupAddress, LookupLine).
THEOREM LinesThereAndBack == Spec => []LinesRoundTrip
<1>1. Init => SymtabListed
  BY DEF Init, SymtabListed
<1>2. SymtabListed /\ [Next]_vars => SymtabListed'
  BY SymtabStep
<1>3. SymtabListed => LinesRoundTrip
  <2> SUFFICES ASSUME SymtabListed, NEW e \in Table.lines
               PROVE  LET a == LookupAddress(Table, e.file, e.line)
                      IN  \E f \in Table.lines :
                            /\ LookupLine(Table, a) = [file |-> f.file, line |-> f.line]
                            /\ f.file = e.file /\ f.line >= e.line
                            /\ f.addr \in a .. a + PrologueReach
    BY DEF LinesRoundTrip
  <2>1. EmptyTable.lines = {}
    BY DEF EmptyTable
  <2>2. symtab # NoName /\ symtab \in DOMAIN MapFiles
    BY <2>1 DEF SymtabListed, Table
  <2>3. Table = Tables[symtab] /\ Table = Load(MapFiles[symtab])
    BY <2>2 DEF Table, Tables
  <2>4. LinesOK(Table.lines)
    BY <2>2, <2>3, FilesAssumption, LoadLines
  <2>5. OneFile(Table.lines)
    BY <2>2, <2>3, OneModuleAssumption DEF OneFile
  <2> QED BY <2>4, <2>5, RoundTrip
<1> QED BY <1>1, <1>2, <1>3, PTL DEF Spec

-----------------------------------------------------------------------------
\* The table of lengths and the texts of the disassembler, opcode by opcode.
LEMMA Lengths ==
  ASSUME NEW op \in Opcode
  PROVE  InstructionLength[op] # 1 + Operands[op] <=> op = \h82
BY SMTT(60) DEF InstructionLength, Operands, Opcode, TwoBytes, ThreeBytes, CompareBranches,
   Address16, BitBranches, TwoOperands, Address11, Relative, BitOperand, Immediate, Direct,
   Row, Column

\* ANL C,bit (0x82) is the one instruction whose length the scans of code take
\* for shorter than it is (k8051InstructionLength, Disasm8051).
THEOREM OneLengthIsWrong == Spec => []OnlyAnlBitIsShort
<1>1. \h82 \in Opcode
  BY DEF Opcode
<1>2. {op \in Opcode : InstructionLength[op] # 1 + Operands[op]} = {\h82}
  BY <1>1, Lengths
<1>3. OnlyAnlBitIsShort
  BY <1>2 DEF OnlyAnlBitIsShort
<1> QED BY <1>3, PTL

-----------------------------------------------------------------------------
\* Sized, for variables of different lines: every variable has a rank, which is
\* its place in the order.
VarRecord == [name : STRING, space : {"DATA", "XDATA"}, addr : Nat, at : Nat]
Distinct(vs) == \A v, w \in vs : v.at = w.at => v = w

Earlier(vs, v) == {w \in vs : Before(w, v)}
Rank(vs, v)    == Cardinality(Earlier(vs, v))

LEMMA BeforeIsOrder ==
  ASSUME NEW u \in VarRecord, NEW v \in VarRecord, NEW w \in VarRecord
  PROVE  /\ ~ Before(v, v)
         /\ Before(u, v) /\ Before(v, w) => Before(u, w)
         /\ Before(v, w) \/ Before(w, v) \/ v.at = w.at
<1>1. /\ SpaceOrder["XDATA"] = 1 /\ SpaceOrder["DATA"] = 240
  BY DEF SpaceOrder
<1>2. \A x \in VarRecord : x.space \in {"DATA", "XDATA"} /\ x.addr \in Nat /\ x.at \in Nat
  BY DEF VarRecord
<1> QED BY <1>1, <1>2 DEF Before

LEMMA RankGrows ==
  ASSUME NEW vs \in SUBSET VarRecord, IsFiniteSet(vs), NEW v \in vs, NEW w \in vs,
         Before(v, w)
  PROVE  Rank(vs, v) < Rank(vs, w)
<1>1. Earlier(vs, v) \in SUBSET Earlier(vs, w)
  BY BeforeIsOrder DEF Earlier
<1>2. v \in Earlier(vs, w) /\ v \notin Earlier(vs, v)
  BY BeforeIsOrder DEF Earlier
<1>3. Earlier(vs, w) \in SUBSET vs
  BY DEF Earlier
<1> HIDE DEF Earlier
<1>4. IsFiniteSet(Earlier(vs, w))
  BY <1>3, FS_Subset
<1>5. /\ Cardinality(Earlier(vs, v)) <= Cardinality(Earlier(vs, w))
      /\ Cardinality(Earlier(vs, w)) # Cardinality(Earlier(vs, v))
      /\ IsFiniteSet(Earlier(vs, v))
  BY <1>1, <1>2, <1>4, FS_Subset
<1>6. Cardinality(Earlier(vs, v)) \in Nat /\ Cardinality(Earlier(vs, w)) \in Nat
  BY <1>4, <1>5, FS_CardinalityType
<1> QED BY <1>5, <1>6 DEF Rank

LEMMA Ranks ==
  ASSUME NEW vs \in SUBSET VarRecord, IsFiniteSet(vs), Distinct(vs)
  PROVE  /\ Cardinality(vs) \in Nat
         /\ \A v \in vs : Rank(vs, v) \in 0 .. Cardinality(vs) - 1
         /\ \A v, w \in vs : Rank(vs, v) = Rank(vs, w) => v = w
         /\ \A k \in 0 .. Cardinality(vs) - 1 : \E v \in vs : Rank(vs, v) = k
<1> DEFINE n == Cardinality(vs)
<1>1. n \in Nat
  BY FS_CardinalityType
<1>2. ASSUME NEW v \in vs PROVE Rank(vs, v) \in 0 .. n - 1
  <2>1. Earlier(vs, v) \in SUBSET vs /\ v \notin Earlier(vs, v)
    BY BeforeIsOrder DEF Earlier
  <2> HIDE DEF Earlier
  <2>2. /\ IsFiniteSet(Earlier(vs, v))
        /\ Cardinality(Earlier(vs, v)) <= n
        /\ n # Cardinality(Earlier(vs, v))
    BY <2>1, FS_Subset
  <2>3. Cardinality(Earlier(vs, v)) \in Nat
    BY <2>2, FS_CardinalityType
  <2> QED BY <1>1, <2>2, <2>3 DEF Rank
<1>3. ASSUME NEW v \in vs, NEW w \in vs, v # w PROVE Rank(vs, v) # Rank(vs, w)
  <2>1. Before(v, w) \/ Before(w, v)
    BY <1>3, BeforeIsOrder DEF Distinct
  <2>2. Rank(vs, v) < Rank(vs, w) \/ Rank(vs, w) < Rank(vs, v)
    BY <2>1, RankGrows
  <2> QED BY <1>2, <2>2
<1> DEFINE rank == [v \in vs |-> Rank(vs, v)]
           all  == {rank[v] : v \in vs}
<1>4. Cardinality(all) = n
  <2>1. DOMAIN rank = vs /\ \A v, w \in vs : v # w => rank[v] # rank[w]
    BY <1>3
  <2> HIDE DEF rank
  <2> QED BY <2>1, ImageCount
<1>5. all = 0 .. n - 1
  <2>1. all \in SUBSET (0 .. n - 1)
    BY <1>2
  <2>2. IsFiniteSet(0 .. n - 1) /\ Cardinality(0 .. n - 1) = n
    <3>1. /\ IsFiniteSet(0 .. n - 1)
          /\ Cardinality(0 .. n - 1) = IF 0 > n - 1 THEN 0 ELSE n - 1 - 0 + 1
      <4>1. 0 \in Int /\ n - 1 \in Int
        BY <1>1
      <4> QED BY <4>1, FS_Interval
    <3> QED BY <1>1, <3>1
  <2> HIDE DEF all
  <2> QED BY <1>4, <2>1, <2>2, FS_Subset
<1>6. \A k \in 0 .. n - 1 : \E v \in vs : Rank(vs, v) = k
  BY <1>5
<1> QED BY <1>1, <1>2, <1>3, <1>6

\* A variable in the order, with its size.
SizedAs(v, size) == [name |-> v.name, space |-> v.space, addr |-> v.addr, size |-> size]

IsEntry(z, v) == z = SizedAs(v, z.size) /\ z.size \in {1, 2, 4}

InOrder(vs, s) ==
  /\ s \in [1 .. Cardinality(vs) -> vs]
  /\ \A v \in vs : \E i \in 1 .. Cardinality(vs) : s[i] = v
  /\ \A i, j \in 1 .. Cardinality(vs) : i < j => Before(s[i], s[j])

SizeIn(s, n, i) ==
  IF i < n /\ s[i + 1].space = s[i].space THEN SizeOfGap(s[i + 1].addr - s[i].addr) ELSE 1

LEMMA SizedRight ==
  ASSUME NEW vs \in SUBSET VarRecord, IsFiniteSet(vs), Distinct(vs)
  PROVE  /\ Cardinality(vs) \in Nat
         /\ DOMAIN Sized(vs) = 1 .. Cardinality(vs)
         /\ Sized(vs) = [i \in 1 .. Cardinality(vs) |-> Sized(vs)[i]]
         /\ \E s : /\ InOrder(vs, s)
                   /\ \A i \in 1 .. Cardinality(vs) :
                        /\ IsEntry(Sized(vs)[i], s[i])
                        /\ Sized(vs)[i].size = SizeIn(s, Cardinality(vs), i)
<1> DEFINE n == Cardinality(vs)
           s == [i \in 1 .. n |-> CHOOSE v \in vs : Rank(vs, v) = i - 1]
<1>1. n \in Nat
  BY FS_CardinalityType
<1>2. ASSUME NEW i \in 1 .. n PROVE s[i] \in vs /\ Rank(vs, s[i]) = i - 1
  <2>1. i - 1 \in 0 .. n - 1
    BY <1>1
  <2>2. \E v \in vs : Rank(vs, v) = i - 1
    BY <2>1, Ranks
  <2>3. s[i] = CHOOSE v \in vs : Rank(vs, v) = i - 1
    OBVIOUS
  <2> QED BY <2>2, <2>3, Zenon
<1>3. s \in [1 .. n -> vs]
  <2>1. s = [i \in 1 .. n |-> s[i]]
    OBVIOUS
  <2> HIDE DEF s
  <2> QED BY <1>2, <2>1
<1>4. s = [i \in 1 .. n |-> CHOOSE v \in vs : Cardinality({w \in vs : Before(w, v)}) = i - 1]
  BY Zenon DEF Rank, Earlier
<1>5. Sized(vs) = [i \in 1 .. n |-> SizedAs(s[i], SizeIn(s, n, i))]
  <2>1. DOMAIN s = 1 .. n /\ Len(s) = n
    <3> HIDE DEF s
    <3> QED BY <1>1, <1>3
  <2> DEFINE Size(q, i) == IF i < Len(q) /\ q[i + 1].space = q[i].space
                           THEN SizeOfGap(q[i + 1].addr - q[i].addr) ELSE 1
             All(q) == [i \in DOMAIN q |-> SizedAs(q[i], Size(q, i))]
  <2>2. Sized(vs) = All([i \in 1 .. n |-> CHOOSE v \in vs :
                                              Cardinality({w \in vs : Before(w, v)}) = i - 1])
    BY DEF Sized, SizedAs
  <2> HIDE DEF s
  <2>3. Sized(vs) = All(s)
    <3> HIDE DEF All
    <3> QED BY <1>4, <2>2
  <2>4. \A i : Size(s, i) = SizeIn(s, n, i)
    BY <2>1 DEF SizeIn
  <2> HIDE DEF Size
  <2>5. All(s) = [i \in 1 .. n |-> SizedAs(s[i], Size(s, i))]
    BY <2>1
  <2> HIDE DEF All
  <2> QED BY <2>3, <2>4, <2>5
<1> HIDE DEF s
<1>6. ASSUME NEW i \in 1 .. n, NEW j \in 1 .. n, i < j PROVE Before(s[i], s[j])
  <2>1. Rank(vs, s[i]) < Rank(vs, s[j]) /\ s[i] \in vs /\ s[j] \in vs
    BY <1>2, <1>6
  <2>2. ~ Before(s[j], s[i])
    <3>1. Before(s[j], s[i]) => Rank(vs, s[j]) < Rank(vs, s[i])
      BY <2>1, RankGrows
    <3> QED BY <1>2, <2>1, <3>1
  <2>3. s[i].at # s[j].at
    BY <1>2, <2>1 DEF Distinct
  <2> QED BY <2>1, <2>2, <2>3, BeforeIsOrder
<1>7. ASSUME NEW v \in vs PROVE \E i \in 1 .. n : s[i] = v
  <2>1. Rank(vs, v) \in 0 .. n - 1
    BY Ranks
  <2>2. PICK i \in 1 .. n : i - 1 = Rank(vs, v)
    <3>1. \A k \in 0 .. n - 1 : k + 1 \in 1 .. n /\ k + 1 - 1 = k
      BY <1>1
    <3> HIDE DEF n
    <3> QED BY <2>1, <3>1
  <2>3. s[i] \in vs /\ Rank(vs, s[i]) = Rank(vs, v)
    BY <1>2, <2>2
  <2>4. s[i] = v
    BY <2>3, Ranks
  <2> QED BY <2>2, <2>4
<1>8. ASSUME NEW i \in 1 .. n
      PROVE  IsEntry(Sized(vs)[i], s[i]) /\ Sized(vs)[i].size = SizeIn(s, n, i)
  <2> DEFINE z == SizedAs(s[i], SizeIn(s, n, i))
  <2>1. Sized(vs)[i] = z
    BY <1>5
  <2>3. SizeIn(s, n, i) \in {1, 2, 4}
    BY DEF SizeIn, SizeOfGap
  <2>4. z.size = SizeIn(s, n, i)
    BY DEF SizedAs
  <2> HIDE DEF z
  <2>5. z = SizedAs(s[i], z.size)
    BY <2>4 DEF z
  <2> QED BY <2>1, <2>3, <2>4, <2>5 DEF IsEntry
<1>9. InOrder(vs, s)
  BY <1>3, <1>6, <1>7 DEF InOrder
<1>10. DOMAIN Sized(vs) = 1 .. n /\ Sized(vs) = [i \in 1 .. n |-> Sized(vs)[i]]
  BY <1>5
<1> QED BY <1>1, <1>8, <1>9, <1>10

LEMMA ImageFinite ==
  ASSUME NEW S, IsFiniteSet(S), NEW f, DOMAIN f = S
  PROVE  IsFiniteSet({f[x] : x \in S})
<1> DEFINE T == {f[x] : x \in S}
           g == [x \in S |-> f[x]]
<1>1. g \in Surjection(S, T)
  BY DEF Surjection
<1> HIDE DEF T, g
<1>2. IsFiniteSet(T)
  BY <1>1, FS_Surjection
<1> QED BY <1>2 DEF T

\* The variables of some records of a file.
VariablesAt(file, I) == {Variable(file[i]) : i \in I}

LEMMA VariablesFinite ==
  ASSUME NEW file \in Seq(MapRecord), NEW I \in SUBSET (1 .. Len(file)),
         \A i \in I : file[i].rec \in {"local", "global"}
  PROVE  VariablesAt(file, I) \in SUBSET VarRecord /\ IsFiniteSet(VariablesAt(file, I))
<1>1. ASSUME NEW i \in I PROVE Variable(file[i]) \in VarRecord
  <2>1. file[i] \in MapRecord /\ file[i].rec \in {"local", "global"}
    OBVIOUS
  <2>2. /\ file[i].name \in STRING /\ file[i].space \in {"DATA", "XDATA"}
        /\ file[i].addr \in Nat /\ file[i].at \in Nat
    BY <2>1 DEF MapRecord
  <2> QED BY <2>2 DEF Variable, VarRecord
<1>2. IsFiniteSet(I)
  <2>1. Len(file) \in Int /\ 1 \in Int
    OBVIOUS
  <2>2. IsFiniteSet(1 .. Len(file))
    BY <2>1, FS_Interval
  <2> QED BY <2>2, FS_Subset
<1> DEFINE v == [i \in I |-> Variable(file[i])]
<1>3. DOMAIN v = I /\ VariablesAt(file, I) = {v[i] : i \in I}
  BY DEF VariablesAt
<1> HIDE DEF v
<1>4. IsFiniteSet({v[i] : i \in I})
  BY <1>2, <1>3, ImageFinite
<1> QED BY <1>1, <1>3, <1>4 DEF VariablesAt

\* The globals of the first k records, and the locals that no PROC or ENDPROC follows.
GlobalsUpTo(file, k) == {i \in 1 .. k : file[i].rec = "global"}
PendingAt(file, k)   ==
  {i \in 1 .. k : file[i].rec = "local"
                  /\ \A j \in i .. k : file[j].rec \notin {"proc", "endproc"}}

\* What is assumed of one file (BitsAssumption, PlacedAssumption, LinesAssumption).
WellFormed(file) ==
  /\ file \in Seq(MapRecord)
  /\ \A i \in DOMAIN file :
       file[i].rec = "bit" => /\ Byte % (2 * Weight[1 + file[i].bit]) = 0
                              /\ file[i].addr \in DOMAIN Data.DATA
  /\ \A i \in DOMAIN file : file[i].rec \in {"global", "local"} => file[i].at = i

LEMMA VariablesApart ==
  ASSUME NEW file, WellFormed(file), NEW I \in SUBSET (1 .. Len(file)),
         \A i \in I : file[i].rec \in {"local", "global"}
  PROVE  Distinct(VariablesAt(file, I))
<1> SUFFICES ASSUME NEW i \in I, NEW j \in I, Variable(file[i]).at = Variable(file[j]).at
             PROVE  Variable(file[i]) = Variable(file[j])
  BY DEF Distinct, VariablesAt
<1>1. file[i].at = i /\ file[j].at = j
  <2>1. DOMAIN file = 1 .. Len(file)
    BY DEF WellFormed
  <2> QED BY <2>1 DEF WellFormed
<1> QED BY <1>1 DEF Variable

\* What the parser has read after k records.
SizedRecord  == [name : STRING, space : {"DATA", "XDATA"}, addr : Nat, size : {1, 2, 4}]
ScopedRecord == [name : STRING, space : {"DATA", "XDATA"}, addr : Nat, size : {1, 2, 4},
                 start : Nat, end : Nat]
BitRecord    == [name : STRING, addr : DOMAIN Data.DATA, bit : {b \in 0 .. 7 : Byte % (2 * Weight[1 + b]) = 0}]

Reading(file, p, k) ==
  /\ {"table", "globals", "file", "inProc", "start", "last", "pending"} \subseteq DOMAIN p
  /\ {"symbols", "lines", "locals", "globals", "bits"} \subseteq DOMAIN p.table
  /\ p.start \in Nat /\ p.last \in Nat
  /\ p.globals = VariablesAt(file, GlobalsUpTo(file, k))
  /\ p.pending \in SUBSET VariablesAt(file, PendingAt(file, k))
  /\ p.table.locals \in Seq(ScopedRecord)
  /\ p.table.bits \in Seq(BitRecord)

LEMMA SizedType ==
  ASSUME NEW vs \in SUBSET VarRecord, IsFiniteSet(vs), Distinct(vs)
  PROVE  Sized(vs) \in Seq(SizedRecord) /\ DOMAIN Sized(vs) = 1 .. Cardinality(vs)
<1> DEFINE n == Cardinality(vs)
           z == Sized(vs)
<1>1. n \in Nat /\ DOMAIN z = 1 .. n /\ z = [i \in 1 .. n |-> z[i]]
  BY SizedRight
<1>2. PICK s : InOrder(vs, s) /\ \A i \in 1 .. n : IsEntry(z[i], s[i]) /\ z[i].size = SizeIn(s, n, i)
  BY SizedRight
<1>3. ASSUME NEW i \in 1 .. n PROVE z[i] \in SizedRecord
  <2>1. s[i] \in VarRecord
    BY <1>2 DEF InOrder
  <2>2. z[i] = SizedAs(s[i], z[i].size) /\ z[i].size \in {1, 2, 4}
    BY <1>2 DEF IsEntry
  <2>3. s[i].name \in STRING /\ s[i].space \in {"DATA", "XDATA"} /\ s[i].addr \in Nat
    BY <2>1 DEF VarRecord
  <2>4. SizedAs(s[i], z[i].size) \in SizedRecord
    BY <2>2, <2>3 DEF SizedAs, SizedRecord
  <2> QED BY <2>2, <2>4
<1> HIDE DEF n, z
<1>4. z \in [1 .. n -> SizedRecord]
  BY <1>1, <1>3
<1>5. z \in Seq(SizedRecord)
  BY <1>1, <1>4
<1> QED BY <1>1, <1>5 DEF n, z

LEMMA ScopedType ==
  ASSUME NEW z \in Seq(SizedRecord), NEW start \in Nat, NEW end \in Nat
  PROVE  [i \in DOMAIN z |-> Scoped(z[i], start, end)] \in Seq(ScopedRecord)
<1>1. Len(z) \in Nat /\ DOMAIN z = 1 .. Len(z)
  OBVIOUS
<1>2. ASSUME NEW i \in DOMAIN z PROVE Scoped(z[i], start, end) \in ScopedRecord
  <2>1. z[i] \in SizedRecord
    OBVIOUS
  <2> QED BY <2>1 DEF Scoped, SizedRecord, ScopedRecord
<1>3. [i \in DOMAIN z |-> Scoped(z[i], start, end)] \in [1 .. Len(z) -> ScopedRecord]
  BY <1>1, <1>2
<1> QED BY <1>1, <1>3

LEMMA ReadingSets ==
  ASSUME NEW file \in Seq(MapRecord), NEW k \in 0 .. Len(file) - 1
  PROVE  /\ VariablesAt(file, GlobalsUpTo(file, k + 1))
              = IF file[k + 1].rec = "global"
                THEN VariablesAt(file, GlobalsUpTo(file, k)) \cup {Variable(file[k + 1])}
                ELSE VariablesAt(file, GlobalsUpTo(file, k))
         /\ file[k + 1].rec \notin {"proc", "endproc"} =>
              VariablesAt(file, PendingAt(file, k)) \subseteq VariablesAt(file, PendingAt(file, k + 1))
         /\ file[k + 1].rec = "local" =>
              Variable(file[k + 1]) \in VariablesAt(file, PendingAt(file, k + 1))
<1>1. k + 1 \in 1 .. k + 1 /\ 1 .. k + 1 = (1 .. k) \cup {k + 1} /\ k + 1 \notin 1 .. k
  OBVIOUS
<1>2. GlobalsUpTo(file, k + 1) = IF file[k + 1].rec = "global" THEN GlobalsUpTo(file, k) \cup {k + 1}
                                 ELSE GlobalsUpTo(file, k)
  BY <1>1 DEF GlobalsUpTo
<1>3. file[k + 1].rec \notin {"proc", "endproc"} => PendingAt(file, k) \subseteq PendingAt(file, k + 1)
  <2> SUFFICES ASSUME file[k + 1].rec \notin {"proc", "endproc"}, NEW i \in PendingAt(file, k)
               PROVE  i \in PendingAt(file, k + 1)
    OBVIOUS
  <2>1. i \in 1 .. k + 1 /\ i .. k + 1 = (i .. k) \cup {k + 1}
    BY DEF PendingAt
  <2> QED BY <2>1 DEF PendingAt
<1>4. file[k + 1].rec = "local" => k + 1 \in PendingAt(file, k + 1)
  <2>1. k + 1 .. k + 1 = {k + 1}
    OBVIOUS
  <2> QED BY <1>1, <2>1 DEF PendingAt
<1> QED BY <1>2, <1>3, <1>4 DEF VariablesAt

LEMMA VariablesReading ==
  ASSUME NEW file, WellFormed(file), NEW k \in 0 .. Len(file), NEW p, Reading(file, p, k)
  PROVE  /\ p.pending \in SUBSET VarRecord /\ IsFiniteSet(p.pending) /\ Distinct(p.pending)
         /\ p.globals \in SUBSET VarRecord /\ IsFiniteSet(p.globals) /\ Distinct(p.globals)
<1>1. file \in Seq(MapRecord) /\ Len(file) \in Nat
  BY DEF WellFormed
<1>2. /\ GlobalsUpTo(file, k) \in SUBSET (1 .. Len(file))
      /\ \A i \in GlobalsUpTo(file, k) : file[i].rec \in {"local", "global"}
      /\ PendingAt(file, k) \in SUBSET (1 .. Len(file))
      /\ \A i \in PendingAt(file, k) : file[i].rec \in {"local", "global"}
  BY <1>1 DEF GlobalsUpTo, PendingAt
<1>3. /\ p.globals = VariablesAt(file, GlobalsUpTo(file, k))
      /\ p.pending \in SUBSET VariablesAt(file, PendingAt(file, k))
  BY DEF Reading
<1> HIDE DEF Reading
<1>4. p.globals \in SUBSET VarRecord /\ IsFiniteSet(p.globals)
  BY <1>1, <1>2, <1>3, VariablesFinite
<1>5. /\ VariablesAt(file, PendingAt(file, k)) \in SUBSET VarRecord
      /\ IsFiniteSet(VariablesAt(file, PendingAt(file, k)))
  BY <1>1, <1>2, VariablesFinite
<1>6. p.pending \in SUBSET VarRecord /\ IsFiniteSet(p.pending)
  BY <1>3, <1>5, FS_Subset
<1>7. /\ Distinct(VariablesAt(file, GlobalsUpTo(file, k)))
      /\ Distinct(VariablesAt(file, PendingAt(file, k)))
  BY <1>2, VariablesApart
<1>8. Distinct(p.pending)
  BY <1>3, <1>7 DEF Distinct
<1> QED BY <1>3, <1>4, <1>6, <1>7, <1>8

\* One record more.
LEMMA ReadingStep ==
  ASSUME NEW file, WellFormed(file), NEW k \in 0 .. Len(file) - 1, NEW p, Reading(file, p, k)
  PROVE  Reading(file, Parse(p, file[k + 1]), k + 1)
<1> DEFINE r      == file[k + 1]
           Fields == {"table", "globals", "file", "inProc", "start", "last", "pending"}
           Tab    == {"symbols", "lines", "locals", "globals", "bits"}
           Shaped(q) == Fields \subseteq DOMAIN q /\ Tab \subseteq DOMAIN q.table
           Pending(j) == VariablesAt(file, PendingAt(file, j))
           Globals(j) == VariablesAt(file, GlobalsUpTo(file, j))
           Good(q) == /\ Shaped(q) /\ q.start \in Nat /\ q.last \in Nat
                      /\ q.globals = Globals(k + 1) /\ q.pending \in SUBSET Pending(k + 1)
                      /\ q.table.locals \in Seq(ScopedRecord) /\ q.table.bits \in Seq(BitRecord)
<1>1. /\ Shaped(p) /\ p.start \in Nat /\ p.last \in Nat /\ p.globals = Globals(k)
      /\ p.pending \in SUBSET Pending(k)
      /\ p.table.locals \in Seq(ScopedRecord) /\ p.table.bits \in Seq(BitRecord)
  BY DEF Reading
<1>2. /\ file \in Seq(MapRecord) /\ k + 1 \in DOMAIN file /\ r \in MapRecord
      /\ k \in 0 .. Len(file)
  BY DEF WellFormed
<1>3. /\ Globals(k + 1) = IF r.rec = "global" THEN Globals(k) \cup {Variable(r)} ELSE Globals(k)
      /\ r.rec \notin {"proc", "endproc"} => Pending(k) \subseteq Pending(k + 1)
      /\ r.rec = "local" => Variable(r) \in Pending(k + 1)
  BY <1>2, ReadingSets
<1>4. Good(Parse(p, r)) => Reading(file, Parse(p, r), k + 1)
  BY DEF Reading
<1> HIDE DEF Pending, Globals
<1>5. ASSUME r.rec = "module" PROVE Good(Parse(p, r))
  <2>1. Parse(p, r) = [p EXCEPT !.file = r.file]
    BY <1>5 DEF Parse, Module
  <2> HIDE DEF r
  <2> QED BY <1>1, <1>3, <1>5, <2>1
<1>6. ASSUME r.rec = "proc" PROVE Good(Parse(p, r))
  <2>1. Parse(p, r) = [p EXCEPT !.inProc = TRUE, !.start = 0, !.last = 0, !.pending = {}]
    BY <1>6 DEF Parse, Proc
  <2> HIDE DEF r
  <2> QED BY <1>1, <1>3, <1>6, <2>1
<1>7. ASSUME r.rec = "endproc" PROVE Good(Parse(p, r))
  <2> DEFINE z      == Sized(p.pending)
             scoped == [i \in DOMAIN z |-> Scoped(z[i], p.start, p.last + 1)]
  <2>1. z \in Seq(SizedRecord)
    BY <1>2, VariablesReading, SizedType
  <2>2. scoped \in Seq(ScopedRecord)
    <3>1. p.last + 1 \in Nat
      BY <1>1
    <3> HIDE DEF z
    <3> QED BY <1>1, <2>1, <3>1, ScopedType
  <2>3. Parse(p, r) = [p EXCEPT !.table.locals = @ \o scoped, !.pending = {}, !.inProc = FALSE]
    BY <1>7 DEF Parse, EndProc
  <2> HIDE DEF r, scoped
  <2>4. p.table.locals \o scoped \in Seq(ScopedRecord)
    BY <1>1, <2>2
  <2> QED BY <1>1, <1>3, <1>7, <2>3, <2>4
<1>8. ASSUME r.rec = "local" PROVE Good(Parse(p, r))
  <2>1. Parse(p, r) = IF p.inProc THEN [p EXCEPT !.pending = @ \cup {Variable(r)}] ELSE p
    BY <1>8 DEF Parse, Local
  <2> HIDE DEF r
  <2> QED BY <1>1, <1>3, <1>8, <2>1
<1>9. ASSUME r.rec = "global" PROVE Good(Parse(p, r))
  <2>1. Parse(p, r) = [p EXCEPT !.globals = @ \cup {Variable(r)}]
    BY <1>9 DEF Parse, Global
  <2> HIDE DEF r
  <2> QED BY <1>1, <1>3, <1>9, <2>1
<1>10. ASSUME r.rec = "bit" PROVE Good(Parse(p, r))
  <2> DEFINE b == [name |-> r.name, addr |-> r.addr, bit |-> r.bit]
  <2>1. Parse(p, r) = [p EXCEPT !.table.bits = Append(@, b)]
    BY <1>10 DEF Parse, Bit
  <2>2. b \in BitRecord
    <3>1. r.name \in STRING /\ r.bit \in 0 .. 7
      BY <1>2, <1>10 DEF MapRecord
    <3>2. Byte % (2 * Weight[1 + r.bit]) = 0 /\ r.addr \in DOMAIN Data.DATA
      BY <1>2, <1>10 DEF WellFormed
    <3> HIDE DEF r
    <3> QED BY <3>1, <3>2 DEF BitRecord
  <2> HIDE DEF r, b
  <2>3. Append(p.table.bits, b) \in Seq(BitRecord)
    BY <1>1, <2>2
  <2> QED BY <1>1, <1>3, <1>10, <2>1, <2>3
<1>11. ASSUME r.rec \in {"code", "line", "label"} PROVE Good(Parse(p, r))
  <2> DEFINE q == IF p.inProc /\ p.start = 0 THEN [p EXCEPT !.start = r.addr] ELSE p
             c == CodeLine(p, r)
  <2>1. r.addr \in Nat
    BY <1>2, <1>11, MapRecordFields
  <2>2. /\ Shaped(q) /\ q.start \in Nat /\ q.last = p.last /\ q.globals = p.globals
        /\ q.pending = p.pending /\ q.table = p.table
    <3> HIDE DEF r
    <3> QED BY <1>1, <2>1
  <2>3. Parse(p, r) = c
    BY <1>11 DEF Parse
  <2>4. /\ Shaped(c) /\ c.start = q.start /\ c.last \in Nat /\ c.globals = q.globals
        /\ c.pending = q.pending
        /\ c.table.locals = q.table.locals /\ c.table.bits = q.table.bits
    <3>1. \/ c = [q EXCEPT !.table.symbols = (r.addr :> r.name) @@ @]
          \/ c = [q EXCEPT !.table.lines = @ \cup {[addr |-> r.addr, file |-> p.file, line |-> r.line]},
                           !.last = IF p.inProc THEN r.addr ELSE @]
          \/ c = q
      <4> HIDE DEF r
      <4> QED BY <1>11 DEF CodeLine
    <3> HIDE DEF q, c, r
    <3>2. CASE c = [q EXCEPT !.table.symbols = (r.addr :> r.name) @@ @]
      BY <1>1, <2>2, <3>2
    <3>3. CASE c = [q EXCEPT !.table.lines = @ \cup {[addr |-> r.addr, file |-> p.file, line |-> r.line]},
                             !.last = IF p.inProc THEN r.addr ELSE @]
      BY <1>1, <2>1, <2>2, <3>3
    <3>4. CASE c = q
      BY <1>1, <2>2, <3>4
    <3> QED BY <3>1, <3>2, <3>3, <3>4
  <2> HIDE DEF q, c, r
  <2> QED BY <1>1, <1>3, <1>11, <2>2, <2>3, <2>4
<1>12. r.rec \in {"module", "proc", "endproc", "local", "global", "bit", "code", "line", "label"}
  BY <1>2 DEF MapRecord
<1>13. Good(Parse(p, r))
  <2> HIDE DEF r, Good
  <2> QED BY <1>5, <1>6, <1>7, <1>8, <1>9, <1>10, <1>11, <1>12
<1> QED BY <1>4, <1>13

LEMMA ParsedTypes ==
  ASSUME NEW file, WellFormed(file)
  PROVE  Reading(file, ParseAll(file), Len(file))
<1> DEFINE n == Len(file)
<1>1. file \in Seq(MapRecord) /\ n \in Nat
  BY DEF WellFormed
<1>2. PICK f : /\ f[0] = Start
               /\ \A k \in 0 .. n - 1 : f[k + 1] = Parse(f[k], file[k + 1])
               /\ ParseAll(file) = f[n]
  BY <1>1, ParseSteps
<1> DEFINE Good == {k \in Nat : k <= n => Reading(file, f[k], k)}
<1>3. 0 \in Good
  <2>1. GlobalsUpTo(file, 0) = {}
    BY DEF GlobalsUpTo
  <2>2. VariablesAt(file, GlobalsUpTo(file, 0)) = {}
    BY <2>1 DEF VariablesAt
  <2>3. /\ {"table", "globals", "file", "inProc", "start", "last", "pending"} \subseteq DOMAIN Start
        /\ {"symbols", "lines", "locals", "globals", "bits"} \subseteq DOMAIN Start.table
        /\ Start.start = 0 /\ Start.last = 0 /\ Start.globals = {} /\ Start.pending = {}
        /\ Start.table.locals = <<>> /\ Start.table.bits = <<>>
    BY DEF Start, EmptyTable
  <2>4. <<>> \in Seq(ScopedRecord) /\ <<>> \in Seq(BitRecord)
    OBVIOUS
  <2>5. Reading(file, Start, 0)
    BY <2>2, <2>3, <2>4 DEF Reading
  <2> QED BY <1>2, <2>5
<1>4. ASSUME NEW k \in Nat, k \in Good PROVE k + 1 \in Good
  <2>1. SUFFICES ASSUME k + 1 <= n PROVE Reading(file, f[k + 1], k + 1)
    OBVIOUS
  <2>2. k \in 0 .. n - 1 /\ Reading(file, f[k], k)
    BY <1>1, <1>4, <2>1
  <2>3. f[k + 1] = Parse(f[k], file[k + 1])
    BY <1>2, <2>2
  <2>4. Reading(file, Parse(f[k], file[k + 1]), k + 1)
    BY <2>2, ReadingStep
  <2> QED BY <2>3, <2>4
<1>5. Nat \subseteq Good
  <2> HIDE DEF Good
  <2> QED BY <1>3, <1>4, Induct
<1> QED BY <1>1, <1>2, <1>5

\* A table of variables and bits.
TableOK(t) ==
  /\ t.locals \in Seq(ScopedRecord)
  /\ t.globals \in Seq(SizedRecord)
  /\ t.bits \in Seq(BitRecord)

LEMMA LoadTypes ==
  ASSUME NEW file, WellFormed(file)
  PROVE  TableOK(Load(file))
<1> DEFINE p == ParseAll(file)
           t == ParseM51(file)
<1>1. Reading(file, p, Len(file)) /\ Len(file) \in 0 .. Len(file)
  <2>1. Len(file) \in Nat
    BY DEF WellFormed
  <2> QED BY <2>1, ParsedTypes
<1>2. Sized(p.globals) \in Seq(SizedRecord)
  BY <1>1, VariablesReading, SizedType
<1>3. t = [p.table EXCEPT !.globals = Sized(p.globals)]
  BY DEF ParseM51, ParseAll
<1> HIDE DEF p, t
<1>4. /\ t.locals = p.table.locals /\ t.bits = p.table.bits /\ t.globals = Sized(p.globals)
      /\ {"lines", "locals", "globals", "bits"} \subseteq DOMAIN t
  BY <1>1, <1>3 DEF Reading
<1>5. TableOK(t)
  BY <1>1, <1>2, <1>4 DEF TableOK, Reading
<1>6. Load(file) = t
      \/ Load(file) = [t EXCEPT !.lines = @ \cup
                         {[addr |-> 0, file |-> StartupLine.file, line |-> StartupLine.line]}]
  BY DEF Load, t
<1> QED BY <1>4, <1>5, <1>6 DEF TableOK

LEMMA TableType == SymtabListed => TableOK(Table)
<1> SUFFICES ASSUME SymtabListed PROVE TableOK(Table)
  OBVIOUS
<1>1. CASE symtab = NoName
  <2>1. Table = EmptyTable
    BY <1>1 DEF Table
  <2>2. \A S : <<>> \in Seq(S)
    OBVIOUS
  <2> QED BY <2>1, <2>2 DEF TableOK, EmptyTable
<1>2. CASE symtab # NoName
  <2>1. symtab \in DOMAIN MapFiles /\ Table = Load(MapFiles[symtab])
    BY <1>2 DEF SymtabListed, Table, Tables
  <2>2. WellFormed(MapFiles[symtab])
    BY <2>1, FilesAssumption, BitsAssumption, PlacedAssumption, LinesAssumption DEF WellFormed
  <2> QED BY <2>1, <2>2, LoadTypes
<1> QED BY <1>1, <1>2

-----------------------------------------------------------------------------
\* Each space begins at 0 and ends before addresses wrap.
LEMMA SpacesFromZero ==
  /\ \A space \in {"DATA", "XDATA", "R"} : \E n \in 1 .. AddrMask : DOMAIN Data[space] = 0 .. n - 1
  /\ \A space \in {"DATA", "XDATA", "R"} : DOMAIN Data[space] \subseteq 0 .. AddrMask - 1
  /\ DOMAIN Data.DATA \subseteq Nat
<1>1. \A space \in {"DATA", "XDATA", "R"} : \E n \in 1 .. AddrMask : DOMAIN Data[space] = 0 .. n - 1
  BY TargetAssumption
<1>2. AddrMask \in Nat
  BY VariablesAssumption
<1>3. \A space \in {"DATA", "XDATA", "R"} : DOMAIN Data[space] \subseteq 0 .. AddrMask - 1
  <2> SUFFICES ASSUME NEW space \in {"DATA", "XDATA", "R"}
               PROVE  DOMAIN Data[space] \subseteq 0 .. AddrMask - 1
    OBVIOUS
  <2>1. PICK n \in 1 .. AddrMask : DOMAIN Data[space] = 0 .. n - 1
    BY <1>1
  <2> QED BY <1>2, <2>1
<1> QED BY <1>1, <1>3

\* What a name may stand for, as an edit takes it.
Places ==
  [kind : {"bytes"}, space : {"CODE", "XDATA", "DATA", "R"}, addr : Nat, size : {1, 2, 4}]
    \cup [kind : {"bit"}, addr : DOMAIN Data.DATA, bit : {b \in 0 .. 7 : Byte % (2 * Weight[1 + b]) = 0}]
    \cup {[kind |-> "pc"], [kind |-> "dptr"]}

LEMMA FirstOf ==
  ASSUME NEW S, NEW s \in Seq(S), NEW I \in SUBSET DOMAIN s, First(s, I) # <<>>
  PROVE  First(s, I)[1] \in S /\ \E i \in I : First(s, I)[1] = s[i]
<1>1. I # {} /\ First(s, I) = <<s[Min(I)]>>
  BY DEF First
<1>2. I \in SUBSET Nat
  OBVIOUS
<1>3. Min(I) \in I
  BY <1>1, <1>2, MinNat
<1> HIDE DEF First
<1> QED BY <1>1, <1>3

LEMMA ByteType == Byte \in 2 .. 256 /\ Byte \in Nat \ {0}
BY VariablesAssumption

LEMMA NumericPlaces ==
  /\ \A name \in DOMAIN Rn : Rn[name] \in Nat
  /\ \A name \in DOMAIN Sfrs : Sfrs[name] \in Nat
  /\ \A text \in DOMAIN HexAddrs : HexAddrs[text] \in Nat
  /\ DPL \in Nat /\ DPH \in Nat
BY VariablesAssumption

LEMMA MeaningType ==
  ASSUME NEW t, TableOK(t), NEW name, NEW pc,
         NEW kind \in {"pc", "Rn", "dptr", "sfr", "local", "bit", "global"},
         Meaning(kind, t, name, pc) # None
  PROVE  Meaning(kind, t, name, pc) \in Places
<1>1. CASE kind = "pc"
  BY <1>1 DEF Meaning, Places
<1>2. CASE kind = "Rn"
  BY <1>2, NumericPlaces DEF Meaning, Places, Bytes
<1>3. CASE kind = "dptr"
  BY <1>3 DEF Meaning, Places
<1>4. CASE kind = "sfr"
  BY <1>4, NumericPlaces DEF Meaning, Places, Bytes
<1>5. CASE kind = "local"
  <2> DEFINE v == LookupLocalByName(t, name, pc)
  <2>1. v # <<>> /\ Meaning(kind, t, name, pc) = PlaceOf(v[1])
    BY <1>5 DEF Meaning
  <2>2. v = First(t.locals, {i \in Called(t.locals, name) : InScope(t.locals[i], pc)})
    BY DEF LookupLocalByName
  <2>3. {i \in Called(t.locals, name) : InScope(t.locals[i], pc)} \in SUBSET DOMAIN t.locals
    BY DEF Called
  <2> HIDE DEF v
  <2>4. v[1] \in ScopedRecord
    BY <2>1, <2>2, <2>3, FirstOf DEF TableOK
  <2> QED BY <2>1, <2>4 DEF ScopedRecord, PlaceOf, Places, Bytes
<1>6. CASE kind = "bit"
  <2> DEFINE v == LookupBitByName(t, name)
  <2>1. v # <<>> /\ Meaning(kind, t, name, pc) = [kind |-> "bit", addr |-> v[1].addr, bit |-> v[1].bit]
    BY <1>6 DEF Meaning
  <2>2. v = First(t.bits, Called(t.bits, name)) /\ Called(t.bits, name) \in SUBSET DOMAIN t.bits
    BY DEF LookupBitByName, Called
  <2> HIDE DEF v
  <2>3. v[1] \in BitRecord
    BY <2>1, <2>2, FirstOf DEF TableOK
  <2> QED BY <2>1, <2>3 DEF BitRecord, Places
<1>7. CASE kind = "global"
  <2> DEFINE v == LookupGlobalByName(t, name)
  <2>1. v # <<>> /\ Meaning(kind, t, name, pc) = PlaceOf(v[1])
    BY <1>7 DEF Meaning
  <2>2. v = First(t.globals, Called(t.globals, name)) /\ Called(t.globals, name) \in SUBSET DOMAIN t.globals
    BY DEF LookupGlobalByName, Called
  <2> HIDE DEF v
  <2>3. v[1] \in SizedRecord
    BY <2>1, <2>2, FirstOf DEF TableOK
  <2> QED BY <2>1, <2>3 DEF SizedRecord, PlaceOf, Places, Bytes
<1> QED BY <1>1, <1>2, <1>3, <1>4, <1>5, <1>6, <1>7

LEMMA ResolveType ==
  ASSUME NEW t, TableOK(t), NEW name, NEW pc, NEW n \in Nat,
         NEW order \in [1 .. n -> {"pc", "Rn", "dptr", "sfr", "local", "bit", "global"}],
         Resolve(order, t, name, pc) # None
  PROVE  Resolve(order, t, name, pc) \in Places
<1> DEFINE has == {i \in DOMAIN order : Meaning(order[i], t, name, pc) # None}
<1>1. Resolve(order, t, name, pc) = IF has = {} THEN None ELSE Meaning(order[Min(has)], t, name, pc)
  BY DEF Resolve
<1>2. has # {} /\ has \in SUBSET Nat
  <2>1. has # {}
    <3> HIDE DEF has
    <3> QED BY <1>1
  <2> QED BY <2>1
<1>3. Min(has) \in has
  <2> HIDE DEF has
  <2> QED BY <1>2, MinNat
<1>4. order[Min(has)] \in {"pc", "Rn", "dptr", "sfr", "local", "bit", "global"}
      /\ Meaning(order[Min(has)], t, name, pc) # None
  BY <1>3
<1> HIDE DEF has
<1> QED BY <1>1, <1>2, <1>4, MeaningType

LEMMA TargetTypes ==
  ASSUME NEW t, TableOK(t), NEW name, NEW pc, NEW scope \in Scopes
  PROVE  /\ SetTarget(t, name, pc) # None => SetTarget(t, name, pc) \in Places
         /\ RowTarget(t, scope, name, pc) # None => RowTarget(t, scope, name, pc) \in Places
<1> DEFINE Kinds == {"pc", "Rn", "dptr", "sfr", "local", "bit", "global"}
<1>1. SetOrder \in [1 .. 7 -> Kinds] /\ 7 \in Nat
  BY DEF SetOrder
<1>2. SetTarget(t, name, pc) # None => SetTarget(t, name, pc) \in Places
  BY <1>1, ResolveType DEF SetTarget
<1>3. <<"pc", "Rn", "sfr">> \in [1 .. 3 -> Kinds] /\ 3 \in Nat
  OBVIOUS
<1>4. CASE scope = "registers"
  <2>1. RowTarget(t, scope, name, pc) = Resolve(<<"pc", "Rn", "sfr">>, t, name, pc)
    BY <1>4 DEF RowTarget
  <2>2. Resolve(<<"pc", "Rn", "sfr">>, t, name, pc) # None =>
          Resolve(<<"pc", "Rn", "sfr">>, t, name, pc) \in Places
    BY <1>3, ResolveType
  <2> QED BY <1>2, <2>1, <2>2
<1>5. CASE scope = "locals"
  <2>1. RowTarget(t, scope, name, pc) = Meaning("local", t, name, pc)
    BY <1>5 DEF RowTarget
  <2> QED BY <1>2, <2>1, MeaningType
<1>6. CASE scope \in {"CODE", "XDATA", "DATA"}
  <2>1. RowTarget(t, scope, name, pc)
          = IF name \in DOMAIN HexAddrs THEN Bytes(scope, HexAddrs[name], 1) ELSE None
    BY <1>6 DEF RowTarget
  <2> QED BY <1>2, <1>6, <2>1, NumericPlaces DEF Places, Bytes
<1> QED BY <1>4, <1>5, <1>6 DEF Scopes, Memories

-----------------------------------------------------------------------------
\* Numbers, bytes and the memory.
ByteValue == 0 .. Byte - 1

LEMMA Division ==
  ASSUME NEW n \in Nat, NEW d \in Nat \ {0}
  PROVE  n \div d \in Nat /\ n % d \in 0 .. d - 1
OBVIOUS

LEMMA DigitType ==
  ASSUME NEW val \in Nat, NEW i \in 0 .. 3
  PROVE  Digit(val, i) \in ByteValue
<1>1. Byte \in Nat \ {0}
  BY VariablesAssumption
<1> DEFINE a == val \div Byte
           b == a \div Byte
           c == b \div Byte
<1>2. a \in Nat
  BY <1>1, Division
<1> HIDE DEF a
<1>3. b \in Nat
  BY <1>1, <1>2, Division
<1> HIDE DEF b
<1>4. c \in Nat
  BY <1>1, <1>3, Division
<1>5. Shifted(val) = <<val, a, b, c>>
  BY DEF Shifted, a, b
<1> HIDE DEF c
<1>6. Shifted(val)[1 + i] \in Nat
  <2>1. i = 0 \/ i = 1 \/ i = 2 \/ i = 3
    OBVIOUS
  <2> QED BY <1>2, <1>3, <1>4, <1>5, <2>1
<1>7. Shifted(val)[1 + i] % Byte \in 0 .. Byte - 1
  <2> DEFINE s == Shifted(val)[1 + i]
  <2>1. s \in Nat
    BY <1>6
  <2> HIDE DEF s
  <2>2. s % Byte \in 0 .. Byte - 1
    BY <1>1, <2>1, Division
  <2> QED BY <2>2 DEF s
<1> QED BY <1>7 DEF Digit, ByteValue

LEMMA NeededType ==
  ASSUME NEW val
  PROVE  Needed(val) \in 1 .. 4
<1> DEFINE S == {1} \cup {n \in 2 .. 4 : Shifted(val)[n] > 0}
<1>1. S \in SUBSET Nat /\ S # {} /\ 4 \in Nat /\ S \subseteq 1 .. 4 /\ \A k \in S : k <= 4
  OBVIOUS
<1>2. Needed(val) = Max(S)
  BY DEF Needed
<1> HIDE DEF S
<1>3. Max(S) \in S
  BY <1>1, MaxNat
<1> QED BY <1>1, <1>2, <1>3

LEMMA ParseHexType ==
  ASSUME NEW val \in Nat, NEW most \in {1, 2, 4}
  PROVE  /\ ParseHexValue(val, most) \in Seq(ByteValue)
         /\ Len(ParseHexValue(val, most)) \in 1 .. most
<1> DEFINE sz == IF Needed(val) > most THEN most ELSE Needed(val)
           b  == [i \in 1 .. sz |-> Digit(val, sz - i)]
<1>1. sz \in 1 .. most /\ sz \in 1 .. 4
  BY NeededType
<1>2. ParseHexValue(val, most) = b
  BY DEF ParseHexValue
<1> HIDE DEF sz
<1>3. \A i \in 1 .. sz : b[i] \in ByteValue
  <2> SUFFICES ASSUME NEW i \in 1 .. sz PROVE Digit(val, sz - i) \in ByteValue
    OBVIOUS
  <2>1. sz - i \in 0 .. 3
    BY <1>1
  <2> QED BY <2>1, DigitType
<1>4. b \in [1 .. sz -> ByteValue]
  BY <1>3
<1> HIDE DEF b
<1>5. b \in Seq(ByteValue) /\ Len(b) = sz
  <2>1. sz \in Nat
    BY <1>1
  <2> QED BY <1>4, <2>1
<1> QED BY <1>1, <1>2, <1>5

LEMMA PaddedType ==
  ASSUME NEW size \in {1, 2, 4}, NEW bytes \in Seq(ByteValue), Len(bytes) \in 1 .. size
  PROVE  Padded(bytes, size) \in Seq(ByteValue) /\ Len(Padded(bytes, size)) = size
<1> DEFINE gap == size - Len(bytes)
           p   == [i \in 1 .. size |-> IF i > gap THEN bytes[i - gap] ELSE 0]
<1>1. Padded(bytes, size) = p
  BY DEF Padded
<1>2. gap \in Nat /\ size = gap + Len(bytes) /\ Len(bytes) \in Nat /\ size \in Nat
  OBVIOUS
<1>3. 0 \in ByteValue
  BY VariablesAssumption DEF ByteValue
<1> HIDE DEF gap, ByteValue
<1>4. ASSUME NEW i \in 1 .. size PROVE p[i] \in ByteValue
  <2>1. CASE i > gap
    <3>1. i - gap \in 1 .. Len(bytes)
      BY <1>2, <2>1
    <3>2. bytes[i - gap] \in ByteValue
      BY <3>1, ElementOfSeq
    <3> QED BY <2>1, <3>2
  <2>2. CASE ~ (i > gap)
    BY <1>3, <2>2
  <2> QED BY <2>1, <2>2
<1>5. p \in [1 .. size -> ByteValue]
  BY <1>4
<1> HIDE DEF p
<1>6. p \in Seq(ByteValue) /\ Len(p) = size
  BY <1>2, <1>5
<1> QED BY <1>1, <1>6

LEMMA NumberType ==
  ASSUME NEW bytes \in Seq(Nat), Len(bytes) >= 1
  PROVE  Number(bytes) \in Nat
<1>1. Byte \in Nat
  BY VariablesAssumption
<1>2. ASSUME NEW i \in 1 .. Len(bytes) PROVE bytes[i] \in Nat
  OBVIOUS
<1>3. \A a, b \in Nat : a * Byte + b \in Nat
  BY <1>1
<1>4. CASE Len(bytes) = 4
  <2>1. bytes[1] \in Nat /\ bytes[2] \in Nat /\ bytes[3] \in Nat /\ bytes[4] \in Nat
    BY <1>2, <1>4
  <2>2. bytes[1] * Byte + bytes[2] \in Nat
    BY <1>3, <2>1
  <2>3. (bytes[1] * Byte + bytes[2]) * Byte + bytes[3] \in Nat
    BY <1>3, <2>1, <2>2
  <2>4. ((bytes[1] * Byte + bytes[2]) * Byte + bytes[3]) * Byte + bytes[4] \in Nat
    BY <1>3, <2>1, <2>3
  <2> QED BY <1>4, <2>4 DEF Number
<1>5. CASE Len(bytes) = 2
  <2>1. bytes[1] \in Nat /\ bytes[2] \in Nat
    BY <1>2, <1>5
  <2> QED BY <1>3, <1>5, <2>1 DEF Number
<1>6. CASE Len(bytes) # 4 /\ Len(bytes) # 2
  BY <1>2, <1>6 DEF Number
<1> QED BY <1>4, <1>5, <1>6

\* The memory of the target: whole numbers in every byte.
DataSpaces == {"XDATA", "DATA", "R"}

MemOK(m) ==
  /\ DOMAIN m = {"CODE", "XDATA", "DATA", "R", "PC"}
  /\ m.CODE \in CodeMemory
  /\ \A space \in DataSpaces : /\ DOMAIN m[space] = DOMAIN Data[space]
                               /\ \A a \in DOMAIN m[space] : m[space][a] \in ByteValue
  /\ m.PC \in Nat

\* What one space holds is a byte.
LEMMA MemWriteType ==
  ASSUME NEW m, MemOK(m), NEW space \in DataSpaces \cup {"CODE"}, NEW addr \in Int,
         NEW bytes \in Seq(ByteValue)
  PROVE  MemOK(MemWrite(m, space, addr, bytes))
<1> DEFINE base == addr % AddrMask
           hit(a) == \E i \in DOMAIN bytes : a = At(addr, i)
           s == [a \in DOMAIN m[space] |-> IF hit(a) THEN bytes[1 + a - base] ELSE m[space][a]]
<1>1. base \in Int
  BY VariablesAssumption
<1>2. MemWrite(m, space, addr, bytes) = [m EXCEPT ![space] = s]
  BY DEF MemOK, MemWrite, DataSpaces
<1>3. ASSUME NEW a \in DOMAIN m[space], hit(a) PROVE bytes[1 + a - base] \in ByteValue
  <2>1. PICK i \in DOMAIN bytes : a = base + i - 1
    BY <1>3 DEF At
  <2>2. i \in 1 .. Len(bytes)
    OBVIOUS
  <2> HIDE DEF base
  <2>3. 1 + a - base = i
    BY <1>1, <2>1, <2>2
  <2>4. bytes[i] \in ByteValue
    BY <2>2, ElementOfSeq
  <2> QED BY <2>3, <2>4
<1>4. \A a \in DOMAIN m[space] : s[a] \in IF hit(a) THEN ByteValue ELSE {m[space][a]}
  <2> HIDE DEF base, hit, ByteValue
  <2> QED BY <1>3
<1>5. ByteValue \subseteq Opcode
  BY VariablesAssumption DEF ByteValue, Opcode
<1>6. CASE space = "CODE"
  <2>1. s \in CodeMemory
    <3>1. DOMAIN m[space] = 0 .. CodeSize - 1 /\ \A a \in DOMAIN m[space] : m[space][a] \in Opcode
      BY <1>6 DEF MemOK, CodeMemory
    <3>2. \A a \in DOMAIN m[space] : s[a] \in Opcode
      <4> HIDE DEF s, hit, ByteValue
      <4> QED BY <1>4, <1>5, <3>1
    <3>3. s = [a \in DOMAIN m[space] |-> s[a]]
      OBVIOUS
    <3> HIDE DEF s
    <3> QED BY <3>1, <3>2, <3>3 DEF CodeMemory
  <2> HIDE DEF s
  <2> QED BY <1>2, <1>6, <2>1 DEF MemOK, DataSpaces
<1>7. CASE space # "CODE"
  <2>1. DOMAIN s = DOMAIN m[space] /\ \A a \in DOMAIN s : s[a] \in ByteValue
    <3>1. \A a \in DOMAIN m[space] : m[space][a] \in ByteValue
      BY <1>7 DEF MemOK
    <3>2. DOMAIN s = DOMAIN m[space]
      OBVIOUS
    <3> HIDE DEF s, hit, ByteValue
    <3> QED BY <1>4, <3>1, <3>2
  <2> HIDE DEF s, ByteValue
  <2>2. space \in DataSpaces /\ DOMAIN m[space] = DOMAIN Data[space]
    BY <1>7 DEF MemOK
  <2> DEFINE w == [m EXCEPT ![space] = s]
  <2>3. /\ DOMAIN w = DOMAIN m /\ w.CODE = m.CODE /\ w.PC = m.PC /\ w[space] = s
        /\ \A sp \in DataSpaces : sp # space => w[sp] = m[sp]
    BY <2>2 DEF MemOK, DataSpaces
  <2> HIDE DEF w
  <2>4. MemOK(w)
    BY <2>1, <2>2, <2>3 DEF MemOK
  <2> QED BY <1>2, <2>4 DEF w
<1> QED BY <1>6, <1>7

LEMMA ReadByteType ==
  ASSUME NEW m, MemOK(m), NEW space \in DataSpaces, NEW addr \in Int
  PROVE  ReadByte(m, space, addr) \in ByteValue
<1>1. ReadByte(m, space, addr) = IF At(addr, 1) \in DOMAIN m[space] THEN m[space][At(addr, 1)] ELSE 0
  BY DEF ReadByte, MemRead
<1>2. 0 \in ByteValue
  BY VariablesAssumption DEF ByteValue
<1> HIDE DEF ByteValue
<1> QED BY <1>1, <1>2 DEF MemOK

\* One bit of a byte, and the byte with that bit set or cleared.
LEMMA BitRange ==
  ASSUME NEW n \in ByteValue, NEW b \in 0 .. 7
  PROVE  /\ BitOf(n, b) \in {0, 1}
         /\ n - BitOf(n, b) * Weight[1 + b] \in ByteValue
         /\ Byte % (2 * Weight[1 + b]) = 0 /\ BitOf(n, b) = 0 => n + Weight[1 + b] \in ByteValue
<1>1. Byte \in Nat /\ n \in Nat /\ n < Byte
  BY VariablesAssumption DEF ByteValue
<1>2. Weight[1 + b] \in {1, 2, 4, 8, 16, 32, 64, 128}
  BY DEF Weight
<1>3. ASSUME NEW w \in {1, 2, 4, 8, 16, 32, 64, 128}
      PROVE  /\ (n \div w) % 2 \in {0, 1}
             /\ n - ((n \div w) % 2) * w \in ByteValue
             /\ Byte % (2 * w) = 0 /\ (n \div w) % 2 = 0 => n + w \in ByteValue
  <2>1. CASE w = 1
    BY <1>1, <2>1 DEF ByteValue
  <2>2. CASE w = 2
    BY <1>1, <2>2 DEF ByteValue
  <2>3. CASE w = 4
    BY <1>1, <2>3 DEF ByteValue
  <2>4. CASE w = 8
    BY <1>1, <2>4 DEF ByteValue
  <2>5. CASE w = 16
    BY <1>1, <2>5 DEF ByteValue
  <2>6. CASE w = 32
    BY <1>1, <2>6 DEF ByteValue
  <2>7. CASE w = 64
    BY <1>1, <2>7 DEF ByteValue
  <2>8. CASE w = 128
    BY <1>1, <2>8 DEF ByteValue
  <2> QED BY <2>1, <2>2, <2>3, <2>4, <2>5, <2>6, <2>7, <2>8
<1> DEFINE w == Weight[1 + b]
<1>4. BitOf(n, b) = (n \div w) % 2
  BY DEF BitOf
<1>5. w \in {1, 2, 4, 8, 16, 32, 64, 128}
  BY <1>2
<1> HIDE DEF w, ByteValue
<1>6. /\ (n \div w) % 2 \in {0, 1}
      /\ n - ((n \div w) % 2) * w \in ByteValue
      /\ Byte % (2 * w) = 0 /\ (n \div w) % 2 = 0 => n + w \in ByteValue
  BY <1>3, <1>5
<1> QED BY <1>4, <1>6 DEF w

-----------------------------------------------------------------------------
\* The walk over code, unrolled.
LengthAt(code, a) == InstructionLength[code[a]]

LEMMA LengthRange ==
  ASSUME NEW code \in CodeMemory, NEW a \in 0 .. CodeSize - 1
  PROVE  LengthAt(code, a) \in 1 .. 3
<1>1. code[a] \in Opcode
  BY DEF CodeMemory
<1> QED BY <1>1 DEF LengthAt, InstructionLength

WalkStates == [next : Nat, stops : Seq(Nat)]
WalkStart  == [next |-> 1, stops |-> <<>>]

WalkStep(code, from, w, i) ==
  IF i # w.next THEN w
  ELSE [next |-> i + InstructionLength[code[from + i - 1]], stops |-> Append(w.stops, from + i - 1)]

LEMMA WalkType ==
  ASSUME NEW code \in CodeMemory, NEW from \in Nat, NEW len \in Nat, from + len <= CodeSize,
         NEW w \in WalkStates, NEW i \in 1 .. len
  PROVE  WalkStep(code, from, w, i) \in WalkStates
<1>1. CodeSize \in Nat
  BY DisassemblerAssumption
<1>2. from + i - 1 \in 0 .. CodeSize - 1 /\ from + i - 1 \in Nat
  BY <1>1
<1>3. InstructionLength[code[from + i - 1]] \in 1 .. 3
  <2> DEFINE a == from + i - 1
  <2>1. a \in 0 .. CodeSize - 1
    BY <1>2
  <2> HIDE DEF a
  <2>2. LengthAt(code, a) \in 1 .. 3
    BY <2>1, LengthRange
  <2> QED BY <2>2 DEF LengthAt, a
<1> DEFINE l == InstructionLength[code[from + i - 1]]
<1>4. i + l \in Nat
  BY <1>3
<1> HIDE DEF l
<1>5. Append(w.stops, from + i - 1) \in Seq(Nat)
  BY <1>2 DEF WalkStates
<1>6. [next |-> i + l, stops |-> Append(w.stops, from + i - 1)] \in WalkStates
  BY <1>4, <1>5 DEF WalkStates
<1> QED BY <1>6 DEF WalkStep, l

LEMMA WalkSteps ==
  ASSUME NEW code \in CodeMemory, NEW from \in Nat, NEW len \in Nat, from + len <= CodeSize
  PROVE  \E f : /\ f[0] = WalkStart
                /\ \A k \in 0 .. len - 1 : f[k + 1] = WalkStep(code, from, f[k], k + 1)
                /\ Walk(InstructionLength, code, from, len) = f[len].stops
<1> DEFINE numbers == [i \in 1 .. len |-> i]
           Is(g) == g = [s \in SUBSET (1 .. len) |->
                           IF s = {} THEN WalkStart
                           ELSE WalkStep(code, from, g[s \ {Max(s)}], Max(s))]
<1>1. /\ numbers \in Seq(1 .. len) /\ Len(numbers) = len /\ DOMAIN numbers = 1 .. len
      /\ \A i \in 1 .. len : numbers[i] = i
  OBVIOUS
<1>2. \A s \in SUBSET (1 .. len) : s # {} => Max(s) \in s
  BY MaxNat
<1>3. Walk(InstructionLength, code, from, len) = (CHOOSE g : Is(g))[1 .. len].stops
  <2> DEFINE Step(w, i) == WalkStep(code, from, w, i)
             Spread(g) == g = [s \in SUBSET DOMAIN numbers |->
                                 IF s = {} THEN WalkStart
                                 ELSE Step(g[s \ {Max(s)}], numbers[Max(s)])]
  <2>1. Walk(InstructionLength, code, from, len) = (CHOOSE g : Spread(g))[DOMAIN numbers].stops
    BY DEF Walk, FoldLeft, MapThenFoldSet, WalkStart, WalkStep
  <2>2. \A g : Spread(g) <=> Is(g)
    <3> SUFFICES ASSUME NEW g PROVE Spread(g) <=> Is(g)
      OBVIOUS
    <3>1. \A s \in SUBSET (1 .. len) :
            (IF s = {} THEN WalkStart ELSE Step(g[s \ {Max(s)}], numbers[Max(s)]))
              = (IF s = {} THEN WalkStart ELSE WalkStep(code, from, g[s \ {Max(s)}], Max(s)))
      <4> HIDE DEF numbers
      <4> SUFFICES ASSUME NEW s \in SUBSET (1 .. len), s # {}
                   PROVE  numbers[Max(s)] = Max(s)
        BY Zenon
      <4>1. Max(s) \in 1 .. len
        BY <1>2
      <4> QED BY <1>1, <4>1
    <3> HIDE DEF numbers, Step
    <3> QED BY <1>1, <3>1
  <2> HIDE DEF Spread, Is
  <2>3. (CHOOSE g : Spread(g)) = (CHOOSE g : Is(g))
    BY <2>2
  <2> HIDE DEF numbers
  <2> QED BY <1>1, <2>1, <2>3
<1>4. \E g : Is(g)
  <2> DEFINE op == [p \in WalkStates \X (1 .. len) |-> WalkStep(code, from, p[1], p[2])]
  <2>1. op \in [WalkStates \X (1 .. len) -> WalkStates]
    BY WalkType
  <2>2. \A w \in WalkStates, i \in 1 .. len : op[<<w, i>>] = WalkStep(code, from, w, i)
    OBVIOUS
  <2>3. WalkStart \in WalkStates
    BY DEF WalkStart, WalkStates
  <2> HIDE DEF op, numbers
  <2>4. PICK g \in [SUBSET (1 .. len) -> WalkStates] :
               \A s \in SUBSET (1 .. len) :
                 g[s] = IF s = {} THEN WalkStart ELSE op[<<g[s \ {Max(s)}], numbers[Max(s)]>>]
    <3>1. HasFold(WalkStates, numbers, WalkStart, op)
      BY <1>1, <2>1, <2>3, FoldRecursion
    <3> QED BY <1>1, <3>1 DEF HasFold
  <2>5. ASSUME NEW s \in SUBSET (1 .. len)
        PROVE  g[s] = IF s = {} THEN WalkStart ELSE WalkStep(code, from, g[s \ {Max(s)}], Max(s))
    <3>1. CASE s = {}
      BY <2>4, <3>1
    <3>2. CASE s # {}
      <4>1. Max(s) \in 1 .. len /\ numbers[Max(s)] = Max(s)
        BY <1>1, <1>2, <3>2
      <4>2. g[s \ {Max(s)}] \in WalkStates
        BY <2>4
      <4> QED BY <2>2, <2>4, <3>2, <4>1, <4>2
    <3> QED BY <3>1, <3>2
  <2>6. g = [s \in SUBSET (1 .. len) |-> g[s]]
    OBVIOUS
  <2>7. Is(g)
    BY <2>5, <2>6
  <2> HIDE DEF Is
  <2> QED BY <2>7
<1> DEFINE it == CHOOSE g : Is(g)
           f  == [k \in 0 .. len |-> it[1 .. k]]
<1>5. Is(it)
  BY <1>4
<1>6. \A s \in SUBSET (1 .. len) :
        it[s] = IF s = {} THEN WalkStart ELSE WalkStep(code, from, it[s \ {Max(s)}], Max(s))
  <2> HIDE DEF it
  <2> QED BY <1>5, Zenon
<1>7. Walk(InstructionLength, code, from, len) = f[len].stops
  BY <1>3
<1> HIDE DEF it, Is
<1>8. f[0] = WalkStart
  <2>1. f[0] = it[1 .. 0] /\ 1 .. 0 = {}
    OBVIOUS
  <2> QED BY <1>6, <2>1
<1>9. ASSUME NEW k \in 0 .. len - 1 PROVE f[k + 1] = WalkStep(code, from, f[k], k + 1)
  <2>1. f[k + 1] = it[1 .. k + 1] /\ f[k] = it[1 .. k]
    OBVIOUS
  <2> HIDE DEF f
  <2>2. Max(1 .. k + 1) = k + 1 /\ (1 .. k + 1) \ {k + 1} = 1 .. k
    <3>1. k \in Nat
      OBVIOUS
    <3> QED BY <3>1, MaxInitial
  <2>3. 1 .. k + 1 \in SUBSET (1 .. len) /\ 1 .. k + 1 # {}
    <3>1. \A i \in 1 .. k + 1 : i \in 1 .. len
      OBVIOUS
    <3>2. 1 \in 1 .. k + 1
      OBVIOUS
    <3> QED BY <3>1, <3>2
  <2> QED BY <1>6, <2>1, <2>2, <2>3, Zenon
<1> HIDE DEF f
<1> QED BY <1>7, <1>8, <1>9

-----------------------------------------------------------------------------
\* An edit keeps the memory one of bytes.
LEMMA Product ==
  ASSUME NEW a \in Nat, NEW b \in Nat, NEW d \in Nat, a <= b
  PROVE  a * d <= b * d
<1>1. PICK c \in Nat : b = a + c
  <2>1. b - a \in Nat /\ b = a + (b - a)
    OBVIOUS
  <2> QED BY <2>1
<1>2. b * d = a * d + c * d /\ c * d \in Nat /\ a * d \in Nat
  BY <1>1
<1> QED BY <1>2

LEMMA Divided ==
  ASSUME NEW n \in Nat, NEW d \in Nat \ {0}
  PROVE  \E r \in Nat : n = (n \div d) * d + r
<1>1. n = d * (n \div d) + (n % d) /\ (n % d) \in Nat
  OBVIOUS
<1>2. n \div d \in Nat
  BY Division
<1>3. d * (n \div d) = (n \div d) * d
  BY <1>2
<1> QED BY <1>1, <1>3

LEMMA HighByte ==
  ASSUME NEW hi \in Nat, NEW lo \in Nat, NEW d \in Nat \ {0}, hi < d, lo < d
  PROVE  (hi * d + lo) \div d < d
<1> DEFINE n == hi * d + lo
           q == n \div d
<1>1. hi * d \in Nat /\ n \in Nat
  OBVIOUS
<1>2. q \in Nat /\ q * d <= n
  <2> HIDE DEF n
  <2>1. q \in Nat
    BY <1>1, Division
  <2>2. PICK r \in Nat : n = q * d + r
    BY <1>1, Divided
  <2> HIDE DEF q
  <2> DEFINE p == q * d
  <2>3. p \in Nat
    BY <2>1
  <2>4. n = p + r
    BY <2>2
  <2> HIDE DEF p
  <2>5. p <= n
    BY <2>2, <2>3, <2>4
  <2> QED BY <2>1, <2>5 DEF p
<1>3. n < hi * d + d
  BY <1>1
<1>4. (hi + 1) * d = hi * d + d
  OBVIOUS
<1> HIDE DEF n, q
<1>5. ASSUME q >= d PROVE FALSE
  <2>1. hi + 1 <= q
    BY <1>2, <1>5
  <2>2. (hi + 1) * d <= q * d
    BY <1>2, <2>1, Product
  <2>3. q * d \in Nat /\ (hi + 1) * d \in Nat
    BY <1>2
  <2> QED BY <1>1, <1>2, <1>3, <1>4, <2>2, <2>3
<1> QED BY <1>2, <1>5 DEF n, q

LEMMA SetBitType ==
  ASSUME NEW m, MemOK(m), NEW place \in Places, place.kind = "bit", NEW val \in Nat
  PROVE  MemOK(SetBit(m, place, val))
<1> DEFINE byte == ReadByte(m, "DATA", place.addr)
           old  == BitOf(byte, place.bit)
           new  == IF ParseHexValue(val, 1) = <<0>> THEN 0 ELSE 1
           w    == Weight[1 + place.bit]
           b    == byte + (new - old) * w
<1>1. place.addr \in Nat /\ place.bit \in 0 .. 7 /\ Byte % (2 * w) = 0
  BY SpacesFromZero DEF Places
<1>2. byte \in ByteValue /\ byte \in Int
  <2>1. place.addr \in Int /\ "DATA" \in DataSpaces
    BY <1>1 DEF DataSpaces
  <2>2. byte \in ByteValue
    BY <2>1, ReadByteType
  <2> QED BY <2>2, VariablesAssumption DEF ByteValue
<1>3. w \in Nat
  BY <1>1 DEF Weight
<1>4. new \in {0, 1}
  OBVIOUS
<1>5. SetBit(m, place, val) = MemWrite(m, "DATA", place.addr, <<b>>)
  BY DEF SetBit
<1>6. old \in {0, 1} /\ byte - old * w \in ByteValue /\ (old = 0 => byte + w \in ByteValue)
  <2> HIDE DEF byte
  <2> QED BY <1>1, <1>2, BitRange
<1> HIDE DEF byte, old, new, w, ByteValue
<1>7. b \in ByteValue
  <2>1. CASE new = old
    BY <1>2, <1>3, <1>6, <2>1
  <2>2. CASE new = 0 /\ old = 1
    BY <1>2, <1>3, <1>6, <2>2
  <2>3. CASE new = 1 /\ old = 0
    BY <1>2, <1>3, <1>6, <2>3
  <2> QED BY <1>4, <1>6, <2>1, <2>2, <2>3
<1> HIDE DEF b
<1>8. <<b>> \in Seq(ByteValue) /\ place.addr \in Int /\ "DATA" \in DataSpaces \cup {"CODE"}
  BY <1>1, <1>7 DEF DataSpaces
<1> QED BY <1>5, <1>8, MemWriteType

LEMMA SetDptrType ==
  ASSUME NEW m, MemOK(m), NEW val \in Nat
  PROVE  MemOK(SetDptr(m, val))
<1> DEFINE b    == ParseHexValue(val, 2)
           dptr == Number(b)
<1>1. b \in Seq(ByteValue) /\ Len(b) \in 1 .. 2
  BY ParseHexType
<1>2. Byte \in Nat \ {0} /\ ByteValue \subseteq Nat
  BY VariablesAssumption DEF ByteValue
<1>3. b[1] \in ByteValue /\ (Len(b) = 2 => b[2] \in ByteValue)
  <2> HIDE DEF b, ByteValue
  <2> QED BY <1>1, ElementOfSeq
<1>4. dptr = IF Len(b) = 2 THEN b[1] * Byte + b[2] ELSE b[1]
  <2> HIDE DEF b
  <2> QED BY <1>1 DEF Number
<1> HIDE DEF b, dptr
<1>5. dptr \in Nat /\ dptr \div Byte < Byte
  <2>1. CASE Len(b) = 2
    <3>1. /\ b[1] \in Nat /\ b[2] \in Nat /\ b[1] < Byte /\ b[2] < Byte
          /\ dptr = b[1] * Byte + b[2]
      BY <1>2, <1>3, <1>4, <2>1 DEF ByteValue
    <3>2. b[1] * Byte + b[2] \in Nat
      BY <1>2, <3>1
    <3>3. (b[1] * Byte + b[2]) \div Byte < Byte
      BY <1>2, <3>1, HighByte
    <3> QED BY <3>1, <3>2, <3>3
  <2>2. CASE Len(b) # 2
    <3> DEFINE z == 0
    <3>1. z * Byte = 0
      BY <1>2
    <3>2. dptr = b[1] /\ b[1] \in Nat /\ b[1] < Byte /\ z < Byte /\ z \in Nat
      BY <1>2, <1>3, <1>4, <2>2 DEF ByteValue
    <3> HIDE DEF z
    <3>3. (z * Byte + b[1]) \div Byte < Byte
      BY <1>2, <3>2, HighByte
    <3>4. z * Byte + b[1] = b[1]
      BY <3>1, <3>2
    <3> QED BY <3>2, <3>3, <3>4
  <2> QED BY <2>1, <2>2
<1>6. dptr % Byte \in ByteValue /\ dptr \div Byte \in ByteValue
  <2> DEFINE hi == dptr \div Byte
  <2>1. hi \in Nat /\ dptr % Byte \in 0 .. Byte - 1 /\ hi < Byte
    BY <1>2, <1>5, Division
  <2> HIDE DEF hi
  <2>2. hi \in 0 .. Byte - 1
    BY <1>2, <2>1
  <2> QED BY <2>1, <2>2 DEF hi, ByteValue
<1>7. <<dptr % Byte>> \in Seq(ByteValue) /\ <<dptr \div Byte>> \in Seq(ByteValue)
  <2> DEFINE lo == dptr % Byte
             hi == dptr \div Byte
  <2>1. lo \in ByteValue /\ hi \in ByteValue
    BY <1>6
  <2> HIDE DEF lo, hi, ByteValue
  <2>2. <<lo>> \in Seq(ByteValue) /\ <<hi>> \in Seq(ByteValue)
    BY <2>1
  <2> QED BY <2>2 DEF lo, hi
<1>8. DPL \in Int /\ DPH \in Int /\ "DATA" \in DataSpaces \cup {"CODE"}
  BY NumericPlaces DEF DataSpaces
<1> DEFINE m1 == MemWrite(m, "DATA", DPL, <<dptr % Byte>>)
<1>9. MemOK(m1)
  BY <1>7, <1>8, MemWriteType
<1> HIDE DEF m1
<1>10. MemOK(MemWrite(m1, "DATA", DPH, <<dptr \div Byte>>))
  BY <1>7, <1>8, <1>9, MemWriteType
<1> QED BY <1>10 DEF SetDptr, m1, dptr, b

LEMMA SetType ==
  ASSUME NEW m, MemOK(m), NEW place \in Places, NEW val \in Nat
  PROVE  MemOK(Set(m, place, val))
<1>1. CASE place.kind = "bytes"
  <2>1. /\ place.space \in DataSpaces \cup {"CODE"} /\ place.addr \in Int /\ place.size \in {1, 2, 4}
    BY <1>1 DEF Places, DataSpaces
  <2> DEFINE b == ParseHexValue(val, place.size)
             p == Padded(b, place.size)
  <2>2. b \in Seq(ByteValue) /\ Len(b) \in 1 .. place.size
    BY <2>1, ParseHexType
  <2> HIDE DEF b
  <2>3. p \in Seq(ByteValue)
    BY <2>1, <2>2, PaddedType
  <2> HIDE DEF p
  <2>4. MemOK(MemWrite(m, place.space, place.addr, p))
    BY <2>1, <2>3, MemWriteType
  <2>5. Set(m, place, val) = MemWrite(m, place.space, place.addr, p)
    BY <1>1 DEF Set, p, b
  <2> QED BY <2>4, <2>5
<1>2. CASE place.kind = "bit"
  BY <1>2, SetBitType DEF Set
<1>3. CASE place.kind = "dptr"
  BY <1>3, SetDptrType DEF Set
<1>4. CASE place.kind = "pc"
  <2> DEFINE b == ParseHexValue(val, 2)
             n == Number(b)
  <2>1. b \in Seq(Nat) /\ Len(b) >= 1
    <3>1. b \in Seq(ByteValue) /\ Len(b) \in 1 .. 2
      BY ParseHexType
    <3>2. ByteValue \subseteq Nat
      BY VariablesAssumption DEF ByteValue
    <3> HIDE DEF b
    <3>3. \A i \in 1 .. Len(b) : b[i] \in Nat
      <4> HIDE DEF ByteValue
      <4> QED BY <3>1, <3>2, ElementOfSeq
    <3>4. b \in [1 .. Len(b) -> Nat] /\ Len(b) \in Nat
      BY <3>1, <3>3
    <3> QED BY <3>1, <3>4
  <2> HIDE DEF b
  <2>2. n \in Nat
    BY <2>1, NumberType
  <2> HIDE DEF n
  <2>3. Set(m, place, val) = [m EXCEPT !.PC = n]
    BY <1>4 DEF Set, n, b
  <2> QED BY <2>2, <2>3 DEF MemOK, DataSpaces
<1> QED BY <1>1, <1>2, <1>3, <1>4 DEF Places

-----------------------------------------------------------------------------
\* A walk is a chain of instructions, each at the end of the one before, that
\* begins where the walk does and covers its bytes.
Linked(s, code) ==
  \A j \in 1 .. Len(s) - 1 : s[j + 1] = s[j] + LengthAt(code, s[j])

IsChain(s, code, from, len) ==
  /\ s \in Seq(Nat)
  /\ len > 0 => /\ Len(s) >= 1 /\ s[1] = from
                /\ s[Len(s)] + LengthAt(code, s[Len(s)]) >= from + len
  /\ \A j \in 1 .. Len(s) : s[j] \in from .. from + len - 1
  /\ Linked(s, code)

\* A walk after k of its bytes.
Walked(w, code, from, k) ==
  /\ w \in WalkStates
  /\ w.next > k
  /\ Len(w.stops) = 0 => w.next = 1
  /\ Len(w.stops) > 0 =>
       /\ w.stops[1] = from
       /\ from + w.next - 1 = w.stops[Len(w.stops)] + LengthAt(code, w.stops[Len(w.stops)])
  /\ \A j \in 1 .. Len(w.stops) : w.stops[j] \in from .. from + k - 1
  /\ Linked(w.stops, code)

LEMMA WalkedStep ==
  ASSUME NEW code \in CodeMemory, NEW from \in Nat, NEW len \in Nat, from + len <= CodeSize,
         NEW k \in 0 .. len - 1, NEW w, Walked(w, code, from, k)
  PROVE  Walked(WalkStep(code, from, w, k + 1), code, from, k + 1)
<1> DEFINE s == w.stops
           n == Len(s)
<1>1. w \in WalkStates /\ w.next \in Nat /\ s \in Seq(Nat) /\ n \in Nat
  <2>1. w \in WalkStates
    BY DEF Walked
  <2> QED BY <2>1 DEF WalkStates
<1>2. \A j \in 1 .. n : s[j] \in from .. from + k
  <2>1. \A j \in 1 .. n : s[j] \in from .. from + k - 1
    BY DEF Walked
  <2> HIDE DEF s
  <2> QED BY <2>1
<1>3. CASE k + 1 # w.next
  <2>1. WalkStep(code, from, w, k + 1) = w
    BY <1>3 DEF WalkStep
  <2>2. w.next > k + 1
    BY <1>1, <1>3 DEF Walked
  <2> QED BY <1>2, <2>1, <2>2 DEF Walked
<1>4. CASE k + 1 = w.next
  <2> DEFINE a == from + k
             l == LengthAt(code, a)
             t == Append(s, a)
             v == [next |-> k + 1 + l, stops |-> t]
  <2>1. WalkStep(code, from, w, k + 1) = v
    <3>1. from + (k + 1) - 1 = a
      OBVIOUS
    <3>2. WalkStep(code, from, w, k + 1)
            = [next |-> k + 1 + InstructionLength[code[from + (k + 1) - 1]],
               stops |-> Append(w.stops, from + (k + 1) - 1)]
      BY <1>4 DEF WalkStep
    <3> HIDE DEF a
    <3> QED BY <3>1, <3>2 DEF LengthAt
  <2>2. a \in Nat /\ a \in 0 .. CodeSize - 1
    <3>1. CodeSize \in Nat
      BY DisassemblerAssumption
    <3> QED BY <3>1
  <2>3. l \in 1 .. 3
    <3> HIDE DEF a
    <3> QED BY <2>2, LengthRange
  <2> HIDE DEF l
  <2>4. /\ t \in Seq(Nat) /\ Len(t) = n + 1 /\ t[n + 1] = a
        /\ \A j \in 1 .. n : t[j] = s[j]
    <3> HIDE DEF a, s
    <3> QED BY <1>1, <2>2
  <2>5. n > 0 => s[1] = from /\ a = s[n] + LengthAt(code, s[n])
    <3>1. n > 0 => s[1] = from /\ from + w.next - 1 = s[n] + LengthAt(code, s[n])
      BY DEF Walked
    <3>2. from + w.next - 1 = a
      BY <1>4
    <3> QED BY <3>1, <3>2
  <2>6. n = 0 => a = from
    BY <1>4 DEF Walked
  <2>7. Linked(s, code)
    BY DEF Walked
  <2>8. from + (k + 1 + l) - 1 = a + l /\ k + 1 + l > k + 1 /\ k + 1 + l \in Nat
        /\ a \in from .. from + k /\ from + (k + 1) - 1 = from + k
    BY <2>3
  <2> HIDE DEF a, t, s
  <2>9. Linked(t, code)
    <3> SUFFICES ASSUME NEW j \in 1 .. n + 1 - 1
                 PROVE  t[j + 1] = t[j] + LengthAt(code, t[j])
      BY <2>4 DEF Linked
    <3>1. j \in 1 .. n
      BY <1>1
    <3>2. CASE j = n
      <4>1. n > 0
        BY <1>1, <3>1
      <4> QED BY <2>4, <2>5, <3>1, <3>2, <4>1
    <3>3. CASE j # n
      <4>1. j \in 1 .. n - 1 /\ j + 1 \in 1 .. n
        BY <1>1, <3>1, <3>3
      <4> QED BY <2>4, <2>7, <3>1, <4>1 DEF Linked
    <3> QED BY <3>2, <3>3
  <2>10. t[1] = from
    <3>1. CASE n = 0
      BY <2>4, <2>6, <3>1
    <3>2. CASE n # 0
      <4>1. 1 \in 1 .. n /\ n > 0
        BY <1>1, <3>2
      <4> QED BY <2>4, <2>5, <4>1
    <3> QED BY <3>1, <3>2
  <2>11. \A j \in 1 .. n + 1 : t[j] \in from .. from + k
    <3> SUFFICES ASSUME NEW j \in 1 .. n + 1 PROVE t[j] \in from .. from + k
      OBVIOUS
    <3>1. CASE j = n + 1
      BY <2>4, <2>8, <3>1
    <3>2. CASE j # n + 1
      <4>1. j \in 1 .. n
        BY <1>1, <3>2
      <4> QED BY <1>2, <2>4, <4>1
    <3> QED BY <3>1, <3>2
  <2>12. v \in WalkStates /\ v.stops = t /\ v.next = k + 1 + l
    BY <2>4, <2>8 DEF WalkStates
  <2>13. Len(t) # 0
    BY <1>1, <2>4
  <2> HIDE DEF v, n
  <2>14. from + v.next - 1 = t[Len(t)] + LengthAt(code, t[Len(t)])
    BY <2>4, <2>8, <2>12 DEF l
  <2>15. v.next > k + 1
    BY <2>8, <2>12
  <2>16. \A j \in 1 .. Len(t) : t[j] \in from .. from + (k + 1) - 1
    BY <2>4, <2>8, <2>11
  <2> QED BY <2>1, <2>9, <2>10, <2>12, <2>13, <2>14, <2>15, <2>16 DEF Walked
<1> QED BY <1>3, <1>4

\* The walk that every scan of code makes.
WalkOver(code, from, len) == Walk(InstructionLength, code, from, len)

LEMMA WalkChain ==
  ASSUME NEW code \in CodeMemory, NEW from \in Nat, NEW len \in Nat, from + len <= CodeSize
  PROVE  IsChain(WalkOver(code, from, len), code, from, len)
<1>1. PICK f : /\ f[0] = WalkStart
               /\ \A k \in 0 .. len - 1 : f[k + 1] = WalkStep(code, from, f[k], k + 1)
               /\ Walk(InstructionLength, code, from, len) = f[len].stops
  BY WalkSteps
<1> DEFINE Good == {k \in Nat : k <= len => Walked(f[k], code, from, k)}
<1>2. 0 \in Good
  <2>1. WalkStart \in WalkStates /\ WalkStart.next = 1 /\ WalkStart.stops = <<>>
    BY DEF WalkStart, WalkStates
  <2>2. Walked(WalkStart, code, from, 0)
    BY <2>1 DEF Walked, Linked
  <2> QED BY <1>1, <2>2
<1>3. ASSUME NEW k \in Nat, k \in Good PROVE k + 1 \in Good
  <2>1. SUFFICES ASSUME k + 1 <= len PROVE Walked(f[k + 1], code, from, k + 1)
    OBVIOUS
  <2>2. k \in 0 .. len - 1 /\ Walked(f[k], code, from, k)
    BY <1>3, <2>1
  <2>3. f[k + 1] = WalkStep(code, from, f[k], k + 1)
    BY <1>1, <2>2
  <2>4. Walked(WalkStep(code, from, f[k], k + 1), code, from, k + 1)
    BY <2>2, WalkedStep
  <2> QED BY <2>3, <2>4
<1>4. Nat \subseteq Good
  <2> HIDE DEF Good
  <2> QED BY <1>2, <1>3, Induct
<1>5. Walked(f[len], code, from, len)
  BY <1>4
<1> DEFINE w == f[len]
<1>6. WalkOver(code, from, len) = w.stops
  BY <1>1 DEF WalkOver
<1>7. Walked(w, code, from, len)
  BY <1>5
<1> HIDE DEF w
<1>8. w.next \in Nat /\ w.stops \in Seq(Nat) /\ Len(w.stops) \in Nat
  BY <1>7 DEF Walked, WalkStates
<1>9. ASSUME len > 0
      PROVE  /\ Len(w.stops) >= 1 /\ w.stops[1] = from
             /\ w.stops[Len(w.stops)] + LengthAt(code, w.stops[Len(w.stops)]) >= from + len
  <2>1. Len(w.stops) # 0
    BY <1>7, <1>9 DEF Walked
  <2>2. /\ w.stops[1] = from
        /\ from + w.next - 1 = w.stops[Len(w.stops)] + LengthAt(code, w.stops[Len(w.stops)])
    BY <1>7, <1>8, <2>1 DEF Walked
  <2>3. w.next > len
    BY <1>7 DEF Walked
  <2>4. from + w.next - 1 >= from + len
    BY <1>8, <2>3
  <2> QED BY <1>8, <2>1, <2>2, <2>4
<1> QED BY <1>6, <1>7, <1>8, <1>9 DEF IsChain, Walked

-----------------------------------------------------------------------------
\* The image of any file fits the flash, and is made of bytes.
ImageOK(image) ==
  /\ image.base \in 0 .. AddrWord - 1
  /\ DOMAIN image.bytes \subseteq 0 .. MaxImage - 1
  /\ \A o \in DOMAIN image.bytes : image.bytes[o] \in Opcode

LEMMA ExtentType ==
  ASSUME NEW file \in Seq(HexRecord)
  PROVE  Extent(file) \in Extents
<1> DEFINE n == Len(file)
<1>1. n \in Nat /\ \A i \in 1 .. n : file[i] \in HexRecord
  OBVIOUS
<1>2. PICK f : /\ f[0] = Extent0
               /\ \A k \in 0 .. n - 1 : f[k + 1] = Extend(f[k], file[k + 1])
               /\ Extent(file) = f[n]
  BY ExtentSteps
<1>3. f[0] \in Extents
  BY <1>2, HexAssumption DEF Extent0, Extents
<1>4. \A k \in 0 .. n - 1 : f[k] \in Extents => f[k + 1] \in Extents
  <2> SUFFICES ASSUME NEW k \in 0 .. n - 1, f[k] \in Extents PROVE f[k + 1] \in Extents
    OBVIOUS
  <2>1. file[k + 1] \in HexRecord
    BY <1>1
  <2>2. Extend(f[k], file[k + 1]) \in Extents
    BY <2>1, ExtendType
  <2> QED BY <1>2, <2>2
<1> HIDE DEF n
<1> QED BY <1>1, <1>2, <1>3, <1>4, Along

LEMMA FillType ==
  ASSUME NEW file \in Seq(HexRecord), NEW D, NEW init \in Fills(D)
  PROVE  StoreAll(init, file) \in Fills(D)
<1> DEFINE n == Len(file)
<1>1. n \in Nat /\ \A i \in 1 .. n : file[i] \in HexRecord
  OBVIOUS
<1>2. PICK f : /\ f[0] = init
               /\ \A k \in 0 .. n - 1 : f[k + 1] = Store(f[k], file[k + 1])
               /\ StoreAll(init, file) = f[n]
  BY FillSteps
<1>3. f[0] \in Fills(D)
  BY <1>2
<1>4. \A k \in 0 .. n - 1 : f[k] \in Fills(D) => f[k + 1] \in Fills(D)
  <2> SUFFICES ASSUME NEW k \in 0 .. n - 1, f[k] \in Fills(D) PROVE f[k + 1] \in Fills(D)
    OBVIOUS
  <2>1. file[k + 1] \in HexRecord
    BY <1>1
  <2>2. Store(f[k], file[k + 1]) \in Fills(D)
    BY <2>1, StoreType
  <2> QED BY <1>2, <2>2
<1>5. f[n] \in Fills(D)
  <2> HIDE DEF n
  <2> QED BY <1>1, <1>3, <1>4, Along
<1> QED BY <1>2, <1>5

LEMMA NoImageOK == ImageOK(NoImage)
<1>1. DOMAIN NoImage.bytes = {} /\ NoImage.base = 0
  BY DEF NoImage
<1> QED BY <1>1, HexAssumption DEF ImageOK

LEMMA LoadFileType ==
  ASSUME NEW file \in Seq(HexRecord)
  PROVE  ImageOK(LoadFile(file))
<1> DEFINE x     == Extent(file)
           D     == 0 .. x.max - x.min - 1
           init  == [base |-> 0, min |-> x.min, bytes |-> [o \in D |-> Erased]]
           full  == StoreAll(init, file)
<1>1. CASE LoadFile(file) = NoImage
  BY <1>1, NoImageOK
<1>2. CASE LoadFile(file) # NoImage
  <2>1. /\ ~ (x.max - x.min > MaxImage)
        /\ LoadFile(file) = [loaded |-> TRUE, base |-> x.min, bytes |-> Fill(file, x)]
    BY <1>2 DEF LoadFile
  <2>2. Fill(file, x) = full.bytes
    BY DEF Fill, StoreAll
  <2>3. x \in Extents
    BY ExtentType
  <2> HIDE DEF x
  <2>4. x.min \in 0 .. AddrWord - 1 /\ x.min \in Nat /\ x.max \in Nat
    BY <2>3, HexAssumption DEF Extents
  <2>5. init \in Fills(D)
    BY <2>4, HexAssumption DEF Fills
  <2> HIDE DEF init
  <2>6. full \in Fills(D)
    <3> HIDE DEF D
    <3> QED BY <2>5, FillType
  <2> HIDE DEF full
  <2>7. D \subseteq 0 .. MaxImage - 1
    BY <2>1, <2>4, HexAssumption
  <2>8. DOMAIN full.bytes = D /\ \A o \in D : full.bytes[o] \in 0 .. 255
    <3> HIDE DEF D
    <3> QED BY <2>6 DEF Fills
  <2> HIDE DEF D
  <2>9. LoadFile(file).base = x.min /\ LoadFile(file).bytes = full.bytes
    BY <2>1, <2>2
  <2> QED BY <2>4, <2>7, <2>8, <2>9 DEF ImageOK, Opcode
<1> QED BY <1>1, <1>2

LEMMA ImageType == FlashListed => ImageOK(Image)
<1>1. CASE flash = NoName
  BY <1>1, NoImageOK DEF Image
<1>2. CASE flash \in DOMAIN HexFiles /\ flash # NoName
  <2>1. Image = LoadFile(HexFiles[flash])
    BY <1>2 DEF Image, Images
  <2>2. HexFiles[flash] \in Seq(HexRecord)
    BY <1>2, FilesAssumption
  <2> QED BY <2>1, <2>2, LoadFileType
<1> QED BY <1>1, <1>2 DEF FlashListed

\* What the flash holds.
LEMMA EraseType == Erase \in CodeMemory
BY HexAssumption DEF Erase, CodeMemory, Opcode

LEMMA ProgrammedType ==
  ASSUME NEW image, ImageOK(image)
  PROVE  Programmed(image) \in CodeMemory
<1> DEFINE p == Programmed(image)
<1>1. Erased \in Opcode
  BY HexAssumption DEF Opcode
<1>2. p = [a \in 0 .. CodeSize - 1 |->
             IF a - image.base \in DOMAIN image.bytes THEN image.bytes[a - image.base] ELSE Erased]
  BY DEF Programmed
<1>3. \A o \in DOMAIN image.bytes : image.bytes[o] \in Opcode
  BY DEF ImageOK
<1> HIDE DEF p
<1>4. p = [a \in 0 .. CodeSize - 1 |-> p[a]]
  BY <1>2
<1>5. ASSUME NEW a \in 0 .. CodeSize - 1 PROVE p[a] \in Opcode
  <2>1. CASE a - image.base \in DOMAIN image.bytes
    BY <1>2, <1>3, <2>1
  <2>2. CASE a - image.base \notin DOMAIN image.bytes
    BY <1>1, <1>2, <2>2
  <2> QED BY <2>1, <2>2
<1>6. p \in CodeMemory
  BY <1>4, <1>5 DEF CodeMemory
<1> QED BY <1>6 DEF p

LEMMA CodesType ==
  ASSUME NEW hex \in DOMAIN HexFiles
  PROVE  Codes[hex] \in CodeMemory /\ ImageOK(Images[hex])
<1>1. HexFiles[hex] \in Seq(HexRecord)
  BY FilesAssumption
<1>2. Images[hex] = LoadFile(HexFiles[hex]) /\ Codes[hex] = Programmed(Images[hex])
  BY DEF Codes, Images
<1>3. ImageOK(LoadFile(HexFiles[hex]))
  BY <1>1, LoadFileType
<1> QED BY <1>2, <1>3, ProgrammedType

LEMMA InstructionsType ==
  ASSUME NEW code \in CodeMemory
  PROVE  Instructions(code) \subseteq Nat
<1> DEFINE w == WalkOver(code, 0, CodeSize)
<1>1. w \in Seq(Nat)
  <2>1. CodeSize \in Nat /\ 0 \in Nat /\ 0 + CodeSize <= CodeSize
    BY DisassemblerAssumption
  <2>2. IsChain(w, code, 0, CodeSize)
    BY <2>1, WalkChain
  <2> HIDE DEF w
  <2> QED BY <2>2 DEF IsChain
<1>2. Instructions(code) \subseteq Range(w)
  BY DEF Instructions, WalkOver
<1> HIDE DEF w
<1>3. Range(w) \subseteq Nat
  BY <1>1 DEF Range
<1> QED BY <1>2, <1>3

-----------------------------------------------------------------------------
\* What every request keeps of the state.
Typed ==
  /\ FlashListed
  /\ SymtabListed
  /\ session \in {"none", "failed", "launched"}
  /\ MemOK(mem)
  /\ cachedPC \in Nat
  /\ \A i \in DOMAIN registers : registers[i] \in ByteValue
  /\ session = "launched" => DOMAIN registers = DOMAIN RegisterRows
  /\ edits \in 0 .. MaxEdits

\* The registers, however much of them is read.
RegistersOK(r) == DOMAIN r = DOMAIN RegisterRows /\ \A i \in DOMAIN r : r[i] \in ByteValue

LEMMA RegistersType ==
  ASSUME NEW m, MemOK(m), NEW r
  PROVE  RegistersOK(ReadRegisters(m)) /\ (RegistersOK(r) => RegistersOK(ReadSp(r, m)))
<1>1. ASSUME NEW i \in DOMAIN RegisterRows PROVE Register(m, RegisterRows[i]) \in ByteValue
  <2> DEFINE name == RegisterRows[i]
  <2>1. name \in DOMAIN Rn \cup DOMAIN Sfrs
    <3>1. RegisterRows \in Seq(DOMAIN Rn \cup DOMAIN Sfrs)
      BY VariablesAssumption
    <3> QED BY <3>1, ElementOfSeq
  <2>2. "R" \in DataSpaces /\ "DATA" \in DataSpaces
    BY DEF DataSpaces
  <2> HIDE DEF name
  <2>3. CASE name \in DOMAIN Rn
    <3>1. Rn[name] \in Int
      BY <2>3, NumericPlaces
    <3> QED BY <2>2, <2>3, <3>1, ReadByteType DEF Register, name
  <2>4. CASE name \notin DOMAIN Rn
    <3>1. Sfrs[name] \in Int
      BY <2>1, <2>4, NumericPlaces
    <3> QED BY <2>2, <2>4, <3>1, ReadByteType DEF Register, name
  <2> QED BY <2>3, <2>4
<1> HIDE DEF ByteValue
<1>2. RegistersOK(ReadRegisters(m))
  BY <1>1 DEF RegistersOK, ReadRegisters
<1>3. ASSUME RegistersOK(r) PROVE RegistersOK(ReadSp(r, m))
  <2>1. ASSUME NEW i \in DOMAIN RegisterRows
        PROVE  (IF RegisterRows[i] = "SP" THEN Register(m, "SP") ELSE r[i]) \in ByteValue
    BY <1>1, <1>3 DEF RegistersOK
  <2> QED BY <2>1 DEF RegistersOK, ReadSp
<1> QED BY <1>2, <1>3

LEMMA RanType ==
  ASSUME NEW code \in CodeMemory, NEW pc \in Nat
  PROVE  MemOK(Ran(code, pc))
<1> DEFINE m == Ran(code, pc)
<1>1. m = [DATA |-> Data.DATA, XDATA |-> Data.XDATA, R |-> Data.R, CODE |-> code, PC |-> pc]
  BY DEF Ran
<1>2. /\ DOMAIN m = {"CODE", "XDATA", "DATA", "R", "PC"} /\ m.CODE = code /\ m.PC = pc
      /\ \A space \in DataSpaces : m[space] = Data[space]
  BY <1>1 DEF DataSpaces
<1>3. \A space \in DataSpaces : \A a \in DOMAIN Data[space] : Data[space][a] \in ByteValue
  BY TargetAssumption DEF DataSpaces, ByteValue
<1> HIDE DEF m
<1> QED BY <1>2, <1>3 DEF MemOK, m

LEMMA WatchdogType ==
  ASSUME NEW m, MemOK(m)
  PROVE  MemOK([m EXCEPT !.DATA[Pca0md] = ClearBit(@, WatchdogBit)])
<1> DEFINE old == m.DATA[Pca0md]
           new == ClearBit(old, WatchdogBit)
           d   == [m.DATA EXCEPT ![Pca0md] = new]
           w   == [m EXCEPT !.DATA = d]
<1>1. Pca0md \in DOMAIN m.DATA /\ "DATA" \in DataSpaces
  BY TargetAssumption DEF MemOK, DataSpaces
<1>2. old \in ByteValue
  BY <1>1 DEF MemOK
<1>3. new \in ByteValue
  BY <1>2, BitRange, TargetAssumption DEF ClearBit
<1>4. [m EXCEPT !.DATA[Pca0md] = ClearBit(@, WatchdogBit)] = w
  OBVIOUS
<1> HIDE DEF old, new
<1>5. DOMAIN d = DOMAIN m.DATA /\ \A a \in DOMAIN d : d[a] \in ByteValue
  BY <1>1, <1>3 DEF MemOK
<1> HIDE DEF d
<1>6. /\ DOMAIN w = DOMAIN m /\ w.DATA = d /\ w.CODE = m.CODE /\ w.PC = m.PC
      /\ w.XDATA = m.XDATA /\ w.R = m.R
  BY DEF MemOK
<1> HIDE DEF w
<1>7. MemOK(w)
  BY <1>5, <1>6 DEF MemOK, DataSpaces
<1> QED BY <1>4, <1>7

\* Where a launch leaves the target.
LEMMA LaunchType ==
  ASSUME Typed, NEW hex \in DOMAIN HexFiles, NEW map \in DOMAIN MapFiles,
         NEW start \in {NoAddr} \cup Starts, HandleLaunch(hex, map, start)
  PROVE  MemOK(mem') /\ cachedPC' \in Nat
<1> DEFINE code  == Codes[hex]
           entry == EntryPoint(Images[hex], start)
<1>1. code \in CodeMemory /\ ImageOK(Images[hex])
  BY CodesType
<1>2. entry \in Nat
  <2>1. Images[hex].base \in Nat
    BY <1>1, HexAssumption DEF ImageOK
  <2>2. Starts \subseteq Nat
    BY RequestsAssumption
  <2> QED BY <2>1, <2>2 DEF EntryPoint
<1>3. {entry} \cup Instructions(code) \subseteq Nat
  <2> HIDE DEF code, entry
  <2> QED BY <1>1, <1>2, InstructionsType
<1>4. IF entry > 0
      THEN \E pc \in {entry} \cup Instructions(code) :
             mem' = [Ran(code, pc) EXCEPT !.DATA[Pca0md] = ClearBit(@, WatchdogBit)]
      ELSE mem' = Ran(code, 0)
  BY DEF HandleLaunch
<1>5. cachedPC' = mem'.PC
  BY DEF HandleLaunch
<1> HIDE DEF code, entry
<1>6. MemOK(mem')
  <2>1. CASE entry > 0
    <3>1. PICK pc \in Nat : mem' = [Ran(code, pc) EXCEPT !.DATA[Pca0md] = ClearBit(@, WatchdogBit)]
      BY <1>3, <1>4, <2>1
    <3> DEFINE m == Ran(code, pc)
    <3>2. MemOK(m)
      BY <1>1, RanType
    <3>3. mem' = [m EXCEPT !.DATA[Pca0md] = ClearBit(@, WatchdogBit)]
      BY <3>1
    <3> HIDE DEF m
    <3> QED BY <3>2, <3>3, WatchdogType
  <2>2. CASE ~ (entry > 0)
    BY <1>1, <1>4, <2>2, RanType
  <2> QED BY <2>1, <2>2
<1> QED BY <1>5, <1>6 DEF MemOK

LEMMA EditType ==
  ASSUME Typed, Edits
  PROVE  Typed'
<1>1. MaxEdits \in Nat /\ Values \subseteq Nat
  BY RequestsAssumption
<1>2. TableOK(Table)
  BY TableType DEF Typed
<1>3. ASSUME NEW what, NEW m, MemOK(m), Edit(what, m) PROVE Typed'
  <2>1. /\ mem' = m /\ edits < MaxEdits /\ edits' = edits + 1
        /\ UNCHANGED <<session, flash, symtab, cachedPC, registers>>
    BY <1>3 DEF Edit
  <2>2. edits' \in 0 .. MaxEdits
    BY <1>1, <2>1 DEF Typed
  <2>3. MemOK(mem')
    BY <1>3, <2>1
  <2> QED BY <2>1, <2>2, <2>3 DEF Typed, FlashListed, SymtabListed
<1>4. ASSUME NEW name \in Names, NEW val \in Values, HandleSetExpression(name, val) PROVE Typed'
  <2> DEFINE place == SetTarget(Table, name, cachedPC)
  <2>1. place # None /\ "locals" \in Scopes
    BY <1>4 DEF HandleSetExpression, Scopes
  <2>2. place \in Places
    BY <1>2, <2>1, TargetTypes
  <2>3. PICK what : Edit(what, Set(mem, place, val))
    BY <1>4 DEF HandleSetExpression
  <2>4. val \in Nat /\ MemOK(mem)
    BY <1>1 DEF Typed
  <2> HIDE DEF place
  <2>5. MemOK(Set(mem, place, val))
    BY <2>2, <2>4, SetType
  <2> QED BY <1>3, <2>3, <2>5
<1>5. ASSUME NEW scope \in Scopes, NEW name \in Names, NEW val \in Values,
             HandleSetVariable(scope, name, val)
      PROVE  Typed'
  <2> DEFINE place == RowTarget(Table, scope, name, cachedPC)
  <2>1. place # None
    BY <1>5 DEF HandleSetVariable
  <2>2. place \in Places
    BY <1>2, <2>1, TargetTypes
  <2>3. PICK what : Edit(what, Set(mem, place, val))
    BY <1>5 DEF HandleSetVariable
  <2>4. val \in Nat /\ MemOK(mem)
    BY <1>1 DEF Typed
  <2> HIDE DEF place
  <2>5. MemOK(Set(mem, place, val))
    BY <2>2, <2>4, SetType
  <2> QED BY <1>3, <2>3, <2>5
<1>6. ASSUME NEW r \in MemRefs, NEW b \in 0 .. 1, HandleWriteMemory(r, <<b, 1>>) PROVE Typed'
  <2> DEFINE m == WriteMemory(mem, r.space, r.addr, r.offset, <<b, 1>>)
  <2>1. PICK what : Edit(what, m)
    BY <1>6 DEF HandleWriteMemory
  <2>2. r.space \in DataSpaces \cup {"CODE"} /\ r.addr \in Nat /\ r.offset \in Int
    BY RequestsAssumption DEF DataSpaces
  <2>3. r.addr + r.offset \in Int
    BY <2>2
  <2>4. b \in ByteValue /\ 1 \in ByteValue
    BY VariablesAssumption DEF ByteValue
  <2>5. <<b, 1>> \in Seq(ByteValue)
    <3> HIDE DEF ByteValue
    <3> QED BY <2>4
  <2>6. MemOK(mem)
    BY DEF Typed
  <2>7. MemOK(MemWrite(mem, r.space, r.addr + r.offset, <<b, 1>>))
    BY <2>2, <2>3, <2>5, <2>6, MemWriteType
  <2>8. MemOK(m)
    BY <2>7 DEF WriteMemory
  <2> HIDE DEF m
  <2> QED BY <1>3, <2>1, <2>8
<1> QED BY <1>4, <1>5, <1>6 DEF Edits

LEMMA TypedStep ==
  ASSUME Typed, [Next]_vars
  PROVE  Typed'
<1>1. FlashListed' /\ SymtabListed'
  BY FlashStep, SymtabStep DEF Typed
<1>2. MemOK(mem) /\ mem.CODE \in CodeMemory /\ cachedPC \in Nat /\ 0 \in 0 .. MaxEdits
  BY RequestsAssumption DEF Typed, MemOK
<1>3. CASE Launches
  <2>1. ASSUME NEW code \in CodeMemory, LaunchFails(code), edits' = 0 PROVE Typed'
    <3>1. /\ session' = "failed" /\ mem' = Ran(code, 0) /\ cachedPC' = cachedPC
          /\ registers' = registers
      BY <2>1 DEF LaunchFails
    <3>2. MemOK(Ran(code, 0))
      BY RanType
    <3>3. MemOK(mem')
      BY <3>1, <3>2
    <3>4. \A i \in DOMAIN registers' : registers'[i] \in ByteValue
      BY <3>1 DEF Typed
    <3> QED BY <1>1, <1>2, <2>1, <3>1, <3>3, <3>4 DEF Typed
  <2>2. ASSUME NEW hex \in DOMAIN HexFiles, HandleLaunchNoImage(hex) PROVE Typed'
    BY <1>2, <2>1, <2>2 DEF HandleLaunchNoImage
  <2>3. ASSUME NEW hex \in DOMAIN HexFiles, NEW map \in DOMAIN MapFiles, HandleLaunchNoTarget(hex, map)
        PROVE  Typed'
    <3>1. LaunchFails(mem.CODE) \/ LaunchFails(Codes[hex])
      BY <2>3 DEF HandleLaunchNoTarget
    <3>2. edits' = 0
      BY <2>3 DEF HandleLaunchNoTarget, Loads
    <3> QED BY <1>2, <2>1, <3>1, <3>2, CodesType
  <2>4. ASSUME NEW hex \in DOMAIN HexFiles, NEW map \in DOMAIN MapFiles,
               NEW start \in {NoAddr} \cup Starts, HandleLaunch(hex, map, start)
        PROVE  Typed'
    <3>1. MemOK(mem') /\ cachedPC' \in Nat
      BY <2>4, LaunchType
    <3>2. session' = "launched" /\ edits' = 0 /\ registers' = ReadRegisters(mem')
      BY <2>4 DEF HandleLaunch, Loads
    <3>3. RegistersOK(registers')
      BY <3>1, <3>2, RegistersType
    <3> QED BY <1>1, <1>2, <3>1, <3>2, <3>3 DEF Typed, RegistersOK
  <2> QED BY <1>3, <2>2, <2>3, <2>4 DEF Launches
<1>4. CASE TargetStops
  <2>1. PICK pc \in Instructions(mem.CODE) : mem' = Ran(mem.CODE, pc) /\ cachedPC' = pc
    BY <1>4 DEF TargetStops
  <2>2. pc \in Nat
    BY <1>2, InstructionsType
  <2>3. MemOK(Ran(mem.CODE, pc))
    BY <1>2, <2>2, RanType
  <2>4. MemOK(mem')
    BY <2>1, <2>3
  <2>5. session = "launched" /\ session' = session /\ edits' = 0
    BY <1>4 DEF TargetStops
  <2>6. RegistersOK(registers')
    <3>1. RegistersOK(registers)
      BY <2>5 DEF Typed, RegistersOK
    <3>2. registers' \in {ReadRegisters(mem'), ReadSp(registers, mem'), registers}
      BY <1>4 DEF TargetStops
    <3> QED BY <2>4, <3>1, <3>2, RegistersType
  <2> QED BY <1>1, <1>2, <2>1, <2>2, <2>4, <2>5, <2>6 DEF Typed, RegistersOK
<1>5. CASE UNCHANGED <<session, mem, cachedPC, registers, edits>>
  BY <1>1, <1>2, <1>5 DEF Typed
<1>6. Reads \/ ClientReads \/ UNCHANGED vars => UNCHANGED <<session, mem, cachedPC, registers, edits>>
  BY DEF Reads, HandleScopes, HandleVariables, HandleEvaluate, HandleReadMemory,
         HandleDisassemble, Answer, ClientReads, vars
<1> QED BY <1>3, <1>4, <1>5, <1>6, EditType DEF Next

LEMMA TypedInit ==
  ASSUME Init
  PROVE  Typed
<1>1. MemOK(Ran(Erase, 0))
  BY EraseType, RanType
<1>2. MemOK(mem)
  BY <1>1 DEF Init
<1>3. DOMAIN registers = {} /\ session = "none"
  BY DEF Init
<1> QED BY <1>2, <1>3, RequestsAssumption DEF Init, Typed, FlashListed, SymtabListed

\* The state has its types whatever files are launched and whatever the client
\* asks for and edits: the image fits the flash, every byte of the target stays a
\* byte through every edit of a variable, a bit, a register or memory, and the
\* sizes inferred for variables are 1, 2 and 4.
THEOREM TypeCorrect == Spec => []TypeOK
<1>1. Init => Typed
  BY TypedInit
<1>2. Typed /\ [Next]_vars => Typed'
  BY TypedStep
<1>3. Typed => TypeOK
  <2> SUFFICES ASSUME Typed PROVE TypeOK
    OBVIOUS
  <2>1. ImageOK(Image) /\ TableOK(Table)
    BY ImageType, TableType DEF Typed
  <2>2. \A v \in Range(Table.locals) \cup Range(Table.globals) : v.size \in {1, 2, 4}
    <3>1. \A v \in Range(Table.locals) : v \in ScopedRecord
      BY <2>1 DEF TableOK, Range
    <3>2. \A v \in Range(Table.globals) : v \in SizedRecord
      BY <2>1 DEF TableOK, Range
    <3> QED BY <3>1, <3>2 DEF ScopedRecord, SizedRecord
  <2>3. \A space \in {"XDATA", "DATA", "R"} : \A a \in DOMAIN mem[space] : mem[space][a] \in 0 .. Byte - 1
    BY DEF Typed, MemOK, DataSpaces, ByteValue
  <2>4. mem.CODE \in [0 .. CodeSize - 1 -> Opcode] /\ {mem.PC, cachedPC} \subseteq Nat
    BY DEF Typed, MemOK, CodeMemory
  <2>5. \A i \in DOMAIN registers : registers[i] \in 0 .. Byte - 1
    BY DEF Typed, ByteValue
  <2> QED BY <2>1, <2>2, <2>3, <2>4, <2>5 DEF TypeOK, Typed, FlashListed, SymtabListed, ImageOK
<1> QED BY <1>1, <1>2, <1>3, PTL DEF Spec

-----------------------------------------------------------------------------
LEMMA ChainStops ==
  ASSUME NEW code \in CodeMemory, NEW from \in Nat, NEW len \in Nat, from + len <= CodeSize,
         NEW s, IsChain(s, code, from, len), NEW j \in 1 .. Len(s)
  PROVE  s[j] \in Nat /\ s[j] \in 0 .. CodeSize - 1
<1> DEFINE a == s[j]
<1>1. a \in from .. from + len - 1
  BY DEF IsChain
<1>2. CodeSize \in Nat
  BY DisassemblerAssumption
<1> HIDE DEF a
<1>3. a \in Nat /\ a \in 0 .. CodeSize - 1
  BY <1>1, <1>2
<1> QED BY <1>3 DEF a

\* The stops of a chain rise by 1 to 3 bytes a step.
LEMMA ChainGrows ==
  ASSUME NEW code \in CodeMemory, NEW from \in Nat, NEW len \in Nat, from + len <= CodeSize,
         NEW s, IsChain(s, code, from, len),
         NEW i \in 1 .. Len(s), NEW d \in Nat, i + d <= Len(s)
  PROVE  s[i] + d <= s[i + d] /\ s[i + d] <= s[i] + 3 * d
<1> DEFINE Good == {e \in Nat : i + e <= Len(s) => s[i] + e <= s[i + e] /\ s[i + e] <= s[i] + 3 * e}
<1>1. s \in Seq(Nat) /\ Len(s) \in Nat
  BY DEF IsChain
<1>2. \A j \in 1 .. Len(s) : s[j] \in Nat /\ s[j] \in 0 .. CodeSize - 1
  BY ChainStops
<1>3. 0 \in Good
  <2>1. s[i] \in Nat /\ s[i + 0] = s[i]
    BY <1>2
  <2> QED BY <2>1
<1>4. ASSUME NEW e \in Nat, e \in Good PROVE e + 1 \in Good
  <2>1. SUFFICES ASSUME i + (e + 1) <= Len(s)
                 PROVE  s[i] + (e + 1) <= s[i + (e + 1)] /\ s[i + (e + 1)] <= s[i] + 3 * (e + 1)
    OBVIOUS
  <2>2. i + e \in 1 .. Len(s) - 1 /\ i + e \in 1 .. Len(s) /\ i + e + 1 = i + (e + 1)
    BY <1>1, <2>1
  <2>3. s[i] + e <= s[i + e] /\ s[i + e] <= s[i] + 3 * e
    BY <1>4, <2>2
  <2>4. s[i + e + 1] = s[i + e] + LengthAt(code, s[i + e])
    BY <2>2 DEF IsChain, Linked
  <2>5. LengthAt(code, s[i + e]) \in 1 .. 3
    BY <1>2, <2>2, LengthRange
  <2>6. s[i] \in Nat /\ s[i + e] \in Nat
    BY <1>2, <2>2
  <2> DEFINE a == s[i]
             b == s[i + e]
             l == LengthAt(code, b)
  <2>7. s[i + (e + 1)] = b + l
    BY <2>2, <2>4
  <2>8. a \in Nat /\ b \in Nat /\ l \in 1 .. 3 /\ a + e <= b /\ b <= a + 3 * e
    BY <2>3, <2>5, <2>6
  <2> HIDE DEF a, b, l
  <2>9. a + (e + 1) <= b + l /\ b + l <= a + 3 * (e + 1)
    BY <2>8
  <2> QED BY <2>7, <2>9 DEF a
<1>5. Nat \subseteq Good
  <2> HIDE DEF Good
  <2> QED BY <1>3, <1>4, Induct
<1> QED BY <1>5

LEMMA ChainOrder ==
  ASSUME NEW code \in CodeMemory, NEW from \in Nat, NEW len \in Nat, from + len <= CodeSize,
         NEW s, IsChain(s, code, from, len),
         NEW i \in 1 .. Len(s), NEW j \in 1 .. Len(s)
  PROVE  /\ s[i] \in Nat /\ s[j] \in Nat
         /\ i <= j => s[i] + (j - i) <= s[j] /\ s[j] <= s[i] + 3 * (j - i)
         /\ s[i] <= s[j] => i <= j
<1>1. s[i] \in Nat /\ s[j] \in Nat
  BY ChainStops
<1>2. ASSUME i <= j PROVE s[i] + (j - i) <= s[j] /\ s[j] <= s[i] + 3 * (j - i)
  <2>1. j - i \in Nat /\ i + (j - i) = j /\ i + (j - i) <= Len(s)
    BY <1>2
  <2> QED BY <2>1, ChainGrows
<1>3. ASSUME s[i] <= s[j], j < i PROVE FALSE
  <2>1. i - j \in Nat /\ j + (i - j) = i /\ j + (i - j) <= Len(s) /\ i - j > 0
    BY <1>3
  <2>2. s[j] + (i - j) <= s[j + (i - j)]
    BY <2>1, ChainGrows
  <2>3. s[j] + (i - j) <= s[i]
    BY <2>1, <2>2
  <2> DEFINE a == s[i]
             b == s[j]
             d == i - j
  <2>4. a \in Nat /\ b \in Nat /\ d \in Nat /\ d > 0 /\ b + d <= a /\ a <= b
    BY <1>1, <1>3, <2>1, <2>3
  <2> HIDE DEF a, b, d
  <2> QED BY <2>4
<1> QED BY <1>1, <1>2, <1>3

\* A walk that begins at an instruction of the memory goes on as its instructions do.
LEMMA ChainTail ==
  ASSUME NEW code \in CodeMemory, NEW s, IsChain(s, code, 0, CodeSize),
         NEW p \in 1 .. Len(s), NEW len \in Nat \ {0}, s[p] + len <= CodeSize,
         NEW t, IsChain(t, code, s[p], len)
  PROVE  /\ p + Len(t) - 1 <= Len(s)
         /\ \A j \in 1 .. Len(t) : t[j] = s[p + j - 1]
         /\ p + Len(t) - 1 < Len(s) =>
              p + Len(t) \in 1 .. Len(s) /\ s[p + Len(t)] >= s[p] + len
<1>1. /\ s \in Seq(Nat) /\ Len(s) \in Nat /\ t \in Seq(Nat) /\ Len(t) \in Nat
      /\ Len(t) >= 1 /\ t[1] = s[p]
      /\ CodeSize \in Nat /\ CodeSize > 0
  <2>1. CodeSize \in Nat /\ CodeSize > 0
    BY DisassemblerAssumption
  <2>2. s \in Seq(Nat) /\ t \in Seq(Nat)
    BY DEF IsChain
  <2>3. len > 0
    OBVIOUS
  <2>4. Len(t) >= 1 /\ t[1] = s[p]
    BY <2>3 DEF IsChain
  <2>5. Len(s) \in Nat
    BY <2>2
  <2>6. Len(t) \in Nat
    BY <2>2
  <2> QED BY <2>1, <2>2, <2>4, <2>5, <2>6
<1>2. /\ \A j \in 1 .. Len(s) : s[j] \in Nat
      /\ \A j \in 1 .. Len(t) : t[j] \in Nat /\ t[j] < CodeSize
  <2>1. 0 \in Nat /\ 0 + CodeSize <= CodeSize
    BY <1>1
  <2>2. \A j \in 1 .. Len(s) : s[j] \in Nat
    BY <1>1, <2>1, ChainStops
  <2>3. s[p] \in Nat
    BY <2>2
  <2> SUFFICES ASSUME NEW j \in 1 .. Len(t) PROVE t[j] \in Nat /\ t[j] < CodeSize
    BY <2>2
  <2>4. t[j] \in Nat /\ t[j] \in 0 .. CodeSize - 1
    BY <2>3, ChainStops
  <2> DEFINE a == t[j]
  <2>5. a \in Nat /\ a \in 0 .. CodeSize - 1
    BY <2>4
  <2> HIDE DEF a
  <2>6. a < CodeSize
    BY <1>1, <2>5
  <2> QED BY <2>5, <2>6 DEF a
<1>3. s[Len(s)] + LengthAt(code, s[Len(s)]) >= CodeSize
  BY <1>1 DEF IsChain
<1> DEFINE Good == {j \in Nat : j + 1 <= Len(t) => p + j <= Len(s) /\ t[j + 1] = s[p + j]}
<1>4. 0 \in Good
  BY <1>1
<1>5. ASSUME NEW j \in Nat, j \in Good PROVE j + 1 \in Good
  <2>1. SUFFICES ASSUME j + 1 + 1 <= Len(t)
                 PROVE  p + (j + 1) <= Len(s) /\ t[j + 1 + 1] = s[p + (j + 1)]
    OBVIOUS
  <2>2. p + j <= Len(s) /\ t[j + 1] = s[p + j]
    BY <1>1, <1>5, <2>1
  <2>3. j + 1 \in 1 .. Len(t) - 1 /\ j + 1 + 1 \in 1 .. Len(t) /\ p + j \in 1 .. Len(s)
    BY <1>1, <2>1, <2>2
  <2>4. t[j + 1 + 1] = s[p + j] + LengthAt(code, s[p + j])
    BY <2>2, <2>3 DEF IsChain, Linked
  <2>5. t[j + 1 + 1] < CodeSize /\ t[j + 1 + 1] \in Nat
    BY <1>2, <2>3
  <2>6. p + j # Len(s)
    <3>1. ASSUME p + j = Len(s) PROVE FALSE
      <4>1. s[p + j] + LengthAt(code, s[p + j]) >= CodeSize
        BY <1>3, <3>1
      <4> QED BY <1>1, <2>4, <2>5, <4>1
    <3> QED BY <3>1
  <2>7. p + j \in 1 .. Len(s) - 1 /\ p + j + 1 = p + (j + 1)
    BY <1>1, <2>3, <2>6
  <2>8. s[p + j + 1] = s[p + j] + LengthAt(code, s[p + j])
    BY <2>7 DEF IsChain, Linked
  <2> QED BY <1>1, <2>4, <2>7, <2>8
<1>6. Nat \subseteq Good
  <2> HIDE DEF Good
  <2> QED BY <1>4, <1>5, Induct
<1>7. ASSUME NEW j \in 1 .. Len(t) PROVE p + j - 1 <= Len(s) /\ t[j] = s[p + j - 1]
  <2>1. j - 1 \in Nat /\ j - 1 + 1 = j /\ p + (j - 1) = p + j - 1
    OBVIOUS
  <2>2. p + (j - 1) <= Len(s) /\ t[j - 1 + 1] = s[p + (j - 1)]
    BY <1>6, <2>1
  <2> QED BY <2>1, <2>2
<1>8. p + Len(t) - 1 <= Len(s)
  BY <1>1, <1>7
<1>9. ASSUME p + Len(t) - 1 < Len(s)
      PROVE  p + Len(t) \in 1 .. Len(s) /\ s[p + Len(t)] >= s[p] + len
  <2> DEFINE m == p + Len(t) - 1
  <2>1. m \in 1 .. Len(s) - 1 /\ m + 1 = p + Len(t)
    <3> DEFINE n == Len(t)
               k == Len(s)
    <3>1. p \in Nat /\ p >= 1 /\ n \in Nat /\ k \in Nat /\ n >= 1 /\ p + n - 1 < k
      BY <1>1, <1>9
    <3> HIDE DEF n, k
    <3>2. p + n - 1 \in 1 .. k - 1 /\ p + n - 1 + 1 = p + n
      BY <3>1
    <3> QED BY <3>2 DEF n, k
  <2>2. t[Len(t)] = s[m]
    BY <1>1, <1>7
  <2>3. t[Len(t)] + LengthAt(code, t[Len(t)]) >= s[p] + len
    BY DEF IsChain
  <2> HIDE DEF m
  <2>4. s[m + 1] = s[m] + LengthAt(code, s[m])
    BY <2>1 DEF IsChain, Linked
  <2> QED BY <1>1, <2>1, <2>2, <2>3, <2>4
<1> QED BY <1>7, <1>8, <1>9

-----------------------------------------------------------------------------
\* The walk of a listing, and where the base is in it.
SweepFrom(start, want) == IF start + want > CodeSize THEN CodeSize - start ELSE want

\* The walk of a listing that begins at the p-th instruction of the memory, for
\* the n instructions wanted from the q-th one on, which is the base.
Sweeps(code, order, p, q, n, t) ==
  /\ code \in CodeMemory
  /\ IsChain(order, code, 0, CodeSize)
  /\ p \in 1 .. Len(order) /\ q \in 1 .. Len(order)
  /\ order[p] <= order[q]
  /\ n \in Nat \ {0}
  /\ IsChain(t, code, order[p], SweepFrom(order[p], (order[q] - order[p]) + 3 * n + 3))

\* One sequence is a part of another, from a place on.
Follows(t, s, p) == \A j \in 1 .. Len(t) : t[j] = s[p + j - 1]

\* It ends with the memory, or past the instructions wanted.
Reaches(order, p, q, n, t) ==
  \/ p + Len(t) - 1 = Len(order)
  \/ p + Len(t) - 1 < Len(order) /\ q - p + n + 1 <= Len(t)

LEMMA SweepIs ==
  ASSUME NEW code, NEW order, NEW p, NEW q, NEW n, NEW t, Sweeps(code, order, p, q, n, t)
  PROVE  /\ p \in Nat /\ q \in Nat /\ p >= 1 /\ p <= q /\ q <= Len(order)
         /\ Len(order) \in Nat /\ Len(t) \in Nat
         /\ order[p] \in Nat /\ order[q] \in Nat
         /\ order[p] + (q - p) <= order[q] /\ order[q] <= order[p] + 3 * (q - p)
         /\ Follows(t, order, p)
         /\ q - p + 1 <= Len(t)
         /\ Reaches(order, p, q, n, t)
<1> DEFINE a == order[p]
           b == order[q]
           want == (b - a) + 3 * n + 3
           len  == SweepFrom(a, want)
           N == Len(order)
           M == Len(t)
<1>1. CodeSize \in Nat /\ CodeSize > 0 /\ 0 \in Nat /\ 0 + CodeSize <= CodeSize
  BY DisassemblerAssumption
<1>2. p \in Nat /\ q \in Nat /\ p >= 1 /\ N \in Nat /\ p <= N /\ q <= N /\ q >= 1 /\ n \in Nat /\ n >= 1
  <2>1. order \in Seq(Nat) /\ p \in 1 .. Len(order) /\ q \in 1 .. Len(order) /\ n \in Nat \ {0}
    BY DEF Sweeps, IsChain
  <2>2. Len(order) \in Nat
    BY <2>1
  <2> QED BY <2>1, <2>2
<1>3. a \in Nat /\ b \in Nat /\ a < CodeSize /\ b < CodeSize /\ a <= b
  <2>1. p \in 1 .. Len(order) /\ q \in 1 .. Len(order) /\ order[p] <= order[q]
    BY DEF Sweeps
  <2>2. a \in Nat /\ a \in 0 .. CodeSize - 1 /\ b \in Nat /\ b \in 0 .. CodeSize - 1
    BY <1>1, <2>1, ChainStops DEF Sweeps
  <2> HIDE DEF a, b
  <2>3. a < CodeSize /\ b < CodeSize
    BY <1>1, <2>2
  <2> QED BY <2>1, <2>2, <2>3 DEF a, b
<1>4. p <= q /\ a + (q - p) <= b /\ b <= a + 3 * (q - p)
  <2>1. p \in 1 .. Len(order) /\ q \in 1 .. Len(order) /\ IsChain(order, code, 0, CodeSize)
        /\ code \in CodeMemory
    BY DEF Sweeps
  <2>2. order[p] <= order[q]
    BY <1>3
  <2>3. p <= q
    BY <1>1, <2>1, <2>2, ChainOrder
  <2>4. order[p] + (q - p) <= order[q] /\ order[q] <= order[p] + 3 * (q - p)
    BY <1>1, <2>1, <2>3, ChainOrder
  <2> QED BY <2>3, <2>4
<1>5. len \in Nat \ {0} /\ a + len <= CodeSize /\ a + len > b
      /\ (a + len >= CodeSize \/ a + len = b + 3 * n + 3)
  <2> HIDE DEF a, b
  <2> QED BY <1>1, <1>2, <1>3 DEF SweepFrom
<1>6. code \in CodeMemory /\ IsChain(order, code, 0, CodeSize) /\ p \in 1 .. Len(order)
      /\ IsChain(t, code, order[p], len)
  BY DEF Sweeps
<1>7. /\ p + M - 1 <= N
      /\ \A j \in 1 .. M : t[j] = order[p + j - 1]
      /\ p + M - 1 < N => p + M \in 1 .. N /\ order[p + M] >= a + len
  <2> HIDE DEF len
  <2> QED BY <1>5, <1>6, ChainTail
<1>8. M \in Nat
  <2>1. t \in Seq(Nat)
    BY <1>6 DEF IsChain
  <2> QED BY <2>1
<1>9. ASSUME p + M - 1 < N
      PROVE  q - p + n + 1 <= M
  <2> DEFINE c == order[p + M]
  <2>1. p + M \in 1 .. N /\ c >= a + len
    BY <1>7, <1>9
  <2>2. c \in Nat /\ c \in 0 .. CodeSize - 1
    BY <1>1, <1>6, <2>1, ChainStops
  <2>3. q <= p + M
    <3>1. order[q] <= order[p + M]
      <4> HIDE DEF a, b, c, len
      <4>1. b <= c
        BY <1>3, <1>5, <2>1, <2>2
      <4> QED BY <4>1 DEF b, c
    <3>2. q \in 1 .. Len(order)
      BY <1>2
    <3> QED BY <1>1, <1>6, <2>1, <3>1, <3>2, ChainOrder
  <2>4. c <= b + 3 * (p + M - q)
    <3>1. q \in 1 .. Len(order)
      BY <1>2
    <3> QED BY <1>1, <1>6, <2>1, <2>3, <3>1, ChainOrder
  <2> HIDE DEF a, b, c, len, M, N
  <2>5. c < CodeSize
    BY <1>1, <2>2
  <2>6. a + len = b + 3 * n + 3
    BY <1>1, <1>3, <1>5, <2>1, <2>2, <2>5
  <2>7. b + 3 * n + 3 <= b + 3 * (p + M - q)
    BY <1>2, <1>3, <1>8, <2>1, <2>2, <2>4, <2>6
  <2> QED BY <1>2, <1>3, <1>8, <2>7
<1>10. q - p + 1 <= M
  <2> HIDE DEF a, b, len, M, N
  <2>1. CASE p + M - 1 < N
    BY <1>2, <1>8, <1>9, <2>1
  <2>2. CASE ~ (p + M - 1 < N)
    BY <1>2, <1>7, <1>8, <2>2
  <2> QED BY <2>1, <2>2
<1>11. p + M - 1 = N \/ p + M - 1 < N
  <2> HIDE DEF a, b, len, M, N
  <2> QED BY <1>2, <1>7, <1>8
<1>12. Reaches(order, p, q, n, t)
  BY <1>9, <1>11 DEF Reaches
<1>13. Follows(t, order, p)
  BY <1>7 DEF Follows
<1> QED BY <1>12, <1>13, <1>2, <1>3, <1>4, <1>7, <1>8, <1>9, <1>10, <1>11

\* The x-th to the y-th of its elements, k of them: the a-th to the b-th of the other's.
Aligned(t, s, p, x, y, a, b, k) ==
  /\ s \in Seq(Nat) /\ t \in Seq(Nat)
  /\ p \in Nat /\ p >= 1 /\ x \in Nat /\ y \in Nat /\ 1 <= x /\ x <= y /\ y <= Len(t)
  /\ Follows(t, s, p) /\ p + Len(t) - 1 <= Len(s)
  /\ a = p + x - 1 /\ b = p + y - 1 /\ k = y - x + 1

SamePart(t, s, x, y, a, b, k) ==
  /\ SubSeq(t, x, y) = SubSeq(s, a, b)
  /\ Len(SubSeq(t, x, y)) = k
  /\ Last(SubSeq(t, x, y)) = t[y]

LEMMA SubSeqShift ==
  ASSUME NEW s, NEW t, NEW p, NEW x, NEW y, NEW a, NEW b, NEW k, Aligned(t, s, p, x, y, a, b, k)
  PROVE  SamePart(t, s, x, y, a, b, k)
<1> DEFINE u == SubSeq(t, x, y)
           v == SubSeq(s, a, b)
<1>1. s \in Seq(Nat) /\ t \in Seq(Nat) /\ Follows(t, s, p)
  BY DEF Aligned
<1>2. Len(s) \in Nat /\ Len(t) \in Nat
  BY <1>1
<1>3. /\ p \in Nat /\ p >= 1 /\ x \in Nat /\ y \in Nat /\ 1 <= x /\ x <= y /\ y <= Len(t)
      /\ a = p + x - 1 /\ b = p + y - 1 /\ k = y - x + 1 /\ p + Len(t) - 1 <= Len(s)
  BY DEF Aligned
<1>4. /\ k \in Nat /\ k >= 1 /\ a \in Nat /\ b \in Nat
      /\ a <= b /\ k = b - a + 1 /\ a >= 1 /\ b <= Len(s)
  BY <1>2, <1>3
<1>5. u \in Seq(Nat) /\ Len(u) = k /\ \A i \in 1 .. k : u[i] = t[x + i - 1]
  <2>1. \A i \in x .. y : t[i] \in Nat
    <3> SUFFICES ASSUME NEW i \in x .. y PROVE t[i] \in Nat
      OBVIOUS
    <3>1. i \in 1 .. Len(t)
      BY <1>2, <1>3
    <3> QED BY <1>1, <3>1, ElementOfSeq
  <2>2. /\ u \in Seq(Nat)
        /\ Len(u) = IF x <= y THEN y - x + 1 ELSE 0
        /\ \A i \in 1 .. y - x + 1 : u[i] = t[x + i - 1]
    <3>1. x \in Int /\ y \in Int
      BY <1>3
    <3> QED BY <2>1, <3>1, SubSeqProperties
  <2> HIDE DEF u
  <2> QED BY <1>3, <2>2
<1>6. v \in Seq(Nat) /\ Len(v) = k /\ \A i \in 1 .. k : v[i] = s[a + i - 1]
  <2>1. \A i \in a .. b : s[i] \in Nat
    <3> SUFFICES ASSUME NEW i \in a .. b PROVE s[i] \in Nat
      OBVIOUS
    <3>1. i \in 1 .. Len(s)
      BY <1>2, <1>4
    <3> QED BY <1>1, <3>1, ElementOfSeq
  <2>2. /\ v \in Seq(Nat)
        /\ Len(v) = IF a <= b THEN b - a + 1 ELSE 0
        /\ \A i \in 1 .. b - a + 1 : v[i] = s[a + i - 1]
    BY <1>4, <2>1, SubSeqProperties
  <2> HIDE DEF v
  <2> QED BY <1>4, <2>2
<1> HIDE DEF u, v
<1>7. ASSUME NEW i \in 1 .. k PROVE u[i] = v[i]
  <2>1. x + i - 1 \in 1 .. Len(t) /\ p + (x + i - 1) - 1 = a + i - 1
    BY <1>2, <1>3
  <2>2. t[x + i - 1] = s[p + (x + i - 1) - 1]
    BY <1>1, <2>1 DEF Follows
  <2> QED BY <1>5, <1>6, <2>1, <2>2
<1>8. u = v
  <2>1. Len(u) = Len(v) /\ \A i \in 1 .. Len(u) : u[i] = v[i]
    BY <1>5, <1>6, <1>7
  <2> QED BY <1>5, <1>6, <2>1, SeqEqual
<1>9. Last(u) = t[y]
  <2>1. k \in 1 .. k /\ x + k - 1 = y
    BY <1>3, <1>4
  <2>2. u[k] = t[x + k - 1]
    BY <1>5, <2>1
  <2> QED BY <1>5, <2>1, <2>2 DEF Last
<1> QED BY <1>5, <1>8, <1>9 DEF u, v, SamePart

LEMMA CountType ==
  ASSUME NEW asked \in Int
  PROVE  ListingCount(asked) \in Nat \ {0}
BY DisassemblerAssumption DEF ListingCount

\* The part of the order of the instructions that a listing should have.
Wanted(order, q, before, n) ==
  LET from == IF q > before THEN q - before ELSE 1
  IN  SubSeq(order, from, IF from + n - 1 > Len(order) THEN Len(order) ELSE from + n - 1)

\* A listing that is not full ends with the memory.
Filling(code, listed, n) ==
  Len(listed) < n => Last(listed) + LengthAt(code, Last(listed)) >= CodeSize

\* What a listing takes of its walk.
Cuts(order, p, q, n, before, t, first, listed) ==
  /\ before \in Nat
  /\ order[p] = ListingStart(order[q], before)
  /\ first = IF q - p + 1 - before < 1 THEN 1 ELSE q - p + 1 - before
  /\ listed = SubSeq(t, first, IF first + n - 1 > Len(t) THEN Len(t) ELSE first + n - 1)

LEMMA CutRight ==
  ASSUME NEW code, NEW order, NEW p, NEW q, NEW n, NEW t, Sweeps(code, order, p, q, n, t),
         NEW before, NEW first, NEW listed, Cuts(order, p, q, n, before, t, first, listed)
  PROVE  listed = Wanted(order, q, before, n) /\ Filling(code, listed, n)
<1> DEFINE a == order[p]
           b == order[q]
           N == Len(order)
           M == Len(t)
           from == IF q > before THEN q - before ELSE 1
           x == first
           y == IF x + n - 1 > M THEN M ELSE x + n - 1
           z == IF from + n - 1 > N THEN N ELSE from + n - 1
<1>1. /\ p \in Nat /\ q \in Nat /\ p >= 1 /\ p <= q /\ q <= N
      /\ N \in Nat /\ M \in Nat /\ a \in Nat /\ b \in Nat
      /\ b <= a + 3 * (q - p)
      /\ q - p + 1 <= M
      /\ \/ p + M - 1 = N
         \/ p + M - 1 < N /\ q - p + n + 1 <= M
  <2>1. /\ p \in Nat /\ q \in Nat /\ p >= 1 /\ p <= q /\ q <= Len(order)
        /\ Len(order) \in Nat /\ Len(t) \in Nat
    BY SweepIs
  <2>2. order[p] \in Nat /\ order[q] \in Nat /\ order[q] <= order[p] + 3 * (q - p)
    BY SweepIs
  <2>3. q - p + 1 <= Len(t)
    BY SweepIs
  <2>4. Reaches(order, p, q, n, t)
    BY SweepIs
  <2> QED BY <2>1, <2>2, <2>3, <2>4 DEF a, b, M, N, Reaches
<1>2. Follows(t, order, p)
  BY SweepIs
<1>3. /\ n \in Nat /\ n >= 1 /\ code \in CodeMemory /\ order \in Seq(Nat) /\ t \in Seq(Nat)
      /\ IsChain(order, code, 0, CodeSize)
  BY DEF Sweeps, IsChain
<1>4. CodeSize \in Nat /\ CodeSize > 0
  BY DisassemblerAssumption
<1>5. order[1] = 0 /\ order[N] + LengthAt(code, order[N]) >= CodeSize
  BY <1>3, <1>4 DEF IsChain
<1>0. before \in Nat /\ first = IF q - p + 1 - before < 1 THEN 1 ELSE q - p + 1 - before
  BY DEF Cuts
<1>6. a = IF b < 3 * before THEN 0 ELSE b - 3 * before
  BY DEF ListingStart, Cuts
<1>7. p = 1 \/ q - p >= before
  <2>1. CASE b < 3 * before
    <3>1. 1 \in 1 .. N /\ p \in 1 .. N /\ 0 \in Nat /\ 0 + CodeSize <= CodeSize
      <4> HIDE DEF a, b, N, M
      <4> QED BY <1>1, <1>4
    <3>2. order[1] + (p - 1) <= order[p]
      BY <1>1, <1>3, <1>4, <3>1, ChainOrder
    <3>3. order[p] = 0
      BY <1>6, <2>1
    <3> QED BY <1>1, <1>5, <3>2, <3>3
  <2>2. CASE ~ (b < 3 * before)
    <3> HIDE DEF a, b, N, M
    <3> QED BY <1>0, <1>1, <1>6, <2>2
  <2> QED BY <2>1, <2>2
<1> HIDE DEF a, b, N, M
<1>8. from \in Nat /\ x \in Nat /\ 1 <= x /\ p + x - 1 = from /\ x <= q - p + 1
  BY <1>0, <1>1, <1>7
<1> HIDE DEF from, x
<1>9. y \in Nat /\ x <= y /\ y <= M /\ z = p + y - 1
      /\ (y - x + 1 < n => y = M /\ p + M - 1 = N)
  <2>1. CASE x + n - 1 > M
    <3>1. y = M /\ M < x + n - 1
      BY <1>1, <1>3, <1>8, <2>1
    <3>2. ~ (q - p + n + 1 <= M)
      BY <1>1, <1>3, <1>8, <3>1
    <3>3. p + M - 1 = N
      BY <1>1, <3>2
    <3>4. from + n - 1 > N /\ x <= M
      BY <1>1, <1>3, <1>8, <3>1, <3>3
    <3> HIDE DEF y
    <3> QED BY <1>1, <1>8, <3>1, <3>3, <3>4
  <2>2. CASE ~ (x + n - 1 > M)
    <3>1. y = x + n - 1 /\ from + n - 1 = p + y - 1 /\ y \in Nat
      BY <1>1, <1>3, <1>8, <2>2
    <3>2. from + n - 1 <= N
      BY <1>1, <1>3, <1>8, <2>2
    <3> QED BY <1>1, <1>3, <1>8, <2>2, <3>1, <3>2
  <2> QED BY <2>1, <2>2
<1> HIDE DEF y, z
<1>10. p + M - 1 <= N
  BY <1>1
<1> DEFINE k == y - x + 1
<1>11. /\ SubSeq(t, x, y) = SubSeq(order, from, z)
       /\ Len(SubSeq(t, x, y)) = k
       /\ Last(SubSeq(t, x, y)) = t[y]
  <2>1. Follows(t, order, p) /\ p + Len(t) - 1 <= Len(order) /\ y <= Len(t)
    BY <1>2, <1>9, <1>10 DEF M, N
  <2>2. p \in Nat /\ p >= 1 /\ x \in Nat /\ y \in Nat /\ 1 <= x /\ x <= y
    BY <1>1, <1>8, <1>9
  <2>3. order \in Seq(Nat) /\ t \in Seq(Nat)
    BY <1>3
  <2>4. from = p + x - 1 /\ z = p + y - 1 /\ k = y - x + 1
    BY <1>8, <1>9
  <2> HIDE DEF k
  <2>5. Aligned(t, order, p, x, y, from, z, k)
    BY <2>1, <2>2, <2>3, <2>4 DEF Aligned
  <2>6. SamePart(t, order, x, y, from, z, k)
    BY <2>5, SubSeqShift
  <2> QED BY <2>6 DEF SamePart
<1>12. listed = SubSeq(t, x, y)
  BY DEF x, y, M, Cuts
<1>13. Wanted(order, q, before, n) = SubSeq(order, from, z)
  BY DEF Wanted, from, z, N
<1>14. listed = Wanted(order, q, before, n)
  BY <1>8, <1>9, <1>11, <1>12, <1>13
<1>15. ASSUME Len(listed) < n
       PROVE  Last(listed) + LengthAt(code, Last(listed)) >= CodeSize
  <2>1. y = M /\ p + M - 1 = N
    BY <1>9, <1>11, <1>12, <1>15
  <2>2. t[M] = order[p + M - 1]
    <3>1. M \in 1 .. M
      BY <1>1, <1>8, <1>9
    <3> QED BY <1>2, <3>1 DEF Follows, M
  <2>3. Last(listed) = order[N]
    BY <1>11, <1>12, <2>1, <2>2
  <2> QED BY <1>5, <2>3
<1> QED BY <1>14, <1>15 DEF Filling

\* What it shows of the walk t.
Cut(t, base, off, n) ==
  LET atBase == {i \in DOMAIN t : t[i] = base}
      begin  == (IF atBase = {} THEN 1 ELSE CHOOSE i \in atBase : TRUE) + off
      first  == IF begin < 1 THEN 1 ELSE begin
  IN  SubSeq(t, first, IF first + n - 1 > Len(t) THEN Len(t) ELSE first + n - 1)

\* The listing of an instruction, of those before it, and of those after it.
LEMMA ListingRight ==
  ASSUME NEW code \in CodeMemory, NEW base \in 0 .. CodeSize - 1,
         NEW off \in Int, off <= 0, NEW asked \in Int,
         NEW before, before = IF off < 0 THEN -off ELSE 0,
         NEW order, order = WalkOver(code, 0, CodeSize),
         NEW start, start = ListingStart(base, before),
         base \in Range(order), start \in Range(order),
         NEW n, n = ListingCount(asked),
         NEW l, l = Listing(code, base, off, asked).listed
  PROVE  \E q \in DOMAIN order :
           /\ order[q] = base
           /\ \A j \in DOMAIN order : order[j] = base => j = q
           /\ l = Wanted(order, q, before, n)
           /\ Filling(code, l, n)
<1> DEFINE want   == (base - start) + 3 * n + 3
           t      == Swept(code, base, start, n)
           atBase == {i \in DOMAIN t : t[i] = base}
           begin  == (IF atBase = {} THEN 1 ELSE CHOOSE i \in atBase : TRUE) + off
           first  == IF begin < 1 THEN 1 ELSE begin
<1>1. CodeSize \in Nat /\ CodeSize > 0 /\ 0 \in Nat /\ 0 + CodeSize <= CodeSize
  BY DisassemblerAssumption
<1>2. IsChain(order, code, 0, CodeSize)
  BY <1>1, WalkChain
<1>3. order \in Seq(Nat) /\ DOMAIN order = 1 .. Len(order) /\ Len(order) \in Nat
  <2>1. order \in Seq(Nat)
    BY <1>2 DEF IsChain
  <2> QED BY <2>1
<1>4. PICK q \in 1 .. Len(order) : order[q] = base
  BY <1>3 DEF Range
<1>5. PICK p \in 1 .. Len(order) : order[p] = start
  BY <1>3 DEF Range
<1>6. before \in Nat /\ off = 0 - before
  OBVIOUS
<1>7. start \in Nat /\ start <= base /\ base \in Nat /\ base < CodeSize
  BY <1>1, <1>6 DEF ListingStart
<1>8. n \in Nat \ {0}
  BY CountType
<1>9. t = WalkOver(code, start, SweepFrom(start, want))
  BY DEF Swept, WalkOver, SweepFrom
<1>10. SweepFrom(start, want) \in Nat /\ start + SweepFrom(start, want) <= CodeSize
  <2>1. want \in Nat
    BY <1>7, <1>8
  <2>2. start <= CodeSize
    BY <1>1, <1>7
  <2> HIDE DEF want
  <2>3. CASE start + want > CodeSize
    <3> DEFINE k == CodeSize - start
    <3>1. SweepFrom(start, want) = k
      BY <2>3 DEF SweepFrom
    <3>2. k \in Nat /\ start + k = CodeSize
      BY <1>1, <1>7, <2>2
    <3> HIDE DEF k
    <3>3. start + k <= CodeSize
      BY <1>1, <3>2
    <3> QED BY <3>1, <3>2, <3>3
  <2>4. CASE ~ (start + want > CodeSize)
    <3>1. SweepFrom(start, want) = want
      BY <2>4 DEF SweepFrom
    <3>2. start + want <= CodeSize
      BY <1>1, <1>7, <2>1, <2>4
    <3> QED BY <2>1, <3>1, <3>2
  <2> QED BY <2>3, <2>4
<1>11. IsChain(t, code, start, SweepFrom(start, want))
  <2> HIDE DEF want, t
  <2> QED BY <1>7, <1>9, <1>10, WalkChain
<1>12. Sweeps(code, order, p, q, n, t)
  <2> HIDE DEF t
  <2> QED BY <1>2, <1>4, <1>5, <1>7, <1>8, <1>11 DEF Sweeps
<1> HIDE DEF t
<1>13. ASSUME NEW j \in 1 .. Len(order), order[j] = base PROVE j = q
  <2>1. order[j] <= order[q] /\ order[q] <= order[j]
    <3>1. base <= base
      BY <1>7
    <3> QED BY <1>4, <1>13, <3>1
  <2>2. j <= q /\ q <= j
    BY <1>1, <1>2, <2>1, ChainOrder
  <2> QED BY <2>2
<1>14. /\ p \in Nat /\ q \in Nat /\ p >= 1 /\ p <= q /\ q <= Len(order) /\ Len(t) \in Nat
       /\ q - p + 1 <= Len(t)
  BY <1>12, SweepIs
<1>15. Follows(t, order, p)
  BY <1>12, SweepIs
<1>16. DOMAIN t = 1 .. Len(t) /\ p + Len(t) - 1 <= Len(order)
  <2>1. t \in Seq(Nat)
    BY <1>11 DEF IsChain
  <2>2. Reaches(order, p, q, n, t)
    BY <1>12, SweepIs
  <2>3. DOMAIN t = 1 .. Len(t)
    BY <2>1
  <2>4. p + Len(t) - 1 <= Len(order)
    <3>1. p + Len(t) - 1 = Len(order) \/ p + Len(t) - 1 < Len(order)
      BY <2>2 DEF Reaches
    <3> DEFINE M == p + Len(t) - 1
               N == Len(order)
    <3>2. M \in Int /\ N \in Int /\ (M = N \/ M < N)
      BY <1>3, <1>14, <3>1
    <3> HIDE DEF M, N
    <3>3. M <= N
      BY <3>2
    <3> QED BY <3>3 DEF M, N
  <2> QED BY <2>3, <2>4
<1>17. atBase = {q - p + 1}
  <2>1. q - p + 1 \in 1 .. Len(t) /\ p + (q - p + 1) - 1 = q
    BY <1>14
  <2>2. t[q - p + 1] = base
    <3>1. t[q - p + 1] = order[p + (q - p + 1) - 1]
      BY <1>15, <2>1 DEF Follows
    <3> QED BY <1>4, <2>1, <3>1
  <2>3. ASSUME NEW j \in 1 .. Len(t), t[j] = base PROVE j = q - p + 1
    <3>1. p + j - 1 \in 1 .. Len(order)
      <4> DEFINE M == Len(t)
                 N == Len(order)
      <4>1. M \in Nat /\ N \in Nat /\ j \in 1 .. M /\ p + M - 1 <= N
        BY <1>3, <1>14, <1>16, <2>3
      <4> HIDE DEF M, N
      <4>2. p + j - 1 \in 1 .. N
        BY <1>14, <4>1
      <4> QED BY <4>2 DEF N
    <3>2. order[p + j - 1] = base
      BY <1>15, <2>3 DEF Follows
    <3>3. p + j - 1 = q
      BY <1>13, <3>1, <3>2
    <3> QED BY <1>14, <3>3
  <2> QED BY <1>16, <2>1, <2>2, <2>3
<1>18. begin = q - p + 1 + off
  <2> HIDE DEF atBase
  <2> QED BY <1>17
<1>19. l = SubSeq(t, first, IF first + n - 1 > Len(t) THEN Len(t) ELSE first + n - 1)
  <2>1. Listing(code, base, off, asked).listed
          = Cut(Swept(code, base, ListingStart(base, IF off < 0 THEN -off ELSE 0), ListingCount(asked)),
                base, off, ListingCount(asked))
    BY Zenon DEF Listing, Cut
  <2>2. l = Cut(t, base, off, n)
    BY <2>1 DEF t
  <2> QED BY <2>2 DEF Cut
<1> HIDE DEF begin
<1>20. first = IF q - p + 1 - before < 1 THEN 1 ELSE q - p + 1 - before
  BY <1>6, <1>14, <1>18
<1> HIDE DEF first
<1>21. order[p] = ListingStart(order[q], before)
  BY <1>4, <1>5
<1>22. Cuts(order, p, q, n, before, t, first, l)
  BY <1>6, <1>19, <1>20, <1>21 DEF Cuts
<1>23. l = Wanted(order, q, before, n) /\ Filling(code, l, n)
  BY <1>12, <1>22, CutRight
<1> QED BY <1>3, <1>4, <1>13, <1>23

-----------------------------------------------------------------------------
\* The listing in a response is of the memory as it is, until the client has it.
ListingKept ==
  reply.kind = "disassemble" =>
    /\ reply.asked \in Listings
    /\ reply.listing = Listing(mem.CODE, (reply.asked.ref + reply.asked.offset) % CodeSize,
                               reply.asked.instrOffset, reply.asked.count)

LEMMA ListingStep ==
  ASSUME ListingKept, [Next]_vars
  PROVE  ListingKept'
<1>1. NoReply.kind = "none"
  BY DEF NoReply
<1>2. CASE reply' = NoReply
  BY <1>1, <1>2 DEF ListingKept
<1>3. CASE UNCHANGED <<reply, mem>>
  BY <1>3 DEF ListingKept
<1>4. Launches \/ TargetStops \/ Edits => reply' = NoReply
  BY DEF Launches, HandleLaunch, HandleLaunchNoImage, HandleLaunchNoTarget, Loads,
         TargetStops, Edits, HandleSetExpression, HandleSetVariable, HandleWriteMemory, Edit
<1>5. ClientReads => reply' = NoReply
  BY DEF ClientReads
<1>6. UNCHANGED vars => UNCHANGED <<reply, mem>>
  BY DEF vars
<1>7. ASSUME Reads PROVE ListingKept'
  <2>1. \A r \in Listings : HandleDisassemble(r) =>
          /\ reply' = [kind |-> "disassemble", asked |-> r,
                       listing |-> Listing(mem.CODE, (r.ref + r.offset) % CodeSize,
                                           r.instrOffset, r.count)]
          /\ UNCHANGED mem
    BY DEF HandleDisassemble, Answer
  <2>2. ASSUME NEW r \in Listings, HandleDisassemble(r) PROVE ListingKept'
    <3>1. /\ reply'.asked = r /\ UNCHANGED mem
          /\ reply'.listing = Listing(mem.CODE, (r.ref + r.offset) % CodeSize, r.instrOffset, r.count)
      BY <2>1, <2>2
    <3> QED BY <3>1 DEF ListingKept
  <2>3. HandleScopes \/ (\E scope \in Scopes : HandleVariables(scope)) \/ (\E name \in Names : HandleEvaluate(name))
          \/ (\E r \in MemRefs : HandleReadMemory(r))
        => reply'.kind # "disassemble"
    BY DEF HandleScopes, HandleVariables, HandleEvaluate, HandleReadMemory, Answer
  <2> QED BY <1>7, <2>2, <2>3 DEF Reads, ListingKept
<1> QED BY <1>2, <1>3, <1>4, <1>5, <1>6, <1>7 DEF Next

\* Whatever the code, and whatever edits it has had, a listing of an instruction,
\* with as many before it as asked for, has the true instructions, in order and
\* without a gap, when the walk begins at one of them; it is filled up only at
\* the top of the memory (HandleDisassemble).
THEOREM ListingAnchors == Spec => []ListingAnchored
<1>1. Init => Typed /\ ListingKept
  <2> SUFFICES ASSUME Init PROVE Typed /\ ListingKept
    OBVIOUS
  <2>1. Typed
    BY TypedInit
  <2> QED BY <2>1 DEF Init, NoReply, ListingKept
<1>2. Typed /\ ListingKept /\ [Next]_vars => (Typed /\ ListingKept)'
  BY TypedStep, ListingStep
<1>3. Typed /\ ListingKept => ListingAnchored
  <2> DEFINE r      == reply.asked
             code   == mem.CODE
             base   == (r.ref + r.offset) % CodeSize
             before == IF r.instrOffset < 0 THEN -r.instrOffset ELSE 0
             order  == WalkOver(code, 0, CodeSize)
             back   == IF base < 3 * before THEN 0 ELSE base - 3 * before
             l      == reply.listing.listed
             n      == ListingCount(r.count)
             i      == CHOOSE j \in DOMAIN order : order[j] = base
  <2> SUFFICES ASSUME Typed, ListingKept, reply.kind = "disassemble", r.instrOffset <= 0,
                      base \in Range(order), back \in Range(order)
               PROVE  /\ l = Wanted(order, i, before, n)
                      /\ Len(l) < n => Last(l) + LengthAt(code, Last(l)) >= CodeSize
    BY DEF ListingAnchored, WalkOver, Wanted, LengthAt
  <2>1. /\ r \in Listings
        /\ reply.listing = Listing(code, base, r.instrOffset, r.count)
    BY DEF ListingKept
  <2>2. r.ref \in Nat /\ r.offset \in Int /\ r.instrOffset \in Int /\ r.count \in Int
    BY <2>1, RequestsAssumption
  <2>3. code \in CodeMemory
    BY DEF Typed, MemOK
  <2>4. base \in 0 .. CodeSize - 1
    <3>1. CodeSize \in Nat \ {0}
      BY DisassemblerAssumption
    <3>2. r.ref + r.offset \in Int
      BY <2>2
    <3> DEFINE s == r.ref + r.offset
    <3>3. s \in Int
      BY <3>2
    <3> HIDE DEF s
    <3>4. s % CodeSize \in 0 .. CodeSize - 1
      BY <3>1, <3>3
    <3> QED BY <3>4 DEF s
  <2>5. back = ListingStart(base, before)
    BY DEF ListingStart
  <2>6. l = Listing(code, base, r.instrOffset, r.count).listed
    BY <2>1
  <2> DEFINE off == r.instrOffset
             asked == r.count
  <2>7. /\ off \in Int /\ off <= 0 /\ asked \in Int /\ before = (IF off < 0 THEN -off ELSE 0)
        /\ n = ListingCount(asked) /\ l = Listing(code, base, off, asked).listed
        /\ order = WalkOver(code, 0, CodeSize)
        /\ base \in Range(order) /\ back \in Range(order)
    BY <2>2, <2>6
  <2> HIDE DEF l, n, before, back, order, base, code, off, asked
  <2>8. PICK q \in DOMAIN order :
           /\ order[q] = base
           /\ \A j \in DOMAIN order : order[j] = base => j = q
           /\ l = Wanted(order, q, before, n)
           /\ Filling(code, l, n)
    BY <2>3, <2>4, <2>5, <2>7, ListingRight
  <2>9. i = q
    BY <2>8
  <2> QED BY <2>8, <2>9 DEF Filling
<1> QED BY <1>1, <1>2, <1>3, PTL DEF Spec

-----------------------------------------------------------------------------
\* The members of a set of numbers, counted from the least.
UpTo(I, i) == Cardinality({j \in I : j <= i})

LEMMA UpToGrows ==
  ASSUME NEW I \in SUBSET Nat, IsFiniteSet(I), NEW i \in I, NEW k \in I, i < k
  PROVE  UpTo(I, i) < UpTo(I, k)
<1> DEFINE A == {j \in I : j <= i}
           B == {j \in I : j <= k}
<1>1. A \in SUBSET B /\ k \in B /\ k \notin A /\ B \in SUBSET I
  <2>1. i \in Nat /\ k \in Nat /\ \A j \in I : j \in Nat
    OBVIOUS
  <2>2. \A j \in A : j \in B
    BY <2>1
  <2>3. k \in B /\ k \notin A
    BY <2>1
  <2> QED BY <2>2, <2>3
<1> HIDE DEF A, B
<1>2. IsFiniteSet(B)
  BY <1>1, FS_Subset
<1>3. IsFiniteSet(A) /\ Cardinality(A) <= Cardinality(B) /\ Cardinality(B) # Cardinality(A)
  BY <1>1, <1>2, FS_Subset
<1>4. Cardinality(A) \in Nat /\ Cardinality(B) \in Nat
  BY <1>2, <1>3, FS_CardinalityType
<1> QED BY <1>3, <1>4 DEF UpTo, A, B

LEMMA Counted ==
  ASSUME NEW I \in SUBSET Nat, IsFiniteSet(I)
  PROVE  /\ Cardinality(I) \in Nat
         /\ \A i \in I : UpTo(I, i) \in 1 .. Cardinality(I)
         /\ \A i, k \in I : UpTo(I, i) = UpTo(I, k) => i = k
         /\ \A n \in 1 .. Cardinality(I) : \E i \in I : UpTo(I, i) = n
<1> DEFINE n == Cardinality(I)
<1>1. n \in Nat
  BY FS_CardinalityType
<1>2. ASSUME NEW i \in I PROVE UpTo(I, i) \in 1 .. n
  <2> DEFINE A == {j \in I : j <= i}
  <2>1. A \in SUBSET I /\ i \in A
    OBVIOUS
  <2> HIDE DEF A
  <2>2. IsFiniteSet(A) /\ Cardinality(A) <= n
    BY <2>1, FS_Subset
  <2>3. Cardinality(A) \in Nat /\ Cardinality(A) # 0
    BY <2>1, <2>2, FS_CardinalityType, FS_EmptySet
  <2>4. Cardinality(A) \in 1 .. n
    BY <1>1, <2>2, <2>3
  <2> QED BY <2>4 DEF UpTo, A
<1>3. ASSUME NEW i \in I, NEW k \in I, i # k PROVE UpTo(I, i) # UpTo(I, k)
  <2>1. i < k \/ k < i
    BY <1>3
  <2>2. UpTo(I, i) < UpTo(I, k) \/ UpTo(I, k) < UpTo(I, i)
    BY <2>1, UpToGrows
  <2> QED BY <1>2, <2>2
<1> DEFINE place == [i \in I |-> UpTo(I, i)]
           all   == {place[i] : i \in I}
<1>4. Cardinality(all) = n
  <2>1. place \in Surjection(I, all) /\ place \in Injection(I, all)
    BY <1>3 DEF Surjection, Injection, IsInjective
  <2> HIDE DEF place, all
  <2> QED BY <2>1, FS_Surjection
<1>5. all = 1 .. n
  <2>1. all \in SUBSET (1 .. n)
    BY <1>2
  <2>2. IsFiniteSet(1 .. n) /\ Cardinality(1 .. n) = n
    <3>1. /\ IsFiniteSet(1 .. n)
          /\ Cardinality(1 .. n) = IF 1 > n THEN 0 ELSE n - 1 + 1
      <4>1. 1 \in Int /\ n \in Int
        BY <1>1
      <4> QED BY <4>1, FS_Interval
    <3> QED BY <1>1, <3>1
  <2> HIDE DEF all
  <2> QED BY <1>4, <2>1, <2>2, FS_Subset
<1>6. \A k \in 1 .. n : \E i \in I : UpTo(I, i) = k
  BY <1>5
<1> QED BY <1>1, <1>2, <1>3, <1>6

\* The locals that LookupLocals finds are those in scope.
Scope(t, pc) == {i \in DOMAIN t.locals : InScope(t.locals[i], pc)}

LEMMA LocalsFound ==
  ASSUME NEW t, t.locals \in Seq(ScopedRecord), NEW pc
  PROVE  /\ Cardinality(Scope(t, pc)) \in Nat
         /\ DOMAIN LookupLocals(t, pc) = 1 .. Cardinality(Scope(t, pc))
         /\ LookupLocals(t, pc) \in Seq(ScopedRecord)
         /\ \A n \in DOMAIN LookupLocals(t, pc) :
              \E i \in Scope(t, pc) : LookupLocals(t, pc)[n] = t.locals[i]
         /\ \A i \in Scope(t, pc) :
              \E n \in DOMAIN LookupLocals(t, pc) : LookupLocals(t, pc)[n] = t.locals[i]
<1> DEFINE I   == Scope(t, pc)
           at  == [n \in 1 .. Cardinality(I) |-> CHOOSE i \in I : UpTo(I, i) = n]
           vs  == LookupLocals(t, pc)
<1>1. I \in SUBSET Nat /\ IsFiniteSet(I)
  <2>1. Len(t.locals) \in Nat /\ DOMAIN t.locals = 1 .. Len(t.locals)
    OBVIOUS
  <2>2. IsFiniteSet(1 .. Len(t.locals))
    <3>1. 1 \in Int /\ Len(t.locals) \in Int
      BY <2>1
    <3> QED BY <3>1, FS_Interval
  <2>3. I \in SUBSET (1 .. Len(t.locals))
    BY <2>1 DEF Scope
  <2> QED BY <2>2, <2>3, FS_Subset
<1>2. vs = [n \in 1 .. Cardinality(I) |-> t.locals[CHOOSE i \in I : UpTo(I, i) = n]]
  BY DEF LookupLocals, Scope, UpTo
<1>3. \A n \in 1 .. Cardinality(I) : vs[n] = t.locals[at[n]]
  <2> HIDE DEF vs, I
  <2> QED BY <1>2
<1> HIDE DEF vs, I
<1>4. ASSUME NEW n \in 1 .. Cardinality(I) PROVE at[n] \in I /\ UpTo(I, at[n]) = n
  <2>1. \E i \in I : UpTo(I, i) = n
    BY <1>1, Counted
  <2>2. at[n] = CHOOSE i \in I : UpTo(I, i) = n
    OBVIOUS
  <2> QED BY <2>1, <2>2, Zenon
<1> HIDE DEF at
<1>5. DOMAIN vs = 1 .. Cardinality(I) /\ Cardinality(I) \in Nat
  BY <1>1, <1>2, Counted
<1>6. \A i \in I : t.locals[i] \in ScopedRecord
  BY ElementOfSeq DEF I, Scope
<1>7. vs \in Seq(ScopedRecord)
  <2>1. vs = [n \in 1 .. Cardinality(I) |-> vs[n]]
    BY <1>2, <1>5
  <2>2. \A n \in 1 .. Cardinality(I) : vs[n] \in ScopedRecord
    BY <1>3, <1>4, <1>6
  <2>3. vs \in [1 .. Cardinality(I) -> ScopedRecord]
    BY <2>1, <2>2
  <2> QED BY <1>5, <2>3
<1>8. ASSUME NEW i \in I PROVE \E n \in 1 .. Cardinality(I) : vs[n] = t.locals[i]
  <2>1. UpTo(I, i) \in 1 .. Cardinality(I)
    BY <1>1, Counted
  <2>2. at[UpTo(I, i)] = i
    <3>1. at[UpTo(I, i)] \in I /\ UpTo(I, at[UpTo(I, i)]) = UpTo(I, i)
      BY <1>4, <2>1
    <3> DEFINE j == at[UpTo(I, i)]
    <3>2. j \in I /\ UpTo(I, j) = UpTo(I, i)
      BY <3>1
    <3> HIDE DEF j
    <3>3. j = i
      BY <1>1, <3>2, Counted
    <3> QED BY <3>3 DEF j
  <2> QED BY <1>3, <2>1, <2>2
<1> QED BY <1>3, <1>4, <1>5, <1>7, <1>8 DEF vs, I

-----------------------------------------------------------------------------
\* The functions of a map file (FunctionsAssumption).
Nested(file) ==
  \A p \in Procs(file) :
    /\ \E e \in DOMAIN file : e > p /\ file[e].rec = "endproc"
    /\ \A i \in Body(file, p) : file[i].rec \notin {"module", "proc"}

LEMMA EndRight ==
  ASSUME NEW file \in Seq(MapRecord), Nested(file), NEW p \in Procs(file)
  PROVE  /\ p \in Nat \ {0} /\ EndOf(file, p) \in 1 .. Len(file) /\ p < EndOf(file, p)
         /\ file[p].rec = "proc" /\ file[EndOf(file, p)].rec = "endproc"
         /\ \A i \in p + 1 .. EndOf(file, p) - 1 : file[i].rec \notin {"module", "proc", "endproc"}
<1> DEFINE S == {i \in DOMAIN file : i > p /\ file[i].rec = "endproc"}
<1>1. /\ Len(file) \in Nat /\ DOMAIN file = 1 .. Len(file)
      /\ p \in 1 .. Len(file) /\ file[p].rec = "proc"
  BY DEF Procs
<1>2. S \in SUBSET Nat /\ S # {}
  BY <1>1 DEF Nested
<1>3. EndOf(file, p) = Min(S)
  BY DEF EndOf
<1> HIDE DEF S
<1>4. EndOf(file, p) \in S /\ \A i \in S : EndOf(file, p) <= i
  BY <1>2, <1>3, MinNat
<1>5. EndOf(file, p) \in 1 .. Len(file) /\ p < EndOf(file, p) /\ file[EndOf(file, p)].rec = "endproc"
  BY <1>1, <1>4 DEF S
<1>6. ASSUME NEW i \in p + 1 .. EndOf(file, p) - 1
      PROVE  file[i].rec \notin {"module", "proc", "endproc"}
  <2>1. i \in Body(file, p) /\ i \in 1 .. Len(file) /\ i > p /\ ~ (EndOf(file, p) <= i)
    BY <1>1, <1>5 DEF Body
  <2>2. file[i].rec # "endproc"
    BY <1>1, <1>4, <2>1 DEF S
  <2>3. file[i].rec \notin {"module", "proc"}
    BY <2>1 DEF Nested
  <2> QED BY <2>2, <2>3
<1> QED BY <1>1, <1>5, <1>6

\* One function ends before the next begins.
LEMMA OneAfterAnother ==
  ASSUME NEW file \in Seq(MapRecord), Nested(file), NEW p \in Procs(file), NEW q \in Procs(file), p < q
  PROVE  EndOf(file, p) < q
<1>1. /\ p \in Nat /\ q \in Nat /\ file[q].rec = "proc" /\ EndOf(file, p) \in Nat
      /\ file[EndOf(file, p)].rec = "endproc"
      /\ \A i \in p + 1 .. EndOf(file, p) - 1 : file[i].rec # "proc"
  BY EndRight
<1>2. q \notin p + 1 .. EndOf(file, p) - 1 /\ q # EndOf(file, p)
  BY <1>1
<1> QED BY <1>1, <1>2

\* What the parser knows of a function after k records: its locals, the address
\* its code begins at, and that of its last line.
LocalRecords(file, p, k) == {i \in p + 1 .. k : file[i].rec = "local"}
CodeAt(file, p, k) ==
  {i \in p + 1 .. k : file[i].rec \in {"code", "line", "label"} /\ file[i].addr # 0}
LinesAt(file, p, k) == {i \in p + 1 .. k : file[i].rec = "line" /\ file[i].line > 0}

StartAt(file, p, k) ==
  IF CodeAt(file, p, k) = {} THEN 0 ELSE file[Min(CodeAt(file, p, k))].addr
LastAt(file, p, k) ==
  IF HasSource(file, p) /\ LinesAt(file, p, k) # {} THEN file[Max(LinesAt(file, p, k))].addr ELSE 0

LEMMA StartStep ==
  ASSUME NEW file \in Seq(MapRecord), NEW p \in Nat, NEW k \in Nat, p <= k
  PROVE  /\ StartAt(file, p, p) = 0
         /\ StartAt(file, p, k + 1)
              = IF StartAt(file, p, k) = 0 /\ file[k + 1].rec \in {"code", "line", "label"}
                THEN file[k + 1].addr ELSE StartAt(file, p, k)
<1> DEFINE S == CodeAt(file, p, k)
           T == CodeAt(file, p, k + 1)
           new == file[k + 1].rec \in {"code", "line", "label"} /\ file[k + 1].addr # 0
<1>1. StartAt(file, p, p) = 0
  <2>1. p + 1 .. p = {}
    OBVIOUS
  <2>2. CodeAt(file, p, p) = {}
    BY <2>1 DEF CodeAt
  <2> QED BY <2>2 DEF StartAt
<1>2. T = IF new THEN S \cup {k + 1} ELSE S
  <2>1. p + 1 .. k + 1 = (p + 1 .. k) \cup {k + 1}
    OBVIOUS
  <2> QED BY <2>1 DEF CodeAt
<1>3. /\ S \in SUBSET Nat /\ T \in SUBSET Nat /\ \A i \in S : i <= k
      /\ \A i \in S : file[i].addr # 0
  BY DEF CodeAt
<1>4. /\ StartAt(file, p, k) = IF S = {} THEN 0 ELSE file[Min(S)].addr
      /\ StartAt(file, p, k + 1) = IF T = {} THEN 0 ELSE file[Min(T)].addr
  BY DEF StartAt
<1> HIDE DEF S, T
<1>5. CASE S = {}
  <2>1. CASE new
    <3>1. T = {k + 1} /\ T # {}
      BY <1>2, <1>5, <2>1
    <3>2. Min(T) = k + 1
      BY <1>3, <3>1, MinNat
    <3> QED BY <1>1, <1>4, <1>5, <2>1, <3>1, <3>2
  <2>2. CASE ~ new
    BY <1>1, <1>2, <1>4, <1>5, <2>2
  <2> QED BY <2>1, <2>2
<1>6. CASE S # {}
  <2>1. Min(S) \in S /\ \A i \in S : Min(S) <= i
    BY <1>3, <1>6, MinNat
  <2>2. T # {}
    BY <1>2, <1>6
  <2>3. Min(T) \in T /\ \A i \in T : Min(T) <= i
    BY <1>3, <2>2, MinNat
  <2>4. Min(S) \in Nat /\ Min(T) \in Nat /\ Min(S) <= k
    BY <1>3, <2>1, <2>3
  <2>5. Min(T) <= Min(S)
    BY <1>2, <2>1, <2>3
  <2>6. Min(T) \in S
    BY <1>2, <2>3, <2>4, <2>5
  <2>7. Min(T) = Min(S)
    BY <2>1, <2>4, <2>5, <2>6
  <2>8. file[Min(S)].addr # 0
    BY <1>3, <2>1
  <2> QED BY <1>1, <1>4, <1>6, <2>2, <2>7, <2>8
<1> QED BY <1>5, <1>6

LEMMA LastStep ==
  ASSUME NEW file \in Seq(MapRecord), NEW p \in Nat, NEW k \in Nat, p <= k
  PROVE  /\ LastAt(file, p, p) = 0
         /\ LastAt(file, p, k + 1)
              = IF HasSource(file, p) /\ file[k + 1].rec = "line" /\ file[k + 1].line > 0
                THEN file[k + 1].addr ELSE LastAt(file, p, k)
<1> DEFINE S == LinesAt(file, p, k)
           T == LinesAt(file, p, k + 1)
           new == file[k + 1].rec = "line" /\ file[k + 1].line > 0
<1>1. LastAt(file, p, p) = 0
  <2>1. p + 1 .. p = {}
    OBVIOUS
  <2>2. LinesAt(file, p, p) = {}
    BY <2>1 DEF LinesAt
  <2> QED BY <2>2 DEF LastAt
<1>2. T = IF new THEN S \cup {k + 1} ELSE S
  <2>1. p + 1 .. k + 1 = (p + 1 .. k) \cup {k + 1}
    OBVIOUS
  <2> QED BY <2>1 DEF LinesAt
<1>3. T \in SUBSET Nat /\ \A i \in T : i <= k + 1
  BY DEF LinesAt
<1>4. /\ LastAt(file, p, k) = IF HasSource(file, p) /\ S # {} THEN file[Max(S)].addr ELSE 0
      /\ LastAt(file, p, k + 1) = IF HasSource(file, p) /\ T # {} THEN file[Max(T)].addr ELSE 0
  BY DEF LastAt
<1> HIDE DEF S, T
<1>5. CASE new
  <2>1. k + 1 \in T /\ T # {} /\ k + 1 \in Nat
    BY <1>2, <1>5
  <2>2. Max(T) \in T /\ \A i \in T : i <= Max(T)
    BY <1>3, <2>1, MaxNat
  <2>3. Max(T) = k + 1
    <3>1. Max(T) \in Nat /\ Max(T) <= k + 1 /\ k + 1 <= Max(T)
      BY <1>3, <2>1, <2>2
    <3> QED BY <3>1
  <2> QED BY <1>1, <1>4, <1>5, <2>1, <2>3
<1>6. CASE ~ new
  BY <1>1, <1>2, <1>4, <1>6
<1> QED BY <1>5, <1>6

\* The module that a record belongs to.
LEMMA SourceStep ==
  ASSUME NEW file \in Seq(MapRecord), NEW k \in Nat
  PROVE  /\ ~ HasSource(file, 0)
         /\ HasSource(file, k + 1) <=> IF file[k + 1].rec = "module" THEN file[k + 1].file # NoName
                                       ELSE HasSource(file, k)
<1>1. ~ HasSource(file, 0)
  BY DEF HasSource
<1>2. CASE file[k + 1].rec = "module"
  <2>1. ASSUME HasSource(file, k + 1) PROVE file[k + 1].file # NoName
    <3>1. PICK i \in 1 .. k + 1 : /\ file[i].rec = "module" /\ file[i].file # NoName
                                  /\ \A j \in i + 1 .. k + 1 : file[j].rec # "module"
      BY <2>1 DEF HasSource
    <3>2. ~ (k + 1 \in i + 1 .. k + 1)
      BY <1>2, <3>1
    <3>3. i = k + 1
      BY <3>2
    <3> QED BY <3>1, <3>3
  <2>2. ASSUME file[k + 1].file # NoName PROVE HasSource(file, k + 1)
    <3>1. k + 1 \in 1 .. k + 1 /\ k + 1 + 1 .. k + 1 = {}
      OBVIOUS
    <3> QED BY <1>2, <2>2, <3>1 DEF HasSource
  <2> QED BY <1>1, <1>2, <2>1, <2>2
<1>3. CASE file[k + 1].rec # "module"
  <2>1. ASSUME HasSource(file, k + 1) PROVE HasSource(file, k)
    <3>1. PICK i \in 1 .. k + 1 : /\ file[i].rec = "module" /\ file[i].file # NoName
                                  /\ \A j \in i + 1 .. k + 1 : file[j].rec # "module"
      BY <2>1 DEF HasSource
    <3>2. i # k + 1
      BY <1>3, <3>1
    <3>3. i \in 1 .. k /\ \A j \in i + 1 .. k : j \in i + 1 .. k + 1
      BY <3>2
    <3> QED BY <3>1, <3>3 DEF HasSource
  <2>2. ASSUME HasSource(file, k) PROVE HasSource(file, k + 1)
    <3>1. PICK i \in 1 .. k : /\ file[i].rec = "module" /\ file[i].file # NoName
                              /\ \A j \in i + 1 .. k : file[j].rec # "module"
      BY <2>2 DEF HasSource
    <3>2. i \in 1 .. k + 1 /\ \A j \in i + 1 .. k + 1 : j \in i + 1 .. k \/ j = k + 1
      OBVIOUS
    <3> QED BY <1>3, <3>1, <3>2 DEF HasSource
  <2> QED BY <1>1, <1>3, <2>1, <2>2
<1> QED BY <1>2, <1>3

LEMMA SourceOfProc ==
  ASSUME NEW file \in Seq(MapRecord), NEW p \in Nat, NEW k \in Nat, p <= k,
         \A i \in p + 1 .. k : file[i].rec # "module"
  PROVE  HasSource(file, k) <=> HasSource(file, p)
<1>1. ASSUME HasSource(file, k) PROVE HasSource(file, p)
  <2>1. PICK i \in 1 .. k : /\ file[i].rec = "module" /\ file[i].file # NoName
                            /\ \A j \in i + 1 .. k : file[j].rec # "module"
    BY <1>1 DEF HasSource
  <2>2. i \notin p + 1 .. k
    BY <2>1
  <2>3. i \in 1 .. p /\ \A j \in i + 1 .. p : j \in i + 1 .. k
    BY <2>2
  <2> QED BY <2>1, <2>3 DEF HasSource
<1>2. ASSUME HasSource(file, p) PROVE HasSource(file, k)
  <2>1. PICK i \in 1 .. p : /\ file[i].rec = "module" /\ file[i].file # NoName
                            /\ \A j \in i + 1 .. p : file[j].rec # "module"
    BY <1>2 DEF HasSource
  <2>2. i \in 1 .. k /\ \A j \in i + 1 .. k : j \in i + 1 .. p \/ j \in p + 1 .. k
    OBVIOUS
  <2> QED BY <2>1, <2>2 DEF HasSource
<1> QED BY <1>1, <1>2

\* The locals of a function, as the table has them.
VarsOf(file, p)   == VariablesAt(file, LocalRecords(file, p, EndOf(file, p) - 1))
ScopeStart(file, p) == StartAt(file, p, EndOf(file, p) - 1)
ScopeEnd(file, p)   == LastAt(file, p, EndOf(file, p) - 1) + 1
Chunk(file, p) ==
  {Scoped(Sized(VarsOf(file, p))[i], ScopeStart(file, p), ScopeEnd(file, p)) :
     i \in DOMAIN Sized(VarsOf(file, p))}

Ended(file, k) == {p \in Procs(file) : EndOf(file, p) <= k}

\* The parser is in a function, or between two, after k records.
Inside(file, s, p, k) ==
  /\ p \in Procs(file) /\ p <= k /\ k < EndOf(file, p)
  /\ s.pending = VariablesAt(file, LocalRecords(file, p, k))
  /\ s.start = StartAt(file, p, k) /\ s.last = LastAt(file, p, k)

Between(file, s, k) ==
  /\ s.pending = {}
  /\ \A q \in Procs(file) : q <= k => EndOf(file, q) <= k

Tracks(file, s, k) ==
  /\ s.inProc \in BOOLEAN
  /\ s.file # NoName <=> HasSource(file, k)
  /\ s.inProc = TRUE => \E p \in Procs(file) : Inside(file, s, p, k)
  /\ s.inProc = FALSE => Between(file, s, k)
  /\ Range(s.table.locals) = UNION {Chunk(file, p) : p \in Ended(file, k)}

LEMMA EndedStep ==
  ASSUME NEW file \in Seq(MapRecord), Nested(file), NEW k \in Nat
  PROVE  /\ file[k + 1].rec # "endproc" => Ended(file, k + 1) = Ended(file, k)
         /\ \A q \in Procs(file) : EndOf(file, q) = k + 1 => q <= k /\ file[k + 1].rec = "endproc"
<1>1. \A q \in Procs(file) : /\ q \in Nat /\ EndOf(file, q) \in Nat /\ q < EndOf(file, q)
                             /\ file[EndOf(file, q)].rec = "endproc"
  BY EndRight
<1>2. \A q \in Procs(file) : EndOf(file, q) = k + 1 => q <= k /\ file[k + 1].rec = "endproc"
  BY <1>1
<1>3. ASSUME file[k + 1].rec # "endproc" PROVE Ended(file, k + 1) = Ended(file, k)
  <2>1. \A q \in Procs(file) : EndOf(file, q) <= k + 1 <=> EndOf(file, q) <= k
    BY <1>1, <1>2, <1>3
  <2> QED BY <2>1 DEF Ended
<1> QED BY <1>2, <1>3

LEMMA RangeOfBoth ==
  ASSUME NEW S, NEW s \in Seq(S), NEW t \in Seq(S)
  PROVE  Range(s \o t) = Range(s) \cup Range(t)
<1>1. /\ Len(s) \in Nat /\ Len(t) \in Nat /\ DOMAIN s = 1 .. Len(s) /\ DOMAIN t = 1 .. Len(t)
      /\ DOMAIN (s \o t) = 1 .. Len(s) + Len(t)
      /\ \A i \in 1 .. Len(s) + Len(t) : (s \o t)[i] = IF i <= Len(s) THEN s[i] ELSE t[i - Len(s)]
  BY ConcatProperties
<1> DEFINE u == s \o t
<1>2. ASSUME NEW i \in DOMAIN u PROVE u[i] \in Range(s) \cup Range(t)
  <2>1. CASE i <= Len(s)
    BY <1>1, <2>1 DEF Range
  <2>2. CASE ~ (i <= Len(s))
    <3>1. i - Len(s) \in DOMAIN t /\ u[i] = t[i - Len(s)]
      BY <1>1, <2>2
    <3> QED BY <3>1 DEF Range
  <2> QED BY <2>1, <2>2
<1>3. ASSUME NEW i \in DOMAIN s PROVE s[i] \in Range(u)
  <2>1. i \in DOMAIN u /\ u[i] = s[i]
    BY <1>1
  <2> QED BY <2>1 DEF Range
<1>4. ASSUME NEW i \in DOMAIN t PROVE t[i] \in Range(u)
  <2>1. i + Len(s) \in DOMAIN u /\ ~ (i + Len(s) <= Len(s)) /\ i + Len(s) - Len(s) = i
    BY <1>1
  <2>2. u[i + Len(s)] = t[i]
    BY <1>1, <2>1
  <2> QED BY <2>1, <2>2 DEF Range
<1> HIDE DEF u
<1>5. Range(u) = Range(s) \cup Range(t)
  BY <1>2, <1>3, <1>4 DEF Range
<1> QED BY <1>5 DEF u

\* A record that neither begins nor ends a function.
LEMMA InnerStep ==
  ASSUME NEW file \in Seq(MapRecord), Nested(file), NEW k \in 0 .. Len(file) - 1, NEW s,
         Tracks(file, s, k), file[k + 1].rec \notin {"module", "proc", "endproc"},
         NEW u, u.file = s.file, u.inProc = s.inProc, u.table.locals = s.table.locals,
         s.inProc = FALSE => u.pending = s.pending,
         s.inProc = TRUE =>
           /\ u.pending = IF file[k + 1].rec = "local" THEN s.pending \cup {Variable(file[k + 1])}
                          ELSE s.pending
           /\ u.start = IF s.start = 0 /\ file[k + 1].rec \in {"code", "line", "label"}
                        THEN file[k + 1].addr ELSE s.start
           /\ u.last = IF s.file # NoName /\ file[k + 1].rec = "line" /\ file[k + 1].line > 0
                       THEN file[k + 1].addr ELSE s.last
  PROVE  Tracks(file, u, k + 1)
<1> DEFINE r == file[k + 1]
<1>1. k \in Nat /\ k + 1 \in Nat /\ k <= k + 1
  OBVIOUS
<1>2. HasSource(file, k + 1) <=> HasSource(file, k)
  BY <1>1, SourceStep
<1>3. Ended(file, k + 1) = Ended(file, k)
  BY <1>1, EndedStep
<1>4. ASSUME s.inProc = TRUE PROVE \E p \in Procs(file) : Inside(file, u, p, k + 1)
  <2>1. PICK p \in Procs(file) : Inside(file, s, p, k)
    BY <1>4 DEF Tracks
  <2>2. /\ p \in Nat /\ EndOf(file, p) \in Nat /\ p <= k /\ k < EndOf(file, p)
        /\ file[EndOf(file, p)].rec = "endproc"
        /\ \A i \in p + 1 .. EndOf(file, p) - 1 : file[i].rec # "module"
    BY <2>1, EndRight DEF Inside
  <2>3. k + 1 < EndOf(file, p)
    BY <1>1, <2>2
  <2>4. LocalRecords(file, p, k + 1) = IF r.rec = "local" THEN LocalRecords(file, p, k) \cup {k + 1}
                                       ELSE LocalRecords(file, p, k)
    <3>1. p + 1 .. k + 1 = (p + 1 .. k) \cup {k + 1}
      BY <2>2
    <3> QED BY <3>1 DEF LocalRecords
  <2>5. u.pending = VariablesAt(file, LocalRecords(file, p, k + 1))
    BY <1>4, <2>1, <2>4 DEF Inside, VariablesAt
  <2>6. u.start = StartAt(file, p, k + 1)
    <3>1. u.start = IF s.start = 0 /\ r.rec \in {"code", "line", "label"} THEN r.addr ELSE s.start
      BY <1>4
    <3> QED BY <1>1, <2>1, <2>2, <3>1, StartStep DEF Inside
  <2>7. HasSource(file, p) <=> s.file # NoName
    <3>1. \A i \in p + 1 .. k : file[i].rec # "module"
      BY <1>1, <2>2
    <3>2. HasSource(file, k) <=> HasSource(file, p)
      BY <1>1, <2>2, <3>1, SourceOfProc
    <3> QED BY <3>2 DEF Tracks
  <2>8. u.last = LastAt(file, p, k + 1)
    <3>1. u.last = IF s.file # NoName /\ r.rec = "line" /\ r.line > 0 THEN r.addr ELSE s.last
      BY <1>4
    <3> QED BY <1>1, <2>1, <2>2, <2>7, <3>1, LastStep DEF Inside
  <2>9. p <= k + 1
    BY <1>1, <2>2
  <2> QED BY <2>3, <2>5, <2>6, <2>8, <2>9 DEF Inside
<1>5. ASSUME s.inProc = FALSE PROVE Between(file, u, k + 1)
  <2>1. Between(file, s, k) /\ u.pending = {}
    BY <1>5 DEF Tracks, Between
  <2>2. ASSUME NEW q \in Procs(file), q <= k + 1 PROVE EndOf(file, q) <= k + 1
    <3>1. q \in Nat /\ EndOf(file, q) \in Nat /\ q # k + 1
      BY EndRight
    <3>2. EndOf(file, q) <= k
      BY <1>1, <2>1, <2>2, <3>1 DEF Between
    <3> QED BY <1>1, <3>1, <3>2
  <2> QED BY <2>1, <2>2 DEF Between
<1> QED BY <1>2, <1>3, <1>4, <1>5 DEF Tracks

LEMMA ModuleStep ==
  ASSUME NEW file \in Seq(MapRecord), Nested(file), NEW k \in 0 .. Len(file) - 1, NEW s,
         Tracks(file, s, k), file[k + 1].rec = "module",
         NEW u, u.file = file[k + 1].file, u.inProc = s.inProc, u.pending = s.pending,
         u.table.locals = s.table.locals
  PROVE  Tracks(file, u, k + 1)
<1>1. k \in Nat /\ k + 1 \in Nat
  OBVIOUS
<1>2. HasSource(file, k + 1) <=> u.file # NoName
  BY <1>1, SourceStep
<1>3. Ended(file, k + 1) = Ended(file, k)
  BY <1>1, EndedStep
<1>4. s.inProc = FALSE
  <2> SUFFICES ASSUME s.inProc = TRUE PROVE FALSE
    BY DEF Tracks
  <2>1. PICK p \in Procs(file) : Inside(file, s, p, k)
    BY DEF Tracks
  <2>2. /\ p \in Nat /\ EndOf(file, p) \in Nat /\ p <= k /\ k < EndOf(file, p)
        /\ file[EndOf(file, p)].rec = "endproc"
        /\ \A i \in p + 1 .. EndOf(file, p) - 1 : file[i].rec # "module"
    BY <2>1, EndRight DEF Inside
  <2> QED BY <1>1, <2>2
<1>5. Between(file, u, k + 1)
  <2>1. Between(file, s, k)
    BY <1>4 DEF Tracks
  <2>2. ASSUME NEW q \in Procs(file), q <= k + 1 PROVE EndOf(file, q) <= k + 1
    <3>1. q \in Nat /\ EndOf(file, q) \in Nat /\ q # k + 1
      BY EndRight
    <3>2. EndOf(file, q) <= k
      BY <1>1, <2>1, <2>2, <3>1 DEF Between
    <3> QED BY <1>1, <3>1, <3>2
  <2> QED BY <2>1, <2>2 DEF Between
<1> QED BY <1>2, <1>3, <1>4, <1>5 DEF Tracks

LEMMA ProcStep ==
  ASSUME NEW file \in Seq(MapRecord), Nested(file), NEW k \in 0 .. Len(file) - 1, NEW s,
         Tracks(file, s, k), file[k + 1].rec = "proc",
         NEW u, u.file = s.file, u.inProc = TRUE, u.pending = {}, u.start = 0, u.last = 0,
         u.table.locals = s.table.locals
  PROVE  Tracks(file, u, k + 1)
<1> DEFINE p == k + 1
<1>1. k \in Nat /\ p \in Nat /\ p \in DOMAIN file
  OBVIOUS
<1>2. HasSource(file, k + 1) <=> HasSource(file, k)
  BY <1>1, SourceStep
<1>3. Ended(file, k + 1) = Ended(file, k)
  BY <1>1, EndedStep
<1>4. p \in Procs(file) /\ p < EndOf(file, p)
  <2>1. p \in Procs(file)
    BY <1>1 DEF Procs
  <2> QED BY <2>1, EndRight
<1>5. VariablesAt(file, LocalRecords(file, p, p)) = {}
  <2>1. p + 1 .. p = {}
    BY <1>1
  <2> HIDE DEF p
  <2> QED BY <2>1 DEF LocalRecords, VariablesAt
<1> HIDE DEF p
<1>6. StartAt(file, p, p) = 0 /\ LastAt(file, p, p) = 0 /\ p <= p
  BY <1>1, StartStep, LastStep
<1>7. Inside(file, u, p, p)
  BY <1>4, <1>5, <1>6 DEF Inside
<1> QED BY <1>2, <1>3, <1>4, <1>7 DEF Tracks, p

LEMMA EndProcStep ==
  ASSUME NEW file, WellFormed(file), Nested(file), NEW k \in 0 .. Len(file) - 1, NEW s,
         Reading(file, s, k), Tracks(file, s, k), file[k + 1].rec = "endproc",
         NEW u, u.file = s.file, u.inProc = FALSE, u.pending = {},
         u.table.locals = s.table.locals \o
           [i \in DOMAIN Sized(s.pending) |-> Scoped(Sized(s.pending)[i], s.start, s.last + 1)]
  PROVE  Tracks(file, u, k + 1)
<1> DEFINE z      == Sized(s.pending)
           scoped == [i \in DOMAIN z |-> Scoped(z[i], s.start, s.last + 1)]
<1>1. /\ k \in Nat /\ k + 1 \in Nat /\ k \in 0 .. Len(file) /\ file \in Seq(MapRecord)
  BY DEF WellFormed
<1>2. HasSource(file, k + 1) <=> HasSource(file, k)
  BY <1>1, SourceStep
<1>3. z \in Seq(SizedRecord)
  BY <1>1, VariablesReading, SizedType
<1>4. s.table.locals \in Seq(ScopedRecord) /\ scoped \in Seq(ScopedRecord)
  <2>1. s.start \in Nat /\ s.last + 1 \in Nat /\ s.table.locals \in Seq(ScopedRecord)
    BY DEF Reading
  <2> HIDE DEF z
  <2> QED BY <1>3, <2>1, ScopedType
<1>5. Range(u.table.locals) = Range(s.table.locals) \cup Range(scoped)
  <2> HIDE DEF scoped
  <2>1. Range(s.table.locals \o scoped) = Range(s.table.locals) \cup Range(scoped)
    BY <1>4, RangeOfBoth
  <2>2. u.table.locals = s.table.locals \o scoped
    BY DEF scoped
  <2> QED BY <2>1, <2>2
<1>6. Range(scoped) = {Scoped(z[i], s.start, s.last + 1) : i \in DOMAIN z}
  <2> HIDE DEF z
  <2> QED BY DEF Range
<1> HIDE DEF scoped
<1>7. \A q \in Procs(file) : q \in Nat /\ EndOf(file, q) \in Nat /\ file[q].rec = "proc" /\ q < EndOf(file, q)
  BY <1>1, EndRight
<1>8. Range(s.table.locals) = UNION {Chunk(file, q) : q \in Ended(file, k)}
  BY DEF Tracks
<1>9. CASE s.inProc = TRUE
  <2>1. PICK p \in Procs(file) : Inside(file, s, p, k)
    BY <1>9 DEF Tracks
  <2>2. /\ p \in Nat /\ EndOf(file, p) \in Nat /\ p <= k /\ k < EndOf(file, p)
        /\ \A i \in p + 1 .. EndOf(file, p) - 1 : file[i].rec # "endproc"
    BY <1>1, <2>1, EndRight DEF Inside
  <2>3. EndOf(file, p) = k + 1 /\ EndOf(file, p) - 1 = k
    BY <1>1, <2>2
  <2>4. Range(scoped) = Chunk(file, p)
    <3>1. /\ s.pending = VarsOf(file, p) /\ s.start = ScopeStart(file, p)
          /\ s.last + 1 = ScopeEnd(file, p)
      BY <2>1, <2>3 DEF Inside, VarsOf, ScopeStart, ScopeEnd
    <3> QED BY <1>6, <3>1 DEF Chunk
  <2>5. ASSUME NEW q \in Procs(file), q <= k + 1
        PROVE  EndOf(file, q) <= k + 1 /\ (EndOf(file, q) <= k \/ q = p)
    <3>1. q # k + 1
      BY <1>7
    <3>2. CASE q = p
      BY <2>2, <2>3, <3>2
    <3>3. CASE q < p
      <4>1. EndOf(file, q) < p
        BY <1>1, <3>3, OneAfterAnother
      <4> QED BY <1>1, <1>7, <2>2, <4>1
    <3>4. CASE p < q
      <4>1. EndOf(file, p) < q
        BY <1>1, <3>4, OneAfterAnother
      <4> QED BY <1>1, <1>7, <2>3, <2>5, <4>1
    <3> QED BY <1>7, <2>2, <3>2, <3>3, <3>4
  <2>6. Ended(file, k + 1) = Ended(file, k) \cup {p}
    <3>1. \A q \in Procs(file) : EndOf(file, q) <= k + 1 => EndOf(file, q) <= k \/ q = p
      <4> SUFFICES ASSUME NEW q \in Procs(file), EndOf(file, q) <= k + 1
                   PROVE  EndOf(file, q) <= k \/ q = p
        OBVIOUS
      <4>1. q <= k + 1
        BY <1>1, <1>7
      <4> QED BY <2>5, <4>1
    <3>2. \A q \in Procs(file) : EndOf(file, q) <= k => EndOf(file, q) <= k + 1
      BY <1>1, <1>7
    <3>3. EndOf(file, p) <= k + 1
      BY <1>1, <2>3
    <3> QED BY <3>1, <3>2, <3>3 DEF Ended
  <2>7. Range(u.table.locals) = UNION {Chunk(file, q) : q \in Ended(file, k + 1)}
    BY <1>5, <1>8, <2>4, <2>6
  <2>8. Between(file, u, k + 1)
    BY <2>5 DEF Between
  <2> QED BY <1>2, <2>7, <2>8 DEF Tracks
<1>10. CASE s.inProc = FALSE
  <2>1. s.pending = {} /\ \A q \in Procs(file) : q <= k => EndOf(file, q) <= k
    BY <1>10 DEF Tracks, Between
  <2>2. Range(scoped) = {}
    <3>1. DOMAIN z = 1 .. Cardinality(s.pending)
      BY <1>1, VariablesReading, SizedType
    <3>2. Cardinality(s.pending) = 0
      BY <2>1, FS_EmptySet
    <3>3. DOMAIN z = {}
      BY <3>1, <3>2
    <3> HIDE DEF z
    <3> QED BY <1>6, <3>3
  <2>3. ASSUME NEW q \in Procs(file), q <= k + 1 PROVE EndOf(file, q) <= k
    <3>1. q # k + 1
      BY <1>7
    <3>2. q <= k
      BY <1>1, <1>7, <2>3, <3>1
    <3> QED BY <2>1, <3>2
  <2>4. Ended(file, k + 1) = Ended(file, k)
    <3>1. \A q \in Procs(file) : EndOf(file, q) <= k + 1 <=> EndOf(file, q) <= k
      <4> SUFFICES ASSUME NEW q \in Procs(file) PROVE EndOf(file, q) <= k + 1 <=> EndOf(file, q) <= k
        OBVIOUS
      <4>1. EndOf(file, q) <= k + 1 => q <= k + 1
        BY <1>1, <1>7
      <4>2. EndOf(file, q) <= k => EndOf(file, q) <= k + 1
        BY <1>1, <1>7
      <4> QED BY <2>3, <4>1, <4>2
    <3> QED BY <3>1 DEF Ended
  <2>5. Between(file, u, k + 1)
    <3>1. \A q \in Procs(file) : q <= k + 1 => EndOf(file, q) <= k + 1
      BY <1>1, <1>7, <2>3
    <3> QED BY <3>1 DEF Between
  <2>6. Range(u.table.locals) = UNION {Chunk(file, q) : q \in Ended(file, k + 1)}
    BY <1>5, <1>8, <2>2, <2>4
  <2> QED BY <1>2, <2>5, <2>6 DEF Tracks
<1> QED BY <1>9, <1>10 DEF Tracks

LEMMA TrackStep ==
  ASSUME NEW file, WellFormed(file), Nested(file), NEW k \in 0 .. Len(file) - 1, NEW s,
         Reading(file, s, k), Tracks(file, s, k)
  PROVE  Tracks(file, Parse(s, file[k + 1]), k + 1)
<1> DEFINE r == file[k + 1]
           u == Parse(s, r)
           Fields == {"table", "globals", "file", "inProc", "start", "last", "pending"}
           Tab    == {"symbols", "lines", "locals", "globals", "bits"}
           Shaped == Fields \subseteq DOMAIN s /\ Tab \subseteq DOMAIN s.table
<1> SUFFICES Tracks(file, u, k + 1)
  OBVIOUS
<1>1. file \in Seq(MapRecord) /\ r \in MapRecord
  BY DEF WellFormed
<1>2. Shaped /\ s.inProc \in BOOLEAN
  BY DEF Reading, Tracks
<1>3. CASE r.rec = "module"
  <2>1. u = [s EXCEPT !.file = r.file]
    BY <1>3 DEF Parse, Module
  <2> HIDE DEF r
  <2>2. u.file = r.file /\ u.inProc = s.inProc /\ u.pending = s.pending /\ u.table.locals = s.table.locals
    BY <1>2, <2>1
  <2> HIDE DEF u
  <2> QED BY <1>1, <1>3, <2>2, ModuleStep DEF r, u
<1>4. CASE r.rec = "proc"
  <2>1. u = [s EXCEPT !.inProc = TRUE, !.start = 0, !.last = 0, !.pending = {}]
    BY <1>4 DEF Parse, Proc
  <2> HIDE DEF r
  <2>2. /\ u.file = s.file /\ u.inProc = TRUE /\ u.pending = {} /\ u.start = 0 /\ u.last = 0
        /\ u.table.locals = s.table.locals
    BY <1>2, <2>1
  <2> HIDE DEF u
  <2> QED BY <1>1, <1>4, <2>2, ProcStep DEF r, u
<1>5. CASE r.rec = "endproc"
  <2> DEFINE z      == Sized(s.pending)
             scoped == [i \in DOMAIN z |-> Scoped(z[i], s.start, s.last + 1)]
  <2>1. u = [s EXCEPT !.table.locals = @ \o scoped, !.pending = {}, !.inProc = FALSE]
    BY <1>5 DEF Parse, EndProc
  <2> HIDE DEF r, scoped
  <2>2. /\ u.file = s.file /\ u.inProc = FALSE /\ u.pending = {}
        /\ u.table.locals = s.table.locals \o scoped
    BY <1>2, <2>1
  <2> HIDE DEF u
  <2> USE DEF scoped
  <2> QED BY <1>1, <1>5, <2>2, EndProcStep DEF r, u
<1> DEFINE Inner(w) ==
      /\ w.file = s.file /\ w.inProc = s.inProc /\ w.table.locals = s.table.locals
      /\ s.inProc = FALSE => w.pending = s.pending
      /\ s.inProc = TRUE =>
           /\ w.pending = IF r.rec = "local" THEN s.pending \cup {Variable(r)} ELSE s.pending
           /\ w.start = IF s.start = 0 /\ r.rec \in {"code", "line", "label"} THEN r.addr ELSE s.start
           /\ w.last = IF s.file # NoName /\ r.rec = "line" /\ r.line > 0 THEN r.addr ELSE s.last
<1>6. ASSUME r.rec \notin {"module", "proc", "endproc"}, Inner(u)
      PROVE  Tracks(file, u, k + 1)
  <2>1. /\ file[k + 1].rec \notin {"module", "proc", "endproc"}
        /\ u.file = s.file /\ u.inProc = s.inProc /\ u.table.locals = s.table.locals
        /\ s.inProc = FALSE => u.pending = s.pending
        /\ s.inProc = TRUE =>
             /\ u.pending = IF file[k + 1].rec = "local" THEN s.pending \cup {Variable(file[k + 1])}
                            ELSE s.pending
             /\ u.start = IF s.start = 0 /\ file[k + 1].rec \in {"code", "line", "label"}
                          THEN file[k + 1].addr ELSE s.start
             /\ u.last = IF s.file # NoName /\ file[k + 1].rec = "line" /\ file[k + 1].line > 0
                         THEN file[k + 1].addr ELSE s.last
    <3> HIDE DEF u
    <3> QED BY <1>6
  <2> HIDE DEF u
  <2> QED BY <1>1, <2>1, InnerStep
<1>7. CASE r.rec = "local"
  <2>1. u = IF s.inProc THEN [s EXCEPT !.pending = @ \cup {Variable(r)}] ELSE s
    BY <1>7 DEF Parse, Local
  <2> HIDE DEF r
  <2>2. Inner(u)
    BY <1>2, <1>7, <2>1
  <2> HIDE DEF u, Inner
  <2> QED BY <1>6, <1>7, <2>2
<1>8. CASE r.rec = "global"
  <2>1. u = [s EXCEPT !.globals = @ \cup {Variable(r)}]
    BY <1>8 DEF Parse, Global
  <2> HIDE DEF r
  <2>2. Inner(u)
    BY <1>2, <1>8, <2>1
  <2> HIDE DEF u, Inner
  <2> QED BY <1>6, <1>8, <2>2
<1>9. CASE r.rec = "bit"
  <2>1. u = [s EXCEPT !.table.bits = Append(@, [name |-> r.name, addr |-> r.addr, bit |-> r.bit])]
    BY <1>9 DEF Parse, Bit
  <2> HIDE DEF r
  <2>2. Inner(u)
    BY <1>2, <1>9, <2>1
  <2> HIDE DEF u, Inner
  <2> QED BY <1>6, <1>9, <2>2
<1>10. CASE r.rec \in {"code", "line", "label"}
  <2> DEFINE q == IF s.inProc /\ s.start = 0 THEN [s EXCEPT !.start = r.addr] ELSE s
             c == CodeLine(s, r)
             e == [addr |-> r.addr, file |-> s.file, line |-> r.line]
  <2>1. u = c
    BY <1>10 DEF Parse
  <2>2. /\ Fields \subseteq DOMAIN q /\ q.file = s.file /\ q.inProc = s.inProc
        /\ q.pending = s.pending /\ q.table = s.table /\ q.last = s.last
        /\ s.inProc = TRUE => q.start = IF s.start = 0 THEN r.addr ELSE s.start
    <3> HIDE DEF r
    <3> QED BY <1>2
  <2>3. c = CASE r.rec = "code" -> [q EXCEPT !.table.symbols = (r.addr :> r.name) @@ @]
              [] r.rec = "line" /\ s.file # NoName /\ r.line > 0 ->
                   [q EXCEPT !.table.lines = @ \cup {e}, !.last = IF s.inProc THEN r.addr ELSE @]
              [] OTHER -> q
    BY DEF CodeLine
  <2> HIDE DEF q, c, r, e
  <2>4. Inner(c)
    <3>1. CASE r.rec = "code"
      <4>1. c = [q EXCEPT !.table.symbols = (r.addr :> r.name) @@ @]
        BY <2>3, <3>1
      <4> QED BY <1>2, <2>2, <3>1, <4>1
    <3>2. CASE r.rec = "line" /\ s.file # NoName /\ r.line > 0
      <4>1. c = [q EXCEPT !.table.lines = @ \cup {e}, !.last = IF s.inProc THEN r.addr ELSE @]
        BY <2>3, <3>2
      <4> QED BY <1>2, <2>2, <3>2, <4>1
    <3>3. CASE r.rec # "code" /\ ~ (r.rec = "line" /\ s.file # NoName /\ r.line > 0)
      <4>1. c = q
        BY <2>3, <3>3
      <4> QED BY <1>2, <1>10, <2>2, <3>3, <4>1
    <3> QED BY <3>1, <3>2, <3>3
  <2>5. Inner(u)
    BY <2>1, <2>4
  <2>6. r.rec \notin {"module", "proc", "endproc"}
    BY <1>10
  <2> HIDE DEF u, Inner
  <2> QED BY <1>6, <2>5, <2>6
<1>11. r.rec \in {"module", "proc", "endproc", "local", "global", "bit", "code", "line", "label"}
  BY <1>1 DEF MapRecord
<1> HIDE DEF r, u
<1> QED BY <1>3, <1>4, <1>5, <1>7, <1>8, <1>9, <1>10, <1>11

\* The locals of a table are those of the functions of its file.
LEMMA ParsedChunks ==
  ASSUME NEW file, WellFormed(file), Nested(file)
  PROVE  /\ Range(ParseAll(file).table.locals) = UNION {Chunk(file, p) : p \in Procs(file)}
         /\ ParseAll(file).globals = VariablesAt(file, GlobalsUpTo(file, Len(file)))
<1> DEFINE n == Len(file)
<1>1. file \in Seq(MapRecord) /\ n \in Nat
  BY DEF WellFormed
<1>2. PICK f : /\ f[0] = Start
               /\ \A k \in 0 .. n - 1 : f[k + 1] = Parse(f[k], file[k + 1])
               /\ ParseAll(file) = f[n]
  BY <1>1, ParseSteps
<1> DEFINE Good == {k \in Nat : k <= n => Reading(file, f[k], k) /\ Tracks(file, f[k], k)}
<1>3. Reading(file, Start, 0)
  <2>1. GlobalsUpTo(file, 0) = {}
    BY DEF GlobalsUpTo
  <2>2. VariablesAt(file, GlobalsUpTo(file, 0)) = {}
    BY <2>1 DEF VariablesAt
  <2>3. /\ {"table", "globals", "file", "inProc", "start", "last", "pending"} \subseteq DOMAIN Start
        /\ {"symbols", "lines", "locals", "globals", "bits"} \subseteq DOMAIN Start.table
        /\ Start.start = 0 /\ Start.last = 0 /\ Start.globals = {} /\ Start.pending = {}
        /\ Start.table.locals = <<>> /\ Start.table.bits = <<>>
    BY DEF Start, EmptyTable
  <2>4. <<>> \in Seq(ScopedRecord) /\ <<>> \in Seq(BitRecord)
    OBVIOUS
  <2> QED BY <2>2, <2>3, <2>4 DEF Reading
<1>4. Tracks(file, Start, 0)
  <2>1. \A q \in Procs(file) : q \in Nat /\ q # 0 /\ EndOf(file, q) \in Nat /\ q < EndOf(file, q)
    BY <1>1, EndRight
  <2>2. Ended(file, 0) = {}
    BY <2>1 DEF Ended
  <2>3. Start.inProc = FALSE /\ Start.file = NoName /\ Start.pending = {} /\ Start.table.locals = <<>>
    BY DEF Start, EmptyTable
  <2>4. Range(Start.table.locals) = {}
    BY <2>3 DEF Range
  <2>5. Between(file, Start, 0)
    BY <2>1, <2>3 DEF Between
  <2>6. ~ HasSource(file, 0)
    BY <1>1, SourceStep
  <2> QED BY <2>2, <2>3, <2>4, <2>5, <2>6 DEF Tracks
<1>5. 0 \in Good
  BY <1>2, <1>3, <1>4
<1>6. ASSUME NEW k \in Nat, k \in Good PROVE k + 1 \in Good
  <2>1. SUFFICES ASSUME k + 1 <= n PROVE Reading(file, f[k + 1], k + 1) /\ Tracks(file, f[k + 1], k + 1)
    OBVIOUS
  <2>2. k \in 0 .. n - 1 /\ Reading(file, f[k], k) /\ Tracks(file, f[k], k)
    BY <1>1, <1>6, <2>1
  <2>3. f[k + 1] = Parse(f[k], file[k + 1])
    BY <1>2, <2>2
  <2>4. Reading(file, Parse(f[k], file[k + 1]), k + 1)
    BY <2>2, ReadingStep
  <2>5. Tracks(file, Parse(f[k], file[k + 1]), k + 1)
    BY <2>2, TrackStep
  <2> QED BY <2>3, <2>4, <2>5
<1>7. Nat \subseteq Good
  <2> HIDE DEF Good
  <2> QED BY <1>5, <1>6, Induct
<1>8. Reading(file, ParseAll(file), n) /\ Tracks(file, ParseAll(file), n)
  BY <1>1, <1>2, <1>7
<1>9. Ended(file, n) = Procs(file)
  <2>1. \A q \in Procs(file) : EndOf(file, q) <= n
    BY <1>1, EndRight
  <2> QED BY <2>1 DEF Ended
<1> QED BY <1>8, <1>9 DEF Tracks, Reading

\* What assumptions say of a listed file.
LEMMA FileListed ==
  ASSUME NEW map \in DOMAIN MapFiles
  PROVE  WellFormed(MapFiles[map]) /\ Nested(MapFiles[map])
BY FilesAssumption, BitsAssumption, PlacedAssumption, LinesAssumption, FunctionsAssumption
   DEF WellFormed, Nested

LEMMA LoadedTable ==
  ASSUME NEW file, WellFormed(file), Nested(file)
  PROVE  /\ Range(Load(file).locals) = UNION {Chunk(file, p) : p \in Procs(file)}
         /\ Load(file).globals = Sized(VariablesAt(file, GlobalsUpTo(file, Len(file))))
<1> DEFINE p == ParseAll(file)
           t == ParseM51(file)
<1>1. Reading(file, p, Len(file))
  BY ParsedTypes
<1>2. t = [p.table EXCEPT !.globals = Sized(p.globals)]
  BY DEF ParseM51, ParseAll
<1>3. /\ Range(p.table.locals) = UNION {Chunk(file, q) : q \in Procs(file)}
      /\ p.globals = VariablesAt(file, GlobalsUpTo(file, Len(file)))
  BY ParsedChunks
<1> HIDE DEF p, t
<1>4. /\ t.locals = p.table.locals /\ t.globals = Sized(p.globals)
      /\ {"lines", "locals", "globals", "bits"} \subseteq DOMAIN t
  BY <1>1, <1>2 DEF Reading
<1>5. Load(file) = t
      \/ Load(file) = [t EXCEPT !.lines = @ \cup
                         {[addr |-> 0, file |-> StartupLine.file, line |-> StartupLine.line]}]
  BY DEF Load, t
<1>6. Load(file).locals = t.locals /\ Load(file).globals = t.globals
  BY <1>4, <1>5
<1> QED BY <1>3, <1>4, <1>6

-----------------------------------------------------------------------------
\* The locals of one function: its variables, sorted by address.
LEMMA FunctionVars ==
  ASSUME NEW file, WellFormed(file), Nested(file), NEW p \in Procs(file)
  PROVE  /\ VarsOf(file, p) \in SUBSET VarRecord /\ IsFiniteSet(VarsOf(file, p))
         /\ Distinct(VarsOf(file, p))
         /\ LocalRecords(file, p, EndOf(file, p) - 1) = {i \in Body(file, p) : file[i].rec = "local"}
         /\ LocalRecords(file, p, EndOf(file, p) - 1) \subseteq DOMAIN file
<1> DEFINE k == EndOf(file, p) - 1
           I == LocalRecords(file, p, k)
<1>1. file \in Seq(MapRecord) /\ Len(file) \in Nat /\ DOMAIN file = 1 .. Len(file)
  BY DEF WellFormed
<1>2. /\ p \in Nat \ {0} /\ EndOf(file, p) \in 1 .. Len(file) /\ p < EndOf(file, p)
      /\ \A i \in p + 1 .. EndOf(file, p) - 1 : file[i].rec \notin {"module", "proc", "endproc"}
  BY <1>1, EndRight
<1>3. I = {i \in Body(file, p) : file[i].rec = "local"}
  BY DEF LocalRecords, Body
<1>4. I \in SUBSET (1 .. Len(file)) /\ \A i \in I : file[i].rec \in {"local", "global"}
  BY <1>1, <1>2 DEF LocalRecords
<1> HIDE DEF k, I
<1>5. Distinct(VariablesAt(file, I))
  BY <1>4, VariablesApart
<1>6. VariablesAt(file, I) \in SUBSET VarRecord /\ IsFiniteSet(VariablesAt(file, I))
  BY <1>1, <1>4, VariablesFinite
<1>7. VarsOf(file, p) = VariablesAt(file, I)
  BY DEF VarsOf, I, k
<1> QED BY <1>1, <1>3, <1>4, <1>5, <1>6, <1>7 DEF I, k

\* Sized keeps the names, the spaces and the addresses.
LEMMA SizedKeeps ==
  ASSUME NEW vs \in SUBSET VarRecord, IsFiniteSet(vs), Distinct(vs)
  PROVE  /\ \A i \in DOMAIN Sized(vs) : \E v \in vs : IsEntry(Sized(vs)[i], v)
         /\ \A v \in vs : \E i \in DOMAIN Sized(vs) : IsEntry(Sized(vs)[i], v)
<1> DEFINE n == Cardinality(vs)
<1>1. DOMAIN Sized(vs) = 1 .. n
  BY SizedRight
<1>2. PICK s : /\ InOrder(vs, s)
               /\ \A i \in 1 .. n : IsEntry(Sized(vs)[i], s[i]) /\ Sized(vs)[i].size = SizeIn(s, n, i)
  BY SizedRight
<1>3. /\ \A i \in 1 .. n : s[i] \in vs
      /\ \A v \in vs : \E i \in 1 .. n : s[i] = v
  BY <1>2 DEF InOrder
<1> QED BY <1>1, <1>2, <1>3

LEMMA ChunkNames ==
  ASSUME NEW file, WellFormed(file), Nested(file), NEW p \in Procs(file)
  PROVE  {v.name : v \in Chunk(file, p)} = ProcLocals(file, p)
<1> DEFINE vs == VarsOf(file, p)
           z  == Sized(vs)
           I  == {i \in Body(file, p) : file[i].rec = "local"}
<1>1. vs \in SUBSET VarRecord /\ IsFiniteSet(vs) /\ Distinct(vs)
  BY FunctionVars
<1>2. vs = {Variable(file[i]) : i \in I}
  <2>1. LocalRecords(file, p, EndOf(file, p) - 1) = I
    BY FunctionVars
  <2> QED BY <2>1 DEF VarsOf, VariablesAt
<1>3. /\ \A i \in DOMAIN z : \E v \in vs : IsEntry(z[i], v)
      /\ \A v \in vs : \E i \in DOMAIN z : IsEntry(z[i], v)
  <2> HIDE DEF vs
  <2> QED BY <1>1, SizedKeeps
<1>4. ProcLocals(file, p) = {v.name : v \in vs}
  <2>1. ProcLocals(file, p) = {file[i].name : i \in I}
    BY DEF ProcLocals
  <2>2. \A i : Variable(file[i]).name = file[i].name
    BY DEF Variable
  <2> HIDE DEF vs, I
  <2> QED BY <1>2, <2>1, <2>2
<1>5. {v.name : v \in Chunk(file, p)} = {z[i].name : i \in DOMAIN z}
  <2>1. Chunk(file, p) = {Scoped(z[i], ScopeStart(file, p), ScopeEnd(file, p)) : i \in DOMAIN z}
    BY DEF Chunk
  <2>2. \A y, a, b : Scoped(y, a, b).name = y.name
    BY DEF Scoped
  <2> HIDE DEF z
  <2> QED BY <2>1, <2>2
<1> HIDE DEF z, vs
<1>6. \A y, v : IsEntry(y, v) => y.name = v.name
  BY DEF IsEntry, SizedAs
<1>7. {z[i].name : i \in DOMAIN z} = {v.name : v \in vs}
  BY <1>3, <1>6
<1> QED BY <1>4, <1>5, <1>7

-----------------------------------------------------------------------------
\* Where the locals of a function are in scope (LocalsOfProc).
Covers(file, p, pc) == \E a, b \in ProcCode(file, p) : a <= pc /\ pc <= b
Listed(file, p, pc) == pc = 0 \/ (HasSource(file, p) /\ \E a \in ProcLines(file, p) : pc <= a)
Begun(file, p, pc)  == /\ HasSource(file, p) /\ Ascending(file, p)
                       /\ pc \in ProcLines(file, p) /\ 0 \notin ProcLines(file, p)

LEMMA BodyRecords ==
  ASSUME NEW file, WellFormed(file), Nested(file), NEW p \in Procs(file)
  PROVE  /\ Body(file, p) \in SUBSET Nat /\ \A i \in Body(file, p) : i <= Len(file)
         /\ \A i \in CodeRecords(file, p) : file[i].addr \in Nat
         /\ CodeAt(file, p, EndOf(file, p) - 1) = {i \in CodeRecords(file, p) : file[i].addr # 0}
         /\ LinesAt(file, p, EndOf(file, p) - 1) = LineRecords(file, p)
         /\ LineRecords(file, p) \subseteq CodeRecords(file, p)
         /\ CodeRecords(file, p) \subseteq Body(file, p)
<1>1. file \in Seq(MapRecord) /\ Len(file) \in Nat
  BY DEF WellFormed
<1>2. p \in Nat \ {0} /\ EndOf(file, p) \in 1 .. Len(file) /\ p < EndOf(file, p)
  BY <1>1, EndRight
<1>3. Body(file, p) \in SUBSET Nat /\ \A i \in Body(file, p) : i <= Len(file) /\ i \in 1 .. Len(file)
  BY <1>1, <1>2 DEF Body
<1>4. ASSUME NEW i \in CodeRecords(file, p) PROVE file[i].addr \in Nat
  <2>1. i \in 1 .. Len(file) /\ file[i].rec \in {"code", "line", "label"}
    BY <1>3 DEF CodeRecords
  <2>2. file[i] \in MapRecord
    BY <1>1, <2>1, ElementOfSeq
  <2> QED BY <2>1, <2>2, MapRecordFields
<1>5. /\ CodeAt(file, p, EndOf(file, p) - 1) = {i \in CodeRecords(file, p) : file[i].addr # 0}
      /\ LinesAt(file, p, EndOf(file, p) - 1) = LineRecords(file, p)
      /\ LineRecords(file, p) \subseteq CodeRecords(file, p)
      /\ CodeRecords(file, p) \subseteq Body(file, p)
  BY DEF CodeAt, LinesAt, LineRecords, CodeRecords, Body
<1> QED BY <1>3, <1>4, <1>5

\* The scope begins at the first address of the code, and ends at its last line.
LEMMA ScopeBounds ==
  ASSUME NEW file, WellFormed(file), Nested(file), NEW p \in Procs(file), ProcCode(file, p) # {}
  PROVE  /\ \E a \in ProcCode(file, p) : a <= ScopeStart(file, p)
         /\ \/ ScopeEnd(file, p) = 1 /\ ScopeStart(file, p) # 0
            \/ ScopeEnd(file, p) = 1 /\ ProcCode(file, p) = {0}
            \/ /\ HasSource(file, p)
               /\ \E b \in ProcLines(file, p) : b \in ProcCode(file, p) /\ ScopeEnd(file, p) = b + 1
<1> DEFINE C == CodeRecords(file, p)
           D == {i \in C : file[i].addr # 0}
           L == LineRecords(file, p)
<1>1. /\ C \in SUBSET Nat /\ D \in SUBSET Nat /\ L \in SUBSET Nat /\ L \subseteq C
      /\ \A i \in L : i <= Len(file)
      /\ \A i \in C : file[i].addr \in Nat
      /\ Len(file) \in Nat
  <2>1. Len(file) \in Nat
    BY DEF WellFormed
  <2> QED BY <2>1, BodyRecords
<1>2. ScopeStart(file, p) = IF D = {} THEN 0 ELSE file[Min(D)].addr
  BY BodyRecords DEF ScopeStart, StartAt
<1>3. ScopeEnd(file, p) = (IF HasSource(file, p) /\ L # {} THEN file[Max(L)].addr ELSE 0) + 1
  BY BodyRecords DEF ScopeEnd, LastAt
<1>4. ProcCode(file, p) = {file[i].addr : i \in C} /\ ProcLines(file, p) = {file[i].addr : i \in L}
  BY DEF ProcCode, ProcLines
<1>5. C # {}
  BY <1>4
<1> HIDE DEF C, L
<1>6. CASE D = {}
  <2>1. \A i \in C : file[i].addr = 0
    BY <1>6
  <2>2. ProcCode(file, p) = {0} /\ ScopeStart(file, p) = 0
    BY <1>2, <1>4, <1>5, <1>6, <2>1
  <2>3. CASE HasSource(file, p) /\ L # {}
    <3>1. Max(L) \in L
      BY <1>1, <2>3, MaxNat
    <3>2. file[Max(L)].addr \in ProcLines(file, p) /\ file[Max(L)].addr \in ProcCode(file, p)
      BY <1>1, <1>4, <3>1
    <3> QED BY <1>3, <2>2, <2>3, <3>2
  <2>4. CASE ~ (HasSource(file, p) /\ L # {})
    BY <1>3, <2>2, <2>4
  <2> QED BY <2>3, <2>4
<1>7. CASE D # {}
  <2>1. Min(D) \in D
    <3> HIDE DEF D
    <3> QED BY <1>1, <1>7, MinNat
  <2>2. file[Min(D)].addr \in ProcCode(file, p) /\ file[Min(D)].addr # 0 /\ file[Min(D)].addr \in Nat
    <3>1. Min(D) \in C /\ file[Min(D)].addr # 0
      BY <2>1
    <3> HIDE DEF D
    <3> QED BY <1>1, <1>4, <3>1
  <2> HIDE DEF D
  <2>3. CASE HasSource(file, p) /\ L # {}
    <3>1. Max(L) \in L
      BY <1>1, <2>3, MaxNat
    <3>2. file[Max(L)].addr \in ProcLines(file, p) /\ file[Max(L)].addr \in ProcCode(file, p)
      BY <1>1, <1>4, <3>1
    <3> QED BY <1>2, <1>3, <1>7, <2>2, <2>3, <3>2
  <2>4. CASE ~ (HasSource(file, p) /\ L # {})
    BY <1>2, <1>3, <1>7, <2>2, <2>4
  <2> QED BY <2>3, <2>4
<1> QED BY <1>6, <1>7

LEMMA ScopeInside ==
  ASSUME NEW file, WellFormed(file), Nested(file), NEW p \in Procs(file), ProcCode(file, p) # {},
         NEW pc \in Nat, NEW v \in Chunk(file, p), InScope(v, pc)
  PROVE  Covers(file, p, pc) /\ Listed(file, p, pc)
<1>1. ScopeStart(file, p) <= pc /\ pc < ScopeEnd(file, p)
  BY DEF Chunk, Scoped, InScope
<1>2. /\ ScopeStart(file, p) \in Nat /\ \A a \in ProcCode(file, p) : a \in Nat
      /\ ProcLines(file, p) \subseteq ProcCode(file, p)
  <2>1. /\ \A i \in CodeRecords(file, p) : file[i].addr \in Nat
        /\ LineRecords(file, p) \subseteq CodeRecords(file, p)
        /\ CodeRecords(file, p) \subseteq Body(file, p) /\ Body(file, p) \in SUBSET Nat
        /\ CodeAt(file, p, EndOf(file, p) - 1) = {i \in CodeRecords(file, p) : file[i].addr # 0}
    BY BodyRecords
  <2> DEFINE D == {i \in CodeRecords(file, p) : file[i].addr # 0}
  <2>2. D # {} => Min(D) \in CodeRecords(file, p)
    <3>1. D \in SUBSET Nat /\ D \subseteq CodeRecords(file, p)
      BY <2>1
    <3> HIDE DEF D
    <3> QED BY <3>1, MinNat
  <2>3. ScopeStart(file, p) = IF D = {} THEN 0 ELSE file[Min(D)].addr
    BY <2>1 DEF ScopeStart, StartAt
  <2> HIDE DEF D
  <2> QED BY <2>1, <2>2, <2>3 DEF ProcCode, ProcLines
<1>3. PICK a \in ProcCode(file, p) : a <= ScopeStart(file, p)
  BY ScopeBounds
<1>4. a <= pc
  BY <1>1, <1>2, <1>3
<1>5. CASE ScopeEnd(file, p) = 1
  <2>1. pc = 0 /\ ScopeStart(file, p) = 0
    BY <1>1, <1>2, <1>5
  <2>2. \/ ProcCode(file, p) = {0}
        \/ \E b \in ProcLines(file, p) : b \in ProcCode(file, p) /\ 1 = b + 1
    BY <1>5, <2>1, ScopeBounds
  <2>3. 0 \in ProcCode(file, p)
    BY <1>2, <2>2
  <2>4. Covers(file, p, pc)
    <3>1. a <= pc /\ pc <= 0
      BY <1>4, <2>1
    <3> QED BY <2>3, <3>1 DEF Covers
  <2>5. Listed(file, p, pc)
    BY <2>1 DEF Listed
  <2> QED BY <2>4, <2>5
<1>6. CASE ScopeEnd(file, p) # 1
  <2>1. HasSource(file, p)
    BY <1>6, ScopeBounds
  <2>2. PICK b \in ProcLines(file, p) : b \in ProcCode(file, p) /\ ScopeEnd(file, p) = b + 1
    BY <1>6, ScopeBounds
  <2>3. pc <= b
    BY <1>1, <1>2, <2>2
  <2> QED BY <1>4, <2>1, <2>2, <2>3 DEF Covers, Listed
<1> QED BY <1>5, <1>6

\* At a line of a function all of its locals are in scope.
LEMMA ScopeBegun ==
  ASSUME NEW file, WellFormed(file), Nested(file), NEW p \in Procs(file), NEW pc \in Nat,
         Begun(file, p, pc)
  PROVE  ScopeStart(file, p) <= pc /\ pc < ScopeEnd(file, p)
<1> DEFINE C == CodeRecords(file, p)
           D == {i \in C : file[i].addr # 0}
           L == LineRecords(file, p)
<1>1. /\ C \in SUBSET Nat /\ D \in SUBSET Nat /\ L \in SUBSET Nat /\ L \subseteq C
      /\ \A i \in L : i <= Len(file)
      /\ \A i \in C : file[i].addr \in Nat
      /\ Len(file) \in Nat
  <2>1. Len(file) \in Nat
    BY DEF WellFormed
  <2> QED BY <2>1, BodyRecords
<1>2. ScopeStart(file, p) = IF D = {} THEN 0 ELSE file[Min(D)].addr
  BY BodyRecords DEF ScopeStart, StartAt
<1>3. ScopeEnd(file, p) = (IF HasSource(file, p) /\ L # {} THEN file[Max(L)].addr ELSE 0) + 1
  BY BodyRecords DEF ScopeEnd, LastAt
<1>4. PICK i \in L : file[i].addr = pc
  BY DEF Begun, ProcLines
<1>5. pc # 0 /\ HasSource(file, p) /\ \A j, k \in C : j < k => file[j].addr <= file[k].addr
  BY DEF Begun, Ascending
<1>6. i \in D /\ i \in C
  BY <1>1, <1>4, <1>5
<1>7. Min(D) \in D /\ Min(D) <= i
  <2> HIDE DEF D
  <2> QED BY <1>1, <1>6, MinNat
<1>8. Min(D) \in C
  BY <1>7
<1>9. Max(L) \in L /\ i <= Max(L)
  <2> HIDE DEF L
  <2> QED BY <1>1, <1>4, MaxNat
<1> HIDE DEF C, D, L
<1>10. file[Min(D)].addr <= pc
  <2>1. Min(D) \in Nat /\ i \in Nat
    BY <1>1, <1>6, <1>8
  <2>2. Min(D) = i \/ Min(D) < i
    BY <1>7, <2>1
  <2> QED BY <1>4, <1>5, <1>6, <1>8, <2>2
<1>11. pc <= file[Max(L)].addr /\ file[Max(L)].addr \in Nat
  <2>1. Max(L) \in Nat /\ i \in Nat /\ Max(L) \in C
    BY <1>1, <1>6, <1>9
  <2>2. Max(L) = i \/ i < Max(L)
    BY <1>9, <2>1
  <2> QED BY <1>1, <1>4, <1>5, <1>6, <2>1, <2>2
<1> QED BY <1>2, <1>3, <1>4, <1>5, <1>6, <1>10, <1>11

\* Two functions are not both at one address.
LEMMA OneFunction ==
  ASSUME NEW map \in DOMAIN MapFiles, NEW pc \in Nat,
         NEW p \in Procs(MapFiles[map]), NEW q \in Procs(MapFiles[map]),
         Covers(MapFiles[map], p, pc), Covers(MapFiles[map], q, pc)
  PROVE  p = q
<1> DEFINE file == MapFiles[map]
<1>1. WellFormed(file) /\ Nested(file)
  BY FileListed
<1>2. \A a \in ProcCode(file, p) \cup ProcCode(file, q) : a \in Nat
  BY <1>1, BodyRecords DEF ProcCode
<1>3. p # q => \/ \A a \in ProcCode(file, p), b \in ProcCode(file, q) : a < b
               \/ \A a \in ProcCode(file, p), b \in ProcCode(file, q) : b < a
  BY FunctionsAssumption
<1>4. PICK a \in ProcCode(file, p), b \in ProcCode(file, p) : a <= pc /\ pc <= b
  BY DEF Covers
<1>5. PICK c \in ProcCode(file, q), d \in ProcCode(file, q) : c <= pc /\ pc <= d
  BY DEF Covers
<1>6. ~ (b < c) /\ ~ (d < a)
  BY <1>2, <1>4, <1>5
<1> QED BY <1>3, <1>6

-----------------------------------------------------------------------------
\* A response says what its request read, until it is looked at.
ReplyKept ==
  /\ session = "launched" => symtab \in DOMAIN MapFiles
  /\ reply # NoReply => session = "launched"
  /\ reply.kind = "scopes" => reply.locals = (LookupLocals(Table, cachedPC) # <<>>)
  /\ reply.kind = "variables" =>
       reply.scope \in Scopes /\ reply.rows = Rows(reply.scope, Table, mem, cachedPC, registers)
  /\ reply.kind = "readMemory" =>
       reply.bytes = ReadMemory(mem, reply.ref.space, reply.ref.addr, reply.ref.offset, 2)

LEMMA ReplyStep ==
  ASSUME ReplyKept, [Next]_vars
  PROVE  ReplyKept'
<1>1. ASSUME reply' = NoReply, session' = "launched" => symtab' \in DOMAIN MapFiles
      PROVE  ReplyKept'
  BY <1>1 DEF ReplyKept, NoReply
<1>2. CASE Launches
  <2>1. reply' = NoReply
    BY <1>2 DEF Launches, HandleLaunchNoImage, HandleLaunchNoTarget, HandleLaunch, Loads
  <2>2. session' = "launched" => symtab' \in DOMAIN MapFiles
    BY <1>2 DEF Launches, HandleLaunchNoImage, HandleLaunchNoTarget, HandleLaunch, Loads, LaunchFails
  <2> QED BY <1>1, <2>1, <2>2
<1>3. CASE TargetStops \/ ClientReads \/ Edits
  <2>1. reply' = NoReply /\ session' = session /\ symtab' = symtab
    BY <1>3 DEF TargetStops, ClientReads, Edits, HandleSetExpression, HandleSetVariable,
                HandleWriteMemory, Edit
  <2> QED BY <1>1, <2>1 DEF ReplyKept
<1>4. ASSUME NEW body, Answer(body),
             body.kind = "scopes" => body.locals = (LookupLocals(Table, cachedPC) # <<>>),
             body.kind = "variables" =>
               body.scope \in Scopes /\ body.rows = Rows(body.scope, Table, mem, cachedPC, registers),
             body.kind = "readMemory" =>
               body.bytes = ReadMemory(mem, body.ref.space, body.ref.addr, body.ref.offset, 2)
      PROVE  ReplyKept'
  <2>1. /\ session = "launched" /\ reply' = body
        /\ UNCHANGED <<session, symtab, mem, cachedPC, registers>>
    BY <1>4 DEF Answer
  <2>2. Table' = Table
    BY <2>1 DEF Table
  <2>3. session' = "launched" /\ symtab' \in DOMAIN MapFiles
    BY <2>1 DEF ReplyKept
  <2>4. reply'.kind = "scopes" => reply'.locals = (LookupLocals(Table', cachedPC') # <<>>)
    BY <1>4, <2>1, <2>2
  <2>5. reply'.kind = "variables" =>
          /\ reply'.scope \in Scopes
          /\ reply'.rows = Rows(reply'.scope, Table', mem', cachedPC', registers')
    BY <1>4, <2>1, <2>2
  <2>6. reply'.kind = "readMemory" =>
          reply'.bytes = ReadMemory(mem', reply'.ref.space, reply'.ref.addr, reply'.ref.offset, 2)
    BY <1>4, <2>1, <2>2
  <2> QED BY <2>3, <2>4, <2>5, <2>6 DEF ReplyKept
<1>5. CASE HandleScopes
  BY <1>4, <1>5 DEF HandleScopes
<1>6. ASSUME NEW scope \in Scopes, HandleVariables(scope) PROVE ReplyKept'
  <2> DEFINE rows == Rows(scope, Table, mem, cachedPC, registers)
             body == [kind |-> "variables", scope |-> scope, rows |-> rows]
  <2>1. Answer(body)
    BY <1>6 DEF HandleVariables
  <2>2. body.kind = "variables" /\ body.scope = scope /\ body.rows = rows
    OBVIOUS
  <2> HIDE DEF body
  <2> QED BY <1>4, <2>1, <2>2
<1>7. ASSUME NEW name \in Names, HandleEvaluate(name) PROVE ReplyKept'
  <2>1. PICK body : Answer(body) /\ body.kind = "evaluate"
    BY <1>7 DEF HandleEvaluate
  <2> QED BY <1>4, <2>1
<1>8. ASSUME NEW r \in MemRefs, HandleReadMemory(r) PROVE ReplyKept'
  <2> DEFINE bytes == ReadMemory(mem, r.space, r.addr, r.offset, 2)
             body  == [kind |-> "readMemory", ref |-> r, bytes |-> bytes]
  <2>1. Answer(body)
    BY <1>8 DEF HandleReadMemory
  <2>2. body.kind = "readMemory" /\ body.ref = r /\ body.bytes = bytes
    OBVIOUS
  <2> HIDE DEF body
  <2> QED BY <1>4, <2>1, <2>2
<1>9. ASSUME NEW r \in Listings, HandleDisassemble(r) PROVE ReplyKept'
  <2>1. PICK body : Answer(body) /\ body.kind = "disassemble"
    BY <1>9 DEF HandleDisassemble
  <2> QED BY <1>4, <2>1
<1>10. CASE UNCHANGED vars
  <2>1. UNCHANGED <<session, symtab, mem, cachedPC, registers, reply>>
    BY <1>10 DEF vars
  <2>2. Table' = Table
    BY <2>1 DEF Table
  <2> QED BY <2>1, <2>2 DEF ReplyKept
<1> QED BY <1>2, <1>3, <1>5, <1>6, <1>7, <1>8, <1>9, <1>10 DEF Next, Reads

-----------------------------------------------------------------------------
\* The locals that the client is shown.
LEMMA LocalsListed ==
  ASSUME NEW map \in DOMAIN MapFiles, symtab = map, NEW pc
  PROVE  /\ LookupLocals(Table, pc) \in Seq(ScopedRecord)
         /\ \A n \in DOMAIN LookupLocals(Table, pc) : \E p \in Procs(MapFiles[map]) :
              LookupLocals(Table, pc)[n] \in Chunk(MapFiles[map], p)
              /\ InScope(LookupLocals(Table, pc)[n], pc)
         /\ \A p \in Procs(MapFiles[map]) : \A v \in Chunk(MapFiles[map], p) : InScope(v, pc) =>
              \E n \in DOMAIN LookupLocals(Table, pc) : LookupLocals(Table, pc)[n] = v
<1> DEFINE file == MapFiles[map]
           t    == Table
           vs   == LookupLocals(t, pc)
<1>1. WellFormed(file) /\ Nested(file)
  BY FileListed
<1>2. t = Load(file)
  BY FilesAssumption DEF Table, Tables
<1>3. Range(t.locals) = UNION {Chunk(file, p) : p \in Procs(file)}
  BY <1>1, <1>2, LoadedTable
<1>4. t.locals \in Seq(ScopedRecord)
  BY <1>1, <1>2, LoadTypes DEF TableOK
<1> HIDE DEF file, t
<1>5. /\ vs \in Seq(ScopedRecord)
      /\ \A n \in DOMAIN vs : \E i \in Scope(t, pc) : vs[n] = t.locals[i]
      /\ \A i \in Scope(t, pc) : \E n \in DOMAIN vs : vs[n] = t.locals[i]
  BY <1>4, LocalsFound
<1> HIDE DEF vs
<1>6. ASSUME NEW n \in DOMAIN vs
      PROVE  \E p \in Procs(file) : vs[n] \in Chunk(file, p) /\ InScope(vs[n], pc)
  <2>1. PICK i \in Scope(t, pc) : vs[n] = t.locals[i]
    BY <1>5
  <2>2. InScope(vs[n], pc) /\ vs[n] \in Range(t.locals)
    BY <2>1 DEF Scope, Range
  <2> QED BY <1>3, <2>2
<1>7. ASSUME NEW p \in Procs(file), NEW v \in Chunk(file, p), InScope(v, pc)
      PROVE  \E n \in DOMAIN vs : vs[n] = v
  <2>1. PICK i \in DOMAIN t.locals : t.locals[i] = v
    <3>1. v \in Range(t.locals)
      BY <1>3
    <3> QED BY <3>1 DEF Range
  <2>2. i \in Scope(t, pc)
    BY <1>7, <2>1 DEF Scope
  <2> QED BY <1>5, <2>1, <2>2
<1> QED BY <1>5, <1>6, <1>7 DEF vs, t, file

\* What is shown, and that it is of the function of the PC.
LEMMA LocalsRight ==
  ASSUME NEW map \in DOMAIN MapFiles, symtab = map, NEW pc \in Nat
  PROVE  /\ \A n \in DOMAIN LookupLocals(Table, pc) : \E p \in Procs(MapFiles[map]) :
              /\ Covers(MapFiles[map], p, pc) /\ Listed(MapFiles[map], p, pc)
              /\ LookupLocals(Table, pc)[n].name \in ProcLocals(MapFiles[map], p)
         /\ \A p \in Procs(MapFiles[map]) : Begun(MapFiles[map], p, pc) =>
              \A name \in ProcLocals(MapFiles[map], p) :
                \E n \in DOMAIN LookupLocals(Table, pc) : LookupLocals(Table, pc)[n].name = name
<1> DEFINE file == MapFiles[map]
           vs   == LookupLocals(Table, pc)
<1>1. WellFormed(file) /\ Nested(file)
  BY FileListed
<1>2. \A p \in Procs(file) : ProcCode(file, p) # {}
  BY FunctionsAssumption
<1>3. /\ \A n \in DOMAIN vs : \E p \in Procs(file) : vs[n] \in Chunk(file, p) /\ InScope(vs[n], pc)
      /\ \A p \in Procs(file) : \A v \in Chunk(file, p) : InScope(v, pc) => \E n \in DOMAIN vs : vs[n] = v
  BY LocalsListed
<1> HIDE DEF file, vs
<1>4. ASSUME NEW n \in DOMAIN vs
      PROVE  \E p \in Procs(file) : /\ Covers(file, p, pc) /\ Listed(file, p, pc)
                                    /\ vs[n].name \in ProcLocals(file, p)
  <2>1. PICK p \in Procs(file) : vs[n] \in Chunk(file, p) /\ InScope(vs[n], pc)
    BY <1>3
  <2>2. Covers(file, p, pc) /\ Listed(file, p, pc)
    BY <1>1, <1>2, <2>1, ScopeInside
  <2>3. vs[n].name \in ProcLocals(file, p)
    BY <1>1, <2>1, ChunkNames
  <2> QED BY <2>2, <2>3
<1>5. ASSUME NEW p \in Procs(file), Begun(file, p, pc), NEW name \in ProcLocals(file, p)
      PROVE  \E n \in DOMAIN vs : vs[n].name = name
  <2>1. PICK v \in Chunk(file, p) : v.name = name
    BY <1>1, ChunkNames
  <2>2. ScopeStart(file, p) <= pc /\ pc < ScopeEnd(file, p)
    BY <1>1, <1>5, ScopeBegun
  <2>3. InScope(v, pc)
    BY <2>2 DEF Chunk, Scoped, InScope
  <2> QED BY <1>3, <2>1, <2>3
<1> QED BY <1>4, <1>5 DEF file, vs

LEMMA LocalsShown ==
  ASSUME ReplyKept, Typed
  PROVE  LocalsOfProc
<1> DEFINE file  == MapFiles[symtab]
           vs    == LookupLocals(Table, cachedPC)
           shown == {reply.rows[i].name : i \in DOMAIN reply.rows}
           at    == {p \in Procs(file) : Covers(file, p, cachedPC) /\ Listed(file, p, cachedPC)}
           begun == {p \in Procs(file) : Begun(file, p, cachedPC)}
<1>1. SUFFICES ASSUME reply.kind \in {"variables", "scopes"}
               PROVE  /\ reply.kind = "variables" /\ reply.scope = "locals" =>
                           /\ shown \subseteq UNION {ProcLocals(file, p) : p \in at}
                           /\ \A p \in begun : ProcLocals(file, p) \subseteq shown
                      /\ reply.kind = "scopes" =>
                           \A p \in begun : reply.locals <=> ProcLocals(file, p) # {}
  BY DEF LocalsOfProc, Covers, Listed, Begun
<1>2. symtab \in DOMAIN MapFiles /\ cachedPC \in Nat
  <2>1. reply # NoReply
    BY <1>1 DEF NoReply
  <2> QED BY <2>1 DEF ReplyKept, Typed
<1>3. /\ \A n \in DOMAIN vs : \E p \in at : vs[n].name \in ProcLocals(file, p)
      /\ \A p \in begun : \A name \in ProcLocals(file, p) : \E n \in DOMAIN vs : vs[n].name = name
  BY <1>2, LocalsRight
<1>4. CASE reply.kind = "variables" /\ reply.scope = "locals"
  <2>1. reply.rows = LocalRows(Table, mem, cachedPC)
    BY <1>4 DEF ReplyKept, Rows
  <2>2. DOMAIN reply.rows = DOMAIN vs /\ \A i \in DOMAIN vs : reply.rows[i].name = vs[i].name
    BY <2>1 DEF LocalRows
  <2>3. shown = {vs[i].name : i \in DOMAIN vs}
    <3> HIDE DEF vs
    <3> QED BY <2>2
  <2> HIDE DEF vs, file, at, begun, shown
  <2>4. \A name \in shown : \E p \in at : name \in ProcLocals(file, p)
    BY <1>3, <2>3
  <2>5. \A p \in begun : \A name \in ProcLocals(file, p) : name \in shown
    BY <1>3, <2>3
  <2> QED BY <1>4, <2>4, <2>5
<1>5. CASE reply.kind = "scopes"
  <2>1. reply.locals = (vs # <<>>)
    BY <1>5 DEF ReplyKept
  <2>2. vs \in Seq(ScopedRecord)
    BY <1>2, LocalsListed
  <2>3. vs # <<>> <=> DOMAIN vs # {}
    <3> HIDE DEF vs
    <3>1. Len(vs) \in Nat /\ DOMAIN vs = 1 .. Len(vs)
      BY <2>2
    <3>2. vs = <<>> => DOMAIN vs = {}
      OBVIOUS
    <3>3. DOMAIN vs = {} => vs = <<>>
      BY <2>2, <3>1, EmptySeq
    <3> QED BY <3>2, <3>3
  <2>4. ASSUME NEW p \in begun, NEW q \in at PROVE p = q
    <3>1. Begun(file, p, cachedPC) /\ p \in Procs(file)
      OBVIOUS
    <3>2. Covers(file, q, cachedPC) /\ q \in Procs(file)
      OBVIOUS
    <3>3. Covers(file, p, cachedPC)
      <4>1. cachedPC \in ProcLines(file, p)
        BY <3>1 DEF Begun
      <4>2. cachedPC \in ProcCode(file, p)
        <5>1. LineRecords(file, p) \subseteq CodeRecords(file, p)
          BY <1>2, <3>1, FileListed, BodyRecords
        <5> QED BY <4>1, <5>1 DEF ProcLines, ProcCode
      <4>3. cachedPC <= cachedPC
        BY <1>2
      <4> QED BY <4>2, <4>3 DEF Covers
    <3> QED BY <1>2, <3>1, <3>2, <3>3, OneFunction
  <2> HIDE DEF vs, file, at, begun
  <2>5. ASSUME NEW p \in begun PROVE vs # <<>> <=> ProcLocals(file, p) # {}
    <3>1. ProcLocals(file, p) # {} => DOMAIN vs # {}
      BY <1>3
    <3>2. ASSUME DOMAIN vs # {} PROVE ProcLocals(file, p) # {}
      <4>1. PICK n \in DOMAIN vs : TRUE
        BY <3>2
      <4>2. PICK q \in at : vs[n].name \in ProcLocals(file, q)
        BY <1>3
      <4> QED BY <2>4, <4>2
    <3> QED BY <2>3, <3>1, <3>2
  <2> QED BY <1>5, <2>1, <2>5
<1> QED BY <1>1, <1>4, <1>5

\* Whatever the map file, the Locals scope is that of the function the target is
\* in (LookupLocals, HandleScopes, HandleVariables): the scopes that ParseM51
\* gives to the locals of a function begin and end inside its code.
THEOREM LocalsAreOfProc == Spec => []LocalsOfProc
<1>1. Init => ReplyKept /\ Typed
  <2>1. Init => ReplyKept
    BY DEF Init, NoReply, ReplyKept
  <2> QED BY <2>1, TypedInit
<1>2. ReplyKept /\ Typed /\ [Next]_vars => (ReplyKept /\ Typed)'
  BY ReplyStep, TypedStep
<1>3. ReplyKept /\ Typed => LocalsOfProc
  BY LocalsShown
<1> QED BY <1>1, <1>2, <1>3, PTL DEF Spec

-----------------------------------------------------------------------------
\* The sizes that Sized gives: the variables of a space do not overlap, but for
\* those at one address or 3 bytes apart, and reach no further than the next
\* variable.
Separate(v, w) ==
  \/ v.space # w.space
  \/ v.addr = w.addr
  \/ v.addr - w.addr = 3 \/ w.addr - v.addr = 3
  \/ v.addr + v.size <= w.addr
  \/ w.addr + w.size <= v.addr

EndsBy(z, v) == v.space = z.space /\ z.addr <= v.addr /\ z.addr + z.size - 1 <= v.addr

LEMMA BeforeInSpace ==
  ASSUME NEW v \in VarRecord, NEW w \in VarRecord
  PROVE  /\ Before(v, w) => v.space # w.space \/ v.addr <= w.addr
         /\ \A x \in VarRecord : Before(v, w) /\ Before(w, x) /\ v.space = x.space => w.space = v.space
<1>1. v.space \in {"DATA", "XDATA"} /\ w.space \in {"DATA", "XDATA"} /\ v.addr \in Nat /\ w.addr \in Nat
  BY DEF VarRecord
<1>2. SpaceOrder["DATA"] = 240 /\ SpaceOrder["XDATA"] = 1
  BY DEF SpaceOrder
<1>3. Before(v, w) => v.space # w.space \/ v.addr <= w.addr
  BY <1>1, <1>2 DEF Before
<1>4. ASSUME NEW x \in VarRecord, Before(v, w), Before(w, x), v.space = x.space PROVE w.space = v.space
  BY <1>1, <1>2, <1>4 DEF Before
<1> QED BY <1>3, <1>4

LEMMA GapSize ==
  ASSUME NEW gap \in Nat
  PROVE  /\ SizeOfGap(gap) \in Nat /\ SizeOfGap(gap) <= gap + 1
         /\ gap # 0 /\ gap # 3 => SizeOfGap(gap) <= gap
BY DEF SizeOfGap

LEMMA SizedSeparate ==
  ASSUME NEW vs \in SUBSET VarRecord, IsFiniteSet(vs), Distinct(vs)
  PROVE  /\ \A i, j \in DOMAIN Sized(vs) : Separate(Sized(vs)[i], Sized(vs)[j])
         /\ \A i \in DOMAIN Sized(vs) : \E v \in vs : EndsBy(Sized(vs)[i], v)
<1> DEFINE n == Cardinality(vs)
           z == Sized(vs)
<1>1. DOMAIN z = 1 .. n /\ n \in Nat
  BY SizedRight
<1>2. PICK s : /\ InOrder(vs, s)
               /\ \A i \in 1 .. n : IsEntry(z[i], s[i]) /\ z[i].size = SizeIn(s, n, i)
  BY SizedRight
<1> HIDE DEF z, n
<1>3. ASSUME NEW i \in 1 .. n
      PROVE  /\ s[i] \in VarRecord /\ s[i] \in vs /\ s[i].space \in {"DATA", "XDATA"} /\ s[i].addr \in Nat
             /\ z[i].space = s[i].space /\ z[i].addr = s[i].addr /\ z[i].size = SizeIn(s, n, i)
  <2>1. s[i] \in vs
    BY <1>2 DEF InOrder, n
  <2>2. s[i] \in VarRecord
    BY <2>1
  <2>3. z[i].space = s[i].space /\ z[i].addr = s[i].addr
    <3>1. \A y, v : IsEntry(y, v) => y.space = v.space /\ y.addr = v.addr
      BY DEF IsEntry, SizedAs
    <3> QED BY <1>2, <3>1
  <2> QED BY <1>2, <2>1, <2>2, <2>3 DEF VarRecord
<1>4. \A i, j \in 1 .. n : i < j => Before(s[i], s[j])
  BY <1>2 DEF InOrder, n
<1>5. ASSUME NEW i \in 1 .. n, i < n, s[i + 1].space = s[i].space
      PROVE  /\ i + 1 \in 1 .. n /\ s[i + 1].addr - s[i].addr \in Nat
             /\ z[i].size = SizeOfGap(s[i + 1].addr - s[i].addr)
  <2>1. i + 1 \in 1 .. n /\ i < i + 1
    BY <1>1, <1>5
  <2>2. Before(s[i], s[i + 1])
    BY <1>4, <2>1
  <2>3. s[i].addr <= s[i + 1].addr /\ s[i].addr \in Nat /\ s[i + 1].addr \in Nat
    BY <1>3, <1>5, <2>1, <2>2, BeforeInSpace
  <2>4. z[i].size = SizeOfGap(s[i + 1].addr - s[i].addr)
    BY <1>3, <1>5 DEF SizeIn
  <2> QED BY <2>1, <2>3, <2>4
<1>6. ASSUME NEW i \in 1 .. n PROVE \E v \in vs : EndsBy(z[i], v)
  <2>1. CASE i < n /\ s[i + 1].space = s[i].space
    <3> DEFINE gap == s[i + 1].addr - s[i].addr
    <3>1. i + 1 \in 1 .. n /\ gap \in Nat /\ z[i].size = SizeOfGap(gap)
      BY <1>5, <2>1
    <3>2. s[i + 1].addr = s[i].addr + gap
      BY <1>3, <3>1
    <3> HIDE DEF gap
    <3>3. z[i].size \in Nat /\ z[i].size <= gap + 1
      BY <3>1, GapSize
    <3>4. z[i].addr <= s[i + 1].addr /\ z[i].addr + z[i].size - 1 <= s[i + 1].addr
      BY <1>3, <3>1, <3>2, <3>3
    <3>5. s[i + 1].space = z[i].space /\ s[i + 1] \in vs
      BY <1>3, <2>1, <3>1
    <3> QED BY <3>4, <3>5 DEF EndsBy
  <2>2. CASE ~ (i < n /\ s[i + 1].space = s[i].space)
    <3>1. z[i].size = 1
      BY <1>3, <2>2 DEF SizeIn
    <3>2. EndsBy(z[i], s[i])
      BY <1>3, <3>1 DEF EndsBy
    <3> QED BY <1>3, <3>2
  <2> QED BY <2>1, <2>2
<1>7. ASSUME NEW i \in 1 .. n, NEW j \in 1 .. n, i < j PROVE Separate(z[i], z[j])
  <2>1. SUFFICES ASSUME s[i].space = s[j].space, s[j].addr # s[i].addr,
                        s[j].addr - s[i].addr # 3
                 PROVE  z[i].addr + z[i].size <= z[j].addr
    BY <1>3 DEF Separate
  <2>2. i < n /\ i + 1 \in 1 .. n /\ i < i + 1
    BY <1>1, <1>7
  <2>3. s[i + 1].space = s[i].space
    <3>1. Before(s[i], s[i + 1]) /\ (i + 1 = j \/ Before(s[i + 1], s[j]))
      <4>1. i + 1 = j \/ i + 1 < j
        BY <1>7
      <4> QED BY <1>4, <2>2, <4>1
    <3> QED BY <1>3, <2>1, <2>2, <3>1, BeforeInSpace
  <2> DEFINE gap == s[i + 1].addr - s[i].addr
  <2>4. gap \in Nat /\ z[i].size = SizeOfGap(gap)
    BY <1>5, <2>2, <2>3
  <2>5. s[i + 1].addr = s[i].addr + gap
    BY <1>3, <2>2, <2>4
  <2>6. s[i + 1].addr <= s[j].addr
    <3>1. i + 1 = j \/ i + 1 < j
      BY <1>7
    <3>2. i + 1 < j => Before(s[i + 1], s[j])
      BY <1>4, <2>2
    <3> QED BY <1>3, <2>1, <2>2, <2>3, <3>1, <3>2, BeforeInSpace
  <2>7. /\ z[i].size \in Nat /\ z[i].size <= gap + 1
        /\ gap # 0 /\ gap # 3 => z[i].size <= gap
    <3> HIDE DEF gap
    <3> QED BY <2>4, GapSize
  <2> HIDE DEF gap
  <2> QED BY <1>3, <2>1, <2>2, <2>4, <2>5, <2>6, <2>7
<1>8. \A v, w : Separate(v, w) => Separate(w, v)
  BY DEF Separate
<1>9. \A i \in 1 .. n : Separate(z[i], z[i])
  BY DEF Separate
<1>10. \A i, j \in 1 .. n : Separate(z[i], z[j])
  <2> SUFFICES ASSUME NEW i \in 1 .. n, NEW j \in 1 .. n PROVE Separate(z[i], z[j])
    OBVIOUS
  <2>1. i < j \/ j < i \/ i = j
    BY <1>1
  <2> QED BY <1>7, <1>8, <1>9, <2>1
<1> QED BY <1>1, <1>6, <1>10 DEF z, n

-----------------------------------------------------------------------------
\* A variable that lies in memory that the target has.
Fits(v) ==
  /\ v.space \in {"DATA", "XDATA"} /\ v.addr \in Nat /\ v.size \in {1, 2, 4}
  /\ v.addr < AddrMask
  /\ \A a \in v.addr .. v.addr + v.size - 1 : a \in DOMAIN Data[v.space]

PlacedIn(vs) == \A v \in vs : v.addr \in DOMAIN Data[v.space]

LEMMA SizedFits ==
  ASSUME NEW vs \in SUBSET VarRecord, IsFiniteSet(vs), Distinct(vs), PlacedIn(vs)
  PROVE  \A i \in DOMAIN Sized(vs) : Fits(Sized(vs)[i])
<1> DEFINE z == Sized(vs)
<1>1. z \in Seq(SizedRecord) /\ \A i \in DOMAIN z : \E v \in vs : EndsBy(z[i], v)
  BY SizedType, SizedSeparate
<1> HIDE DEF z
<1>2. ASSUME NEW i \in DOMAIN z PROVE Fits(z[i])
  <2>1. z[i] \in SizedRecord
    BY <1>1, ElementOfSeq
  <2>2. z[i].space \in {"DATA", "XDATA"} /\ z[i].addr \in Nat /\ z[i].size \in {1, 2, 4}
    BY <2>1 DEF SizedRecord
  <2>3. PICK v \in vs : EndsBy(z[i], v)
    BY <1>1
  <2>4. v.space = z[i].space /\ z[i].addr <= v.addr /\ z[i].addr + z[i].size - 1 <= v.addr
    BY <2>3 DEF EndsBy
  <2>5. v.addr \in DOMAIN Data[z[i].space]
    BY <2>4 DEF PlacedIn
  <2>6. PICK n \in 1 .. AddrMask : DOMAIN Data[z[i].space] = 0 .. n - 1
    BY <2>2, SpacesFromZero
  <2>7. AddrMask \in Nat
    BY VariablesAssumption
  <2>8. z[i].addr < AddrMask /\ \A a \in z[i].addr .. z[i].addr + z[i].size - 1 : a \in 0 .. n - 1
    BY <2>2, <2>4, <2>5, <2>6, <2>7
  <2> QED BY <2>2, <2>6, <2>8 DEF Fits
<1> QED BY <1>2 DEF z

\* The variables that the records of a file place.
LEMMA VariablesPlaced ==
  ASSUME NEW map \in DOMAIN MapFiles, NEW I \in SUBSET DOMAIN MapFiles[map],
         \A i \in I : MapFiles[map][i].rec \in {"local", "global"}
  PROVE  PlacedIn(VariablesAt(MapFiles[map], I))
<1> DEFINE file == MapFiles[map]
<1>1. \A i \in I : file[i].addr \in DOMAIN Data[file[i].space]
  BY PlacedAssumption
<1>2. \A i : Variable(file[i]).space = file[i].space /\ Variable(file[i]).addr = file[i].addr
  BY DEF Variable
<1> QED BY <1>1, <1>2 DEF PlacedIn, VariablesAt

\* The variables of the functions, and the globals, of a file that is loaded.
LEMMA FunctionFits ==
  ASSUME NEW map \in DOMAIN MapFiles, NEW p \in Procs(MapFiles[map])
  PROVE  /\ \A v \in Chunk(MapFiles[map], p) : Fits(v)
         /\ \A v, w \in Chunk(MapFiles[map], p) : Separate(v, w)
<1> DEFINE file == MapFiles[map]
           vs   == VarsOf(file, p)
           z    == Sized(vs)
<1>1. WellFormed(file) /\ Nested(file)
  BY FileListed
<1>2. vs \in SUBSET VarRecord /\ IsFiniteSet(vs) /\ Distinct(vs)
  BY <1>1, FunctionVars
<1>3. PlacedIn(vs)
  <2> DEFINE I == LocalRecords(file, p, EndOf(file, p) - 1)
  <2>1. I = {i \in Body(file, p) : file[i].rec = "local"} /\ I \subseteq DOMAIN file
    BY <1>1, FunctionVars
  <2>2. \A i \in I : file[i].rec \in {"local", "global"}
    BY <2>1
  <2> HIDE DEF I
  <2>3. PlacedIn(VariablesAt(file, I))
    BY <2>1, <2>2, VariablesPlaced
  <2> QED BY <2>3 DEF VarsOf, I
<1>4. Chunk(file, p) = {Scoped(z[i], ScopeStart(file, p), ScopeEnd(file, p)) : i \in DOMAIN z}
  BY DEF Chunk
<1> HIDE DEF vs, file
<1>5. /\ \A i \in DOMAIN z : Fits(z[i])
      /\ \A i, j \in DOMAIN z : Separate(z[i], z[j])
  BY <1>2, <1>3, SizedFits, SizedSeparate
<1>6. \A y, a, b : /\ Scoped(y, a, b).space = y.space /\ Scoped(y, a, b).addr = y.addr
                   /\ Scoped(y, a, b).size = y.size
  BY DEF Scoped
<1>7. \A y, a, b : Fits(y) => Fits(Scoped(y, a, b))
  BY <1>6, Zenon DEF Fits
<1>8. \A x, y, a, b : Separate(x, y) => Separate(Scoped(x, a, b), Scoped(y, a, b))
  <2> SUFFICES ASSUME NEW x, NEW y, NEW a, NEW b, Separate(x, y)
               PROVE  Separate(Scoped(x, a, b), Scoped(y, a, b))
    OBVIOUS
  <2> DEFINE u == Scoped(x, a, b)
             w == Scoped(y, a, b)
  <2>1. /\ u.space = x.space /\ u.addr = x.addr /\ u.size = x.size
        /\ w.space = y.space /\ w.addr = y.addr /\ w.size = y.size
    BY <1>6
  <2> HIDE DEF u, w
  <2>2. Separate(u, w)
    BY <2>1 DEF Separate
  <2> QED BY <2>2 DEF u, w
<1> HIDE DEF z
<1> QED BY <1>4, <1>5, <1>7, <1>8 DEF file

LEMMA GlobalsFit ==
  ASSUME NEW map \in DOMAIN MapFiles, symtab = map
  PROVE  /\ \A v \in Range(Table.globals) : Fits(v)
         /\ \A v, w \in Range(Table.globals) : Separate(v, w)
<1> DEFINE file == MapFiles[map]
           I    == GlobalsUpTo(file, Len(file))
           vs   == VariablesAt(file, I)
<1>1. WellFormed(file) /\ Nested(file)
  BY FileListed
<1>2. file \in Seq(MapRecord) /\ Len(file) \in Nat /\ DOMAIN file = 1 .. Len(file)
  BY <1>1 DEF WellFormed
<1>3. Table = Load(file)
  BY FilesAssumption DEF Table, Tables
<1>4. Table.globals = Sized(vs)
  BY <1>1, <1>3, LoadedTable
<1>5. I \in SUBSET (1 .. Len(file)) /\ \A i \in I : file[i].rec \in {"local", "global"}
  BY DEF GlobalsUpTo
<1>6. Distinct(vs)
  BY <1>1, <1>5, VariablesApart
<1> HIDE DEF I
<1>7. vs \in SUBSET VarRecord /\ IsFiniteSet(vs)
  BY <1>2, <1>5, VariablesFinite
<1>8. PlacedIn(vs)
  BY <1>2, <1>5, VariablesPlaced
<1> HIDE DEF vs, file
<1>9. /\ \A i \in DOMAIN Sized(vs) : Fits(Sized(vs)[i])
      /\ \A i, j \in DOMAIN Sized(vs) : Separate(Sized(vs)[i], Sized(vs)[j])
  BY <1>6, <1>7, <1>8, SizedFits, SizedSeparate
<1> QED BY <1>4, <1>9 DEF Range

LEMMA LocalsFit ==
  ASSUME NEW map \in DOMAIN MapFiles, symtab = map
  PROVE  /\ \A v \in Range(Table.locals) : Fits(v)
         /\ \A pc \in Nat : \A v, w \in Range(LookupLocals(Table, pc)) : Fits(v) /\ Separate(v, w)
<1> DEFINE file == MapFiles[map]
<1>1. WellFormed(file) /\ Nested(file)
  BY FileListed
<1>2. \A v \in Range(Table.locals) : Fits(v)
  <2>1. Table = Load(file)
    BY FilesAssumption DEF Table, Tables
  <2>2. Range(Table.locals) = UNION {Chunk(file, p) : p \in Procs(file)}
    BY <1>1, <2>1, LoadedTable
  <2> QED BY <2>2, FunctionFits
<1>3. ASSUME NEW pc \in Nat, NEW v \in Range(LookupLocals(Table, pc)),
             NEW w \in Range(LookupLocals(Table, pc))
      PROVE  Fits(v) /\ Separate(v, w)
  <2>1. ASSUME NEW x \in Range(LookupLocals(Table, pc))
        PROVE  \E p \in Procs(file) : x \in Chunk(file, p) /\ Covers(file, p, pc)
    <3>1. PICK n \in DOMAIN LookupLocals(Table, pc) : x = LookupLocals(Table, pc)[n]
      BY DEF Range
    <3>2. PICK p \in Procs(file) : x \in Chunk(file, p) /\ InScope(x, pc)
      BY <3>1, LocalsListed
    <3>3. ProcCode(file, p) # {}
      BY FunctionsAssumption
    <3> QED BY <1>1, <3>2, <3>3, ScopeInside
  <2>2. PICK p \in Procs(file) : v \in Chunk(file, p) /\ Covers(file, p, pc)
    BY <2>1
  <2>3. PICK q \in Procs(file) : w \in Chunk(file, q) /\ Covers(file, q, pc)
    BY <2>1
  <2>4. p = q
    BY <2>2, <2>3, OneFunction
  <2> QED BY <2>2, <2>3, <2>4, FunctionFits
<1> QED BY <1>2, <1>3

-----------------------------------------------------------------------------
\* What a write leaves in a space.
AnySpace == DataSpaces \cup {"CODE"}
Cells(base, n) == base .. base + n - 1

LEMMA Written ==
  ASSUME NEW m, MemOK(m), NEW space \in AnySpace, NEW addr \in Int,
         NEW bytes \in Seq(ByteValue), NEW base, base = addr % AddrMask
  PROVE  /\ base \in Nat
         /\ \A sp \in AnySpace : sp # space => MemWrite(m, space, addr, bytes)[sp] = m[sp]
         /\ DOMAIN MemWrite(m, space, addr, bytes)[space] = DOMAIN m[space]
         /\ \A a \in DOMAIN m[space] :
              MemWrite(m, space, addr, bytes)[space][a]
                = IF a \in Cells(base, Len(bytes)) THEN bytes[1 + a - base] ELSE m[space][a]
         /\ MemWrite(m, space, addr, bytes).PC = m.PC
<1> DEFINE hit(a) == \E i \in DOMAIN bytes : a = At(addr, i)
           s == [a \in DOMAIN m[space] |-> IF hit(a) THEN bytes[1 + a - base] ELSE m[space][a]]
           w == [m EXCEPT ![space] = s]
<1>1. base \in Nat
  BY VariablesAssumption
<1>2. MemWrite(m, space, addr, bytes) = w
  BY DEF MemOK, MemWrite, DataSpaces, AnySpace
<1>3. /\ w[space] = s /\ w.PC = m.PC
      /\ \A sp \in AnySpace : sp # space => w[sp] = m[sp]
  <2> HIDE DEF s
  <2> QED BY DEF MemOK, DataSpaces, AnySpace
<1>4. \A a \in Int : hit(a) <=> a \in Cells(base, Len(bytes))
  <2> SUFFICES ASSUME NEW a \in Int PROVE hit(a) <=> a \in Cells(base, Len(bytes))
    OBVIOUS
  <2>1. DOMAIN bytes = 1 .. Len(bytes) /\ Len(bytes) \in Nat
    OBVIOUS
  <2>2. hit(a) <=> \E i \in 1 .. Len(bytes) : a = base + i - 1
    BY <2>1 DEF At
  <2>3. ASSUME a \in Cells(base, Len(bytes)) PROVE \E i \in 1 .. Len(bytes) : a = base + i - 1
    <3>1. 1 + a - base \in 1 .. Len(bytes) /\ a = base + (1 + a - base) - 1
      BY <1>1, <2>1, <2>3 DEF Cells
    <3> QED BY <3>1
  <2>4. ASSUME NEW i \in 1 .. Len(bytes), a = base + i - 1 PROVE a \in Cells(base, Len(bytes))
    BY <1>1, <2>1, <2>4 DEF Cells
  <2> HIDE DEF hit
  <2> QED BY <2>2, <2>3, <2>4
<1>5. \A a \in DOMAIN m[space] : a \in Int
  <2>1. CASE space = "CODE"
    <3>1. DOMAIN m[space] = 0 .. CodeSize - 1
      BY <2>1 DEF MemOK, CodeMemory
    <3> QED BY <3>1
  <2>2. CASE space # "CODE"
    <3>1. space \in {"DATA", "XDATA", "R"} /\ DOMAIN m[space] = DOMAIN Data[space]
      BY <2>2 DEF MemOK, DataSpaces, AnySpace
    <3>2. PICK n \in 1 .. AddrMask : DOMAIN Data[space] = 0 .. n - 1
      BY <3>1, SpacesFromZero
    <3> QED BY <3>1, <3>2
  <2> QED BY <2>1, <2>2
<1> HIDE DEF hit, w
<1>6. \A a \in DOMAIN m[space] :
        s[a] = IF a \in Cells(base, Len(bytes)) THEN bytes[1 + a - base] ELSE m[space][a]
  BY <1>4, <1>5
<1> QED BY <1>1, <1>2, <1>3, <1>6

\* The bytes that a read finds.
LEMMA ReadCells ==
  ASSUME NEW m, NEW space, NEW addr, NEW n \in Nat, NEW base \in Nat, base = addr % AddrMask
  PROVE  /\ DOMAIN MemRead(m, space, addr, n) = 1 .. n
         /\ MemRead(m, space, addr, n)
              = [i \in 1 .. n |-> IF base + i - 1 \in DOMAIN m[space] THEN m[space][base + i - 1] ELSE 0]
BY DEF MemRead, At

\* A read of other cells than those written, and a read of those.
OtherCells(sp, at, n, space, addr, k) ==
  sp # space \/ Cells(at % AddrMask, n) \cap Cells(addr % AddrMask, k) = {}

LEMMA ReadAside ==
  ASSUME NEW m, MemOK(m), NEW space \in AnySpace, NEW addr \in Int,
         NEW bytes \in Seq(ByteValue), NEW sp \in AnySpace, NEW at \in Int, NEW n \in Nat,
         OtherCells(sp, at, n, space, addr, Len(bytes))
  PROVE  MemRead(MemWrite(m, space, addr, bytes), sp, at, n) = MemRead(m, sp, at, n)
<1> DEFINE base == addr % AddrMask
           from == at % AddrMask
           w    == MemWrite(m, space, addr, bytes)
<1>1. from \in Nat
  BY VariablesAssumption
<1>2. /\ \A s \in AnySpace : s # space => w[s] = m[s]
      /\ DOMAIN w[space] = DOMAIN m[space]
      /\ \A a \in DOMAIN m[space] :
           w[space][a] = IF a \in Cells(base, Len(bytes)) THEN bytes[1 + a - base] ELSE m[space][a]
  <2>1. base = addr % AddrMask
    OBVIOUS
  <2> HIDE DEF base, from
  <2> QED BY <2>1, Written
<1> HIDE DEF base, from, w
<1>3. ASSUME NEW i \in 1 .. n
      PROVE  (IF from + i - 1 \in DOMAIN w[sp] THEN w[sp][from + i - 1] ELSE 0)
               = IF from + i - 1 \in DOMAIN m[sp] THEN m[sp][from + i - 1] ELSE 0
  <2>1. CASE sp # space
    BY <1>2, <2>1
  <2>2. CASE sp = space
    <3>1. from + i - 1 \in Cells(from, n)
      BY <1>1 DEF Cells
    <3>2. from + i - 1 \notin Cells(base, Len(bytes))
      BY <2>2, <3>1 DEF base, from, OtherCells
    <3> QED BY <1>2, <2>2, <3>2
  <2> QED BY <2>1, <2>2
<1>4. /\ MemRead(w, sp, at, n)
           = [i \in 1 .. n |-> IF from + i - 1 \in DOMAIN w[sp] THEN w[sp][from + i - 1] ELSE 0]
      /\ MemRead(m, sp, at, n)
           = [i \in 1 .. n |-> IF from + i - 1 \in DOMAIN m[sp] THEN m[sp][from + i - 1] ELSE 0]
  BY <1>1, ReadCells DEF from
<1>5. MemRead(w, sp, at, n) = MemRead(m, sp, at, n)
  BY <1>3, <1>4
<1> QED BY <1>5 DEF w

LEMMA ReadBack ==
  ASSUME NEW m, MemOK(m), NEW space \in AnySpace, NEW addr \in Int,
         NEW bytes \in Seq(ByteValue), Cells(addr % AddrMask, Len(bytes)) \subseteq DOMAIN m[space]
  PROVE  MemRead(MemWrite(m, space, addr, bytes), space, addr, Len(bytes)) = bytes
<1> DEFINE base == addr % AddrMask
           w    == MemWrite(m, space, addr, bytes)
           n    == Len(bytes)
           r    == MemRead(w, space, addr, n)
<1>1. base \in Nat /\ n \in Nat /\ DOMAIN bytes = 1 .. n
  BY VariablesAssumption
<1>2. /\ DOMAIN w[space] = DOMAIN m[space]
      /\ \A a \in DOMAIN m[space] :
           w[space][a] = IF a \in Cells(base, n) THEN bytes[1 + a - base] ELSE m[space][a]
  BY Written
<1>3. r = [i \in 1 .. n |-> IF base + i - 1 \in DOMAIN w[space] THEN w[space][base + i - 1] ELSE 0]
  BY <1>1, ReadCells
<1>4. Cells(base, n) \subseteq DOMAIN m[space]
  OBVIOUS
<1> HIDE DEF base, w, n
<1>5. ASSUME NEW i \in 1 .. n
      PROVE  (IF base + i - 1 \in DOMAIN w[space] THEN w[space][base + i - 1] ELSE 0) = bytes[i]
  <2>1. base + i - 1 \in Cells(base, n) /\ 1 + (base + i - 1) - base = i
    BY <1>1 DEF Cells
  <2> QED BY <1>2, <1>4, <2>1
<1>6. r = [i \in 1 .. n |-> bytes[i]]
  BY <1>3, <1>5
<1>7. bytes = [i \in 1 .. n |-> bytes[i]]
  BY <1>1
<1> QED BY <1>6, <1>7 DEF w, n

-----------------------------------------------------------------------------
\* A byte from its bits.
FromBits(s) == s[0] + 2 * s[1] + 4 * s[2] + 8 * s[3] + 16 * s[4] + 32 * s[5] + 64 * s[6] + 128 * s[7]

LEMMA ByteFromBits ==
  ASSUME NEW n \in 0 .. 255
  PROVE  \E s \in [0 .. 7 -> {0, 1}] : n = FromBits(s)
<1> DEFINE s == [i \in 0 .. 7 |-> IF i = 0 THEN n % 2 ELSE IF i = 1 THEN (n \div 2) % 2
                                  ELSE IF i = 2 THEN (n \div 4) % 2 ELSE IF i = 3 THEN (n \div 8) % 2
                                  ELSE IF i = 4 THEN (n \div 16) % 2 ELSE IF i = 5 THEN (n \div 32) % 2
                                  ELSE IF i = 6 THEN (n \div 64) % 2 ELSE (n \div 128) % 2]
<1>1. \A x \in Int : x % 2 \in {0, 1}
  OBVIOUS
<1>2. s \in [0 .. 7 -> {0, 1}]
  BY <1>1
<1>3. /\ s[0] = n % 2 /\ s[1] = (n \div 2) % 2 /\ s[2] = (n \div 4) % 2 /\ s[3] = (n \div 8) % 2
      /\ s[4] = (n \div 16) % 2 /\ s[5] = (n \div 32) % 2 /\ s[6] = (n \div 64) % 2
      /\ s[7] = (n \div 128) % 2
  OBVIOUS
<1>4. /\ n = 2 * (n \div 2) + (n % 2)
      /\ n \div 2 = 2 * (n \div 4) + ((n \div 2) % 2)
      /\ n \div 4 = 2 * (n \div 8) + ((n \div 4) % 2)
      /\ n \div 8 = 2 * (n \div 16) + ((n \div 8) % 2)
  OBVIOUS
<1>5. /\ n \div 16 = 2 * (n \div 32) + ((n \div 16) % 2)
      /\ n \div 32 = 2 * (n \div 64) + ((n \div 32) % 2)
      /\ n \div 64 = 2 * (n \div 128) + ((n \div 64) % 2)
      /\ n \div 128 = (n \div 128) % 2
  OBVIOUS
<1>6. n = FromBits(s)
  <2> DEFINE a == n \div 2
             b == n \div 4
             c == n \div 8
             d == n \div 16
             e == n \div 32
             f == n \div 64
             g == n \div 128
  <2>1. a \in Int /\ b \in Int /\ c \in Int /\ d \in Int /\ e \in Int /\ f \in Int /\ g \in Int
    OBVIOUS
  <2>2. /\ n = 2 * a + s[0] /\ a = 2 * b + s[1] /\ b = 2 * c + s[2] /\ c = 2 * d + s[3]
        /\ d = 2 * e + s[4] /\ e = 2 * f + s[5] /\ f = 2 * g + s[6] /\ g = s[7]
    BY <1>3, <1>4, <1>5
  <2>3. /\ s[0] \in Int /\ s[1] \in Int /\ s[2] \in Int /\ s[3] \in Int
        /\ s[4] \in Int /\ s[5] \in Int /\ s[6] \in Int /\ s[7] \in Int
    BY <1>2
  <2>4. n = s[0] + 2 * s[1] + 4 * s[2] + 8 * s[3] + 16 * s[4] + 32 * s[5] + 64 * s[6] + 128 * s[7]
    <3> HIDE DEF s, a, b, c, d, e, f, g
    <3>1. d = s[4] + 2 * s[5] + 4 * s[6] + 8 * s[7]
      BY <2>1, <2>2, <2>3
    <3>2. n = s[0] + 2 * s[1] + 4 * s[2] + 8 * s[3] + 16 * d
      BY <2>1, <2>2, <2>3
    <3> QED BY <2>1, <2>3, <3>1, <3>2
  <2> HIDE DEF s
  <2> QED BY <2>4 DEF FromBits
<1> QED BY <1>2, <1>6

LEMMA BitsOfByte ==
  ASSUME NEW s \in [0 .. 7 -> {0, 1}], NEW i \in 0 .. 7
  PROVE  FromBits(s) \in Int /\ BitOf(FromBits(s), i) = s[i]
<1> DEFINE n == FromBits(s)
<1>1. /\ s[0] \in {0, 1} /\ s[1] \in {0, 1} /\ s[2] \in {0, 1} /\ s[3] \in {0, 1}
      /\ s[4] \in {0, 1} /\ s[5] \in {0, 1} /\ s[6] \in {0, 1} /\ s[7] \in {0, 1}
  OBVIOUS
<1>2. /\ n = s[0] + 2 * s[1] + 4 * s[2] + 8 * s[3] + 16 * s[4] + 32 * s[5] + 64 * s[6] + 128 * s[7]
      /\ n \in Int
  BY <1>1 DEF FromBits
<1> HIDE DEF n
<1>3. /\ Weight[1] = 1 /\ Weight[2] = 2 /\ Weight[3] = 4 /\ Weight[4] = 8
      /\ Weight[5] = 16 /\ Weight[6] = 32 /\ Weight[7] = 64 /\ Weight[8] = 128
  BY DEF Weight
<1>4. BitOf(n, i) = (n \div Weight[1 + i]) % 2
  BY DEF BitOf
<1>5. (n \div 1) % 2 = s[0]
  BY <1>1, <1>2
<1>6. (n \div 2) % 2 = s[1]
  BY <1>1, <1>2
<1>7. (n \div 4) % 2 = s[2]
  BY <1>1, <1>2
<1>8. (n \div 8) % 2 = s[3]
  BY <1>1, <1>2
<1>9. (n \div 16) % 2 = s[4]
  BY <1>1, <1>2
<1>10. (n \div 32) % 2 = s[5]
  BY <1>1, <1>2
<1>11. (n \div 64) % 2 = s[6]
  BY <1>1, <1>2
<1>12. (n \div 128) % 2 = s[7]
  BY <1>1, <1>2
<1>13. i \in {0, 1, 2, 3, 4, 5, 6, 7}
  OBVIOUS
<1>14. BitOf(n, i) = s[i]
  BY <1>3, <1>4, <1>5, <1>6, <1>7, <1>8, <1>9, <1>10, <1>11, <1>12, <1>13
<1> QED BY <1>2, <1>14 DEF n

\* One bit of a byte set or cleared: it reads back, and no other bit changes.
OtherBitsSame(n, b, k)   == \A c \in 0 .. 7 : c # b => BitOf(k, c) = BitOf(n, c)
WithBitSet(n, b, new, k) == k = n + (new - BitOf(n, b)) * Weight[1 + b]

LEMMA BitSet ==
  ASSUME NEW n \in 0 .. 255, NEW b \in 0 .. 7, NEW new \in {0, 1},
         NEW k, WithBitSet(n, b, new, k)
  PROVE  BitOf(k, b) = new /\ OtherBitsSame(n, b, k)
<1>1. PICK s \in [0 .. 7 -> {0, 1}] : n = FromBits(s)
  BY ByteFromBits
<1> DEFINE t == [s EXCEPT ![b] = new]
<1>2. t \in [0 .. 7 -> {0, 1}]
  OBVIOUS
<1>3. BitOf(n, b) = s[b]
  BY <1>1, BitsOfByte
<1>4. k = FromBits(t)
  <2>1. /\ s[0] \in {0, 1} /\ s[1] \in {0, 1} /\ s[2] \in {0, 1} /\ s[3] \in {0, 1}
        /\ s[4] \in {0, 1} /\ s[5] \in {0, 1} /\ s[6] \in {0, 1} /\ s[7] \in {0, 1}
    OBVIOUS
  <2>2. \A i \in 0 .. 7 : t[i] = IF i = b THEN new ELSE s[i]
    OBVIOUS
  <2>3. /\ Weight[1] = 1 /\ Weight[2] = 2 /\ Weight[3] = 4 /\ Weight[4] = 8
        /\ Weight[5] = 16 /\ Weight[6] = 32 /\ Weight[7] = 64 /\ Weight[8] = 128
    BY DEF Weight
  <2>4. k = n + (new - s[b]) * Weight[1 + b]
    BY <1>3 DEF WithBitSet
  <2> HIDE DEF t
  <2>5. CASE b = 0
    <3>1. k = n + (new - s[0]) * 1
      BY <2>3, <2>4, <2>5
    <3>2. /\ t[0] = new /\ t[1] = s[1] /\ t[2] = s[2] /\ t[3] = s[3]
          /\ t[4] = s[4] /\ t[5] = s[5] /\ t[6] = s[6] /\ t[7] = s[7]
      BY <2>2, <2>5
    <3> QED BY <1>1, <2>1, <3>1, <3>2 DEF FromBits
  <2>6. CASE b = 1
    <3>1. k = n + (new - s[1]) * 2
      BY <2>3, <2>4, <2>6
    <3>2. /\ t[0] = s[0] /\ t[1] = new /\ t[2] = s[2] /\ t[3] = s[3]
          /\ t[4] = s[4] /\ t[5] = s[5] /\ t[6] = s[6] /\ t[7] = s[7]
      BY <2>2, <2>6
    <3> QED BY <1>1, <2>1, <3>1, <3>2 DEF FromBits
  <2>7. CASE b = 2
    <3>1. k = n + (new - s[2]) * 4
      BY <2>3, <2>4, <2>7
    <3>2. /\ t[0] = s[0] /\ t[1] = s[1] /\ t[2] = new /\ t[3] = s[3]
          /\ t[4] = s[4] /\ t[5] = s[5] /\ t[6] = s[6] /\ t[7] = s[7]
      BY <2>2, <2>7
    <3> QED BY <1>1, <2>1, <3>1, <3>2 DEF FromBits
  <2>8. CASE b = 3
    <3>1. k = n + (new - s[3]) * 8
      BY <2>3, <2>4, <2>8
    <3>2. /\ t[0] = s[0] /\ t[1] = s[1] /\ t[2] = s[2] /\ t[3] = new
          /\ t[4] = s[4] /\ t[5] = s[5] /\ t[6] = s[6] /\ t[7] = s[7]
      BY <2>2, <2>8
    <3> QED BY <1>1, <2>1, <3>1, <3>2 DEF FromBits
  <2>9. CASE b = 4
    <3>1. k = n + (new - s[4]) * 16
      BY <2>3, <2>4, <2>9
    <3>2. /\ t[0] = s[0] /\ t[1] = s[1] /\ t[2] = s[2] /\ t[3] = s[3]
          /\ t[4] = new /\ t[5] = s[5] /\ t[6] = s[6] /\ t[7] = s[7]
      BY <2>2, <2>9
    <3> QED BY <1>1, <2>1, <3>1, <3>2 DEF FromBits
  <2>10. CASE b = 5
    <3>1. k = n + (new - s[5]) * 32
      BY <2>3, <2>4, <2>10
    <3>2. /\ t[0] = s[0] /\ t[1] = s[1] /\ t[2] = s[2] /\ t[3] = s[3]
          /\ t[4] = s[4] /\ t[5] = new /\ t[6] = s[6] /\ t[7] = s[7]
      BY <2>2, <2>10
    <3> QED BY <1>1, <2>1, <3>1, <3>2 DEF FromBits
  <2>11. CASE b = 6
    <3>1. k = n + (new - s[6]) * 64
      BY <2>3, <2>4, <2>11
    <3>2. /\ t[0] = s[0] /\ t[1] = s[1] /\ t[2] = s[2] /\ t[3] = s[3]
          /\ t[4] = s[4] /\ t[5] = s[5] /\ t[6] = new /\ t[7] = s[7]
      BY <2>2, <2>11
    <3> QED BY <1>1, <2>1, <3>1, <3>2 DEF FromBits
  <2>12. CASE b = 7
    <3>1. k = n + (new - s[7]) * 128
      BY <2>3, <2>4, <2>12
    <3>2. /\ t[0] = s[0] /\ t[1] = s[1] /\ t[2] = s[2] /\ t[3] = s[3]
          /\ t[4] = s[4] /\ t[5] = s[5] /\ t[6] = s[6] /\ t[7] = new
      BY <2>2, <2>12
    <3> QED BY <1>1, <2>1, <3>1, <3>2 DEF FromBits
  <2> QED BY <2>5, <2>6, <2>7, <2>8, <2>9, <2>10, <2>11, <2>12
<1>5. BitOf(k, b) = t[b] /\ t[b] = new
  <2> HIDE DEF t
  <2>1. BitOf(k, b) = t[b]
    BY <1>2, <1>4, BitsOfByte
  <2> QED BY <2>1 DEF t
<1>6. ASSUME NEW c \in 0 .. 7, c # b PROVE BitOf(k, c) = BitOf(n, c)
  <2>1. t[c] = s[c]
    BY <1>6
  <2> HIDE DEF t
  <2>2. BitOf(k, c) = t[c] /\ BitOf(n, c) = s[c]
    BY <1>1, <1>2, <1>4, BitsOfByte
  <2> QED BY <2>1, <2>2
<1>7. OtherBitsSame(n, b, k)
  BY <1>6 DEF OtherBitsSame
<1> QED BY <1>5, <1>7

-----------------------------------------------------------------------------
\* Division with a remainder, and numbers of several digits.
LEMMA Remainder ==
  ASSUME NEW n \in Nat, NEW q \in Nat, NEW r \in Nat, NEW d \in Nat \ {0}, n = q * d + r, r < d
  PROVE  n \div d = q /\ n % d = r
<1> DEFINE p == n \div d
           s == n % d
<1>1. p \in Nat /\ s \in Nat /\ s < d /\ n = d * p + s
  OBVIOUS
<1>2. d * p = p * d
  BY <1>1
<1> HIDE DEF p, s
<1>3. n = p * d + s
  BY <1>1, <1>2
<1>4. p * d \in Nat /\ q * d \in Nat /\ (p + 1) * d = p * d + d /\ (q + 1) * d = q * d + d
  BY <1>1
<1>5. ASSUME q < p PROVE FALSE
  <2>1. (q + 1) * d <= p * d
    BY <1>1, <1>5, Product
  <2> DEFINE x == p * d
             y == q * d
  <2>2. y + d <= x /\ n = x + s /\ n = y + r /\ x \in Nat /\ y \in Nat
    BY <1>3, <1>4, <2>1
  <2> HIDE DEF x, y
  <2> QED BY <1>1, <2>2
<1>6. ASSUME p < q PROVE FALSE
  <2>1. (p + 1) * d <= q * d
    BY <1>1, <1>6, Product
  <2> DEFINE x == p * d
             y == q * d
  <2>2. x + d <= y /\ n = x + s /\ n = y + r /\ x \in Nat /\ y \in Nat
    BY <1>3, <1>4, <2>1
  <2> HIDE DEF x, y
  <2> QED BY <1>1, <2>2
<1>7. p = q
  BY <1>1, <1>5, <1>6
<1>8. s = r
  <2> DEFINE x == q * d
  <2>1. n = x + s /\ n = x + r /\ x \in Nat
    BY <1>3, <1>4, <1>7
  <2> HIDE DEF x
  <2> QED BY <1>1, <2>1
<1> QED BY <1>7, <1>8 DEF p, s

LEMMA LowDigit ==
  ASSUME NEW n \in Nat, NEW d \in Nat \ {0}, NEW e \in Nat \ {0}
  PROVE  n % (d * e) = ((n \div d) % e) * d + (n % d)
<1> DEFINE a == n \div d
           r == n % d
           b == a \div e
           s == a % e
<1>1. a \in Nat /\ r \in Nat /\ r < d /\ n = d * a + r
  OBVIOUS
<1> HIDE DEF a, r
<1>2. b \in Nat /\ s \in Nat /\ s < e /\ a = e * b + s
  BY <1>1
<1> HIDE DEF b, s
<1>3. d * e \in Nat \ {0} /\ s * d \in Nat /\ s * d + r \in Nat
  BY <1>1, <1>2
<1>4. n = b * (d * e) + (s * d + r)
  <2>1. d * a = d * (e * b + s)
    BY <1>2
  <2>2. d * (e * b + s) = b * (d * e) + s * d
    BY <1>2
  <2>3. b * (d * e) \in Nat
    BY <1>2
  <2> DEFINE x == b * (d * e)
             y == s * d
  <2>4. d * a = x + y /\ x \in Nat /\ y \in Nat
    BY <1>3, <2>1, <2>2, <2>3
  <2> HIDE DEF x, y
  <2>5. n = x + (y + r)
    BY <1>1, <2>4
  <2> QED BY <2>5 DEF x, y
<1>5. s * d + r < d * e
  <2>1. (s + 1) * d <= e * d
    BY <1>2, Product
  <2>2. (s + 1) * d = s * d + d /\ e * d = d * e
    BY <1>2
  <2> DEFINE x == s * d
             y == d * e
  <2>3. x + d <= y /\ x \in Nat /\ y \in Nat
    BY <1>3, <2>1, <2>2
  <2> HIDE DEF x, y
  <2>4. x + r < y
    BY <1>1, <2>3
  <2> QED BY <2>4 DEF x, y
<1>6. n % (d * e) = s * d + r
  <2> DEFINE x == s * d + r
             y == d * e
  <2>1. n = b * y + x /\ x < y /\ x \in Nat /\ y \in Nat \ {0}
    BY <1>3, <1>4, <1>5
  <2> HIDE DEF x, y
  <2>2. n % y = x
    BY <1>2, <2>1, Remainder
  <2> QED BY <2>2 DEF x, y
<1> QED BY <1>6 DEF s, r, a

\* The digits of a number, and the number.
LEMMA DigitsOf ==
  ASSUME NEW val \in Nat
  PROVE  /\ Digit(val, 0) = val % Byte
         /\ Digit(val, 1) * Byte + Digit(val, 0) = val % Capacity(2)
         /\ ((Digit(val, 3) * Byte + Digit(val, 2)) * Byte + Digit(val, 1)) * Byte + Digit(val, 0)
              = val % Capacity(4)
<1> DEFINE a == val \div Byte
           b == a \div Byte
           c == b \div Byte
<1>1. Byte \in Nat \ {0}
  BY VariablesAssumption
<1>2. a \in Nat
  BY <1>1, Division
<1> HIDE DEF a
<1>3. b \in Nat
  BY <1>1, <1>2, Division
<1> HIDE DEF b
<1>4. c \in Nat
  BY <1>1, <1>3, Division
<1>5. Shifted(val) = <<val, a, b, c>>
  BY DEF Shifted, a, b
<1>6. /\ Digit(val, 0) = val % Byte /\ Digit(val, 1) = a % Byte
      /\ Digit(val, 2) = b % Byte /\ Digit(val, 3) = c % Byte
  <2>1. Shifted(val)[1] = val /\ Shifted(val)[2] = a /\ Shifted(val)[3] = b /\ Shifted(val)[4] = c
    BY <1>5
  <2> HIDE DEF c
  <2> QED BY <2>1 DEF Digit
<1>7. val % (Byte * Byte) = (a % Byte) * Byte + (val % Byte)
  BY <1>1, LowDigit DEF a
<1>8. b % (Byte * Byte) = (c % Byte) * Byte + (b % Byte)
  BY <1>1, <1>3, LowDigit
<1> DEFINE B2 == Byte * Byte
           B3 == Byte * B2
<1>9. B2 \in Nat \ {0}
  BY <1>1
<1> HIDE DEF B2
<1>10. B3 \in Nat \ {0}
  BY <1>1, <1>9
<1>11. a % B3 = (b % B2) * Byte + (a % Byte)
  BY <1>1, <1>2, <1>9, LowDigit DEF b
<1> HIDE DEF B3
<1>12. val % (Byte * B3) = (a % B3) * Byte + (val % Byte)
  BY <1>1, <1>10, LowDigit DEF a
<1>13. Capacity(2) = B2 /\ Capacity(4) = Byte * Byte * Byte * Byte
  BY DEF Capacity, B2
<1>14. Byte * Byte * Byte * Byte = Byte * B3
  BY <1>1 DEF B2, B3
<1>15. val % Capacity(2) = Digit(val, 1) * Byte + Digit(val, 0)
  BY <1>6, <1>7, <1>13 DEF B2
<1>16. b % B2 = Digit(val, 3) * Byte + Digit(val, 2)
  BY <1>6, <1>8 DEF B2
<1> HIDE DEF c
<1>17. val % Capacity(4)
         = ((Digit(val, 3) * Byte + Digit(val, 2)) * Byte + Digit(val, 1)) * Byte + Digit(val, 0)
  BY <1>6, <1>11, <1>12, <1>13, <1>14, <1>16
<1> QED BY <1>6, <1>15, <1>17

LEMMA NeededEnough ==
  ASSUME NEW val \in Nat, NEW i \in 0 .. 3, i >= Needed(val)
  PROVE  Digit(val, i) = 0
<1> DEFINE S == {1} \cup {n \in 2 .. 4 : Shifted(val)[n] > 0}
           x == Shifted(val)[1 + i]
<1>1. S \in SUBSET Nat /\ S # {} /\ 4 \in Nat /\ \A k \in S : k <= 4
  OBVIOUS
<1>2. Needed(val) = Max(S)
  BY DEF Needed
<1>3. Needed(val) \in 1 .. 4
  BY NeededType
<1>4. 1 + i \notin S
  <2> HIDE DEF S
  <2>1. \A k \in S : k <= Max(S)
    BY <1>1, MaxNat
  <2> QED BY <1>2, <1>3, <2>1
<1>5. 1 + i \in 2 .. 4
  BY <1>3
<1>6. ~ (x > 0)
  BY <1>4, <1>5
<1>7. x \in Nat
  <2> DEFINE a == val \div Byte
             b == a \div Byte
             c == b \div Byte
  <2>1. Byte \in Nat \ {0}
    BY VariablesAssumption
  <2>2. a \in Nat
    BY <2>1, Division
  <2> HIDE DEF a
  <2>3. b \in Nat
    BY <2>1, <2>2, Division
  <2> HIDE DEF b
  <2>4. c \in Nat
    BY <2>1, <2>3, Division
  <2>5. Shifted(val) = <<val, a, b, c>>
    BY DEF Shifted, a, b
  <2> HIDE DEF c
  <2>6. 1 + i = 2 \/ 1 + i = 3 \/ 1 + i = 4
    BY <1>5
  <2> QED BY <2>2, <2>3, <2>4, <2>5, <2>6
<1>8. x = 0
  <2> HIDE DEF x
  <2> QED BY <1>6, <1>7
<1>9. 0 % Byte = 0
  BY ByteType
<1> QED BY <1>8, <1>9 DEF Digit

LEMMA ParsedDigits ==
  ASSUME NEW val \in Nat, NEW most \in {1, 2, 4}
  PROVE  /\ Len(ParseHexValue(val, most)) = IF Needed(val) > most THEN most ELSE Needed(val)
         /\ \A i \in 1 .. Len(ParseHexValue(val, most)) :
              ParseHexValue(val, most)[i] = Digit(val, Len(ParseHexValue(val, most)) - i)
<1> DEFINE sz == IF Needed(val) > most THEN most ELSE Needed(val)
           b  == [i \in 1 .. sz |-> Digit(val, sz - i)]
<1>1. sz \in Nat
  BY NeededType
<1>2. ParseHexValue(val, most) = b
  BY DEF ParseHexValue
<1> HIDE DEF sz
<1>3. Len(b) = sz
  BY <1>1
<1>4. \A i \in 1 .. sz : b[i] = Digit(val, sz - i)
  OBVIOUS
<1> HIDE DEF b
<1> QED BY <1>2, <1>3, <1>4 DEF sz

LEMMA PaddedDigits ==
  ASSUME NEW val \in Nat, NEW size \in {1, 2, 4}
  PROVE  \A i \in 1 .. size : Padded(ParseHexValue(val, size), size)[i] = Digit(val, size - i)
<1> DEFINE b  == ParseHexValue(val, size)
           sz == Len(b)
           p  == [i \in 1 .. size |-> IF i > size - sz THEN b[i - (size - sz)] ELSE 0]
<1>1. /\ sz = IF Needed(val) > size THEN size ELSE Needed(val)
      /\ \A i \in 1 .. sz : b[i] = Digit(val, sz - i)
  BY ParsedDigits
<1>2. sz \in 1 .. size /\ Needed(val) \in 1 .. 4
  BY <1>1, NeededType
<1>3. Padded(b, size) = p
  BY DEF Padded
<1> HIDE DEF b, sz
<1>4. ASSUME NEW i \in 1 .. size PROVE p[i] = Digit(val, size - i)
  <2>1. CASE i > size - sz
    <3>1. i - (size - sz) \in 1 .. sz /\ sz - (i - (size - sz)) = size - i
      BY <1>2, <2>1
    <3>2. p[i] = b[i - (size - sz)]
      BY <2>1
    <3> HIDE DEF p
    <3> QED BY <1>1, <3>1, <3>2
  <2>2. CASE ~ (i > size - sz)
    <3>1. size - i \in 0 .. 3 /\ size - i >= Needed(val)
      BY <1>1, <1>2, <2>2
    <3>2. Digit(val, size - i) = 0
      BY <3>1, NeededEnough
    <3> QED BY <2>2, <3>2
  <2> QED BY <2>1, <2>2
<1> QED BY <1>3, <1>4 DEF b

\* A number in a place of its size.
LEMMA PaddedNumber ==
  ASSUME NEW val \in Nat, NEW size \in {1, 2, 4}
  PROVE  Number(Padded(ParseHexValue(val, size), size)) = val % Capacity(size)
<1> DEFINE p == Padded(ParseHexValue(val, size), size)
<1>1. Len(p) = size
  BY ParseHexType, PaddedType
<1>2. \A i \in 1 .. size : p[i] = Digit(val, size - i)
  BY PaddedDigits
<1> HIDE DEF p
<1>3. CASE size = 1
  <2>1. Number(p) = p[1] /\ p[1] = Digit(val, 0)
    BY <1>1, <1>2, <1>3 DEF Number
  <2> QED BY <1>3, <2>1, DigitsOf DEF Capacity, p
<1>4. CASE size = 2
  <2>1. Number(p) = p[1] * Byte + p[2] /\ p[1] = Digit(val, 1) /\ p[2] = Digit(val, 0)
    BY <1>1, <1>2, <1>4 DEF Number
  <2> QED BY <1>4, <2>1, DigitsOf DEF p
<1>5. CASE size = 4
  <2>1. /\ Number(p) = ((p[1] * Byte + p[2]) * Byte + p[3]) * Byte + p[4]
        /\ p[1] = Digit(val, 3) /\ p[2] = Digit(val, 2) /\ p[3] = Digit(val, 1) /\ p[4] = Digit(val, 0)
    BY <1>1, <1>2, <1>5 DEF Number
  <2> QED BY <1>5, <2>1, DigitsOf DEF p
<1> QED BY <1>3, <1>4, <1>5

LEMMA ParsedNumber ==
  ASSUME NEW val \in Nat
  PROVE  /\ Number(ParseHexValue(val, 2)) = val % Capacity(2)
         /\ ParseHexValue(val, 1) = <<0>> <=> val % Byte = 0
<1> DEFINE b == ParseHexValue(val, 2)
           c == ParseHexValue(val, 1)
<1>1. /\ Len(b) = IF Needed(val) > 2 THEN 2 ELSE Needed(val)
      /\ \A i \in 1 .. Len(b) : b[i] = Digit(val, Len(b) - i)
  BY ParsedDigits
<1>2. Needed(val) \in 1 .. 4 /\ Byte \in Nat
  BY NeededType, VariablesAssumption
<1> HIDE DEF b
<1>3. Number(b) = val % Capacity(2)
  <2>1. CASE Len(b) = 2
    <3>1. Number(b) = b[1] * Byte + b[2] /\ b[1] = Digit(val, 1) /\ b[2] = Digit(val, 0)
      BY <1>1, <2>1 DEF Number
    <3> QED BY <3>1, DigitsOf
  <2>2. CASE Len(b) = 1
    <3>1. Number(b) = b[1] /\ b[1] = Digit(val, 0)
      BY <1>1, <2>2 DEF Number
    <3>2. Digit(val, 1) = 0
      <4>1. 1 \in 0 .. 3 /\ 1 >= Needed(val)
        BY <1>1, <1>2, <2>2
      <4> QED BY <4>1, NeededEnough
    <3>3. Digit(val, 0) \in Nat
      <4>1. Digit(val, 0) \in ByteValue
        BY DigitType
      <4> QED BY <1>2, <4>1 DEF ByteValue
    <3>4. 0 * Byte + Digit(val, 0) = Digit(val, 0)
      BY <1>2, <3>3
    <3> QED BY <3>1, <3>2, <3>4, DigitsOf
  <2> QED BY <1>1, <1>2, <2>1, <2>2
<1>4. c \in Seq(ByteValue) /\ Len(c) = 1 /\ c[1] = val % Byte
  <2>1. c \in Seq(ByteValue) /\ Len(c) \in 1 .. 1
    BY ParseHexType
  <2>2. Len(c) = 1
    BY <2>1
  <2>3. \A i \in 1 .. Len(c) : c[i] = Digit(val, Len(c) - i)
    BY ParsedDigits
  <2> HIDE DEF c
  <2>4. c[1] = Digit(val, 0)
    BY <2>2, <2>3
  <2> QED BY <2>1, <2>2, <2>4, DigitsOf
<1> HIDE DEF c
<1>5. c = <<val % Byte>>
  <2> DEFINE r == val % Byte
  <2>1. c[1] = r
    BY <1>4
  <2> HIDE DEF r, ByteValue
  <2>2. c = <<r>>
    BY <1>4, <2>1
  <2> QED BY <2>2 DEF r
<1>6. c = <<0>> <=> val % Byte = 0
  <2> DEFINE r == val % Byte
  <2>1. c = <<r>>
    BY <1>5
  <2> HIDE DEF r
  <2>2. c = <<0>> <=> r = 0
    BY <2>1
  <2> QED BY <2>2 DEF r
<1> QED BY <1>3, <1>6 DEF b, c

-----------------------------------------------------------------------------
\* What the last edit did, until the target runs again.
Changes == {"setExpression", "setVariable"}

EditKept ==
  /\ edit.kind \in Changes =>
       /\ session = "launched" /\ edit.place \in Places /\ edit.val \in Nat /\ MemOK(edit.before)
       /\ mem = Set(edit.before, edit.place, edit.val)
  /\ edit.kind = "setExpression" =>
       edit.place = SetTarget(Table, edit.name, cachedPC) /\ edit.place # None
  /\ edit.kind = "writeMemory" =>
       /\ session = "launched" /\ edit.ref \in MemRefs /\ MemOK(edit.before)
       /\ edit.bytes \in Seq(ByteValue) /\ Len(edit.bytes) = 2
       /\ mem = MemWrite(edit.before, edit.ref.space, edit.ref.addr + edit.ref.offset, edit.bytes)

LEMMA EditKeptStep ==
  ASSUME Typed, EditKept, [Next]_vars
  PROVE  EditKept'
<1>1. CASE edit' = NoEdit
  BY <1>1 DEF EditKept, NoEdit, Changes
<1>2. Launches \/ TargetStops => edit' = NoEdit
  BY DEF Launches, HandleLaunchNoImage, HandleLaunchNoTarget, HandleLaunch, Loads, TargetStops
<1>3. CASE UNCHANGED <<session, symtab, mem, cachedPC, edit>>
  <2>1. Table' = Table
    BY <1>3 DEF Table
  <2>2. session' = session /\ mem' = mem /\ cachedPC' = cachedPC /\ edit' = edit
    BY <1>3
  <2> QED BY <2>1, <2>2 DEF EditKept
<1>4. Reads \/ ClientReads \/ UNCHANGED vars => UNCHANGED <<session, symtab, mem, cachedPC, edit>>
  BY DEF Reads, HandleScopes, HandleVariables, HandleEvaluate, HandleReadMemory,
         HandleDisassemble, Answer, ClientReads, vars
<1>5. MemOK(mem) /\ TableOK(Table) /\ Values \subseteq Nat
  BY TableType, RequestsAssumption DEF Typed
<1>6. ASSUME NEW name \in Names, NEW val \in Values, HandleSetExpression(name, val) PROVE EditKept'
  <2> DEFINE place == SetTarget(Table, name, cachedPC)
             what  == [kind |-> "setExpression", name |-> name, place |-> place, val |-> val,
                       before |-> mem]
  <2>1. place # None /\ Edit(what, Set(mem, place, val))
    BY <1>6 DEF HandleSetExpression
  <2>2. place \in Places
    <3>1. "locals" \in Scopes
      BY DEF Scopes
    <3> QED BY <1>5, <2>1, <3>1, TargetTypes
  <2>3. /\ session' = "launched" /\ mem' = Set(mem, place, val) /\ edit' = what
        /\ symtab' = symtab /\ cachedPC' = cachedPC
    BY <2>1 DEF Edit
  <2>4. Table' = Table
    BY <2>3 DEF Table
  <2>5. SetTarget(Table', name, cachedPC') = place
    BY <2>3, <2>4
  <2> HIDE DEF place
  <2>6. /\ what.kind = "setExpression" /\ what.name = name /\ what.place = place
        /\ what.val = val /\ what.before = mem
    OBVIOUS
  <2> HIDE DEF what
  <2> QED BY <1>5, <2>1, <2>2, <2>3, <2>5, <2>6 DEF EditKept, Changes
<1>7. ASSUME NEW scope \in Scopes, NEW name \in Names, NEW val \in Values,
             HandleSetVariable(scope, name, val)
      PROVE  EditKept'
  <2> DEFINE place == RowTarget(Table, scope, name, cachedPC)
             what  == [kind |-> "setVariable", name |-> name, place |-> place, val |-> val,
                       before |-> mem]
  <2>1. place # None /\ Edit(what, Set(mem, place, val))
    BY <1>7 DEF HandleSetVariable
  <2>2. place \in Places
    BY <1>5, <2>1, TargetTypes
  <2>3. /\ session' = "launched" /\ mem' = Set(mem, place, val) /\ edit' = what
    BY <2>1 DEF Edit
  <2> HIDE DEF place
  <2>4. /\ what.kind = "setVariable" /\ what.place = place
        /\ what.val = val /\ what.before = mem
    OBVIOUS
  <2> HIDE DEF what
  <2> QED BY <1>5, <2>1, <2>2, <2>3, <2>4 DEF EditKept, Changes
<1>8. ASSUME NEW r \in MemRefs, NEW b \in 0 .. 1, HandleWriteMemory(r, <<b, 1>>) PROVE EditKept'
  <2> DEFINE bytes == <<b, 1>>
             what  == [kind |-> "writeMemory", ref |-> r, bytes |-> bytes, before |-> mem]
  <2>1. Edit(what, MemWrite(mem, r.space, r.addr + r.offset, bytes))
    BY <1>8 DEF HandleWriteMemory, WriteMemory
  <2>2. bytes \in Seq(ByteValue) /\ Len(bytes) = 2
    <3>1. b \in ByteValue /\ 1 \in ByteValue
      BY VariablesAssumption DEF ByteValue
    <3> HIDE DEF ByteValue
    <3> QED BY <3>1
  <2>3. /\ session' = "launched" /\ edit' = what
        /\ mem' = MemWrite(mem, r.space, r.addr + r.offset, bytes)
    BY <2>1 DEF Edit
  <2> HIDE DEF bytes
  <2>4. what.kind = "writeMemory" /\ what.ref = r /\ what.bytes = bytes /\ what.before = mem
    OBVIOUS
  <2> HIDE DEF what
  <2> QED BY <1>5, <2>2, <2>3, <2>4 DEF EditKept, Changes
<1> QED BY <1>1, <1>2, <1>3, <1>4, <1>6, <1>7, <1>8 DEF Next, Edits

-----------------------------------------------------------------------------
\* Addresses of places in memory that the target has.
LEMMA FitsAddress ==
  ASSUME NEW v, Fits(v)
  PROVE  /\ PlaceOf(v) = [kind |-> "bytes", space |-> v.space, addr |-> v.addr, size |-> v.size]
         /\ v.addr % AddrMask = v.addr
<1>1. PlaceOf(v) = [kind |-> "bytes", space |-> v.space, addr |-> v.addr, size |-> v.size]
  BY DEF PlaceOf, Bytes
<1>2. v.addr % AddrMask = v.addr
  BY SmallRemainder, VariablesAssumption DEF Fits
<1> QED BY <1>1, <1>2

LEMMA OneByteAddress ==
  ASSUME NEW space \in DataSpaces, NEW addr \in DOMAIN Data[space]
  PROVE  addr \in Nat /\ addr % AddrMask = addr
<1>1. addr \in 0 .. AddrMask - 1
  BY SpacesFromZero DEF DataSpaces
<1>2. AddrMask \in Nat \ {0}
  BY VariablesAssumption
<1>3. addr \in Nat /\ addr < AddrMask
  BY <1>1, <1>2
<1>4. addr % AddrMask = addr
  BY <1>2, <1>3, SmallRemainder
<1> QED BY <1>3, <1>4

-----------------------------------------------------------------------------
\* One byte of DATA written: it reads back, and no other byte changes.
LEMMA DataAside ==
  ASSUME NEW m, MemOK(m), NEW addr \in Int, NEW bytes \in Seq(ByteValue), NEW at \in Int,
         Cells(at % AddrMask, 1) \cap Cells(addr % AddrMask, Len(bytes)) = {}
  PROVE  MemRead(MemWrite(m, "DATA", addr, bytes), "DATA", at, 1) = MemRead(m, "DATA", at, 1)
<1>1. "DATA" \in AnySpace /\ 1 \in Nat
  BY DEF DataSpaces, AnySpace
<1>2. OtherCells("DATA", at, 1, "DATA", addr, Len(bytes))
  BY DEF OtherCells
<1> HIDE DEF ByteValue
<1> QED BY <1>1, <1>2, ReadAside

LEMMA OneByte ==
  ASSUME NEW m, MemOK(m), NEW addr \in DOMAIN Data["DATA"], NEW b \in ByteValue
  PROVE  /\ MemOK(MemWrite(m, "DATA", addr, <<b>>))
         /\ ReadByte(MemWrite(m, "DATA", addr, <<b>>), "DATA", addr) = b
         /\ \A at \in DOMAIN Data["DATA"] : at # addr =>
              ReadByte(MemWrite(m, "DATA", addr, <<b>>), "DATA", at) = ReadByte(m, "DATA", at)
<1> DEFINE bytes == <<b>>
           w     == MemWrite(m, "DATA", addr, bytes)
<1>1. bytes \in Seq(ByteValue) /\ Len(bytes) = 1 /\ bytes[1] = b
  <2> HIDE DEF ByteValue
  <2> QED OBVIOUS
<1> HIDE DEF bytes
<1>2. "DATA" \in DataSpaces /\ "DATA" \in AnySpace /\ "DATA" \in DataSpaces \cup {"CODE"}
  BY DEF DataSpaces, AnySpace
<1>3. addr \in Int /\ addr % AddrMask = addr
  BY <1>2, OneByteAddress
<1>4. Cells(addr % AddrMask, Len(bytes)) \subseteq DOMAIN m["DATA"]
  <2>1. Cells(addr % AddrMask, Len(bytes)) = {addr}
    BY <1>1, <1>3 DEF Cells
  <2> QED BY <1>2, <2>1 DEF MemOK
<1>5. MemOK(w)
  BY <1>1, <1>2, <1>3, MemWriteType
<1>6. MemRead(w, "DATA", addr, Len(bytes)) = bytes
  BY <1>1, <1>2, <1>3, <1>4, ReadBack
<1> HIDE DEF w
<1>7. ReadByte(w, "DATA", addr) = b
  BY <1>1, <1>6 DEF ReadByte
<1>8. ASSUME NEW at \in DOMAIN Data["DATA"], at # addr
      PROVE  ReadByte(w, "DATA", at) = ReadByte(m, "DATA", at)
  <2>1. at \in Int /\ at % AddrMask = at
    BY <1>2, OneByteAddress
  <2>2. Cells(at % AddrMask, 1) \cap Cells(addr % AddrMask, Len(bytes)) = {}
    <3>1. Cells(at, 1) = {at} /\ Cells(addr, 1) = {addr}
      BY <1>3, <2>1 DEF Cells
    <3> QED BY <1>1, <1>3, <1>8, <2>1, <3>1
  <2>3. 1 \in Nat
    OBVIOUS
  <2>4. MemRead(w, "DATA", at, 1) = MemRead(m, "DATA", at, 1)
    <3>1. addr \in Int /\ at \in Int /\ bytes \in Seq(ByteValue)
      BY <1>1, <1>3, <2>1
    <3> QED BY <2>2, <3>1, DataAside DEF w
  <2> QED BY <2>4 DEF ReadByte
<1> QED BY <1>5, <1>7, <1>8 DEF w, bytes

\* The byte that an edit of a bit writes.
WithBit(m, place, new) ==
  ReadByte(m, "DATA", place.addr)
    + (new - BitOf(ReadByte(m, "DATA", place.addr), place.bit)) * Weight[1 + place.bit]

LEMMA BitByte ==
  ASSUME NEW m, MemOK(m), NEW place \in Places, place.kind = "bit", NEW new \in {0, 1}
  PROVE  /\ WithBit(m, place, new) \in ByteValue
         /\ BitOf(WithBit(m, place, new), place.bit) = new
         /\ OtherBitsSame(ReadByte(m, "DATA", place.addr), place.bit, WithBit(m, place, new))
<1> DEFINE byte == ReadByte(m, "DATA", place.addr)
           old  == BitOf(byte, place.bit)
           w    == Weight[1 + place.bit]
           b    == byte + (new - old) * w
<1>1. place.addr \in Nat /\ place.bit \in 0 .. 7 /\ Byte % (2 * w) = 0
  BY SpacesFromZero DEF Places
<1>2. byte \in ByteValue
  <2>1. place.addr \in Int /\ "DATA" \in DataSpaces
    BY <1>1 DEF DataSpaces
  <2> QED BY <2>1, ReadByteType
<1>3. byte \in 0 .. 255 /\ byte \in Int
  <2> HIDE DEF byte
  <2> QED BY <1>2, ByteType DEF ByteValue
<1>4. w \in Nat
  BY <1>1 DEF Weight
<1>5. b = WithBit(m, place, new)
  BY DEF WithBit
<1> HIDE DEF byte
<1> DEFINE bit == place.bit
<1>6. BitOf(b, bit) = new /\ OtherBitsSame(byte, bit, b)
  <2>1. bit \in 0 .. 7 /\ WithBitSet(byte, bit, new, b)
    BY <1>1 DEF WithBitSet
  <2> HIDE DEF b, bit
  <2> QED BY <1>3, <2>1, BitSet
<1>7. old \in {0, 1} /\ byte - old * w \in ByteValue /\ (old = 0 => byte + w \in ByteValue)
  BY <1>1, <1>2, BitRange
<1> HIDE DEF old, w, ByteValue
<1>8. b \in ByteValue
  <2>1. CASE new = old
    BY <1>2, <1>3, <1>4, <1>7, <2>1
  <2>2. CASE new = 0 /\ old = 1
    BY <1>3, <1>4, <1>7, <2>2
  <2>3. CASE new = 1 /\ old = 0
    BY <1>3, <1>4, <1>7, <2>3
  <2> QED BY <1>7, <2>1, <2>2, <2>3
<1> HIDE DEF b
<1> QED BY <1>5, <1>6, <1>8 DEF byte

BitTyped(val) == IF val % Byte = 0 THEN 0 ELSE 1

LEMMA SetBitIs ==
  ASSUME NEW m, NEW place, NEW val \in Nat
  PROVE  SetBit(m, place, val) = MemWrite(m, "DATA", place.addr, <<WithBit(m, place, BitTyped(val))>>)
<1> DEFINE new == IF ParseHexValue(val, 1) = <<0>> THEN 0 ELSE 1
<1>1. new = BitTyped(val)
  BY ParsedNumber DEF BitTyped
<1>2. SetBit(m, place, val) = MemWrite(m, "DATA", place.addr, <<WithBit(m, place, new)>>)
  BY DEF SetBit, WithBit
<1> HIDE DEF new
<1> QED BY <1>1, <1>2

\* A number of two bytes is its high byte and its low byte.
Halves(n, hi, lo) == hi = n \div Byte /\ lo = n % Byte
Joined(hi, lo)    == hi * Byte + lo

LEMMA TwoHalves ==
  ASSUME NEW n \in Nat, n < Capacity(2), NEW hi, NEW lo, Halves(n, hi, lo)
  PROVE  lo \in ByteValue /\ hi \in ByteValue /\ Joined(hi, lo) = n
<1>1. Byte \in Nat \ {0}
  BY VariablesAssumption
<1>2. hi \in Nat /\ lo \in Nat /\ lo < Byte /\ n = Byte * hi + lo
  BY <1>1 DEF Halves
<1>3. Byte * hi = hi * Byte
  BY <1>1, <1>2
<1>4. ASSUME hi >= Byte PROVE FALSE
  <2>1. Byte * Byte <= hi * Byte
    BY <1>1, <1>2, <1>4, Product
  <2>2. n < Byte * Byte
    BY DEF Capacity
  <2> DEFINE x == Byte * Byte
             y == hi * Byte
  <2>3. x <= y /\ n < x /\ n = y + lo /\ x \in Nat /\ y \in Nat
    BY <1>1, <1>2, <1>3, <2>1, <2>2
  <2> HIDE DEF x, y
  <2> QED BY <1>2, <2>3
<1>5. hi \in 0 .. Byte - 1 /\ lo \in 0 .. Byte - 1
  BY <1>1, <1>2, <1>4
<1> DEFINE y == hi * Byte
<1>6. y + lo = n
  <2>1. n = y + lo /\ y \in Nat
    BY <1>1, <1>2, <1>3
  <2> HIDE DEF y
  <2> QED BY <2>1
<1>7. lo \in ByteValue /\ hi \in ByteValue
  BY <1>5 DEF ByteValue
<1>8. Joined(hi, lo) = n
  BY <1>6 DEF Joined
<1> QED BY <1>7, <1>8

\* What an edit puts in a place, the place shows.
HasCells(m, place) ==
  place.kind = "bytes" => Cells(place.addr % AddrMask, place.size) \subseteq DOMAIN m[place.space]

LEMMA ShownBack ==
  ASSUME NEW m, MemOK(m), NEW place \in Places, NEW val \in Nat, NEW pc,
         place.kind # "pc", HasCells(m, place)
  PROVE  Shown(Set(m, place, val), place, pc) = Truncated(place, val)
<1>1. CASE place.kind = "bytes"
  <2> DEFINE size  == place.size
             bytes == Padded(ParseHexValue(val, size), size)
             w     == MemWrite(m, place.space, place.addr, bytes)
  <2>1. place.space \in AnySpace /\ place.addr \in Int /\ size \in {1, 2, 4}
    BY <1>1 DEF Places, DataSpaces, AnySpace
  <2>2. Cells(place.addr % AddrMask, size) \subseteq DOMAIN m[place.space]
    BY <1>1 DEF HasCells
  <2>3. Set(m, place, val) = w
    BY <1>1 DEF Set
  <2> HIDE DEF size
  <2>4. bytes \in Seq(ByteValue) /\ Len(bytes) = size
    BY <2>1, ParseHexType, PaddedType
  <2>5. Number(bytes) = val % Capacity(size)
    BY <2>1, PaddedNumber
  <2> HIDE DEF bytes
  <2>6. Cells(place.addr % AddrMask, Len(bytes)) \subseteq DOMAIN m[place.space]
    BY <2>2, <2>4
  <2>7. MemRead(w, place.space, place.addr, Len(bytes)) = bytes
    BY <2>1, <2>4, <2>6, ReadBack
  <2> HIDE DEF w
  <2>8. Shown(w, place, pc) = Number(MemRead(w, place.space, place.addr, size))
    BY <1>1 DEF Shown, size
  <2>9. Truncated(place, val) = val % Capacity(size)
    BY <1>1 DEF Truncated, size
  <2> QED BY <2>3, <2>4, <2>5, <2>7, <2>8, <2>9
<1>2. CASE place.kind = "bit"
  <2> DEFINE b == WithBit(m, place, BitTyped(val))
             w == MemWrite(m, "DATA", place.addr, <<b>>)
  <2>1. place.addr \in DOMAIN Data["DATA"]
    BY <1>2 DEF Places
  <2>2. BitTyped(val) \in {0, 1}
    BY DEF BitTyped
  <2>3. b \in ByteValue /\ BitOf(b, place.bit) = BitTyped(val)
    BY <1>2, <2>2, BitByte
  <2>4. Set(m, place, val) = w
    BY <1>2, SetBitIs DEF Set
  <2> HIDE DEF b
  <2>5. ReadByte(w, "DATA", place.addr) = b
    BY <2>1, <2>3, OneByte
  <2> HIDE DEF w
  <2>6. Shown(w, place, pc) = BitOf(ReadByte(w, "DATA", place.addr), place.bit)
    BY <1>2 DEF Shown
  <2>7. Truncated(place, val) = BitTyped(val)
    BY <1>2 DEF Truncated, BitTyped
  <2> QED BY <2>3, <2>4, <2>5, <2>6, <2>7
<1>3. CASE place.kind = "dptr"
  <2> DEFINE n  == val % Capacity(2)
             lo == n % Byte
             hi == n \div Byte
             w1 == MemWrite(m, "DATA", DPL, <<lo>>)
             w2 == MemWrite(w1, "DATA", DPH, <<hi>>)
  <2>1. n \in Nat /\ n < Capacity(2)
    <3>1. Capacity(2) \in Nat \ {0}
      <4>1. Byte \in Nat \ {0}
        BY ByteType
      <4>2. Byte * Byte \in Nat \ {0}
        BY <4>1
      <4> QED BY <4>2 DEF Capacity
    <3> QED BY <3>1
  <2>2. Number(ParseHexValue(val, 2)) = n
    BY ParsedNumber
  <2>3. Set(m, place, val) = w2
    BY <1>3, <2>2 DEF Set, SetDptr
  <2> HIDE DEF n
  <2>10. Halves(n, hi, lo)
    BY DEF Halves
  <2> HIDE DEF lo, hi
  <2>4. lo \in ByteValue /\ hi \in ByteValue /\ Joined(hi, lo) = n
    BY <2>1, <2>10, TwoHalves
  <2>5. DPL \in DOMAIN Data["DATA"] /\ DPH \in DOMAIN Data["DATA"] /\ DPL # DPH
    BY TargetAssumption
  <2>6. MemOK(w1) /\ ReadByte(w1, "DATA", DPL) = lo
    BY <2>4, <2>5, OneByte
  <2> HIDE DEF w1
  <2>7. ReadByte(w2, "DATA", DPH) = hi /\ ReadByte(w2, "DATA", DPL) = lo
    BY <2>4, <2>5, <2>6, OneByte
  <2> HIDE DEF w2
  <2>8. Shown(w2, place, pc) = ReadByte(w2, "DATA", DPH) * Byte + ReadByte(w2, "DATA", DPL)
    BY <1>3 DEF Shown
  <2>9. Truncated(place, val) = n
    BY <1>3 DEF Truncated, n
  <2> QED BY <2>3, <2>4, <2>7, <2>8, <2>9 DEF Joined
<1> QED BY <1>1, <1>2, <1>3 DEF Places

-----------------------------------------------------------------------------
\* An edit of a variable leaves a variable alone that is separate from it.
Near(v, w) == v.space = w.space /\ {v.addr - w.addr, w.addr - v.addr} \cap {0, 3} # {}

LEMMA Aside ==
  ASSUME NEW v, NEW w, Fits(v), Fits(w), Separate(v, w), ~ Near(v, w)
  PROVE  w.space # v.space \/ Cells(w.addr, w.size) \cap Cells(v.addr, v.size) = {}
<1>1. CASE v.space # w.space
  BY <1>1
<1>2. CASE v.space = w.space
  <2> DEFINE a == v.addr
             b == w.addr
             k == v.size
             l == w.size
  <2>1. a \in Nat /\ b \in Nat /\ k \in Nat /\ l \in Nat
    BY DEF Fits
  <2>2. a - b # 0 /\ a - b # 3 /\ b - a # 3
    BY <1>2 DEF Near
  <2>3. a # b
    BY <2>1, <2>2
  <2>4. a + k <= b \/ b + l <= a
    BY <1>2, <2>2, <2>3 DEF Separate
  <2> HIDE DEF a, b, k, l
  <2>5. Cells(b, l) \cap Cells(a, k) = {}
    BY <2>1, <2>4 DEF Cells
  <2> QED BY <2>5 DEF a, b, k, l
<1> QED BY <1>1, <1>2

LEMMA VariableAside ==
  ASSUME NEW m, MemOK(m), NEW v, NEW w, Fits(v), Fits(w), NEW val \in Nat, NEW pc,
         Separate(v, w), ~ Near(v, w)
  PROVE  Shown(Set(m, PlaceOf(v), val), PlaceOf(w), pc) = Shown(m, PlaceOf(w), pc)
<1> DEFINE size  == v.size
           bytes == Padded(ParseHexValue(val, size), size)
           x     == MemWrite(m, v.space, v.addr, bytes)
<1>1. /\ v.space \in AnySpace /\ w.space \in AnySpace /\ v.addr \in Int /\ w.addr \in Int
      /\ size \in {1, 2, 4} /\ w.size \in Nat
  BY DEF Fits, DataSpaces, AnySpace
<1>2. v.addr % AddrMask = v.addr /\ w.addr % AddrMask = w.addr
  BY FitsAddress
<1>3. bytes \in Seq(ByteValue) /\ Len(bytes) = size
  <2> HIDE DEF size
  <2> QED BY <1>1, ParseHexType, PaddedType
<1>4. Set(m, PlaceOf(v), val) = x
  BY FitsAddress DEF Set
<1> HIDE DEF bytes
<1>5. OtherCells(w.space, w.addr, w.size, v.space, v.addr, Len(bytes))
  BY <1>2, <1>3, Aside DEF OtherCells
<1>6. MemRead(x, w.space, w.addr, w.size) = MemRead(m, w.space, w.addr, w.size)
  <2> HIDE DEF ByteValue
  <2> QED BY <1>1, <1>3, <1>5, ReadAside
<1> HIDE DEF x
<1>7. /\ PlaceOf(w).kind = "bytes" /\ PlaceOf(w).space = w.space
      /\ PlaceOf(w).addr = w.addr /\ PlaceOf(w).size = w.size
  BY FitsAddress
<1>8. \A y : Shown(y, PlaceOf(w), pc) = Number(MemRead(y, w.space, w.addr, w.size))
  BY <1>7 DEF Shown
<1> QED BY <1>4, <1>6, <1>8

\* An edit of a bit leaves the other bits alone.
BitPlace(addr, bit) == [kind |-> "bit", addr |-> addr, bit |-> bit]

LEMMA BitAside ==
  ASSUME NEW m, MemOK(m), NEW place \in Places, place.kind = "bit", NEW val \in Nat, NEW pc,
         NEW addr \in DOMAIN Data["DATA"], NEW bit \in 0 .. 7,
         BitPlace(addr, bit) # place
  PROVE  Shown(Set(m, place, val), BitPlace(addr, bit), pc) = Shown(m, BitPlace(addr, bit), pc)
<1> DEFINE other == BitPlace(addr, bit)
           b     == WithBit(m, place, BitTyped(val))
           w     == MemWrite(m, "DATA", place.addr, <<b>>)
<1>1. place.addr \in DOMAIN Data["DATA"] /\ place = BitPlace(place.addr, place.bit)
  BY DEF Places, BitPlace
<1>2. BitTyped(val) \in {0, 1}
  BY DEF BitTyped
<1>3. b \in ByteValue /\ OtherBitsSame(ReadByte(m, "DATA", place.addr), place.bit, b)
  BY <1>2, BitByte
<1>4. Set(m, place, val) = w
  BY SetBitIs DEF Set
<1> HIDE DEF b
<1>5. /\ ReadByte(w, "DATA", place.addr) = b
      /\ addr # place.addr => ReadByte(w, "DATA", addr) = ReadByte(m, "DATA", addr)
  BY <1>1, <1>3, OneByte
<1> HIDE DEF w
<1>6. other.kind = "bit" /\ other.addr = addr /\ other.bit = bit
  BY DEF BitPlace
<1>7. \A y : Shown(y, other, pc) = BitOf(ReadByte(y, "DATA", addr), bit)
  BY <1>6 DEF Shown
<1>8. CASE addr # place.addr
  BY <1>4, <1>5, <1>7, <1>8
<1>9. CASE addr = place.addr
  <2>1. bit # place.bit
    BY <1>1, <1>9
  <2>2. BitOf(b, bit) = BitOf(ReadByte(m, "DATA", place.addr), bit)
    BY <1>3, <2>1 DEF OtherBitsSame
  <2> QED BY <1>4, <1>5, <1>7, <1>9, <2>2
<1> QED BY <1>8, <1>9

\* The two together.
LEMMA EditsInside ==
  ASSUME Typed, ReplyKept, EditKept
  PROVE  EditStaysInside
<1> SUFFICES ASSUME edit.kind \in Changes, reply = NoReply
             PROVE  /\ \A vs \in {Range(LookupLocals(Table, cachedPC)), Range(Table.globals)} :
                         \A v, w \in vs :
                           PlaceOf(v) = edit.place /\ PlaceOf(w) # edit.place /\ ~ Near(v, w) =>
                             Shown(mem, PlaceOf(w), cachedPC) = Shown(edit.before, PlaceOf(w), cachedPC)
                    /\ edit.place.kind = "bit" =>
                         \A b \in Range(Table.bits) :
                           BitPlace(b.addr, b.bit) # edit.place =>
                             Shown(mem, BitPlace(b.addr, b.bit), cachedPC)
                               = Shown(edit.before, BitPlace(b.addr, b.bit), cachedPC)
  BY DEF EditStaysInside, Changes, Near, BitPlace
<1>1. /\ session = "launched" /\ edit.place \in Places /\ edit.val \in Nat /\ MemOK(edit.before)
      /\ mem = Set(edit.before, edit.place, edit.val)
  BY DEF EditKept
<1>2. symtab \in DOMAIN MapFiles /\ cachedPC \in Nat /\ TableOK(Table)
  BY <1>1, TableType DEF ReplyKept, Typed
<1>3. /\ \A v \in Range(LookupLocals(Table, cachedPC)) : Fits(v)
      /\ \A v, w \in Range(LookupLocals(Table, cachedPC)) : Separate(v, w)
  BY <1>2, LocalsFit
<1>4. /\ \A v \in Range(Table.globals) : Fits(v)
      /\ \A v, w \in Range(Table.globals) : Separate(v, w)
  BY <1>2, GlobalsFit
<1>5. ASSUME NEW vs \in {Range(LookupLocals(Table, cachedPC)), Range(Table.globals)},
             NEW v \in vs, NEW w \in vs,
             PlaceOf(v) = edit.place, PlaceOf(w) # edit.place, ~ Near(v, w)
      PROVE  Shown(mem, PlaceOf(w), cachedPC) = Shown(edit.before, PlaceOf(w), cachedPC)
  <2>1. Fits(v) /\ Fits(w) /\ Separate(v, w)
    BY <1>3, <1>4, <1>5
  <2> QED BY <1>1, <1>5, <2>1, VariableAside
<1>6. ASSUME edit.place.kind = "bit", NEW b \in Range(Table.bits),
             BitPlace(b.addr, b.bit) # edit.place
      PROVE  Shown(mem, BitPlace(b.addr, b.bit), cachedPC)
               = Shown(edit.before, BitPlace(b.addr, b.bit), cachedPC)
  <2>1. b \in BitRecord
    BY <1>2 DEF TableOK, Range
  <2>2. b.addr \in DOMAIN Data["DATA"] /\ b.bit \in 0 .. 7
    BY <2>1 DEF BitRecord
  <2> QED BY <1>1, <1>6, <2>2, BitAside
<1> QED BY <1>5, <1>6

\* Whatever the map file, and whatever is edited, an edit of a variable changes no
\* other variable of its list, and an edit of a bit no other bit (ParseM51,
\* HandleSetVariable, HandleSetExpression).
THEOREM EditsStayInside == Spec => []EditStaysInside
<1>1. Init => ReplyKept /\ Typed /\ EditKept
  <2>1. Init => ReplyKept /\ EditKept
    BY DEF Init, NoReply, ReplyKept, NoEdit, EditKept, Changes
  <2> QED BY <2>1, TypedInit
<1>2. ReplyKept /\ Typed /\ EditKept /\ [Next]_vars => (ReplyKept /\ Typed /\ EditKept)'
  BY ReplyStep, TypedStep, EditKeptStep
<1>3. ReplyKept /\ Typed /\ EditKept => EditStaysInside
  BY EditsInside
<1> QED BY <1>1, <1>2, <1>3, PTL DEF Spec

-----------------------------------------------------------------------------
\* What the edited place shows, if the target has the memory.
LEMMA PresentCells ==
  ASSUME NEW m, MemOK(m), NEW place \in Places, NEW val \in Nat,
         mem = Set(m, place, val), Present(place)
  PROVE  HasCells(m, place)
<1> SUFFICES ASSUME place.kind = "bytes" PROVE HasCells(m, place)
  BY DEF HasCells
<1> DEFINE size  == place.size
           space == place.space
           addr  == place.addr
           bytes == Padded(ParseHexValue(val, size), size)
           base  == addr % AddrMask
<1>1. space \in AnySpace /\ addr \in Int /\ size \in {1, 2, 4}
  BY DEF Places, DataSpaces, AnySpace
<1>2. bytes \in Seq(ByteValue)
  <2> HIDE DEF size
  <2> QED BY <1>1, ParseHexType, PaddedType
<1>3. mem = MemWrite(m, space, addr, bytes)
  BY DEF Set
<1>4. \A i \in 1 .. size : base + i - 1 \in DOMAIN mem[space]
  BY DEF Present, At
<1>5. base = addr % AddrMask
  OBVIOUS
<1> HIDE DEF bytes, size, space, addr, base
<1>6. DOMAIN mem[space] = DOMAIN m[space] /\ base \in Nat
  BY <1>1, <1>2, <1>3, <1>5, Written
<1>7. \A a \in Cells(base, size) : a - base + 1 \in 1 .. size /\ base + (a - base + 1) - 1 = a
  BY <1>1, <1>6 DEF Cells
<1>8. Cells(base, size) \subseteq DOMAIN m[space]
  BY <1>4, <1>6, <1>7
<1> QED BY <1>8 DEF HasCells, base, addr, size, space

LEMMA EditShown ==
  ASSUME EditKept, edit.kind \in Changes, edit.place.kind # "pc", Present(edit.place), NEW pc
  PROVE  Shown(mem, edit.place, pc) = Truncated(edit.place, edit.val)
<1>1. /\ edit.place \in Places /\ edit.val \in Nat /\ MemOK(edit.before)
      /\ mem = Set(edit.before, edit.place, edit.val)
  BY DEF EditKept
<1>2. HasCells(edit.before, edit.place)
  BY <1>1, PresentCells
<1>3. Shown(Set(edit.before, edit.place, edit.val), edit.place, pc) = Truncated(edit.place, edit.val)
  BY <1>1, <1>2, ShownBack
<1> QED BY <1>1, <1>3

\* A memory with one space as the rows of its scope show it.
Page(m, space) == [m EXCEPT ![space] = [a \in 0 .. PageSize - 1 |-> PageRows(m, space)[1 + a].value]]

LEMMA PageByte ==
  ASSUME NEW m, NEW space, NEW a \in 0 .. PageSize - 1
  PROVE  PageRows(m, space)[1 + a].value = IF a \in DOMAIN m[space] THEN m[space][a] ELSE 0
<1> DEFINE i == 1 + a
           read == MemRead(m, space, 0, PageSize)
<1>1. PageSize \in Nat /\ AddrMask \in Nat \ {0}
  BY VariablesAssumption
<1>2. i \in 1 .. PageSize /\ 0 \in Nat /\ a \in Nat
  BY <1>1
<1>3. PageRows(m, space)[i] = [name |-> i - 1, value |-> read[i]]
  BY <1>2 DEF PageRows
<1>4. 0 = 0 % AddrMask
  BY <1>1, SmallRemainder
<1>5. read = [j \in 1 .. PageSize |-> IF 0 + j - 1 \in DOMAIN m[space] THEN m[space][0 + j - 1] ELSE 0]
  BY <1>1, <1>2, <1>4, ReadCells
<1> HIDE DEF read
<1>6. 0 + i - 1 = a
  BY <1>2
<1>7. read[i] = IF a \in DOMAIN m[space] THEN m[space][a] ELSE 0
  BY <1>2, <1>5, <1>6
<1> QED BY <1>3, <1>7

\* It reads as the memory does.
LEMMA PageRead ==
  ASSUME NEW m, MemOK(m), NEW space \in AnySpace, NEW addr \in Int, NEW n \in Nat,
         NEW base, base = addr % AddrMask, base + n <= PageSize
  PROVE  MemRead(Page(m, space), space, addr, n) = MemRead(m, space, addr, n)
<1> DEFINE p == Page(m, space)
<1>1. base \in Nat /\ PageSize \in Nat
  BY VariablesAssumption
<1>2. p[space] = [a \in 0 .. PageSize - 1 |-> PageRows(m, space)[1 + a].value]
  BY DEF Page, MemOK, AnySpace, DataSpaces
<1> HIDE DEF p
<1>3. ASSUME NEW i \in 1 .. n
      PROVE  (IF base + i - 1 \in DOMAIN p[space] THEN p[space][base + i - 1] ELSE 0)
               = IF base + i - 1 \in DOMAIN m[space] THEN m[space][base + i - 1] ELSE 0
  <2> DEFINE a == base + i - 1
  <2>1. a \in 0 .. PageSize - 1
    BY <1>1
  <2> HIDE DEF a
  <2>2. a \in DOMAIN p[space] /\ p[space][a] = PageRows(m, space)[1 + a].value
    BY <1>2, <2>1
  <2>3. p[space][a] = IF a \in DOMAIN m[space] THEN m[space][a] ELSE 0
    BY <2>1, <2>2, PageByte
  <2> QED BY <2>2, <2>3 DEF a
<1>4. /\ MemRead(p, space, addr, n)
           = [i \in 1 .. n |-> IF base + i - 1 \in DOMAIN p[space] THEN p[space][base + i - 1] ELSE 0]
      /\ MemRead(m, space, addr, n)
           = [i \in 1 .. n |-> IF base + i - 1 \in DOMAIN m[space] THEN m[space][base + i - 1] ELSE 0]
  BY <1>1, ReadCells
<1>5. MemRead(p, space, addr, n) = MemRead(m, space, addr, n)
  BY <1>3, <1>4
<1> QED BY <1>5 DEF p

LEMMA PageOfByte ==
  ASSUME NEW m, MemOK(m), NEW addr \in DOMAIN Data["DATA"], addr < PageSize
  PROVE  ReadByte(Page(m, "DATA"), "DATA", addr) = ReadByte(m, "DATA", addr)
<1>1. "DATA" \in AnySpace /\ "DATA" \in DataSpaces
  BY DEF AnySpace, DataSpaces
<1>2. addr \in Nat /\ addr % AddrMask = addr
  BY <1>1, OneByteAddress
<1>3. addr \in Int /\ 1 \in Nat /\ addr = addr % AddrMask
  BY <1>2
<1>4. addr + 1 <= PageSize
  BY <1>2, VariablesAssumption
<1>5. MemRead(Page(m, "DATA"), "DATA", addr, 1) = MemRead(m, "DATA", addr, 1)
  BY <1>1, <1>3, <1>4, PageRead
<1> QED BY <1>5 DEF ReadByte

LEMMA ShownOnPage ==
  ASSUME NEW m, MemOK(m), NEW place \in Places, OnPage(place), reply.scope \in Memories, NEW pc
  PROVE  Shown(Page(m, reply.scope), place, pc) = Shown(m, place, pc)
<1> DEFINE p == Page(m, reply.scope)
<1>1. CASE place.kind = "bytes"
  <2> DEFINE space == place.space
             addr  == place.addr
             size  == place.size
             base  == addr % AddrMask
  <2>1. space = reply.scope /\ base + size <= PageSize
    BY <1>1 DEF OnPage
  <2>2. space \in AnySpace /\ addr \in Int /\ size \in Nat /\ base = addr % AddrMask
    BY <1>1 DEF Places, AnySpace, DataSpaces
  <2>3. \A y : Shown(y, place, pc) = Number(MemRead(y, space, addr, size))
    BY <1>1 DEF Shown
  <2> HIDE DEF space, addr, size, base
  <2>4. MemRead(Page(m, space), space, addr, size) = MemRead(m, space, addr, size)
    BY <2>1, <2>2, PageRead
  <2> QED BY <2>1, <2>3, <2>4
<1>2. CASE place.kind = "bit"
  <2>1. reply.scope = "DATA" /\ place.addr < PageSize /\ place.addr \in DOMAIN Data["DATA"]
    BY <1>2 DEF OnPage, Places
  <2>2. \A y : Shown(y, place, pc) = BitOf(ReadByte(y, "DATA", place.addr), place.bit)
    BY <1>2 DEF Shown
  <2>3. ReadByte(Page(m, "DATA"), "DATA", place.addr) = ReadByte(m, "DATA", place.addr)
    BY <2>1, PageOfByte
  <2> QED BY <2>1, <2>2, <2>3
<1>3. CASE place.kind = "dptr"
  <2>1. reply.scope = "DATA" /\ DPL < PageSize /\ DPH < PageSize
    BY <1>3 DEF OnPage
  <2>2. DPL \in DOMAIN Data["DATA"] /\ DPH \in DOMAIN Data["DATA"]
    BY TargetAssumption
  <2>3. \A y : Shown(y, place, pc) = ReadByte(y, "DATA", DPH) * Byte + ReadByte(y, "DATA", DPL)
    BY <1>3 DEF Shown
  <2>4. /\ ReadByte(Page(m, "DATA"), "DATA", DPH) = ReadByte(m, "DATA", DPH)
        /\ ReadByte(Page(m, "DATA"), "DATA", DPL) = ReadByte(m, "DATA", DPL)
    BY <2>1, <2>2, PageOfByte
  <2> QED BY <2>1, <2>3, <2>4
<1>4. place.kind # "pc"
  BY DEF OnPage
<1> QED BY <1>1, <1>2, <1>3, <1>4 DEF Places

\* What the rows of a scope say.
LEMMA RowsKept ==
  ASSUME ReplyKept, reply.kind = "variables"
  PROVE  /\ reply.scope = "locals" => reply.rows = LocalRows(Table, mem, cachedPC)
         /\ reply.scope \in Memories =>
              /\ reply.rows = PageRows(mem, reply.scope)
              /\ Paged = Page(mem, reply.scope)
<1>1. reply.rows = Rows(reply.scope, Table, mem, cachedPC, registers)
  BY DEF ReplyKept
<1>2. reply.scope = "locals" => reply.rows = LocalRows(Table, mem, cachedPC)
  BY <1>1 DEF Rows
<1>3. reply.scope \in Memories => reply.rows = PageRows(mem, reply.scope)
  BY <1>1 DEF Rows, Memories
<1> QED BY <1>2, <1>3 DEF Paged, Page

LEMMA EditsReadBack ==
  ASSUME Typed, ReplyKept, WatchKept, EditKept
  PROVE  EditReadsBack
<1>1. ASSUME edit.kind \in Changes, edit.place.kind # "pc", Present(edit.place)
      PROVE  LET value == Truncated(edit.place, edit.val)
             IN  /\ reply.kind = "evaluate" /\ Evaluated(Table, reply.name, cachedPC) = edit.place =>
                      reply.value = value
                 /\ reply.kind = "variables" /\ reply.scope = "locals" =>
                      \A i \in DOMAIN reply.rows :
                        PlaceOf(LookupLocals(Table, cachedPC)[i]) = edit.place =>
                          reply.rows[i].value = value
                 /\ reply.kind = "variables" /\ reply.scope \in Memories /\ OnPage(edit.place) =>
                      Shown(Paged, edit.place, cachedPC) = value
  <2> DEFINE value == Truncated(edit.place, edit.val)
  <2>1. Shown(mem, edit.place, cachedPC) = value /\ edit.place \in Places
    BY <1>1, EditShown DEF EditKept
  <2>2. edit.place # None
    BY <2>1 DEF Places, None
  <2> HIDE DEF value
  <2>3. ASSUME reply.kind = "evaluate", Evaluated(Table, reply.name, cachedPC) = edit.place
        PROVE  reply.value = value
    BY <2>1, <2>2, <2>3 DEF WatchKept
  <2>4. ASSUME reply.kind = "variables", reply.scope = "locals", NEW i \in DOMAIN reply.rows,
               PlaceOf(LookupLocals(Table, cachedPC)[i]) = edit.place
        PROVE  reply.rows[i].value = value
    <3> DEFINE vs == LookupLocals(Table, cachedPC)
    <3>1. reply.rows = [j \in DOMAIN vs |->
                          [name |-> vs[j].name, value |-> Shown(mem, PlaceOf(vs[j]), cachedPC)]]
      BY <2>4, RowsKept DEF LocalRows
    <3>2. PlaceOf(vs[i]) = edit.place
      BY <2>4
    <3> HIDE DEF vs
    <3>3. i \in DOMAIN vs
      BY <2>4, <3>1
    <3>4. reply.rows[i] = [name |-> vs[i].name, value |-> Shown(mem, PlaceOf(vs[i]), cachedPC)]
      BY <3>1, <3>3
    <3> QED BY <2>1, <3>2, <3>4
  <2>5. ASSUME reply.kind = "variables", reply.scope \in Memories, OnPage(edit.place)
        PROVE  Shown(Paged, edit.place, cachedPC) = value
    <3>1. Paged = Page(mem, reply.scope) /\ MemOK(mem)
      BY <2>5, RowsKept DEF Typed
    <3>2. Shown(Page(mem, reply.scope), edit.place, cachedPC) = Shown(mem, edit.place, cachedPC)
      BY <2>1, <2>5, <3>1, ShownOnPage
    <3> QED BY <2>1, <3>1, <3>2
  <2> QED BY <2>3, <2>4, <2>5 DEF value
<1>2. ASSUME edit.kind = "writeMemory",
             Present(Bytes(edit.ref.space, edit.ref.addr + edit.ref.offset, Len(edit.bytes)))
      PROVE  /\ reply.kind = "readMemory" /\ reply.ref = edit.ref => reply.bytes = edit.bytes
             /\ reply.kind = "variables" /\ reply.scope = edit.ref.space =>
                  \A i \in DOMAIN edit.bytes :
                    LET a == At(edit.ref.addr + edit.ref.offset, i)
                    IN  a < PageSize => reply.rows[1 + a].value = edit.bytes[i]
  <2> DEFINE r     == edit.ref
             addr  == r.addr + r.offset
             bytes == edit.bytes
             m     == edit.before
             base  == addr % AddrMask
             sp    == r.space
  <2>1. /\ r \in MemRefs /\ MemOK(m) /\ bytes \in Seq(ByteValue) /\ Len(bytes) = 2
        /\ mem = MemWrite(m, sp, addr, bytes)
    BY <1>2 DEF EditKept
  <2>2. sp \in AnySpace /\ sp \in Memories /\ addr \in Int
    BY <2>1, RequestsAssumption DEF DataSpaces, AnySpace, Memories
  <2>3. \A i \in 1 .. 2 : At(addr, i) \in DOMAIN mem[sp]
    BY <1>2, <2>1 DEF Present, Bytes
  <2>4. base = addr % AddrMask
    OBVIOUS
  <2>5. reply.kind = "readMemory" /\ reply.ref = r => reply.bytes = MemRead(mem, sp, addr, 2)
    BY DEF ReplyKept, ReadMemory
  <2> HIDE DEF base, addr, m, bytes, sp
  <2>6. DOMAIN mem[sp] = DOMAIN m[sp] /\ base \in Nat
    BY <2>1, <2>2, <2>4, Written
  <2>7. base + 1 - 1 \in DOMAIN m[sp] /\ base + 2 - 1 \in DOMAIN m[sp]
    BY <2>3, <2>4, <2>6 DEF At
  <2>8. Cells(addr % AddrMask, Len(bytes)) \subseteq DOMAIN m[sp]
    <3>1. Cells(base, 2) = {base, base + 1}
      BY <2>6 DEF Cells
    <3>2. base + 1 - 1 = base /\ base + 2 - 1 = base + 1
      BY <2>6
    <3> QED BY <2>1, <2>4, <2>7, <3>1, <3>2
  <2>9. MemRead(mem, sp, addr, Len(bytes)) = bytes
    BY <2>1, <2>2, <2>8, ReadBack
  <2>10. ASSUME reply.kind = "variables", reply.scope = sp, NEW i \in DOMAIN bytes,
                At(addr, i) < PageSize
         PROVE  reply.rows[1 + At(addr, i)].value = bytes[i]
    <3> DEFINE a == At(addr, i)
    <3>1. i \in 1 .. 2 /\ i \in Nat
      BY <2>1
    <3>2. a = base + i - 1
      BY <2>4 DEF At
    <3>3. a \in DOMAIN mem[sp]
      BY <2>3, <3>1
    <3> HIDE DEF a
    <3>4. a \in 0 .. PageSize - 1
      <4>1. a < PageSize
        BY <2>10 DEF a
      <4> QED BY <2>6, <3>1, <3>2, <4>1, VariablesAssumption
    <3>5. reply.rows = PageRows(mem, sp)
      BY <2>2, <2>10, RowsKept
    <3>6. reply.rows[1 + a].value = mem[sp][a]
      BY <3>3, <3>4, <3>5, PageByte
    <3>7. bytes[i] = mem[sp][a]
      <4>1. 2 \in Nat /\ base \in Nat
        BY <2>6
      <4>2. MemRead(mem, sp, addr, 2)
              = [j \in 1 .. 2 |-> IF base + j - 1 \in DOMAIN mem[sp] THEN mem[sp][base + j - 1] ELSE 0]
        BY <2>4, <4>1 DEF MemRead, At
      <4> QED BY <2>1, <2>9, <3>1, <3>2, <3>3, <4>2
    <3> QED BY <3>6, <3>7 DEF a
  <2> QED BY <2>1, <2>5, <2>9, <2>10 DEF addr, bytes, sp
<1> QED BY <1>1, <1>2 DEF EditReadsBack, Changes

\* What the client typed is what it sees, whatever the program and its symbols: an
\* edit of a variable of one, two or four bytes, of a bit, of DPTR, of a register
\* or of a byte of memory reads back as the number typed, cut to the size of the
\* place, in every watch that stands for the place, in the Locals scope and in the
\* scope of its memory (ParseHexValue, HandleSetExpression, HandleSetVariable,
\* HandleWriteMemory, HandleEvaluate, HandleVariables).  The rows of the Registers
\* scope are no part of this: they are those of the last halt.
THEOREM EditsAreSeen == Spec => []EditReadsBack
<1>1. Init => ReplyKept /\ Typed /\ EditKept /\ WatchKept
  <2>1. Init => ReplyKept /\ EditKept /\ WatchKept
    BY DEF Init, NoReply, ReplyKept, NoEdit, EditKept, Changes, WatchKept
  <2> QED BY <2>1, TypedInit
<1>2. ReplyKept /\ Typed /\ EditKept /\ WatchKept /\ [Next]_vars
        => (ReplyKept /\ Typed /\ EditKept /\ WatchKept)'
  BY ReplyStep, TypedStep, EditKeptStep, WatchStep
<1>3. ReplyKept /\ Typed /\ EditKept /\ WatchKept => EditReadsBack
  BY EditsReadBack
<1> QED BY <1>1, <1>2, <1>3, PTL DEF Spec
=============================================================================
