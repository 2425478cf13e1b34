------------------------ MODULE BpRefinement_proofs ------------------------
(***************************************************************************)
(* For every pool size, limit, set of files and set of requests: every     *)
(* step of the breakpoint manager is a step BreakpointSet allows, or none. *)
(* The part of KeepsPromise that says what may happen; that every request  *)
(* ends rests on fairness and is left to model checking.                   *)
(* Then what RebuildDllBreakpoints arms: what was asked for first, files   *)
(* before instructions, and step-outs leave it alone.                      *)
(***************************************************************************)
EXTENDS BpRefinement, BpManager_proofs

-----------------------------------------------------------------------------
\* Facts about sequences and their elements.

\* Removing an element from a sequence loses no other.
LEMMA RemoveFirstKeeps ==
  ASSUME NEW S, NEW s \in Seq(S), NEW e, NEW g \in ToSet(s), g # e
  PROVE  g \in ToSet(RemoveFirst(s, e))
<1> DEFINE I == {i \in 1 .. Len(s) : s[i] = e}
<1>1. CASE I = {}
  BY <1>1 DEF RemoveFirst
<1>2. CASE I # {}
  <2>1. I \in SUBSET Nat
    OBVIOUS
  <2>2. Min(I) \in I
    <3> HIDE DEF I
    <3> QED BY <1>2, <2>1, MinNat
  <2>3. SelectInSeq(s, LAMBDA v : v = e) = Min(I)
    BY <1>2 DEF SelectInSeq
  <2>4. PICK k \in 1 .. Len(s) : s[k] = e /\ RemoveFirst(s, e) = RemoveAt(s, k)
    BY <1>2, <2>2, <2>3 DEF RemoveFirst
  <2> DEFINE front == SubSeq(s, 1, k - 1)
             back  == SubSeq(s, k + 1, Len(s))
  <2>5. /\ front \in Seq(S)
        /\ Len(front) = k - 1
        /\ \A i \in 1 .. k - 1 : front[i] = s[i]
    BY SubSeqProperties
  <2>6. /\ back \in Seq(S)
        /\ Len(back) = Len(s) - k
        /\ \A i \in 1 .. Len(s) - k : back[i] = s[k + i]
    BY SubSeqProperties
  <2>7. RemoveFirst(s, e) = front \o back
    BY <2>4 DEF RemoveAt
  <2> HIDE DEF front, back
  <2>8. /\ front \o back \in Seq(S)
        /\ Len(front \o back) = Len(front) + Len(back)
        /\ \A i \in 1 .. Len(front) + Len(back) :
             (front \o back)[i] = IF i <= Len(front) THEN front[i] ELSE back[i - Len(front)]
    BY <2>5, <2>6, ConcatProperties
  <2>9. PICK i \in 1 .. Len(s) : g = s[i]
    BY DEF ToSet
  <2> DEFINE j == IF i < k THEN i ELSE i - 1
  <2>10. i # k
    BY <2>4, <2>9
  <2>11. j \in 1 .. Len(s) - 1 /\ (front \o back)[j] = s[i]
    <3>0. Len(s) \in Nat /\ Len(front) + Len(back) = Len(s) - 1
      BY <2>5, <2>6
    <3>1. CASE i < k
      <4>1. j = i /\ i \in 1 .. Len(s) - 1 /\ i \in 1 .. k - 1 /\ i <= Len(front)
        BY <2>5, <3>0, <3>1
      <4> HIDE DEF j
      <4> QED BY <2>5, <2>8, <3>0, <4>1
    <3>2. CASE i > k
      <4>1. /\ j = i - 1
            /\ i - 1 \in 1 .. Len(s) - 1
            /\ ~ (i - 1 <= Len(front))
            /\ (i - 1) - Len(front) = i - k
            /\ i - k \in 1 .. Len(s) - k
            /\ k + (i - k) = i
        BY <2>5, <3>0, <3>2
      <4> HIDE DEF j
      <4>2. (front \o back)[j] = back[i - k]
        BY <2>8, <3>0, <4>1
      <4> QED BY <2>6, <4>1, <4>2
    <3>3. i < k \/ i > k
      BY <2>10
    <3> HIDE DEF j
    <3> QED BY <3>1, <3>2, <3>3
  <2> HIDE DEF j
  <2>12. j \in DOMAIN (front \o back)
    <3>1. DOMAIN (front \o back) = 1 .. Len(front \o back)
      BY <2>8
    <3>2. Len(front \o back) = Len(s) - 1
      BY <2>5, <2>6, <2>8
    <3> QED BY <2>11, <3>1, <3>2
  <2> QED BY <2>7, <2>9, <2>11, <2>12 DEF ToSet
<1> QED BY <1>1, <1>2

\* An order of a finite set names all its members.
LEMMA OrderCovers ==
  ASSUME NEW S, IsFiniteSet(S), NEW s \in SetToSeqs(S)
  PROVE  ToSet(s) = S
<1> DEFINE D == 1 .. Cardinality(S)
<1>1. Cardinality(S) \in Nat
  BY FS_CardinalityType
<1>2. s \in [D -> S] /\ \A i, j \in D : i # j => s[i] # s[j]
  BY DEF SetToSeqs
<1>3. Cardinality(D) = Cardinality(S)
  BY <1>1, FS_Interval
<1>4. s \in Injection(D, S)
  BY <1>2 DEF Injection, IsInjective
<1> HIDE DEF D
<1>5. s \in Surjection(D, S)
  BY <1>3, <1>4, FS_Injection
<1> QED BY <1>2, <1>5 DEF Surjection, ToSet

\* A sequence without duplicates has as many elements as places.
LEMMA DistinctCount ==
  ASSUME NEW S, NEW s \in Seq(S), \A i, j \in DOMAIN s : i # j => s[i] # s[j]
  PROVE  IsFiniteSet(ToSet(s)) /\ Cardinality(ToSet(s)) = Len(s)
<1>1. Len(s) \in Nat /\ DOMAIN s = 1 .. Len(s)
  OBVIOUS
<1>2. s \in Surjection(1 .. Len(s), ToSet(s)) /\ s \in Injection(1 .. Len(s), ToSet(s))
  BY <1>1 DEF Surjection, Injection, IsInjective, ToSet
<1>3. IsFiniteSet(1 .. Len(s)) /\ Cardinality(1 .. Len(s)) = Len(s)
  BY <1>1, FS_Interval
<1> HIDE DEF ToSet
<1> QED BY <1>2, <1>3, FS_Surjection

-----------------------------------------------------------------------------
\* What the refinement needs to know beyond IInv.

\* Every address some table asks for.
WantedAddrs == UNION {ToSet(Addresses(t)) : t \in Tables}

\* RebuildDllBreakpoints comes past every file with a breakpoint.
TablesListed == \A f \in Files : fileBreakpoints[f] # <<>> => f \in ToSet(fileOrder)

\* The linked nodes numbered as temporary are the ones HandleStepOut will
\* remove; there are none outside a step-out, which runs in a debug session.
TempsLinked ==
  /\ {n \in ToSet(list) : pool[n].number = TempNumber} = ToSet(temps)
  /\ phase \in {"temp", "untemp"} => session = "debug"
  /\ phase \notin {"temp", "untemp"} => temps = <<>>

\* While RebuildDllBreakpoints arms, the DLL holds every linked node, nothing is
\* armed or about to be that no table asks for, and no table already passed
\* asks for an address that is neither, unless the limit is reached.
ArmedSoFar ==
  phase = "arm" =>
    /\ dll = Linked
    /\ ToSet(armed) \cup ToSet(todo) \subseteq WantedAddrs
    /\ \A t \in Tables : \/ t \in ToSet(tablesLeft)
                         \/ Len(armed) = MaxUserBreakpoints
                         \/ ToSet(Addresses(t)) \subseteq ToSet(armed) \cup ToSet(todo)

\* Only code addresses are armed.
LinkedKnown == \A n \in ToSet(list) : pool[n].adr \in Addr

RInv == IInv /\ TablesListed /\ TempsLinked /\ ArmedSoFar /\ LinkedKnown

\* The first element of a sequence and the rest of it.
LEMMA HeadAndTail ==
  ASSUME NEW S, NEW s \in Seq(S), s # <<>>
  PROVE  /\ Head(s) \in S
         /\ Tail(s) \in Seq(S)
         /\ Len(Tail(s)) = Len(s) - 1
         /\ \A i \in 1 .. Len(s) - 1 : Tail(s)[i] = s[i + 1]
         /\ ToSet(s) = {Head(s)} \cup ToSet(Tail(s))
<1>1. Len(s) \in Nat \ {0} /\ DOMAIN s = 1 .. Len(s) /\ Head(s) = s[1] /\ s[1] \in S
  BY EmptySeq
<1>2. /\ Tail(s) \in Seq(S)
      /\ Len(Tail(s)) = Len(s) - 1
      /\ \A i \in 1 .. Len(Tail(s)) : Tail(s)[i] = s[i + 1]
  BY HeadTailProperties
<1>3. DOMAIN Tail(s) = 1 .. Len(s) - 1
  BY <1>2
<1>4. \A i \in 1 .. Len(s) : i = 1 \/ (i - 1 \in 1 .. Len(s) - 1 /\ i = (i - 1) + 1)
  BY <1>1
<1>5. \A i \in 1 .. Len(s) - 1 : i + 1 \in 1 .. Len(s)
  BY <1>1
<1>6. ToSet(s) \subseteq {Head(s)} \cup ToSet(Tail(s))
  <2> SUFFICES ASSUME NEW i \in 1 .. Len(s), s[i] # Head(s) PROVE s[i] \in ToSet(Tail(s))
    BY <1>1 DEF ToSet
  <2>1. i - 1 \in 1 .. Len(s) - 1 /\ i = (i - 1) + 1
    BY <1>1, <1>4
  <2>2. i - 1 \in DOMAIN Tail(s) /\ Tail(s)[i - 1] = s[i]
    BY <1>2, <1>3, <2>1
  <2> QED BY <2>2 DEF ToSet
<1>7. {Head(s)} \cup ToSet(Tail(s)) \subseteq ToSet(s)
  <2>1. 1 \in 1 .. Len(s)
    BY <1>1
  <2> QED BY <2>1, <1>1, <1>2, <1>3, <1>5 DEF ToSet
<1> QED BY <1>1, <1>2, <1>6, <1>7

\* A sequence with one more element.
LEMMA AppendRange ==
  ASSUME NEW S, NEW s \in Seq(S), NEW e \in S
  PROVE  ToSet(Append(s, e)) = ToSet(s) \cup {e}
<1>1. /\ Append(s, e) \in Seq(S)
      /\ Len(Append(s, e)) = Len(s) + 1
      /\ \A i \in 1 .. Len(s) : Append(s, e)[i] = s[i]
      /\ Append(s, e)[Len(s) + 1] = e
  BY AppendProperties
<1>2. Len(s) \in Nat /\ DOMAIN s = 1 .. Len(s)
  OBVIOUS
<1>3. DOMAIN Append(s, e) = DOMAIN s \cup {Len(s) + 1}
  BY <1>1, <1>2
<1> QED BY <1>1, <1>2, <1>3 DEF ToSet

\* Alloc fails exactly when every node of the pool is linked.
LEMMA AllocFails ==
  ASSUME TypeOK, ListRepresented
  PROVE  /\ IsFiniteSet(ToSet(list))
         /\ Cardinality(ToSet(list)) = Len(list)
         /\ Len(list) <= MaxBreakpoints
         /\ Alloc = NULL <=> Len(list) = MaxBreakpoints
<1>1. /\ pool \in [Nodes -> NodeRecord]
      /\ head \in Nodes \cup {NULL}
      /\ list \in Seq(Nodes)
      /\ Represents(pool, head, list)
  BY DEF TypeOK, ListRepresented
<1>2. /\ Len(list) \in Nat
      /\ DOMAIN list = 1 .. Len(list)
      /\ ToSet(list) \subseteq Nodes
      /\ \A i \in DOMAIN list : list[i] \in ToSet(list)
      /\ \A i, j \in DOMAIN list : i # j => list[i] # list[j]
      /\ NULL \notin Nodes
  BY ListFacts
<1>3. IsFiniteSet(ToSet(list)) /\ Cardinality(ToSet(list)) = Len(list)
  BY <1>1, <1>2, DistinctCount
<1>4. IsFiniteSet(Nodes) /\ Cardinality(Nodes) = MaxBreakpoints /\ MaxBreakpoints \in Nat
  BY ConstantsAssumption, FS_Interval DEF Nodes
<1>5. Len(list) <= MaxBreakpoints /\ (Len(list) = MaxBreakpoints => ToSet(list) = Nodes)
  <2>1. /\ Cardinality(ToSet(list)) <= Cardinality(Nodes)
        /\ Cardinality(Nodes) = Cardinality(ToSet(list)) => Nodes = ToSet(list)
    <3> HIDE DEF Nodes
    <3>1. ToSet(list) \in SUBSET Nodes
      BY <1>2
    <3> QED BY <1>4, <3>1, FS_Subset, Zenon
  <2> QED BY <1>3, <1>4, <2>1
<1>6. ASSUME Alloc = NULL PROVE ToSet(list) = Nodes
  <2> SUFFICES ASSUME NEW n \in Nodes, n \notin ToSet(list) PROVE FALSE
    BY <1>2
  <2>1. pool[n] = FreeNode
    BY <1>2 DEF ListRepresented, Represents
  <2>2. n # head
    <3>1. CASE list = <<>>
      BY <3>1, <1>2 DEF ListRepresented, Represents
    <3>2. CASE list # <<>>
      <4>1. 1 \in DOMAIN list
        BY <1>1, <3>2
      <4>2. head = list[1]
        BY <3>2 DEF ListRepresented, Represents
      <4> QED BY <1>2, <4>1, <4>2
    <3> QED BY <3>1, <3>2
  <2>3. IsFree(n)
    BY <2>1, <2>2 DEF IsFree, FreeNode
  <2> DEFINE free == {m \in Nodes : IsFree(m)}
  <2>4. free \in SUBSET Nat /\ free # {}
    BY <2>3 DEF Nodes
  <2>5. \E m \in free : \A k \in free : m <= k
    <3> HIDE DEF free
    <3> QED BY <2>4, LeastNat
  <2>6. \E m \in Nodes : IsFree(m) /\ \A k \in Nodes : IsFree(k) => m <= k
    BY <2>5
  <2>7. Alloc \in Nodes
    BY <2>3, <2>6 DEF Alloc
  <2> QED BY <1>2, <1>6, <2>7
<1>7. ASSUME Alloc # NULL PROVE ToSet(list) # Nodes
  <2>1. Alloc \in Nodes /\ pool[Alloc].prev = NULL /\ Alloc # head
    BY <1>7, AllocFree DEF IsFree
  <2>2. \A i \in DOMAIN list : list[i] # Alloc
    BY <1>1, <2>1, FreeNodeNotLinked, Zenon
  <2> QED BY <2>1, <2>2 DEF ToSet
<1>8. ToSet(list) = Nodes => Len(list) = MaxBreakpoints
  BY <1>3, <1>4
<1> QED BY <1>3, <1>5, <1>6, <1>7, <1>8

-----------------------------------------------------------------------------
\* RInv is inductive.

LEMMA TablesListedStep == TypeOK /\ TablesListed /\ [Next]_vars => TablesListed'
<1> SUFFICES ASSUME TypeOK, TablesListed, [Next]_vars PROVE TablesListed'
  OBVIOUS
<1>0. /\ fileBreakpoints \in [Files -> Seq(Addr)]
      /\ fileOrder \in Seq(Files)
  BY DEF TypeOK
<1>1. CASE UNCHANGED <<fileBreakpoints, fileOrder>>
  BY <1>1 DEF TablesListed
<1>2. ASSUME NEW f \in Files, NEW addresses \in Requests, SetFileBreakpoints(f, addresses)
      PROVE  TablesListed'
  <2>1. /\ fileBreakpoints'[f] = addresses
        /\ \A g \in Files \ {f} : fileBreakpoints'[g] = fileBreakpoints[g]
    BY <1>0, <1>2 DEF SetFileBreakpoints
  <2>2. CASE addresses = <<>> /\ fileOrder' = RemoveFirst(fileOrder, f)
    <3> SUFFICES ASSUME NEW g \in Files, g # f, fileBreakpoints[g] # <<>>
                 PROVE  g \in ToSet(fileOrder')
      BY <2>1, <2>2 DEF TablesListed
    <3>1. g \in ToSet(fileOrder)
      BY DEF TablesListed
    <3> QED BY <1>0, <2>2, <3>1, RemoveFirstKeeps
  <2>3. CASE f \in ToSet(fileOrder) /\ fileOrder' = fileOrder
    BY <2>1, <2>3 DEF TablesListed
  <2>4. CASE fileOrder' \in SetToSeqs(ToSet(fileOrder) \cup {f})
    <3>1. ToSet(fileOrder') = ToSet(fileOrder) \cup {f}
      <4>1. IsFiniteSet(ToSet(fileOrder) \cup {f})
        BY <1>0, RangeFinite
      <4> QED BY <2>4, <4>1, OrderCovers
    <3> QED BY <2>1, <3>1 DEF TablesListed
  <2> QED BY <1>2, <2>2, <2>3, <2>4 DEF SetFileBreakpoints
<1>3. CASE \/ InitDebugSession \/ InitFlashSession \/ UninitAgdiSession
           \/ \E addresses \in Requests : SetInstructionBreakpoints(addresses)
           \/ \E exits \in Exits : StepOutBegin(exits)
  BY <1>1, <1>3 DEF InitDebugSession, InitFlashSession, UninitAgdiSession, tables,
                    SetInstructionBreakpoints, StepOutBegin
<1>4. CASE HandlerStep \/ UNCHANGED vars
  BY <1>1, <1>4 DEF HandlerStep, ClearAllUnlink, ClearAllWipe, NextTable, TryArm, TryArmUpTo,
                    Reply, AddTempBreakpoint, StepOutRun, RemoveTempBreakpoint, StepOutDone,
                    tables, vars
<1> QED BY <1>2, <1>3, <1>4 DEF Next

\* What linking one temporary breakpoint does, seen from IInv.
LEMMA TempLinked ==
  ASSUME IInv, AddTempBreakpoint, Alloc # NULL
  PROVE  /\ Alloc \notin ToSet(list)
         /\ ToSet(list') = ToSet(list) \cup {Alloc}
         /\ \A n \in ToSet(list) : /\ pool'[n].adr = pool[n].adr
                                   /\ pool'[n].number = pool[n].number
         /\ pool'[Alloc].adr = Head(todo)
         /\ pool'[Alloc].number = TempNumber
         /\ dll' = dll \cup {<<Alloc, Head(todo)>>}
         /\ temps' = Append(temps, Alloc)
         /\ Alloc \in Nodes
         /\ Head(todo) \in Addr
<1>1. Alloc \in Nodes /\ IsFree(Alloc)
  BY AllocFree
<1>2. Head(todo) \in Addr /\ Head(todo) \in Nat
  <2>1. todo \in Seq(Addr) /\ todo # <<>>
    BY DEF AddTempBreakpoint, IInv, TypeOK
  <2> QED BY <2>1, HeadTailProperties, ConstantsAssumption
<1>3. LinkTemp(Alloc, Head(todo))
  BY DEF AddTempBreakpoint
<1>4. dll' = dll \cup {<<Alloc, Head(todo)>>} /\ temps' = Append(temps, Alloc)
  BY <1>3 DEF LinkTemp
<1> HIDE DEF Alloc
<1>5. TypeOK /\ ListRepresented
  BY DEF IInv
<1> QED BY <1>1, <1>2, <1>3, <1>4, <1>5, LinkTempEffect, Zenon

\* What arming one node does, seen from IInv.
LEMMA NodeArmed ==
  ASSUME IInv, TryArm, ~ (Len(armed) >= MaxUserBreakpoints),
         Head(todo) \notin ToSet(armed), Alloc # NULL
  PROVE  /\ Alloc \notin ToSet(list)
         /\ ToSet(list') = ToSet(list) \cup {Alloc}
         /\ \A n \in ToSet(list) : /\ pool'[n].adr = pool[n].adr
                                   /\ pool'[n].number = pool[n].number
         /\ pool'[Alloc].adr = Head(todo)
         /\ pool'[Alloc].number = Len(armed) + 1
         /\ Len(armed) + 1 # TempNumber
         /\ dll' = dll \cup {<<Alloc, Head(todo)>>}
         /\ armed' = Append(armed, Head(todo))
         /\ Head(todo) \in Addr
<1>1. Alloc \in Nodes /\ IsFree(Alloc)
  BY AllocFree
<1>2. Head(todo) \in Addr /\ Head(todo) \in Nat
  <2>1. todo \in Seq(Addr) /\ todo # <<>>
    BY DEF TryArm, TryArmUpTo, IInv, TypeOK
  <2> QED BY <2>1, HeadTailProperties, ConstantsAssumption
<1>3. ArmNode(Alloc, Head(todo)) /\ phase = "arm"
  BY DEF TryArm, TryArmUpTo
<1>4. dll' = dll \cup {<<Alloc, Head(todo)>>} /\ armed' = Append(armed, Head(todo))
  BY <1>3 DEF ArmNode, LinkAtTail
<1>5. Len(armed) < MaxUserBreakpoints /\ Len(armed) + 1 # TempNumber
  <2>1. Len(armed) \in Nat /\ MaxUserBreakpoints \in Nat /\ MaxUserBreakpoints < TempNumber
        /\ TempNumber \in Nat
    BY ConstantsAssumption DEF IInv, TypeOK, TempNumber
  <2> QED BY <2>1
<1> HIDE DEF Alloc
<1>6. TypeOK /\ ListRepresented /\ LoopInv
  BY DEF IInv
<1> QED BY <1>1, <1>2, <1>3, <1>4, <1>5, <1>6, ArmNodeEffect, Zenon

LEMMA TempsLinkedStep == IInv /\ TempsLinked /\ [Next]_vars => TempsLinked'
<1> SUFFICES ASSUME IInv, TempsLinked, [Next]_vars PROVE TempsLinked'
  OBVIOUS
<1>0. temps \in Seq(Nodes) /\ ToSet(list) \subseteq Nodes /\ NULL \notin Nodes
  BY ListFacts DEF IInv, TypeOK
<1>1. ASSUME UNCHANGED <<list, pool, temps>>,
             phase' \in {"temp", "untemp"} => session' = "debug",
             phase' \notin {"temp", "untemp"} => temps = <<>>
      PROVE  TempsLinked'
  BY <1>1 DEF TempsLinked
<1>2. ASSUME list' = <<>>, temps' = temps, temps = <<>>, phase' \notin {"temp", "untemp"}
      PROVE  TempsLinked'
  <2>1. ToSet(list') = {} /\ ToSet(temps') = {}
    BY <1>2 DEF ToSet
  <2> QED BY <1>2, <2>1 DEF TempsLinked
<1>3. CASE InitDebugSession
  BY <1>2, <1>3 DEF InitDebugSession, TempsLinked
<1>4. CASE InitFlashSession
  BY <1>1, <1>4 DEF InitFlashSession, TempsLinked
<1>5. CASE UninitAgdiSession
  BY <1>1, <1>5 DEF UninitAgdiSession, TempsLinked
<1>6. ASSUME NEW f \in Files, NEW addresses \in Requests, SetFileBreakpoints(f, addresses)
      PROVE  TempsLinked'
  BY <1>1, <1>6 DEF SetFileBreakpoints, StartRebuild, RebuildFrom, TempsLinked
<1>7. ASSUME NEW addresses \in Requests, SetInstructionBreakpoints(addresses)
      PROVE  TempsLinked'
  BY <1>1, <1>7 DEF SetInstructionBreakpoints, StartRebuild, RebuildFrom, TempsLinked
<1>8. ASSUME NEW exits \in Exits, StepOutBegin(exits)
      PROVE  TempsLinked'
  <2>1. temps = <<>>
    BY <1>8 DEF StepOutBegin, TempsLinked
  <2> QED BY <1>1, <1>8, <2>1 DEF StepOutBegin
<1>9. CASE ClearAllUnlink
  BY <1>1, <1>9 DEF ClearAllUnlink, TempsLinked
<1>10. CASE ClearAllWipe
  BY <1>2, <1>10 DEF ClearAllWipe, TempsLinked
<1>11. CASE NextTable
  BY <1>1, <1>11 DEF NextTable, TempsLinked
<1>12. CASE TryArm
  <2>1. temps' = temps /\ temps = <<>> /\ phase = "arm" /\ phase' = "arm"
    BY <1>12 DEF TryArm, TryArmUpTo, TempsLinked
  <2>2. CASE UNCHANGED <<pool, list>>
    BY <1>1, <2>1, <2>2
  <2>3. CASE ~ (Len(armed) >= MaxUserBreakpoints) /\ Head(todo) \notin ToSet(armed) /\ Alloc # NULL
    <3>1. /\ ToSet(list') = ToSet(list) \cup {Alloc}
          /\ \A n \in ToSet(list) : pool'[n].number = pool[n].number
          /\ pool'[Alloc].number # TempNumber
      BY <1>12, <2>3, NodeArmed
    <3> HIDE DEF Alloc
    <3>2. {n \in ToSet(list') : pool'[n].number = TempNumber} = ToSet(temps')
      BY <2>1, <3>1 DEF TempsLinked
    <3> QED BY <2>1, <3>2 DEF TempsLinked
  <2> QED BY <1>12, <2>2, <2>3 DEF TryArm, TryArmUpTo
<1>13. CASE Reply
  BY <1>1, <1>13 DEF Reply, TempsLinked
<1>14. CASE AddTempBreakpoint
  <2>1. phase = "temp" /\ phase' = "temp" /\ session' = session /\ session = "debug"
    BY <1>14 DEF AddTempBreakpoint, TempsLinked
  <2>2. CASE UNCHANGED <<pool, list, temps>>
    BY <1>1, <2>1, <2>2
  <2>3. CASE Alloc # NULL
    <3>1. /\ ToSet(list') = ToSet(list) \cup {Alloc}
          /\ \A n \in ToSet(list) : pool'[n].number = pool[n].number
          /\ pool'[Alloc].number = TempNumber
          /\ temps' = Append(temps, Alloc)
          /\ Alloc \in Nodes
      BY <1>14, <2>3, TempLinked
    <3> HIDE DEF Alloc
    <3>2. ToSet(temps') = ToSet(temps) \cup {Alloc}
      BY <1>0, <3>1, AppendRange
    <3>3. {n \in ToSet(list') : pool'[n].number = TempNumber} = ToSet(temps')
      BY <3>1, <3>2 DEF TempsLinked
    <3> QED BY <2>1, <3>3 DEF TempsLinked
  <2> QED BY <1>14, <2>2, <2>3 DEF AddTempBreakpoint
<1>15. CASE StepOutRun
  BY <1>1, <1>15 DEF StepOutRun, TempsLinked
<1>16. CASE RemoveTempBreakpoint
  <2>1. /\ phase = "untemp" /\ phase' = "untemp" /\ session' = session /\ session = "debug"
        /\ temps # <<>> /\ temps' = Tail(temps)
        /\ Unlink(Head(temps))
    BY <1>16 DEF RemoveTempBreakpoint, TempsLinked
  <2>2. ToSet(temps) = {Head(temps)} \cup ToSet(temps')
    BY <1>0, <2>1, HeadAndTail
  <2>3. Head(temps) \notin ToSet(temps')
    <3>1. \A i, j \in DOMAIN temps : i # j => temps[i] # temps[j]
      BY <2>1 DEF IInv, LoopInv
    <3>2. /\ Len(temps) \in Nat \ {0}
          /\ DOMAIN temps = 1 .. Len(temps)
          /\ Head(temps) = temps[1]
      BY <1>0, <2>1
    <3>3. /\ Len(temps') = Len(temps) - 1
          /\ \A i \in 1 .. Len(temps) - 1 : temps'[i] = temps[i + 1]
          /\ temps' \in Seq(Nodes)
      BY <1>0, <2>1, HeadAndTail
    <3>4. DOMAIN temps' = 1 .. Len(temps) - 1
      BY <3>2, <3>3
    <3>5. ASSUME NEW i \in DOMAIN temps' PROVE temps'[i] # Head(temps)
      <4>1. i + 1 \in DOMAIN temps /\ 1 \in DOMAIN temps /\ i + 1 # 1 /\ temps'[i] = temps[i + 1]
        BY <3>2, <3>3, <3>4
      <4> QED BY <3>1, <3>2, <4>1
    <3> QED BY <3>5 DEF ToSet
  <2>4. Head(temps) \in ToSet(list)
    BY <2>2 DEF TempsLinked
  <2>5. /\ ToSet(list') = ToSet(list) \ {Head(temps)}
        /\ \A n \in ToSet(list') : pool'[n].number = pool[n].number
    BY <2>1, <2>4, UnlinkEffect DEF IInv
  <2>6. {n \in ToSet(list') : pool'[n].number = TempNumber} = ToSet(temps')
    BY <2>2, <2>3, <2>5 DEF TempsLinked
  <2> QED BY <2>1, <2>6 DEF TempsLinked
<1>17. CASE StepOutDone
  BY <1>1, <1>17 DEF StepOutDone, TempsLinked
<1>18. CASE UNCHANGED vars
  BY <1>1, <1>18 DEF vars, TempsLinked
<1> QED
  BY <1>3, <1>4, <1>5, <1>6, <1>7, <1>8, <1>9, <1>10, <1>11, <1>12, <1>13, <1>14,
     <1>15, <1>16, <1>17, <1>18 DEF Next, HandlerStep

LEMMA ArmedSoFarStep ==
  IInv /\ TablesListed /\ TempsLinked /\ ArmedSoFar /\ [Next]_vars => ArmedSoFar'
<1> SUFFICES ASSUME IInv, TablesListed, TempsLinked, ArmedSoFar, [Next]_vars, phase' = "arm"
             PROVE  ArmedSoFar'
  BY DEF ArmedSoFar
<1>0. /\ todo \in Seq(Addr)
      /\ armed \in Seq(Addr)
      /\ tablesLeft \in Seq(Tables)
      /\ fileOrder \in Seq(Files)
  BY DEF IInv, TypeOK
<1>1. CASE ClearAllWipe
  <2>1. /\ armed' = <<>> /\ todo' = <<>> /\ list' = <<>>
        /\ tablesLeft' = TablesInOrder
        /\ fileBreakpoints' = fileBreakpoints /\ instrBreakpoints' = instrBreakpoints
        /\ dll' = dll
        /\ phase = "clear" /\ cursor = NULL
    BY <1>1 DEF ClearAllWipe, tables
  <2>2. ToSet(armed') = {} /\ ToSet(todo') = {} /\ ToSet(list') = {}
    BY <2>1 DEF ToSet
  <2>3. dll' = Linked'
    <3>1. \A i \in DOMAIN list : list[i] # NULL
      BY ListFacts DEF IInv
    <3>2. NotCleared = {}
      BY <2>1, <3>1 DEF NotCleared
    <3>3. dll = {}
      BY <3>2 DEF IInv, DllMirror
    <3> QED BY <2>1, <2>2, <3>3 DEF Linked
  <2>4. ASSUME NEW t \in Tables
        PROVE  t \in ToSet(tablesLeft') \/ ToSet(Addresses(t)') = {}
    <3>1. ToSet(tablesLeft') = ToSet(fileOrder) \cup {InstrTable}
      <4>1. fileOrder \in Seq(Tables) /\ InstrTable \in Tables
        BY <1>0 DEF Tables
      <4> QED BY <2>1, <4>1, AppendRange DEF TablesInOrder
    <3>2. CASE t \in Files
      <4>1. t # InstrTable
        BY <3>2, ConstantsAssumption DEF InstrTable
      <4>2. Addresses(t)' = fileBreakpoints[t]
        BY <2>1, <4>1 DEF Addresses
      <4>3. CASE fileBreakpoints[t] = <<>>
        BY <4>2, <4>3 DEF ToSet
      <4>4. CASE fileBreakpoints[t] # <<>>
        BY <3>1, <3>2, <4>4 DEF TablesListed
      <4> QED BY <4>3, <4>4
    <3> QED BY <3>1, <3>2 DEF Tables
  <2> QED BY <2>2, <2>3, <2>4 DEF ArmedSoFar
<1>2. CASE NextTable
  <2>1. /\ phase = "arm"
        /\ tablesLeft # <<>>
        /\ todo = <<>>
        /\ todo' = Addresses(Head(tablesLeft))
        /\ tablesLeft' = Tail(tablesLeft)
        /\ UNCHANGED <<pool, list, dll, armed, fileBreakpoints, instrBreakpoints>>
    BY <1>2 DEF NextTable, tables
  <2>2. \A t : Addresses(t)' = Addresses(t)
    BY <2>1 DEF Addresses
  <2>3. WantedAddrs' = WantedAddrs
    BY <2>2 DEF WantedAddrs
  <2>4. /\ Head(tablesLeft) \in Tables
        /\ ToSet(tablesLeft) = {Head(tablesLeft)} \cup ToSet(tablesLeft')
    BY <1>0, <2>1, HeadAndTail
  <2>5. ToSet(todo) = {}
    BY <2>1 DEF ToSet
  <2>6. ToSet(todo') \subseteq WantedAddrs
    BY <2>1, <2>4 DEF WantedAddrs
  <2>7. dll' = Linked'
    BY <2>1 DEF ArmedSoFar, Linked
  <2>8. ToSet(armed') \cup ToSet(todo') \subseteq WantedAddrs'
    BY <2>1, <2>3, <2>6 DEF ArmedSoFar
  <2>9. ASSUME NEW t \in Tables
        PROVE  \/ t \in ToSet(tablesLeft')
               \/ Len(armed') = MaxUserBreakpoints
               \/ ToSet(Addresses(t)') \subseteq ToSet(armed') \cup ToSet(todo')
    BY <2>1, <2>2, <2>4, <2>5 DEF ArmedSoFar
  <2> QED BY <2>7, <2>8, <2>9 DEF ArmedSoFar
<1>3. CASE TryArm
  <2>1. /\ phase = "arm"
        /\ todo # <<>>
        /\ todo' = Tail(todo)
        /\ UNCHANGED <<tablesLeft, fileBreakpoints, instrBreakpoints>>
    BY <1>3 DEF TryArm, TryArmUpTo, tables
  <2>2. \A t : Addresses(t)' = Addresses(t)
    BY <2>1 DEF Addresses
  <2>3. WantedAddrs' = WantedAddrs
    BY <2>2 DEF WantedAddrs
  <2>4. ToSet(todo) = {Head(todo)} \cup ToSet(todo') /\ Head(todo) \in Addr
    BY <1>0, <2>1, HeadAndTail
  <2>5. Len(armed) \in Nat /\ MaxUserBreakpoints \in Nat /\ MaxUserBreakpoints <= MaxBreakpoints
        /\ MaxBreakpoints \in Nat
    BY <1>0, ConstantsAssumption
  <2>6. CASE \/ Len(armed) >= MaxUserBreakpoints
             \/ Head(todo) \in ToSet(armed)
             \/ Alloc = NULL
    <3>1. UNCHANGED <<pool, list, dll, armed>>
      BY <1>3, <2>6 DEF TryArm, TryArmUpTo
    <3>2. Len(armed) = MaxUserBreakpoints \/ Head(todo) \in ToSet(armed)
      <4>1. Len(armed) = Len(list) /\ Len(armed) <= MaxUserBreakpoints
        BY <2>1 DEF IInv, LoopInv
      <4>2. Alloc = NULL => Len(list) = MaxBreakpoints
        BY AllocFails DEF IInv
      <4> QED BY <2>5, <2>6, <4>1, <4>2
    <3>3. dll' = Linked'
      BY <2>1, <3>1 DEF ArmedSoFar, Linked
    <3>4. ToSet(armed') \cup ToSet(todo') \subseteq WantedAddrs'
      BY <2>1, <2>3, <2>4, <3>1 DEF ArmedSoFar
    <3>5. ASSUME NEW t \in Tables
          PROVE  \/ t \in ToSet(tablesLeft')
                 \/ Len(armed') = MaxUserBreakpoints
                 \/ ToSet(Addresses(t)') \subseteq ToSet(armed') \cup ToSet(todo')
      BY <2>1, <2>2, <2>4, <3>1, <3>2 DEF ArmedSoFar
    <3> QED BY <3>3, <3>4, <3>5 DEF ArmedSoFar
  <2>7. CASE ~ (Len(armed) >= MaxUserBreakpoints) /\ Head(todo) \notin ToSet(armed) /\ Alloc # NULL
    <3>1. /\ Alloc \notin ToSet(list)
          /\ ToSet(list') = ToSet(list) \cup {Alloc}
          /\ \A n \in ToSet(list) : pool'[n].adr = pool[n].adr
          /\ pool'[Alloc].adr = Head(todo)
          /\ dll' = dll \cup {<<Alloc, Head(todo)>>}
          /\ armed' = Append(armed, Head(todo))
      BY <1>3, <2>7, NodeArmed
    <3> HIDE DEF Alloc
    <3>2. ToSet(armed') = ToSet(armed) \cup {Head(todo)}
      BY <1>0, <2>4, <3>1, AppendRange
    <3>3. dll' = Linked'
      BY <2>1, <3>1 DEF ArmedSoFar, Linked
    <3>4. ToSet(armed') \cup ToSet(todo') \subseteq WantedAddrs'
      BY <2>1, <2>3, <2>4, <3>2 DEF ArmedSoFar
    <3>5. ASSUME NEW t \in Tables
          PROVE  \/ t \in ToSet(tablesLeft')
                 \/ ToSet(Addresses(t)') \subseteq ToSet(armed') \cup ToSet(todo')
      BY <2>1, <2>2, <2>4, <2>5, <2>7, <3>2 DEF ArmedSoFar
    <3> QED BY <3>3, <3>4, <3>5 DEF ArmedSoFar
  <2> QED BY <2>6, <2>7
<1>4. CASE UNCHANGED vars
  <2>1. UNCHANGED <<pool, list, dll, armed, todo, tablesLeft, phase, fileBreakpoints, instrBreakpoints>>
    BY <1>4 DEF vars
  <2>2. \A t : Addresses(t)' = Addresses(t)
    BY <2>1 DEF Addresses
  <2>3. WantedAddrs' = WantedAddrs /\ Linked' = Linked
    BY <2>1, <2>2 DEF WantedAddrs, Linked
  <2> QED BY <2>1, <2>2, <2>3 DEF ArmedSoFar
<1> QED
  BY <1>1, <1>2, <1>3, <1>4 DEF Next, HandlerStep, InitDebugSession, InitFlashSession,
     UninitAgdiSession, SetFileBreakpoints, SetInstructionBreakpoints, StartRebuild, RebuildFrom,
     StepOutBegin, ClearAllUnlink, Reply, AddTempBreakpoint, StepOutRun, RemoveTempBreakpoint,
     StepOutDone

LEMMA LinkedKnownStep == IInv /\ TempsLinked /\ LinkedKnown /\ [Next]_vars => LinkedKnown'
<1> SUFFICES ASSUME IInv, TempsLinked, LinkedKnown, [Next]_vars PROVE LinkedKnown'
  OBVIOUS
<1>1. CASE UNCHANGED <<list, pool>>
  BY <1>1 DEF LinkedKnown
<1>2. CASE list' = <<>>
  BY <1>2 DEF LinkedKnown, ToSet
<1>3. CASE TryArm
  <2>1. CASE ~ (Len(armed) >= MaxUserBreakpoints) /\ Head(todo) \notin ToSet(armed) /\ Alloc # NULL
    <3> HIDE DEF Alloc
    <3>1. /\ ToSet(list') = ToSet(list) \cup {Alloc}
          /\ \A n \in ToSet(list) : pool'[n].adr = pool[n].adr
          /\ pool'[Alloc].adr \in Addr
      BY <1>3, <2>1, NodeArmed
    <3> QED BY <3>1 DEF LinkedKnown
  <2> QED BY <1>1, <1>3, <2>1 DEF TryArm, TryArmUpTo
<1>4. CASE AddTempBreakpoint
  <2>1. CASE Alloc # NULL
    <3> HIDE DEF Alloc
    <3>1. /\ ToSet(list') = ToSet(list) \cup {Alloc}
          /\ \A n \in ToSet(list) : pool'[n].adr = pool[n].adr
          /\ pool'[Alloc].adr \in Addr
      BY <1>4, <2>1, TempLinked
    <3> QED BY <3>1 DEF LinkedKnown
  <2> QED BY <1>1, <1>4, <2>1 DEF AddTempBreakpoint
<1>5. CASE RemoveTempBreakpoint
  <2>1. Unlink(Head(temps)) /\ temps # <<>> /\ temps \in Seq(Nodes)
    BY <1>5 DEF RemoveTempBreakpoint, IInv, TypeOK
  <2>2. Head(temps) \in ToSet(list)
    BY <2>1, HeadAndTail DEF TempsLinked
  <2>3. /\ ToSet(list') = ToSet(list) \ {Head(temps)}
        /\ \A n \in ToSet(list') : pool'[n].adr = pool[n].adr
    BY <2>1, <2>2, UnlinkEffect DEF IInv
  <2> QED BY <2>3 DEF LinkedKnown
<1>6. CASE InitDebugSession \/ ClearAllWipe
  BY <1>2, <1>6 DEF InitDebugSession, ClearAllWipe
<1>7. CASE \/ InitFlashSession \/ UninitAgdiSession
           \/ \E f \in Files, addresses \in Requests : SetFileBreakpoints(f, addresses)
           \/ \E addresses \in Requests : SetInstructionBreakpoints(addresses)
           \/ \E exits \in Exits : StepOutBegin(exits)
           \/ UNCHANGED vars
  BY <1>1, <1>7 DEF InitFlashSession, UninitAgdiSession, SetFileBreakpoints, StartRebuild,
                    SetInstructionBreakpoints, RebuildFrom, StepOutBegin, vars
<1>8. CASE ClearAllUnlink \/ NextTable \/ Reply \/ StepOutRun \/ StepOutDone
  BY <1>1, <1>8 DEF ClearAllUnlink, NextTable, Reply, StepOutRun, StepOutDone
<1> QED BY <1>3, <1>4, <1>5, <1>6, <1>7, <1>8 DEF Next, HandlerStep

LEMMA RInvInit == Init => RInv
<1> SUFFICES ASSUME Init PROVE RInv
  OBVIOUS
<1>1. ToSet(<<>>) = {}
  BY DEF ToSet
<1>2. TablesListed /\ ArmedSoFar
  BY DEF Init, TablesListed, ArmedSoFar
<1>3. TempsLinked
  BY <1>1 DEF Init, TempsLinked
<1>4. LinkedKnown
  BY <1>1 DEF Init, LinkedKnown
<1> QED BY <1>2, <1>3, <1>4, InvInit DEF RInv

LEMMA RInvStep == RInv /\ [Next]_vars => RInv'
BY InvStep, TablesListedStep, TempsLinkedStep, ArmedSoFarStep, LinkedKnownStep DEF RInv, IInv

LEMMA RInductive == Spec => []RInv
BY RInvInit, RInvStep, PTL DEF Spec

-----------------------------------------------------------------------------
\* What the mapping shows in the states of the manager.

\* The linked nodes that no step-out will remove.  Outside ClearAll the user
\* breakpoints the DLL should hold are theirs.
UserNodes == {n \in ToSet(list) : pool[n].number # TempNumber}

\* The addresses of the pairs <<node, address>> of nodes that are not temporary.
LEMMA AddressesOf ==
  ASSUME NEW nodes, NEW S
  PROVE  {b[2] : b \in {x \in {<<n, nodes[n].adr>> : n \in S} : nodes[x[1]].number # TempNumber}}
           = {nodes[n].adr : n \in {m \in S : nodes[m].number # TempNumber}}
<1> DEFINE pairs == {x \in {<<n, nodes[n].adr>> : n \in S} : nodes[x[1]].number # TempNumber}
           users == {m \in S : nodes[m].number # TempNumber}
<1>1. ASSUME NEW b \in pairs PROVE b[2] \in {nodes[n].adr : n \in users}
  <2>1. PICK n \in S : b = <<n, nodes[n].adr>>
    OBVIOUS
  <2>2. b[1] = n /\ b[2] = nodes[n].adr /\ n \in users
    BY <2>1
  <2> QED BY <2>2
<1>2. ASSUME NEW n \in users PROVE nodes[n].adr \in {b[2] : b \in pairs}
  <2> DEFINE b == <<n, nodes[n].adr>>
  <2>1. b \in pairs /\ b[2] = nodes[n].adr
    OBVIOUS
  <2> QED BY <2>1
<1> HIDE DEF pairs, users
<1>3. {b[2] : b \in pairs} = {nodes[n].adr : n \in users}
  BY <1>1, <1>2
<1> QED BY <1>3 DEF pairs, users

LEMMA UserOfNodes ==
  /\ dll = Linked => UserInDll = {pool[n].adr : n \in UserNodes}
  /\ dll' = Linked' => UserInDll' = {pool'[n].adr : n \in UserNodes'}
<1>1. dll = Linked => UserInDll = {pool[n].adr : n \in UserNodes}
  BY AddressesOf DEF Linked, UserInDll, UserNodes
<1>2. dll' = Linked' => UserInDll' = {pool'[n].adr : n \in UserNodes'}
  BY AddressesOf DEF Linked, UserInDll, UserNodes
<1> QED BY <1>1, <1>2

\* User nodes have different addresses, so their number is the number of
\* slots they take.
LEMMA UserCount ==
  ASSUME IInv
  PROVE  /\ IsFiniteSet(UserNodes)
         /\ Cardinality({pool[n].adr : n \in UserNodes}) = Cardinality(UserNodes)
<1>1. IsFiniteSet(ToSet(list))
  BY AllocFails DEF IInv
<1>2. IsFiniteSet(UserNodes)
  <2>1. UserNodes \in SUBSET ToSet(list)
    BY DEF UserNodes
  <2> QED BY <1>1, <2>1, FS_Subset
<1>3. NodeLimit
  BY LimitOfNodes DEF IInv
<1>4. \A m, n \in UserNodes : m # n => pool[m].adr # pool[n].adr
  BY <1>3 DEF UserNodes, NodeLimit
<1> DEFINE f == [n \in UserNodes |-> pool[n].adr]
<1>5. /\ DOMAIN f = UserNodes
      /\ \A x, y \in UserNodes : x # y => f[x] # f[y]
      /\ {f[x] : x \in UserNodes} = {pool[n].adr : n \in UserNodes}
  BY <1>4
<1> HIDE DEF f
<1>6. Cardinality({f[x] : x \in UserNodes}) = Cardinality(UserNodes)
  BY <1>2, <1>5, ImageCount
<1> QED BY <1>2, <1>5, <1>6

\* While arming, the duplicate tracker is exactly what the DLL holds and what
\* a handler would find armed.
LEMMA UserWhileArming ==
  ASSUME RInv, phase = "arm"
  PROVE  /\ UserInDll = ToSet(armed)
         /\ UserInDll = Armed
         /\ Cardinality(UserInDll) = Len(armed)
<1>1. dll = Linked
  BY DEF RInv, ArmedSoFar
<1>2. temps = <<>> /\ {n \in ToSet(list) : pool[n].number = TempNumber} = {}
  BY DEF RInv, TempsLinked, ToSet
<1>3. UserNodes = ToSet(list)
  BY <1>2 DEF UserNodes
<1>4. UserInDll = {pool[n].adr : n \in ToSet(list)}
  BY <1>1, <1>3, UserOfNodes
<1>5. UserInDll = Armed
  BY <1>4 DEF Armed, ToSet
<1>6. /\ DOMAIN list = 1 .. Len(list)
      /\ Len(list) = Len(armed)
      /\ armed \in Seq(Addr)
      /\ \A i \in DOMAIN list : pool[list[i]].adr = armed[i]
  BY ListFacts DEF RInv, IInv, LoopInv, TypeOK
<1>7. DOMAIN armed = DOMAIN list
  BY <1>6
<1>8. UserInDll = ToSet(armed)
  BY <1>5, <1>6, <1>7 DEF Armed, ToSet
<1>9. \A i, j \in DOMAIN armed : i # j => armed[i] # armed[j]
  BY DEF RInv, IInv, LoopInv
<1>10. Cardinality(UserInDll) = Len(armed)
  BY <1>6, <1>8, <1>9, DistinctCount
<1> QED BY <1>5, <1>8, <1>10

LEMMA UserArmed == RInv /\ phase = "arm" => UserInDll = ToSet(armed)
BY UserWhileArming

\* The same of the state after a step.
LEMMA UserNextArming == (RInv /\ phase = "arm" => UserInDll = ToSet(armed))'
BY UserArmed, PTL

\* During a step-out the slots are the user's and the step-out's together.
LEMMA SlotsWhileTrapping ==
  ASSUME RInv, phase = "temp"
  PROVE  /\ dll = Linked
         /\ Cardinality(UserInDll) + Len(temps) = Len(list)
         /\ Cardinality(UserInDll) + Len(temps) < MaxBreakpoints <=> Alloc # NULL
<1>1. dll = Linked
  BY MirrorOfNodes DEF RInv, IInv, TempsLinked
<1>2. /\ IsFiniteSet(ToSet(list))
      /\ Cardinality(ToSet(list)) = Len(list)
      /\ Len(list) <= MaxBreakpoints
      /\ Alloc = NULL <=> Len(list) = MaxBreakpoints
  BY AllocFails DEF RInv, IInv
<1>3. IsFiniteSet(ToSet(temps)) /\ Cardinality(ToSet(temps)) = Len(temps) /\ Len(temps) \in Nat
  <2>1. temps \in Seq(Nodes) /\ \A i, j \in DOMAIN temps : i # j => temps[i] # temps[j]
    BY DEF RInv, IInv, TypeOK, LoopInv
  <2> QED BY <2>1, DistinctCount
<1>4. UserNodes \cup ToSet(temps) = ToSet(list) /\ UserNodes \cap ToSet(temps) = {}
  BY DEF RInv, TempsLinked, UserNodes
<1>5. IsFiniteSet(UserNodes) /\ Cardinality(UserInDll) = Cardinality(UserNodes)
  BY <1>1, UserOfNodes, UserCount DEF RInv
<1>6. Cardinality(UserNodes) \in Nat
  BY <1>5, FS_CardinalityType
<1>7. Cardinality(UserNodes) + Len(temps) = Len(list)
  <2>1. Cardinality(UserNodes \cup ToSet(temps)) =
          Cardinality(UserNodes) + Cardinality(ToSet(temps)) - Cardinality(UserNodes \cap ToSet(temps))
    BY <1>3, <1>5, FS_Union
  <2>2. Cardinality(UserNodes \cap ToSet(temps)) = 0
    BY <1>4, FS_EmptySet
  <2>3. Cardinality(UserNodes \cup ToSet(temps)) = Len(list)
    BY <1>2, <1>4
  <2> QED BY <1>3, <1>6, <2>1, <2>2, <2>3
<1>8. MaxBreakpoints \in Nat
  BY ConstantsAssumption
<1> HIDE DEF Alloc
<1> QED BY <1>1, <1>2, <1>3, <1>5, <1>6, <1>7, <1>8

-----------------------------------------------------------------------------
\* Every step of the manager is a step of BreakpointSet, or none.

\* A step the promise does not see.
LEMMA Unseen ==
  ASSUME UNCHANGED <<session, PerTable, UserInDll, TempAddresses, ExitsLeft, Stage, caller, told>>
  PROVE  UNCHANGED Abstract!vars
BY DEF Abstract!vars

\* The tables ask for the same as before.
LEMMA PerTableSame == UNCHANGED <<fileBreakpoints, instrBreakpoints>> => UNCHANGED PerTable
<1> SUFFICES ASSUME UNCHANGED <<fileBreakpoints, instrBreakpoints>> PROVE PerTable' = PerTable
  OBVIOUS
<1>1. \A t : Addresses(t)' = Addresses(t)
  BY DEF Addresses
<1> QED BY <1>1 DEF PerTable

\* The DLL holds the same breakpoints, each at the same address.
LEMMA HoldsSame ==
  UNCHANGED <<pool, dll, temps>> => UNCHANGED <<UserInDll, TempAddresses>>
<1> SUFFICES ASSUME UNCHANGED <<pool, dll, temps>> PROVE UNCHANGED <<UserInDll, TempAddresses>>
  OBVIOUS
<1>1. UserInDll' = UserInDll
  BY DEF UserInDll
<1>2. TempAddresses' = TempAddresses
  BY DEF TempAddresses
<1> QED BY <1>1, <1>2

\* What the tables ask for together.
LEMMA WantedIs == Abstract!Wanted = WantedAddrs
<1>1. \A t \in Tables : PerTable[t] = ToSet(Addresses(t))
  BY DEF PerTable
<1> QED BY <1>1 DEF Abstract!Wanted, WantedAddrs

\* BreakpointSet counts as this module does.
LEMMA CountsAlike == \A S : Abstract!Cardinality(S) = Cardinality(S)
BY DEF Cardinality, Abstract!Cardinality

LEMMA RefinesInit == Init => Abstract!Init
<1> SUFFICES ASSUME Init PROVE Abstract!Init
  OBVIOUS
<1>1. ToSet(<<>>) = {}
  BY DEF ToSet
<1>2. PerTable = [t \in Tables |-> {}]
  <2>1. \A t \in Tables : Addresses(t) = <<>>
    BY DEF Init, Addresses, Tables
  <2> QED BY <1>1, <2>1 DEF PerTable
<1>3. UserInDll = {}
  BY DEF Init, UserInDll
<1>4. TempAddresses = <<>>
  BY DEF Init, TempAddresses
<1>5. ExitsLeft = <<>> /\ Stage = "idle" /\ session = "none"
  BY DEF Init, ExitsLeft, Stage
<1>6. caller \in Tables /\ told = [t \in Tables |-> {}]
  BY DEF Init, Tables, NoneTold
<1> QED BY <1>2, <1>3, <1>4, <1>5, <1>6 DEF Abstract!Init, Abstract!Nothing

\* The sessions.
LEMMA OpenStep ==
  ASSUME RInv, InitDebugSession \/ InitFlashSession
  PROVE  Abstract!Open("debug") \/ Abstract!Open("flash")
<1>1. /\ phase = "idle" /\ phase' = "idle" /\ session = "none"
      /\ session' \in {"debug", "flash"}
      /\ UNCHANGED <<fileBreakpoints, instrBreakpoints, todo, temps, caller, told>>
      /\ dll' = {} \/ UNCHANGED dll
  BY DEF InitDebugSession, InitFlashSession, tables
<1>2. dll = {} /\ dll' = {} /\ temps = <<>>
  BY <1>1 DEF RInv, IInv, LoopInv, TempsLinked
<1>3. UserInDll = {} /\ UserInDll' = {}
  BY <1>2 DEF UserInDll
<1>4. TempAddresses = <<>> /\ TempAddresses' = <<>>
  BY <1>1, <1>2 DEF TempAddresses
<1>5. UNCHANGED PerTable
  BY <1>1, PerTableSame
<1>6. ExitsLeft = <<>> /\ ExitsLeft' = <<>> /\ Stage = "idle" /\ Stage' = "idle"
  BY <1>1 DEF ExitsLeft, Stage
<1> QED BY <1>1, <1>3, <1>4, <1>5, <1>6 DEF Abstract!Open

LEMMA CloseStep ==
  ASSUME RInv, UninitAgdiSession
  PROVE  Abstract!Close
<1>1. /\ phase = "idle" /\ phase' = "idle" /\ session # "none" /\ session' = "none"
      /\ dll' = {} /\ told' = NoneTold
      /\ UNCHANGED <<pool, fileBreakpoints, instrBreakpoints, todo, temps, caller>>
  BY DEF UninitAgdiSession, tables
<1>2. UserInDll' = {}
  BY <1>1 DEF UserInDll
<1>3. TempAddresses' = TempAddresses
  BY <1>1 DEF TempAddresses
<1>4. UNCHANGED PerTable
  BY <1>1, PerTableSame
<1>5. ExitsLeft = <<>> /\ ExitsLeft' = <<>> /\ Stage = "idle" /\ Stage' = "idle"
  BY <1>1 DEF ExitsLeft, Stage
<1> QED BY <1>1, <1>2, <1>3, <1>4, <1>5 DEF Abstract!Close, Abstract!Nothing, NoneTold

\* The two requests.
LEMMA RequestStep ==
  ASSUME RInv, NEW t \in Tables, NEW addresses \in Requests, phase = "idle", session # "none",
         StartRebuild(t, addresses),
         \A u \in Tables : Addresses(u)' = IF u = t THEN addresses ELSE Addresses(u)
  PROVE  ToSet(addresses) \in SUBSET Addr /\ Abstract!Request(t, ToSet(addresses))
<1>1. /\ phase' = "clear" /\ caller' = t
      /\ UNCHANGED <<pool, session, dll, temps, told>>
  BY DEF StartRebuild, RebuildFrom
<1>2. UNCHANGED <<UserInDll, TempAddresses>>
  BY <1>1, HoldsSame
<1>3. ExitsLeft = <<>> /\ ExitsLeft' = <<>> /\ Stage = "idle" /\ Stage' = "withdraw"
  BY <1>1 DEF ExitsLeft, Stage
<1>4. PerTable' = [PerTable EXCEPT ![t] = ToSet(addresses)]
  BY DEF PerTable
<1>5. ToSet(addresses) \in SUBSET Addr
  BY ConstantsAssumption DEF ToSet
<1> QED BY <1>1, <1>2, <1>3, <1>4, <1>5 DEF Abstract!Request

LEMMA RequestSteps ==
  ASSUME RInv,
         \/ \E f \in Files, addresses \in Requests : SetFileBreakpoints(f, addresses)
         \/ \E addresses \in Requests : SetInstructionBreakpoints(addresses)
  PROVE  \E t \in Tables, a \in SUBSET Addr : Abstract!Request(t, a)
<1>0. fileBreakpoints \in [Files -> Seq(Addr)]
  BY DEF RInv, IInv, TypeOK
<1>1. ASSUME NEW f \in Files, NEW addresses \in Requests, SetFileBreakpoints(f, addresses)
      PROVE  \E t \in Tables, a \in SUBSET Addr : Abstract!Request(t, a)
  <2>1. /\ phase = "idle" /\ session # "none"
        /\ StartRebuild(f, addresses)
        /\ fileBreakpoints' = [fileBreakpoints EXCEPT ![f] = addresses]
        /\ instrBreakpoints' = instrBreakpoints
    BY <1>1 DEF SetFileBreakpoints
  <2>2. f \in Tables /\ f # InstrTable
    BY ConstantsAssumption DEF Tables, InstrTable
  <2>3. \A u \in Tables : Addresses(u)' = IF u = f THEN addresses ELSE Addresses(u)
    BY <1>0, <2>1, <2>2 DEF Addresses, Tables
  <2>4. ToSet(addresses) \in SUBSET Addr /\ Abstract!Request(f, ToSet(addresses))
    BY <2>1, <2>2, <2>3, RequestStep
  <2> QED BY <2>2, <2>4
<1>2. ASSUME NEW addresses \in Requests, SetInstructionBreakpoints(addresses)
      PROVE  \E t \in Tables, a \in SUBSET Addr : Abstract!Request(t, a)
  <2>1. /\ phase = "idle" /\ session # "none"
        /\ StartRebuild(InstrTable, addresses)
        /\ fileBreakpoints' = fileBreakpoints
        /\ instrBreakpoints' = addresses
    BY <1>2 DEF SetInstructionBreakpoints
  <2>2. InstrTable \in Tables
    BY DEF Tables
  <2>3. \A u \in Tables : Addresses(u)' = IF u = InstrTable THEN addresses ELSE Addresses(u)
    BY <2>1 DEF Addresses
  <2>4. ToSet(addresses) \in SUBSET Addr /\ Abstract!Request(InstrTable, ToSet(addresses))
    BY <2>1, <2>2, <2>3, RequestStep
  <2> QED BY <2>2, <2>4
<1> QED BY <1>1, <1>2

\* ClearAll: a node the DLL holds is withdrawn; the others it does not know of.
LEMMA WithdrawStep ==
  ASSUME RInv, ClearAllUnlink
  PROVE  (\E a \in Addr : Abstract!Withdraw(a)) \/ UNCHANGED Abstract!vars
<1>1. /\ phase = "clear" /\ phase' = "clear" /\ cursor # NULL
      /\ dll' = dll \ {<<cursor, pool[cursor].adr>>}
      /\ UNCHANGED <<pool, fileBreakpoints, instrBreakpoints, session, todo, temps, caller, told, list>>
  BY DEF ClearAllUnlink, tables
<1>2. UNCHANGED PerTable /\ TempAddresses' = TempAddresses
  BY <1>1, PerTableSame DEF TempAddresses
<1>3. ExitsLeft = <<>> /\ ExitsLeft' = <<>> /\ Stage = "withdraw" /\ Stage' = "withdraw"
  BY <1>1 DEF ExitsLeft, Stage
<1>4. CASE <<cursor, pool[cursor].adr>> \notin dll
  <2>1. dll' = dll
    BY <1>1, <1>4
  <2>2. UserInDll' = UserInDll
    BY <1>1, <2>1 DEF UserInDll
  <2> QED BY <1>1, <1>2, <1>3, <2>2, Unseen
<1>5. CASE <<cursor, pool[cursor].adr>> \in dll
  <2> DEFINE a == pool[cursor].adr
  <2>1. ToSet(temps) = {}
    BY <1>1 DEF RInv, TempsLinked, ToSet
  <2>2. \A n \in ToSet(list) : pool[n].number # TempNumber
    BY <2>1 DEF RInv, TempsLinked
  <2>3. \A b \in dll : b[1] \in ToSet(list) /\ b = <<b[1], pool[b[1]].adr>>
    <3>1. \A i \in NotCleared : i \in DOMAIN list
      BY DEF NotCleared
    <3>2. \A i \in DOMAIN list : list[i] \in ToSet(list)
      BY DEF ToSet
    <3>3. dll \subseteq {<<list[i], pool[list[i]].adr>> : i \in NotCleared}
      BY DEF RInv, IInv, DllMirror
    <3> QED BY <3>1, <3>2, <3>3
  <2>4. cursor \in ToSet(list)
    BY <1>5, <2>3
  <2>5. \A n \in ToSet(list) : n # cursor => pool[n].adr # pool[cursor].adr
    <3>1. NodeLimit
      BY LimitOfNodes DEF RInv, IInv
    <3> QED BY <2>2, <2>4, <3>1 DEF NodeLimit
  <2>6. UserInDll = {b[2] : b \in dll} /\ UserInDll' = {b[2] : b \in dll'}
    <3>1. {x \in dll : pool[x[1]].number # TempNumber} = dll
      BY <2>2, <2>3
    <3>2. {x \in dll' : pool[x[1]].number # TempNumber} = dll'
      BY <1>1, <2>2, <2>3
    <3> QED BY <1>1, <3>1, <3>2 DEF UserInDll
  <2>7. \A b \in dll : b[2] = a => b = <<cursor, a>>
    BY <2>3, <2>5
  <2>8. a \in UserInDll
    BY <1>5, <2>6
  <2>9. UserInDll' = UserInDll \ {a}
    <3>1. ASSUME NEW x \in UserInDll' PROVE x \in UserInDll \ {a}
      BY <1>1, <2>6, <2>7
    <3>2. ASSUME NEW x \in UserInDll \ {a} PROVE x \in UserInDll'
      <4>1. PICK b \in dll : x = b[2]
        BY <2>6
      <4>2. b \in dll'
        BY <1>1, <4>1
      <4> QED BY <2>6, <4>1, <4>2
    <3> QED BY <3>1, <3>2
  <2>10. a \in Addr
    BY <2>4 DEF RInv, LinkedKnown
  <2> HIDE DEF a
  <2>11. Abstract!Withdraw(a)
    BY <1>1, <1>2, <1>3, <2>8, <2>9 DEF Abstract!Withdraw
  <2> QED BY <2>10, <2>11
<1> QED BY <1>4, <1>5

LEMMA WithdrawnStep ==
  ASSUME RInv, ClearAllWipe
  PROVE  Abstract!Withdrawn
<1>1. /\ phase = "clear" /\ phase' = "arm" /\ cursor = NULL
      /\ UNCHANGED <<dll, fileBreakpoints, instrBreakpoints, session, temps, caller, told>>
  BY DEF ClearAllWipe, tables
<1>2. dll = {} /\ dll' = {}
  <2>1. \A i \in DOMAIN list : list[i] # NULL
    BY ListFacts DEF RInv, IInv
  <2>2. NotCleared = {}
    BY <1>1, <2>1 DEF NotCleared
  <2> QED BY <1>1, <2>2 DEF RInv, IInv, DllMirror
<1>3. UserInDll = {} /\ UserInDll' = {}
  BY <1>2 DEF UserInDll
<1>4. TempAddresses' = TempAddresses
  <2>1. temps = <<>> /\ temps' = <<>>
    BY <1>1 DEF RInv, TempsLinked
  <2> QED BY <2>1 DEF TempAddresses
<1>5. UNCHANGED PerTable
  BY <1>1, PerTableSame
<1>6. ExitsLeft = <<>> /\ ExitsLeft' = <<>> /\ Stage = "withdraw" /\ Stage' = "arm"
  BY <1>1 DEF ExitsLeft, Stage
<1> QED BY <1>1, <1>3, <1>4, <1>5, <1>6 DEF Abstract!Withdrawn

LEMMA NextTableStutter ==
  ASSUME NextTable
  PROVE  UNCHANGED Abstract!vars
<1>1. /\ phase = "arm" /\ phase' = "arm"
      /\ UNCHANGED <<pool, dll, fileBreakpoints, instrBreakpoints, session, temps, caller, told>>
  BY DEF NextTable, tables
<1>2. ExitsLeft = <<>> /\ ExitsLeft' = <<>> /\ Stage = "arm" /\ Stage' = "arm"
  BY <1>1 DEF ExitsLeft, Stage
<1> QED BY <1>1, <1>2, HoldsSame, PerTableSame, Unseen

\* TryArm: an address is armed, or it is skipped for a reason the promise
\* does not see.
LEMMA ArmStep ==
  ASSUME RInv, RInv', TryArm
  PROVE  (\E a \in Addr : Abstract!Arm(a)) \/ UNCHANGED Abstract!vars
<1>1. /\ phase = "arm" /\ phase' = "arm" /\ todo # <<>>
      /\ UNCHANGED <<fileBreakpoints, instrBreakpoints, session, temps, caller, told>>
  BY DEF TryArm, TryArmUpTo, tables
<1>2. ExitsLeft = <<>> /\ ExitsLeft' = <<>> /\ Stage = "arm" /\ Stage' = "arm"
  BY <1>1 DEF ExitsLeft, Stage
<1>3. UNCHANGED PerTable
  BY <1>1, PerTableSame
<1>4. CASE UNCHANGED <<pool, dll>>
  BY <1>1, <1>2, <1>3, <1>4, HoldsSame, Unseen
<1>5. CASE ~ (Len(armed) >= MaxUserBreakpoints) /\ Head(todo) \notin ToSet(armed) /\ Alloc # NULL
  <2> DEFINE a == Head(todo)
  <2>1. armed' = Append(armed, a) /\ a \in Addr
    BY <1>5, NodeArmed DEF RInv
  <2>2. armed \in Seq(Addr) /\ todo \in Seq(Addr) /\ Len(armed) \in Nat /\ MaxUserBreakpoints \in Nat
    BY ConstantsAssumption DEF RInv, IInv, TypeOK
  <2>3. ToSet(armed') = ToSet(armed) \cup {a}
    BY <2>1, <2>2, AppendRange
  <2>4. UserInDll = ToSet(armed) /\ Cardinality(UserInDll) = Len(armed)
    BY <1>1, UserWhileArming
  <2>5. UserInDll' = ToSet(armed')
    BY <1>1, UserNextArming
  <2>6. a \in WantedAddrs
    <3>1. a \in ToSet(todo)
      BY <1>1, <2>2, HeadAndTail
    <3> QED BY <1>1, <3>1 DEF RInv, ArmedSoFar
  <2>7. TempAddresses' = TempAddresses
    <3>1. temps = <<>> /\ temps' = <<>>
      BY <1>1 DEF RInv, TempsLinked
    <3> QED BY <3>1 DEF TempAddresses
  <2>8. a \in Abstract!Wanted \ UserInDll
    BY <1>5, <2>4, <2>6, WantedIs
  <2>9. Cardinality(UserInDll) < MaxUserBreakpoints
    BY <1>5, <2>2, <2>4
  <2>10. UserInDll' = UserInDll \cup {a}
    BY <2>3, <2>4, <2>5
  <2> HIDE DEF a
  <2>11. Abstract!Arm(a)
    BY <1>1, <1>2, <1>3, <2>7, <2>8, <2>9, <2>10, CountsAlike DEF Abstract!Arm
  <2> QED BY <2>1, <2>11
<1> QED BY <1>4, <1>5 DEF TryArm, TryArmUpTo

\* The reply: everything asked for is armed or every slot is used.
LEMMA AnswerStep ==
  ASSUME RInv, Reply
  PROVE  Abstract!Answer
<1>1. /\ phase = "arm" /\ phase' = "idle" /\ todo = <<>> /\ tablesLeft = <<>>
      /\ told' = [told EXCEPT ![caller] = ToSet(Addresses(caller)) \cap Armed]
      /\ UNCHANGED <<pool, dll, fileBreakpoints, instrBreakpoints, session, temps, caller>>
  BY DEF Reply, tables
<1>2. UNCHANGED <<UserInDll, TempAddresses, PerTable>>
  BY <1>1, HoldsSame, PerTableSame
<1>3. ExitsLeft = <<>> /\ ExitsLeft' = <<>> /\ Stage = "arm" /\ Stage' = "idle"
  BY <1>1 DEF ExitsLeft, Stage
<1>4. UserInDll = ToSet(armed) /\ UserInDll = Armed /\ Cardinality(UserInDll) = Len(armed)
  BY <1>1, UserWhileArming
<1>5. UserInDll = WantedAddrs \/ Cardinality(UserInDll) = MaxUserBreakpoints
  <2>1. ToSet(todo) = {} /\ ToSet(tablesLeft) = {}
    BY <1>1 DEF ToSet
  <2>2. /\ ToSet(armed) \subseteq WantedAddrs
        /\ \A t \in Tables : \/ Len(armed) = MaxUserBreakpoints
                             \/ ToSet(Addresses(t)) \subseteq ToSet(armed)
    BY <1>1, <2>1 DEF RInv, ArmedSoFar
  <2>3. CASE Len(armed) # MaxUserBreakpoints
    BY <1>4, <2>2, <2>3 DEF WantedAddrs
  <2> QED BY <1>4, <2>3
<1>6. told' = [told EXCEPT ![caller] = PerTable[caller] \cap UserInDll]
  <2>1. PerTable[caller] = ToSet(Addresses(caller))
    BY DEF RInv, IInv, TypeOK, PerTable
  <2> QED BY <1>1, <1>4, <2>1
<1> QED BY <1>1, <1>2, <1>3, <1>5, <1>6, WantedIs, CountsAlike DEF Abstract!Answer

\* The step-out.
LEMMA StepOutStep ==
  ASSUME RInv, NEW exits \in Exits, StepOutBegin(exits)
  PROVE  Abstract!StepOut
<1>1. /\ phase = "idle" /\ phase' = "temp" /\ session = "debug" /\ session' = session
      /\ Len(exits) >= 2 /\ todo' = exits /\ temps' = <<>>
      /\ UNCHANGED <<pool, dll, fileBreakpoints, instrBreakpoints, caller, told>>
  BY DEF StepOutBegin, tables
<1>2. temps = <<>>
  BY <1>1 DEF RInv, TempsLinked
<1>3. UNCHANGED <<UserInDll, TempAddresses, PerTable>>
  BY <1>1, <1>2, HoldsSame, PerTableSame
<1>4. ExitsLeft' = exits /\ Stage = "idle" /\ Stage' = "trap" /\ exits \in Seq(Addr)
  BY <1>1, ConstantsAssumption DEF ExitsLeft, Stage
<1> QED BY <1>1, <1>3, <1>4 DEF Abstract!StepOut

\* A sequence is the function of its places.
LEMMA SeqIsFunction ==
  ASSUME NEW S, NEW s \in Seq(S), NEW n, n = Len(s)
  PROVE  s = [i \in 1 .. n |-> s[i]]
OBVIOUS

\* AddTempBreakpoint: an exit gets its breakpoint exactly when a slot is left.
LEMMA TrapStep ==
  ASSUME RInv, AddTempBreakpoint
  PROVE  Abstract!Trap
<1>1. /\ phase = "temp" /\ phase' = "temp" /\ todo # <<>> /\ todo' = Tail(todo)
      /\ UNCHANGED <<fileBreakpoints, instrBreakpoints, session, caller, told>>
  BY DEF AddTempBreakpoint, tables
<1>2. ExitsLeft = todo /\ ExitsLeft' = Tail(todo) /\ Stage = "trap" /\ Stage' = "trap"
  BY <1>1 DEF ExitsLeft, Stage
<1>3. UNCHANGED PerTable
  BY <1>1, PerTableSame
<1>4. /\ dll = Linked
      /\ Cardinality(UserInDll) + Len(temps) < MaxBreakpoints <=> Alloc # NULL
  BY <1>1, SlotsWhileTrapping
<1>5. temps \in Seq(Nodes) /\ Len(temps) \in Nat /\ DOMAIN temps = 1 .. Len(temps)
  BY DEF RInv, IInv, TypeOK
<1>6. TempAddresses \in Seq(Nat) /\ Len(TempAddresses) = Len(temps)
  <2>1. \A i \in 1 .. Len(temps) : pool[temps[i]].adr \in Nat
    BY <1>5 DEF RInv, IInv, TypeOK, NodeRecord
  <2>2. TempAddresses = [i \in 1 .. Len(temps) |-> pool[temps[i]].adr]
    BY <1>5 DEF TempAddresses
  <2> QED BY <1>5, <2>1, <2>2
<1>7. UserInDll' = UserInDll /\
      TempAddresses' = IF Alloc # NULL THEN Append(TempAddresses, Head(todo)) ELSE TempAddresses
  <2>1. CASE Alloc = NULL
    <3>1. UNCHANGED <<pool, dll, temps>>
      BY <2>1 DEF AddTempBreakpoint
    <3> QED BY <2>1, <3>1, HoldsSame
  <2>2. CASE Alloc # NULL
    <3> HIDE DEF Alloc
    <3>1. /\ Alloc \notin ToSet(list)
          /\ ToSet(list') = ToSet(list) \cup {Alloc}
          /\ \A n \in ToSet(list) : /\ pool'[n].adr = pool[n].adr
                                    /\ pool'[n].number = pool[n].number
          /\ pool'[Alloc].adr = Head(todo)
          /\ pool'[Alloc].number = TempNumber
          /\ dll' = dll \cup {<<Alloc, Head(todo)>>}
          /\ temps' = Append(temps, Alloc)
          /\ Alloc \in Nodes
          /\ Head(todo) \in Addr
      BY <2>2, TempLinked DEF RInv
    <3>2. dll' = Linked'
      BY <1>4, <3>1 DEF Linked
    <3>3. UserNodes' = UserNodes
      BY <3>1 DEF UserNodes
    <3>4. \A n \in UserNodes : pool'[n].adr = pool[n].adr
      BY <3>1 DEF UserNodes
    <3>5. UserInDll' = UserInDll
      BY <1>4, <3>2, <3>3, <3>4, UserOfNodes
    <3>6. /\ DOMAIN temps' = 1 .. Len(temps) + 1
          /\ \A i \in 1 .. Len(temps) : temps'[i] = temps[i]
          /\ temps'[Len(temps) + 1] = Alloc
      BY <1>5, <3>1, AppendProperties
    <3>7. \A i \in 1 .. Len(temps) : temps[i] \in ToSet(list)
      BY <1>5 DEF RInv, TempsLinked, ToSet
    <3>8. TempAddresses' = [i \in 1 .. Len(temps) + 1 |->
                              IF i <= Len(temps) THEN TempAddresses[i] ELSE Head(todo)]
      <4>1. \A i \in 1 .. Len(temps) : TempAddresses[i] = pool[temps[i]].adr
        BY <1>5 DEF TempAddresses
      <4>2. ASSUME NEW i \in 1 .. Len(temps) + 1
            PROVE  pool'[temps'[i]].adr = IF i <= Len(temps) THEN TempAddresses[i] ELSE Head(todo)
        <5>1. CASE i \in 1 .. Len(temps)
          BY <1>5, <3>1, <3>6, <3>7, <4>1, <5>1
        <5>2. CASE i = Len(temps) + 1
          BY <1>5, <3>1, <3>6, <5>2
        <5> QED BY <1>5, <5>1, <5>2
      <4> QED BY <3>6, <4>2 DEF TempAddresses
    <3>9. TempAddresses' = Append(TempAddresses, Head(todo))
      <4>1. Head(todo) \in Nat
        BY <3>1, ConstantsAssumption
      <4>2. Append(TempAddresses, Head(todo)) =
              [i \in 1 .. Len(temps) + 1 |->
                 IF i <= Len(temps) THEN TempAddresses[i] ELSE Head(todo)]
        <5> DEFINE s == TempAddresses
                   e == Head(todo)
        <5>1. s \in Seq(Nat) /\ e \in Nat /\ Len(s) = Len(temps)
          BY <1>6, <4>1
        <5> HIDE DEF s, e
        <5>2. Append(s, e) = [i \in 1 .. Len(s) + 1 |-> IF i <= Len(s) THEN s[i] ELSE e]
          <6>1. /\ Append(s, e) \in Seq(Nat)
                /\ Len(Append(s, e)) = Len(s) + 1
                /\ \A i \in 1 .. Len(s) : Append(s, e)[i] = s[i]
                /\ Append(s, e)[Len(s) + 1] = e
            BY <5>1, AppendProperties
          <6>2. Append(s, e) = [i \in 1 .. Len(s) + 1 |-> Append(s, e)[i]]
            BY <6>1, SeqIsFunction, Zenon
          <6>3. \A i \in 1 .. Len(s) + 1 : Append(s, e)[i] = IF i <= Len(s) THEN s[i] ELSE e
            BY <1>5, <5>1, <6>1
          <6> QED BY <6>2, <6>3, Zenon
        <5> QED BY <5>1, <5>2 DEF s, e
      <4> QED BY <3>8, <4>2
    <3> QED BY <2>2, <3>5, <3>9
  <2> QED BY <2>1, <2>2
<1> HIDE DEF Alloc
<1>8. TempAddresses' = IF Cardinality(UserInDll) + Len(TempAddresses) < MaxBreakpoints
                       THEN Append(TempAddresses, Head(todo)) ELSE TempAddresses
  BY <1>4, <1>6, <1>7
<1> QED BY <1>1, <1>2, <1>3, <1>7, <1>8, CountsAlike DEF Abstract!Trap

LEMMA HaltedStep ==
  ASSUME StepOutRun
  PROVE  Abstract!Halted
<1>1. /\ phase = "temp" /\ phase' = "untemp" /\ todo = <<>>
      /\ UNCHANGED <<pool, dll, temps, fileBreakpoints, instrBreakpoints, session, caller, told>>
  BY DEF StepOutRun, tables
<1>2. ExitsLeft = <<>> /\ ExitsLeft' = <<>> /\ Stage = "trap" /\ Stage' = "release"
  BY <1>1 DEF ExitsLeft, Stage
<1> QED BY <1>1, <1>2, HoldsSame, PerTableSame DEF Abstract!Halted

\* RemoveTempBreakpoint takes the oldest of the step-out's breakpoints and
\* leaves every other one where it was.
LEMMA ReleaseStep ==
  ASSUME RInv, RemoveTempBreakpoint
  PROVE  Abstract!Release
<1> DEFINE bp == Head(temps)
<1>1. /\ phase = "untemp" /\ phase' = "untemp" /\ temps # <<>> /\ temps' = Tail(temps)
      /\ Unlink(bp)
      /\ dll' = dll \ {<<bp, pool[bp].adr>>}
      /\ UNCHANGED <<fileBreakpoints, instrBreakpoints, session, caller, told>>
  BY Zenon DEF RemoveTempBreakpoint, tables, Unlink
<1>2. ExitsLeft = <<>> /\ ExitsLeft' = <<>> /\ Stage = "release" /\ Stage' = "release"
  BY <1>1 DEF ExitsLeft, Stage
<1>3. UNCHANGED PerTable
  BY <1>1, PerTableSame
<1>4. /\ temps \in Seq(Nodes)
      /\ Len(temps) \in Nat \ {0}
      /\ DOMAIN temps = 1 .. Len(temps)
      /\ bp = temps[1]
      /\ temps' \in Seq(Nodes)
      /\ Len(temps') = Len(temps) - 1
      /\ \A i \in 1 .. Len(temps) - 1 : temps'[i] = temps[i + 1]
      /\ bp \in ToSet(temps)
  <2>1. temps \in Seq(Nodes)
    BY DEF RInv, IInv, TypeOK
  <2> QED BY <1>1, <2>1, HeadAndTail
<1> HIDE DEF bp
<1>5. bp \in ToSet(list) /\ pool[bp].number = TempNumber
  BY <1>4 DEF RInv, TempsLinked
<1>6. /\ ToSet(list') = ToSet(list) \ {bp}
      /\ \A n \in ToSet(list') : /\ pool'[n].adr = pool[n].adr
                                 /\ pool'[n].number = pool[n].number
  BY <1>1, <1>5, UnlinkEffect DEF RInv, IInv
<1>7. dll = Linked
  BY <1>1, MirrorOfNodes DEF RInv, IInv, TempsLinked
<1>8. UserInDll' = UserInDll
  <2>1. dll' = Linked'
    BY <1>1, <1>5, <1>6, <1>7 DEF Linked
  <2>2. UserNodes' = UserNodes
    BY <1>5, <1>6 DEF UserNodes
  <2>3. \A n \in UserNodes : pool'[n].adr = pool[n].adr
    BY <1>5, <1>6 DEF UserNodes
  <2> QED BY <1>7, <2>1, <2>2, <2>3, UserOfNodes
<1>9. TempAddresses' = Tail(TempAddresses) /\ TempAddresses # <<>>
  <2>1. \A i \in 1 .. Len(temps) : temps[i] \in ToSet(list) /\ temps[i] \in Nodes
    <3>1. \A i \in 1 .. Len(temps) : temps[i] \in ToSet(temps) /\ temps[i] \in Nodes
      BY <1>4 DEF ToSet
    <3> QED BY <3>1 DEF RInv, TempsLinked
  <2>2. \A i, j \in DOMAIN temps : i # j => temps[i] # temps[j]
    BY <1>1 DEF RInv, IInv, LoopInv
  <2>3. DOMAIN temps' = 1 .. Len(temps) - 1
    BY <1>4
  <2>4. ASSUME NEW i \in 1 .. Len(temps) - 1
        PROVE  pool'[temps'[i]].adr = pool[temps[i + 1]].adr
    <3>1. i + 1 \in 1 .. Len(temps) /\ 1 \in 1 .. Len(temps) /\ i + 1 # 1
      BY <1>4
    <3>2. temps[i + 1] # bp /\ temps[i + 1] \in ToSet(list)
      BY <1>4, <2>1, <2>2, <3>1
    <3> QED BY <1>4, <1>6, <3>2
  <2>5. TempAddresses' = [i \in 1 .. Len(temps) - 1 |-> pool[temps[i + 1]].adr]
    BY <2>3, <2>4 DEF TempAddresses
  <2>6. TempAddresses = [i \in 1 .. Len(temps) |-> pool[temps[i]].adr]
    BY <1>4 DEF TempAddresses
  <2> DEFINE s == TempAddresses
  <2>7. s \in Seq(Nat) /\ Len(s) = Len(temps) /\ \A i \in 1 .. Len(temps) : s[i] = pool[temps[i]].adr
    <3>1. \A i \in 1 .. Len(temps) : pool[temps[i]].adr \in Nat
      BY <2>1 DEF RInv, IInv, TypeOK, NodeRecord
    <3> QED BY <1>4, <2>6, <3>1
  <2> HIDE DEF s
  <2>8. Tail(s) = [i \in 1 .. Len(s) - 1 |-> s[i + 1]] /\ s # <<>>
    <3>1. s # <<>>
      BY <1>4, <2>7
    <3>2. /\ Tail(s) \in Seq(Nat)
          /\ Len(Tail(s)) = Len(s) - 1
          /\ \A i \in 1 .. Len(s) - 1 : Tail(s)[i] = s[i + 1]
      BY <2>7, <3>1, HeadAndTail
    <3>3. Tail(s) = [i \in 1 .. Len(s) - 1 |-> Tail(s)[i]]
      BY <3>2, SeqIsFunction, Zenon
    <3> QED BY <3>1, <3>2, <3>3, Zenon
  <2>9. \A i \in 1 .. Len(temps) - 1 : i + 1 \in 1 .. Len(temps)
    BY <1>4
  <2>10. Tail(s) = [i \in 1 .. Len(temps) - 1 |-> pool[temps[i + 1]].adr]
    BY <2>7, <2>8, <2>9
  <2> QED BY <2>5, <2>8, <2>10 DEF s
<1> QED BY <1>1, <1>2, <1>3, <1>8, <1>9 DEF Abstract!Release

LEMMA ReleasedStep ==
  ASSUME StepOutDone
  PROVE  Abstract!Released
<1>1. /\ phase = "untemp" /\ phase' = "idle" /\ temps = <<>>
      /\ UNCHANGED <<pool, dll, temps, fileBreakpoints, instrBreakpoints, session, caller, told>>
  BY DEF StepOutDone, tables
<1>2. ExitsLeft = <<>> /\ ExitsLeft' = <<>> /\ Stage = "release" /\ Stage' = "idle"
  BY <1>1 DEF ExitsLeft, Stage
<1>3. TempAddresses = <<>>
  BY <1>1 DEF TempAddresses
<1> QED BY <1>1, <1>2, <1>3, HoldsSame, PerTableSame DEF Abstract!Released

LEMMA RefinesStep == RInv /\ RInv' /\ [Next]_vars => [Abstract!Next]_(Abstract!vars)
<1> SUFFICES ASSUME RInv, RInv', [Next]_vars PROVE Abstract!Next \/ UNCHANGED Abstract!vars
  OBVIOUS
<1>1. CASE InitDebugSession \/ InitFlashSession
  BY <1>1, OpenStep DEF Abstract!Next
<1>2. CASE UninitAgdiSession
  BY <1>2, CloseStep DEF Abstract!Next
<1>3. CASE \/ \E f \in Files, addresses \in Requests : SetFileBreakpoints(f, addresses)
           \/ \E addresses \in Requests : SetInstructionBreakpoints(addresses)
  BY <1>3, RequestSteps DEF Abstract!Next
<1>4. CASE \E exits \in Exits : StepOutBegin(exits)
  BY <1>4, StepOutStep DEF Abstract!Next
<1>5. CASE ClearAllUnlink
  BY <1>5, WithdrawStep DEF Abstract!Next, Abstract!Progress
<1>6. CASE ClearAllWipe
  BY <1>6, WithdrawnStep DEF Abstract!Next, Abstract!Progress
<1>7. CASE NextTable
  BY <1>7, NextTableStutter
<1>8. CASE TryArm
  BY <1>8, ArmStep DEF Abstract!Next, Abstract!Progress
<1>9. CASE Reply
  BY <1>9, AnswerStep DEF Abstract!Next, Abstract!Progress
<1>10. CASE AddTempBreakpoint
  BY <1>10, TrapStep DEF Abstract!Next, Abstract!Progress
<1>11. CASE StepOutRun
  BY <1>11, HaltedStep DEF Abstract!Next, Abstract!Progress
<1>12. CASE RemoveTempBreakpoint
  BY <1>12, ReleaseStep DEF Abstract!Next, Abstract!Progress
<1>13. CASE StepOutDone
  BY <1>13, ReleasedStep DEF Abstract!Next, Abstract!Progress
<1>14. CASE UNCHANGED vars
  <2>1. UNCHANGED <<pool, dll, temps, fileBreakpoints, instrBreakpoints, session, phase, todo,
                    caller, told>>
    BY <1>14 DEF vars
  <2>2. UNCHANGED <<ExitsLeft, Stage>>
    BY <2>1 DEF ExitsLeft, Stage
  <2> QED BY <2>1, <2>2, HoldsSame, PerTableSame, Unseen
<1> QED
  BY <1>1, <1>2, <1>3, <1>4, <1>5, <1>6, <1>7, <1>8, <1>9, <1>10, <1>11, <1>12, <1>13, <1>14
  DEF Next, HandlerStep

\* Whatever the pool and the list go through, the breakpoints the DLL holds
\* change only as BreakpointSet allows: nothing is armed before the last old
\* breakpoint is gone, no address is armed twice or unasked for, a reply tells
\* what the DLL holds and comes only when nothing more fits, an exit of a
\* step-out is skipped only with all slots taken, and its breakpoints leave the
\* user's alone.
THEOREM PromiseOfSteps == Spec => Abstract!Init /\ [][Abstract!Next]_(Abstract!vars)
<1>1. Init => Abstract!Init
  BY RefinesInit
<1>2. RInv /\ RInv' /\ [Next]_vars => [Abstract!Next]_(Abstract!vars)
  BY RefinesStep
<1> QED BY <1>1, <1>2, RInductive, PTL DEF Spec

-----------------------------------------------------------------------------
\* The places of the tables.

\* AskedFor is the addresses of TablesInOrder's tables, and a place is an entry
\* of one of them.
LEMMA AskedForShape ==
  ASSUME TypeOK
  PROVE  /\ Len(fileOrder) \in Nat
         /\ DOMAIN AskedFor = 1 .. Len(fileOrder) + 1
         /\ Len(TablesInOrder) = Len(fileOrder) + 1
         /\ \A k \in 1 .. Len(fileOrder) + 1 :
              /\ AskedFor[k] \in Seq(Addr)
              /\ AskedFor[k] = Addresses(TablesInOrder[k])
<1> DEFINE files == [k \in DOMAIN fileOrder |-> fileBreakpoints[fileOrder[k]]]
<1>1. /\ fileBreakpoints \in [Files -> Seq(Addr)]
      /\ fileOrder \in Seq(Files)
      /\ instrBreakpoints \in Seq(Addr)
      /\ InstrTable \notin Files
  BY ConstantsAssumption DEF TypeOK, InstrTable
<1>2. Len(fileOrder) \in Nat /\ DOMAIN fileOrder = 1 .. Len(fileOrder)
      /\ \A k \in 1 .. Len(fileOrder) : fileOrder[k] \in Files
  BY <1>1
<1>3. files \in Seq(Seq(Addr)) /\ Len(files) = Len(fileOrder)
      /\ \A k \in 1 .. Len(fileOrder) : files[k] = fileBreakpoints[fileOrder[k]]
  <2>1. files = [k \in 1 .. Len(fileOrder) |-> fileBreakpoints[fileOrder[k]]]
    BY <1>2
  <2>2. \A k \in 1 .. Len(fileOrder) : fileBreakpoints[fileOrder[k]] \in Seq(Addr)
    BY <1>1, <1>2
  <2> HIDE DEF files
  <2> DEFINE T == Seq(Addr)
  <2>3. \A k \in 1 .. Len(fileOrder) : fileBreakpoints[fileOrder[k]] \in T
    BY <2>2
  <2> HIDE DEF T
  <2>4. files \in Seq(T) /\ Len(files) = Len(fileOrder)
        /\ \A k \in 1 .. Len(fileOrder) : files[k] = fileBreakpoints[fileOrder[k]]
    BY <1>2, <2>1, <2>3
  <2> QED BY <2>4 DEF T
<1>4. AskedFor = Append(files, instrBreakpoints)
  BY DEF AskedFor
<1> HIDE DEF files
<1>5. /\ AskedFor \in Seq(Seq(Addr))
      /\ Len(AskedFor) = Len(fileOrder) + 1
      /\ \A k \in 1 .. Len(fileOrder) : AskedFor[k] = fileBreakpoints[fileOrder[k]]
      /\ AskedFor[Len(fileOrder) + 1] = instrBreakpoints
  BY <1>1, <1>3, <1>4, AppendProperties
<1>6. DOMAIN AskedFor = 1 .. Len(fileOrder) + 1
  BY <1>2, <1>5
<1>7. /\ Len(TablesInOrder) = Len(fileOrder) + 1
      /\ \A k \in 1 .. Len(fileOrder) : TablesInOrder[k] = fileOrder[k]
      /\ TablesInOrder[Len(fileOrder) + 1] = InstrTable
  <2>1. fileOrder \in Seq(Tables) /\ InstrTable \in Tables
    BY <1>1 DEF Tables
  <2> QED BY <2>1, AppendProperties DEF TablesInOrder
<1>8. ASSUME NEW k \in 1 .. Len(fileOrder) + 1
      PROVE  AskedFor[k] \in Seq(Addr) /\ AskedFor[k] = Addresses(TablesInOrder[k])
  <2>1. CASE k \in 1 .. Len(fileOrder)
    BY <1>1, <1>2, <1>5, <1>7, <2>1 DEF Addresses
  <2>2. CASE k = Len(fileOrder) + 1
    BY <1>1, <1>5, <1>7, <2>2 DEF Addresses
  <2> QED BY <1>2, <2>1, <2>2
<1> QED BY <1>2, <1>6, <1>7, <1>8

LEMMA PlaceShape ==
  ASSUME TypeOK
  PROVE  /\ \A p \in Places : \E k \in 1 .. Len(fileOrder) + 1 :
              \E i \in 1 .. Len(AskedFor[k]) : p = <<k, i>>
         /\ \A k \in 1 .. Len(fileOrder) + 1 :
              \A i \in 1 .. Len(AskedFor[k]) : <<k, i>> \in Places
<1>1. \A k \in 1 .. Len(fileOrder) + 1 : DOMAIN AskedFor[k] = 1 .. Len(AskedFor[k])
  BY AskedForShape
<1>2. DOMAIN AskedFor = 1 .. Len(fileOrder) + 1
  BY AskedForShape
<1>3. Places = UNION {{k} \X (1 .. Len(AskedFor[k])) : k \in 1 .. Len(fileOrder) + 1}
  BY <1>1, <1>2 DEF Places
<1>4. ASSUME NEW p \in Places
      PROVE  \E k \in 1 .. Len(fileOrder) + 1 : \E i \in 1 .. Len(AskedFor[k]) : p = <<k, i>>
  <2>1. PICK k \in 1 .. Len(fileOrder) + 1 : p \in {k} \X (1 .. Len(AskedFor[k]))
    BY <1>3
  <2>2. PICK i \in 1 .. Len(AskedFor[k]) : p = <<k, i>>
    BY <2>1
  <2> QED BY <2>2
<1>5. ASSUME NEW k \in 1 .. Len(fileOrder) + 1, NEW i \in 1 .. Len(AskedFor[k])
      PROVE  <<k, i>> \in Places
  <2>1. <<k, i>> \in {k} \X (1 .. Len(AskedFor[k]))
    OBVIOUS
  <2> QED BY <1>3, <2>1
<1> QED BY <1>4, <1>5

\* While no table changes, what is planned does not.
LEMMA PlanSame ==
  ASSUME UNCHANGED <<fileBreakpoints, fileOrder, instrBreakpoints>>
  PROVE  /\ AskedFor' = AskedFor
         /\ TablesInOrder' = TablesInOrder
         /\ Places' = Places
         /\ FirstPlaces' = FirstPlaces
         /\ PlanLength' = PlanLength
         /\ \A p : AskedAt(p)' = AskedAt(p)
         /\ \A p : Rank(p)' = Rank(p)
<1>1. AskedFor' = AskedFor
  BY DEF AskedFor
<1>2. TablesInOrder' = TablesInOrder
  BY DEF TablesInOrder
<1>3. Places' = Places
  BY <1>1 DEF Places
<1>4. \A p : AskedAt(p)' = AskedAt(p)
  BY <1>1 DEF AskedAt
<1>5. FirstPlaces' = FirstPlaces
  BY <1>3, <1>4 DEF FirstPlaces
<1>6. \A p : Rank(p)' = Rank(p)
  BY <1>5 DEF Rank
<1>7. PlanLength' = PlanLength
  BY <1>5 DEF PlanLength
<1> QED BY <1>1, <1>2, <1>3, <1>4, <1>5, <1>6, <1>7

-----------------------------------------------------------------------------
\* Where the loops of RebuildDllBreakpoints are.

\* The table being gone through (0 before the first), the entries of it already
\* handled, and the places handled in all.
Current == Len(fileOrder) + 1 - Len(tablesLeft)
Handled == IF Current = 0 THEN 0 ELSE Len(AskedFor[Current]) - Len(todo)
Done    == {p \in Places : Before(p, <<Current, Handled + 1>>)}

\* What is still to be done is the rest of the tables and of the current one.
LoopPlace ==
  phase = "arm" =>
    /\ Len(tablesLeft) <= Len(fileOrder) + 1
    /\ \A j \in DOMAIN tablesLeft : tablesLeft[j] = TablesInOrder[Current + j]
    /\ Current = 0 => todo = <<>>
    /\ Current # 0 => /\ Len(todo) <= Len(AskedFor[Current])
                      /\ \A j \in DOMAIN todo : todo[j] = AskedFor[Current][Handled + j]

\* The types of the two.
LEMMA LoopTypes ==
  ASSUME TypeOK, LoopPlace, phase = "arm"
  PROVE  /\ Len(tablesLeft) \in Nat
         /\ DOMAIN tablesLeft = 1 .. Len(tablesLeft)
         /\ Len(todo) \in Nat
         /\ DOMAIN todo = 1 .. Len(todo)
         /\ Current \in 0 .. Len(fileOrder) + 1
         /\ Handled \in Nat
         /\ Current # 0 => /\ AskedFor[Current] \in Seq(Addr)
                           /\ Len(AskedFor[Current]) \in Nat
                           /\ Handled + Len(todo) = Len(AskedFor[Current])
<1>1. /\ Len(tablesLeft) \in Nat
      /\ DOMAIN tablesLeft = 1 .. Len(tablesLeft)
      /\ Len(todo) \in Nat
      /\ DOMAIN todo = 1 .. Len(todo)
  BY DEF TypeOK
<1>2. Len(fileOrder) \in Nat
  BY AskedForShape
<1>3. Current \in 0 .. Len(fileOrder) + 1
  <2>1. Len(tablesLeft) <= Len(fileOrder) + 1
    BY DEF LoopPlace
  <2> QED BY <1>1, <1>2, <2>1 DEF Current
<1>4. CASE Current = 0
  BY <1>1, <1>3, <1>4 DEF Handled
<1>5. CASE Current # 0
  <2>1. Current \in 1 .. Len(fileOrder) + 1
    BY <1>2, <1>3, <1>5
  <2>2. AskedFor[Current] \in Seq(Addr)
    BY <2>1, AskedForShape
  <2>3. Len(AskedFor[Current]) \in Nat /\ Len(todo) <= Len(AskedFor[Current])
    BY <1>5, <2>2 DEF LoopPlace
  <2>4. Handled = Len(AskedFor[Current]) - Len(todo)
    BY <1>5 DEF Handled
  <2> QED BY <1>1, <1>3, <2>2, <2>3, <2>4
<1> QED BY <1>1, <1>3, <1>4, <1>5

\* From an empty list on, a loop handles the tables' entries one by one.
LEMMA LoopStarts ==
  ASSUME TypeOK, ClearAllWipe
  PROVE  LoopPlace' /\ Done' = {}
<1>1. /\ tablesLeft' = TablesInOrder /\ todo' = <<>>
      /\ UNCHANGED <<fileBreakpoints, fileOrder, instrBreakpoints>>
  BY DEF ClearAllWipe, tables
<1>2. /\ Len(fileOrder) \in Nat
      /\ Len(TablesInOrder) = Len(fileOrder) + 1
  BY AskedForShape
<1>3. Current' = 0 /\ Handled' = 0
  BY <1>1, <1>2 DEF Current, Handled
<1>4. Places' = Places /\ TablesInOrder' = TablesInOrder
  BY <1>1, PlanSame
<1>5. LoopPlace'
  <2>1. Len(tablesLeft') <= Len(fileOrder') + 1
    BY <1>1, <1>2
  <2>2. \A j \in DOMAIN tablesLeft' : tablesLeft'[j] = TablesInOrder'[Current' + j]
    <3>1. fileOrder \in Seq(Files)
      BY DEF TypeOK
    <3>2. TablesInOrder \in Seq(Tables)
      BY <3>1 DEF TablesInOrder, Tables
    <3>3. \A j \in DOMAIN TablesInOrder : 0 + j = j
      BY <3>2
    <3> QED BY <1>1, <1>3, <1>4, <3>3
  <2> QED BY <1>1, <1>3, <2>1, <2>2 DEF LoopPlace
<1>6. Done' = {}
  <2>1. ASSUME NEW p \in Places PROVE ~ Before(p, <<0, 1>>)
    <3>1. PICK k \in 1 .. Len(fileOrder) + 1 : \E i \in 1 .. Len(AskedFor[k]) : p = <<k, i>>
      BY PlaceShape
    <3>2. p[1] = k
      BY <3>1
    <3>3. k \in Nat /\ k > 0
      BY <1>2, <3>1
    <3> QED BY <3>2, <3>3 DEF Before
  <2>2. Done' = {p \in Places : Before(p, <<0, 1>>)}
    BY <1>3, <1>4 DEF Done
  <2> QED BY <2>1, <2>2
<1> QED BY <1>5, <1>6

LEMMA LoopNextTable ==
  ASSUME TypeOK, LoopPlace, NextTable
  PROVE  LoopPlace' /\ Done' = Done
<1>1. /\ phase = "arm" /\ todo = <<>> /\ tablesLeft # <<>>
      /\ todo' = Addresses(Head(tablesLeft))
      /\ tablesLeft' = Tail(tablesLeft)
      /\ UNCHANGED <<fileBreakpoints, fileOrder, instrBreakpoints, phase>>
  BY DEF NextTable, tables
<1>2. /\ AskedFor' = AskedFor
      /\ TablesInOrder' = TablesInOrder
      /\ Places' = Places
  BY <1>1, PlanSame
<1>3. /\ Len(tablesLeft) \in Nat
      /\ DOMAIN tablesLeft = 1 .. Len(tablesLeft)
      /\ Current \in 0 .. Len(fileOrder) + 1
      /\ Handled \in Nat
      /\ Current # 0 => Handled = Len(AskedFor[Current])
  <2>1. Len(todo) = 0
    BY <1>1
  <2> QED BY <1>1, <2>1, LoopTypes
<1>4. tablesLeft \in Seq(Tables) /\ Len(fileOrder) \in Nat
  BY AskedForShape DEF TypeOK
<1>5. /\ Len(tablesLeft) # 0
      /\ tablesLeft' \in Seq(Tables)
      /\ Len(tablesLeft') = Len(tablesLeft) - 1
      /\ \A j \in 1 .. Len(tablesLeft) - 1 : tablesLeft'[j] = tablesLeft[j + 1]
      /\ DOMAIN tablesLeft' = 1 .. Len(tablesLeft) - 1
      /\ Head(tablesLeft) = tablesLeft[1]
  <2>1. Len(tablesLeft) # 0 /\ Head(tablesLeft) = tablesLeft[1]
    BY <1>1, <1>4
  <2>2. /\ tablesLeft' \in Seq(Tables)
        /\ Len(tablesLeft') = Len(tablesLeft) - 1
        /\ \A j \in 1 .. Len(tablesLeft) - 1 : tablesLeft'[j] = tablesLeft[j + 1]
    BY <1>1, <1>4, HeadAndTail
  <2>3. DOMAIN tablesLeft' = 1 .. Len(tablesLeft) - 1
    BY <2>2
  <2> QED BY <2>1, <2>2, <2>3
<1>6. Current' = Current + 1
  <2>1. Len(fileOrder') = Len(fileOrder) /\ Len(tablesLeft') = Len(tablesLeft) - 1
    BY <1>1, <1>5
  <2>2. Len(fileOrder) \in Nat /\ Len(tablesLeft) \in Nat
    BY <1>3, <1>4
  <2>3. Current' = Len(fileOrder') + 1 - Len(tablesLeft')
    BY DEF Current
  <2> QED BY <2>1, <2>2, <2>3 DEF Current
<1>7. Current + 1 \in 1 .. Len(fileOrder) + 1 /\ 1 \in 1 .. Len(tablesLeft)
  <2>1. Len(fileOrder) \in Nat /\ Len(tablesLeft) \in Nat \ {0}
    BY <1>3, <1>4, <1>5
  <2>2. Current = Len(fileOrder) + 1 - Len(tablesLeft)
    BY DEF Current
  <2>3. Current >= 0
    BY <1>3, <2>1
  <2> QED BY <2>1, <2>2, <2>3
<1>8. todo' = AskedFor[Current + 1]
  <2>1. tablesLeft[1] = TablesInOrder[Current + 1]
    BY <1>1, <1>3, <1>7 DEF LoopPlace
  <2> QED BY <1>1, <1>5, <1>7, <2>1, AskedForShape
<1>9. AskedFor[Current + 1] \in Seq(Addr) /\ Len(AskedFor[Current + 1]) \in Nat
  BY <1>7, AskedForShape
<1>10. Current' # 0 /\ Handled' = 0
  BY <1>2, <1>3, <1>6, <1>8, <1>9 DEF Handled
<1>11. LoopPlace'
  <2>1. Len(tablesLeft') <= Len(fileOrder') + 1
    BY <1>1, <1>3, <1>4, <1>5 DEF LoopPlace
  <2>2. ASSUME NEW j \in DOMAIN tablesLeft'
        PROVE  tablesLeft'[j] = TablesInOrder'[Current' + j]
    <3>1. j + 1 \in DOMAIN tablesLeft /\ Current + (j + 1) = Current' + j /\ j \in 1 .. Len(tablesLeft) - 1
      <4>1. j \in 1 .. Len(tablesLeft) - 1 /\ Len(tablesLeft) \in Nat /\ Current \in Nat
        BY <1>3, <1>4, <1>5
      <4>2. j + 1 \in 1 .. Len(tablesLeft) /\ Current + (j + 1) = (Current + 1) + j
        BY <4>1
      <4> QED BY <1>3, <1>6, <4>1, <4>2
    <3>2. tablesLeft[j + 1] = TablesInOrder[Current + (j + 1)]
      BY <1>1, <3>1 DEF LoopPlace
    <3> QED BY <1>2, <1>5, <3>1, <3>2
  <2>3. Len(todo') <= Len(AskedFor'[Current'])
    BY <1>2, <1>6, <1>8, <1>9
  <2>4. ASSUME NEW j \in DOMAIN todo' PROVE todo'[j] = AskedFor'[Current'][Handled' + j]
    <3>1. 0 + j = j
      BY <1>8, <1>9
    <3> QED BY <1>2, <1>6, <1>8, <1>10, <3>1
  <2> QED BY <1>1, <1>10, <2>1, <2>2, <2>3, <2>4 DEF LoopPlace
<1>12. Done' = Done
  <2>1. ASSUME NEW p \in Places
        PROVE  Before(p, <<Current, Handled + 1>>) <=> Before(p, <<Current + 1, 1>>)
    <3>1. PICK k \in 1 .. Len(fileOrder) + 1 : \E i \in 1 .. Len(AskedFor[k]) : p = <<k, i>>
      BY PlaceShape
    <3>2. PICK i \in 1 .. Len(AskedFor[k]) : p = <<k, i>>
      BY <3>1
    <3>3. Len(AskedFor[k]) \in Nat
      BY AskedForShape
    <3>4. k = Current => i < Handled + 1
      BY <1>3, <1>4, <3>2, <3>3
    <3>5. k \in Nat /\ i \in Nat /\ i >= 1 /\ Current \in Nat
      BY <1>3, <1>4, <3>2, <3>3
    <3>6. Before(p, <<Current, Handled + 1>>) <=> k <= Current
      BY <3>2, <3>4, <3>5 DEF Before
    <3>7. Before(p, <<Current + 1, 1>>) <=> k <= Current
      BY <3>2, <3>5 DEF Before
    <3> QED BY <3>6, <3>7
  <2>2. Done' = {p \in Places : Before(p, <<Current + 1, 1>>)}
    BY <1>2, <1>6, <1>10 DEF Done
  <2> QED BY <2>1, <2>2 DEF Done
<1> QED BY <1>11, <1>12

\* TryArm handles the next entry.
LEMMA LoopTryArm ==
  ASSUME TypeOK, LoopPlace, TryArm
  PROVE  /\ LoopPlace'
         /\ <<Current, Handled + 1>> \in Places
         /\ AskedAt(<<Current, Handled + 1>>) = Head(todo)
         /\ <<Current, Handled + 1>> \notin Done
         /\ Done' = Done \cup {<<Current, Handled + 1>>}
<1>1. /\ phase = "arm" /\ todo # <<>> /\ todo' = Tail(todo)
      /\ UNCHANGED <<fileBreakpoints, fileOrder, instrBreakpoints, phase, tablesLeft>>
  BY DEF TryArm, TryArmUpTo, tables
<1>2. /\ AskedFor' = AskedFor
      /\ TablesInOrder' = TablesInOrder
      /\ Places' = Places
  BY <1>1, PlanSame
<1>3. /\ Len(todo) \in Nat
      /\ DOMAIN todo = 1 .. Len(todo)
      /\ Handled \in Nat
      /\ Current # 0
      /\ Current \in 1 .. Len(fileOrder) + 1
      /\ AskedFor[Current] \in Seq(Addr)
      /\ Len(AskedFor[Current]) \in Nat
      /\ Handled + Len(todo) = Len(AskedFor[Current])
      /\ Len(fileOrder) \in Nat
  <2>1. Current # 0
    BY <1>1 DEF LoopPlace
  <2>2. Len(fileOrder) \in Nat
    BY AskedForShape
  <2> QED BY <1>1, <2>1, <2>2, LoopTypes
<1>4. /\ Len(todo) # 0
      /\ Len(todo') = Len(todo) - 1
      /\ \A j \in 1 .. Len(todo) - 1 : todo'[j] = todo[j + 1]
      /\ DOMAIN todo' = 1 .. Len(todo) - 1
      /\ Head(todo) = todo[1]
  <2>1. todo \in Seq(Addr)
    BY DEF TypeOK
  <2>2. Len(todo) # 0 /\ Head(todo) = todo[1]
    BY <1>1, <2>1
  <2>3. /\ todo' \in Seq(Addr)
        /\ Len(todo') = Len(todo) - 1
        /\ \A j \in 1 .. Len(todo) - 1 : todo'[j] = todo[j + 1]
    BY <1>1, <2>1, HeadAndTail
  <2>4. DOMAIN todo' = 1 .. Len(todo) - 1
    BY <2>3
  <2> QED BY <2>2, <2>3, <2>4
<1>5. Current' = Current
  BY <1>1 DEF Current
<1>6. Handled' = Handled + 1
  <2>1. Handled' = Len(AskedFor[Current]) - Len(todo')
    BY <1>2, <1>3, <1>5 DEF Handled
  <2>2. Len(todo') = Len(todo) - 1 /\ Len(todo) \in Nat /\ Handled \in Nat
        /\ Len(AskedFor[Current]) \in Nat /\ Handled + Len(todo) = Len(AskedFor[Current])
    BY <1>3, <1>4
  <2> HIDE DEF Handled
  <2> QED BY <2>1, <2>2
<1>7. \A j \in 1 .. Len(todo) : todo[j] = AskedFor[Current][Handled + j]
  BY <1>1, <1>3 DEF LoopPlace
<1>8. LoopPlace'
  <2>1. ASSUME NEW j \in DOMAIN todo' PROVE todo'[j] = AskedFor'[Current'][Handled' + j]
    <3>1. j \in 1 .. Len(todo) - 1 /\ j + 1 \in 1 .. Len(todo) /\ Handled' + j = Handled + (j + 1)
      <4>1. j \in 1 .. Len(todo) - 1 /\ Len(todo) \in Nat /\ Handled \in Nat
        BY <1>3, <1>4
      <4>2. j + 1 \in 1 .. Len(todo) /\ (Handled + 1) + j = Handled + (j + 1)
        BY <4>1
      <4> QED BY <1>6, <4>1, <4>2
    <3> QED BY <1>2, <1>4, <1>5, <1>7, <3>1
  <2>2. Len(todo') <= Len(AskedFor'[Current'])
    BY <1>2, <1>3, <1>4, <1>5
  <2>3. Len(tablesLeft') <= Len(fileOrder') + 1
    BY <1>1 DEF LoopPlace
  <2>4. \A j \in DOMAIN tablesLeft' : tablesLeft'[j] = TablesInOrder'[Current' + j]
    BY <1>1, <1>2, <1>5 DEF LoopPlace
  <2> QED BY <1>3, <1>5, <2>1, <2>2, <2>3, <2>4 DEF LoopPlace
<1>9. 1 \in 1 .. Len(todo) /\ Handled + 1 \in 1 .. Len(AskedFor[Current])
  BY <1>3, <1>4
<1>10. <<Current, Handled + 1>> \in Places
  BY <1>3, <1>9, PlaceShape
<1>11. AskedAt(<<Current, Handled + 1>>) = Head(todo)
  BY <1>4, <1>7, <1>9 DEF AskedAt
<1>12. ASSUME NEW p \in Places
       PROVE  Before(p, <<Current, (Handled + 1) + 1>>) <=>
                Before(p, <<Current, Handled + 1>>) \/ p = <<Current, Handled + 1>>
  <2>1. PICK k \in 1 .. Len(fileOrder) + 1 : \E i \in 1 .. Len(AskedFor[k]) : p = <<k, i>>
    BY PlaceShape
  <2>2. PICK i \in 1 .. Len(AskedFor[k]) : p = <<k, i>>
    BY <2>1
  <2>3. Len(AskedFor[k]) \in Nat
    BY AskedForShape
  <2>4. k \in Nat /\ i \in Nat
    BY <1>3, <2>2, <2>3
  <2> QED BY <1>3, <2>2, <2>4 DEF Before
<1>13. Done' = Done \cup {<<Current, Handled + 1>>}
  <2>1. Done' = {p \in Places : Before(p, <<Current, (Handled + 1) + 1>>)}
    BY <1>2, <1>5, <1>6 DEF Done
  <2> QED BY <1>10, <1>12, <2>1 DEF Done
<1>14. <<Current, Handled + 1>> \notin Done
  BY <1>3 DEF Done, Before
<1> QED BY <1>8, <1>10, <1>11, <1>13, <1>14

\* When nothing is left, every place has been handled.
LEMMA LoopEnds ==
  ASSUME TypeOK, LoopPlace, phase = "arm", todo = <<>>, tablesLeft = <<>>
  PROVE  Done = Places
<1>1. Len(todo) = 0 /\ Len(tablesLeft) = 0
  OBVIOUS
<1>2. Len(fileOrder) \in Nat
  BY AskedForShape
<1>3. Current = Len(fileOrder) + 1
  BY <1>1, <1>2 DEF Current
<1>4. Handled = Len(AskedFor[Current])
  <2>1. Current # 0
    BY <1>2, <1>3
  <2>2. Len(AskedFor[Current]) \in Nat /\ Handled + Len(todo) = Len(AskedFor[Current]) /\ Handled \in Nat
    BY <2>1, LoopTypes
  <2> HIDE DEF Handled
  <2> QED BY <1>1, <2>2
<1>5. ASSUME NEW p \in Places PROVE Before(p, <<Current, Handled + 1>>)
  <2>1. PICK k \in 1 .. Len(fileOrder) + 1 : \E i \in 1 .. Len(AskedFor[k]) : p = <<k, i>>
    BY PlaceShape
  <2>2. PICK i \in 1 .. Len(AskedFor[k]) : p = <<k, i>>
    BY <2>1
  <2>3. Len(AskedFor[k]) \in Nat
    BY AskedForShape
  <2>4. k < Current \/ (k = Current /\ i < Handled + 1)
    <3>1. k \in Nat /\ (k < Len(fileOrder) + 1 \/ k = Len(fileOrder) + 1)
      BY <1>2
    <3>2. i \in Nat /\ i < Len(AskedFor[k]) + 1
      BY <2>3
    <3> QED BY <1>3, <1>4, <3>1, <3>2
  <2> QED BY <2>2, <2>4 DEF Before
<1> QED BY <1>5 DEF Done

\* What RebuildDllBreakpoints can do to its loops.
LEMMA LoopPlaceStep ==
  ASSUME TypeOK, LoopPlace, [Next]_vars
  PROVE  LoopPlace'
<1>1. CASE ClearAllWipe
  BY <1>1, LoopStarts
<1>2. CASE NextTable
  BY <1>2, LoopNextTable
<1>3. CASE TryArm
  BY <1>3, LoopTryArm
<1>4. CASE UNCHANGED vars
  <2>1. /\ UNCHANGED <<fileBreakpoints, fileOrder, instrBreakpoints>>
        /\ UNCHANGED <<phase, tablesLeft, todo>>
    BY <1>4 DEF vars
  <2>2. AskedFor' = AskedFor /\ TablesInOrder' = TablesInOrder
    BY <2>1, PlanSame
  <2>3. Current' = Current
    BY <2>1 DEF Current
  <2>4. Handled' = Handled
    BY <2>1, <2>2, <2>3 DEF Handled
  <2> QED BY <2>1, <2>2, <2>3, <2>4 DEF LoopPlace
<1>5. CASE phase' # "arm"
  BY <1>5 DEF LoopPlace
<1> QED
  BY <1>1, <1>2, <1>3, <1>4, <1>5 DEF Next, HandlerStep, InitDebugSession, InitFlashSession,
     UninitAgdiSession, SetFileBreakpoints, SetInstructionBreakpoints, StartRebuild, RebuildFrom,
     StepOutBegin, ClearAllUnlink, Reply, AddTempBreakpoint, StepOutRun, RemoveTempBreakpoint,
     StepOutDone, LoopPlace

-----------------------------------------------------------------------------
\* What is armed of the places handled.

FirstDone == FirstPlaces \cap Done

\* As many addresses are armed as stand first at a place handled, up to the
\* limit, each at its rank; everything armed stands at a place handled, and
\* below the limit the converse holds.
PlanSoFar ==
  phase = "arm" =>
    /\ IsFiniteSet(FirstDone)
    /\ Len(armed) = IF Cardinality(FirstDone) <= MaxUserBreakpoints
                    THEN Cardinality(FirstDone) ELSE MaxUserBreakpoints
    /\ \A p \in FirstDone : Rank(p) \in 1 .. Cardinality(FirstDone)
    /\ \A p \in FirstDone : Rank(p) <= MaxUserBreakpoints => armed[Rank(p)] = AskedAt(p)
    /\ \A a \in ToSet(armed) : \E p \in Done : AskedAt(p) = a
    /\ Len(armed) < MaxUserBreakpoints => \A p \in Done : AskedAt(p) \in ToSet(armed)

LEMMA PlanSoFarSame ==
  ASSUME PlanSoFar, phase = "arm", Done' = Done, armed' = armed,
         UNCHANGED <<fileBreakpoints, fileOrder, instrBreakpoints>>
  PROVE  PlanSoFar'
<1>1. /\ FirstPlaces' = FirstPlaces
      /\ \A p : AskedAt(p)' = AskedAt(p)
      /\ \A p : Rank(p)' = Rank(p)
  BY PlanSame
<1>2. FirstDone' = FirstDone
  BY <1>1 DEF FirstDone
<1> QED BY <1>1, <1>2 DEF PlanSoFar

\* The place TryArm comes to: it is first exactly when no place handled asks for
\* the same address, and its rank follows those of the places handled.
LEMMA NextPlace ==
  ASSUME TypeOK, LoopPlace, TryArm,
         NEW p, p = <<Current, Handled + 1>>
  PROVE  /\ p \in FirstPlaces <=> \A q \in Done : AskedAt(q) # AskedAt(p)
         /\ Rank(p) = Cardinality(FirstDone) + 1
         /\ FirstDone' = IF p \in FirstPlaces THEN FirstDone \cup {p} ELSE FirstDone
<1>1. p \in Places /\ Done' = Done \cup {p}
  BY LoopTryArm
<1>2. UNCHANGED <<fileBreakpoints, fileOrder, instrBreakpoints>>
  BY DEF TryArm, TryArmUpTo, tables
<1>3. FirstPlaces' = FirstPlaces
  BY <1>2, PlanSame
<1>4. Done = {q \in Places : Before(q, p)}
  BY DEF Done
<1>5. p \in FirstPlaces <=> \A q \in Done : AskedAt(q) # AskedAt(p)
  BY <1>1, <1>4 DEF FirstPlaces
<1>6. {q \in FirstPlaces : Before(q, p)} = FirstDone
  BY <1>4 DEF FirstDone, FirstPlaces
<1>7. Rank(p) = Cardinality(FirstDone) + 1
  BY <1>6 DEF Rank
<1>8. FirstDone' = IF p \in FirstPlaces THEN FirstDone \cup {p} ELSE FirstDone
  BY <1>1, <1>3 DEF FirstDone
<1> QED BY <1>5, <1>7, <1>8

\* An address is armed already: the place is no first one.
LEMMA PlanTryArmed ==
  ASSUME IInv, LoopPlace, PlanSoFar, TryArm, Head(todo) \in ToSet(armed)
  PROVE  PlanSoFar'
<1> DEFINE p == <<Current, Handled + 1>>
<1>1. /\ phase = "arm" /\ armed' = armed
      /\ UNCHANGED <<fileBreakpoints, fileOrder, instrBreakpoints>>
  BY DEF TryArm, TryArmUpTo, tables
<1>2. /\ FirstPlaces' = FirstPlaces
      /\ \A q : AskedAt(q)' = AskedAt(q)
      /\ \A q : Rank(q)' = Rank(q)
  BY <1>1, PlanSame
<1>3. AskedAt(p) = Head(todo) /\ Done' = Done \cup {p}
  BY LoopTryArm DEF IInv
<1>4. /\ p \in FirstPlaces <=> \A q \in Done : AskedAt(q) # AskedAt(p)
      /\ FirstDone' = IF p \in FirstPlaces THEN FirstDone \cup {p} ELSE FirstDone
  BY NextPlace DEF IInv
<1> HIDE DEF p
<1>5. p \notin FirstPlaces
  BY <1>1, <1>3, <1>4 DEF PlanSoFar
<1>6. FirstDone' = FirstDone
  BY <1>4, <1>5
<1> QED BY <1>1, <1>2, <1>3, <1>6 DEF PlanSoFar

\* The limit is reached: whatever comes has a higher rank.
LEMMA PlanTryFull ==
  ASSUME IInv, LoopPlace, PlanSoFar, TryArm, Len(armed) >= MaxUserBreakpoints
  PROVE  PlanSoFar'
<1> DEFINE p == <<Current, Handled + 1>>
           c == Cardinality(FirstDone)
<1>1. /\ phase = "arm" /\ armed' = armed
      /\ UNCHANGED <<fileBreakpoints, fileOrder, instrBreakpoints>>
  BY DEF TryArm, TryArmUpTo, tables
<1>2. /\ FirstPlaces' = FirstPlaces
      /\ \A q : AskedAt(q)' = AskedAt(q)
      /\ \A q : Rank(q)' = Rank(q)
  BY <1>1, PlanSame
<1>3. p \notin Done /\ Done' = Done \cup {p}
  BY LoopTryArm DEF IInv
<1>4. /\ Rank(p) = Cardinality(FirstDone) + 1
      /\ FirstDone' = IF p \in FirstPlaces THEN FirstDone \cup {p} ELSE FirstDone
  BY NextPlace DEF IInv
<1> HIDE DEF p
<1>5. IsFiniteSet(FirstDone) /\ c \in Nat /\ MaxUserBreakpoints \in Nat /\ Len(armed) \in Nat
  BY <1>1, FS_CardinalityType, ConstantsAssumption DEF PlanSoFar, IInv, TypeOK
<1>6. Len(armed) = MaxUserBreakpoints /\ MaxUserBreakpoints <= c
  <2>1. Len(armed) = IF c <= MaxUserBreakpoints THEN c ELSE MaxUserBreakpoints
    BY <1>1 DEF PlanSoFar
  <2> HIDE DEF c
  <2> QED BY <1>5, <2>1
<1>7. CASE p \notin FirstPlaces
  <2>1. FirstDone' = FirstDone
    BY <1>4, <1>7
  <2>2. Len(armed') = MaxUserBreakpoints
    BY <1>1, <1>6
  <2>3. ~ (Len(armed') < MaxUserBreakpoints)
    BY <1>5, <2>2
  <2> QED BY <1>1, <1>2, <1>3, <2>1, <2>3 DEF PlanSoFar
<1>8. CASE p \in FirstPlaces
  <2>1. FirstDone' = FirstDone \cup {p} /\ p \notin FirstDone
    BY <1>3, <1>4, <1>8 DEF FirstDone
  <2>2. IsFiniteSet(FirstDone') /\ Cardinality(FirstDone') = c + 1
    BY <1>5, <2>1, FS_AddElement
  <2>3. Rank(p) = c + 1
    BY <1>4
  <2>4. \A q \in FirstDone : Rank(q) \in 1 .. c /\ (Rank(q) <= MaxUserBreakpoints => armed[Rank(q)] = AskedAt(q))
    BY <1>1 DEF PlanSoFar
  <2>5. \A a \in ToSet(armed) : \E q \in Done' : AskedAt(q) = a
    BY <1>1, <1>3 DEF PlanSoFar
  <2> HIDE DEF c
  <2>6. c + 1 \in 1 .. c + 1 /\ ~ (c + 1 <= MaxUserBreakpoints) /\ 1 .. c \subseteq 1 .. c + 1
    BY <1>5, <1>6
  <2>7. \A q \in FirstDone' : Rank(q)' \in 1 .. Cardinality(FirstDone')
    BY <1>2, <2>1, <2>2, <2>3, <2>4, <2>6
  <2>8. \A q \in FirstDone' : Rank(q)' <= MaxUserBreakpoints => armed'[Rank(q)'] = AskedAt(q)'
    BY <1>1, <1>2, <2>1, <2>3, <2>4, <2>6
  <2>9. Len(armed') = MaxUserBreakpoints
    BY <1>1, <1>6
  <2>10. ~ (Len(armed') < MaxUserBreakpoints)
    BY <1>5, <2>9
  <2>11. \A a \in ToSet(armed') : \E q \in Done' : AskedAt(q)' = a
    BY <1>1, <1>2, <2>5
  <2> QED BY <2>2, <2>6, <2>7, <2>8, <2>9, <2>10, <2>11 DEF PlanSoFar
<1> QED BY <1>7, <1>8

\* A new address below the limit is armed at the rank of its place.
LEMMA PlanTryNew ==
  ASSUME IInv, LoopPlace, PlanSoFar, TryArm,
         Len(armed) < MaxUserBreakpoints, Head(todo) \notin ToSet(armed)
  PROVE  PlanSoFar'
<1> DEFINE p == <<Current, Handled + 1>>
           c == Cardinality(FirstDone)
<1>1. /\ phase = "arm" /\ todo # <<>>
      /\ UNCHANGED <<fileBreakpoints, fileOrder, instrBreakpoints>>
  BY DEF TryArm, TryArmUpTo, tables
<1>2. /\ FirstPlaces' = FirstPlaces
      /\ \A q : AskedAt(q)' = AskedAt(q)
      /\ \A q : Rank(q)' = Rank(q)
  BY <1>1, PlanSame
<1>3. AskedAt(p) = Head(todo) /\ p \notin Done /\ Done' = Done \cup {p}
  BY LoopTryArm DEF IInv
<1>4. /\ p \in FirstPlaces <=> \A q \in Done : AskedAt(q) # AskedAt(p)
      /\ Rank(p) = Cardinality(FirstDone) + 1
      /\ FirstDone' = IF p \in FirstPlaces THEN FirstDone \cup {p} ELSE FirstDone
  BY NextPlace DEF IInv
<1> HIDE DEF p
<1>5. /\ IsFiniteSet(FirstDone) /\ c \in Nat /\ MaxUserBreakpoints \in Nat /\ Len(armed) \in Nat
      /\ armed \in Seq(Addr) /\ DOMAIN armed = 1 .. Len(armed)
  BY <1>1, FS_CardinalityType, ConstantsAssumption DEF PlanSoFar, IInv, TypeOK
<1>6. c = Len(armed)
  <2>1. Len(armed) = IF c <= MaxUserBreakpoints THEN c ELSE MaxUserBreakpoints
    BY <1>1 DEF PlanSoFar
  <2> HIDE DEF c
  <2> QED BY <1>5, <2>1
<1>7. p \in FirstPlaces
  BY <1>1, <1>3, <1>4 DEF PlanSoFar
<1>8. armed' = Append(armed, Head(todo)) /\ Head(todo) \in Addr
  <2>1. ~ (Len(armed) >= MaxUserBreakpoints)
    BY <1>5
  <2>2. Alloc # NULL
    <3>1. Len(armed) = Len(list)
      BY <1>1 DEF IInv, LoopInv
    <3>2. Alloc = NULL => Len(list) = MaxBreakpoints
      BY AllocFails DEF IInv
    <3>3. MaxUserBreakpoints <= MaxBreakpoints /\ MaxBreakpoints \in Nat
      BY ConstantsAssumption
    <3>4. Len(armed) \in Nat /\ MaxUserBreakpoints \in Nat
      BY <1>5
    <3>5. Len(armed) # MaxBreakpoints
      BY <3>3, <3>4
    <3> QED BY <3>1, <3>2, <3>5
  <2> QED BY <2>1, <2>2, NodeArmed
<1>9. /\ Len(armed') = Len(armed) + 1
      /\ \A i \in 1 .. Len(armed) : armed'[i] = armed[i]
      /\ armed'[Len(armed) + 1] = AskedAt(p)
  BY <1>3, <1>5, <1>8, AppendProperties
<1>10. ToSet(armed') = ToSet(armed) \cup {AskedAt(p)}
  BY <1>3, <1>5, <1>8, AppendRange
<1>11. FirstDone' = FirstDone \cup {p} /\ p \notin FirstDone
  BY <1>3, <1>4, <1>7 DEF FirstDone
<1>12. IsFiniteSet(FirstDone') /\ Cardinality(FirstDone') = c + 1
  BY <1>5, <1>11, FS_AddElement
<1>13. Rank(p) = c + 1
  BY <1>4
<1>14. \A q \in FirstDone : Rank(q) \in 1 .. c /\ (Rank(q) <= MaxUserBreakpoints => armed[Rank(q)] = AskedAt(q))
  BY <1>1 DEF PlanSoFar
<1> HIDE DEF c
<1>15. c + 1 \in 1 .. c + 1 /\ c + 1 <= MaxUserBreakpoints /\ 1 .. c \subseteq 1 .. c + 1
  BY <1>5, <1>6
<1>16. \A q \in FirstDone' : Rank(q)' \in 1 .. Cardinality(FirstDone')
  BY <1>2, <1>11, <1>12, <1>13, <1>14, <1>15
<1>17. \A q \in FirstDone' : Rank(q)' <= MaxUserBreakpoints => armed'[Rank(q)'] = AskedAt(q)'
  BY <1>2, <1>6, <1>9, <1>11, <1>13, <1>14
<1>18. \A a \in ToSet(armed') : \E q \in Done' : AskedAt(q)' = a
  BY <1>1, <1>2, <1>3, <1>10 DEF PlanSoFar
<1>19. \A q \in Done' : AskedAt(q)' \in ToSet(armed')
  BY <1>1, <1>2, <1>3, <1>10 DEF PlanSoFar
<1>20. Len(armed') = IF Cardinality(FirstDone') <= MaxUserBreakpoints
                     THEN Cardinality(FirstDone') ELSE MaxUserBreakpoints
  BY <1>6, <1>9, <1>12, <1>15
<1> QED BY <1>12, <1>16, <1>17, <1>18, <1>19, <1>20 DEF PlanSoFar

LEMMA PlanSoFarStep ==
  ASSUME IInv, LoopPlace, PlanSoFar, [Next]_vars
  PROVE  PlanSoFar'
<1>1. CASE ClearAllWipe
  <2>1. Done' = {} /\ armed' = <<>>
    BY <1>1, LoopStarts DEF IInv, ClearAllWipe
  <2>2. FirstDone' = {} /\ ToSet(armed') = {} /\ Len(armed') = 0
    BY <2>1 DEF FirstDone, ToSet
  <2>3. IsFiniteSet(FirstDone') /\ Cardinality(FirstDone') = 0
    BY <2>2, FS_EmptySet
  <2>4. 0 <= MaxUserBreakpoints
    BY ConstantsAssumption
  <2> QED BY <2>1, <2>2, <2>3, <2>4 DEF PlanSoFar
<1>2. CASE NextTable
  <2>1. phase = "arm" /\ armed' = armed /\ UNCHANGED <<fileBreakpoints, fileOrder, instrBreakpoints>>
    BY <1>2 DEF NextTable, tables
  <2>2. Done' = Done
    BY <1>2, LoopNextTable DEF IInv
  <2> QED BY <2>1, <2>2, PlanSoFarSame
<1>3. CASE TryArm
  <2>1. Len(armed) \in Nat /\ MaxUserBreakpoints \in Nat
    BY ConstantsAssumption DEF IInv, TypeOK
  <2>2. Len(armed) >= MaxUserBreakpoints \/ Len(armed) < MaxUserBreakpoints
    BY <2>1
  <2> QED BY <1>3, <2>2, PlanTryArmed, PlanTryFull, PlanTryNew
<1>4. CASE UNCHANGED vars
  <2>1. /\ UNCHANGED <<fileBreakpoints, fileOrder, instrBreakpoints>>
        /\ UNCHANGED <<phase, tablesLeft, todo, armed>>
    BY <1>4 DEF vars
  <2>2. AskedFor' = AskedFor /\ Places' = Places
    BY <2>1, PlanSame
  <2>3. Current' = Current
    BY <2>1 DEF Current
  <2>4. Handled' = Handled
    BY <2>1, <2>2, <2>3 DEF Handled
  <2>5. Done' = Done
    BY <2>2, <2>3, <2>4 DEF Done
  <2>6. CASE phase = "arm"
    BY <2>1, <2>5, <2>6, PlanSoFarSame
  <2>7. CASE phase # "arm"
    BY <2>1, <2>7 DEF PlanSoFar
  <2> QED BY <2>6, <2>7
<1>5. CASE phase' # "arm"
  BY <1>5 DEF PlanSoFar
<1> QED
  BY <1>1, <1>2, <1>3, <1>4, <1>5 DEF Next, HandlerStep, InitDebugSession, InitFlashSession,
     UninitAgdiSession, SetFileBreakpoints, SetInstructionBreakpoints, StartRebuild, RebuildFrom,
     StepOutBegin, ClearAllUnlink, Reply, AddTempBreakpoint, StepOutRun, RemoveTempBreakpoint,
     StepOutDone, PlanSoFar

-----------------------------------------------------------------------------
\* What is armed once a rebuild has ended.

\* The nodes of the list that are no temporary breakpoints.
Rest == Len(list) - Len(temps)

\* The temporary breakpoints stand in front, the latest first, and behind them
\* is nothing (no rebuild since the session began) or what was planned.
PlanKept ==
  phase \in {"idle", "temp", "untemp"} =>
    /\ Len(temps) <= Len(list)
    /\ \A i \in DOMAIN temps : list[i] = temps[Len(temps) + 1 - i]
    /\ \/ Rest = 0
       \/ /\ Rest = PlanLength
          /\ \A p \in FirstPlaces : Rank(p) <= MaxUserBreakpoints =>
               /\ Rank(p) \in 1 .. Rest
               /\ pool[list[Len(temps) + Rank(p)]].adr = AskedAt(p)

\* Where the loops have ended.
LEMMA PlanAtEnd ==
  ASSUME IInv, LoopPlace, PlanSoFar, phase = "arm", todo = <<>>, tablesLeft = <<>>
  PROVE  /\ Len(list) = PlanLength
         /\ \A p \in FirstPlaces : Rank(p) <= MaxUserBreakpoints =>
              /\ Rank(p) \in 1 .. Len(list)
              /\ pool[list[Rank(p)]].adr = AskedAt(p)
<1> DEFINE c == Cardinality(FirstPlaces)
<1>1. Done = Places
  BY LoopEnds DEF IInv
<1>2. FirstDone = FirstPlaces
  BY <1>1 DEF FirstDone, FirstPlaces
<1>3. Len(list) = Len(armed) /\ \A i \in DOMAIN list : pool[list[i]].adr = armed[i]
  BY DEF IInv, LoopInv
<1>4. /\ IsFiniteSet(FirstPlaces)
      /\ Len(armed) = IF c <= MaxUserBreakpoints THEN c ELSE MaxUserBreakpoints
      /\ \A p \in FirstPlaces : Rank(p) \in 1 .. c
      /\ \A p \in FirstPlaces : Rank(p) <= MaxUserBreakpoints => armed[Rank(p)] = AskedAt(p)
  BY <1>2 DEF PlanSoFar
<1>5. Len(list) = PlanLength
  BY <1>3, <1>4 DEF PlanLength
<1>6. c \in Nat /\ MaxUserBreakpoints \in Nat /\ DOMAIN list = 1 .. Len(list)
  BY <1>4, FS_CardinalityType, ConstantsAssumption DEF IInv, TypeOK
<1> HIDE DEF c
<1>7. ASSUME NEW p \in FirstPlaces, Rank(p) <= MaxUserBreakpoints
      PROVE  Rank(p) \in 1 .. Len(list) /\ pool[list[Rank(p)]].adr = AskedAt(p)
  <2>1. Rank(p) \in 1 .. c
    BY <1>4
  <2>2. Rank(p) \in 1 .. Len(list)
    <3>1. Len(list) = IF c <= MaxUserBreakpoints THEN c ELSE MaxUserBreakpoints
      BY <1>3, <1>4
    <3> HIDE DEF Rank
    <3> QED BY <1>6, <1>7, <2>1, <3>1
  <2> QED BY <1>3, <1>4, <1>6, <1>7, <2>2
<1> QED BY <1>5, <1>7

\* A step that leaves the list and the temporary breakpoints alone.
LEMMA PlanKeptSame ==
  ASSUME PlanKept, phase \in {"idle", "temp", "untemp"},
         UNCHANGED <<pool, list, temps>>,
         UNCHANGED <<fileBreakpoints, fileOrder, instrBreakpoints>>
  PROVE  PlanKept'
<1>1. /\ FirstPlaces' = FirstPlaces
      /\ PlanLength' = PlanLength
      /\ \A p : AskedAt(p)' = AskedAt(p)
      /\ \A p : Rank(p)' = Rank(p)
  BY PlanSame
<1>2. Rest' = Rest
  BY DEF Rest
<1> QED BY <1>1, <1>2 DEF PlanKept

\* AddTempBreakpoint moves the others one place on.
LEMMA PlanKeptAdd ==
  ASSUME IInv, PlanKept, AddTempBreakpoint, Alloc # NULL
  PROVE  PlanKept'
<1> DEFINE bp == Alloc
           n == Len(list)
           m == Len(temps)
<1>1. /\ phase = "temp" /\ list' = <<bp>> \o list
      /\ UNCHANGED <<fileBreakpoints, fileOrder, instrBreakpoints>>
  BY DEF AddTempBreakpoint, LinkTemp, tables
<1>2. /\ FirstPlaces' = FirstPlaces
      /\ PlanLength' = PlanLength
      /\ \A p : AskedAt(p)' = AskedAt(p)
      /\ \A p : Rank(p)' = Rank(p)
  BY <1>1, PlanSame
<1>3. /\ temps' = Append(temps, bp)
      /\ bp \in Nodes
      /\ \A x \in ToSet(list) : pool'[x].adr = pool[x].adr
  BY TempLinked
<1> HIDE DEF bp
<1>4. /\ list \in Seq(Nodes) /\ temps \in Seq(Nodes)
      /\ n \in Nat /\ m \in Nat
      /\ DOMAIN list = 1 .. n /\ DOMAIN temps = 1 .. m
      /\ \A i \in 1 .. n : list[i] \in ToSet(list)
  BY DEF IInv, TypeOK, ToSet
<1>5. /\ temps' \in Seq(Nodes)
      /\ Len(temps') = m + 1
      /\ \A i \in 1 .. m : temps'[i] = temps[i]
      /\ temps'[m + 1] = bp
  BY <1>3, <1>4, AppendProperties
<1>6. /\ list' \in Seq(Nodes)
      /\ Len(list') = 1 + n
      /\ \A i \in 1 .. 1 + n : list'[i] = IF i <= 1 THEN <<bp>>[i] ELSE list[i - 1]
  <2>1. <<bp>> \in Seq(Nodes) /\ Len(<<bp>>) = 1
    BY <1>3
  <2> QED BY <1>1, <1>4, <2>1, ConcatProperties
<1>7. DOMAIN temps' = 1 .. m + 1
  BY <1>5
<1>8. /\ m <= n
      /\ \A i \in 1 .. m : list[i] = temps[m + 1 - i]
      /\ \/ Rest = 0
         \/ /\ Rest = PlanLength
            /\ \A p \in FirstPlaces : Rank(p) <= MaxUserBreakpoints =>
                 /\ Rank(p) \in 1 .. Rest
                 /\ pool[list[m + Rank(p)]].adr = AskedAt(p)
  BY <1>1, <1>4 DEF PlanKept
<1>9. Rest = n - m /\ Rest' = (1 + n) - (m + 1)
  BY <1>5, <1>6 DEF Rest
<1> HIDE DEF n, m
<1>10. Rest' = Rest /\ m + 1 <= 1 + n
  BY <1>4, <1>8, <1>9
<1>11. \A i \in 1 .. n : list'[i + 1] = list[i]
  <2> SUFFICES ASSUME NEW i \in 1 .. n PROVE list'[i + 1] = list[i]
    OBVIOUS
  <2>1. i + 1 \in 1 .. 1 + n /\ ~ (i + 1 <= 1) /\ (i + 1) - 1 = i
    BY <1>4
  <2> QED BY <1>6, <2>1
<1>12. list'[1] = bp
  <2>1. 1 \in 1 .. 1 + n
    BY <1>4
  <2> QED BY <1>6, <2>1
<1>13. ASSUME NEW i \in 1 .. m + 1 PROVE list'[i] = temps'[(m + 1) + 1 - i]
  <2>1. CASE i = 1
    <3>1. (m + 1) + 1 - i = m + 1
      BY <1>4, <2>1
    <3> QED BY <1>5, <1>12, <2>1, <3>1
  <2>2. CASE i # 1
    <3> DEFINE j == i - 1
    <3>1. j \in 1 .. m /\ j \in 1 .. n /\ j + 1 = i /\ m + 1 - j \in 1 .. m
          /\ (m + 1) + 1 - i = m + 1 - j
      BY <1>4, <1>8, <2>2
    <3> HIDE DEF j
    <3>2. list'[j + 1] = list[j] /\ list[j] = temps[m + 1 - j] /\ temps'[m + 1 - j] = temps[m + 1 - j]
      BY <1>5, <1>8, <1>11, <3>1
    <3> QED BY <3>1, <3>2
  <2> QED BY <2>1, <2>2
<1>14. ASSUME NEW r \in 1 .. Rest
       PROVE  pool'[list'[(m + 1) + r]].adr = pool[list[m + r]].adr
  <2>1. m + r \in 1 .. n /\ (m + r) + 1 = (m + 1) + r
    BY <1>4, <1>8, <1>9
  <2> QED BY <1>3, <1>4, <1>11, <2>1
<1>15. \/ Rest' = 0
       \/ /\ Rest' = PlanLength'
          /\ \A p \in FirstPlaces' : Rank(p)' <= MaxUserBreakpoints =>
               /\ Rank(p)' \in 1 .. Rest'
               /\ pool'[list'[(m + 1) + Rank(p)']].adr = AskedAt(p)'
  <2>1. CASE Rest = 0
    BY <1>10, <2>1
  <2>2. CASE Rest # 0
    <3>1. ASSUME NEW p \in FirstPlaces, Rank(p) <= MaxUserBreakpoints
          PROVE  Rank(p) \in 1 .. Rest /\ pool'[list'[(m + 1) + Rank(p)]].adr = AskedAt(p)
      <4>1. Rank(p) \in 1 .. Rest /\ pool[list[m + Rank(p)]].adr = AskedAt(p)
        BY <1>8, <2>2, <3>1
      <4>2. pool'[list'[(m + 1) + Rank(p)]].adr = pool[list[m + Rank(p)]].adr
        BY <1>14, <4>1
      <4> QED BY <4>1, <4>2
    <3> QED BY <1>2, <1>8, <1>10, <2>2, <3>1
  <2> QED BY <2>1, <2>2
<1> QED BY <1>5, <1>6, <1>7, <1>10, <1>13, <1>15 DEF PlanKept

\* RemoveTempBreakpoint takes the last of the temporary breakpoints in front.
LEMMA PlanKeptRemove ==
  ASSUME IInv, TempsLinked, PlanKept, RemoveTempBreakpoint
  PROVE  PlanKept'
<1> DEFINE n == Len(list)
           m == Len(temps)
<1>1. /\ phase = "untemp" /\ temps # <<>> /\ temps' = Tail(temps)
      /\ list' = RemoveFirst(list, Head(temps))
      /\ Unlink(Head(temps))
      /\ UNCHANGED <<fileBreakpoints, fileOrder, instrBreakpoints>>
  BY DEF RemoveTempBreakpoint, Unlink, tables
<1>2. /\ FirstPlaces' = FirstPlaces
      /\ PlanLength' = PlanLength
      /\ \A p : AskedAt(p)' = AskedAt(p)
      /\ \A p : Rank(p)' = Rank(p)
  BY <1>1, PlanSame
<1>3. /\ list \in Seq(Nodes) /\ temps \in Seq(Nodes)
      /\ n \in Nat /\ m \in Nat
      /\ DOMAIN list = 1 .. n /\ DOMAIN temps = 1 .. m
      /\ \A i, j \in 1 .. n : i # j => list[i] # list[j]
  BY ListFacts DEF IInv, TypeOK
<1>4. /\ m <= n
      /\ \A i \in 1 .. m : list[i] = temps[m + 1 - i]
      /\ \/ Rest = 0
         \/ /\ Rest = PlanLength
            /\ \A p \in FirstPlaces : Rank(p) <= MaxUserBreakpoints =>
                 /\ Rank(p) \in 1 .. Rest
                 /\ pool[list[m + Rank(p)]].adr = AskedAt(p)
  BY <1>1, <1>3 DEF PlanKept
<1>5. /\ Len(temps) # 0
      /\ Head(temps) = temps[1]
      /\ Len(temps') = m - 1
      /\ temps' \in Seq(Nodes)
      /\ \A i \in 1 .. m - 1 : temps'[i] = temps[i + 1]
      /\ Head(temps) \in ToSet(temps)
  <2>1. Len(temps) # 0 /\ Head(temps) = temps[1]
    BY <1>1, <1>3
  <2>2. /\ Len(temps') = m - 1
        /\ temps' \in Seq(Nodes)
        /\ \A i \in 1 .. m - 1 : temps'[i] = temps[i + 1]
        /\ Head(temps) \in ToSet(temps)
    BY <1>1, <1>3, HeadAndTail
  <2> QED BY <2>1, <2>2
<1>6. DOMAIN temps' = 1 .. m - 1
  BY <1>3, <1>5
<1>7. m \in 1 .. n /\ Head(temps) = list[m]
  <2>1. m \in 1 .. n /\ m \in 1 .. m /\ m + 1 - m = 1
    BY <1>3, <1>4, <1>5
  <2> QED BY <1>4, <1>5, <2>1
<1>8. /\ list' \in Seq(Nodes)
      /\ Len(list') = n - 1
      /\ \A i \in 1 .. n - 1 : list'[i] = IF i < m THEN list[i] ELSE list[i + 1]
  <2>1. m \in 1 .. Len(list)
    BY <1>7
  <2>2. /\ RemoveFirst(list, list[m]) \in Seq(Nodes)
        /\ Len(RemoveFirst(list, list[m])) = Len(list) - 1
        /\ \A i \in 1 .. Len(list) - 1 :
             RemoveFirst(list, list[m])[i] = IF i < m THEN list[i] ELSE list[i + 1]
    <3> HIDE DEF m
    <3> QED BY <1>3, <2>1, RemoveFirstProperties
  <2> QED BY <1>1, <1>7, <2>2
<1>9. \A x \in ToSet(list') : pool'[x].adr = pool[x].adr
  <2>1. Head(temps) \in ToSet(list)
    BY <1>5 DEF TempsLinked
  <2> QED BY <1>1, <2>1, UnlinkEffect DEF IInv
<1>10. Rest = n - m /\ Rest' = (n - 1) - (m - 1)
  BY <1>5, <1>8 DEF Rest
<1>11. DOMAIN list' = 1 .. n - 1
  BY <1>3, <1>7, <1>8
<1> HIDE DEF n, m
<1>12. Rest' = Rest /\ m - 1 <= n - 1
  BY <1>3, <1>4, <1>10
<1>13. ASSUME NEW i \in 1 .. m - 1 PROVE list'[i] = temps'[(m - 1) + 1 - i]
  <2>1. i \in 1 .. n - 1 /\ i < m /\ i \in 1 .. m /\ m - i \in 1 .. m - 1
        /\ m + 1 - i = (m - i) + 1 /\ (m - 1) + 1 - i = m - i
    BY <1>3, <1>7
  <2>2. list'[i] = list[i] /\ list[i] = temps[m + 1 - i] /\ temps'[m - i] = temps[(m - i) + 1]
    BY <1>4, <1>5, <1>8, <2>1
  <2> QED BY <2>1, <2>2
<1>14. ASSUME NEW r \in 1 .. Rest
       PROVE  pool'[list'[(m - 1) + r]].adr = pool[list[m + r]].adr
  <2>1. (m - 1) + r \in 1 .. n - 1 /\ ~ ((m - 1) + r < m) /\ ((m - 1) + r) + 1 = m + r
    BY <1>3, <1>4, <1>7, <1>10
  <2>2. list'[(m - 1) + r] = list[m + r]
    BY <1>8, <2>1
  <2>3. list'[(m - 1) + r] \in ToSet(list')
    BY <1>11, <2>1 DEF ToSet
  <2> QED BY <1>9, <2>2, <2>3
<1>15. \/ Rest' = 0
       \/ /\ Rest' = PlanLength'
          /\ \A p \in FirstPlaces' : Rank(p)' <= MaxUserBreakpoints =>
               /\ Rank(p)' \in 1 .. Rest'
               /\ pool'[list'[(m - 1) + Rank(p)']].adr = AskedAt(p)'
  <2>1. CASE Rest = 0
    BY <1>12, <2>1
  <2>2. CASE Rest # 0
    <3>1. ASSUME NEW p \in FirstPlaces, Rank(p) <= MaxUserBreakpoints
          PROVE  Rank(p) \in 1 .. Rest /\ pool'[list'[(m - 1) + Rank(p)]].adr = AskedAt(p)
      <4>1. Rank(p) \in 1 .. Rest /\ pool[list[m + Rank(p)]].adr = AskedAt(p)
        BY <1>4, <2>2, <3>1
      <4>2. pool'[list'[(m - 1) + Rank(p)]].adr = pool[list[m + Rank(p)]].adr
        BY <1>14, <4>1
      <4> QED BY <4>1, <4>2
    <3> QED BY <1>2, <1>4, <1>12, <2>2, <3>1
  <2> QED BY <2>1, <2>2
<1> QED BY <1>5, <1>6, <1>8, <1>12, <1>13, <1>15 DEF PlanKept

LEMMA PlanKeptStep ==
  ASSUME IInv, TempsLinked, LoopPlace, PlanSoFar, PlanKept, [Next]_vars
  PROVE  PlanKept'
<1>1. CASE InitDebugSession
  <2>1. list' = <<>> /\ temps' = temps /\ temps = <<>>
    BY <1>1 DEF InitDebugSession, TempsLinked
  <2>2. Len(list') = 0 /\ Len(temps') = 0 /\ DOMAIN temps' = {}
    BY <2>1
  <2>3. Rest' = 0
    BY <2>2 DEF Rest
  <2> QED BY <2>2, <2>3 DEF PlanKept
<1>2. CASE InitFlashSession \/ UninitAgdiSession \/ StepOutRun \/ StepOutDone
  <2>1. /\ phase \in {"idle", "temp", "untemp"}
        /\ UNCHANGED <<pool, list, temps>>
        /\ UNCHANGED <<fileBreakpoints, fileOrder, instrBreakpoints>>
    BY <1>2 DEF InitFlashSession, UninitAgdiSession, StepOutRun, StepOutDone, tables
  <2> QED BY <2>1, PlanKeptSame
<1>3. ASSUME NEW exits \in Exits, StepOutBegin(exits) PROVE PlanKept'
  <2>1. temps = <<>>
    BY <1>3 DEF StepOutBegin, TempsLinked
  <2>2. /\ phase \in {"idle", "temp", "untemp"}
        /\ UNCHANGED <<pool, list, temps>>
        /\ UNCHANGED <<fileBreakpoints, fileOrder, instrBreakpoints>>
    BY <1>3, <2>1 DEF StepOutBegin, tables
  <2> QED BY <2>2, PlanKeptSame
<1>4. CASE Reply
  <2>1. /\ phase = "arm" /\ todo = <<>> /\ tablesLeft = <<>>
        /\ UNCHANGED <<pool, list, temps>>
        /\ UNCHANGED <<fileBreakpoints, fileOrder, instrBreakpoints>>
    BY <1>4 DEF Reply, tables
  <2>2. /\ Len(list) = PlanLength
        /\ \A p \in FirstPlaces : Rank(p) <= MaxUserBreakpoints =>
             /\ Rank(p) \in 1 .. Len(list)
             /\ pool[list[Rank(p)]].adr = AskedAt(p)
    BY <2>1, PlanAtEnd
  <2>3. temps' = <<>> /\ Len(list) \in Nat
    BY <2>1 DEF TempsLinked, IInv, TypeOK
  <2>4. Len(temps') = 0 /\ DOMAIN temps' = {}
    BY <2>3
  <2>5. /\ FirstPlaces' = FirstPlaces
        /\ PlanLength' = PlanLength
        /\ \A p : AskedAt(p)' = AskedAt(p)
        /\ \A p : Rank(p)' = Rank(p)
    BY <2>1, PlanSame
  <2>6. Rest' = Len(list)
    BY <2>1, <2>3, <2>4 DEF Rest
  <2>7. Len(temps') <= Len(list')
    BY <2>1, <2>3, <2>4
  <2>8. ASSUME NEW p \in FirstPlaces, Rank(p) <= MaxUserBreakpoints
        PROVE  Rank(p) \in 1 .. Len(list) /\ pool'[list'[Len(temps') + Rank(p)]].adr = AskedAt(p)
    <3>1. Rank(p) \in 1 .. Len(list) /\ pool[list[Rank(p)]].adr = AskedAt(p)
      BY <2>2, <2>8
    <3>2. 0 + Rank(p) = Rank(p)
      BY <3>1
    <3> QED BY <2>1, <2>4, <3>1, <3>2
  <2> QED BY <2>2, <2>4, <2>5, <2>6, <2>7, <2>8 DEF PlanKept
<1>5. CASE AddTempBreakpoint
  <2>1. CASE Alloc # NULL
    BY <1>5, <2>1, PlanKeptAdd
  <2>2. CASE Alloc = NULL
    <3>1. /\ phase = "temp"
          /\ UNCHANGED <<pool, list, temps>>
          /\ UNCHANGED <<fileBreakpoints, fileOrder, instrBreakpoints>>
      BY <1>5, <2>2 DEF AddTempBreakpoint, tables
    <3> QED BY <3>1, PlanKeptSame
  <2> QED BY <2>1, <2>2
<1>6. CASE RemoveTempBreakpoint
  BY <1>6, PlanKeptRemove
<1>7. CASE UNCHANGED vars
  <2>1. /\ UNCHANGED <<fileBreakpoints, fileOrder, instrBreakpoints>>
        /\ UNCHANGED <<phase, pool, list, temps>>
    BY <1>7 DEF vars
  <2>2. CASE phase \in {"idle", "temp", "untemp"}
    BY <2>1, <2>2, PlanKeptSame
  <2>3. CASE phase \notin {"idle", "temp", "untemp"}
    BY <2>1, <2>3 DEF PlanKept
  <2> QED BY <2>2, <2>3
<1>8. CASE phase' \in {"clear", "arm"}
  BY <1>8 DEF PlanKept
<1> QED
  BY <1>1, <1>2, <1>3, <1>4, <1>5, <1>6, <1>7, <1>8 DEF Next, HandlerStep,
     SetFileBreakpoints, SetInstructionBreakpoints, StartRebuild, RebuildFrom,
     ClearAllUnlink, ClearAllWipe, NextTable, TryArm, TryArmUpTo

\* The strengthening of ArmedAsPlanned that is inductive beside RInv: where the
\* loops are, what they have armed so far, and what a finished rebuild leaves
\* behind the temporary breakpoints.
PInv == LoopPlace /\ PlanSoFar /\ PlanKept

LEMMA PInvInit == Init => PInv
<1> SUFFICES ASSUME Init PROVE PInv
  OBVIOUS
<1>1. phase = "idle" /\ list = <<>> /\ temps = <<>>
  BY DEF Init
<1>2. Len(list) = 0 /\ Len(temps) = 0 /\ DOMAIN temps = {} /\ Rest = 0
  BY <1>1 DEF Rest
<1> QED BY <1>1, <1>2 DEF PInv, LoopPlace, PlanSoFar, PlanKept

LEMMA PInvStep == RInv /\ PInv /\ [Next]_vars => PInv'
<1> SUFFICES ASSUME RInv, PInv, [Next]_vars PROVE PInv'
  OBVIOUS
<1>1. IInv /\ TypeOK /\ TempsLinked /\ LoopPlace /\ PlanSoFar /\ PlanKept
  BY DEF RInv, IInv, PInv
<1> QED BY <1>1, LoopPlaceStep, PlanSoFarStep, PlanKeptStep DEF PInv

LEMMA PlannedFromInv == RInv /\ PInv => ArmedAsPlanned
<1> SUFFICES ASSUME RInv, PInv PROVE ArmedAsPlanned
  OBVIOUS
<1>1. IInv /\ TempsLinked /\ LoopPlace /\ PlanSoFar /\ PlanKept
  BY DEF RInv, PInv
<1>2. CASE phase = "arm" /\ todo = <<>> /\ tablesLeft = <<>>
  BY <1>1, <1>2, PlanAtEnd DEF ArmedAsPlanned
<1>3. CASE phase = "idle" /\ list # <<>>
  <2>1. temps = <<>>
    BY <1>1, <1>3 DEF TempsLinked
  <2>2. Len(temps) = 0 /\ Len(list) \in Nat /\ Len(list) # 0
    <3>1. list \in Seq(Nodes)
      BY <1>1 DEF IInv, TypeOK
    <3> QED BY <1>3, <2>1, <3>1
  <2>3. Rest = Len(list)
    BY <2>2 DEF Rest
  <2>4. /\ Len(list) = PlanLength
        /\ \A p \in FirstPlaces : Rank(p) <= MaxUserBreakpoints =>
             /\ Rank(p) \in 1 .. Len(list)
             /\ pool[list[0 + Rank(p)]].adr = AskedAt(p)
    BY <1>1, <1>3, <2>2, <2>3 DEF PlanKept
  <2>5. ASSUME NEW p \in FirstPlaces, Rank(p) <= MaxUserBreakpoints
        PROVE  pool[list[Rank(p)]].adr = AskedAt(p)
    <3>1. 0 + Rank(p) = Rank(p)
      BY <2>4, <2>5
    <3> QED BY <2>4, <2>5, <3>1
  <2> QED BY <2>4, <2>5 DEF ArmedAsPlanned
<1>4. CASE ~ (phase = "arm" /\ todo = <<>> /\ tablesLeft = <<>>) /\ ~ (phase = "idle" /\ list # <<>>)
  BY <1>4 DEF ArmedAsPlanned
<1> QED BY <1>2, <1>3, <1>4

\* Whatever the requests, the rehashes of the file table and the step-outs were,
\* RebuildDllBreakpoints has armed the first kMaxUserBreakpoints different
\* addresses the tables ask for, in their order, and step-outs leave exactly
\* those.
THEOREM ArmedByRank == Spec => []ArmedAsPlanned
<1>1. Spec => []RInv
  BY RInductive
<1>2. Init => PInv
  BY PInvInit
<1>3. RInv /\ PInv /\ [Next]_vars => PInv'
  BY PInvStep
<1>4. RInv /\ PInv => ArmedAsPlanned
  BY PlannedFromInv
<1> QED BY <1>1, <1>2, <1>3, <1>4, PTL DEF Spec
=============================================================================
