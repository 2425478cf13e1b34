-------------------------- MODULE StepDepth_proofs --------------------------
(***************************************************************************)
(* For every set of programs, breakpoints and bounds: how deep in calls a  *)
(* step over, a step in and a step out end (module Stepping).              *)
(***************************************************************************)
EXTENDS Stepping_proofs

-----------------------------------------------------------------------------
\* No function is active twice, where no function is reentrant.

\* What a function enters, if only by way of others.
Below(f) ==
  {g \in Functions :
     \A S \in SUBSET Functions :
       /\ \A h \in Functions : Enters(f, h) => h \in S
       /\ \A h \in S, k \in Functions : Enters(h, k) => k \in S
       => g \in S}

LEMMA BelowEnters ==
  ASSUME NEW f \in Functions, NEW g \in Functions, Enters(f, g)
  PROVE  g \in Below(f)
BY DEF Below

LEMMA BelowFollows ==
  ASSUME NEW f \in Functions, NEW g \in Below(f), NEW h \in Functions, Enters(g, h)
  PROVE  h \in Below(f)
<1>1. g \in Functions
  BY DEF Below
<1> QED BY <1>1, Zenon DEF Below

LEMMA BelowAlso ==
  ASSUME NEW f \in Functions, NEW g \in Functions, Enters(f, g), NEW h \in Below(g)
  PROVE  h \in Below(f)
<1>1. h \in Functions
  BY DEF Below
<1>2. SUFFICES ASSUME NEW S \in SUBSET Functions,
                      \A k \in Functions : Enters(f, k) => k \in S,
                      \A k \in S, m \in Functions : Enters(k, m) => m \in S
               PROVE  h \in S
  BY <1>1, Zenon DEF Below
<1>3. g \in S
  BY <1>2
<1>4. \A m \in Functions : Enters(g, m) => m \in S
  BY <1>2, <1>3
<1> QED BY <1>2, <1>4, Zenon DEF Below

\* A function that is below another is entered by what lies between.
LEMMA BelowBegins ==
  ASSUME NEW h \in Functions, NEW f \in Below(h)
  PROVE  \E k \in Functions : Enters(h, k) /\ (k = f \/ f \in Below(k))
<1> SUFFICES ASSUME \A k \in Functions : Enters(h, k) => k # f /\ f \notin Below(k)
             PROVE  FALSE
  OBVIOUS
<1> DEFINE S == {k \in Functions : k # f /\ f \notin Below(k)}
<1>1. f \in Functions
  BY DEF Below
<1>2. \A k \in Functions : Enters(h, k) => k \in S
  OBVIOUS
<1>3. ASSUME NEW k \in S, NEW m \in Functions, Enters(k, m) PROVE m \in S
  <2>1. m # f
    BY <1>3, BelowEnters
  <2>2. f \notin Below(m)
    BY <1>3, BelowAlso
  <2> QED BY <2>1, <2>2
<1>4. S \in SUBSET Functions
  OBVIOUS
<1>5. f \notin S
  OBVIOUS
<1> HIDE DEF S
<1>6. \A k \in S, m \in Functions : Enters(k, m) => m \in S
  BY <1>3
<1> QED BY <1>2, <1>4, <1>5, <1>6, Zenon DEF Below

LEMMA NotBelowItself ==
  ASSUME ~ Reentrant, NEW f \in Functions
  PROVE  f \notin Below(f)
<1> SUFFICES ASSUME f \in Below(f) PROVE FALSE
  OBVIOUS
<1> DEFINE fs == {h \in Functions : f \in Below(h)}
<1>1. fs \in SUBSET Functions /\ fs # {}
  OBVIOUS
<1>2. ASSUME NEW h \in fs PROVE \E k \in fs : Enters(h, k)
  <2>1. PICK k \in Functions : Enters(h, k) /\ (k = f \/ f \in Below(k))
    BY <1>2, BelowBegins
  <2>2. k \in fs
    BY <2>1
  <2> QED BY <2>1, <2>2
<1> HIDE DEF fs
<1> QED BY <1>1, <1>2, Zenon DEF Reentrant

\* The function of a call's target is another one than the call's.
LEMMA CallsAnother ==
  ASSUME TypeInv, ~ Reentrant, NEW a \in DOMAIN Code, Op(a) = "call"
  PROVE  CurFunc(Code[a].to) # CurFunc(a)
<1> SUFFICES ASSUME CurFunc(Code[a].to) = CurFunc(a) PROVE FALSE
  OBVIOUS
<1> DEFINE after == a + Code[a].len
           f == CurFunc(a)
           g == CurFunc(after)
<1>1. after \in DOMAIN Code /\ Code[a].to \in DOMAIN Code
  BY Instructions DEF Follows, Op
<1>2. f \in Functions /\ g \in Functions
  BY <1>1 DEF Functions
<1>3. Enters(g, f)
  BY <1>1 DEF Enters
<1>4. f # g => Enters(f, g)
  BY <1>1 DEF Enters, Onward
<1> DEFINE fs == {f, g}
<1>5. \A h \in fs : \E k \in fs : Enters(h, k)
  BY <1>3, <1>4
<1>6. fs \in SUBSET Functions /\ fs # {}
  BY <1>2
<1> HIDE DEF fs
<1> QED BY <1>5, <1>6, Zenon DEF Reentrant

\* An instruction goes on, calls, or returns.
LEMMA ExecutedCases ==
  ASSUME TypeInv, NEW c \in Cpu, NEW d \in Executed(c)
  PROVE  \/ Op(c.pc) # "ret" /\ d.calls = c.calls /\ d.pc \in Onward(c.pc)
         \/ /\ Op(c.pc) = "call" /\ Len(c.calls) # MaxDepth
            /\ d = [pc |-> Code[c.pc].to, calls |-> Append(c.calls, c.pc + Code[c.pc].len)]
         \/ Op(c.pc) = "ret" /\ c.calls = <<>> /\ d.calls = <<>>
         \/ /\ Op(c.pc) = "ret" /\ c.calls # <<>>
            /\ d = [pc |-> Last(c.calls), calls |-> Front(c.calls)]
<1> DEFINE i     == Code[c.pc]
           after == c.pc + i.len
<1>1. c = [pc |-> c.pc, calls |-> c.calls] /\ c.pc \in DOMAIN Code
  BY DEF Cpu
<1>2. i.op \in {"plain", "branch", "goto", "jump", "call", "ret"}
  BY <1>1, Instructions DEF IsProgram, Code
<1>3. \A a : [c EXCEPT !.pc = a].pc = a /\ [c EXCEPT !.pc = a].calls = c.calls
  BY <1>1
<1>4. CASE i.op = "plain"
  BY <1>3, <1>4 DEF Executed, Op, Onward, Follows
<1>5. CASE i.op = "branch"
  BY <1>3, <1>5 DEF Executed, Op, Onward, Follows
<1>6. CASE i.op \in {"goto", "jump"}
  BY <1>3, <1>6 DEF Executed, Op, Onward, Follows
<1>7. CASE i.op = "call"
  BY <1>3, <1>7 DEF Executed, Op, Onward
<1>8. CASE i.op = "ret"
  <2>1. CASE c.calls = <<>>
    <3>1. Executed(c) = {[c EXCEPT !.pc = a] : a \in DOMAIN Code}
      BY <1>8, <2>1 DEF Executed
    <3>2. d.calls = c.calls
      BY <1>3, <3>1
    <3> QED BY <1>8, <2>1, <3>2 DEF Op
  <2>2. CASE c.calls # <<>>
    <3>1. Executed(c) = {[pc |-> Last(c.calls), calls |-> Front(c.calls)]}
      BY <1>8, <2>2 DEF Executed
    <3> QED BY <1>8, <2>2, <3>1 DEF Op
  <2> QED BY <2>1, <2>2
<1> QED BY <1>2, <1>4, <1>5, <1>6, <1>7, <1>8

\* The functions of the calls on the target's stack, from the outermost, and
\* that of the PC: each is below those before it.
ActiveAt(c, i) == CurFunc(IF i <= Len(c.calls) THEN c.calls[i] ELSE c.pc)

Active(c) ==
  \A i, j \in 1 .. Len(c.calls) + 1 : i < j => ActiveAt(c, j) \in Below(ActiveAt(c, i))

LEMMA ActiveTypes ==
  ASSUME TypeInv, NEW c \in Cpu
  PROVE  /\ Len(c.calls) \in Nat
         /\ \A i \in 1 .. Len(c.calls) + 1 : ActiveAt(c, i) \in Functions
         /\ ActiveAt(c, Len(c.calls) + 1) = CurFunc(c.pc)
         /\ \A i \in 1 .. Len(c.calls) : ActiveAt(c, i) = CurFunc(c.calls[i])
         /\ \A i \in 1 .. Len(c.calls) : c.calls[i] \in DOMAIN Code
<1>1. c.pc \in DOMAIN Code /\ c.calls \in Seq(DOMAIN Code)
  BY DEF Cpu
<1>2. Len(c.calls) \in Nat /\ \A i \in 1 .. Len(c.calls) : c.calls[i] \in DOMAIN Code
  BY <1>1
<1> QED BY <1>1, <1>2 DEF ActiveAt, Functions

\* Where a function goes on it is below what it was below.
LEMMA OnwardBelow ==
  ASSUME TypeInv, NEW f \in Functions, NEW a \in DOMAIN Code, CurFunc(a) \in Below(f),
         NEW b \in Onward(a), b \in DOMAIN Code
  PROVE  CurFunc(b) \in Below(f)
<1>1. CurFunc(b) \in Functions
  BY DEF Functions
<1>2. CASE CurFunc(b) = CurFunc(a)
  BY <1>2
<1>3. CASE CurFunc(b) # CurFunc(a)
  <2>1. Enters(CurFunc(a), CurFunc(b))
    BY <1>3 DEF Enters
  <2> QED BY <1>1, <2>1, BelowFollows
<1> QED BY <1>2, <1>3

LEMMA OnwardType ==
  ASSUME TypeInv, NEW a \in DOMAIN Code
  PROVE  /\ Onward(a) \subseteq DOMAIN Code
         /\ Op(a) = "call" => /\ Onward(a) = {a + Code[a].len}
                              /\ a + Code[a].len \in DOMAIN Code
                              /\ Code[a].to \in DOMAIN Code
BY Instructions DEF Onward, Follows, Op

\* The target keeps its functions in that order whatever it executes.
LEMMA ActiveStep ==
  ASSUME TypeInv, NEW c \in Cpu, NEW d \in Executed(c), Active(c)
  PROVE  Active(d)
<1>0. d \in Cpu
  BY ExecutedType
<1> DEFINE n == Len(c.calls)
<1>1. /\ n \in Nat /\ c.calls \in Seq(DOMAIN Code) /\ c.pc \in DOMAIN Code /\ d.pc \in DOMAIN Code
      /\ Len(d.calls) \in Nat
  BY <1>0 DEF Cpu
<1>2. CASE d.calls = c.calls /\ d.pc \in Onward(c.pc)
  <2>1. \A i \in 1 .. n : ActiveAt(d, i) = ActiveAt(c, i)
    BY <1>1, <1>2 DEF ActiveAt
  <2>2. ActiveAt(d, n + 1) = CurFunc(d.pc) /\ ActiveAt(c, n + 1) = CurFunc(c.pc)
    BY <1>1, <1>2 DEF ActiveAt
  <2>3. ASSUME NEW i \in 1 .. n PROVE ActiveAt(d, n + 1) \in Below(ActiveAt(d, i))
    <3>1. ActiveAt(c, i) \in Functions
      BY <1>1, ActiveTypes
    <3>2. CurFunc(c.pc) \in Below(ActiveAt(c, i))
      BY <1>1, <2>2 DEF Active
    <3>3. CurFunc(d.pc) \in Below(ActiveAt(c, i))
      BY <1>1, <1>2, <3>1, <3>2, OnwardBelow
    <3> QED BY <2>1, <2>2, <3>3
  <2>4. ASSUME NEW i \in 1 .. n + 1, NEW j \in 1 .. n + 1, i < j
        PROVE  ActiveAt(d, j) \in Below(ActiveAt(d, i))
    <3>1. CASE j = n + 1
      BY <1>1, <2>3, <2>4, <3>1
    <3>2. CASE j \in 1 .. n
      <4>1. i \in 1 .. n
        BY <1>1, <2>4, <3>2
      <4>2. ActiveAt(c, j) \in Below(ActiveAt(c, i))
        BY <2>4 DEF Active
      <4> QED BY <2>1, <3>2, <4>1, <4>2
    <3> QED BY <1>1, <2>4, <3>1, <3>2
  <2> QED BY <1>2, <2>4 DEF Active
<1>3. CASE /\ Op(c.pc) = "call"
           /\ d = [pc |-> Code[c.pc].to, calls |-> Append(c.calls, c.pc + Code[c.pc].len)]
  <2> DEFINE after == c.pc + Code[c.pc].len
  <2>1. after \in DOMAIN Code /\ after \in Onward(c.pc) /\ Code[c.pc].to \in DOMAIN Code
    BY <1>1, <1>3, OnwardType
  <2>2. /\ d.pc = Code[c.pc].to
        /\ d.calls = Append(c.calls, after)
        /\ Len(d.calls) = n + 1
        /\ d.calls[n + 1] = after
        /\ \A i \in 1 .. n : d.calls[i] = c.calls[i]
    <3>1. d.pc = Code[c.pc].to /\ d.calls = Append(c.calls, after)
      BY <1>3
    <3> QED BY <1>1, <2>1, <3>1, AppendProperties
  <2>3. \A i \in 1 .. n : ActiveAt(d, i) = ActiveAt(c, i)
    BY <1>1, <2>2 DEF ActiveAt
  <2>4. ActiveAt(c, n + 1) = CurFunc(c.pc)
    BY <1>1 DEF ActiveAt
  <2>5. ActiveAt(d, n + 1) = CurFunc(after)
    BY <1>1, <2>2 DEF ActiveAt
  <2>6. ActiveAt(d, n + 2) = CurFunc(Code[c.pc].to)
    BY <1>1, <2>2 DEF ActiveAt
  <2>7. Enters(CurFunc(after), CurFunc(Code[c.pc].to))
    BY <1>1, <1>3 DEF Enters
  <2>8. CurFunc(after) \in Functions /\ CurFunc(Code[c.pc].to) \in Functions
    BY <2>1 DEF Functions
  <2>9. ASSUME NEW i \in 1 .. n
        PROVE  ActiveAt(d, n + 1) \in Below(ActiveAt(d, i)) /\ ActiveAt(d, n + 2) \in Below(ActiveAt(d, i))
    <3>1. ActiveAt(c, i) \in Functions
      BY <1>1, ActiveTypes
    <3>2. CurFunc(c.pc) \in Below(ActiveAt(c, i))
      BY <1>1, <2>4 DEF Active
    <3>3. CurFunc(after) \in Below(ActiveAt(c, i))
      BY <1>1, <2>1, <3>1, <3>2, OnwardBelow
    <3>4. CurFunc(Code[c.pc].to) \in Below(ActiveAt(c, i))
      BY <2>7, <2>8, <3>1, <3>3, BelowFollows
    <3> QED BY <2>3, <2>5, <2>6, <3>3, <3>4
  <2>10. ActiveAt(d, n + 2) \in Below(ActiveAt(d, n + 1))
    BY <2>5, <2>6, <2>7, <2>8, BelowEnters
  <2>11. ASSUME NEW i \in 1 .. n, NEW j \in 1 .. n, i < j
         PROVE  ActiveAt(d, j) \in Below(ActiveAt(d, i))
    <3>1. ActiveAt(c, j) \in Below(ActiveAt(c, i))
      BY <1>1, <2>11 DEF Active
    <3> QED BY <2>3, <2>11, <3>1
  <2>12. ASSUME NEW i \in 1 .. n + 2, NEW j \in 1 .. n + 2, i < j
         PROVE  ActiveAt(d, j) \in Below(ActiveAt(d, i))
    <3>1. CASE j \in 1 .. n
      BY <1>1, <2>11, <2>12, <3>1
    <3>2. CASE j = n + 1
      BY <1>1, <2>9, <2>12, <3>2
    <3>3. CASE j = n + 2
      <4>1. i \in 1 .. n \/ i = n + 1
        BY <1>1, <2>12, <3>3
      <4>2. CASE i \in 1 .. n
        BY <2>9, <3>3, <4>2
      <4>3. CASE i = n + 1
        BY <2>10, <3>3, <4>3
      <4> QED BY <4>1, <4>2, <4>3
    <3>4. j \in 1 .. n \/ j = n + 1 \/ j = n + 2
      BY <1>1
    <3> QED BY <3>1, <3>2, <3>3, <3>4
  <2> QED BY <1>1, <2>2, <2>12 DEF Active
<1>4. CASE c.calls = <<>> /\ d.calls = <<>>
  BY <1>4 DEF Active
<1>5. CASE c.calls # <<>> /\ d = [pc |-> Last(c.calls), calls |-> Front(c.calls)]
  <2>1. /\ Len(d.calls) = n - 1 /\ n \in Nat \ {0}
        /\ \A i \in 1 .. n - 1 : d.calls[i] = c.calls[i]
    BY <1>1, <1>5, FrontProperties
  <2>2. d.pc = c.calls[n]
    BY <1>5 DEF Last
  <2>3. \A i \in 1 .. n : ActiveAt(d, i) = ActiveAt(c, i)
    BY <1>1, <2>1, <2>2 DEF ActiveAt
  <2>4. ASSUME NEW i \in 1 .. n, NEW j \in 1 .. n, i < j
        PROVE  ActiveAt(d, j) \in Below(ActiveAt(d, i))
    <3>1. ActiveAt(c, j) \in Below(ActiveAt(c, i))
      BY <1>1, <2>4 DEF Active
    <3> QED BY <2>3, <2>4, <3>1
  <2>5. Len(d.calls) + 1 = n
    BY <2>1
  <2> QED BY <2>4, <2>5 DEF Active
<1> QED BY <1>2, <1>3, <1>4, <1>5, ExecutedCases

\* What is active twice is reentrant.
LEMMA ActiveOnce ==
  ASSUME TypeInv, ~ Reentrant, NEW c \in Cpu, Active(c),
         NEW i \in 1 .. Len(c.calls) + 1, NEW j \in 1 .. Len(c.calls) + 1, i < j
  PROVE  ActiveAt(c, i) # ActiveAt(c, j)
<1>1. ActiveAt(c, j) \in Below(ActiveAt(c, i)) /\ ActiveAt(c, i) \in Functions
  BY ActiveTypes DEF Active
<1> QED BY <1>1, NotBelowItself

-----------------------------------------------------------------------------
\* A run within one call of a function.

\* The target c is in the call whose stack is calls, at one of the addresses
\* here, or deeper, by a call that returns to one of the addresses back.
Inside(c, calls, here, back) ==
  /\ Len(calls) <= Len(c.calls)
  /\ \A i \in 1 .. Len(calls) : c.calls[i] = calls[i]
  /\ Len(c.calls) = Len(calls) => c.pc \in here
  /\ Len(c.calls) > Len(calls) => c.calls[Len(calls) + 1] \in back

\* From the addresses here only the exits lead further.
Way(here, back, exits) ==
  /\ here \subseteq DOMAIN Code
  /\ back \subseteq here
  /\ \A a \in here \ exits :
       /\ Op(a) # "ret"
       /\ Onward(a) \subseteq here
       /\ Op(a) = "call" => Onward(a) \subseteq back

LEMMA InsideStep ==
  ASSUME TypeInv, NEW c \in Cpu, NEW d \in Executed(c), NEW calls \in Seq(DOMAIN Code),
         NEW here, NEW back, NEW exits, Way(here, back, exits), Inside(c, calls, here, back),
         Len(c.calls) = Len(calls) => c.pc \notin exits
  PROVE  Inside(d, calls, here, back)
<1> DEFINE n == Len(calls)
           m == Len(c.calls)
<1>1. /\ n \in Nat /\ m \in Nat /\ c.calls \in Seq(DOMAIN Code) /\ c.pc \in DOMAIN Code
      /\ n <= m /\ \A i \in 1 .. n : c.calls[i] = calls[i]
  BY DEF Cpu, Inside
<1>2. CASE Op(c.pc) # "ret" /\ d.calls = c.calls /\ d.pc \in Onward(c.pc)
  BY <1>1, <1>2 DEF Inside, Way
<1>3. CASE /\ Op(c.pc) = "call"
           /\ d = [pc |-> Code[c.pc].to, calls |-> Append(c.calls, c.pc + Code[c.pc].len)]
  <2> DEFINE after == c.pc + Code[c.pc].len
  <2>1. after \in DOMAIN Code /\ after \in Onward(c.pc)
    BY <1>1, <1>3, OnwardType
  <2>2. /\ Len(d.calls) = m + 1
        /\ d.calls[m + 1] = after
        /\ \A i \in 1 .. m : d.calls[i] = c.calls[i]
    <3>1. d.calls = Append(c.calls, after)
      BY <1>3
    <3> QED BY <1>1, <2>1, <3>1, AppendProperties
  <2>3. \A i \in 1 .. n : d.calls[i] = calls[i]
    BY <1>1, <2>2
  <2>4. m = n => d.calls[n + 1] \in back
    BY <1>3, <2>1, <2>2 DEF Inside, Way
  <2>5. m > n => d.calls[n + 1] \in back
    <3> SUFFICES ASSUME m > n PROVE d.calls[n + 1] \in back
      OBVIOUS
    <3>1. c.calls[n + 1] \in back
      BY DEF Inside
    <3>2. n + 1 \in 1 .. m
      BY <1>1
    <3> QED BY <2>2, <3>1, <3>2
  <2>6. m = n \/ m > n
    BY <1>1
  <2>7. n <= m + 1 /\ m + 1 # n
    BY <1>1
  <2> QED BY <2>2, <2>3, <2>4, <2>5, <2>6, <2>7 DEF Inside
<1>4. CASE Op(c.pc) = "ret" /\ c.calls = <<>>
  <2>1. m = 0 /\ n = 0
    BY <1>1, <1>4
  <2>2. c.pc \in here /\ c.pc \notin exits
    BY <2>1 DEF Inside
  <2> QED BY <1>4, <2>2 DEF Way
<1>5. CASE /\ Op(c.pc) = "ret" /\ c.calls # <<>>
           /\ d = [pc |-> Last(c.calls), calls |-> Front(c.calls)]
  <2>1. m > n
    <3>1. m # n
      BY <1>5 DEF Inside, Way
    <3> QED BY <1>1, <3>1
  <2>2. /\ Len(d.calls) = m - 1
        /\ \A i \in 1 .. m - 1 : d.calls[i] = c.calls[i]
    BY <1>1, <1>5, FrontProperties
  <2>3. d.pc = c.calls[m]
    BY <1>5 DEF Last
  <2>4. c.calls[n + 1] \in back
    BY <2>1 DEF Inside
  <2>5. n <= m - 1 /\ \A i \in 1 .. n : i \in 1 .. m - 1
    BY <1>1, <2>1
  <2>6. \A i \in 1 .. n : d.calls[i] = calls[i]
    BY <1>1, <2>2, <2>5
  <2>7. m - 1 = n => d.pc \in here
    <3> SUFFICES ASSUME m - 1 = n PROVE d.pc \in here
      OBVIOUS
    <3>1. m = n + 1
      BY <1>1
    <3> QED BY <2>3, <2>4, <3>1 DEF Way
  <2>8. m - 1 > n => d.calls[n + 1] \in back
    <3> SUFFICES ASSUME m - 1 > n PROVE d.calls[n + 1] \in back
      OBVIOUS
    <3>1. n + 1 \in 1 .. m - 1
      BY <1>1
    <3> QED BY <2>2, <2>4, <3>1
  <2> QED BY <2>2, <2>5, <2>6, <2>7, <2>8 DEF Inside
<1> QED BY <1>2, <1>3, <1>4, <1>5, ExecutedCases

\* An exit is met in that call, not deeper.
LEMMA InsideArrives ==
  ASSUME TypeInv, ~ Reentrant, NEW c \in Cpu, Active(c), NEW calls \in Seq(DOMAIN Code),
         NEW here, NEW back, Inside(c, calls, here, back),
         \A b \in back : CurFunc(b) = CurFunc(c.pc)
  PROVE  c.calls = calls
<1> DEFINE n == Len(calls)
           m == Len(c.calls)
<1>1. /\ n \in Nat /\ m \in Nat /\ n <= m /\ c.calls \in Seq(DOMAIN Code)
      /\ \A i \in 1 .. n : c.calls[i] = calls[i]
  BY DEF Cpu, Inside
<1>2. CASE m = n
  <2>1. \A i \in 1 .. Len(c.calls) : c.calls[i] = calls[i]
    BY <1>1, <1>2
  <2> QED BY <1>1, <1>2, <2>1, SeqEqual
<1>3. CASE m > n
  <2>1. n + 1 \in 1 .. m /\ n + 1 \in 1 .. m + 1 /\ m + 1 \in 1 .. m + 1 /\ n + 1 < m + 1
    BY <1>1, <1>3
  <2>2. ActiveAt(c, n + 1) = CurFunc(c.calls[n + 1]) /\ ActiveAt(c, m + 1) = CurFunc(c.pc)
    BY <2>1, ActiveTypes
  <2>3. ActiveAt(c, n + 1) # ActiveAt(c, m + 1)
    BY <2>1, ActiveOnce
  <2>4. c.calls[n + 1] \in back
    BY <1>3 DEF Inside
  <2> QED BY <2>2, <2>3, <2>4
<1> QED BY <1>1, <1>2, <1>3

LEMMA InsideBegins ==
  ASSUME NEW c \in Cpu, NEW here, NEW back, c.pc \in here
  PROVE  Inside(c, c.calls, here, back)
<1>1. Len(c.calls) \in Nat
  BY DEF Cpu
<1> QED BY <1>1 DEF Inside

-----------------------------------------------------------------------------
\* The target keeps its functions in order in every run.

LEMMA ProgramSame ==
  ASSUME UNCHANGED <<image, place>>
  PROVE  /\ Code' = Code /\ Functions' = Functions /\ Cpu' = Cpu
         /\ \A a : /\ CurFunc(a)' = CurFunc(a) /\ Here(a)' = Here(a)
                   /\ NextLine(a)' = NextLine(a) /\ Op(a)' = Op(a)
                   /\ Onward(a)' = Onward(a) /\ Function(a)' = Function(a)
         /\ \A f, g : Enters(f, g)' <=> Enters(f, g)
<1>1. Code' = Code
  BY DEF Code, Table
<1>2. \A a : CurFunc(a)' = CurFunc(a) /\ Here(a)' = Here(a) /\ NextLine(a)' = NextLine(a)
  BY DEF CurFunc, Here, NextLine, Frame
<1>3. \A a : Op(a)' = Op(a)
  BY <1>1 DEF Op
<1>4. \A a : Onward(a)' = Onward(a)
  BY <1>1, <1>3 DEF Onward
<1>5. Functions' = Functions /\ \A a : Function(a)' = Function(a)
  BY <1>1, <1>2 DEF Functions, Function
<1>6. \A f, g : Enters(f, g)' <=> Enters(f, g)
  BY <1>1, <1>2, <1>3, <1>4, Zenon DEF Enters
<1>7. Cpu' = Cpu
  BY <1>1 DEF Cpu
<1> QED BY <1>1, <1>2, <1>3, <1>4, <1>5, <1>6, <1>7

LEMMA OrderSame ==
  ASSUME UNCHANGED <<image, place>>
  PROVE  /\ Reentrant' <=> Reentrant
         /\ \A f : Below(f)' = Below(f)
         /\ \A c : Active(c)' <=> Active(c)
<1>1. Functions' = Functions /\ \A f, g : Enters(f, g)' <=> Enters(f, g)
  BY ProgramSame
<1>2. Reentrant' <=> Reentrant
  BY <1>1, Zenon DEF Reentrant
<1>3. \A f : Below(f)' = Below(f)
  BY <1>1, Zenon DEF Below
<1>4. \A c, i : ActiveAt(c, i)' = ActiveAt(c, i)
  BY DEF ActiveAt, CurFunc, Frame
<1>5. \A c : Active(c)' <=> Active(c)
  BY <1>3, <1>4, Zenon DEF Active
<1> QED BY <1>2, <1>3, <1>5

LEMMA CpuSteps ==
  ASSUME TypeInv, [Next]_vars
  PROVE  cpu' = cpu \/ cpu' \in Executed(cpu)
<1>1. CASE HandleNext
  BY <1>1 DEF HandleNext, HandleNextToReturn, HandleNextToLine, HandleNextLoop, HandleNextLast,
              HandleNextInstruction, Instruction, StepInstruction, RunTo, Run, target
<1>2. CASE HandleStepIn
  BY <1>2 DEF HandleStepIn, HandleStepInLoop, HandleStepInCall,
              HandleStepInInstruction, Instruction, StepInstruction, target
<1>3. CASE HandleStepOut
  BY <1>3 DEF HandleStepOut, HandleStepOutToReturns, HandleStepOutToJumps,
              HandleStepOutInstruction, Instruction, StepInstruction, RunOut, RunTo, Run
<1>4. CASE HandleInstruction \/ HandleContinue \/ HandlePause \/ RunExecutes \/ UNCHANGED vars
  BY <1>4 DEF HandleInstruction, Instruction, StepInstruction, HandleContinue, HandlePause,
              RunExecutes, Restarted, Run, vars, target
<1>5. CASE NextMove \/ LoopEnds \/ StepInMove \/ StepInCounts \/ StepInEntered
  BY <1>5 DEF NextMove, LoopEnds, StepInMove, StepInCounts, StepInEntered, StepInstruction,
              RunTo, Run, target
<1>6. CASE RunHalts
  BY <1>6 DEF RunHalts, Proceed, TypeInv, TypeOK, Runs
<1>7. CASE RunTimesOut \/ WaiterSends \/ StepSends
  BY <1>7 DEF RunTimesOut, WaiterSends, StepSends, Restarted, target
<1> QED BY <1>1, <1>2, <1>3, <1>4, <1>5, <1>6, <1>7 DEF Next, Handler

LEMMA ActiveInit == Init => Active(cpu)
<1> SUFFICES ASSUME Init PROVE Active(cpu)
  OBVIOUS
<1>1. Len(cpu.calls) = 0
  BY DEF Init
<1> QED BY <1>1 DEF Active

LEMMA ActiveNext == TypeInv /\ Active(cpu) /\ [Next]_vars => Active(cpu)'
<1> SUFFICES ASSUME TypeInv, Active(cpu), [Next]_vars PROVE Active(cpu)'
  OBVIOUS
<1>1. cpu \in Cpu
  BY DEF TypeInv, TypeOK
<1>2. Active(cpu')
  <2>1. CASE cpu' = cpu
    BY <2>1
  <2>2. CASE cpu' \in Executed(cpu)
    BY <1>1, <2>2, ActiveStep
  <2> QED BY <2>1, <2>2, CpuSteps
<1>3. UNCHANGED <<image, place>>
  BY ProgramStays
<1>4. \A f : Below(f)' = Below(f)
  BY <1>3, OrderSame
<1>5. \A c, i : ActiveAt(c, i)' = ActiveAt(c, i)
  BY <1>3 DEF ActiveAt, CurFunc, Frame
<1> QED BY <1>2, <1>4, <1>5, Zenon DEF Active

-----------------------------------------------------------------------------
\* What a run is within.

InRun(c, calls, here, back, exits) ==
  /\ Way(here, back, exits)
  /\ Inside(c, calls, here, back)
  /\ \A b \in back, e \in exits : CurFunc(b) = CurFunc(e)

LEMMA InRunSame ==
  ASSUME UNCHANGED <<image, place>>
  PROVE  \A c, calls, here, back, exits :
           InRun(c, calls, here, back, exits) => InRun(c, calls, here, back, exits)'
<1>1. \A here, back, exits : Way(here, back, exits) => Way(here, back, exits)'
  BY ProgramSame, Zenon DEF Way
<1>2. \A c, calls, here, back : Inside(c, calls, here, back)' <=> Inside(c, calls, here, back)
  BY DEF Inside
<1>3. \A a : CurFunc(a)' = CurFunc(a)
  BY ProgramSame
<1> QED BY <1>1, <1>2, <1>3, Zenon DEF InRun

LEMMA InRunGoes ==
  ASSUME TypeInv, RunExecutes, NEW calls \in Seq(DOMAIN Code), NEW here, NEW back, NEW exits,
         InRun(cpu, calls, here, back, exits), Len(cpu.calls) = Len(calls) => cpu.pc \notin exits
  PROVE  /\ Len(calls) <= Len(cpu.calls)
         /\ InRun(cpu', calls, here, back, exits)
<1>1. cpu \in Cpu /\ cpu' \in Executed(cpu)
  BY DEF TypeInv, TypeOK, RunExecutes
<1>2. Inside(cpu', calls, here, back)
  BY <1>1, InsideStep DEF InRun
<1> QED BY <1>2 DEF InRun, Inside

LEMMA InRunEnds ==
  ASSUME TypeInv, ~ Reentrant, Active(cpu), NEW calls \in Seq(DOMAIN Code),
         NEW here, NEW back, NEW exits, InRun(cpu, calls, here, back, exits), cpu.pc \in exits
  PROVE  cpu.calls = calls
<1>1. cpu \in Cpu
  BY DEF TypeInv, TypeOK
<1> QED BY <1>1, InsideArrives DEF InRun

\* A run that LeadsTo describes.
LEMMA InRunBegins ==
  ASSUME TypeInv, NEW c \in Cpu, NEW exits, LeadsTo(c.pc, exits)
  PROVE  \E here \in SUBSET DOMAIN Code : InRun(c, c.calls, here, here, exits)
<1>1. PICK here \in SUBSET Function(c.pc) :
        c.pc \in here /\ \A a \in here \ exits : Op(a) # "ret" /\ Onward(a) \subseteq here
  BY DEF LeadsTo
<1>2. here \in SUBSET DOMAIN Code
  BY DEF Function
<1>3. Way(here, here, exits)
  BY <1>1, <1>2 DEF Way
<1>4. Inside(c, c.calls, here, here)
  BY <1>1, InsideBegins
<1>5. \A b \in here, e \in exits : CurFunc(b) = CurFunc(e)
  BY DEF LeadsTo, Function
<1> QED BY <1>2, <1>3, <1>4, <1>5 DEF InRun

\* The run of a step over, over a call.
LEMMA InRunOverCall ==
  ASSUME TypeInv, NEW c \in Cpu, Op(c.pc) = "call"
  PROVE  LET after == c.pc + Code[c.pc].len
         IN  /\ {c.pc, after} \in SUBSET DOMAIN Code /\ {after} \in SUBSET DOMAIN Code
             /\ InRun(c, c.calls, {c.pc, after}, {after}, {after})
<1> DEFINE after == c.pc + Code[c.pc].len
<1>1. c.pc \in DOMAIN Code
  BY DEF Cpu
<1>2. after \in DOMAIN Code /\ Onward(c.pc) = {after}
  BY <1>1, OnwardType
<1> HIDE DEF after
<1>3. Way({c.pc, after}, {after}, {after})
  BY <1>1, <1>2 DEF Way
<1>4. Inside(c, c.calls, {c.pc, after}, {after})
  BY InsideBegins
<1> QED BY <1>1, <1>2, <1>3, <1>4 DEF InRun, after

LEMMA PrefixOfItself == ASSUME NEW T, NEW s \in Seq(T) PROVE IsPrefix(s, s)
BY DEF IsPrefix

LEMMA FrontIsPrefix == ASSUME NEW T, NEW s \in Seq(T), s # <<>> PROVE IsPrefix(Front(s), s)
<1> DEFINE f == Front(s)
           n == Len(s) - 1
<1>1. f \in Seq(T) /\ Len(f) = n /\ n \in Nat /\ n <= Len(s) /\ f = SubSeq(s, 1, n)
  BY FrontProperties, EmptySeq DEF Front
<1> HIDE DEF f, n
<1>2. SubSeq(f, 1, n) = f
  BY <1>1
<1> QED BY <1>1, <1>2 DEF IsPrefix, f

-----------------------------------------------------------------------------
\* A step over.

NextAsked ==
  LET c == begin.cpu
  IN  /\ begin.kind = "next"
      /\ BetweenLines(c.pc)
      /\ IF LeavesFunction(c.pc)
         THEN NextReturns(c.pc) # {} /\ LeadsTo(c.pc, {Min(NextReturns(c.pc))})
         ELSE LineInFunction(c.pc)
      /\ ~ Reentrant

Calm == broke = Nowhere /\ ~ spoilt

\* A run to an address from the call that the stack calls stands for.
RunFrom(calls) ==
  /\ temps = {}
  /\ \E here, back \in SUBSET DOMAIN Code : InRun(cpu, calls, here, back, {until})

\* Where a step over may be, and the target then.
NextAt ==
  LET c == begin.cpu
  IN  /\ ~ left
      /\ at \in {"loop", "runCall", "runReturn", "done", "idle"}
      /\ at \in {"loop", "runCall"} => LineInFunction(c.pc)
      /\ at = "loop" => cpu.calls = c.calls /\ OnStartLine(cpu.pc)
      /\ at \in {"runCall", "runReturn"} => RunFrom(c.calls)
      /\ at = "runReturn" => Op(until) = "ret"
      /\ at \in {"done", "idle"} => IsPrefix(cpu.calls, c.calls)

NextInv == NextAsked /\ Calm => NextAt

\* What the handlers look up stays the same.
LEMMA LookupsSame ==
  ASSUME UNCHANGED <<image, place>>
  PROVE  /\ \A pc : /\ BetweenLines(pc)' <=> BetweenLines(pc)
                    /\ LeavesFunction(pc)' <=> LeavesFunction(pc)
                    /\ NextReturns(pc)' = NextReturns(pc)
                    /\ LineInFunction(pc)' <=> LineInFunction(pc)
         /\ \A pc, exits : LeadsTo(pc, exits)' <=> LeadsTo(pc, exits)
         /\ \A from, len : Sweep(from, len)' = Sweep(from, len)
         /\ \A addrs, op : Among(addrs, op)' = Among(addrs, op)
<1>1. \A pc : BetweenLines(pc)' <=> BetweenLines(pc)
  BY DEF BetweenLines, Here, NextLine, Frame
<1>2. \A pc : LeavesFunction(pc)' <=> LeavesFunction(pc)
  BY DEF LeavesFunction, CurFunc, NextLine, Frame
<1>3. \A from, len : Sweep(from, len)' = Sweep(from, len)
  BY ProgramSame DEF Sweep
<1>4. \A addrs, op : Among(addrs, op)' = Among(addrs, op)
  BY ProgramSame DEF Among
<1>5. \A pc : NextReturns(pc)' = NextReturns(pc)
  BY ProgramSame, <1>3, <1>4, Zenon DEF NextReturns
<1>6. \A pc : LineInFunction(pc)' <=> LineInFunction(pc)
  BY ProgramSame, Zenon DEF LineInFunction
<1>7. \A pc, exits : LeadsTo(pc, exits)' <=> LeadsTo(pc, exits)
  <2> DEFINE Goes(way, exits)  == \A a \in way \ exits : Op(a) # "ret" /\ Onward(a) \subseteq way
  <2>1. \A way, exits : Goes(way, exits)' <=> Goes(way, exits)
    BY ProgramSame, Zenon
  <2>2. \A pc : Function(pc)' = Function(pc)
    BY ProgramSame
  <2> QED BY <2>1, <2>2 DEF LeadsTo
<1> QED BY <1>1, <1>2, <1>3, <1>4, <1>5, <1>6, <1>7

LEMMA NextAskedSame ==
  ASSUME UNCHANGED <<image, place, begin>>
  PROVE  NextAsked' <=> NextAsked
<1>1. begin'.cpu.pc = begin.cpu.pc /\ begin'.kind = begin.kind
  OBVIOUS
<1>2. Reentrant' <=> Reentrant
  BY OrderSame
<1> QED BY <1>1, <1>2, LookupsSame, Zenon DEF NextAsked

LEMMA BeginTypes ==
  ASSUME TypeInv
  PROVE  /\ begin.cpu \in Cpu /\ cpu \in Cpu
         /\ begin.cpu.pc \in DOMAIN Code /\ begin.cpu.calls \in Seq(DOMAIN Code)
         /\ cpu.pc \in DOMAIN Code /\ cpu.calls \in Seq(DOMAIN Code)
BY DEF TypeInv, TypeOK, Cpu

LEMMA RunFromThen ==
  ASSUME UNCHANGED <<image, place>>, temps' = {},
         NEW here \in SUBSET DOMAIN Code, NEW back \in SUBSET DOMAIN Code, NEW calls,
         InRun(cpu', calls, here, back, {until'})
  PROVE  RunFrom(calls)'
<1>1. InRun(cpu, calls, here, back, {until})'
  BY InRunSame, Zenon
<1>2. (DOMAIN Code)' = DOMAIN Code
  BY ProgramSame
<1> QED BY <1>1, <1>2, Zenon DEF RunFrom

LEMMA RunFromSame ==
  ASSUME UNCHANGED <<image, place, cpu, until, temps>>
  PROVE  \A calls : RunFrom(calls)' <=> RunFrom(calls)
<1>1. \A here, back, exits : Way(here, back, exits)' <=> Way(here, back, exits)
  BY ProgramSame, Zenon DEF Way
<1>2. \A c, calls, here, back : Inside(c, calls, here, back)' <=> Inside(c, calls, here, back)
  BY DEF Inside
<1>3. \A calls, here, back : InRun(cpu, calls, here, back, {until})'
                             <=> InRun(cpu, calls, here, back, {until})
  BY <1>1, <1>2, ProgramSame, Zenon DEF InRun
<1>4. (DOMAIN Code)' = DOMAIN Code
  BY ProgramSame
<1> QED BY <1>3, <1>4, Zenon DEF RunFrom

\* A step over begins.
LEMMA NextBegins ==
  ASSUME TypeInv, HandleNext, NextAsked', Calm'
  PROVE  NextAt'
<1>1. UNCHANGED <<image, place>>
  BY ProgramStays DEF Next
<1>2. begin'.cpu = cpu /\ ~ left'
  BY Requests
<1>3. /\ BetweenLines(cpu.pc)
      /\ IF LeavesFunction(cpu.pc)
         THEN NextReturns(cpu.pc) # {} /\ LeadsTo(cpu.pc, {Min(NextReturns(cpu.pc))})
         ELSE LineInFunction(cpu.pc)
      /\ ~ Reentrant
  <2>1. begin'.cpu.pc = cpu.pc
    BY <1>2
  <2>2. Reentrant' <=> Reentrant
    BY <1>1, OrderSame
  <2> QED BY <1>1, <2>1, <2>2, LookupsSame, Zenon DEF NextAsked
<1>4. cpu \in Cpu /\ cpu.pc \in DOMAIN Code
  BY BeginTypes
<1>5. CASE HandleNextToReturn
  <2> DEFINE r == Min(NextReturns(cpu.pc))
  <2>1. LeavesFunction(cpu.pc) /\ NextReturns(cpu.pc) # {}
        /\ cpu' = cpu /\ at' = "runReturn" /\ until' = r /\ temps' = {}
    BY <1>5 DEF HandleNextToReturn, RunTo, Run
  <2>2. PICK here \in SUBSET DOMAIN Code : InRun(cpu, cpu.calls, here, here, {r})
    BY <1>3, <1>4, <2>1, InRunBegins
  <2> HIDE DEF r
  <2>3. InRun(cpu', begin'.cpu.calls, here, here, {until'})
    BY <1>2, <2>1, <2>2
  <2>4. RunFrom(begin.cpu.calls)'
    BY <1>1, <2>1, <2>3, RunFromThen
  <2>5. Op(until)' = "ret"
    <3>1. NextReturns(cpu.pc) \in SUBSET Nat /\ \A a \in NextReturns(cpu.pc) : Op(a) = "ret"
      BY Instructions DEF NextReturns, Sweep, Among
    <3>2. r \in NextReturns(cpu.pc)
      BY <2>1, <3>1, MinNat DEF r
    <3>3. Op(r) = "ret" /\ Code' = Code
      BY <1>1, <3>1, <3>2, ProgramSame
    <3> QED BY <2>1, <3>3 DEF Op
  <2> QED BY <1>2, <2>1, <2>4, <2>5 DEF NextAt
<1>6. CASE HandleNextToLine
  BY <1>3, <1>6 DEF HandleNextToLine
<1>7. CASE HandleNextLoop
  <2>1. ~ LeavesFunction(cpu.pc) /\ cpu' = cpu /\ at' = "loop"
    BY <1>7 DEF HandleNextLoop, target
  <2>2. LineInFunction(begin.cpu.pc)'
    <3>1. begin'.cpu.pc = cpu.pc
      BY <1>2
    <3> QED BY <1>1, <1>3, <2>1, <3>1, LookupsSame, Zenon
  <2>3. OnStartLine(cpu.pc)'
    <3>1. Here(cpu.pc) # NoLoc
      BY <1>3 DEF BetweenLines
    <3> QED BY <1>1, <1>2, <2>1, <3>1 DEF OnStartLine, Here, Frame
  <2> QED BY <1>2, <2>1, <2>2, <2>3 DEF NextAt
<1>8. CASE HandleNextLast \/ HandleNextInstruction
  BY <1>3, <1>8 DEF HandleNextLast, HandleNextInstruction, BetweenLines
<1> QED BY <1>5, <1>6, <1>7, <1>8 DEF HandleNext

\* A step that goes on calmly was calm, and did not halt elsewhere.
GoesOnBy ==
  \/ NextMove \/ LoopEnds \/ StepInMove \/ StepInCounts \/ StepInEntered
  \/ RunExecutes \/ RunHalts \/ RunTimesOut \/ HandlePause \/ WaiterSends \/ StepSends

LEMMA CalmBefore ==
  ASSUME TypeInv, GoesOnBy, Calm'
  PROVE  /\ Calm /\ UNCHANGED <<image, place, begin>>
         /\ ~ RunTimesOut
         /\ RunHalts => cpu.pc = until \/ cpu.pc \in temps
<1>1. UNCHANGED <<image, place>>
  BY ProgramStays DEF GoesOnBy, Next, Handler
<1>2. cpu # Nowhere
  <2>1. cpu.pc \in Nat
    BY BeginTypes, Instructions
  <2> QED BY <2>1, Instructions DEF Nowhere
<1>3. CASE NextMove \/ LoopEnds \/ StepInMove \/ StepInCounts \/ StepInEntered
  <2>1. UNCHANGED history /\ go = "halted"
    BY <1>3, Places DEF NextMove, LoopEnds, StepInMove, StepInCounts, StepInEntered,
                        TypeInv, TypeOK, Waiting
  <2> QED BY <1>1, <2>1 DEF history, Calm, RunHalts, RunTimesOut
<1>4. CASE RunExecutes
  <2>1. ~ RunHalts /\ ~ RunTimesOut
    BY <1>4 DEF RunExecutes, RunHalts, RunTimesOut
  <2> QED BY <1>1, <1>4, <2>1 DEF RunExecutes, Calm
<1>5. CASE RunHalts
  <2>1. cpu.pc = until \/ cpu.pc \in temps
    BY <1>2, <1>5 DEF RunHalts, Calm
  <2>2. broke' = broke /\ spoilt' = spoilt /\ begin' = begin
    BY <1>5, <2>1 DEF RunHalts
  <2>3. ~ RunTimesOut
    BY <2>2, Zenon DEF RunTimesOut, Calm
  <2> QED BY <1>1, <2>1, <2>2, <2>3 DEF Calm
<1>6. ~ RunTimesOut
  BY DEF RunTimesOut, Calm
<1>7. CASE HandlePause \/ WaiterSends \/ StepSends
  <2>1. begin' = begin /\ broke' = broke /\ spoilt' = spoilt /\ ~ RunHalts
    BY <1>7 DEF HandlePause, WaiterSends, StepSends, Restarted, RunHalts, Proceed,
                TypeInv, TypeOK, Runs
  <2> QED BY <1>1, <1>6, <2>1 DEF Calm
<1> QED BY <1>3, <1>4, <1>5, <1>6, <1>7 DEF GoesOnBy

\* A RET on a line of one function leaves the line.
LEMMA LineLeft ==
  ASSUME TypeInv, ~ Reentrant, Active(cpu), LineInFunction(begin.cpu.pc), OnStartLine(cpu.pc),
         cpu.calls # <<>>
  PROVE  ~ OnStartLine(Last(cpu.calls))
<1> DEFINE n == Len(cpu.calls)
<1>1. cpu \in Cpu /\ cpu.pc \in DOMAIN Code /\ cpu.calls \in Seq(DOMAIN Code)
  BY BeginTypes
<1>2. n \in Nat \ {0}
  BY <1>1, EmptySeq
<1>3. Last(cpu.calls) = cpu.calls[n] /\ cpu.calls[n] \in DOMAIN Code
  BY <1>1, <1>2 DEF Last
<1>4. ActiveAt(cpu, n) = CurFunc(cpu.calls[n]) /\ ActiveAt(cpu, n + 1) = CurFunc(cpu.pc)
  BY <1>1, <1>2, ActiveTypes
<1>5. ActiveAt(cpu, n) # ActiveAt(cpu, n + 1)
  <2>1. n \in 1 .. n + 1 /\ n + 1 \in 1 .. n + 1 /\ n < n + 1
    BY <1>2
  <2> QED BY <1>1, <2>1, ActiveOnce
<1>6. CurFunc(cpu.pc) = CurFunc(begin.cpu.pc)
  BY <1>1 DEF LineInFunction, OnStartLine, Function
<1>7. CurFunc(cpu.calls[n]) # CurFunc(begin.cpu.pc)
  BY <1>4, <1>5, <1>6
<1> QED BY <1>3, <1>7 DEF LineInFunction, OnStartLine, Function

\* A step over goes on.
LEMMA NextGoesOn ==
  ASSUME TypeInv, Active(cpu), NextInv, GoesOnBy, NextAsked', Calm'
  PROVE  NextAt'
<1>1. UNCHANGED <<image, place, begin>> /\ ~ RunTimesOut
      /\ (RunHalts => cpu.pc = until \/ cpu.pc \in temps)
  BY CalmBefore
<1>2. NextAsked /\ NextAt /\ ~ Reentrant
  <2>1. NextAsked
    BY <1>1, NextAskedSame
  <2> QED BY <2>1, CalmBefore DEF NextInv, NextAsked
<1>3. /\ begin.cpu \in Cpu /\ cpu \in Cpu
      /\ begin.cpu.pc \in DOMAIN Code /\ begin.cpu.calls \in Seq(DOMAIN Code)
      /\ cpu.pc \in DOMAIN Code /\ cpu.calls \in Seq(DOMAIN Code)
  BY BeginTypes
<1>4. LineInFunction(begin.cpu.pc)' <=> LineInFunction(begin.cpu.pc)
  BY <1>1, LookupsSame, Zenon
<1>5. OnStartLine(cpu.pc)' <=> OnStartLine(cpu'.pc)
  BY <1>1 DEF OnStartLine, Here, Frame
<1>6. CASE NextMove /\ Op(cpu.pc) = "call"
  <2> DEFINE after == cpu.pc + Code[cpu.pc].len
  <2>1. at = "loop" /\ cpu' = cpu /\ at' = "runCall" /\ until' = after /\ temps' = {} /\ left' = left
    BY <1>6 DEF NextMove, RunTo, Run, history
  <2>2. cpu.calls = begin.cpu.calls
    BY <1>2, <2>1 DEF NextAt
  <2>3. InRun(cpu', begin'.cpu.calls, {cpu.pc, after}, {after}, {until'})
        /\ {cpu.pc, after} \in SUBSET DOMAIN Code /\ {after} \in SUBSET DOMAIN Code
    BY <1>1, <1>3, <1>6, <2>1, <2>2, InRunOverCall
  <2>4. RunFrom(begin.cpu.calls)'
    BY <1>1, <2>1, <2>3, RunFromThen
  <2> QED BY <1>1, <1>2, <1>4, <2>1, <2>4 DEF NextAt
<1>7. CASE NextMove /\ Op(cpu.pc) # "call"
  <2>1. at = "loop" /\ cpu' \in Executed(cpu) /\ left' = left /\ begin' = begin
        /\ at' = IF OnStartLine(cpu'.pc) THEN "loop" ELSE "done"
    BY <1>7 DEF NextMove, StepInstruction, history
  <2>2. cpu.calls = begin.cpu.calls /\ OnStartLine(cpu.pc) /\ LineInFunction(begin.cpu.pc) /\ ~ left
    BY <1>2, <2>1 DEF NextAt
  <2>3. CASE cpu'.calls = cpu.calls
    BY <1>1, <1>3, <1>4, <1>5, <2>1, <2>2, <2>3, PrefixOfItself DEF NextAt
  <2>4. CASE cpu.calls # <<>> /\ cpu' = [pc |-> Last(cpu.calls), calls |-> Front(cpu.calls)]
    <3>1. IsPrefix(cpu'.calls, begin.cpu.calls)
      BY <1>3, <2>2, <2>4, FrontIsPrefix
    <3>2. ~ OnStartLine(cpu'.pc)
      BY <1>2, <1>3, <2>2, <2>4, LineLeft
    <3> QED BY <1>1, <2>1, <2>2, <3>1, <3>2 DEF NextAt
  <2> QED BY <1>3, <1>7, <2>1, <2>3, <2>4, ExecutedCases
<1>8. CASE LoopEnds
  <2>1. at = "loop" /\ cpu' = cpu /\ at' = "done" /\ left' = left
    BY <1>2, <1>8 DEF LoopEnds, NextAt, target, history
  <2> QED BY <1>1, <1>2, <1>3, <2>1, PrefixOfItself DEF NextAt
<1>9. CASE RunExecutes
  <2>1. /\ UNCHANGED <<until, temps, at>> /\ at \in {"runCall", "runReturn"} /\ cpu.pc # until
        /\ left' = (left \/ Len(cpu.calls) < Len(begin.cpu.calls))
    BY <1>2, <1>9 DEF RunExecutes, Arrived, NextAt, TypeInv, TypeOK, Runs
  <2>2. temps = {} /\ RunFrom(begin.cpu.calls)
    BY <1>2, <2>1 DEF NextAt, RunFrom
  <2>3. PICK here \in SUBSET DOMAIN Code, back \in SUBSET DOMAIN Code :
          InRun(cpu, begin.cpu.calls, here, back, {until})
    BY <2>2 DEF RunFrom
  <2>4. /\ Len(begin.cpu.calls) <= Len(cpu.calls)
        /\ InRun(cpu', begin.cpu.calls, here, back, {until})
    BY <1>3, <1>9, <2>1, <2>3, InRunGoes
  <2>5. RunFrom(begin.cpu.calls)'
    <3>1. InRun(cpu', begin'.cpu.calls, here, back, {until'}) /\ temps' = {}
      BY <1>1, <2>1, <2>2, <2>4
    <3> QED BY <1>1, <3>1, RunFromThen
  <2>6. ~ left'
    <3>1. Len(begin.cpu.calls) \in Nat
      BY <1>3
    <3>2. Len(cpu.calls) \in Nat
      BY <1>3
    <3>3. ~ (Len(cpu.calls) < Len(begin.cpu.calls))
      BY <2>4, <3>1, <3>2
    <3>4. ~ left
      BY <1>2 DEF NextAt
    <3> QED BY <2>1, <3>3, <3>4, Zenon
  <2>7. Op(until)' = Op(until)
    BY <1>1, <2>1 DEF Op, Code, Table
  <2> QED BY <1>1, <1>2, <1>4, <2>1, <2>5, <2>6, <2>7 DEF NextAt
<1>10. CASE RunHalts
  <2>1. at \in {"runCall", "runReturn"} /\ left' = left /\ Proceed(at)
    BY <1>2, <1>10 DEF RunHalts, NextAt, TypeInv, TypeOK, Runs
  <2>2. temps = {} /\ RunFrom(begin.cpu.calls)
    BY <1>2, <2>1 DEF NextAt, RunFrom
  <2>3. PICK here \in SUBSET DOMAIN Code, back \in SUBSET DOMAIN Code :
          InRun(cpu, begin.cpu.calls, here, back, {until})
    BY <2>2 DEF RunFrom
  <2>4. cpu.pc = until
    BY <1>1, <1>10, <2>2
  <2>5. cpu.calls = begin.cpu.calls
    BY <1>2, <1>3, <2>3, <2>4, InRunEnds
  <2>6. CASE at = "runCall"
    <3>1. cpu' = cpu /\ at' = IF OnStartLine(cpu.pc) THEN "loop" ELSE "done"
      BY <2>1, <2>6 DEF Proceed
    <3> QED BY <1>1, <1>2, <1>3, <1>4, <1>5, <2>1, <2>5, <2>6, <3>1, PrefixOfItself DEF NextAt
  <2>7. CASE at = "runReturn"
    <3>1. at' = "done" /\ cpu' \in Executed(cpu)
      BY <2>1, <2>7 DEF Proceed
    <3>2. Op(cpu.pc) = "ret"
      BY <1>2, <2>4, <2>7 DEF NextAt
    <3>3. \/ cpu'.calls = cpu.calls
          \/ /\ cpu.calls # <<>>
             /\ cpu'.calls = Front(cpu.calls)
      <4>1. \/ cpu.calls = <<>> /\ cpu'.calls = <<>>
            \/ /\ cpu.calls # <<>>
               /\ cpu' = [pc |-> Last(cpu.calls), calls |-> Front(cpu.calls)]
        BY <1>3, <3>1, <3>2, ExecutedCases, Zenon
      <4>2. CASE cpu.calls = <<>> /\ cpu'.calls = <<>>
        BY <4>2
      <4>3. CASE cpu.calls # <<>> /\ cpu' = [pc |-> Last(cpu.calls), calls |-> Front(cpu.calls)]
        <5>1. cpu'.calls = Front(cpu.calls)
          BY <4>3
        <5> QED BY <4>3, <5>1
      <4> QED BY <4>1, <4>2, <4>3
    <3>4. IsPrefix(cpu'.calls, begin.cpu.calls)
      BY <1>3, <2>5, <3>3, PrefixOfItself, FrontIsPrefix
    <3> QED BY <1>1, <1>2, <2>1, <3>1, <3>4 DEF NextAt
  <2> QED BY <2>1, <2>6, <2>7
<1>11. CASE StepSends
  BY <1>1, <1>2, <1>11 DEF StepSends, NextAt, target
<1>12. CASE StepInMove \/ StepInCounts \/ StepInEntered \/ HandlePause \/ WaiterSends
  BY <1>2, <1>12 DEF StepInMove, StepInCounts, StepInEntered, HandlePause, WaiterSends, NextAt
<1> QED BY <1>1, <1>6, <1>7, <1>8, <1>9, <1>10, <1>11, <1>12 DEF GoesOnBy

LEMMA NextInvInit == Init => NextInv
<1> SUFFICES ASSUME Init PROVE ~ NextAsked
  BY DEF NextInv
<1>1. begin.kind = "launch"
  BY DEF Init
<1> QED BY <1>1 DEF NextAsked

\* The invariant: where a step over may be, and that no function is active
\* twice but for a reentrant one.
DepthInv == TypeInv /\ Active(cpu)

LEMMA DepthInvariant == Spec => []DepthInv
<1>1. Init => DepthInv
  BY TypeInit, ActiveInit DEF DepthInv
<1>2. DepthInv /\ [Next]_vars => DepthInv'
  BY TypeStep, ActiveNext, Zenon DEF DepthInv
<1> QED BY <1>1, <1>2, PTL DEF Spec

LEMMA NextInvStep == TypeInv /\ Active(cpu) /\ NextInv /\ [Next]_vars => NextInv'
<1> SUFFICES ASSUME TypeInv, Active(cpu), NextInv, [Next]_vars, NextAsked', Calm'
             PROVE  NextAt'
  BY Zenon DEF NextInv
<1>1. CASE HandleNext
  BY <1>1, NextBegins
<1>2. CASE HandleStepIn \/ HandleStepOut \/ HandleContinue \/ HandleInstruction
  <2>1. begin'.kind # "next"
    BY <1>2 DEF HandleStepIn, HandleStepInLoop, HandleStepInCall, HandleStepInInstruction,
                HandleStepOut, HandleStepOutToReturns, HandleStepOutToJumps,
                HandleStepOutInstruction, HandleContinue, HandleInstruction, Instruction, Request,
                Dispatch
  <2> QED BY <2>1 DEF NextAsked
<1>3. CASE GoesOnBy
  BY <1>3, NextGoesOn
<1>4. CASE UNCHANGED vars
  <2>1. UNCHANGED <<image, place, begin>> /\ Calm
    BY <1>4 DEF vars, history, Calm
  <2>2. NextAsked
    BY <2>1, NextAskedSame
  <2>3. NextAt
    BY <2>1, <2>2 DEF NextInv
  <2>4. UNCHANGED <<cpu, until, temps, at, left>>
    BY <1>4 DEF vars, target, history
  <2>5. /\ LineInFunction(begin.cpu.pc)' <=> LineInFunction(begin.cpu.pc)
        /\ OnStartLine(cpu.pc)' <=> OnStartLine(cpu.pc)
        /\ Op(until)' = Op(until)
    BY <2>1, <2>4, LookupsSame, ProgramSame, Zenon DEF OnStartLine
  <2>6. RunFrom(begin.cpu.calls)' <=> RunFrom(begin.cpu.calls)
    BY <2>1, <2>4, RunFromSame
  <2> QED BY <2>1, <2>3, <2>4, <2>5, <2>6, Zenon DEF NextAt
<1> QED BY <1>1, <1>2, <1>3, <1>4 DEF Next, Handler, GoesOnBy

\* A step over ends in the function it began in or one that called it, and
\* goes no further than the return from the first (HandleNext).
THEOREM NextUp == Spec => []NextStaysUp
<1>1. NextInv => NextStaysUp
  <2> SUFFICES ASSUME NextInv, Undisturbed("next"), NextAsked
               PROVE  ~ left /\ IsPrefix(cpu.calls, begin.cpu.calls)
    BY Zenon DEF NextStaysUp, NextAsked, Undisturbed
  <2>1. NextAt /\ at = "idle"
    BY Zenon DEF NextInv, Calm, Undisturbed
  <2> QED BY <2>1 DEF NextAt
<1>2. Init => NextInv
  BY NextInvInit
<1>3. DepthInv /\ NextInv /\ [Next]_vars => NextInv'
  BY NextInvStep, Zenon DEF DepthInv
<1>4. Spec => []DepthInv
  BY DepthInvariant
<1> QED BY <1>1, <1>2, <1>3, <1>4, PTL DEF Spec

-----------------------------------------------------------------------------
\* A step in.

InAsked ==
  LET c == begin.cpu
  IN  /\ begin.kind = "stepIn"
      /\ BetweenLines(c.pc)
      /\ LineInFunction(c.pc)
      /\ InCalls(c.pc) # {} => StraightCall(c.pc)
      /\ Len(c.calls) < MaxDepth
      /\ ~ Reentrant

\* The instructions up to the first call of the line that are not executed yet.
Ahead == {a \in InSweep(begin.cpu.pc) : cpu.pc <= a /\ a <= Min(InCalls(begin.cpu.pc))}

\* The target when that call has been executed.
Entered ==
  LET call == Min(InCalls(begin.cpu.pc))
  IN  [pc |-> Code[call].to, calls |-> Append(begin.cpu.calls, call + Code[call].len)]

\* Where a step in may be, and the target then.
InAt ==
  LET c == begin.cpu
  IN  /\ at \in {"in", "count", "entered", "runPrologue", "done", "idle"}
      /\ at = "in" =>
           InCalls(c.pc) = {} /\ Len(cpu.calls) <= Len(c.calls) /\ OnStartLine(cpu.pc)
      /\ at = "count" =>
           /\ InCalls(c.pc) # {}
           /\ cpu.calls = c.calls
           /\ cpu.pc \in Ahead
           /\ moves = Cardinality(Ahead)
      /\ at = "entered" => InCalls(c.pc) # {} /\ cpu = Entered
      /\ at = "runPrologue" => InCalls(c.pc) # {} /\ RunFrom(Entered.calls)
      /\ at \in {"done", "idle"} =>
           IF InCalls(c.pc) = {} THEN Len(cpu.calls) <= Len(c.calls) + 1
           ELSE cpu.calls = Entered.calls

InInv == InAsked /\ Calm => InAt

\* What a step in looks up stays the same.
LEMMA InLookupsSame ==
  ASSUME UNCHANGED <<image, place>>
  PROVE  /\ \A pc : InSweep(pc)' = InSweep(pc) /\ InCalls(pc)' = InCalls(pc)
         /\ begin' = begin => \A pc : /\ SkipsPrologue(pc)' <=> SkipsPrologue(pc)
                                      /\ StraightCall(pc)' <=> StraightCall(pc)
                                      /\ OnStartLine(pc)' <=> OnStartLine(pc)
         /\ begin' = begin => Entered' = Entered
<1>1. \A pc : InSweep(pc)' = InSweep(pc)
  BY LookupsSame, ProgramSame, Zenon DEF InSweep
<1>2. \A pc : InCalls(pc)' = InCalls(pc)
  BY <1>1, LookupsSame, Zenon DEF InCalls
<1>3. ASSUME begin' = begin PROVE \A pc : OnStartLine(pc)' <=> OnStartLine(pc)
  BY <1>3, ProgramSame, Zenon DEF OnStartLine
<1>4. ASSUME begin' = begin PROVE \A pc : SkipsPrologue(pc)' <=> SkipsPrologue(pc)
  BY <1>3, <1>4, ProgramSame, Zenon DEF SkipsPrologue
<1>5. ASSUME begin' = begin PROVE \A pc : StraightCall(pc)' <=> StraightCall(pc)
  BY <1>1, <1>2, <1>4, <1>5, LookupsSame, ProgramSame, Zenon DEF StraightCall
<1>6. ASSUME begin' = begin PROVE Entered' = Entered
  BY <1>2, <1>6, ProgramSame, Zenon DEF Entered
<1> QED BY <1>1, <1>2, <1>3, <1>4, <1>5, <1>6, Zenon

LEMMA InAskedSame ==
  ASSUME UNCHANGED <<image, place, begin>>
  PROVE  InAsked' <=> InAsked
<1>1. begin'.cpu = begin.cpu /\ begin'.kind = begin.kind
  OBVIOUS
<1>2. Reentrant' <=> Reentrant
  BY OrderSame
<1> QED BY <1>1, <1>2, LookupsSame, InLookupsSame, Zenon DEF InAsked

\* What the scan of the line at pc finds.
LEMMA InScanTypes ==
  ASSUME TypeInv, NEW pc \in DOMAIN Code, BetweenLines(pc), InCalls(pc) # {}
  PROVE  LET call == Min(InCalls(pc))
         IN  /\ call \in InSweep(pc) /\ Op(call) = "call" /\ call \in DOMAIN Code
             /\ Code[call].to \in DOMAIN Code /\ call + Code[call].len \in DOMAIN Code
             /\ InSweep(pc) \subseteq DOMAIN Code /\ IsFiniteSet(InSweep(pc))
             /\ \A a \in InSweep(pc) : pc <= a
             /\ \A a \in DOMAIN Code : pc <= a /\ a <= call => a \in InSweep(pc)
<1> DEFINE bytes == AtMostBytes(NextLine(pc) - pc, InScan)
           call  == Min(InCalls(pc))
<1>1. DOMAIN Code \subseteq Nat /\ pc \in Nat /\ NextLine(pc) \in Nat
  BY Instructions DEF BetweenLines
<1>2. bytes \in Int
  <2>1. NextLine(pc) - pc \in Int /\ InScan \in Int
    BY <1>1, SteppingAssumption
  <2> QED BY <2>1 DEF AtMostBytes
<1>3. InSweep(pc) = {a \in DOMAIN Code : pc <= a /\ a < pc + bytes}
  BY DEF InSweep, Sweep
<1> HIDE DEF bytes
<1>4. InCalls(pc) \in SUBSET Nat /\ \A a \in InCalls(pc) : a \in InSweep(pc) /\ Op(a) = "call"
  BY <1>1, <1>3 DEF InCalls, Among
<1>5. call \in InCalls(pc)
  BY <1>4, MinNat
<1>6. call \in InSweep(pc) /\ Op(call) = "call" /\ call \in DOMAIN Code
  BY <1>3, <1>4, <1>5
<1>7. Code[call].to \in DOMAIN Code /\ call + Code[call].len \in DOMAIN Code
  BY <1>6, OnwardType
<1>8. ASSUME NEW a \in DOMAIN Code, pc <= a, a <= call PROVE a \in InSweep(pc)
  <2>1. a \in Int /\ call \in Int /\ pc \in Int /\ call < pc + bytes
    BY <1>1, <1>3, <1>6
  <2>2. a < pc + bytes
    BY <1>2, <1>8, <2>1
  <2> QED BY <1>3, <1>8, <2>2
<1>9. IsFiniteSet(InSweep(pc))
  <2>1. InSweep(pc) \subseteq 0 .. CodeSpace - 1
    BY <1>3, Instructions DEF IsProgram, Code
  <2>2. IsFiniteSet(0 .. CodeSpace - 1)
    <3>1. CodeSpace - 1 \in Int
      BY DEF CodeSpace
    <3> QED BY <3>1, FS_Interval
  <2> QED BY <2>1, <2>2, FS_Subset
<1> QED BY <1>3, <1>6, <1>7, <1>8, <1>9

LEMMA EnteredTypes ==
  ASSUME TypeInv, BetweenLines(begin.cpu.pc), InCalls(begin.cpu.pc) # {}
  PROVE  /\ Entered.calls \in Seq(DOMAIN Code) /\ Entered.pc \in DOMAIN Code
         /\ Len(Entered.calls) = Len(begin.cpu.calls) + 1
         /\ Entered.calls # <<>> /\ Front(Entered.calls) = begin.cpu.calls
         /\ Entered.pc = Code[Min(InCalls(begin.cpu.pc))].to
<1> DEFINE call  == Min(InCalls(begin.cpu.pc))
           after == call + Code[call].len
           calls == begin.cpu.calls
           n     == Len(calls)
<1>1. after \in DOMAIN Code /\ Code[call].to \in DOMAIN Code
  BY BeginTypes, InScanTypes
<1>2. calls \in Seq(DOMAIN Code) /\ n \in Nat
  BY BeginTypes
<1>3. Entered.pc = Code[call].to /\ Entered.calls = Append(calls, after)
  BY DEF Entered
<1> HIDE DEF call, after, calls
<1> DEFINE s == Append(calls, after)
<1>4. s \in Seq(DOMAIN Code) /\ Len(s) = n + 1 /\ s # <<>> /\ \A i \in 1 .. n : s[i] = calls[i]
  <2>1. s \in Seq(DOMAIN Code) /\ Len(s) = n + 1 /\ \A i \in 1 .. n : s[i] = calls[i]
    BY <1>1, <1>2, AppendProperties
  <2>2. s # <<>>
    BY <1>2, <2>1, EmptySeq
  <2> QED BY <2>1, <2>2
<1> HIDE DEF s
<1>5. Front(s) \in Seq(DOMAIN Code) /\ Len(Front(s)) = n /\ \A i \in 1 .. n : Front(s)[i] = s[i]
  BY <1>2, <1>4, FrontProperties
<1>6. Front(s) = calls
  BY <1>2, <1>4, <1>5, SeqEqual
<1> QED BY <1>1, <1>3, <1>4, <1>6 DEF s, call, calls

\* A step in begins.
LEMMA InBegins ==
  ASSUME TypeInv, HandleStepIn, InAsked', Calm'
  PROVE  InAt'
<1>1. UNCHANGED <<image, place>>
  BY ProgramStays DEF Next
<1>2. begin'.cpu = cpu
  BY Requests
<1>3. BetweenLines(cpu.pc)
  <2>1. begin'.cpu.pc = cpu.pc
    BY <1>2
  <2> QED BY <1>1, <2>1, LookupsSame, Zenon DEF InAsked
<1>4. cpu \in Cpu /\ cpu.pc \in DOMAIN Code /\ cpu.calls \in Seq(DOMAIN Code)
  BY BeginTypes
<1>5. InCalls(begin.cpu.pc)' = InCalls(cpu.pc) /\ InSweep(begin.cpu.pc)' = InSweep(cpu.pc)
  BY <1>1, <1>2, InLookupsSame
<1>6. CASE HandleStepInLoop
  <2>1. InCalls(cpu.pc) = {} /\ cpu' = cpu /\ at' = "in"
    BY <1>6 DEF HandleStepInLoop, target
  <2>2. OnStartLine(cpu.pc)'
    <3>1. Here(cpu.pc) # NoLoc
      BY <1>3 DEF BetweenLines
    <3> QED BY <1>1, <1>2, <2>1, <3>1 DEF OnStartLine, Here, Frame
  <2>3. Len(cpu'.calls) <= Len(begin'.cpu.calls)
    <3>1. Len(cpu.calls) \in Nat
      BY <1>4
    <3> QED BY <1>2, <2>1, <3>1
  <2> QED BY <1>5, <2>1, <2>2, <2>3 DEF InAt
<1>7. CASE HandleStepInCall
  <2> DEFINE call == Min(InCalls(cpu.pc))
  <2>1. /\ InCalls(cpu.pc) # {} /\ cpu' = cpu /\ at' = "count"
        /\ moves' = Cardinality(AtMost(InSweep(cpu.pc), call))
    BY <1>7 DEF HandleStepInCall, target
  <2>2. Ahead' = {a \in InSweep(cpu.pc) : cpu.pc <= a /\ a <= call}
    BY <1>5, <2>1, Zenon DEF Ahead
  <2>3. /\ \A a \in InSweep(cpu.pc) : cpu.pc <= a
        /\ call \in InSweep(cpu.pc)
        /\ \A a \in DOMAIN Code : cpu.pc <= a /\ a <= call => a \in InSweep(cpu.pc)
    BY <1>3, <1>4, <2>1, InScanTypes
  <2> HIDE DEF call
  <2>4. Ahead' = AtMost(InSweep(cpu.pc), call)
    BY <2>2, <2>3 DEF AtMost
  <2>5. cpu.pc \in Ahead'
    <3>1. cpu.pc \in Nat
      BY <1>4, Instructions
    <3>2. cpu.pc <= cpu.pc /\ cpu.pc <= call
      BY <2>3, <3>1
    <3> QED BY <1>4, <2>2, <2>3, <3>2
  <2> QED BY <1>2, <1>5, <2>1, <2>4, <2>5 DEF InAt
<1>8. CASE HandleStepInInstruction
  BY <1>3, <1>8 DEF HandleStepInInstruction
<1> QED BY <1>6, <1>7, <1>8 DEF HandleStepIn

\* The instructions to the call are counted right: each but the call leads to
\* the next one of them.
LEMMA CountsDown ==
  ASSUME TypeInv, InAsked, InCalls(begin.cpu.pc) # {}, cpu.pc \in Ahead,
         cpu.calls = begin.cpu.calls, NEW d \in Executed(cpu)
  PROVE  LET call == Min(InCalls(begin.cpu.pc))
             rest == {a \in InSweep(begin.cpu.pc) : d.pc <= a /\ a <= call}
         IN  /\ IsFiniteSet(Ahead)
             /\ \/ d = Entered /\ Ahead = {cpu.pc}
                \/ d.calls = cpu.calls /\ d.pc \in rest /\ rest = Ahead \ {cpu.pc}
<1> DEFINE pc   == begin.cpu.pc
           call == Min(InCalls(pc))
           rest == {a \in InSweep(pc) : d.pc <= a /\ a <= call}
<1>1. /\ cpu \in Cpu /\ cpu.pc \in DOMAIN Code /\ pc \in DOMAIN Code
      /\ cpu = [pc |-> cpu.pc, calls |-> cpu.calls]
  BY BeginTypes DEF Cpu
<1>2. /\ call \in InSweep(pc) /\ Op(call) = "call"
      /\ InSweep(pc) \subseteq DOMAIN Code /\ IsFiniteSet(InSweep(pc))
      /\ \A a \in InSweep(pc) : pc <= a
      /\ \A a \in DOMAIN Code : pc <= a /\ a <= call => a \in InSweep(pc)
  BY <1>1, InScanTypes DEF InAsked
<1>3. cpu.pc \in InSweep(pc) /\ cpu.pc <= call
  BY DEF Ahead
<1>4. DOMAIN Code \subseteq Nat
  BY Instructions
<1>5. Ahead = {a \in InSweep(pc) : cpu.pc <= a /\ a <= call}
  BY DEF Ahead
<1>6. IsFiniteSet(Ahead)
  <2>1. Ahead \subseteq InSweep(pc)
    BY <1>5
  <2> QED BY <1>2, <2>1, FS_Subset
<1>7. CASE cpu.pc = call
  <2>1. Executed(cpu) = {[pc |-> Code[cpu.pc].to,
                         calls |-> Append(cpu.calls, cpu.pc + Code[cpu.pc].len)]}
    <3>1. Code[cpu.pc].op = "call"
      BY <1>2, <1>7 DEF Op
    <3>2. Len(cpu.calls) # MaxDepth
      <4>1. Len(begin.cpu.calls) < MaxDepth /\ MaxDepth \in Nat
        BY SteppingAssumption DEF InAsked
      <4>2. Len(begin.cpu.calls) \in Nat
        BY BeginTypes
      <4> QED BY <4>1, <4>2
    <3> QED BY <3>1, <3>2 DEF Executed
  <2>2. d = Entered
    BY <1>7, <2>1 DEF Entered
  <2>3. Ahead = {cpu.pc}
    <3>1. call \in Nat
      BY <1>2, <1>4
    <3>2. \A a \in Ahead : a = call
      BY <1>2, <1>4, <1>5, <1>7, <3>1
    <3>3. call \in Ahead
      BY <1>7
    <3> QED BY <1>7, <3>2, <3>3
  <2> QED BY <1>6, <2>2, <2>3
<1>8. CASE cpu.pc # call
  <2>1. cpu.pc \in Nat /\ call \in Nat /\ cpu.pc < call /\ pc \in Nat
    BY <1>1, <1>2, <1>3, <1>4, <1>8
  <2>2. Code[cpu.pc].op = "plain"
    <3>1. \A a \in InSweep(pc) : a < call => Op(a) = "plain"
      BY Zenon DEF InAsked, StraightCall
    <3> QED BY <1>3, <2>1, <3>1 DEF Op
  <2> DEFINE len == Code[cpu.pc].len
  <2>3. /\ cpu.pc + len \in DOMAIN Code
        /\ len \in Nat \ {0}
        /\ \A b \in DOMAIN Code : cpu.pc < b => cpu.pc + len <= b
    <3>1. Follows(Code, cpu.pc) = {cpu.pc + len}
      BY <2>2 DEF Follows
    <3>2. Follows(Code, cpu.pc) \subseteq DOMAIN Code
      BY <1>1, Instructions
    <3>3. IsProgram(Table) /\ Code = Table.code
      BY Instructions DEF Code
    <3>4. \A b \in DOMAIN Code : cpu.pc < b => cpu.pc + len <= b
      BY <1>1, <3>3 DEF IsProgram
    <3>5. len \in Nat \ {0}
      BY <1>1, <3>3 DEF IsProgram
    <3> QED BY <3>1, <3>2, <3>4, <3>5
  <2>4. d = [cpu EXCEPT !.pc = cpu.pc + len]
    BY <2>2 DEF Executed
  <2>5. d.calls = cpu.calls /\ d.pc = cpu.pc + len
    BY <1>1, <2>4
  <2> HIDE DEF len, call, pc
  <2>6. cpu.pc + len <= call /\ pc <= cpu.pc
    BY <1>2, <1>3, <2>1, <2>3
  <2>7. cpu.pc + len \in InSweep(pc)
    BY <1>2, <2>1, <2>3, <2>6
  <2>8. rest = Ahead \ {cpu.pc}
    <3>1. \A a \in InSweep(pc) : cpu.pc + len <= a <=> cpu.pc <= a /\ a # cpu.pc
      BY <1>2, <1>4, <2>1, <2>3
    <3> QED BY <1>5, <2>5, <3>1
  <2>9. d.pc \in rest
    <3>1. cpu.pc + len <= cpu.pc + len
      BY <2>1, <2>3
    <3> QED BY <2>5, <2>6, <2>7, <3>1
  <2> QED BY <1>6, <2>5, <2>8, <2>9 DEF pc, call
<1> QED BY <1>7, <1>8

\* A step in goes on.
LEMMA InGoesOn ==
  ASSUME TypeInv, Active(cpu), InInv, GoesOnBy, InAsked', Calm'
  PROVE  InAt'
<1> DEFINE c == begin.cpu
<1>1. UNCHANGED <<image, place, begin>> /\ ~ RunTimesOut
      /\ (RunHalts => cpu.pc = until \/ cpu.pc \in temps)
  BY CalmBefore
<1>2. InAsked /\ InAt /\ ~ Reentrant
  <2>1. InAsked
    BY <1>1, InAskedSame
  <2> QED BY <2>1, CalmBefore DEF InInv, InAsked
<1>3. /\ c \in Cpu /\ cpu \in Cpu
      /\ c.pc \in DOMAIN Code /\ c.calls \in Seq(DOMAIN Code)
      /\ cpu.pc \in DOMAIN Code /\ cpu.calls \in Seq(DOMAIN Code)
      /\ Len(c.calls) \in Nat /\ Len(cpu.calls) \in Nat
  <2>1. /\ c \in Cpu /\ cpu \in Cpu
        /\ c.pc \in DOMAIN Code /\ c.calls \in Seq(DOMAIN Code)
        /\ cpu.pc \in DOMAIN Code /\ cpu.calls \in Seq(DOMAIN Code)
    BY BeginTypes
  <2> QED BY <2>1
<1>4. /\ InCalls(begin.cpu.pc)' = InCalls(c.pc)
      /\ InSweep(begin.cpu.pc)' = InSweep(c.pc)
      /\ Entered' = Entered
      /\ OnStartLine(cpu.pc)' <=> OnStartLine(cpu'.pc)
  BY <1>1, InLookupsSame
<1>5. BetweenLines(c.pc) /\ LineInFunction(c.pc)
  BY <1>2 DEF InAsked
<1>6. CASE StepInMove
  <2>1. at = "in" /\ cpu' \in Executed(cpu) /\ at' = IF OnStartLine(cpu'.pc) THEN "in" ELSE "done"
    BY <1>6 DEF StepInMove, StepInstruction
  <2>2. InCalls(c.pc) = {} /\ Len(cpu.calls) <= Len(c.calls) /\ OnStartLine(cpu.pc)
    BY <1>2, <2>1 DEF InAt
  <2>3. CASE Len(cpu'.calls) <= Len(c.calls)
    <3>1. Len(cpu'.calls) <= Len(begin'.cpu.calls) + 1
      <4>1. cpu'.calls \in Seq(DOMAIN Code)
        BY <1>3, <2>1, ExecutedType DEF Cpu
      <4>2. Len(cpu'.calls) \in Nat
        BY <4>1
      <4> QED BY <1>1, <1>3, <2>3, <4>2
    <3> QED BY <1>1, <1>4, <2>1, <2>2, <2>3, <3>1 DEF InAt
  <2>4. CASE /\ Op(cpu.pc) = "call"
             /\ cpu' = [pc |-> Code[cpu.pc].to,
                        calls |-> Append(cpu.calls, cpu.pc + Code[cpu.pc].len)]
    <3>1. Len(cpu'.calls) = Len(cpu.calls) + 1
      <4>1. cpu'.calls = Append(cpu.calls, cpu.pc + Code[cpu.pc].len)
        BY <2>4
      <4>2. cpu.pc + Code[cpu.pc].len \in DOMAIN Code
        BY <1>3, <2>4, OnwardType
      <4> QED BY <1>3, <4>1, <4>2, AppendProperties
    <3>2. Len(cpu'.calls) <= Len(begin'.cpu.calls) + 1
      BY <1>1, <1>3, <2>2, <3>1
    <3>3. CurFunc(Code[cpu.pc].to) # CurFunc(cpu.pc) /\ Code[cpu.pc].to \in DOMAIN Code
      BY <1>2, <1>3, <2>4, CallsAnother, OnwardType
    <3>4. CurFunc(cpu.pc) = CurFunc(c.pc)
      BY <1>3, <1>5, <2>2 DEF LineInFunction, OnStartLine, Function
    <3>5. cpu'.pc = Code[cpu.pc].to
      BY <2>4
    <3>6. ~ OnStartLine(cpu'.pc)
      BY <1>5, <3>3, <3>4, <3>5 DEF LineInFunction, OnStartLine, Function
    <3> QED BY <1>4, <2>1, <2>2, <3>2, <3>6 DEF InAt
  <2>5. CASE cpu.calls # <<>> /\ cpu' = [pc |-> Last(cpu.calls), calls |-> Front(cpu.calls)]
    <3>1. Len(cpu'.calls) = Len(cpu.calls) - 1
      BY <1>3, <2>5, FrontProperties
    <3>2. Len(cpu'.calls) <= Len(c.calls)
      BY <1>3, <2>2, <3>1
    <3> QED BY <2>3, <3>2
  <2>6. CASE cpu'.calls = cpu.calls
    BY <2>2, <2>3, <2>6
  <2>7. CASE cpu.calls = <<>> /\ cpu'.calls = <<>>
    <3>1. cpu'.calls = cpu.calls
      BY <2>7
    <3> QED BY <2>6, <3>1
  <2> QED BY <1>3, <2>1, <2>4, <2>5, <2>6, <2>7, ExecutedCases
<1>7. CASE StepInCounts
  <2>1. /\ at = "count" /\ cpu' \in Executed(cpu) /\ moves' = moves - 1
        /\ at' = IF moves' = 0 THEN "entered" ELSE "count"
    BY <1>7 DEF StepInCounts, StepInstruction
  <2>2. /\ InCalls(c.pc) # {} /\ cpu.calls = c.calls /\ cpu.pc \in Ahead
        /\ moves = Cardinality(Ahead)
    BY <1>2, <2>1 DEF InAt
  <2> DEFINE rest == {a \in InSweep(c.pc) : cpu'.pc <= a /\ a <= Min(InCalls(c.pc))}
  <2>3. /\ IsFiniteSet(Ahead)
        /\ \/ cpu' = Entered /\ Ahead = {cpu.pc}
           \/ cpu'.calls = cpu.calls /\ cpu'.pc \in rest /\ rest = Ahead \ {cpu.pc}
    BY <1>2, <2>1, <2>2, CountsDown
  <2>4. Ahead' = rest
    BY <1>1, <1>4, Zenon DEF Ahead
  <2> HIDE DEF rest
  <2>5. CASE cpu' = Entered /\ Ahead = {cpu.pc}
    <3>1. moves = 1
      BY <2>2, <2>5, FS_Singleton
    <3>2. at' = "entered"
      BY <2>1, <3>1
    <3> QED BY <1>4, <2>2, <2>5, <3>2 DEF InAt
  <2>6. CASE cpu'.calls = cpu.calls /\ cpu'.pc \in rest /\ rest = Ahead \ {cpu.pc}
    <3>1. IsFiniteSet(rest) /\ Cardinality(rest) = Cardinality(Ahead) - 1
      BY <2>2, <2>3, <2>6, FS_RemoveElement
    <3>2. moves' = Cardinality(Ahead')
      BY <2>1, <2>2, <2>4, <3>1
    <3>3. Cardinality(rest) # 0
      BY <2>6, <3>1, FS_EmptySet
    <3>4. at' = "count"
      BY <2>1, <2>4, <3>2, <3>3
    <3> QED BY <1>1, <1>4, <2>2, <2>4, <2>6, <3>2, <3>4 DEF InAt
  <2> QED BY <2>3, <2>5, <2>6
<1>8. CASE StepInEntered
  <2>1. at = "entered" /\ cpu' = cpu
    BY <1>8 DEF StepInEntered, RunTo, Run, target
  <2>2. InCalls(c.pc) # {} /\ cpu = Entered
    BY <1>2, <2>1 DEF InAt
  <2>3. CASE SkipsPrologue(cpu.pc)
    <3>1. at' = "runPrologue" /\ until' = NextLine(cpu.pc) /\ temps' = {}
      BY <1>8, <2>3 DEF StepInEntered, RunTo, Run
    <3>2. LeadsTo(cpu.pc, {NextLine(cpu.pc)})
      <4>1. cpu.pc = Code[Min(InCalls(c.pc))].to
        BY <1>5, <2>2, EnteredTypes
      <4> QED BY <1>2, <2>2, <2>3, <4>1 DEF InAsked, StraightCall
    <3>3. PICK here \in SUBSET DOMAIN Code : InRun(cpu, cpu.calls, here, here, {NextLine(cpu.pc)})
      BY <1>3, <3>2, InRunBegins
    <3>4. InRun(cpu', Entered'.calls, here, here, {until'})
      BY <1>4, <2>1, <2>2, <3>1, <3>3
    <3>5. RunFrom(Entered.calls)'
      BY <1>1, <3>1, <3>4, RunFromThen
    <3> QED BY <1>4, <2>2, <3>1, <3>5 DEF InAt
  <2>4. CASE ~ SkipsPrologue(cpu.pc)
    <3>1. at' = "done"
      BY <1>8, <2>4 DEF StepInEntered
    <3> QED BY <1>4, <2>1, <2>2, <3>1 DEF InAt
  <2> QED BY <2>3, <2>4
<1>9. CASE LoopEnds
  <2>1. at = "in" /\ cpu' = cpu /\ at' = "done"
    BY <1>2, <1>9 DEF LoopEnds, InAt, target
  <2>2. InCalls(c.pc) = {} /\ Len(cpu.calls) <= Len(c.calls)
    BY <1>2, <2>1 DEF InAt
  <2>3. Len(cpu'.calls) <= Len(begin'.cpu.calls) + 1
    BY <1>1, <1>3, <2>1, <2>2
  <2> QED BY <1>4, <2>1, <2>2, <2>3 DEF InAt
<1>10. ASSUME at = "runPrologue", temps = {}, InCalls(c.pc) # {}, RunFrom(Entered.calls),
              RunExecutes
       PROVE  InAt'
  <2>1. UNCHANGED <<until, temps, at>> /\ cpu.pc # until
    BY <1>10 DEF RunExecutes, Arrived
  <2>2. PICK here \in SUBSET DOMAIN Code, back \in SUBSET DOMAIN Code :
          InRun(cpu, Entered.calls, here, back, {until})
    BY <1>10 DEF RunFrom
  <2>3. Entered.calls \in Seq(DOMAIN Code)
    BY <1>5, <1>10, EnteredTypes
  <2>4. InRun(cpu', Entered.calls, here, back, {until})
    BY <1>10, <2>1, <2>2, <2>3, InRunGoes
  <2>5. InRun(cpu', Entered'.calls, here, back, {until'}) /\ temps' = {}
    BY <1>4, <1>10, <2>1, <2>4
  <2>6. RunFrom(Entered.calls)'
    BY <1>1, <2>5, RunFromThen
  <2> QED BY <1>4, <1>10, <2>1, <2>6 DEF InAt
<1>11. ASSUME at = "runPrologue", temps = {}, InCalls(c.pc) # {}, RunFrom(Entered.calls),
              RunHalts
       PROVE  InAt'
  <2>1. at' = "done" /\ cpu' = cpu /\ cpu.pc = until
    BY <1>1, <1>11 DEF RunHalts, Proceed
  <2>2. PICK here \in SUBSET DOMAIN Code, back \in SUBSET DOMAIN Code :
          InRun(cpu, Entered.calls, here, back, {until})
    BY <1>11 DEF RunFrom
  <2>3. Entered.calls \in Seq(DOMAIN Code)
    BY <1>5, <1>11, EnteredTypes
  <2>4. cpu.calls = Entered.calls
    BY <1>2, <2>1, <2>2, <2>3, InRunEnds
  <2> QED BY <1>4, <1>11, <2>1, <2>4 DEF InAt
<1>12. CASE RunExecutes \/ RunHalts
  <2>1. at = "runPrologue"
    BY <1>2, <1>12 DEF RunExecutes, RunHalts, InAt, TypeInv, TypeOK, Runs
  <2>2. InCalls(c.pc) # {} /\ RunFrom(Entered.calls)
    BY <1>2, <2>1 DEF InAt
  <2>3. temps = {}
    BY <2>2 DEF RunFrom
  <2> QED BY <1>10, <1>11, <1>12, <2>1, <2>2, <2>3
<1>13. CASE StepSends
  BY <1>1, <1>2, <1>4, <1>13 DEF StepSends, InAt, target
<1>14. CASE NextMove \/ HandlePause \/ WaiterSends
  BY <1>2, <1>14 DEF NextMove, HandlePause, WaiterSends, InAt
<1> QED BY <1>1, <1>6, <1>7, <1>8, <1>9, <1>12, <1>13, <1>14 DEF GoesOnBy

LEMMA InInvInit == Init => InInv
<1> SUFFICES ASSUME Init PROVE ~ InAsked
  BY DEF InInv
<1>1. begin.kind = "launch"
  BY DEF Init
<1> QED BY <1>1 DEF InAsked

LEMMA InInvStep == TypeInv /\ Active(cpu) /\ InInv /\ [Next]_vars => InInv'
<1> SUFFICES ASSUME TypeInv, Active(cpu), InInv, [Next]_vars, InAsked', Calm'
             PROVE  InAt'
  BY Zenon DEF InInv
<1>1. CASE HandleStepIn
  BY <1>1, InBegins
<1>2. CASE HandleNext \/ HandleStepOut \/ HandleContinue \/ HandleInstruction
  <2>1. begin'.kind # "stepIn"
    BY <1>2 DEF HandleNext, HandleNextToReturn, HandleNextToLine, HandleNextLoop,
                HandleNextLast, HandleNextInstruction,
                HandleStepOut, HandleStepOutToReturns, HandleStepOutToJumps,
                HandleStepOutInstruction, HandleContinue, HandleInstruction, Instruction, Request,
                Dispatch
  <2> QED BY <2>1 DEF InAsked
<1>3. CASE GoesOnBy
  BY <1>3, InGoesOn
<1>4. CASE UNCHANGED vars
  <2>1. UNCHANGED <<image, place, begin>> /\ Calm
    BY <1>4 DEF vars, history, Calm
  <2>2. InAsked
    BY <2>1, InAskedSame
  <2>3. InAt
    BY <2>1, <2>2 DEF InInv
  <2>4. UNCHANGED <<cpu, until, temps, at, moves>>
    BY <1>4 DEF vars, target
  <2>5. /\ InCalls(begin.cpu.pc)' = InCalls(begin.cpu.pc)
        /\ InSweep(begin.cpu.pc)' = InSweep(begin.cpu.pc)
        /\ Entered' = Entered
        /\ OnStartLine(cpu.pc)' <=> OnStartLine(cpu.pc)
    BY <2>1, <2>4, InLookupsSame, Zenon
  <2>6. Ahead' = Ahead
    BY <2>1, <2>4, <2>5, Zenon DEF Ahead
  <2>7. RunFrom(Entered.calls)' <=> RunFrom(Entered.calls)
    BY <2>1, <2>4, <2>5, RunFromSame
  <2> QED BY <2>1, <2>3, <2>4, <2>5, <2>6, <2>7, Zenon DEF InAt
<1> QED BY <1>1, <1>2, <1>3, <1>4 DEF Next, Handler, GoesOnBy

\* A step in goes down one call at most; one of a line that calls by straight
\* code ends in the function called, at the call it made (HandleStepIn).
THEOREM InGoesDownOnce == Spec => []StepInGoesDownOnce
<1>1. TypeInv /\ InInv => StepInGoesDownOnce
  <2> DEFINE c == begin.cpu
  <2> SUFFICES ASSUME TypeInv, InInv, Undisturbed("stepIn"), InAsked
               PROVE  /\ Len(cpu.calls) <= Len(c.calls) + 1
                      /\ InCalls(c.pc) # {} => /\ cpu.calls # <<>>
                                               /\ Front(cpu.calls) = c.calls
    BY Zenon DEF StepInGoesDownOnce, InAsked, Undisturbed
  <2>1. InAt /\ at = "idle"
    BY Zenon DEF InInv, Calm, Undisturbed
  <2>2. CASE InCalls(c.pc) = {}
    BY <2>1, <2>2 DEF InAt
  <2>3. CASE InCalls(c.pc) # {}
    <3>1. cpu.calls = Entered.calls
      BY <2>1, <2>3 DEF InAt
    <3>2. /\ Len(Entered.calls) = Len(c.calls) + 1
          /\ Entered.calls # <<>> /\ Front(Entered.calls) = c.calls
      BY <2>3, EnteredTypes DEF InAsked
    <3>3. Len(cpu.calls) <= Len(c.calls) + 1
      <4>1. Len(c.calls) \in Nat
        <5>1. c.calls \in Seq(DOMAIN Code)
          BY BeginTypes
        <5> QED BY <5>1
      <4> QED BY <3>1, <3>2, <4>1
    <3> QED BY <3>1, <3>2, <3>3
  <2> QED BY <2>2, <2>3
<1>2. Init => InInv
  BY InInvInit
<1>3. DepthInv /\ InInv /\ [Next]_vars => InInv'
  BY InInvStep, Zenon DEF DepthInv
<1>4. Spec => []DepthInv
  BY DepthInvariant
<1>5. DepthInv => TypeInv
  BY DEF DepthInv
<1> QED BY <1>1, <1>2, <1>3, <1>4, <1>5, PTL DEF Spec

-----------------------------------------------------------------------------
\* A step out.

Returns(pc) == Among(Function(pc), "ret")

OutAsked ==
  LET c    == begin.cpu
      rets == Returns(c.pc)
  IN  /\ begin.kind = "stepOut"
      /\ c.calls # <<>>
      /\ InOnePiece(c.pc)
      /\ rets # {} /\ LeadsTo(c.pc, rets)
      /\ \A a \in rets : c.pc <= a /\ a < c.pc + OutScan
      /\ c.pc \in rets => Cardinality(rets) = 1
      /\ ~ Reentrant

\* A run to the exits, within the call that the stack calls stands for.
RunOver(calls, exits) == \E here, back \in SUBSET DOMAIN Code : InRun(cpu, calls, here, back, exits)

\* Where a step out may be, and the target then.
OutAt ==
  LET c    == begin.cpu
      rets == Returns(c.pc)
  IN  /\ ~ left
      /\ at \in {"runOut", "done", "idle"}
      /\ at = "runOut" =>
           /\ \/ {until} = rets /\ temps = {}
              \/ until = NoAddr /\ temps = rets /\ c.pc \notin rets
           /\ go = "off" => cpu = c
           /\ RunOver(c.calls, rets)
      /\ at \in {"done", "idle"} => cpu = [pc |-> Last(c.calls), calls |-> Front(c.calls)]

OutInv == OutAsked /\ Calm => OutAt

LEMMA Widths == CodeSpace \in Nat /\ Word \in Nat /\ 2 * CodeSpace < Word
BY SMT DEF CodeSpace, Word

LEMMA SmallRemainder == ASSUME NEW w \in Nat, NEW n \in Nat, n < w PROVE n % w = n
BY SMT

LEMMA FuncBounds ==
  ASSUME TypeInv, NEW pc \in DOMAIN Code
  PROVE  FuncStart(pc) \in 0 .. CodeSpace - 1 /\ FuncEnd(pc) \in 0 .. 2 * CodeSpace
<1> DEFINE D == DOMAIN Table.symbols
           start == FuncStart(pc)
<1>1. D \subseteq 0 .. CodeSpace - 1 /\ pc \in 0 .. CodeSpace - 1 /\ CodeSpace \in Nat
  <2>1. IsProgram(Table) /\ Code = Table.code
    BY Instructions DEF Code
  <2> QED BY <2>1, Widths DEF IsProgram
<1>2. LookupSymbolByName(Table, CurFunc(pc)) \in {NoAddr} \cup D
  <2> DEFINE named == {a \in D : Upper(Table.symbols[a]) = Upper(CurFunc(pc))}
  <2>1. named \in SUBSET Nat /\ named \subseteq D
    BY <1>1
  <2>2. named # {} => Min(named) \in D
    BY <2>1, MinNat
  <2> HIDE DEF named
  <2>3. LookupSymbolByName(Table, CurFunc(pc)) = IF named = {} THEN NoAddr ELSE Min(named)
    BY DEF LookupSymbolByName, named
  <2> QED BY <2>2, <2>3
<1>3. start \in 0 .. CodeSpace - 1
  BY <1>1, <1>2 DEF FuncStart
<1> HIDE DEF start
<1>4. NextSymbolAddr(Table, start) \in {NoAddr} \cup D
  <2> DEFINE S == Above(D, start)
  <2>1. S \in SUBSET Nat /\ S \subseteq D
    BY <1>1 DEF Above
  <2> HIDE DEF S
  <2>2. S # {} => Min(S) \in D
    BY <2>1, MinNat
  <2>3. NextSymbolAddr(Table, start) = IF S = {} THEN NoAddr ELSE Min(S)
    BY DEF NextSymbolAddr, Following, S
  <2> QED BY <2>2, <2>3
<1>5. FuncEnd(pc) = IF NextSymbolAddr(Table, start) = NoAddr THEN start + FunctionCap
                    ELSE NextSymbolAddr(Table, start)
  BY DEF FuncEnd, start
<1>6. FunctionCap \in Nat /\ FunctionCap <= CodeSpace
  BY SteppingAssumption
<1>7. FuncEnd(pc) \in 0 .. 2 * CodeSpace
  BY <1>1, <1>3, <1>4, <1>5, <1>6
<1> QED BY <1>3, <1>7 DEF start

\* The scan of a step out finds the RETs of a function in one piece.
LEMMA OutReturnsRight ==
  ASSUME TypeInv, NEW pc \in DOMAIN Code, InOnePiece(pc),
         \A a \in Returns(pc) : pc <= a /\ a < pc + OutScan
  PROVE  OutReturns(pc) = Returns(pc) /\ IsLoaded(Table)
<1> DEFINE start == FuncStart(pc)
           end   == FuncEnd(pc)
           bytes == AtMostBytes((end - pc) % Word, OutScan)
<1>1. /\ Function(pc) = {a \in DOMAIN Code : start <= a /\ a < end}
      /\ CurFunc(pc) # NoName
  BY DEF InOnePiece
<1>2. pc \in Function(pc)
  BY DEF Function
<1>3. start \in Nat /\ end \in 0 .. 2 * CodeSpace /\ pc \in Nat /\ DOMAIN Code \subseteq Nat
  BY FuncBounds, Instructions, Widths
<1>4. start <= pc /\ pc < end
  BY <1>1, <1>2
<1>5. OutReturns(pc) = {a \in DOMAIN Code : pc <= a /\ a < pc + bytes /\ Op(a) = "ret"}
  BY DEF OutReturns, OutSweep, OutLength, Sweep, Among
<1>6. Returns(pc) = {a \in DOMAIN Code : start <= a /\ a < end /\ Op(a) = "ret"}
  BY <1>1 DEF Returns, Among
<1> HIDE DEF start, end
<1>7. (end - pc) % Word = end - pc
  <2>1. end - pc \in Nat /\ end - pc < Word
    BY <1>3, <1>4, Widths
  <2> QED BY <2>1, Widths, SmallRemainder
<1>8. OutScan \in Nat
  BY SteppingAssumption
<1>9. bytes = IF end - pc > OutScan THEN OutScan ELSE end - pc
  BY <1>7 DEF AtMostBytes
<1> HIDE DEF bytes
<1>10. ASSUME NEW a \in Returns(pc) PROVE a \in OutReturns(pc)
  <2>1. a \in Nat /\ pc <= a /\ a < pc + OutScan /\ a < end
    BY <1>3, <1>6
  <2>2. a < pc + bytes
    BY <1>3, <1>8, <1>9, <2>1
  <2> QED BY <1>5, <1>6, <2>1, <2>2
<1>11. ASSUME NEW a \in OutReturns(pc) PROVE a \in Returns(pc)
  <2>1. a \in Nat /\ pc <= a /\ a < pc + bytes
    BY <1>3, <1>5
  <2>2. start <= a /\ a < end
    BY <1>3, <1>4, <1>8, <1>9, <2>1
  <2> QED BY <1>5, <1>6, <2>2
<1>12. IsLoaded(Table)
  <2>1. CurFunc(pc) = LookupSymbol(Table, pc)
    <3>1. place = Place(Table) /\ Code = Table.code
      BY DEF TypeInv, Code
    <3>2. place[pc].frame = ShadowFrame(Table, pc)
      BY <3>1 DEF Place
    <3> QED BY <3>2 DEF CurFunc, Frame, ShadowFrame
  <2>2. Nearest(DOMAIN Table.symbols, pc) # NoAddr
    BY <1>1, <2>1 DEF LookupSymbol
  <2>3. DOMAIN Table.symbols # {}
    BY <2>2 DEF Nearest, AtMost
  <2>4. Table.symbols # <<>>
    BY <2>3
  <2> QED BY <2>4 DEF IsLoaded
<1> QED BY <1>10, <1>11, <1>12

\* What a step out looks up stays the same.
LEMMA OutLookupsSame ==
  ASSUME UNCHANGED <<image, place>>
  PROVE  /\ \A pc : /\ Returns(pc)' = Returns(pc)
                    /\ InOnePiece(pc)' <=> InOnePiece(pc)
         /\ cpu' = cpu => \A calls, exits : RunOver(calls, exits)' <=> RunOver(calls, exits)
<1>1. \A pc : Returns(pc)' = Returns(pc)
  BY LookupsSame, ProgramSame, Zenon DEF Returns
<1>2. Table' = Table /\ Code' = Code
  BY DEF Table, Code
<1>3. \A pc : FuncStart(pc)' = FuncStart(pc)
  <2>1. \A pc : LookupSymbolByName(Table, CurFunc(pc))' = LookupSymbolByName(Table, CurFunc(pc))
    BY <1>2, ProgramSame DEF LookupSymbolByName
  <2>2. \A pc : CurFunc(pc)' = CurFunc(pc)
    BY ProgramSame
  <2> QED BY <2>1, <2>2 DEF FuncStart
<1>4. \A pc : FuncEnd(pc)' = FuncEnd(pc)
  BY <1>2, <1>3, Zenon DEF FuncEnd
<1>5. \A pc : InOnePiece(pc)' <=> InOnePiece(pc)
  BY <1>2, <1>3, <1>4, ProgramSame, Zenon DEF InOnePiece
<1>6. \A here, back, exits : Way(here, back, exits)' <=> Way(here, back, exits)
  BY ProgramSame, Zenon DEF Way
<1>7. \A c, calls, here, back : Inside(c, calls, here, back)' <=> Inside(c, calls, here, back)
  BY DEF Inside
<1>8. ASSUME cpu' = cpu
      PROVE  \A calls, here, back, exits : InRun(cpu, calls, here, back, exits)'
                                             <=> InRun(cpu, calls, here, back, exits)
  BY <1>6, <1>7, <1>8, ProgramSame, Zenon DEF InRun
<1>9. ASSUME cpu' = cpu
      PROVE  \A calls, exits : RunOver(calls, exits)' <=> RunOver(calls, exits)
  BY <1>2, <1>8, <1>9, Zenon DEF RunOver
<1> QED BY <1>1, <1>5, <1>9, Zenon

LEMMA OutAskedSame ==
  ASSUME UNCHANGED <<image, place, begin>>
  PROVE  OutAsked' <=> OutAsked
<1>1. begin'.cpu = begin.cpu /\ begin'.kind = begin.kind
  OBVIOUS
<1>2. Reentrant' <=> Reentrant
  BY OrderSame
<1> QED BY <1>1, <1>2, LookupsSame, OutLookupsSame, Zenon DEF OutAsked

LEMMA RunOverThen ==
  ASSUME UNCHANGED <<image, place>>, NEW here \in SUBSET DOMAIN Code,
         NEW back \in SUBSET DOMAIN Code, NEW calls, NEW exits,
         InRun(cpu', calls, here, back, exits)
  PROVE  RunOver(calls, exits)'
<1>1. InRun(cpu, calls, here, back, exits)'
  BY InRunSame, Zenon
<1>2. (DOMAIN Code)' = DOMAIN Code
  BY ProgramSame
<1> QED BY <1>1, <1>2, Zenon DEF RunOver

\* A step out begins.
LEMMA OutBegins ==
  ASSUME TypeInv, HandleStepOut, OutAsked', Calm'
  PROVE  OutAt'
<1> DEFINE rets == Returns(cpu.pc)
<1>1. UNCHANGED <<image, place>>
  BY ProgramStays DEF Next
<1>2. begin'.cpu = cpu /\ ~ left'
  BY Requests
<1>3. /\ InOnePiece(cpu.pc) /\ rets # {} /\ LeadsTo(cpu.pc, rets)
      /\ \A a \in rets : cpu.pc <= a /\ a < cpu.pc + OutScan
      /\ cpu.pc \in rets => Cardinality(rets) = 1
  <2>1. begin'.cpu.pc = cpu.pc
    BY <1>2
  <2> QED BY <1>1, <2>1, LookupsSame, OutLookupsSame, Zenon DEF OutAsked
<1>4. cpu \in Cpu /\ cpu.pc \in DOMAIN Code
  BY BeginTypes
<1>5. OutReturns(cpu.pc) = rets /\ IsLoaded(Table)
  BY <1>3, <1>4, OutReturnsRight
<1>6. Returns(begin.cpu.pc)' = rets
  BY <1>1, <1>2, OutLookupsSame
<1>7. CASE HandleStepOutToReturns
  <2>1. RunOut(rets, rets, "runOut")
    BY <1>5, <1>7 DEF HandleStepOutToReturns
  <2> HIDE DEF rets
  <2>2. cpu' = cpu /\ at' = "runOut"
    BY <2>1 DEF RunOut, RunTo, Run
  <2>3. RunOver(begin.cpu.calls, Returns(begin.cpu.pc))'
    <3>1. PICK here \in SUBSET DOMAIN Code : InRun(cpu, cpu.calls, here, here, rets)
      BY <1>3, <1>4, InRunBegins
    <3>2. InRun(cpu', begin'.cpu.calls, here, here, Returns(begin.cpu.pc)')
      BY <1>2, <1>6, <2>2, <3>1
    <3> QED BY <1>1, <3>2, RunOverThen
  <2>4. CASE Cardinality(rets) = 1
    <3>1. until' = Min(rets) /\ temps' = {}
      BY <2>1, <2>4 DEF RunOut, RunTo, Run
    <3>2. PICK a : rets = {a}
      <4>1. IsFiniteSet(rets)
        <5>1. rets \subseteq 0 .. CodeSpace - 1
          <6>1. IsProgram(Table) /\ Code = Table.code
            BY Instructions DEF Code
          <6>2. DOMAIN Code \subseteq 0 .. CodeSpace - 1
            BY <6>1 DEF IsProgram
          <6> QED BY <6>2 DEF rets, Returns, Among, Function
        <5>2. IsFiniteSet(0 .. CodeSpace - 1)
          BY Widths, FS_Interval
        <5> QED BY <5>1, <5>2, FS_Subset
      <4> QED BY <2>4, <4>1, FS_Singleton
    <3>3. Min(rets) = a
      <4>1. rets \in SUBSET Nat
        BY Instructions DEF rets, Returns, Among, Function
      <4> QED BY <3>2, <4>1, MinNat
    <3>4. {until'} = Returns(begin.cpu.pc)'
      BY <1>6, <3>1, <3>2, <3>3
    <3> QED BY <1>2, <2>2, <2>3, <3>1, <3>4 DEF OutAt
  <2>5. CASE Cardinality(rets) # 1
    <3>1. PICK armed \in SUBSET rets : Run(NoAddr, armed, "runOut") /\ spoilt' = (armed # rets)
      BY <2>1, <2>5 DEF RunOut
    <3>2. until' = NoAddr /\ temps' = rets
      BY <3>1 DEF Run, Calm
    <3>3. begin'.cpu.pc \notin rets
      BY <1>2, <1>3, <2>5
    <3> QED BY <1>2, <1>6, <2>2, <2>3, <3>2, <3>3 DEF OutAt
  <2> QED BY <2>4, <2>5
<1>8. CASE HandleStepOutToJumps \/ HandleStepOutInstruction
  BY <1>3, <1>5, <1>8 DEF HandleStepOutToJumps, HandleStepOutInstruction
<1> QED BY <1>7, <1>8 DEF HandleStepOut

\* A step out goes on.
LEMMA OutGoesOn ==
  ASSUME TypeInv, Active(cpu), OutInv, GoesOnBy, OutAsked', Calm'
  PROVE  OutAt'
<1> DEFINE c    == begin.cpu
           rets == Returns(c.pc)
<1>1. UNCHANGED <<image, place, begin>> /\ ~ RunTimesOut
      /\ (RunHalts => cpu.pc = until \/ cpu.pc \in temps)
  BY CalmBefore
<1>2. OutAsked /\ OutAt /\ ~ Reentrant
  <2>1. OutAsked
    BY <1>1, OutAskedSame
  <2> QED BY <2>1, CalmBefore DEF OutInv, OutAsked
<1>3. /\ c \in Cpu /\ cpu \in Cpu
      /\ c.pc \in DOMAIN Code /\ c.calls \in Seq(DOMAIN Code)
      /\ cpu.pc \in DOMAIN Code /\ cpu.calls \in Seq(DOMAIN Code)
  BY BeginTypes
<1>4. Returns(begin.cpu.pc)' = rets
  BY <1>1, OutLookupsSame
<1>5. CASE RunExecutes
  <2>1. /\ at = "runOut" /\ UNCHANGED <<until, temps, at>> /\ go' = "running"
        /\ left' = (left \/ Len(cpu.calls) < Len(c.calls))
        /\ go \in {"off", "running"} /\ cpu.pc # until
        /\ go = "running" => cpu.pc \notin temps
    BY <1>2, <1>5 DEF RunExecutes, Arrived, OutAt, TypeInv, TypeOK, Runs
  <2>2. /\ \/ {until} = rets /\ temps = {}
           \/ until = NoAddr /\ temps = rets /\ c.pc \notin rets
        /\ go = "off" => cpu = c
    BY <1>2, <2>1 DEF OutAt
  <2>3. PICK here \in SUBSET DOMAIN Code, back \in SUBSET DOMAIN Code :
          InRun(cpu, c.calls, here, back, rets)
    BY <1>2, <2>1 DEF OutAt, RunOver
  <2>4. cpu.pc \notin rets
    BY <2>1, <2>2
  <2> HIDE DEF rets
  <2>5. Len(c.calls) <= Len(cpu.calls) /\ InRun(cpu', c.calls, here, back, rets)
    BY <1>3, <1>5, <2>3, <2>4, InRunGoes
  <2>6. RunOver(begin.cpu.calls, Returns(begin.cpu.pc))'
    <3>1. InRun(cpu', begin'.cpu.calls, here, back, Returns(begin.cpu.pc)')
      BY <1>1, <1>4, <2>5
    <3> QED BY <1>1, <3>1, RunOverThen
  <2>7. ~ left'
    <3>1. Len(begin.cpu.calls) \in Nat
      BY <1>3
    <3>2. Len(cpu.calls) \in Nat
      BY <1>3
    <3>3. ~ (Len(cpu.calls) < Len(begin.cpu.calls))
      BY <2>5, <3>1, <3>2
    <3>4. ~ left
      BY <1>2 DEF OutAt
    <3> QED BY <2>1, <3>3, <3>4, Zenon
  <2> QED BY <1>1, <1>4, <2>1, <2>2, <2>6, <2>7 DEF OutAt
<1>6. CASE RunHalts
  <2>1. at = "runOut" /\ left' = left /\ at' = "done" /\ cpu' \in Executed(cpu)
    BY <1>2, <1>6 DEF RunHalts, Proceed, OutAt, TypeInv, TypeOK, Runs
  <2>2. \/ {until} = rets /\ temps = {}
        \/ until = NoAddr /\ temps = rets
    BY <1>2, <2>1 DEF OutAt
  <2>3. cpu.pc \in rets
    <3>1. cpu.pc # NoAddr
      BY <1>3, Instructions
    <3> QED BY <1>1, <1>6, <2>2, <3>1
  <2>4. PICK here \in SUBSET DOMAIN Code, back \in SUBSET DOMAIN Code :
          InRun(cpu, c.calls, here, back, rets)
    BY <1>2, <2>1 DEF OutAt, RunOver
  <2>5. Op(cpu.pc) = "ret"
    BY <2>3 DEF Returns, Among
  <2> HIDE DEF rets
  <2>6. cpu.calls = c.calls
    BY <1>2, <1>3, <2>3, <2>4, InRunEnds
  <2>7. cpu.calls # <<>>
    BY <1>2, <2>6 DEF OutAsked
  <2>8. Executed(cpu) = {[pc |-> Last(cpu.calls), calls |-> Front(cpu.calls)]}
    BY <2>5, <2>7 DEF Executed, Op
  <2>9. cpu' = [pc |-> Last(begin'.cpu.calls), calls |-> Front(begin'.cpu.calls)]
    BY <1>1, <2>1, <2>6, <2>8
  <2>10. ~ left'
    BY <1>2, <2>1 DEF OutAt
  <2> QED BY <2>1, <2>9, <2>10 DEF OutAt
<1>7. CASE StepSends
  BY <1>1, <1>2, <1>4, <1>7 DEF StepSends, OutAt, target
<1>8. CASE \/ NextMove \/ LoopEnds \/ StepInMove \/ StepInCounts \/ StepInEntered
           \/ HandlePause \/ WaiterSends
  BY <1>2, <1>8 DEF NextMove, LoopEnds, StepInMove, StepInCounts, StepInEntered, HandlePause,
                    WaiterSends, OutAt
<1> QED BY <1>1, <1>5, <1>6, <1>7, <1>8 DEF GoesOnBy

LEMMA OutInvInit == Init => OutInv
<1> SUFFICES ASSUME Init PROVE ~ OutAsked
  BY DEF OutInv
<1>1. begin.kind = "launch"
  BY DEF Init
<1> QED BY <1>1 DEF OutAsked

LEMMA OutInvStep == TypeInv /\ Active(cpu) /\ OutInv /\ [Next]_vars => OutInv'
<1> SUFFICES ASSUME TypeInv, Active(cpu), OutInv, [Next]_vars, OutAsked', Calm'
             PROVE  OutAt'
  BY Zenon DEF OutInv
<1>1. CASE HandleStepOut
  BY <1>1, OutBegins
<1>2. CASE HandleNext \/ HandleStepIn \/ HandleContinue \/ HandleInstruction
  <2>1. begin'.kind # "stepOut"
    BY <1>2 DEF HandleNext, HandleNextToReturn, HandleNextToLine, HandleNextLoop,
                HandleNextLast, HandleNextInstruction,
                HandleStepIn, HandleStepInLoop, HandleStepInCall, HandleStepInInstruction,
                HandleContinue, HandleInstruction, Instruction, Request, Dispatch
  <2> QED BY <2>1 DEF OutAsked
<1>3. CASE GoesOnBy
  BY <1>3, OutGoesOn
<1>4. CASE UNCHANGED vars
  <2>1. UNCHANGED <<image, place, begin>> /\ Calm
    BY <1>4 DEF vars, history, Calm
  <2>2. OutAsked
    BY <2>1, OutAskedSame
  <2>3. OutAt
    BY <2>1, <2>2 DEF OutInv
  <2>4. UNCHANGED <<cpu, go, until, temps, at, left>>
    BY <1>4 DEF vars, target, history
  <2>5. /\ Returns(begin.cpu.pc)' = Returns(begin.cpu.pc)
        /\ RunOver(begin.cpu.calls, Returns(begin.cpu.pc))'
             <=> RunOver(begin.cpu.calls, Returns(begin.cpu.pc))
    BY <2>1, <2>4, OutLookupsSame
  <2> QED BY <2>1, <2>3, <2>4, <2>5, Zenon DEF OutAt
<1> QED BY <1>1, <1>2, <1>3, <1>4 DEF Next, Handler, GoesOnBy

\* A step out of a function whose ways out are the RETs ahead ends at the
\* return address of the call it began in, not a later or an outer one
\* (HandleStepOut).
THEOREM OutReturnsOnce == Spec => []StepOutReturns
<1>1. OutInv => StepOutReturns
  <2> DEFINE c == begin.cpu
  <2> SUFFICES ASSUME OutInv, Undisturbed("stepOut"), OutAsked
               PROVE  ~ left /\ cpu = [pc |-> Last(c.calls), calls |-> Front(c.calls)]
    BY Zenon DEF StepOutReturns, OutAsked, Returns, Undisturbed
  <2>1. OutAt /\ at = "idle"
    BY Zenon DEF OutInv, Calm, Undisturbed
  <2> QED BY <2>1 DEF OutAt
<1>2. Init => OutInv
  BY OutInvInit
<1>3. DepthInv /\ OutInv /\ [Next]_vars => OutInv'
  BY OutInvStep, Zenon DEF DepthInv
<1>4. Spec => []DepthInv
  BY DepthInvariant
<1> QED BY <1>1, <1>2, <1>3, <1>4, PTL DEF Spec
=============================================================================
