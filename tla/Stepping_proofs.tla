-------------------------- MODULE Stepping_proofs --------------------------
(***************************************************************************)
(* For every set of programs, breakpoints and bounds: the types of module  *)
(* Stepping, that a user breakpoint ends a step, what the shadow stack     *)
(* shows at a stop, and that the pages of a stack trace fit together.      *)
(***************************************************************************)
EXTENDS Stepping, BasicFacts

-----------------------------------------------------------------------------
\* What the tables give.

LEMMA TableIsProgram == ASSUME image \in DOMAIN Images PROVE IsProgram(Table)
BY ImagesAssumption DEF Table

\* LookupSymbol returns a name, if only the empty one.
LEMMA LookupSymbolType ==
  ASSUME NEW t, IsProgram(t), NEW addr \in Nat
  PROVE  LookupSymbol(t, addr) \in Names(t)
<1> DEFINE S == AtMost(DOMAIN t.symbols, addr)
<1>1. S \in SUBSET Nat /\ \A k \in S : k <= addr
  BY DEF IsProgram, AtMost
<1>2. ASSUME S # {} PROVE Max(S) \in DOMAIN t.symbols
  <2>1. Max(S) \in S
    <3> HIDE DEF S
    <3> QED BY <1>1, <1>2, MaxNat
  <2> QED BY <2>1 DEF AtMost
<1>3. ASSUME Nearest(DOMAIN t.symbols, addr) # NoAddr
      PROVE  Nearest(DOMAIN t.symbols, addr) \in DOMAIN t.symbols
  BY <1>2, <1>3 DEF Nearest
<1>4. \A a \in DOMAIN t.symbols : t.symbols[a] \in Names(t)
  BY Zenon DEF Names, Range
<1>5. NoName \in Names(t)
  BY DEF Names
<1> QED BY <1>3, <1>4, <1>5 DEF LookupSymbol

\* The next line begins at an instruction, or there is none.
LEMMA NextLineType ==
  ASSUME NEW t, IsProgram(t), NEW addr \in Nat
  PROVE  /\ NextLineAddr(t, addr) \in {NoAddr} \cup LineAddrs(t)
         /\ LineAddrs(t) \subseteq DOMAIN t.code
         /\ DOMAIN t.code \subseteq Nat
         /\ NoAddr \notin Nat
<1> DEFINE S == Above(LineAddrs(t), addr)
<1>1. LineAddrs(t) \subseteq DOMAIN t.code /\ DOMAIN t.code \subseteq Nat
  BY DEF IsProgram, LineAddrs
<1>2. ASSUME S # {} PROVE Min(S) \in LineAddrs(t)
  <2>1. S \in SUBSET Nat
    BY <1>1 DEF Above
  <2>2. Min(S) \in S
    <3> HIDE DEF S
    <3> QED BY <1>2, <2>1, MinNat
  <2> QED BY <2>2 DEF Above
<1> QED BY <1>1, <1>2 DEF NextLineAddr, Following, NoAddr

\* An address with a line has a last entry and a first one.
LEMMA EntryTypes ==
  ASSUME NEW t, IsProgram(t), NEW a \in LineAddrs(t)
  PROVE  /\ LastEntry(t, a) \in t.lines /\ LastEntry(t, a).addr = a
         /\ \E e \in EntriesAt(t, a) : \A f \in EntriesAt(t, a) : e.line <= f.line
<1> DEFINE E == EntriesAt(t, a)
           L == {e.line : e \in E}
<1>1. E # {} /\ E \subseteq t.lines /\ \A e \in E : e.addr = a
  BY DEF LineAddrs, EntriesAt
<1>2. \A e \in E : e.line \in 1 .. MaxLine
  BY <1>1 DEF IsProgram
<1>3. L \in SUBSET Nat /\ L # {} /\ \A k \in L : k <= MaxLine
  BY <1>1, <1>2
<1>4. MaxLine \in Nat
  BY SteppingAssumption
<1>5. \E m \in L : \A k \in L : k <= m
  <2> HIDE DEF L
  <2> QED BY <1>3, <1>4, GreatestNat
<1>6. \E m \in L : \A k \in L : m <= k
  <2> HIDE DEF L
  <2> QED BY <1>3, LeastNat
<1>7. \E e \in E : \A f \in E : e.line >= f.line
  <2>1. PICK e \in E : \A k \in L : k <= e.line
    BY <1>5
  <2>2. \A f \in E : f.line <= e.line
    BY <2>1
  <2>3. \A f \in E : e.line >= f.line
    BY <1>2, <2>2
  <2> QED BY <2>3
<1>8. \E e \in E : \A f \in E : e.line <= f.line
  BY <1>6
<1>9. LastEntry(t, a) \in E
  BY <1>7 DEF LastEntry
<1> QED BY <1>1, <1>8, <1>9

\* LookupLine returns a file and a line, if only those of NoLoc.
LEMMA LookupLineType ==
  ASSUME NEW t, IsProgram(t), NEW addr \in Nat
  PROVE  LookupLine(t, addr) \in [file : Files(t), line : 0 .. MaxLine]
<1> DEFINE S == AtMost(LineAddrs(t), addr)
           a == Nearest(LineAddrs(t), addr)
<1>1. S \in SUBSET Nat /\ \A k \in S : k <= addr
  BY NextLineType DEF AtMost
<1>2. a = NoAddr \/ a \in LineAddrs(t)
  <2>1. ASSUME S # {} PROVE Max(S) \in S
    <3> HIDE DEF S
    <3> QED BY <1>1, <2>1, MaxNat
  <2> QED BY <2>1 DEF Nearest, AtMost
<1>3. NoLoc \in [file : Files(t), line : 0 .. MaxLine]
  <2>1. NoName \in Files(t) /\ 0 \in 0 .. MaxLine
    BY SteppingAssumption DEF Files
  <2> QED BY <2>1, Zenon DEF NoLoc
<1>4. ASSUME NEW e \in t.lines
      PROVE  e.file \in Files(t) /\ e.line \in 0 .. MaxLine /\ e.addr \in Nat
  <2>1. e.line \in 1 .. MaxLine /\ e.addr \in Nat
    BY DEF IsProgram
  <2>2. e.file \in Files(t)
    BY DEF Files
  <2> QED BY <2>1, <2>2, SteppingAssumption
<1>5. CASE a \in LineAddrs(t)
  <2>1. LastEntry(t, a) \in t.lines /\ LastEntry(t, a).addr = a
    BY <1>5, EntryTypes
  <2>2. ASSUME InPrologue(t, LastEntry(t, a), addr)
        PROVE  EntryAfter(t, a) \in t.lines
    <3>1. NextLineAddr(t, a) # NoAddr
      BY <2>1, <2>2 DEF InPrologue
    <3>2. NextLineAddr(t, a) \in LineAddrs(t)
      <4>1. a \in Nat
        BY <1>4, <2>1
      <4> QED BY <3>1, <4>1, NextLineType
    <3>3. \E e \in EntriesAt(t, NextLineAddr(t, a)) :
            \A f \in EntriesAt(t, NextLineAddr(t, a)) : e.line <= f.line
      BY <3>2, EntryTypes
    <3>4. EntryAfter(t, a) \in EntriesAt(t, NextLineAddr(t, a))
      BY <3>3 DEF EntryAfter
    <3> QED BY <3>4 DEF EntriesAt
  <2> HIDE DEF a
  <2>3. LastEntry(t, a).file \in Files(t) /\ LastEntry(t, a).line \in 0 .. MaxLine
    BY <1>4, <2>1
  <2>4. InPrologue(t, LastEntry(t, a), addr) => EntryAfter(t, a).line \in 0 .. MaxLine
    BY <1>4, <2>2
  <2> QED BY <1>3, <2>3, <2>4 DEF LookupLine, a
<1>6. CASE a = NoAddr
  BY <1>3, <1>6 DEF LookupLine
<1> QED BY <1>2, <1>5, <1>6

\* What the handlers look up at an instruction.
PlacesFor(t) ==
  [DOMAIN t.code -> [frame : FramesFor(t), next : {NoAddr} \cup DOMAIN t.code]]

LEMMA PlaceType ==
  ASSUME NEW t, IsProgram(t)
  PROVE  Place(t) \in PlacesFor(t)
<1> SUFFICES ASSUME NEW pc \in DOMAIN t.code
             PROVE  /\ ShadowFrame(t, pc) \in FramesFor(t)
                    /\ NextLineAddr(t, pc) \in {NoAddr} \cup DOMAIN t.code
  BY Zenon DEF Place, PlacesFor
<1>1. pc \in Nat
  BY DEF IsProgram
<1>2. LookupSymbol(t, pc) \in Names(t) /\ LookupLine(t, pc) \in [file : Files(t), line : 0 .. MaxLine]
  BY <1>1, LookupSymbolType, LookupLineType
<1>3. ShadowFrame(t, pc) \in FramesFor(t)
  BY <1>2 DEF ShadowFrame, FramesFor
<1> QED BY <1>1, <1>3, NextLineType

-----------------------------------------------------------------------------
\* Types.

\* The program stays what it is from the launch on.
LEMMA ProgramStays == [Next]_vars => image' = image /\ place' = place /\ user' = user
<1> SUFFICES ASSUME [Next]_vars PROVE image' = image /\ place' = place /\ user' = user
  OBVIOUS
<1>1. CASE HandleNext
  BY <1>1 DEF HandleNext, HandleNextToReturn, HandleNextToLine, HandleNextLoop,
              HandleNextLast, HandleNextInstruction, Instruction, Request, Dispatch
<1>2. CASE HandleStepIn
  BY <1>2 DEF HandleStepIn, HandleStepInLoop, HandleStepInCall,
              HandleStepInInstruction, Instruction, Request, Dispatch
<1>3. CASE HandleStepOut
  BY <1>3 DEF HandleStepOut, HandleStepOutToReturns, HandleStepOutToJumps,
              HandleStepOutInstruction, Instruction, Request, Dispatch
<1>4. CASE HandleInstruction \/ HandleContinue \/ HandlePause \/ RunExecutes
  BY <1>4 DEF HandleInstruction, Instruction, HandleContinue, HandlePause, RunExecutes,
              Restarted, Request, Dispatch
<1>5. CASE Handler
  BY <1>5 DEF Handler, NextMove, LoopEnds, StepInMove, StepInCounts, StepInEntered,
              RunHalts, RunTimesOut, WaiterSends, StepSends, Restarted
<1>6. CASE UNCHANGED vars
  BY <1>6 DEF vars
<1> QED BY <1>1, <1>2, <1>3, <1>4, <1>5, <1>6 DEF Next

\* TypeOK and what the handlers read, as one invariant.
TypeInv == TypeOK /\ place = Place(Table)

\* What a program is made of, at the instruction under the PC.
LEMMA Instructions ==
  ASSUME TypeInv
  PROVE  /\ IsProgram(Table)
         /\ DOMAIN Code \subseteq Nat
         /\ place \in PlacesFor(Table)
         /\ \A pc \in DOMAIN Code :
              /\ Frame(pc) \in FramesFor(Table)
              /\ NextLine(pc) \in {NoAddr} \cup DOMAIN Code
              /\ Follows(Code, pc) \subseteq DOMAIN Code
         /\ NoAddr \notin Nat
<1>1. IsProgram(Table)
  BY TableIsProgram DEF TypeInv, TypeOK
<1>2. place \in PlacesFor(Table)
  BY <1>1, PlaceType DEF TypeInv
<1>3. DOMAIN Code \subseteq Nat /\ \A a \in DOMAIN Code : Follows(Code, a) \subseteq DOMAIN Code
  BY <1>1 DEF IsProgram, Code
<1>4. ASSUME NEW pc \in DOMAIN Code
      PROVE  Frame(pc) \in FramesFor(Table) /\ NextLine(pc) \in {NoAddr} \cup DOMAIN Code
  BY <1>2, <1>4 DEF PlacesFor, Frame, NextLine, Code
<1> QED BY <1>1, <1>2, <1>3, <1>4 DEF NoAddr

\* The target stays in the program whatever it executes.
LEMMA ExecutedType ==
  ASSUME TypeInv, NEW c \in Cpu
  PROVE  Executed(c) \subseteq Cpu
<1> DEFINE i     == Code[c.pc]
           after == c.pc + i.len
<1>1. c.pc \in DOMAIN Code /\ c.calls \in Seq(DOMAIN Code)
      /\ c = [pc |-> c.pc, calls |-> c.calls]
  BY DEF Cpu
<1>2. Follows(Code, c.pc) \subseteq DOMAIN Code
  BY <1>1, Instructions
<1>3. ASSUME NEW a \in DOMAIN Code PROVE [c EXCEPT !.pc = a] \in Cpu
  BY <1>1 DEF Cpu
<1>4. i.op \in {"plain", "branch", "goto", "jump", "call", "ret"}
  BY <1>1, Instructions DEF IsProgram, Code
<1>5. /\ i.op \in {"plain", "branch", "call"} => after \in DOMAIN Code
      /\ i.op \in {"branch", "call", "goto", "jump"} => i.to \in DOMAIN Code
  BY <1>2 DEF Follows
<1>6. CASE i.op = "plain"
  BY <1>3, <1>5, <1>6 DEF Executed
<1>7. CASE i.op = "branch"
  BY <1>3, <1>5, <1>7 DEF Executed
<1>8. CASE i.op \in {"goto", "jump"}
  BY <1>3, <1>5, <1>8 DEF Executed
<1>9. CASE i.op = "call"
  <2>1. Append(c.calls, after) \in Seq(DOMAIN Code)
    BY <1>1, <1>5, <1>9, AppendProperties
  <2>2. [pc |-> i.to, calls |-> Append(c.calls, after)] \in Cpu
    BY <1>5, <1>9, <2>1 DEF Cpu
  <2>3. Executed(c) \subseteq {[c EXCEPT !.pc = after], [pc |-> i.to, calls |-> Append(c.calls, after)]}
    BY <1>9 DEF Executed
  <2> QED BY <1>3, <1>5, <1>9, <2>2, <2>3
<1>10. CASE i.op = "ret" /\ c.calls = <<>>
  BY <1>3, <1>10 DEF Executed
<1>11. CASE i.op = "ret" /\ c.calls # <<>>
  <2>1. Front(c.calls) \in Seq(DOMAIN Code) /\ Last(c.calls) \in DOMAIN Code
    BY <1>1, <1>11, FrontProperties
  <2>2. [pc |-> Last(c.calls), calls |-> Front(c.calls)] \in Cpu
    BY <2>1 DEF Cpu
  <2> QED BY <1>11, <2>2 DEF Executed
<1> QED BY <1>4, <1>6, <1>7, <1>8, <1>9, <1>10, <1>11

\* The target and the place of the reader thread after a step.
TargetNext ==
  /\ cpu' \in Cpu
  /\ go' \in {"halted", "off", "running"}
  /\ go' = "halted" <=> at' \notin Runs
  /\ until' \in {NoAddr} \cup DOMAIN Code
  /\ temps' \subseteq DOMAIN Code
  /\ at' \in At
  /\ moves' \in Nat

Waiting == {"idle", "loop", "in", "count", "entered", "done", "waiter"}

LEMMA Places == /\ At = Runs \cup Waiting
                /\ \A a \in Waiting : a \notin Runs
BY DEF At, Runs, Waiting

LEMMA StepTypes ==
  ASSUME TypeInv, StepInstruction, at \in Waiting, at' \in Waiting, moves' \in Nat
  PROVE  TargetNext
<1>1. cpu \in Cpu /\ go = "halted" /\ until \in {NoAddr} \cup DOMAIN Code /\ temps \subseteq DOMAIN Code
  BY Places DEF TypeInv, TypeOK
<1>2. cpu' \in Cpu
  BY <1>1, ExecutedType DEF StepInstruction
<1> QED BY <1>1, <1>2, Places DEF StepInstruction, TargetNext

LEMMA StayTypes ==
  ASSUME TypeInv, UNCHANGED target, at \in Waiting, at' \in Waiting, moves' \in Nat
  PROVE  TargetNext
BY Places DEF TypeInv, TypeOK, target, TargetNext

LEMMA RunTypes ==
  ASSUME TypeInv, NEW addr \in {NoAddr} \cup DOMAIN Code, NEW bps \in SUBSET DOMAIN Code,
         NEW to \in Runs, Run(addr, bps, to), moves' \in Nat
  PROVE  TargetNext
<1>1. cpu' = cpu /\ go' = "off" /\ until' = addr /\ temps' = bps /\ at' = to
  BY DEF Run
<1>2. cpu \in Cpu
  BY DEF TypeInv, TypeOK
<1> QED BY <1>1, <1>2, Places DEF TargetNext

LEMMA RunToTypes ==
  ASSUME TypeInv, NEW addr \in {NoAddr} \cup DOMAIN Code,
         NEW to \in Runs, RunTo(addr, to), moves' \in Nat
  PROVE  TargetNext
BY RunTypes DEF RunTo

\* The addresses the handlers run to.
LEMMA CodeTargets ==
  ASSUME TypeInv
  PROVE  /\ \A S \in SUBSET DOMAIN Code : S # {} => Min(S) \in DOMAIN Code
         /\ \A from, len : Sweep(from, len) \subseteq DOMAIN Code
         /\ \A addrs \in SUBSET DOMAIN Code : \A op : Among(addrs, op) \subseteq DOMAIN Code
         /\ \A a \in DOMAIN Code :
              /\ Op(a) = "call" => a + Code[a].len \in DOMAIN Code
              /\ Op(a) = "jump" => Code[a].to \in DOMAIN Code
<1>1. ASSUME NEW S \in SUBSET DOMAIN Code, S # {} PROVE Min(S) \in DOMAIN Code
  BY <1>1, Instructions, MinNat
<1>2. ASSUME NEW a \in DOMAIN Code
      PROVE  /\ Op(a) = "call" => a + Code[a].len \in DOMAIN Code
             /\ Op(a) = "jump" => Code[a].to \in DOMAIN Code
  BY <1>2, Instructions DEF Follows, Op
<1> QED BY <1>1, <1>2 DEF Sweep, Among

LEMMA NextTypes == ASSUME TypeInv, HandleNext PROVE TargetNext
<1>1. at = "idle" /\ at \in Waiting /\ cpu.pc \in DOMAIN Code /\ moves \in Nat
  <2>1. at = "idle"
    BY DEF HandleNext, HandleNextToReturn, HandleNextToLine, HandleNextLoop,
           HandleNextLast, HandleNextInstruction, Instruction, Request, Dispatch
  <2> QED BY <2>1 DEF Waiting, TypeInv, TypeOK, Cpu
<1>2. CASE HandleNextToReturn
  <2>1. Min(NextReturns(cpu.pc)) \in DOMAIN Code
    BY <1>2, CodeTargets DEF HandleNextToReturn, NextReturns
  <2> QED BY <1>1, <1>2, <2>1, RunToTypes DEF HandleNextToReturn, Runs
<1>3. CASE HandleNextToLine
  BY <1>1, <1>3, Instructions, RunToTypes DEF HandleNextToLine, Runs
<1>4. CASE HandleNextLoop
  BY <1>1, <1>4, StayTypes, SteppingAssumption DEF HandleNextLoop, Waiting
<1>5. CASE HandleNextLast
  BY <1>1, <1>5, StepTypes DEF HandleNextLast, Waiting
<1>6. CASE HandleNextInstruction
  BY <1>1, <1>6, StepTypes DEF HandleNextInstruction, Instruction, Waiting
<1> QED BY <1>2, <1>3, <1>4, <1>5, <1>6 DEF HandleNext

LEMMA StepInTypes == ASSUME TypeInv, HandleStepIn PROVE TargetNext
<1>1. at = "idle" /\ at \in Waiting /\ cpu.pc \in DOMAIN Code
  <2>1. at = "idle"
    BY DEF HandleStepIn, HandleStepInLoop, HandleStepInCall,
           HandleStepInInstruction, Instruction, Request, Dispatch
  <2> QED BY <2>1 DEF Waiting, TypeInv, TypeOK, Cpu
<1>2. CASE HandleStepInLoop
  BY <1>1, <1>2, StayTypes, SteppingAssumption DEF HandleStepInLoop, Waiting
<1>3. CASE HandleStepInCall
  <2> DEFINE n == Min(InCalls(cpu.pc))
             S == AtMost(InSweep(cpu.pc), n)
  <2>1. n \in DOMAIN Code
    BY <1>3, CodeTargets DEF HandleStepInCall, InCalls, InSweep
  <2>2. DOMAIN Code \subseteq Nat
    BY Instructions
  <2>3. n \in Nat
    BY <2>1, <2>2
  <2>4. S \in SUBSET Nat /\ \A k \in S : k <= n
    BY <2>2, CodeTargets DEF AtMost, InSweep
  <2>5. IsFiniteSet(S)
    <3> HIDE DEF S, n
    <3> QED BY <2>3, <2>4, FS_BoundedSetOfNaturals
  <2>6. Cardinality(S) \in Nat
    BY <2>5, FS_CardinalityType
  <2>7. moves' = Cardinality(S) /\ at' = "count" /\ UNCHANGED target
    BY <1>3 DEF HandleStepInCall
  <2> QED BY <1>1, <2>6, <2>7, StayTypes DEF Waiting
<1>4. CASE HandleStepInInstruction
  <2>1. moves' \in Nat
    BY <1>4 DEF HandleStepInInstruction, Instruction, TypeInv, TypeOK
  <2> QED BY <1>1, <1>4, <2>1, StepTypes DEF HandleStepInInstruction, Instruction, Waiting
<1> QED BY <1>2, <1>3, <1>4 DEF HandleStepIn

LEMMA RunOutTypes ==
  ASSUME TypeInv, NEW S \in SUBSET DOMAIN Code, NEW exits \in SUBSET DOMAIN Code,
         exits # {}, NEW to \in Runs, RunOut(S, exits, to), moves' \in Nat
  PROVE  TargetNext
<1>1. CASE Cardinality(S) = 1
  <2>1. Min(exits) \in DOMAIN Code
    BY CodeTargets
  <2> QED BY <1>1, <2>1, RunToTypes DEF RunOut
<1>2. CASE Cardinality(S) # 1
  <2>1. PICK armed \in SUBSET exits : Run(NoAddr, armed, to)
    BY <1>2 DEF RunOut
  <2>2. armed \in SUBSET DOMAIN Code
    BY <2>1
  <2> QED BY <2>1, <2>2, RunTypes
<1> QED BY <1>1, <1>2

LEMMA StepOutTypes == ASSUME TypeInv, HandleStepOut PROVE TargetNext
<1>1. /\ at = "idle" /\ at \in Waiting /\ cpu.pc \in DOMAIN Code
      /\ moves' \in Nat
  <2>1. at = "idle" /\ moves' = moves
    BY DEF HandleStepOut, HandleStepOutToReturns, HandleStepOutToJumps,
           HandleStepOutInstruction, Instruction, Request, Dispatch
  <2> QED BY <2>1 DEF Waiting, TypeInv, TypeOK, Cpu
<1>2. CASE HandleStepOutToReturns
  <2>1. OutReturns(cpu.pc) \in SUBSET DOMAIN Code
    BY CodeTargets DEF OutReturns, OutSweep
  <2> QED BY <1>1, <1>2, <2>1, RunOutTypes DEF HandleStepOutToReturns, Runs
<1>3. CASE HandleStepOutToJumps
  <2> DEFINE J == OutJumps(cpu.pc)
             T == {Code[a].to : a \in J}
  <2>1. J \in SUBSET DOMAIN Code /\ \A a \in J : Op(a) = "jump"
    BY CodeTargets DEF OutJumps, OutSweep, Among
  <2>2. T \in SUBSET DOMAIN Code
    BY <2>1, CodeTargets
  <2>3. T # {}
    BY <1>3 DEF HandleStepOutToJumps
  <2>4. RunOut(J, T, "runTail")
    BY <1>3 DEF HandleStepOutToJumps
  <2> HIDE DEF J, T
  <2> QED BY <1>1, <2>1, <2>2, <2>3, <2>4, RunOutTypes DEF Runs
<1>4. CASE HandleStepOutInstruction
  BY <1>1, <1>4, StepTypes DEF HandleStepOutInstruction, Instruction, Waiting
<1> QED BY <1>2, <1>3, <1>4 DEF HandleStepOut

LEMMA MovesTypes ==
  ASSUME TypeInv, NextMove \/ LoopEnds \/ StepInMove \/ StepInCounts \/ StepInEntered
  PROVE  TargetNext
<1>1. cpu.pc \in DOMAIN Code /\ moves \in Nat
  BY DEF TypeInv, TypeOK, Cpu
<1>2. moves > 0 => moves - 1 \in Nat
  BY <1>1
<1>3. CASE NextMove
  <2>1. at \in Waiting /\ moves' \in Nat
    BY <1>2, <1>3 DEF NextMove, Waiting
  <2>2. CASE Op(cpu.pc) = "call"
    BY <1>1, <1>3, <2>1, <2>2, CodeTargets, RunToTypes DEF NextMove, Runs
  <2>3. CASE Op(cpu.pc) # "call"
    BY <1>3, <2>1, <2>3, StepTypes DEF NextMove, Waiting
  <2> QED BY <2>2, <2>3
<1>4. CASE LoopEnds
  BY <1>1, <1>4, StayTypes DEF LoopEnds, Waiting
<1>5. CASE StepInMove
  <2>1. at \in Waiting /\ at' \in Waiting /\ moves' \in Nat
    BY <1>2, <1>5 DEF StepInMove, Waiting
  <2> QED BY <1>5, <2>1, StepTypes DEF StepInMove
<1>6. CASE StepInCounts
  <2>1. at \in Waiting /\ at' \in Waiting /\ moves' \in Nat
    BY <1>2, <1>6 DEF StepInCounts, Waiting
  <2> QED BY <1>6, <2>1, StepTypes DEF StepInCounts
<1>7. CASE StepInEntered
  <2>1. CASE SkipsPrologue(cpu.pc)
    <3>1. NextLine(cpu.pc) \in DOMAIN Code
      BY <1>1, <2>1, Instructions DEF SkipsPrologue
    <3> QED BY <1>1, <1>7, <2>1, <3>1, RunToTypes DEF StepInEntered, Runs
  <2>2. CASE ~ SkipsPrologue(cpu.pc)
    BY <1>1, <1>7, <2>2, StayTypes DEF StepInEntered, Waiting
  <2> QED BY <2>1, <2>2
<1> QED BY <1>3, <1>4, <1>5, <1>6, <1>7

\* A run executes, halts, is given up or is stopped; a handler ends.
LEMMA RunsTypes ==
  ASSUME TypeInv, RunExecutes \/ RunHalts \/ RunTimesOut \/ HandlePause \/ HandleContinue
                  \/ HandleInstruction
                  \/ WaiterSends \/ StepSends
  PROVE  TargetNext
<1>1. /\ cpu \in Cpu /\ Executed(cpu) \subseteq Cpu
      /\ go \in {"halted", "off", "running"}
      /\ go = "halted" <=> at \notin Runs
      /\ until \in {NoAddr} \cup DOMAIN Code
      /\ temps \subseteq DOMAIN Code
      /\ at \in At
      /\ moves \in Nat
  BY ExecutedType DEF TypeInv, TypeOK
<1>2. CASE RunExecutes
  BY <1>1, <1>2 DEF RunExecutes, TargetNext
<1>3. CASE RunHalts
  <2>1. at \in Runs
    BY <1>1, <1>3 DEF RunHalts
  <2>2. at' \in Waiting /\ cpu' \in Cpu
    BY <1>1, <1>3, <2>1 DEF RunHalts, Proceed, Runs, Waiting
  <2> QED BY <1>1, <1>3, <2>2, Places DEF RunHalts, TargetNext
<1>4. CASE RunTimesOut
  BY <1>1, <1>4, Places DEF RunTimesOut, TargetNext, Waiting
<1>5. CASE HandlePause
  BY <1>1, <1>5, Places DEF HandlePause, Restarted, TargetNext, Waiting
<1>6. CASE HandleContinue
  BY <1>1, <1>6, RunTypes DEF HandleContinue, Runs
<1>7. CASE WaiterSends
  <2>1. at = "waiter" /\ at' = "idle" /\ UNCHANGED <<cpu, go, until, temps, moves>>
    BY <1>7 DEF WaiterSends, Restarted
  <2> QED BY <1>1, <2>1, Places DEF TargetNext, Waiting
<1>8. CASE StepSends
  BY <1>1, <1>8, StayTypes DEF StepSends, Waiting
<1>9. CASE HandleInstruction
  <2>1. at = "idle" /\ at \in Waiting
    BY <1>9 DEF HandleInstruction, Instruction, Request, Dispatch, Waiting
  <2> QED BY <1>1, <1>9, <2>1, StepTypes DEF HandleInstruction, Instruction, Waiting
<1> QED BY <1>2, <1>3, <1>4, <1>5, <1>6, <1>7, <1>8, <1>9

-----------------------------------------------------------------------------
\* The shadow stack.

\* ShadowStackReset and the update after it leave the frame of the PC alone.
LEMMA RestartedStack ==
  ASSUME NEW T, NEW frame \in T
  PROVE  /\ ShadowStackRestart(frame) = <<frame>>
         /\ <<frame>> \in Seq(T)
         /\ Len(<<frame>>) = 1
         /\ Last(<<frame>>) = frame
         /\ EachOnce(<<frame>>)
<1>1. FramesOf(<<>>, frame.func) = {}
  BY DEF FramesOf
<1>2. ShadowStackRestart(frame) = <<frame>>
  BY <1>1 DEF ShadowStackRestart, ShadowStackUpdate
<1> DEFINE u == <<frame>>
<1>3. u \in Seq(T) /\ Len(u) = 1 /\ u[1] = frame
  OBVIOUS
<1> HIDE DEF u
<1>4. DOMAIN u = {1}
  BY <1>3
<1>5. EachOnce(u)
  BY <1>4 DEF EachOnce
<1>6. Last(u) = frame
  BY <1>3 DEF Last
<1> QED BY <1>2, <1>3, <1>5, <1>6 DEF u

\* ShadowStackUpdate keeps the frames below one place, and puts the new frame
\* there; that place is past the top, or the nearest frame of the function.
PutAt(u, s, frame, n) ==
  /\ Len(u) = n + 1
  /\ Last(u) = frame /\ u[n + 1] = frame
  /\ \A i \in 1 .. n : u[i] = s[i]
  /\ FramesOf(s, frame.func) = {} => n = Len(s)
  /\ FramesOf(s, frame.func) # {} =>
       /\ n + 1 \in FramesOf(s, frame.func)
       /\ \A k \in FramesOf(s, frame.func) : k <= n + 1

LEMMA UpdatedStack ==
  ASSUME NEW T, NEW s \in Seq(T), NEW frame \in T
  PROVE  /\ ShadowStackUpdate(s, frame) \in Seq(T)
         /\ ShadowStackUpdate(s, frame) # <<>>
         /\ \E n \in 0 .. Len(s) : PutAt(ShadowStackUpdate(s, frame), s, frame, n)
<1> DEFINE u   == ShadowStackUpdate(s, frame)
           own == FramesOf(s, frame.func)
           m   == Max(own)
<1>1. own \in SUBSET Nat /\ own \subseteq 1 .. Len(s) /\ Len(s) \in Nat
      /\ \A k \in own : k <= Len(s)
  <2>1. DOMAIN s = 1 .. Len(s) /\ Len(s) \in Nat
    OBVIOUS
  <2>2. own \subseteq DOMAIN s
    BY DEF FramesOf
  <2> HIDE DEF own
  <2> QED BY <2>1, <2>2
<1>2. CASE own = {}
  <2>1. u = Append(s, frame)
    BY <1>2 DEF ShadowStackUpdate
  <2>2. /\ Append(s, frame) \in Seq(T)
        /\ Len(Append(s, frame)) = Len(s) + 1
        /\ \A i \in 1 .. Len(s) : Append(s, frame)[i] = s[i]
        /\ Append(s, frame)[Len(s) + 1] = frame
    BY AppendProperties
  <2>3. Last(Append(s, frame)) = frame
    BY <2>2 DEF Last
  <2>4. Append(s, frame) # <<>>
    BY <2>2
  <2>5. Len(s) \in 0 .. Len(s)
    BY <1>1
  <2>6. PutAt(Append(s, frame), s, frame, Len(s))
    BY <1>2, <2>2, <2>3 DEF PutAt
  <2> QED BY <2>1, <2>2, <2>4, <2>5, <2>6
<1>3. CASE own # {}
  <2>1. m \in own /\ \A k \in own : k <= m
    <3> HIDE DEF own
    <3> QED BY <1>1, <1>3, MaxNat
  <2>2. m \in 1 .. Len(s)
    BY <1>1, <2>1
  <2> HIDE DEF m
  <2> DEFINE b == SubSeq(s, 1, m - 1)
  <2>3. /\ b \in Seq(T)
        /\ Len(b) = m - 1
        /\ \A i \in 1 .. m - 1 : b[i] = s[i]
    <3>1. \A i \in 1 .. m - 1 : s[i] \in T
      BY <1>1, <2>2
    <3>2. m - 1 \in Int /\ 1 \in Int
      BY <2>2
    <3>3. /\ b \in Seq(T)
          /\ Len(b) = IF 1 <= m - 1 THEN m - 1 - 1 + 1 ELSE 0
          /\ \A i \in 1 .. m - 1 - 1 + 1 : b[i] = s[1 + i - 1]
      BY <3>1, <3>2, SubSeqProperties
    <3> HIDE DEF b
    <3> QED BY <2>2, <3>3
  <2> HIDE DEF b
  <2>4. u = Append(b, frame)
    BY <1>3 DEF ShadowStackUpdate, b, m
  <2>5. /\ Append(b, frame) \in Seq(T)
        /\ Len(Append(b, frame)) = Len(b) + 1
        /\ \A i \in 1 .. Len(b) : Append(b, frame)[i] = b[i]
        /\ Append(b, frame)[Len(b) + 1] = frame
    BY <2>3, AppendProperties
  <2> HIDE DEF u
  <2>6. Len(u) = m /\ u[m] = frame /\ u \in Seq(T) /\ \A i \in 1 .. m - 1 : u[i] = s[i]
    BY <2>2, <2>3, <2>4, <2>5
  <2>7. Last(u) = frame /\ u # <<>>
    BY <2>2, <2>6 DEF Last
  <2> DEFINE n == m - 1
  <2>8. n \in 0 .. Len(s) /\ n + 1 = m
    BY <2>2, <1>1
  <2> HIDE DEF own, n
  <2>9. \A i \in 1 .. n : u[i] = s[i]
    BY <2>6 DEF n
  <2>10. PutAt(u, s, frame, n)
    BY <1>3, <2>1, <2>6, <2>7, <2>8, <2>9 DEF PutAt, own
  <2> QED BY <2>6, <2>7, <2>8, <2>10 DEF u
<1> QED BY <1>2, <1>3

\* It never has a function twice.
LEMMA UpdatedOnce ==
  ASSUME NEW T, NEW s \in Seq(T), NEW frame \in T, EachOnce(s)
  PROVE  EachOnce(ShadowStackUpdate(s, frame))
<1> DEFINE u   == ShadowStackUpdate(s, frame)
           own == FramesOf(s, frame.func)
<1>1. u \in Seq(T) /\ \E n \in 0 .. Len(s) : PutAt(u, s, frame, n)
  BY UpdatedStack
<1> HIDE DEF u
<1>2. PICK n \in 0 .. Len(s) : PutAt(u, s, frame, n)
  BY <1>1
<1>3. /\ u \in Seq(T) /\ Len(u) = n + 1 /\ u[n + 1] = frame
      /\ \A i \in 1 .. n : u[i] = s[i]
      /\ own = {} => n = Len(s)
      /\ own # {} => n + 1 \in own
  BY <1>1, <1>2 DEF PutAt
<1>4. DOMAIN s = 1 .. Len(s) /\ Len(s) \in Nat
  OBVIOUS
<1>5. \A i \in 1 .. n : frame.func = NoName \/ s[i].func # frame.func
  <2>1. CASE own = {}
    <3> SUFFICES ASSUME NEW i \in 1 .. n, frame.func # NoName, s[i].func = frame.func PROVE FALSE
      OBVIOUS
    <3>1. i \in DOMAIN s
      BY <1>3, <1>4, <2>1
    <3>2. i \in own
      BY <3>1 DEF FramesOf
    <3> QED BY <2>1, <3>2
  <2>2. CASE own # {}
    <3>1. n + 1 \in DOMAIN s /\ s[n + 1].func = frame.func
      BY <1>3, <2>2 DEF FramesOf
    <3>2. \A i \in 1 .. n : i \in DOMAIN s /\ i # n + 1
      BY <1>3, <1>4
    <3> QED BY <3>1, <3>2 DEF EachOnce
  <2> QED BY <2>1, <2>2
<1>6. DOMAIN u = 1 .. n + 1 /\ n \in Nat
  BY <1>3
<1>7. ASSUME NEW i \in 1 .. n, NEW j \in 1 .. n, i # j
      PROVE  u[i].func # u[j].func \/ u[i].func = NoName
  <2>1. i \in DOMAIN s /\ j \in DOMAIN s
    BY <1>3, <1>4
  <2> QED BY <1>3, <1>7, <2>1 DEF EachOnce
<1>8. ASSUME NEW i \in 1 .. n
      PROVE  /\ u[i].func # u[n + 1].func \/ u[i].func = NoName
             /\ u[n + 1].func # u[i].func \/ u[n + 1].func = NoName
  BY <1>3, <1>5
<1>9. 1 .. n + 1 = (1 .. n) \cup {n + 1}
  BY <1>6
<1>10. EachOnce(u)
  BY <1>6, <1>7, <1>8, <1>9 DEF EachOnce
<1> QED BY <1>10 DEF u

-----------------------------------------------------------------------------
\* The types of the rest.
HistoryNext ==
  /\ shadow' \in Seq(FramesFor(Table))
  /\ begin'.cpu \in Cpu
  /\ base' \in Nat
  /\ left' \in BOOLEAN /\ spoilt' \in BOOLEAN /\ tracked' \in BOOLEAN

\* What a request changes of the histories.
LEMMA Requests ==
  ASSUME HandleNext \/ HandleStepIn \/ HandleStepOut \/ HandleContinue \/ HandleInstruction
  PROVE  /\ at = "idle"
         /\ begin'.cpu = cpu /\ broke' = Nowhere
         /\ shadow' = shadow /\ base' = base /\ tracked' = tracked
         /\ left' = FALSE /\ spoilt' \in BOOLEAN
<1>1. ASSUME NEW kind, Request(kind) PROVE Dispatch(kind) /\ spoilt' \in BOOLEAN
  BY <1>1, Zenon DEF Request
<1>2. ASSUME NEW kind, NEW S, NEW exits, NEW to, RunOut(S, exits, to)
      PROVE  spoilt' \in BOOLEAN
  BY <1>2, Zenon DEF RunOut
<1>3. \E kind : Dispatch(kind) /\ spoilt' \in BOOLEAN
  <2>1. CASE HandleNext
    BY <1>1, <2>1, Zenon DEF HandleNext, HandleNextToReturn, HandleNextToLine, HandleNextLoop,
                      HandleNextLast, HandleNextInstruction, Instruction
  <2>2. CASE HandleStepIn
    BY <1>1, <2>2, Zenon DEF HandleStepIn, HandleStepInLoop, HandleStepInCall,
                      HandleStepInInstruction, Instruction
  <2>3. CASE HandleStepOut
    BY <1>1, <1>2, <2>3, Zenon DEF HandleStepOut, HandleStepOutToReturns,
                      HandleStepOutToJumps, HandleStepOutInstruction, Instruction
  <2>4. CASE HandleContinue
    BY <1>1, <2>4, Zenon DEF HandleContinue
  <2>5. CASE HandleInstruction
    BY <1>1, <2>5, Zenon DEF HandleInstruction, Instruction
  <2> QED BY <2>1, <2>2, <2>3, <2>4, <2>5
<1> QED BY <1>3 DEF Dispatch

\* What a step of a handler or of the target leaves of them.
LEMMA HistoryStays ==
  ASSUME TypeInv,
         NextMove \/ LoopEnds \/ StepInMove \/ StepInCounts \/ StepInEntered
         \/ RunExecutes \/ RunHalts \/ RunTimesOut
  PROVE  /\ begin' = begin /\ base' = base /\ tracked' = tracked /\ shadow' = shadow
         /\ at # "idle"
         /\ left \in BOOLEAN => left' \in BOOLEAN
         /\ spoilt \in BOOLEAN => spoilt' \in BOOLEAN
<1>0. go # "halted" => at # "idle"
  BY DEF TypeInv, TypeOK, Runs
<1>1. CASE NextMove \/ LoopEnds \/ StepInMove \/ StepInCounts \/ StepInEntered
  BY <1>1 DEF NextMove, LoopEnds, StepInMove, StepInCounts, StepInEntered, history
<1>2. CASE RunExecutes
  <2>1. left' \in BOOLEAN
    BY <1>2, Zenon DEF RunExecutes
  <2> QED BY <1>0, <1>2, <2>1 DEF RunExecutes
<1>3. CASE RunHalts
  BY <1>0, <1>3 DEF RunHalts, Proceed
<1>4. CASE RunTimesOut
  BY <1>0, <1>4 DEF RunTimesOut
<1> QED BY <1>1, <1>2, <1>3, <1>4

\* What a stop changes of them.
LEMMA Stops ==
  ASSUME TypeInv, HandlePause \/ WaiterSends
  PROVE  /\ at # "idle" /\ at' = "idle" /\ cpu' = cpu /\ begin' = begin
         /\ shadow' = <<Frame(cpu.pc)>>
         /\ base' = Len(cpu.calls)
         /\ tracked' = (CurFunc(cpu.pc) # NoName)
         /\ left' = left /\ spoilt' = spoilt /\ broke' = broke
<1>1. Restarted /\ at # "idle"
  BY DEF HandlePause, WaiterSends
<1>2. ShadowStackRestart(Frame(cpu.pc)) = <<Frame(cpu.pc)>>
  BY RestartedStack
<1> QED BY <1>1, <1>2 DEF Restarted

LEMMA HistoryTypes == ASSUME TypeInv, Next PROVE HistoryNext
<1>1. /\ shadow \in Seq(FramesFor(Table)) /\ base \in Nat
      /\ begin.cpu \in Cpu /\ cpu \in Cpu
      /\ cpu.pc \in DOMAIN Code /\ Len(cpu.calls) \in Nat
      /\ Frame(cpu.pc) \in FramesFor(Table)
  <2>1. cpu \in Cpu
    BY DEF TypeInv, TypeOK
  <2>2. cpu.pc \in DOMAIN Code /\ Len(cpu.calls) \in Nat
    BY <2>1 DEF Cpu
  <2> QED BY <2>1, <2>2, Instructions DEF TypeInv, TypeOK
<1>2. left \in BOOLEAN /\ spoilt \in BOOLEAN /\ tracked \in BOOLEAN
  BY Zenon DEF TypeInv, TypeOK
<1>3. CASE HandleNext \/ HandleStepIn \/ HandleStepOut \/ HandleContinue \/ HandleInstruction
  <2>1. left' \in BOOLEAN /\ spoilt' \in BOOLEAN /\ tracked' \in BOOLEAN
    BY <1>2, <1>3, Requests, Zenon
  <2> QED BY <1>1, <1>3, <2>1, Requests DEF HistoryNext
<1>4. CASE NextMove \/ LoopEnds \/ StepInMove \/ StepInCounts \/ StepInEntered
           \/ RunExecutes \/ RunHalts \/ RunTimesOut
  <2>1. left' \in BOOLEAN /\ spoilt' \in BOOLEAN /\ tracked' \in BOOLEAN
    BY <1>2, <1>4, HistoryStays, Zenon
  <2> QED BY <1>1, <1>4, <2>1, HistoryStays DEF HistoryNext
<1>5. CASE HandlePause \/ WaiterSends
  <2>1. left' \in BOOLEAN /\ spoilt' \in BOOLEAN /\ tracked' \in BOOLEAN
    BY <1>2, <1>5, Stops, Zenon
  <2>2. shadow' \in Seq(FramesFor(Table))
    BY <1>1, <1>5, Stops, RestartedStack
  <2> QED BY <1>1, <1>5, <2>1, <2>2, Stops DEF HistoryNext
<1>6. CASE StepSends
  <2>1. left' \in BOOLEAN /\ spoilt' \in BOOLEAN /\ tracked' \in BOOLEAN
    BY <1>2, <1>6, Zenon DEF StepSends
  <2>2. shadow' \in Seq(FramesFor(Table))
    BY <1>1, <1>6, UpdatedStack DEF StepSends
  <2> QED BY <1>1, <1>6, <2>1, <2>2 DEF StepSends, HistoryNext
<1> QED BY <1>3, <1>4, <1>5, <1>6 DEF Next, Handler

LEMMA TypesNext == ASSUME TypeInv, Next PROVE TargetNext
BY NextTypes, StepInTypes, StepOutTypes, MovesTypes, RunsTypes DEF Next, Handler

LEMMA TypeInit == Init => TypeInv
<1> SUFFICES ASSUME Init PROVE TypeInv
  OBVIOUS
<1>1. image \in DOMAIN Images /\ place = Place(Table)
  BY DEF Init
<1>2. IsProgram(Table)
  BY <1>1, TableIsProgram
<1>3. 0 \in DOMAIN Code
  BY <1>2 DEF IsProgram, Code
<1>4. cpu \in Cpu
  <2>1. <<>> \in Seq(DOMAIN Code)
    OBVIOUS
  <2>2. cpu = [pc |-> 0, calls |-> <<>>]
    BY DEF Init
  <2> QED BY <1>3, <2>1, <2>2 DEF Cpu
<1>5. begin.cpu \in Cpu
  BY <1>4 DEF Init
<1>6. shadow \in Seq(FramesFor(Table))
  <2>1. place \in PlacesFor(Table)
    BY <1>1, <1>2, PlaceType
  <2>2. place[0].frame \in FramesFor(Table)
    BY <1>3, <2>1 DEF PlacesFor, Code
  <2>3. shadow = ShadowStackRestart(place[0].frame)
    BY DEF Init
  <2> QED BY <2>2, <2>3, RestartedStack
<1>7. user \subseteq Table.breaks
  BY DEF Init
<1>8. /\ go \in {"halted", "off", "running"}
      /\ go = "halted" <=> at \notin Runs
      /\ until \in {NoAddr} \cup DOMAIN Code
      /\ temps \subseteq DOMAIN Code
      /\ at \in At
      /\ moves \in Nat
      /\ base \in Nat
  BY DEF Init, At, Runs
<1>9. left \in BOOLEAN /\ spoilt \in BOOLEAN /\ tracked \in BOOLEAN
  BY Zenon DEF Init
<1> QED BY <1>1, <1>4, <1>5, <1>6, <1>7, <1>8, <1>9 DEF TypeInv, TypeOK

LEMMA TypeStep == TypeInv /\ [Next]_vars => TypeInv'
<1> SUFFICES ASSUME TypeInv, [Next]_vars PROVE TypeInv'
  OBVIOUS
<1>1. Table' = Table /\ Code' = Code /\ Cpu' = Cpu /\ place' = place /\ user' = user /\ image' = image
  BY ProgramStays DEF Table, Code, Cpu
<1>2. image \in DOMAIN Images /\ place = Place(Table) /\ user \subseteq Table.breaks
  BY DEF TypeInv, TypeOK
<1>3. CASE Next
  <2>1. TargetNext /\ HistoryNext
    BY <1>3, TypesNext, HistoryTypes
  <2>2. left' \in BOOLEAN /\ spoilt' \in BOOLEAN /\ tracked' \in BOOLEAN
    BY <2>1, Zenon DEF HistoryNext
  <2>3. TypeOK'
    BY <1>1, <1>2, <2>1, <2>2 DEF TypeOK, TargetNext, HistoryNext
  <2> QED BY <1>1, <1>2, <2>3 DEF TypeInv
<1>4. CASE UNCHANGED vars
  <2>1. UNCHANGED <<target, at, moves, shadow, history>>
    BY <1>4 DEF vars
  <2>2. left' \in BOOLEAN /\ spoilt' \in BOOLEAN /\ tracked' \in BOOLEAN
    BY <2>1, Zenon DEF history, TypeInv, TypeOK
  <2>3. TypeOK'
    BY <1>1, <2>1, <2>2 DEF target, history, TypeInv, TypeOK
  <2> QED BY <1>1, <1>2, <2>3 DEF TypeInv
<1> QED BY <1>3, <1>4

\* Types hold: the target stays in the program, whichever way it goes, the
\* shadow stack holds frames of the program, and a run goes on while a handler
\* waits for one and then only.
THEOREM TypeCorrect == Spec => []TypeOK
<1>1. Spec => []TypeInv
  BY TypeInit, TypeStep, PTL DEF Spec
<1>2. TypeInv => TypeOK
  BY DEF TypeInv
<1> QED BY <1>1, <1>2, PTL

-----------------------------------------------------------------------------
\* A user breakpoint ends a step.

\* Once a user breakpoint has halted a run, the handler moves no more, but for the
\* RET it ran to; or it goes on from the line it began on, over a call.
BreakInv ==
  broke # Nowhere =>
    \/ brokeIn = "runCall" /\ OnStartLine(broke.pc)
    \/ /\ at \in {"done", "waiter", "idle"}
       /\ \/ cpu = broke
          \/ brokeIn \in {"runReturn", "runOut"} /\ cpu \in Executed(broke)

LEMMA BreakInit == Init => BreakInv
BY DEF Init, BreakInv

LEMMA BreakStep == TypeInv /\ BreakInv /\ [Next]_vars => BreakInv'
<1> SUFFICES ASSUME TypeInv, BreakInv, [Next]_vars PROVE BreakInv'
  OBVIOUS
<1>1. place' = place /\ Code' = Code
  BY ProgramStays DEF Code, Table
<1>2. \A c : Executed(c)' = Executed(c)
  BY <1>1 DEF Executed
<1>3. ASSUME begin' = begin PROVE \A pc : OnStartLine(pc)' <=> OnStartLine(pc)
  BY <1>1, <1>3 DEF OnStartLine, Here, Frame
<1>4. CASE HandleNext \/ HandleStepIn \/ HandleStepOut \/ HandleContinue \/ HandleInstruction
  BY <1>4, Requests DEF BreakInv
<1>5. CASE NextMove \/ StepInMove \/ StepInCounts \/ StepInEntered
  <2>1. /\ at \notin {"done", "waiter", "idle"}
        /\ broke' = broke /\ brokeIn' = brokeIn /\ begin' = begin
    BY <1>5 DEF NextMove, StepInMove, StepInCounts, StepInEntered, history
  <2> QED BY <1>3, <2>1 DEF BreakInv
<1>6. CASE LoopEnds
  <2>1. /\ at \notin {"done", "waiter", "idle"}
        /\ broke' = broke /\ brokeIn' = brokeIn /\ begin' = begin
    BY <1>6 DEF LoopEnds, history
  <2> QED BY <1>3, <2>1 DEF BreakInv
<1>7. CASE RunExecutes \/ RunTimesOut \/ HandlePause
  <2>1. at \notin {"done", "waiter", "idle"}
    BY <1>7 DEF RunExecutes, RunTimesOut, HandlePause, TypeInv, TypeOK, Runs
  <2>2. broke' = broke /\ brokeIn' = brokeIn /\ begin' = begin
    BY <1>7 DEF RunExecutes, RunTimesOut, HandlePause, Restarted
  <2> QED BY <1>3, <2>1, <2>2 DEF BreakInv
<1>8. CASE RunHalts
  <2>1. at \in Runs
    BY <1>8 DEF RunHalts, TypeInv, TypeOK
  <2>2. /\ begin' = begin
        /\ \/ broke' = broke /\ brokeIn' = brokeIn
           \/ broke' = cpu /\ brokeIn' = at
    BY <1>8 DEF RunHalts
  <2>3. CASE broke' = broke /\ brokeIn' = brokeIn
    <3>1. at \notin {"done", "waiter", "idle"}
      BY <2>1 DEF Runs
    <3> QED BY <1>3, <2>2, <2>3, <3>1 DEF BreakInv
  <2>4. CASE broke' = cpu /\ brokeIn' = at
    <3> SUFFICES ASSUME ~ (at = "runCall" /\ OnStartLine(cpu.pc))
                 PROVE  /\ at' \in {"done", "waiter", "idle"}
                        /\ \/ cpu' = cpu
                           \/ at \in {"runReturn", "runOut"} /\ cpu' \in Executed(cpu)
      BY <1>2, <1>3, <2>2, <2>4 DEF BreakInv
    <3> QED BY <1>8, <2>1 DEF RunHalts, Proceed, Runs
  <2> QED BY <2>2, <2>3, <2>4
<1>9. CASE WaiterSends \/ StepSends
  <2>1. /\ at \in {"done", "waiter"} /\ at' = "idle" /\ cpu' = cpu
        /\ broke' = broke /\ brokeIn' = brokeIn /\ begin' = begin
    BY <1>9 DEF WaiterSends, StepSends, Restarted, target
  <2> QED BY <1>2, <1>3, <2>1 DEF BreakInv
<1>10. CASE UNCHANGED vars
  <2>1. /\ at' = at /\ cpu' = cpu
        /\ broke' = broke /\ brokeIn' = brokeIn /\ begin' = begin
    BY <1>10 DEF vars, target, history
  <2> QED BY <1>2, <1>3, <2>1 DEF BreakInv
<1> QED BY <1>4, <1>5, <1>6, <1>7, <1>8, <1>9, <1>10 DEF Next, Handler

\* A user breakpoint that halts a run of a step ends the step there; but one
\* instruction on where the run was to a RET, and not yet where a step over meets it
\* on the line it began on (RunHalts, Proceed).
THEOREM BreakpointEnds == Spec => []BreakpointEndsStep
<1>1. Spec => [](TypeInv /\ BreakInv)
  <2>1. Init => TypeInv /\ BreakInv
    BY TypeInit, BreakInit
  <2>2. TypeInv /\ BreakInv /\ [Next]_vars => (TypeInv /\ BreakInv)'
    BY TypeStep, BreakStep
  <2> QED BY <2>1, <2>2, PTL DEF Spec
<1>2. BreakInv => BreakpointEndsStep
  BY DEF BreakInv, BreakpointEndsStep
<1> QED BY <1>1, <1>2, PTL

-----------------------------------------------------------------------------
\* What the shadow stack shows.

FunctionsShown(s) == [i \in DOMAIN s |-> s[i].func]

\* An update shows the functions active at a stop if the stack showed those of
\* a stop that is the same, one call out or one call in.
LEMMA UpdateShows ==
  ASSUME NEW T, NEW s \in Seq(T), NEW frame \in T, s # <<>>, frame.func # NoName,
         NEW N, NEW old \in Seq(N), NEW new \in Seq(N),
         IsInjective(old), IsInjective(new),
         FunctionsShown(s) = old,
         new # <<>>, new[Len(new)] = frame.func,
         new = old \/ old = Front(new) \/ new = Front(old)
  PROVE  FunctionsShown(ShadowStackUpdate(s, frame)) = new
<1> DEFINE u   == ShadowStackUpdate(s, frame)
           own == FramesOf(s, frame.func)
           k   == Len(s)
<1>1. u \in Seq(T) /\ \E n \in 0 .. Len(s) : PutAt(u, s, frame, n)
  BY UpdatedStack
<1> HIDE DEF u
<1>2. PICK n \in 0 .. Len(s) : PutAt(u, s, frame, n)
  BY <1>1
<1>3. DOMAIN s = 1 .. k /\ k \in Nat \ {0}
  BY EmptySeq
<1>4. DOMAIN old = 1 .. k /\ Len(old) = k /\ \A i \in 1 .. k : old[i] = s[i].func
  <2>1. DOMAIN old = DOMAIN s /\ \A i \in DOMAIN s : old[i] = s[i].func
    BY DEF FunctionsShown
  <2>2. DOMAIN old = 1 .. Len(old) /\ Len(old) \in Nat
    OBVIOUS
  <2> HIDE DEF k
  <2> QED BY <1>3, <2>1, <2>2
<1>5. own = {i \in 1 .. k : old[i] = frame.func}
  BY <1>3, <1>4 DEF FramesOf
<1> HIDE DEF k, own
<1>6. /\ \A i, j \in 1 .. k : old[i] = old[j] => i = j
      /\ \A i, j \in 1 .. Len(new) : new[i] = new[j] => i = j
      /\ DOMAIN new = 1 .. Len(new) /\ Len(new) \in Nat \ {0}
  <2>1. DOMAIN new = 1 .. Len(new) /\ Len(new) \in Nat \ {0}
    BY EmptySeq
  <2> QED BY <1>4, <2>1 DEF IsInjective
<1>7. /\ Len(u) = n + 1 /\ u[n + 1] = frame /\ n \in 0 .. k
      /\ \A i \in 1 .. n : u[i] = s[i]
      /\ own = {} => n = k
      /\ own # {} => n + 1 \in own /\ \A i \in own : i <= n + 1
  BY <1>2 DEF PutAt, own, k
<1>8. Len(new) = n + 1 /\ \A i \in 1 .. n : new[i] = s[i].func
  <2>1. CASE new = old
    <3>1. k \in own
      BY <1>3, <1>4, <1>5, <2>1
    <3>2. n + 1 = k
      BY <1>3, <1>5, <1>7, <3>1
    <3> QED BY <1>3, <1>4, <2>1, <3>2
  <2>2. CASE old = Front(new)
    <3>1. Len(new) = k + 1 /\ \A i \in 1 .. k : old[i] = new[i]
      <4>1. Len(Front(new)) = Len(new) - 1 /\ \A i \in 1 .. Len(new) - 1 : Front(new)[i] = new[i]
        BY FrontProperties
      <4>2. Len(new) - 1 = k
        BY <1>4, <2>2, <4>1
      <4>3. Len(new) = k + 1
        BY <1>6, <4>2
      <4> QED BY <2>2, <4>1, <4>2, <4>3
    <3>2. own = {}
      <4> SUFFICES ASSUME NEW i \in own PROVE FALSE
        OBVIOUS
      <4>1. i \in 1 .. k /\ new[i] = new[k + 1]
        BY <1>5, <3>1
      <4> QED BY <1>3, <1>6, <3>1, <4>1
    <3> QED BY <1>3, <1>4, <1>7, <3>1, <3>2
  <2>3. CASE new = Front(old)
    <3>1. old # <<>>
      BY <1>3, <1>4
    <3>2. Len(new) = k - 1 /\ \A i \in 1 .. k - 1 : new[i] = old[i]
      BY <1>4, <2>3, <3>1, FrontProperties
    <3>3. k - 1 \in 1 .. k /\ k \in 1 .. k /\ k - 1 # k
      BY <1>3, <1>6, <3>2
    <3>4. k - 1 \in own /\ k \notin own
      BY <1>5, <1>6, <3>2, <3>3
    <3>5. n + 1 = k - 1
      BY <1>3, <1>5, <1>7, <3>4
    <3> QED BY <1>3, <1>4, <3>2, <3>5
  <2> QED BY <2>1, <2>2, <2>3
<1>9. DOMAIN u = 1 .. n + 1 /\ n \in Nat
  <2>1. DOMAIN u = 1 .. Len(u) /\ n \in Nat
    BY <1>1, <1>3, <1>7
  <2> QED BY <1>7, <2>1
<1>10. ASSUME NEW i \in 1 .. n + 1 PROVE u[i].func = new[i]
  BY <1>7, <1>8, <1>9
<1>11. new = [i \in 1 .. n + 1 |-> new[i]]
  BY <1>6, <1>8
<1>12. FunctionsShown(u) = [i \in 1 .. n + 1 |-> u[i].func]
  BY <1>9 DEF FunctionsShown
<1>13. FunctionsShown(u) = new
  BY <1>10, <1>11, <1>12
<1> QED BY <1>13 DEF u

LEMMA TracedShape ==
  ASSUME TypeInv, NEW c \in Cpu, Len(c.calls) >= base
  PROVE  /\ Traced(c) \in Seq(Names(Table)) /\ Traced(c) # <<>>
         /\ Len(Traced(c)) = Len(c.calls) + 1 - base
         /\ Traced(c)[Len(Traced(c))] = CurFunc(c.pc)
<1> DEFINE n == Len(c.calls) + 1
           a == ActiveFunctions(c)
<1>1. c.pc \in DOMAIN Code /\ c.calls \in Seq(DOMAIN Code) /\ Len(c.calls) \in Nat
      /\ \A i \in 1 .. Len(c.calls) : c.calls[i] \in DOMAIN Code
  BY DEF Cpu
<1>2. ASSUME NEW pc \in DOMAIN Code PROVE CurFunc(pc) \in Names(Table)
  BY Instructions DEF CurFunc, FramesFor
<1>3. n \in Nat \ {0} /\ base \in Nat /\ base + 1 \in 1 .. n
  BY <1>1 DEF TypeInv, TypeOK
<1>4. a \in [1 .. n -> Names(Table)] /\ a[n] = CurFunc(c.pc)
  <2>1. ASSUME NEW i \in 1 .. n
        PROVE  CurFunc(IF i <= Len(c.calls) THEN c.calls[i] ELSE c.pc) \in Names(Table)
    <3>1. (IF i <= Len(c.calls) THEN c.calls[i] ELSE c.pc) \in DOMAIN Code
      BY <1>1
    <3> QED BY <1>2, <3>1
  <2>2. ~ (n <= Len(c.calls)) /\ n \in 1 .. n
    BY <1>1
  <2>3. a = [i \in 1 .. n |-> CurFunc(IF i <= Len(c.calls) THEN c.calls[i] ELSE c.pc)]
    BY DEF ActiveFunctions
  <2> HIDE DEF n
  <2> QED BY <2>1, <2>2, <2>3
<1>5. Traced(c) = SubSeq(a, base + 1, n)
  BY DEF Traced
<1> HIDE DEF a, n
<1>6. a \in Seq(Names(Table)) /\ \A i \in base + 1 .. n : a[i] \in Names(Table)
  BY <1>3, <1>4
<1>7. /\ SubSeq(a, base + 1, n) \in Seq(Names(Table))
      /\ Len(SubSeq(a, base + 1, n)) = IF base + 1 <= n THEN n - (base + 1) + 1 ELSE 0
      /\ \A i \in 1 .. n - (base + 1) + 1 : SubSeq(a, base + 1, n)[i] = a[base + 1 + i - 1]
  BY <1>3, <1>6, SubSeqProperties
<1>8. Len(Traced(c)) = n - base /\ n - base \in Nat \ {0}
  BY <1>3, <1>5, <1>7
<1>9. Traced(c)[n - base] = a[n]
  BY <1>3, <1>5, <1>7, <1>8
<1>10. Traced(c) # <<>>
  BY <1>8
<1>11. Traced(c) \in Seq(Names(Table)) /\ Traced(c)[Len(Traced(c))] = CurFunc(c.pc)
  BY <1>4, <1>5, <1>7, <1>8, <1>9
<1>12. Len(Traced(c)) = Len(c.calls) + 1 - base
  BY <1>1, <1>3, <1>8 DEF n
<1> QED BY <1>10, <1>11, <1>12

\* The stack at the last stop, c: the target's, or the one the request under
\* way found.
LastStop == IF at = "idle" THEN cpu ELSE begin.cpu

ShowsActive(s, c) ==
  /\ Len(c.calls) >= base
  /\ IsInjective(Traced(c))
  /\ FunctionsShown(s) = Traced(c)

StackInv ==
  /\ shadow # <<>> /\ Last(shadow) = Frame(LastStop.pc)
  /\ EachOnce(shadow)
  /\ tracked => ShowsActive(shadow, LastStop)

\* A stack restarted at a stop shows the function of the PC.
LEMMA RestartShows ==
  ASSUME TypeInv, NEW c \in Cpu, base = Len(c.calls)
  PROVE  ShowsActive(<<Frame(c.pc)>>, c)
<1> DEFINE s == <<Frame(c.pc)>>
           f == Traced(c)
<1>1. Len(c.calls) \in Nat
  BY DEF Cpu
<1>2. f \in Seq(Names(Table)) /\ Len(f) = Len(c.calls) + 1 - base /\ f[Len(f)] = CurFunc(c.pc)
  <2>1. Len(c.calls) >= base
    BY <1>1
  <2> QED BY <2>1, TracedShape
<1> HIDE DEF f
<1>3. Len(f) = 1 /\ f[1] = CurFunc(c.pc)
  BY <1>1, <1>2
<1>4. DOMAIN f = {1} /\ f = [i \in {1} |-> f[i]]
  BY <1>2, <1>3
<1>5. DOMAIN s = {1} /\ s[1].func = CurFunc(c.pc)
  BY DEF CurFunc
<1> HIDE DEF s
<1>6. FunctionsShown(s) = [i \in {1} |-> s[i].func]
  BY <1>5 DEF FunctionsShown
<1>7. FunctionsShown(s) = f
  BY <1>3, <1>4, <1>5, <1>6
<1>8. IsInjective(f)
  BY <1>4 DEF IsInjective
<1> QED BY <1>1, <1>7, <1>8 DEF ShowsActive, f, s

LEMMA RestartShowsNow ==
  \A c : TypeInv /\ c \in Cpu /\ base = Len(c.calls) => ShowsActive(<<Frame(c.pc)>>, c)
BY RestartShows

LEMMA RestartShowsNext ==
  (\A c : TypeInv /\ c \in Cpu /\ base = Len(c.calls) => ShowsActive(<<Frame(c.pc)>>, c))'
BY RestartShowsNow, PTL

\* Only a stop ends a step.
LEMMA GoesOn ==
  ASSUME TypeInv,
         HandleNext \/ HandleStepIn \/ HandleStepOut \/ HandleContinue \/ HandleInstruction
         \/ NextMove \/ LoopEnds \/ StepInMove \/ StepInCounts \/ StepInEntered
         \/ RunExecutes \/ RunHalts \/ RunTimesOut
  PROVE  at' # "idle"
<1>1. CASE HandleNext
  BY <1>1 DEF HandleNext, HandleNextToReturn, HandleNextToLine, HandleNextLoop,
              HandleNextLast, HandleNextInstruction, Instruction, RunTo, Run
<1>2. CASE HandleStepIn
  BY <1>2 DEF HandleStepIn, HandleStepInLoop, HandleStepInCall, HandleStepInInstruction,
              Instruction
<1>3. CASE HandleStepOut
  BY <1>3 DEF HandleStepOut, HandleStepOutToReturns, HandleStepOutToJumps,
              HandleStepOutInstruction, Instruction, RunOut, RunTo, Run
<1>4. CASE HandleContinue \/ HandleInstruction
  BY <1>4 DEF HandleContinue, HandleInstruction, Instruction, Run
<1>5. CASE NextMove \/ LoopEnds \/ StepInMove \/ StepInCounts \/ StepInEntered
  BY <1>5 DEF NextMove, LoopEnds, StepInMove, StepInCounts, StepInEntered, RunTo, Run
<1>6. CASE RunExecutes \/ RunTimesOut
  BY <1>6 DEF RunExecutes, RunTimesOut, TypeInv, TypeOK, Runs
<1>7. CASE RunHalts
  <2>1. at \in Runs
    BY <1>7 DEF RunHalts, TypeInv, TypeOK
  <2> QED BY <1>7, <2>1 DEF RunHalts, Proceed, Runs
<1> QED BY <1>1, <1>2, <1>3, <1>4, <1>5, <1>6, <1>7

LEMMA StackInit == Init => StackInv
<1> SUFFICES ASSUME Init PROVE StackInv
  OBVIOUS
<1>1. TypeInv
  BY TypeInit
<1>2. cpu \in Cpu /\ cpu.pc = 0 /\ Len(cpu.calls) = 0 /\ base = 0 /\ at = "idle"
  BY <1>1 DEF Init, TypeInv, TypeOK
<1>3. shadow = <<Frame(cpu.pc)>>
  BY <1>2, RestartedStack DEF Init, Frame
<1>4. ShowsActive(<<Frame(cpu.pc)>>, cpu)
  BY <1>1, <1>2, RestartShows
<1> QED BY <1>2, <1>3, <1>4, RestartedStack DEF StackInv, LastStop

\* The end of a source-level step.
LEMMA StackSends == ASSUME TypeInv, StackInv, StepSends PROVE StackInv'
<1> DEFINE c == begin.cpu
           f == Frame(cpu.pc)
           u == ShadowStackUpdate(shadow, f)
<1>1. /\ at # "idle" /\ at' = "idle" /\ cpu' = cpu /\ base' = base /\ place' = place
      /\ shadow' = u
      /\ tracked' => tracked /\ Tellable(c, cpu)
  BY DEF StepSends, target
<1>2. shadow # <<>> /\ EachOnce(shadow) /\ (tracked => ShowsActive(shadow, c))
  BY <1>1 DEF StackInv, LastStop
<1>3. shadow \in Seq(FramesFor(Table)) /\ f \in FramesFor(Table) /\ c \in Cpu /\ cpu \in Cpu
  <2>1. cpu \in Cpu /\ cpu.pc \in DOMAIN Code
    BY DEF TypeInv, TypeOK, Cpu
  <2> QED BY <2>1, Instructions DEF TypeInv, TypeOK
<1>4. u # <<>> /\ Last(u) = f /\ EachOnce(u)
  BY <1>2, <1>3, UpdatedStack, UpdatedOnce DEF PutAt
<1>5. ASSUME tracked' PROVE ShowsActive(u, cpu)
  <2>1. ShowsActive(shadow, c) /\ Tellable(c, cpu)
    BY <1>1, <1>2, <1>5
  <2>2. /\ Len(cpu.calls) >= base /\ Len(c.calls) >= base
        /\ IsInjective(Traced(cpu)) /\ IsInjective(Traced(c))
        /\ FunctionsShown(shadow) = Traced(c)
        /\ CurFunc(cpu.pc) # NoName
        /\ \/ Traced(cpu) = Traced(c)
           \/ Traced(c) = Front(Traced(cpu))
           \/ Traced(cpu) = Front(Traced(c))
    BY <2>1 DEF ShowsActive, Tellable
  <2>3. /\ Traced(c) \in Seq(Names(Table)) /\ Traced(cpu) \in Seq(Names(Table))
        /\ Traced(cpu) # <<>> /\ Traced(cpu)[Len(Traced(cpu))] = CurFunc(cpu.pc)
    BY <1>3, <2>2, TracedShape
  <2>4. f.func = CurFunc(cpu.pc)
    BY DEF CurFunc
  <2> HIDE DEF c, f
  <2>5. FunctionsShown(u) = Traced(cpu)
    BY <1>2, <1>3, <2>2, <2>3, <2>4, UpdateShows
  <2> QED BY <2>2, <2>5 DEF ShowsActive
<1>6. LastStop' = cpu /\ Frame(LastStop.pc)' = f
  BY <1>1 DEF LastStop, Frame
<1>7. ShowsActive(u, cpu) => ShowsActive(shadow, LastStop)'
  BY <1>1, <1>6 DEF ShowsActive, Traced, ActiveFunctions, CurFunc, Frame, LastStop
<1> QED BY <1>1, <1>4, <1>5, <1>6, <1>7 DEF StackInv

LEMMA StackStep == TypeInv /\ StackInv /\ [Next]_vars => StackInv'
<1> SUFFICES ASSUME TypeInv, StackInv, [Next]_vars PROVE StackInv'
  OBVIOUS
<1>1. place' = place /\ Cpu' = Cpu /\ TypeInv'
  BY ProgramStays, TypeStep DEF Cpu, Code, Table
<1>2. ASSUME shadow' = shadow, LastStop' = LastStop, base' = base, tracked' = tracked
      PROVE  StackInv'
  <2>1. Frame(LastStop.pc)' = Frame(LastStop.pc)
    BY <1>1, <1>2 DEF Frame
  <2>2. ShowsActive(shadow, LastStop)' <=> ShowsActive(shadow, LastStop)
    BY <1>1, <1>2 DEF ShowsActive, Traced, ActiveFunctions, CurFunc, Frame
  <2> QED BY <1>2, <2>1, <2>2 DEF StackInv
<1>3. CASE HandleNext \/ HandleStepIn \/ HandleStepOut \/ HandleContinue \/ HandleInstruction
  BY <1>2, <1>3, Requests, GoesOn DEF LastStop
<1>4. CASE NextMove \/ LoopEnds \/ StepInMove \/ StepInCounts \/ StepInEntered
           \/ RunExecutes \/ RunHalts \/ RunTimesOut
  BY <1>2, <1>4, HistoryStays, GoesOn DEF LastStop
<1>5. CASE HandlePause \/ WaiterSends
  <2>1. /\ at' = "idle" /\ cpu' = cpu /\ base' = Len(cpu.calls)
        /\ shadow' = <<Frame(cpu.pc)>> /\ cpu \in Cpu
    BY <1>5, Stops DEF TypeInv, TypeOK
  <2>2. ShowsActive(<<Frame(cpu.pc)>>, cpu)'
    BY <1>1, <2>1, RestartShowsNext
  <2>3. Last(shadow') = Frame(cpu.pc) /\ EachOnce(shadow') /\ shadow' # <<>>
    BY <2>1, RestartedStack
  <2>4. LastStop' = cpu' /\ Frame(LastStop.pc)' = Frame(cpu.pc) /\ Frame(cpu.pc)' = Frame(cpu.pc)
    BY <1>1, <2>1 DEF LastStop, Frame
  <2>5. ShowsActive(shadow, LastStop)'
    BY <2>1, <2>2, <2>4
  <2> QED BY <2>3, <2>4, <2>5 DEF StackInv
<1>6. CASE StepSends
  BY <1>6, StackSends
<1>7. CASE UNCHANGED vars
  BY <1>2, <1>7 DEF vars, target, history, LastStop
<1> QED BY <1>3, <1>4, <1>5, <1>6, <1>7 DEF Next, Handler

\* The shadow stack at a stop, after whatever requests and runs: its top frame
\* is where the target stands, no function is in it twice, and it shows the
\* functions active on the target while each stop could be told from the one
\* before.
THEOREM ShadowCorrect == Spec => []ShadowAccurate
<1>1. Spec => [](TypeInv /\ StackInv)
  <2>1. Init => TypeInv /\ StackInv
    BY TypeInit, StackInit
  <2>2. TypeInv /\ StackInv /\ [Next]_vars => (TypeInv /\ StackInv)'
    BY TypeStep, StackStep
  <2> QED BY <2>1, <2>2, PTL DEF Spec
<1>2. StackInv => ShadowAccurate
  BY DEF StackInv, ShadowAccurate, LastStop, ShowsActive, FunctionsShown
<1> QED BY <1>1, <1>2, PTL

-----------------------------------------------------------------------------
\* Stack traces.

FrameAt(s, i) == [id |-> i, frame |-> s[Len(s) - i + 1]]
Numbered(s)   == {FrameAt(s, i) : i \in 1 .. Len(s)}

\* Where a page of a stack of len frames begins, and how long it is.
PageFrom(len, start) == IF start > len THEN len ELSE start
PageLen(len, from, levels) == IF from + levels < len THEN levels ELSE len - from

LEMMA FrameNumbers ==
  ASSUME NEW len \in Nat, NEW from \in 0 .. len, NEW n \in 0 .. len - from, NEW k \in 1 .. n
  PROVE  len - (from + k - 1) = len - (from + k) + 1 /\ from + k \in 1 .. len
OBVIOUS

\* What a page holds, whatever its start and its length.
LEMMA PageShape ==
  ASSUME NEW T, NEW s \in Seq(T), s # <<>>, NEW frame,
         NEW start \in Nat, NEW levels \in Nat \ {0},
         NEW from, from = PageFrom(Len(s), start),
         NEW n, n = PageLen(Len(s), from, levels)
  PROVE  /\ StackTrace(s, frame, start, levels) \in Seq(Numbered(s))
         /\ Len(StackTrace(s, frame, start, levels)) = n
         /\ \A k \in 1 .. n : StackTrace(s, frame, start, levels)[k] = FrameAt(s, from + k)
<1>1. PICK len \in Nat : len = Len(s)
  OBVIOUS
<1>2. /\ from \in 0 .. len /\ n \in 0 .. len - from
      /\ n = (IF from + levels < len THEN from + levels ELSE len) - from
      /\ \A k \in 1 .. n : len - (from + k - 1) = len - (from + k) + 1 /\ from + k \in 1 .. len
  <2>1. from \in 0 .. len
    BY <1>1 DEF PageFrom
  <2>2. n \in 0 .. len - from /\ n = (IF from + levels < len THEN from + levels ELSE len) - from
    BY <1>1, <2>1 DEF PageLen
  <2>3. ASSUME NEW k \in 1 .. n
        PROVE  len - (from + k - 1) = len - (from + k) + 1 /\ from + k \in 1 .. len
    BY <2>1, <2>2, FrameNumbers
  <2> QED BY <2>1, <2>2, <2>3
<1>3. ~ (start < 0) /\ ~ (levels <= 0) /\ (IF start > Len(s) THEN Len(s) ELSE start) = from
  BY DEF PageFrom
<1>4. PageEnd(s, from, levels) - from = n
  BY <1>1, <1>2 DEF PageEnd
<1>5. StackTrace(s, frame, start, levels)
        = [k \in 1 .. PageEnd(s, from, levels) - from |->
             [id |-> from + k, frame |-> s[Len(s) - (from + k - 1)]]]
  BY <1>3, Zenon DEF StackTrace
<1>6. ASSUME NEW k \in 1 .. n
      PROVE  /\ [id |-> from + k, frame |-> s[Len(s) - (from + k - 1)]] = FrameAt(s, from + k)
             /\ FrameAt(s, from + k) \in Numbered(s)
  BY <1>1, <1>2 DEF FrameAt, Numbered
<1> DEFINE p == [k \in 1 .. n |-> FrameAt(s, from + k)]
<1>7. StackTrace(s, frame, start, levels) = p
  BY <1>4, <1>5, <1>6
<1>8. p \in [1 .. n -> Numbered(s)] /\ \A k \in 1 .. n : p[k] = FrameAt(s, from + k)
  BY <1>6, Zenon
<1>9. n \in Nat
  BY <1>2
<1> HIDE DEF p
<1>10. p \in Seq(Numbered(s))
  BY <1>8, <1>9
<1>11. Len(p) = n
  BY <1>8, <1>9, <1>10
<1> QED BY <1>7, <1>8, <1>10, <1>11

\* A page and the one after it, which takes the rest.
LEMMA PagesFit ==
  ASSUME NEW T, NEW s \in Seq(T), NEW frame,
         NEW start \in 0 .. Len(s), NEW levels \in Nat \ {0},
         NEW i \in start + 1 .. Len(s)
  PROVE  (StackTrace(s, frame, start, levels)
            \o StackTrace(s, frame, start + levels, Len(s) + 1))[i - start] = FrameAt(s, i)
<1> DEFINE page == StackTrace(s, frame, start, levels)
           rest == StackTrace(s, frame, start + levels, Len(s) + 1)
<1>1. PICK len \in Nat : len = Len(s)
  OBVIOUS
<1>2. PICK from1 : from1 = PageFrom(len, start)
  OBVIOUS
<1>3. PICK n : n = PageLen(len, from1, levels)
  OBVIOUS
<1>4. PICK from2 : from2 = PageFrom(len, start + levels)
  OBVIOUS
<1>5. PICK m : m = PageLen(len, from2, len + 1)
  OBVIOUS
<1>6. start \in Nat /\ start <= len /\ i \in start + 1 .. len
  BY <1>1
<1>7. s # <<>>
  BY <1>1, <1>6
<1>8. /\ from1 = start
      /\ n \in Nat /\ n = IF start + levels < len THEN levels ELSE len - start
  <2>1. from1 = start
    BY <1>2, <1>6 DEF PageFrom
  <2> QED BY <1>3, <1>6, <2>1 DEF PageLen
<1>9. /\ m \in Nat
      /\ start + levels < len => from2 = start + levels /\ m = len - (start + levels)
  <2>1. from2 \in 0 .. len /\ (start + levels < len => from2 = start + levels)
    BY <1>4, <1>6 DEF PageFrom
  <2>2. m = len - from2
    BY <1>5, <2>1 DEF PageLen
  <2> QED BY <2>1, <2>2
<1>10. /\ page \in Seq(Numbered(s)) /\ Len(page) = n
       /\ \A k \in 1 .. n : page[k] = FrameAt(s, start + k)
  <2>1. start = PageFrom(Len(s), start) /\ n = PageLen(Len(s), start, levels)
    BY <1>1, <1>2, <1>3, <1>8
  <2> QED BY <1>6, <1>7, <2>1, PageShape
<1>11. /\ rest \in Seq(Numbered(s)) /\ Len(rest) = m
       /\ \A k \in 1 .. m : rest[k] = FrameAt(s, from2 + k)
  <2>1. start + levels \in Nat /\ len + 1 \in Nat \ {0}
    BY <1>6
  <2>2. from2 = PageFrom(Len(s), start + levels) /\ m = PageLen(Len(s), from2, Len(s) + 1)
    BY <1>1, <1>4, <1>5
  <2>3. start + levels \in Nat /\ Len(s) + 1 \in Nat \ {0}
    BY <1>1, <2>1
  <2> QED BY <1>7, <2>2, <2>3, PageShape
<1> HIDE DEF page, rest
<1>12. /\ \A k \in 1 .. n : (page \o rest)[k] = page[k]
       /\ \A k \in n + 1 .. n + m : (page \o rest)[k] = rest[k - n]
  <2>1. \A k \in 1 .. n + m : (page \o rest)[k] = IF k <= n THEN page[k] ELSE rest[k - n]
    <3>1. page \in Seq(Numbered(s)) /\ rest \in Seq(Numbered(s))
      BY <1>10, <1>11
    <3>2. \A k \in 1 .. Len(page) + Len(rest) :
            (page \o rest)[k] = IF k <= Len(page) THEN page[k] ELSE rest[k - Len(page)]
      BY <3>1, ConcatProperties
    <3>3. Len(page) = n /\ Len(rest) = m
      BY <1>10, <1>11
    <3> QED BY <3>2, <3>3
  <2>2. ASSUME NEW k \in 1 .. n PROVE (page \o rest)[k] = page[k]
    <3>1. k \in 1 .. n + m /\ k <= n
      BY <1>8, <1>9
    <3> QED BY <2>1, <3>1
  <2>3. ASSUME NEW k \in n + 1 .. n + m PROVE (page \o rest)[k] = rest[k - n]
    <3>1. k \in 1 .. n + m /\ ~ (k <= n)
      BY <1>8, <1>9
    <3> QED BY <2>1, <3>1
  <2> QED BY <2>2, <2>3
<1>13. CASE i - start <= n
  <2>1. i - start \in 1 .. n /\ start + (i - start) = i
    BY <1>6, <1>8, <1>13
  <2>2. (page \o rest)[i - start] = FrameAt(s, i)
    BY <1>10, <1>12, <2>1
  <2> QED BY <2>2 DEF page, rest
<1>14. CASE ~ (i - start <= n)
  <2>1. start + levels < len /\ n = levels
    BY <1>6, <1>8, <1>14
  <2>2. i - start - n \in 1 .. m /\ i - start \in n + 1 .. n + m
    BY <1>6, <1>8, <1>9, <1>14, <2>1
  <2>3. from2 + (i - start - n) = i
    BY <1>6, <1>9, <2>1
  <2>4. (page \o rest)[i - start] = FrameAt(s, i)
    BY <1>11, <1>12, <2>2, <2>3
  <2> QED BY <2>4 DEF page, rest
<1> QED BY <1>13, <1>14

\* Pages of a stack trace fit together: page after page gives the frames from
\* the top, in order, each once, with its number.
THEOREM PagesCorrect == Spec => []TracePages
<1>1. TypeInv => TracePages
  <2> SUFFICES ASSUME TypeInv, NEW start \in 0 .. Len(shadow), NEW levels \in 1 .. 3,
                      NEW i \in start + 1 .. Len(shadow)
               PROVE  (StackTrace(shadow, Frame(cpu.pc), start, levels)
                        \o StackTrace(shadow, Frame(cpu.pc), start + levels, Len(shadow) + 1))[i - start]
                        = FrameAt(shadow, i)
    BY DEF TracePages, FrameAt
  <2>1. shadow \in Seq(FramesFor(Table)) /\ levels \in Nat \ {0}
    BY DEF TypeInv, TypeOK
  <2> QED BY <2>1, PagesFit
<1>2. Spec => []TypeInv
  BY TypeInit, TypeStep, PTL DEF Spec
<1> QED BY <1>1, <1>2, PTL
=============================================================================
