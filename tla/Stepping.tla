------------------------------ MODULE Stepping ------------------------------
(***************************************************************************)
(* Source-level stepping (HandleNext, HandleStepIn and HandleStepOut of    *)
(* dap_server.cpp) over the symbol table and the shadow call stack, against*)
(* a target that executes code: where a step ends, and what the stack      *)
(* trace shows then.                                                       *)
(*                                                                         *)
(* A handler runs on the reader thread.  AG_NSTEP returns when the         *)
(* instructions are executed; a run (AG_GOTILADR, AG_GOFORBRK) is waited   *)
(* for, and ends at its address, at a breakpoint, or by a timeout and a    *)
(* stop.  Who runs it, and the races around it, are the subject of module  *)
(* RunControl; here g_registers.PC() is the PC of the halted target.       *)
(***************************************************************************)
EXTENDS ShadowStack, SequencesExt

CONSTANTS
  Images,      \* programs: a function to tables and code, as module SymTab has them,
               \* and the addresses where a user breakpoint may be (breaks)
  MaxDepth,    \* bound: calls on the target's stack; a deeper one returns at once
  MaxFrames,   \* bound: frames of the shadow stack at which the client only continues
  NextMoves,   \* 50: moves of one step over
  InMoves,     \* 20: instructions of one step in that finds no call
  NextScan,    \* 1024: bytes a step over at a function's end scans
  InScan,      \* 64: bytes a step in scans for a call
  OutScan,     \* 8192: bytes a step out scans
  FunctionCap, \* 4096: length of a function that no symbol follows
  MaxLine      \* 2^31 - 1: the largest line number, an int

Word      == 1073741824 \* 2^30 for 2^32, the width of uint32_t (TLC's integers have 32 bits)
CodeSpace == 65536      \* bytes of code an 8051 addresses

ASSUME SteppingAssumption ==
  /\ {MaxDepth, MaxFrames} \subseteq Nat \ {0}
  /\ {NextMoves, InMoves, NextScan, InScan, OutScan, FunctionCap, MaxLine} \subseteq Nat \ {0}
  /\ FunctionCap <= CodeSpace

\* Where an instruction may go on, calls and returns apart.
Follows(code, a) ==
  CASE code[a].op = "plain" -> {a + code[a].len}
    [] code[a].op \in {"branch", "call"} -> {a + code[a].len, code[a].to}
    [] code[a].op \in {"goto", "jump"} -> {code[a].to}
    [] code[a].op = "ret" -> {}

\* A program is closed: what an instruction goes on to is an instruction, and
\* lines and user breakpoints are at instructions.  No two of these overlap.
IsProgram(t) ==
  /\ t.symbols \in [DOMAIN t.symbols -> STRING]
  /\ DOMAIN t.symbols \subseteq 0 .. CodeSpace - 1
  /\ t.lines \subseteq [addr : DOMAIN t.code, file : STRING, line : 1 .. MaxLine]
  /\ t.breaks \subseteq DOMAIN t.code
  /\ 0 \in DOMAIN t.code
  /\ DOMAIN t.code \subseteq 0 .. CodeSpace - 1
  /\ t.code \in [DOMAIN t.code ->
                  [op : {"plain", "branch", "goto", "jump", "call", "ret"}, len : Nat \ {0}, to : Nat]]
  /\ \A a \in DOMAIN t.code : Follows(t.code, a) \subseteq DOMAIN t.code
  /\ \A a, b \in DOMAIN t.code : a < b => a + t.code[a].len <= b

ASSUME ImagesAssumption == \A i \in DOMAIN Images : IsProgram(Images[i])

VARIABLES
  image,    \* the program: g_symtab and the code memory, from the launch on
  place,    \* what g_symtab says of each instruction's address
  user,     \* the user breakpoints that are armed
  cpu,      \* the target (external): its pc, and the return addresses on its stack
  go,       \* "halted"; "off" before the first instruction of a run; "running"
  until,    \* the address of AG_GOTILADR
  temps,    \* the temporary breakpoints of a step out
  at,       \* where the reader thread is
  moves,    \* safety, or the instructions AG_NSTEP has left
  shadow,   \* g_shadowStack
  begin,    \* the last request, and the target it found (history)
  broke,    \* the target at the user breakpoint that halted a run of the step (history)
  brokeIn,  \* what that run was for (history)
  left,     \* a run went on after the function of the request had returned (history)
  spoilt,   \* a timeout, or an exit without its breakpoint, spoilt the step (history)
  base,     \* depth of the target's stack at the last ShadowStackReset (history)
  tracked   \* every stop since could be told from the one before (history)

target  == <<cpu, go, until, temps>>
history == <<begin, broke, brokeIn, left, spoilt, base, tracked>>
vars    == <<image, place, user, target, at, moves, shadow, history>>

Runs == {"run", "runReturn", "runLine", "runCall", "runPrologue", "runOut", "runTail"}
At   == Runs \cup {"idle", "loop", "in", "count", "entered", "done", "waiter"}

Table == Images[image]
Code  == Table.code

Place(t) ==
  [pc \in DOMAIN t.code |-> [frame |-> ShadowFrame(t, pc), next |-> NextLineAddr(t, pc)]]

Nowhere == [pc |-> NoAddr, calls |-> <<>>]

Init ==
  /\ image \in DOMAIN Images
  /\ place = Place(Table)
  /\ user \in {{}} \cup {{a} : a \in Table.breaks}
  /\ cpu = [pc |-> 0, calls |-> <<>>]
  /\ go = "halted"
  /\ until = NoAddr
  /\ temps = {}
  /\ at = "idle"
  /\ moves = 0
  /\ shadow = ShadowStackRestart(place[0].frame)
  /\ begin = [kind |-> "launch", cpu |-> cpu]
  /\ broke = Nowhere
  /\ brokeIn = "idle"
  /\ left = FALSE
  /\ spoilt = FALSE
  /\ base = 0
  /\ tracked = TRUE

-----------------------------------------------------------------------------
\* The target.  A conditional branch goes either way; a RET too many takes
\* whatever it finds for its address.
Op(addr) == Code[addr].op

Executed(c) ==
  LET i     == Code[c.pc]
      after == c.pc + i.len
  IN  CASE i.op = "plain"  -> {[c EXCEPT !.pc = after]}
        [] i.op = "branch" -> {[c EXCEPT !.pc = after], [c EXCEPT !.pc = i.to]}
        [] i.op \in {"goto", "jump"} -> {[c EXCEPT !.pc = i.to]}
        [] i.op = "call" ->
             IF Len(c.calls) = MaxDepth THEN {[c EXCEPT !.pc = after]}
             ELSE {[pc |-> i.to, calls |-> Append(c.calls, after)]}
        [] i.op = "ret" ->
             IF c.calls = <<>> THEN {[c EXCEPT !.pc = a] : a \in DOMAIN Code}
             ELSE {[pc |-> Last(c.calls), calls |-> Front(c.calls)]}

\* GoStep(AG_NSTEP, 1).
StepInstruction ==
  /\ cpu' \in Executed(cpu)
  /\ UNCHANGED <<go, until, temps>>

\* A run: RequestRunToAddr(addr), or RequestRun over the breakpoints bps.
Run(addr, bps, to) ==
  /\ go' = "off"
  /\ until' = addr
  /\ temps' = bps
  /\ at' = to
  /\ UNCHANGED cpu

RunTo(addr, to) == Run(addr, {}, to)

\* A run halts at the address it was given even if it starts there, as the
\* handlers expect of a RET under the PC; it leaves a breakpoint under the PC,
\* as a continue from a breakpoint needs.
Arrived ==
  \/ cpu.pc = until
  \/ go = "running" /\ cpu.pc \in user \cup temps

RunExecutes ==
  /\ go # "halted"
  /\ ~ Arrived
  /\ go' = "running"
  /\ cpu' \in Executed(cpu)
  /\ left' = (left \/ Len(cpu.calls) < Len(begin.cpu.calls))
  /\ UNCHANGED <<image, place, user, until, temps, at, moves, shadow, begin, broke,
                 brokeIn, spoilt, base, tracked>>

-----------------------------------------------------------------------------
\* What the handlers read from the tables.
Frame(pc)    == place[pc].frame
Here(pc)     == Frame(pc).loc
NextLine(pc) == place[pc].next
CurFunc(pc)  == Frame(pc).func

OnStartLine(pc) == Here(pc) # NoLoc /\ Here(pc) = Here(begin.cpu.pc)

\* The handlers step by source lines where there is a line and a next one.
BetweenLines(pc) == Here(pc) # NoLoc /\ NextLine(pc) # NoAddr

\* The end of a function: the next line belongs to another one.
LeavesFunction(pc) == CurFunc(pc) # NoName /\ CurFunc(pc) # CurFunc(NextLine(pc))

\* The instructions a scan by instruction lengths meets.
Sweep(from, len) == {a \in DOMAIN Code : from <= a /\ a < from + len}
Among(addrs, op) == {a \in addrs : Op(a) = op}
AtMostBytes(n, cap) == IF n > cap THEN cap ELSE n

Dispatch(kind) ==
  /\ at = "idle"
  /\ kind = "continue" \/ Len(shadow) < MaxFrames
  /\ begin' = [kind |-> kind, cpu |-> cpu]
  /\ broke' = Nowhere
  /\ brokeIn' = "idle"
  /\ left' = FALSE
  /\ UNCHANGED <<image, place, user, shadow, base, tracked>>

Request(kind) == Dispatch(kind) /\ spoilt' = FALSE

\* GoStep(AG_NSTEP, 1), and a waiter sends the event.
Instruction(kind) ==
  /\ Request(kind)
  /\ StepInstruction
  /\ at' = "waiter"
  /\ UNCHANGED moves

\* next, stepIn and stepOut with the granularity "instruction", wherever the
\* target is.
HandleInstruction == Instruction("instruction")

-----------------------------------------------------------------------------
\* HandleNext.
NextReturns(pc) == Among(Sweep(pc, AtMostBytes(NextLine(pc) - pc, NextScan)), "ret")

\* At a function's end: run to the first RET.
HandleNextToReturn ==
  /\ Request("next")
  /\ BetweenLines(cpu.pc) /\ LeavesFunction(cpu.pc)
  /\ NextReturns(cpu.pc) # {}
  /\ RunTo(Min(NextReturns(cpu.pc)), "runReturn")
  /\ UNCHANGED moves

\* No RET: run to the next line.
HandleNextToLine ==
  /\ Request("next")
  /\ BetweenLines(cpu.pc) /\ LeavesFunction(cpu.pc)
  /\ NextReturns(cpu.pc) = {}
  /\ RunTo(NextLine(cpu.pc), "runLine")
  /\ UNCHANGED moves

\* Within the function: move until the line changes, 50 times at most.
HandleNextLoop ==
  /\ Request("next")
  /\ BetweenLines(cpu.pc) /\ ~ LeavesFunction(cpu.pc)
  /\ at' = "loop"
  /\ moves' = NextMoves
  /\ UNCHANGED target

BugNextStepsInto ==
  /\ at = "loop"
  /\ moves > 0
  /\ moves' = moves - 1
  /\ StepInstruction
  /\ at' = IF OnStartLine(cpu'.pc) THEN "loop" ELSE "done"
  /\ UNCHANGED <<image, place, user, shadow, history>>

BugUnderflow ==
  /\ at = "loop"
  /\ moves' = moves - 1
  /\ IF Op(cpu.pc) = "call"
     THEN RunTo(cpu.pc + Code[cpu.pc].len, "runCall")
     ELSE StepInstruction /\ at' = IF OnStartLine(cpu'.pc) THEN "loop" ELSE "done"
  /\ UNCHANGED <<image, place, user, shadow, history>>

BugNextUnlimited ==
  /\ at = "loop"
  /\ moves' = moves
  /\ IF Op(cpu.pc) = "call"
     THEN RunTo(cpu.pc + Code[cpu.pc].len, "runCall")
     ELSE StepInstruction /\ at' = IF OnStartLine(cpu'.pc) THEN "loop" ELSE "done"
  /\ UNCHANGED <<image, place, user, shadow, history>>

\* A move: over a call by a run to the address after it, else one instruction.
NextMove ==
  /\ at = "loop"
  /\ moves > 0
  /\ moves' = moves - 1
  /\ IF Op(cpu.pc) = "call"
     THEN RunTo(cpu.pc + Code[cpu.pc].len, "runCall")
     ELSE StepInstruction /\ at' = IF OnStartLine(cpu'.pc) THEN "loop" ELSE "done"
  /\ UNCHANGED <<image, place, user, shadow, history>>

\* safety has run out, in the loop of next or of stepIn.
LoopEnds ==
  /\ at \in {"loop", "in"}
  /\ moves = 0
  /\ at' = "done"
  /\ UNCHANGED <<image, place, user, target, moves, shadow, history>>

\* The last line of the table: one instruction, whatever it is.
HandleNextLast ==
  /\ Request("next")
  /\ Here(cpu.pc) # NoLoc /\ NextLine(cpu.pc) = NoAddr
  /\ StepInstruction
  /\ at' = "done"
  /\ UNCHANGED moves

\* No source line.
HandleNextInstruction ==
  Instruction("next") /\ Here(cpu.pc) = NoLoc

-----------------------------------------------------------------------------
\* HandleStepIn.  The scan stops at the first call before the next line.
InSweep(pc) == Sweep(pc, AtMostBytes(NextLine(pc) - pc, InScan))
InCalls(pc) == Among(InSweep(pc), "call")

\* No call: as next, but instruction by instruction, 20 at most.
HandleStepInLoop ==
  /\ Request("stepIn")
  /\ BetweenLines(cpu.pc)
  /\ InCalls(cpu.pc) = {}
  /\ at' = "in"
  /\ moves' = InMoves
  /\ UNCHANGED target

StepInMove ==
  /\ at = "in"
  /\ moves > 0
  /\ moves' = moves - 1
  /\ StepInstruction
  /\ at' = IF OnStartLine(cpu'.pc) THEN "in" ELSE "done"
  /\ UNCHANGED <<image, place, user, shadow, history>>

BugCountFromCall ==
  LET n == Cardinality(AtMost(InSweep(cpu.pc), Min(InCalls(cpu.pc)))) - 1
  IN  /\ Request("stepIn")
      /\ BetweenLines(cpu.pc)
      /\ InCalls(cpu.pc) # {}
      /\ at' = IF n = 0 THEN "entered" ELSE "count"
      /\ moves' = n
      /\ UNCHANGED target

\* A call: AG_NSTEP by the number of instructions that lie before it, and once
\* more to enter.  Executed instructions are counted, not those laid out.
HandleStepInCall ==
  /\ Request("stepIn")
  /\ BetweenLines(cpu.pc)
  /\ InCalls(cpu.pc) # {}
  /\ at' = "count"
  /\ moves' = Cardinality(AtMost(InSweep(cpu.pc), Min(InCalls(cpu.pc))))
  /\ UNCHANGED target

StepInCounts ==
  /\ at = "count"
  /\ moves > 0
  /\ moves' = moves - 1
  /\ StepInstruction
  /\ at' = IF moves' = 0 THEN "entered" ELSE "count"
  /\ UNCHANGED <<image, place, user, shadow, history>>

\* The first address of a function may have no line, or the line the step
\* began on: then run to the next line, if it is in the same function.
SkipsPrologue(pc) ==
  /\ Here(pc) = NoLoc \/ OnStartLine(pc)
  /\ NextLine(pc) # NoAddr
  /\ CurFunc(pc) # NoName
  /\ CurFunc(NextLine(pc)) = CurFunc(pc)

StepInEntered ==
  /\ at = "entered"
  /\ IF SkipsPrologue(cpu.pc)
     THEN RunTo(NextLine(cpu.pc), "runPrologue")
     ELSE at' = "done" /\ UNCHANGED target
  /\ UNCHANGED <<image, place, user, moves, shadow, history>>

\* No source line, or no next one.
HandleStepInInstruction ==
  Instruction("stepIn") /\ ~ BetweenLines(cpu.pc)

-----------------------------------------------------------------------------
\* HandleStepOut.
FuncStart(pc) ==
  LET a == LookupSymbolByName(Table, CurFunc(pc))
  IN  IF CurFunc(pc) = NoName \/ a = NoAddr THEN pc ELSE a

FuncEnd(pc) ==
  LET a == NextSymbolAddr(Table, FuncStart(pc))
  IN  IF a = NoAddr THEN FuncStart(pc) + FunctionCap ELSE a

\* From the PC on, with a length computed in unsigned arithmetic: a function
\* that ends before the PC has the longest one.
OutLength(pc) == AtMostBytes((FuncEnd(pc) - pc) % Word, OutScan)
OutSweep(pc)  == Sweep(pc, OutLength(pc))

BugFirstReturn(pc) ==
  LET r == Among(OutSweep(pc), "ret") IN IF r = {} THEN {} ELSE {Min(r)}

OutReturns(pc) == Among(OutSweep(pc), "ret")

\* LJMP and AJMP whose target is outside the function (tail calls); one that the
\* end of the scan cuts in two is passed over.
OutJumps(pc) ==
  {a \in Among(OutSweep(pc), "jump") :
     /\ Code[a].to \notin FuncStart(pc) .. FuncEnd(pc) - 1
     /\ a + Code[a].len <= pc + OutLength(pc)}

\* To one exit by AG_GOTILADR, to several by temporary breakpoints.
\* AddTempBreakpoint finds a free node or it does not, and the DLL may refuse
\* to arm (module BpManager): any of the exits may stay without a breakpoint.
RunOut(instructions, exits, to) ==
  IF Cardinality(instructions) = 1
  THEN RunTo(Min(exits), to) /\ spoilt' = FALSE
  ELSE \E armed \in SUBSET exits :
         /\ Run(NoAddr, armed, to)
         /\ spoilt' = (armed # exits)

\* Run to the RETs ahead.
HandleStepOutToReturns ==
  /\ Dispatch("stepOut")
  /\ IsLoaded(Table)
  /\ OutReturns(cpu.pc) # {}
  /\ RunOut(OutReturns(cpu.pc), OutReturns(cpu.pc), "runOut")
  /\ UNCHANGED moves

\* No RET ahead: run to the targets of the tail calls.
HandleStepOutToJumps ==
  /\ Dispatch("stepOut")
  /\ IsLoaded(Table)
  /\ OutReturns(cpu.pc) = {} /\ OutJumps(cpu.pc) # {}
  /\ RunOut(OutJumps(cpu.pc), {Code[a].to : a \in OutJumps(cpu.pc)}, "runTail")
  /\ UNCHANGED moves

\* No symbols, or no exit ahead.
HandleStepOutInstruction ==
  Instruction("stepOut") /\ (IsLoaded(Table) => OutReturns(cpu.pc) = {} /\ OutJumps(cpu.pc) = {})

-----------------------------------------------------------------------------
\* The end of a run.
BugNoReturn(from) ==
  CASE from \in {"runReturn", "runOut", "runLine", "runPrologue", "runTail"} ->
         at' = "done" /\ UNCHANGED cpu
    [] from = "runCall" -> at' = (IF OnStartLine(cpu.pc) THEN "loop" ELSE "done") /\ UNCHANGED cpu
    [] from = "run" -> at' = "waiter" /\ UNCHANGED cpu

BugKeepsMoving(from) ==
  CASE from \in {"runReturn", "runOut"} -> at' = "done" /\ cpu' \in Executed(cpu)
    [] from \in {"runLine", "runPrologue", "runTail"} -> at' = "done" /\ UNCHANGED cpu
    [] from = "runCall" -> at' = "loop" /\ UNCHANGED cpu
    [] from = "run" -> at' = "waiter" /\ UNCHANGED cpu

\* What the handler does when the run it waits for has halted.  One that ran
\* to a RET executes it, wherever the run has halted.
Proceed(from) ==
  CASE from \in {"runReturn", "runOut"} -> at' = "done" /\ cpu' \in Executed(cpu)
    [] from \in {"runLine", "runPrologue", "runTail"} -> at' = "done" /\ UNCHANGED cpu
    [] from = "runCall" -> at' = (IF OnStartLine(cpu.pc) THEN "loop" ELSE "done") /\ UNCHANGED cpu
    [] from = "run" -> at' = "waiter" /\ UNCHANGED cpu

\* The target halts; RemoveTempBreakpoint for each temporary breakpoint.
RunHalts ==
  /\ go # "halted"
  /\ Arrived
  /\ go' = "halted"
  /\ until' = NoAddr
  /\ temps' = {}
  /\ IF cpu.pc = until \/ cpu.pc \in temps
     THEN UNCHANGED <<broke, brokeIn>>
     ELSE broke' = cpu /\ brokeIn' = at
  /\ Proceed(at)
  /\ UNCHANGED <<image, place, user, moves, shadow, begin, left, spoilt, base, tracked>>

\* WaitForHalt fails (5 or 10 seconds): RequestStop, wherever the target is.
RunTimesOut ==
  /\ go # "halted"
  /\ at # "run"
  /\ go' = "halted"
  /\ until' = NoAddr
  /\ temps' = {}
  /\ spoilt' = TRUE
  /\ at' = "done"
  /\ UNCHANGED <<image, place, user, cpu, moves, shadow, begin, broke, brokeIn, left, base,
                 tracked>>

\* HandleContinue: AG_GOFORBRK; only a breakpoint or a pause ends it here.
HandleContinue ==
  /\ Request("continue")
  /\ Run(NoAddr, {}, "run")
  /\ UNCHANGED moves

Restarted ==
  /\ shadow' = ShadowStackRestart(Frame(cpu.pc))
  /\ base' = Len(cpu.calls)
  /\ tracked' = (CurFunc(cpu.pc) # NoName)
  /\ at' = "idle"
  /\ UNCHANGED <<image, place, user, cpu, temps, moves, begin, broke, brokeIn, left, spoilt>>

\* HandlePause: StopDirect, then the shadow stack starts afresh.
HandlePause ==
  /\ at = "run"
  /\ go # "halted"
  /\ go' = "halted"
  /\ until' = NoAddr
  /\ Restarted

\* WaitAndSendStopped: the same, on the waiter's thread.
WaiterSends ==
  /\ at = "waiter"
  /\ Restarted
  /\ UNCHANGED <<go, until>>

\* The functions active on the target, outermost first, and those of them
\* that the shadow stack can know of: from the last reset on.
ActiveFunctions(c) ==
  [i \in 1 .. Len(c.calls) + 1 |->
     CurFunc(IF i <= Len(c.calls) THEN c.calls[i] ELSE c.pc)]

Traced(c) == SubSeq(ActiveFunctions(c), base + 1, Len(c.calls) + 1)

\* The stop after one at c can be told from it by the names of the functions:
\* it is in the same ones, one more or one less, in code that has a symbol,
\* and none of them is active twice (history only).
Tellable(c, d) ==
  /\ CurFunc(d.pc) # NoName
  /\ Len(d.calls) >= base
  /\ IsInjective(Traced(d))
  /\ \/ Traced(d) = Traced(c)
     \/ Len(d.calls) > base /\ Traced(c) = Front(Traced(d))
     \/ Traced(d) = Front(Traced(c))

\* The end of a source-level step: ShadowStackUpdate, and the stopped event.
StepSends ==
  /\ at = "done"
  /\ at' = "idle"
  /\ shadow' = ShadowStackUpdate(shadow, Frame(cpu.pc))
  /\ tracked' = (tracked /\ Tellable(begin.cpu, cpu))
  /\ UNCHANGED <<image, place, user, target, moves, begin, broke, brokeIn, left, spoilt, base>>

HandleNext    == \/ HandleNextToReturn \/ HandleNextToLine \/ HandleNextLoop
                 \/ HandleNextLast \/ HandleNextInstruction
HandleStepIn  == HandleStepInLoop \/ HandleStepInCall \/ HandleStepInInstruction
HandleStepOut == \/ HandleStepOutToReturns \/ HandleStepOutToJumps
                 \/ HandleStepOutInstruction

\* What a handler does by itself once it has begun.
Handler == \/ NextMove \/ LoopEnds \/ StepInMove \/ StepInCounts \/ StepInEntered
           \/ RunHalts \/ RunTimesOut \/ WaiterSends \/ StepSends

Next == \/ HandleNext \/ HandleStepIn \/ HandleStepOut \/ HandleInstruction
        \/ HandleContinue \/ HandlePause \/ RunExecutes \/ Handler

\* The reader thread goes on, and its waits are bounded.  Nothing is assumed
\* of the target, which may run for ever, nor of the client.
Spec == Init /\ [][Next]_vars /\ WF_vars(Handler)

-----------------------------------------------------------------------------
\* Properties.

Cpu == [pc : DOMAIN Code, calls : Seq(DOMAIN Code)]

Names(t) == {NoName} \cup Range(t.symbols)
Files(t) == {NoName} \cup {e.file : e \in t.lines}

FramesFor(t) ==
  [func : Names(t), pc : DOMAIN t.code, loc : [file : Files(t), line : 0 .. MaxLine]]

\* Types.
TypeOK ==
  /\ image \in DOMAIN Images
  /\ user \subseteq Table.breaks
  /\ cpu \in Cpu
  /\ go \in {"halted", "off", "running"}
  /\ go = "halted" <=> at \notin Runs
  /\ until \in {NoAddr} \cup DOMAIN Code
  /\ temps \subseteq DOMAIN Code
  /\ at \in At
  /\ moves \in Nat
  /\ shadow \in Seq(FramesFor(Table))
  /\ begin.cpu \in Cpu
  /\ base \in Nat
  /\ left \in BOOLEAN /\ spoilt \in BOOLEAN /\ tracked \in BOOLEAN

\* A stop that nothing disturbed: no user breakpoint, no timeout, no exit
\* without its breakpoint.
Undisturbed(kind) ==
  at = "idle" /\ begin.kind = kind /\ broke = Nowhere /\ ~ spoilt

\* Where a function may go on without returning: past a call.
Onward(a) == IF Op(a) = "call" THEN {a + Code[a].len} ELSE Follows(Code, a)

\* One function enters another by a call, which waits at the address after it,
\* or by going on into its code.
Enters(f, g) ==
  \E a \in DOMAIN Code :
    \/ Op(a) = "call" /\ CurFunc(a + Code[a].len) = f /\ CurFunc(Code[a].to) = g
    \/ f # g /\ CurFunc(a) = f /\ \E b \in Onward(a) : CurFunc(b) = g

\* A function that calls itself, if only by way of others; C51 wants it
\* declared reentrant.  There is one if each of a set of functions enters one
\* of the set.
Functions == {CurFunc(a) : a \in DOMAIN Code}

Reentrant ==
  \E fs \in SUBSET Functions : fs # {} /\ \A f \in fs : \E g \in fs : Enters(f, g)

Function(pc) == {a \in DOMAIN Code : CurFunc(a) = CurFunc(pc)}

\* From pc on, the function of pc comes to no RET, and to no other function's
\* code but by calls, before it comes to one of the exits.
LeadsTo(pc, exits) ==
  /\ exits \subseteq Function(pc)
  /\ \E way \in SUBSET Function(pc) :
       /\ pc \in way
       /\ \A a \in way \ exits : Op(a) # "ret" /\ Onward(a) \subseteq way

\* The code of the line at pc is in one function.
LineInFunction(pc) == \A a \in DOMAIN Code : Here(a) = Here(pc) => a \in Function(pc)

\* A step over a source line (HandleNext) never ends inside a function the line
\* called: the target's stack is then the one it began with, or what returns
\* left of it.  At a function's end this takes a RET ahead that the last line
\* leads to, for there the step runs to the first RET, or to the next function.
NextStaysUp ==
  LET c == begin.cpu
  IN  /\ Undisturbed("next")
      /\ BetweenLines(c.pc)
      /\ IF LeavesFunction(c.pc)
         THEN NextReturns(c.pc) # {} /\ LeadsTo(c.pc, {Min(NextReturns(c.pc))})
         ELSE LineInFunction(c.pc)
      /\ ~ Reentrant
      => ~ left /\ IsPrefix(cpu.calls, c.calls)

\* What a step in enters by the first call of the line at pc, where the
\* instructions before it are plain and the prologue leads to its end.
StraightCall(pc) ==
  LET call == Min(InCalls(pc))
      to   == Code[call].to
  IN  /\ \A a \in InSweep(pc) : a < call => Op(a) = "plain"
      /\ SkipsPrologue(to) => LeadsTo(to, {NextLine(to)})

\* A step in (HandleStepIn) goes down one call at most; and one of a line with
\* a call ends in the function called and no other.
StepInGoesDownOnce ==
  LET c == begin.cpu
  IN  /\ Undisturbed("stepIn")
      /\ BetweenLines(c.pc)
      /\ LineInFunction(c.pc)
      /\ InCalls(c.pc) # {} => StraightCall(c.pc)
      /\ Len(c.calls) < MaxDepth
      /\ ~ Reentrant
      => /\ Len(cpu.calls) <= Len(c.calls) + 1
         /\ InCalls(c.pc) # {} => cpu.calls # <<>> /\ Front(cpu.calls) = c.calls

\* A function in one piece, from its symbol to the next one; not so one whose
\* name another function has but for case.
InOnePiece(pc) ==
  /\ CurFunc(pc) # NoName
  /\ Function(pc) = {a \in DOMAIN Code : FuncStart(pc) <= a /\ a < FuncEnd(pc)}

\* A step out (HandleStepOut) ends at the return address of the function it
\* began in, when every way out of the function is a RET ahead of the PC.
StepOutReturns ==
  LET c    == begin.cpu
      rets == Among(Function(c.pc), "ret")
  IN  /\ Undisturbed("stepOut")
      /\ c.calls # <<>>
      /\ InOnePiece(c.pc)
      /\ rets # {} /\ LeadsTo(c.pc, rets)
      /\ \A a \in rets : c.pc <= a /\ a < c.pc + OutScan
      /\ c.pc \in rets => Cardinality(rets) = 1
      /\ ~ Reentrant
      => ~ left /\ cpu = [pc |-> Last(c.calls), calls |-> Front(c.calls)]

\* A user breakpoint that halts a run of a step (HandleNext, HandleStepIn,
\* HandleStepOut) ends the step there; but one instruction further where the run
\* was to a RET (what is executed need not be one, although dap_server.cpp:1285 says
\* so), and not yet where a step over meets it on the very line it began
\* on, as a call of that line may do in a reentrant function.
BreakpointEndsStep ==
  at = "idle" /\ broke # Nowhere =>
    \/ cpu = broke
    \/ brokeIn \in {"runReturn", "runOut"} /\ cpu \in Executed(broke)
    \/ brokeIn = "runCall" /\ OnStartLine(broke.pc)

EachOnce(s) ==
  \A i, j \in DOMAIN s : i # j => s[i].func # s[j].func \/ s[i].func = NoName

\* The shadow stack (ShadowStackUpdate) at a stop: its top frame is where the
\* target stands; no function is in it twice; and it shows the functions that
\* are active on the target, as far out as the stack was when it was last
\* reset, if each stop since could be told from the one before.
ShadowAccurate ==
  at = "idle" =>
    /\ shadow # <<>> /\ Last(shadow) = Frame(cpu.pc)
    /\ EachOnce(shadow)
    /\ tracked => [i \in DOMAIN shadow |-> shadow[i].func] = Traced(cpu)

\* Pages of a stack trace fit together: page after page of any length gives
\* the frames in order, each once, with the numbers 1 to totalFrames.
TracePages ==
  \A start \in 0 .. Len(shadow), levels \in 1 .. 3 :
    LET page == StackTrace(shadow, Frame(cpu.pc), start, levels)
        rest == StackTrace(shadow, Frame(cpu.pc), start + levels, Len(shadow) + 1)
    IN  \A i \in start + 1 .. Len(shadow) :
          (page \o rest)[i - start] = [id |-> i, frame |-> shadow[Len(shadow) - i + 1]]

\* Every step ends: the client gets its stopped event, whatever code runs.
StepEnds == at \notin {"idle", "run"} ~> at = "idle"

=============================================================================
