# A specification of the C8051 DAP server

The server lets VS Code debug a C8051 microcontroller. It speaks the Debug
Adapter Protocol (DAP) on a TCP port and drives the adapter through a closed
Windows DLL, `SiC8051F.dll` (the AGDI interface). These modules specify the
parts of the server in which order, concurrency and leftover state decide
whether it is right. TLC checks them on small instances; TLAPS proves the
safety results for every instance.

All paths below are relative to the repository: `dap_server/` is
`src/dap_server/` in `PROJECT.json`.

## Inventory

| Part | Code | State | Operations | What makes it correct |
|---|---|---|---|---|
| Breakpoint manager | `bp_manager.cpp` | a pool of 12 `AG_BP` nodes, the head pointer the DLL follows, per-file and instruction tables | set file / instruction breakpoints, rebuild, `ClearAll`, `ClearPool`, temporary breakpoints | the pointers are one finite list at all times; the DLL holds exactly its nodes; at most 4 user breakpoints; nothing leaks |
| Run control | `run_control.cpp` | the hidden window's message queue, the halt event, `m_sessionActive` | `RequestRun`, `RequestRunToAddr`, `RequestStop`, `StopDirect`, `GoStep`, `WaitForHalt`, `ReadRegisters`, `HwndMsgProc` | no nested `AG_GoStep`; one thread in the DLL; the event stands for the halt waited for |
| Run-control handlers | `dap_server.cpp` 792-1396 | `g_runGeneration`, detached waiters | continue, next, stepIn, stepOut, pause, disconnect | a client told "stopped" finds a halted target; every resume is answered |
| Session and launch | `dap_server.cpp` 209-675, `run_control.cpp` 568-836, `agdi_loader.cpp` | the socket, `g_pServer`, `m_pendingEntryStop`, the DLL, the loaded image and symbols | accept, launch, configurationDone, disconnect, drop, clean-up | nothing of one session reaches the next; one registration per load of the DLL; the entry stop comes once |
| Shadow call stack | `dap_server.cpp` 55-122 | a stack of frames | update, reset, stack trace | frames follow the calls that can be told from two PCs; pages of a trace fit together |
| Source-level stepping | `dap_server.cpp` 869-1366, `opcodes8051.h` | none of its own | scans of code memory, moves | the step ends at the line, the callee or the caller |
| Symbol table | `symtab.cpp` | sorted symbols, lines, locals, globals, bits | parse the map file; lookups by address, line, name; call path | lookups find the right entry at every edge; a local has its function and its size |
| HEX loader | `hex_loader.cpp` | the image, its base and size | `LoadFile`, `Unload` | the second pass stays inside what the first one sized, and loses no byte |
| Register cache | `registers.cpp` | the last registers read: all of them after a run, PC or PC and SP after a single step | update, list | after a run all of it is of this halt, after a single step the PC; an edit does not reach it |
| Variables, expressions, memory | `dap_server.cpp` 1398-2305 | none of their own | scopes, variables, evaluate, set, read, write | an edit stays inside its variable and reads back; a name means the same in every request |
| Disassembler | `disasm8051.h` | none | decode, listing | instruction lengths; a listing shows the true instructions |
| Callback and popup watcher | `run_control.cpp` 192-426 | flash progress | feed the DLL, close its boxes | Windows I/O |
| DAP framing | `dap_server.cpp` 286-469 | the socket, `m_seq` | receive, send, dispatch | one request at a time |
| VS Code extension | `vscode-extension/extension.js` | the server process | ensure, restart, resolve configuration | one server, listening before use |
| Scripts, tests, build | `scripts/`, `CMakeLists.txt` | none | | |

How they interact. A *reader* thread takes one request at a time and runs its
handler. `continue`, and the long moves of a step, are posted as messages to a
hidden window; the *main* thread dispatches them and blocks inside
`AG_GoStep`, whose own message pump dispatches what is posted meanwhile. Single
instructions and memory accesses call the DLL on the reader thread. A resume
leaves a detached *waiter* behind, which waits for the manual-reset halt event,
compares its generation with `g_runGeneration` and sends `stopped`. A detached
20 ms *timer* sends the entry stop after `configurationDone`. When a client
leaves, the thread of `RunForever` cleans up and accepts the next one, but
waiters, timers, flags, breakpoint tables and the DLL outlive the connection.

What is hard here: the three kinds of threads around one DLL that is not
thread-safe, one event and one counter; timeouts that give up on a target that
is still running; steps that fail half way (launch); state that outlives its
session; and a linked list edited while another thread may walk it. The
hazards are listed with their lines in `PROJECT.json`.

## Modules

### `BpManager` (instance `MCBpManager`, proofs `BpManager_proofs`)

`pool`, `head`, `fileBreakpoints`, `instrBreakpoints` are the members of
`BpManager`; `fileOrder` is the iteration order of the `unordered_map`, chosen
freely when a file is first named. A handler is not one step: `phase`, `cursor`,
`tail`, `todo`, `armed` are the local variables of `ClearAll`,
`RebuildDllBreakpoints` and `HandleStepOut`, and each node unlinked, armed,
added or removed is an action (`ClearAllUnlink`, `TryArm`, `AddTempBreakpoint`,
`RemoveTempBreakpoint`), since the DLL may follow the head between two of them.
`dll` is what the DLL has been told: it is external, notified node by node and
deaf to KILLALL (`bp_manager.cpp:139-141`). `InitDebugSession`,
`InitFlashSession` and `UninitAgdiSession` are the three ways a session touches
the list. `list` is a history variable, the sequence of nodes that the pointers
stand for; `Represents` relates the two.

`ArmedAsPlanned` says which addresses of a rebuild are armed without following
its loop: every table lists addresses at places (`AskedFor`, `Places`), an
address counts at the first place that lists it (`FirstPlaces`), and the node at
the position of its rank among these (`Rank`) holds it, up to the limit.

### `RunControl` (proofs `RunControl_proofs`)

One debug session from the reset of its launch to its end. It begins in
`HandleLaunch` with the run to the entry point (`EntryReset` to `EntrySends`),
or without one when the entry is not above the reset vector. `reader` is the place of the
reader thread in a handler, `main` that of the main thread in `HwndMsgProc`
(`loop`, `going` inside `AG_GoStep`, `read`, `signal`) and `depth` the calls of
`AG_GoStep` on its stack; `waiters` are the threads in `WaitAndSendStopped`.
A lock or a message of the code is the border of an action: reset the event,
post the run, take the generation, check it and send are separate steps.
Source-level steps are sequences of at most `MaxMoves` moves whose targets are
left open; a move is an `AG_NSTEP` on the reader or a run that is waited for.
`fresh` is the part of `g_registers` read since the target moved, `moved` what
moved it: after a run the main thread reads all registers, after an `AG_NSTEP` the reader reads the PC, or PC and SP
(`ReadPcCached`, `ReadPcSpCached`), and an edit reads none. `torn` says that two
threads have been in `ReadRegisters` together, which a pause brings about
(`dap_server.cpp:1384`): nothing is claimed of what they read. So `Truthful` asks
for the PC, and after a run for all registers (`ReadSinceHalt`); `DllExclusive`
excepts that one overlap by name, and `PauseLeavesDllIdle` excludes it.
`ShadowStackAlone` is about `g_shadowStack`, which has no lock: a waiter past its
check has it to itself, unless a pause or disconnect superseded it in between,
which comes too late to suppress it.
External are the client, the target, and the two facts the code states of the
DLL: `AG_GoStep` blocks and pumps messages, and `AG_STOPRUN` returns when the
active `GoStep` has returned.

The code has six races. The history variable `raced` says that one of them has
happened; each is set in the action where it happens, which names it. The safety
properties of `run_core` speak of runs without them (`Calm`):

1. `mainBusy`: a resume or a look is handled while the main thread has not come back from
   the run before (`HwndMsgProc` still has to read registers and signal), so a
   late `SignalHalt` may be taken for the new halt (`Dispatch`);
2. `waiterPassed`: a resume is handled while a waiter has passed its generation check and not
   sent its event yet (`Dispatch`, `dap_server.cpp:800-817`);
3. `stopWait`: the second wait after a timed-out move fails too, and nobody looks
   (`StopWaitEnds`, `dap_server.cpp:934, 1281`);
4. `stopMissed`: a pause or disconnect finds no `GoStep` to stop because the run is posted
   but not dispatched yet, or has just been (`StopDirectReturns`);
5. `haltWait`: a waiter's 30 s wait fails while its generation is current (`WaiterWakes`);
6. `entryWait`: the 5 s wait for the entry point fails: no stop is requested, and the entry
   stop is announced while the target runs (`EntryWaitEnds`,
   `dap_server.cpp:657-668`).

An exception inside `AG_GoStep`, which the code swallows (`crashed`), ends what
they claim as well. What happens in a race is not hidden: `StoppedAfterHalt` has
no such condition, each of the races breaks it, and `run_stopped` shows the
shortest way, race 6; `run_pause` shows race 4. The other ways are findings next
to the property that excepts them.

### `DapSession` (proofs `DapSession_proofs`)

Several clients after one another. `conn` is the client that `m_clientSock` and
`g_pServer` stand for, `dll` whether the AGDI DLL is unloaded, loaded or
registered, `pendingEntry` the flag `m_pendingEntryStop` (with the client it was
set for), `hex` and `syms` whose image and symbols are loaded. A launch is a
sequence of actions with the failure of each step: `LaunchUninit`,
`LaunchLoads`, `InitRegisters`, `InitFeatures`, `FlashTail` or `DebugTail`,
`LaunchReachesEntry`. `Deliver` sends to whoever is connected at that moment,
as `SendMessage` does. How the target runs is left to `RunControl`; here a
resume leaves a waiter behind. `orphaned` records that a client left something
behind which can still send (a pending entry stop, a timer, a waiter of the
present generation), `flashFailed` that a flash tail failed.

### `BreakpointSet` and `BpRefinement` (proofs `BpRefinement_proofs`)

`BreakpointSet` is what a caller of the breakpoint manager may rely on, without
pool, list or tables: the addresses asked for per table (`wanted`), the user and
temporary breakpoints the DLL holds (`user`, `temp`), and the stages of a
request. The old breakpoints are withdrawn before the first new one is armed;
only what some table asks for is armed, once and within the limit; the answer
comes when nothing more can be armed, and calls verified exactly what is armed;
an exit of a step-out goes without a breakpoint only when every slot is taken.
`BpRefinement` maps `BpManager` to it. The mapping reads `user` off `dll`, what
the DLL was told, so that a missing, doubled or late notification is a step the
abstract specification does not have.

### `SymTab`, `ShadowStack` and `Stepping` (instance `MCStepping`, proofs `Stepping_proofs`, `StepDepth_proofs`)

`SymTab` has the lookups of `symtab.cpp` as operators on a table. `ShadowStack`
has the update of the shadow call stack and the pages of a stack trace.
`Stepping` puts both under `HandleNext`, `HandleStepIn` and `HandleStepOut`,
against a target that executes a small program: `cpu` is its PC and the return
addresses on its stack, and its code is plain instructions, calls, returns,
branches and jumps. `at` is the place of the reader in a handler, `moves` the
loop counter; `go`, `until` and `temps` are a run with what may end it. The scans
(`Sweep`, `InSweep`, `OutSweep`) read the bytes the code reads, with its limits
and its unsigned differences. A run may be halted by a user breakpoint, reach
its address, or time out and be stopped, which is when a step goes on from the
wrong place. Two facts about the DLL are assumed: a run leaves a breakpoint
under the PC it starts from, and a run to the address of the PC halts at once.
Every request comes with either granularity: `HandleNextInstruction`,
`HandleStepInInstruction` and `HandleStepOutInstruction` are those of granularity
`instruction` as well as those where no line is known. `broke` and `brokeIn` are
where a user breakpoint has halted a run of the step, and in which place of the
handler; `BreakpointEndsStep` allows the one instruction executed after it only in
the places that run to a RET (`runReturn`, `runOut`), and the line the step began
on only in the place where a step over runs past a call (`runCall`).
`ImagesAssumption` says what a program is: what an instruction goes on to is an
instruction, and so are the places of lines and breakpoints; line numbers are
ints (`MaxLine`). A RET on an empty stack goes anywhere.
The races between reader and main thread are the subject of `RunControl` and
are left out.

### `MapFile`, `HexLoader`, `Variables`, `Opcodes`, `Disassembler` and `ProgramData` (instance `MCProgramData`, proofs `ProgramData_proofs`)

`MapFile` is `ParseM51` as a fold over the records of a map file, with the state
the parser carries (the module, the pending locals, the last line), and the
lookups of variables. `HexLoader` is the two passes of `LoadFile`. `Variables`
has the conversions of numbers, the memory accesses and the order in which
`evaluate`, `setExpression` and `setVariable` resolve a name. `Opcodes` holds the
length table and the operand bytes the disassembler prints for each of the 256
opcodes, and `Disassembler` the window of the disassemble request. `ProgramData`
composes them: a launch loads an image and a table or fails half way, the
target stops anywhere in the code, and each request that shows or edits
registers, memory, variables or code is an action. `reply` is the last answer,
`edit` the last edit with the memory before it, `cachedPC` and `registers` are
the register cache. `HandleVariables` has the rows of every scope: the locals, read
from the memory; the registers, from the cache; the first bytes of CODE, XDATA
and DATA (IDATA is read and written as DATA is, and left out). RAM after a run may
hold anything and is given one content, which stands for all: what of the cache is
of an earlier halt is told by `RunControl` (`ReadSinceHalt`).

`RunControl`, `DapSession`, `BpManager` and `ProgramData` share the session's
start and end: `UninitAgdiSession`
appears in the first three with the part of its effect that concerns the module.

## What the runs check

| Run | Instance | Shows |
|---|---|---|
| `bp_lists` | 3 nodes, 2 user slots, 2 files, addresses 0-2 | the list, the DLL's copy, the limit, the plan of what is armed, that every handler ends, and that the manager implements `BreakpointSet` |
| `bp_preserved` (violation) | same | a request for one file disarms breakpoints of another that were reported verified |
| `bp_stale_session` (violation) | same | the next session gets the breakpoints of the one before |
| `run_core` | a launch and 3 requests, 2 moves a step | truth of "stopped", no nesting, one thread in the DLL but for a pause, the shadow stack for one thread, no UNINIT during a run, the inductive invariant, every resume answered |
| `run_pause` (violation) | 3 requests | a pause that overtakes the posted run leaves the DLL busy |
| `run_stopped` (violation) | 3 requests | the client is told of a halt that has not happened |
| `run_drop` (violation) | 3 requests | a dropped client has the adapter released under an active `GoStep` |
| `session` | 2 clients, 2 launches and 2 configurationDone each, 1 resume | what a client receives is its own, one entry stop for a launch and it does come, adapter, image and symbols follow the session |
| `session_dll` (violation) | same | after a failed flash tail the next launch registers a registered DLL |
| `session_entry` (violation) | same | a pending entry stop is inherited by the next client |
| `stepping` | 7 programs, at most 2 calls deep | next does not end in a callee, stepIn enters the call of its line, stepOut ends at its return address, a breakpoint ends a step (one instruction later only in a run to a RET), shadow stack and pages are right, every step ends |
| `program_data` | 5 HEX files, 3 map files, 1 edit a halt | the image is what the file says, locals are those of the function, an edit reads back in every watch, row and page of its place and stays inside, watches agree with the panel, listings show true instructions, lines and addresses go back and forth, one length of the opcode table is wrong |

Bounds. Three nodes and two slots let a request overflow the limit, a step-out
with two exits exhaust the pool, and a breakpoint at address 0 be first, last
and alone, the cases `Alloc` can confuse. A launch and three requests are a run
that may time out, a resume, the pause or second resume that interferes with it,
and one more to meet what they left behind; two moves make a step that runs and then steps, or runs twice. Two
clients are what an inheritance needs; two launches of each give a relaunch over
an active session and after every failure. `MaxRequests` and `MaxMoves` also bound
the generations; the deadlock check is off in the runs where the clients may stop
(`run_*`, `session*`).

The programs of `stepping` have the shapes the scans tell apart: two returns, a
return behind the PC, a tail jump, recursion, a callee without lines, functions
whose names differ in case, no symbols at all. Its limits (20 bytes for 1024,
40 for 8192, 3 moves for 50) are scaled so that the programs pass them. In
`program_data` a byte has 16 values, the code 28 bytes and a symbol table two or
three functions; the HEX files have bad sums, short and overlapping records, a
base record, no data and more than fits, and the map files locals out of order,
gaps of 1 to 4 bytes, two locals at one address, two lines at one address and a
function without source. `std::sort`, which leaves the order of equal keys open,
keeps that of the file, as an insertion sort does, which a short list gets.

Fairness. `BpManager`: weak fairness of the handler's next step, since the
handlers neither block nor wait. `RunControl`: weak fairness of the reader, the
main thread and each waiter; each runs whenever it can, and the waits of reader
and waiters have timeouts, so `RunTimesOut` and `WaiterWakes` are steps they
always can take. Nothing is assumed of the client, of the target, which may run
forever, or of crashes. `DapSession`: weak fairness of the server's own steps
and of the 20 ms timer; none of the clients. `Stepping`: weak fairness of the
handler, whose waits have timeouts; none of the target. `BreakpointSet` has the
fairness of `BpManager`, so the refinement carries the liveness over.

`ResumeAnswered` excepts a step of one instruction that crashed the DLL, which the
code does not answer, and a run nested in another one, whose stop the inner run
consumes. A run that crashed is answered like one that halted.

Some properties of `Stepping` and `ProgramData` name what the code does not do,
as an exception next to the property: a step over at the end of a function whose
returns the scan does not see runs to the next function's first line; a step out
does not know a RET behind the PC; a local vanishes past the first byte of a
function's last line; a gap of 3 bytes is taken for a variable of 4, and variables
at one address (a shared register, an overlay) are one variable to an edit; a name
like a register's hides a local from the watches; an edit of the PC, or of any
register in the Registers scope, shows there at the next halt; a listing from a
positive `instructionOffset` ends early. Those that
contradict a comment are findings in `PROJECT.json`.

## What is proved

Every theorem is about every value of the constants that the assumptions of its
module allow; TLC evaluates the assumptions on the instances. An invariant that
is not inductive alone is proved with what it needs, and each lemma
`...Step` shows, action by action, that the next-state relation keeps it.
`BasicFacts` has what all of them share: least and greatest numbers of a set,
induction over a set, sequences without their last element, and the recursion
that the folds of the community modules stand for.

**Breakpoints.** `BpManager_proofs`, for every pool size, limit, set of files
and requests: `TypeCorrect`, `ListAlwaysWellFormed`, `LoopsAgree`,
`DllNeverStale` and `HardwareLimit`. The inductive invariant `IInv` joins the
types with all of them, because none is inductive alone: that unlinking keeps
the list needs the cursor to be on it (`LoopInv`), that arming keeps the limit
needs the numbers to be those of the positions, that the DLL forgets a node needs
the list. The lemmas on `Represents` (append, prepend, remove) carry the pointer
reasoning once for all actions.

`BpRefinement_proofs` has two results. `PromiseOfSteps` is the safety part of
`KeepsPromise`: every initial state of `BpManager` maps to one of
`BreakpointSet`, and every step to a step of it or a stutter. `IInv` does not
know enough for that, so `RInv` adds four facts: a file that has breakpoints is
in the order of files (`TablesListed`; else a rebuild could end with something
wanted left out), the linked temporary nodes are those of the step-out under way
(`TempsLinked`; else a rebuild would withdraw somebody's temporary breakpoint),
while arming, the DLL holds what is linked and every table passed is armed, about
to be, or the limit is reached (`ArmedSoFar`; this is what makes the answer
allowed), and linked nodes have addresses (`LinkedKnown`). `ArmedByRank` is
`ArmedAsPlanned`: the loop that arms is compared with a definition that does not
loop. Its invariant `PInv` says where the loop is in the tables (`LoopPlace`),
that the addresses passed are armed by their ranks, up to the limit
(`PlanSoFar`), and that step-outs after it leave the user nodes alone
(`PlanKept`). Ranks are cardinalities of sets of places, and the lemmas on them
say what one more place changes.

**Run control.** `RunControl_proofs`, for any number of requests and moves:
`TypeCorrect`, `RunDiscipline`, `StoppedMeansStopped`, `RunsDoNotNest`,
`OneThreadInDll`, `ShadowStackHasOneUser` and `NoUninitDuringRun`. The inductive
invariant is `RunInv` with the types. Its parts say who may be where while a run is out: at most one
run is posted, and only from an idle main thread (`OneRun`); where the registers
that the halt calls for have been read (`FreshInv`); what the places of the reader say of the main
thread (`ReaderInv`) and of the client's belief (`ViewInv`); that a waiter of the
present generation belongs to the resume the client waits for, and that nobody
else passes its check meanwhile (`WaiterInv`). `Truthful` rests on all five: a
waiter may tell the client only because no other run can have been posted since
its own.

**Sessions.** `DapSession_proofs`, for any number of clients, launches,
configurationDone requests and resumes: `TypeCorrect`, `AdapterReleased`,
`ProgramOfTheSession`, `OneRegistrationPerLoad`, `StopsStayWithTheirClient` and
`EntryStopsAreOwed`. The invariant ties the DLL, the session flag, the image and
the symbols to the place of the reader (`ConnInv`, `DllInv`, `ImageInv`) and,
while no client has left anything behind, says what can still send
(`SendersInv`) and counts each entry stop as pending, on its way in a timer or
sent (`EntryInv`). `EntryStopOnce` alone is not inductive: a timer would be free
to send once more.

**Stepping.** `Stepping_proofs`, for every program that `ImagesAssumption`
admits: `TypeCorrect`; `BreakpointEnds`, by the places a handler can be in once a
breakpoint has halted a run of it (`BreakInv`); `ShadowCorrect`, by an
invariant that speaks of the target at the last stop (`StackInv`), since between
two stops the target runs away from the stack; and `PagesCorrect`. The lemmas
about `ShadowStackUpdate` say what a push, a pop and a replaced top do to the
functions shown, and the one on `Traced` what a call or a return does to those
that are active.

`StepDepth_proofs` proves where the three steps end: `NextUp`, `InGoesDownOnce`
and `OutReturnsOnce`. They need that no function is active twice (`Active`):
where no function is reentrant, each active function is below those that called
it, in the order that calls define (`Below`, the least set closed under calls,
stated without recursion). A run to an address is then pinned down by `Inside`
and `Way`: the target is in one call, at addresses that only lead to each other
or to the exits, or deeper, by a call that will return to one of these. `NextInv`,
`InInv` and `OutInv` say for each place of the handler what its run is inside of.
The hypotheses are those of the properties: no reentrant function, a line in one
function, an exit the code ahead leads to, a step that no breakpoint, timeout or
limit has disturbed. The programs of `MCStepping` have lines and functions that
meet them and such that do not.

**Program data.** `ProgramData_proofs`, for HEX and map files of any length. A
fold is unrolled into the values it goes through (`ExtentSteps`, `FillSteps`,
`ParseSteps`), and an induction over the records shows what these are.
`ImageHolds` needs of the first pass that it bounds every data record (`Bounds`)
and of the second that each byte is that of the last good record so far
(`Filled`); the second rests on the first, for an offset below 0 would wrap.
`LinesThereAndBack` needs of the parser that lines and addresses are numbers and
one line is the greatest (`LinesOK`), and the assumption that the lines of one
address are of one file (`OneModuleAssumption`). `WatchIsPanel` needs that
nothing a name stands for changes between a response and the next request
(`WatchKept`), and that both orders of resolution try the locals right after the
built-in names. `OneLengthIsWrong` goes through the 256 opcodes.

`TypeCorrect` has the invariant `Typed`: `g_hexLoader` and `g_symtab` hold what
some file made them, and every cell of the target is a byte. It needs the types of
the tables (`LoadTypes`), for a byte stays a byte through the edit of a variable
only because the size `Sized` infers is 1, 2 or 4, and through that of a bit only
because the bit is one of the byte (`BitRange`). `Sized` picks the variables by
their rank in a strict order, which is total because those at one address keep
the order of their lines (`Ranks`). `ListingAnchors` is `ListingAnchored`. A walk
over the code is unrolled (`WalkSteps`) into a chain in which each stop is where the instruction
of the one before it ends (`WalkChain`); the ordered chains of one code that share
a stop are the same from there on (`ChainTail`), so that the walk that begins up
to three bytes back for each instruction asked for runs into the true
instructions, and what is cut out of it (`CutRight`) is what would be cut out of
these. That no instruction has more than three bytes makes the distance enough.

`LocalsAreOfProc` is `LocalsOfProc`. The parser is followed through the records
of a map file (`Tracks`): inside a function its pending locals are those listed
since PROC, its start is the first address of the function and its end the last
line so far (`Inside`); between two functions nothing is pending (`Between`). So
the scope that ENDPROC gives to the locals of a function begins and ends inside
its code (`ScopeInside`), and since functions share no code, at most one function
has the PC (`OneFunction`). The invariant `ReplyKept` ties the rows of the last
response to the table and the PC they were made from.

`EditsStayInside` is `EditStaysInside`. The sizes that `Sized` infers keep the
variables of a space apart, but for those at one address or 3 bytes away
(`Separate`, `Near`), and inside the memory up to the greatest
address used (`Fits`); what is written at one place is not read at another
(`ReadAside`); and a byte is its bits, of which an edit replaces one (`BitSet`).
`EditsAreSeen` is `EditReadsBack`: what is written is read back cell by cell
(`ReadBack`), the digits of a number, cut or padded to the size of the place, are
the remainder of the number (`PaddedNumber`), so that the place itself shows what
was typed (`ShownBack`); `ReplyKept` says that each row is what its place shows,
and the bytes of a memory's scope show a place as the memory does
(`ShownOnPage`). The invariant `EditKept` says that the memory is the one before
the last edit with that edit in it, for as long as `edit` records it. The rows of
the Registers scope are no part of the theorem, since they come from the cache.

The assumptions are few: the bounds and limits are natural numbers, the limits
are not 0, files are sequences of records of their kinds, a program is closed and
its instructions do not overlap, two modules share no code, the bits of a map
file are bits of a byte, a variable's record knows its line
(`LinesAssumption`), the target's memory holds bytes, and requests are made of numbers.
Of the linker's map files it is also assumed that functions come one after
another, each with code and an end, and share no code (`FunctionsAssumption`),
and that variables and bits are in memory that the target has
(`PlacedAssumption`); of the target, that each space begins at 0 and ends before
addresses wrap, that the registers are in it, and that DPL and DPH are two bytes
(`TargetAssumption`). What the parser may leave out of such a file, or read
wrongly, is not assumed away: the records of a function come in any order, and
modules may have no source.

Only model-checked is liveness: `HandlerCompletes`, `ResumeAnswered`,
`EntryStopArrives`, `StepEnds` and the fairness of `KeepsPromise`. Fairness and
ENABLED are beyond the prover. Every invariant of a passing run is also a theorem.
The violation runs are about single behaviours, which TLC exhibits.

Worth proving next: that an abstract specification of a debug session, with the
target halted or running and each resume owed one answer, is implemented by
`RunControl`; then the same for `DapSession`, whose clients would each see such a
session of their own.

## Not modelled, and why

The cutting of text into records and tokens, JSON and DAP framing, logging, the
texts of the disassembler and the register descriptors are data or layout.
`FindCallPath`, `ResolveSource` and `FileMatches` work on paths of the disk. The
binary patches, the callback and the popup watcher are Windows I/O around a
closed DLL. `source`, `threads` and `initialize` answer constants or a file. The
VS Code extension, the scripts and the tests drive processes and a board.

The overlap of the unload of the DLL with `ReadRegisters` on the main thread
(`run_control.cpp:829`) can be reached in `RunControl`, but what the DLL does
then is not known; `UninitWhenIdle` is about `AG_GoStep`, which the code itself
names.

