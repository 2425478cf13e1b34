----------------------------- MODULE RunControl -----------------------------
(***************************************************************************)
(* Running and halting the target (run_control.cpp and the run-control     *)
(* handlers of dap_server.cpp) within one debug session.                   *)
(*                                                                         *)
(* Four kinds of actors share the DLL, the halt event and the generation   *)
(* counter:                                                                *)
(*   the client     sends a request when it believes the target stopped    *)
(*                  (or, for pause, running), or drops the connection;     *)
(*   the reader     handles one request at a time.  It posts runs to the   *)
(*                  main thread, but steps and stops the target itself;    *)
(*   the main       dispatches the posted messages.  A run blocks it       *)
(*                  inside AG_GoStep, whose own message pump dispatches    *)
(*                  what is posted meanwhile;                              *)
(*   the waiters    one detached thread for each resume that is answered   *)
(*                  asynchronously (WaitAndSendStopped).                   *)
(*                                                                         *)
(* The specification starts in HandleLaunch when the session is up and the *)
(* target halted after its reset, and ends when the adapter is released.   *)
(***************************************************************************)
EXTENDS Integers, Sequences

CONSTANTS
  MaxRequests,  \* bound: requests the client sends in the session
  MaxMoves      \* bound: moves of one source-level step (50 in the code)

ASSUME ConstantsAssumption ==
  /\ MaxRequests \in Nat \ {0}
  /\ MaxMoves \in Nat \ {0}

VARIABLES
  view,     \* what the client believes of the target
  request,  \* the request in the socket
  sent,     \* how many requests the client has sent
  reader,   \* where the reader thread is
  moves,    \* moves the step being handled has made
  queue,    \* messages posted to the hidden window
  main,     \* where the main thread is
  depth,    \* calls of AG_GoStep on the main thread's stack
  target,   \* the CPU
  event,    \* m_haltEvent (manual reset)
  gen,      \* g_runGeneration
  waiters,  \* the threads in WaitAndSendStopped
  fresh,    \* the registers in g_registers that were read since the target moved (history)
  moved,    \* what moved the target last: a "run", or an "nstep" of the reader (history)
  torn,     \* two threads have been in ReadRegisters together since (history)
  session,  \* m_sessionActive
  crashed,  \* the call in which AG_GoStep has raised an exception (history)
  raced     \* one of the races named below has happened (history)

registers == <<fresh, moved, torn>>

vars == <<view, request, sent, reader, moves, queue, main, depth, target, event,
          gen, waiters, registers, session, crashed, raced>>

\* What RegisterCache holds: the PC, the SP, and ACC, B, PSW, DPTR and R0-R7.
Registers  == {"PC", "SP", "others"}

\* No race so far, and no exception.
Calm == ~ raced /\ crashed = "none"

Resumes    == {"continue", "step", "stepInstruction"}
Requests   == Resumes \cup {"look", "pause", "disconnect", "drop"}
\* The places of HandleLaunch's run to the entry point, before the entry stop.
Launching  == {"entryWdt", "entryPost", "entryWait", "entryRead", "entrySend"}
ReaderAt   == Launching \cup
              {"idle", "look", "wdt", "post", "generation", "instruction", "move", "nstep",
               "toCall", "reset", "postRun", "wait", "stopWait", "send", "pause", "pauseStop",
               "pauseStopping", "pauseStopped", "pauseRead", "pauseSend",
               "disconnect", "disconnectStop", "disconnectStopping",
               "disconnectStopped", "uninit", "gone"}
\* The reader is launching or handling a request to resume.
Resuming == Launching \cup
            {"wdt", "post", "generation", "instruction", "move", "nstep", "toCall", "reset",
             "postRun", "wait", "stopWait", "send"}
MainAt     == {"loop", "going", "read", "signal"}
WaiterAt   == {"waiting", "awake", "passed"}

\* The reader may be inside a DLL call that is not a stop: AG_MemAcc, AG_NSTEP,
\* or, in HandleLaunch and HandlePause, ReadRegisters.
ReaderInDll == reader \in {"entryWdt", "entryRead", "look", "wdt", "instruction", "move",
                           "nstep", "toCall", "pauseRead"}

\* Every generation a bounded session can reach.
Generations == 1 .. MaxRequests * MaxMoves

\* The session is up.  The target is run to an entry point above its reset
\* vector; with none the entry stop is all that is left to do.
Init ==
  /\ view = "launching"
  /\ request = "none"
  /\ sent = 0
  /\ reader \in {"entryWdt", "entrySend"}
  /\ moves = 0
  /\ queue = <<>>
  /\ main = "loop"
  /\ depth = 0
  /\ target = "halted"
  /\ event = TRUE
  /\ gen = 0
  /\ waiters = {}
  /\ fresh = Registers
  /\ moved = "run"
  /\ torn = FALSE
  /\ session = "active"
  /\ crashed = "none"
  /\ raced = FALSE

Posted(messages) == \E i \in DOMAIN messages : messages[i] = "run"
RunPosted == Posted(queue)

\* AG_GoStep raises its exception in a run, or in a move of a source-level step; of
\* a step of one instruction it is remembered.
Crash == IF crashed = "instruction" THEN crashed ELSE "run"

\* The target is about to move: what was read of it is of an earlier halt.
TargetMoves(by) ==
  /\ fresh' = {}
  /\ moved' = by
  /\ torn' = FALSE

\* RunControl::ReadRegisters.  A target that runs has no registers to read; nor is
\* anything known of what two threads read that are in the DLL together.
ReadRegisters(overlap) ==
  /\ torn' = (torn \/ overlap)
  /\ fresh' = IF target = "halted" /\ ~ torn' THEN Registers ELSE {}
  /\ moved' = moved

\* ReadPcSpCached and ReadPcCached: the others stay those of an earlier halt.
ReadSome(some) ==
  /\ fresh' = IF target = "halted" THEN some ELSE {}
  /\ UNCHANGED <<moved, torn>>

-----------------------------------------------------------------------------
\* The client (outside the repository).  It resumes and looks at a target it
\* believes stopped, pauses one it believes running, and may leave at any time.
ClientSends(r) ==
  /\ session = "active"
  /\ request = "none"
  /\ sent < MaxRequests
  /\ r \in Resumes \cup {"look"} => view = "stopped"
  /\ r = "pause" => view = "running"
  /\ request' = r
  /\ sent' = sent + 1
  /\ UNCHANGED <<view, reader, moves, queue, main, depth, target, event, gen,
                 waiters, registers, session, crashed, raced>>

-----------------------------------------------------------------------------
\* The reader thread.

\* HandleLaunch: AG_MemAcc has disabled the watchdog; ResetHaltEvent.
EntryReset ==
  /\ reader = "entryWdt"
  /\ reader' = "entryPost"
  /\ event' = FALSE
  /\ UNCHANGED <<view, request, sent, moves, queue, main, depth, target, gen,
                 waiters, registers, session, crashed, raced>>

\* RequestRunToAddr(entryPoint).
EntryPost ==
  /\ reader = "entryPost"
  /\ reader' = "entryWait"
  /\ queue' = Append(queue, "run")
  /\ UNCHANGED <<view, request, sent, moves, main, depth, target, event, gen,
                 waiters, registers, session, crashed, raced>>

\* WaitForHalt(5000) ends; a failed one is logged and no stop is requested: the
\* race "entryWait".
EntryWaitEnds ==
  /\ reader = "entryWait"
  /\ reader' = "entryRead"
  /\ raced' = (raced \/ ~ event)
  /\ UNCHANGED <<view, request, sent, moves, queue, main, depth, target, event,
                 gen, waiters, registers, session, crashed>>

EntryReadRegisters ==
  /\ reader = "entryRead"
  /\ reader' = "entrySend"
  /\ ReadRegisters(main = "read")
  /\ UNCHANGED <<view, request, sent, moves, queue, main, depth, target, event,
                 gen, waiters, session, crashed, raced>>

\* The pending entry stop, which configurationDone sends.
EntrySends ==
  /\ reader = "entrySend"
  /\ reader' = "idle"
  /\ view' = "stopped"
  /\ UNCHANGED <<request, sent, moves, queue, main, depth, target, event, gen,
                 waiters, registers, session, crashed, raced>>

\* Dispatch.  The response of a resume is sent before anything is done, and
\* tells the client that the target runs.  It is a race when the main thread has
\* not come back from the run before ("mainBusy"), or when a waiter has passed its
\* generation check and not sent its event yet ("waiterPassed").
Dispatch(r, at) ==
  /\ session = "active"
  /\ reader = "idle"
  /\ request = r
  /\ request' = "none"
  /\ reader' = at
  /\ view' = IF r \in Resumes THEN "running" ELSE view
  /\ raced' =
       (\/ raced
        \/ r \in Resumes \cup {"look"} /\ main # "loop"
        \/ r \in Resumes /\ \E w \in waiters : w.at = "passed")

HandleContinue ==
  /\ Dispatch("continue", "wdt")
  /\ UNCHANGED <<sent, moves, queue, main, depth, target, event, gen, waiters,
                 registers, session, crashed>>

BugContinueKeepsEvent ==
  /\ reader = "wdt"
  /\ reader' = "post"
  /\ UNCHANGED <<view, request, sent, moves, queue, main, depth, target, event, gen,
                 waiters, registers, session, crashed, raced>>

\* AG_MemAcc has disabled the watchdog; ResetHaltEvent.
ContinueReset ==
  /\ reader = "wdt"
  /\ reader' = "post"
  /\ event' = FALSE
  /\ UNCHANGED <<view, request, sent, moves, queue, main, depth, target, gen,
                 waiters, registers, session, crashed, raced>>

\* RequestRun.
ContinuePost ==
  /\ reader = "post"
  /\ reader' = "generation"
  /\ queue' = Append(queue, "run")
  /\ UNCHANGED <<view, request, sent, moves, main, depth, target, event, gen,
                 waiters, registers, session, crashed, raced>>

SpawnWaiter(g) ==
  /\ reader = "generation"
  /\ reader' = "idle"
  /\ gen' = gen + 1
  /\ waiters' = waiters \cup {[gen |-> g, at |-> "waiting"]}
  /\ UNCHANGED <<view, request, sent, moves, queue, main, depth, target, event,
                 registers, session, crashed, raced>>

\* g_runGeneration++ for ++g_runGeneration.
BugOldGeneration == SpawnWaiter(gen)

\* The new generation, and the thread that waits for its halt.
NewGeneration == SpawnWaiter(gen + 1)

\* A step of one instruction, and the fallbacks of the source-level steps:
\* RunControl::GoStep resets the event and calls AG_NSTEP on this thread.
HandleStepInstruction ==
  /\ Dispatch("stepInstruction", "instruction")
  /\ event' = FALSE
  /\ TargetMoves("nstep")
  /\ UNCHANGED <<sent, moves, queue, main, depth, target, gen, waiters, session, crashed>>

\* It returns, and ReadPcSpCached.
InstructionDone ==
  /\ reader = "instruction"
  /\ reader' = "generation"
  /\ event' = TRUE
  /\ ReadSome({"PC", "SP"})
  /\ UNCHANGED <<view, request, sent, moves, queue, main, depth, target, gen,
                 waiters, session, crashed, raced>>

\* GoStep returns false: no waiter is started, and the event stays reset.
InstructionCrashes ==
  /\ reader = "instruction"
  /\ reader' = "idle"
  /\ crashed' = "instruction"
  /\ UNCHANGED <<view, request, sent, moves, queue, main, depth, target, event,
                 gen, waiters, registers, session, raced>>

\* next, stepIn and stepOut at source level: a sequence of moves, each an
\* AG_NSTEP on this thread or a run of the main thread that is waited for,
\* then the stopped event.  Where the moves lead is left open here.
HandleStep ==
  /\ Dispatch("step", "move")
  /\ moves' = 0
  /\ UNCHANGED <<sent, queue, main, depth, target, event, gen, waiters, registers,
                 session, crashed>>

MoveInstruction ==
  /\ reader \in {"move", "toCall"}
  /\ moves < MaxMoves
  /\ moves' = moves + 1
  /\ reader' = "nstep"
  /\ event' = FALSE
  /\ TargetMoves("nstep")
  /\ UNCHANGED <<view, request, sent, queue, main, depth, target, gen, waiters,
                 session, crashed, raced>>

\* The step handlers ignore what GoStep returns; only the event tells.
GoStepReturnsToStep ==
  \/ event' = TRUE /\ crashed' = crashed
  \/ event' = event /\ crashed' = Crash

\* ReadPcCached within a step, ReadPcSpCached after a RET.
MoveInstructionDone ==
  /\ reader = "nstep"
  /\ reader' = "move"
  /\ GoStepReturnsToStep
  /\ \E read \in {{"PC"}, {"PC", "SP"}} : ReadSome(read)
  /\ UNCHANGED <<view, request, sent, moves, queue, main, depth, target, gen,
                 waiters, session, raced>>

\* The instructions before the call of a step in are followed by one that enters
\* it, with no register read between the two.
MoveToCall ==
  /\ reader = "nstep"
  /\ moves < MaxMoves
  /\ reader' = "toCall"
  /\ GoStepReturnsToStep
  /\ UNCHANGED <<view, request, sent, moves, queue, main, depth, target, gen,
                 waiters, registers, session, raced>>

MoveRun ==
  /\ reader = "move"
  /\ moves < MaxMoves
  /\ moves' = moves + 1
  /\ reader' = "reset"
  /\ gen' = gen + 1
  /\ UNCHANGED <<view, request, sent, queue, main, depth, target, event, waiters,
                 registers, session, crashed, raced>>

BugRunKeepsEvent ==
  /\ reader = "reset"
  /\ reader' = "postRun"
  /\ UNCHANGED <<view, request, sent, moves, queue, main, depth, target, event, gen,
                 waiters, registers, session, crashed, raced>>

RunReset ==
  /\ reader = "reset"
  /\ reader' = "postRun"
  /\ event' = FALSE
  /\ UNCHANGED <<view, request, sent, moves, queue, main, depth, target, gen,
                 waiters, registers, session, crashed, raced>>

\* RequestRunToAddr, or RequestRun over temporary breakpoints.
RunPost ==
  /\ reader = "postRun"
  /\ reader' = "wait"
  /\ queue' = Append(queue, "run")
  /\ UNCHANGED <<view, request, sent, moves, main, depth, target, event, gen,
                 waiters, registers, session, crashed, raced>>

RunHalted ==
  /\ reader = "wait"
  /\ event
  /\ reader' = "move"
  /\ UNCHANGED <<view, request, sent, moves, queue, main, depth, target, event,
                 gen, waiters, registers, session, crashed, raced>>

\* WaitForHalt(5000 or 10000) fails: RequestStop, and a second wait.
RunTimesOut ==
  /\ reader = "wait"
  /\ ~ event
  /\ reader' = "stopWait"
  /\ queue' = Append(queue, "stop")
  /\ UNCHANGED <<view, request, sent, moves, main, depth, target, event, gen,
                 waiters, registers, session, crashed, raced>>

\* The second wait ends, and nobody looks how: the race "stopWait" when it failed.
StopWaitEnds ==
  /\ reader = "stopWait"
  /\ reader' = "send"
  /\ raced' = (raced \/ ~ event)
  /\ UNCHANGED <<view, request, sent, moves, queue, main, depth, target, event,
                 gen, waiters, registers, session, crashed>>

StepSends ==
  /\ reader = "send" \/ (reader = "move" /\ moves > 0)
  /\ reader' = "idle"
  /\ view' = "stopped"
  /\ UNCHANGED <<request, sent, moves, queue, main, depth, target, event, gen,
                 waiters, registers, session, crashed, raced>>

\* stackTrace, variables, readMemory, ...: AG_MemAcc on this thread.
HandleLook ==
  /\ Dispatch("look", "look")
  /\ UNCHANGED <<sent, moves, queue, main, depth, target, event, gen, waiters,
                 registers, session, crashed>>

LookDone ==
  /\ reader = "look"
  /\ reader' = "idle"
  /\ UNCHANGED <<view, request, sent, moves, queue, main, depth, target, event,
                 gen, waiters, registers, session, crashed, raced>>

HandlePause ==
  /\ Dispatch("pause", "pause")
  /\ UNCHANGED <<sent, moves, queue, main, depth, target, event, gen, waiters,
                 registers, session, crashed>>

HandleDisconnect ==
  /\ Dispatch("disconnect", "disconnect")
  /\ UNCHANGED <<sent, moves, queue, main, depth, target, event, gen, waiters,
                 registers, session, crashed>>

\* A pause or a disconnect that leaves the generation as it is.
BugKeepGeneration(from, to) ==
  /\ reader = from
  /\ reader' = to
  /\ UNCHANGED <<view, request, sent, moves, queue, main, depth, target, event, gen,
                 waiters, registers, session, crashed, raced>>

\* ++g_runGeneration: the waiters there are will find their wait stale.
SupersedeWaiters(from, to) ==
  /\ reader = from
  /\ reader' = to
  /\ gen' = gen + 1
  /\ UNCHANGED <<view, request, sent, moves, queue, main, depth, target, event,
                 waiters, registers, session, crashed, raced>>

\* StopDirect calls AG_GoStep(AG_STOPRUN) on this thread.  The DLL (external)
\* halts the target of a GoStep that is active, and, as dap_server.cpp:1373-1374
\* has it, returns when that GoStep has returned (GoStepReturns).
StopDirect(from, to) ==
  /\ reader = from
  /\ main = "going"
  /\ reader' = to
  /\ target' = "halted"
  /\ UNCHANGED <<view, request, sent, moves, queue, main, depth, event, gen,
                 waiters, registers, session, crashed, raced>>

\* With no GoStep active it does nothing.  It is a race ("stopMissed") when the run
\* to be stopped is still in the queue, or has been taken from it since.
StopDirectReturns(unstopped, stopped, to) ==
  /\ (reader = unstopped /\ main # "going") \/ reader = stopped
  /\ reader' = to
  /\ raced' = (raced \/ RunPosted \/ main = "going")
  /\ UNCHANGED <<view, request, sent, moves, queue, main, depth, target, event,
                 gen, waiters, registers, session, crashed>>

PauseReadRegisters ==
  /\ reader = "pauseRead"
  /\ reader' = "pauseSend"
  /\ ReadRegisters(main = "read")
  /\ UNCHANGED <<view, request, sent, moves, queue, main, depth, target, event,
                 gen, waiters, session, crashed, raced>>

PauseSends ==
  /\ reader = "pauseSend"
  /\ reader' = "idle"
  /\ view' = "stopped"
  /\ UNCHANGED <<request, sent, moves, queue, main, depth, target, event, gen,
                 waiters, registers, session, crashed, raced>>

\* The socket is closed: the reader thread posts a stop and ends ...
ReaderEnds ==
  /\ session = "active"
  /\ reader = "idle"
  /\ request = "drop"
  /\ request' = "none"
  /\ reader' = "gone"
  /\ queue' = Append(queue, "stop")
  /\ UNCHANGED <<view, sent, moves, main, depth, target, event, gen, waiters,
                 registers, session, crashed, raced>>

\* UninitAgdiSession: on the reader thread in HandleDisconnect, and on the
\* thread of RunSession when the client has dropped.
UninitAgdiSession ==
  /\ session = "active"
  /\ reader \in {"uninit", "gone"}
  /\ session' = "none"
  /\ view' = "gone"
  /\ UNCHANGED <<request, sent, reader, moves, queue, main, depth, target, event,
                 gen, waiters, registers, crashed, raced>>

HandlePauseStops ==
  \/ SupersedeWaiters("pause", "pauseStop")
  \/ StopDirect("pauseStop", "pauseStopping")
  \/ StopDirectReturns("pauseStop", "pauseStopped", "pauseRead")

\* No StopDirect before UNINIT.
BugDisconnectRunning == SupersedeWaiters("disconnect", "uninit")

HandleDisconnectStops ==
  \/ SupersedeWaiters("disconnect", "disconnectStop")
  \/ StopDirect("disconnectStop", "disconnectStopping")
  \/ StopDirectReturns("disconnectStop", "disconnectStopped", "uninit")

-----------------------------------------------------------------------------
\* The main thread: HwndMsgProc.

\* A posted message is dispatched by the main loop, or by the DLL's message
\* pump while AG_GoStep blocks.  A stop is AG_GoStep(AG_STOPRUN).
DispatchStop ==
  /\ session = "active"
  /\ main \in {"loop", "going"}
  /\ queue # <<>>
  /\ Head(queue) = "stop"
  /\ queue' = Tail(queue)
  /\ target' = IF main = "going" THEN "halted" ELSE target
  /\ UNCHANGED <<view, request, sent, reader, moves, main, depth, event, gen,
                 waiters, registers, session, crashed, raced>>

\* A run is AG_GoStep(AG_GOFORBRK) or AG_GoStep(AG_GOTILADR), which block.
DispatchRun ==
  /\ session = "active"
  /\ main \in {"loop", "going"}
  /\ queue # <<>>
  /\ Head(queue) = "run"
  /\ queue' = Tail(queue)
  /\ main' = "going"
  /\ depth' = depth + 1
  /\ target' = "running"
  /\ TargetMoves("run")
  /\ UNCHANGED <<view, request, sent, reader, moves, event, gen, waiters, session,
                 crashed, raced>>

\* The target comes to a breakpoint or to the address (external).
TargetHalts ==
  /\ session = "active"
  /\ target = "running"
  /\ target' = "halted"
  /\ UNCHANGED <<view, request, sent, reader, moves, queue, main, depth, event,
                 gen, waiters, registers, session, crashed, raced>>

\* The AG_STOPRUN that waits for this GoStep, if there is one, returns too.
ReleaseStopper ==
  reader' = CASE reader = "pauseStopping" -> "pauseStopped"
              [] reader = "disconnectStopping" -> "disconnectStopped"
              [] OTHER -> reader

GoStepReturnsWith(nextEvent) ==
  /\ session = "active"
  /\ main = "going"
  /\ target = "halted"
  /\ main' = "read"
  /\ event' = nextEvent
  /\ ReleaseStopper
  /\ UNCHANGED <<view, request, sent, moves, queue, depth, target,
                 gen, waiters, registers, session, crashed, raced>>

\* The DLL's halt message signals the halt, before the registers are read.
BugSignalEarly == GoStepReturnsWith(TRUE)

\* The DLL's own halt message (msgToken) is ignored.
GoStepReturns == GoStepReturnsWith(event)

\* CallGoStepSEH swallows an exception, and the handler goes on as for a halt.
GoStepCrashes ==
  /\ session = "active"
  /\ main = "going"
  /\ main' = "read"
  /\ ReleaseStopper
  /\ crashed' = Crash
  /\ UNCHANGED <<view, request, sent, moves, queue, depth, target, event,
                 gen, waiters, registers, session, raced>>

MainReadRegisters ==
  /\ session = "active"
  /\ main = "read"
  /\ main' = "signal"
  /\ ReadRegisters(ReaderInDll)
  /\ UNCHANGED <<view, request, sent, reader, moves, queue, depth, target, event,
                 gen, waiters, session, crashed, raced>>

\* SignalHalt, and back to whoever dispatched the message.
SignalHalt ==
  /\ session = "active"
  /\ main = "signal"
  /\ event' = TRUE
  /\ depth' = depth - 1
  /\ main' = IF depth = 1 THEN "loop" ELSE "going"
  /\ UNCHANGED <<view, request, sent, reader, moves, queue, target, gen, waiters,
                 registers, session, crashed, raced>>

-----------------------------------------------------------------------------
\* A waiter: WaitAndSendStopped.

WaiterMoves(w, to) == waiters' = (waiters \ {w}) \cup {[w EXCEPT !.at = to]}

\* WaitForHalt(30000) succeeds, or fails and is only logged: the race "haltWait"
\* when the generation is still the waiter's.
WaiterWakes(w) ==
  /\ session = "active"
  /\ w.at = "waiting"
  /\ WaiterMoves(w, "awake")
  /\ raced' = (raced \/ (~ event /\ w.gen = gen))
  /\ UNCHANGED <<view, request, sent, reader, moves, queue, main, depth, target,
                 event, gen, registers, session, crashed>>

WaiterChecks(w) ==
  /\ session = "active"
  /\ w.at = "awake"
  /\ IF w.gen = gen THEN WaiterMoves(w, "passed") ELSE waiters' = waiters \ {w}
  /\ UNCHANGED <<view, request, sent, reader, moves, queue, main, depth, target,
                 event, gen, registers, session, crashed, raced>>

WaiterSends(w) ==
  /\ session = "active"
  /\ w.at = "passed"
  /\ waiters' = waiters \ {w}
  /\ view' = "stopped"
  /\ UNCHANGED <<request, sent, reader, moves, queue, main, depth, target, event,
                 gen, registers, session, crashed, raced>>

-----------------------------------------------------------------------------
Client == \E r \in Requests : ClientSends(r)

Reader ==
  \/ EntryReset \/ EntryPost \/ EntryWaitEnds \/ EntryReadRegisters \/ EntrySends
  \/ HandleContinue \/ ContinueReset \/ ContinuePost \/ NewGeneration
  \/ HandleStepInstruction \/ InstructionDone \/ InstructionCrashes
  \/ HandleStep \/ MoveInstruction \/ MoveInstructionDone \/ MoveToCall
  \/ MoveRun \/ RunReset \/ RunPost \/ RunHalted \/ RunTimesOut \/ StopWaitEnds
  \/ StepSends
  \/ HandleLook \/ LookDone
  \/ HandlePause \/ HandlePauseStops \/ PauseReadRegisters \/ PauseSends
  \/ HandleDisconnect \/ HandleDisconnectStops
  \/ ReaderEnds \/ UninitAgdiSession

MainThread ==
  \/ DispatchStop \/ DispatchRun \/ GoStepReturns \/ MainReadRegisters \/ SignalHalt

Waiter(g) ==
  \E w \in waiters :
    /\ w.gen = g
    /\ WaiterWakes(w) \/ WaiterChecks(w) \/ WaiterSends(w)

Next ==
  \/ Client
  \/ Reader
  \/ MainThread
  \/ TargetHalts
  \/ GoStepCrashes
  \/ \E g \in Generations : Waiter(g)

\* Every thread runs on: the waits of the reader and of the waiters have
\* timeouts.  Nothing obliges the client to send, the target to halt or the
\* DLL to crash.
Spec ==
  /\ Init /\ [][Next]_vars
  /\ WF_vars(Reader)
  /\ WF_vars(MainThread)
  /\ \A g \in Generations : WF_vars(Waiter(g))

-----------------------------------------------------------------------------
\* The types; a waiter waits for a generation that has begun.
TypeOK ==
  /\ view \in {"launching", "stopped", "running", "gone"}
  /\ request \in Requests \cup {"none"}
  /\ sent \in 0 .. MaxRequests
  /\ reader \in ReaderAt
  /\ moves \in 0 .. MaxMoves
  /\ queue \in Seq({"run", "stop"})
  /\ main \in MainAt
  /\ depth \in Nat
  /\ target \in {"halted", "running"}
  /\ event \in BOOLEAN
  /\ gen \in Nat
  /\ waiters \subseteq [gen : 1 .. gen, at : WaiterAt]
  /\ fresh \subseteq Registers
  /\ moved \in {"run", "nstep"}
  /\ torn \in BOOLEAN
  /\ session \in {"active", "none"}
  /\ crashed \in {"none", "run", "instruction"}
  /\ raced \in BOOLEAN

\* The PC is that of this halt, after a run all registers are.  (After an AG_NSTEP
\* they need not be, although the client can show them.)  Nothing is asked of what a
\* pause and the main thread read together (PauseLeavesDllIdle).
ReadSinceHalt == torn \/ ("PC" \in fresh /\ (moved = "run" => fresh = Registers))

\* A client that has been told the target stopped finds it halted, with no run
\* under way or about to start, and what the server holds of it was read since
\* (HandleContinue to WaitAndSendStopped; the step handlers).
Truthful ==
  view = "stopped" /\ Calm =>
    target = "halted" /\ main # "going" /\ ~ RunPosted /\ ReadSinceHalt

\* The DLL's message pump never starts a run inside a run: AG_GoStep does not
\* nest on the main thread (HwndMsgProc).
NoNesting == Calm => depth <= 1

\* "DLL functions are not thread-safe" (dap_server.cpp:808): when the reader
\* reads memory or registers or steps, the main thread is not inside the DLL.  The
\* one exception is that the ReadRegisters of a pause (line 1384) may meet the one
\* that follows the GoStep it stopped (PauseLeavesDllIdle).
DllExclusive ==
  ReaderInDll /\ Calm => main = "loop" \/ (reader = "pauseRead" /\ main \in {"read", "signal"})

\* Where the reader reads or writes g_shadowStack.
UsesShadowStack == reader \in {"entrySend", "move", "send", "look", "pauseSend", "uninit"}

\* g_shadowStack has no lock.  A waiter that has passed its generation check has it
\* to itself while it rebuilds it (WaitAndSendStopped), unless a pause or a
\* disconnect superseded it after the check, which its new generation comes too late
\* to suppress; and even then no step updates the stack meanwhile.
ShadowStackAlone ==
  UsesShadowStack /\ Calm =>
    \A w \in waiters : w.at = "passed" => w.gen # gen /\ reader \notin Resuming

\* A disconnect releases the adapter only when no AG_GoStep is active
\* (HandleDisconnect: stop first, or the DLL crashes).
UninitWhenIdle ==
  [][session' # session /\ reader = "uninit" /\ Calm => main # "going"]_vars

\* Whoever launches or resumes is told of the halt, or has left: no interleaving
\* of the generations suppresses the last stopped event (WaitAndSendStopped).  Not
\* answered are a step of one instruction that crashed the DLL, and a stop that
\* meets a run nested in another one.
ResumeAnswered ==
  view \in {"launching", "running"} ~> \/ view \in {"stopped", "gone"}
                                        \/ crashed = "instruction"
                                        \/ depth > 1

-----------------------------------------------------------------------------
\* The inductive invariant behind Truthful, NoNesting, DllExclusive,
\* ShadowStackAlone and UninitWhenIdle: who may be where while a run is out.

\* The main thread is in the loop exactly when no AG_GoStep is on its stack,
\* and the session ends with the reader.
DepthInv ==
  /\ main = "loop" <=> depth = 0
  /\ view = "gone" <=> session = "none"
  /\ session = "none" => reader \in {"uninit", "gone"}

\* No run is posted or under way, and what the halt calls for has been read.
Quiet == ~ RunPosted /\ main # "going" /\ ReadSinceHalt

AtMostOneRun(messages) ==
  \A i, j \in DOMAIN messages : messages[i] = "run" /\ messages[j] = "run" => i = j

\* At most one run is posted, and none during a run or once the event is set.
OneRun ==
  /\ AtMostOneRun(queue)
  /\ depth <= 1
  /\ main # "loop" => ~ RunPosted
  /\ event => ~ RunPosted /\ main = "loop"
  /\ target = "running" => main = "going"

\* Where the registers that the halt calls for have been read.
FreshInv ==
  /\ main = "signal" => ReadSinceHalt
  /\ main = "loop" /\ ~ RunPosted =>
       ReadSinceHalt \/ reader \in {"instruction", "nstep", "toCall"}
  /\ reader \in {"pauseSend", "entrySend"} => ReadSinceHalt
  /\ reader \in {"instruction", "nstep", "toCall"} => moved = "nstep"

\* What the places of the reader say of the main thread and of the event.
ReaderInv ==
  /\ reader \in {"entryWdt", "entryPost", "entryRead", "entrySend", "look", "wdt", "post",
                 "instruction", "move", "nstep", "toCall", "reset", "postRun", "send"} =>
       ~ RunPosted /\ main = "loop"
  /\ reader \in {"entryPost", "post", "postRun"} => ~ event
  /\ reader \in {"pauseRead", "pauseSend", "uninit"} => ~ RunPosted /\ main # "going"

\* A client that believes the target stopped is right, and only such a client
\* resumes or looks.
ViewInv ==
  /\ request \in Resumes \cup {"look"} => view \in {"stopped", "gone"}
  /\ view = "stopped" => Quiet /\ reader \notin Resuming

\* A waiter of the present generation belongs to the resume the client waits
\* for; once it is awake, or any waiter has passed its check, that run is over.
WaiterInv ==
  /\ \A w \in waiters :
       /\ w.at = "passed" => Quiet /\ reader \notin Resuming
       /\ w.gen = gen => view # "stopped" /\ reader \in {"idle", "pause", "disconnect", "gone"}
       /\ w.at = "awake" /\ w.gen = gen => Quiet
  /\ \A v, w \in waiters : w.gen = v.gen \/ (w.at = "passed" /\ v.gen = gen) => v = w

RunInv ==
  /\ DepthInv
  /\ Calm => OneRun /\ FreshInv /\ ReaderInv /\ ViewInv /\ WaiterInv

-----------------------------------------------------------------------------
\* What the comments of the code say, and the code does not do.

\* HandlePause (dap_server.cpp:1373-1374): when StopDirect has returned,
\* GOFORBRK has returned on the main thread, so the DLL is idle: neither is the main
\* thread still to come back from a run, nor does it read the registers.
PauseLeavesDllIdle == reader = "pauseRead" => main \notin {"going", "read"}

\* A stopped event is sent after a halt (DAP_implementation_status.md:109): no wait
\* that fails, and no signal or stop that comes late, tells the client so of a
\* target that runs.
StoppedAfterHalt == view = "stopped" /\ crashed = "none" => target = "halted"

\* UNINIT is not called while GoStep is active (dap_server.cpp:518-520): what
\* HandleDisconnect says of it, asked of RunSession's clean-up of a dropped client.
DropUninitWhenIdle ==
  [][session' # session /\ reader = "gone" /\ Calm => main # "going"]_vars

=============================================================================
