----------------------------- MODULE DapSession -----------------------------
(***************************************************************************)
(* Clients one after the other on one server process: RunSession and the   *)
(* handlers of launch, configurationDone and disconnect (dap_server.cpp),  *)
(* with the life of the AGDI DLL under them (run_control.cpp,              *)
(* agdi_loader.cpp).                                                       *)
(*                                                                         *)
(* The server serves one client at a time, but not everything a client     *)
(* starts ends with it: the threads that will send a stopped event are     *)
(* detached, and flags, the generation and the DLL outlive the connection. *)
(* How the target runs and halts is RunControl's subject; here a resume    *)
(* only leaves a waiter behind, which wakes at any time.                   *)
(***************************************************************************)
EXTENDS Integers

CONSTANTS
  LastClient,   \* bound: clients that connect
  MaxLaunches,  \* bound: launches a client requests
  MaxConfigs,   \* bound: configurationDone requests a client sends
  MaxResumes    \* bound: resumes in the life of the server

ASSUME ConstantsAssumption ==
  /\ LastClient \in Nat \ {0}
  /\ MaxLaunches \in Nat
  /\ MaxConfigs \in Nat
  /\ MaxResumes \in Nat

VARIABLES
  served,       \* clients accepted so far
  conn,         \* the client m_clientSock and g_pServer stand for, or Nobody
  reader,       \* where the reader thread, or RunSession around it, is
  flash,        \* the launch under way is flash-only
  active,       \* m_sessionActive
  dll,          \* the AGDI DLL
  hex,          \* the client whose image g_hexLoader holds, or Nobody
  syms,         \* the client whose symbols g_symtab holds, or Nobody
  pendingEntry, \* m_pendingEntryStop, as the client it was set for, or Nobody
  timers,       \* detached threads about to send an entry stop
  waiters,      \* threads in WaitAndSendStopped
  gen,          \* g_runGeneration
  launches,     \* launches[c]: launches requested by c
  configs,      \* configs[c]: configurationDone requests of c
  owed,         \* owed[c]: debug launches of c that came to the end (history)
  entryStops,   \* entryStops[c]: entry stops sent to c (history)
  stops,        \* stops[c]: the clients whose stopped events c has received (history)
  flashFailed,  \* the flash tail has failed once (history)
  orphaned      \* a client left behind what can still send (history)

vars == <<served, conn, reader, flash, active, dll, hex, syms, pendingEntry, timers, waiters,
          gen, launches, configs, owed, entryStops, stops, flashFailed, orphaned>>

\* What only the requests of a client change, and what records the past.
counters == <<launches, configs>>
history  == <<owed, entryStops, stops, flashFailed, orphaned>>

\* The clients in the order in which they connect.
Clients  == 1 .. LastClient
Nobody   == 0
Anyone   == Clients \cup {Nobody}
ReaderAt == {"accept", "idle", "relaunch", "load", "init", "features", "tail", "entry",
             "disconnect", "leaving", "cleanup"}
DllAt    == {"unloaded", "loaded", "registered"}

Init ==
  /\ served = 0
  /\ conn = Nobody
  /\ reader = "accept"
  /\ flash = FALSE
  /\ active = FALSE
  /\ dll = "unloaded"
  /\ hex = Nobody
  /\ syms = Nobody
  /\ pendingEntry = Nobody
  /\ timers = {}
  /\ waiters = {}
  /\ gen = 0
  /\ launches = [c \in Clients |-> 0]
  /\ configs = [c \in Clients |-> 0]
  /\ owed = [c \in Clients |-> 0]
  /\ entryStops = [c \in Clients |-> 0]
  /\ stops = [c \in Clients |-> {}]
  /\ flashFailed = FALSE
  /\ orphaned = FALSE

-----------------------------------------------------------------------------
\* The DLL and the session flag.

\* UNINIT, then Unload and Load, which may fail.
ReleaseAdapter ==
  /\ active' = FALSE
  /\ dll' \in {"loaded", "unloaded"}

\* UninitAgdiSession returns at once when there is no session.
UninitAgdiSession ==
  IF active /\ dll # "unloaded" THEN ReleaseAdapter ELSE UNCHANGED <<active, dll>>

-----------------------------------------------------------------------------
\* RunSession.

Accept ==
  /\ reader = "accept"
  /\ served + 1 \in Clients
  /\ served' = served + 1
  /\ conn' = served + 1
  /\ reader' = "idle"
  /\ UNCHANGED <<flash, active, dll, hex, syms, pendingEntry, timers, waiters, gen,
                 counters, history>>

\* A thread is still waiting for the halt of the latest resume.
WaiterCurrent == \E w \in waiters : w.gen = gen

\* The connection is lost, or closed by the client without a disconnect.  A
\* waiter of the present generation is left behind.
Drop ==
  /\ reader = "idle"
  /\ reader' = "leaving"
  /\ orphaned' = (orphaned \/ WaiterCurrent)
  /\ UNCHANGED <<served, conn, flash, active, dll, hex, syms, pendingEntry, timers, waiters,
                 gen, counters, owed, entryStops, stops, flashFailed>>

\* The reader thread has been joined: the socket and g_pServer go.  Left behind
\* are an entry stop that waits for a configurationDone and the threads that
\* are about to send one.
ReaderJoined ==
  /\ reader = "leaving"
  /\ reader' = "cleanup"
  /\ conn' = Nobody
  /\ orphaned' = (orphaned \/ pendingEntry # Nobody \/ timers # {})
  /\ UNCHANGED <<served, flash, active, dll, hex, syms, pendingEntry, timers, waiters, gen,
                 counters, owed, entryStops, stops, flashFailed>>

BugKeepSession ==
  /\ reader = "cleanup"
  /\ reader' = "accept"
  /\ hex' = Nobody
  /\ UNCHANGED <<served, conn, flash, active, dll, syms, pendingEntry, timers, waiters, gen,
                 counters, history>>

\* What is left of the session is released before the next client is accepted.
CleanUp ==
  /\ reader = "cleanup"
  /\ reader' = "accept"
  /\ UninitAgdiSession
  /\ hex' = Nobody
  /\ UNCHANGED <<served, conn, flash, syms, pendingEntry, timers, waiters, gen, counters,
                 history>>

-----------------------------------------------------------------------------
\* HandleLaunch.

LaunchTo(next, isFlash) ==
  /\ reader = "idle"
  /\ launches[conn] < MaxLaunches
  /\ launches' = [launches EXCEPT ![conn] = @ + 1]
  /\ flash' = isFlash
  /\ reader' = next
  /\ UNCHANGED <<served, conn, active, dll, hex, syms, pendingEntry, timers, waiters, gen,
                 configs, history>>

BugNoUninitBeforeLaunch(isFlash) == LaunchTo("load", isFlash)

\* A session that is still active is closed first.
HandleLaunch(isFlash) == LaunchTo(IF active THEN "relaunch" ELSE "load", isFlash)

LaunchUninit ==
  /\ reader = "relaunch"
  /\ reader' = "load"
  /\ UninitAgdiSession
  /\ UNCHANGED <<served, conn, flash, hex, syms, pendingEntry, timers, waiters, gen, counters,
                 history>>

\* LoadFile starts with Unload; symbols are read for a debug session only.
LaunchLoads ==
  /\ reader = "load"
  /\ \/ /\ hex' = conn
        /\ syms' = IF flash THEN syms ELSE conn
        /\ reader' = "init"
     \/ /\ hex' = Nobody
        /\ syms' = syms
        /\ reader' = "idle"
  /\ UNCHANGED <<served, conn, flash, active, dll, pendingEntry, timers, waiters, gen,
                 counters, history>>

\* InitAgdiSession: AgdiLoader::Load, which does nothing when the DLL is
\* loaded, and the registration chain.
InitRegisters ==
  /\ reader = "init"
  /\ \/ /\ reader' = "features"
        /\ dll' = "registered"
     \/ /\ dll = "unloaded"
        /\ reader' = "idle"
        /\ UNCHANGED dll
  /\ UNCHANGED <<served, conn, flash, active, hex, syms, pendingEntry, timers, waiters, gen,
                 counters, history>>

\* INITFEATURES: when it fails or raises an exception the adapter is released;
\* after an exception the session flag is left as it is.
InitFeatures ==
  /\ reader = "features"
  /\ \/ /\ reader' = "tail"
        /\ UNCHANGED <<active, dll>>
     \/ /\ reader' = "idle"
        /\ ReleaseAdapter
     \/ /\ reader' = "idle"
        /\ dll' \in {"loaded", "unloaded"}
        /\ UNCHANGED active
  /\ UNCHANGED <<served, conn, flash, hex, syms, pendingEntry, timers, waiters, gen, counters,
                 history>>

\* The flash tail programs the target; when it fails nothing is undone.
FlashTail ==
  /\ reader = "tail"
  /\ flash
  /\ reader' = "idle"
  /\ \/ /\ active' = TRUE
        /\ hex' = Nobody
        /\ syms' = Nobody
        /\ UNCHANGED flashFailed
     \/ /\ flashFailed' = TRUE
        /\ UNCHANGED <<active, hex, syms>>
  /\ UNCHANGED <<served, conn, flash, dll, pendingEntry, timers, waiters, gen, counters, owed,
                 entryStops, stops, orphaned>>

DebugTail ==
  /\ reader = "tail"
  /\ ~ flash
  /\ reader' = "entry"
  /\ active' = TRUE
  /\ UNCHANGED <<served, conn, flash, dll, hex, syms, pendingEntry, timers, waiters, gen,
                 counters, history>>

EntryIs(pending) ==
  /\ reader = "entry"
  /\ reader' = "idle"
  /\ pendingEntry' = pending
  /\ owed' = [owed EXCEPT ![conn] = @ + 1]
  /\ UNCHANGED <<served, conn, flash, active, dll, hex, syms, timers, waiters, gen, counters,
                 entryStops, stops, flashFailed, orphaned>>

\* The entry stop is not deferred at all.
BugEntryForgotten == EntryIs(pendingEntry)

\* The target has been run to the entry point; the stop is deferred until
\* configurationDone.
LaunchReachesEntry == EntryIs(conn)

-----------------------------------------------------------------------------
\* HandleConfigurationDone and the thread it detaches.

ConfigurationDoneLeaves(pending) ==
  /\ reader = "idle"
  /\ configs[conn] < MaxConfigs
  /\ configs' = [configs EXCEPT ![conn] = @ + 1]
  /\ pendingEntry' = pending
  /\ timers' = IF pendingEntry = Nobody THEN timers
               ELSE timers \cup {[of |-> pendingEntry, nth |-> configs[conn]]}
  /\ UNCHANGED <<served, conn, reader, flash, active, dll, hex, syms, waiters, gen, launches,
                 history>>

BugEntryNotCleared == ConfigurationDoneLeaves(pendingEntry)

HandleConfigurationDone == ConfigurationDoneLeaves(Nobody)

\* SendMessage goes to whoever is connected now.
Deliver(from) ==
  stops' = IF conn = Nobody THEN stops ELSE [stops EXCEPT ![conn] = @ \cup {from}]

\* After 20 ms.
TimerSends(t) ==
  /\ timers' = timers \ {t}
  /\ Deliver(t.of)
  /\ entryStops' = IF conn = Nobody THEN entryStops
                                    ELSE [entryStops EXCEPT ![conn] = @ + 1]
  /\ UNCHANGED <<served, conn, reader, flash, active, dll, hex, syms, pendingEntry, waiters,
                 gen, counters, owed, flashFailed, orphaned>>

-----------------------------------------------------------------------------
\* Resumes and disconnect.

WaitFor(g) ==
  /\ reader = "idle"
  /\ active
  /\ ~ flash
  /\ gen < MaxResumes
  /\ gen' = gen + 1
  /\ waiters' = waiters \cup {[gen |-> g, of |-> conn]}
  /\ UNCHANGED <<served, conn, reader, flash, active, dll, hex, syms, pendingEntry, timers,
                 counters, history>>

\* g_runGeneration++ for ++g_runGeneration.
BugOldGeneration == WaitFor(gen)

\* A resume in a debug session: ++g_runGeneration and a waiter for it.
Resume == WaitFor(gen + 1)

\* WaitAndSendStopped for the halt, or after 30 s.
WaiterEnds(w) ==
  /\ waiters' = waiters \ {w}
  /\ IF w.gen = gen THEN Deliver(w.of) ELSE UNCHANGED stops
  /\ UNCHANGED <<served, conn, reader, flash, active, dll, hex, syms, pendingEntry, timers,
                 gen, counters, owed, entryStops, flashFailed, orphaned>>

DisconnectWith(generation) ==
  /\ reader = "idle"
  /\ reader' = "disconnect"
  /\ gen' = generation
  /\ orphaned' = (orphaned \/ (~ active /\ WaiterCurrent))
  /\ UNCHANGED <<served, conn, flash, active, dll, hex, syms, pendingEntry, timers, waiters,
                 counters, owed, entryStops, stops, flashFailed>>

\* The waiters are not superseded.
BugKeepGeneration == DisconnectWith(gen)

\* With no session active the generation stays, and so does a waiter there is.
HandleDisconnect == DisconnectWith(IF active THEN gen + 1 ELSE gen)

DisconnectReleases ==
  /\ reader = "disconnect"
  /\ reader' = "leaving"
  /\ UninitAgdiSession
  /\ hex' = Nobody
  /\ syms' = Nobody
  /\ UNCHANGED <<served, conn, flash, pendingEntry, timers, waiters, gen, counters, history>>

-----------------------------------------------------------------------------
Server ==
  \/ ReaderJoined \/ CleanUp
  \/ LaunchUninit \/ LaunchLoads \/ InitRegisters \/ InitFeatures \/ FlashTail \/ DebugTail
  \/ LaunchReachesEntry
  \/ DisconnectReleases

Client ==
  \/ Accept
  \/ \E isFlash \in BOOLEAN : HandleLaunch(isFlash)
  \/ HandleConfigurationDone
  \/ Resume
  \/ HandleDisconnect
  \/ Drop

Timer == \E t \in timers : TimerSends(t)

Next ==
  \/ Server
  \/ Client
  \/ Timer
  \/ \E w \in waiters : WaiterEnds(w)

\* The threads run on; nothing obliges a client to do anything.
Spec ==
  /\ Init /\ [][Next]_vars
  /\ WF_vars(Server)
  /\ WF_vars(Timer)

-----------------------------------------------------------------------------
\* The types; counters stay within their bounds.
TypeOK ==
  /\ served \in Anyone
  /\ conn \in Anyone
  /\ reader \in ReaderAt
  /\ flash \in BOOLEAN
  /\ active \in BOOLEAN
  /\ dll \in DllAt
  /\ hex \in Anyone
  /\ syms \in Anyone
  /\ pendingEntry \in Anyone
  /\ timers \subseteq [of : Clients, nth : Nat]
  /\ gen \in Nat
  /\ waiters \subseteq [gen : 1 .. gen, of : Clients]
  /\ launches \in [Clients -> 0 .. MaxLaunches]
  /\ configs \in [Clients -> 0 .. MaxConfigs]
  /\ owed \in [Clients -> Nat]
  /\ entryStops \in [Clients -> Nat]
  /\ stops \in [Clients -> SUBSET Clients]
  /\ flashFailed \in BOOLEAN
  /\ orphaned \in BOOLEAN

\* Unless a client left something behind, the stopped events a client receives
\* are for its own launches and resumes: a disconnect retires the waiters
\* of its client before the next one is served (HandleDisconnect, 521).
StopsOwn == ~ orphaned => \A c \in Clients : stops[c] \subseteq {c}

\* A launch is announced by at most one entry stop, however often the client
\* sends configurationDone (HandleConfigurationDone, 495-496).
EntryStopOnce == ~ orphaned => \A c \in Clients : entryStops[c] <= owed[c]

\* Between two clients no session is active, no image is kept, and the adapter
\* is not held by a DLL that nobody will release (RunSession, 257-263), however
\* the last client left and whichever step of its launch failed.
CleanAccept ==
  reader = "accept" =>
    /\ ~ active
    /\ hex = Nobody
    /\ dll = "registered" => flashFailed

\* A client's debug session runs with the image and the symbols of its own
\* program: a launch that fails over an active session leaves no session.
SessionHasProgram ==
  active /\ ~ flash /\ reader = "idle" => hex = conn /\ syms = conn

Registration == reader = "init" /\ reader' = "features"

\* The registration chain is run on a DLL that has not been registered since it
\* was loaded (UninitAgdiSession reloads it for that), unless a flash tail
\* failed before.
FreshDll == [][Registration /\ ~ flashFailed => dll # "registered"]_vars

\* A client that has launched and said configurationDone is told of the entry
\* stop, or has gone (HandleConfigurationDone).
EntryStopArrives ==
  \A c \in Clients :
    owed[c] > 0 /\ conn = c /\ pendingEntry # c ~> entryStops[c] > 0 \/ conn # c

\* InitAgdiSession (run_control.cpp:591): no UNINIT is needed before the
\* registration, the "DLL is freshly loaded each session".
DllFreshEachSession == [][Registration => dll # "registered"]_vars

\* RunSession (dap_server.cpp:257-258): the session is cleaned up "so the next
\* session starts fresh"; no entry stop of the old one is still pending.
NextSessionFresh == reader = "accept" => pendingEntry = Nobody

=============================================================================
