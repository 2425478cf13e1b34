------------------------- MODULE DapSession_proofs -------------------------
(***************************************************************************)
(* Theorems about one client after the other, for any number of clients,   *)
(* launches, configurationDone requests and resumes: the DLL, the image    *)
(* and the symbols follow the session, and, while no client has left       *)
(* anything behind, what a client receives is its own.                     *)
(*                                                                         *)
(* The invariant has two halves.  ConnInv, DllInv and ImageInv are about   *)
(* the place the reader has reached and hold always.  SendersInv and       *)
(* EntryInv are about what can still send and hold while ~ orphaned: the   *)
(* stops received are right because of who is waiting to send, and the     *)
(* entry stops are bounded only with those under way and the one pending.  *)
(***************************************************************************)
EXTENDS DapSession, FiniteSetTheorems, TLAPS

-----------------------------------------------------------------------------
(* The parts of the inductive invariant. *)

\* A client is connected exactly while the reader serves it, and it is the last.
ConnInv ==
  /\ conn # Nobody => conn = served
  /\ conn = Nobody <=> reader \in {"accept", "cleanup"}

\* Where an active session, and a DLL that is registered without one, can be.
DllInv ==
  /\ active => dll = "registered"
  /\ reader \in {"load", "init", "features", "tail"} => ~ active
  /\ reader \in {"features", "tail"} => dll = "registered"
  /\ dll = "registered" /\ ~ active /\ ~ flashFailed => reader \in {"features", "tail"}

\* What a launch has loaded.
ImageInv ==
  /\ reader \in {"init", "features", "tail", "entry"} => hex = conn
  /\ reader \in {"init", "features", "tail", "entry"} /\ ~ flash => syms = conn
  /\ reader = "entry" => ~ flash
  /\ SessionHasProgram
  /\ reader = "accept" => ~ active /\ hex = Nobody

TimersOf(c) == {t \in timers : t.of = c}

\* What can still send, as long as no client has left anything behind.
SendersInv ==
  /\ pendingEntry \in {Nobody, conn}
  /\ \A t \in timers : t.of = conn /\ t.nth < configs[conn]
  /\ \A w \in waiters : w.gen = gen =>
       w.of = conn /\ reader \notin {"disconnect", "leaving", "cleanup", "accept"}

\* An entry stop is owed for each one sent, on its way or pending.
EntryInv ==
  /\ IsFiniteSet(timers)
  /\ \A c \in Clients :
       entryStops[c] + Cardinality(TimersOf(c)) + (IF pendingEntry = c THEN 1 ELSE 0) <= owed[c]

\* The server starts in a state of the right types.
LEMMA TypeInit == Init => TypeOK
  <1> SUFFICES ASSUME Init PROVE TypeOK
    OBVIOUS
  <1> USE ConstantsAssumption DEF Init, Anyone, Clients, Nobody, ReaderAt, DllAt
  <1>1. flash \in BOOLEAN /\ active \in BOOLEAN /\ flashFailed \in BOOLEAN /\ orphaned \in BOOLEAN
    BY Zenon
  <1>2. /\ launches \in [Clients -> 0 .. MaxLaunches]
        /\ configs \in [Clients -> 0 .. MaxConfigs]
        /\ owed \in [Clients -> Nat]
        /\ entryStops \in [Clients -> Nat]
        /\ stops \in [Clients -> SUBSET Clients]
    OBVIOUS
  <1>3. timers \subseteq [of : Clients, nth : Nat] /\ waiters \subseteq [gen : 1 .. gen, of : Clients]
    OBVIOUS
  <1> QED
    BY <1>1, <1>2, <1>3 DEF TypeOK

-----------------------------------------------------------------------------
(* One step, whatever a client left behind. *)

\* Every step keeps the types; that counters are indexed by a client needs ConnInv.
LEMMA TypeStep ==
  TypeOK /\ ConnInv /\ [Next]_vars => TypeOK'
  <1> SUFFICES ASSUME TypeOK, ConnInv, [Next]_vars PROVE TypeOK'
    OBVIOUS
  <1> USE ConstantsAssumption DEF Anyone, Clients, Nobody, ReaderAt, DllAt, counters, history
  <1>1. CASE ReaderJoined
    BY <1>1 DEF ReaderJoined, TypeOK, ConnInv
  <1>2. CASE CleanUp
    BY <1>2 DEF CleanUp, UninitAgdiSession, ReleaseAdapter, TypeOK, ConnInv
  <1>3. CASE LaunchUninit
    BY <1>3 DEF LaunchUninit, UninitAgdiSession, ReleaseAdapter, TypeOK, ConnInv
  <1>4. CASE LaunchLoads
    BY <1>4 DEF LaunchLoads, TypeOK, ConnInv
  <1>5. CASE InitRegisters
    BY <1>5 DEF InitRegisters, TypeOK, ConnInv
  <1>6. CASE InitFeatures
    BY <1>6 DEF InitFeatures, ReleaseAdapter, TypeOK, ConnInv
  <1>7. CASE FlashTail
    BY <1>7 DEF FlashTail, TypeOK, ConnInv
  <1>8. CASE DebugTail
    BY <1>8 DEF DebugTail, TypeOK, ConnInv
  <1>9. CASE LaunchReachesEntry
    <2>5. conn \in Clients
      BY <1>9 DEF LaunchReachesEntry, EntryIs, TypeOK, ConnInv
    <2>1. owed \in [Clients -> Nat] /\ owed' = [owed EXCEPT ![conn] = @ + 1]
      BY <1>9, Zenon DEF LaunchReachesEntry, EntryIs, TypeOK
    <2>4. owed' \in [Clients -> Nat]
      BY <2>1, <2>5
    <2>2. pendingEntry' \in Anyone
      BY <1>9, Zenon DEF LaunchReachesEntry, EntryIs, TypeOK
    <2> QED
      BY <1>9, <2>2, <2>4 DEF LaunchReachesEntry, EntryIs, TypeOK
  <1>10. CASE DisconnectReleases
    BY <1>10 DEF DisconnectReleases, UninitAgdiSession, ReleaseAdapter, TypeOK, ConnInv
  <1>11. CASE Accept
    BY <1>11 DEF Accept, TypeOK, ConnInv
  <1>12. CASE HandleConfigurationDone
    <2>1. conn \in Clients /\ configs[conn] \in Nat
      BY <1>12 DEF HandleConfigurationDone, ConfigurationDoneLeaves, TypeOK, ConnInv
    <2>2. configs' \in [Clients -> 0 .. MaxConfigs]
      <3>1. /\ configs \in [Clients -> 0 .. MaxConfigs] /\ configs[conn] < MaxConfigs
            /\ configs' = [configs EXCEPT ![conn] = @ + 1]
        BY <1>12, Zenon DEF HandleConfigurationDone, ConfigurationDoneLeaves, TypeOK
      <3> QED
        BY <2>1, <3>1
    <2>3. timers' \subseteq [of : Clients, nth : Nat]
      <3>1. /\ timers \subseteq [of : Clients, nth : Nat] /\ pendingEntry \in Anyone
            /\ timers' = IF pendingEntry = Nobody THEN timers
                         ELSE timers \cup {[of |-> pendingEntry, nth |-> configs[conn]]}
        BY <1>12, Zenon DEF HandleConfigurationDone, ConfigurationDoneLeaves, TypeOK
      <3> QED
        BY <2>1, <3>1
    <2> QED
      BY <1>12, <2>2, <2>3 DEF HandleConfigurationDone, ConfigurationDoneLeaves, TypeOK
  <1>13. CASE Resume
    <2>1. conn \in Clients
      BY <1>13 DEF Resume, WaitFor, TypeOK, ConnInv
    <2>2. gen' \in Nat /\ waiters' \subseteq [gen : 1 .. gen', of : Clients]
      <3>1. /\ gen \in Nat /\ waiters \subseteq [gen : 1 .. gen, of : Clients]
            /\ gen' = gen + 1 /\ waiters' = waiters \cup {[gen |-> gen + 1, of |-> conn]}
        BY <1>13, Zenon DEF Resume, WaitFor, TypeOK
      <3> QED
        BY <2>1, <3>1
    <2> QED
      BY <1>13, <2>2 DEF Resume, WaitFor, TypeOK
  <1>14. CASE HandleDisconnect
    <2>1. orphaned' \in BOOLEAN
      BY <1>14, Zenon DEF HandleDisconnect, DisconnectWith, TypeOK
    <2>2. gen' \in Nat /\ waiters' \subseteq [gen : 1 .. gen', of : Clients]
      BY <1>14 DEF HandleDisconnect, DisconnectWith, TypeOK
    <2> QED
      BY <1>14, <2>1, <2>2 DEF HandleDisconnect, DisconnectWith, TypeOK
  <1>15. CASE Drop
    BY <1>15 DEF Drop, TypeOK, ConnInv
  <1>16. ASSUME NEW isFlash \in BOOLEAN, HandleLaunch(isFlash) PROVE TypeOK'
    <2>1. launches' \in [Clients -> 0 .. MaxLaunches]
      <3>1. /\ launches \in [Clients -> 0 .. MaxLaunches] /\ launches[conn] < MaxLaunches
            /\ launches' = [launches EXCEPT ![conn] = @ + 1] /\ reader = "idle"
        BY <1>16, Zenon DEF HandleLaunch, LaunchTo, TypeOK
      <3>2. conn \in Clients
        BY <3>1 DEF TypeOK, ConnInv
      <3> QED
        BY <3>1, <3>2
    <2>2. reader' \in ReaderAt /\ flash' \in BOOLEAN
      BY <1>16, Zenon DEF HandleLaunch, LaunchTo, TypeOK
    <2> QED
      BY <1>16, <2>1, <2>2 DEF HandleLaunch, LaunchTo, TypeOK
  <1>17. ASSUME NEW t \in timers, TimerSends(t) PROVE TypeOK'
    <2>1. stops' \in [Clients -> SUBSET Clients]
      BY <1>17 DEF TimerSends, Deliver, TypeOK
    <2>2. entryStops' \in [Clients -> Nat]
      <3>1. /\ entryStops \in [Clients -> Nat]
            /\ entryStops' = IF conn = Nobody THEN entryStops ELSE [entryStops EXCEPT ![conn] = @ + 1]
        BY <1>17, Zenon DEF TimerSends, TypeOK
      <3>2. conn = Nobody \/ conn \in Clients
        BY DEF TypeOK
      <3> QED
        BY <3>1, <3>2
    <2>3. timers' \subseteq [of : Clients, nth : Nat]
      BY <1>17 DEF TimerSends, TypeOK
    <2> HIDE DEF Anyone, Clients, Nobody, ReaderAt, DllAt
    <2> QED
      BY <1>17, <2>1, <2>2, <2>3 DEF TimerSends, TypeOK
  <1>18. ASSUME NEW w \in waiters, WaiterEnds(w) PROVE TypeOK'
    <2>1. stops' \in [Clients -> SUBSET Clients]
      <3>1. /\ stops \in [Clients -> SUBSET Clients] /\ w.of \in Clients
            /\ \/ stops' = stops \/ stops' = [stops EXCEPT ![conn] = @ \cup {w.of}]
        BY <1>18 DEF WaiterEnds, Deliver, TypeOK
      <3> QED
        BY <3>1
    <2>2. waiters' \subseteq [gen : 1 .. gen, of : Clients]
      BY <1>18 DEF WaiterEnds, TypeOK
    <2> HIDE DEF Anyone, Clients, Nobody, ReaderAt, DllAt
    <2> QED
      BY <1>18, <2>1, <2>2 DEF WaiterEnds, TypeOK
  <1>19. CASE UNCHANGED vars
    <2> HIDE DEF Anyone, Clients, Nobody, ReaderAt, DllAt
    <2> QED
      BY <1>19 DEF vars, TypeOK
  <1> QED
    BY <1>1, <1>2, <1>3, <1>4, <1>5, <1>6, <1>7, <1>8, <1>9, <1>10, <1>11, <1>12, <1>13, <1>14, <1>15, <1>16, <1>17, <1>18, <1>19 DEF Next, Server, Client, Timer

\* Every step keeps the connection and the place of the reader in agreement.
LEMMA ConnStep ==
  TypeOK /\ ConnInv /\ [Next]_vars => ConnInv'
  <1> SUFFICES ASSUME TypeOK, ConnInv, [Next]_vars PROVE ConnInv'
    OBVIOUS
  <1> USE ConstantsAssumption DEF Anyone, Clients, Nobody, ReaderAt, DllAt, counters, history
  <1>1. CASE ReaderJoined
    BY <1>1 DEF ReaderJoined, ConnInv, TypeOK
  <1>2. CASE CleanUp
    BY <1>2 DEF CleanUp, UninitAgdiSession, ReleaseAdapter, ConnInv, TypeOK
  <1>3. CASE LaunchUninit
    BY <1>3 DEF LaunchUninit, UninitAgdiSession, ReleaseAdapter, ConnInv, TypeOK
  <1>4. CASE LaunchLoads
    BY <1>4 DEF LaunchLoads, ConnInv, TypeOK
  <1>5. CASE InitRegisters
    BY <1>5 DEF InitRegisters, ConnInv, TypeOK
  <1>6. CASE InitFeatures
    BY <1>6 DEF InitFeatures, ReleaseAdapter, ConnInv, TypeOK
  <1>7. CASE FlashTail
    BY <1>7 DEF FlashTail, ConnInv, TypeOK
  <1>8. CASE DebugTail
    BY <1>8 DEF DebugTail, ConnInv, TypeOK
  <1>9. CASE LaunchReachesEntry
    BY <1>9 DEF LaunchReachesEntry, EntryIs, ConnInv, TypeOK
  <1>10. CASE DisconnectReleases
    BY <1>10 DEF DisconnectReleases, UninitAgdiSession, ReleaseAdapter, ConnInv, TypeOK
  <1>11. CASE Accept
    BY <1>11 DEF Accept, ConnInv, TypeOK
  <1>12. CASE HandleConfigurationDone
    BY <1>12 DEF HandleConfigurationDone, ConfigurationDoneLeaves, ConnInv, TypeOK
  <1>13. CASE Resume
    BY <1>13 DEF Resume, WaitFor, ConnInv, TypeOK
  <1>14. CASE HandleDisconnect
    BY <1>14 DEF HandleDisconnect, DisconnectWith, ConnInv, TypeOK
  <1>15. CASE Drop
    BY <1>15 DEF Drop, ConnInv, TypeOK
  <1>16. ASSUME NEW isFlash \in BOOLEAN, HandleLaunch(isFlash) PROVE ConnInv'
    BY <1>16 DEF HandleLaunch, LaunchTo, ConnInv, TypeOK
  <1>17. ASSUME NEW t \in timers, TimerSends(t) PROVE ConnInv'
    BY <1>17 DEF TimerSends, Deliver, ConnInv, TypeOK
  <1>18. ASSUME NEW w \in waiters, WaiterEnds(w) PROVE ConnInv'
    BY <1>18 DEF WaiterEnds, Deliver, ConnInv, TypeOK
  <1>19. CASE UNCHANGED vars
    BY <1>19 DEF vars, ConnInv, TypeOK
  <1> QED
    BY <1>1, <1>2, <1>3, <1>4, <1>5, <1>6, <1>7, <1>8, <1>9, <1>10, <1>11, <1>12, <1>13, <1>14, <1>15, <1>16, <1>17, <1>18, <1>19 DEF Next, Server, Client, Timer

\* Every step of a launch, a disconnect or a clean-up keeps the DLL and the session
\* flag in agreement, whichever way it fails.
LEMMA DllStep ==
  TypeOK /\ ConnInv /\ DllInv /\ [Next]_vars => DllInv'
  <1> SUFFICES ASSUME TypeOK, ConnInv, DllInv, [Next]_vars PROVE DllInv'
    OBVIOUS
  <1> USE ConstantsAssumption DEF Anyone, Clients, Nobody, ReaderAt, DllAt, counters, history
  <1>1. CASE ReaderJoined
    BY <1>1 DEF ReaderJoined, ConnInv, TypeOK, DllInv
  <1>2. CASE CleanUp
    BY <1>2 DEF CleanUp, UninitAgdiSession, ReleaseAdapter, ConnInv, TypeOK, DllInv
  <1>3. CASE LaunchUninit
    BY <1>3 DEF LaunchUninit, UninitAgdiSession, ReleaseAdapter, ConnInv, TypeOK, DllInv
  <1>4. CASE LaunchLoads
    BY <1>4 DEF LaunchLoads, ConnInv, TypeOK, DllInv
  <1>5. CASE InitRegisters
    BY <1>5 DEF InitRegisters, ConnInv, TypeOK, DllInv
  <1>6. CASE InitFeatures
    BY <1>6 DEF InitFeatures, ReleaseAdapter, ConnInv, TypeOK, DllInv
  <1>7. CASE FlashTail
    BY <1>7 DEF FlashTail, ConnInv, TypeOK, DllInv
  <1>8. CASE DebugTail
    BY <1>8 DEF DebugTail, ConnInv, TypeOK, DllInv
  <1>9. CASE LaunchReachesEntry
    BY <1>9 DEF LaunchReachesEntry, EntryIs, ConnInv, TypeOK, DllInv
  <1>10. CASE DisconnectReleases
    BY <1>10 DEF DisconnectReleases, UninitAgdiSession, ReleaseAdapter, ConnInv, TypeOK, DllInv
  <1>11. CASE Accept
    BY <1>11 DEF Accept, ConnInv, TypeOK, DllInv
  <1>12. CASE HandleConfigurationDone
    BY <1>12 DEF HandleConfigurationDone, ConfigurationDoneLeaves, ConnInv, TypeOK, DllInv
  <1>13. CASE Resume
    BY <1>13 DEF Resume, WaitFor, ConnInv, TypeOK, DllInv
  <1>14. CASE HandleDisconnect
    BY <1>14 DEF HandleDisconnect, DisconnectWith, ConnInv, TypeOK, DllInv
  <1>15. CASE Drop
    BY <1>15 DEF Drop, ConnInv, TypeOK, DllInv
  <1>16. ASSUME NEW isFlash \in BOOLEAN, HandleLaunch(isFlash) PROVE DllInv'
    BY <1>16 DEF HandleLaunch, LaunchTo, ConnInv, TypeOK, DllInv
  <1>17. ASSUME NEW t \in timers, TimerSends(t) PROVE DllInv'
    BY <1>17 DEF TimerSends, Deliver, ConnInv, TypeOK, DllInv
  <1>18. ASSUME NEW w \in waiters, WaiterEnds(w) PROVE DllInv'
    BY <1>18 DEF WaiterEnds, Deliver, ConnInv, TypeOK, DllInv
  <1>19. CASE UNCHANGED vars
    BY <1>19 DEF vars, ConnInv, TypeOK, DllInv
  <1> QED
    BY <1>1, <1>2, <1>3, <1>4, <1>5, <1>6, <1>7, <1>8, <1>9, <1>10, <1>11, <1>12, <1>13, <1>14, <1>15, <1>16, <1>17, <1>18, <1>19 DEF Next, Server, Client, Timer

\* Every step keeps the image and the symbols those of the session.
LEMMA ImageStep ==
  TypeOK /\ ConnInv /\ DllInv /\ ImageInv /\ [Next]_vars => ImageInv'
  <1> SUFFICES ASSUME TypeOK, ConnInv, DllInv, ImageInv, [Next]_vars PROVE ImageInv'
    OBVIOUS
  <1> USE ConstantsAssumption DEF Anyone, Clients, Nobody, ReaderAt, DllAt, counters, history
  <1>1. CASE ReaderJoined
    BY <1>1 DEF ReaderJoined, ConnInv, TypeOK, DllInv, ImageInv, SessionHasProgram
  <1>2. CASE CleanUp
    BY <1>2 DEF CleanUp, UninitAgdiSession, ReleaseAdapter, ConnInv, TypeOK, DllInv, ImageInv, SessionHasProgram
  <1>3. CASE LaunchUninit
    BY <1>3 DEF LaunchUninit, UninitAgdiSession, ReleaseAdapter, ConnInv, TypeOK, DllInv, ImageInv, SessionHasProgram
  <1>4. CASE LaunchLoads
    BY <1>4 DEF LaunchLoads, ConnInv, TypeOK, DllInv, ImageInv, SessionHasProgram
  <1>5. CASE InitRegisters
    BY <1>5 DEF InitRegisters, ConnInv, TypeOK, DllInv, ImageInv, SessionHasProgram
  <1>6. CASE InitFeatures
    BY <1>6 DEF InitFeatures, ReleaseAdapter, ConnInv, TypeOK, DllInv, ImageInv, SessionHasProgram
  <1>7. CASE FlashTail
    BY <1>7 DEF FlashTail, ConnInv, TypeOK, DllInv, ImageInv, SessionHasProgram
  <1>8. CASE DebugTail
    BY <1>8 DEF DebugTail, ConnInv, TypeOK, DllInv, ImageInv, SessionHasProgram
  <1>9. CASE LaunchReachesEntry
    BY <1>9 DEF LaunchReachesEntry, EntryIs, ConnInv, TypeOK, DllInv, ImageInv, SessionHasProgram
  <1>10. CASE DisconnectReleases
    BY <1>10 DEF DisconnectReleases, UninitAgdiSession, ReleaseAdapter, ConnInv, TypeOK, DllInv, ImageInv, SessionHasProgram
  <1>11. CASE Accept
    BY <1>11 DEF Accept, ConnInv, TypeOK, DllInv, ImageInv, SessionHasProgram
  <1>12. CASE HandleConfigurationDone
    BY <1>12 DEF HandleConfigurationDone, ConfigurationDoneLeaves, ConnInv, TypeOK, DllInv, ImageInv, SessionHasProgram
  <1>13. CASE Resume
    BY <1>13 DEF Resume, WaitFor, ConnInv, TypeOK, DllInv, ImageInv, SessionHasProgram
  <1>14. CASE HandleDisconnect
    BY <1>14 DEF HandleDisconnect, DisconnectWith, ConnInv, TypeOK, DllInv, ImageInv, SessionHasProgram
  <1>15. CASE Drop
    BY <1>15 DEF Drop, ConnInv, TypeOK, DllInv, ImageInv, SessionHasProgram
  <1>16. ASSUME NEW isFlash \in BOOLEAN, HandleLaunch(isFlash) PROVE ImageInv'
    BY <1>16 DEF HandleLaunch, LaunchTo, ConnInv, TypeOK, DllInv, ImageInv, SessionHasProgram
  <1>17. ASSUME NEW t \in timers, TimerSends(t) PROVE ImageInv'
    BY <1>17 DEF TimerSends, Deliver, ConnInv, TypeOK, DllInv, ImageInv, SessionHasProgram
  <1>18. ASSUME NEW w \in waiters, WaiterEnds(w) PROVE ImageInv'
    BY <1>18 DEF WaiterEnds, Deliver, ConnInv, TypeOK, DllInv, ImageInv, SessionHasProgram
  <1>19. CASE UNCHANGED vars
    BY <1>19 DEF vars, ConnInv, TypeOK, DllInv, ImageInv, SessionHasProgram
  <1> QED
    BY <1>1, <1>2, <1>3, <1>4, <1>5, <1>6, <1>7, <1>8, <1>9, <1>10, <1>11, <1>12, <1>13, <1>14, <1>15, <1>16, <1>17, <1>18, <1>19 DEF Next, Server, Client, Timer

-----------------------------------------------------------------------------
(* One step, while no client has left anything behind. *)

\* Nothing left behind is ever taken back: the history only grows.
LEMMA NotOrphanedBefore ==
  ASSUME TypeOK, [Next]_vars, ~ orphaned'
  PROVE  ~ orphaned
  <1> USE ConstantsAssumption DEF counters, history
  <1>1. CASE ReaderJoined
    BY <1>1 DEF ReaderJoined, TypeOK
  <1>2. CASE CleanUp
    BY <1>2 DEF CleanUp, UninitAgdiSession, ReleaseAdapter, TypeOK
  <1>3. CASE LaunchUninit
    BY <1>3 DEF LaunchUninit, UninitAgdiSession, ReleaseAdapter, TypeOK
  <1>4. CASE LaunchLoads
    BY <1>4 DEF LaunchLoads, TypeOK
  <1>5. CASE InitRegisters
    BY <1>5 DEF InitRegisters, TypeOK
  <1>6. CASE InitFeatures
    BY <1>6 DEF InitFeatures, ReleaseAdapter, TypeOK
  <1>7. CASE FlashTail
    BY <1>7 DEF FlashTail, TypeOK
  <1>8. CASE DebugTail
    BY <1>8 DEF DebugTail, TypeOK
  <1>9. CASE LaunchReachesEntry
    BY <1>9 DEF LaunchReachesEntry, EntryIs, TypeOK
  <1>10. CASE DisconnectReleases
    BY <1>10 DEF DisconnectReleases, UninitAgdiSession, ReleaseAdapter, TypeOK
  <1>11. CASE Accept
    BY <1>11 DEF Accept, TypeOK
  <1>12. CASE HandleConfigurationDone
    BY <1>12 DEF HandleConfigurationDone, ConfigurationDoneLeaves, TypeOK
  <1>13. CASE Resume
    BY <1>13 DEF Resume, WaitFor, TypeOK
  <1>14. CASE HandleDisconnect
    BY <1>14 DEF HandleDisconnect, DisconnectWith, TypeOK
  <1>15. CASE Drop
    BY <1>15 DEF Drop, TypeOK
  <1>16. ASSUME NEW isFlash \in BOOLEAN, HandleLaunch(isFlash) PROVE ~ orphaned
    BY <1>16 DEF HandleLaunch, LaunchTo, TypeOK
  <1>17. ASSUME NEW t \in timers, TimerSends(t) PROVE ~ orphaned
    BY <1>17 DEF TimerSends, Deliver, TypeOK
  <1>18. ASSUME NEW w \in waiters, WaiterEnds(w) PROVE ~ orphaned
    BY <1>18 DEF WaiterEnds, Deliver, TypeOK
  <1>19. CASE UNCHANGED vars
    BY <1>19 DEF vars, TypeOK
  <1> QED
    BY <1>1, <1>2, <1>3, <1>4, <1>5, <1>6, <1>7, <1>8, <1>9, <1>10, <1>11, <1>12, <1>13, <1>14, <1>15, <1>16, <1>17, <1>18, <1>19 DEF Next, Server, Client, Timer

\* What can still send belongs to the client that is connected: a disconnect with a
\* session retires the waiters, and who leaves anything else is an orphan.
LEMMA SendersStep ==
  ASSUME TypeOK, TypeOK', ConnInv, SendersInv, [Next]_vars, ~ orphaned'
  PROVE  SendersInv'
  <1> USE ConstantsAssumption DEF counters, history
  <1>1. CASE ReaderJoined
    BY <1>1 DEF ReaderJoined, TypeOK, ConnInv, SendersInv, WaiterCurrent, Anyone, Clients, Nobody
  <1>2. CASE CleanUp
    BY <1>2 DEF CleanUp, UninitAgdiSession, ReleaseAdapter, TypeOK, ConnInv, SendersInv, WaiterCurrent, Anyone, Clients, Nobody
  <1>3. CASE LaunchUninit
    BY <1>3 DEF LaunchUninit, UninitAgdiSession, ReleaseAdapter, TypeOK, ConnInv, SendersInv, WaiterCurrent, Anyone, Clients, Nobody
  <1>4. CASE LaunchLoads
    BY <1>4 DEF LaunchLoads, TypeOK, ConnInv, SendersInv, WaiterCurrent, Anyone, Clients, Nobody
  <1>5. CASE InitRegisters
    BY <1>5 DEF InitRegisters, TypeOK, ConnInv, SendersInv, WaiterCurrent, Anyone, Clients, Nobody
  <1>6. CASE InitFeatures
    BY <1>6 DEF InitFeatures, ReleaseAdapter, TypeOK, ConnInv, SendersInv, WaiterCurrent, Anyone, Clients, Nobody
  <1>7. CASE FlashTail
    BY <1>7 DEF FlashTail, TypeOK, ConnInv, SendersInv, WaiterCurrent, Anyone, Clients, Nobody
  <1>8. CASE DebugTail
    BY <1>8 DEF DebugTail, TypeOK, ConnInv, SendersInv, WaiterCurrent, Anyone, Clients, Nobody
  <1>9. CASE LaunchReachesEntry
    BY <1>9 DEF LaunchReachesEntry, EntryIs, TypeOK, ConnInv, SendersInv, WaiterCurrent, Anyone, Clients, Nobody
  <1>10. CASE DisconnectReleases
    BY <1>10 DEF DisconnectReleases, UninitAgdiSession, ReleaseAdapter, TypeOK, ConnInv, SendersInv, WaiterCurrent, Anyone, Clients, Nobody
  <1>11. CASE Accept
    BY <1>11 DEF Accept, TypeOK, ConnInv, SendersInv, WaiterCurrent, Anyone, Clients, Nobody
  <1>12. CASE HandleConfigurationDone
    <2>1. /\ conn \in Clients /\ configs[conn] \in Nat
          /\ configs' = [configs EXCEPT ![conn] = @ + 1]
          /\ pendingEntry' = Nobody /\ UNCHANGED <<conn, reader, gen, waiters>>
          /\ timers' \subseteq timers \cup {[of |-> conn, nth |-> configs[conn]]}
      BY <1>12 DEF HandleConfigurationDone, ConfigurationDoneLeaves, TypeOK, ConnInv, SendersInv, Anyone
    <2>2. configs'[conn] = configs[conn] + 1
      BY <2>1 DEF TypeOK
    <2>3. \A t \in timers : t.of = conn /\ t.nth \in Nat /\ t.nth < configs[conn]
      BY DEF SendersInv, TypeOK
    <2>4. ASSUME NEW t \in timers' PROVE t.of = conn /\ t.nth < configs'[conn]
      BY <2>1, <2>2, <2>3
    <2> QED
      BY <2>1, <2>4 DEF SendersInv
  <1>13. CASE Resume
    BY <1>13 DEF Resume, WaitFor, TypeOK, ConnInv, SendersInv, WaiterCurrent, Anyone, Clients, Nobody
  <1>14. CASE HandleDisconnect
    <2>1. ~ \E w \in waiters : w.gen = gen'
      <3>1. CASE active
        BY <1>14, <3>1 DEF HandleDisconnect, DisconnectWith, TypeOK
      <3>2. CASE ~ active
        BY <1>14, <3>2 DEF HandleDisconnect, DisconnectWith, WaiterCurrent
      <3> QED
        BY <3>1, <3>2
    <2>2. UNCHANGED <<conn, configs, pendingEntry, timers, waiters>>
      BY <1>14 DEF HandleDisconnect, DisconnectWith
    <2> QED
      BY <2>1, <2>2 DEF SendersInv
  <1>15. CASE Drop
    BY <1>15 DEF Drop, TypeOK, ConnInv, SendersInv, WaiterCurrent, Anyone, Clients, Nobody
  <1>16. ASSUME NEW isFlash \in BOOLEAN, HandleLaunch(isFlash) PROVE SendersInv'
    BY <1>16 DEF HandleLaunch, LaunchTo, TypeOK, ConnInv, SendersInv, WaiterCurrent, Anyone, Clients, Nobody
  <1>17. ASSUME NEW t \in timers, TimerSends(t) PROVE SendersInv'
    BY <1>17 DEF TimerSends, Deliver, TypeOK, ConnInv, SendersInv, WaiterCurrent, Anyone, Clients, Nobody
  <1>18. ASSUME NEW w \in waiters, WaiterEnds(w) PROVE SendersInv'
    BY <1>18 DEF WaiterEnds, Deliver, TypeOK, ConnInv, SendersInv, WaiterCurrent, Anyone, Clients, Nobody
  <1>19. CASE UNCHANGED vars
    BY <1>19 DEF vars, TypeOK, ConnInv, SendersInv, WaiterCurrent, Anyone, Clients, Nobody
  <1> QED
    BY <1>1, <1>2, <1>3, <1>4, <1>5, <1>6, <1>7, <1>8, <1>9, <1>10, <1>11, <1>12, <1>13, <1>14, <1>15, <1>16, <1>17, <1>18, <1>19 DEF Next, Server, Client, Timer

\* So every stopped event goes to the client it is meant for.
LEMMA StopsStep ==
  ASSUME TypeOK, ConnInv, SendersInv, \A c \in Clients : stops[c] \subseteq {c}, [Next]_vars, ~ orphaned'
  PROVE  \A c \in Clients : stops'[c] \subseteq {c}
  <1> USE ConstantsAssumption DEF counters, history
  <1>1. CASE ReaderJoined
    BY <1>1 DEF ReaderJoined, TypeOK, ConnInv, SendersInv, Anyone, Nobody
  <1>2. CASE CleanUp
    BY <1>2 DEF CleanUp, UninitAgdiSession, ReleaseAdapter, TypeOK, ConnInv, SendersInv, Anyone, Nobody
  <1>3. CASE LaunchUninit
    BY <1>3 DEF LaunchUninit, UninitAgdiSession, ReleaseAdapter, TypeOK, ConnInv, SendersInv, Anyone, Nobody
  <1>4. CASE LaunchLoads
    BY <1>4 DEF LaunchLoads, TypeOK, ConnInv, SendersInv, Anyone, Nobody
  <1>5. CASE InitRegisters
    BY <1>5 DEF InitRegisters, TypeOK, ConnInv, SendersInv, Anyone, Nobody
  <1>6. CASE InitFeatures
    BY <1>6 DEF InitFeatures, ReleaseAdapter, TypeOK, ConnInv, SendersInv, Anyone, Nobody
  <1>7. CASE FlashTail
    BY <1>7 DEF FlashTail, TypeOK, ConnInv, SendersInv, Anyone, Nobody
  <1>8. CASE DebugTail
    BY <1>8 DEF DebugTail, TypeOK, ConnInv, SendersInv, Anyone, Nobody
  <1>9. CASE LaunchReachesEntry
    BY <1>9 DEF LaunchReachesEntry, EntryIs, TypeOK, ConnInv, SendersInv, Anyone, Nobody
  <1>10. CASE DisconnectReleases
    BY <1>10 DEF DisconnectReleases, UninitAgdiSession, ReleaseAdapter, TypeOK, ConnInv, SendersInv, Anyone, Nobody
  <1>11. CASE Accept
    BY <1>11 DEF Accept, TypeOK, ConnInv, SendersInv, Anyone, Nobody
  <1>12. CASE HandleConfigurationDone
    BY <1>12 DEF HandleConfigurationDone, ConfigurationDoneLeaves, TypeOK, ConnInv, SendersInv, Anyone, Nobody
  <1>13. CASE Resume
    BY <1>13 DEF Resume, WaitFor, TypeOK, ConnInv, SendersInv, Anyone, Nobody
  <1>14. CASE HandleDisconnect
    BY <1>14 DEF HandleDisconnect, DisconnectWith, TypeOK, ConnInv, SendersInv, Anyone, Nobody
  <1>15. CASE Drop
    BY <1>15 DEF Drop, TypeOK, ConnInv, SendersInv, Anyone, Nobody
  <1>16. ASSUME NEW isFlash \in BOOLEAN, HandleLaunch(isFlash) PROVE \A c \in Clients : stops'[c] \subseteq {c}
    BY <1>16 DEF HandleLaunch, LaunchTo, TypeOK, ConnInv, SendersInv, Anyone, Nobody
  <1>17. ASSUME NEW t \in timers, TimerSends(t) PROVE \A c \in Clients : stops'[c] \subseteq {c}
    BY <1>17 DEF TimerSends, Deliver, TypeOK, ConnInv, SendersInv, Anyone, Nobody
  <1>18. ASSUME NEW w \in waiters, WaiterEnds(w) PROVE \A c \in Clients : stops'[c] \subseteq {c}
    BY <1>18 DEF WaiterEnds, Deliver, TypeOK, ConnInv, SendersInv, Anyone, Nobody
  <1>19. CASE UNCHANGED vars
    BY <1>19 DEF vars, TypeOK, ConnInv, SendersInv, Anyone, Nobody
  <1> QED
    BY <1>1, <1>2, <1>3, <1>4, <1>5, <1>6, <1>7, <1>8, <1>9, <1>10, <1>11, <1>12, <1>13, <1>14, <1>15, <1>16, <1>17, <1>18, <1>19 DEF Next, Server, Client, Timer

\* An entry stop moves from pending to a timer to sent, and is counted once.
LEMMA EntryStep ==
  ASSUME TypeOK, ConnInv, SendersInv, EntryInv, [Next]_vars, ~ orphaned'
  PROVE  EntryInv'
  <1> USE ConstantsAssumption DEF counters, history
  <1>1. CASE ReaderJoined
    BY <1>1 DEF ReaderJoined, EntryInv, TimersOf
  <1>2. CASE CleanUp
    BY <1>2 DEF CleanUp, UninitAgdiSession, ReleaseAdapter, EntryInv, TimersOf
  <1>3. CASE LaunchUninit
    BY <1>3 DEF LaunchUninit, UninitAgdiSession, ReleaseAdapter, EntryInv, TimersOf
  <1>4. CASE LaunchLoads
    BY <1>4 DEF LaunchLoads, EntryInv, TimersOf
  <1>5. CASE InitRegisters
    BY <1>5 DEF InitRegisters, EntryInv, TimersOf
  <1>6. CASE InitFeatures
    BY <1>6 DEF InitFeatures, ReleaseAdapter, EntryInv, TimersOf
  <1>7. CASE FlashTail
    BY <1>7 DEF FlashTail, EntryInv, TimersOf
  <1>8. CASE DebugTail
    BY <1>8 DEF DebugTail, EntryInv, TimersOf
  <1>9. CASE LaunchReachesEntry
    <2>1. /\ conn \in Clients /\ timers' = timers /\ entryStops' = entryStops
          /\ pendingEntry' = conn /\ owed' = [owed EXCEPT ![conn] = @ + 1]
          /\ pendingEntry \in {Nobody, conn}
      BY <1>9 DEF LaunchReachesEntry, EntryIs, ConnInv, TypeOK, SendersInv, Anyone
    <2>2. ASSUME NEW c \in Clients
          PROVE  entryStops'[c] + Cardinality(TimersOf(c)') + (IF pendingEntry' = c THEN 1 ELSE 0) <= owed'[c]
      <3>1. TimersOf(c)' = TimersOf(c)
        BY <2>1 DEF TimersOf
      <3>2. Cardinality(TimersOf(c)) \in Nat
        BY FS_Subset, FS_CardinalityType DEF EntryInv, TimersOf
      <3>3. entryStops[c] \in Nat /\ owed[c] \in Nat
        BY DEF TypeOK
      <3>4. entryStops[c] + Cardinality(TimersOf(c)) + (IF pendingEntry = c THEN 1 ELSE 0) <= owed[c]
        BY DEF EntryInv
      <3>5. owed'[c] = IF c = conn THEN owed[c] + 1 ELSE owed[c]
        BY <2>1 DEF TypeOK
      <3>6. c # conn => pendingEntry # c /\ pendingEntry' # c
        BY <2>1 DEF Clients, Nobody
      <3> QED
        BY <2>1, <3>1, <3>2, <3>3, <3>4, <3>5, <3>6
    <2> QED
      BY <2>1, <2>2 DEF EntryInv
  <1>10. CASE DisconnectReleases
    BY <1>10 DEF DisconnectReleases, UninitAgdiSession, ReleaseAdapter, EntryInv, TimersOf
  <1>11. CASE Accept
    BY <1>11 DEF Accept, EntryInv, TimersOf
  <1>12. CASE HandleConfigurationDone
    <2> DEFINE new == [of |-> pendingEntry, nth |-> configs[conn]]
    <2>1. CASE pendingEntry = Nobody
      BY <1>12, <2>1 DEF HandleConfigurationDone, ConfigurationDoneLeaves, EntryInv, TimersOf
    <2>2. CASE pendingEntry # Nobody
      <3>1. /\ pendingEntry = conn /\ conn \in Clients
            /\ timers' = timers \cup {new} /\ pendingEntry' = Nobody
            /\ entryStops' = entryStops /\ owed' = owed
        BY <1>12, <2>2 DEF HandleConfigurationDone, ConfigurationDoneLeaves, SendersInv, TypeOK, Anyone
      <3>2. new \notin timers
        BY <3>1 DEF SendersInv, TypeOK
      <3>3. IsFiniteSet(timers')
        BY <3>1, FS_AddElement DEF EntryInv
      <3>4. ASSUME NEW c \in Clients
            PROVE  entryStops'[c] + Cardinality(TimersOf(c)') + (IF pendingEntry' = c THEN 1 ELSE 0) <= owed'[c]
        <4>1. IsFiniteSet(TimersOf(c))
          BY FS_Subset DEF EntryInv, TimersOf
        <4>2. Cardinality(TimersOf(c)) \in Nat
          BY <4>1, FS_CardinalityType
        <4>3. entryStops[c] \in Nat /\ owed[c] \in Nat
          BY DEF TypeOK
        <4>4. entryStops[c] + Cardinality(TimersOf(c)) + (IF pendingEntry = c THEN 1 ELSE 0) <= owed[c]
          BY DEF EntryInv
        <4>5. CASE c = conn
          <5>1. TimersOf(c)' = TimersOf(c) \cup {new}
            BY <3>1, <4>5 DEF TimersOf
          <5>2. new \notin TimersOf(c)
            BY <3>2 DEF TimersOf
          <5>3. Cardinality(TimersOf(c)') = Cardinality(TimersOf(c)) + 1
            BY <4>1, <5>1, <5>2, FS_AddElement
          <5>4. pendingEntry' # c /\ pendingEntry = c
            BY <3>1, <4>5 DEF Clients, Nobody
          <5> QED
            BY <3>1, <4>2, <4>3, <4>4, <5>3, <5>4
        <4>6. CASE c # conn
          <5>1. TimersOf(c)' = TimersOf(c)
            BY <3>1, <4>6 DEF TimersOf
          <5>2. pendingEntry' # c /\ pendingEntry # c
            BY <3>1, <4>6 DEF Clients, Nobody
          <5> QED
            BY <3>1, <4>4, <5>1, <5>2
        <4> QED
          BY <4>5, <4>6
      <3> QED
        BY <3>3, <3>4 DEF EntryInv
    <2> QED
      BY <2>1, <2>2
  <1>13. CASE Resume
    BY <1>13 DEF Resume, WaitFor, EntryInv, TimersOf
  <1>14. CASE HandleDisconnect
    BY <1>14 DEF HandleDisconnect, DisconnectWith, EntryInv, TimersOf
  <1>15. CASE Drop
    BY <1>15 DEF Drop, EntryInv, TimersOf
  <1>16. ASSUME NEW isFlash \in BOOLEAN, HandleLaunch(isFlash) PROVE EntryInv'
    BY <1>16 DEF HandleLaunch, LaunchTo, EntryInv, TimersOf
  <1>17. ASSUME NEW t \in timers, TimerSends(t) PROVE EntryInv'
    <2>1. /\ t.of = conn /\ conn \in Clients /\ conn # Nobody
          /\ timers' = timers \ {t} /\ pendingEntry' = pendingEntry /\ owed' = owed
          /\ entryStops' = [entryStops EXCEPT ![conn] = @ + 1]
      BY <1>17 DEF TimerSends, SendersInv, TypeOK, Clients, Nobody
    <2>2. IsFiniteSet(timers')
      BY <2>1, FS_RemoveElement DEF EntryInv
    <2>3. ASSUME NEW c \in Clients
          PROVE  entryStops'[c] + Cardinality(TimersOf(c)') + (IF pendingEntry' = c THEN 1 ELSE 0) <= owed'[c]
      <3>1. IsFiniteSet(TimersOf(c))
        BY FS_Subset DEF EntryInv, TimersOf
      <3>2. Cardinality(TimersOf(c)) \in Nat
        BY <3>1, FS_CardinalityType
      <3>3. entryStops[c] \in Nat /\ owed[c] \in Nat
        BY DEF TypeOK
      <3>4. entryStops[c] + Cardinality(TimersOf(c)) + (IF pendingEntry = c THEN 1 ELSE 0) <= owed[c]
        BY DEF EntryInv
      <3>5. CASE c = conn
        <4>1. TimersOf(c)' = TimersOf(c) \ {t} /\ t \in TimersOf(c)
          BY <1>17, <2>1, <3>5 DEF TimersOf
        <4>2. Cardinality(TimersOf(c)') = Cardinality(TimersOf(c)) - 1
          BY <3>1, <4>1, FS_RemoveElement
        <4>3. entryStops'[c] = entryStops[c] + 1
          BY <2>1, <3>5 DEF TypeOK
        <4> QED
          BY <2>1, <3>2, <3>3, <3>4, <4>2, <4>3
      <3>6. CASE c # conn
        <4>1. TimersOf(c)' = TimersOf(c)
          BY <2>1, <3>6 DEF TimersOf
        <4>2. entryStops'[c] = entryStops[c]
          BY <2>1, <3>6 DEF TypeOK
        <4> QED
          BY <2>1, <3>4, <4>1, <4>2
      <3> QED
        BY <3>5, <3>6
    <2> QED
      BY <2>2, <2>3 DEF EntryInv
  <1>18. ASSUME NEW w \in waiters, WaiterEnds(w) PROVE EntryInv'
    BY <1>18 DEF WaiterEnds, Deliver, EntryInv, TimersOf
  <1>19. CASE UNCHANGED vars
    BY <1>19 DEF vars, EntryInv, TimersOf
  <1> QED
    BY <1>1, <1>2, <1>3, <1>4, <1>5, <1>6, <1>7, <1>8, <1>9, <1>10, <1>11, <1>12, <1>13, <1>14, <1>15, <1>16, <1>17, <1>18, <1>19 DEF Next, Server, Client, Timer

-----------------------------------------------------------------------------
\* The inductive invariant.
Inv ==
  /\ TypeOK /\ ConnInv /\ DllInv /\ ImageInv
  /\ ~ orphaned => SendersInv /\ StopsOwn /\ EntryInv

\* It holds when the server starts ...
LEMMA InvInit == Init => Inv
  <1> SUFFICES ASSUME Init PROVE Inv
    OBVIOUS
  <1>1. ConnInv /\ DllInv /\ ImageInv
    BY DEF Init, ConnInv, DllInv, ImageInv, SessionHasProgram, Nobody
  <1>2. SendersInv
    BY DEF Init, SendersInv
  <1>3. StopsOwn
    BY DEF Init, StopsOwn
  <1>4. EntryInv
    <2>1. \A c \in Clients : TimersOf(c) = {}
      BY DEF Init, TimersOf
    <2>2. IsFiniteSet(timers) /\ \A c \in Clients : Cardinality(TimersOf(c)) = 0
      BY <2>1, FS_EmptySet DEF Init
    <2> QED
      BY <2>2 DEF Init, EntryInv, Clients, Nobody
  <1> QED
    BY <1>1, <1>2, <1>3, <1>4, TypeInit DEF Inv

\* ... every step keeps it ...
LEMMA InvStep == Inv /\ [Next]_vars => Inv'
  <1> SUFFICES ASSUME Inv, [Next]_vars PROVE Inv'
    OBVIOUS
  <1>1. TypeOK' /\ ConnInv' /\ DllInv' /\ ImageInv'
    BY TypeStep, ConnStep, DllStep, ImageStep DEF Inv
  <1>2. ASSUME ~ orphaned' PROVE SendersInv' /\ StopsOwn' /\ EntryInv'
    <2>1. ~ orphaned
      BY <1>2, NotOrphanedBefore DEF Inv
    <2>2. SendersInv' /\ EntryInv'
      BY <1>1, <1>2, <2>1, SendersStep, EntryStep DEF Inv
    <2>3. \A c \in Clients : stops[c] \subseteq {c}
      BY <2>1 DEF Inv, StopsOwn
    <2>4. \A c \in Clients : stops'[c] \subseteq {c}
      BY <1>2, <2>1, <2>3, StopsStep DEF Inv
    <2> QED
      BY <2>2, <2>4 DEF StopsOwn
  <1> QED
    BY <1>1, <1>2 DEF Inv

\* ... so it always holds.
LEMMA InvAlways == Spec => []Inv
  BY InvInit, InvStep, PTL DEF Spec

\* The variables keep their types: every waiter is of a generation that has begun,
\* and no counter passes its bound.
THEOREM TypeCorrect == Spec => []TypeOK
  BY InvAlways, PTL DEF Inv

\* Between two clients no session is active, no image is loaded, and the adapter is
\* held only after a flash tail has failed (RunSession, UninitAgdiSession).
THEOREM AdapterReleased == Spec => []CleanAccept
  <1>1. Inv => CleanAccept
    BY DEF Inv, DllInv, ImageInv, CleanAccept
  <1> QED
    BY <1>1, InvAlways, PTL

\* A debug session always runs with the image and symbols of its own client, however
\* the launches before it ended (HandleLaunch).
THEOREM ProgramOfTheSession == Spec => []SessionHasProgram
  <1>1. Inv => SessionHasProgram
    BY DEF Inv, ImageInv
  <1> QED
    BY <1>1, InvAlways, PTL

\* The registration chain runs on a freshly loaded DLL, unless a flash tail has failed
\* (InitAgdiSession, UninitAgdiSession).
THEOREM OneRegistrationPerLoad == Spec => FreshDll
  <1>1. Inv /\ [Next]_vars => [Registration /\ ~ flashFailed => dll # "registered"]_vars
    BY DEF Inv, DllInv, Registration
  <1> QED
    BY <1>1, InvAlways, PTL DEF Spec, FreshDll

\* While no client leaves anything behind, a client receives no stopped event of
\* another one (HandleDisconnect, WaitAndSendStopped).
THEOREM StopsStayWithTheirClient == Spec => []StopsOwn
  <1>1. Inv => StopsOwn
    BY DEF Inv, StopsOwn
  <1> QED
    BY <1>1, InvAlways, PTL

\* While no client leaves anything behind, a client receives at most one entry stop for
\* each launch, however often it sends configurationDone (HandleConfigurationDone).
THEOREM EntryStopsAreOwed == Spec => []EntryStopOnce
  <1>1. ASSUME Inv, ~ orphaned, NEW c \in Clients PROVE entryStops[c] <= owed[c]
    <2>1. IsFiniteSet(TimersOf(c))
      BY <1>1, FS_Subset DEF Inv, EntryInv, TimersOf
    <2>2. Cardinality(TimersOf(c)) \in Nat
      BY <2>1, FS_CardinalityType
    <2>3. entryStops[c] \in Nat /\ owed[c] \in Nat
      BY <1>1 DEF Inv, TypeOK
    <2>4. entryStops[c] + Cardinality(TimersOf(c)) + (IF pendingEntry = c THEN 1 ELSE 0) <= owed[c]
      BY <1>1 DEF Inv, EntryInv
    <2> QED
      BY <2>2, <2>3, <2>4
  <1>2. Inv => EntryStopOnce
    BY <1>1 DEF EntryStopOnce
  <1> QED
    BY <1>2, InvAlways, PTL

=============================================================================
