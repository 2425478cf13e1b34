------------------------- MODULE RunControl_proofs -------------------------
(***************************************************************************)
(* Theorems about running and halting the target: what RunControl.tla      *)
(* claims of the client, the reader and the main thread holds for any      *)
(* number of requests and of moves of a step, any interleaving and any     *)
(* number of waiters.                                                      *)
(*                                                                         *)
(* The invariant is RunInv, with the types.  None of the properties is     *)
(* inductive alone: that a client told of a halt finds the target halted   *)
(* rests on the generation check of every waiter, which rests on who may   *)
(* have posted a run and on who may have set the event.  Under Calm each   *)
(* action keeps each of the five parts; DepthInv is kept by all.           *)
(***************************************************************************)
EXTENDS RunControl, TLAPS

-----------------------------------------------------------------------------
(* What the posted messages say of runs, under the three changes they see. *)

\* RequestRun and RequestRunToAddr, when no run is posted (PostMessage).
LEMMA AppendRun ==
  ASSUME NEW q \in Seq({"run", "stop"}), ~ Posted(q)
  PROVE  AtMostOneRun(Append(q, "run"))
  BY DEF Posted, AtMostOneRun

\* RequestStop posts no run.
LEMMA AppendStop ==
  ASSUME NEW q \in Seq({"run", "stop"})
  PROVE  /\ Posted(Append(q, "stop")) <=> Posted(q)
         /\ AtMostOneRun(q) => AtMostOneRun(Append(q, "stop"))
  <1>1. /\ Len(q) \in Nat
        /\ DOMAIN q = 1 .. Len(q)
        /\ DOMAIN Append(q, "stop") = 1 .. Len(q) + 1
        /\ Append(q, "stop")[Len(q) + 1] # "run"
        /\ \A i \in 1 .. Len(q) : Append(q, "stop")[i] = q[i]
    OBVIOUS
  <1>2. Posted(Append(q, "stop")) => Posted(q)
    BY <1>1 DEF Posted
  <1>3. Posted(q) => Posted(Append(q, "stop"))
    <2> SUFFICES ASSUME NEW i \in 1 .. Len(q), q[i] = "run" PROVE Posted(Append(q, "stop"))
      BY <1>1 DEF Posted
    <2> QED
      BY <1>1 DEF Posted
  <1>4. AtMostOneRun(q) => AtMostOneRun(Append(q, "stop"))
    BY <1>1 DEF AtMostOneRun
  <1> QED
    BY <1>2, <1>3, <1>4

\* HwndMsgProc takes the only run that is posted.
LEMMA TailRun ==
  ASSUME NEW q \in Seq({"run", "stop"}), q # <<>>, Head(q) = "run", AtMostOneRun(q)
  PROVE  Posted(q) /\ ~ Posted(Tail(q)) /\ AtMostOneRun(Tail(q))
  <1>1. /\ Len(q) \in Nat /\ Len(q) >= 1
        /\ DOMAIN q = 1 .. Len(q)
        /\ DOMAIN Tail(q) = 1 .. Len(q) - 1
        /\ q[1] = "run"
        /\ \A i \in 1 .. Len(q) - 1 : Tail(q)[i] = q[i + 1]
    OBVIOUS
  <1>2. Posted(q)
    BY <1>1 DEF Posted
  <1>3. \A i \in 1 .. Len(q) - 1 : Tail(q)[i] # "run"
    BY <1>1 DEF AtMostOneRun
  <1> QED
    BY <1>1, <1>2, <1>3 DEF Posted, AtMostOneRun

\* HwndMsgProc takes a stop.
LEMMA TailStop ==
  ASSUME NEW q \in Seq({"run", "stop"}), q # <<>>, Head(q) = "stop"
  PROVE  /\ Posted(Tail(q)) <=> Posted(q)
         /\ AtMostOneRun(q) => AtMostOneRun(Tail(q))
  <1>1. /\ Len(q) \in Nat /\ Len(q) >= 1
        /\ DOMAIN q = 1 .. Len(q)
        /\ DOMAIN Tail(q) = 1 .. Len(q) - 1
        /\ q[1] = "stop"
        /\ \A i \in 1 .. Len(q) - 1 : Tail(q)[i] = q[i + 1]
    OBVIOUS
  <1>2. ASSUME NEW i \in 1 .. Len(q), q[i] = "run" PROVE i - 1 \in 1 .. Len(q) - 1 /\ Tail(q)[i - 1] = "run"
    BY <1>1, <1>2
  <1>3. Posted(Tail(q)) => Posted(q)
    BY <1>1 DEF Posted
  <1>4. Posted(q) => Posted(Tail(q))
    <2> SUFFICES ASSUME NEW i \in 1 .. Len(q), q[i] = "run" PROVE Posted(Tail(q))
      BY <1>1 DEF Posted
    <2> QED
      BY <1>1, <1>2 DEF Posted
  <1>5. AtMostOneRun(q) => AtMostOneRun(Tail(q))
    <2> SUFFICES ASSUME AtMostOneRun(q), NEW i \in DOMAIN Tail(q), NEW j \in DOMAIN Tail(q),
                        Tail(q)[i] = "run", Tail(q)[j] = "run"
                 PROVE  i = j
      BY DEF AtMostOneRun
    <2>1. i + 1 = j + 1
      BY <1>1 DEF AtMostOneRun
    <2> QED
      BY <1>1, <2>1
  <1> QED
    BY <1>3, <1>4, <1>5

-----------------------------------------------------------------------------
\* The session starts in a state of the right types (HandleLaunch, halted after the reset).
LEMMA TypeInit == Init => TypeOK
  <1> SUFFICES ASSUME Init PROVE TypeOK
    OBVIOUS
  <1> USE ConstantsAssumption DEF Init, Requests, ReaderAt, Launching, MainAt, WaiterAt, Resumes
  <1>1. event \in BOOLEAN /\ torn \in BOOLEAN /\ crashed \in {"none", "run", "instruction"}
    BY Zenon
  <1>2. queue \in Seq({"run", "stop"})
    OBVIOUS
  <1>3. 0 \in 0 .. MaxRequests /\ 0 \in 0 .. MaxMoves /\ 0 \in Nat
    OBVIOUS
  <1>4. waiters \subseteq [gen : 1 .. gen, at : WaiterAt]
    OBVIOUS
  <1> QED
    BY <1>1, <1>2, <1>3, <1>4 DEF TypeOK

\* Every step keeps the types; that the depth stays a natural number needs
\* DepthInv (SignalHalt is reached only from inside a GoStep).
LEMMA TypeStep == TypeOK /\ DepthInv /\ [Next]_vars => TypeOK'
  <1> SUFFICES ASSUME TypeOK, DepthInv, [Next]_vars PROVE TypeOK'
    OBVIOUS
  <1> USE ConstantsAssumption DEF TypeOK, Requests, ReaderAt, Launching, MainAt, WaiterAt, Resumes
  <1> USE DEF Crash, registers, Registers, TargetMoves, ReadSome
  <1>1. CASE Client
    BY <1>1 DEF Client, ClientSends
  <1>2. CASE HandleContinue
    BY <1>2 DEF HandleContinue, Dispatch
  <1>3. CASE ContinueReset
    <2>1. event' \in BOOLEAN
      BY <1>3, Zenon DEF ContinueReset
    <2> QED
      BY <1>3, <2>1 DEF ContinueReset
  <1>4. CASE ContinuePost
    BY <1>4 DEF ContinuePost
  <1>5. CASE NewGeneration
    BY <1>5 DEF NewGeneration, SpawnWaiter
  <1>6. CASE HandleStepInstruction
    BY <1>6 DEF HandleStepInstruction, Dispatch
  <1>7. CASE InstructionDone
    BY <1>7 DEF InstructionDone
  <1>8. CASE InstructionCrashes
    BY <1>8 DEF InstructionCrashes
  <1>9. CASE HandleStep
    BY <1>9 DEF HandleStep, Dispatch
  <1>10. CASE MoveInstruction
    <2>1. event' \in BOOLEAN /\ torn' \in BOOLEAN
      BY <1>10, Zenon DEF MoveInstruction
    <2> QED
      BY <1>10, <2>1 DEF MoveInstruction
  <1>11. CASE MoveInstructionDone
    <2>1. event' \in BOOLEAN /\ crashed' \in {"none", "run", "instruction"}
      BY <1>11, Zenon DEF MoveInstructionDone, GoStepReturnsToStep
    <2> QED
      BY <1>11, <2>1 DEF MoveInstructionDone
  <1>12. CASE MoveRun
    BY <1>12 DEF MoveRun
  <1>13. CASE RunReset
    <2>1. event' \in BOOLEAN
      BY <1>13, Zenon DEF RunReset
    <2> QED
      BY <1>13, <2>1 DEF RunReset
  <1>14. CASE RunPost
    BY <1>14 DEF RunPost
  <1>15. CASE RunHalted
    BY <1>15 DEF RunHalted
  <1>16. CASE RunTimesOut
    BY <1>16 DEF RunTimesOut
  <1>17. CASE StopWaitEnds
    BY <1>17 DEF StopWaitEnds
  <1>18. CASE StepSends
    BY <1>18 DEF StepSends
  <1>19. CASE HandleLook
    BY <1>19 DEF HandleLook, Dispatch
  <1>20. CASE LookDone
    BY <1>20 DEF LookDone
  <1>21. CASE HandlePause
    BY <1>21 DEF HandlePause, Dispatch
  <1>22. CASE HandlePauseStops
    <2>1. CASE SupersedeWaiters("pause", "pauseStop")
      BY <2>1 DEF SupersedeWaiters
    <2>2. CASE StopDirect("pauseStop", "pauseStopping")
      BY <2>2 DEF StopDirect
    <2>3. CASE StopDirectReturns("pauseStop", "pauseStopped", "pauseRead")
      <3>1. reader' \in ReaderAt
        BY <2>3, Zenon DEF StopDirectReturns
      <3> QED
        BY <2>3, <3>1 DEF StopDirectReturns
    <2> QED
      BY <1>22, <2>1, <2>2, <2>3 DEF HandlePauseStops
  <1>23. CASE PauseReadRegisters
    <2>1. torn' \in BOOLEAN
      BY <1>23, Zenon DEF PauseReadRegisters, ReadRegisters
    <2>2. fresh' \subseteq Registers /\ moved' = moved
      BY <1>23 DEF PauseReadRegisters, ReadRegisters
    <2> QED
      BY <1>23, <2>1, <2>2 DEF PauseReadRegisters
  <1>24. CASE PauseSends
    BY <1>24 DEF PauseSends
  <1>25. CASE HandleDisconnect
    BY <1>25 DEF HandleDisconnect, Dispatch
  <1>26. CASE HandleDisconnectStops
    <2>1. CASE SupersedeWaiters("disconnect", "disconnectStop")
      BY <2>1 DEF SupersedeWaiters
    <2>2. CASE StopDirect("disconnectStop", "disconnectStopping")
      BY <2>2 DEF StopDirect
    <2>3. CASE StopDirectReturns("disconnectStop", "disconnectStopped", "uninit")
      <3>1. reader' \in ReaderAt
        BY <2>3, Zenon DEF StopDirectReturns
      <3> QED
        BY <2>3, <3>1 DEF StopDirectReturns
    <2> QED
      BY <1>26, <2>1, <2>2, <2>3 DEF HandleDisconnectStops
  <1>27. CASE ReaderEnds
    BY <1>27 DEF ReaderEnds
  <1>28. CASE UninitAgdiSession
    BY <1>28 DEF UninitAgdiSession
  <1>29. CASE DispatchStop
    BY <1>29 DEF DispatchStop
  <1>30. CASE DispatchRun
    <2>1. torn' \in BOOLEAN
      BY <1>30, Zenon DEF DispatchRun
    <2> QED
      BY <1>30, <2>1 DEF DispatchRun
  <1>31. CASE GoStepReturns
    BY <1>31 DEF GoStepReturns, GoStepReturnsWith, ReleaseStopper
  <1>32. CASE MainReadRegisters
    <2>1. torn' \in BOOLEAN
      BY <1>32, Zenon DEF MainReadRegisters, ReadRegisters
    <2>2. fresh' \subseteq Registers /\ moved' = moved
      BY <1>32 DEF MainReadRegisters, ReadRegisters
    <2> QED
      BY <1>32, <2>1, <2>2 DEF MainReadRegisters
  <1>33. CASE SignalHalt
    <2>1. event' \in BOOLEAN
      BY <1>33, Zenon DEF SignalHalt
    <2>2. depth' \in Nat
      BY <1>33 DEF SignalHalt, DepthInv
    <2>3. main' \in MainAt
      BY <1>33, Zenon DEF SignalHalt
    <2> QED
      BY <1>33, <2>1, <2>2, <2>3 DEF SignalHalt
  <1>34. CASE TargetHalts
    BY <1>34 DEF TargetHalts
  <1>35. CASE GoStepCrashes
    BY <1>35 DEF GoStepCrashes, ReleaseStopper
  <1>36. ASSUME NEW g \in Generations, Waiter(g) PROVE TypeOK'
    <2>1. PICK w \in waiters : WaiterWakes(w) \/ WaiterChecks(w) \/ WaiterSends(w)
      BY <1>36, Zenon DEF Waiter
    <2>2. ASSUME NEW to \in WaiterAt PROVE [w EXCEPT !.at = to] \in [gen : 1 .. gen, at : WaiterAt]
      OBVIOUS
    <2>3. CASE WaiterWakes(w)
      <3>1. waiters' \subseteq [gen : 1 .. gen, at : WaiterAt]
        BY <2>2, <2>3 DEF WaiterWakes, WaiterMoves
      <3> QED
        BY <2>3, <3>1 DEF WaiterWakes
    <2>4. CASE WaiterChecks(w)
      <3>1. waiters' \subseteq [gen : 1 .. gen, at : WaiterAt]
        BY <2>2, <2>4 DEF WaiterChecks, WaiterMoves
      <3> QED
        BY <2>4, <3>1 DEF WaiterChecks
    <2>5. CASE WaiterSends(w)
      BY <2>5 DEF WaiterSends
    <2> QED
      BY <2>1, <2>3, <2>4, <2>5
  <1>37. CASE UNCHANGED vars
    BY <1>37 DEF vars
  <1>38. CASE EntryReset
    <2>1. event' \in BOOLEAN
      BY <1>38, Zenon DEF EntryReset
    <2> QED
      BY <1>38, <2>1 DEF EntryReset
  <1>39. CASE EntryPost
    BY <1>39 DEF EntryPost
  <1>40. CASE EntryWaitEnds
    BY <1>40 DEF EntryWaitEnds
  <1>41. CASE EntryReadRegisters
    <2>1. torn' \in BOOLEAN
      BY <1>41, Zenon DEF EntryReadRegisters, ReadRegisters
    <2>2. fresh' \subseteq Registers /\ moved' = moved
      BY <1>41 DEF EntryReadRegisters, ReadRegisters
    <2> QED
      BY <1>41, <2>1, <2>2 DEF EntryReadRegisters
  <1>42. CASE EntrySends
    BY <1>42 DEF EntrySends
  <1>43. CASE MoveToCall
    <2>1. event' \in BOOLEAN /\ crashed' \in {"none", "run", "instruction"}
      BY <1>43, Zenon DEF MoveToCall, GoStepReturnsToStep
    <2> QED
      BY <1>43, <2>1 DEF MoveToCall
  <1> QED
    BY <1>1, <1>2, <1>3, <1>4, <1>5, <1>6, <1>7, <1>8, <1>9, <1>10, <1>11, <1>12, <1>13, <1>14, <1>15, <1>16, <1>17, <1>18, <1>19, <1>20, <1>21, <1>22, <1>23, <1>24, <1>25, <1>26, <1>27, <1>28, <1>29, <1>30, <1>31, <1>32, <1>33, <1>34, <1>35, <1>36, <1>37, <1>38, <1>39, <1>40, <1>41, <1>42, <1>43 DEF Next, Reader, MainThread

\* Every step of every thread keeps the run discipline.
LEMMA RunStep == TypeOK /\ TypeOK' /\ RunInv /\ [Next]_vars => RunInv'
  <1> SUFFICES ASSUME TypeOK, TypeOK', RunInv, [Next]_vars PROVE RunInv'
    OBVIOUS
  <1> USE DEF Requests, Resumes, ReaderAt, Launching, MainAt, WaiterAt
  <1> USE DEF Resuming, Quiet, RunPosted, Calm, Crash, registers, ReadSinceHalt, Registers
  <1> USE DEF TargetMoves, ReadRegisters, ReadSome, GoStepReturnsToStep
  <1>1. CASE Client
    <2>1. DepthInv'
      BY <1>1 DEF Client, ClientSends, RunInv, DepthInv, TypeOK
    <2>2. ASSUME Calm' PROVE OneRun' /\ FreshInv' /\ ReaderInv' /\ ViewInv'
      BY <1>1, <2>2 DEF Client, ClientSends, RunInv, DepthInv, OneRun, FreshInv, ReaderInv, ViewInv, WaiterInv, TypeOK
    <2>3. ASSUME Calm' PROVE WaiterInv'
      BY <1>1, <2>3 DEF Client, ClientSends, RunInv, DepthInv, OneRun, FreshInv, ReaderInv, ViewInv, WaiterInv, TypeOK
    <2> QED
      BY <2>1, <2>2, <2>3 DEF RunInv
  <1>2. CASE HandleContinue
    <2>1. DepthInv'
      BY <1>2 DEF HandleContinue, Dispatch, RunInv, DepthInv, TypeOK
    <2>2. ASSUME Calm' PROVE OneRun' /\ FreshInv' /\ ReaderInv' /\ ViewInv'
      BY <1>2, <2>2 DEF HandleContinue, Dispatch, RunInv, DepthInv, OneRun, FreshInv, ReaderInv, ViewInv, WaiterInv, TypeOK
    <2>3. ASSUME Calm' PROVE WaiterInv'
      BY <1>2, <2>3 DEF HandleContinue, Dispatch, RunInv, DepthInv, OneRun, FreshInv, ReaderInv, ViewInv, WaiterInv, TypeOK
    <2> QED
      BY <2>1, <2>2, <2>3 DEF RunInv
  <1>3. CASE ContinueReset
    <2>1. DepthInv'
      BY <1>3 DEF ContinueReset, RunInv, DepthInv, TypeOK
    <2>2. ASSUME Calm' PROVE OneRun' /\ FreshInv' /\ ReaderInv' /\ ViewInv'
      BY <1>3, <2>2 DEF ContinueReset, RunInv, DepthInv, OneRun, FreshInv, ReaderInv, ViewInv, WaiterInv, TypeOK
    <2>3. ASSUME Calm' PROVE WaiterInv'
      BY <1>3, <2>3 DEF ContinueReset, RunInv, DepthInv, OneRun, FreshInv, ReaderInv, ViewInv, WaiterInv, TypeOK
    <2> QED
      BY <2>1, <2>2, <2>3 DEF RunInv
  <1>4. CASE ContinuePost
    <2>1. DepthInv'
      BY <1>4 DEF ContinuePost, RunInv, DepthInv, TypeOK
    <2>2. ASSUME Calm' PROVE OneRun' /\ FreshInv' /\ ReaderInv' /\ ViewInv'
      BY <1>4, <2>2, AppendRun DEF ContinuePost, RunInv, DepthInv, OneRun, FreshInv, ReaderInv, ViewInv, WaiterInv, TypeOK
    <2>3. ASSUME Calm' PROVE WaiterInv'
      BY <1>4, <2>3, AppendRun DEF ContinuePost, RunInv, DepthInv, OneRun, FreshInv, ReaderInv, ViewInv, WaiterInv, TypeOK
    <2> QED
      BY <2>1, <2>2, <2>3 DEF RunInv
  <1>5. CASE NewGeneration
    <2>1. DepthInv'
      BY <1>5 DEF NewGeneration, SpawnWaiter, RunInv, DepthInv, TypeOK
    <2>2. ASSUME Calm' PROVE OneRun' /\ FreshInv' /\ ReaderInv' /\ ViewInv'
      BY <1>5, <2>2 DEF NewGeneration, SpawnWaiter, RunInv, DepthInv, OneRun, FreshInv, ReaderInv, ViewInv, WaiterInv, TypeOK
    <2>3. ASSUME Calm' PROVE WaiterInv'
      BY <1>5, <2>3 DEF NewGeneration, SpawnWaiter, RunInv, DepthInv, OneRun, FreshInv, ReaderInv, ViewInv, WaiterInv, TypeOK
    <2> QED
      BY <2>1, <2>2, <2>3 DEF RunInv
  <1>6. CASE HandleStepInstruction
    <2>1. DepthInv'
      BY <1>6 DEF HandleStepInstruction, Dispatch, RunInv, DepthInv, TypeOK
    <2>2. ASSUME Calm' PROVE OneRun' /\ FreshInv' /\ ReaderInv' /\ ViewInv'
      BY <1>6, <2>2 DEF HandleStepInstruction, Dispatch, RunInv, DepthInv, OneRun, FreshInv, ReaderInv, ViewInv, WaiterInv, TypeOK
    <2>3. ASSUME Calm' PROVE WaiterInv'
      BY <1>6, <2>3 DEF HandleStepInstruction, Dispatch, RunInv, DepthInv, OneRun, FreshInv, ReaderInv, ViewInv, WaiterInv, TypeOK
    <2> QED
      BY <2>1, <2>2, <2>3 DEF RunInv
  <1>7. CASE InstructionDone
    <2>1. DepthInv'
      BY <1>7 DEF InstructionDone, RunInv, DepthInv, TypeOK
    <2>2. ASSUME Calm' PROVE OneRun' /\ FreshInv' /\ ReaderInv' /\ ViewInv'
      BY <1>7, <2>2 DEF InstructionDone, RunInv, DepthInv, OneRun, FreshInv, ReaderInv, ViewInv, WaiterInv, TypeOK
    <2>3. ASSUME Calm' PROVE WaiterInv'
      BY <1>7, <2>3 DEF InstructionDone, RunInv, DepthInv, OneRun, FreshInv, ReaderInv, ViewInv, WaiterInv, TypeOK
    <2> QED
      BY <2>1, <2>2, <2>3 DEF RunInv
  <1>8. CASE InstructionCrashes
    <2>1. DepthInv'
      BY <1>8 DEF InstructionCrashes, RunInv, DepthInv, TypeOK
    <2>2. ASSUME Calm' PROVE OneRun' /\ FreshInv' /\ ReaderInv' /\ ViewInv'
      BY <1>8, <2>2 DEF InstructionCrashes, RunInv, DepthInv, OneRun, FreshInv, ReaderInv, ViewInv, WaiterInv, TypeOK
    <2>3. ASSUME Calm' PROVE WaiterInv'
      BY <1>8, <2>3 DEF InstructionCrashes, RunInv, DepthInv, OneRun, FreshInv, ReaderInv, ViewInv, WaiterInv, TypeOK
    <2> QED
      BY <2>1, <2>2, <2>3 DEF RunInv
  <1>9. CASE HandleStep
    <2>1. DepthInv'
      BY <1>9 DEF HandleStep, Dispatch, RunInv, DepthInv, TypeOK
    <2>2. ASSUME Calm' PROVE OneRun' /\ FreshInv' /\ ReaderInv' /\ ViewInv'
      BY <1>9, <2>2 DEF HandleStep, Dispatch, RunInv, DepthInv, OneRun, FreshInv, ReaderInv, ViewInv, WaiterInv, TypeOK
    <2>3. ASSUME Calm' PROVE WaiterInv'
      BY <1>9, <2>3 DEF HandleStep, Dispatch, RunInv, DepthInv, OneRun, FreshInv, ReaderInv, ViewInv, WaiterInv, TypeOK
    <2> QED
      BY <2>1, <2>2, <2>3 DEF RunInv
  <1>10. CASE MoveInstruction
    <2>1. DepthInv'
      BY <1>10 DEF MoveInstruction, RunInv, DepthInv, TypeOK
    <2>2. ASSUME Calm' PROVE OneRun' /\ FreshInv' /\ ReaderInv' /\ ViewInv'
      BY <1>10, <2>2 DEF MoveInstruction, RunInv, DepthInv, OneRun, FreshInv, ReaderInv, ViewInv, WaiterInv, TypeOK
    <2>3. ASSUME Calm' PROVE WaiterInv'
      BY <1>10, <2>3 DEF MoveInstruction, RunInv, DepthInv, OneRun, FreshInv, ReaderInv, ViewInv, WaiterInv, TypeOK
    <2> QED
      BY <2>1, <2>2, <2>3 DEF RunInv
  <1>11. CASE MoveInstructionDone
    <2>1. DepthInv'
      BY <1>11 DEF MoveInstructionDone, RunInv, DepthInv, TypeOK
    <2>2. ASSUME Calm' PROVE OneRun' /\ FreshInv' /\ ReaderInv' /\ ViewInv'
      BY <1>11, <2>2 DEF MoveInstructionDone, RunInv, DepthInv, OneRun, FreshInv, ReaderInv, ViewInv, WaiterInv, TypeOK
    <2>3. ASSUME Calm' PROVE WaiterInv'
      BY <1>11, <2>3 DEF MoveInstructionDone, RunInv, DepthInv, OneRun, FreshInv, ReaderInv, ViewInv, WaiterInv, TypeOK
    <2> QED
      BY <2>1, <2>2, <2>3 DEF RunInv
  <1>12. CASE MoveRun
    <2>1. DepthInv'
      BY <1>12 DEF MoveRun, RunInv, DepthInv, TypeOK
    <2>2. ASSUME Calm' PROVE OneRun' /\ FreshInv' /\ ReaderInv' /\ ViewInv'
      BY <1>12, <2>2 DEF MoveRun, RunInv, DepthInv, OneRun, FreshInv, ReaderInv, ViewInv, WaiterInv, TypeOK
    <2>3. ASSUME Calm' PROVE WaiterInv'
      BY <1>12, <2>3 DEF MoveRun, RunInv, DepthInv, OneRun, FreshInv, ReaderInv, ViewInv, WaiterInv, TypeOK
    <2> QED
      BY <2>1, <2>2, <2>3 DEF RunInv
  <1>13. CASE RunReset
    <2>1. DepthInv'
      BY <1>13 DEF RunReset, RunInv, DepthInv, TypeOK
    <2>2. ASSUME Calm' PROVE OneRun' /\ FreshInv' /\ ReaderInv' /\ ViewInv'
      BY <1>13, <2>2 DEF RunReset, RunInv, DepthInv, OneRun, FreshInv, ReaderInv, ViewInv, WaiterInv, TypeOK
    <2>3. ASSUME Calm' PROVE WaiterInv'
      BY <1>13, <2>3 DEF RunReset, RunInv, DepthInv, OneRun, FreshInv, ReaderInv, ViewInv, WaiterInv, TypeOK
    <2> QED
      BY <2>1, <2>2, <2>3 DEF RunInv
  <1>14. CASE RunPost
    <2>1. DepthInv'
      BY <1>14 DEF RunPost, RunInv, DepthInv, TypeOK
    <2>2. ASSUME Calm' PROVE OneRun' /\ FreshInv' /\ ReaderInv' /\ ViewInv'
      BY <1>14, <2>2, AppendRun DEF RunPost, RunInv, DepthInv, OneRun, FreshInv, ReaderInv, ViewInv, WaiterInv, TypeOK
    <2>3. ASSUME Calm' PROVE WaiterInv'
      BY <1>14, <2>3, AppendRun DEF RunPost, RunInv, DepthInv, OneRun, FreshInv, ReaderInv, ViewInv, WaiterInv, TypeOK
    <2> QED
      BY <2>1, <2>2, <2>3 DEF RunInv
  <1>15. CASE RunHalted
    <2>1. DepthInv'
      BY <1>15 DEF RunHalted, RunInv, DepthInv, TypeOK
    <2>2. ASSUME Calm' PROVE OneRun' /\ FreshInv' /\ ReaderInv' /\ ViewInv'
      BY <1>15, <2>2 DEF RunHalted, RunInv, DepthInv, OneRun, FreshInv, ReaderInv, ViewInv, WaiterInv, TypeOK
    <2>3. ASSUME Calm' PROVE WaiterInv'
      BY <1>15, <2>3 DEF RunHalted, RunInv, DepthInv, OneRun, FreshInv, ReaderInv, ViewInv, WaiterInv, TypeOK
    <2> QED
      BY <2>1, <2>2, <2>3 DEF RunInv
  <1>16. CASE RunTimesOut
    <2>1. DepthInv'
      BY <1>16 DEF RunTimesOut, RunInv, DepthInv, TypeOK
    <2>2. ASSUME Calm' PROVE OneRun' /\ FreshInv' /\ ReaderInv' /\ ViewInv'
      BY <1>16, <2>2, AppendStop DEF RunTimesOut, RunInv, DepthInv, OneRun, FreshInv, ReaderInv, ViewInv, WaiterInv, TypeOK
    <2>3. ASSUME Calm' PROVE WaiterInv'
      BY <1>16, <2>3, AppendStop DEF RunTimesOut, RunInv, DepthInv, OneRun, FreshInv, ReaderInv, ViewInv, WaiterInv, TypeOK
    <2> QED
      BY <2>1, <2>2, <2>3 DEF RunInv
  <1>17. CASE StopWaitEnds
    <2>1. DepthInv'
      BY <1>17 DEF StopWaitEnds, RunInv, DepthInv, TypeOK
    <2>2. ASSUME Calm' PROVE OneRun' /\ FreshInv' /\ ReaderInv' /\ ViewInv'
      BY <1>17, <2>2 DEF StopWaitEnds, RunInv, DepthInv, OneRun, FreshInv, ReaderInv, ViewInv, WaiterInv, TypeOK
    <2>3. ASSUME Calm' PROVE WaiterInv'
      BY <1>17, <2>3 DEF StopWaitEnds, RunInv, DepthInv, OneRun, FreshInv, ReaderInv, ViewInv, WaiterInv, TypeOK
    <2> QED
      BY <2>1, <2>2, <2>3 DEF RunInv
  <1>18. CASE StepSends
    <2>1. DepthInv'
      BY <1>18 DEF StepSends, RunInv, DepthInv, TypeOK
    <2>2. ASSUME Calm' PROVE OneRun' /\ FreshInv' /\ ReaderInv' /\ ViewInv'
      BY <1>18, <2>2 DEF StepSends, RunInv, DepthInv, OneRun, FreshInv, ReaderInv, ViewInv, WaiterInv, TypeOK
    <2>3. ASSUME Calm' PROVE WaiterInv'
      BY <1>18, <2>3 DEF StepSends, RunInv, DepthInv, OneRun, FreshInv, ReaderInv, ViewInv, WaiterInv, TypeOK
    <2> QED
      BY <2>1, <2>2, <2>3 DEF RunInv
  <1>19. CASE HandleLook
    <2>1. DepthInv'
      BY <1>19 DEF HandleLook, Dispatch, RunInv, DepthInv, TypeOK
    <2>2. ASSUME Calm' PROVE OneRun' /\ FreshInv' /\ ReaderInv' /\ ViewInv'
      BY <1>19, <2>2 DEF HandleLook, Dispatch, RunInv, DepthInv, OneRun, FreshInv, ReaderInv, ViewInv, WaiterInv, TypeOK
    <2>3. ASSUME Calm' PROVE WaiterInv'
      BY <1>19, <2>3 DEF HandleLook, Dispatch, RunInv, DepthInv, OneRun, FreshInv, ReaderInv, ViewInv, WaiterInv, TypeOK
    <2> QED
      BY <2>1, <2>2, <2>3 DEF RunInv
  <1>20. CASE LookDone
    <2>1. DepthInv'
      BY <1>20 DEF LookDone, RunInv, DepthInv, TypeOK
    <2>2. ASSUME Calm' PROVE OneRun' /\ FreshInv' /\ ReaderInv' /\ ViewInv'
      BY <1>20, <2>2 DEF LookDone, RunInv, DepthInv, OneRun, FreshInv, ReaderInv, ViewInv, WaiterInv, TypeOK
    <2>3. ASSUME Calm' PROVE WaiterInv'
      BY <1>20, <2>3 DEF LookDone, RunInv, DepthInv, OneRun, FreshInv, ReaderInv, ViewInv, WaiterInv, TypeOK
    <2> QED
      BY <2>1, <2>2, <2>3 DEF RunInv
  <1>21. CASE HandlePause
    <2>1. DepthInv'
      BY <1>21 DEF HandlePause, Dispatch, RunInv, DepthInv, TypeOK
    <2>2. ASSUME Calm' PROVE OneRun' /\ FreshInv' /\ ReaderInv' /\ ViewInv'
      BY <1>21, <2>2 DEF HandlePause, Dispatch, RunInv, DepthInv, OneRun, FreshInv, ReaderInv, ViewInv, WaiterInv, TypeOK
    <2>3. ASSUME Calm' PROVE WaiterInv'
      BY <1>21, <2>3 DEF HandlePause, Dispatch, RunInv, DepthInv, OneRun, FreshInv, ReaderInv, ViewInv, WaiterInv, TypeOK
    <2> QED
      BY <2>1, <2>2, <2>3 DEF RunInv
  <1>22. CASE HandlePauseStops
    <2>1. DepthInv'
      BY <1>22 DEF HandlePauseStops, SupersedeWaiters, StopDirect, StopDirectReturns, RunInv, DepthInv, TypeOK
    <2>2. ASSUME Calm' PROVE OneRun' /\ FreshInv' /\ ReaderInv' /\ ViewInv'
      BY <1>22, <2>2 DEF HandlePauseStops, SupersedeWaiters, StopDirect, StopDirectReturns, RunInv, DepthInv, OneRun, FreshInv, ReaderInv, ViewInv, WaiterInv, TypeOK
    <2>3. ASSUME Calm' PROVE WaiterInv'
      BY <1>22, <2>3 DEF HandlePauseStops, SupersedeWaiters, StopDirect, StopDirectReturns, RunInv, DepthInv, OneRun, FreshInv, ReaderInv, ViewInv, WaiterInv, TypeOK
    <2> QED
      BY <2>1, <2>2, <2>3 DEF RunInv
  <1>23. CASE PauseReadRegisters
    <2>1. DepthInv'
      BY <1>23 DEF PauseReadRegisters, RunInv, DepthInv, TypeOK
    <2>2. ASSUME Calm' PROVE OneRun' /\ FreshInv' /\ ReaderInv' /\ ViewInv'
      BY <1>23, <2>2 DEF PauseReadRegisters, RunInv, DepthInv, OneRun, FreshInv, ReaderInv, ViewInv, WaiterInv, TypeOK
    <2>3. ASSUME Calm' PROVE WaiterInv'
      BY <1>23, <2>3 DEF PauseReadRegisters, RunInv, DepthInv, OneRun, FreshInv, ReaderInv, ViewInv, WaiterInv, TypeOK
    <2> QED
      BY <2>1, <2>2, <2>3 DEF RunInv
  <1>24. CASE PauseSends
    <2>1. DepthInv'
      BY <1>24 DEF PauseSends, RunInv, DepthInv, TypeOK
    <2>2. ASSUME Calm' PROVE OneRun' /\ FreshInv' /\ ReaderInv' /\ ViewInv'
      BY <1>24, <2>2 DEF PauseSends, RunInv, DepthInv, OneRun, FreshInv, ReaderInv, ViewInv, WaiterInv, TypeOK
    <2>3. ASSUME Calm' PROVE WaiterInv'
      BY <1>24, <2>3 DEF PauseSends, RunInv, DepthInv, OneRun, FreshInv, ReaderInv, ViewInv, WaiterInv, TypeOK
    <2> QED
      BY <2>1, <2>2, <2>3 DEF RunInv
  <1>25. CASE HandleDisconnect
    <2>1. DepthInv'
      BY <1>25 DEF HandleDisconnect, Dispatch, RunInv, DepthInv, TypeOK
    <2>2. ASSUME Calm' PROVE OneRun' /\ FreshInv' /\ ReaderInv' /\ ViewInv'
      BY <1>25, <2>2 DEF HandleDisconnect, Dispatch, RunInv, DepthInv, OneRun, FreshInv, ReaderInv, ViewInv, WaiterInv, TypeOK
    <2>3. ASSUME Calm' PROVE WaiterInv'
      BY <1>25, <2>3 DEF HandleDisconnect, Dispatch, RunInv, DepthInv, OneRun, FreshInv, ReaderInv, ViewInv, WaiterInv, TypeOK
    <2> QED
      BY <2>1, <2>2, <2>3 DEF RunInv
  <1>26. CASE HandleDisconnectStops
    <2>1. DepthInv'
      BY <1>26 DEF HandleDisconnectStops, SupersedeWaiters, StopDirect, StopDirectReturns, RunInv, DepthInv, TypeOK
    <2>2. ASSUME Calm' PROVE OneRun' /\ FreshInv' /\ ReaderInv' /\ ViewInv'
      BY <1>26, <2>2 DEF HandleDisconnectStops, SupersedeWaiters, StopDirect, StopDirectReturns, RunInv, DepthInv, OneRun, FreshInv, ReaderInv, ViewInv, WaiterInv, TypeOK
    <2>3. ASSUME Calm' PROVE WaiterInv'
      BY <1>26, <2>3 DEF HandleDisconnectStops, SupersedeWaiters, StopDirect, StopDirectReturns, RunInv, DepthInv, OneRun, FreshInv, ReaderInv, ViewInv, WaiterInv, TypeOK
    <2> QED
      BY <2>1, <2>2, <2>3 DEF RunInv
  <1>27. CASE ReaderEnds
    <2>1. DepthInv'
      BY <1>27 DEF ReaderEnds, RunInv, DepthInv, TypeOK
    <2>2. ASSUME Calm' PROVE OneRun' /\ FreshInv' /\ ReaderInv' /\ ViewInv'
      BY <1>27, <2>2, AppendStop DEF ReaderEnds, RunInv, DepthInv, OneRun, FreshInv, ReaderInv, ViewInv, WaiterInv, TypeOK
    <2>3. ASSUME Calm' PROVE WaiterInv'
      BY <1>27, <2>3, AppendStop DEF ReaderEnds, RunInv, DepthInv, OneRun, FreshInv, ReaderInv, ViewInv, WaiterInv, TypeOK
    <2> QED
      BY <2>1, <2>2, <2>3 DEF RunInv
  <1>28. CASE UninitAgdiSession
    <2>1. DepthInv'
      BY <1>28 DEF UninitAgdiSession, RunInv, DepthInv, TypeOK
    <2>2. ASSUME Calm' PROVE OneRun' /\ FreshInv' /\ ReaderInv' /\ ViewInv'
      BY <1>28, <2>2 DEF UninitAgdiSession, RunInv, DepthInv, OneRun, FreshInv, ReaderInv, ViewInv, WaiterInv, TypeOK
    <2>3. ASSUME Calm' PROVE WaiterInv'
      BY <1>28, <2>3 DEF UninitAgdiSession, RunInv, DepthInv, OneRun, FreshInv, ReaderInv, ViewInv, WaiterInv, TypeOK
    <2> QED
      BY <2>1, <2>2, <2>3 DEF RunInv
  <1>29. CASE DispatchStop
    <2>1. DepthInv'
      BY <1>29 DEF DispatchStop, RunInv, DepthInv, TypeOK
    <2>2. ASSUME Calm' PROVE OneRun' /\ FreshInv' /\ ReaderInv' /\ ViewInv'
      BY <1>29, <2>2, TailStop DEF DispatchStop, RunInv, DepthInv, OneRun, FreshInv, ReaderInv, ViewInv, WaiterInv, TypeOK
    <2>3. ASSUME Calm' PROVE WaiterInv'
      BY <1>29, <2>3, TailStop DEF DispatchStop, RunInv, DepthInv, OneRun, FreshInv, ReaderInv, ViewInv, WaiterInv, TypeOK
    <2> QED
      BY <2>1, <2>2, <2>3 DEF RunInv
  <1>30. CASE DispatchRun
    <2>1. DepthInv'
      BY <1>30 DEF DispatchRun, RunInv, DepthInv, TypeOK
    <2>2. ASSUME Calm' PROVE OneRun' /\ FreshInv' /\ ReaderInv' /\ ViewInv'
      BY <1>30, <2>2, TailRun DEF DispatchRun, RunInv, DepthInv, OneRun, FreshInv, ReaderInv, ViewInv, WaiterInv, TypeOK
    <2>3. ASSUME Calm' PROVE WaiterInv'
      BY <1>30, <2>3, TailRun DEF DispatchRun, RunInv, DepthInv, OneRun, FreshInv, ReaderInv, ViewInv, WaiterInv, TypeOK
    <2> QED
      BY <2>1, <2>2, <2>3 DEF RunInv
  <1>31. CASE GoStepReturns
    <2>1. DepthInv'
      BY <1>31 DEF GoStepReturns, GoStepReturnsWith, ReleaseStopper, RunInv, DepthInv, TypeOK
    <2>2. ASSUME Calm' PROVE OneRun' /\ FreshInv' /\ ReaderInv' /\ ViewInv'
      BY <1>31, <2>2 DEF GoStepReturns, GoStepReturnsWith, ReleaseStopper, RunInv, DepthInv, OneRun, FreshInv, ReaderInv, ViewInv, WaiterInv, TypeOK
    <2>3. ASSUME Calm' PROVE WaiterInv'
      BY <1>31, <2>3 DEF GoStepReturns, GoStepReturnsWith, ReleaseStopper, RunInv, DepthInv, OneRun, FreshInv, ReaderInv, ViewInv, WaiterInv, TypeOK
    <2> QED
      BY <2>1, <2>2, <2>3 DEF RunInv
  <1>32. CASE MainReadRegisters
    <2>1. DepthInv'
      BY <1>32 DEF MainReadRegisters, RunInv, DepthInv, TypeOK
    <2>2. ASSUME Calm' PROVE OneRun' /\ FreshInv' /\ ReaderInv' /\ ViewInv'
      BY <1>32, <2>2 DEF MainReadRegisters, RunInv, DepthInv, OneRun, FreshInv, ReaderInv, ViewInv, WaiterInv, TypeOK
    <2>3. ASSUME Calm' PROVE WaiterInv'
      BY <1>32, <2>3 DEF MainReadRegisters, RunInv, DepthInv, OneRun, FreshInv, ReaderInv, ViewInv, WaiterInv, TypeOK
    <2> QED
      BY <2>1, <2>2, <2>3 DEF RunInv
  <1>33. CASE SignalHalt
    <2>1. DepthInv'
      BY <1>33 DEF SignalHalt, RunInv, DepthInv, TypeOK
    <2>2. ASSUME Calm' PROVE OneRun' /\ FreshInv' /\ ReaderInv' /\ ViewInv'
      BY <1>33, <2>2 DEF SignalHalt, RunInv, DepthInv, OneRun, FreshInv, ReaderInv, ViewInv, WaiterInv, TypeOK
    <2>3. ASSUME Calm' PROVE WaiterInv'
      BY <1>33, <2>3 DEF SignalHalt, RunInv, DepthInv, OneRun, FreshInv, ReaderInv, ViewInv, WaiterInv, TypeOK
    <2> QED
      BY <2>1, <2>2, <2>3 DEF RunInv
  <1>34. CASE TargetHalts
    <2>1. DepthInv'
      BY <1>34 DEF TargetHalts, RunInv, DepthInv, TypeOK
    <2>2. ASSUME Calm' PROVE OneRun' /\ FreshInv' /\ ReaderInv' /\ ViewInv'
      BY <1>34, <2>2 DEF TargetHalts, RunInv, DepthInv, OneRun, FreshInv, ReaderInv, ViewInv, WaiterInv, TypeOK
    <2>3. ASSUME Calm' PROVE WaiterInv'
      BY <1>34, <2>3 DEF TargetHalts, RunInv, DepthInv, OneRun, FreshInv, ReaderInv, ViewInv, WaiterInv, TypeOK
    <2> QED
      BY <2>1, <2>2, <2>3 DEF RunInv
  <1>35. CASE GoStepCrashes
    <2>1. DepthInv'
      BY <1>35 DEF GoStepCrashes, ReleaseStopper, RunInv, DepthInv, TypeOK
    <2>2. ASSUME Calm' PROVE OneRun' /\ FreshInv' /\ ReaderInv' /\ ViewInv'
      BY <1>35, <2>2 DEF GoStepCrashes, ReleaseStopper, RunInv, DepthInv, OneRun, FreshInv, ReaderInv, ViewInv, WaiterInv, TypeOK
    <2>3. ASSUME Calm' PROVE WaiterInv'
      BY <1>35, <2>3 DEF GoStepCrashes, ReleaseStopper, RunInv, DepthInv, OneRun, FreshInv, ReaderInv, ViewInv, WaiterInv, TypeOK
    <2> QED
      BY <2>1, <2>2, <2>3 DEF RunInv
  <1>36. ASSUME NEW g \in Generations, Waiter(g) PROVE RunInv'
    <2>1. PICK w \in waiters : WaiterWakes(w) \/ WaiterChecks(w) \/ WaiterSends(w)
      BY <1>36, Zenon DEF Waiter
    <2>2. CASE WaiterWakes(w)
      <3>1. DepthInv'
        BY <2>2 DEF WaiterWakes, RunInv, DepthInv, TypeOK
      <3>2. ASSUME Calm' PROVE OneRun' /\ FreshInv' /\ ReaderInv' /\ ViewInv'
        BY <2>2, <3>2 DEF WaiterWakes, RunInv, DepthInv, OneRun, FreshInv, ReaderInv, ViewInv, WaiterInv, TypeOK
      <3>3. ASSUME Calm' PROVE WaiterInv'
        <4>1. Calm /\ (event \/ w.gen # gen)
          BY <2>2, <3>3, Zenon DEF WaiterWakes
        <4>2. OneRun /\ FreshInv /\ ViewInv /\ WaiterInv
          BY <4>1 DEF RunInv
        <4>3. w.gen = gen => Quiet
          BY <4>1, <4>2, <2>1 DEF OneRun, FreshInv, WaiterInv
        <4> QED
          BY <4>1, <4>2, <4>3, <2>2 DEF WaiterWakes, WaiterMoves, WaiterInv, TypeOK
      <3> QED
        BY <3>1, <3>2, <3>3 DEF RunInv
    <2>3. CASE WaiterChecks(w)
      <3>1. DepthInv'
        BY <2>3 DEF WaiterChecks, RunInv, DepthInv, TypeOK
      <3>2. ASSUME Calm' PROVE OneRun' /\ FreshInv' /\ ReaderInv' /\ ViewInv'
        BY <2>3, <3>2 DEF WaiterChecks, RunInv, DepthInv, OneRun, FreshInv, ReaderInv, ViewInv, WaiterInv, TypeOK
      <3>3. ASSUME Calm' PROVE WaiterInv'
        BY <2>3, <3>3 DEF WaiterChecks, WaiterMoves, RunInv, DepthInv, OneRun, FreshInv, ReaderInv, ViewInv, WaiterInv, TypeOK
      <3> QED
        BY <3>1, <3>2, <3>3 DEF RunInv
    <2>4. CASE WaiterSends(w)
      <3>1. DepthInv'
        BY <2>4 DEF WaiterSends, RunInv, DepthInv, TypeOK
      <3>2. ASSUME Calm' PROVE OneRun' /\ FreshInv' /\ ReaderInv' /\ ViewInv'
        BY <2>4, <3>2 DEF WaiterSends, RunInv, DepthInv, OneRun, FreshInv, ReaderInv, ViewInv, WaiterInv, TypeOK
      <3>3. ASSUME Calm' PROVE WaiterInv'
        BY <2>4, <3>3 DEF WaiterSends, WaiterMoves, RunInv, DepthInv, OneRun, FreshInv, ReaderInv, ViewInv, WaiterInv, TypeOK
      <3> QED
        BY <3>1, <3>2, <3>3 DEF RunInv
    <2> QED
      BY <2>1, <2>2, <2>3, <2>4
  <1>37. CASE UNCHANGED vars
    BY <1>37 DEF vars, RunInv, DepthInv, OneRun, FreshInv, ReaderInv, ViewInv, WaiterInv, TypeOK
  <1>38. CASE EntryReset
    <2>1. DepthInv'
      BY <1>38 DEF EntryReset, RunInv, DepthInv, TypeOK
    <2>2. ASSUME Calm' PROVE OneRun' /\ FreshInv' /\ ReaderInv' /\ ViewInv'
      BY <1>38, <2>2 DEF EntryReset, RunInv, DepthInv, OneRun, FreshInv, ReaderInv, ViewInv, WaiterInv, TypeOK
    <2>3. ASSUME Calm' PROVE WaiterInv'
      BY <1>38, <2>3 DEF EntryReset, RunInv, DepthInv, OneRun, FreshInv, ReaderInv, ViewInv, WaiterInv, TypeOK
    <2> QED
      BY <2>1, <2>2, <2>3 DEF RunInv
  <1>39. CASE EntryPost
    <2>1. DepthInv'
      BY <1>39 DEF EntryPost, RunInv, DepthInv, TypeOK
    <2>2. ASSUME Calm' PROVE OneRun' /\ FreshInv' /\ ReaderInv' /\ ViewInv'
      BY <1>39, <2>2, AppendRun DEF EntryPost, RunInv, DepthInv, OneRun, FreshInv, ReaderInv, ViewInv, WaiterInv, TypeOK
    <2>3. ASSUME Calm' PROVE WaiterInv'
      BY <1>39, <2>3, AppendRun DEF EntryPost, RunInv, DepthInv, OneRun, FreshInv, ReaderInv, ViewInv, WaiterInv, TypeOK
    <2> QED
      BY <2>1, <2>2, <2>3 DEF RunInv
  <1>40. CASE EntryWaitEnds
    <2>1. DepthInv'
      BY <1>40 DEF EntryWaitEnds, RunInv, DepthInv, TypeOK
    <2>2. ASSUME Calm' PROVE OneRun' /\ FreshInv' /\ ReaderInv' /\ ViewInv'
      BY <1>40, <2>2 DEF EntryWaitEnds, RunInv, DepthInv, OneRun, FreshInv, ReaderInv, ViewInv, WaiterInv, TypeOK
    <2>3. ASSUME Calm' PROVE WaiterInv'
      BY <1>40, <2>3 DEF EntryWaitEnds, RunInv, DepthInv, OneRun, FreshInv, ReaderInv, ViewInv, WaiterInv, TypeOK
    <2> QED
      BY <2>1, <2>2, <2>3 DEF RunInv
  <1>41. CASE EntryReadRegisters
    <2>1. DepthInv'
      BY <1>41 DEF EntryReadRegisters, RunInv, DepthInv, TypeOK
    <2>2. ASSUME Calm' PROVE OneRun' /\ FreshInv' /\ ReaderInv' /\ ViewInv'
      BY <1>41, <2>2 DEF EntryReadRegisters, RunInv, DepthInv, OneRun, FreshInv, ReaderInv, ViewInv, WaiterInv, TypeOK
    <2>3. ASSUME Calm' PROVE WaiterInv'
      BY <1>41, <2>3 DEF EntryReadRegisters, RunInv, DepthInv, OneRun, FreshInv, ReaderInv, ViewInv, WaiterInv, TypeOK
    <2> QED
      BY <2>1, <2>2, <2>3 DEF RunInv
  <1>42. CASE EntrySends
    <2>1. DepthInv'
      BY <1>42 DEF EntrySends, RunInv, DepthInv, TypeOK
    <2>2. ASSUME Calm' PROVE OneRun' /\ FreshInv' /\ ReaderInv' /\ ViewInv'
      BY <1>42, <2>2 DEF EntrySends, RunInv, DepthInv, OneRun, FreshInv, ReaderInv, ViewInv, WaiterInv, TypeOK
    <2>3. ASSUME Calm' PROVE WaiterInv'
      BY <1>42, <2>3 DEF EntrySends, RunInv, DepthInv, OneRun, FreshInv, ReaderInv, ViewInv, WaiterInv, TypeOK
    <2> QED
      BY <2>1, <2>2, <2>3 DEF RunInv
  <1>43. CASE MoveToCall
    <2>1. DepthInv'
      BY <1>43 DEF MoveToCall, RunInv, DepthInv, TypeOK
    <2>2. ASSUME Calm' PROVE OneRun' /\ FreshInv' /\ ReaderInv' /\ ViewInv'
      BY <1>43, <2>2 DEF MoveToCall, RunInv, DepthInv, OneRun, FreshInv, ReaderInv, ViewInv, WaiterInv, TypeOK
    <2>3. ASSUME Calm' PROVE WaiterInv'
      BY <1>43, <2>3 DEF MoveToCall, RunInv, DepthInv, OneRun, FreshInv, ReaderInv, ViewInv, WaiterInv, TypeOK
    <2> QED
      BY <2>1, <2>2, <2>3 DEF RunInv
  <1> QED
    BY <1>1, <1>2, <1>3, <1>4, <1>5, <1>6, <1>7, <1>8, <1>9, <1>10, <1>11, <1>12, <1>13, <1>14, <1>15, <1>16, <1>17, <1>18, <1>19, <1>20, <1>21, <1>22, <1>23, <1>24, <1>25, <1>26, <1>27, <1>28, <1>29, <1>30, <1>31, <1>32, <1>33, <1>34, <1>35, <1>36, <1>37, <1>38, <1>39, <1>40, <1>41, <1>42, <1>43 DEF Next, Reader, MainThread

-----------------------------------------------------------------------------
\* The inductive invariant.
Inv == TypeOK /\ RunInv

\* It holds when the session starts ...
LEMMA InvInit == Init => Inv
  <1> SUFFICES ASSUME Init PROVE Inv
    OBVIOUS
  <1>1. ~ RunPosted /\ AtMostOneRun(queue)
    BY DEF Init, RunPosted, Posted, AtMostOneRun
  <1>2. DepthInv
    BY DEF Init, DepthInv
  <1>3. OneRun /\ FreshInv /\ ReaderInv /\ ViewInv /\ WaiterInv
    BY <1>1 DEF Init, ReadSinceHalt, Registers, OneRun, FreshInv, ReaderInv, ViewInv, WaiterInv, Quiet, Resuming, Launching, Resumes
  <1> QED
    BY <1>2, <1>3, TypeInit DEF Inv, RunInv

\* ... every step keeps it ...
LEMMA InvStep == Inv /\ [Next]_vars => Inv'
  BY TypeStep, RunStep DEF Inv, RunInv

\* ... so it always holds.
LEMMA InvAlways == Spec => []Inv
  BY InvInit, InvStep, PTL DEF Spec

\* The variables keep their types: no waiter is of a generation that has not begun
\* and AG_GoStep never returns more often than it was called.
THEOREM TypeCorrect == Spec => []TypeOK
  BY InvAlways, PTL DEF Inv

\* Outside the named races one run at most is posted, only from an idle main thread,
\* and each waiter of the present generation belongs to it (RequestRun,
\* WaitAndSendStopped, HwndMsgProc).
THEOREM RunDiscipline == Spec => []RunInv
  BY InvAlways, PTL DEF Inv

\* A client that was told of a halt finds the target halted and no run pending, and
\* the server has the PC of this halt, after a run all of its registers, whatever the
\* threads do, outside the named races (HandleContinue, WaitAndSendStopped, the step
\* handlers, HandlePause).
THEOREM StoppedMeansStopped == Spec => []Truthful
  <1>1. Inv => Truthful
    BY DEF Inv, RunInv, DepthInv, OneRun, ViewInv, Quiet, Truthful, TypeOK, Calm
  <1> QED
    BY <1>1, InvAlways, PTL

\* Outside the named races the message pump of a GoStep never starts another
\* (HwndMsgProc).
THEOREM RunsDoNotNest == Spec => []NoNesting
  <1>1. Inv => NoNesting
    BY DEF Inv, RunInv, OneRun, NoNesting
  <1> QED
    BY <1>1, InvAlways, PTL

\* When the reader steps or reads memory or registers, the main thread is not inside
\* the DLL, outside the named races; but for the registers that a pause reads while
\* the main thread reads those of the same halt (GoStep, ReadRegisters, HandlePause,
\* HwndMsgProc).
THEOREM OneThreadInDll == Spec => []DllExclusive
  <1>1. Inv => DllExclusive
    BY DEF Inv, RunInv, ReaderInv, ReaderInDll, DllExclusive, TypeOK, MainAt
  <1> QED
    BY <1>1, InvAlways, PTL

\* Outside the named races a waiter rebuilds the shadow stack alone, unless a pause or
\* a disconnect has superseded it after its check, and no step updates the stack
\* meanwhile (WaitAndSendStopped, ShadowStackReset, ShadowStackUpdate).
THEOREM ShadowStackHasOneUser == Spec => []ShadowStackAlone
  <1>1. Inv => ShadowStackAlone
    BY DEF Inv, RunInv, WaiterInv, ShadowStackAlone, UsesShadowStack
  <1> QED
    BY <1>1, InvAlways, PTL

\* HandleDisconnect releases the adapter only when no GoStep is active, outside the
\* named races.
THEOREM NoUninitDuringRun == Spec => UninitWhenIdle
  <1>1. Inv /\ [Next]_vars => [session' # session /\ reader = "uninit" /\ Calm => main # "going"]_vars
    BY DEF Inv, RunInv, ReaderInv
  <1> QED
    BY <1>1, InvAlways, PTL DEF Spec, UninitWhenIdle

=============================================================================
