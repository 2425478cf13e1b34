--------------------------- MODULE BpRefinement ----------------------------
(***************************************************************************)
(* The breakpoint manager keeps the promise of BreakpointSet.  The mapping *)
(* reads the breakpoints off what the DLL was told (dll), not off the      *)
(* manager's own list: a notification that is missing, doubled or out of   *)
(* order shows as a step BreakpointSet does not allow.                     *)
(***************************************************************************)
EXTENDS BpManager

\* The addresses of the user breakpoints the DLL holds.
UserInDll == {b[2] : b \in {x \in dll : pool[x[1]].number # TempNumber}}

\* The addresses of the temporary breakpoints, in the order they were added.
TempAddresses == [i \in DOMAIN temps |-> pool[temps[i]].adr]

\* What the tables ask for, and the exits still without a breakpoint.
PerTable  == [t \in Tables |-> ToSet(Addresses(t))]
ExitsLeft == IF phase = "temp" THEN todo ELSE <<>>

Stage ==
  CASE phase = "clear"  -> "withdraw"
    [] phase = "temp"   -> "trap"
    [] phase = "untemp" -> "release"
    [] OTHER            -> phase

Abstract == INSTANCE BreakpointSet WITH
  Slots     <- MaxBreakpoints,
  UserSlots <- MaxUserBreakpoints,
  wanted    <- PerTable,
  user      <- UserInDll,
  temp      <- TempAddresses,
  exits     <- ExitsLeft,
  stage     <- Stage,
  about     <- caller

\* The manager implements BreakpointSet: whatever the pool and the list go
\* through, the DLL loses its old breakpoints before it gets a new one, gets
\* no address twice and none that no table asks for, ends a request with every
\* slot used that can be, a reply calls an address verified exactly when the
\* DLL holds it, an exit of a step-out is left without a breakpoint only with
\* all slots taken, and every request ends.
KeepsPromise == Abstract!Spec
=============================================================================
