--------------------------- MODULE BreakpointSet ---------------------------
(***************************************************************************)
(* What the breakpoint manager promises its callers, without the node pool *)
(* and the linked list: a set of addresses the DLL stops at, rebuilt from  *)
(* what the client asked for, and a few temporary ones during a step-out.  *)
(* The client asks per table (a source file, or the instruction            *)
(* breakpoints); a request replaces what it asked for in that table only.  *)
(***************************************************************************)
EXTENDS Naturals, Sequences, FiniteSets

CONSTANTS
  Slots,      \* breakpoints the DLL can hold in all
  UserSlots,  \* breakpoints the client can have armed
  Tables,     \* what a request may be about
  Addr        \* code addresses

VARIABLES
  session,  \* "none", "debug" or "flash"
  wanted,   \* addresses asked for, per table
  user,     \* user breakpoints the DLL holds
  temp,     \* temporary breakpoints the DLL holds, oldest first
  exits,    \* exits that wait for a temporary breakpoint
  stage,    \* what the request in progress is doing
  about,    \* the table it is about
  told      \* addresses last reported verified, per table

vars == <<session, wanted, user, temp, exits, stage, about, told>>

Nothing == [t \in Tables |-> {}]
Wanted  == UNION {wanted[t] : t \in Tables}

Init ==
  /\ session = "none"
  /\ wanted = Nothing
  /\ user = {}
  /\ temp = <<>>
  /\ exits = <<>>
  /\ stage = "idle"
  /\ about \in Tables
  /\ told = Nothing

\* A session opens on a DLL without breakpoints; what was asked for in the
\* session before is kept.
Open(kind) ==
  /\ stage = "idle"
  /\ session = "none"
  /\ session' = kind
  /\ UNCHANGED <<wanted, user, temp, exits, stage, about, told>>

Close ==
  /\ stage = "idle"
  /\ session # "none"
  /\ session' = "none"
  /\ user' = {}
  /\ told' = Nothing
  /\ UNCHANGED <<wanted, temp, exits, stage, about>>

\* A request replaces the addresses of one table.
Request(t, addresses) ==
  /\ stage = "idle"
  /\ session # "none"
  /\ wanted' = [wanted EXCEPT ![t] = addresses]
  /\ about' = t
  /\ stage' = "withdraw"
  /\ UNCHANGED <<session, user, temp, exits, told>>

\* The old breakpoints go one by one ...
Withdraw(a) ==
  /\ stage = "withdraw"
  /\ a \in user
  /\ user' = user \ {a}
  /\ UNCHANGED <<session, wanted, temp, exits, stage, about, told>>

\* ... and all of them are gone before the first new one is armed.
Withdrawn ==
  /\ stage = "withdraw"
  /\ user = {}
  /\ stage' = "arm"
  /\ UNCHANGED <<session, wanted, user, temp, exits, about, told>>

\* Only what some table asks for is armed, once, within the limit.
Arm(a) ==
  /\ stage = "arm"
  /\ a \in Wanted \ user
  /\ Cardinality(user) < UserSlots
  /\ user' = user \cup {a}
  /\ UNCHANGED <<session, wanted, temp, exits, stage, about, told>>

\* The answer is given when nothing more can be armed, and calls exactly the
\* armed addresses of the request verified.
Answer ==
  /\ stage = "arm"
  /\ \/ user = Wanted
     \/ Cardinality(user) = UserSlots
  /\ told' = [told EXCEPT ![about] = wanted[about] \cap user]
  /\ stage' = "idle"
  /\ UNCHANGED <<session, wanted, user, temp, exits, about>>

\* A step-out over several exits.
StepOut ==
  /\ stage = "idle"
  /\ session = "debug"
  /\ exits' \in Seq(Addr)
  /\ Len(exits') >= 2
  /\ stage' = "trap"
  /\ UNCHANGED <<session, wanted, user, temp, about, told>>

\* An exit goes without a breakpoint only when every slot is taken.
Trap ==
  /\ stage = "trap"
  /\ exits # <<>>
  /\ exits' = Tail(exits)
  /\ temp' = IF Cardinality(user) + Len(temp) < Slots THEN Append(temp, Head(exits)) ELSE temp
  /\ UNCHANGED <<session, wanted, user, stage, about, told>>

Halted ==
  /\ stage = "trap"
  /\ exits = <<>>
  /\ stage' = "release"
  /\ UNCHANGED <<session, wanted, user, temp, exits, about, told>>

Release ==
  /\ stage = "release"
  /\ temp # <<>>
  /\ temp' = Tail(temp)
  /\ UNCHANGED <<session, wanted, user, exits, stage, about, told>>

\* The step-out ends with none of its breakpoints left.
Released ==
  /\ stage = "release"
  /\ temp = <<>>
  /\ stage' = "idle"
  /\ UNCHANGED <<session, wanted, user, temp, exits, about, told>>

\* The steps of a request that has begun.
Progress ==
  \/ \E a \in Addr : Withdraw(a) \/ Arm(a)
  \/ Withdrawn
  \/ Answer
  \/ Trap
  \/ Halted
  \/ Release
  \/ Released

Next ==
  \/ \E kind \in {"debug", "flash"} : Open(kind)
  \/ Close
  \/ \E t \in Tables, addresses \in SUBSET Addr : Request(t, addresses)
  \/ StepOut
  \/ Progress

Spec == Init /\ [][Next]_vars /\ WF_vars(Progress)
=============================================================================
