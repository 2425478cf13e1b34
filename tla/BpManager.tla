----------------------------- MODULE BpManager -----------------------------
(***************************************************************************)
(* The breakpoint manager (bp_manager.cpp): a fixed pool of AG_BP nodes,   *)
(* the doubly linked list the AGDI DLL walks through the registered head   *)
(* pointer, and the per-file and instruction breakpoint tables the list is *)
(* rebuilt from.                                                           *)
(*                                                                         *)
(* Every handler here runs on the reader thread, one at a time.  The main  *)
(* thread may meanwhile be inside AG_GoStep(AG_GOFORBRK), where the DLL    *)
(* follows the head pointer, so an operation is not one step: each node    *)
(* unlinked, armed, added or removed is a step of its own, and the         *)
(* invariants hold between any two of them.                                *)
(***************************************************************************)
EXTENDS Integers, Sequences, FiniteSets, SequencesExt

CONSTANTS
  MaxBreakpoints,      \* kMaxBreakpoints: nodes in the pool (12)
  MaxUserBreakpoints,  \* kMaxUserBreakpoints: user breakpoints armed (4)
  Files,               \* source paths the client sets breakpoints in
  Addr,                \* code addresses; 0, the reset vector, is one of them
  Requests,            \* the address lists a request may carry
  Exits                \* the exit lists a step-out may find

NULL       == 0        \* the null AG_BP pointer
TempNumber == 65535    \* the number that marks a temporary breakpoint
Nodes      == 1 .. MaxBreakpoints

ASSUME ConstantsAssumption ==
  /\ MaxBreakpoints \in Nat \ {0}
  /\ MaxUserBreakpoints \in Nat \ {0}
  /\ MaxUserBreakpoints <= MaxBreakpoints
  /\ MaxUserBreakpoints < TempNumber
  /\ Addr \subseteq Nat
  /\ "instructions" \notin Files
  /\ Requests \subseteq Seq(Addr)
  /\ Exits \subseteq Seq(Addr)

VARIABLES
  pool,            \* m_pool
  head,            \* m_head, the pointer registered by AGDI_INITBPHEAD
  fileBreakpoints, \* m_fileBreakpoints; <<>> for a path that is not a key
  fileOrder,       \* the iteration order of that unordered_map
  instrBreakpoints,\* m_instrBreakpoints
  session,         \* "none", or the kind of the session that is active
  dll,             \* <<node, address>> pairs the DLL was told to link
  phase,           \* what the reader thread is doing
  cursor,          \* p in ClearAll's loop
  tail,            \* tail in RebuildDllBreakpoints
  tablesLeft,      \* tables RebuildDllBreakpoints has not come to yet
  todo,            \* addresses the running loop still has to handle
  armed,           \* armed[0..nArmed), the duplicate tracker; its length is total
  temps,           \* tempBPs of HandleStepOut
  caller,          \* the table whose request is being answered
  told,            \* addresses the last reply to each table reported verified
  asked,           \* addresses the client of this session asked for (history)
  list             \* the list the pointers stand for (history)

vars == <<pool, head, fileBreakpoints, fileOrder, instrBreakpoints, session, dll,
          phase, cursor, tail, tablesLeft, todo, armed, temps, caller, told, asked, list>>

tables == <<fileBreakpoints, fileOrder, instrBreakpoints>>

InstrTable == "instructions"
Tables     == Files \cup {InstrTable}
Phases     == {"idle", "clear", "arm", "temp", "untemp"}
FreeNode   == [adr |-> 0, number |-> 0, next |-> NULL, prev |-> NULL]
NodeRecord == [adr: Nat, number: 0 .. TempNumber, next: Nodes \cup {NULL}, prev: Nodes \cup {NULL}]
NoneTold   == [t \in Tables |-> {}]

-----------------------------------------------------------------------------
\* Bugs the code could plausibly have; each is exchanged for the definition it
\* precedes to show that a property can fail.

BugFreeIgnoresHead(n) == pool[n].adr = 0 /\ pool[n].next = NULL /\ pool[n].prev = NULL

\* A node is free if it has no address and is not linked.
IsFree(n) ==
  /\ pool[n].adr = 0
  /\ pool[n].next = NULL
  /\ pool[n].prev = NULL
  /\ n # head

BugAllocPastEnd ==
  IF \E n \in Nodes : IsFree(n)
  THEN CHOOSE n \in Nodes : IsFree(n) /\ \A m \in Nodes : IsFree(m) => n <= m
  ELSE MaxBreakpoints + 1

\* Alloc: the first free node of the pool, or NULL when there is none.
Alloc ==
  IF \E n \in Nodes : IsFree(n)
  THEN CHOOSE n \in Nodes : IsFree(n) /\ \A m \in Nodes : IsFree(m) => n <= m
  ELSE NULL

BugInstructionsFirst == <<InstrTable>> \o fileOrder

\* The order in which RebuildDllBreakpoints goes through the tables: the files
\* as the map iterates, then the instruction breakpoints.
TablesInOrder == Append(fileOrder, InstrTable)

Addresses(table) ==
  IF table = InstrTable THEN instrBreakpoints ELSE fileBreakpoints[table]

Armed == {pool[list[i]].adr : i \in DOMAIN list}

Init ==
  /\ pool = [n \in Nodes |-> FreeNode]
  /\ head = NULL
  /\ fileBreakpoints = [f \in Files |-> <<>>]
  /\ fileOrder = <<>>
  /\ instrBreakpoints = <<>>
  /\ session = "none"
  /\ dll = {}
  /\ phase = "idle"
  /\ cursor = NULL
  /\ tail = NULL
  /\ tablesLeft = <<>>
  /\ todo = <<>>
  /\ armed = <<>>
  /\ temps = <<>>
  /\ caller = InstrTable
  /\ told = NoneTold
  /\ asked = {}
  /\ list = <<>>

-----------------------------------------------------------------------------
\* Sessions, as far as they concern the breakpoint list.

\* The debug tail of InitAgdiSession clears the pool without calling the DLL
\* and registers the head pointer.  The DLL has just been (re)loaded: it has
\* no breakpoint.  The tables are kept.
InitDebugSession ==
  /\ phase = "idle"
  /\ session = "none"
  /\ session' = "debug"
  /\ pool' = [n \in Nodes |-> FreeNode]
  /\ head' = NULL
  /\ list' = <<>>
  /\ dll' = {}
  /\ UNCHANGED <<fileBreakpoints, fileOrder, instrBreakpoints, phase, cursor,
                 tail, tablesLeft, todo, armed, temps, caller, told, asked>>

\* The flash tail touches neither the pool nor the head pointer.
InitFlashSession ==
  /\ phase = "idle"
  /\ session = "none"
  /\ session' = "flash"
  /\ UNCHANGED <<pool, head, tables, dll, phase, cursor, tail, tablesLeft,
                 todo, armed, temps, caller, told, asked, list>>

\* UninitAgdiSession unloads the DLL and loads it again.  The next client
\* has been told of no breakpoint and has asked for none.
UninitAgdiSession ==
  /\ phase = "idle"
  /\ session # "none"
  /\ session' = "none"
  /\ dll' = {}
  /\ told' = NoneTold
  /\ asked' = {}
  /\ UNCHANGED <<pool, head, tables, phase, cursor, tail, tablesLeft, todo,
                 armed, temps, caller, list>>

-----------------------------------------------------------------------------
\* setBreakpoints and setInstructionBreakpoints.  With no session the
\* handlers store nothing and answer "not verified" for every entry.

\* RebuildDllBreakpoints starts with ClearAll, which walks from the head.
RebuildFrom(first, table, addresses) ==
  /\ caller' = table
  /\ asked' = asked \cup ToSet(addresses)
  /\ phase' = "clear"
  /\ cursor' = first
  /\ UNCHANGED <<pool, head, session, dll, tail, tablesLeft, todo, armed,
                 temps, told, list>>

\* Trusting AG_BPKILLALL instead of unlinking node by node.
BugTrustKillAll(table, addresses) == RebuildFrom(NULL, table, addresses)

StartRebuild(table, addresses) == RebuildFrom(head, table, addresses)

SetFileBreakpoints(f, addresses) ==
  /\ phase = "idle"
  /\ session # "none"
  /\ fileBreakpoints' = [fileBreakpoints EXCEPT ![f] = addresses]
  /\ \/ /\ addresses = <<>>
        /\ fileOrder' = RemoveFirst(fileOrder, f)
     \/ /\ addresses # <<>>
        /\ f \in ToSet(fileOrder)
        /\ UNCHANGED fileOrder
     \* A new key may go anywhere, and may rehash the whole map.
     \/ /\ addresses # <<>>
        /\ f \notin ToSet(fileOrder)
        /\ fileOrder' \in SetToSeqs(ToSet(fileOrder) \cup {f})
  /\ UNCHANGED instrBreakpoints
  /\ StartRebuild(f, addresses)

SetInstructionBreakpoints(addresses) ==
  /\ phase = "idle"
  /\ session # "none"
  /\ instrBreakpoints' = addresses
  /\ UNCHANGED <<fileBreakpoints, fileOrder>>
  /\ StartRebuild(InstrTable, addresses)

\* ClearAll, one node: the DLL is told to unlink it before anything is wiped.
ClearAllUnlink ==
  /\ phase = "clear"
  /\ cursor # NULL
  /\ dll' = dll \ {<<cursor, pool[cursor].adr>>}
  /\ cursor' = pool[cursor].next
  /\ UNCHANGED <<pool, head, tables, session, phase, tail, tablesLeft, todo,
                 armed, temps, caller, told, asked, list>>

\* The rest of ClearAll, and the state RebuildDllBreakpoints starts arming from.
ClearAllWipe ==
  /\ phase = "clear"
  /\ cursor = NULL
  /\ pool' = [n \in Nodes |-> FreeNode]
  /\ head' = NULL
  /\ list' = <<>>
  /\ tail' = NULL
  /\ tablesLeft' = TablesInOrder
  /\ todo' = <<>>
  /\ armed' = <<>>
  /\ phase' = "arm"
  /\ UNCHANGED <<tables, session, dll, cursor, temps, caller, told, asked>>

\* TryArm links the node at the tail and tells the DLL.
LinkAtTail(bp, addr, next, newTail) ==
  /\ pool' = [n \in Nodes |->
                IF n = bp THEN [adr |-> addr, number |-> Len(armed) + 1,
                                next |-> next, prev |-> tail]
                ELSE IF n = tail THEN [pool[n] EXCEPT !.next = bp]
                ELSE pool[n]]
  /\ head' = IF head = NULL THEN bp ELSE head
  /\ tail' = newTail
  /\ list' = Append(list, bp)
  /\ dll' = dll \cup {<<bp, addr>>}
  /\ armed' = Append(armed, addr)

\* AddTempBreakpoint's next pointer in TryArm; a tail that stays behind.
BugNextFromHead(bp, addr) == LinkAtTail(bp, addr, head, bp)
BugTailNotMoved(bp, addr) == LinkAtTail(bp, addr, NULL, IF tail = NULL THEN bp ELSE tail)

ArmNode(bp, addr) == LinkAtTail(bp, addr, NULL, bp)

\* The loops over the file table and over the instruction breakpoints.
NextTable ==
  /\ phase = "arm"
  /\ todo = <<>>
  /\ tablesLeft # <<>>
  /\ todo' = Addresses(Head(tablesLeft))
  /\ tablesLeft' = Tail(tablesLeft)
  /\ UNCHANGED <<pool, head, tables, session, dll, phase, cursor, tail, armed,
                 temps, caller, told, asked, list>>

\* TryArm for the next address: nothing at the limit, for a duplicate, or
\* with an exhausted pool.
TryArmUpTo(limit) ==
  /\ phase = "arm"
  /\ todo # <<>>
  /\ todo' = Tail(todo)
  /\ IF \/ Len(armed) >= limit
        \/ Head(todo) \in ToSet(armed)
        \/ Alloc = NULL
     THEN UNCHANGED <<pool, head, tail, list, dll, armed>>
     ELSE ArmNode(Alloc, Head(todo))
  /\ UNCHANGED <<tables, session, phase, cursor, tablesLeft, temps, caller,
                 told, asked>>

BugLimitOffByOne == TryArmUpTo(MaxUserBreakpoints + 1)

TryArm == TryArmUpTo(MaxUserBreakpoints)

\* The handler looks each of the request's addresses up in the list (isArmed)
\* and answers.
Reply ==
  /\ phase = "arm"
  /\ todo = <<>>
  /\ tablesLeft = <<>>
  /\ told' = [told EXCEPT ![caller] = ToSet(Addresses(caller)) \cap Armed]
  /\ phase' = "idle"
  /\ UNCHANGED <<pool, head, tables, session, dll, cursor, tail, tablesLeft,
                 todo, armed, temps, caller, asked, list>>

-----------------------------------------------------------------------------
\* HandleStepOut with several exits: a temporary breakpoint on each, one run,
\* and their removal in the order they were added.

StepOutBegin(exits) ==
  /\ phase = "idle"
  /\ session = "debug"
  /\ Len(exits) >= 2
  /\ todo' = exits
  /\ temps' = <<>>
  /\ phase' = "temp"
  /\ UNCHANGED <<pool, head, tables, session, dll, cursor, tail, tablesLeft,
                 armed, caller, told, asked, list>>

\* AddTempBreakpoint links the node at the front.
LinkTemp(bp, addr) ==
  /\ pool' = [n \in Nodes |->
                IF n = bp THEN [adr |-> addr, number |-> TempNumber,
                                next |-> head, prev |-> NULL]
                ELSE IF n = head THEN [pool[n] EXCEPT !.prev = bp]
                ELSE pool[n]]
  /\ head' = bp
  /\ list' = <<bp>> \o list
  /\ dll' = dll \cup {<<bp, addr>>}
  /\ temps' = Append(temps, bp)

\* With an exhausted pool the exit is left without a breakpoint.
AddTempBreakpoint ==
  /\ phase = "temp"
  /\ todo # <<>>
  /\ todo' = Tail(todo)
  /\ IF Alloc = NULL
     THEN UNCHANGED <<pool, head, list, dll, temps>>
     ELSE LinkTemp(Alloc, Head(todo))
  /\ UNCHANGED <<tables, session, phase, cursor, tail, tablesLeft, armed,
                 caller, told, asked>>

\* RequestRun and WaitForHalt: the target runs over this list and stops.
StepOutRun ==
  /\ phase = "temp"
  /\ todo = <<>>
  /\ phase' = "untemp"
  /\ UNCHANGED <<pool, head, tables, session, dll, cursor, tail, tablesLeft,
                 todo, armed, temps, caller, told, asked, list>>

\* RemoveTempBreakpoint: the DLL first, then the neighbours, then the node.
Unlink(bp) ==
  /\ dll' = dll \ {<<bp, pool[bp].adr>>}
  /\ pool' = [n \in Nodes |->
                IF n = bp THEN FreeNode
                ELSE [pool[n] EXCEPT !.next = IF n = pool[bp].prev THEN pool[bp].next ELSE pool[n].next,
                                     !.prev = IF n = pool[bp].next THEN pool[bp].prev ELSE pool[n].prev]]
  /\ head' = IF head = bp THEN pool[bp].next ELSE head
  /\ list' = RemoveFirst(list, bp)

RemoveTempBreakpoint ==
  /\ phase = "untemp"
  /\ temps # <<>>
  /\ Unlink(Head(temps))
  /\ temps' = Tail(temps)
  /\ UNCHANGED <<tables, session, phase, cursor, tail, tablesLeft, todo, armed,
                 caller, told, asked>>

StepOutDone ==
  /\ phase = "untemp"
  /\ temps = <<>>
  /\ phase' = "idle"
  /\ UNCHANGED <<pool, head, tables, session, dll, cursor, tail, tablesLeft,
                 todo, armed, temps, caller, told, asked, list>>

-----------------------------------------------------------------------------
\* The steps the reader thread takes by itself once a handler has started.
HandlerStep ==
  \/ ClearAllUnlink
  \/ ClearAllWipe
  \/ NextTable
  \/ TryArm
  \/ Reply
  \/ AddTempBreakpoint
  \/ StepOutRun
  \/ RemoveTempBreakpoint
  \/ StepOutDone

Next ==
  \/ InitDebugSession
  \/ InitFlashSession
  \/ UninitAgdiSession
  \/ \E f \in Files, addresses \in Requests : SetFileBreakpoints(f, addresses)
  \/ \E addresses \in Requests : SetInstructionBreakpoints(addresses)
  \/ \E exits \in Exits : StepOutBegin(exits)
  \/ HandlerStep

\* The reader thread is scheduled: a handler that has begun goes on.
Spec == Init /\ [][Next]_vars /\ WF_vars(HandlerStep)

-----------------------------------------------------------------------------
\* Properties.

\* Every variable has its type.
TypeOK ==
  /\ pool \in [Nodes -> NodeRecord]
  /\ head \in Nodes \cup {NULL}
  /\ fileBreakpoints \in [Files -> Seq(Addr)]
  /\ fileOrder \in Seq(Files)
  /\ instrBreakpoints \in Seq(Addr)
  /\ session \in {"none", "debug", "flash"}
  /\ dll \subseteq Nodes \X Nat
  /\ phase \in Phases
  /\ cursor \in Nodes \cup {NULL}
  /\ tail \in Nodes \cup {NULL}
  /\ tablesLeft \in Seq(Tables)
  /\ todo \in Seq(Addr)
  /\ armed \in Seq(Addr)
  /\ temps \in Seq(Nodes)
  /\ caller \in Tables
  /\ told \in [Tables -> SUBSET Addr]
  /\ asked \subseteq Addr
  /\ list \in Seq(Nodes)

\* The pointers of nodes, from first on, are the doubly linked list s, and
\* every node outside it is wiped.
Represents(nodes, first, s) ==
  /\ \A i, j \in DOMAIN s : i # j => s[i] # s[j]
  /\ first = IF s = <<>> THEN NULL ELSE s[1]
  /\ \A i \in DOMAIN s :
       /\ nodes[s[i]].next = IF i = Len(s) THEN NULL ELSE s[i + 1]
       /\ nodes[s[i]].prev = IF i = 1 THEN NULL ELSE s[i - 1]
  /\ \A n \in Nodes : (\A i \in DOMAIN s : s[i] # n) => nodes[n] = FreeNode

\* The pointers always form one finite list: following next from the head
\* visits the linked nodes once each and ends, prev is the way back, and every
\* other node of the pool is wiped and ready for Alloc.  Alloc tells a free
\* node from a linked one only by its fields, which a breakpoint at address 0
\* nearly defeats.
ListRepresented == Represents(pool, head, list)

\* The places of the list ClearAll has not come to yet; all of it otherwise.
NotCleared ==
  IF phase = "clear"
  THEN {i \in DOMAIN list : \E j \in DOMAIN list : j <= i /\ list[j] = cursor}
  ELSE DOMAIN list

\* The DLL never holds a node that was freed, reused or given another address,
\* and in a debug session it holds exactly the nodes of the list (during
\* ClearAll, those still to come).  Notifications are paired one by one
\* because the DLL ignores KILLALL (bp_manager.cpp:139-141).
DllMirror ==
  LET linked == {<<list[i], pool[list[i]].adr>> : i \in NotCleared}
  IN /\ dll \subseteq linked
     /\ session = "debug" => dll = linked

\* The loops' own bookkeeping agrees with the list: the tail pointer and the
\* duplicate tracker of RebuildDllBreakpoints, the cursor of ClearAll and the
\* temporary breakpoints HandleStepOut will remove.
LoopInv ==
  /\ session = "none" => phase = "idle" /\ dll = {}
  /\ phase = "clear" => cursor = NULL \/ \E i \in DOMAIN list : list[i] = cursor
  /\ phase = "arm" =>
       /\ tail = IF list = <<>> THEN NULL ELSE list[Len(list)]
       /\ Len(list) = Len(armed)
       /\ Len(armed) <= MaxUserBreakpoints
       /\ \A i \in DOMAIN list : pool[list[i]].adr = armed[i] /\ pool[list[i]].number = i
       /\ \A i, j \in DOMAIN armed : i # j => armed[i] # armed[j]
  /\ phase \in {"temp", "untemp"} =>
       /\ \A i, j \in DOMAIN temps : i # j => temps[i] # temps[j]
       /\ \A i \in DOMAIN temps : \E j \in DOMAIN list : list[j] = temps[i]

\* The hardware limit: linked user breakpoints carry different numbers of
\* 1..kMaxUserBreakpoints, so there are at most that many, and no two of them
\* spend a slot on the same address, whichever table asked for it.
UserLimit ==
  /\ \A i \in DOMAIN list :
       pool[list[i]].number \in (1 .. MaxUserBreakpoints) \cup {TempNumber}
  /\ \A i, j \in DOMAIN list :
       \/ i = j
       \/ pool[list[i]].number = TempNumber
       \/ pool[list[j]].number = TempNumber
       \/ /\ pool[list[i]].number # pool[list[j]].number
          /\ pool[list[i]].adr # pool[list[j]].adr

\* What the tables ask for, files as the map iterates, then the instruction
\* breakpoints; the places <<table, entry>> of it; the places where an address
\* stands for the first time, and the rank of such a place among them.
AskedFor     == Append([k \in DOMAIN fileOrder |-> fileBreakpoints[fileOrder[k]]], instrBreakpoints)
Places       == UNION {{k} \X DOMAIN AskedFor[k] : k \in DOMAIN AskedFor}
AskedAt(p)   == AskedFor[p[1]][p[2]]
Before(p, q) == p[1] < q[1] \/ (p[1] = q[1] /\ p[2] < q[2])
FirstPlaces  == {p \in Places : \A q \in Places : Before(q, p) => AskedAt(q) # AskedAt(p)}
Rank(p)      == Cardinality({q \in FirstPlaces : Before(q, p)}) + 1

PlanLength == IF Cardinality(FirstPlaces) <= MaxUserBreakpoints
              THEN Cardinality(FirstPlaces) ELSE MaxUserBreakpoints

\* After a rebuild, and still after any number of step-outs, what is armed is
\* the first kMaxUserBreakpoints different addresses the tables ask for, in
\* that order, files before instructions: no slot is wasted or leaked, and no
\* temporary breakpoint stays behind.
ArmedAsPlanned ==
  \/ phase = "idle" /\ list # <<>>
  \/ phase = "arm" /\ todo = <<>> /\ tablesLeft = <<>>
  => /\ Len(list) = PlanLength
     /\ \A p \in FirstPlaces :
          Rank(p) <= MaxUserBreakpoints => pool[list[Rank(p)]].adr = AskedAt(p)

\* Every handler ends: in particular ClearAll's walk reaches the end of the
\* list whatever the requests before it were.
HandlerCompletes == (phase # "idle") ~> (phase = "idle")

\* What bp_manager.h:8-10 promises: a request for one file leaves the
\* breakpoints of the other files armed.
OtherFilesPreserved ==
  phase = "idle" /\ session = "debug" => \A f \in Files : told[f] \subseteq Armed

\* What run_control.cpp:794-796 promises: a new session starts without the
\* breakpoints of the one before, so only what its own client asked for is armed.
OnlyAskedForArmed ==
  phase = "idle" /\ session = "debug" => Armed \subseteq asked
=============================================================================
