---------------------------- MODULE ProgramData ----------------------------
(***************************************************************************)
(* The program of a debug session, from its HEX file and its map file, and *)
(* what the client sees and edits of it while the target is halted: launch *)
(* (the part of HandleLaunch that loads the files and goes to the entry    *)
(* point), scopes, variables, evaluate, readMemory, disassemble,           *)
(* setVariable, setExpression and writeMemory.                             *)
(*                                                                         *)
(* The reader thread handles one request at a time, and all of these while *)
(* the target is halted, so that a request is one step.  Between two stops *)
(* the target may be anywhere: how it gets there is the subject of modules *)
(* Stepping and RunControl.                                                *)
(***************************************************************************)
EXTENDS Variables, HexLoader, Disassembler

CONSTANTS
  HexFiles,     \* HEX files: from name to records
  MapFiles,     \* map files: from name to records; <<>> for a file that is not there
  Starts,       \* values of the launch argument startAddress
  Data,         \* the memory of the target when it halts, CODE apart
  Pca0md,       \* 0xD9: the register with the watchdog's enable bit
  WatchdogBit,  \* 6
  Names,        \* names the client asks for
  Values,       \* numbers the client types
  MemRefs,      \* what readMemory and writeMemory are asked for: [space, addr, offset]
  Listings,     \* what disassemble is asked for: [ref, offset, instrOffset, count]
  MaxEdits      \* bound: edits at one halt

\* The functions of a map file are the records from PROC to ENDPROC.
Procs(file)    == {i \in DOMAIN file : file[i].rec = "proc"}
EndOf(file, p) == Min({i \in DOMAIN file : i > p /\ file[i].rec = "endproc"})
Body(file, p)  == p + 1 .. EndOf(file, p) - 1

\* The C: lines of a function, and their addresses.
CodeRecords(file, p) == {i \in Body(file, p) : file[i].rec \in {"code", "line", "label"}}
ProcCode(file, p)    == {file[i].addr : i \in CodeRecords(file, p)}

ASSUME FilesAssumption ==
  /\ \A hex \in DOMAIN HexFiles : HexFiles[hex] \in Seq(HexRecord)
  /\ \A map \in DOMAIN MapFiles : MapFiles[map] \in Seq(MapRecord)
  /\ NoName \notin DOMAIN MapFiles

\* The bits of a file are bits of a byte.
ASSUME BitsAssumption ==
  \A map \in DOMAIN MapFiles : \A i \in DOMAIN MapFiles[map] :
    MapFiles[map][i].rec = "bit" => Byte % (2 * Weight[1 + MapFiles[map][i].bit]) = 0

\* Functions are listed one after another, and share no code.
ASSUME FunctionsAssumption ==
  \A map \in DOMAIN MapFiles :
    LET file == MapFiles[map]
    IN  /\ \A p \in Procs(file) :
             /\ \E e \in DOMAIN file : e > p /\ file[e].rec = "endproc"
             /\ \A i \in Body(file, p) : file[i].rec \notin {"module", "proc"}
             /\ ProcCode(file, p) # {}
        /\ \A p, q \in Procs(file) : p # q =>
             \/ \A a \in ProcCode(file, p), b \in ProcCode(file, q) : a < b
             \/ \A a \in ProcCode(file, p), b \in ProcCode(file, q) : b < a

\* A variable is listed where its line is.
ASSUME LinesAssumption ==
  \A map \in DOMAIN MapFiles : \A i \in DOMAIN MapFiles[map] :
    MapFiles[map][i].rec \in {"global", "local"} => MapFiles[map][i].at = i

\* Each space of the target is memory from address 0 on, with the registers in it.
ASSUME TargetAssumption ==
  /\ DOMAIN Data = {"DATA", "XDATA", "R"}
  /\ \A space \in DOMAIN Data :
       /\ \E n \in 1 .. AddrMask : DOMAIN Data[space] = 0 .. n - 1
       /\ \A a \in DOMAIN Data[space] : Data[space][a] \in 0 .. Byte - 1
  /\ {Sfrs[name] : name \in DOMAIN Sfrs} \cup {DPL, DPH, Pca0md} \subseteq DOMAIN Data.DATA
  /\ {Rn[name] : name \in DOMAIN Rn} \subseteq DOMAIN Data.R
  /\ DPL # DPH
  /\ WatchdogBit \in 0 .. 7

\* The linker puts variables in memory that the target has.
ASSUME PlacedAssumption ==
  \A map \in DOMAIN MapFiles : \A i \in DOMAIN MapFiles[map] :
    LET r == MapFiles[map][i]
    IN  /\ r.rec \in {"global", "local"} => r.addr \in DOMAIN Data[r.space]
        /\ r.rec = "bit" => r.addr \in DOMAIN Data.DATA

ASSUME RequestsAssumption ==
  /\ Starts \cup Values \cup {MaxEdits} \subseteq Nat
  /\ MemRefs \subseteq [space : {"CODE", "XDATA", "DATA"}, addr : Nat, offset : Int]
  /\ Listings \subseteq [ref : Nat, offset : Int, instrOffset : Int, count : Int]

VARIABLES
  session,    \* "none", "failed" or "launched"
  flash,      \* g_hexLoader: the HEX file it holds the image of, or NoName
  symtab,     \* g_symtab: the map file it holds the tables of, or NoName
  mem,        \* the memory and registers of the target (external)
  cachedPC,   \* g_registers.PC()
  registers,  \* g_registers: the other registers, as they were read last
  reply,      \* the body of the last response
  edit,       \* the last edit, and the memory before it (history)
  edits       \* the number of edits since the target halted

vars == <<session, flash, symtab, mem, cachedPC, registers, reply, edit, edits>>

NoReply == [kind |-> "none"]
NoEdit  == [kind |-> "none"]

Erase == [a \in 0 .. CodeSize - 1 |-> Erased]

\* The DLL erases the flash and programs the image (external).
Programmed(image) ==
  [a \in 0 .. CodeSize - 1 |->
     IF a - image.base \in DOMAIN image.bytes THEN image.bytes[a - image.base] ELSE Erased]

\* Where the instructions begin, the first one at 0, in the flash that is used.
Instructions(code) ==
  {a \in Range(Walk(InstructionLength, code, 0, CodeSize)) : code[a] # Erased}

\* What the files hold, and the flash they make.
Images == [hex \in DOMAIN HexFiles |-> LoadFile(HexFiles[hex])]
Codes  == [hex \in DOMAIN HexFiles |-> Programmed(Images[hex])]
Tables == [map \in DOMAIN MapFiles |-> Load(MapFiles[map])]

Image == IF flash = NoName THEN NoImage ELSE Images[flash]
Table == IF symtab = NoName THEN EmptyTable ELSE Tables[symtab]

\* Two modules share no code, so that all the lines of an address are of one file.
ASSUME OneModuleAssumption ==
  \A map \in DOMAIN MapFiles : \A e, f \in Tables[map].lines : e.addr = f.addr => e.file = f.file

\* A memory once the target has run: any contents, and one stands for all.
Ran(code, pc) ==
  [DATA |-> Data.DATA, XDATA |-> Data.XDATA, R |-> Data.R, CODE |-> code, PC |-> pc]

Init ==
  /\ session = "none"
  /\ flash = NoName
  /\ symtab = NoName
  /\ mem = Ran(Erase, 0)
  /\ cachedPC = 0
  /\ registers = <<>>
  /\ reply = NoReply
  /\ edit = NoEdit
  /\ edits = 0

-----------------------------------------------------------------------------
\* The launch.  One that fails leaves the target without a session.
LaunchFails(code) ==
  /\ session' = "failed"
  /\ mem' = Ran(code, 0)
  /\ UNCHANGED <<cachedPC, registers>>

\* LoadFile refuses the file, and has dropped the image before; the symbol
\* table of the program before stays.
HandleLaunchNoImage(hex) ==
  /\ ~ Images[hex].loaded
  /\ flash' = NoName
  /\ LaunchFails(mem.CODE)
  /\ edit' = NoEdit
  /\ edits' = 0
  /\ UNCHANGED <<symtab, reply>>

Loads(hex, map) ==
  /\ Images[hex].loaded
  /\ flash' = hex
  /\ symtab' = map
  /\ edit' = NoEdit
  /\ edits' = 0
  /\ UNCHANGED reply

\* InitAgdiSession fails, before the flash is programmed or after it.
HandleLaunchNoTarget(hex, map) ==
  /\ Loads(hex, map)
  /\ LaunchFails(mem.CODE) \/ LaunchFails(Codes[hex])

ClearBit(n, bit) == n - BitOf(n, bit) * Weight[1 + bit]

\* Where the code begins to run: startAddress, or the first byte of the image.
EntryPoint(image, start) == IF start = NoAddr THEN image.base ELSE start

\* The reset leaves the PC at 0.  Past it the watchdog is disabled, and the
\* target runs to the entry point; it is stopped anywhere if it does not get there.
HandleLaunch(hex, map, start) ==
  /\ Loads(hex, map)
  /\ session' = "launched"
  /\ LET code  == Codes[hex]
         entry == EntryPoint(Images[hex], start)
     IN  IF entry > 0
         THEN \E pc \in {entry} \cup Instructions(code) :
                mem' = [Ran(code, pc) EXCEPT !.DATA[Pca0md] = ClearBit(@, WatchdogBit)]
         ELSE mem' = Ran(code, 0)
  /\ cachedPC' = mem'.PC
  /\ registers' = ReadRegisters(mem')

\* The target runs, and halts at an instruction.  All the registers are read
\* again, or, where a single step ends, the PC alone (ReadPcCached) or with the SP
\* (ReadPcSpCached): how old the others may then be is told by module RunControl.
TargetStops ==
  /\ session = "launched"
  /\ reply = NoReply
  /\ \E pc \in Instructions(mem.CODE) :
       /\ mem' = Ran(mem.CODE, pc)
       /\ cachedPC' = pc
  /\ registers' \in {ReadRegisters(mem'), ReadSp(registers, mem'), registers}
  /\ edit' = NoEdit
  /\ edits' = 0
  /\ UNCHANGED <<session, flash, symtab, reply>>

-----------------------------------------------------------------------------
\* Requests that read.  A response is looked at before the next request, which
\* changes nothing but the number of states: no request depends on a response.
Answer(body) ==
  /\ session = "launched"
  /\ reply = NoReply
  /\ reply' = body
  /\ UNCHANGED <<session, flash, symtab, mem, cachedPC, registers, edit, edits>>

Memories == {"CODE", "XDATA", "DATA"}
Scopes   == {"registers", "locals"} \cup Memories

\* A Locals scope where the function of the PC has locals.
HandleScopes ==
  Answer([kind |-> "scopes", locals |-> LookupLocals(Table, cachedPC) # <<>>])

HandleVariables(scope) ==
  Answer([kind |-> "variables", scope |-> scope,
          rows |-> Rows(scope, Table, mem, cachedPC, registers)])

HandleEvaluate(name) ==
  LET place == Evaluated(Table, name, cachedPC)
  IN  Answer([kind |-> "evaluate", name |-> name, found |-> place # None,
              value |-> IF place = None THEN 0 ELSE Shown(mem, place, cachedPC)])

HandleReadMemory(r) ==
  Answer([kind |-> "readMemory", ref |-> r,
          bytes |-> ReadMemory(mem, r.space, r.addr, r.offset, 2)])

ClientReads ==
  /\ reply # NoReply
  /\ reply' = NoReply
  /\ UNCHANGED <<session, flash, symtab, mem, cachedPC, registers, edit, edits>>

HandleDisassemble(r) ==
  Answer([kind |-> "disassemble", asked |-> r,
          listing |-> Listing(mem.CODE, (r.ref + r.offset) % CodeSize, r.instrOffset, r.count)])

-----------------------------------------------------------------------------
\* Requests that edit.  g_registers is not read again.
Edit(what, m) ==
  /\ session = "launched"
  /\ reply = NoReply
  /\ edits < MaxEdits
  /\ edits' = edits + 1
  /\ mem' = m
  /\ edit' = what
  /\ UNCHANGED <<session, flash, symtab, cachedPC, registers, reply>>

HandleSetExpression(name, val) ==
  LET place == SetTarget(Table, name, cachedPC)
  IN  /\ place # None
      /\ Edit([kind |-> "setExpression", name |-> name, place |-> place, val |-> val,
               before |-> mem],
              Set(mem, place, val))

HandleSetVariable(scope, name, val) ==
  LET place == RowTarget(Table, scope, name, cachedPC)
  IN  /\ place # None
      /\ Edit([kind |-> "setVariable", name |-> name, place |-> place, val |-> val,
               before |-> mem],
              Set(mem, place, val))

HandleWriteMemory(r, bytes) ==
  Edit([kind |-> "writeMemory", ref |-> r, bytes |-> bytes, before |-> mem],
       WriteMemory(mem, r.space, r.addr, r.offset, bytes))

\* A launch after an edit is as one before it, and left out.
Launches ==
  /\ reply = NoReply
  /\ edits = 0
  /\ \E hex \in DOMAIN HexFiles :
       \/ HandleLaunchNoImage(hex)
       \/ \E map \in DOMAIN MapFiles :
            \/ HandleLaunchNoTarget(hex, map)
            \/ \E start \in {NoAddr} \cup Starts : HandleLaunch(hex, map, start)

Reads == \/ HandleScopes
         \/ \E scope \in Scopes : HandleVariables(scope)
         \/ \E name \in Names : HandleEvaluate(name)
         \/ \E r \in MemRefs : HandleReadMemory(r)
         \/ \E r \in Listings : HandleDisassemble(r)

Edits == \/ \E name \in Names, val \in Values : HandleSetExpression(name, val)
         \/ \E scope \in Scopes, name \in Names, val \in Values :
              HandleSetVariable(scope, name, val)
         \/ \E r \in MemRefs, b \in 0 .. 1 : HandleWriteMemory(r, <<b, 1>>)

Next == Launches \/ TargetStops \/ Reads \/ ClientReads \/ Edits

Spec == Init /\ [][Next]_vars

-----------------------------------------------------------------------------
\* Properties.

\* Types.
TypeOK ==
  /\ session \in {"none", "failed", "launched"}
  /\ flash \in {NoName} \cup DOMAIN HexFiles
  /\ symtab \in {NoName} \cup DOMAIN MapFiles
  /\ Image.base \in 0 .. AddrWord - 1
  /\ DOMAIN Image.bytes \subseteq 0 .. MaxImage - 1
  /\ mem.CODE \in [0 .. CodeSize - 1 -> Opcode]
  /\ \A space \in {"XDATA", "DATA", "R"} : \A a \in DOMAIN mem[space] : mem[space][a] \in 0 .. Byte - 1
  /\ {mem.PC, cachedPC} \subseteq Nat
  /\ \A i \in DOMAIN registers : registers[i] \in 0 .. Byte - 1
  /\ \A v \in Range(Table.locals) \cup Range(Table.globals) : v.size \in {1, 2, 4}
  /\ edits \in 0 .. MaxEdits

\* What a HEX file says of an address: the last good data record that covers it.
BaseAt(file, i) ==
  LET bases == {j \in 1 .. i : file[j].type = "base"}
  IN  IF bases = {} THEN 0 ELSE file[Max(bases)].base

Covering(file, addr) ==
  {i \in DOMAIN file :
     /\ file[i].type = "data" /\ file[i].ok /\ ~ IsShort(file[i])
     /\ addr - BaseAt(file, i) - file[i].addr \in 0 .. file[i].count - 1}

Described(file, addr) ==
  LET i == Max(Covering(file, addr))
  IN  file[i].data[1 + addr - BaseAt(file, i) - file[i].addr]

Within32Bits(file) ==
  \A i \in DOMAIN file :
    file[i].type = "data" => BaseAt(file, i) + file[i].addr + file[i].count < AddrWord

\* The image that is loaded (HexLoader::LoadFile) holds, at each address, the
\* byte of the last good record that covers it, and elsewhere erased flash; no
\* byte of a good record is lost, whatever other records are bad.  (Looked at
\* between requests: no response changes the image.)
HexImageRight ==
  LET file == HexFiles[flash]
      last == Image.base + Cardinality(DOMAIN Image.bytes)
  IN  reply = NoReply /\ Image.loaded /\ Within32Bits(file) =>
        /\ \A i \in DOMAIN file :
             file[i].type = "data" /\ file[i].ok /\ ~ IsShort(file[i]) /\ file[i].count > 0 =>
               LET a == BaseAt(file, i) + file[i].addr
               IN  Image.base <= a /\ a + file[i].count <= last
        /\ \A o \in DOMAIN Image.bytes :
             Image.bytes[o] = IF Covering(file, Image.base + o) = {} THEN Erased
                              ELSE Described(file, Image.base + o)

\* A LINE# counts where its module has a source.
LineRecords(file, p) == {i \in Body(file, p) : file[i].rec = "line" /\ file[i].line > 0}
ProcLines(file, p)   == {file[i].addr : i \in LineRecords(file, p)}
ProcLocals(file, p)  == {file[i].name : i \in {j \in Body(file, p) : file[j].rec = "local"}}
HasSource(file, p) ==
  \E i \in 1 .. p : /\ file[i].rec = "module" /\ file[i].file # NoName
                   /\ \A j \in i + 1 .. p : file[j].rec # "module"
Ascending(file, p) ==
  \A i, j \in CodeRecords(file, p) : i < j => file[i].addr <= file[j].addr

\* The Locals scope (HandleScopes, HandleVariables) has no variable of another
\* function than the one the target is in, and at the first byte of a line of
\* the function it has all of its variables.  (Past the first byte of the last
\* line it has none, nor in a function without source; a function with a line at
\* address 0 is shown only in part.)
LocalsOfProc ==
  LET file  == MapFiles[symtab]
      shown == {reply.rows[i].name : i \in DOMAIN reply.rows}
      at    == {p \in Procs(file) :
                  /\ \E a, b \in ProcCode(file, p) : a <= cachedPC /\ cachedPC <= b
                  /\ \/ cachedPC = 0
                     \/ HasSource(file, p) /\ \E a \in ProcLines(file, p) : cachedPC <= a}
      begun == {p \in Procs(file) :
                  /\ HasSource(file, p) /\ Ascending(file, p)
                  /\ cachedPC \in ProcLines(file, p) /\ 0 \notin ProcLines(file, p)}
  IN  /\ reply.kind = "variables" /\ reply.scope = "locals" =>
           /\ shown \subseteq UNION {ProcLocals(file, p) : p \in at}
           /\ \A p \in begun : ProcLocals(file, p) \subseteq shown
      /\ reply.kind = "scopes" =>
           \A p \in begun : reply.locals <=> ProcLocals(file, p) # {}

\* What is left of a number in a place that is too narrow for it.
Capacity(size) == CASE size = 1 -> Byte
                    [] size = 2 -> Byte * Byte
                    [] size = 4 -> Byte * Byte * Byte * Byte

Truncated(place, val) ==
  CASE place.kind = "bytes" -> val % Capacity(place.size)
    [] place.kind = "dptr"  -> val % Capacity(2)
    [] place.kind = "bit"   -> IF val % Byte = 0 THEN 0 ELSE 1

\* Memory that the target has.
Present(place) ==
  place.kind = "bytes" =>
    \A i \in 1 .. place.size : At(place.addr, i) \in DOMAIN mem[place.space]

\* A memory as the rows of its scope show it.
Paged == [mem EXCEPT ![reply.scope] = [a \in 0 .. PageSize - 1 |-> reply.rows[1 + a].value]]

OnPage(place) ==
  CASE place.kind = "bytes" ->
         place.space = reply.scope /\ (place.addr % AddrMask) + place.size <= PageSize
    [] place.kind = "bit"   -> reply.scope = "DATA" /\ place.addr < PageSize
    [] place.kind = "dptr"  -> reply.scope = "DATA" /\ DPL < PageSize /\ DPH < PageSize
    [] OTHER -> FALSE

\* What the client typed (HandleSetExpression, HandleSetVariable) is what it then
\* sees, wherever the place it edited is shown: in every watch that stands for it
\* (HandleEvaluate), in the Locals scope, and byte by byte in the scope of its
\* memory (HandleVariables); and the bytes it wrote (HandleWriteMemory) are
\* those it reads (HandleReadMemory) and those of that scope.  Not so the PC, and
\* the rows of the Registers scope, which are shown as they were read at the last
\* halt, nor memory that the target does not have.
EditReadsBack ==
  /\ edit.kind \in {"setExpression", "setVariable"} /\ edit.place.kind # "pc" /\ Present(edit.place) =>
       LET value == Truncated(edit.place, edit.val)
       IN  /\ reply.kind = "evaluate" /\ Evaluated(Table, reply.name, cachedPC) = edit.place =>
                reply.value = value
           /\ reply.kind = "variables" /\ reply.scope = "locals" =>
                \A i \in DOMAIN reply.rows :
                  PlaceOf(LookupLocals(Table, cachedPC)[i]) = edit.place =>
                    reply.rows[i].value = value
           /\ reply.kind = "variables" /\ reply.scope \in Memories /\ OnPage(edit.place) =>
                Shown(Paged, edit.place, cachedPC) = value
  /\ edit.kind = "writeMemory"
       /\ Present(Bytes(edit.ref.space, edit.ref.addr + edit.ref.offset, Len(edit.bytes))) =>
       /\ reply.kind = "readMemory" /\ reply.ref = edit.ref => reply.bytes = edit.bytes
       /\ reply.kind = "variables" /\ reply.scope = edit.ref.space =>
            \A i \in DOMAIN edit.bytes :
              LET a == At(edit.ref.addr + edit.ref.offset, i)
              IN  a < PageSize => reply.rows[1 + a].value = edit.bytes[i]

\* An edit of a variable changes no other variable of its list: the sizes that
\* ParseM51 infers do not overlap.  (A gap of 3 bytes does: it is taken for a
\* long of 4; and so do variables at one address.)  An edit of a bit changes no
\* other bit.
EditStaysInside ==
  edit.kind \in {"setExpression", "setVariable"} /\ reply = NoReply =>
    /\ \A vs \in {Range(LookupLocals(Table, cachedPC)), Range(Table.globals)} :
         \A v, w \in vs :
           /\ PlaceOf(v) = edit.place
           /\ PlaceOf(w) # edit.place
           /\ ~ (v.space = w.space /\ {v.addr - w.addr, w.addr - v.addr} \cap {0, 3} # {})
           => Shown(mem, PlaceOf(w), cachedPC) = Shown(edit.before, PlaceOf(w), cachedPC)
    /\ edit.place.kind = "bit" =>
         \A b \in Range(Table.bits) :
           LET other == [kind |-> "bit", addr |-> b.addr, bit |-> b.bit]
           IN  other # edit.place =>
                 Shown(mem, other, cachedPC) = Shown(edit.before, other, cachedPC)

BuiltIn(name) == \E kind \in {"pc", "Rn", "dptr", "sfr"} : Meaning(kind, Table, name, cachedPC) # None

\* A name means the same everywhere: a watch (HandleEvaluate) shows the row that
\* the Locals scope has under that name, and an edit of a watch
\* (HandleSetExpression) goes where an edit of that row (HandleSetVariable) goes.
\* (A local named like a register is hidden from the watches.)
WatchAgreesWithPanel ==
  \A name \in Names :
    LET row == RowTarget(Table, "locals", name, cachedPC)
    IN  row # None /\ ~ BuiltIn(name) =>
          /\ SetTarget(Table, name, cachedPC) = row
          /\ reply.kind = "evaluate" /\ reply.name = name =>
               reply.value = Shown(mem, row, cachedPC)

\* A listing (HandleDisassemble) of an instruction, with as many before it as
\* asked for, has the true instructions of the code, in order and without a
\* gap, when the walk begins at one of them; the entries that fill it up come
\* only at the top of the memory.  (Not so with a positive instructionOffset:
\* the bytes for the instructions it skips are not read.)
ListingAnchored ==
  reply.kind = "disassemble" =>
    LET r      == reply.asked
        base   == (r.ref + r.offset) % CodeSize
        before == IF r.instrOffset < 0 THEN -r.instrOffset ELSE 0
        order  == Walk(InstructionLength, mem.CODE, 0, CodeSize)
        back   == IF base < 3 * before THEN 0 ELSE base - 3 * before
        i      == CHOOSE j \in DOMAIN order : order[j] = base
        from   == IF i > before THEN i - before ELSE 1
        l      == reply.listing.listed
        n      == ListingCount(r.count)
    IN  r.instrOffset <= 0 /\ {base, back} \subseteq Range(order) =>
          /\ l = SubSeq(order, from, IF from + n - 1 > Len(order) THEN Len(order) ELSE from + n - 1)
          /\ Len(l) < n => Last(l) + InstructionLength[mem.CODE[Last(l)]] >= CodeSize

\* A breakpoint set on a line (LookupAddress) halts where the stack trace
\* (LookupLine) shows that line, or a later one of its file at the same address
\* or past the prologue that begins there.
LinesRoundTrip ==
  reply = NoReply =>
    \A e \in Table.lines :
      LET a == LookupAddress(Table, e.file, e.line)
      IN  \E f \in Table.lines :
            /\ LookupLine(Table, a) = [file |-> f.file, line |-> f.line]
            /\ f.file = e.file /\ f.line >= e.line
            /\ f.addr \in a .. a + PrologueReach

\* The lengths that a listing and every scan of code rely on
\* (k8051InstructionLength) are those of the instructions the disassembler
\* prints, for all instructions but ANL C,bit (0x82).
OnlyAnlBitIsShort ==
  reply.kind = "disassemble" => {op \in Opcode : InstructionLength[op] # 1 + Operands[op]} = {\h82}
=============================================================================
