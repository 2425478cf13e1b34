------------------------------- MODULE MapFile -------------------------------
(***************************************************************************)
(* The map file of the linker, as SymbolTable::Load reads it (symtab.cpp). *)
(* A file is a sequence of records, one for each line ParseM51 takes:      *)
(*   [rec |-> "module", file]             NoName where no source is found  *)
(*   [rec |-> "proc"], [rec |-> "endproc"]                                 *)
(*   [rec |-> "local", space, addr, name, at]   D: and X: lines with SYMBOL*)
(*   [rec |-> "global", space, addr, name, at]  D: and X: lines with PUBLIC*)
(*       at: where in the file the line is                                 *)
(*   [rec |-> "bit", addr, bit, name]     B: lines with PUBLIC             *)
(*   [rec |-> "code", addr, name]         C: lines with PUBLIC             *)
(*   [rec |-> "line", addr, line]         C: lines with LINE#              *)
(*   [rec |-> "label", addr]              other C: lines                   *)
(* Everything else is skipped; so is ENDMOD, which the parser looks for    *)
(* only in lines that say MODULE.  Variables may share an address, as the  *)
(* locals of nested blocks do; std::sort, which leaves the order of equal  *)
(* keys open, keeps that of the file (as an insertion sort does, which a   *)
(* short list gets).                                                       *)
(***************************************************************************)
EXTENDS SymTab, Sequences, SequencesExt

CONSTANT StartupLine   \* where STARTUP.A51 defines ?C_STARTUP; NoLoc without that file

ASSUME StartupAssumption == DOMAIN StartupLine = {"file", "line"} /\ StartupLine.line \in Nat

\* The records of a file.
MapRecord ==
  [rec : {"module"}, file : STRING] \cup [rec : {"proc", "endproc"}]
    \cup [rec : {"local", "global"}, space : {"DATA", "XDATA"}, addr : Nat, name : STRING, at : Nat]
    \cup [rec : {"bit"}, addr : Nat, bit : 0 .. 7, name : STRING]
    \cup [rec : {"code"}, addr : Nat, name : STRING]
    \cup [rec : {"line"}, addr : Nat, line : Int] \cup [rec : {"label"}, addr : Nat]

EmptyTable == [symbols |-> <<>>, lines |-> {}, locals |-> <<>>, globals |-> <<>>, bits |-> <<>>]

\* The spaces in the order of their numbers: amXDATA is 0x01, amDATA 0xF0.
SpaceOrder == [XDATA |-> 1, DATA |-> 240]

Before(v, w) ==
  \/ SpaceOrder[v.space] < SpaceOrder[w.space]
  \/ v.space = w.space /\ v.addr < w.addr
  \/ v.space = w.space /\ v.addr = w.addr /\ v.at < w.at

BugSizeIsGap(gap) == gap
BugSizeAtLeast2(gap) == IF gap = 3 THEN 4 ELSE 2

\* A gap of 3 is taken for a padded long, and a gap of 0 for a byte.
SizeOfGap(gap) == IF gap \in {2, 4} THEN gap ELSE IF gap = 3 THEN 4 ELSE 1

\* Variables in order, each with the size that the gap to the next one of its
\* space suggests; the last one of a space has one byte.
Sized(vars) ==
  LET s == [i \in 1 .. Cardinality(vars) |->
              CHOOSE v \in vars : Cardinality({w \in vars : Before(w, v)}) = i - 1]
      Size(i) == IF i < Len(s) /\ s[i + 1].space = s[i].space
                 THEN SizeOfGap(s[i + 1].addr - s[i].addr)
                 ELSE 1
  IN  [i \in DOMAIN s |-> [name |-> s[i].name, space |-> s[i].space, addr |-> s[i].addr,
                           size |-> Size(i)]]

Variable(r) == [name |-> r.name, space |-> r.space, addr |-> r.addr, at |-> r.at]

Scoped(v, start, end) == [name |-> v.name, space |-> v.space, addr |-> v.addr, size |-> v.size,
                          start |-> start, end |-> end]

\* The parser: the tables read so far, and its place in the file.  start and
\* last are 0 where the PROC has had no C: line, and no LINE#.
Start == [table |-> EmptyTable, globals |-> {}, file |-> NoName, inProc |-> FALSE,
          start |-> 0, last |-> 0, pending |-> {}]

Module(p, r) == [p EXCEPT !.file = r.file]

BugStartKept(p) == [p EXCEPT !.inProc = TRUE, !.last = 0, !.pending = {}]

Proc(p) == [p EXCEPT !.inProc = TRUE, !.start = 0, !.last = 0, !.pending = {}]

\* ENDPROC: the locals of the PROC are in scope up to the first byte of the
\* last LINE# listed.
EndProc(p) ==
  LET scoped == [i \in DOMAIN Sized(p.pending) |->
                   Scoped(Sized(p.pending)[i], p.start, p.last + 1)]
  IN  [p EXCEPT !.table.locals = @ \o scoped, !.pending = {}, !.inProc = FALSE]

Local(p, r) == IF p.inProc THEN [p EXCEPT !.pending = @ \cup {Variable(r)}] ELSE p

Global(p, r) == [p EXCEPT !.globals = @ \cup {Variable(r)}]

Bit(p, r) ==
  [p EXCEPT !.table.bits = Append(@, [name |-> r.name, addr |-> r.addr, bit |-> r.bit])]

\* Every C: line may begin a PROC.  A LINE# counts in a module with a source.
CodeLine(p, r) ==
  LET q == IF p.inProc /\ p.start = 0 THEN [p EXCEPT !.start = r.addr] ELSE p
  IN  CASE r.rec = "code" -> [q EXCEPT !.table.symbols = (r.addr :> r.name) @@ @]
        [] r.rec = "line" /\ p.file # NoName /\ r.line > 0 ->
             [q EXCEPT !.table.lines = @ \cup {[addr |-> r.addr, file |-> p.file, line |-> r.line]},
                       !.last = IF p.inProc THEN r.addr ELSE @]
        [] OTHER -> q

Parse(p, r) ==
  CASE r.rec = "module"  -> Module(p, r)
    [] r.rec = "proc"    -> Proc(p)
    [] r.rec = "endproc" -> EndProc(p)
    [] r.rec = "local"   -> Local(p, r)
    [] r.rec = "global"  -> Global(p, r)
    [] r.rec = "bit"     -> Bit(p, r)
    [] OTHER -> CodeLine(p, r)

\* ParseM51: the records in order, then the sizes of the globals.
ParseM51(file) ==
  LET p == FoldLeft(Parse, Start, file)
  IN  [p.table EXCEPT !.globals = Sized(p.globals)]

\* Load: the assembler lists no line for the reset vector; its label's line is
\* put in.
Load(file) ==
  LET t == ParseM51(file)
  IN  IF /\ 0 \in DOMAIN t.symbols /\ t.symbols[0] = "?C_STARTUP"
         /\ 0 \notin LineAddrs(t)
         /\ StartupLine # NoLoc
      THEN [t EXCEPT !.lines = @ \cup
              {[addr |-> 0, file |-> StartupLine.file, line |-> StartupLine.line]}]
      ELSE t

-----------------------------------------------------------------------------
InScope(v, pc) == v.start <= pc /\ pc < v.end

\* The locals in scope, in the order of the table.
LookupLocals(t, pc) ==
  LET I == {i \in DOMAIN t.locals : InScope(t.locals[i], pc)}
  IN  [n \in 1 .. Cardinality(I) |->
         t.locals[CHOOSE i \in I : Cardinality({j \in I : j <= i}) = n]]

\* The first of a table with that name in whatever case, or <<>>.
Called(s, name) == {i \in DOMAIN s : Upper(s[i].name) = Upper(name)}
First(s, I)     == IF I = {} THEN <<>> ELSE <<s[Min(I)]>>

LookupLocalByName(t, name, pc) ==
  First(t.locals, {i \in Called(t.locals, name) : InScope(t.locals[i], pc)})
LookupGlobalByName(t, name) == First(t.globals, Called(t.globals, name))
LookupBitByName(t, name)    == First(t.bits, Called(t.bits, name))
=============================================================================
