--------------------------- MODULE MCProgramData ---------------------------
(***************************************************************************)
(* Two programs: one from address 0 on, with a reset vector, a main and a  *)
(* function f, and one above a boot loader.  A byte has 16 values, so that *)
(* numbers of one to four bytes are small; the bytes of code are real ones.*)
(***************************************************************************)
EXTENDS ProgramData

Record(addr, data) ==
  [type |-> "data", addr |-> addr, count |-> Len(data), data |-> data, ok |-> TRUE]
BadSum(addr, data) == [Record(addr, data) EXCEPT !.ok = FALSE]
Cut(addr, data)    == [Record(addr, data) EXCEPT !.count = @ + 1]
Base(base)         == [type |-> "base", base |-> base]
End                == [type |-> "end"]

\* 0 LJMP 4; 4 LCALL 12, MOV 8,#1, SJMP 4; 12 MOV A,8, INC A, RET.
Low ==
  << Record(0, <<\h02, \h00, \h04>>), Record(4, <<\h12, \h00, \h0C>>),
     Record(7, <<\h75, \h08, \h01, \h80, \hF8>>),
     BadSum(14, <<\h01, \h01>>), Record(12, <<\hE5, \h08, \h04, \h22>>), End >>

\* A reset vector, and the rest after a base record: 20 MOV 9,#5, INC A,
\* SETB 0, RET, with a later record over the operand, and bad ones at the end.
Split ==
  << Record(0, <<\h02, \h00, \h14>>), Base(16), Record(4, <<\h75, \h09, \h05, \h04, \hD2, \h00, \h22>>),
     Record(6, <<\h07>>), BadSum(4, <<\h00>>), Cut(12, <<\h00>>) >>

\* The same without the reset vector.
High == << Base(16) >> \o SubSeq(Split, 3, 4)

\* No data; more than the flash holds; a record that wraps.
Empty == << End >>
Large == << Record(0, <<\h22>>), Base(64), Record(0, <<\h22>>) >>

MCHexFiles == [low |-> Low, split |-> Split, high |-> High, empty |-> Empty, large |-> Large]

Mod(file)                   == [rec |-> "module", file |-> file]
ProcRec                     == [rec |-> "proc"]
EndProcRec                  == [rec |-> "endproc"]
VarRec(rec, space, addr, name) ==
  [rec |-> rec, space |-> space, addr |-> addr, name |-> name, at |-> 0]
LocalRec(space, addr, name)  == VarRec("local", space, addr, name)
GlobalRec(space, addr, name) == VarRec("global", space, addr, name)
BitRec(addr, bit, name)     == [rec |-> "bit", addr |-> addr, bit |-> bit, name |-> name]
CodeRec(addr, name)         == [rec |-> "code", addr |-> addr, name |-> name]
LineRec(addr, line)         == [rec |-> "line", addr |-> addr, line |-> line]
LabelRec(addr)              == [rec |-> "label", addr |-> addr]

\* A file with its variables numbered.
Numbered(file) ==
  [i \in DOMAIN file |->
     IF file[i].rec \in {"local", "global"} THEN [file[i] EXCEPT !.at = i] ELSE file[i]]

\* For the first program.  The gaps between the globals are 2 and 3 in DATA,
\* and 4 in XDATA; f has two lines at its first byte, and a local
\* named a; a global has the name of a local of main.
App ==
  << Mod(""), CodeRec(0, "?C_STARTUP"),
     Mod("a.c"), LabelRec(0),
     GlobalRec("DATA", 8, "g"), GlobalRec("DATA", 10, "h"), GlobalRec("DATA", 13, "k"),
     GlobalRec("XDATA", 4, "x"), GlobalRec("XDATA", 8, "i"),
     BitRec(14, 0, "flag"), BitRec(14, 1, "done"),
     CodeRec(4, "main"), CodeRec(12, "f"),
     ProcRec, LocalRec("DATA", 18, "n"), LocalRec("DATA", 16, "i"),
     LineRec(4, 10), LineRec(7, 11), LineRec(10, 12), EndProcRec,
     ProcRec, LocalRec("DATA", 20, "a"), LocalRec("XDATA", 0, "n"),
     LineRec(12, 20), LineRec(12, 21), LineRec(14, 22), LineRec(15, 23), EndProcRec >>

\* For the second: lines out of order, two locals at one address, and a function
\* without source.
Boot ==
  << Mod("b.c"), LabelRec(0), CodeRec(20, "app"),
     ProcRec, LocalRec("DATA", 17, "n"), LocalRec("DATA", 16, "j"), LocalRec("DATA", 16, "i"),
     LineRec(20, 5), LineRec(24, 7), LineRec(23, 6), EndProcRec,
     Mod(""), CodeRec(26, "lib"),
     ProcRec, LocalRec("DATA", 20, "a"), LabelRec(26), LineRec(26, 1), EndProcRec >>

MCMapFiles == [app |-> Numbered(App), boot |-> Numbered(Boot), none |-> <<>>]

MCUpperCase == [a |-> "A", i |-> "I", main |-> "MAIN"]
MCStartup   == [file |-> "STARTUP.A51", line |-> 3]
MCStarts    == {12}
MCData      == [DATA |-> [a \in 0 .. 22 |-> (a + 7) % 16], XDATA |-> [a \in 0 .. 9 |-> a],
                R |-> [i \in 0 .. 7 |-> i]]
MCRn        == [R1 |-> 1]
MCSfrs      == [A |-> 0, ACC |-> 0, SP |-> 1, DPL |-> 2, DPH |-> 3]
MCRegisterRows == <<"SP", "ACC", "DPL", "DPH", "R1">>
MCHexAddrs  == "0x0005" :> 5
MCNames     == {"PC", "R1", "DPTR", "a", "I", "n", "flag", "g", "h", "main", "0x0005"}
MCValues    == {16, 4660}
MCMemRefs   == {[space |-> "DATA", addr |-> 0, offset |-> -50],
                [space |-> "XDATA", addr |-> 4, offset |-> 1]}
Ask(ref, offset, instrOffset, count) ==
  [ref |-> ref, offset |-> offset, instrOffset |-> instrOffset, count |-> count]
MCListings  == {Ask(12, 0, -2, 4), Ask(4, 6, -1, 0), Ask(24, 0, -2, 9),
                Ask(4, 0, 3, 1)}
=============================================================================
