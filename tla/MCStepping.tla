----------------------------- MODULE MCStepping -----------------------------
(***************************************************************************)
(* Seven small programs, in the shapes the scans of the step handlers tell *)
(* apart.  A conditional branch goes either way at each execution.         *)
(***************************************************************************)
EXTENDS Stepping

Plain       == [op |-> "plain", len |-> 1, to |-> 0]
Ret         == [op |-> "ret", len |-> 1, to |-> 0]
Call(to)    == [op |-> "call", len |-> 3, to |-> to]
Branch(to)  == [op |-> "branch", len |-> 2, to |-> to]
Goto(to)    == [op |-> "goto", len |-> 2, to |-> to]
Jump(to)    == [op |-> "jump", len |-> 3, to |-> to]

Line(addr, line) == [addr |-> addr, file |-> "a.c", line |-> line]

\* main calls f and g for ever; f has two returns, and calls g before the
\* second; g has a prologue of its own line.
Calls ==
  [ symbols |-> 0 :> "main" @@ 9 :> "f" @@ 17 :> "g",
    lines   |-> {Line(0, 1), Line(1, 2), Line(4, 3), Line(7, 4),
                 Line(9, 10), Line(11, 11), Line(12, 12), Line(16, 14),
                 Line(17, 20), Line(18, 21), Line(19, 22)},
    breaks  |-> {11, 18},
    code    |-> 0 :> Plain @@ 1 :> Call(9) @@ 4 :> Call(17) @@ 7 :> Goto(0)
             @@ 9 :> Branch(12) @@ 11 :> Ret @@ 12 :> Call(17)
             @@ 15 :> Plain @@ 16 :> Ret
             @@ 17 :> Plain @@ 18 :> Plain @@ 19 :> Ret ]

\* h may go back to a return that lies behind.
Loop ==
  [ symbols |-> 0 :> "main" @@ 5 :> "h",
    lines   |-> {Line(0, 1), Line(3, 2), Line(5, 10), Line(7, 11), Line(8, 12),
                 Line(9, 13), Line(11, 14)},
    breaks  |-> {8},
    code    |-> 0 :> Call(5) @@ 3 :> Goto(0)
             @@ 5 :> Branch(8) @@ 7 :> Ret @@ 8 :> Plain @@ 9 :> Branch(5) @@ 11 :> Ret ]

\* t ends with a jump to g.
TailCall ==
  [ symbols |-> 0 :> "main" @@ 8 :> "t" @@ 15 :> "g",
    lines   |-> {Line(0, 1), Line(3, 2), Line(6, 3), Line(8, 10), Line(9, 11),
                 Line(12, 12), Line(15, 20), Line(16, 21)},
    breaks  |-> {9},
    code    |-> 0 :> Call(8) @@ 3 :> Call(15) @@ 6 :> Goto(0)
             @@ 8 :> Plain @@ 9 :> Call(15) @@ 12 :> Jump(15)
             @@ 15 :> Plain @@ 16 :> Ret ]

\* r calls itself.
Recursive ==
  [ symbols |-> 0 :> "main" @@ 5 :> "r",
    lines   |-> {Line(0, 1), Line(3, 2), Line(5, 10), Line(7, 11), Line(10, 12), Line(11, 13)},
    breaks  |-> {7},
    code    |-> 0 :> Call(5) @@ 3 :> Goto(0)
             @@ 5 :> Branch(11) @@ 7 :> Call(5) @@ 10 :> Plain @@ 11 :> Ret ]

\* lib has a symbol and no lines; rom has neither.
Library ==
  [ symbols |-> 0 :> "main" @@ 10 :> "f" @@ 30 :> "lib",
    lines   |-> {Line(0, 1), Line(3, 2), Line(6, 3), Line(8, 4), Line(10, 5), Line(13, 6)},
    breaks  |-> {3},
    code    |-> 0 :> Call(10) @@ 3 :> Call(30) @@ 6 :> Branch(3) @@ 8 :> Goto(0)
             @@ 10 :> Call(30) @@ 13 :> Ret
             @@ 30 :> Call(90) @@ 33 :> Ret @@ 90 :> Plain @@ 91 :> Ret ]

\* Two functions have names that differ in case only.
Twins ==
  [ symbols |-> 0 :> "main" @@ 8 :> "Init" @@ 10 :> "mid" @@ 12 :> "init" @@ 18 :> "z",
    lines   |-> {Line(0, 1), Line(3, 2), Line(6, 3), Line(8, 10), Line(9, 11), Line(10, 20),
                 Line(11, 21), Line(12, 30), Line(15, 31), Line(17, 32), Line(18, 40), Line(19, 41)},
    breaks  |-> {},
    code    |-> 0 :> Call(8) @@ 3 :> Call(12) @@ 6 :> Goto(0)
             @@ 8 :> Plain @@ 9 :> Ret @@ 10 :> Plain @@ 11 :> Ret
             @@ 12 :> Call(18) @@ 15 :> Branch(12) @@ 17 :> Ret @@ 18 :> Plain @@ 19 :> Ret ]

\* No map file: neither symbols nor lines.
Bare ==
  [ symbols |-> <<>>, lines |-> {}, breaks |-> {},
    code    |-> 0 :> Call(5) @@ 3 :> Goto(0) @@ 5 :> Plain @@ 6 :> Ret ]

MCUpperCase == [Init |-> "INIT", init |-> "INIT"]

MCImages == [calls |-> Calls, loop |-> Loop, tail |-> TailCall, recursive |-> Recursive,
             library |-> Library, twins |-> Twins, bare |-> Bare]
=============================================================================
