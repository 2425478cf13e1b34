------------------------------- MODULE Opcodes -------------------------------
(***************************************************************************)
(* Instruction lengths: the table that every scan of code uses             *)
(* (opcodes8051.h), the operand bytes the disassembler prints              *)
(* (disasm8051.h), and the scans over code bytes.                          *)
(***************************************************************************)
EXTENDS Integers, Sequences, SequencesExt

Opcode == 0 .. 255
Row(n)    == n \div 16
Column(n) == n % 16

CompareBranches == \hB4 .. \hBF

\* k8051InstructionLength.
ThreeBytes ==
  {\h02, \h10, \h12, \h20, \h30, \h43, \h53, \h63, \h75, \h85, \h90, \hD5} \cup CompareBranches

TwoBytes ==
  {op \in Opcode :
     \/ Column(op) = 0  /\ Row(op) \in (4 .. 13) \ {9}
     \/ Column(op) = 1
     \/ Column(op) = 2  /\ Row(op) \in (4 .. 13) \ {8}
     \/ Column(op) = 4  /\ Row(op) \in (2 .. 7) \cup {9}
     \/ Column(op) = 5  /\ Row(op) \in (0 .. 6) \cup {9, 12, 14, 15}
     \/ Column(op) >= 6 /\ Row(op) \in {7, 8, 10}
     \/ Column(op) >= 8 /\ Row(op) = 13}

BugShortMove ==
  [op \in Opcode |-> IF op = \h85 THEN 2
                     ELSE IF op \in ThreeBytes THEN 3 ELSE IF op \in TwoBytes THEN 2 ELSE 1]

InstructionLength ==
  [op \in Opcode |-> IF op \in ThreeBytes THEN 3 ELSE IF op \in TwoBytes THEN 2 ELSE 1]

\* Disasm8051: the bytes after the opcode that the text of the instruction shows.
Address16     == {\h02, \h12, \h90}
BitBranches   == {\h10, \h20, \h30}
TwoOperands   == {\h43, \h53, \h63, \h75, \h85, \hD5} \cup Address16 \cup BitBranches \cup CompareBranches

Address11     == {op \in Opcode : Column(op) = 1}
Relative      == {\h40, \h50, \h60, \h70, \h80} \cup \hD8 .. \hDF
BitOperand    == {\h72, \h82, \h92, \hA0, \hA2, \hB0, \hB2, \hC2, \hD2}
Immediate     == {\h24, \h34, \h44, \h54, \h64, \h74, \h94} \cup \h76 .. \h7F
Direct        == {\h05, \h15, \h25, \h35, \h45, \h55, \h65, \h95, \h42, \h52, \h62,
                  \hC0, \hC5, \hD0, \hE5, \hF5} \cup \h86 .. \h8F \cup \hA6 .. \hAF

Operands ==
  [op \in Opcode |->
     IF op \in TwoOperands THEN 2
     ELSE IF op \in Address11 \cup Relative \cup BitOperand \cup Immediate \cup Direct THEN 1
     ELSE 0]

\* The addresses an instruction-by-instruction walk over len bytes from an
\* address stops at, in order, with the lengths of a table.
Walk(length, code, from, len) ==
  LET At(w, i) ==
        IF i # w.next THEN w
        ELSE [next |-> i + length[code[from + i - 1]], stops |-> Append(w.stops, from + i - 1)]
  IN  FoldLeft(At, [next |-> 1, stops |-> <<>>], [i \in 1 .. len |-> i]).stops
=============================================================================
