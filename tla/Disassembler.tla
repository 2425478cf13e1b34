---------------------------- MODULE Disassembler ----------------------------
(***************************************************************************)
(* The disassemble request (HandleDisassemble): which addresses the list   *)
(* of instructions shows.  The texts are left out.                         *)
(***************************************************************************)
EXTENDS Opcodes

CONSTANTS
  CodeSize,        \* 0x10000: bytes of CODE memory
  MaxListing,      \* 1024: instructions one request may ask for
  DefaultListing   \* 64: what a request gets that asks for none, or for more

ASSUME DisassemblerAssumption ==
  {CodeSize, MaxListing, DefaultListing} \subseteq Nat \ {0}

CodeMemory == [0 .. CodeSize - 1 -> Opcode]

ListingCount(asked) == IF asked \in 1 .. MaxListing THEN asked ELSE DefaultListing

BugBackBytes(base, before) == IF base < 2 * before THEN 0 ELSE base - 2 * before

\* The walk begins 3 bytes back for every instruction wanted before the base.
ListingStart(base, before) == IF base < 3 * before THEN 0 ELSE base - 3 * before

\* The instructions a walk from start decodes; it needs no more than 3 bytes
\* for each one wanted from the base on, and ends with the memory.
Swept(code, base, start, count) ==
  LET want == (base - start) + 3 * count + 3
  IN  Walk(InstructionLength, code, start,
           IF start + want > CodeSize THEN CodeSize - start ELSE want)

\* The entries "??" that fill the list: byte by byte after the last address
\* listed, up to the end of the memory.
Padding(listed, count) ==
  LET first == IF listed = <<>> THEN 0 ELSE (Last(listed) + 1) % CodeSize
      n     == count - Len(listed)
  IN  [k \in 1 .. (IF n > CodeSize - first THEN CodeSize - first ELSE n) |-> first + k - 1]

\* HandleDisassemble: the instructions listed, and the padding.
Listing(code, base, instrOffset, asked) ==
  LET count  == ListingCount(asked)
      before == IF instrOffset < 0 THEN -instrOffset ELSE 0
      swept  == Swept(code, base, ListingStart(base, before), count)
      atBase == {i \in DOMAIN swept : swept[i] = base}
      from   == (IF atBase = {} THEN 1 ELSE CHOOSE i \in atBase : TRUE) + instrOffset
      first  == IF from < 1 THEN 1 ELSE from
      listed == SubSeq(swept, first,
                       IF first + count - 1 > Len(swept) THEN Len(swept) ELSE first + count - 1)
  IN  [listed |-> listed, padding |-> Padding(listed, count)]
=============================================================================
