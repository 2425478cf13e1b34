------------------------------ MODULE HexLoader ------------------------------
(***************************************************************************)
(* HexLoader::LoadFile (hex_loader.cpp).  A file is a sequence of the lines*)
(* that both passes take for records:                                      *)
(*   [type |-> "data", addr, count, data, ok]   data shorter than count: a *)
(*       line that ends early; ok: the checksum of a whole line is right   *)
(*   [type |-> "base", base]   types 02 and 04: what is added to addresses *)
(*   [type |-> "end"]          type 01, which both passes pass over        *)
(* Addresses are 32 bits wide: they wrap at AddrWord.                      *)
(***************************************************************************)
EXTENDS Integers, Sequences, SequencesExt

CONSTANTS
  AddrWord,   \* 2^32
  MaxImage,   \* 0x10000: bytes of code flash
  Erased      \* 0xFF: a flash byte that no record sets

ASSUME HexAssumption == {AddrWord, MaxImage} \subseteq Nat \ {0} /\ Erased \in 0 .. 255

\* The records of a file.
HexRecord ==
  [type : {"data"}, addr : Nat, count : Nat, data : Seq(0 .. 255), ok : BOOLEAN]
    \cup [type : {"base"}, base : Nat] \cup [type : {"end"}]

NoImage == [loaded |-> FALSE, base |-> 0, bytes |-> <<>>]

IsData(r)  == r.type = "data" /\ r.count > 0
IsShort(r) == Len(r.data) < r.count

\* The first pass: the range of all the data records, good or not.
Extend(s, r) ==
  IF r.type = "base" THEN [s EXCEPT !.base = r.base]
  ELSE IF ~ IsData(r) THEN s
  ELSE LET start == (s.base + r.addr) % AddrWord
           end   == (start + r.count) % AddrWord
       IN  [base |-> s.base,
            min  |-> IF start < s.min THEN start ELSE s.min,
            max  |-> IF end > s.max THEN end ELSE s.max,
            got  |-> TRUE]

Extent(file) ==
  FoldLeft(Extend, [base |-> 0, min |-> AddrWord - 1, max |-> 0, got |-> FALSE], file)

\* The offset in the image of the i-th byte of a record; one past the end of
\* the image is not stored.
Offset(s, r, i) == (s.base + r.addr - s.min + i) % AddrWord

\* The second pass: the bytes of a whole line with a right checksum.
Store(s, r) ==
  IF r.type = "base" THEN [s EXCEPT !.base = r.base]
  ELSE IF ~ IsData(r) \/ IsShort(r) \/ ~ r.ok THEN s
  ELSE [s EXCEPT !.bytes =
          [o \in DOMAIN @ |->
             LET i == {j \in 0 .. r.count - 1 : Offset(s, r, j) = o}
             IN  IF i = {} THEN @[o] ELSE r.data[1 + CHOOSE j \in i : TRUE]]]

BugBaseKept(file, x) ==
  FoldLeft(Store, [base |-> x.base, min |-> x.min,
                   bytes |-> [o \in 0 .. x.max - x.min - 1 |-> Erased]], file).bytes

\* The second pass starts over, with no base.
Fill(file, x) ==
  FoldLeft(Store, [base |-> 0, min |-> x.min,
                   bytes |-> [o \in 0 .. x.max - x.min - 1 |-> Erased]], file).bytes

\* LoadFile: fails without data, and where the range is empty or too large.
LoadFile(file) ==
  LET x == Extent(file)
  IN  IF ~ x.got \/ x.min >= x.max \/ x.max - x.min > MaxImage
      THEN NoImage
      ELSE [loaded |-> TRUE, base |-> x.min, bytes |-> Fill(file, x)]
=============================================================================
