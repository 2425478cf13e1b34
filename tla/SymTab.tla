------------------------------- MODULE SymTab -------------------------------
(***************************************************************************)
(* The lookups of the symbol table (symtab.cpp).  A table t is a record    *)
(* with                                                                    *)
(*   symbols  the PUBLIC code symbols, a function from address to name;    *)
(*   lines    the LINE# entries, a set of [addr, file, line];              *)
(*   code     what the scans of the step handlers read: a function from    *)
(*            the address of each instruction to [op, len, to].            *)
(* The code sorts both tables and searches them by bisection; a set and an *)
(* order on its members stand for a sorted table.  One name per address,   *)
(* and one file per (address, line), are assumed: std::sort leaves the     *)
(* order of equal keys open.                                               *)
(***************************************************************************)
EXTENDS Integers, FiniteSets, FiniteSetsExt

CONSTANTS
  SymbolReach,   \* 0x8000: how far past a symbol an address still has its name
  LineReach,     \* 64: how far past a LINE# entry an address still has its line
  PrologueReach, \* 8: how long a prologue may be
  UpperCase      \* the names that case tells apart, each to its upper case

ASSUME ReachAssumption ==
  /\ SymbolReach \in Nat
  /\ LineReach \in Nat
  /\ PrologueReach \in Nat

NoAddr == -1                          \* std::nullopt
NoName == ""                          \* no symbol, or no file
NoLoc  == [file |-> NoName, line |-> 0] \* no source location

AtMost(addrs, addr) == {a \in addrs : a <= addr}
Above(addrs, addr)  == {a \in addrs : a > addr}

Nearest(addrs, addr) == IF AtMost(addrs, addr) = {} THEN NoAddr ELSE Max(AtMost(addrs, addr))
Following(addrs, addr) == IF Above(addrs, addr) = {} THEN NoAddr ELSE Min(Above(addrs, addr))

LineAddrs(t) == {e.addr : e \in t.lines}

IsLoaded(t) == t.symbols # <<>> \/ t.lines # {}

\* upper_bound, one step back, and no further than 32 KB.
LookupSymbol(t, addr) ==
  LET a == Nearest(DOMAIN t.symbols, addr)
  IN  IF a = NoAddr \/ addr - a > SymbolReach THEN NoName ELSE t.symbols[a]

Upper(name) == IF name \in DOMAIN UpperCase THEN UpperCase[name] ELSE name

\* The first address with that name in whatever case, in the order of addresses.
LookupSymbolByName(t, name) ==
  LET named == {a \in DOMAIN t.symbols : Upper(t.symbols[a]) = Upper(name)}
  IN  IF named = {} THEN NoAddr ELSE Min(named)

NextLineAddr(t, addr)   == Following(LineAddrs(t), addr)
NextSymbolAddr(t, addr) == Following(DOMAIN t.symbols, addr)

\* The entries of an address, and the one the sort puts last: the highest line.
EntriesAt(t, addr) == {e \in t.lines : e.addr = addr}
BugFirstEntry(t, addr) ==
  CHOOSE e \in EntriesAt(t, addr) : \A f \in EntriesAt(t, addr) : e.line <= f.line
LastEntry(t, addr) ==
  CHOOSE e \in EntriesAt(t, addr) : \A f \in EntriesAt(t, addr) : e.line >= f.line

\* The entry that follows all the entries of an address: the lowest line of
\* the next address that has any.
EntryAfter(t, addr) ==
  LET at == EntriesAt(t, NextLineAddr(t, addr))
  IN  CHOOSE e \in at : \A f \in at : e.line <= f.line

BugAnyPrologue(t, e, addr) ==
  /\ LookupSymbol(t, addr) # NoName
  /\ NextLineAddr(t, e.addr) # NoAddr
  /\ LET next == EntryAfter(t, e.addr)
     IN  /\ next.file = e.file
         /\ next.line > e.line
         /\ next.addr - e.addr <= PrologueReach
         /\ addr < next.addr

\* The prologue of a function: e is the only entry of the function's first
\* address, and the entry that follows is a later line of the file, near by.
InPrologue(t, e, addr) ==
  /\ Cardinality(EntriesAt(t, e.addr)) = 1
  /\ LookupSymbol(t, addr) # NoName
  /\ Nearest(DOMAIN t.symbols, addr) = e.addr
  /\ NextLineAddr(t, e.addr) # NoAddr
  /\ LET next == EntryAfter(t, e.addr)
     IN  /\ next.file = e.file
         /\ next.line > e.line
         /\ next.addr - e.addr <= PrologueReach
         /\ addr < next.addr

\* The line of an address: that of the nearest entry at or before it, within
\* 64 bytes, and inside a prologue that of the entry after the prologue.
LookupLine(t, addr) ==
  LET a == Nearest(LineAddrs(t), addr)
      e == LastEntry(t, a)
  IN  IF a = NoAddr \/ addr - a > LineReach THEN NoLoc
      ELSE [file |-> e.file,
            line |-> IF InPrologue(t, e, addr) THEN EntryAfter(t, a).line ELSE e.line]

\* FileMatches compares whole paths, then suffixes, then base names.  What
\* matches one of the first two matches the third, so that the base name,
\* which is all a file is here, decides.
LookupAddress(t, file, line) ==
  LET of == {e.addr : e \in {f \in t.lines : f.line = line /\ f.file = file}}
  IN  IF of = {} THEN NoAddr ELSE Min(of)
=============================================================================
