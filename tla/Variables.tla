------------------------------ MODULE Variables ------------------------------
(***************************************************************************)
(* Variables, registers and memory as the client sees and edits them:      *)
(* scopes, variables, evaluate, setVariable, setExpression, readMemory and *)
(* writeMemory of dap_server.cpp.  A memory m has the bytes of each space  *)
(* (CODE, XDATA, DATA), of the registers R0 to R7 (R), and the PC.  IDATA  *)
(* is read and written as DATA is, and left out.                           *)
(*                                                                         *)
(* A place is what a name stands for:                                      *)
(*   [kind |-> "bytes", space, addr, size]  a big-endian number in memory  *)
(*   [kind |-> "bit", addr, bit]            a bit of a byte in DATA        *)
(*   [kind |-> "pc"], [kind |-> "dptr"]                                    *)
(*   [kind |-> "symbol", addr], [kind |-> "none"]                          *)
(***************************************************************************)
EXTENDS MapFile

CONSTANTS
  Byte,       \* 256: values of a byte
  AddrMask,   \* 0x10000: addresses are taken modulo this
  Rn,         \* R0 to R7: from name to index
  Sfrs,       \* special function registers: from name to address in DATA
  DPL, DPH,   \* 0x82, 0x83: the halves of DPTR in DATA
  HexAddrs,   \* expressions that are hexadecimal addresses: from text to address
  RegisterRows,  \* SP, PSW, ACC, B, DPL, DPH, R0 to R7: the rows of the Registers scope below PC
  PageSize       \* 256: the bytes of a memory that its scope shows

ASSUME VariablesAssumption ==
  /\ Byte \in 2 .. 256
  /\ AddrMask \in Nat \ {0}
  /\ {Rn[name] : name \in DOMAIN Rn} \cup {Sfrs[name] : name \in DOMAIN Sfrs}
       \cup {HexAddrs[text] : text \in DOMAIN HexAddrs} \cup {DPL, DPH} \subseteq Nat
  /\ RegisterRows \in Seq(DOMAIN Rn \cup DOMAIN Sfrs)
  /\ PageSize \in 0 .. AddrMask

None == [kind |-> "none"]
Bytes(space, addr, size) == [kind |-> "bytes", space |-> space, addr |-> addr, size |-> size]

-----------------------------------------------------------------------------
\* Values.
Shifted(val) ==
  <<val, val \div Byte, (val \div Byte) \div Byte, ((val \div Byte) \div Byte) \div Byte>>

Digit(val, i) == Shifted(val)[1 + i] % Byte

\* ParseHexValue: as many bytes as the number needs, and no more than fit; the
\* high bytes of a number that is too wide are dropped.
Needed(val) == Max({1} \cup {n \in 2 .. 4 : Shifted(val)[n] > 0})

ParseHexValue(val, most) ==
  LET sz == IF Needed(val) > most THEN most ELSE Needed(val)
  IN  [i \in 1 .. sz |-> Digit(val, sz - i)]

BugPadRight(bytes, size) == [i \in 1 .. size |-> IF i <= Len(bytes) THEN bytes[i] ELSE 0]

\* A shorter number is padded in front.
Padded(bytes, size) ==
  [i \in 1 .. size |-> IF i > size - Len(bytes) THEN bytes[i - (size - Len(bytes))] ELSE 0]

Number(bytes) ==
  CASE Len(bytes) = 4 -> ((bytes[1] * Byte + bytes[2]) * Byte + bytes[3]) * Byte + bytes[4]
    [] Len(bytes) = 2 -> bytes[1] * Byte + bytes[2]
    [] OTHER -> bytes[1]

-----------------------------------------------------------------------------
\* 1 << bit.
Weight == <<1, 2, 4, 8, 16, 32, 64, 128>>

BitOf(byte, bit) == (byte \div Weight[1 + bit]) % 2

-----------------------------------------------------------------------------
\* AG_MemAcc: AG_READ and AG_WRITE of a number of bytes.
At(addr, i) == (addr % AddrMask) + i - 1

MemRead(m, space, addr, n) ==
  [i \in 1 .. n |-> IF At(addr, i) \in DOMAIN m[space] THEN m[space][At(addr, i)] ELSE 0]

MemWrite(m, space, addr, bytes) ==
  [m EXCEPT ![space] =
     [a \in DOMAIN @ |-> IF \E i \in DOMAIN bytes : a = At(addr, i)
                         THEN bytes[1 + a - (addr % AddrMask)] ELSE @[a]]]

ReadByte(m, space, addr) == MemRead(m, space, addr, 1)[1]

\* What a place shows; pc is the cached register.
Shown(m, place, pc) ==
  CASE place.kind = "bytes"  -> Number(MemRead(m, place.space, place.addr, place.size))
    [] place.kind = "bit"    -> BitOf(ReadByte(m, "DATA", place.addr), place.bit)
    [] place.kind = "dptr"   -> ReadByte(m, "DATA", DPH) * Byte + ReadByte(m, "DATA", DPL)
    [] place.kind = "pc"     -> pc
    [] place.kind = "symbol" -> place.addr

-----------------------------------------------------------------------------
\* What a name may stand for.
PlaceOf(v) == Bytes(v.space, v.addr, v.size)

Meaning(kind, t, name, pc) ==
  CASE kind = "pc"     -> IF Upper(name) = "PC" THEN [kind |-> "pc"] ELSE None
    [] kind = "Rn"     -> IF Upper(name) \in DOMAIN Rn THEN Bytes("R", Rn[Upper(name)], 1) ELSE None
    [] kind = "dptr"   -> IF Upper(name) = "DPTR" THEN [kind |-> "dptr"] ELSE None
    [] kind = "sfr"    -> IF Upper(name) \in DOMAIN Sfrs
                          THEN Bytes("DATA", Sfrs[Upper(name)], 1) ELSE None
    [] kind = "local"  -> LET v == LookupLocalByName(t, name, pc)
                          IN  IF v = <<>> THEN None ELSE PlaceOf(v[1])
    [] kind = "bit"    -> LET v == LookupBitByName(t, name)
                          IN  IF v = <<>> THEN None
                              ELSE [kind |-> "bit", addr |-> v[1].addr, bit |-> v[1].bit]
    [] kind = "global" -> LET v == LookupGlobalByName(t, name)
                          IN  IF v = <<>> THEN None ELSE PlaceOf(v[1])
    [] kind = "symbol" -> LET a == LookupSymbolByName(t, name)
                          IN  IF a = NoAddr THEN None ELSE [kind |-> "symbol", addr |-> a]
    [] kind = "hex"    -> IF name \in DOMAIN HexAddrs THEN Bytes("CODE", HexAddrs[name], 1) ELSE None

\* The first kind in an order of kinds that the name has.
Resolve(order, t, name, pc) ==
  LET has == {i \in DOMAIN order : Meaning(order[i], t, name, pc) # None}
  IN  IF has = {} THEN None ELSE Meaning(order[Min(has)], t, name, pc)

EvaluateOrder == <<"pc", "Rn", "dptr", "sfr", "local", "bit", "global", "symbol", "hex">>

BugSetOrder      == <<"pc", "Rn", "dptr", "sfr", "global", "local", "bit">>
SetOrder         == <<"pc", "Rn", "dptr", "sfr", "local", "bit", "global">>

\* HandleEvaluate finds the place it shows, HandleSetExpression the one it sets.
Evaluated(t, name, pc) == Resolve(EvaluateOrder, t, name, pc)
SetTarget(t, name, pc) == Resolve(SetOrder, t, name, pc)

\* HandleSetVariable: by the scope the row is in.
RowTarget(t, scope, name, pc) ==
  CASE scope = "registers" -> Resolve(<<"pc", "Rn", "sfr">>, t, name, pc)
    [] scope = "locals"    -> Meaning("local", t, name, pc)
    [] OTHER -> IF name \in DOMAIN HexAddrs THEN Bytes(scope, HexAddrs[name], 1) ELSE None

-----------------------------------------------------------------------------
\* HandleSetExpression and HandleSetVariable on a place: the memory after.
SetBit(m, place, val) ==
  LET byte == ReadByte(m, "DATA", place.addr)
      old  == BitOf(byte, place.bit)
      new  == IF ParseHexValue(val, 1) = <<0>> THEN 0 ELSE 1
  IN  MemWrite(m, "DATA", place.addr, <<byte + (new - old) * Weight[1 + place.bit]>>)

SetDptr(m, val) ==
  LET dptr == Number(ParseHexValue(val, 2))
  IN  MemWrite(MemWrite(m, "DATA", DPL, <<dptr % Byte>>), "DATA", DPH, <<dptr \div Byte>>)

Set(m, place, val) ==
  CASE place.kind = "bytes" ->
         MemWrite(m, place.space, place.addr,
                  Padded(ParseHexValue(val, place.size), place.size))
    [] place.kind = "bit"   -> SetBit(m, place, val)
    [] place.kind = "dptr"  -> SetDptr(m, val)
    [] place.kind = "pc"    -> [m EXCEPT !.PC = Number(ParseHexValue(val, 2))]

\* HandleWriteMemory and HandleReadMemory: a reference to a space and an
\* address, and an offset that may be negative; addresses wrap.
WriteMemory(m, space, ref, offset, bytes) == MemWrite(m, space, ref + offset, bytes)
ReadMemory(m, space, ref, offset, count)  == MemRead(m, space, ref + offset, count)

-----------------------------------------------------------------------------
\* ReadRegisters, the registers but the PC: R0 to R7, and the others from DATA.
Register(m, name) ==
  IF name \in DOMAIN Rn THEN ReadByte(m, "R", Rn[name]) ELSE ReadByte(m, "DATA", Sfrs[name])

ReadRegisters(m) == [i \in DOMAIN RegisterRows |-> Register(m, RegisterRows[i])]

\* ReadPcSp, ReadPcSpCached: the SP alone.
ReadSp(registers, m) ==
  [i \in DOMAIN RegisterRows |-> IF RegisterRows[i] = "SP" THEN Register(m, "SP") ELSE registers[i]]

\* HandleVariables: the Locals scope, read from the memory; the Registers scope,
\* from the cache (ToVariables); the first bytes of a memory.
LocalRows(t, m, pc) ==
  LET vs == LookupLocals(t, pc)
  IN  [i \in DOMAIN vs |-> [name |-> vs[i].name, value |-> Shown(m, PlaceOf(vs[i]), pc)]]

CachedRows(pc, registers) ==
  <<[name |-> "PC", value |-> pc]>>
    \o [i \in DOMAIN RegisterRows |-> [name |-> RegisterRows[i], value |-> registers[i]]]

PageRows(m, space) ==
  [i \in 1 .. PageSize |-> [name |-> i - 1, value |-> MemRead(m, space, 0, PageSize)[i]]]

Rows(scope, t, m, pc, registers) ==
  CASE scope = "locals"    -> LocalRows(t, m, pc)
    [] scope = "registers" -> CachedRows(pc, registers)
    [] OTHER -> PageRows(m, scope)
=============================================================================
