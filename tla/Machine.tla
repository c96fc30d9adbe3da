------------------------------ MODULE Machine ------------------------------
(* RAM space with its banks, registers and ports (src/src/mem.c, and the    *)
(* work RAM port at the end of src/src/timer.c), the instructions that work *)
(* on it (src/src/recomp_rt.c:19-175), and a host that presses buttons and  *)
(* draws the display (src/src/lcd.c) when it is told to.  Timer registers   *)
(* and interrupts are VmuTimer's.                                           *)
EXTENDS Alu, Sequences, FiniteSets

CONSTANTS RamSize,     \* 256, bytes of a RAM bank; SP wraps there
          XramSize,    \* 128, bytes of an XRAM bank
          Lines,       \* 16, lines of dots in a bank
          LineBytes,   \* 6, bytes of a line
          PairBytes,   \* 16, bytes from a pair of lines to the next
          WramHalf,    \* 256, bytes of work RAM one VRMAD1 reaches
          UpperHalf,   \* the SFR half: pointer byte -> address
          Rom,         \* the image's bytes, from address 0
          Operands,    \* bound: addresses that instructions name
          Values,      \* bound: immediate operands
          Bits,        \* bound: bits that bit instructions name
          Presses      \* bound: what the host reports of the buttons

RamAddr == 0 .. RamSize - 1
WramAddr == 0 .. 2 * WramHalf - 1

Ram(i) == <<"ram", i>>
Xram(i) == <<"xram", i>>
Sfr(name) == <<"sfr", name>>

\* Registers that are plain bytes to the memory map.
Plain == {"acc", "b", "c", "trl", "trh", "xbnk", "vsel", "vrmad1", "vrmad2"}
Address == {Ram(i) : i \in RamAddr} \cup {Xram(i) : i \in 0 .. XramSize - 1}
             \cup {Sfr(n) : n \in Plain \cup {"psw", "sp", "p3", "vtrbf"}}

ASSUME MachineConstants ==
  /\ Size = 256 /\ {RamSize, XramSize, WramHalf} \subseteq Nat \ {0}
  /\ 16 <= RamSize /\ RamSize <= Size /\ WramHalf <= Size
  /\ {Lines, LineBytes, PairBytes} \subseteq Nat \ {0}
  /\ Lines % 2 = 0 /\ PairBytes >= 2 * LineBytes
  /\ (Lines \div 2) * PairBytes <= XramSize
  /\ UpperHalf \in [RamAddr -> Address]
  /\ Rom \in [DOMAIN Rom -> Byte] /\ Presses \subseteq Byte
  /\ Operands \subseteq Address /\ Values \subseteq Byte /\ Bits \subseteq 0 .. 7

VARIABLES m,           \* vmu's memory and registers, and lcd_dirty_flag
          shown,       \* history: what the host has drawn last, if anything
          live         \* history: what was pushed and not popped since SP or
                       \* the stack was written directly

vars == <<m, shown, live>>

Width == 8 * LineBytes
Height == 2 * Lines
Picture == [dots : [0 .. Height - 1 -> [0 .. Width - 1 -> BOOLEAN]],
            icons : Byte]

State == [ram : [0 .. 1 -> [RamAddr -> Byte]],
          xram : [0 .. 2 -> [0 .. XramSize - 1 -> Byte]],
          wram : [WramAddr -> Byte],
          acc : Byte, b : Byte, c : Byte, psw : Byte, sp : RamAddr,
          trl : Byte, trh : Byte, p3 : Byte, buttons : Byte,
          xbnk : Byte, vsel : Byte, vrmad1 : Byte, vrmad2 : Byte,
          dirty : BOOLEAN]

NotShown == [none |-> TRUE]

TypeOK ==
  /\ m \in State
  /\ shown = NotShown \/ shown \in Picture
  /\ live \in Seq([at : RamAddr, val : Byte])

Zero(S) == [i \in S |-> 0]

\* vmu_reset: SP is where the first push lands at the middle of the bank.
\* lcd_dirty_flag is not part of the machine and stays.
ResetState(d) ==
  [ram |-> [k \in 0 .. 1 |-> Zero(RamAddr)],
   xram |-> [k \in 0 .. 2 |-> Zero(0 .. XramSize - 1)],
   wram |-> Zero(WramAddr),
   acc |-> 0, b |-> 0, c |-> 0, psw |-> 0, sp |-> (RamSize \div 2) - 1,
   trl |-> 0, trh |-> 0, p3 |-> Size - 1, buttons |-> 0,
   xbnk |-> 0, vsel |-> 0, vrmad1 |-> 0, vrmad2 |-> 0, dirty |-> d]

Init == m = ResetState(FALSE) /\ shown = NotShown /\ live = <<>>

-----------------------------------------------------------------------------
(* Bits.                                                                    *)

HasBit(v, n) == (v \div 2^n) % 2 = 1
WithBit(v, n, on) == v + (AsBit(on) - AsBit(HasBit(v, n))) * 2^n

P == 0
RAMBK0 == 1
OV == 2
IRBK0 == 3
IRBK1 == 4
AC == 6
CY == 7

\* A byte as the set of its bits that are set.
BitsOf == [v \in Byte |-> {n \in 0 .. 7 : HasBit(v, n)}]
ByteOf(bits) ==
  LET At(n) == IF n \in bits THEN 2^n ELSE 0
  IN At(0) + At(1) + At(2) + At(3) + At(4) + At(5) + At(6) + At(7)

And(x, y) == ByteOf(BitsOf[x] \cap BitsOf[y])
Or(x, y) == ByteOf(BitsOf[x] \cup BitsOf[y])
Xor(x, y) == Or(x, y) - And(x, y)

\* parity(v), for every byte
Odd == [v \in Byte |-> Cardinality(BitsOf[v]) % 2 = 1]

-----------------------------------------------------------------------------
(* Memory, as functions of the state s.  A read may change the state.       *)

Bank_Firmware(s) == 0
Bank(s) == AsBit(HasBit(s.psw, RAMBK0))

\* XBNK has two bits, and there is no fourth bank.
XBank(s) == IF s.xbnk % 4 > 2 THEN 2 ELSE s.xbnk % 4

\* wram_addr, wram_bump
WramAt(s) == (s.vrmad2 % 2) * WramHalf + (s.vrmad1 % WramHalf)

Bumped(s) ==
  LET next == (WramAt(s) + 1) % (2 * WramHalf) IN
  IF HasBit(s.vsel, 4)
  THEN [s EXCEPT !.vrmad1 = next % WramHalf, !.vrmad2 = next \div WramHalf]
  ELSE s

\* vmu_rom: behind the image every byte reads as ones.
RomByte(a) == IF a \in DOMAIN Rom THEN Rom[a] ELSE Size - 1

\* vmu_read(a): what it returns; port 3 shows the buttons, active low,
Value(s, a) ==
  CASE a[1] = "ram" -> s.ram[Bank(s)][a[2]]
    [] a[1] = "xram" -> s.xram[XBank(s)][a[2]]
    [] a = Sfr("psw") -> WithBit(s.psw, P, Odd[s.acc])
    [] a = Sfr("vtrbf") -> s.wram[WramAt(s)]
    [] a = Sfr("p3") -> (Size - 1) - s.buttons
    [] OTHER -> s[a[2]]

\* and the state it leaves.
Touched(s, a) ==
  CASE a = Sfr("psw") -> [s EXCEPT !.psw = WithBit(@, P, Odd[s.acc])]
    [] a = Sfr("vtrbf") -> Bumped(s)
    [] OTHER -> s

\* vmu_write(a, v)
PswWritten_Whole(s, v) == [s EXCEPT !.psw = v]
PswWritten(s, v) == [s EXCEPT !.psw = WithBit(v, P, HasBit(s.psw, P))]

XramWritten_DotsOnly(s, i, v) ==
  [s EXCEPT !.xram[XBank(s)][i] = v, !.dirty = @ \/ XBank(s) < 2]
XramWritten(s, i, v) == [s EXCEPT !.xram[XBank(s)][i] = v, !.dirty = TRUE]

Written(s, a, v) ==
  CASE a[1] = "ram" -> [s EXCEPT !.ram[Bank(s)][a[2]] = v]
    [] a[1] = "xram" -> XramWritten(s, a[2], v)
    [] a = Sfr("psw") -> PswWritten(s, v)
    [] a = Sfr("vtrbf") -> Bumped([s EXCEPT !.wram[WramAt(s)] = v])
    [] a = Sfr("sp") -> [s EXCEPT !.sp = v % RamSize]
    [] OTHER -> [s EXCEPT ![a[2]] = v]

\* vmu_ind(ri): the pointer is one of four windows in the current bank; bit 1
\* of ri chooses the half of RAM space it points into.
Indirect(s, ri) ==
  LET window == 2 * AsBit(HasBit(s.psw, IRBK1)) + AsBit(HasBit(s.psw, IRBK0))
      pointer == s.ram[Bank(s)][4 * window + ri] % RamSize
  IN IF ri >= 2 THEN UpperHalf[pointer] ELSE Ram(pointer)

\* vmu_push_byte, vmu_pop_byte: bank 0 whatever RAMBK0 says.
Pushed_CurrentBank(s, v) ==
  LET sp == (s.sp + 1) % RamSize
  IN [s EXCEPT !.sp = sp, !.ram[Bank(s)][sp] = v]
Pushed(s, v) ==
  LET sp == (s.sp + 1) % RamSize IN [s EXCEPT !.sp = sp, !.ram[0][sp] = v]

Popped(s) == [s EXCEPT !.sp = (@ - 1) % RamSize]
PopValue(s) == s.ram[0][s.sp]

-----------------------------------------------------------------------------
(* Instructions.  `a` is the operand's address, direct or indirect.         *)

Disturbs(s, a) ==
  \/ a = Sfr("sp")
  \/ \E k \in 1 .. Len(live) : Bank(s) = 0 /\ a = Ram(live[k].at)

Store(s, a, v) ==
  /\ m' = Written(s, a, v)
  /\ live' = IF Disturbs(s, a) THEN <<>> ELSE live
  /\ UNCHANGED shown

Become(s) == m' = s /\ UNCHANGED <<shown, live>>

Ld(a) == Become([Touched(m, a) EXCEPT !.acc = Value(m, a)])
St(a) == Store(m, a, m.acc)
Mov(a, v) == Store(m, a, v)

Xch(a) ==
  LET t == Value(m, a) IN
  /\ m' = [Written(Touched(m, a), a, m.acc) EXCEPT !.acc = t]
  /\ live' = IF Disturbs(m, a) THEN <<>> ELSE live
  /\ UNCHANGED shown

\* ACC indexes the table TRH:TRL points at.
Ldc == Become([m EXCEPT
         !.acc = RomByte((m.trh * Size + m.trl + @) % (Size * Size))])

\* A stack of RamSize bytes overwrites its oldest.
Push(a) ==
  LET s == Pushed(Touched(m, a), Value(m, a))
      kept == IF Len(live) = RamSize THEN Tail(live) ELSE live
  IN /\ m' = s
     /\ live' = Append(kept, [at |-> s.sp, val |-> Value(m, a)])
     /\ UNCHANGED shown

Pop(a) ==
  LET s == Popped(m) IN
  /\ m' = Written(s, a, PopValue(m))
  /\ live' = IF live = <<>> \/ Disturbs(s, a) THEN <<>>
             ELSE SubSeq(live, 1, Len(live) - 1)
  /\ UNCHANGED shown

\* Read, change and write back: two accesses to the same address.
Rewrite(a, v) == Store(Touched(m, a), a, v)

Inc(a) == Rewrite(a, (Value(m, a) + 1) % Size)
Dec(a) == Rewrite(a, (Value(m, a) - 1) % Size)      \* and DBNZ
Set1(a, n) == Rewrite(a, WithBit(Value(m, a), n, TRUE))
Clr1(a, n) == Rewrite(a, WithBit(Value(m, a), n, FALSE))
Not1(a, n) == Rewrite(a, WithBit(Value(m, a), n, ~HasBit(Value(m, a), n)))

\* BP and BN read; BPC writes only if it branches.
Bp(a) == Become(Touched(m, a))

Bpc(a, n) == IF HasBit(Value(m, a), n) THEN Clr1(a, n)
                                       ELSE Bp(a)

Flags(s, cy, ac, ov) ==
  [s EXCEPT !.psw = WithBit(WithBit(WithBit(@, CY, cy), AC, ac), OV, ov)]

Carry == AsBit(HasBit(m.psw, CY))

\* ADD, ADDC, SUB and SUBC leave the result r; s is the state once the operand
\* is read.
Arithmetic(s, r) == Become([Flags(s, r.cy, r.ac, r.ov) EXCEPT !.acc = r.acc])

\* AND, OR and XOR, flags untouched.
Logic(s, r) == Become([s EXCEPT !.acc = r])

\* BE and BNE: CY tells less from not less.
Compare(s, left, right) ==
  Become([s EXCEPT !.psw = WithBit(@, CY, left < right)])

MulInsn ==
  LET r == Mul(m.acc, m.c, m.b) IN
  Become([Flags(m, FALSE, HasBit(m.psw, AC), r.ov)
            EXCEPT !.acc = r.acc, !.b = r.b, !.c = r.c])
DivInsn ==
  LET r == Div(m.acc, m.c, m.b) IN
  Become([Flags(m, FALSE, HasBit(m.psw, AC), r.ov)
            EXCEPT !.acc = r.acc, !.b = r.b, !.c = r.c])

Rotate(r) ==
  Become([m EXCEPT !.acc = r.acc, !.psw = WithBit(@, CY, r.cy = 1)])

\* ROL and ROR: the bit that leaves comes back in.
Rol == Become([m EXCEPT !.acc = RolC(@, @ \div (Size \div 2)).acc])
Ror == Become([m EXCEPT !.acc = RorC(@, @ % 2).acc])

Reach == Operands \cup {Indirect(m, ri) : ri \in 0 .. 3}

Move ==
  \/ Ldc
  \/ \E a \in Reach : \/ Ld(a) \/ St(a) \/ Xch(a)
                      \/ \E v \in Values : Mov(a, v)

Stack == \E a \in Operands : Push(a) \/ Pop(a)

Change ==
  \E a \in Reach :
    \/ Inc(a) \/ Dec(a) \/ Bp(a)
    \/ \E n \in Bits : Set1(a, n) \/ Clr1(a, n) \/ Not1(a, n) \/ Bpc(a, n)

\* An operand v, with s the state once it is read.
Operate(s, v) ==
  \/ \E c \in {0, Carry} : \/ Arithmetic(s, Add(m.acc, v, c))
                           \/ Arithmetic(s, Sub(m.acc, v, c))
  \/ \E r \in {And(m.acc, v), Or(m.acc, v), Xor(m.acc, v)} : Logic(s, r)
  \/ Compare(s, m.acc, v)

Calculate ==
  \/ \E a \in Reach : Operate(Touched(m, a), Value(m, a))
  \/ \E v \in Values : Operate(m, v)
  \/ \E a \in Reach, v \in Values : Compare(Touched(m, a), Value(m, a), v)
  \/ MulInsn \/ DivInsn
  \/ Rotate(RolC(m.acc, Carry)) \/ Rotate(RorC(m.acc, Carry)) \/ Rol \/ Ror

\* The dot at (x, y): lines come in pairs, the highest bit is leftmost.
line_base(line) == (line \div 2) * PairBytes + (line % 2) * LineBytes

vmu_lcd_pixel(x, y) ==
  LET bank == IF y < Lines THEN 0 ELSE 1
      at == line_base(y % Lines) + (x \div 8)
  IN HasBit(m.xram[bank][at], 7 - (x % 8))

\* A host that draws when vmu_lcd_take_dirty says so: vmu_lcd_frame and
\* vmu_lcd_icons.
Draw ==
  /\ m.dirty
  /\ m' = [m EXCEPT !.dirty = FALSE]
  /\ shown' = [dots |-> [y \in 0 .. Height - 1 |->
                          [x \in 0 .. Width - 1 |-> vmu_lcd_pixel(x, y)]],
               icons |-> m.xram[2][0]]
  /\ UNCHANGED live

\* vmu_set_buttons, as far as port 3 shows it.
SetButtons(b) == Become([m EXCEPT !.buttons = b])

\* vmu_reset clears XRAM and does not set lcd_dirty_flag: a host has to forget
\* what it has shown.
Reset ==
  m' = ResetState(m.dirty) /\ shown' = NotShown /\ live' = <<>>

Next == Move \/ Stack \/ Change \/ Calculate \/ Draw \/ Reset
          \/ \E b \in Presses : SetButtons(b)

Spec == Init /\ [][Next]_vars

-----------------------------------------------------------------------------
(* Properties.                                                              *)

\* Whatever banks the code selects in between, a pop returns what the matching
\* push pushed, as long as code does not write SP or the stack itself
\* (cpu.h:9-11).
PopsWhatWasPushed ==
  \A k \in 1 .. Len(live) :
    /\ live[k].at = (m.sp - (Len(live) - k)) % RamSize
    /\ m.ram[0][live[k].at] = live[k].val

\* Between two resets a host that draws only when told to shows the current
\* contents of XRAM, laid out as lcd.h:3-6 describes: a byte is eight dots,
\* LineBytes make a line, two lines are followed by a gap, icons are bank 2
\* (lcd.h:26).
ScreenIsFresh ==
  shown # NotShown /\ ~m.dirty =>
    /\ shown.icons = m.xram[2][0]
    /\ \A bank \in 0 .. 1, at \in 0 .. (Lines \div 2) * PairBytes - 1 :
         LET in == at % PairBytes
             line == 2 * (at \div PairBytes) + (in \div LineBytes)
             byte == m.xram[bank][at]
         IN in < 2 * LineBytes =>
              \A bit \in 0 .. 7 :
                shown.dots[bank * Lines + line][8 * (in % LineBytes) + 7 - bit]
                  = HasBit(byte, bit)

\* No instruction can write P: it keeps its value or becomes the parity ACC
\* has when the instruction starts (mem.c:41-45, 77-78).
ParityIsReadOnly ==
  [][HasBit(m'.psw, P) \in {HasBit(m.psw, P), Odd[m.acc]} \/ Reset]_vars

\* Code that runs in bank 1 changes nothing in bank 0 except what it pushes
\* (cpu.h:9-11).
BanksAreSeparate ==
  [][HasBit(m.psw, RAMBK0) =>
       \A i \in RamAddr : m'.ram[0][i] # m.ram[0][i] =>
         Reset \/ (i = m'.sp /\ m'.sp = (m.sp + 1) % RamSize)]_vars
=============================================================================
