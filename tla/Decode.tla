------------------------------- MODULE Decode -------------------------------
(* The instruction decoder, tools/lc8670recomp/decode.c: the opcode map and *)
(* the layout of operands, on real bytes.                                   *)
EXTENDS Integers

\* The byte at an offset of a file or an image.
Byte(f, o) == IF o \in DOMAIN f.at THEN f.at[o] ELSE f.fill

\* A file or an image: its size, the bytes of it that are not filling, and the
\* filling.
IsFile(f) ==
  /\ f \in [size : Nat \ {0}, fill : 0 .. 255, at : [DOMAIN f.at -> 0 .. 255]]
  /\ DOMAIN f.at \subseteq 0 .. f.size - 1

U16(x) == x % 65536
Signed(b) == IF b < 128 THEN b ELSE b - 256
Bit(b, i) == (b \div 2^i) % 2

-----------------------------------------------------------------------------
(* classify.                                                                *)

Entry(op, mode, cycles) == [op |-> op, mode |-> mode, cycles |-> cycles]

\* The column of bit-addressed and 12-bit-absolute forms.
BitColumn(b) == b % 16 >= 8

BitColumnEntry ==
  << Entry("call", "a12", 2), Entry("jmp", "a12", 2),
     Entry("bpc", "d9_b3_r8", 2), Entry("bp", "d9_b3_r8", 2),
     Entry("bn", "d9_b3_r8", 2), Entry("not1", "d9_b3", 1),
     Entry("clr1", "d9_b3", 1), Entry("set1", "d9_b3", 1) >>

\* Opcodes that stand alone; 0x50 and 0x51 are the undefined ones.
IrregularOpcodes == {0, 1, 16, 17, 32, 33, 48, 64, 80, 81, 128, 144, 160, 176,
                     192, 193, 208, 224, 240}

Irregular ==
  [b \in IrregularOpcodes |->
     CASE b = 0 -> Entry("nop", "none", 1)   [] b = 1 -> Entry("br", "r8", 2)
       [] b = 16 -> Entry("callr", "r16", 4) [] b = 17 -> Entry("brf", "r16", 4)
       [] b = 32 -> Entry("callf", "a16", 2) [] b = 33 -> Entry("jmpf", "a16", 2)
       [] b = 48 -> Entry("mul", "none", 7)  [] b = 64 -> Entry("div", "none", 7)
       [] b \in {80, 81} -> Entry("invalid", "none", 1)
       [] b = 128 -> Entry("bz", "r8", 2)    [] b = 144 -> Entry("bnz", "r8", 2)
       [] b = 160 -> Entry("ret", "none", 2) [] b = 176 -> Entry("reti", "none", 2)
       [] b = 192 -> Entry("ror", "none", 1) [] b = 193 -> Entry("ldc", "none", 2)
       [] b = 208 -> Entry("rorc", "none", 1) [] b = 224 -> Entry("rol", "none", 1)
       [] b = 240 -> Entry("rolc", "none", 1)]

RowOp == << "ld", "st", "mov", "be", "bne", "dbnz", "inc", "dec",
            "add", "addc", "sub", "subc", "xch", "or", "and", "xor" >>

\* What the rows have for the low digits 0-1, 2-3 and 4-7.
Immediate(row) ==
  CASE row \in {3, 4} -> "i8_r8"
    [] row \in {8, 9, 10, 11, 13, 14, 15} -> "i8"
    [] OTHER -> "none"
Direct(row) ==
  CASE row = 2 -> "d9_i8"
    [] row \in {3, 4, 5} -> "d9_r8"
    [] OTHER -> "d9"
Indirect(row) ==
  CASE row = 2 -> "ind_i8"
    [] row \in {3, 4} -> "ind_i8_r8"
    [] row = 5 -> "ind_r8"
    [] OTHER -> "ind"

Regular(b) ==
  LET row == b \div 16
      lo == b % 8
      op == RowOp[row + 1]
      mode == IF lo < 2 THEN Immediate(row)
              ELSE IF lo < 4 THEN Direct(row) ELSE Indirect(row)
  IN CASE lo < 2 /\ op = "inc" -> Entry("push", "d9", 2)
       [] lo < 2 /\ op = "dec" -> Entry("pop", "d9", 2)
       [] OTHER -> Entry(IF mode = "none" THEN "invalid" ELSE op, mode,
                         IF row \in 2 .. 5 /\ ~(op = "mov" /\ lo >= 4)
                         THEN 2 ELSE 1)

classify(b) ==
  IF BitColumn(b) THEN BitColumnEntry[1 + (b \div 32)]
  ELSE IF b \in DOMAIN Irregular THEN Irregular[b] ELSE Regular(b)

mode_len(mode) ==
  CASE mode \in {"none", "ind"} -> 1
    [] mode \in {"i8", "d9", "r8", "a12", "d9_b3", "ind_r8", "ind_i8"} -> 2
    [] OTHER -> 3

-----------------------------------------------------------------------------
(* vmu_decode.                                                              *)

\* The ninth bit of a RAM address.
D8_LowBit(b) == Bit(b, 0)
D8(b) == IF BitColumn(b) THEN Bit(b, 4) ELSE Bit(b, 0)

DirectAddress(mode, b, b1) ==
  IF mode \in {"d9", "d9_b3", "d9_b3_r8", "d9_r8", "d9_i8"}
  THEN D8(b) * 256 + b1 ELSE 0

ImmediateByte(mode, b1, b2) ==
  CASE mode \in {"i8", "i8_r8", "ind_i8", "ind_i8_r8"} -> b1
    [] mode = "d9_i8" -> b2
    [] OTHER -> 0

HasTarget(mode) ==
  mode \in {"a12", "a16", "r8", "r16", "d9_b3_r8", "d9_r8", "ind_r8",
            "i8_r8", "ind_i8_r8"}

\* a12 keeps the 4K segment of the next instruction, a16 is big endian, r16
\* little endian and unsigned.
Target(mode, b, b1, b2, next) ==
  CASE mode = "a12" -> next - (next % 4096)
                         + Bit(b, 4) * 2048 + (b % 8) * 256 + b1
    [] mode = "a16" -> b1 * 256 + b2
    [] mode \in {"r8", "ind_r8"} -> U16(next + Signed(b1))
    [] mode = "r16" -> U16(next - 1 + b2 * 256 + b1)
    [] mode \in {"d9_b3_r8", "d9_r8", "i8_r8", "ind_i8_r8"} ->
         U16(next + Signed(b2))
    [] OTHER -> 0

CallOps == {"call", "callf", "callr"}
ReturnOps == {"ret", "reti"}
EndingOps == ReturnOps \cup {"jmp", "jmpf", "br", "brf", "invalid"}

Decoded(b, b1, b2, pc) ==
  LET e == classify(b)
      len == mode_len(e.mode)
  IN [pc |-> pc, opcode |-> b, op |-> e.op, mode |-> e.mode, len |-> len,
      cycles |-> e.cycles,
      d9 |-> DirectAddress(e.mode, b, b1), i8 |-> ImmediateByte(e.mode, b1, b2),
      b3 |-> b % 8, ri |-> b % 4,
      target |-> Target(e.mode, b, b1, b2, U16(pc + len)),
      has_target |-> HasTarget(e.mode), is_call |-> e.op \in CallOps,
      is_ret |-> e.op \in ReturnOps, ends_block |-> e.op \in EndingOps]

\* An opcode whose operands would lie behind the image.
Truncated(b, pc) ==
  [pc |-> pc, opcode |-> b, op |-> "invalid", mode |-> "none", len |-> 1,
   cycles |-> classify(b).cycles, d9 |-> 0, i8 |-> 0, b3 |-> 0, ri |-> 0,
   target |-> 0, has_target |-> FALSE, is_call |-> FALSE, is_ret |-> FALSE,
   ends_block |-> TRUE]

Fits_OneShort(b, rom, pc) == pc + mode_len(classify(b).mode) <= rom.size + 1
Fits(b, rom, pc) == pc + mode_len(classify(b).mode) <= rom.size

\* The instruction at pc, an address inside the image.
vmu_decode(rom, pc) ==
  LET b == Byte(rom, pc) IN
  IF Fits(b, rom, pc)
  THEN Decoded(b, Byte(rom, pc + 1), Byte(rom, pc + 2), pc)
  ELSE Truncated(b, pc)
=============================================================================
