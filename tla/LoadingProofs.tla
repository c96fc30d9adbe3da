--------------------------- MODULE LoadingProofs ---------------------------
(* Proofs about Loading, for every image and every .dci of it.              *)
EXTENDS Loading, SequenceTheorems, TLAPS

-----------------------------------------------------------------------------
(* The opcode map.                                                          *)

Alone == {"nop", "mul", "div", "ret", "reti", "ror", "ldc", "rorc", "rol",
          "rolc"}
Row == {"ld", "st", "mov", "be", "bne", "dbnz", "inc", "dec", "add", "addc",
        "sub", "subc", "xch", "or", "and", "xor"}

\* What classify may say of an opcode: which instructions have which operands,
\* and what is added to the number of an instruction to get its opcodes.
AloneForm(b, op, mode) ==
  \/ mode = "none" /\ op = "invalid" /\ b \in {80, 81}
  \/ mode = "none" /\ op \in Alone /\ b = OpcodeOf[op]
  \/ mode = "r8" /\ op \in {"br", "bz", "bnz"} /\ b = OpcodeOf[op]
  \/ mode = "r16" /\ op \in {"callr", "brf"} /\ b = OpcodeOf[op]
  \/ mode = "a16" /\ op \in {"callf", "jmpf"} /\ b = OpcodeOf[op]

BitForm(b, op, mode) ==
  /\ BitColumn(b) /\ b = OpcodeOf[op] + 16 * Bit(b, 4) + (b % 8)
  /\ \/ mode = "a12" /\ op \in {"call", "jmp"}
     \/ mode = "d9_b3_r8" /\ op \in {"bpc", "bp", "bn"}
     \/ mode = "d9_b3" /\ op \in {"not1", "clr1", "set1"}

ImmediateForm(b, op, mode) ==
  /\ b = OpcodeOf[op] + 1
  /\ \/ mode = "i8" /\ op \in {"add", "addc", "sub", "subc", "or", "and", "xor"}
     \/ mode = "i8_r8" /\ op \in {"be", "bne"}

StackForm(b, op, mode) ==
  /\ ~BitColumn(b) /\ b = OpcodeOf[op] + Bit(b, 0)
  /\ mode = "d9" /\ op \in {"push", "pop"}

DirectForm(b, op, mode) ==
  /\ ~BitColumn(b) /\ b = OpcodeOf[op] + 2 + Bit(b, 0)
  /\ \/ mode = "d9" /\ op \in Row \ {"mov", "be", "bne", "dbnz"}
     \/ mode = "d9_r8" /\ op \in {"be", "bne", "dbnz"}
     \/ mode = "d9_i8" /\ op = "mov"

IndirectForm(b, op, mode) ==
  /\ b = OpcodeOf[op] + 4 + (b % 4)
  /\ \/ mode = "ind" /\ op \in Row \ {"mov", "be", "bne", "dbnz"}
     \/ mode = "ind_r8" /\ op = "dbnz"
     \/ mode = "ind_i8" /\ op = "mov"
     \/ mode = "ind_i8_r8" /\ op \in {"be", "bne"}

Form(b, op, mode) ==
  \/ AloneForm(b, op, mode) \/ BitForm(b, op, mode)
  \/ ImmediateForm(b, op, mode) \/ StackForm(b, op, mode)
  \/ DirectForm(b, op, mode) \/ IndirectForm(b, op, mode)

\* The parts of an opcode.
LEMMA Digits ==
  ASSUME NEW row \in 0 .. 15, NEW lo \in 0 .. 15, NEW b, b = 16 * row + lo
  PROVE  /\ b \div 16 = row /\ b % 16 = lo /\ b % 8 = lo % 8 /\ b % 4 = lo % 4
         /\ b \div 32 = row \div 2 /\ Bit(b, 4) = row % 2 /\ Bit(b, 0) = lo % 2
         /\ BitColumn(b) <=> lo >= 8
<1>1. 2^4 = 16 /\ 2^0 = 1
  OBVIOUS
<1>2. b \div 16 = row /\ b % 16 = lo
  OBVIOUS
<1>3. b % 8 = lo % 8
  OBVIOUS
<1>4. b % 4 = lo % 4
  OBVIOUS
<1>5. b \div 32 = row \div 2
  OBVIOUS
<1>6. Bit(b, 4) = row % 2
  BY <1>1, <1>2 DEF Bit
<1>7. Bit(b, 0) = lo % 2
  BY <1>1 DEF Bit
<1> QED BY <1>2, <1>3, <1>4, <1>5, <1>6, <1>7 DEF BitColumn

LEMMA HasDigits ==
  ASSUME NEW b \in Nat, b < 256
  PROVE  \E row \in 0 .. 15, lo \in 0 .. 15 : b = 16 * row + lo
<1>1. b \div 16 \in 0 .. 15 /\ b % 16 \in 0 .. 15 /\ b = 16 * (b \div 16) + (b % 16)
  OBVIOUS
<1> QED BY <1>1

\* The column of bit addresses: an entry stands for two rows.
LEMMA BitColumnForm ==
  ASSUME NEW b \in Nat, b < 256, BitColumn(b)
  PROVE  LET e == BitColumnEntry[1 + (b \div 32)] IN BitForm(b, e.op, e.mode)
<1>1. PICK row \in 0 .. 15, lo \in 0 .. 15 : b = 16 * row + lo
  BY HasDigits
<1>2. /\ b % 8 = lo % 8 /\ b \div 32 = row \div 2
      /\ Bit(b, 4) = row % 2 /\ lo >= 8
  BY <1>1, Digits
<1>3. lo % 8 = lo - 8
  BY <1>2
<1> DEFINE k == row \div 2
           e == BitColumnEntry[1 + k]
<1>4. k \in 0 .. 7 /\ b = 32 * k + 16 * (row % 2) + 8 + (lo % 8)
  BY <1>1, <1>3
<1> HIDE DEF k
<1>5. /\ 32 * k + 8 = OpcodeOf[e.op]
      /\ \/ e.mode = "a12" /\ e.op \in {"call", "jmp"}
         \/ e.mode = "d9_b3_r8" /\ e.op \in {"bpc", "bp", "bn"}
         \/ e.mode = "d9_b3" /\ e.op \in {"not1", "clr1", "set1"}
  <2>1. CASE k = 0 BY <2>1 DEF BitColumnEntry, Entry, OpcodeOf
  <2>2. CASE k = 1 BY <2>2 DEF BitColumnEntry, Entry, OpcodeOf
  <2>3. CASE k = 2 BY <2>3 DEF BitColumnEntry, Entry, OpcodeOf
  <2>4. CASE k = 3 BY <2>4 DEF BitColumnEntry, Entry, OpcodeOf
  <2>5. CASE k = 4 BY <2>5 DEF BitColumnEntry, Entry, OpcodeOf
  <2>6. CASE k = 5 BY <2>6 DEF BitColumnEntry, Entry, OpcodeOf
  <2>7. CASE k = 6 BY <2>7 DEF BitColumnEntry, Entry, OpcodeOf
  <2>8. CASE k = 7 BY <2>8 DEF BitColumnEntry, Entry, OpcodeOf
  <2> QED BY <1>4, <2>1, <2>2, <2>3, <2>4, <2>5, <2>6, <2>7, <2>8
<1>6. b = OpcodeOf[e.op] + 16 * Bit(b, 4) + (b % 8)
  BY <1>2, <1>4, <1>5
<1>7. b \div 32 = k
  BY <1>2 DEF k
<1> HIDE DEF e
<1>8. BitForm(b, e.op, e.mode)
  BY <1>5, <1>6 DEF BitForm
<1> QED BY <1>7, <1>8 DEF e

\* Opcodes that stand alone.
LEMMA IrregularForm ==
  ASSUME NEW b \in IrregularOpcodes
  PROVE  LET e == Irregular[b] IN AloneForm(b, e.op, e.mode)
<1>1. b \in IrregularOpcodes
  OBVIOUS
<1> USE DEF Irregular, IrregularOpcodes
<1>2. CASE b = 0
  BY <1>2, Irregular[0] = Entry("nop", "none", 1)
  DEF Entry, OpcodeOf, AloneForm, Alone
<1>3. CASE b = 1
  BY <1>3, Irregular[1] = Entry("br", "r8", 2)
  DEF Entry, OpcodeOf, AloneForm, Alone
<1>4. CASE b = 16
  BY <1>4, Irregular[16] = Entry("callr", "r16", 4)
  DEF Entry, OpcodeOf, AloneForm, Alone
<1>5. CASE b = 17
  BY <1>5, Irregular[17] = Entry("brf", "r16", 4)
  DEF Entry, OpcodeOf, AloneForm, Alone
<1>6. CASE b = 32
  BY <1>6, Irregular[32] = Entry("callf", "a16", 2)
  DEF Entry, OpcodeOf, AloneForm, Alone
<1>7. CASE b = 33
  BY <1>7, Irregular[33] = Entry("jmpf", "a16", 2)
  DEF Entry, OpcodeOf, AloneForm, Alone
<1>8. CASE b = 48
  BY <1>8, Irregular[48] = Entry("mul", "none", 7)
  DEF Entry, OpcodeOf, AloneForm, Alone
<1>9. CASE b = 64
  BY <1>9, Irregular[64] = Entry("div", "none", 7)
  DEF Entry, OpcodeOf, AloneForm, Alone
<1>10. CASE b = 80
  BY <1>10, Irregular[80] = Entry("invalid", "none", 1)
  DEF Entry, OpcodeOf, AloneForm, Alone
<1>11. CASE b = 81
  BY <1>11, Irregular[81] = Entry("invalid", "none", 1)
  DEF Entry, OpcodeOf, AloneForm, Alone
<1>12. CASE b = 128
  BY <1>12, Irregular[128] = Entry("bz", "r8", 2)
  DEF Entry, OpcodeOf, AloneForm, Alone
<1>13. CASE b = 144
  BY <1>13, Irregular[144] = Entry("bnz", "r8", 2)
  DEF Entry, OpcodeOf, AloneForm, Alone
<1>14. CASE b = 160
  BY <1>14, Irregular[160] = Entry("ret", "none", 2)
  DEF Entry, OpcodeOf, AloneForm, Alone
<1>15. CASE b = 176
  BY <1>15, Irregular[176] = Entry("reti", "none", 2)
  DEF Entry, OpcodeOf, AloneForm, Alone
<1>16. CASE b = 192
  BY <1>16, Irregular[192] = Entry("ror", "none", 1)
  DEF Entry, OpcodeOf, AloneForm, Alone
<1>17. CASE b = 193
  BY <1>17, Irregular[193] = Entry("ldc", "none", 2)
  DEF Entry, OpcodeOf, AloneForm, Alone
<1>18. CASE b = 208
  BY <1>18, Irregular[208] = Entry("rorc", "none", 1)
  DEF Entry, OpcodeOf, AloneForm, Alone
<1>19. CASE b = 224
  BY <1>19, Irregular[224] = Entry("rol", "none", 1)
  DEF Entry, OpcodeOf, AloneForm, Alone
<1>20. CASE b = 240
  BY <1>20, Irregular[240] = Entry("rolc", "none", 1)
  DEF Entry, OpcodeOf, AloneForm, Alone
<1> QED BY <1>1, <1>2, <1>3, <1>4, <1>5, <1>6, <1>7, <1>8, <1>9, <1>10, <1>11, <1>12, <1>13, <1>14, <1>15, <1>16, <1>17, <1>18, <1>19, <1>20

\* The rows: an instruction has the sixteenth part of its first opcode.
LEMMA Rows ==
  ASSUME NEW row \in 0 .. 15
  PROVE  LET op == RowOp[row + 1] IN
         /\ op \in Row /\ OpcodeOf[op] = 16 * row
         /\ row = 2 <=> op = "mov"
         /\ row \in {3, 4} <=> op \in {"be", "bne"}
         /\ row = 5 <=> op = "dbnz"
         /\ row = 6 <=> op = "inc"
         /\ row = 7 <=> op = "dec"
         /\ row \in {8, 9, 10, 11, 13, 14, 15} =>
              op \in {"add", "addc", "sub", "subc", "or", "and", "xor"}
<1> USE DEF RowOp, OpcodeOf, Row
<1>1. CASE row = 0
  BY <1>1, RowOp[0 + 1] = "ld"
<1>2. CASE row = 1
  BY <1>2, RowOp[1 + 1] = "st"
<1>3. CASE row = 2
  BY <1>3, RowOp[2 + 1] = "mov"
<1>4. CASE row = 3
  BY <1>4, RowOp[3 + 1] = "be"
<1>5. CASE row = 4
  BY <1>5, RowOp[4 + 1] = "bne"
<1>6. CASE row = 5
  BY <1>6, RowOp[5 + 1] = "dbnz"
<1>7. CASE row = 6
  BY <1>7, RowOp[6 + 1] = "inc"
<1>8. CASE row = 7
  BY <1>8, RowOp[7 + 1] = "dec"
<1>9. CASE row = 8
  BY <1>9, RowOp[8 + 1] = "add"
<1>10. CASE row = 9
  BY <1>10, RowOp[9 + 1] = "addc"
<1>11. CASE row = 10
  BY <1>11, RowOp[10 + 1] = "sub"
<1>12. CASE row = 11
  BY <1>12, RowOp[11 + 1] = "subc"
<1>13. CASE row = 12
  BY <1>13, RowOp[12 + 1] = "xch"
<1>14. CASE row = 13
  BY <1>14, RowOp[13 + 1] = "or"
<1>15. CASE row = 14
  BY <1>15, RowOp[14 + 1] = "and"
<1>16. CASE row = 15
  BY <1>16, RowOp[15 + 1] = "xor"
<1> QED BY <1>1, <1>2, <1>3, <1>4, <1>5, <1>6, <1>7, <1>8, <1>9, <1>10, <1>11, <1>12, <1>13, <1>14, <1>15, <1>16

\* The other opcodes of a row.
LEMMA RegularForm ==
  ASSUME NEW b \in Nat, b < 256, ~BitColumn(b), b \notin IrregularOpcodes
  PROVE  LET e == Regular(b) IN
         \/ ImmediateForm(b, e.op, e.mode) \/ StackForm(b, e.op, e.mode)
         \/ DirectForm(b, e.op, e.mode) \/ IndirectForm(b, e.op, e.mode)
<1>1. PICK row \in 0 .. 15, lo \in 0 .. 15 : b = 16 * row + lo
  BY HasDigits
<1> DEFINE op == RowOp[row + 1]
           e == Regular(b)
<1>2. /\ b \div 16 = row /\ b % 8 = lo /\ b % 4 = lo % 4 /\ Bit(b, 0) = lo % 2
      /\ lo \in 0 .. 7
  <2>1. lo < 8
    BY <1>1, Digits
  <2>2. lo % 8 = lo
    BY <2>1
  <2> QED BY <1>1, <2>1, <2>2, Digits
<1>3. /\ op \in Row /\ OpcodeOf[op] = 16 * row
      /\ row = 2 <=> op = "mov"
      /\ row \in {3, 4} <=> op \in {"be", "bne"}
      /\ row = 5 <=> op = "dbnz"
      /\ row = 6 <=> op = "inc"
      /\ row = 7 <=> op = "dec"
      /\ row \in {8, 9, 10, 11, 13, 14, 15} =>
           op \in {"add", "addc", "sub", "subc", "or", "and", "xor"}
  BY Rows
<1>4. CASE lo < 2
  <2>1. lo \in {0, 1} /\ lo % 2 = lo
    BY <1>2, <1>4
  <2>2. CASE op = "inc"
    <3>1. e = Entry("push", "d9", 2)
      BY <1>2, <1>4, <2>2 DEF Regular
    <3>2. OpcodeOf["push"] = 96
      BY DEF OpcodeOf
    <3> QED BY <1>1, <1>2, <1>3, <2>1, <2>2, <3>1, <3>2 DEF StackForm, Entry
  <2>3. CASE op = "dec"
    <3>1. e = Entry("pop", "d9", 2)
      BY <1>2, <1>4, <2>3 DEF Regular
    <3>2. OpcodeOf["pop"] = 112
      BY DEF OpcodeOf
    <3> QED BY <1>1, <1>2, <1>3, <2>1, <2>3, <3>1, <3>2 DEF StackForm, Entry
  <2>4. CASE op \notin {"inc", "dec"}
    <3>1. row \notin {6, 7}
      BY <1>3, <2>4
    <3>2. lo = 1 /\ row \in {3, 4, 8, 9, 10, 11, 13, 14, 15}
      BY <1>1, <2>1, <3>1 DEF IrregularOpcodes
    <3>3. /\ row \in {3, 4} => Immediate(row) = "i8_r8"
          /\ row \notin {3, 4} => Immediate(row) = "i8"
      BY <3>2 DEF Immediate
    <3>4. e.op = op /\ e.mode = Immediate(row)
      BY <1>2, <1>4, <2>4, <3>3 DEF Regular, Entry
    <3>5. b = OpcodeOf[op] + 1
      BY <1>1, <1>3, <3>2
    <3> HIDE DEF op
    <3> QED BY <1>3, <3>2, <3>3, <3>4, <3>5 DEF ImmediateForm
  <2> QED BY <2>2, <2>3, <2>4
<1>5. CASE lo \in 2 .. 3
  <2>1. /\ row = 2 => Direct(row) = "d9_i8"
        /\ row \in {3, 4, 5} => Direct(row) = "d9_r8"
        /\ row \notin {2, 3, 4, 5} => Direct(row) = "d9"
    BY DEF Direct
  <2>2. e.op = op /\ e.mode = Direct(row)
    BY <1>2, <1>5, <2>1 DEF Regular, Entry
  <2>3. b = OpcodeOf[op] + 2 + Bit(b, 0)
    BY <1>1, <1>2, <1>3, <1>5
  <2> HIDE DEF op
  <2> QED BY <1>3, <2>1, <2>2, <2>3 DEF DirectForm
<1>6. CASE lo \in 4 .. 7
  <2>1. /\ row = 2 => Indirect(row) = "ind_i8"
        /\ row \in {3, 4} => Indirect(row) = "ind_i8_r8"
        /\ row = 5 => Indirect(row) = "ind_r8"
        /\ row \notin {2, 3, 4, 5} => Indirect(row) = "ind"
    BY DEF Indirect
  <2>2. e.op = op /\ e.mode = Indirect(row)
    BY <1>2, <1>6, <2>1 DEF Regular, Entry
  <2>3. b = OpcodeOf[op] + 4 + (b % 4)
    BY <1>1, <1>2, <1>3, <1>6
  <2> HIDE DEF op
  <2> QED BY <1>3, <2>1, <2>2, <2>3 DEF IndirectForm
<1> QED BY <1>2, <1>4, <1>5, <1>6

LEMMA ClassifyForm ==
  ASSUME NEW b \in Nat, b < 256
  PROVE  Form(b, classify(b).op, classify(b).mode)
<1>1. CASE BitColumn(b)
  <2>1. classify(b) = BitColumnEntry[1 + (b \div 32)]
    BY <1>1 DEF classify
  <2> QED BY <1>1, <2>1, BitColumnForm DEF Form
<1>2. CASE ~BitColumn(b) /\ b \in IrregularOpcodes
  <2>1. classify(b) = Irregular[b]
    BY <1>2 DEF classify, Irregular
  <2> QED BY <1>2, <2>1, IrregularForm DEF Form
<1>3. CASE ~BitColumn(b) /\ b \notin IrregularOpcodes
  <2>1. classify(b) = Regular(b)
    BY <1>3 DEF classify, Irregular
  <2> QED BY <1>3, <2>1, RegularForm DEF Form
<1> QED BY <1>1, <1>2, <1>3

Targeted == {"branch", "jump", "call"}
Returning == {"ret", "reti"}
Ending == {"jump", "invalid"} \cup Returning
Flows == {"next"} \cup Targeted \cup Ending

\* What the operands and the kind of an instruction have to do with each other.
LEMMA FormFlow ==
  ASSUME NEW b, NEW op, NEW mode, Form(b, op, mode)
  PROVE  /\ Flow(op) \in Flows
         /\ HasTarget(mode) <=> Flow(op) \in Targeted
         /\ op \in CallOps <=> Flow(op) = "call"
         /\ op \in ReturnOps <=> Flow(op) \in Returning
         /\ op \in EndingOps <=>
              Flow(op) \in Ending
         /\ op = "invalid" => mode_len(mode) = 1
         /\ mode_len(mode) \in 1 .. 3
<1> USE DEF Flow, Flows, Targeted, Returning, Ending,
            HasTarget, CallOps, ReturnOps, EndingOps, mode_len
<1>1. CASE AloneForm(b, op, mode)
  <2>1. CASE mode = "none" /\ op = "invalid"
    BY <2>1
  <2>2. CASE mode = "none" /\ op \in Alone
    BY <2>2 DEF Alone
  <2>3. CASE mode = "r8" /\ op \in {"br", "bz", "bnz"}
    BY <2>3
  <2>4. CASE mode = "r16" /\ op \in {"callr", "brf"}
    BY <2>4
  <2>5. CASE mode = "a16" /\ op \in {"callf", "jmpf"}
    BY <2>5
  <2> QED BY <1>1, <2>1, <2>2, <2>3, <2>4, <2>5 DEF AloneForm
<1>2. CASE BitForm(b, op, mode)
  <2>1. CASE mode = "a12" /\ op \in {"call", "jmp"}
    BY <2>1
  <2>2. CASE mode = "d9_b3_r8" /\ op \in {"bpc", "bp", "bn"}
    BY <2>2
  <2>3. CASE mode = "d9_b3" /\ op \in {"not1", "clr1", "set1"}
    BY <2>3
  <2> QED BY <1>2, <2>1, <2>2, <2>3 DEF BitForm
<1>3. CASE ImmediateForm(b, op, mode)
  <2>1. CASE mode = "i8" /\ op \in {"add", "addc", "sub", "subc", "or", "and", "xor"}
    BY <2>1
  <2>2. CASE mode = "i8_r8" /\ op \in {"be", "bne"}
    BY <2>2
  <2> QED BY <1>3, <2>1, <2>2 DEF ImmediateForm
<1>4. CASE StackForm(b, op, mode)
  BY <1>4 DEF StackForm
<1>5. CASE DirectForm(b, op, mode)
  <2>1. CASE mode = "d9" /\ op \in Row \ {"mov", "be", "bne", "dbnz"}
    BY <2>1 DEF Row
  <2>2. CASE mode = "d9_r8" /\ op \in {"be", "bne", "dbnz"}
    BY <2>2
  <2>3. CASE mode = "d9_i8" /\ op = "mov"
    BY <2>3
  <2> QED BY <1>5, <2>1, <2>2, <2>3 DEF DirectForm
<1>6. CASE IndirectForm(b, op, mode)
  <2>1. CASE mode = "ind" /\ op \in Row \ {"mov", "be", "bne", "dbnz"}
    BY <2>1 DEF Row
  <2>2. CASE mode = "ind_r8" /\ op = "dbnz"
    BY <2>2
  <2>3. CASE mode = "ind_i8" /\ op = "mov"
    BY <2>3
  <2>4. CASE mode = "ind_i8_r8" /\ op \in {"be", "bne"}
    BY <2>4
  <2> QED BY <1>6, <2>1, <2>2, <2>3, <2>4 DEF IndirectForm
<1> QED BY <1>1, <1>2, <1>3, <1>4, <1>5, <1>6 DEF Form

-----------------------------------------------------------------------------
(* Bytes and addresses.                                                     *)

LEMMA ByteType ==
  ASSUME NEW f, IsFile(f), NEW o
  PROVE  Byte(f, o) \in Nat /\ Byte(f, o) < 256
<1>1. Byte(f, o) \in 0 .. 255
  BY DEF IsFile, Byte
<1> HIDE DEF IsFile
<1> QED BY <1>1

LEMMA U16Type ==
  ASSUME NEW x \in Int
  PROVE  U16(x) \in Nat /\ U16(x) < 65536
BY SMT DEF U16

LEMMA U16Same ==
  ASSUME NEW x \in Nat, x < 65536
  PROVE  U16(x) = x
BY SMT DEF U16

LEMMA U16Less ==
  ASSUME NEW x \in Nat
  PROVE  U16(x) <= x
BY SMT DEF U16

LEMMA BitType ==
  ASSUME NEW b \in Nat
  PROVE  Bit(b, 0) \in 0 .. 1 /\ Bit(b, 4) \in 0 .. 1
<1>1. 2^4 = 16 /\ 2^0 = 1
  OBVIOUS
<1>2. b \div 16 \in Int /\ b \div 1 \in Int
  OBVIOUS
<1> QED BY <1>1, <1>2 DEF Bit

LEMMA SignedType ==
  ASSUME NEW b \in Nat, b < 256
  PROVE  Signed(b) \in Int
BY DEF Signed

\* Where a branch may lead is an address.
LEMMA TargetType ==
  ASSUME NEW mode, NEW b \in Nat, NEW b1 \in Nat, NEW b2 \in Nat, NEW next \in Nat,
         b < 256, b1 < 256, b2 < 256, next < 65536
  PROVE  LET t == Target(mode, b, b1, b2, next) IN t \in Nat /\ t < 65536
<1> DEFINE t == Target(mode, b, b1, b2, next)
           a12 == next - (next % 4096) + Bit(b, 4) * 2048 + (b % 8) * 256 + b1
<1>1. a12 \in Nat /\ a12 < 65536
  <2>1. next \div 4096 \in 0 .. 15 /\ next - (next % 4096) = 4096 * (next \div 4096)
    BY SMT
  <2>2. b % 8 \in 0 .. 7
    BY SMT
  <2>3. Bit(b, 4) \in 0 .. 1
    BY BitType
  <2> QED BY <2>1, <2>2, <2>3, SMT
<1>2. b1 * 256 + b2 \in Nat /\ b1 * 256 + b2 < 65536
  BY SMT
<1>3. /\ U16(next + Signed(b1)) \in Nat /\ U16(next + Signed(b1)) < 65536
      /\ U16(next - 1 + b2 * 256 + b1) \in Nat /\ U16(next - 1 + b2 * 256 + b1) < 65536
      /\ U16(next + Signed(b2)) \in Nat /\ U16(next + Signed(b2)) < 65536
  <2>1. Signed(b1) \in Int /\ Signed(b2) \in Int
    BY SignedType
  <2>2. /\ next + Signed(b1) \in Int /\ next + Signed(b2) \in Int
        /\ next - 1 + b2 * 256 + b1 \in Int
    BY <2>1
  <2> QED BY <2>2, U16Type
<1>4. \/ t = a12 \/ t = b1 * 256 + b2 \/ t = 0
      \/ t = U16(next + Signed(b1)) \/ t = U16(next + Signed(b2))
      \/ t = U16(next - 1 + b2 * 256 + b1)
  BY DEF Target
<1> HIDE DEF t, a12
<1>5. t \in Nat /\ t < 65536
  BY <1>1, <1>2, <1>3, <1>4, SMT
<1> QED BY <1>5 DEF t

\* A flag that says whether x is in S.
LEMMA Member ==
  ASSUME NEW flag, NEW S, NEW x, flag = TRUE, x \in S
  PROVE  flag = (x \in S)
<1>1. (x \in S) = TRUE
  BY SMT
<1> QED BY <1>1, Zenon

LEMMA NotMember ==
  ASSUME NEW flag, NEW S, NEW x, flag = FALSE, x \notin S
  PROVE  flag = (x \in S)
<1>1. (x \in S) = FALSE
  BY SMT
<1> QED BY <1>1, Zenon

\* An instruction cut off is marked as what ends a block.
LEMMA TruncatedFlow ==
  ASSUME NEW b, NEW p
  PROVE  LET in == Truncated(b, p) IN
         /\ in.has_target = (Flow(in.op) \in Targeted)
         /\ in.is_call = (Flow(in.op) = "call")
         /\ in.is_ret = (Flow(in.op) \in Returning)
         /\ in.ends_block = (Flow(in.op) \in Ending)
<1> DEFINE in == Truncated(b, p)
<1>1. /\ in.has_target = FALSE /\ in.is_call = FALSE
      /\ in.is_ret = FALSE /\ in.ends_block = TRUE /\ in.op = "invalid"
  BY DEF Truncated
<1> HIDE DEF in
<1>2. Flow(in.op) = "invalid"
  BY <1>1 DEF Flow
<1>3. Flow(in.op) \notin Targeted /\ Flow(in.op) # "call"
  BY <1>2 DEF Targeted
<1>4. Flow(in.op) \notin Returning /\ Flow(in.op) \in Ending
  BY <1>2 DEF Returning, Ending
<1>5. in.has_target = (Flow(in.op) \in Targeted)
  BY <1>1, <1>3, NotMember, Zenon
<1>6. in.is_call = (Flow(in.op) = "call")
  BY <1>1, <1>3, Zenon
<1>7. in.is_ret = (Flow(in.op) \in Returning)
  BY <1>1, <1>4, NotMember, Zenon
<1>8. in.ends_block = (Flow(in.op) \in Ending)
  BY <1>1, <1>4, Member, Zenon
<1> QED BY <1>5, <1>6, <1>7, <1>8 DEF in

\* What vmu_decode says of an instruction is consistent.
LEMMA DecodeWell ==
  ASSUME NEW rom, IsFile(rom), NEW p \in Nat, p < rom.size, p < 65536
  PROVE  LET in == vmu_decode(rom, p) IN
         /\ in.pc = p /\ in.len \in 1 .. 3 /\ in.pc + in.len <= rom.size
         /\ in.target \in Nat /\ in.target < 65536
         /\ in.op = "invalid" => in.len = 1
         /\ Flow(in.op) \in Flows
         /\ in.has_target = (Flow(in.op) \in Targeted)
         /\ in.is_call = (Flow(in.op) = "call")
         /\ in.is_ret = (Flow(in.op) \in Returning)
         /\ in.ends_block = (Flow(in.op) \in Ending)
<1> DEFINE b == Byte(rom, p)
           b1 == Byte(rom, p + 1)
           b2 == Byte(rom, p + 2)
           e == classify(b)
           next == U16(p + mode_len(e.mode))
           in == vmu_decode(rom, p)
<1>1. /\ b \in Nat /\ b < 256 /\ b1 \in Nat /\ b1 < 256
      /\ b2 \in Nat /\ b2 < 256
  BY ByteType
<1>2. Form(b, e.op, e.mode)
  BY <1>1, ClassifyForm
<1>3. /\ Flow(e.op) \in Flows
      /\ HasTarget(e.mode) <=> Flow(e.op) \in Targeted
      /\ e.op \in CallOps <=> Flow(e.op) = "call"
      /\ e.op \in ReturnOps <=> Flow(e.op) \in Returning
      /\ e.op \in EndingOps <=>
           Flow(e.op) \in Ending
      /\ e.op = "invalid" => mode_len(e.mode) = 1
      /\ mode_len(e.mode) \in 1 .. 3
  BY <1>2, FormFlow
<1>4. CASE Fits(b, rom, p)
  <2>1. in = Decoded(b, b1, b2, p)
    BY <1>4 DEF vmu_decode
  <2>2. /\ in.pc = p /\ in.len = mode_len(e.mode) /\ in.op = e.op
        /\ in.target = Target(e.mode, b, b1, b2, next)
        /\ in.has_target = HasTarget(e.mode)
        /\ in.is_call = (e.op \in CallOps)
        /\ in.is_ret = (e.op \in ReturnOps)
        /\ in.ends_block = (e.op \in EndingOps)
    BY <2>1 DEF Decoded
  <2>3. next \in Nat /\ next < 65536
    BY <1>3, U16Type
  <2>4. in.target \in Nat /\ in.target < 65536
    <3> HIDE DEF b, b1, b2, next, in
    <3> QED BY <1>1, <2>2, <2>3, TargetType
  <2>5. p + mode_len(e.mode) <= rom.size
    BY <1>4 DEF Fits
  <2> HIDE DEF in, e
  <2>6. /\ in.has_target = (Flow(in.op) \in Targeted)
        /\ in.is_call = (Flow(in.op) = "call")
        /\ in.is_ret = (Flow(in.op) \in Returning)
        /\ in.ends_block = (Flow(in.op) \in Ending)
    <3>1. in.has_target = (Flow(in.op) \in Targeted)
      BY <1>3, <2>2, SMT DEF HasTarget
    <3>2. in.is_call = (Flow(in.op) = "call")
      BY <1>3, <2>2, SMT
    <3>3. in.is_ret = (Flow(in.op) \in Returning)
      BY <1>3, <2>2, SMT
    <3>4. in.ends_block = (Flow(in.op) \in Ending)
      BY <1>3, <2>2, SMT
    <3> QED BY <3>1, <3>2, <3>3, <3>4
  <2>7. /\ in.pc = p /\ in.len \in 1 .. 3 /\ in.pc + in.len <= rom.size
        /\ in.op = "invalid" => in.len = 1
        /\ Flow(in.op) \in Flows
    BY <1>3, <2>2, <2>5
  <2> QED BY <2>4, <2>6, <2>7 DEF in
<1>5. CASE ~Fits(b, rom, p)
  <2>1. in = Truncated(b, p)
    BY <1>5 DEF vmu_decode
  <2>2. rom.size \in Nat
    BY DEF IsFile
  <2>3. Flow("invalid") = "invalid"
    BY DEF Flow
  <2>4. p + 1 <= rom.size
    BY <2>2
  <2>5. /\ in.pc = p /\ in.len = 1 /\ in.op = "invalid" /\ in.target = 0
        /\ in.has_target = FALSE /\ in.is_call = FALSE /\ in.is_ret = FALSE
        /\ in.ends_block = TRUE
    BY <2>1 DEF Truncated
  <2>6. /\ in.has_target = (Flow(in.op) \in Targeted)
        /\ in.is_call = (Flow(in.op) = "call")
        /\ in.is_ret = (Flow(in.op) \in Returning)
        /\ in.ends_block = (Flow(in.op) \in Ending)
    BY <2>1, TruncatedFlow
  <2> HIDE DEF in
  <2>7. /\ in.pc = p /\ in.len \in 1 .. 3 /\ in.pc + in.len <= rom.size
        /\ in.target \in Nat /\ in.target < 65536
        /\ in.op = "invalid" => in.len = 1
        /\ Flow(in.op) \in Flows
    <3>1. "invalid" \in Flows
      BY DEF Flows, Ending
    <3>2. in.target \in Nat /\ in.target < 65536
      BY <2>5, SMT
    <3> QED BY <2>3, <2>4, <2>5, <3>1, <3>2
  <2> QED BY <2>6, <2>7 DEF in
<1> QED BY <1>4, <1>5

-----------------------------------------------------------------------------
(* Containers.                                                              *)

\* Turning words around keeps inside the file, and twice is as good as never.
LEMMA PlaceTwice ==
  ASSUME NEW len \in Nat, NEW o \in Nat, o < len
  PROVE  /\ Place(len, o) \in Nat /\ Place(len, o) < len
         /\ Place(len, Place(len, o)) = o
<1>1. PICK j \in Nat, m \in 0 .. 3 : len = 4 * j + m
  <2>1. len \div 4 \in Nat /\ len % 4 \in 0 .. 3 /\ len = 4 * (len \div 4) + (len % 4)
    OBVIOUS
  <2> QED BY <2>1
<1>2. PICK k \in Nat, r \in 0 .. 3 : o = 4 * k + r
  <2>1. o \div 4 \in Nat /\ o % 4 \in 0 .. 3 /\ o = 4 * (o \div 4) + (o % 4)
    OBVIOUS
  <2> QED BY <2>1
<1>3. len - (len % 4) = 4 * j
  BY <1>1
<1>4. CASE o >= 4 * j
  <2>1. Place(len, o) = o
    BY <1>1, <1>3, <1>4 DEF Place
  <2> QED BY <2>1
<1>5. CASE o < 4 * j
  <2> DEFINE x == 4 * k + (3 - r)
  <2>1. o % 4 = r
    BY <1>2
  <2>2. Place(len, o) = x
    BY <1>2, <1>3, <1>5, <2>1 DEF Place
  <2>3. x \in Nat /\ x < 4 * j /\ x < len /\ x % 4 = 3 - r
    BY <1>1, <1>2, <1>5
  <2> HIDE DEF x
  <2>4. Place(len, x) = x + 3 - 2 * (3 - r)
    BY <1>3, <2>3 DEF Place
  <2>5. Place(len, x) = o
    BY <1>2, <2>4 DEF x
  <2> QED BY <2>2, <2>3, <2>5
<1> QED BY <1>1, <1>4, <1>5

\* What a file is made of.
LEMMA FileParts ==
  ASSUME NEW f, IsFile(f)
  PROVE  /\ f.size \in Nat /\ f.size > 0 /\ f.fill \in 0 .. 255
         /\ f = [size |-> f.size, fill |-> f.fill, at |-> f.at]
         /\ f.at = [o \in DOMAIN f.at |-> f.at[o]]
         /\ \A o \in DOMAIN f.at : /\ o \in Nat /\ o < f.size
                                   /\ f.at[o] \in 0 .. 255
<1> DEFINE Values == 0 .. 255
<1>1. /\ f \in [size : Nat \ {0}, fill : Values, at : [DOMAIN f.at -> Values]]
      /\ DOMAIN f.at \subseteq 0 .. f.size - 1
  BY DEF IsFile
<1> HIDE DEF Values
<1>2. /\ f.size \in Nat /\ f.size > 0 /\ f.fill \in Values
      /\ f.at \in [DOMAIN f.at -> Values]
  BY <1>1
<1>3. f = [size |-> f.size, fill |-> f.fill, at |-> f.at]
  BY <1>1
<1>4. \A o \in DOMAIN f.at : o \in Nat /\ o < f.size /\ f.at[o] \in Values
  BY <1>1, <1>2
<1> QED BY <1>2, <1>3, <1>4 DEF Values

LEMMA Positive ==
  ASSUME NEW len \in Nat, len > 0
  PROVE  len \in Nat \ {0}
OBVIOUS

LEMMA MakeFile ==
  ASSUME NEW size \in Nat, size > 0, NEW fill \in 0 .. 255,
         NEW S, NEW at \in [S -> 0 .. 255],
         \A o \in S : o \in Nat /\ o < size
  PROVE  IsFile([size |-> size, fill |-> fill, at |-> at])
<1> DEFINE Values == 0 .. 255
           f == [size |-> size, fill |-> fill, at |-> at]
<1> HIDE DEF Values
<1>1. fill \in Values /\ at \in [S -> Values]
  BY DEF Values
<1>2. S \subseteq 0 .. size - 1 /\ DOMAIN at = S
  BY <1>1
<1>3. f \in [size : Nat \ {0}, fill : Values, at : [DOMAIN f.at -> Values]]
  <2>1. f.at = at
    OBVIOUS
  <2>2. [DOMAIN f.at -> Values] = [S -> Values]
    BY <1>2, <2>1
  <2>3. size \in Nat \ {0}
    BY Positive, ZenonT(40)
  <2> QED BY <1>1, <2>2, <2>3
<1> QED BY <1>2, <1>3 DEF IsFile, Values

\* unwrap_dci makes a file of any file long enough.
LEMMA UnwrapIsFile ==
  ASSUME NEW f, IsFile(f), f.size > DCI_HDR
  PROVE  IsFile(unwrap_dci(f))
<1> DEFINE len == f.size - DCI_HDR
           behind == {q \in DOMAIN f.at : q >= DCI_HDR}
           S == {Place(len, q - DCI_HDR) : q \in behind}
           from == [o \in S |-> DCI_HDR + Place(len, o)]
           at == [o \in DOMAIN from |-> f.at[from[o]]]
<1>1. /\ f.size \in Nat /\ f.fill \in 0 .. 255
      /\ \A o \in DOMAIN f.at : /\ o \in Nat /\ o < f.size
                                /\ f.at[o] \in 0 .. 255
  BY FileParts
<1>2. len \in Nat /\ len > 0
  BY <1>1 DEF DCI_HDR
<1>3. ASSUME NEW o \in S
      PROVE  o \in Nat /\ o < len /\ DCI_HDR + Place(len, o) \in DOMAIN f.at
  <2>1. PICK q \in behind : o = Place(len, q - DCI_HDR)
    OBVIOUS
  <2>2. q \in DOMAIN f.at /\ q \in Nat /\ q < f.size /\ q >= DCI_HDR
    BY <1>1
  <2>3. q - DCI_HDR \in Nat /\ q - DCI_HDR < len
    BY <1>1, <2>2 DEF DCI_HDR
  <2> HIDE DEF len
  <2>4. o \in Nat /\ o < len /\ Place(len, o) = q - DCI_HDR
    BY <1>2, <2>1, <2>3, PlaceTwice
  <2>5. DCI_HDR + Place(len, o) = q
    BY <2>2, <2>4 DEF DCI_HDR
  <2> QED BY <2>2, <2>4, <2>5
<1> DEFINE Values == 0 .. 255
<1> HIDE DEF Values
<1>4. at \in [S -> Values]
  <2>1. DOMAIN from = S
    BY Zenon
  <2>2. ASSUME NEW o \in S PROVE f.at[from[o]] \in Values
    BY <1>1, <1>3 DEF Values
  <2> HIDE DEF S, from
  <2> QED BY <2>1, <2>2
<1>5. unwrap_dci(f) = [size |-> len, fill |-> f.fill, at |-> at]
  BY DEF unwrap_dci
<1> HIDE DEF len, S, at
<1> QED BY <1>1, <1>2, <1>3, <1>4, <1>5, MakeFile DEF Values

\* What vms_parse makes of a file is one.
LEMMA ParsedIsFile ==
  ASSUME NEW f, IsFile(f)
  PROVE  IsFile(vms_parse(f).rom)
<1>1. CASE is_dci(f)
  <2>1. f.size > DCI_HDR
    BY <1>1 DEF is_dci
  <2> QED BY <1>1, <2>1, UnwrapIsFile DEF vms_parse
<1>2. CASE ~is_dci(f)
  BY <1>2 DEF vms_parse
<1> QED BY <1>1, <1>2

\* Where a byte of an image of whole words goes in a .dci.
LEMMA DciPlaceIs ==
  ASSUME NEW len \in Nat, len % 4 = 0, NEW o \in Nat, o < len
  PROVE  DciPlace(o) = DCI_HDR + Place(len, o)
<1>1. PICK k \in Nat, r \in 0 .. 3 : o = 4 * k + r /\ o \div 4 = k /\ o % 4 = r
  <2>1. o \div 4 \in Nat /\ o % 4 \in 0 .. 3 /\ o = 4 * (o \div 4) + (o % 4)
    OBVIOUS
  <2> QED BY <2>1
<1>2. len - (len % 4) = len /\ o < len
  OBVIOUS
<1>3. Place(len, o) = o + 3 - 2 * r
  BY <1>1, <1>2 DEF Place
<1> QED BY <1>1, <1>3 DEF DciPlace, DCI_HDR

LEMMA DciPlaceOnce ==
  ASSUME NEW o \in Nat, NEW q \in Nat, DciPlace(o) = DciPlace(q)
  PROVE  o = q
<1>1. PICK k \in Nat, r \in 0 .. 3 : o = 4 * k + r /\ o \div 4 = k /\ o % 4 = r
  <2>1. o \div 4 \in Nat /\ o % 4 \in 0 .. 3 /\ o = 4 * (o \div 4) + (o % 4)
    OBVIOUS
  <2> QED BY <2>1
<1>2. PICK l \in Nat, s \in 0 .. 3 : q = 4 * l + s /\ q \div 4 = l /\ q % 4 = s
  <2>1. q \div 4 \in Nat /\ q % 4 \in 0 .. 3 /\ q = 4 * (q \div 4) + (q % 4)
    OBVIOUS
  <2> QED BY <2>1
<1>3. 4 * k + (3 - r) = 4 * l + (3 - s)
  BY <1>1, <1>2 DEF DciPlace
<1> QED BY <1>1, <1>2, <1>3

\* A .dci of an image: its directory entry, and each byte where it belongs.
LEMMA InDciParts ==
  ASSUME NEW im, IsFile(im), WholeBlocks(im), NEW type \in {DciGame, DciData}
  PROVE  LET f == InDci(im, type) IN
         /\ IsFile(f) /\ f.size = DCI_HDR + im.size /\ f.fill = im.fill
         /\ DOMAIN f.at = {0} \cup {DciPlace(q) : q \in DOMAIN im.at}
         /\ f.at[0] = type
         /\ \A q \in DOMAIN im.at : f.at[DciPlace(q)] = im.at[q]
<1> DEFINE f == InDci(im, type)
           S == {0} \cup {DciPlace(q) : q \in DOMAIN im.at}
           Origin(o) == CHOOSE q \in DOMAIN im.at : DciPlace(q) = o
           at == [o \in S |-> IF o = 0 THEN type ELSE im.at[Origin(o)]]
           Values == 0 .. 255
<1>1. f = [size |-> 32 + im.size, fill |-> im.fill, at |-> at]
  BY DEF InDci
<1>2. /\ im.size \in Nat /\ im.size > 0 /\ im.fill \in Values
      /\ \A o \in DOMAIN im.at : /\ o \in Nat /\ o < im.size
                                 /\ im.at[o] \in Values
  BY FileParts
<1>3. type \in Values
  BY DEF DciGame, DciData
<1> HIDE DEF Values
<1>4. im.size % 4 = 0
  BY <1>2 DEF WholeBlocks, BlockSize
<1>5. ASSUME NEW q \in DOMAIN im.at
      PROVE  /\ DciPlace(q) \in Nat /\ DciPlace(q) < 32 + im.size
             /\ DciPlace(q) # 0 /\ Origin(DciPlace(q)) = q
  <2>1. q \in Nat /\ q < im.size
    BY <1>2
  <2>2. DciPlace(q) = DCI_HDR + Place(im.size, q)
    BY <1>2, <1>4, <2>1, DciPlaceIs
  <2>3. Place(im.size, q) \in Nat /\ Place(im.size, q) < im.size
    BY <1>2, <2>1, PlaceTwice
  <2>4. \A p \in DOMAIN im.at : DciPlace(p) = DciPlace(q) => p = q
    BY <1>2, <2>1, DciPlaceOnce
  <2>5. Origin(DciPlace(q)) = q
    BY <2>4
  <2> HIDE DEF Origin
  <2> QED BY <1>2, <2>2, <2>3, <2>5 DEF DCI_HDR
<1> HIDE DEF Origin
<1>6. at[0] = type /\ \A q \in DOMAIN im.at : at[DciPlace(q)] = im.at[q]
  BY <1>5
<1>7. at \in [S -> Values]
  <2>1. ASSUME NEW o \in S PROVE at[o] \in Values
    BY <1>2, <1>3, <1>5
  <2> HIDE DEF S
  <2>2. at = [o \in S |-> at[o]]
    OBVIOUS
  <2> HIDE DEF at
  <2> QED BY <2>1, <2>2
<1>8. \A o \in S : o \in Nat /\ o < 32 + im.size
  <2>1. 0 < 32 + im.size
    BY <1>2
  <2>2. ASSUME NEW o \in S, o # 0 PROVE o \in Nat /\ o < 32 + im.size
    <3>1. PICK q \in DOMAIN im.at : o = DciPlace(q)
      BY <2>2, ZenonT(40)
    <3> QED BY <1>5, <3>1
  <2> QED BY <2>1, <2>2
<1>9. IsFile([size |-> 32 + im.size, fill |-> im.fill, at |-> at])
  <2>1. 32 + im.size \in Nat /\ 32 + im.size > 0
    BY <1>2
  <2> HIDE DEF S, at
  <2> QED BY <1>2, <1>7, <1>8, <2>1, MakeFile DEF Values
<1>10. DOMAIN at = S
  OBVIOUS
<1> HIDE DEF at
<1>11. f.size = DCI_HDR + im.size /\ f.fill = im.fill /\ f.at = at
  BY <1>1 DEF DCI_HDR
<1> QED BY <1>1, <1>6, <1>9, <1>10, <1>11

\* Unwrapping a .dci of an image gives the image back.
LEMMA UnwrapInverts ==
  ASSUME NEW im, IsFile(im), WholeBlocks(im), NEW type \in {DciGame, DciData}
  PROVE  unwrap_dci(InDci(im, type)) = im
<1> DEFINE f == InDci(im, type)
           len == im.size
           behind == {q \in DOMAIN f.at : q >= DCI_HDR}
           S == {Place(len, q - DCI_HDR) : q \in behind}
<1>1. /\ len \in Nat /\ im = [size |-> len, fill |-> im.fill, at |-> im.at]
      /\ im.at = [o \in DOMAIN im.at |-> im.at[o]]
      /\ \A o \in DOMAIN im.at : o \in Nat /\ o < len
  BY FileParts
<1>2. /\ f.size = DCI_HDR + len /\ f.fill = im.fill
      /\ DOMAIN f.at = {0} \cup {DciPlace(q) : q \in DOMAIN im.at}
      /\ \A q \in DOMAIN im.at : f.at[DciPlace(q)] = im.at[q]
  BY InDciParts
<1>3. len % 4 = 0
  BY <1>1 DEF WholeBlocks, BlockSize
<1> HIDE DEF f, len
<1>4. ASSUME NEW q \in DOMAIN im.at
      PROVE  /\ DciPlace(q) = DCI_HDR + Place(len, q) /\ Place(len, q) \in Nat
             /\ DciPlace(q) - DCI_HDR = Place(len, q)
             /\ Place(len, Place(len, q)) = q
             /\ DciPlace(q) \in behind
  <2>1. q \in Nat /\ q < len
    BY <1>1
  <2>2. DciPlace(q) = DCI_HDR + Place(len, q)
    BY <1>1, <1>3, <2>1, DciPlaceIs
  <2>3. Place(len, q) \in Nat /\ Place(len, Place(len, q)) = q
    BY <1>1, <2>1, PlaceTwice
  <2>4. DciPlace(q) >= DCI_HDR /\ DciPlace(q) - DCI_HDR = Place(len, q)
    BY <2>2, <2>3 DEF DCI_HDR
  <2>5. DciPlace(q) \in DOMAIN f.at
    BY <1>2
  <2> QED BY <2>2, <2>3, <2>4, <2>5
<1>5. \A q \in behind : \E p \in DOMAIN im.at : q = DciPlace(p)
  <2>1. ~(0 >= DCI_HDR)
    BY DEF DCI_HDR
  <2> QED BY <1>2, <2>1
<1>6. S = DOMAIN im.at
  <2>1. ASSUME NEW o \in S PROVE o \in DOMAIN im.at
    <3>1. PICK q \in behind : o = Place(len, q - DCI_HDR)
      OBVIOUS
    <3>2. PICK p \in DOMAIN im.at : q = DciPlace(p)
      BY <1>5
    <3> QED BY <1>4, <3>1, <3>2
  <2>2. ASSUME NEW o \in DOMAIN im.at PROVE o \in S
    <3>1. DciPlace(o) \in behind /\ o = Place(len, DciPlace(o) - DCI_HDR)
      BY <1>4
    <3> HIDE DEF behind
    <3> QED BY <3>1
  <2> HIDE DEF S
  <2> QED BY <2>1, <2>2
<1> DEFINE from == [o \in S |-> DCI_HDR + Place(len, o)]
           at == [o \in DOMAIN from |-> f.at[from[o]]]
<1>7. at = im.at
  <2> HIDE DEF S
  <2>1. DOMAIN from = DOMAIN im.at
    BY <1>6
  <2>2. ASSUME NEW o \in DOMAIN im.at PROVE f.at[from[o]] = im.at[o]
    <3>1. from[o] = DciPlace(o)
      BY <1>4, <1>6
    <3> QED BY <1>2, <3>1
  <2> HIDE DEF from
  <2>3. at = [o \in DOMAIN im.at |-> im.at[o]]
    BY <2>1, <2>2
  <2> QED BY <1>1, <2>3
<1>8. unwrap_dci(f) = [size |-> len, fill |-> im.fill, at |-> at]
  <2>1. f.size - DCI_HDR = len
    BY <1>1, <1>2 DEF DCI_HDR
  <2>2. unwrap_dci(f) = [size |-> len, fill |-> f.fill, at |-> at]
    BY <2>1 DEF unwrap_dci
  <2> QED BY <1>2, <2>2
<1> HIDE DEF at
<1> QED BY <1>1, <1>7, <1>8 DEF f

\* An image of whole blocks is no .dci, and its .dci is one.
LEMMA WholeIsNoDci ==
  ASSUME NEW im, IsFile(im), WholeBlocks(im)
  PROVE  ~is_dci(im)
<1>1. PICK k \in Nat : im.size = 512 * k
  <2>1. im.size \in Nat /\ im.size % 512 = 0
    BY FileParts DEF WholeBlocks, BlockSize
  <2>2. im.size \div 512 \in Nat /\ im.size = 512 * (im.size \div 512)
    BY <2>1
  <2> QED BY <2>2
<1>2. (im.size - 32) % 512 = 480
  <2>1. im.size - 32 = 512 * (k - 1) + 480 /\ k - 1 \in Int
    BY <1>1
  <2> QED BY <2>1
<1> QED BY <1>2 DEF is_dci, DCI_HDR, BlockSize

LEMMA DciIsDci ==
  ASSUME NEW im, IsFile(im), WholeBlocks(im), NEW type \in {DciGame, DciData}
  PROVE  is_dci(InDci(im, type))
<1> DEFINE f == InDci(im, type)
<1>1. /\ f.size = DCI_HDR + im.size
      /\ DOMAIN f.at = {0} \cup {DciPlace(q) : q \in DOMAIN im.at}
      /\ f.at[0] = type
  BY InDciParts
<1>2. im.size \in Nat /\ im.size > 0
  BY FileParts
<1> HIDE DEF f
<1>3. Byte(f, 0) = type
  BY <1>1 DEF Byte
<1>4. f.size > DCI_HDR /\ f.size - DCI_HDR = im.size
  BY <1>1, <1>2 DEF DCI_HDR
<1>5. is_dci(f)
  BY <1>3, <1>4 DEF is_dci, WholeBlocks
<1> QED BY <1>5 DEF f

\* What vms_parse makes of an image of whole blocks, in whichever container.
LEMMA ParsedImage ==
  ASSUME NEW im, IsFile(im), WholeBlocks(im), NEW f \in Files(im)
  PROVE  vms_parse(f) = [kind |-> Kind(im), rom |-> im]
<1>1. CASE f = im
  BY <1>1, WholeIsNoDci DEF vms_parse
<1>2. CASE f # im
  <2>1. PICK type \in {DciGame, DciData} : f = InDci(im, type)
    BY <1>2 DEF Files
  <2>2. is_dci(f) /\ unwrap_dci(f) = im
    BY <2>1, DciIsDci, UnwrapInverts
  <2> QED BY <2>2 DEF vms_parse
<1> QED BY <1>1, <1>2

LEMMA FilesAreFiles ==
  ASSUME NEW im \in Images, NEW f \in Files(im)
  PROVE  IsFile(im) /\ IsFile(f)
<1>1. IsFile(im)
  BY LoadingConstants
<1>2. CASE f # im
  <2>1. WholeBlocks(im) /\ \E type \in {DciGame, DciData} : f = InDci(im, type)
    BY <1>2 DEF Files
  <2> QED BY <1>1, <2>1, InDciParts
<1> QED BY <1>1, <1>2

-----------------------------------------------------------------------------
(* Encoding what was decoded.                                               *)

LEMMA DecodedParts ==
  ASSUME NEW b, NEW b1, NEW b2, NEW p
  PROVE  LET in == Decoded(b, b1, b2, p)
             mode == classify(b).mode
         IN /\ in.op = classify(b).op /\ in.mode = mode /\ in.pc = p
            /\ in.len = mode_len(mode) /\ in.b3 = b % 8 /\ in.ri = b % 4
            /\ in.d9 = DirectAddress(mode, b, b1)
            /\ in.i8 = ImmediateByte(mode, b1, b2)
            /\ in.target = Target(mode, b, b1, b2, Next16(in))
BY DEF Decoded, Next16

\* A 9-bit address gives its ninth bit and its byte back.
LEMMA DirectBack ==
  ASSUME NEW b \in Nat, NEW b1 \in Nat, b1 < 256,
         NEW mode \in {"d9", "d9_b3", "d9_b3_r8", "d9_r8", "d9_i8"}
  PROVE  LET d9 == DirectAddress(mode, b, b1) IN
         /\ d9 \div 256 = IF BitColumn(b) THEN Bit(b, 4) ELSE Bit(b, 0)
         /\ Low(d9) = b1
<1>1. D8(b) \in 0 .. 1 /\ D8(b) = IF BitColumn(b) THEN Bit(b, 4) ELSE Bit(b, 0)
  BY BitType DEF D8
<1> DEFINE d9 == D8(b) * 256 + b1
<1>2. d9 \div 256 = D8(b) /\ d9 % 256 = b1
  BY <1>1, SMT
<1>3. DirectAddress(mode, b, b1) = d9
  BY DEF DirectAddress
<1> HIDE DEF d9
<1> QED BY <1>1, <1>2, <1>3 DEF Low

\* So does a 12-bit address, whatever its segment.
LEMMA AbsoluteBack ==
  ASSUME NEW b \in Nat, NEW b1 \in Nat, NEW b2, NEW next \in Nat, b1 < 256
  PROVE  LET t == Target("a12", b, b1, b2, next) IN
         Bit(t, 11) = Bit(b, 4) /\ (t \div 256) % 8 = b % 8 /\ Low(t) = b1
<1> DEFINE k == next \div 4096
           w == b % 8
           t == 4096 * k + Bit(b, 4) * 2048 + w * 256 + b1
<1>1. k \in Nat /\ next - (next % 4096) = 4096 * k
  BY SMT
<1>2. w \in 0 .. 7 /\ Bit(b, 4) \in 0 .. 1
  BY BitType
<1>3. Target("a12", b, b1, b2, next) = t
  BY <1>1 DEF Target
<1> HIDE DEF k, w
<1> DEFINE u == 2 * k + Bit(b, 4)
           v == w * 256 + b1
           x == 8 * u + w
<1>4. t \div 2048 = u
  <2>1. u \in Nat /\ v \in 0 .. 2047 /\ t = 2048 * u + v
    BY <1>1, <1>2, SMT
  <2> HIDE DEF t, u, v
  <2> QED BY <2>1, SMT
<1>5. t \div 256 = x
  <2>1. x \in Nat /\ t = 256 * x + b1
    BY <1>1, <1>2, SMT
  <2> HIDE DEF t, x
  <2> QED BY <2>1, SMT
<1>6. t % 256 = b1
  BY <1>1, <1>2, SMT
<1> HIDE DEF t
<1>7. Bit(t, 11) = Bit(b, 4)
  <2>1. Bit(t, 11) = (t \div 2048) % 2
    BY 2^11 = 2048 DEF Bit
  <2> QED BY <1>1, <1>2, <1>4, <2>1
<1>8. (t \div 256) % 8 = w
  BY <1>1, <1>2, <1>5
<1> QED BY <1>3, <1>6, <1>7, <1>8 DEF Low, w

\* Distances between addresses, and back, are modulo 64 KB.
LEMMA DistanceBack ==
  ASSUME NEW x \in Int, NEW d \in Int
  PROVE  U16(U16(x + d) - x) = U16(d) /\ U16(x - U16(x + d)) = U16(0 - d)
<1> DEFINE N == 65536
           q == (x + d) \div N
<1>1. q \in Int /\ (x + d) % N = x + d - N * q
  BY SMT
<1> HIDE DEF q
<1>2. (d - N * q) % N = d % N
  BY <1>1, SMT
<1>3. (N * q - d) % N = (0 - d) % N
  BY <1>1, SMT
<1>4. U16(x + d) - x = d - N * q /\ x - U16(x + d) = N * q - d
  BY <1>1, SMT DEF U16
<1> QED BY <1>2, <1>3, <1>4, SMT DEF U16

\* The distance of a short branch is its byte, that of a long one its two.
LEMMA ShortBack ==
  ASSUME NEW in, NEW b \in Nat, b < 256, NEW next \in Nat,
         Next16(in) = next, in.target = U16(next + Signed(b))
  PROVE  Short(in) = b
<1> DEFINE d == Signed(b)
<1>1. d \in Int /\ d = IF b < 128 THEN b ELSE b - 256
  BY SignedType DEF Signed
<1>2. in.target = U16(next + d) /\ next \in Int
  OBVIOUS
<1> HIDE DEF d
<1>3. /\ U16(in.target - Next16(in)) = U16(d)
      /\ U16(Next16(in) - in.target) = U16(0 - d)
  <2>1. d \in Int /\ next \in Int
    BY <1>1
  <2>2. /\ U16(U16(next + d) - next) = U16(d)
        /\ U16(next - U16(next + d)) = U16(0 - d)
    BY ONLY <2>1, DistanceBack, Zenon
  <2> QED BY <1>2, <2>2
<1>4. CASE b < 128
  <2>1. U16(d) = b
    BY <1>1, <1>4, SMT DEF U16
  <2> QED BY <1>3, <1>4, <2>1 DEF Short
<1>5. CASE ~(b < 128)
  <2>1. ~(U16(d) < 128)
    BY <1>1, <1>5, SMT DEF U16
  <2>2. U16(0 - d) = 256 - b
    BY <1>1, <1>5, SMT DEF U16
  <2>3. 256 - b <= 128 /\ 256 - (256 - b) = b
    BY <1>5
  <2> QED BY <1>3, <2>1, <2>2, <2>3 DEF Short
<1> QED BY <1>4, <1>5

LEMMA LongBack ==
  ASSUME NEW in, NEW b1 \in Nat, NEW b2 \in Nat, b1 < 256, b2 < 256, NEW next \in Nat,
         Next16(in) = next, in.target = U16(next - 1 + b2 * 256 + b1)
  PROVE  Low(Long(in)) = b1 /\ Long(in) \div 256 = b2
<1> DEFINE w == b2 * 256 + b1
           x == next - 1
<1>1. w \in Nat /\ w < 65536 /\ x \in Int
  BY SMT
<1>2. next - 1 + b2 * 256 + b1 = x + w
  OBVIOUS
<1>3. w % 256 = b1 /\ w \div 256 = b2
  BY SMT
<1> HIDE DEF w, x
<1>4. in.target = U16(x + w)
  BY <1>2
<1>5. Long(in) = U16(in.target - x)
  BY DEF Long, x
<1>6. Long(in) = w
  BY <1>1, <1>4, <1>5, DistanceBack, U16Same
<1> QED BY <1>3, <1>6 DEF Low

\* Every instruction has a number.
LEMMA FormOpcode ==
  ASSUME NEW b, NEW op, NEW mode, Form(b, op, mode), op # "invalid"
  PROVE  OpcodeOf[op] \in Nat
<1> USE DEF OpcodeOf
<1>1. CASE AloneForm(b, op, mode)
  <2>1. CASE op \in Alone
    BY <2>1 DEF Alone
  <2>2. CASE op \in {"br", "bz", "bnz", "callr", "brf", "callf", "jmpf"}
    BY <2>2
  <2> QED BY <1>1, <2>1, <2>2 DEF AloneForm
<1>2. CASE BitForm(b, op, mode)
  <2>1. CASE op \in {"call", "jmp", "bpc", "bp", "bn", "not1", "clr1", "set1"}
    BY <2>1
  <2> QED BY <1>2, <2>1 DEF BitForm
<1>3. CASE op \in Row \cup {"push", "pop"}
  BY <1>3 DEF Row
<1> QED BY <1>1, <1>2, <1>3
        DEF Form, Row, ImmediateForm, StackForm, DirectForm, IndirectForm

\* The first byte.
LEMMA OpcodeBack ==
  ASSUME NEW b \in Nat, NEW b1 \in Nat, NEW b2 \in Nat, NEW p \in Nat,
         b < 256, b1 < 256, b2 < 256, classify(b).op # "invalid"
  PROVE  LET in == Decoded(b, b1, b2, p) IN OpcodeOf[in.op] + OpcodeBits(in) = b
<1> DEFINE in == Decoded(b, b1, b2, p)
           op == classify(b).op
           mode == classify(b).mode
<1>1. /\ in.op = op /\ in.mode = mode /\ in.b3 = b % 8 /\ in.ri = b % 4
      /\ in.d9 = DirectAddress(mode, b, b1)
      /\ in.target = Target(mode, b, b1, b2, Next16(in))
      /\ in.pc = p /\ in.len = mode_len(mode)
  BY DecodedParts
<1> SUFFICES OpcodeOf[in.op] + OpcodeBits(in) = b
  OBVIOUS
<1> HIDE DEF in
<1>2. Form(b, op, mode) /\ op # "invalid" /\ OpcodeOf[op] \in Nat
  BY ClassifyForm, FormOpcode
<1> HIDE DEF op, mode
<1>3. CASE AloneForm(b, op, mode)
  <2>1. b = OpcodeOf[op] /\ op \notin {"push", "pop"} /\ mode \in {"none", "r8", "r16", "a16"}
    BY <1>2, <1>3 DEF AloneForm, Alone
  <2>2. OpcodeBits(in) = 0
    BY <1>1, <2>1 DEF OpcodeBits
  <2> QED BY <1>1, <1>2, <2>1, <2>2, BitType
<1>4. CASE BitForm(b, op, mode)
  <2>1. /\ b = OpcodeOf[op] + 16 * Bit(b, 4) + (b % 8) /\ BitColumn(b)
        /\ op \notin {"push", "pop"} /\ mode \in {"a12", "d9_b3_r8", "d9_b3"}
    BY <1>4 DEF BitForm
  <2>2. CASE mode = "a12"
    <3>1. OpcodeBits(in) = 16 * Bit(in.target, 11) + ((in.target \div 256) % 8)
      BY <1>1, <2>1, <2>2 DEF OpcodeBits
    <3>2. Next16(in) \in Nat
      BY <1>1, <2>2, U16Type DEF Next16, mode_len
    <3>3. Bit(in.target, 11) = Bit(b, 4) /\ (in.target \div 256) % 8 = b % 8
      BY <1>1, <2>2, <3>2, AbsoluteBack
    <3> QED BY <1>1, <1>2, <2>1, <3>1, <3>3, BitType
  <2>3. CASE mode # "a12"
    <3>1. OpcodeBits(in) = 16 * (in.d9 \div 256) + in.b3
      BY <1>1, <2>1, <2>3 DEF OpcodeBits
    <3>2. in.d9 \div 256 = Bit(b, 4)
      BY <1>1, <2>1, <2>3, DirectBack
    <3> QED BY <1>1, <1>2, <2>1, <3>1, <3>2, BitType
  <2> QED BY <2>2, <2>3
<1>5. CASE ImmediateForm(b, op, mode)
  <2>1. b = OpcodeOf[op] + 1 /\ op \notin {"push", "pop"} /\ mode \in {"i8", "i8_r8"}
    BY <1>5 DEF ImmediateForm
  <2>2. OpcodeBits(in) = 1
    BY <1>1, <2>1 DEF OpcodeBits
  <2> QED BY <1>1, <1>2, <2>1, <2>2, BitType
<1>6. CASE StackForm(b, op, mode)
  <2>1. /\ b = OpcodeOf[op] + Bit(b, 0) /\ ~BitColumn(b)
        /\ op \in {"push", "pop"} /\ mode = "d9"
    BY <1>6 DEF StackForm
  <2>2. in.d9 \div 256 = Bit(b, 0)
    BY <1>1, <2>1, DirectBack
  <2>3. OpcodeBits(in) = Bit(b, 0)
    BY <1>1, <2>1, <2>2, BitType DEF OpcodeBits
  <2> QED BY <1>1, <1>2, <2>1, <2>2, <2>3, BitType
<1>7. CASE DirectForm(b, op, mode)
  <2>1. /\ b = OpcodeOf[op] + 2 + Bit(b, 0) /\ ~BitColumn(b)
        /\ op \notin {"push", "pop"} /\ mode \in {"d9", "d9_r8", "d9_i8"}
    BY <1>7 DEF DirectForm, Row
  <2>2. in.d9 \div 256 = Bit(b, 0)
    BY <1>1, <2>1, DirectBack
  <2>3. OpcodeBits(in) = Bit(b, 0) + 2
    BY <1>1, <2>1, <2>2 DEF OpcodeBits
  <2> QED BY <1>1, <1>2, <2>1, <2>2, <2>3, BitType
<1>8. CASE IndirectForm(b, op, mode)
  <2>1. /\ b = OpcodeOf[op] + 4 + (b % 4) /\ op \notin {"push", "pop"}
        /\ mode \in {"ind", "ind_r8", "ind_i8", "ind_i8_r8"}
    BY <1>8 DEF IndirectForm, Row
  <2>2. OpcodeBits(in) = 4 + (b % 4)
    BY <1>1, <2>1 DEF OpcodeBits
  <2> QED BY <1>1, <1>2, <2>1, <2>2, BitType
<1> QED BY <1>2, <1>3, <1>4, <1>5, <1>6, <1>7, <1>8 DEF Form

\* The others.
LEMMA OperandsBack ==
  ASSUME NEW b \in Nat, NEW b1 \in Nat, NEW b2 \in Nat, NEW p \in Nat,
         b < 256, b1 < 256, b2 < 256
  PROVE  LET in == Decoded(b, b1, b2, p) IN
         \/ in.len = 1 /\ OperandBytes(in) = <<>>
         \/ in.len = 2 /\ OperandBytes(in) = <<b1>>
         \/ in.len = 3 /\ OperandBytes(in) = <<b1, b2>>
<1> DEFINE in == Decoded(b, b1, b2, p)
           op == classify(b).op
           mode == classify(b).mode
           next == Next16(in)
           Back == \/ in.len = 1 /\ OperandBytes(in) = <<>>
                   \/ in.len = 2 /\ OperandBytes(in) = <<b1>>
                   \/ in.len = 3 /\ OperandBytes(in) = <<b1, b2>>
<1>1. /\ in.mode = mode /\ in.pc = p /\ in.len = mode_len(mode)
      /\ in.d9 = DirectAddress(mode, b, b1)
      /\ in.i8 = ImmediateByte(mode, b1, b2)
      /\ in.target = Target(mode, b, b1, b2, next)
  BY DecodedParts
<1>2. Form(b, op, mode)
  BY ClassifyForm
<1> SUFFICES Back
  OBVIOUS
<1> HIDE DEF in, op, mode
<1>3. next \in Nat
  <2>1. mode_len(mode) \in Int
    BY <1>2, FormFlow
  <2> QED BY <1>1, <2>1, U16Type DEF Next16
<1> HIDE DEF next
<1>4. CASE mode \in {"none", "ind"}
  BY <1>1, <1>4 DEF OperandBytes, mode_len
<1>5. CASE mode \in {"i8", "ind_i8"}
  BY <1>1, <1>5 DEF OperandBytes, mode_len, ImmediateByte
<1>6. CASE mode \in {"d9", "d9_b3"}
  <2>1. Low(in.d9) = b1
    BY <1>1, <1>6, DirectBack
  <2> QED BY <1>1, <1>6, <2>1 DEF OperandBytes, mode_len
<1>7. CASE mode = "a12"
  <2>1. Low(in.target) = b1
    BY <1>1, <1>3, <1>7, AbsoluteBack
  <2> QED BY <1>1, <1>7, <2>1 DEF OperandBytes, mode_len
<1>8. CASE mode = "a16"
  <2>1. in.target = b1 * 256 + b2
    BY <1>1, <1>8 DEF Target
  <2>2. in.target \div 256 = b1 /\ Low(in.target) = b2
    BY <2>1, SMT DEF Low
  <2> QED BY <1>1, <1>8, <2>2 DEF OperandBytes, mode_len
<1>9. CASE mode = "r16"
  <2>1. in.target = U16(next - 1 + b2 * 256 + b1)
    BY <1>1, <1>9 DEF Target
  <2>2. Low(Long(in)) = b1 /\ Long(in) \div 256 = b2
    BY <1>3, <2>1, LongBack DEF next
  <2> QED BY <1>1, <1>9, <2>2 DEF OperandBytes, mode_len
<1>10. CASE mode \in {"r8", "ind_r8"}
  <2>1. in.target = U16(next + Signed(b1))
    BY <1>1, <1>10 DEF Target
  <2>2. Short(in) = b1
    BY <1>3, <2>1, ShortBack DEF next
  <2> QED BY <1>1, <1>10, <2>2 DEF OperandBytes, mode_len
<1>11. CASE mode \in {"d9_r8", "d9_b3_r8", "i8_r8", "ind_i8_r8"}
  <2>1. in.target = U16(next + Signed(b2))
    BY <1>1, <1>11 DEF Target
  <2>2. Short(in) = b2
    BY <1>3, <2>1, ShortBack DEF next
  <2>3. CASE mode \in {"d9_r8", "d9_b3_r8"}
    <3>1. Low(in.d9) = b1
      BY <1>1, <2>3, DirectBack
    <3> QED BY <1>1, <2>2, <2>3, <3>1 DEF OperandBytes, mode_len
  <2>4. CASE mode \in {"i8_r8", "ind_i8_r8"}
    BY <1>1, <2>2, <2>4 DEF OperandBytes, mode_len, ImmediateByte
  <2> QED BY <1>11, <2>3, <2>4
<1>12. CASE mode = "d9_i8"
  <2>1. Low(in.d9) = b1
    BY <1>1, <1>12, DirectBack
  <2> QED BY <1>1, <1>12, <2>1 DEF OperandBytes, mode_len, ImmediateByte
<1>13. mode \in {"none", "ind", "i8", "ind_i8", "d9", "d9_b3", "a12", "a16", "r16",
                "r8", "ind_r8", "d9_r8", "d9_b3_r8", "i8_r8", "ind_i8_r8", "d9_i8"}
  BY <1>2 DEF Form, AloneForm, BitForm, ImmediateForm, StackForm, DirectForm,
              IndirectForm
<1> QED BY <1>4, <1>5, <1>6, <1>7, <1>8, <1>9, <1>10, <1>11, <1>12, <1>13

\* Of undefined opcodes there are two.
LEMMA Undefined ==
  ASSUME NEW b \in Nat, b < 256, classify(b).op = "invalid"
  PROVE  b \in {80, 81}
<1>1. Form(b, "invalid", classify(b).mode)
  BY ClassifyForm
<1>2. "invalid" \notin Alone /\ "invalid" \notin Row
  BY DEF Alone, Row
<1> QED BY <1>1, <1>2 DEF Form, AloneForm, BitForm, ImmediateForm, StackForm,
                          DirectForm, IndirectForm

\* A byte in front of none, one or two.
LEMMA Bytes1 ==
  ASSUME NEW b
  PROVE  <<b>> \o <<>> = <<b>>
OBVIOUS

LEMMA Bytes2 ==
  ASSUME NEW b, NEW b1
  PROVE  <<b>> \o <<b1>> = <<b, b1>>
<1> DEFINE s == <<b>> \o <<b1>>
<1>1. <<b>> \in Seq({b, b1}) /\ <<b1>> \in Seq({b, b1})
  OBVIOUS
<1>2. s \in Seq({b, b1}) /\ Len(s) = 2 /\ s[1] = b /\ s[2] = b1
  BY <1>1, ConcatProperties
<1> HIDE DEF s
<1>3. s = [i \in 1 .. 2 |-> s[i]]
  BY <1>2
<1>4. <<b, b1>> = [i \in 1 .. 2 |-> s[i]]
  BY <1>2
<1> QED BY <1>3, <1>4 DEF s

LEMMA Bytes3 ==
  ASSUME NEW b, NEW b1, NEW b2
  PROVE  <<b>> \o <<b1, b2>> = <<b, b1, b2>>
<1> DEFINE s == <<b>> \o <<b1, b2>>
<1>1. <<b>> \in Seq({b, b1, b2}) /\ <<b1, b2>> \in Seq({b, b1, b2})
  OBVIOUS
<1>2. /\ s \in Seq({b, b1, b2}) /\ Len(s) = 3
      /\ s[1] = b /\ s[2] = b1 /\ s[3] = b2
  BY <1>1, ConcatProperties
<1> HIDE DEF s
<1>3. s = [i \in 1 .. 3 |-> s[i]]
  BY <1>2
<1>4. <<b, b1, b2>> = [i \in 1 .. 3 |-> s[i]]
  BY <1>2
<1> QED BY <1>3, <1>4 DEF s

\* What vmu_decode makes of bytes is assembled to them.
LEMMA DecodeReassembles ==
  ASSUME NEW rom, IsFile(rom), NEW p \in Nat, p < rom.size
  PROVE  LET in == vmu_decode(rom, p) IN
         /\ in.op = "invalid" =>
              Byte(rom, p) \in {80, 81} \/ p + 3 > rom.size
         /\ in.op # "invalid" =>
              Assembled(in) = [i \in 1 .. in.len |-> Byte(rom, p + i - 1)]
<1> DEFINE b == Byte(rom, p)
           b1 == Byte(rom, p + 1)
           b2 == Byte(rom, p + 2)
           mode == classify(b).mode
           in == vmu_decode(rom, p)
           bytes == [i \in 1 .. in.len |-> Byte(rom, p + i - 1)]
<1>1. /\ b \in Nat /\ b < 256 /\ b1 \in Nat /\ b1 < 256
      /\ b2 \in Nat /\ b2 < 256
  BY ByteType
<1>2. CASE ~Fits(b, rom, p)
  <2>1. in.op = "invalid"
    BY <1>2 DEF vmu_decode, Truncated
  <2>2. mode_len(mode) \in 1 .. 3
    BY <1>1, ClassifyForm, FormFlow
  <2>3. p + 3 > rom.size
    <3>1. ~(p + mode_len(mode) <= rom.size)
      BY <1>2 DEF Fits
    <3>2. rom.size \in Nat
      BY FileParts
    <3> HIDE DEF mode
    <3> QED BY <2>2, <3>1, <3>2
  <2> QED BY <2>1, <2>3
<1>3. CASE Fits(b, rom, p) /\ classify(b).op = "invalid"
  <2>1. in.op = "invalid"
    BY <1>3, DecodedParts DEF vmu_decode
  <2>2. b \in {80, 81}
    BY <1>1, <1>3, Undefined
  <2> QED BY <2>1, <2>2
<1>4. CASE Fits(b, rom, p) /\ classify(b).op # "invalid"
  <2>1. in = Decoded(b, b1, b2, p)
    BY <1>4 DEF vmu_decode
  <2>2. in.op = classify(b).op
    BY <2>1, DecodedParts
  <2>3. OpcodeOf[in.op] + OpcodeBits(in) = b
    <3> HIDE DEF b, b1, b2, in
    <3> QED BY <1>1, <1>4, <2>1, OpcodeBack
  <2>4. \/ in.len = 1 /\ OperandBytes(in) = <<>>
        \/ in.len = 2 /\ OperandBytes(in) = <<b1>>
        \/ in.len = 3 /\ OperandBytes(in) = <<b1, b2>>
    <3> HIDE DEF b, b1, b2, in
    <3> QED BY <1>1, <2>1, OperandsBack
  <2>5. Assembled(in) = <<b>> \o OperandBytes(in)
    BY <2>3 DEF Assembled
  <2>6. /\ Byte(rom, p + 1 - 1) = b /\ Byte(rom, p + 2 - 1) = b1
        /\ Byte(rom, p + 3 - 1) = b2
    <3>1. p + 1 - 1 = p /\ p + 2 - 1 = p + 1 /\ p + 3 - 1 = p + 2
      OBVIOUS
    <3> QED BY <3>1
  <2>7. Assembled(in) = bytes
    <3> HIDE DEF b, b1, b2, in
    <3>1. CASE in.len = 1 /\ OperandBytes(in) = <<>>
      <4>1. <<b>> = [i \in 1 .. 1 |-> Byte(rom, p + i - 1)]
        BY <2>6
      <4>2. <<b>> \o OperandBytes(in) = <<b>>
        BY <3>1, Bytes1
      <4>3. bytes = [i \in 1 .. 1 |-> Byte(rom, p + i - 1)]
        BY <3>1
      <4> HIDE DEF bytes
      <4> QED BY <2>5, <4>1, <4>2, <4>3
    <3>2. CASE in.len = 2 /\ OperandBytes(in) = <<b1>>
      <4>1. <<b, b1>> = [i \in 1 .. 2 |-> Byte(rom, p + i - 1)]
        BY <2>6
      <4>2. <<b>> \o OperandBytes(in) = <<b, b1>>
        BY <3>2, Bytes2
      <4>3. bytes = [i \in 1 .. 2 |-> Byte(rom, p + i - 1)]
        BY <3>2
      <4> HIDE DEF bytes
      <4> QED BY <2>5, <4>1, <4>2, <4>3
    <3>3. CASE in.len = 3 /\ OperandBytes(in) = <<b1, b2>>
      <4>1. <<b, b1, b2>> = [i \in 1 .. 3 |-> Byte(rom, p + i - 1)]
        BY <2>6
      <4>2. <<b>> \o OperandBytes(in) = <<b, b1, b2>>
        BY <3>3, Bytes3
      <4>3. bytes = [i \in 1 .. 3 |-> Byte(rom, p + i - 1)]
        BY <3>3
      <4> HIDE DEF bytes
      <4> QED BY <2>5, <4>1, <4>2, <4>3
    <3> QED BY <2>4, <3>1, <3>2, <3>3
  <2> QED BY <1>4, <2>2, <2>7
<1> QED BY <1>2, <1>3, <1>4

-----------------------------------------------------------------------------
(* The tools' states.                                                       *)

\* What is listed is what the image has there; and the image is the file's.
ListedInsn ==
  /\ info = vms_parse(file)
  /\ insn.pc \in Nat /\ insn.pc < 65536 /\ insn.pc < info.rom.size
  /\ insn = vmu_decode(info.rom, insn.pc)

IInv ==
  /\ image \in Images /\ file \in Files(image)
  /\ pc \in Nat
  /\ phase = "start" => info = None /\ insn = None
  /\ phase \notin {"start", "rejected"} => info = vms_parse(file)
  /\ info \in {None, vms_parse(file)}
  /\ insn = None \/ ListedInsn

LEMMA InitIInv == Init => IInv
BY DEF Init, IInv

\* Where a listing starts and gets to is a number.
LEMMA StartType ==
  ASSUME IInv
  PROVE  /\ \A start \in DOMAIN image.at : start \in Nat
         /\ IsFile(image) /\ IsFile(file) /\ IsFile(vms_parse(file).rom)
<1>1. IsFile(image) /\ IsFile(file)
  BY FilesAreFiles DEF IInv
<1> QED BY <1>1, FileParts, ParsedIsFile

LEMMA NextIInv == IInv /\ [Next]_vars => IInv'
<1> SUFFICES ASSUME IInv, [Next]_vars
             PROVE  IInv'
  OBVIOUS
<1>1. CASE Parse
  BY <1>1 DEF Parse, IInv
<1>2. CASE NoMemory
  BY <1>2 DEF NoMemory, IInv
<1>3. CASE Recomp
  BY <1>3 DEF Recomp, IInv, ListedInsn
<1>4. CASE Interpret
  BY <1>4 DEF Interpret, IInv, ListedInsn
<1>5. CASE Host
  BY <1>5 DEF Host, IInv, ListedInsn
<1>6. CASE \E start \in DOMAIN image.at, many \in Counts : Dis(start, many)
  <2>1. PICK start \in DOMAIN image.at, many \in Counts : Dis(start, many)
    BY <1>6
  <2>2. pc' \in Nat
    BY <2>1, StartType DEF Dis
  <2> QED BY <2>1, <2>2 DEF Dis, IInv, ListedInsn
<1>7. CASE ListInsn
  <2>1. /\ phase = "listing" /\ info = vms_parse(file)
        /\ UNCHANGED <<image, file, phase, info>>
    BY <1>7 DEF ListInsn, IInv
  <2>2. pc \in Nat /\ pc < info.rom.size
    BY <1>7 DEF ListInsn, MoreToList, IInv
  <2>3. IsFile(info.rom) /\ info.rom.size \in Nat
    BY <2>1, StartType, FileParts
  <2> DEFINE p == U16(pc)
  <2>4. p \in Nat /\ p < 65536 /\ p < info.rom.size
    <3>1. p \in Nat /\ p < 65536 /\ p <= pc
      BY <2>2, U16Type, U16Less
    <3> HIDE DEF p
    <3>2. p < info.rom.size
      BY <2>2, <2>3, <3>1
    <3> QED BY <3>1, <3>2
  <2>5. insn' = vmu_decode(info.rom, p) /\ pc' = pc + insn'.len
    BY <1>7 DEF ListInsn, Listed
  <2> HIDE DEF p
  <2>6. insn'.pc = p /\ insn'.len \in 1 .. 3
    BY <2>3, <2>4, <2>5, DecodeWell
  <2>7. pc' \in Nat
    BY <2>2, <2>5, <2>6
  <2>8. ListedInsn'
    BY <2>1, <2>4, <2>5, <2>6 DEF ListedInsn
  <2> QED BY <2>1, <2>7, <2>8 DEF IInv
<1>8. CASE ListingDone
  BY <1>8 DEF ListingDone, IInv, ListedInsn
<1>9. CASE UNCHANGED vars
  BY <1>9 DEF vars, IInv, ListedInsn
<1> QED BY <1>1, <1>2, <1>3, <1>4, <1>5, <1>6, <1>7, <1>8, <1>9 DEF Next, Step

\* An instruction is listed only of the image that the file holds, at the place
\* of it that the listing has come to (main.c, analyze_linear).
THEOREM ListedFromTheFile == Spec => []IInv
<1>1. Init => IInv
  BY InitIInv
<1>2. IInv /\ [Next]_vars => IInv'
  BY NextIInv
<1> QED BY <1>1, <1>2, PTL DEF Spec

LEMMA IInvDci == IInv => DciIsTransparent
<1> SUFFICES ASSUME IInv, info # None, WholeBlocks(image)
             PROVE  info = [kind |-> Kind(image), rom |-> image]
  BY DEF DciIsTransparent
<1>1. info = vms_parse(file) /\ file \in Files(image)
  BY DEF IInv
<1> QED BY <1>1, StartType, ParsedImage

\* The image is the same whichever container it comes in, whatever its size and
\* bytes: vms_parse (vms.c:89-93) undoes what wraps a file of whole blocks into a
\* .dci, and takes no such file for one.
THEOREM ContainersAreTransparent == Spec => []DciIsTransparent
BY ListedFromTheFile, IInvDci, PTL

LEMMA InAddr ==
  ASSUME NEW x \in Nat, x < 65536
  PROVE  x \in Graph!Addr
<1> DEFINE N == 65536
<1>1. N \in Nat /\ x < N
  BY SMT
<1> HIDE DEF N
<1>2. x \in 0 .. N - 1
  BY ONLY x \in Nat, <1>1, SMT
<1>3. Graph!Addr = 0 .. N - 1
  BY ONLY TRUE DEF Graph!Addr, N
<1> QED BY <1>2, <1>3

LEMMA IInvImage == IInv => DecodesToAnImage
<1> SUFFICES ASSUME IInv, insn # None
             PROVE  DecodesToAnImage
  BY DEF DecodesToAnImage
<1> DEFINE seen == Seen[insn.pc]
<1>1. seen = [flow |-> Flow(insn.op), len |-> insn.len, target |-> insn.target]
  BY DEF Seen
<1>2. ListedInsn /\ IsFile(info.rom)
  BY StartType DEF IInv, ListedInsn
<1>3. /\ insn.len \in 1 .. 3 /\ insn.pc + insn.len <= info.rom.size
      /\ insn.target \in Nat /\ insn.target < 65536
      /\ insn.op = "invalid" => insn.len = 1
      /\ Flow(insn.op) \in Flows
      /\ insn.has_target = (Flow(insn.op) \in Targeted)
      /\ insn.is_call = (Flow(insn.op) = "call")
      /\ insn.is_ret = (Flow(insn.op) \in Returning)
      /\ insn.ends_block = (Flow(insn.op) \in Ending)
  BY <1>2, DecodeWell DEF ListedInsn
<1> HIDE DEF seen
<1>4. seen \in Graph!Insn
  <2>1. insn.target \in Graph!Addr
    BY <1>3, InAddr
  <2>2. Flow(insn.op) \in Graph!Flow
    BY <1>3 DEF Flows, Targeted, Ending, Returning, Graph!Flow
  <2> QED BY <1>1, <1>3, <2>1, <2>2 DEF Graph!Insn
<1>5. insn.has_target = Graph!has_target(seen)
  BY <1>1, <1>3 DEF Graph!has_target, Targeted
<1>6. insn.is_call = Graph!is_call(seen)
  BY <1>1, <1>3 DEF Graph!is_call
<1>7. insn.is_ret = Graph!is_ret(seen)
  BY <1>1, <1>3 DEF Graph!is_ret, Returning
<1>8. insn.ends_block = Graph!ends_block(seen)
  BY <1>1, <1>3 DEF Graph!ends_block, Graph!is_ret, Ending, Returning
<1> QED BY <1>3, <1>4, <1>5, <1>6, <1>7, <1>8 DEF DecodesToAnImage, seen

\* Whatever the bytes, an instruction listed is what discovery takes for granted
\* of an image: inside of it, with an address for a target, and marked as a
\* branch, a call, a return or an end exactly when it is one (decode.c:250-256).
THEOREM DecodingFeedsDiscovery == Spec => []DecodesToAnImage
BY ListedFromTheFile, IInvImage, PTL

LEMMA IInvReassembles == IInv => Reassembles
<1> SUFFICES ASSUME IInv, insn # None
             PROVE  Reassembles
  BY DEF Reassembles
<1>1. ListedInsn /\ IsFile(info.rom)
  BY StartType DEF IInv, ListedInsn
<1> DEFINE bytes == [i \in 1 .. insn.len |-> Byte(info.rom, insn.pc + i - 1)]
<1>2. /\ insn.op = "invalid" =>
           Byte(info.rom, insn.pc) \in {80, 81} \/ insn.pc + 3 > info.rom.size
      /\ insn.op # "invalid" => Assembled(insn) = bytes
  BY <1>1, DecodeReassembles DEF ListedInsn
<1>3. bytes[1] = Byte(info.rom, insn.pc)
  <2>1. insn.len \in 1 .. 3 /\ insn.pc \in Nat
    BY <1>1, DecodeWell DEF ListedInsn
  <2>2. 1 \in 1 .. insn.len /\ insn.pc + 1 - 1 = insn.pc
    BY <2>1
  <2> QED BY <2>2
<1> QED BY <1>2, <1>3 DEF Reassembles

\* Whatever the bytes, an instruction listed says all they say: assembled by the
\* table at the top of decode.c it gives them back, and only 0x50, 0x51 and what
\* the end of the image cuts off is no instruction.
THEOREM DecodingLosesNothing == Spec => []Reassembles
BY ListedFromTheFile, IInvReassembles, PTL
-----------------------------------------------------------------------------
(* Why a listing ends: what is left is the bytes it has not come to.        *)

ToList ==
  IF phase # "listing" THEN 0
  ELSE 1 + (IF pc < info.rom.size THEN info.rom.size - pc ELSE 0)

LEMMA ToListType == IInv => ToList \in Nat
<1> SUFFICES ASSUME IInv, phase = "listing" PROVE ToList \in Nat
  BY DEF ToList
<1>1. pc \in Nat /\ info.rom.size \in Nat
  BY StartType, FileParts DEF IInv
<1> DEFINE size == info.rom.size
<1> HIDE DEF size
<1>2. 1 + (IF pc < size THEN size - pc ELSE 0) \in Nat
  BY <1>1 DEF size
<1> QED BY <1>2 DEF ToList, size

LEMMA ListsOn ==
  ASSUME IInv, Next, phase = "listing"
  PROVE  ToList' < ToList
<1>1. pc \in Nat /\ info = vms_parse(file) /\ info.rom.size \in Nat
      /\ IsFile(info.rom)
  BY StartType, FileParts DEF IInv
<1> DEFINE size == info.rom.size
<1>2. CASE ListInsn
  <2>1. pc < size /\ phase' = "listing" /\ info' = info
    BY <1>2 DEF ListInsn, MoreToList
  <2> DEFINE p == U16(pc)
  <2>2. p \in Nat /\ p < 65536 /\ p < size
    <3>1. p \in Nat /\ p < 65536 /\ p <= pc
      BY <1>1, U16Type, U16Less
    <3> HIDE DEF p, size
    <3>2. p < size
      BY <1>1, <2>1, <3>1 DEF size
    <3> QED BY <3>1, <3>2
  <2>3. insn' = vmu_decode(info.rom, p) /\ pc' = pc + insn'.len
    BY <1>2 DEF ListInsn, Listed
  <2> HIDE DEF p
  <2>4. insn'.len \in 1 .. 3
    BY <1>1, <2>2, <2>3, DecodeWell
  <2> DEFINE len == insn'.len
  <2>5. /\ ToList = 1 + (size - pc)
        /\ ToList' = 1 + (IF pc + len < size THEN size - (pc + len) ELSE 0)
    BY <1>2, <2>1, <2>3 DEF ToList, ListInsn
  <2>6. size \in Nat /\ len \in 1 .. 3
    BY <1>1, <2>4
  <2> HIDE DEF size, len
  <2> QED BY <1>1, <2>1, <2>5, <2>6
<1>3. CASE ListingDone
  <2>1. ToList' = 0
    BY <1>3 DEF ListingDone, ToList
  <2>2. 0 < 1 + (IF pc < size THEN size - pc ELSE 0)
    <3>1. size \in Nat
      BY <1>1
    <3> HIDE DEF size
    <3> QED BY <1>1, <3>1
  <2> QED BY <2>1, <2>2 DEF ToList
<1>4. ~Parse /\ ~NoMemory /\ ~Recomp /\ ~Interpret /\ ~Host
  BY DEF Parse, NoMemory, Recomp, Interpret, Host
<1>5. \A start \in DOMAIN image.at, many \in Counts : ~Dis(start, many)
  BY DEF Dis
<1> QED BY <1>2, <1>3, <1>4, <1>5 DEF Next, Step

\* main.c, analyze_linear: every pass of the listing's loop leaves it fewer to
\* make, also over bytes that are no instruction and over an image longer than
\* the address space.
THEOREM ListingsAreBounded ==
  Spec => [](ToList \in Nat) /\ [][phase = "listing" => ToList' < ToList]_vars
<1>1. IInv => ToList \in Nat
  BY ToListType
<1>2. IInv /\ [Next]_vars => [phase = "listing" => ToList' < ToList]_vars
  BY ListsOn
<1> QED BY <1>1, <1>2, ListedFromTheFile, PTL DEF Spec
=============================================================================
