--------------------------- MODULE MachineProofs ---------------------------
(* Proofs about Alu, for bytes of any even number of values, and about      *)
(* Machine, for every size of the memories and of the display, every image  *)
(* and every set of operands.                                               *)
EXTENDS Machine, AluProperties, SequenceTheorems, TLAPS

-----------------------------------------------------------------------------
(* Adding, subtracting, multiplying and dividing bytes.                     *)

\* Half a byte has an even number of values, and so has a byte.
LEMMA SizeIsEven == \E h \in Nat \ {0} : Size = 2 * h /\ Size \div 2 = h
<1>1. PICK k \in Nat \ {0} : Half = 2 * k
  <2>1. Half \div 2 \in Nat \ {0} /\ Half = 2 * (Half \div 2)
    BY HalfAssumption
  <2> QED BY <2>1
<1> DEFINE h == k * Half
<1>2. h \in Nat \ {0}
  <2>1. k \in Nat /\ Half \in Nat /\ k > 0 /\ Half > 0
    BY HalfAssumption
  <2> QED BY <2>1
<1>3. Size = 2 * h
  BY <1>1, HalfAssumption DEF Size
<1> HIDE DEF h
<1>4. Size \div 2 = h
  BY <1>2, <1>3
<1> QED BY <1>2, <1>3, <1>4

\* A sum of two bytes and a carry, or a difference and a borrow, is at most
\* one Size away from a byte.
LEMMA WrapIsByte ==
  ASSUME NEW r \in Int, - Size <= r, r < 2 * Size
  PROVE  Wrap(r) \in Byte
BY SizeIsEven DEF Wrap, Byte

\* The flags of an addition.
LEMMA AddTrue ==
  ASSUME NEW a \in Byte, NEW v \in Byte, NEW c \in Bit
  PROVE  AddFlags(a, v, c, Add(a, v, c))
<1> DEFINE r == a + v + c
           s == Wrap(r)
<1>1. PICK h \in Nat \ {0} : Size = 2 * h
  BY SizeIsEven
<1>2. a \in 0 .. 2 * h - 1 /\ v \in 0 .. 2 * h - 1 /\ c \in 0 .. 1
  BY <1>1 DEF Byte, Bit
<1>3. s = IF r >= 2 * h THEN r - 2 * h ELSE r
  BY <1>1, <1>2 DEF Wrap
<1>4. s \in Byte
  BY <1>1, <1>2, <1>3 DEF Byte
<1>5. /\ Add(a, v, c).acc = s
      /\ Add(a, v, c).cy <=> r >= Size
      /\ Add(a, v, c).ov <=> Sign(a) # Sign(s) /\ Sign(v) # Sign(s)
  BY DEF Add
<1>6. a + v + c = s + (IF r >= Size THEN Size ELSE 0)
  BY <1>1, <1>2, <1>3
<1>7. /\ Sign(a) <=> a >= h
      /\ Sign(v) <=> v >= h
      /\ Sign(s) <=> s >= h
  <2>1. s \in Int
    BY <1>4 DEF Byte
  <2> HIDE DEF s
  <2> QED BY <1>1, <1>2, <2>1 DEF Sign
<1>8. /\ Signed(a) = IF a >= h THEN a - 2 * h ELSE a
      /\ Signed(v) = IF v >= h THEN v - 2 * h ELSE v
      /\ Signed(s) = IF s >= h THEN s - 2 * h ELSE s
  <2> HIDE DEF s
  <2> QED BY <1>1, <1>7 DEF Signed
<1>9. Signed(a) + Signed(v) + c # Signed(s)
        <=> (a >= h /\ v >= h /\ s < h) \/ (a < h /\ v < h /\ s >= h)
  BY <1>2, <1>3, <1>8
<1>10. (Sign(a) # Sign(s) /\ Sign(v) # Sign(s))
         <=> (a >= h /\ v >= h /\ s < h) \/ (a < h /\ v < h /\ s >= h)
  <2>1. a \in Int /\ v \in Int /\ s \in Int
    BY <1>2, <1>3
  <2> HIDE DEF s
  <2> QED BY <1>7, <2>1 DEF Sign
<1> HIDE DEF s, r
<1> QED BY <1>4, <1>5, <1>6, <1>9, <1>10 DEF AddFlags, r

\* The flags of a subtraction.
LEMMA SubTrue ==
  ASSUME NEW a \in Byte, NEW v \in Byte, NEW c \in Bit
  PROVE  SubFlags(a, v, c, Sub(a, v, c))
<1> DEFINE r == a - v - c
           s == Wrap(r)
<1>1. PICK h \in Nat \ {0} : Size = 2 * h
  BY SizeIsEven
<1>2. a \in 0 .. 2 * h - 1 /\ v \in 0 .. 2 * h - 1 /\ c \in 0 .. 1
  BY <1>1 DEF Byte, Bit
<1>3. s = IF r < 0 THEN r + 2 * h ELSE r
  BY <1>1, <1>2 DEF Wrap
<1>4. s \in Byte
  BY <1>1, <1>2, <1>3 DEF Byte
<1>5. /\ Sub(a, v, c).acc = s
      /\ Sub(a, v, c).cy <=> r < 0
      /\ Sub(a, v, c).ov <=> Sign(a) # Sign(v) /\ Sign(a) # Sign(s)
  BY DEF Sub
<1>6. a - v - c = s - (IF r < 0 THEN Size ELSE 0)
  BY <1>1, <1>2, <1>3
<1>7. /\ Sign(a) <=> a >= h
      /\ Sign(v) <=> v >= h
      /\ Sign(s) <=> s >= h
  <2>1. s \in Int
    BY <1>4 DEF Byte
  <2> HIDE DEF s
  <2> QED BY <1>1, <1>2, <2>1 DEF Sign
<1>8. /\ Signed(a) = IF a >= h THEN a - 2 * h ELSE a
      /\ Signed(v) = IF v >= h THEN v - 2 * h ELSE v
      /\ Signed(s) = IF s >= h THEN s - 2 * h ELSE s
  <2> HIDE DEF s
  <2> QED BY <1>1, <1>7 DEF Signed
<1>9. Signed(a) - Signed(v) - c # Signed(s)
        <=> (a >= h /\ v < h /\ s < h) \/ (a < h /\ v >= h /\ s >= h)
  BY <1>2, <1>3, <1>8
<1>10. (Sign(a) # Sign(v) /\ Sign(a) # Sign(s))
         <=> (a >= h /\ v < h /\ s < h) \/ (a < h /\ v >= h /\ s >= h)
  <2>1. a \in Int /\ v \in Int /\ s \in Int
    BY <1>2, <1>3
  <2> HIDE DEF s
  <2> QED BY <1>7, <2>1 DEF Sign
<1> HIDE DEF s, r
<1> QED BY <1>4, <1>5, <1>6, <1>9, <1>10 DEF SubFlags, r

-----------------------------------------------------------------------------
(* Halves of bytes.                                                         *)

\* Taking Half away, or adding it, any number of times does not change the low
\* half; a value of less than two halves has a low half that says how many.
LEMMA LowHalf ==
  ASSUME NEW x \in Int, NEW y \in Int, NEW k \in Int, x = y + k * Half,
         0 <= y, y < Half
  PROVE  x % Half = y
BY HalfAssumption

\* The low half of a wrapped result is that of the result.
LEMMA WrapKeepsLowHalf ==
  ASSUME NEW r \in Int
  PROVE  Wrap(r) % Half = r % Half
<1> DEFINE y == r % Half
           q == r \div Half
<1>1. y \in Int /\ q \in Int /\ r = y + q * Half /\ 0 <= y /\ y < Half
  BY HalfAssumption
<1>2. Half \in Int
  BY HalfAssumption
<1> HIDE DEF y, q
<1>3. (r - Size) % Half = y
  <2>1. r - Size = y + (q - Half) * Half
    BY <1>1, <1>2 DEF Size
  <2> QED BY <1>1, <1>2, <2>1, LowHalf DEF Size
<1>4. (r + Size) % Half = y
  <2>1. r + Size = y + (q + Half) * Half
    BY <1>1, <1>2 DEF Size
  <2> QED BY <1>1, <1>2, <2>1, LowHalf DEF Size
<1>5. r % Half = y
  BY <1>1, LowHalf
<1> QED BY <1>3, <1>4, <1>5 DEF Wrap

\* AC is the carry, and the borrow, of the low halves.
LEMMA HalfCarry ==
  ASSUME NEW a \in Byte, NEW v \in Byte, NEW c \in Bit
  PROVE  /\ (a % Half) + (v % Half) + c
               = (Add(a, v, c).acc % Half)
                   + (IF Add(a, v, c).ac THEN Half ELSE 0)
         /\ (a % Half) - (v % Half) - c
               = (Sub(a, v, c).acc % Half)
                   - (IF Sub(a, v, c).ac THEN Half ELSE 0)
<1> DEFINE x == a % Half
           y == v % Half
           i == a \div Half
           j == v \div Half
<1>1. a \in Int /\ v \in Int /\ c \in 0 .. 1 /\ Half \in Nat /\ Half >= 2
  BY HalfAssumption DEF Byte, Bit, Size
<1>2. /\ x \in 0 .. Half - 1 /\ y \in 0 .. Half - 1 /\ i \in Int /\ j \in Int
      /\ a = x + i * Half /\ v = y + j * Half
  BY <1>1
<1>3. /\ Add(a, v, c).acc = Wrap(a + v + c)
      /\ Add(a, v, c).ac <=> x + y + c >= Half
      /\ Sub(a, v, c).acc = Wrap(a - v - c)
      /\ Sub(a, v, c).ac <=> x - y - c < 0
  BY DEF Add, Sub
<1> HIDE DEF x, y, i, j
<1>4. ASSUME x + y + c >= Half
      PROVE  (a + v + c) % Half = x + y + c - Half
  <2>1. a + v + c = (x + y + c - Half) + (i + j + 1) * Half
    BY <1>1, <1>2
  <2> DEFINE z == x + y + c - Half
             k == i + j + 1
  <2>2. z \in Int /\ k \in Int /\ a + v + c \in Int /\ 0 <= z /\ z < Half
    BY <1>1, <1>2, <1>4
  <2>3. a + v + c = z + k * Half
    BY <2>1
  <2> HIDE DEF z, k
  <2>4. (a + v + c) % Half = z
    BY <2>2, <2>3, LowHalf
  <2> QED BY <2>4 DEF z
<1>5. ASSUME x + y + c < Half
      PROVE  (a + v + c) % Half = x + y + c
  <2>1. a + v + c = (x + y + c) + (i + j) * Half
    BY <1>1, <1>2
  <2> QED BY <1>1, <1>2, <1>5, <2>1, LowHalf, SMTT(30)
<1>6. ASSUME x - y - c < 0
      PROVE  (a - v - c) % Half = x - y - c + Half
  <2>1. a - v - c = (x - y - c + Half) + (i - j - 1) * Half
    BY <1>1, <1>2
  <2> DEFINE z == x - y - c + Half
             k == i - j - 1
  <2>2. z \in Int /\ k \in Int /\ a - v - c \in Int /\ 0 <= z /\ z < Half
    BY <1>1, <1>2, <1>6
  <2>3. a - v - c = z + k * Half
    BY <2>1
  <2> HIDE DEF z, k
  <2>4. (a - v - c) % Half = z
    BY <2>2, <2>3, LowHalf
  <2> QED BY <2>4 DEF z
<1>7. ASSUME x - y - c >= 0
      PROVE  (a - v - c) % Half = x - y - c
  <2>1. a - v - c = (x - y - c) + (i - j) * Half
    BY <1>1, <1>2
  <2> QED BY <1>1, <1>2, <1>7, <2>1, LowHalf
<1>8. /\ Add(a, v, c).acc % Half = (a + v + c) % Half
      /\ Sub(a, v, c).acc % Half = (a - v - c) % Half
  BY <1>1, <1>3, WrapKeepsLowHalf
<1>9. x + y + c = (Add(a, v, c).acc % Half)
                    + (IF Add(a, v, c).ac THEN Half ELSE 0)
  <2>1. CASE x + y + c >= Half
    BY <1>1, <1>2, <1>3, <1>4, <1>8, <2>1
  <2>2. CASE x + y + c < Half
    BY <1>1, <1>2, <1>3, <1>5, <1>8, <2>2
  <2> QED BY <1>1, <1>2, <2>1, <2>2
<1>10. x - y - c = (Sub(a, v, c).acc % Half)
                     - (IF Sub(a, v, c).ac THEN Half ELSE 0)
  <2>1. CASE x - y - c < 0
    BY <1>1, <1>2, <1>3, <1>6, <1>8, <2>1
  <2>2. CASE x - y - c >= 0
    BY <1>1, <1>2, <1>3, <1>7, <1>8, <2>2
  <2> QED BY <1>1, <1>2, <2>1, <2>2
<1> QED BY <1>9, <1>10 DEF x, y

-----------------------------------------------------------------------------
(* The unit.                                                                *)

\* A rotate through carry gives a byte and a bit.
LEMMA RotatesType ==
  ASSUME NEW a \in Byte, NEW c \in Bit
  PROVE  /\ RolC(a, c).acc \in Byte /\ RolC(a, c).cy \in Bit
         /\ RorC(a, c).acc \in Byte /\ RorC(a, c).cy \in Bit
<1>1. PICK h \in Nat \ {0} : Size = 2 * h /\ Size \div 2 = h
  BY SizeIsEven
<1>2. a \in 0 .. 2 * h - 1 /\ c \in 0 .. 1
  BY <1>1 DEF Byte, Bit
<1>3. a \div h \in 0 .. 1 /\ (2 * a) % (2 * h) \in 0 .. 2 * h - 2
  <2>1. CASE a < h
    <3>1. a \div h = 0 /\ (2 * a) % (2 * h) = 2 * a
      BY <1>1, <1>2, <2>1
    <3> QED BY <1>1, <1>2, <2>1, <3>1
  <2>2. CASE a >= h
    <3>1. a \div h = 1
      BY <1>1, <1>2, <2>2
    <3>2. (2 * a) % (2 * h) = 2 * a - 2 * h
      BY <1>1, <1>2, <2>2
    <3> QED BY <1>1, <1>2, <2>2, <3>1, <3>2
  <2> QED BY <1>1, <1>2, <2>1, <2>2
<1>4. RolC(a, c).acc \in Byte /\ RolC(a, c).cy \in Bit
  BY <1>1, <1>2, <1>3 DEF RolC, Byte, Bit
<1>5. RorC(a, c).acc \in Byte /\ RorC(a, c).cy \in Bit
  <2>1. a \div 2 \in 0 .. h - 1 /\ a % 2 \in 0 .. 1
    BY <1>1, <1>2
  <2>2. c * h \in {0, h}
    BY <1>1, <1>2
  <2> QED BY <1>1, <2>1, <2>2 DEF RorC, Byte, Bit
<1> QED BY <1>4, <1>5

\* ACC stays a byte and CY a bit.
THEOREM UnitTypeCorrect == UnitSpec => []UnitTypeOK
<1>1. UnitInit => UnitTypeOK
  BY DEF UnitInit
<1>2. UnitTypeOK /\ [UnitNext]_unitVars => UnitTypeOK'
  <2> SUFFICES ASSUME UnitTypeOK, [UnitNext]_unitVars PROVE UnitTypeOK'
    OBVIOUS
  <2>1. \A flag : AsBit(flag) \in Bit
    BY DEF AsBit, Bit
  <2>2. CASE Addc
    <3>1. Add(acc, operand, cy).acc \in Byte
      BY AddTrue DEF UnitTypeOK, AddFlags
    <3> QED BY <2>1, <2>2, <3>1 DEF Addc, Leave, UnitTypeOK
  <2>3. CASE Subc
    <3>1. Sub(acc, operand, cy).acc \in Byte
      BY SubTrue DEF UnitTypeOK, SubFlags
    <3> QED BY <2>1, <2>3, <3>1 DEF Subc, Leave, UnitTypeOK
  <2>4. CASE Rolc
    BY <2>4, RotatesType DEF Rolc, Leave, UnitTypeOK
  <2>5. CASE Rorc
    BY <2>5, RotatesType DEF Rorc, Leave, UnitTypeOK
  <2>6. CASE UNCHANGED unitVars
    BY <2>6 DEF unitVars, UnitTypeOK
  <2> QED BY <2>2, <2>3, <2>4, <2>5, <2>6 DEF UnitNext
<1> QED BY <1>1, <1>2, PTL DEF UnitSpec

\* CY and OV of every sum and difference are true, for bytes of any width.
THEOREM FlagsTrue == UnitSpec => []FlagsTellTheTruth
<1>1. UnitTypeOK => FlagsTellTheTruth
  BY AddTrue, SubTrue DEF UnitTypeOK, FlagsTellTheTruth
<1> QED BY <1>1, UnitTypeCorrect, PTL

\* And AC is the carry of the low halves.
THEOREM HalfCarryTrue == UnitSpec => []HalfCarryIsTrue
<1>1. UnitTypeOK => HalfCarryIsTrue
  BY HalfCarry DEF UnitTypeOK, HalfCarryIsTrue
<1> QED BY <1>1, UnitTypeCorrect, PTL

\* The two rotates through carry undo one another.
LEMMA RotatesInverse ==
  ASSUME NEW a \in Byte, NEW c \in Bit
  PROVE  /\ RorC(RolC(a, c).acc, RolC(a, c).cy) = [acc |-> a, cy |-> c]
         /\ RolC(RorC(a, c).acc, RorC(a, c).cy) = [acc |-> a, cy |-> c]
<1>1. PICK h \in Nat \ {0} : Size = 2 * h /\ Size \div 2 = h
  BY SizeIsEven
<1>2. a \in 0 .. 2 * h - 1 /\ c \in 0 .. 1
  BY <1>1 DEF Byte, Bit
<1>3. RorC(RolC(a, c).acc, RolC(a, c).cy) = [acc |-> a, cy |-> c]
  <2> DEFINE l == RolC(a, c)
  <2>1. /\ l.acc = IF a < h THEN 2 * a + c ELSE 2 * a - 2 * h + c
        /\ l.cy = IF a < h THEN 0 ELSE 1
    <3>1. CASE a < h
      <4>1. a \div h = 0 /\ (2 * a) % (2 * h) = 2 * a
        BY <1>1, <1>2, <3>1
      <4> QED BY <1>1, <1>2, <3>1, <4>1 DEF RolC
    <3>2. CASE a >= h
      <4>1. a \div h = 1 /\ (2 * a) % (2 * h) = 2 * a - 2 * h
        BY <1>1, <1>2, <3>2
      <4> QED BY <1>1, <1>2, <3>2, <4>1 DEF RolC
    <3> QED BY <1>1, <1>2, <3>1, <3>2
  <2> HIDE DEF l
  <2>2. l.acc \div 2 = (IF a < h THEN a ELSE a - h) /\ l.acc % 2 = c
    BY <1>1, <1>2, <2>1
  <2>3. l.cy * h = IF a < h THEN 0 ELSE h
    BY <1>1, <2>1
  <2>4. (l.acc \div 2) + l.cy * h = a
    BY <1>1, <1>2, <2>2, <2>3
  <2> QED BY <1>1, <2>2, <2>4 DEF RorC, l
<1>4. RolC(RorC(a, c).acc, RorC(a, c).cy) = [acc |-> a, cy |-> c]
  <2> DEFINE r == RorC(a, c)
             q == a \div 2
  <2>1. q \in 0 .. h - 1 /\ a % 2 \in 0 .. 1 /\ a = 2 * q + (a % 2)
    BY <1>1, <1>2
  <2>2. r.acc = q + c * h /\ r.cy = a % 2
    BY <1>1 DEF RorC
  <2> HIDE DEF r, q
  <2>3. (2 * r.acc) % (2 * h) = 2 * q /\ r.acc \div h = c
    <3>1. CASE c = 0
      <4>1. r.acc = q
        BY <1>1, <2>1, <2>2, <3>1
      <4> QED BY <1>1, <2>1, <3>1, <4>1
    <3>2. CASE c = 1
      <4>1. r.acc = q + h
        BY <1>1, <2>1, <2>2, <3>2
      <4>2. (2 * r.acc) % (2 * h) = 2 * q
        BY <1>1, <2>1, <4>1
      <4>3. r.acc \div h = 1
        BY <1>1, <2>1, <4>1
      <4> QED BY <3>2, <4>2, <4>3
    <3> QED BY <1>2, <3>1, <3>2
  <2> QED BY <1>1, <2>1, <2>2, <2>3 DEF RolC, r
<1> QED BY <1>3, <1>4

\* No bit is lost on the way around, for bytes of any width.
THEOREM RotatesTrue == UnitSpec => []RotatesAreInverse
<1>1. UnitTypeOK => RotatesAreInverse
  BY RotatesInverse DEF UnitTypeOK, RotatesAreInverse
<1> QED BY <1>1, UnitTypeCorrect, PTL

-----------------------------------------------------------------------------
(* Numbers of two bytes.                                                    *)

\* AddTrue and SubTrue with the carry as a digit.
LEMMA CarryIsDigit ==
  ASSUME NEW a \in Byte, NEW v \in Byte, NEW c \in Bit
  PROVE  LET s == Add(a, v, c)
             d == Sub(a, v, c)
         IN /\ s.acc \in Byte /\ a + v + c = s.acc + AsBit(s.cy) * Size
            /\ d.acc \in Byte /\ a - v - c = d.acc - AsBit(d.cy) * Size
<1> DEFINE s == Add(a, v, c)
           d == Sub(a, v, c)
<1>1. Size \in Int
  BY HalfAssumption DEF Size
<1>2. AddFlags(a, v, c, s) /\ SubFlags(a, v, c, d)
  BY AddTrue, SubTrue
<1> HIDE DEF s, d
<1>3. \A flag : AsBit(flag) * Size = IF flag THEN Size ELSE 0
  BY <1>1 DEF AsBit
<1>4. s.acc \in Byte /\ a + v + c = s.acc + AsBit(s.cy) * Size
  BY <1>2, <1>3 DEF AddFlags
<1>5. d.acc \in Byte /\ a - v - c = d.acc - AsBit(d.cy) * Size
  BY <1>2, <1>3 DEF SubFlags
<1> QED BY <1>4, <1>5 DEF s, d

\* Two bytes after one another add and subtract as the number they make up.
LEMMA TwoBytes ==
  ASSUME NEW a \in Byte, NEW v \in Byte, NEW hi \in Byte, NEW x \in Byte
  PROVE  LET s0 == Add(a, v, 0)
             s1 == Add(hi, x, AsBit(s0.cy))
             d0 == Sub(a, v, 0)
             d1 == Sub(hi, x, AsBit(d0.cy))
         IN /\ (hi * Size + a) + (x * Size + v)
                 = AsBit(s1.cy) * Size * Size + s1.acc * Size + s0.acc
            /\ (hi * Size + a) - (x * Size + v)
                 = d1.acc * Size + d0.acc - AsBit(d1.cy) * Size * Size
<1> DEFINE s0 == Add(a, v, 0)
           d0 == Sub(a, v, 0)
           c == AsBit(s0.cy)
           e == AsBit(d0.cy)
           s1 == Add(hi, x, c)
           d1 == Sub(hi, x, e)
           f == AsBit(s1.cy)
           g == AsBit(d1.cy)
<1>1. Size \in Int /\ 0 \in Bit
  BY HalfAssumption DEF Size, Bit
<1>2. c \in Bit /\ e \in Bit /\ f \in Bit /\ g \in Bit
  BY DEF AsBit, Bit
<1>3. /\ s0.acc \in Byte /\ a + v + 0 = s0.acc + c * Size
      /\ d0.acc \in Byte /\ a - v - 0 = d0.acc - e * Size
  BY <1>1, CarryIsDigit
<1> HIDE DEF s0, d0, c, e
<1>4. /\ s1.acc \in Byte /\ hi + x + c = s1.acc + f * Size
      /\ d1.acc \in Byte /\ hi - x - e = d1.acc - g * Size
  BY <1>2, CarryIsDigit
<1> HIDE DEF s1, d1, f, g
<1>5. /\ a \in Int /\ v \in Int /\ hi \in Int /\ x \in Int
      /\ c \in Int /\ e \in Int /\ f \in Int /\ g \in Int
      /\ s0.acc \in Int /\ d0.acc \in Int /\ s1.acc \in Int /\ d1.acc \in Int
  BY <1>2, <1>3, <1>4 DEF Byte, Bit
<1>6. hi * Size + x * Size + c * Size = s1.acc * Size + f * Size * Size
  <2>1. (hi + x + c) * Size = (s1.acc + f * Size) * Size
    BY <1>4
  <2>2. (hi + x + c) * Size = hi * Size + x * Size + c * Size
    BY ONLY <1>1, <1>5
  <2>3. (s1.acc + f * Size) * Size = s1.acc * Size + f * Size * Size
    BY ONLY <1>1, <1>5
  <2> QED BY ONLY <2>1, <2>2, <2>3
<1>7. hi * Size - x * Size - e * Size = d1.acc * Size - g * Size * Size
  <2>1. (hi - x - e) * Size = (d1.acc - g * Size) * Size
    BY <1>4
  <2>2. (hi - x - e) * Size = hi * Size - x * Size - e * Size
    BY ONLY <1>1, <1>5
  <2>3. (d1.acc - g * Size) * Size = d1.acc * Size - g * Size * Size
    BY ONLY <1>1, <1>5
  <2> QED BY ONLY <2>1, <2>2, <2>3
<1> DEFINE hiS == hi * Size
           xS == x * Size
           cS == c * Size
           eS == e * Size
           fS == f * Size * Size
           gS == g * Size * Size
           s1S == s1.acc * Size
           d1S == d1.acc * Size
<1>8. /\ hiS \in Int /\ xS \in Int /\ cS \in Int /\ eS \in Int
      /\ fS \in Int /\ gS \in Int /\ s1S \in Int /\ d1S \in Int
  BY ONLY <1>1, <1>5
<1>9. hiS + xS + cS = s1S + fS /\ hiS - xS - eS = d1S - gS
  BY ONLY <1>6, <1>7
<1>10. a + v = s0.acc + cS /\ a - v = d0.acc - eS
  BY ONLY <1>1, <1>3, <1>5
<1> HIDE DEF hiS, xS, cS, eS, fS, gS, s1S, d1S
<1>11. /\ (hiS + a) + (xS + v) = fS + s1S + s0.acc
       /\ (hiS + a) - (xS + v) = d1S + d0.acc - gS
  BY ONLY <1>5, <1>8, <1>9, <1>10
<1>12. /\ (hi * Size + a) + (x * Size + v)
            = f * Size * Size + s1.acc * Size + s0.acc
       /\ (hi * Size + a) - (x * Size + v)
            = d1.acc * Size + d0.acc - g * Size * Size
  BY <1>11 DEF hiS, xS, cS, eS, fS, gS, s1S, d1S
<1> QED BY <1>12 DEF s0, d0, s1, d1, c, e, f, g

\* ADD then ADDC, SUB then SUBC: arithmetic of two bytes, for bytes of any
\* width and any further bytes.
THEOREM Wide == UnitSpec => []WideArithmetic
<1>1. UnitTypeOK => WideArithmetic
  BY TwoBytes, SamplesAssumption DEF UnitTypeOK, WideArithmetic
<1> QED BY <1>1, UnitTypeCorrect, PTL

\* There is one way to write a number as so many times b and a remainder.
LEMMA QuotientIsUnique ==
  ASSUME NEW n \in Int, NEW b \in Nat \ {0}, NEW q \in Int, NEW r \in 0 .. b - 1,
         n = q * b + r
  PROVE  n \div b = q /\ n % b = r
<1>1. n % b = r
  OBVIOUS
<1> QED BY <1>1

\* Division by a byte other than 0 is true, and it undoes multiplication.
LEMMA DivTrue ==
  ASSUME NEW a \in Byte, NEW v \in Byte, NEW b \in Byte \ {0}
  PROVE  LET product == Mul(a, v, b)
             back == Div(product.acc, product.c, b)
             d == Div(a, v, b)
         IN /\ ~product.ov => back = [acc |-> a, c |-> v, b |-> 0, ov |-> TRUE]
            /\ (d.acc * Size + d.c) * b + d.b = a * Size + v
            /\ d.b < b
<1> DEFINE n == a * Size + v
           product == Mul(a, v, b)
           back == Div(product.acc, product.c, b)
           d == Div(a, v, b)
<1>1. Size \in Nat \ {0} /\ a \in 0 .. Size - 1 /\ v \in 0 .. Size - 1
  BY SizeIsEven DEF Byte
<1>2. b \in Nat \ {0}
  BY <1>1 DEF Byte
<1>3. n \in Nat
  BY <1>1
<1>4. n \div Size = a /\ n % Size = v
  BY <1>1, <1>3, QuotientIsUnique
<1>5. (d.acc * Size + d.c) * b + d.b = n /\ d.b < b
  <2> DEFINE q == n \div b
             rem == n % b
  <2>1. d.acc = q \div Size /\ d.c = q % Size /\ d.b = rem
    BY <1>2 DEF Div
  <2> HIDE DEF n, d
  <2>2. q \in Int /\ rem \in 0 .. b - 1 /\ n = b * q + rem
    BY <1>2, <1>3
  <2> HIDE DEF q, rem
  <2>3. q = (q \div Size) * Size + (q % Size)
    BY <1>1, <2>2
  <2>4. d.acc * Size + d.c = q
    BY <2>1, <2>3
  <2> QED BY <1>2, <2>1, <2>2, <2>4
<1>6. ASSUME ~product.ov
      PROVE  back = [acc |-> a, c |-> v, b |-> 0, ov |-> TRUE]
  <2> DEFINE r == n * b
  <2>1. /\ product.acc = (r \div Size) % Size
        /\ product.c = r % Size
        /\ ~(r >= Size * Size)
    BY <1>6 DEF Mul
  <2> HIDE DEF n, product
  <2>2. r \in Nat
    BY <1>2, <1>3
  <2>3. r \div b = n /\ r % b = 0
    BY <1>2, <1>3, <2>2, QuotientIsUnique
  <2> HIDE DEF r
  <2> DEFINE hi == r \div Size
             lo == r % Size
  <2>4. hi \in Int /\ lo \in 0 .. Size - 1 /\ r = Size * hi + lo
    BY <1>1, <2>2
  <2>5. hi \in 0 .. Size - 1
    <3> HIDE DEF hi, lo
    <3>1. r < Size * Size /\ r >= 0
      BY <1>1, <2>1, <2>2
    <3>2. hi >= 0
      <4> SUFFICES ASSUME hi <= -1 PROVE FALSE
        BY <2>4
      <4>1. Size * hi <= - Size
        BY <1>1, <2>4
      <4> QED BY <1>1, <2>4, <3>1, <4>1
    <3>3. hi < Size
      <4> SUFFICES ASSUME hi >= Size PROVE FALSE
        BY <1>1, <2>4
      <4>1. Size * hi >= Size * Size
        BY <1>1, <2>4
      <4> QED BY <1>1, <2>4, <3>1, <4>1
    <3> QED BY <1>1, <2>4, <3>2, <3>3
  <2>6. product.acc = hi
    <3> HIDE DEF hi, lo
    <3>1. hi % Size = hi
      BY <1>1, <2>5
    <3> QED BY <2>1, <3>1 DEF hi
  <2>7. product.acc * Size + product.c = r
    <3>1. product.c = lo
      BY <2>1
    <3> HIDE DEF hi, lo
    <3> QED BY <1>1, <2>4, <2>6, <3>1
  <2>8. back = [acc |-> n \div Size, c |-> n % Size, b |-> 0, ov |-> TRUE]
    BY <1>2, <2>3, <2>7 DEF Div
  <2> QED BY <1>4, <2>8
<1> QED BY <1>5, <1>6

\* DIV tells the truth and undoes MUL, for bytes of any width.
THEOREM DivInverse == UnitSpec => []DivUndoesMul
<1>1. UnitTypeOK => DivUndoesMul
  BY DivTrue, SamplesAssumption DEF UnitTypeOK, DivUndoesMul
<1> QED BY <1>1, UnitTypeCorrect, PTL

-----------------------------------------------------------------------------
(* Bytes and bits.                                                          *)

LEMMA Bytes == Byte = 0 .. 255 /\ Size = 256
BY MachineConstants DEF Byte

\* Setting or clearing a bit leaves a byte.
LEMMA WithBitType ==
  ASSUME NEW v \in 0 .. 255, NEW n \in 0 .. 7, NEW on
  PROVE  WithBit(v, n, on) \in 0 .. 255
<1> DEFINE bit == AsBit(on)
           With(k) == v + (bit - AsBit((v \div k) % 2 = 1)) * k
<1>1. bit \in {0, 1}
  BY DEF AsBit
<1>2. WithBit(v, n, on) = With(2^n)
  BY DEF WithBit, HasBit
<1> HIDE DEF bit
<1>3. CASE n = 0
  <2>1. With(1) \in 0 .. 255 BY <1>1 DEF AsBit
  <2> QED BY <1>2, <1>3, <2>1, 2^0 = 1
<1>4. CASE n = 1
  <2>1. With(2) \in 0 .. 255 BY <1>1 DEF AsBit
  <2> QED BY <1>2, <1>4, <2>1, 2^1 = 2
<1>5. CASE n = 2
  <2>1. With(4) \in 0 .. 255 BY <1>1 DEF AsBit
  <2> QED BY <1>2, <1>5, <2>1, 2^2 = 4
<1>6. CASE n = 3
  <2>1. With(8) \in 0 .. 255 BY <1>1 DEF AsBit
  <2> QED BY <1>2, <1>6, <2>1, 2^3 = 8
<1>7. CASE n = 4
  <2>1. With(16) \in 0 .. 255 BY <1>1 DEF AsBit
  <2> QED BY <1>2, <1>7, <2>1, 2^4 = 16
<1>8. CASE n = 5
  <2>1. With(32) \in 0 .. 255 BY <1>1 DEF AsBit
  <2> QED BY <1>2, <1>8, <2>1, 2^5 = 32
<1>9. CASE n = 6
  <2>1. With(64) \in 0 .. 255 BY <1>1 DEF AsBit
  <2> QED BY <1>2, <1>9, <2>1, 2^6 = 64
<1>10. CASE n = 7
  <2>1. With(128) \in 0 .. 255 BY <1>1 DEF AsBit
  <2> QED BY <1>2, <1>10, <2>1, 2^7 = 128
<1> QED BY <1>3, <1>4, <1>5, <1>6, <1>7, <1>8, <1>9, <1>10

\* Bit 0 is what it was set to, and another bit that is set is not bit 0.
LEMMA BitZero ==
  ASSUME NEW v \in 0 .. 255, NEW on
  PROVE  /\ on \in BOOLEAN => HasBit(WithBit(v, P, on), P) = on
         /\ \A n \in {CY, AC, OV} : HasBit(WithBit(v, n, on), P) = HasBit(v, P)
<1> DEFINE bit == AsBit(on)
           With(k) == v + (bit - AsBit((v \div k) % 2 = 1)) * k
<1>1. bit \in {0, 1} /\ (bit = 1 <=> on)
  BY DEF AsBit
<1>2. \A x : HasBit(x, 0) = ((x \div 1) % 2 = 1)
  BY 2^0 = 1 DEF HasBit
<1>3. /\ WithBit(v, 0, on) = With(1) /\ WithBit(v, 7, on) = With(128)
      /\ WithBit(v, 6, on) = With(64) /\ WithBit(v, 2, on) = With(4)
  BY 2^0 = 1, 2^2 = 4, 2^6 = 64, 2^7 = 128 DEF WithBit, HasBit
<1> HIDE DEF bit
<1>4. (With(1) \div 1) % 2 = bit
  BY <1>1 DEF AsBit
<1>5. (With(128) \div 1) % 2 = (v \div 1) % 2
  BY <1>1 DEF AsBit
<1>6. (With(64) \div 1) % 2 = (v \div 1) % 2
  BY <1>1 DEF AsBit
<1>7. (With(4) \div 1) % 2 = (v \div 1) % 2
  BY <1>1 DEF AsBit
<1> HIDE DEF With
<1>8. HasBit(WithBit(v, 0, on), 0) <=> on
  BY <1>1, <1>2, <1>3, <1>4
<1>9. on \in BOOLEAN => HasBit(WithBit(v, 0, on), 0) = on
  BY <1>8 DEF HasBit
<1>10. \A n \in {7, 6, 2} : HasBit(WithBit(v, n, on), 0) = HasBit(v, 0)
  BY <1>2, <1>3, <1>5, <1>6, <1>7
<1> QED BY <1>9, <1>10 DEF P, CY, AC, OV

LEMMA LogicType ==
  ASSUME NEW x \in Byte, NEW y \in Byte
  PROVE  {And(x, y), Or(x, y), Xor(x, y)} \subseteq Byte
<1> DEFINE X == BitsOf[x]
           Y == BitsOf[y]
           In(S, n) == IF n \in S THEN 1 ELSE 0
           Sum(S) == In(S, 0) + 2 * In(S, 1) + 4 * In(S, 2) + 8 * In(S, 3)
                       + 16 * In(S, 4) + 32 * In(S, 5) + 64 * In(S, 6) + 128 * In(S, 7)
<1>1. ASSUME NEW S PROVE ByteOf(S) = Sum(S)
  <2>1. /\ 2^0 = 1 /\ 2^1 = 2 /\ 2^2 = 4 /\ 2^3 = 8
        /\ 2^4 = 16 /\ 2^5 = 32 /\ 2^6 = 64 /\ 2^7 = 128
    OBVIOUS
  <2> QED BY <2>1 DEF ByteOf
<1>2. \A S : \A n \in 0 .. 7 : In(S, n) \in 0 .. 1
  OBVIOUS
<1>3. \A n \in 0 .. 7 : In(X \cap Y, n) <= In(X \cup Y, n)
  OBVIOUS
<1> HIDE DEF In, X, Y
<1>4. \A S : Sum(S) \in 0 .. 255
  BY <1>2
<1>5. Sum(X \cap Y) <= Sum(X \cup Y)
  <2> DEFINE A == X \cap Y
             O == X \cup Y
  <2>1. \A n \in 0 .. 7 : In(A, n) \in 0 .. 1 /\ In(O, n) \in 0 .. 1 /\ In(A, n) <= In(O, n)
    BY <1>2, <1>3
  <2> HIDE DEF A, O
  <2>2. Sum(A) <= Sum(O)
    BY <2>1
  <2> QED BY <2>2 DEF A, O
<1> HIDE DEF Sum
<1>6. And(x, y) = Sum(X \cap Y) /\ Or(x, y) = Sum(X \cup Y)
  BY <1>1 DEF And, Or, X, Y
<1>7. Or(x, y) - And(x, y) \in 0 .. 255
  <2> DEFINE p == Sum(X \cap Y)
             q == Sum(X \cup Y)
  <2>1. p \in 0 .. 255 /\ q \in 0 .. 255 /\ p <= q
    BY <1>4, <1>5
  <2> HIDE DEF p, q
  <2>2. q - p \in 0 .. 255
    BY <2>1
  <2> QED BY <1>6, <2>2 DEF p, q
<1> QED BY <1>4, <1>6, <1>7, Bytes DEF Xor

LEMMA OddType == \A v \in Byte : Odd[v] \in BOOLEAN
BY DEF Odd

-----------------------------------------------------------------------------
(* What the arithmetic leaves fits a byte.                                  *)

LEMMA SumType ==
  ASSUME NEW x \in Byte, NEW y \in Byte, NEW c \in 0 .. 1
  PROVE  Add(x, y, c).acc \in Byte /\ Sub(x, y, c).acc \in Byte
<1>1. \A r \in - 256 .. 511 : Wrap(r) \in Byte
  BY Bytes DEF Wrap
<1>2. x + y + c \in - 256 .. 511 /\ x - y - c \in - 256 .. 511
  BY Bytes
<1> QED BY <1>1, <1>2 DEF Add, Sub

LEMMA ProductType ==
  ASSUME NEW x \in Byte, NEW c \in Byte, NEW y \in Byte
  PROVE  Mul(x, c, y).acc \in Byte /\ Mul(x, c, y).b \in Byte /\ Mul(x, c, y).c \in Byte
<1> DEFINE N == 256 * 256
           w == x * 256 + c
           r == w * y
           t == r \div N
<1>1. w \in Nat /\ w < N /\ y \in Nat /\ y < 256 /\ N \in Nat \ {0}
  BY Bytes, SMT
<1>2. Mul(x, c, y) = [b |-> t, acc |-> (r \div 256) % 256, c |-> r % 256, ov |-> r >= N]
  BY Bytes, SMT DEF Mul
<1> HIDE DEF w, N
<1>3. r \in Nat
  BY <1>1, SMT
<1>4. N * y - w * y \in Nat
  <2> DEFINE d == N - w
  <2>1. d \in Nat BY <1>1, SMT
  <2>2. d * y = N * y - w * y BY <1>1, SMT
  <2> HIDE DEF d
  <2>3. d * y \in Nat BY <1>1, <2>1, SMT
  <2> QED BY <2>2, <2>3
<1>5. t \in Nat /\ t * N <= r
  <2> HIDE DEF r
  <2> QED BY <1>1, <1>3, SMT
<1>6. N * y \in Nat /\ w * y <= N * y
  BY <1>1, <1>3, <1>4, SMT
<1> HIDE DEF t
<1>7. t <= y
  <2> SUFFICES ASSUME t > y PROVE FALSE
    BY <1>1, <1>5, SMT
  <2> DEFINE e == t - y - 1
  <2>1. e \in Nat /\ t = y + 1 + e
    BY <1>1, <1>5, SMT
  <2> HIDE DEF e
  <2>2. e * N \in Nat
    BY <1>1, <2>1, SMT
  <2>3. t * N = y * N + N + e * N
    BY <1>1, <2>1, SMT
  <2>4. y * N = N * y
    BY <1>1, SMT
  <2>5. CASE y = 0
    <3>1. r = 0
      BY <1>1, <2>5, SMT
    <3>2. N * y = 0
      BY <1>1, <2>5, SMT
    <3> QED BY <1>1, <1>5, <2>2, <2>3, <2>4, <3>1, <3>2, SMT
  <2>6. CASE y # 0
    BY <1>1, <1>3, <1>5, <1>6, <2>2, <2>3, <2>4, SMT
  <2> QED BY <2>5, <2>6
<1>8. t \in 0 .. 255
  BY <1>1, <1>5, <1>7, SMT
<1> HIDE DEF r
<1>9. (r \div 256) % 256 \in 0 .. 255 /\ r % 256 \in 0 .. 255
  BY <1>3, SMT
<1> QED BY <1>2, <1>8, <1>9, Bytes, SMT

LEMMA QuotientType ==
  ASSUME NEW x \in Byte, NEW c \in Byte, NEW y \in Byte
  PROVE  Div(x, c, y).acc \in Byte /\ Div(x, c, y).b \in Byte /\ Div(x, c, y).c \in Byte
<1> DEFINE w == x * 256 + c
           q == w \div y
           r == w % y
<1>1. w \in Nat /\ w < 256 * 256 /\ y \in 0 .. 255
  BY Bytes, SMT
<1>2. CASE y = 0
  BY <1>2, Bytes, SMT DEF Div
<1>3. CASE y # 0
  <2>1. Div(x, c, y) = [acc |-> q \div 256, c |-> q % 256, b |-> r, ov |-> r = 0]
    BY <1>3, Bytes, SMT DEF Div
  <2> HIDE DEF w
  <2>2. y \in Nat \ {0} /\ w \in Nat
    BY <1>1, <1>3, SMT
  <2>3. q \in Nat /\ r \in 0 .. y - 1 /\ w = q * y + r
    BY <2>2, SMT
  <2> HIDE DEF q, r
  <2>4. q <= w
    <3>1. q * (y - 1) \in Nat
      <4> DEFINE d == y - 1
      <4>1. d \in Nat BY <2>2, SMT
      <4> HIDE DEF d
      <4>2. q * d \in Nat BY <2>3, <4>1, SMT
      <4> QED BY <4>2, SMT DEF d
    <3>2. q * (y - 1) = q * y - q
      BY <2>2, <2>3, SMT
    <3>3. q * y \in Nat
      BY <2>2, <2>3, SMT
    <3> QED BY <2>2, <2>3, <3>1, <3>2, <3>3, SMT
  <2>5. q \div 256 \in 0 .. 255 /\ q % 256 \in 0 .. 255 /\ r \in 0 .. 255
    <3>1. q < 256 * 256
      BY <1>1, <2>3, <2>4, SMT
    <3>2. q \div 256 \in 0 .. 255
      BY <2>3, <3>1, SMT
    <3>3. q % 256 \in 0 .. 255
      BY <2>3, SMT
    <3>4. r \in 0 .. 255
      BY <1>1, <2>2, <2>3, SMT
    <3> QED BY <3>2, <3>3, <3>4
  <2> QED BY <2>1, <2>5, Bytes, SMT
<1> QED BY <1>2, <1>3, SMT

LEMMA RotateType ==
  ASSUME NEW x \in Byte, NEW c \in 0 .. 1
  PROVE  RolC(x, c).acc \in Byte /\ RorC(x, c).acc \in Byte
<1>1. ((2 * x) % 256) + c \in 0 .. 255 /\ (x \div 2) + c * 128 \in 0 .. 255
  BY Bytes
<1>2. 256 \div 2 = 128
  OBVIOUS
<1> QED BY <1>1, <1>2, Bytes DEF RolC, RorC

-----------------------------------------------------------------------------
(* Reads and writes: what they return, leave alone and disturb.             *)

LEMMA StateFields ==
  ASSUME NEW s \in State
  PROVE  /\ s.ram \in [0 .. 1 -> [RamAddr -> Byte]]
         /\ s.xram \in [0 .. 2 -> [0 .. XramSize - 1 -> Byte]]
         /\ s.wram \in [WramAddr -> Byte]
         /\ s.acc \in Byte /\ s.b \in Byte /\ s.c \in Byte /\ s.psw \in Byte
         /\ s.trl \in Byte /\ s.trh \in Byte /\ s.p3 \in Byte /\ s.buttons \in Byte
         /\ s.xbnk \in Byte /\ s.vsel \in Byte /\ s.vrmad1 \in Byte /\ s.vrmad2 \in Byte
         /\ s.sp \in RamAddr /\ s.dirty \in BOOLEAN
BY DEF State

LEMMA StateBytes ==
  ASSUME NEW s \in State
  PROVE  /\ s.psw \in 0 .. 255 /\ s.acc \in 0 .. 255 /\ s.buttons \in 0 .. 255
         /\ s.xbnk \in 0 .. 255 /\ s.vrmad1 \in 0 .. 255 /\ s.vrmad2 \in 0 .. 255
         /\ s.sp \in 0 .. 255
<1>1. \A v \in Byte : v \in 0 .. 255
  BY Bytes
<1>2. \A v \in RamAddr : v \in 0 .. 255
  <2>1. RamSize \in Nat /\ RamSize <= 256
    BY Bytes, MachineConstants
  <2> QED BY <2>1 DEF RamAddr
<1> QED BY <1>1, <1>2, StateFields

\* Every address is a byte of RAM, a byte of XRAM or a register.
LEMMA AddressKinds ==
  ASSUME NEW a \in Address
  PROVE  \/ \E i \in RamAddr : a = <<"ram", i>>
         \/ \E i \in 0 .. XramSize - 1 : a = <<"xram", i>>
         \/ \E n \in Plain : a = <<"sfr", n>>
         \/ a = <<"sfr", "psw">> \/ a = <<"sfr", "sp">>
         \/ a = <<"sfr", "p3">> \/ a = <<"sfr", "vtrbf">>
BY DEF Address, Ram, Xram, Sfr

LEMMA BankTypes ==
  ASSUME NEW s \in State
  PROVE  /\ Bank(s) \in 0 .. 1 /\ XBank(s) \in 0 .. 2 /\ WramAt(s) \in WramAddr
         /\ WithBit(s.psw, P, Odd[s.acc]) \in Byte
         /\ HasBit(WithBit(s.psw, P, Odd[s.acc]), P) = Odd[s.acc]
<1>1. Bank(s) \in 0 .. 1
  BY DEF Bank, AsBit
<1>2. XBank(s) \in 0 .. 2
  <2>1. s.xbnk \in 0 .. 255
    BY StateBytes
  <2> QED BY <2>1 DEF XBank
<1>3. WramAt(s) \in WramAddr
  <2> DEFINE x == s.vrmad1 % WramHalf
  <2>1. WramHalf \in Nat \ {0} /\ s.vrmad1 \in Nat
    <3>1. WramHalf \in Nat \ {0}
      BY MachineConstants
    <3>2. s.vrmad1 \in 0 .. 255
      BY StateBytes
    <3> QED BY ONLY <3>1, <3>2
  <2>2. x \in 0 .. WramHalf - 1
    BY <2>1
  <2>3. s.vrmad2 % 2 \in {0, 1}
    <3>1. s.vrmad2 \in 0 .. 255
      BY StateBytes
    <3> QED BY <3>1
  <2> HIDE DEF x
  <2>4. WramAt(s) = (s.vrmad2 % 2) * WramHalf + x
    BY DEF WramAt, x
  <2>5. CASE s.vrmad2 % 2 = 0
    BY <2>1, <2>2, <2>4, <2>5 DEF WramAddr
  <2>6. CASE s.vrmad2 % 2 = 1
    BY <2>1, <2>2, <2>4, <2>6 DEF WramAddr
  <2> QED BY <2>3, <2>5, <2>6
<1>4. s.psw \in 0 .. 255 /\ Odd[s.acc] \in BOOLEAN /\ P \in 0 .. 7
  BY StateFields, StateBytes, OddType, SMTT(30) DEF P
<1>5. WithBit(s.psw, P, Odd[s.acc]) \in Byte
  BY <1>4, Bytes, WithBitType
<1>6. HasBit(WithBit(s.psw, P, Odd[s.acc]), P) = Odd[s.acc]
  BY <1>4, BitZero
<1> QED BY <1>1, <1>2, <1>3, <1>5, <1>6

LEMMA ValueType ==
  ASSUME NEW s \in State, NEW a \in Address
  PROVE  Value(s, a) \in Byte
<1>1. CASE \E i \in RamAddr : a = <<"ram", i>>
  <2>1. PICK i \in RamAddr : a = <<"ram", i>>
    BY <1>1
  <2>2. s.ram[Bank(s)][i] \in Byte
    BY StateFields, BankTypes
  <2>3. Value(s, a) = s.ram[Bank(s)][i]
    BY <2>1 DEF Value, Sfr
  <2> QED BY <2>2, <2>3
<1>2. CASE \E i \in 0 .. XramSize - 1 : a = <<"xram", i>>
  <2>1. PICK i \in 0 .. XramSize - 1 : a = <<"xram", i>>
    BY <1>2
  <2>2. s.xram[XBank(s)][i] \in Byte
    BY StateFields, BankTypes
  <2>3. Value(s, a) = s.xram[XBank(s)][i]
    BY <2>1 DEF Value, Sfr
  <2> QED BY <2>2, <2>3
<1>3. CASE \E n \in Plain : a = <<"sfr", n>>
  <2>1. PICK n \in Plain : a = <<"sfr", n>>
    BY <1>3
  <2>2. Value(s, a) = s[n]
    BY <2>1 DEF Value, Sfr, Plain
  <2>3. s[n] \in Byte
    BY DEF State, Plain
  <2> QED BY <2>2, <2>3
<1>4. CASE a = <<"sfr", "psw">>
  BY <1>4, BankTypes DEF Value, Sfr
<1>5. CASE a = <<"sfr", "sp">>
  <2>1. Value(s, a) = s.sp
    BY <1>5 DEF Value, Sfr
  <2>2. s.sp \in 0 .. 255
    BY StateBytes
  <2> QED BY <2>1, <2>2, Bytes
<1>6. CASE a = <<"sfr", "p3">>
  <2>1. Value(s, a) = (Size - 1) - s.buttons
    BY <1>6 DEF Value, Sfr
  <2>2. s.buttons \in 0 .. 255
    BY StateBytes
  <2>3. 255 - s.buttons \in 0 .. 255
    BY <2>2
  <2> QED BY <2>1, <2>3, Bytes
<1>7. CASE a = <<"sfr", "vtrbf">>
  <2>1. Value(s, a) = s.wram[WramAt(s)]
    BY <1>7 DEF Value, Sfr
  <2> QED BY <2>1, StateFields, BankTypes
<1> QED BY <1>1, <1>2, <1>3, <1>4, <1>5, <1>6, <1>7, AddressKinds

\* t is s but for its registers: neither RAM nor XRAM nor SP has changed, and P
\* is what it was or the parity of ACC.
Aside(s, t) ==
  /\ t \in State
  /\ t.ram = s.ram /\ t.sp = s.sp /\ t.xram = s.xram /\ t.dirty = s.dirty
  /\ HasBit(t.psw, P) \in {HasBit(s.psw, P), Odd[s.acc]}

\* t is s with address a written.
Wrote(s, t, a) ==
  /\ t \in State
  /\ HasBit(t.psw, P) \in {HasBit(s.psw, P), Odd[s.acc]}
  /\ t.dirty \/ (t.xram = s.xram /\ t.dirty = s.dirty)
  /\ a = Sfr("sp") \/ t.sp = s.sp
  /\ \A i \in RamAddr :
       t.ram[0][i] = s.ram[0][i] \/ (Bank(s) = 0 /\ a = Ram(i))

LEMMA BumpedAside ==
  ASSUME NEW s \in State
  PROVE  Aside(s, Bumped(s)) /\ Bumped(s).psw = s.psw /\ Bumped(s).acc = s.acc
<1> DEFINE next == (WramAt(s) + 1) % (2 * WramHalf)
           one == next % WramHalf
           two == next \div WramHalf
<1>1. one \in Byte /\ two \in Byte
  <2>1. /\ WramHalf \in Nat \ {0} /\ WramHalf <= 256 /\ 2 * WramHalf \in Nat \ {0}
        /\ WramAt(s) + 1 \in Nat
    BY MachineConstants, BankTypes, Bytes DEF WramAddr
  <2>2. next \in 0 .. 2 * WramHalf - 1
    <3> DEFINE x == WramAt(s) + 1
               n == 2 * WramHalf
    <3>1. x \in Nat /\ n \in Nat \ {0}
      BY <2>1
    <3> HIDE DEF x, n
    <3>2. x % n \in 0 .. n - 1
      BY <3>1
    <3> QED BY <3>2 DEF x, n
  <2> HIDE DEF next
  <2>3. one \in 0 .. WramHalf - 1
    BY <2>1, <2>2
  <2>4. next = two * WramHalf + one /\ two \in Int
    BY <2>1, <2>2
  <2> HIDE DEF one, two
  <2>5. two \in 0 .. 1
    <3>1. CASE two >= 2
      <4> DEFINE d == two - 2
      <4>1. d \in Nat /\ two = d + 2 BY <2>4, <3>1
      <4> HIDE DEF d
      <4>2. d * WramHalf \in Nat BY <2>1, <4>1
      <4>3. two * WramHalf = d * WramHalf + 2 * WramHalf BY <2>1, <4>1
      <4> QED BY <2>1, <2>2, <2>3, <2>4, <4>2, <4>3
    <3>2. CASE two < 0
      <4> DEFINE d == - 1 - two
      <4>1. d \in Nat /\ two = - 1 - d BY <2>4, <3>2
      <4> HIDE DEF d
      <4>2. d * WramHalf \in Nat BY <2>1, <4>1
      <4>3. two * WramHalf = - WramHalf - d * WramHalf BY <2>1, <4>1
      <4> QED BY <2>1, <2>2, <2>3, <2>4, <4>2, <4>3
    <3> QED BY <2>4, <3>1, <3>2
  <2> QED BY <2>1, <2>3, <2>5, Bytes
<1>2. Bumped(s) = IF HasBit(s.vsel, 4)
                  THEN [s EXCEPT !.vrmad1 = one, !.vrmad2 = two] ELSE s
  BY DEF Bumped
<1> HIDE DEF one, two
<1>3. CASE HasBit(s.vsel, 4)
  BY <1>1, <1>2, <1>3, ZenonT(40) DEF State, Aside
<1>4. CASE ~HasBit(s.vsel, 4)
  BY <1>2, <1>4 DEF Aside
<1> QED BY <1>3, <1>4

LEMMA TouchedAside ==
  ASSUME NEW s \in State, NEW a \in Address
  PROVE  /\ Aside(s, Touched(s, a)) /\ Touched(s, a).acc = s.acc
         /\ a[1] = "ram" => Touched(s, a) = s
<1>1. CASE a = <<"sfr", "psw">>
  <2> DEFINE w == WithBit(s.psw, P, Odd[s.acc])
             t == [s EXCEPT !.psw = w]
  <2>1. Touched(s, a) = t
    BY <1>1 DEF Touched, Sfr
  <2>2. w \in Byte /\ HasBit(w, P) = Odd[s.acc]
    BY BankTypes
  <2> HIDE DEF w
  <2>3. /\ t \in State /\ t.psw = w /\ t.ram = s.ram /\ t.sp = s.sp
        /\ t.xram = s.xram /\ t.dirty = s.dirty /\ t.acc = s.acc
    BY <2>2 DEF State
  <2> QED BY <1>1, <2>1, <2>2, <2>3 DEF Aside
<1>2. CASE a = <<"sfr", "vtrbf">>
  <2>1. Touched(s, a) = Bumped(s)
    BY <1>2 DEF Touched, Sfr
  <2> QED BY <1>2, <2>1, BumpedAside
<1>3. CASE a # <<"sfr", "psw">> /\ a # <<"sfr", "vtrbf">>
  <2>1. Touched(s, a) = s
    BY <1>3 DEF Touched, Sfr
  <2> QED BY <2>1 DEF Aside
<1> QED BY <1>1, <1>2, <1>3

LEMMA WrittenWrote ==
  ASSUME NEW s \in State, NEW a \in Address, NEW v \in Byte, NEW t, t = Written(s, a, v)
  PROVE  Wrote(s, t, a) /\ HasBit(t.psw, P) = HasBit(s.psw, P)
<1>1. CASE \E i \in RamAddr : a = <<"ram", i>>
  <2>1. PICK i \in RamAddr : a = <<"ram", i>>
    BY <1>1
  <2> DEFINE k == Bank(s)
             R == [s.ram EXCEPT ![k][i] = v]
  <2>2. t = [s EXCEPT !.ram = R]
    BY <2>1 DEF Written, Sfr
  <2>3. k \in 0 .. 1 /\ s.ram \in [0 .. 1 -> [RamAddr -> Byte]]
    BY BankTypes, StateFields
  <2>4. /\ R \in [0 .. 1 -> [RamAddr -> Byte]]
        /\ \A j \in RamAddr : R[0][j] = s.ram[0][j] \/ (k = 0 /\ j = i)
    <3> HIDE DEF k
    <3> QED BY <2>3
  <2> HIDE DEF k, R
  <2>5. /\ t \in State /\ t.ram = R /\ t.psw = s.psw /\ t.sp = s.sp
        /\ t.xram = s.xram /\ t.dirty = s.dirty
    BY <2>2, <2>4 DEF State
  <2>6. \A j \in RamAddr : t.ram[0][j] = s.ram[0][j] \/ (Bank(s) = 0 /\ a = Ram(j))
    BY <2>1, <2>4, <2>5 DEF Ram, k
  <2> QED BY <2>5, <2>6 DEF Wrote
<1>2. CASE \E i \in 0 .. XramSize - 1 : a = <<"xram", i>>
  <2>1. PICK i \in 0 .. XramSize - 1 : a = <<"xram", i>>
    BY <1>2
  <2> DEFINE k == XBank(s)
             X == [s.xram EXCEPT ![k][i] = v]
  <2>2. t = [s EXCEPT !.xram = X, !.dirty = TRUE]
    BY <2>1 DEF Written, XramWritten, Sfr
  <2>3. k \in 0 .. 2 /\ s.xram \in [0 .. 2 -> [0 .. XramSize - 1 -> Byte]]
    BY BankTypes, StateFields
  <2>4. X \in [0 .. 2 -> [0 .. XramSize - 1 -> Byte]]
    <3> HIDE DEF k
    <3> QED BY <2>3
  <2> HIDE DEF k, X
  <2>5. /\ t \in State /\ t.ram = s.ram /\ t.psw = s.psw /\ t.sp = s.sp /\ t.dirty
    BY <2>2, <2>4, ZenonT(40) DEF State
  <2> QED BY <2>5 DEF Wrote
<1>3. CASE \E n \in Plain : a = <<"sfr", n>>
  <2>1. PICK n \in Plain : a = <<"sfr", n>>
    BY <1>3
  <2>2. t = [s EXCEPT ![n] = v]
    BY <2>1 DEF Written, Sfr, Plain
  <2>3. /\ t \in State /\ t.ram = s.ram /\ t.psw = s.psw /\ t.sp = s.sp
        /\ t.xram = s.xram /\ t.dirty = s.dirty
    BY <2>2, ZenonT(40) DEF State, Plain
  <2> QED BY <2>3 DEF Wrote
<1>4. CASE a = <<"sfr", "psw">>
  <2> DEFINE w == WithBit(v, P, HasBit(s.psw, P))
  <2>1. t = [s EXCEPT !.psw = w]
    BY <1>4 DEF Written, PswWritten, Sfr
  <2>2. v \in 0 .. 255 /\ HasBit(s.psw, P) \in BOOLEAN /\ P \in 0 .. 7
    BY Bytes, SMTT(30) DEF HasBit, P
  <2>3. w \in Byte /\ HasBit(w, P) = HasBit(s.psw, P)
    BY <2>2, Bytes, WithBitType, BitZero
  <2> HIDE DEF w
  <2>4. /\ t \in State /\ t.ram = s.ram /\ t.psw = w /\ t.sp = s.sp
        /\ t.xram = s.xram /\ t.dirty = s.dirty
    BY <2>1, <2>3 DEF State
  <2> QED BY <2>3, <2>4 DEF Wrote
<1>5. CASE a = <<"sfr", "sp">>
  <2> DEFINE w == v % RamSize
  <2>1. t = [s EXCEPT !.sp = w]
    BY <1>5 DEF Written, Sfr
  <2>2. w \in RamAddr
    <3>1. v \in Nat /\ RamSize \in Nat \ {0}
      BY Bytes, MachineConstants
    <3> QED BY <3>1 DEF RamAddr
  <2> HIDE DEF w
  <2>3. /\ t \in State /\ t.ram = s.ram /\ t.psw = s.psw
        /\ t.xram = s.xram /\ t.dirty = s.dirty
    BY <2>1, <2>2 DEF State
  <2> QED BY <1>5, <2>3 DEF Wrote, Sfr
<1>6. CASE a = <<"sfr", "p3">>
  <2>1. t = [s EXCEPT !.p3 = v]
    BY <1>6 DEF Written, Sfr
  <2>2. /\ t \in State /\ t.ram = s.ram /\ t.psw = s.psw /\ t.sp = s.sp
        /\ t.xram = s.xram /\ t.dirty = s.dirty
    BY <2>1 DEF State
  <2> QED BY <2>2 DEF Wrote
<1>7. CASE a = <<"sfr", "vtrbf">>
  <2> DEFINE M == [s.wram EXCEPT ![WramAt(s)] = v]
             u == [s EXCEPT !.wram = M]
  <2>1. t = Bumped(u)
    BY <1>7 DEF Written, Sfr
  <2>2. M \in [WramAddr -> Byte]
    BY StateFields, BankTypes
  <2> HIDE DEF M
  <2>3. /\ u \in State /\ u.ram = s.ram /\ u.psw = s.psw /\ u.sp = s.sp
        /\ u.xram = s.xram /\ u.dirty = s.dirty
    BY <2>2 DEF State
  <2> HIDE DEF u
  <2>4. Aside(u, t) /\ t.psw = u.psw
    BY <2>1, <2>3, BumpedAside
  <2>5. /\ t \in State /\ t.ram = s.ram /\ t.psw = s.psw /\ t.sp = s.sp
        /\ t.xram = s.xram /\ t.dirty = s.dirty
    BY <2>3, <2>4 DEF Aside
  <2> QED BY <2>5 DEF Wrote
<1> QED BY <1>1, <1>2, <1>3, <1>4, <1>5, <1>6, <1>7, AddressKinds

LEMMA RewrittenWrote ==
  ASSUME NEW s \in State, NEW a \in Address, NEW v \in Byte, NEW t,
         t = Written(Touched(s, a), a, v)
  PROVE  Wrote(s, t, a)
<1> DEFINE u == Touched(s, a)
<1>1. Aside(s, u) /\ u \in State
  BY TouchedAside DEF Aside
<1> HIDE DEF u
<1>2. Wrote(u, t, a) /\ HasBit(t.psw, P) = HasBit(u.psw, P)
  BY <1>1, WrittenWrote DEF u
<1>3. \A i \in RamAddr : a = Ram(i) => u = s
  BY TouchedAside DEF Ram, u
<1> QED BY <1>1, <1>2, <1>3 DEF Wrote, Aside

-----------------------------------------------------------------------------
(* Instructions that write only registers.                                  *)

LEMMA IndirectType ==
  ASSUME NEW s \in State, NEW ri \in 0 .. 3
  PROVE  Indirect(s, ri) \in Address
<1> DEFINE one == AsBit(HasBit(s.psw, IRBK1))
           two == AsBit(HasBit(s.psw, IRBK0))
           at == 4 * (2 * one + two) + ri
           byte == s.ram[Bank(s)][at]
<1>1. one \in {0, 1} /\ two \in {0, 1}
  BY DEF AsBit
<1>2. Indirect(s, ri) = IF ri >= 2 THEN UpperHalf[byte % RamSize] ELSE Ram(byte % RamSize)
  BY DEF Indirect
<1> HIDE DEF one, two
<1>3. at \in RamAddr
  <2>1. at \in 0 .. 15
    BY <1>1
  <2>2. RamSize \in Nat /\ 16 <= RamSize
    BY MachineConstants
  <2> QED BY <2>1, <2>2 DEF RamAddr
<1> HIDE DEF at
<1>4. byte \in Byte
  BY <1>3, StateFields, BankTypes
<1> HIDE DEF byte
<1>5. byte % RamSize \in RamAddr
  <2>1. byte \in Nat /\ RamSize \in Nat \ {0}
    BY <1>4, Bytes, MachineConstants
  <2> QED BY <2>1 DEF RamAddr
<1>6. UpperHalf[byte % RamSize] \in Address
  BY <1>5, MachineConstants
<1>7. Ram(byte % RamSize) \in Address
  BY <1>5 DEF Address
<1> QED BY <1>2, <1>6, <1>7

\* t is u with other values in ACC, B, C and PSW, P kept.
Registers(u, t) ==
  /\ t \in State
  /\ t.ram = u.ram /\ t.sp = u.sp /\ t.xram = u.xram /\ t.dirty = u.dirty
  /\ HasBit(t.psw, P) = HasBit(u.psw, P)

LEMMA RegistersAside ==
  ASSUME NEW s, NEW u, NEW t, Aside(s, u), Registers(u, t)
  PROVE  Aside(s, t)
BY DEF Aside, Registers

LEMMA FlagsRegisters ==
  ASSUME NEW s \in State, NEW c, NEW ac, NEW ov
  PROVE  /\ Registers(s, Flags(s, c, ac, ov))
         /\ Registers(s, [s EXCEPT !.psw = WithBit(@, CY, c)])
<1> DEFINE w == WithBit(s.psw, CY, c)
           x == WithBit(w, AC, ac)
           y == WithBit(x, OV, ov)
<1>1. s.psw \in 0 .. 255 /\ CY \in 0 .. 7 /\ AC \in 0 .. 7 /\ OV \in 0 .. 7
  BY StateBytes, SMTT(30) DEF CY, AC, OV
<1>2. w \in 0 .. 255 /\ HasBit(w, P) = HasBit(s.psw, P)
  BY <1>1, WithBitType, BitZero, ZenonT(40)
<1>3. x \in 0 .. 255 /\ HasBit(x, P) = HasBit(w, P)
  <2> HIDE DEF w
  <2> QED BY <1>1, <1>2, WithBitType, BitZero, ZenonT(40)
<1>4. y \in 0 .. 255 /\ HasBit(y, P) = HasBit(x, P)
  <2> HIDE DEF x
  <2> QED BY <1>1, <1>3, WithBitType, BitZero
<1>5. Flags(s, c, ac, ov) = [s EXCEPT !.psw = y]
  BY DEF Flags
<1> HIDE DEF w, x, y
<1>6. w \in Byte /\ y \in Byte
  BY <1>2, <1>4, Bytes
<1>7. ASSUME NEW z \in Byte, HasBit(z, P) = HasBit(s.psw, P)
      PROVE  Registers(s, [s EXCEPT !.psw = z])
  BY <1>7 DEF Registers, State
<1>8. Registers(s, [s EXCEPT !.psw = w]) /\ Registers(s, [s EXCEPT !.psw = y])
  BY <1>2, <1>3, <1>4, <1>6, <1>7
<1> QED BY <1>5, <1>8 DEF w

LEMMA ResultRegisters ==
  ASSUME NEW u \in State, NEW x \in Byte, NEW y \in Byte, NEW z \in Byte
  PROVE  /\ Registers(u, [u EXCEPT !.acc = x])
         /\ Registers(u, [u EXCEPT !.acc = x, !.b = y, !.c = z])
BY DEF Registers, State

LEMMA RegistersTwice ==
  ASSUME NEW s, NEW u, NEW t, Registers(s, u), Registers(u, t)
  PROVE  Registers(s, t)
BY DEF Registers

\* Every instruction that ends in Become.
LEMMA CalculateAside ==
  ASSUME TypeOK, Calculate
  PROVE  Aside(m, m') /\ UNCHANGED <<shown, live>>
<1>1. /\ m \in State /\ m.acc \in Byte /\ m.b \in Byte /\ m.c \in Byte
      /\ Carry \in 0 .. 1
  BY StateFields DEF TypeOK, Carry, AsBit
<1>2. \A a \in Reach : a \in Address
  BY <1>1, IndirectType, MachineConstants DEF Reach
<1>3. Aside(m, m)
  BY <1>1 DEF Aside
<1>4. ASSUME NEW s, Aside(m, s), NEW l, NEW r, Compare(s, l, r)
      PROVE  Aside(m, m') /\ UNCHANGED <<shown, live>>
  <2>1. s \in State
    BY <1>4 DEF Aside
  <2>2. /\ m' = [s EXCEPT !.psw = WithBit(@, CY, l < r)] /\ UNCHANGED <<shown, live>>
    BY <1>4 DEF Compare, Become
  <2>3. Registers(s, [s EXCEPT !.psw = WithBit(@, CY, l < r)])
    BY <2>1, FlagsRegisters
  <2> QED BY <1>4, <2>2, <2>3, RegistersAside
<1>5. ASSUME NEW s, Aside(m, s), NEW v \in Byte, Operate(s, v)
      PROVE  Aside(m, m') /\ UNCHANGED <<shown, live>>
  <2>1. s \in State
    BY <1>5 DEF Aside
  <2>2. ASSUME NEW r, r.acc \in Byte, Arithmetic(s, r)
        PROVE  Aside(m, m') /\ UNCHANGED <<shown, live>>
    <3> DEFINE f == Flags(s, r.cy, r.ac, r.ov)
    <3>1. m' = [f EXCEPT !.acc = r.acc] /\ UNCHANGED <<shown, live>>
      BY <2>2 DEF Arithmetic, Become
    <3>2. Registers(s, f)
      BY <2>1, FlagsRegisters
    <3> HIDE DEF f
    <3>3. Registers(f, [f EXCEPT !.acc = r.acc])
      BY <2>2, <3>2, ResultRegisters DEF Registers
    <3> QED BY <1>5, <3>1, <3>2, <3>3, RegistersTwice, RegistersAside
  <2>3. ASSUME NEW r \in Byte, Logic(s, r)
        PROVE  Aside(m, m') /\ UNCHANGED <<shown, live>>
    <3>1. m' = [s EXCEPT !.acc = r] /\ UNCHANGED <<shown, live>>
      BY <2>3 DEF Logic, Become
    <3>2. Registers(s, [s EXCEPT !.acc = r])
      BY <2>1, <2>3, ResultRegisters
    <3> QED BY <1>5, <3>1, <3>2, RegistersAside
  <2>4. \A c \in {0, Carry} : Add(m.acc, v, c).acc \in Byte /\ Sub(m.acc, v, c).acc \in Byte
    BY <1>1, <1>5, SumType
  <2>5. \A r \in {And(m.acc, v), Or(m.acc, v), Xor(m.acc, v)} : r \in Byte
    BY <1>1, <1>5, LogicType
  <2>6. \/ \E c \in {0, Carry} : Arithmetic(s, Add(m.acc, v, c)) \/ Arithmetic(s, Sub(m.acc, v, c))
        \/ \E r \in {And(m.acc, v), Or(m.acc, v), Xor(m.acc, v)} : Logic(s, r)
        \/ Compare(s, m.acc, v)
    BY <1>5 DEF Operate
  <2> QED BY <1>4, <1>5, <2>2, <2>3, <2>4, <2>5, <2>6
<1>6. ASSUME NEW r, r.acc \in Byte, r.b \in Byte, r.c \in Byte,
             Become([Flags(m, FALSE, HasBit(m.psw, AC), r.ov)
                       EXCEPT !.acc = r.acc, !.b = r.b, !.c = r.c])
      PROVE  Aside(m, m') /\ UNCHANGED <<shown, live>>
  <2> DEFINE f == Flags(m, FALSE, HasBit(m.psw, AC), r.ov)
  <2>1. m' = [f EXCEPT !.acc = r.acc, !.b = r.b, !.c = r.c] /\ UNCHANGED <<shown, live>>
    BY <1>6 DEF Become
  <2>2. Registers(m, f)
    BY <1>1, FlagsRegisters
  <2> HIDE DEF f
  <2>3. Registers(f, [f EXCEPT !.acc = r.acc, !.b = r.b, !.c = r.c])
    <3> DEFINE x == r.acc
               y == r.b
               z == r.c
    <3>1. f \in State /\ x \in Byte /\ y \in Byte /\ z \in Byte
      BY <1>6, <2>2 DEF Registers
    <3> HIDE DEF x, y, z
    <3>2. Registers(f, [f EXCEPT !.acc = x, !.b = y, !.c = z])
      BY <3>1, ResultRegisters
    <3> QED BY <3>2 DEF x, y, z
  <2> QED BY <1>3, <2>1, <2>2, <2>3, RegistersTwice, RegistersAside
<1>7. ASSUME NEW r, r.acc \in Byte, Rotate(r)
      PROVE  Aside(m, m') /\ UNCHANGED <<shown, live>>
  <2> DEFINE f == [m EXCEPT !.psw = WithBit(@, CY, r.cy = 1)]
  <2>1. Registers(m, f)
    BY <1>1, FlagsRegisters
  <2>2. m' = [f EXCEPT !.acc = r.acc] /\ UNCHANGED <<shown, live>>
    BY <1>1, <1>7 DEF Rotate, Become, State
  <2> HIDE DEF f
  <2>3. Registers(f, [f EXCEPT !.acc = r.acc])
    BY <1>7, <2>1, ResultRegisters DEF Registers
  <2> QED BY <1>3, <2>1, <2>2, <2>3, RegistersTwice, RegistersAside
<1>8. ASSUME NEW x \in Byte, Become([m EXCEPT !.acc = x])
      PROVE  Aside(m, m') /\ UNCHANGED <<shown, live>>
  BY <1>1, <1>3, <1>8, ResultRegisters, RegistersAside DEF Become
<1>9. CASE \E a \in Reach : Operate(Touched(m, a), Value(m, a))
  <2>1. PICK a \in Reach : Operate(Touched(m, a), Value(m, a))
    BY <1>9
  <2>2. Aside(m, Touched(m, a)) /\ Value(m, a) \in Byte
    BY <1>1, <1>2, TouchedAside, ValueType
  <2> QED BY <1>5, <2>1, <2>2
<1>10. CASE \E v \in Values : Operate(m, v)
  <2>1. PICK v \in Values : Operate(m, v)
    BY <1>10
  <2>2. v \in Byte
    BY MachineConstants
  <2> QED BY <1>3, <1>5, <2>1, <2>2
<1>11. CASE \E a \in Reach, v \in Values : Compare(Touched(m, a), Value(m, a), v)
  <2>1. PICK a \in Reach, v \in Values : Compare(Touched(m, a), Value(m, a), v)
    BY <1>11
  <2>2. Aside(m, Touched(m, a))
    BY <1>1, <1>2, TouchedAside
  <2> QED BY <1>4, <2>1, <2>2
<1>12. CASE MulInsn
  <2> DEFINE r == Mul(m.acc, m.c, m.b)
  <2>1. r.acc \in Byte /\ r.b \in Byte /\ r.c \in Byte
    BY <1>1, ProductType
  <2>2. Become([Flags(m, FALSE, HasBit(m.psw, AC), r.ov)
                  EXCEPT !.acc = r.acc, !.b = r.b, !.c = r.c])
    BY <1>12 DEF MulInsn
  <2> HIDE DEF r
  <2> QED BY <1>6, <2>1, <2>2
<1>13. CASE DivInsn
  <2> DEFINE r == Div(m.acc, m.c, m.b)
  <2>1. r.acc \in Byte /\ r.b \in Byte /\ r.c \in Byte
    BY <1>1, QuotientType
  <2>2. Become([Flags(m, FALSE, HasBit(m.psw, AC), r.ov)
                  EXCEPT !.acc = r.acc, !.b = r.b, !.c = r.c])
    BY <1>13 DEF DivInsn
  <2> HIDE DEF r
  <2> QED BY <1>6, <2>1, <2>2
<1>14. CASE Rotate(RolC(m.acc, Carry))
  BY <1>1, <1>7, <1>14, RotateType
<1>15. CASE Rotate(RorC(m.acc, Carry))
  BY <1>1, <1>7, <1>15, RotateType
<1>16. m.acc \div (Size \div 2) \in 0 .. 1 /\ m.acc % 2 \in 0 .. 1
  <2>1. m.acc \in 0 .. 255
    BY <1>1, StateBytes
  <2>2. 256 \div 2 = 128
    OBVIOUS
  <2> QED BY <2>1, <2>2, Bytes
<1>17. CASE Rol
  <2>1. RolC(m.acc, m.acc \div (Size \div 2)).acc \in Byte
    BY <1>1, <1>16, RotateType
  <2>2. Become([m EXCEPT !.acc = RolC(m.acc, m.acc \div (Size \div 2)).acc])
    BY <1>17 DEF Rol
  <2> QED BY <1>8, <2>1, <2>2
<1>18. CASE Ror
  <2>1. RorC(m.acc, m.acc % 2).acc \in Byte
    BY <1>1, <1>16, RotateType
  <2>2. Become([m EXCEPT !.acc = RorC(m.acc, m.acc % 2).acc])
    BY <1>18 DEF Ror
  <2> QED BY <1>8, <2>1, <2>2
<1> QED BY <1>9, <1>10, <1>11, <1>12, <1>13, <1>14, <1>15, <1>17, <1>18 DEF Calculate

-----------------------------------------------------------------------------
(* The stack, seen as a clock of RamSize hours.                             *)

LEMMA ClockWraps ==
  ASSUME NEW n \in Nat \ {0}, NEW x \in Int, NEW y \in Int
  PROVE  ((x % n) - y) % n = (x - y) % n
<1> DEFINE q == x \div n
           r == x % n
           z == (r - y) % n
           k == (r - y) \div n
<1>1. q \in Int /\ r \in Int /\ x = q * n + r
  OBVIOUS
<1> HIDE DEF q, r
<1>2. z \in 0 .. n - 1 /\ k \in Int /\ r - y = k * n + z
  BY <1>1
<1> HIDE DEF z, k
<1>3. (q + k) * n = q * n + k * n /\ q * n \in Int /\ k * n \in Int
  BY <1>1, <1>2
<1>4. x - y = (q + k) * n + z
  BY <1>1, <1>2, <1>3
<1>5. (x - y) % n = z
  <2> DEFINE j == q + k
  <2>1. j \in Int /\ x - y = j * n + z
    BY <1>1, <1>2, <1>4
  <2> HIDE DEF j
  <2>2. (j * n + z) % n = z
    BY <1>2, <2>1
  <2> QED BY <2>1, <2>2
<1> QED BY <1>5 DEF z, r

\* Two hours less than a full turn apart differ.
LEMMA ClockApart ==
  ASSUME NEW n \in Nat \ {0}, NEW x \in Int, NEW d \in 1 .. n - 1
  PROVE  (x - d) % n # x % n
<1> DEFINE q == x \div n
           r == x % n
           k == (x - d) \div n
           z == (x - d) % n
<1>1. q \in Int /\ r \in 0 .. n - 1 /\ x = q * n + r
  OBVIOUS
<1>2. k \in Int /\ z \in 0 .. n - 1 /\ x - d = k * n + z
  BY <1>1
<1> HIDE DEF q, r, k, z
<1>3. SUFFICES ASSUME z = r PROVE FALSE
  BY DEF z, r
<1> DEFINE e == q - k
<1>4. e \in Int /\ d = e * n
  <2>1. e * n = q * n - k * n /\ q * n \in Int /\ k * n \in Int
    BY <1>1, <1>2
  <2> QED BY <1>1, <1>2, <1>3, <2>1
<1> HIDE DEF e
<1>5. CASE e >= 1
  <2> DEFINE f == e - 1
  <2>1. f \in Nat /\ e = f + 1 BY <1>4, <1>5
  <2> HIDE DEF f
  <2>2. f * n \in Nat /\ e * n = f * n + n BY <2>1
  <2> QED BY <1>4, <2>2
<1>6. CASE e <= 0
  <2> DEFINE f == - e
  <2>1. f \in Nat /\ e = - f BY <1>4, <1>6
  <2> HIDE DEF f
  <2>2. f * n \in Nat /\ e * n = - (f * n) BY <2>1
  <2> QED BY <1>4, <2>2
<1> QED BY <1>4, <1>5, <1>6

-----------------------------------------------------------------------------
(* The inductive invariant.                                                 *)

\* No more is remembered of the stack than it holds.
LiveFits == Len(live) <= RamSize

\* The picture shown is that of XRAM, dot by dot, until XRAM is written.
ShowsXram ==
  shown # NotShown /\ ~m.dirty =>
    /\ shown.icons = m.xram[2][0]
    /\ \A y \in 0 .. Height - 1, x \in 0 .. Width - 1 :
         shown.dots[y][x] = vmu_lcd_pixel(x, y)

IInv == TypeOK /\ LiveFits /\ PopsWhatWasPushed /\ ShowsXram

ParityStep == HasBit(m'.psw, P) \in {HasBit(m.psw, P), Odd[m.acc]}
BankStep ==
  HasBit(m.psw, RAMBK0) =>
    \A i \in RamAddr : m'.ram[0][i] # m.ram[0][i] =>
      i = m'.sp /\ m'.sp = (m.sp + 1) % RamSize

\* What every instruction does.
Good == IInv' /\ ParityStep /\ BankStep

Remembered == [at : RamAddr, val : Byte]

\* Under the invariant a step that leaves the display or marks it dirty keeps
\* the picture true.
LEMMA StillShows ==
  ASSUME ShowsXram, UNCHANGED shown,
         m'.dirty \/ (m'.xram = m.xram /\ m'.dirty = m.dirty)
  PROVE  ShowsXram'
<1> SUFFICES ASSUME shown' # NotShown, ~m'.dirty PROVE
      /\ shown'.icons = m'.xram[2][0]
      /\ \A y \in 0 .. Height - 1, x \in 0 .. Width - 1 :
           shown'.dots[y][x] = (vmu_lcd_pixel(x, y))'
  BY DEF ShowsXram, NotShown, Height, Width
<1>1. m'.xram = m.xram /\ ~m.dirty /\ shown # NotShown
  BY DEF NotShown
<1>2. \A x, y : (vmu_lcd_pixel(x, y))' = vmu_lcd_pixel(x, y)
  BY <1>1 DEF vmu_lcd_pixel, HasBit, line_base
<1> QED BY <1>1, <1>2 DEF ShowsXram

LEMMA AsideKeeps ==
  ASSUME IInv, Aside(m, m'), UNCHANGED <<shown, live>>
  PROVE  Good
<1>1. TypeOK'
  BY DEF IInv, TypeOK, Aside, NotShown, Picture, State, Height, Width, RamAddr, WramAddr, Byte, Size
<1>2. LiveFits' /\ PopsWhatWasPushed'
  BY DEF IInv, LiveFits, PopsWhatWasPushed, Aside
<1>3. ShowsXram'
  BY StillShows DEF IInv, Aside
<1>4. ParityStep /\ BankStep
  BY DEF Aside, ParityStep, BankStep
<1> QED BY <1>1, <1>2, <1>3, <1>4 DEF Good, IInv

LEMMA WroteKeeps ==
  ASSUME IInv, NEW a \in Address, Wrote(m, m', a),
         live' = IF Disturbs(m, a) THEN <<>> ELSE live, UNCHANGED shown
  PROVE  Good
<1>1. /\ m \in State /\ m' \in State /\ live \in Seq(Remembered)
      /\ shown = NotShown \/ shown \in Picture
      /\ RamSize \in Nat /\ Len(live) <= RamSize
  BY MachineConstants DEF IInv, TypeOK, Wrote, Remembered, LiveFits
<1>2. <<>> \in Seq(Remembered) /\ Len(<<>>) = 0
  BY EmptySeq
<1>3. TypeOK'
  <2>1. live' \in Seq(Remembered)
    BY <1>1, <1>2
  <2>2. shown' = NotShown \/ shown' \in Picture
    BY <1>1
  <2> QED BY <1>1, <2>1, <2>2 DEF TypeOK, Remembered, NotShown, Picture, State,
           Height, Width, RamAddr, WramAddr, Byte, Size
<1>4. LiveFits' /\ PopsWhatWasPushed'
  <2>1. CASE Disturbs(m, a)
    <3>1. live' = <<>> /\ Len(live') = 0
      BY <1>2, <2>1
    <3> QED BY <1>1, <3>1 DEF LiveFits, PopsWhatWasPushed
  <2>2. CASE ~Disturbs(m, a)
    <3>1. live' = live
      BY <2>2
    <3>2. a # Sfr("sp") /\ \A k \in 1 .. Len(live) : ~(Bank(m) = 0 /\ a = Ram(live[k].at))
      BY <2>2 DEF Disturbs
    <3>3. m'.sp = m.sp
      BY <3>2 DEF Wrote
    <3>4. ASSUME NEW k \in 1 .. Len(live)
          PROVE  m'.ram[0][live[k].at] = m.ram[0][live[k].at]
      <4>1. live[k].at \in RamAddr
        <5>1. live[k] \in Remembered
          BY <1>1, ElementOfSeq
        <5> QED BY <5>1 DEF Remembered
      <4> QED BY <3>2, <4>1 DEF Wrote
    <3>5. PopsWhatWasPushed'
      BY <3>1, <3>3, <3>4 DEF IInv, PopsWhatWasPushed
    <3>6. LiveFits'
      BY <1>1, <3>1 DEF LiveFits
    <3> QED BY <3>5, <3>6
  <2> QED BY <2>1, <2>2
<1>5. ShowsXram'
  BY StillShows DEF IInv, Wrote
<1>6. ParityStep
  BY DEF Wrote, ParityStep
<1>7. BankStep
  <2>1. HasBit(m.psw, RAMBK0) => Bank(m) # 0
    BY DEF Bank, AsBit
  <2> QED BY <2>1 DEF Wrote, BankStep
<1> QED BY <1>3, <1>4, <1>5, <1>6, <1>7 DEF Good, IInv

-----------------------------------------------------------------------------
(* The steps.                                                               *)

\* Reading an address does not make it hold what is pushed.
LEMMA TouchedDisturbs ==
  ASSUME NEW s \in State, NEW a \in Address
  PROVE  Disturbs(Touched(s, a), a) <=> Disturbs(s, a)
<1>1. CASE a[1] = "ram"
  BY <1>1, TouchedAside
<1>2. CASE a[1] # "ram"
  <2>1. \A i : a # Ram(i)
    BY <1>2 DEF Ram
  <2> QED BY <2>1 DEF Disturbs
<1> QED BY <1>1, <1>2

LEMMA StoreGood ==
  ASSUME IInv, NEW a \in Address, NEW v \in Byte, Store(m, a, v)
  PROVE  Good
<1>1. m \in State
  BY DEF IInv, TypeOK
<1>2. Wrote(m, m', a)
  BY <1>1, WrittenWrote DEF Store
<1> QED BY <1>2, WroteKeeps DEF Store

LEMMA RewriteGood ==
  ASSUME IInv, NEW a \in Address, NEW v \in Byte, Rewrite(a, v)
  PROVE  Good
<1>1. m \in State
  BY DEF IInv, TypeOK
<1>2. /\ m' = Written(Touched(m, a), a, v) /\ UNCHANGED shown
      /\ live' = IF Disturbs(Touched(m, a), a) THEN <<>> ELSE live
  BY DEF Rewrite, Store
<1>3. Wrote(m, m', a)
  BY <1>1, <1>2, RewrittenWrote
<1>4. live' = IF Disturbs(m, a) THEN <<>> ELSE live
  BY <1>1, <1>2, TouchedDisturbs
<1> QED BY <1>2, <1>3, <1>4, WroteKeeps

LEMMA ReachType == ASSUME TypeOK PROVE \A a \in Reach : a \in Address
BY IndirectType, MachineConstants DEF TypeOK, Reach

LEMMA MoveGood == ASSUME IInv, Move PROVE Good
<1>1. m \in State /\ m.acc \in Byte /\ Aside(m, m) /\ \A a \in Reach : a \in Address
  BY StateFields, ReachType DEF IInv, TypeOK, Aside
<1>2. CASE Ldc
  <2> DEFINE x == RomByte((m.trh * Size + m.trl + m.acc) % (Size * Size))
  <2>1. \A a : RomByte(a) \in Byte
    <3>1. 255 \in Byte /\ Size - 1 = 255
      BY Bytes
    <3>2. \A a \in DOMAIN Rom : Rom[a] \in Byte
      BY MachineConstants
    <3> QED BY <3>1, <3>2 DEF RomByte
  <2>2. x \in Byte /\ m' = [m EXCEPT !.acc = x] /\ UNCHANGED <<shown, live>>
    BY <1>2, <2>1 DEF Ldc, Become
  <2> HIDE DEF x
  <2>3. Aside(m, m')
    BY <1>1, <2>2, ResultRegisters, RegistersAside
  <2> QED BY <2>2, <2>3, AsideKeeps
<1>3. ASSUME NEW a \in Reach, Ld(a) PROVE Good
  <2> DEFINE u == Touched(m, a)
             x == Value(m, a)
  <2>1. m' = [u EXCEPT !.acc = x] /\ UNCHANGED <<shown, live>>
    BY <1>3 DEF Ld, Become
  <2>2. x \in Byte /\ Aside(m, u)
    BY <1>1, ValueType, TouchedAside
  <2> HIDE DEF u, x
  <2>3. u \in State
    BY <2>2 DEF Aside
  <2>4. Aside(m, m')
    BY <2>1, <2>2, <2>3, ResultRegisters, RegistersAside
  <2> QED BY <2>1, <2>4, AsideKeeps
<1>4. ASSUME NEW a \in Reach, St(a) PROVE Good
  BY <1>1, <1>4, StoreGood DEF St
<1>5. ASSUME NEW a \in Reach, NEW v \in Values, Mov(a, v) PROVE Good
  <2>1. v \in Byte
    BY MachineConstants
  <2> QED BY <1>1, <1>5, <2>1, StoreGood DEF Mov
<1>6. ASSUME NEW a \in Reach, Xch(a) PROVE Good
  <2> DEFINE u == Written(Touched(m, a), a, m.acc)
             x == Value(m, a)
  <2>1. /\ m' = [u EXCEPT !.acc = x] /\ UNCHANGED shown
        /\ live' = IF Disturbs(m, a) THEN <<>> ELSE live
    BY <1>6 DEF Xch
  <2>2. x \in Byte /\ Wrote(m, u, a)
    BY <1>1, ValueType, RewrittenWrote
  <2> HIDE DEF u, x
  <2>3. Registers(u, m')
    BY <2>1, <2>2, ResultRegisters DEF Wrote
  <2>4. Wrote(m, m', a)
    BY <2>2, <2>3 DEF Wrote, Registers
  <2> QED BY <1>1, <2>1, <2>4, WroteKeeps
<1> QED BY <1>2, <1>3, <1>4, <1>5, <1>6 DEF Move

LEMMA ChangeGood == ASSUME IInv, Change PROVE Good
<1>1. m \in State /\ \A a \in Reach : a \in Address
  BY ReachType DEF IInv, TypeOK
<1>2. PICK a \in Reach :
        \/ Inc(a) \/ Dec(a) \/ Bp(a)
        \/ \E n \in Bits : Set1(a, n) \/ Clr1(a, n) \/ Not1(a, n) \/ Bpc(a, n)
  BY DEF Change
<1> DEFINE x == Value(m, a)
<1>3. a \in Address /\ x \in Byte /\ x \in 0 .. 255
  BY <1>1, ValueType, Bytes, SMTT(30)
<1>4. ASSUME NEW n \in Bits, NEW on PROVE WithBit(x, n, on) \in Byte
  <2>1. n \in 0 .. 7
    BY MachineConstants
  <2> HIDE DEF x
  <2> QED BY <1>3, <2>1, WithBitType, Bytes
<1>5. (x + 1) % Size \in Byte /\ (x - 1) % Size \in Byte
  <2> HIDE DEF x
  <2>1. (x + 1) % 256 \in 0 .. 255 /\ (x - 1) % 256 \in 0 .. 255
    BY <1>3
  <2> QED BY <2>1, Bytes
<1>6. ASSUME Bp(a) PROVE Good
  <2>1. Aside(m, m') /\ UNCHANGED <<shown, live>>
    BY <1>1, <1>3, <1>6, TouchedAside DEF Bp, Become
  <2> QED BY <2>1, AsideKeeps
<1>7. ASSUME Inc(a) \/ Dec(a) PROVE Good
  BY <1>3, <1>5, <1>7, RewriteGood DEF Inc, Dec
<1>8. ASSUME NEW n \in Bits, Set1(a, n) \/ Clr1(a, n) \/ Not1(a, n) PROVE Good
  BY <1>3, <1>4, <1>8, RewriteGood DEF Set1, Clr1, Not1
<1>9. ASSUME NEW n \in Bits, Bpc(a, n) PROVE Good
  BY <1>6, <1>8, <1>9 DEF Bpc
<1> QED BY <1>2, <1>6, <1>7, <1>8, <1>9

\* A push stores behind what is remembered, in bank 0 whatever bank is
\* selected, and nothing remembered is where it stores.
LEMMA PushGood == ASSUME IInv, NEW a \in Operands, Push(a) PROVE Good
<1> DEFINE u == Touched(m, a)
           x == Value(m, a)
           R == RamSize
           top == (m.sp + 1) % R
           kept == IF Len(live) = R THEN Tail(live) ELSE live
           new == [at |-> top, val |-> x]
<1>1. /\ m \in State /\ a \in Address /\ live \in Seq(Remembered)
      /\ shown = NotShown \/ shown \in Picture
      /\ R \in Nat \ {0} /\ R >= 2 /\ Len(live) \in Nat /\ Len(live) <= R
      /\ m.sp \in 0 .. R - 1
  BY MachineConstants, LenProperties, StateFields DEF IInv, TypeOK, Remembered, LiveFits, RamAddr
<1>2. x \in Byte /\ Aside(m, u)
  BY <1>1, ValueType, TouchedAside
<1>3. u \in State /\ u.sp = m.sp /\ u.ram = m.ram /\ u.xram = m.xram /\ u.dirty = m.dirty
  BY <1>2 DEF Aside
<1>4. /\ m' = [u EXCEPT !.sp = top, !.ram[0][top] = x]
      /\ m'.sp = top
      /\ live' = Append(kept, new)
      /\ UNCHANGED shown
  BY <1>3 DEF Push, Pushed, State
<1>5. top \in RamAddr /\ top \in 0 .. R - 1
  BY <1>1 DEF RamAddr
<1> HIDE DEF u, x
<1>6. /\ m' \in State /\ m'.xram = m.xram /\ m'.dirty = m.dirty
      /\ HasBit(m'.psw, P) \in {HasBit(m.psw, P), Odd[m.acc]}
      /\ m'.ram[0][top] = x
      /\ \A i \in RamAddr : i # top => m'.ram[0][i] = m.ram[0][i]
  <2> DEFINE M == [m.ram EXCEPT ![0][top] = x]
             t == top
  <2>1. m' = [u EXCEPT !.sp = t, !.ram = M]
    BY <1>3, <1>4
  <2>2. m.ram \in [0 .. 1 -> [RamAddr -> Byte]]
    BY <1>1, StateFields
  <2>3. /\ M \in [0 .. 1 -> [RamAddr -> Byte]] /\ M[0][t] = x
        /\ \A i \in RamAddr : i # t => M[0][i] = m.ram[0][i]
    <3> HIDE DEF top
    <3> QED BY <1>2, <1>5, <2>2
  <2>4. t \in RamAddr
    BY <1>5
  <2> HIDE DEF t, M
  <2>5. /\ m' \in State /\ m'.xram = u.xram /\ m'.dirty = u.dirty /\ m'.psw = u.psw
        /\ m'.ram = M
    BY <1>3, <2>1, <2>3, <2>4 DEF State
  <2> QED BY <1>2, <1>3, <2>3, <2>5 DEF Aside, t
<1> HIDE DEF top
<1>7. PICK d \in 0 .. 1 :
        /\ kept \in Seq(Remembered)
        /\ Len(kept) = Len(live) - d /\ Len(kept) <= R - 1 /\ Len(kept) \in Nat
        /\ \A k \in 1 .. Len(kept) : kept[k] = live[k + d]
  <2>1. CASE Len(live) = R
    <3>1. live # <<>>
      BY <1>1, <2>1, EmptySeq
    <3>2. /\ Tail(live) \in Seq(Remembered) /\ Len(Tail(live)) = Len(live) - 1
          /\ \A k \in 1 .. Len(Tail(live)) : Tail(live)[k] = live[k + 1]
      BY <1>1, <3>1, HeadTailProperties
    <3>3. kept = Tail(live)
      BY <2>1
    <3> QED BY <1>1, <2>1, <3>2, <3>3
  <2>2. CASE Len(live) # R
    <3>1. kept = live /\ Len(live) <= R - 1 /\ \A k \in 1 .. Len(live) : k + 0 = k
      BY <1>1, <2>2
    <3> QED BY <1>1, <3>1
  <2> QED BY <2>1, <2>2
<1> HIDE DEF kept
<1>8. new \in Remembered
  BY <1>2, <1>5 DEF Remembered
<1>9. /\ live' \in Seq(Remembered) /\ Len(live') = Len(kept) + 1
      /\ live'[Len(kept) + 1] = new
      /\ \A k \in 1 .. Len(kept) : live'[k] = kept[k]
  <2> HIDE DEF new
  <2> QED BY <1>4, <1>7, <1>8
<1>10. TypeOK'
  BY <1>1, <1>4, <1>6, <1>9 DEF TypeOK, Remembered, NotShown, Picture, State,
     Height, Width, RamAddr, WramAddr, Byte, Size
<1>11. LiveFits'
  BY <1>1, <1>7, <1>9 DEF LiveFits
<1>12. PopsWhatWasPushed'
  <2> SUFFICES ASSUME NEW k \in 1 .. Len(live')
               PROVE  /\ live'[k].at = (m'.sp - (Len(live') - k)) % R
                      /\ m'.ram[0][live'[k].at] = live'[k].val
    BY DEF PopsWhatWasPushed
  <2>1. k \in 1 .. Len(kept) \/ k = Len(kept) + 1
    BY <1>7, <1>9
  <2>2. CASE k = Len(kept) + 1
    <3>1. live'[k] = new /\ Len(live') - k = 0
      BY <1>7, <1>9, <2>2
    <3>2. (top - 0) % R = top
      BY <1>1, <1>5
    <3> QED BY <1>4, <1>6, <3>1, <3>2
  <2>3. CASE k \in 1 .. Len(kept)
    <3> DEFINE j == k + d
               e == Len(live) - j
    <3>1. /\ j \in 1 .. Len(live) /\ e \in 0 .. R - 2
          /\ Len(live') - k = e + 1
      BY <1>1, <1>7, <1>9, <2>3
    <3>2. live'[k] = live[j]
      BY <1>7, <1>9, <2>3
    <3>3. live[j].at = (m.sp - e) % R /\ m.ram[0][live[j].at] = live[j].val
      BY <3>1 DEF IInv, PopsWhatWasPushed
    <3> HIDE DEF j, e
    <3>4. (top - (e + 1)) % R = (m.sp - e) % R
      <4>1. m.sp + 1 \in Int /\ e + 1 \in Int /\ (m.sp + 1) - (e + 1) = m.sp - e
        BY <1>1, <3>1
      <4> DEFINE y == m.sp + 1
                 z == e + 1
      <4>2. y \in Int /\ z \in Int /\ y - z = m.sp - e
        BY <4>1
      <4> HIDE DEF y, z
      <4>3. ((y % R) - z) % R = (y - z) % R
        BY <1>1, <4>2, ClockWraps
      <4> QED BY <4>2, <4>3 DEF y, z, top
    <3>5. (m.sp - e) % R # top
      <4> DEFINE y == m.sp + 1
                 z == e + 1
      <4>1. y \in Int /\ z \in 1 .. R - 1 /\ y - z = m.sp - e
        BY <1>1, <3>1
      <4> HIDE DEF y, z
      <4>2. (y - z) % R # y % R
        BY <1>1, <4>1, ClockApart
      <4> QED BY <4>1, <4>2 DEF y, top
    <3>6. live[j].at \in RamAddr
      <4>1. live[j] \in Remembered
        BY <1>1, <3>1, ElementOfSeq
      <4> QED BY <4>1 DEF Remembered
    <3>7. m'.ram[0][live[j].at] = m.ram[0][live[j].at]
      BY <1>6, <3>3, <3>5, <3>6
    <3>8. live'[k].at = (m'.sp - (Len(live') - k)) % R
      BY <1>4, <3>1, <3>2, <3>3, <3>4
    <3> QED BY <3>2, <3>3, <3>7, <3>8
  <2> QED BY <2>1, <2>2, <2>3
<1>13. ShowsXram'
  BY <1>4, <1>6, StillShows DEF IInv
<1>14. ParityStep
  BY <1>6 DEF ParityStep
<1>15. BankStep
  BY <1>4, <1>6 DEF BankStep, top
<1> QED BY <1>10, <1>11, <1>12, <1>13, <1>14, <1>15 DEF Good, IInv

\* A pop forgets the last byte, or all if it writes SP or the stack.
LEMMA PopGood == ASSUME IInv, NEW a \in Operands, Pop(a) PROVE Good
<1> DEFINE s == Popped(m)
           R == RamSize
           n == Len(live) - 1
           shorter == SubSeq(live, 1, n)
<1>1. /\ m \in State /\ a \in Address /\ live \in Seq(Remembered)
      /\ shown = NotShown \/ shown \in Picture
      /\ R \in Nat \ {0} /\ Len(live) \in Nat /\ Len(live) <= R
      /\ m.sp \in 0 .. R - 1
  BY MachineConstants, LenProperties, StateFields DEF IInv, TypeOK, Remembered, LiveFits, RamAddr
<1>2. (m.sp - 1) % R \in RamAddr
  BY <1>1 DEF RamAddr
<1>3. /\ s \in State /\ s.ram = m.ram /\ s.psw = m.psw /\ s.acc = m.acc
      /\ s.xram = m.xram /\ s.dirty = m.dirty /\ s.sp = (m.sp - 1) % R
  <2> DEFINE w == (m.sp - 1) % R
  <2>1. w \in RamAddr /\ s = [m EXCEPT !.sp = w]
    BY <1>2 DEF Popped
  <2> HIDE DEF w
  <2>2. /\ s \in State /\ s.ram = m.ram /\ s.psw = m.psw /\ s.acc = m.acc
        /\ s.xram = m.xram /\ s.dirty = m.dirty /\ s.sp = w
    BY <1>1, <2>1 DEF State
  <2> QED BY <2>2 DEF w
<1>4. PopValue(m) \in Byte
  BY <1>1, StateFields DEF PopValue
<1>5. /\ m' = Written(s, a, PopValue(m)) /\ UNCHANGED shown
      /\ live' = IF live = <<>> \/ Disturbs(s, a) THEN <<>> ELSE shorter
  BY DEF Pop
<1> HIDE DEF s
<1>6. Wrote(s, m', a)
  BY <1>1, <1>3, <1>4, <1>5, WrittenWrote
<1>7. <<>> \in Seq(Remembered) /\ Len(<<>>) = 0
  BY EmptySeq
<1>8. CASE live = <<>> \/ Disturbs(s, a)
  <2>1. live' = <<>> /\ live' \in Seq(Remembered) /\ Len(live') = 0
    BY <1>5, <1>7, <1>8
  <2>2. TypeOK'
    BY <1>1, <1>5, <1>6, <2>1 DEF TypeOK, Wrote, Remembered, NotShown, Picture, State,
       Height, Width, RamAddr, WramAddr, Byte, Size
  <2>3. LiveFits' /\ PopsWhatWasPushed'
    BY <1>1, <2>1 DEF LiveFits, PopsWhatWasPushed
  <2>4. ShowsXram'
    BY <1>3, <1>5, <1>6, StillShows DEF IInv, Wrote
  <2>5. ParityStep
    BY <1>3, <1>6 DEF ParityStep, Wrote
  <2>6. BankStep
    <3>1. HasBit(m.psw, RAMBK0) => Bank(s) # 0
      BY <1>3 DEF Bank, AsBit
    <3> QED BY <1>3, <1>6, <3>1 DEF Wrote, BankStep
  <2> QED BY <2>2, <2>3, <2>4, <2>5, <2>6 DEF Good, IInv
<1>9. CASE live # <<>> /\ ~Disturbs(s, a)
  <2>1. n \in Nat /\ n <= R /\ n + 1 = Len(live)
    <3>1. Len(live) # 0
      BY <1>1, <1>9, EmptySeq
    <3> QED BY <1>1, <3>1
  <2>2. live' = shorter
    BY <1>5, <1>9
  <2> HIDE DEF n
  <2>3. /\ live' \in Seq(Remembered) /\ Len(live') = n
        /\ \A k \in 1 .. n : live'[k] = live[k]
    <3>1. \A k \in 1 .. n : live[k] \in Remembered
      BY <1>1, <2>1, ElementOfSeq
    <3>2. n \in Int /\ 1 \in Int
      BY <2>1
    <3>3. /\ shorter \in Seq(Remembered)
          /\ Len(shorter) = IF 1 <= n THEN n - 1 + 1 ELSE 0
          /\ \A k \in 1 .. n - 1 + 1 : shorter[k] = live[1 + k - 1]
      BY ONLY <3>1, <3>2, SubSeqProperties
    <3>4. n - 1 + 1 = n /\ \A k \in 1 .. n : 1 + k - 1 = k
      BY <2>1
    <3> HIDE DEF shorter
    <3> QED BY <2>1, <2>2, <3>3, <3>4
  <2> HIDE DEF shorter
  <2>4. TypeOK'
    BY <1>1, <1>5, <1>6, <2>3 DEF TypeOK, Wrote, Remembered, NotShown, Picture, State,
       Height, Width, RamAddr, WramAddr, Byte, Size
  <2>5. LiveFits'
    BY <2>1, <2>3 DEF LiveFits
  <2>6. PopsWhatWasPushed'
    <3>1. a # Sfr("sp") /\ \A k \in 1 .. Len(live) : ~(Bank(s) = 0 /\ a = Ram(live[k].at))
      BY <1>9 DEF Disturbs
    <3>2. m'.sp = (m.sp - 1) % R
      BY <1>3, <1>6, <3>1 DEF Wrote
    <3> SUFFICES ASSUME NEW k \in 1 .. n
                 PROVE  /\ live'[k].at = (m'.sp - (n - k)) % R
                        /\ m'.ram[0][live'[k].at] = live'[k].val
      BY <2>3 DEF PopsWhatWasPushed
    <3>3. k \in 1 .. Len(live) /\ live'[k] = live[k]
      BY <2>1, <2>3
    <3>4. live[k].at = (m.sp - (Len(live) - k)) % R /\ m.ram[0][live[k].at] = live[k].val
      BY <3>3 DEF IInv, PopsWhatWasPushed
    <3>5. live[k].at \in RamAddr
      <4>1. live[k] \in Remembered
        BY <1>1, <3>3, ElementOfSeq
      <4> QED BY <4>1 DEF Remembered
    <3>6. m'.ram[0][live[k].at] = m.ram[0][live[k].at]
      BY <1>3, <1>6, <3>1, <3>3, <3>5 DEF Wrote
    <3>7. (m'.sp - (n - k)) % R = (m.sp - (Len(live) - k)) % R
      <4> DEFINE x == m.sp - 1
                 y == n - k
      <4>1. x \in Int /\ y \in Int /\ x - y = m.sp - (Len(live) - k)
        BY <1>1, <2>1, <3>3
      <4> HIDE DEF x, y
      <4>2. ((x % R) - y) % R = (x - y) % R
        BY <1>1, <4>1, ClockWraps
      <4> QED BY <3>2, <4>1, <4>2 DEF x, y
    <3> QED BY <3>3, <3>4, <3>6, <3>7
  <2>7. ShowsXram'
    BY <1>3, <1>5, <1>6, StillShows DEF IInv, Wrote
  <2>8. ParityStep
    BY <1>3, <1>6 DEF ParityStep, Wrote
  <2>9. BankStep
    <3>1. HasBit(m.psw, RAMBK0) => Bank(s) # 0
      BY <1>3 DEF Bank, AsBit
    <3> QED BY <1>3, <1>6, <3>1 DEF Wrote, BankStep
  <2> QED BY <2>4, <2>5, <2>6, <2>7, <2>8, <2>9 DEF Good, IInv
<1> QED BY <1>8, <1>9

LEMMA DrawGood == ASSUME IInv, Draw PROVE Good
<1> DEFINE dots == [y \in 0 .. Height - 1 |->
                      [x \in 0 .. Width - 1 |-> vmu_lcd_pixel(x, y)]]
<1>1. /\ m \in State /\ m' = [m EXCEPT !.dirty = FALSE] /\ UNCHANGED live
      /\ shown' = [dots |-> dots, icons |-> m.xram[2][0]]
  BY DEF IInv, TypeOK, Draw
<1>2. /\ m' \in State /\ m'.ram = m.ram /\ m'.xram = m.xram /\ m'.sp = m.sp
      /\ m'.psw = m.psw /\ ~m'.dirty
  BY <1>1 DEF State
<1>3. shown' \in Picture
  <2>1. dots \in [0 .. Height - 1 -> [0 .. Width - 1 -> BOOLEAN]]
    BY DEF vmu_lcd_pixel, HasBit
  <2>2. m.xram[2][0] \in Byte
    <3>1. 0 \in 0 .. XramSize - 1
      BY MachineConstants
    <3> DEFINE X == m.xram
    <3>2. X \in [0 .. 2 -> [0 .. XramSize - 1 -> Byte]]
      BY <1>1, StateFields
    <3> HIDE DEF X
    <3>3. X[2] \in [0 .. XramSize - 1 -> Byte]
      BY <3>2
    <3>4. X[2][0] \in Byte
      BY <3>1, <3>3
    <3> QED BY <3>4 DEF X
  <2> HIDE DEF dots
  <2> QED BY <1>1, <2>1, <2>2 DEF Picture
<1>4. TypeOK'
  BY <1>1, <1>2, <1>3 DEF IInv, TypeOK, NotShown, Picture, State,
     Height, Width, RamAddr, WramAddr, Byte, Size
<1>5. LiveFits' /\ PopsWhatWasPushed'
  BY <1>1, <1>2 DEF IInv, LiveFits, PopsWhatWasPushed
<1>6. ShowsXram'
  <2>1. \A x, y : (vmu_lcd_pixel(x, y))' = vmu_lcd_pixel(x, y)
    BY <1>2 DEF vmu_lcd_pixel, HasBit, line_base
  <2>2. \A y \in 0 .. Height - 1, x \in 0 .. Width - 1 :
          shown'.dots[y][x] = vmu_lcd_pixel(x, y)
    BY <1>1
  <2>3. shown'.icons = m'.xram[2][0]
    BY <1>1, <1>2
  <2> HIDE DEF dots
  <2> QED BY <2>1, <2>2, <2>3 DEF ShowsXram, Height, Width
<1>7. ParityStep /\ BankStep
  BY <1>2 DEF ParityStep, BankStep
<1> QED BY <1>4, <1>5, <1>6, <1>7 DEF Good, IInv

LEMMA ResetTypes == ASSUME NEW d \in BOOLEAN PROVE ResetState(d) \in State
<1>1. 0 \in Byte /\ Size - 1 \in Byte
  BY Bytes
<1>2. \A S : Zero(S) \in [S -> Byte]
  BY <1>1 DEF Zero
<1>3. (RamSize \div 2) - 1 \in RamAddr
  <2>1. RamSize \in Nat /\ 16 <= RamSize
    BY MachineConstants
  <2>2. RamSize \div 2 \in 1 .. RamSize
    BY <2>1
  <2> QED BY <2>1, <2>2 DEF RamAddr
<1> QED BY <1>1, <1>2, <1>3 DEF ResetState, State

LEMMA FreshHolds ==
  ASSUME m \in State, shown = NotShown, live = <<>>
  PROVE  IInv
<1>1. <<>> \in Seq([at : RamAddr, val : Byte]) /\ Len(<<>>) = 0 /\ RamSize \in Nat
  BY EmptySeq, MachineConstants
<1> QED BY <1>1 DEF IInv, TypeOK, LiveFits, PopsWhatWasPushed, ShowsXram

LEMMA ResetKeeps == ASSUME IInv, Reset PROVE IInv'
<1>1. m.dirty \in BOOLEAN
  BY StateFields DEF IInv, TypeOK
<1>2. m' \in State /\ shown' = NotShown /\ live' = <<>>
  BY <1>1, ResetTypes DEF Reset
<1>3. <<>> \in Seq(Remembered) /\ Len(<<>>) = 0 /\ RamSize \in Nat
  BY EmptySeq, MachineConstants
<1>4. TypeOK'
  BY <1>2, <1>3 DEF TypeOK, Remembered, NotShown, Picture, State,
     Height, Width, RamAddr, WramAddr, Byte, Size
<1>5. LiveFits' /\ PopsWhatWasPushed'
  BY <1>2, <1>3 DEF LiveFits, PopsWhatWasPushed
<1>6. ShowsXram'
  BY <1>2 DEF ShowsXram, NotShown
<1> QED BY <1>4, <1>5, <1>6 DEF IInv

\* Every step but a reset does what every instruction does.
LEMMA NextGood == ASSUME IInv, Next PROVE Good \/ (Reset /\ IInv')
<1>1. ASSUME Stack PROVE Good
  BY <1>1, PushGood, PopGood DEF Stack
<1>2. ASSUME Calculate PROVE Good
  BY <1>2, CalculateAside, AsideKeeps DEF IInv
<1>3. ASSUME NEW b \in Presses, SetButtons(b) PROVE Good
  <2>1. b \in Byte /\ m \in State
    BY MachineConstants DEF IInv, TypeOK
  <2>2. m' = [m EXCEPT !.buttons = b] /\ UNCHANGED <<shown, live>>
    BY <1>3 DEF SetButtons, Become
  <2>3. Aside(m, m')
    BY <2>1, <2>2 DEF Aside, State
  <2> QED BY <2>2, <2>3, AsideKeeps
<1> QED BY <1>1, <1>2, <1>3, MoveGood, ChangeGood, DrawGood, ResetKeeps DEF Next

\* The memories keep their types, what is remembered of the stack is on it, and
\* the picture is that of XRAM until XRAM is written.
THEOREM Invariance == Spec => []IInv
<1>1. Init => IInv
  <2> SUFFICES ASSUME Init PROVE IInv
    OBVIOUS
  <2>1. m \in State
    BY ResetTypes DEF Init
  <2> QED BY <2>1, FreshHolds DEF Init
<1>2. IInv /\ [Next]_vars => IInv'
  <2>1. ASSUME IInv, Next PROVE IInv'
    BY <2>1, NextGood DEF Good
  <2>2. ASSUME IInv, UNCHANGED vars PROVE IInv'
    <3>1. IInv /\ Aside(m, m') /\ UNCHANGED <<shown, live>>
      BY <2>2 DEF IInv, TypeOK, Aside, vars
    <3> QED BY <3>1, AsideKeeps DEF Good
  <2> QED BY <2>1, <2>2
<1> QED BY <1>1, <1>2, PTL DEF Spec

-----------------------------------------------------------------------------
(* The display as XRAM's addresses see it.                                  *)

\* A number that is q periods and r more has that quotient and remainder.
LEMMA Divides ==
  ASSUME NEW n \in Nat \ {0}, NEW q \in Int, NEW r \in 0 .. n - 1
  PROVE  (q * n + r) \div n = q /\ (q * n + r) % n = r
OBVIOUS

\* Where lcd.h:3-6 puts bit `bit` of the byte at `at` is where vmu_lcd_pixel
\* looks for it.
LEMMA DotOfByte ==
  ASSUME NEW bank \in 0 .. 1, NEW at \in 0 .. (Lines \div 2) * PairBytes - 1,
         NEW in, in = at % PairBytes, in < 2 * LineBytes, NEW bit \in 0 .. 7,
         NEW y, y = bank * Lines + (2 * (at \div PairBytes) + (in \div LineBytes)),
         NEW x, x = 8 * (in % LineBytes) + 7 - bit
  PROVE  /\ y \in 0 .. Height - 1 /\ x \in 0 .. Width - 1
         /\ vmu_lcd_pixel(x, y) = HasBit(m.xram[bank][at], bit)
<1> DEFINE p == at \div PairBytes
           l == in \div LineBytes
           c == in % LineBytes
           h == Lines \div 2
           line == 2 * p + l
<1>1. /\ Lines \in Nat \ {0} /\ LineBytes \in Nat \ {0} /\ PairBytes \in Nat \ {0}
      /\ Lines % 2 = 0
  BY MachineConstants
<1>2. h \in Nat \ {0} /\ Lines = 2 * h
  BY <1>1
<1> HIDE DEF h
<1>3. h * PairBytes \in Nat
  BY <1>1, <1>2
<1>4. at \in Nat /\ at < h * PairBytes
  <2>1. at \in 0 .. h * PairBytes - 1
    BY DEF h
  <2> QED BY <1>3, <2>1
<1>5. p \in Int /\ in \in 0 .. PairBytes - 1 /\ at = p * PairBytes + in
  BY <1>1, <1>4
<1>6. p \in Nat
  BY <1>1, <1>4
<1>7. l \in Int /\ c \in 0 .. LineBytes - 1 /\ in = l * LineBytes + c
  <2>1. in \in Int /\ LineBytes \in Nat \ {0}
    BY <1>1, <1>5
  <2>2. /\ in \div LineBytes \in Int /\ in % LineBytes \in 0 .. LineBytes - 1
        /\ in = (in \div LineBytes) * LineBytes + (in % LineBytes)
    BY ONLY <2>1
  <2> QED BY <2>2
<1> HIDE DEF p, l, c
<1>8. p < h
  <2> SUFFICES ASSUME p >= h PROVE FALSE
    BY <1>2, <1>6
  <2> DEFINE d == p - h
  <2>1. d \in Nat /\ p = d + h BY <1>2, <1>6
  <2> HIDE DEF d
  <2>2. d * PairBytes \in Nat /\ p * PairBytes = d * PairBytes + h * PairBytes
    BY <1>1, <1>2, <2>1
  <2> QED BY <1>1, <1>3, <1>4, <1>5, <2>2
<1>9. l \in 0 .. 1
  <2>1. CASE l >= 2
    <3> DEFINE d == l - 2
    <3>1. d \in Nat /\ l = d + 2 BY <1>7, <2>1
    <3> HIDE DEF d
    <3>2. d * LineBytes \in Nat /\ l * LineBytes = d * LineBytes + 2 * LineBytes
      BY <1>1, <3>1
    <3> QED BY <1>1, <1>5, <1>7, <3>2
  <2>2. CASE l < 0
    <3> DEFINE d == - 1 - l
    <3>1. d \in Nat /\ l = - 1 - d BY <1>7, <2>2
    <3> HIDE DEF d
    <3>2. d * LineBytes \in Nat /\ l * LineBytes = - LineBytes - d * LineBytes
      BY <1>1, <3>1
    <3> QED BY <1>1, <1>5, <1>7, <3>2
  <2> QED BY <1>7, <2>1, <2>2
<1>10. line \in 0 .. Lines - 1 /\ line \div 2 = p /\ line % 2 = l
  BY <1>2, <1>6, <1>8, <1>9
<1>11. x = 8 * c + (7 - bit) /\ x \div 8 = c /\ x % 8 = 7 - bit
  <2> DEFINE r == 7 - bit
  <2>1. r \in 0 .. 7
    OBVIOUS
  <2>2. x = c * 8 + r
    BY <1>7 DEF c
  <2> HIDE DEF r
  <2>3. (c * 8 + r) \div 8 = c /\ (c * 8 + r) % 8 = r
    BY <1>7, <2>1, <1>1
  <2> QED BY <1>7, <2>1, <2>2, <2>3 DEF r
<1>12. x \in 0 .. Width - 1
  BY <1>1, <1>7, <1>11 DEF Width
<1> DEFINE k == line
<1> HIDE DEF line
<1>13. y = bank * Lines + k
  BY DEF line, p, l
<1>14. /\ y \in 0 .. Height - 1 /\ y % Lines = k
       /\ (IF y < Lines THEN 0 ELSE 1) = bank
  <2>1. k \in 0 .. Lines - 1
    BY <1>10
  <2> HIDE DEF k
  <2>2. bank \in Int
    OBVIOUS
  <2>3. (bank * Lines + k) % Lines = k
    BY <1>1, <2>1, <2>2, Divides
  <2>4. CASE bank = 0
    <3>1. y = k
      BY <1>1, <1>13, <2>1, <2>4
    <3> QED BY <1>1, <1>13, <2>1, <2>3, <2>4, <3>1 DEF Height
  <2>5. CASE bank = 1
    <3>1. y = Lines + k
      BY <1>1, <1>13, <2>1, <2>5
    <3> QED BY <1>1, <1>13, <2>1, <2>3, <2>5, <3>1 DEF Height
  <2> QED BY <2>4, <2>5
<1>15. line_base(k) + c = at
  <2>1. line_base(k) = p * PairBytes + l * LineBytes
    BY <1>10 DEF line_base
  <2>2. p * PairBytes \in Int /\ l * LineBytes \in Int
    BY <1>1, <1>5, <1>7
  <2> QED BY <1>1, <1>5, <1>7, <2>1, <2>2
<1>16. 7 - (x % 8) = bit
  BY <1>11
<1>17. vmu_lcd_pixel(x, y) = HasBit(m.xram[bank][at], bit)
  <2>1. vmu_lcd_pixel(x, y) =
          HasBit(m.xram[IF y < Lines THEN 0 ELSE 1][line_base(y % Lines) + (x \div 8)],
                 7 - (x % 8))
    BY DEF vmu_lcd_pixel
  <2>2. /\ y % Lines = k /\ x \div 8 = c
        /\ (IF y < Lines THEN 0 ELSE 1) = bank
    BY <1>11, <1>14
  <2>3. line_base(y % Lines) + (x \div 8) = at
    BY <1>15, <2>2
  <2> QED BY <1>16, <2>1, <2>2, <2>3
<1> QED BY <1>12, <1>14, <1>17

-----------------------------------------------------------------------------
(* The theorems.                                                            *)

\* Every field of the machine keeps its width.
THEOREM TypeCorrect == Spec => []TypeOK
<1>1. IInv => TypeOK
  BY DEF IInv
<1> QED BY <1>1, Invariance, PTL

\* Whatever banks the code selects in between, and however often the stack
\* wraps, a pop returns what the matching push pushed, as long as code does not
\* write SP or the stack itself (cpu.h:9-11, vmu_push_byte, vmu_pop_byte).
THEOREM PopsMatch == Spec => []PopsWhatWasPushed
<1>1. IInv => PopsWhatWasPushed
  BY Zenon DEF IInv
<1> QED BY <1>1, Invariance, PTL

\* A host that draws only when told to shows the current XRAM, for a display of
\* any size with any gap between its pairs of lines (lcd.h:3-6, 26).
THEOREM Fresh == Spec => []ScreenIsFresh
<1>1. IInv => ScreenIsFresh
  <2> SUFFICES ASSUME ShowsXram, shown # NotShown, ~m.dirty
               PROVE
                 /\ shown.icons = m.xram[2][0]
                 /\ \A bank \in 0 .. 1, at \in 0 .. (Lines \div 2) * PairBytes - 1 :
                      LET in == at % PairBytes
                          line == 2 * (at \div PairBytes) + (in \div LineBytes)
                          byte == m.xram[bank][at]
                      IN in < 2 * LineBytes =>
                           \A bit \in 0 .. 7 :
                             shown.dots[bank * Lines + line][8 * (in % LineBytes) + 7 - bit]
                               = HasBit(byte, bit)
    BY DEF IInv, ScreenIsFresh
  <2>1. /\ shown.icons = m.xram[2][0]
        /\ \A y \in 0 .. Height - 1, x \in 0 .. Width - 1 :
             shown.dots[y][x] = vmu_lcd_pixel(x, y)
    BY DEF ShowsXram
  <2>2. ASSUME NEW bank \in 0 .. 1, NEW at \in 0 .. (Lines \div 2) * PairBytes - 1,
               at % PairBytes < 2 * LineBytes, NEW bit \in 0 .. 7
        PROVE  shown.dots[bank * Lines
                            + (2 * (at \div PairBytes) + ((at % PairBytes) \div LineBytes))]
                         [8 * ((at % PairBytes) % LineBytes) + 7 - bit]
                 = HasBit(m.xram[bank][at], bit)
    <3> DEFINE in == at % PairBytes
               y == bank * Lines + (2 * (at \div PairBytes) + (in \div LineBytes))
               x == 8 * (in % LineBytes) + 7 - bit
    <3>1. in < 2 * LineBytes
      BY <2>2
    <3> HIDE DEF in
    <3>2. in = at % PairBytes
      BY DEF in
    <3> HIDE DEF y, x
    <3>3. /\ y \in 0 .. Height - 1 /\ x \in 0 .. Width - 1
          /\ vmu_lcd_pixel(x, y) = HasBit(m.xram[bank][at], bit)
      BY <3>1, <3>2, DotOfByte DEF x, y
    <3>4. shown.dots[y][x] = HasBit(m.xram[bank][at], bit)
      BY <2>1, <3>3
    <3> QED BY <3>4 DEF in, y, x
  <2> QED BY <2>1, <2>2
<1> QED BY <1>1, Invariance, PTL

\* No instruction writes P: it keeps its value or becomes the parity that ACC
\* has when the instruction starts (mem.c:41-45, 77-78).
THEOREM ParityKept == Spec => ParityIsReadOnly
<1>1. IInv /\ [Next]_vars =>
        [HasBit(m'.psw, P) \in {HasBit(m.psw, P), Odd[m.acc]} \/ Reset]_vars
  BY NextGood DEF Good, ParityStep
<1> QED BY <1>1, Invariance, PTL DEF Spec, ParityIsReadOnly

\* Code in bank 1 changes nothing in bank 0 except what it pushes (cpu.h:9-11).
THEOREM BanksApart == Spec => BanksAreSeparate
<1>1. IInv /\ [Next]_vars =>
        [HasBit(m.psw, RAMBK0) =>
           \A i \in RamAddr : m'.ram[0][i] # m.ram[0][i] =>
             Reset \/ (i = m'.sp /\ m'.sp = (m.sp + 1) % RamSize)]_vars
  BY NextGood DEF Good, BankStep
<1> QED BY <1>1, Invariance, PTL DEF Spec, BanksAreSeparate
=============================================================================
