--------------------------- MODULE AluProperties ---------------------------
(* A unit that does nothing but add, subtract and rotate with carry, and    *)
(* what that should do to ACC and the flags, in terms of integers.          *)
EXTENDS Alu

CONSTANT Samples           \* bound: further bytes of wider numbers

ASSUME SamplesAssumption == Samples \subseteq Byte

VARIABLES acc,             \* ACC
          cy,              \* PSW.CY as 0 or 1
          operand          \* the instructions' operand

unitVars == <<acc, cy, operand>>

UnitTypeOK == acc \in Byte /\ cy \in Bit /\ operand \in Byte

UnitInit == UnitTypeOK

Leave(a, carry) == acc' = a /\ cy' = carry /\ UNCHANGED operand

Addc == LET r == Add(acc, operand, cy) IN Leave(r.acc, AsBit(r.cy))
Subc == LET r == Sub(acc, operand, cy) IN Leave(r.acc, AsBit(r.cy))
Rolc == LET r == RolC(acc, cy) IN Leave(r.acc, r.cy)
Rorc == LET r == RorC(acc, cy) IN Leave(r.acc, r.cy)

UnitNext == Addc \/ Subc \/ Rolc \/ Rorc

UnitSpec == UnitInit /\ [][UnitNext]_unitVars

-----------------------------------------------------------------------------

\* A byte as a number in two's complement.
Signed(x) == IF Sign(x) THEN x - Size ELSE x

\* Of r = Add(a, v, c): CY is the carry out of bit 7, and OV is set exactly
\* when the signed result does not fit.
AddFlags(a, v, c, r) ==
  /\ r.acc \in Byte
  /\ a + v + c = r.acc + (IF r.cy THEN Size ELSE 0)
  /\ r.ov <=> Signed(a) + Signed(v) + c # Signed(r.acc)

\* Of r = Sub(a, v, c): CY is the borrow.
SubFlags(a, v, c, r) ==
  /\ r.acc \in Byte
  /\ a - v - c = r.acc - (IF r.cy THEN Size ELSE 0)
  /\ r.ov <=> Signed(a) - Signed(v) - c # Signed(r.acc)

\* The flags of sums and differences are those of the arithmetic, whatever the
\* bytes and the carry that come in (docs/CPU.md:62-66).
FlagsTellTheTruth ==
  /\ AddFlags(acc, operand, cy, Add(acc, operand, cy))
  /\ SubFlags(acc, operand, cy, Sub(acc, operand, cy))

\* AC is the carry, or borrow, of the low halves alone (docs/CPU.md:63).
HalfCarryIsTrue ==
  LET s == Add(acc, operand, cy)
      d == Sub(acc, operand, cy)
  IN /\ (acc % Half) + (operand % Half) + cy
          = (s.acc % Half) + (IF s.ac THEN Half ELSE 0)
     /\ (acc % Half) - (operand % Half) - cy
          = (d.acc % Half) - (IF d.ac THEN Half ELSE 0)

\* ADD then ADDC add, SUB then SUBC subtract numbers of two bytes, of which
\* ACC and the operand are the lower ones (recomp_rt.c:66-69).
WideArithmetic ==
  \A hi, x \in Samples :
    LET s0 == Add(acc, operand, 0)
        s1 == Add(hi, x, AsBit(s0.cy))
        d0 == Sub(acc, operand, 0)
        d1 == Sub(hi, x, AsBit(d0.cy))
    IN /\ (hi * Size + acc) + (x * Size + operand)
            = AsBit(s1.cy) * Size * Size + s1.acc * Size + s0.acc
       /\ (hi * Size + acc) - (x * Size + operand)
            = d1.acc * Size + d0.acc - AsBit(d1.cy) * Size * Size

\* DIV leaves quotient and remainder, and undoes a MUL whose product fits into
\* ACC:C (docs/CPU.md:76-79).
DivUndoesMul ==
  \A b \in Samples \ {0} :
    LET product == Mul(acc, operand, b)
        back == Div(product.acc, product.c, b)
        d == Div(acc, operand, b)
    IN /\ ~product.ov =>
            back = [acc |-> acc, c |-> operand, b |-> 0, ov |-> TRUE]
       /\ (d.acc * Size + d.c) * b + d.b = acc * Size + operand
       /\ d.b < b

\* RORC takes ACC and CY back to what they were before ROLC, and ROLC after
\* RORC: no bit is lost on the way around (recomp_rt.c:120-130).
RotatesAreInverse ==
  LET l == RolC(acc, cy)
      r == RorC(acc, cy)
  IN /\ RorC(l.acc, l.cy) = [acc |-> acc, cy |-> cy]
     /\ RolC(r.acc, r.cy) = [acc |-> acc, cy |-> cy]
=============================================================================
