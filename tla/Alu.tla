-------------------------------- MODULE Alu --------------------------------
(* Arithmetic, rotates and comparisons of the LC8670 as functions of        *)
(* operands and carry (do_add to vmu_rt_cmp_acc in src/src/recomp_rt.c).    *)
EXTENDS Integers

CONSTANT Half                 \* values of half a byte, 16: AC is its carry

ASSUME HalfAssumption == Half \in Nat /\ Half >= 2 /\ Half % 2 = 0

Size == Half * Half           \* values of a byte
Byte == 0 .. Size - 1
Bit == 0 .. 1

\* (uint8_t) of a sum or difference of two bytes and a carry.
Wrap_CarryOnly(r) == IF r >= Size THEN r - Size ELSE r
Wrap(r) == IF r >= Size THEN r - Size ELSE IF r < 0 THEN r + Size ELSE r

\* Bit 7.
Sign(x) == 2 * x >= Size

\* do_add(v, cin)
Add_NoCarryIn(a, v, cin) ==
  LET r == a + v IN
  [acc |-> Wrap(r), cy |-> r >= Size,
   ac |-> (a % Half) + (v % Half) >= Half,
   ov |-> Sign(a) # Sign(Wrap(r)) /\ Sign(v) # Sign(Wrap(r))]
Add_OverflowOfA(a, v, cin) ==
  LET r == a + v + cin IN
  [acc |-> Wrap(r), cy |-> r >= Size,
   ac |-> (a % Half) + (v % Half) + cin >= Half,
   ov |-> Sign(a) # Sign(Wrap(r))]
Add(a, v, cin) ==
  LET r == a + v + cin IN
  [acc |-> Wrap(r), cy |-> r >= Size,
   ac |-> (a % Half) + (v % Half) + cin >= Half,
   ov |-> Sign(a) # Sign(Wrap(r)) /\ Sign(v) # Sign(Wrap(r))]

\* do_sub(v, bin)
Sub_HalfNoBorrow(a, v, bin) ==
  LET r == a - v - bin IN
  [acc |-> Wrap(r), cy |-> r < 0,
   ac |-> (a % Half) - (v % Half) < 0,
   ov |-> Sign(a) # Sign(v) /\ Sign(a) # Sign(Wrap(r))]
Sub(a, v, bin) ==
  LET r == a - v - bin IN
  [acc |-> Wrap(r), cy |-> r < 0,
   ac |-> (a % Half) - (v % Half) - bin < 0,
   ov |-> Sign(a) # Sign(v) /\ Sign(a) # Sign(Wrap(r))]

\* vmu_rt_mul: (ACC:C) * B to B:ACC:C.
Mul(acc, c, b) ==
  LET r == (acc * Size + c) * b IN
  [b |-> r \div (Size * Size), acc |-> (r \div Size) % Size, c |-> r % Size,
   ov |-> r >= Size * Size]

\* vmu_rt_div: (ACC:C) / B, quotient to ACC:C, remainder to B.
Div_SwappedHalves(acc, c, b) ==
  LET q == (acc * Size + c) \div b
      rem == (acc * Size + c) % b
  IN IF b = 0 THEN [acc |-> Size - 1, c |-> Size - 1, b |-> 0, ov |-> TRUE]
     ELSE [acc |-> q % Size, c |-> q \div Size, b |-> rem, ov |-> rem = 0]
Div(acc, c, b) ==
  LET q == (acc * Size + c) \div b
      rem == (acc * Size + c) % b
  IN IF b = 0 THEN [acc |-> Size - 1, c |-> Size - 1, b |-> 0, ov |-> TRUE]
     ELSE [acc |-> q \div Size, c |-> q % Size, b |-> rem, ov |-> rem = 0]

\* vmu_rt_rolc, vmu_rt_rorc: through carry.
RolC(a, cin) == [acc |-> ((2 * a) % Size) + cin, cy |-> a \div (Size \div 2)]
RorC_FromBitZero(a, cin) ==
  [acc |-> (a \div 2) + (a % 2) * (Size \div 2), cy |-> a % 2]
RorC(a, cin) == [acc |-> (a \div 2) + cin * (Size \div 2), cy |-> a % 2]

\* C's value of a comparison.
AsBit(flag) == IF flag THEN 1 ELSE 0
=============================================================================
