--------------------------- MODULE VmuTimerProofs ---------------------------
(* Proofs about VmuTimer: for every width, divisor, prescaler and reload    *)
(* value, and for stretches of time of any length, what the timers do does  *)
(* not depend on how time is cut into calls, and comes on time.             *)
EXTENDS TimerLoops, TimersProofs, WellFoundedInduction

-----------------------------------------------------------------------------
(* Types.                                                                   *)

LEMMA ResetTypes == ResetState \in TimerState /\ ZeroRegisters \in Registers
<1>1. 0 \in Byte /\ 0 \in 0 .. CountMod - 1
  BY TimerConstants DEF Byte
<1>2. ResetState \in TimerState
  BY <1>1, TimerConstants DEF ResetState, TimerState
<1>3. ZeroRegisters \in Registers
  BY <1>1 DEF ZeroRegisters, Registers
<1> QED BY <1>2, <1>3

LEMMA StartType == Init => TypeOK
BY ResetTypes DEF Init, TypeOK

LEMMA StepType == TypeOK /\ [Next]_vars => TypeOK'
<1> SUFFICES ASSUME TypeOK, [Next]_vars PROVE TypeOK'
  OBVIOUS
<1> USE DEF TypeOK
<1>1. ASSUME NEW c \in 0 .. MaxCycles, Elapse(c) PROVE TypeOK'
  <2>1. c \in Nat
    BY VmuTimerConstants
  <2> QED BY <1>1, <2>1, TickType DEF Elapse
<1>2. CASE Take
  BY <1>2 DEF Take, TimerState
<1>3. CASE Code
  <2>1. ASSUME NEW bits \in Controls0, SetT0CON(bits) PROVE TypeOK'
    BY <2>1, VmuTimerConstants DEF SetT0CON, WriteT0CON, TimerState, Registers
  <2>2. ASSUME NEW bits \in Controls1, SetT1CNT(bits) PROVE TypeOK'
    BY <2>2, VmuTimerConstants DEF SetT1CNT, WriteT1CNT, TimerState, Registers
  <2>3. ASSUME NEW r \in ReloadRegs, NEW v \in Reloads, SetReload(r, v) PROVE TypeOK'
    BY <2>3, VmuTimerConstants DEF SetReload, Registers
  <2>4. ASSUME NEW b \in BtcrValues, SetBTCR(b) PROVE TypeOK'
    BY <2>4, VmuTimerConstants DEF SetBTCR, Registers
  <2>5. ASSUME NEW v \in IEValues, SetIE(v) PROVE TypeOK'
    BY <2>5, VmuTimerConstants DEF SetIE
  <2>6. ASSUME NEW v \in P3INTValues, SetP3INT(v) PROVE TypeOK'
    BY <2>6, VmuTimerConstants DEF SetP3INT
  <2> QED BY <1>3, <2>1, <2>2, <2>3, <2>4, <2>5, <2>6 DEF Code
<1>4. CASE Host
  <2>1. ASSUME NEW d \in Divisors, SetDivisor(d) PROVE TypeOK'
    <3>1. (IF d = 0 THEN DefaultDivisor ELSE d) \in Nat \ {0}
      BY VmuTimerConstants, TimerConstants
    <3> QED BY <2>1, <3>1 DEF SetDivisor, TimerState
  <2>2. ASSUME NEW i \in HandRaised, Raise(i) PROVE TypeOK'
    BY <2>2, VmuTimerConstants DEF Raise, TimerState
  <2>3. ASSUME NEW b \in SUBSET Buttons, SetButtons(b) PROVE TypeOK'
    <3>1. P3 \in Irqs
      BY DEF P3, Irqs
    <3>2. [tm EXCEPT !.pending = @ \cup {P3}] \in TimerState
      BY <3>1 DEF TimerState
    <3>3. p3int \cup {"source"} \in SUBSET {"enable", "source"}
      OBVIOUS
    <3>4. tm' \in TimerState /\ p3int' \in SUBSET {"enable", "source"}
      BY <2>3, <3>2, <3>3 DEF SetButtons
    <3> QED BY <2>3, <3>4 DEF SetButtons
  <2>4. CASE Reset
    BY <2>4, ResetTypes DEF Reset
  <2> QED BY <1>4, <2>1, <2>2, <2>3, <2>4 DEF Host
<1>5. CASE UNCHANGED vars
  BY <1>5 DEF vars
<1> QED BY <1>1, <1>2, <1>3, <1>4, <1>5 DEF Next

\* Counters stay within their width and accumulators below a period, whatever
\* registers the program writes (vmu_timer_tick, vmu_timer_write).
THEOREM TypeCorrect == Spec => []TypeOK
BY StartType, StepType, PTL DEF Spec

-----------------------------------------------------------------------------
(* Batching.                                                                *)

\* The generated code's one call for a block leaves what the interpreter's
\* calls leave (emit.c:8-11).
THEOREM Batches == Spec => []BatchingIrrelevant
<1>1. TypeOK => BatchingIrrelevant
  BY VmuTimerConstants, TickAdds DEF TypeOK, BatchingIrrelevant
<1> QED BY <1>1, TypeCorrect, PTL

-----------------------------------------------------------------------------
(* Cascades.  A divider whose next overflow is d steps away and that then   *)
(* overflows every R steps: what n steps make of it.                        *)

Count(d, R, n) == IF n < d THEN 0 ELSE 1 + ((n - d) \div R)
Away(d, R, n) == IF n < d THEN d - n ELSE R - ((n - d) % R)

LEMMA CountType ==
  ASSUME NEW d \in Int, NEW R \in Nat \ {0}, NEW n \in Nat
  PROVE  /\ Count(d, R, n) \in Nat /\ Away(d, R, n) \in Nat \ {0}
         /\ Count(d, R, n) > 0 <=> n >= d
<1>1. CASE n < d
  BY <1>1 DEF Count, Away
<1>2. CASE n >= d
  <2> DEFINE m == n - d
  <2>1. m \in Nat
    BY <1>2
  <2>2. Count(d, R, n) = 1 + (m \div R) /\ Away(d, R, n) = R - (m % R)
    BY <1>2 DEF Count, Away
  <2> HIDE DEF m
  <2>3. m \div R \in Nat
    BY <2>1, DivNat
  <2>4. m % R \in 0 .. R - 1
    BY <2>1, DivMod
  <2> QED BY <1>2, <2>2, <2>3, <2>4
<1> QED BY <1>1, <1>2

\* The digits of a number in the mixed radix R1, R2.
LEMMA MixedRadix ==
  ASSUME NEW R1 \in Nat \ {0}, NEW R2 \in Nat \ {0}, NEW q \in Int,
         NEW s \in 0 .. R1 - 1
  PROVE  (q * R1 + s) % (R2 * R1) = (q % R2) * R1 + s
<1> DEFINE u == q \div R2
           v == q % R2
           N == R2 * R1
           t == v * R1 + s
<1>1. u \in Int /\ v \in 0 .. R2 - 1 /\ q = u * R2 + v
  BY DivMod
<1> HIDE DEF u, v
<1>2. N \in Nat \ {0}
  <2>1. R2 * R1 \in Nat /\ R2 * R1 >= R1
    <3>1. (R2 - 1) * R1 >= 0
      OBVIOUS
    <3>2. (R2 - 1) * R1 = R2 * R1 - R1 /\ R2 * R1 \in Int
      OBVIOUS
    <3> QED BY <3>1, <3>2
  <2> QED BY <2>1
<1>3. t \in 0 .. N - 1
  <2>1. v * R1 \in Nat /\ (R2 - 1 - v) * R1 \in Nat
    BY <1>1
  <2>2. (R2 - 1 - v) * R1 = R2 * R1 - R1 - v * R1
    BY <1>1
  <2>3. R2 * R1 \in Int
    OBVIOUS
  <2> QED BY <2>1, <2>2, <2>3
<1>4. q * R1 + s = u * N + t
  <2>1. q * R1 = (u * R2) * R1 + v * R1
    BY <1>1
  <2>2. (u * R2) * R1 = u * (R2 * R1)
    BY <1>1
  <2>3. u * (R2 * R1) \in Int /\ v * R1 \in Int
    BY <1>1
  <2> QED BY <2>1, <2>2, <2>3
<1> DEFINE x == q * R1 + s
<1>5. x = u * N + t
  BY <1>4
<1> HIDE DEF N, t, x
<1>6. x % N = t
  BY <1>1, <1>2, <1>3, <1>5, DivUnique
<1> QED BY <1>6 DEF N, t, x, v

\* A divider stepped by the overflows of another: together they are one, d2
\* overflows of the first away.
LEMMA Cascade ==
  ASSUME NEW d1 \in Int, NEW R1 \in Nat \ {0}, NEW d2 \in Nat \ {0},
         NEW R2 \in Nat \ {0}, NEW n \in Nat
  PROVE  /\ Count(d2, R2, Count(d1, R1, n)) > 0 <=> n >= d1 + (d2 - 1) * R1
         /\ Away(d1, R1, n) + (Away(d2, R2, Count(d1, R1, n)) - 1) * R1
              = Away(d1 + (d2 - 1) * R1, R2 * R1, n)
<1> DEFINE k == Count(d1, R1, n)
           D == d1 + (d2 - 1) * R1
<1> SUFFICES /\ Count(d2, R2, k) > 0 <=> n >= D
             /\ Away(d1, R1, n) + (Away(d2, R2, k) - 1) * R1 = Away(D, R2 * R1, n)
  OBVIOUS
<1>0. D = d1 + (d2 - 1) * R1 /\ k = Count(d1, R1, n)
  OBVIOUS
<1> HIDE DEF k, D
<1>1. (d2 - 1) * R1 \in Nat /\ D \in Int /\ k \in Nat
  BY <1>0, CountType
<1>2. Count(d2, R2, k) > 0 <=> k >= d2
  <2>1. d2 \in Int
    OBVIOUS
  <2> QED BY <1>0, <1>1, <2>1, CountType
<1>3. CASE n < d1
  <2>1. k = 0 /\ Away(d1, R1, n) = d1 - n
    BY <1>0, <1>3 DEF Count, Away
  <2>2. Away(d2, R2, k) = d2 - 0 /\ ~(k >= d2)
    BY <2>1 DEF Away
  <2>3. n < D
    BY <1>0, <1>1, <1>3
  <2>4. Away(D, R2 * R1, n) = D - n
    BY <2>3 DEF Away
  <2>5. (d1 - n) + ((d2 - 0) - 1) * R1 = D - n
    BY <1>0, <1>1
  <2> QED BY <1>0, <1>1, <1>2, <2>1, <2>2, <2>3, <2>4, <2>5
<1>4. CASE n >= d1
  <2> DEFINE m == n - d1
             q == m \div R1
             s == m % R1
  <2>1. m \in Nat
    BY <1>4
  <2>2. k = 1 + q /\ Away(d1, R1, n) = R1 - s
    BY <1>0, <1>4 DEF Count, Away
  <2> HIDE DEF m
  <2>3. q \in Nat /\ s \in 0 .. R1 - 1 /\ m = q * R1 + s
    <3>1. q \in Nat
      BY <2>1, DivNat
    <3>2. s \in 0 .. R1 - 1 /\ m = q * R1 + s
      BY <2>1, DivMod
    <3> QED BY <3>1, <3>2
  <2> HIDE DEF q, s
  <2>4. n - D = (q - (d2 - 1)) * R1 + s
    <3>1. n = d1 + q * R1 + s
      BY <2>3 DEF m
    <3>2. (q - (d2 - 1)) * R1 = q * R1 - (d2 - 1) * R1
      BY <2>3
    <3>3. q * R1 \in Int
      BY <2>3
    <3> QED BY <1>0, <1>1, <2>3, <3>1, <3>2, <3>3
  <2>5. CASE q < d2 - 1
    <3>1. ~(k >= d2)
      BY <2>2, <2>3, <2>5
    <3>2. Away(d2, R2, k) = d2 - (1 + q)
      BY <2>2, <2>3, <3>1 DEF Away
    <3>3. (d2 - 1 - q - 1) * R1 >= 0
      BY <2>3, <2>5
    <3>4. /\ (d2 - 1 - q - 1) * R1 = (d2 - 1) * R1 - q * R1 - R1
          /\ (q - (d2 - 1)) * R1 = q * R1 - (d2 - 1) * R1
          /\ q * R1 \in Int
      BY <2>3
    <3>5. n - D < 0
      BY <1>0, <1>1, <2>3, <2>4, <3>3, <3>4
    <3>6. n < D
      BY <1>0, <1>1, <3>5
    <3>7. Away(D, R2 * R1, n) = D - n
      BY <3>6 DEF Away
    <3>8. ((d2 - (1 + q)) - 1) * R1 = (d2 - 1) * R1 - q * R1 - R1
      BY <2>3
    <3>9. (R1 - s) + ((d2 - (1 + q)) - 1) * R1 = D - n
      BY <1>0, <1>1, <2>3, <2>4, <3>4, <3>8
    <3> QED BY <1>0, <1>1, <1>2, <2>2, <3>1, <3>2, <3>6, <3>7, <3>9
  <2>6. CASE q >= d2 - 1
    <3> DEFINE j == q - (d2 - 1)
    <3>1. j \in Nat /\ k >= d2 /\ k - d2 = j
      BY <2>2, <2>3, <2>6
    <3>2. Away(d2, R2, k) = R2 - (j % R2)
      BY <1>0, <1>1, <3>1 DEF Away
    <3>3. n - D = j * R1 + s
      BY <2>4
    <3> HIDE DEF j
    <3>4. n >= D
      <4>1. j * R1 \in Nat
        BY <3>1
      <4> QED BY <1>0, <1>1, <2>3, <3>3, <4>1
    <3>5. Away(D, R2 * R1, n) = R2 * R1 - ((j * R1 + s) % (R2 * R1))
      BY <1>0, <1>1, <3>3, <3>4 DEF Away
    <3> DEFINE w == j % R2
    <3>6. (j * R1 + s) % (R2 * R1) = w * R1 + s /\ w \in 0 .. R2 - 1
      <4>1. j \in Int
        BY <3>1
      <4>2. (j * R1 + s) % (R2 * R1) = (j % R2) * R1 + s
        BY <2>3, <4>1, MixedRadix
      <4>3. j % R2 \in 0 .. R2 - 1
        BY <4>1, DivMod
      <4> QED BY <4>2, <4>3
    <3> HIDE DEF w
    <3>7. (R1 - s) + ((R2 - w) - 1) * R1 = R2 * R1 - (w * R1 + s)
      <4>1. ((R2 - w) - 1) * R1 = R2 * R1 - w * R1 - R1
        BY <3>6
      <4>2. R2 * R1 \in Int /\ w * R1 \in Int
        BY <3>6
      <4> QED BY <2>3, <4>1, <4>2
    <3>8. Away(d2, R2, k) = R2 - w
      BY <3>2 DEF w
    <3> QED BY <1>0, <1>1, <1>2, <2>2, <3>1, <3>4, <3>5, <3>6, <3>7, <3>8
  <2> QED BY <2>3, <2>5, <2>6
<1> QED BY <1>3, <1>4
-----------------------------------------------------------------------------
(* The timers as cascades.                                                  *)

LEMMA CounterIs ==
  ASSUME NEW v \in Byte, NEW r \in Byte, NEW n \in Nat
  PROVE  /\ W - v \in Nat \ {0} /\ W - r \in Nat \ {0}
         /\ Overflows(v, r, n) = Count(W - v, W - r, n)
         /\ W - Stepped(v, r, n) = Away(W - v, W - r, n)
<1>1. W \in Nat \ {0} /\ v \in 0 .. W - 1 /\ r \in 0 .. W - 1
  BY TimerConstants DEF Byte
<1>2. CASE v + n < W
  <2>1. n < W - v
    BY <1>1, <1>2
  <2> QED BY <1>1, <1>2, <2>1 DEF Overflows, Stepped, Count, Away
<1>3. CASE ~(v + n < W)
  <2> DEFINE m == v + n - W
             R == W - r
  <2>1. ~(n < W - v) /\ n - (W - v) = m /\ m \in Int /\ R \in Nat \ {0}
    BY <1>1, <1>3
  <2>2. Overflows(v, r, n) = 1 + (m \div R) /\ Stepped(v, r, n) = r + (m % R)
    BY <1>3 DEF Overflows, Stepped
  <2> HIDE DEF m
  <2>3. /\ Count(W - v, R, n) = 1 + (m \div R)
        /\ Away(W - v, R, n) = R - (m % R)
    BY <2>1 DEF Count, Away
  <2>4. W - (r + (m % R)) = R - (m % R)
    <3>1. m % R \in 0 .. R - 1
      <4> HIDE DEF R
      <4> QED BY <2>1, DivMod
    <3> DEFINE x == m % R
    <3>2. x \in Int
      BY <3>1
    <3> HIDE DEF x
    <3>3. W - (r + x) = R - x
      BY <1>1, <3>2
    <3> QED BY <3>3 DEF x
  <2> QED BY <1>1, <2>2, <2>3, <2>4
<1> QED BY <1>2, <1>3

\* A divider that keeps x and counts up to R.
LEMMA AccumulatorIs ==
  ASSUME NEW x \in Nat, NEW R \in Nat \ {0}, NEW c \in Nat
  PROVE  /\ (x + c) \div R = Count(R - x, R, c)
         /\ R - ((x + c) % R) = Away(R - x, R, c)
<1>1. CASE c < R - x
  <2>1. x + c \in 0 .. R - 1
    BY <1>1
  <2>2. (x + c) % R = x + c /\ (x + c) \div R = 0
    BY <2>1, DivSmall
  <2>3. R - (x + c) = (R - x) - c
    OBVIOUS
  <2> QED BY <1>1, <2>2, <2>3 DEF Count, Away
<1>2. CASE ~(c < R - x)
  <2> DEFINE y == x + c
  <2>1. y \in Int /\ c - (R - x) = y - R
    OBVIOUS
  <2> HIDE DEF y
  <2>2. (y - R) % R = y % R /\ (y - R) \div R = (y \div R) - 1 /\ y \div R \in Int
    BY <2>1, DivPeriod, DivMod
  <2>3. 1 + ((y \div R) - 1) = y \div R
    BY <2>2
  <2>4. Count(R - x, R, c) = 1 + ((y - R) \div R)
    BY <1>2, <2>1 DEF Count
  <2>5. Away(R - x, R, c) = R - ((y - R) % R)
    BY <1>2, <2>1 DEF Away
  <2> QED BY <2>2, <2>3, <2>4, <2>5 DEF y
<1> QED BY <1>1, <1>2

\* A divider behind a divider that keeps x and counts up to P.
Due(d, P, x) == d * P - x
Full(R, P) == R * P

LEMMA Prescaled ==
  ASSUME NEW x \in Nat, NEW P \in Nat \ {0}, NEW c \in Nat,
         NEW d \in Nat \ {0}, NEW R \in Nat \ {0}
  PROVE  /\ Count(d, R, (x + c) \div P) > 0 <=> c >= Due(d, P, x)
         /\ Away(d, R, (x + c) \div P) * P - ((x + c) % P)
              = Away(Due(d, P, x), Full(R, P), c)
<1> DEFINE k == (x + c) \div P
           y == (x + c) % P
<1>0. k = (x + c) \div P /\ y = (x + c) % P
  OBVIOUS
<1>1. k = Count(P - x, P, c) /\ P - y = Away(P - x, P, c)
  BY AccumulatorIs
<1> DEFINE D == d * P - x
           w == Away(d, R, k)
<1>2. D \in Int /\ D = (P - x) + (d - 1) * P
  OBVIOUS
<1> HIDE DEF D
<1>3. P - x \in Int
  OBVIOUS
<1> HIDE DEF k, y
<1>4. /\ Count(d, R, k) > 0 <=> c >= D
      /\ Away(P - x, P, c) + (w - 1) * P = Away(D, R * P, c)
  <2> DEFINE d1 == P - x
  <2>1. d1 \in Int /\ k = Count(d1, P, c) /\ D = d1 + (d - 1) * P
    BY <1>1, <1>2, <1>3
  <2> HIDE DEF d1
  <2>2. /\ Count(d, R, Count(d1, P, c)) > 0 <=> c >= d1 + (d - 1) * P
        /\ Away(d1, P, c) + (Away(d, R, Count(d1, P, c)) - 1) * P
             = Away(d1 + (d - 1) * P, R * P, c)
    <3>1. d1 \in Int
      BY <2>1
    <3>2. Count(d, R, Count(d1, P, c)) > 0 <=> c >= d1 + (d - 1) * P
      BY <3>1, Cascade
    <3>3. Away(d1, P, c) + (Away(d, R, Count(d1, P, c)) - 1) * P
            = Away(d1 + (d - 1) * P, R * P, c)
      BY <3>1, Cascade
    <3> QED BY <3>2, <3>3
  <2>3. /\ Count(d, R, k) > 0 <=> c >= D
        /\ Away(d1, P, c) + (Away(d, R, k) - 1) * P = Away(D, R * P, c)
    BY <2>1, <2>2
  <2> QED BY <2>3 DEF d1
<1>5. k \in Nat /\ y \in Int
  <2>1. x + c \in Nat /\ x + c \in Int
    OBVIOUS
  <2> QED BY <1>0, <2>1, DivNat, DivMod
<1>6. w \in Nat
  <2>1. d \in Int
    OBVIOUS
  <2> QED BY <1>5, <2>1, CountType
<1> HIDE DEF w
<1>7. (P - y) + (w - 1) * P = w * P - y
  BY <1>5, <1>6
<1>8. w * P - y = Away(D, R * P, c)
  BY <1>1, <1>4, <1>7
<1> QED BY <1>4, <1>8 DEF D, w, k, y, Due, Full

\* The base interrupt comes every BaseRoll ticks, whatever base_count is.
LEMMA BaseIs ==
  ASSUME NEW k \in Nat, NEW n \in Nat
  PROVE  /\ BaseRoll - (k % BaseRoll) \in Nat \ {0}
         /\ (\E j \in 1 .. n : (k + j) % BaseRoll = 0)
              <=> Count(BaseRoll - (k % BaseRoll), BaseRoll, n) > 0
         /\ BaseRoll - (((k + n) % CountMod) % BaseRoll)
              = Away(BaseRoll - (k % BaseRoll), BaseRoll, n)
<1> DEFINE B == BaseRoll
           q == k \div B
           r == k % B
<1>1. B \in Nat \ {0} /\ q \in Int /\ r \in 0 .. B - 1 /\ k = q * B + r
  BY TimerConstants, DivMod
<1>2. \A j \in Nat : (k + j) % B = (r + j) % B
  <2> SUFFICES ASSUME NEW j \in Nat PROVE (k + j) % B = (r + j) % B
    OBVIOUS
  <2>1. j \in Int /\ k \in Int
    OBVIOUS
  <2> HIDE DEF B
  <2> QED BY <1>1, <2>1, DivSplit
<1>3. ((k + n) % CountMod) % B = (r + n) % B
  <2>1. (((k + n) % CountMod) + 0) % B = ((k + n) + 0) % B
    BY CountWraps
  <2>2. (k + n) % CountMod \in Int
    BY TimerConstants, DivMod
  <2> QED BY <1>2, <2>1, <2>2
<1> HIDE DEF r, q, B
<1>4. B - ((r + n) % B) = Away(B - r, B, n)
  BY <1>1, AccumulatorIs
<1>5. B - r \in Nat \ {0}
  BY <1>1
<1>6. Count(B - r, B, n) > 0 <=> n >= B - r
  BY <1>1, <1>5, CountType
<1>7. ASSUME n >= B - r PROVE \E j \in 1 .. n : (r + j) % B = 0
  <2>1. B - r \in 1 .. n /\ r + (B - r) = B
    BY <1>1, <1>5, <1>7
  <2>2. B % B = 0
    BY <1>1
  <2>3. (r + (B - r)) % B = 0
    BY <2>1, <2>2
  <2> QED BY <2>1, <2>3
<1>8. ASSUME NEW j \in 1 .. n, n < B - r PROVE (r + j) % B # 0
  <2>1. r + j \in 0 .. B - 1 /\ r + j # 0
    BY <1>1, <1>8
  <2> QED BY <1>1, <2>1, DivSmall
<1>9. (\E j \in 1 .. n : (r + j) % B = 0) <=> n >= B - r
  BY <1>1, <1>5, <1>7, <1>8
<1>10. \A j \in 1 .. n : (k + j) % B = (r + j) % B
  BY <1>2
<1> QED BY <1>3, <1>4, <1>5, <1>6, <1>9, <1>10 DEF B, r
-----------------------------------------------------------------------------
(* Each counter: when it overflows, and when it will overflow after that.   *)

LEMMA UntilIs ==
  ASSUME NEW t, NEW r
  PROVE  /\ Until(t, r).base = (BaseRoll - (t.base_count % BaseRoll)) * t.base_divisor
                                 - t.base_accum
         /\ Until(t, r).t0l = (W - t.t0l) * Period(r) - t.prescale_accum
         /\ "LONG" \notin r.t0con =>
              Until(t, r).t0h = (W - t.t0h) * Period(r) - t.prescale_accum
         /\ "LONG" \in r.t0con =>
              Until(t, r).t0h = ((W - t.t0l) + (W - 1 - t.t0h) * (W - r.t0lr)) * Period(r)
                                  - t.prescale_accum
         /\ Until(t, r).t1l = W - t.t1l /\ Until(t, r).t1h = W - t.t1h
         /\ FullPeriod(t, r).base = BaseRoll * t.base_divisor
         /\ FullPeriod(t, r).t0l = (W - r.t0lr) * Period(r)
         /\ "LONG" \notin r.t0con =>
              FullPeriod(t, r).t0h = (W - r.t0hr) * Period(r)
         /\ "LONG" \in r.t0con =>
              FullPeriod(t, r).t0h = (W - r.t0hr) * ((W - r.t0lr) * Period(r))
         /\ FullPeriod(t, r).t1l = W - r.t1lr /\ FullPeriod(t, r).t1h = W - r.t1hr
BY DEF Until, FullPeriod

LEMMA BaseOnTime ==
  ASSUME NEW u \in TimerState, NEW r \in Registers, NEW c \in Nat,
         NEW t, t = Tick(u, r, c)
  PROVE  /\ BaseRollsOver(u, c) <=> c >= Until(u, r).base
         /\ Until(t, r).base = Away(Until(u, r).base, FullPeriod(u, r).base, c)
<1> DEFINE x == u.base_accum
           P == u.base_divisor
           k == u.base_count
           n == BaseTicks(u, c)
           d == BaseRoll - (k % BaseRoll)
<1>1. x \in Nat /\ P \in Nat \ {0} /\ k \in Nat /\ n \in Nat
  BY Typed, StepsType
<1>2. /\ t.base_accum = (x + c) % P /\ t.base_divisor = P
      /\ t.base_count = (k + n) % CountMod /\ n = (x + c) \div P
  BY TickFields DEF BaseTicks
<1>3. BaseRollsOver(u, c) <=> \E j \in 1 .. n : (k + j) % BaseRoll = 0
  BY DEF BaseRollsOver
<1> HIDE DEF x, P, k, n
<1>4. /\ d \in Nat \ {0}
      /\ (\E j \in 1 .. n : (k + j) % BaseRoll = 0) <=> Count(d, BaseRoll, n) > 0
      /\ BaseRoll - (t.base_count % BaseRoll) = Away(d, BaseRoll, n)
  <2>1. d \in Nat \ {0}
    BY <1>1, BaseIs
  <2>2. (\E j \in 1 .. n : (k + j) % BaseRoll = 0) <=> Count(d, BaseRoll, n) > 0
    BY <1>1, BaseIs
  <2>3. BaseRoll - (((k + n) % CountMod) % BaseRoll) = Away(d, BaseRoll, n)
    BY <1>1, BaseIs
  <2> HIDE DEF d
  <2> QED BY <1>2, <2>1, <2>2, <2>3
<1> HIDE DEF d
<1>5. BaseRoll \in Nat \ {0}
  BY TimerConstants
<1>6. /\ Count(d, BaseRoll, n) > 0 <=> c >= d * P - x
      /\ Away(d, BaseRoll, n) * P - ((x + c) % P) = Away(d * P - x, BaseRoll * P, c)
  <2>1. Count(d, BaseRoll, (x + c) \div P) > 0 <=> c >= Due(d, P, x)
    BY <1>1, <1>4, <1>5, Prescaled
  <2>2. Away(d, BaseRoll, (x + c) \div P) * P - ((x + c) % P)
          = Away(Due(d, P, x), Full(BaseRoll, P), c)
    BY <1>1, <1>4, <1>5, Prescaled
  <2> QED BY <1>2, <2>1, <2>2 DEF Due, Full
<1>7. Until(u, r).base = d * P - x /\ FullPeriod(u, r).base = BaseRoll * P
  BY UntilIs DEF d, P, x, k
<1>8. Until(t, r).base = Away(d, BaseRoll, n) * P - ((x + c) % P)
  BY <1>2, <1>4, UntilIs
<1> QED BY <1>3, <1>4, <1>6, <1>7, <1>8

\* A counter v stepped by Timer 0's prescaler.
LEMMA PrescaledCounter ==
  ASSUME NEW u \in TimerState, NEW r \in Registers, NEW c \in Nat,
         NEW t, t = Tick(u, r, c), NEW v \in Byte, NEW l \in Byte,
         NEW n, n = T0Ticks(u, r, c), NEW P, P = Period(r)
  PROVE  /\ Overflows(v, l, n) > 0 <=> c >= (W - v) * P - u.prescale_accum
         /\ (W - Stepped(v, l, n)) * P - t.prescale_accum
              = Away((W - v) * P - u.prescale_accum, (W - l) * P, c)
<1> DEFINE x == u.prescale_accum
           d == W - v
           R == W - l
<1>1. x \in Nat /\ P \in Nat \ {0} /\ n \in Nat
  BY Typed, StepsType
<1>2. t.prescale_accum = (x + c) % P /\ n = (x + c) \div P
  BY TickFields DEF T0Ticks
<1>3. /\ d \in Nat \ {0} /\ R \in Nat \ {0}
      /\ Overflows(v, l, n) = Count(d, R, n)
      /\ W - Stepped(v, l, n) = Away(d, R, n)
  BY <1>1, CounterIs
<1> HIDE DEF x, d, R
<1>4. /\ Count(d, R, n) > 0 <=> c >= d * P - x
      /\ Away(d, R, n) * P - ((x + c) % P) = Away(d * P - x, R * P, c)
  <2>1. Count(d, R, (x + c) \div P) > 0 <=> c >= Due(d, P, x)
    BY <1>1, <1>3, Prescaled
  <2>2. Away(d, R, (x + c) \div P) * P - ((x + c) % P)
          = Away(Due(d, P, x), Full(R, P), c)
    <3>1. x \in Nat /\ P \in Nat \ {0} /\ d \in Nat \ {0} /\ R \in Nat \ {0}
      BY <1>1, <1>3
    <3>2. c \in Nat
      OBVIOUS
    <3> QED BY ONLY <3>1, <3>2, Prescaled
  <2> QED BY <1>2, <2>1, <2>2 DEF Due, Full
<1> QED BY <1>2, <1>3, <1>4 DEF x, d, R

LEMMA T0LOnTime ==
  ASSUME NEW u \in TimerState, NEW r \in Registers, NEW c \in Nat,
         NEW t, t = Tick(u, r, c), "LRUN" \in r.t0con
  PROVE  /\ Overflows(u.t0l, r.t0lr, T0LSteps(u, r, c)) > 0 <=> c >= Until(u, r).t0l
         /\ Until(t, r).t0l = Away(Until(u, r).t0l, FullPeriod(u, r).t0l, c)
<1>1. /\ T0LSteps(u, r, c) = T0Ticks(u, r, c) /\ u.t0l \in Byte /\ r.t0lr \in Byte
      /\ t.t0l = Stepped(u.t0l, r.t0lr, T0Ticks(u, r, c))
  BY TickFields, Typed DEF T0LSteps, Gated
<1> QED BY <1>1, PrescaledCounter, UntilIs

LEMMA ShortT0HOnTime ==
  ASSUME NEW u \in TimerState, NEW r \in Registers, NEW c \in Nat,
         NEW t, t = Tick(u, r, c), "HRUN" \in r.t0con, "LONG" \notin r.t0con
  PROVE  /\ Overflows(u.t0h, r.t0hr, T0HSteps(u, r, c)) > 0 <=> c >= Until(u, r).t0h
         /\ Until(t, r).t0h = Away(Until(u, r).t0h, FullPeriod(u, r).t0h, c)
<1>1. /\ T0HSteps(u, r, c) = T0Ticks(u, r, c) /\ u.t0h \in Byte /\ r.t0hr \in Byte
      /\ t.t0h = Stepped(u.t0h, r.t0hr, T0Ticks(u, r, c))
  BY TickFields, Typed DEF T0HSteps, Gated
<1> QED BY <1>1, PrescaledCounter, UntilIs

\* In long mode T0H is behind T0L, which is behind the prescaler.
LEMMA LongT0HOnTime ==
  ASSUME NEW u \in TimerState, NEW r \in Registers, NEW c \in Nat,
         NEW t, t = Tick(u, r, c), {"LRUN", "HRUN", "LONG"} \subseteq r.t0con
  PROVE  /\ Overflows(u.t0h, r.t0hr, T0HSteps(u, r, c)) > 0 <=> c >= Until(u, r).t0h
         /\ Until(t, r).t0h = Away(Until(u, r).t0h, FullPeriod(u, r).t0h, c)
<1> DEFINE x == u.prescale_accum
           P == Period(r)
           n == T0Ticks(u, r, c)
           d1 == W - u.t0l
           R1 == W - r.t0lr
           d2 == W - u.t0h
           R2 == W - r.t0hr
           k == Overflows(u.t0l, r.t0lr, n)
           D == d1 + (d2 - 1) * R1
           R == R2 * R1
<1>1. x \in Nat /\ P \in Nat \ {0} /\ n \in Nat
  BY Typed, StepsType
<1>2. /\ t.prescale_accum = (x + c) % P /\ n = (x + c) \div P
  BY TickFields DEF T0Ticks
<1>3. T0LSteps(u, r, c) = n /\ T0HSteps(u, r, c) = k
  BY DEF T0LSteps, T0HSteps, Gated
<1>4. /\ t.t0l = Stepped(u.t0l, r.t0lr, n) /\ t.t0h = Stepped(u.t0h, r.t0hr, k)
  BY <1>3, TickFields
<1>5. /\ u.t0l \in Byte /\ u.t0h \in Byte /\ r.t0lr \in Byte /\ r.t0hr \in Byte
      /\ W \in Nat
  BY Typed, TimerConstants
<1>6. /\ d1 \in Nat \ {0} /\ R1 \in Nat \ {0}
      /\ k = Count(d1, R1, n) /\ W - t.t0l = Away(d1, R1, n) /\ k \in Nat
  <2> HIDE DEF n
  <2>1. /\ d1 \in Nat \ {0} /\ R1 \in Nat \ {0} /\ k = Count(d1, R1, n)
        /\ W - Stepped(u.t0l, r.t0lr, n) = Away(d1, R1, n)
    BY <1>1, <1>5, CounterIs
  <2>2. k \in Nat
    BY <1>1, <1>5, SteppedType
  <2> QED BY <1>4, <2>1, <2>2
<1>7. /\ d2 \in Nat \ {0} /\ R2 \in Nat \ {0}
      /\ Overflows(u.t0h, r.t0hr, k) = Count(d2, R2, k)
      /\ W - t.t0h = Away(d2, R2, k)
  <2> HIDE DEF k
  <2> QED BY <1>4, <1>5, <1>6, CounterIs
<1>8. /\ Until(u, r).t0h = D * P - x
      /\ FullPeriod(u, r).t0h = R * P
  <2>1. W - 1 - u.t0h = d2 - 1
    BY <1>5 DEF Byte
  <2>2. R2 * (R1 * P) = (R2 * R1) * P
    <3> HIDE DEF P, R1, R2
    <3> QED BY <1>1, <1>6, <1>7
  <2>3. /\ Until(u, r).t0h = (d1 + (W - 1 - u.t0h) * R1) * P - x
        /\ FullPeriod(u, r).t0h = R2 * (R1 * P)
    BY UntilIs
  <2> QED BY <2>1, <2>2, <2>3
<1> DEFINE w1 == W - t.t0l
           w2 == W - t.t0h
<1>9. Until(t, r).t0h = (w1 + (w2 - 1) * R1) * P - t.prescale_accum
  <2>1. t.t0h \in Nat
    <3> HIDE DEF k
    <3>1. k \in Nat
      BY <1>6
    <3>2. Stepped(u.t0h, r.t0hr, k) \in Byte
      BY <1>5, <3>1, SteppedType
    <3>3. t.t0h \in Byte
      BY <1>4, <3>2
    <3> QED BY <1>5, <3>3 DEF Byte
  <2>2. W - 1 - t.t0h = w2 - 1
    BY <1>5, <2>1
  <2> QED BY <2>2, UntilIs
<1> HIDE DEF x, P, n, d1, d2, R1, R2, k
<1>10. D \in Nat \ {0} /\ R \in Nat \ {0}
  <2>1. (d2 - 1) * R1 \in Nat
    BY <1>6, <1>7
  <2>2. (R2 - 1) * R1 \in Nat /\ (R2 - 1) * R1 = R2 * R1 - R1 /\ R2 * R1 \in Int
    BY <1>6, <1>7
  <2> QED BY <1>6, <1>7, <2>1, <2>2
<1>11. Count(d2, R2, k) > 0 <=> n >= D
  <2>1. Count(d2, R2, Count(d1, R1, n)) > 0 <=> n >= d1 + (d2 - 1) * R1
    <3>1. d1 \in Int
      BY <1>6
    <3> QED BY <1>1, <1>6, <1>7, <3>1, Cascade
  <2> QED BY <1>6, <2>1
<1>12. w1 + (w2 - 1) * R1 = Away(D, R, n)
  <2>1. Away(d1, R1, n) + (Away(d2, R2, Count(d1, R1, n)) - 1) * R1
          = Away(d1 + (d2 - 1) * R1, R2 * R1, n)
    BY <1>1, <1>6, <1>7, Cascade
  <2> QED BY <1>6, <1>7, <2>1
<1> HIDE DEF D, R, w1, w2
<1>13. Count(D, R, n) > 0 <=> n >= D
  <2>1. D \in Int
    BY <1>10
  <2> QED BY <1>1, <1>10, <2>1, CountType
<1>14. /\ Count(D, R, n) > 0 <=> c >= D * P - x
       /\ Away(D, R, n) * P - ((x + c) % P) = Away(D * P - x, R * P, c)
  <2>1. Count(D, R, (x + c) \div P) > 0 <=> c >= Due(D, P, x)
    BY <1>1, <1>10, Prescaled
  <2>2. Away(D, R, (x + c) \div P) * P - ((x + c) % P)
          = Away(Due(D, P, x), Full(R, P), c)
    BY <1>1, <1>10, Prescaled
  <2> QED BY <1>2, <2>1, <2>2 DEF Due, Full
<1>15. Overflows(u.t0h, r.t0hr, T0HSteps(u, r, c)) > 0 <=> c >= D * P - x
  BY <1>3, <1>7, <1>11, <1>13, <1>14
<1>16. Until(t, r).t0h = Away(D * P - x, R * P, c)
  BY <1>2, <1>9, <1>12, <1>14
<1> QED BY <1>8, <1>15, <1>16

LEMMA T1OnTime ==
  ASSUME NEW u \in TimerState, NEW r \in Registers, NEW c \in Nat,
         NEW t, t = Tick(u, r, c)
  PROVE  /\ "LRUN" \in r.t1cnt =>
              /\ Overflows(u.t1l, r.t1lr, T1LSteps(r, c)) > 0 <=> c >= Until(u, r).t1l
              /\ Until(t, r).t1l = Away(Until(u, r).t1l, FullPeriod(u, r).t1l, c)
         /\ "HRUN" \in r.t1cnt =>
              /\ Overflows(u.t1h, r.t1hr, T1HSteps(r, c)) > 0 <=> c >= Until(u, r).t1h
              /\ Until(t, r).t1h = Away(Until(u, r).t1h, FullPeriod(u, r).t1h, c)
<1>1. ASSUME NEW v \in Byte, NEW l \in Byte
      PROVE  /\ Overflows(v, l, c) > 0 <=> c >= W - v
             /\ W - Stepped(v, l, c) = Away(W - v, W - l, c)
  <2>1. Overflows(v, l, c) > 0 <=> v + c >= W
    BY SteppedType
  <2>2. v \in Nat /\ W \in Nat
    BY TimerConstants DEF Byte
  <2> QED BY <2>1, <2>2, CounterIs
<1>2. /\ u.t1l \in Byte /\ u.t1h \in Byte /\ r.t1lr \in Byte /\ r.t1hr \in Byte
  BY Typed
<1>3. ASSUME "LRUN" \in r.t1cnt
      PROVE  T1LSteps(r, c) = c /\ t.t1l = Stepped(u.t1l, r.t1lr, c)
  BY <1>3, TickFields DEF T1LSteps, Gated
<1>4. ASSUME "HRUN" \in r.t1cnt
      PROVE  T1HSteps(r, c) = c /\ t.t1h = Stepped(u.t1h, r.t1hr, c)
  BY <1>4, TickFields DEF T1HSteps, Gated
<1> QED BY <1>1, <1>2, <1>3, <1>4, UntilIs
-----------------------------------------------------------------------------
(* On time, and without drift.                                              *)

\* A counter that does not run never overflows; one that runs does when due.
LEMMA Overflowing ==
  ASSUME NEW u \in TimerState, NEW r \in Registers, NEW c \in Nat
  PROVE  /\ Overflows(u.t0l, r.t0lr, T0LSteps(u, r, c)) > 0
              <=> "LRUN" \in r.t0con /\ c >= Until(u, r).t0l
         /\ Overflows(u.t0h, r.t0hr, T0HSteps(u, r, c)) > 0
              <=> /\ "HRUN" \in r.t0con /\ ("LONG" \in r.t0con => "LRUN" \in r.t0con)
                  /\ c >= Until(u, r).t0h
         /\ Overflows(u.t1l, r.t1lr, T1LSteps(r, c)) > 0
              <=> "LRUN" \in r.t1cnt /\ c >= Until(u, r).t1l
         /\ Overflows(u.t1h, r.t1hr, T1HSteps(r, c)) > 0
              <=> "HRUN" \in r.t1cnt /\ c >= Until(u, r).t1h
<1>1. ASSUME NEW v \in Byte, NEW l \in Byte PROVE ~(Overflows(v, l, 0) > 0)
  <2>1. v + 0 < W
    BY TimerConstants DEF Byte
  <2> QED BY <2>1 DEF Overflows
<1>2. /\ u.t0l \in Byte /\ u.t0h \in Byte /\ u.t1l \in Byte /\ u.t1h \in Byte
      /\ r.t0lr \in Byte /\ r.t0hr \in Byte /\ r.t1lr \in Byte /\ r.t1hr \in Byte
  BY Typed
<1>3. /\ "LRUN" \notin r.t0con => T0LSteps(u, r, c) = 0
      /\ "LRUN" \notin r.t1cnt => T1LSteps(r, c) = 0
      /\ "HRUN" \notin r.t1cnt => T1HSteps(r, c) = 0
  BY DEF T0LSteps, T1LSteps, T1HSteps, Gated
<1>4. "HRUN" \notin r.t0con \/ ("LONG" \in r.t0con /\ "LRUN" \notin r.t0con)
        => T0HSteps(u, r, c) = 0
  <2>1. CASE "HRUN" \notin r.t0con
    BY <2>1 DEF T0HSteps, Gated
  <2>2. CASE "LONG" \in r.t0con /\ "LRUN" \notin r.t0con
    <3>1. Overflows(u.t0l, r.t0lr, T0LSteps(u, r, c)) = 0
      <4>1. /\ Overflows(u.t0l, r.t0lr, 0) \in Nat
            /\ ~(Overflows(u.t0l, r.t0lr, 0) > 0)
        BY <1>1, <1>2, SteppedType
      <4> QED BY <1>3, <2>2, <4>1
    <3> QED BY <2>2, <3>1 DEF T0HSteps, Gated
  <2> QED BY <2>1, <2>2
<1>5. Overflows(u.t0l, r.t0lr, T0LSteps(u, r, c)) > 0
        <=> "LRUN" \in r.t0con /\ c >= Until(u, r).t0l
  <2>1. CASE "LRUN" \in r.t0con
    BY <2>1, T0LOnTime
  <2>2. CASE "LRUN" \notin r.t0con
    BY <1>1, <1>2, <1>3, <2>2
  <2> QED BY <2>1, <2>2
<1>6. Overflows(u.t0h, r.t0hr, T0HSteps(u, r, c)) > 0
        <=> /\ "HRUN" \in r.t0con /\ ("LONG" \in r.t0con => "LRUN" \in r.t0con)
            /\ c >= Until(u, r).t0h
  <2>1. CASE "HRUN" \in r.t0con /\ "LONG" \notin r.t0con
    BY <2>1, ShortT0HOnTime
  <2>2. CASE "HRUN" \in r.t0con /\ "LONG" \in r.t0con /\ "LRUN" \in r.t0con
    <3>1. {"LRUN", "HRUN", "LONG"} \subseteq r.t0con
      BY <2>2
    <3> QED BY <2>2, <3>1, LongT0HOnTime
  <2>3. CASE "HRUN" \notin r.t0con \/ ("LONG" \in r.t0con /\ "LRUN" \notin r.t0con)
    BY <1>1, <1>2, <1>4, <2>3
  <2> QED BY <2>1, <2>2, <2>3
<1>7. Overflows(u.t1l, r.t1lr, T1LSteps(r, c)) > 0
        <=> "LRUN" \in r.t1cnt /\ c >= Until(u, r).t1l
  <2>1. CASE "LRUN" \in r.t1cnt
    BY <2>1, T1OnTime
  <2>2. CASE "LRUN" \notin r.t1cnt
    BY <1>1, <1>2, <1>3, <2>2
  <2> QED BY <2>1, <2>2
<1>8. Overflows(u.t1h, r.t1hr, T1HSteps(r, c)) > 0
        <=> "HRUN" \in r.t1cnt /\ c >= Until(u, r).t1h
  <2>1. CASE "HRUN" \in r.t1cnt
    BY <2>1, T1OnTime
  <2>2. CASE "HRUN" \notin r.t1cnt
    BY <1>1, <1>2, <1>3, <2>2
  <2> QED BY <2>1, <2>2
<1> QED BY <1>5, <1>6, <1>7, <1>8

\* The requests of a stretch of time are those of the counters due in it.
LEMMA RaisedIs ==
  ASSUME NEW u \in TimerState, NEW r \in Registers, NEW c \in Nat
  PROVE  Raised(u, r, c)
           = {Source(r)[n] : n \in {m \in DOMAIN Source(r) : c >= Until(u, r)[m]}}
<1> DEFINE S == Source(r)
           U == Until(u, r)
<1>1. DOMAIN S = (Running(r) \ {m \in {"base"} : ~r.btcr})
                   \ {m \in {"t0l"} : "LONG" \in r.t0con}
  BY DEF Source
<1>2. \A n \in DOMAIN S :
        /\ n \in {"base", "t0l", "t0h", "t1l", "t1h"}
        /\ n = "base" => S[n] = INT3_BASE
        /\ n = "t0l" => S[n] = INT2_T0L
        /\ n = "t0h" => S[n] = T0H
        /\ n = "t1l" => S[n] = T1
        /\ n = "t1h" => S[n] = T1
  BY DEF Source, Running
<1>3. /\ "base" \in DOMAIN S <=> r.btcr
      /\ "t0l" \in DOMAIN S <=> "LRUN" \in r.t0con /\ "LONG" \notin r.t0con
      /\ "t0h" \in DOMAIN S
           <=> "HRUN" \in r.t0con /\ ("LONG" \in r.t0con => "LRUN" \in r.t0con)
      /\ "t1l" \in DOMAIN S <=> "LRUN" \in r.t1cnt
      /\ "t1h" \in DOMAIN S <=> "HRUN" \in r.t1cnt
  BY <1>1 DEF Running
<1>4. BaseRollsOver(u, c) <=> c >= U.base
  BY BaseOnTime
<1>5. \A i : i \in Raised(u, r, c) <=>
        \/ i = INT3_BASE /\ r.btcr /\ c >= U.base
        \/ i = INT2_T0L /\ "LONG" \notin r.t0con /\ "LRUN" \in r.t0con /\ c >= U.t0l
        \/ /\ i = T0H /\ "HRUN" \in r.t0con
           /\ "LONG" \in r.t0con => "LRUN" \in r.t0con
           /\ c >= U.t0h
        \/ i = T1 /\ "LRUN" \in r.t1cnt /\ c >= U.t1l
        \/ i = T1 /\ "HRUN" \in r.t1cnt /\ c >= U.t1h
  <2> HIDE DEF U
  <2>1. /\ BaseRollsOver(u, c) <=> c >= U.base
        /\ Overflows(u.t0l, r.t0lr, T0LSteps(u, r, c)) > 0
              <=> "LRUN" \in r.t0con /\ c >= U.t0l
        /\ Overflows(u.t0h, r.t0hr, T0HSteps(u, r, c)) > 0
              <=> /\ "HRUN" \in r.t0con /\ ("LONG" \in r.t0con => "LRUN" \in r.t0con)
                  /\ c >= U.t0h
        /\ Overflows(u.t1l, r.t1lr, T1LSteps(r, c)) > 0
              <=> "LRUN" \in r.t1cnt /\ c >= U.t1l
        /\ Overflows(u.t1h, r.t1hr, T1HSteps(r, c)) > 0
              <=> "HRUN" \in r.t1cnt /\ c >= U.t1h
    BY <1>4, Overflowing DEF U
  <2> QED BY <2>1 DEF Raised
<1>6. \A i : i \in Raised(u, r, c) <=> \E n \in DOMAIN S : c >= U[n] /\ i = S[n]
  <2> HIDE DEF S, U
  <2>1. ASSUME NEW i, NEW n \in DOMAIN S, c >= U[n], i = S[n]
        PROVE  i \in Raised(u, r, c)
    <3>1. CASE n = "base"
      BY <1>2, <1>3, <1>5, <2>1, <3>1
    <3>2. CASE n = "t0l"
      BY <1>2, <1>3, <1>5, <2>1, <3>2
    <3>3. CASE n = "t0h"
      BY <1>2, <1>3, <1>5, <2>1, <3>3
    <3>4. CASE n = "t1l"
      BY <1>2, <1>3, <1>5, <2>1, <3>4
    <3>5. CASE n = "t1h"
      BY <1>2, <1>3, <1>5, <2>1, <3>5
    <3> QED BY <1>2, <3>1, <3>2, <3>3, <3>4, <3>5
  <2>2. ASSUME NEW i \in Raised(u, r, c)
        PROVE  \E n \in DOMAIN S : c >= U[n] /\ i = S[n]
    <3>1. CASE i = INT3_BASE /\ r.btcr /\ c >= U.base
      <4>1. "base" \in DOMAIN S /\ c >= U["base"] /\ i = S["base"]
        BY <1>2, <1>3, <3>1
      <4> QED BY <4>1
    <3>2. CASE i = INT2_T0L /\ "LONG" \notin r.t0con /\ "LRUN" \in r.t0con /\ c >= U.t0l
      <4>1. "t0l" \in DOMAIN S /\ c >= U["t0l"] /\ i = S["t0l"]
        BY <1>2, <1>3, <3>2
      <4> QED BY <4>1
    <3>3. CASE /\ i = T0H /\ "HRUN" \in r.t0con
               /\ "LONG" \in r.t0con => "LRUN" \in r.t0con
               /\ c >= U.t0h
      <4>1. "t0h" \in DOMAIN S /\ c >= U["t0h"] /\ i = S["t0h"]
        BY <1>2, <1>3, <3>3
      <4> QED BY <4>1
    <3>4. CASE i = T1 /\ "LRUN" \in r.t1cnt /\ c >= U.t1l
      <4>1. "t1l" \in DOMAIN S /\ c >= U["t1l"] /\ i = S["t1l"]
        BY <1>2, <1>3, <3>4
      <4> QED BY <4>1
    <3>5. CASE i = T1 /\ "HRUN" \in r.t1cnt /\ c >= U.t1h
      <4>1. "t1h" \in DOMAIN S /\ c >= U["t1h"] /\ i = S["t1h"]
        BY <1>2, <1>3, <3>5
      <4> QED BY <4>1
    <3> QED BY <1>5, <3>1, <3>2, <3>3, <3>4, <3>5
  <2> QED BY <2>1, <2>2
<1> QED BY <1>6

\* Time requests an interrupt exactly when a running counter is due for it, and
\* a stopped one never does (timer.h:9-11, timer.c:56-58).
THEOREM OnTime == Spec => []RaisesOnTime
<1>1. TypeOK => RaisesOnTime
  <2> SUFFICES ASSUME TypeOK, NEW c \in 0 .. Horizon
               PROVE  Tick(tm, reg, c).pending =
                        tm.pending \cup {Source(reg)[n] : n \in
                          {m \in DOMAIN Source(reg) : c >= Until(tm, reg)[m]}}
    BY DEF RaisesOnTime
  <2>1. c \in Nat /\ tm \in TimerState /\ reg \in Registers
    BY VmuTimerConstants DEF TypeOK
  <2>2. Tick(tm, reg, c).pending = tm.pending \cup Raised(tm, reg, c)
    BY <2>1, TickFields
  <2>3. Raised(tm, reg, c) = {Source(reg)[n] : n \in
          {m \in DOMAIN Source(reg) : c >= Until(tm, reg)[m]}}
    BY <2>1, RaisedIs
  <2> QED BY <2>2, <2>3
<1> QED BY <1>1, TypeCorrect, PTL

\* However long a stretch of time is retired at once, the overflow after it
\* comes at a whole number of reload periods behind the one that was due
\* (timer.h:9-11).
THEOREM NoDrift == Spec => []SteadyCadence
<1>1. TypeOK => SteadyCadence
  <2> SUFFICES ASSUME TypeOK, NEW c \in 0 .. Horizon, NEW n \in Running(reg)
               PROVE  Until(Tick(tm, reg, c), reg)[n] =
                        Away(Until(tm, reg)[n], FullPeriod(tm, reg)[n], c)
    BY DEF SteadyCadence, Away
  <2>1. c \in Nat /\ tm \in TimerState /\ reg \in Registers
    BY VmuTimerConstants DEF TypeOK
  <2>2. \/ n = "base"
        \/ n = "t0l" /\ "LRUN" \in reg.t0con
        \/ n = "t0h" /\ "HRUN" \in reg.t0con /\ "LONG" \notin reg.t0con
        \/ n = "t0h" /\ {"LRUN", "HRUN", "LONG"} \subseteq reg.t0con
        \/ n = "t1l" /\ "LRUN" \in reg.t1cnt
        \/ n = "t1h" /\ "HRUN" \in reg.t1cnt
    BY DEF Running
  <2>3. CASE n = "base"
    BY <2>1, <2>3, BaseOnTime
  <2>4. CASE n = "t0l" /\ "LRUN" \in reg.t0con
    BY <2>1, <2>4, T0LOnTime
  <2>5. CASE n = "t0h" /\ "HRUN" \in reg.t0con /\ "LONG" \notin reg.t0con
    BY <2>1, <2>5, ShortT0HOnTime
  <2>6. CASE n = "t0h" /\ {"LRUN", "HRUN", "LONG"} \subseteq reg.t0con
    BY <2>1, <2>6, LongT0HOnTime
  <2>7. CASE n = "t1l" /\ "LRUN" \in reg.t1cnt
    BY <2>1, <2>7, T1OnTime
  <2>8. CASE n = "t1h" /\ "HRUN" \in reg.t1cnt
    BY <2>1, <2>8, T1OnTime
  <2> QED BY <2>2, <2>3, <2>4, <2>5, <2>6, <2>7, <2>8
<1> QED BY <1>1, TypeCorrect, PTL

-----------------------------------------------------------------------------
(* The loops of vmu_timer_tick.  A loop with a recursive definition is      *)
(* compared with a closed form of what k passes do, by induction over k.    *)

\* Counting from 0 gets everywhere.
LEMMA UpTo ==
  ASSUME NEW N \in Nat, NEW T, 0 \in T,
         \A n \in 0 .. N - 1 : n \in T => n + 1 \in T
  PROVE  0 .. N \subseteq T
<1> DEFINE R == OpToRel(<, Nat)
           P == {n \in 0 .. N : n \notin T}
<1>1. ASSUME P # {} PROVE \E i \in P : \A j \in P : <<j, i>> \notin R
  <2>1. P \subseteq Nat
    OBVIOUS
  <2> HIDE DEF R, P
  <2>2. IsWellFoundedOn(R, Nat)
    BY NatLessThanWellFounded DEF R
  <2> QED BY <1>1, <2>1, <2>2, WFMin
<1>2. \A i \in P : i - 1 \in P /\ <<i - 1, i>> \in R
  <2> SUFFICES ASSUME NEW i \in P PROVE i - 1 \in P /\ <<i - 1, i>> \in R
    OBVIOUS
  <2>1. i # 0 /\ i \in 0 .. N
    OBVIOUS
  <2>2. i - 1 \in 0 .. N - 1 /\ (i - 1) + 1 = i
    BY <2>1
  <2>3. i - 1 \notin T
    BY <2>2
  <2>4. <<i - 1, i>> \in R
    BY <2>1, <2>2 DEF OpToRel
  <2>5. i - 1 \in P
    BY <2>1, <2>2, <2>3
  <2> QED BY <2>4, <2>5
<1> HIDE DEF P, R
<1>3. P = {}
  BY <1>1, <1>2
<1> QED BY <1>3 DEF P

\* Two sequences that begin alike and go on alike end alike.
LEMMA SameLoop ==
  ASSUME NEW N \in Nat, NEW g, NEW h, g[0] = h[0],
         \A n \in 0 .. N - 1 : g[n] = h[n] => g[n + 1] = h[n + 1]
  PROVE  g[N] = h[N]
<1> DEFINE T == {n \in Nat : g[n] = h[n]}
<1>1. 0 \in T /\ \A n \in 0 .. N - 1 : n \in T => n + 1 \in T
  OBVIOUS
<1>2. 0 .. N \subseteq T
  <2> HIDE DEF T
  <2> QED BY <1>1, UpTo
<1> QED BY <1>2

-----------------------------------------------------------------------------
(* What k passes of each loop have done.                                    *)

BaseAfter(t, r, c, k) ==
  [t EXCEPT !.base_accum = (@ + c) - k * t.base_divisor,
            !.base_count = (@ + k) % CountMod,
            !.pending = @ \cup {i \in {INT3_BASE} :
                                 /\ r.btcr
                                 /\ \E j \in 1 .. k : (t.base_count + j) % BaseRoll = 0}]

T0LDone(r, k) == Gated("LRUN" \in r.t0con, k)
T0HDone(t, r, k) ==
  Gated("HRUN" \in r.t0con,
        IF "LONG" \in r.t0con THEN Overflows(t.t0l, r.t0lr, T0LDone(r, k)) ELSE k)

T0After(t, r, c, k) ==
  [t EXCEPT !.prescale_accum = (@ + c) - k * Period(r),
            !.t0l = Stepped(@, r.t0lr, T0LDone(r, k)),
            !.t0h = Stepped(@, r.t0hr, T0HDone(t, r, k)),
            !.pending = @ \cup {i \in {INT2_T0L} :
                                 /\ "LONG" \notin r.t0con
                                 /\ Overflows(t.t0l, r.t0lr, T0LDone(r, k)) > 0}
                          \cup {i \in {T0H} :
                                 Overflows(t.t0h, r.t0hr, T0HDone(t, r, k)) > 0}]

T1After(t, r, k) ==
  [t EXCEPT !.t1l = Stepped(@, r.t1lr, T1LSteps(r, k)),
            !.t1h = Stepped(@, r.t1hr, T1HSteps(r, k)),
            !.pending = @ \cup {i \in {T1} :
                                 \/ Overflows(t.t1l, r.t1lr, T1LSteps(r, k)) > 0
                                 \/ Overflows(t.t1h, r.t1hr, T1HSteps(r, k)) > 0}]

\* One step_reload more.
LEMMA OnceMore ==
  ASSUME NEW v \in Byte, NEW r \in Byte, NEW n \in Nat,
         NEW s, s = Stepped(v, r, n), NEW m, m = n + 1
  PROVE  /\ s \in Byte /\ Overflows(v, r, n) \in Nat
         /\ Stepped(v, r, m) = Step(s, r)
         /\ Over(s) => Overflows(v, r, m) = Overflows(v, r, n) + 1
         /\ ~Over(s) => Overflows(v, r, m) = Overflows(v, r, n)
<1>1. s \in Byte /\ Overflows(v, r, n) \in Nat
  BY SteppedType
<1>2. /\ Stepped(s, r, 1) = Stepped(v, r, m)
      /\ Overflows(v, r, n) + Overflows(s, r, 1) = Overflows(v, r, m)
  BY SteppedAdds
<1>3. W \in Nat \ {0} /\ s \in 0 .. W - 1 /\ r \in 0 .. W - 1
  BY <1>1, TimerConstants DEF Byte
<1>4. CASE s = W - 1
  <2>1. s + 1 - W = 0 /\ ~(s + 1 < W) /\ W - r \in Nat \ {0}
    BY <1>3, <1>4
  <2>2. 0 % (W - r) = 0 /\ 0 \div (W - r) = 0
    BY <2>1, DivSmall
  <2>3. Stepped(s, r, 1) = r /\ Overflows(s, r, 1) = 1
    BY <1>3, <2>1, <2>2 DEF Stepped, Overflows
  <2> QED BY <1>1, <1>2, <1>4, <2>3 DEF Step, Over
<1>5. CASE s # W - 1
  <2>1. Stepped(s, r, 1) = s + 1 /\ Overflows(s, r, 1) = 0
    BY <1>3, <1>5 DEF Stepped, Overflows
  <2> QED BY <1>1, <1>2, <1>5, <2>1 DEF Step, Over
<1> QED BY <1>4, <1>5

\* A counter that has made no step.
LEMMA NoStep ==
  ASSUME NEW v \in Byte, NEW r
  PROVE  Stepped(v, r, 0) = v /\ Overflows(v, r, 0) = 0
BY TimerConstants DEF Byte, Stepped, Overflows

\* There are no more periods than cycles.
LEMMA NoMorePeriods ==
  ASSUME NEW n \in Nat, NEW d \in Nat \ {0}
  PROVE  n \div d \in Nat /\ n \div d <= n
<1> DEFINE k == n \div d
<1>1. k \in Nat
  BY DivNat
<1>2. n >= k * d
  BY <1>1, DivAtLeast
<1> HIDE DEF k
<1>3. k * d >= k /\ k * d \in Nat
  BY <1>1
<1> QED BY <1>1, <1>2, <1>3 DEF k

\* What whole periods leave.
LEMMA Taken ==
  ASSUME NEW x \in Nat, NEW d \in Nat \ {0}
  PROVE  x - (x \div d) * d = x % d
<1> DEFINE k == x \div d
           m == x % d
<1>1. k \in Int /\ m \in Int /\ x = k * d + m
  BY DivMod
<1> HIDE DEF k, m
<1>2. k * d \in Int
  BY <1>1
<1>3. x - k * d = m
  BY <1>1, <1>2
<1> QED BY <1>3 DEF k, m

-----------------------------------------------------------------------------
(* The base timer.                                                          *)

LEMMA BaseStarts ==
  ASSUME NEW t \in TimerState, NEW r \in Registers, NEW c \in Nat
  PROVE  BaseAfter(t, r, c, 0) = [t EXCEPT !.base_accum = @ + c]
<1> DEFINE accum == (t.base_accum + c) - 0 * t.base_divisor
           count == (t.base_count + 0) % CountMod
           pending == t.pending \cup {i \in {INT3_BASE} :
                        /\ r.btcr
                        /\ \E j \in 1 .. 0 : (t.base_count + j) % BaseRoll = 0}
<1>1. accum = t.base_accum + c
  BY Typed
<1>2. count = t.base_count
  <2>1. t.base_count \in 0 .. CountMod - 1 /\ t.base_count + 0 = t.base_count
    BY TimerConstants DEF TimerState
  <2> QED BY <2>1, DivSmall, TimerConstants
<1>3. pending = t.pending
  OBVIOUS
<1>4. BaseAfter(t, r, c, 0) = [t EXCEPT !.base_accum = accum, !.base_count = count,
                                        !.pending = pending]
  BY DEF BaseAfter, TimerState
<1> HIDE DEF accum, count, pending
<1> QED BY <1>1, <1>2, <1>3, <1>4 DEF TimerState

LEMMA BasePasses ==
  ASSUME NEW t \in TimerState, NEW r \in Registers, NEW c \in Nat, NEW k \in Nat,
         k <= BaseTicks(t, c)
  PROVE  BasePass(BaseAfter(t, r, c, k), r)
           = BaseAfter(t, r, c, IF k < BaseTicks(t, c) THEN k + 1 ELSE k)
<1> DEFINE A == t.base_accum + c
           d == t.base_divisor
           b == t.base_count
           s == BaseAfter(t, r, c, k)
           Rolls(j) == (b + j) % BaseRoll = 0
           Asks(m) == {i \in {INT3_BASE} : r.btcr /\ \E j \in 1 .. m : Rolls(j)}
<1>1. /\ A \in Nat /\ d \in Nat \ {0} /\ b \in Nat /\ BaseTicks(t, c) = A \div d
      /\ A \div d \in Nat
  <2>1. A \in Nat /\ d \in Nat \ {0} /\ b \in Nat
    BY Typed
  <2>2. BaseTicks(t, c) = A \div d
    BY DEF BaseTicks
  <2> HIDE DEF A, d
  <2> QED BY <2>1, <2>2, DivNat
<1>2. /\ s.base_accum = A - k * d /\ s.base_divisor = d
      /\ s.base_count = (b + k) % CountMod /\ s.pending = t.pending \cup Asks(k)
      /\ s = [t EXCEPT !.base_accum = A - k * d, !.base_count = (b + k) % CountMod,
                       !.pending = t.pending \cup Asks(k)]
  BY DEF BaseAfter, TimerState
<1>3. k * d \in Nat
  BY <1>1
<1>4. CASE k < BaseTicks(t, c)
  <2> DEFINE m == (((b + k) % CountMod) + 1) % CountMod
  <2>1. A >= (k + 1) * d
    BY <1>1, <1>4, DivAtLeast
  <2>2. (k + 1) * d = k * d + d
    BY <1>1
  <2>3. ~(s.base_accum < s.base_divisor) /\ (A - k * d) - d = A - (k + 1) * d
    BY <1>1, <1>2, <1>3, <2>1, <2>2
  <2>4. m = (b + (k + 1)) % CountMod
    <3>1. b + k \in Int /\ (b + k) + 1 = b + (k + 1)
      BY <1>1
    <3> QED BY <3>1, DivSplit, TimerConstants
  <2>5. m % BaseRoll = 0 <=> Rolls(k + 1)
    <3>1. b + (k + 1) \in Int
      BY <1>1
    <3>2. m + 0 = m
      BY <2>4, <3>1, DivMod, TimerConstants
    <3>3. (b + (k + 1)) + 0 = b + (k + 1)
      BY <3>1
    <3>4. (((b + (k + 1)) % CountMod) + 0) % BaseRoll = ((b + (k + 1)) + 0) % BaseRoll
      BY <3>1, CountWraps
    <3> QED BY <2>4, <3>2, <3>3, <3>4
  <2> HIDE DEF m, Rolls, A, d, b
  <2>6. Asks(k) \cup {i \in {INT3_BASE} : Rolls(k + 1) /\ r.btcr} = Asks(k + 1)
    <3>1. 1 .. k + 1 = (1 .. k) \cup {k + 1}
      OBVIOUS
    <3> QED BY <3>1
  <2>7. BasePass(s, r) = [s EXCEPT !.base_accum = @ - s.base_divisor, !.base_count = m,
                            !.pending = @ \cup {i \in {INT3_BASE} : Rolls(k + 1) /\ r.btcr}]
    BY <1>2, <2>3, <2>5 DEF BasePass, m
  <2> HIDE DEF s, Asks
  <2>8. BasePass(s, r) = [t EXCEPT !.base_accum = A - (k + 1) * d,
                                   !.base_count = (b + (k + 1)) % CountMod,
                                   !.pending = t.pending \cup Asks(k + 1)]
    BY <1>2, <2>3, <2>4, <2>6, <2>7 DEF TimerState
  <2>9. BaseAfter(t, r, c, k + 1)
          = [t EXCEPT !.base_accum = A - (k + 1) * d,
                      !.base_count = (b + (k + 1)) % CountMod,
                      !.pending = t.pending \cup Asks(k + 1)]
    BY DEF BaseAfter, A, b, d, Asks, Rolls
  <2> QED BY <1>4, <2>8, <2>9 DEF s
<1>5. CASE ~(k < BaseTicks(t, c))
  <2>1. k = A \div d
    BY <1>1, <1>5
  <2> HIDE DEF A, d, s
  <2>2. A = k * d + (A % d) /\ A % d < d /\ A % d \in Nat
    BY <1>1, <2>1, DivMod
  <2>3. s.base_accum < s.base_divisor
    BY <1>1, <1>2, <1>3, <2>2
  <2> QED BY <1>5, <2>3 DEF BasePass, s
<1> QED BY <1>4, <1>5

LEMMA BaseLoopIs ==
  ASSUME NEW t \in TimerState, NEW r \in Registers, NEW c \in Nat
  PROVE  BaseLoop(t, r, c) = BaseAfter(t, r, c, BaseTicks(t, c))
<1> DEFINE K == BaseTicks(t, c)
           N == t.base_accum + c
           start == [t EXCEPT !.base_accum = @ + c]
           F(p) == [n \in 0 .. N |-> IF n = 0 THEN start ELSE BasePass(p[n - 1], r)]
           h == [n \in 0 .. N |-> BaseAfter(t, r, c, IF n < K THEN n ELSE K)]
           passes == CHOOSE p : p = F(p)
<1>1. N \in Nat /\ K \in Nat /\ K <= N /\ start.base_accum = N
  <2> DEFINE d == t.base_divisor
  <2>1. N \in Nat /\ d \in Nat \ {0} /\ start.base_accum = N
    BY Typed DEF TimerState
  <2>2. K = N \div d
    BY DEF BaseTicks
  <2> HIDE DEF N, K, d, start
  <2> QED BY <2>1, <2>2, NoMorePeriods
<1>2. BaseLoop(t, r, c) = passes[N]
  BY <1>1 DEF BaseLoop
<1> HIDE DEF N, K, start
<1>3. h[0] = start
  BY <1>1, BaseStarts DEF start
<1>4. ASSUME NEW n \in 0 .. N - 1 PROVE h[n + 1] = BasePass(h[n], r)
  <2> DEFINE k == IF n < K THEN n ELSE K
  <2>1. k \in Nat /\ k <= K /\ n \in 0 .. N /\ n + 1 \in 0 .. N
    BY <1>1
  <2>2. (IF n + 1 < K THEN n + 1 ELSE K) = IF k < K THEN k + 1 ELSE k
    BY <1>1
  <2>3. h[n] = BaseAfter(t, r, c, k) /\ h[n + 1] = BaseAfter(t, r, c, IF k < K THEN k + 1 ELSE k)
    BY <2>1, <2>2
  <2> HIDE DEF k, h
  <2> QED BY <2>1, <2>3, BasePasses DEF K
<1>5. h = F(h)
  <2>1. ASSUME NEW n \in 0 .. N
        PROVE  h[n] = IF n = 0 THEN start ELSE BasePass(h[n - 1], r)
    <3>1. CASE n = 0
      BY <1>3, <3>1
    <3>2. CASE n # 0
      <4>1. n - 1 \in 0 .. N - 1 /\ (n - 1) + 1 = n
        BY <1>1, <3>2
      <4> HIDE DEF h
      <4> QED BY <1>4, <3>2, <4>1
    <3> QED BY <3>1, <3>2
  <2>2. h = [n \in 0 .. N |-> h[n]]
    OBVIOUS
  <2> HIDE DEF h
  <2> QED BY <2>1, <2>2
<1>6. passes = F(passes)
  <2> HIDE DEF F, h
  <2> QED BY <1>5
<1>7. /\ passes[0] = start
      /\ \A n \in 0 .. N - 1 : passes[n + 1] = BasePass(passes[n], r)
  <2>1. \A n \in 0 .. N : passes[n] = F(passes)[n]
    BY <1>6
  <2> HIDE DEF passes
  <2>2. passes[0] = start
    BY <1>1, <2>1
  <2>3. ASSUME NEW n \in 0 .. N - 1 PROVE passes[n + 1] = BasePass(passes[n], r)
    <3>1. n + 1 \in 0 .. N /\ n + 1 # 0 /\ (n + 1) - 1 = n
      BY <1>1
    <3> QED BY <2>1, <3>1
  <2> QED BY <2>2, <2>3
<1> HIDE DEF passes, h, F
<1>8. passes[N] = h[N]
  <2>1. \A n \in 0 .. N - 1 : passes[n] = h[n] => passes[n + 1] = h[n + 1]
    BY <1>4, <1>7
  <2> QED BY <1>1, <1>3, <1>7, <2>1, SameLoop
<1>9. h[N] = BaseAfter(t, r, c, K)
  BY <1>1 DEF h
<1> QED BY <1>2, <1>8, <1>9 DEF K

-----------------------------------------------------------------------------
(* Timer 0.                                                                 *)

\* Its halves after k passes, and whether pass k + 1 steps them.
LowAfter(t, r, k) == Stepped(t.t0l, r.t0lr, T0LDone(r, k))
HighAfter(t, r, k) == Stepped(t.t0h, r.t0hr, T0HDone(t, r, k))
LowOvers(t, r, k) == Overflows(t.t0l, r.t0lr, T0LDone(r, k))
HighOvers(t, r, k) == Overflows(t.t0h, r.t0hr, T0HDone(t, r, k))
LowCarries(t, r, k) == "LRUN" \in r.t0con /\ Over(LowAfter(t, r, k))
HighSteps(t, r, k) ==
  "HRUN" \in r.t0con /\ ("LONG" \in r.t0con => LowCarries(t, r, k))

LEMMA LowPass ==
  ASSUME NEW t \in TimerState, NEW r \in Registers, NEW k \in Nat
  PROVE  /\ LowOvers(t, r, k) \in Nat
         /\ "LRUN" \in r.t0con =>
              LowAfter(t, r, k + 1) = Step(LowAfter(t, r, k), r.t0lr)
         /\ "LRUN" \notin r.t0con => LowAfter(t, r, k + 1) = LowAfter(t, r, k)
         /\ LowCarries(t, r, k) => LowOvers(t, r, k + 1) = LowOvers(t, r, k) + 1
         /\ ~LowCarries(t, r, k) => LowOvers(t, r, k + 1) = LowOvers(t, r, k)
<1> DEFINE v == t.t0l
           q == r.t0lr
           n == T0LDone(r, k)
           m == T0LDone(r, k + 1)
<1>1. v \in Byte /\ q \in Byte /\ n \in Nat
  BY Typed DEF T0LDone, Gated
<1>2. CASE "LRUN" \in r.t0con
  <2>1. m = n + 1
    BY <1>2 DEF T0LDone, Gated
  <2> HIDE DEF v, q, n, m
  <2>2. Overflows(v, q, n) \in Nat /\ Stepped(v, q, m) = Step(Stepped(v, q, n), q)
    BY <1>1, <2>1, OnceMore
  <2>3. Over(Stepped(v, q, n)) => Overflows(v, q, m) = Overflows(v, q, n) + 1
    BY <1>1, <2>1, OnceMore
  <2>4. ~Over(Stepped(v, q, n)) => Overflows(v, q, m) = Overflows(v, q, n)
    BY <1>1, <2>1, OnceMore
  <2> QED BY <1>2, <2>2, <2>3, <2>4
          DEF LowAfter, LowOvers, LowCarries, v, q, n, m
<1>3. CASE "LRUN" \notin r.t0con
  <2>1. m = n
    BY <1>3 DEF T0LDone, Gated
  <2>2. Overflows(v, q, n) \in Nat
    BY <1>1, SteppedType
  <2> QED BY <1>3, <2>1, <2>2 DEF LowAfter, LowOvers, LowCarries
<1> QED BY <1>2, <1>3

LEMMA HighPass ==
  ASSUME NEW t \in TimerState, NEW r \in Registers, NEW k \in Nat
  PROVE  /\ HighOvers(t, r, k) \in Nat
         /\ HighSteps(t, r, k) =>
              HighAfter(t, r, k + 1) = Step(HighAfter(t, r, k), r.t0hr)
         /\ ~HighSteps(t, r, k) => HighAfter(t, r, k + 1) = HighAfter(t, r, k)
         /\ HighSteps(t, r, k) /\ Over(HighAfter(t, r, k)) =>
              HighOvers(t, r, k + 1) = HighOvers(t, r, k) + 1
         /\ ~(HighSteps(t, r, k) /\ Over(HighAfter(t, r, k))) =>
              HighOvers(t, r, k + 1) = HighOvers(t, r, k)
<1> DEFINE v == t.t0h
           q == r.t0hr
           n == T0HDone(t, r, k)
           m == T0HDone(t, r, k + 1)
<1>1. v \in Byte /\ q \in Byte /\ LowOvers(t, r, k) \in Nat
  BY Typed, LowPass
<1>2. n \in Nat
  BY <1>1 DEF T0HDone, Gated, LowOvers
<1>3. CASE HighSteps(t, r, k)
  <2>1. m = n + 1
    <3>1. LowCarries(t, r, k) => LowOvers(t, r, k + 1) = LowOvers(t, r, k) + 1
      BY LowPass
    <3> QED BY <1>3, <3>1 DEF HighSteps, T0HDone, Gated, LowOvers
  <2> HIDE DEF v, q, n, m
  <2>2. Stepped(v, q, m) = Step(Stepped(v, q, n), q)
    BY <1>1, <1>2, <2>1, OnceMore
  <2>3. Over(Stepped(v, q, n)) => Overflows(v, q, m) = Overflows(v, q, n) + 1
    BY <1>1, <1>2, <2>1, OnceMore
  <2>4. ~Over(Stepped(v, q, n)) => Overflows(v, q, m) = Overflows(v, q, n)
    BY <1>1, <1>2, <2>1, OnceMore
  <2>5. Overflows(v, q, n) \in Nat
    BY <1>1, <1>2, SteppedType
  <2> QED BY <1>3, <2>2, <2>3, <2>4, <2>5 DEF HighAfter, HighOvers, v, q, n, m
<1>4. CASE ~HighSteps(t, r, k)
  <2>1. m = n
    <3>1. ~LowCarries(t, r, k) => LowOvers(t, r, k + 1) = LowOvers(t, r, k)
      BY LowPass
    <3> QED BY <1>4, <3>1 DEF HighSteps, T0HDone, Gated, LowOvers
  <2>2. Overflows(v, q, n) \in Nat
    BY <1>1, <1>2, SteppedType
  <2> QED BY <1>4, <2>1, <2>2 DEF HighAfter, HighOvers
<1> QED BY <1>3, <1>4

LEMMA T0Starts ==
  ASSUME NEW t \in TimerState, NEW r \in Registers, NEW c \in Nat
  PROVE  T0After(t, r, c, 0) = [t EXCEPT !.prescale_accum = @ + c]
<1> DEFINE accum == (t.prescale_accum + c) - 0 * Period(r)
           low == Stepped(t.t0l, r.t0lr, T0LDone(r, 0))
           high == Stepped(t.t0h, r.t0hr, T0HDone(t, r, 0))
           pending == t.pending \cup {i \in {INT2_T0L} :
                                       /\ "LONG" \notin r.t0con
                                       /\ Overflows(t.t0l, r.t0lr, T0LDone(r, 0)) > 0}
                                \cup {i \in {T0H} :
                                       Overflows(t.t0h, r.t0hr, T0HDone(t, r, 0)) > 0}
<1>1. accum = t.prescale_accum + c
  <2>1. 0 * Period(r) = 0
    BY Typed
  <2> QED BY <2>1, Typed
<1>2. T0LDone(r, 0) = 0
  BY DEF T0LDone, Gated
<1>3. low = t.t0l /\ Overflows(t.t0l, r.t0lr, T0LDone(r, 0)) = 0
  BY <1>2, Typed, NoStep
<1>4. T0HDone(t, r, 0) = 0
  BY <1>3 DEF T0HDone, Gated
<1>5. high = t.t0h /\ Overflows(t.t0h, r.t0hr, T0HDone(t, r, 0)) = 0
  BY <1>4, Typed, NoStep
<1>6. pending = t.pending
  BY <1>3, <1>5
<1>7. T0After(t, r, c, 0) = [t EXCEPT !.prescale_accum = accum, !.t0l = low,
                                      !.t0h = high, !.pending = pending]
  BY DEF T0After, TimerState
<1> HIDE DEF accum, low, high, pending
<1> QED BY <1>1, <1>3, <1>5, <1>6, <1>7 DEF TimerState

LEMMA T0Passes ==
  ASSUME NEW t \in TimerState, NEW r \in Registers, NEW c \in Nat, NEW k \in Nat,
         k <= T0Ticks(t, r, c)
  PROVE  T0Pass(T0After(t, r, c, k), r)
           = T0After(t, r, c, IF k < T0Ticks(t, r, c) THEN k + 1 ELSE k)
<1> DEFINE A == t.prescale_accum + c
           d == Period(r)
           l(j) == LowAfter(t, r, j)
           h(j) == HighAfter(t, r, j)
           long == "LONG" \in r.t0con
           lover == LowCarries(t, r, k)
           hover == HighSteps(t, r, k) /\ Over(h(k))
           AsksL(j) == {i \in {INT2_T0L} : ~long /\ LowOvers(t, r, j) > 0}
           AsksH(j) == {i \in {T0H} : HighOvers(t, r, j) > 0}
           Asks(j) == AsksL(j) \cup AsksH(j)
           s == T0After(t, r, c, k)
<1>1. /\ A \in Nat /\ d \in Nat \ {0} /\ T0Ticks(t, r, c) = A \div d
      /\ A \div d \in Nat
  <2>1. A \in Nat /\ d \in Nat \ {0}
    BY Typed
  <2>2. T0Ticks(t, r, c) = A \div d
    BY DEF T0Ticks
  <2> HIDE DEF A, d
  <2> QED BY <2>1, <2>2, DivNat
<1>2. \A j : T0After(t, r, c, j)
               = [t EXCEPT !.prescale_accum = A - j * d, !.t0l = l(j), !.t0h = h(j),
                           !.pending = t.pending \cup AsksL(j) \cup AsksH(j)]
  BY DEF T0After, LowAfter, HighAfter, LowOvers, HighOvers, TimerState
<1>3. /\ LowOvers(t, r, k) \in Nat /\ HighOvers(t, r, k) \in Nat
      /\ LowOvers(t, r, k + 1) > 0 <=> LowOvers(t, r, k) > 0 \/ lover
      /\ HighOvers(t, r, k + 1) > 0 <=> HighOvers(t, r, k) > 0 \/ hover
  <2>1. LowOvers(t, r, k) \in Nat /\ HighOvers(t, r, k) \in Nat
    BY LowPass, HighPass
  <2>2. LowOvers(t, r, k + 1) > 0 <=> LowOvers(t, r, k) > 0 \/ lover
    BY <2>1, LowPass
  <2>3. HighOvers(t, r, k + 1) > 0 <=> HighOvers(t, r, k) > 0 \/ hover
    BY <2>1, HighPass
  <2> QED BY <2>1, <2>2, <2>3
<1>4. /\ l(k + 1) = IF "LRUN" \in r.t0con THEN Step(l(k), r.t0lr) ELSE l(k)
      /\ h(k + 1) = IF HighSteps(t, r, k) THEN Step(h(k), r.t0hr) ELSE h(k)
  BY LowPass, HighPass
<1>5. k * d \in Nat
  BY <1>1
<1> HIDE DEF A, d, l, h
<1>6. s = [t EXCEPT !.prescale_accum = A - k * d, !.t0l = l(k), !.t0h = h(k),
                    !.pending = t.pending \cup AsksL(k) \cup AsksH(k)]
  BY <1>2
<1> HIDE DEF s, AsksL, AsksH
<1>7. /\ s.prescale_accum = A - k * d /\ s.t0l = l(k) /\ s.t0h = h(k)
      /\ s.pending = t.pending \cup AsksL(k) \cup AsksH(k)
  BY <1>6 DEF TimerState
<1>8. CASE k < T0Ticks(t, r, c)
  <2>1. A >= (k + 1) * d
    BY <1>1, <1>8, DivAtLeast
  <2>2. (k + 1) * d = k * d + d
    BY <1>1
  <2>3. ~(s.prescale_accum < d) /\ (A - k * d) - d = A - (k + 1) * d
    BY <1>1, <1>5, <1>7, <2>1, <2>2
  <2>4. AsksL(k) \cup {i \in {INT2_T0L} : lover /\ ~long} = AsksL(k + 1)
    BY <1>3 DEF AsksL
  <2>5. AsksH(k) \cup {i \in {T0H} : hover} = AsksH(k + 1)
    BY <1>3 DEF AsksH
  <2> DEFINE asked == s.pending \cup {i \in {INT2_T0L} : lover /\ ~long}
                                \cup {i \in {T0H} : hover}
  <2>6. asked = t.pending \cup AsksL(k + 1) \cup AsksH(k + 1)
    BY <1>7, <2>4, <2>5
  <2>7. T0Pass(s, r) = [s EXCEPT !.prescale_accum = @ - d, !.t0l = l(k + 1),
                                 !.t0h = h(k + 1), !.pending = asked]
    BY <1>4, <1>7, <2>3 DEF T0Pass, d, LowCarries, HighSteps, l
  <2> HIDE DEF asked
  <2>8. T0Pass(s, r) = [t EXCEPT !.prescale_accum = A - (k + 1) * d, !.t0l = l(k + 1),
                                 !.t0h = h(k + 1),
                                 !.pending = t.pending \cup AsksL(k + 1) \cup AsksH(k + 1)]
    BY <1>6, <1>7, <2>3, <2>6, <2>7 DEF TimerState
  <2> QED BY <1>2, <1>8, <2>8 DEF s
<1>9. CASE ~(k < T0Ticks(t, r, c))
  <2>1. k = A \div d
    BY <1>1, <1>9
  <2>2. A - k * d = A % d
    BY <1>1, <2>1, Taken
  <2>3. A % d < d
    BY <1>1, DivMod
  <2>4. s.prescale_accum < d
    BY <1>7, <2>2, <2>3
  <2> QED BY <1>9, <2>4 DEF T0Pass, s, d
<1> QED BY <1>8, <1>9

LEMMA T0LoopIs ==
  ASSUME NEW t \in TimerState, NEW r \in Registers, NEW c \in Nat
  PROVE  T0Loop(t, r, c) = T0After(t, r, c, T0Ticks(t, r, c))
<1> DEFINE K == T0Ticks(t, r, c)
           N == t.prescale_accum + c
           start == [t EXCEPT !.prescale_accum = @ + c]
           F(p) == [n \in 0 .. N |-> IF n = 0 THEN start ELSE T0Pass(p[n - 1], r)]
           h == [n \in 0 .. N |-> T0After(t, r, c, IF n < K THEN n ELSE K)]
           passes == CHOOSE p : p = F(p)
<1>1. N \in Nat /\ K \in Nat /\ K <= N /\ start.prescale_accum = N
  <2> DEFINE d == Period(r)
  <2>1. N \in Nat /\ d \in Nat \ {0} /\ start.prescale_accum = N
    BY Typed DEF TimerState
  <2>2. K = N \div d
    BY DEF T0Ticks
  <2> HIDE DEF N, K, d, start
  <2> QED BY <2>1, <2>2, NoMorePeriods
<1>2. T0Loop(t, r, c) = passes[N]
  BY <1>1 DEF T0Loop
<1> HIDE DEF N, K, start
<1>3. h[0] = start
  BY <1>1, T0Starts DEF start
<1>4. ASSUME NEW n \in 0 .. N - 1 PROVE h[n + 1] = T0Pass(h[n], r)
  <2> DEFINE k == IF n < K THEN n ELSE K
  <2>1. k \in Nat /\ k <= K /\ n \in 0 .. N /\ n + 1 \in 0 .. N
    BY <1>1
  <2>2. (IF n + 1 < K THEN n + 1 ELSE K) = IF k < K THEN k + 1 ELSE k
    BY <1>1
  <2>3. h[n] = T0After(t, r, c, k) /\ h[n + 1] = T0After(t, r, c, IF k < K THEN k + 1 ELSE k)
    BY <2>1, <2>2
  <2> HIDE DEF k, h
  <2> QED BY <2>1, <2>3, T0Passes DEF K
<1>5. h = F(h)
  <2>1. ASSUME NEW n \in 0 .. N
        PROVE  h[n] = IF n = 0 THEN start ELSE T0Pass(h[n - 1], r)
    <3>1. CASE n = 0
      BY <1>3, <3>1
    <3>2. CASE n # 0
      <4>1. n - 1 \in 0 .. N - 1 /\ (n - 1) + 1 = n
        BY <1>1, <3>2
      <4> HIDE DEF h
      <4> QED BY <1>4, <3>2, <4>1
    <3> QED BY <3>1, <3>2
  <2>2. h = [n \in 0 .. N |-> h[n]]
    OBVIOUS
  <2> HIDE DEF h
  <2> QED BY <2>1, <2>2
<1>6. passes = F(passes)
  <2> HIDE DEF F, h
  <2> QED BY <1>5
<1>7. /\ passes[0] = start
      /\ \A n \in 0 .. N - 1 : passes[n + 1] = T0Pass(passes[n], r)
  <2>1. \A n \in 0 .. N : passes[n] = F(passes)[n]
    BY <1>6
  <2> HIDE DEF passes
  <2>2. passes[0] = start
    BY <1>1, <2>1
  <2>3. ASSUME NEW n \in 0 .. N - 1 PROVE passes[n + 1] = T0Pass(passes[n], r)
    <3>1. n + 1 \in 0 .. N /\ n + 1 # 0 /\ (n + 1) - 1 = n
      BY <1>1
    <3> QED BY <2>1, <3>1
  <2> QED BY <2>2, <2>3
<1> HIDE DEF passes, h, F
<1>8. passes[N] = h[N]
  <2>1. \A n \in 0 .. N - 1 : passes[n] = h[n] => passes[n + 1] = h[n + 1]
    BY <1>4, <1>7
  <2> QED BY <1>1, <1>3, <1>7, <2>1, SameLoop
<1>9. h[N] = T0After(t, r, c, K)
  BY <1>1 DEF h
<1> QED BY <1>2, <1>8, <1>9 DEF K

-----------------------------------------------------------------------------
(* Timer 1.                                                                 *)

LEMMA T1Starts ==
  ASSUME NEW t \in TimerState, NEW r \in Registers
  PROVE  T1After(t, r, 0) = t
<1> DEFINE low == Stepped(t.t1l, r.t1lr, T1LSteps(r, 0))
           high == Stepped(t.t1h, r.t1hr, T1HSteps(r, 0))
           pending == t.pending \cup {i \in {T1} :
                        \/ Overflows(t.t1l, r.t1lr, T1LSteps(r, 0)) > 0
                        \/ Overflows(t.t1h, r.t1hr, T1HSteps(r, 0)) > 0}
<1>1. T1LSteps(r, 0) = 0 /\ T1HSteps(r, 0) = 0
  BY DEF T1LSteps, T1HSteps, Gated
<1>2. /\ low = t.t1l /\ Overflows(t.t1l, r.t1lr, T1LSteps(r, 0)) = 0
      /\ high = t.t1h /\ Overflows(t.t1h, r.t1hr, T1HSteps(r, 0)) = 0
  BY <1>1, Typed, NoStep
<1>3. pending = t.pending
  BY <1>2
<1>4. T1After(t, r, 0) = [t EXCEPT !.t1l = low, !.t1h = high, !.pending = pending]
  BY DEF T1After, TimerState
<1> HIDE DEF low, high, pending
<1> QED BY <1>2, <1>3, <1>4 DEF TimerState

LEMMA T1Passes ==
  ASSUME NEW t \in TimerState, NEW r \in Registers, NEW k \in Nat
  PROVE  T1Pass(T1After(t, r, k), r) = T1After(t, r, k + 1)
<1> DEFINE lrun == "LRUN" \in r.t1cnt
           hrun == "HRUN" \in r.t1cnt
           l(j) == Stepped(t.t1l, r.t1lr, T1LSteps(r, j))
           h(j) == Stepped(t.t1h, r.t1hr, T1HSteps(r, j))
           lo(j) == Overflows(t.t1l, r.t1lr, T1LSteps(r, j)) > 0
           ho(j) == Overflows(t.t1h, r.t1hr, T1HSteps(r, j)) > 0
           Asks(j) == {i \in {T1} : lo(j) \/ ho(j)}
           s == T1After(t, r, k)
<1>1. /\ T1LSteps(r, k) \in Nat /\ T1HSteps(r, k) \in Nat
      /\ T1LSteps(r, k + 1) = T1LSteps(r, k) + (IF lrun THEN 1 ELSE 0)
      /\ T1HSteps(r, k + 1) = T1HSteps(r, k) + (IF hrun THEN 1 ELSE 0)
  BY DEF T1LSteps, T1HSteps, Gated
<1>2. /\ l(k + 1) = IF lrun THEN Step(l(k), r.t1lr) ELSE l(k)
      /\ lo(k + 1) <=> lo(k) \/ (lrun /\ Over(l(k)))
  <2> DEFINE n == T1LSteps(r, k)
             m == T1LSteps(r, k + 1)
  <2> DEFINE v == t.t1l
             q == r.t1lr
             u == Stepped(v, q, n)
  <2>1. /\ n \in Nat /\ v \in Byte /\ q \in Byte
        /\ u = Stepped(v, q, n) /\ m = n + (IF lrun THEN 1 ELSE 0)
    BY <1>1, Typed
  <2> HIDE DEF n, m, v, q, u
  <2>2. /\ Stepped(v, q, m) = IF lrun THEN Step(u, q) ELSE u
        /\ Overflows(v, q, m) > 0 <=> Overflows(v, q, n) > 0 \/ (lrun /\ Over(u))
    <3>1. CASE lrun
      <4>1. m = n + 1
        BY <2>1, <3>1
      <4>2. Overflows(v, q, n) \in Nat /\ Stepped(v, q, m) = Step(u, q)
        BY <2>1, <4>1, OnceMore
      <4>3. CASE Over(u)
        <5>1. Overflows(v, q, m) = Overflows(v, q, n) + 1
          BY <2>1, <4>1, <4>3, OnceMore
        <5> QED BY <3>1, <4>2, <4>3, <5>1
      <4>4. CASE ~Over(u)
        <5>1. Overflows(v, q, m) = Overflows(v, q, n)
          BY <2>1, <4>1, <4>4, OnceMore
        <5> QED BY <3>1, <4>2, <4>4, <5>1
      <4> QED BY <4>3, <4>4
    <3>2. CASE ~lrun
      <4>1. m = n
        BY <2>1, <3>2
      <4> QED BY <2>1, <3>2, <4>1
    <3> QED BY <3>1, <3>2
  <2> QED BY <2>2 DEF n, m, v, q, u
<1>3. /\ h(k + 1) = IF hrun THEN Step(h(k), r.t1hr) ELSE h(k)
      /\ ho(k + 1) <=> ho(k) \/ (hrun /\ Over(h(k)))
  <2> DEFINE n == T1HSteps(r, k)
             m == T1HSteps(r, k + 1)
  <2> DEFINE v == t.t1h
             q == r.t1hr
             u == Stepped(v, q, n)
  <2>1. /\ n \in Nat /\ v \in Byte /\ q \in Byte
        /\ u = Stepped(v, q, n) /\ m = n + (IF hrun THEN 1 ELSE 0)
    BY <1>1, Typed
  <2> HIDE DEF n, m, v, q, u
  <2>2. /\ Stepped(v, q, m) = IF hrun THEN Step(u, q) ELSE u
        /\ Overflows(v, q, m) > 0 <=> Overflows(v, q, n) > 0 \/ (hrun /\ Over(u))
    <3>1. CASE hrun
      <4>1. m = n + 1
        BY <2>1, <3>1
      <4>2. Overflows(v, q, n) \in Nat /\ Stepped(v, q, m) = Step(u, q)
        BY <2>1, <4>1, OnceMore
      <4>3. CASE Over(u)
        <5>1. Overflows(v, q, m) = Overflows(v, q, n) + 1
          BY <2>1, <4>1, <4>3, OnceMore
        <5> QED BY <3>1, <4>2, <4>3, <5>1
      <4>4. CASE ~Over(u)
        <5>1. Overflows(v, q, m) = Overflows(v, q, n)
          BY <2>1, <4>1, <4>4, OnceMore
        <5> QED BY <3>1, <4>2, <4>4, <5>1
      <4> QED BY <4>3, <4>4
    <3>2. CASE ~hrun
      <4>1. m = n
        BY <2>1, <3>2
      <4> QED BY <2>1, <3>2, <4>1
    <3> QED BY <3>1, <3>2
  <2> QED BY <2>2 DEF n, m, v, q, u
<1>4. \A j : T1After(t, r, j) = [t EXCEPT !.t1l = l(j), !.t1h = h(j),
                                          !.pending = t.pending \cup Asks(j)]
  BY DEF T1After, TimerState
<1> HIDE DEF l, h, lo, ho
<1>5. Asks(k) \cup {i \in {T1} : (lrun /\ Over(l(k))) \/ (hrun /\ Over(h(k)))} = Asks(k + 1)
  BY <1>2, <1>3
<1> HIDE DEF Asks
<1>6. s.t1l = l(k) /\ s.t1h = h(k) /\ s.pending = t.pending \cup Asks(k)
      /\ s = [t EXCEPT !.t1l = l(k), !.t1h = h(k), !.pending = t.pending \cup Asks(k)]
  BY <1>4 DEF TimerState
<1> HIDE DEF s
<1>7. T1Pass(s, r) = [s EXCEPT !.t1l = l(k + 1), !.t1h = h(k + 1), !.pending = @ \cup
                        {i \in {T1} : (lrun /\ Over(l(k))) \/ (hrun /\ Over(h(k)))}]
  BY <1>2, <1>3, <1>6 DEF T1Pass
<1> HIDE DEF lrun, hrun
<1>8. T1Pass(s, r) = [t EXCEPT !.t1l = l(k + 1), !.t1h = h(k + 1),
                               !.pending = t.pending \cup Asks(k + 1)]
  BY <1>5, <1>6, <1>7 DEF TimerState
<1> QED BY <1>4, <1>8 DEF s

LEMMA T1LoopIs ==
  ASSUME NEW t \in TimerState, NEW r \in Registers, NEW c \in Nat
  PROVE  T1Loop(t, r, c) = T1After(t, r, c)
<1> DEFINE F(p) == [n \in 0 .. c |-> IF n = 0 THEN t ELSE T1Pass(p[n - 1], r)]
           h == [n \in 0 .. c |-> T1After(t, r, n)]
           passes == CHOOSE p : p = F(p)
<1>2. T1Loop(t, r, c) = passes[c]
  BY DEF T1Loop
<1>3. h[0] = t
  BY T1Starts
<1>4. ASSUME NEW n \in 0 .. c - 1 PROVE h[n + 1] = T1Pass(h[n], r)
  <2>1. n \in Nat /\ n \in 0 .. c /\ n + 1 \in 0 .. c
    OBVIOUS
  <2>2. h[n] = T1After(t, r, n) /\ h[n + 1] = T1After(t, r, n + 1)
    BY <2>1
  <2> HIDE DEF h
  <2> QED BY <2>1, <2>2, T1Passes
<1>5. h = F(h)
  <2>1. ASSUME NEW n \in 0 .. c
        PROVE  h[n] = IF n = 0 THEN t ELSE T1Pass(h[n - 1], r)
    <3>1. CASE n = 0
      BY <1>3, <3>1
    <3>2. CASE n # 0
      <4>1. n - 1 \in 0 .. c - 1 /\ (n - 1) + 1 = n
        BY <3>2
      <4> HIDE DEF h
      <4> QED BY <1>4, <3>2, <4>1
    <3> QED BY <3>1, <3>2
  <2>2. h = [n \in 0 .. c |-> h[n]]
    OBVIOUS
  <2> HIDE DEF h
  <2> QED BY <2>1, <2>2
<1>6. passes = F(passes)
  <2> HIDE DEF F, h
  <2> QED BY <1>5
<1>7. /\ passes[0] = t
      /\ \A n \in 0 .. c - 1 : passes[n + 1] = T1Pass(passes[n], r)
  <2>1. \A n \in 0 .. c : passes[n] = F(passes)[n]
    BY <1>6
  <2> HIDE DEF passes
  <2>2. passes[0] = t
    BY <2>1
  <2>3. ASSUME NEW n \in 0 .. c - 1 PROVE passes[n + 1] = T1Pass(passes[n], r)
    <3>1. n + 1 \in 0 .. c /\ n + 1 # 0 /\ (n + 1) - 1 = n
      OBVIOUS
    <3> QED BY <2>1, <3>1
  <2> QED BY <2>2, <2>3
<1> HIDE DEF passes, h, F
<1>8. passes[c] = h[c]
  <2>1. \A n \in 0 .. c - 1 : passes[n] = h[n] => passes[n + 1] = h[n + 1]
    BY <1>4, <1>7
  <2> QED BY <1>3, <1>7, <2>1, SameLoop
<1>9. h[c] = T1After(t, r, c)
  BY DEF h
<1> QED BY <1>2, <1>8, <1>9

-----------------------------------------------------------------------------
(* vmu_timer_tick.                                                          *)

\* What the loops one after the other leave is what Tick says.
LEMMA LoopsAreTick ==
  ASSUME NEW t \in TimerState, NEW r \in Registers, NEW c \in Nat
  PROVE  T1Loop(T0Loop(BaseLoop(t, r, c), r, c), r, c) = Tick(t, r, c)
<1> DEFINE A == t.base_accum + c
           B == t.prescale_accum + c
           K == BaseTicks(t, c)
           J == T0Ticks(t, r, c)
           count == (t.base_count + K) % CountMod
           AsksB == {i \in {INT3_BASE} : r.btcr /\ BaseRollsOver(t, c)}
           AsksL == {i \in {INT2_T0L} :
                       "LONG" \notin r.t0con /\ Overflows(t.t0l, r.t0lr, T0LSteps(t, r, c)) > 0}
           AsksH == {i \in {T0H} : Overflows(t.t0h, r.t0hr, T0HSteps(t, r, c)) > 0}
           Asks1 == {i \in {T1} : \/ Overflows(t.t1l, r.t1lr, T1LSteps(r, c)) > 0
                                  \/ Overflows(t.t1h, r.t1hr, T1HSteps(r, c)) > 0}
           base == BaseLoop(t, r, c)
           low == Stepped(t.t0l, r.t0lr, T0LSteps(t, r, c))
           high == Stepped(t.t0h, r.t0hr, T0HSteps(t, r, c))
           t0 == T0Loop(base, r, c)
           t1l == Stepped(t.t1l, r.t1lr, T1LSteps(r, c))
           t1h == Stepped(t.t1h, r.t1hr, T1HSteps(r, c))
<1>1. base = [t EXCEPT !.base_accum = A % t.base_divisor, !.base_count = count,
                       !.pending = t.pending \cup AsksB]
  <2>1. A - K * t.base_divisor = A % t.base_divisor
    <3>1. A \in Nat /\ t.base_divisor \in Nat \ {0}
      BY Typed
    <3>2. K = A \div t.base_divisor
      BY DEF BaseTicks
    <3> HIDE DEF A, K
    <3> QED BY <3>1, <3>2, Taken
  <2>2. base = BaseAfter(t, r, c, K)
    BY BaseLoopIs
  <2> QED BY <2>1, <2>2 DEF BaseAfter, BaseRollsOver, TimerState
<1>2. A % t.base_divisor \in Nat /\ count \in 0 .. CountMod - 1
  <2>1. A \in Int /\ t.base_divisor \in Nat \ {0} /\ t.base_count + K \in Int
    BY Typed, StepsType
  <2> HIDE DEF A, K
  <2>2. A % t.base_divisor \in Nat
    BY <2>1, DivMod
  <2>3. count \in 0 .. CountMod - 1
    BY <2>1, DivMod, TimerConstants
  <2> QED BY <2>2, <2>3
<1>3. AsksB \subseteq Irqs
  BY DEF INT3_BASE, Irqs
<1> HIDE DEF A, K, count, AsksB, base
<1>4. base \in TimerState
  BY <1>1, <1>2, <1>3 DEF TimerState
<1>5. /\ base.prescale_accum = t.prescale_accum /\ base.pending = t.pending \cup AsksB
      /\ base.t0l = t.t0l /\ base.t0h = t.t0h /\ base.t1l = t.t1l /\ base.t1h = t.t1h
  BY <1>1 DEF TimerState
<1>6. T0Ticks(base, r, c) = J
  BY <1>5 DEF T0Ticks
<1>7. /\ T0LDone(r, J) = T0LSteps(t, r, c) /\ T0HDone(base, r, J) = T0HSteps(t, r, c)
  BY <1>5 DEF T0LDone, T0HDone, T0LSteps, T0HSteps
<1>8. t0 = [base EXCEPT !.prescale_accum = B % Period(r), !.t0l = low, !.t0h = high,
                        !.pending = t.pending \cup AsksB \cup AsksL \cup AsksH]
  <2>1. B - J * Period(r) = B % Period(r)
    <3>1. B \in Nat /\ Period(r) \in Nat \ {0}
      BY Typed
    <3>2. J = B \div Period(r)
      BY DEF T0Ticks
    <3> HIDE DEF B, J
    <3> QED BY <3>1, <3>2, Taken
  <2>2. t0 = T0After(base, r, c, J)
    BY <1>4, <1>6, T0LoopIs
  <2> HIDE DEF J
  <2> QED BY <1>5, <1>7, <2>1, <2>2 DEF T0After, TimerState
<1>9. /\ B % Period(r) \in Nat /\ low \in Byte /\ high \in Byte
  <2>1. B \in Int /\ Period(r) \in Nat \ {0}
    BY Typed
  <2>2. B % Period(r) \in Nat
    <3> HIDE DEF B
    <3> QED BY <2>1, DivMod
  <2> QED BY <2>2, Typed, StepsType, SteppedType
<1>10. AsksL \subseteq Irqs /\ AsksH \subseteq Irqs
  BY DEF INT2_T0L, T0H, Irqs
<1> HIDE DEF B, J, low, high, AsksL, AsksH, t0
<1>11. t0 \in TimerState
  BY <1>3, <1>4, <1>8, <1>9, <1>10 DEF TimerState
<1>12. t0.t1l = t.t1l /\ t0.t1h = t.t1h
       /\ t0.pending = t.pending \cup AsksB \cup AsksL \cup AsksH
  BY <1>4, <1>5, <1>8 DEF TimerState
<1>13. T1Loop(t0, r, c) = [t0 EXCEPT !.t1l = t1l, !.t1h = t1h,
                             !.pending = t.pending \cup AsksB \cup AsksL \cup AsksH \cup Asks1]
  <2>1. T1Loop(t0, r, c) = T1After(t0, r, c)
    BY <1>11, T1LoopIs
  <2> QED BY <1>11, <1>12, <2>1 DEF T1After, TimerState
<1> DEFINE asked == t.pending \cup AsksB \cup AsksL \cup AsksH \cup Asks1
<1>14. asked = t.pending \cup Raised(t, r, c)
  BY DEF Raised, AsksB, AsksL, AsksH
<1>15. Tick(t, r, c) = [t EXCEPT !.base_accum = A % t.base_divisor, !.base_count = count,
                          !.prescale_accum = B % Period(r), !.t0l = low, !.t0h = high,
                          !.t1l = t1l, !.t1h = t1h, !.pending = asked]
  <2> HIDE DEF asked
  <2> QED BY <1>14 DEF Tick, Remainder, A, B, count, K, low, high, TimerState
<1> HIDE DEF asked, t1l, t1h
<1>16. T1Loop(t0, r, c) = [t0 EXCEPT !.t1l = t1l, !.t1h = t1h, !.pending = asked]
  BY <1>13 DEF asked
<1>17. T1Loop(t0, r, c) = Tick(t, r, c)
  BY <1>1, <1>8, <1>15, <1>16 DEF TimerState
<1> QED BY <1>17 DEF t0, base

\* vmu_timer_tick as it is written - three loops, pass by pass (timer.c:80-138)
\* - and the divisions of Timers leave the same counters and the same requests,
\* in every reachable state and for every number of cycles.
THEOREM TicksAreTheLoops == Spec => []TickIsTheLoops
<1>1. TypeOK => TickIsTheLoops
  <2> SUFFICES ASSUME TypeOK, NEW c \in 0 .. Horizon
               PROVE  Tick(tm, reg, c)
                        = T1Loop(T0Loop(BaseLoop(tm, reg, c), reg, c), reg, c)
    BY DEF TickIsTheLoops
  <2>1. c \in Nat /\ tm \in TimerState /\ reg \in Registers
    BY VmuTimerConstants DEF TypeOK
  <2> QED BY <2>1, LoopsAreTick
<1> QED BY <1>1, TypeCorrect, PTL
=============================================================================
