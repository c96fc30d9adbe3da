---------------------------- MODULE TimersProofs ----------------------------
(* Proofs about the arithmetic of Timers: for every counter width, divisor, *)
(* prescaler, reload value and number of cycles, time that is retired in    *)
(* two pieces does what it does when it is retired at once.                 *)
EXTENDS Timers, TLAPS

-----------------------------------------------------------------------------
(* Quotients and remainders.                                                *)

LEMMA DivUnique ==
  ASSUME NEW n \in Nat \ {0}, NEW q \in Int, NEW r \in 0 .. n - 1
  PROVE  (q * n + r) % n = r /\ (q * n + r) \div n = q
OBVIOUS

LEMMA DivMod ==
  ASSUME NEW n \in Nat \ {0}, NEW x \in Int
  PROVE  /\ x \div n \in Int /\ x % n \in 0 .. n - 1
         /\ x = (x \div n) * n + (x % n)
OBVIOUS

LEMMA DivNat ==
  ASSUME NEW n \in Nat \ {0}, NEW x \in Nat
  PROVE  x \div n \in Nat
OBVIOUS

\* A remainder kept and added to counts like the whole.
LEMMA DivSplit ==
  ASSUME NEW n \in Nat \ {0}, NEW x \in Int, NEW y \in Int
  PROVE  /\ ((x % n) + y) % n = (x + y) % n
         /\ (x \div n) + (((x % n) + y) \div n) = (x + y) \div n
<1> DEFINE q == x \div n
           r == x % n
           s == (r + y) \div n
           t == (r + y) % n
<1>1. q \in Int /\ r \in 0 .. n - 1 /\ x = q * n + r
  BY DivMod
<1> HIDE DEF q, r
<1>2. s \in Int /\ t \in 0 .. n - 1 /\ r + y = s * n + t
  <2>1. r + y \in Int
    BY <1>1
  <2> QED BY <2>1, DivMod
<1> HIDE DEF s, t
<1>3. q + s \in Int /\ x + y = (q + s) * n + t
  <2>1. (q + s) * n = q * n + s * n
    BY <1>1, <1>2
  <2>2. q * n \in Int /\ s * n \in Int /\ t \in Int
    BY <1>1, <1>2
  <2> QED BY <1>1, <1>2, <2>1, <2>2
<1>4. (x + y) % n = t /\ (x + y) \div n = q + s
  BY <1>2, <1>3, DivUnique, SMTT(30)
<1> QED BY <1>4 DEF q, r, s, t

\* A whole period more or less.
LEMMA DivPeriod ==
  ASSUME NEW n \in Nat \ {0}, NEW x \in Int
  PROVE  (x - n) % n = x % n /\ (x - n) \div n = (x \div n) - 1
<1> DEFINE q == x \div n
           r == x % n
<1>1. q \in Int /\ r \in 0 .. n - 1 /\ x = q * n + r
  BY DivMod
<1> HIDE DEF q, r
<1>2. x - n = (q - 1) * n + r /\ q - 1 \in Int
  BY <1>1
<1>3. (x - n) % n = r /\ (x - n) \div n = q - 1
  BY <1>1, <1>2, DivUnique
<1> QED BY <1>3 DEF q, r

LEMMA DivSmall ==
  ASSUME NEW n \in Nat \ {0}, NEW x \in 0 .. n - 1
  PROVE  x % n = x /\ x \div n = 0
OBVIOUS

\* How many periods fit.
LEMMA DivAtLeast ==
  ASSUME NEW n \in Nat \ {0}, NEW x \in Int, NEW k \in Int
  PROVE  x \div n >= k <=> x >= k * n
<1> DEFINE q == x \div n
           r == x % n
<1>1. q \in Int /\ r \in 0 .. n - 1 /\ x = q * n + r
  BY DivMod
<1> HIDE DEF q, r
<1>2. ASSUME q >= k PROVE x >= k * n
  <2>1. (q - k) * n >= 0
    BY <1>1, <1>2
  <2> QED BY <1>1, <2>1
<1>3. ASSUME q < k PROVE x < k * n
  <2>1. (k - q - 1) * n >= 0
    BY <1>1, <1>3
  <2>2. (k - q - 1) * n = k * n - q * n - n
    BY <1>1
  <2>3. k * n \in Int /\ q * n \in Int
    BY <1>1
  <2> QED BY <1>1, <2>1, <2>2, <2>3
<1>4. x \in Int /\ k * n \in Int
  OBVIOUS
<1>5. q >= k <=> x >= k * n
  BY <1>1, <1>2, <1>3, <1>4
<1> QED BY <1>5 DEF q
-----------------------------------------------------------------------------
(* A reload counter.                                                        *)

LEMMA SteppedType ==
  ASSUME NEW v \in Byte, NEW r \in Byte, NEW n \in Nat
  PROVE  /\ Stepped(v, r, n) \in Byte /\ Overflows(v, r, n) \in Nat
         /\ Overflows(v, r, n) > 0 <=> v + n >= W
<1> DEFINE P == W - r
           z == v + n - W
<1>1. W \in Nat \ {0} /\ P \in Nat \ {0} /\ v \in Nat /\ r \in Nat /\ P <= W
  BY TimerConstants DEF Byte
<1> HIDE DEF P
<1>2. CASE v + n < W
  BY <1>1, <1>2 DEF Stepped, Overflows, Byte
<1>3. CASE v + n >= W
  <2>1. z \in Nat
    BY <1>1, <1>3
  <2>2. z % P \in 0 .. P - 1 /\ z \div P \in Nat
    <3> HIDE DEF z
    <3>1. z \in Int /\ P \in Nat \ {0}
      BY <1>1, <2>1
    <3>2. z % P \in 0 .. P - 1
      BY <3>1, DivMod
    <3>3. z \div P \in Nat
      BY <2>1, <3>1, DivNat
    <3> QED BY <3>2, <3>3
  <2>3. Stepped(v, r, n) = r + (z % P) /\ Overflows(v, r, n) = 1 + (z \div P)
    BY <1>1, <1>3 DEF Stepped, Overflows, P
  <2> HIDE DEF z
  <2>4. r + (z % P) \in Byte
    BY <1>1, <2>2 DEF P, Byte
  <2> QED BY <1>1, <1>3, <2>2, <2>3, <2>4
<1> QED BY <1>1, <1>2, <1>3

\* What n steps from v do depends on v + n only.
LEMMA SteppedSum ==
  ASSUME NEW a \in Nat, NEW b \in Nat, NEW c \in Nat, NEW d \in Nat,
         NEW r \in Byte, a + b = c + d
  PROVE  Stepped(a, r, b) = Stepped(c, r, d) /\ Overflows(a, r, b) = Overflows(c, r, d)
<1>1. W \in Nat
  BY TimerConstants
<1>2. (a + b < W <=> c + d < W) /\ a + b - W = c + d - W
  BY <1>1
<1>3. CASE a + b < W
  BY <1>2, <1>3 DEF Stepped, Overflows
<1>4. CASE ~(a + b < W)
  <2> DEFINE y == a + b - W
  <2>1. Stepped(a, r, b) = r + (y % (W - r)) /\ Overflows(a, r, b) = 1 + (y \div (W - r))
    BY <1>4 DEF Stepped, Overflows
  <2>2. c + d - W = y /\ ~(c + d < W)
    BY <1>2, <1>4
  <2> HIDE DEF y
  <2>3. Stepped(c, r, d) = r + (y % (W - r)) /\ Overflows(c, r, d) = 1 + (y \div (W - r))
    BY <2>2 DEF Stepped, Overflows
  <2> QED BY <2>1, <2>3
<1> QED BY <1>3, <1>4

\* n steps and m more are n + m steps, and overflow as often.
LEMMA SteppedAdds ==
  ASSUME NEW v \in Byte, NEW r \in Byte, NEW n \in Nat, NEW m \in Nat
  PROVE  /\ Stepped(Stepped(v, r, n), r, m) = Stepped(v, r, n + m)
         /\ Overflows(v, r, n) + Overflows(Stepped(v, r, n), r, m)
              = Overflows(v, r, n + m)
<1> DEFINE P == W - r
           z == v + n - W
           x == (z % P) + m
<1>1. W \in Nat \ {0} /\ P \in Nat \ {0} /\ v \in Nat /\ r \in Nat
  BY TimerConstants DEF Byte
<1>2. CASE v + n < W
  <2>1. Stepped(v, r, n) = v + n /\ Overflows(v, r, n) = 0
    BY <1>2 DEF Stepped, Overflows
  <2>2. (v + n) + m = v + (n + m)
    BY <1>1
  <2>3. Overflows(v, r, n + m) \in Nat
    BY SteppedType
  <2>4. /\ Stepped(v + n, r, m) = Stepped(v, r, n + m)
        /\ Overflows(v + n, r, m) = Overflows(v, r, n + m)
    BY <1>1, <2>2, SteppedSum
  <2> QED BY <2>1, <2>3, <2>4
<1>3. CASE v + n >= W
  <2>1. z \in Nat /\ z % P \in 0 .. P - 1 /\ z \div P \in Nat
    <3>1. z \in Nat
      BY <1>1, <1>3
    <3> HIDE DEF z, P
    <3>2. z % P \in 0 .. P - 1
      BY <1>1, <3>1, DivMod
    <3>3. z \div P \in Nat
      BY <1>1, <3>1, DivNat
    <3> QED BY <3>1, <3>2, <3>3
  <2>2. /\ Stepped(v, r, n) = r + (z % P)
        /\ Overflows(v, r, n) = 1 + (z \div P)
    BY <1>1, <1>3 DEF Stepped, Overflows
  <2>3. /\ Stepped(v, r, n + m) = r + ((z + m) % P)
        /\ Overflows(v, r, n + m) = 1 + ((z + m) \div P)
    <3>1. ~(v + (n + m) < W) /\ v + (n + m) - W = z + m
      BY <1>1, <1>3
    <3> HIDE DEF z
    <3> QED BY <3>1 DEF Stepped, Overflows
  <2>4. x % P = (z + m) % P /\ (z \div P) + (x \div P) = (z + m) \div P
    <3> HIDE DEF P, z
    <3>1. z \in Int /\ m \in Int
      BY <2>1
    <3> QED BY <1>1, <3>1, DivSplit
  <2>5. /\ x \in Nat /\ r + (z % P) \in Nat
        /\ (r + (z % P)) + m < W <=> x < P
        /\ (r + (z % P)) + m - W = x - P
        /\ (r + (z % P)) + m = r + x
    <3> HIDE DEF z
    <3> QED BY <1>1, <2>1
  <2> HIDE DEF P, z, x
  <2>6. /\ x < P => x % P = x /\ x \div P = 0
        /\ (x - P) % P = x % P /\ (x - P) \div P = (x \div P) - 1
        /\ x \div P \in Nat /\ (z + m) \div P \in Int
    <3>1. x \in Int /\ z + m \in Int
      BY <2>1, <2>5
    <3>2. x < P => x % P = x /\ x \div P = 0
      <4>1. x < P => x \in 0 .. P - 1
        BY <1>1, <2>5
      <4> QED BY <1>1, <4>1, DivSmall
    <3>3. (x - P) % P = x % P /\ (x - P) \div P = (x \div P) - 1
      BY <1>1, <3>1, DivPeriod
    <3>4. x \div P \in Nat /\ (z + m) \div P \in Int
      BY <1>1, <2>5, <3>1, DivNat, DivMod
    <3> QED BY <3>2, <3>3, <3>4
  <2>7. CASE x < P
    <3>1. /\ Stepped(r + (z % P), r, m) = r + x
          /\ Overflows(r + (z % P), r, m) = 0
      BY <2>5, <2>7 DEF Stepped, Overflows
    <3>2. r + x = r + ((z + m) % P)
      BY <2>4, <2>6, <2>7
    <3>3. (1 + (z \div P)) + 0 = 1 + ((z + m) \div P)
      BY <2>1, <2>4, <2>6, <2>7
    <3> QED BY <2>2, <2>3, <3>1, <3>2, <3>3
  <2>8. CASE ~(x < P)
    <3>1. /\ Stepped(r + (z % P), r, m) = r + ((x - P) % P)
          /\ Overflows(r + (z % P), r, m) = 1 + ((x - P) \div P)
      BY <2>5, <2>8 DEF Stepped, Overflows, P
    <3>2. r + ((x - P) % P) = r + ((z + m) % P)
      BY <2>4, <2>6
    <3>3. (1 + (z \div P)) + (1 + ((x - P) \div P)) = 1 + ((z + m) \div P)
      BY <2>1, <2>4, <2>6
    <3> QED BY <2>2, <2>3, <3>1, <3>2, <3>3
  <2> QED BY <2>7, <2>8
<1> QED BY <1>1, <1>2, <1>3
-----------------------------------------------------------------------------
(* vmu_timer_tick.                                                          *)

LEMMA GatedAdds ==
  ASSUME NEW run, NEW n \in Nat, NEW m \in Nat
  PROVE  /\ Gated(run, n) \in Nat
         /\ Gated(run, n) + Gated(run, m) = Gated(run, n + m)
BY DEF Gated

LEMMA Typed ==
  ASSUME NEW tm \in TimerState, NEW reg \in Registers
  PROVE  /\ tm.base_divisor \in Nat \ {0} /\ tm.base_accum \in Nat
         /\ tm.base_count \in Nat /\ tm.prescale_accum \in Nat
         /\ tm.t0l \in Byte /\ tm.t0h \in Byte /\ tm.t1l \in Byte /\ tm.t1h \in Byte
         /\ reg.t0lr \in Byte /\ reg.t0hr \in Byte
         /\ reg.t1lr \in Byte /\ reg.t1hr \in Byte
         /\ Period(reg) \in 1 .. W /\ Period(reg) \in Nat \ {0}
<1>1. reg.t0prr \in Byte /\ W \in Nat \ {0}
  BY TimerConstants DEF Registers
<1>2. Period(reg) \in 1 .. W
  BY <1>1 DEF Period, Byte
<1> QED BY <1>2, TimerConstants DEF TimerState, Registers

\* How many steps there are is a number.
LEMMA StepsType ==
  ASSUME NEW tm \in TimerState, NEW reg \in Registers, NEW c \in Nat
  PROVE  /\ BaseTicks(tm, c) \in Nat /\ T0Ticks(tm, reg, c) \in Nat
         /\ T0LSteps(tm, reg, c) \in Nat /\ T0HSteps(tm, reg, c) \in Nat
         /\ T1LSteps(reg, c) \in Nat /\ T1HSteps(reg, c) \in Nat
<1>1. BaseTicks(tm, c) \in Nat
  <2>1. tm.base_accum + c \in Nat
    BY Typed
  <2> QED BY <2>1, Typed, DivNat DEF BaseTicks
<1>2. T0Ticks(tm, reg, c) \in Nat
  <2>1. tm.prescale_accum + c \in Nat
    BY Typed
  <2> QED BY <2>1, Typed, DivNat DEF T0Ticks
<1>3. T0LSteps(tm, reg, c) \in Nat
  BY <1>2, GatedAdds DEF T0LSteps
<1>4. Overflows(tm.t0l, reg.t0lr, T0LSteps(tm, reg, c)) \in Nat
  BY <1>3, Typed, SteppedType
<1>5. T0HSteps(tm, reg, c) \in Nat
  BY <1>2, <1>4, GatedAdds DEF T0HSteps
<1> QED BY <1>1, <1>2, <1>3, <1>5, GatedAdds DEF T1LSteps, T1HSteps

LEMMA TickFields ==
  ASSUME NEW tm \in TimerState, NEW reg \in Registers, NEW c \in Nat,
         NEW t, t = Tick(tm, reg, c)
  PROVE  /\ t.base_divisor = tm.base_divisor
         /\ t.base_accum = (tm.base_accum + c) % tm.base_divisor
         /\ t.base_count = (tm.base_count + BaseTicks(tm, c)) % CountMod
         /\ t.prescale_accum = (tm.prescale_accum + c) % Period(reg)
         /\ t.t0l = Stepped(tm.t0l, reg.t0lr, T0LSteps(tm, reg, c))
         /\ t.t0h = Stepped(tm.t0h, reg.t0hr, T0HSteps(tm, reg, c))
         /\ t.t1l = Stepped(tm.t1l, reg.t1lr, T1LSteps(reg, c))
         /\ t.t1h = Stepped(tm.t1h, reg.t1hr, T1HSteps(reg, c))
         /\ t.pending = tm.pending \cup Raised(tm, reg, c)
BY DEF Tick, Remainder, TimerState

LEMMA RaisedType ==
  ASSUME NEW tm, NEW reg, NEW c PROVE Raised(tm, reg, c) \subseteq Irqs \ {P3}
BY DEF Raised, Irqs, INT2_T0L, INT3_BASE, T0H, T1, P3

LEMMA TickType ==
  ASSUME NEW tm \in TimerState, NEW reg \in Registers, NEW c \in Nat
  PROVE  Tick(tm, reg, c) \in TimerState
<1> DEFINE t == Tick(tm, reg, c)
<1>1. (tm.base_accum + c) % tm.base_divisor \in Nat
  <2>1. tm.base_accum + c \in Int /\ tm.base_divisor \in Nat \ {0}
    BY Typed
  <2> QED BY <2>1, DivMod
<1>2. (tm.prescale_accum + c) % Period(reg) \in Nat
  <2>1. tm.prescale_accum + c \in Int
    BY Typed
  <2> QED BY <2>1, Typed, DivMod
<1>3. (tm.base_count + BaseTicks(tm, c)) % CountMod \in 0 .. CountMod - 1
  <2>1. tm.base_count + BaseTicks(tm, c) \in Int
    BY Typed, StepsType
  <2> QED BY <2>1, TimerConstants, DivMod
<1>4. /\ Stepped(tm.t0l, reg.t0lr, T0LSteps(tm, reg, c)) \in Byte
      /\ Stepped(tm.t0h, reg.t0hr, T0HSteps(tm, reg, c)) \in Byte
      /\ Stepped(tm.t1l, reg.t1lr, T1LSteps(reg, c)) \in Byte
      /\ Stepped(tm.t1h, reg.t1hr, T1HSteps(reg, c)) \in Byte
  BY Typed, StepsType, SteppedType
<1>5. tm.pending \cup Raised(tm, reg, c) \in SUBSET Irqs
  BY RaisedType DEF TimerState
<1> QED BY <1>1, <1>2, <1>3, <1>4, <1>5 DEF Tick, Remainder, TimerState

\* Base ticks, and steps of each counter, of a stretch of time retired in two
\* pieces.
LEMMA StepsAdd ==
  ASSUME NEW tm \in TimerState, NEW reg \in Registers, NEW a \in Nat, NEW b \in Nat,
         NEW t, t = Tick(tm, reg, a)
  PROVE  /\ BaseTicks(tm, a) + BaseTicks(t, b) = BaseTicks(tm, a + b)
         /\ T0Ticks(tm, reg, a) + T0Ticks(t, reg, b) = T0Ticks(tm, reg, a + b)
         /\ T0LSteps(tm, reg, a) + T0LSteps(t, reg, b) = T0LSteps(tm, reg, a + b)
         /\ T0HSteps(tm, reg, a) + T0HSteps(t, reg, b) = T0HSteps(tm, reg, a + b)
         /\ T1LSteps(reg, a) + T1LSteps(reg, b) = T1LSteps(reg, a + b)
         /\ T1HSteps(reg, a) + T1HSteps(reg, b) = T1HSteps(reg, a + b)
<1>1. BaseTicks(tm, a) + BaseTicks(t, b) = BaseTicks(tm, a + b)
  <2> DEFINE x == tm.base_accum
             d == tm.base_divisor
  <2>1. x \in Nat /\ d \in Nat \ {0} /\ x + a \in Int /\ b \in Int
    BY Typed
  <2>2. t.base_divisor = d /\ t.base_accum = (x + a) % d
    BY TickFields
  <2> HIDE DEF x, d
  <2>3. (x + a) + b = x + (a + b)
    BY <2>1
  <2>4. ((x + a) \div d) + ((((x + a) % d) + b) \div d) = (x + (a + b)) \div d
    BY <2>1, <2>3, DivSplit, ZenonT(40)
  <2> QED BY <2>2, <2>4 DEF BaseTicks, x, d
<1>2. T0Ticks(tm, reg, a) + T0Ticks(t, reg, b) = T0Ticks(tm, reg, a + b)
  <2> DEFINE x == tm.prescale_accum
             d == Period(reg)
  <2>1. x \in Nat /\ d \in Nat \ {0} /\ x + a \in Int /\ b \in Int
    BY Typed
  <2>2. t.prescale_accum = (x + a) % d
    BY TickFields
  <2> HIDE DEF x, d
  <2>3. (x + a) + b = x + (a + b)
    BY <2>1
  <2>4. ((x + a) \div d) + ((((x + a) % d) + b) \div d) = (x + (a + b)) \div d
    BY <2>1, <2>3, DivSplit, ZenonT(40)
  <2> QED BY <2>2, <2>4 DEF T0Ticks, x, d
<1>3. t \in TimerState /\ a + b \in Nat
  BY TickType
<1>4. /\ T0Ticks(tm, reg, a) \in Nat /\ T0Ticks(t, reg, b) \in Nat
      /\ T0LSteps(tm, reg, a) \in Nat /\ T0LSteps(t, reg, b) \in Nat
  BY <1>3, StepsType
<1>5. T0LSteps(tm, reg, a) + T0LSteps(t, reg, b) = T0LSteps(tm, reg, a + b)
  BY <1>2, <1>4, GatedAdds DEF T0LSteps
<1>6. T0HSteps(tm, reg, a) + T0HSteps(t, reg, b) = T0HSteps(tm, reg, a + b)
  <2> DEFINE v == tm.t0l
             r == reg.t0lr
             n == T0LSteps(tm, reg, a)
             m == T0LSteps(t, reg, b)
  <2>1. v \in Byte /\ r \in Byte /\ n \in Nat /\ m \in Nat
    BY <1>4, Typed
  <2>2. t.t0l = Stepped(v, r, n) /\ T0LSteps(tm, reg, a + b) = n + m
    BY <1>5, TickFields
  <2> HIDE DEF v, r, n, m
  <2>3. /\ Overflows(v, r, n) + Overflows(t.t0l, r, m) = Overflows(v, r, n + m)
        /\ Overflows(v, r, n) \in Nat /\ Stepped(v, r, n) \in Byte
    <3>1. Overflows(v, r, n) \in Nat /\ Stepped(v, r, n) \in Byte
      BY <2>1, SteppedType
    <3>2. Overflows(v, r, n) + Overflows(Stepped(v, r, n), r, m)
            = Overflows(v, r, n + m)
      BY <2>1, SteppedAdds
    <3> QED BY <2>2, <3>1, <3>2
  <2>4. Overflows(t.t0l, r, m) \in Nat
    BY <2>1, <2>2, <2>3, SteppedType
  <2>5. CASE "LONG" \in reg.t0con
    <3>1. /\ T0HSteps(tm, reg, a) = Gated("HRUN" \in reg.t0con, Overflows(v, r, n))
          /\ T0HSteps(t, reg, b) = Gated("HRUN" \in reg.t0con, Overflows(t.t0l, r, m))
      BY <2>5 DEF T0HSteps, v, r, n, m
    <3>2. T0HSteps(tm, reg, a + b)
            = Gated("HRUN" \in reg.t0con, Overflows(v, r, n + m))
      BY <2>2, <2>5 DEF T0HSteps, v, r
    <3> QED BY <2>3, <2>4, <3>1, <3>2, GatedAdds
  <2>6. CASE "LONG" \notin reg.t0con
    BY <1>2, <1>4, <2>6, GatedAdds DEF T0HSteps
  <2> QED BY <2>5, <2>6
<1>7. /\ T1LSteps(reg, a) + T1LSteps(reg, b) = T1LSteps(reg, a + b)
      /\ T1HSteps(reg, a) + T1HSteps(reg, b) = T1HSteps(reg, a + b)
  BY GatedAdds DEF T1LSteps, T1HSteps
<1> QED BY <1>1, <1>2, <1>5, <1>6, <1>7
\* base_count wraps at a whole number of base interrupts.
LEMMA CountWraps ==
  ASSUME NEW x \in Int, NEW k \in Int
  PROVE  ((x % CountMod) + k) % BaseRoll = (x + k) % BaseRoll
<1> DEFINE f == CountMod \div BaseRoll
           q == x \div CountMod
           r == x % CountMod
           y == (r + k) \div BaseRoll
           z == (r + k) % BaseRoll
<1>1. BaseRoll \in Nat \ {0} /\ CountMod \in Nat \ {0} /\ CountMod % BaseRoll = 0
  BY TimerConstants
<1>2. f \in Int /\ CountMod = f * BaseRoll
  <2>1. f \in Int /\ CountMod = f * BaseRoll + (CountMod % BaseRoll)
    BY <1>1, DivMod
  <2> HIDE DEF f
  <2> QED BY <1>1, <2>1
<1>3. q \in Int /\ r \in Int /\ x = q * CountMod + r
  BY <1>1, DivMod
<1> HIDE DEF f, q, r
<1>4. y \in Int /\ z \in 0 .. BaseRoll - 1 /\ r + k = y * BaseRoll + z
  <2>1. r + k \in Int
    BY <1>3
  <2> QED BY <1>1, <2>1, DivMod
<1> HIDE DEF y, z
<1>5. q * f + y \in Int /\ x + k = (q * f + y) * BaseRoll + z
  <2>1. q * CountMod = (q * f) * BaseRoll /\ q * f \in Int /\ z \in Int
    BY <1>1, <1>2, <1>3, <1>4
  <2>2. (q * f + y) * BaseRoll = (q * f) * BaseRoll + y * BaseRoll
    BY <1>1, <1>4, <2>1
  <2>3. (q * f) * BaseRoll \in Int /\ y * BaseRoll \in Int
    BY <1>1, <1>4, <2>1
  <2>4. x + k = (q * f) * BaseRoll + (r + k)
    BY <1>3, <2>1, <2>3
  <2> QED BY <1>4, <2>1, <2>2, <2>3, <2>4
<1>6. (x + k) % BaseRoll = z
  <2> DEFINE p == q * f + y
  <2>1. p \in Int /\ x + k = p * BaseRoll + z
    BY <1>5
  <2> HIDE DEF p
  <2>2. (p * BaseRoll + z) % BaseRoll = z
    BY <1>1, <1>4, <2>1, DivUnique
  <2> QED BY <2>1, <2>2
<1> QED BY <1>6 DEF r, z

\* The base timer rolls over in one of the two pieces if it does in the whole.
LEMMA BaseRollsAdd ==
  ASSUME NEW tm \in TimerState, NEW reg \in Registers, NEW a \in Nat, NEW b \in Nat,
         NEW t, t = Tick(tm, reg, a)
  PROVE  BaseRollsOver(tm, a) \/ BaseRollsOver(t, b) <=> BaseRollsOver(tm, a + b)
<1> DEFINE n == BaseTicks(tm, a)
           m == BaseTicks(t, b)
           c == tm.base_count
           Rolls(k) == (c + k) % BaseRoll = 0
<1>1. t \in TimerState
  BY TickType
<1>2. n \in Nat /\ m \in Nat /\ c \in Nat /\ BaseTicks(tm, a + b) = n + m
  <2>1. n \in Nat /\ c \in Nat
    BY StepsType, Typed
  <2>2. m \in Nat
    BY <1>1, StepsType
  <2>3. BaseTicks(tm, a + b) = n + m
    BY StepsAdd
  <2> QED BY <2>1, <2>2, <2>3
<1>3. \A k \in Int : (t.base_count + k) % BaseRoll = (c + (n + k)) % BaseRoll
  <2> SUFFICES ASSUME NEW k \in Int
               PROVE  (t.base_count + k) % BaseRoll = (c + (n + k)) % BaseRoll
    OBVIOUS
  <2>1. t.base_count = (c + n) % CountMod
    BY TickFields
  <2> HIDE DEF n, c
  <2>2. c + n \in Int /\ (c + n) + k = c + (n + k)
    BY <1>2
  <2> QED BY <2>1, <2>2, CountWraps
<1>4. /\ BaseRollsOver(tm, a) <=> \E k \in 1 .. n : Rolls(k)
      /\ BaseRollsOver(tm, a + b) <=> \E k \in 1 .. n + m : Rolls(k)
  BY <1>2 DEF BaseRollsOver
<1>5. BaseRollsOver(t, b) <=> \E k \in 1 .. m : Rolls(n + k)
  BY <1>3 DEF BaseRollsOver
<1> HIDE DEF n, m, Rolls
<1>6. (\E k \in 1 .. n : Rolls(k)) \/ (\E k \in 1 .. m : Rolls(n + k))
        <=> \E k \in 1 .. n + m : Rolls(k)
  <2>1. ASSUME NEW k \in 1 .. n, Rolls(k) PROVE \E j \in 1 .. n + m : Rolls(j)
    <3>1. k \in 1 .. n + m
      BY <1>2
    <3> QED BY <2>1, <3>1
  <2>2. ASSUME NEW k \in 1 .. m, Rolls(n + k) PROVE \E j \in 1 .. n + m : Rolls(j)
    <3>1. n + k \in 1 .. n + m
      BY <1>2
    <3> QED BY <2>2, <3>1
  <2>3. ASSUME NEW j \in 1 .. n + m, Rolls(j)
        PROVE  (\E k \in 1 .. n : Rolls(k)) \/ (\E k \in 1 .. m : Rolls(n + k))
    <3>1. CASE j <= n
      <4>1. j \in 1 .. n
        BY <1>2, <3>1
      <4> QED BY <2>3, <4>1
    <3>2. CASE j > n
      <4>1. j - n \in 1 .. m /\ n + (j - n) = j
        BY <1>2, <3>2
      <4> QED BY <2>3, <4>1
    <3> QED BY <1>2, <3>1, <3>2
  <2> QED BY <2>1, <2>2, <2>3
<1> QED BY <1>4, <1>5, <1>6

\* Overflows in the two pieces are overflows in the whole.
LEMMA OverflowsAdd ==
  ASSUME NEW v \in Byte, NEW r \in Byte, NEW n \in Nat, NEW m \in Nat,
         NEW s, s = Stepped(v, r, n), NEW k, k = n + m
  PROVE  /\ Stepped(s, r, m) = Stepped(v, r, k)
         /\ Overflows(v, r, n) > 0 \/ Overflows(s, r, m) > 0
              <=> Overflows(v, r, k) > 0
<1>1. /\ s \in Byte /\ Overflows(v, r, n) \in Nat
  BY SteppedType
<1>2. Overflows(s, r, m) \in Nat
  BY <1>1, SteppedType
<1>3. /\ Overflows(v, r, n) + Overflows(s, r, m) = Overflows(v, r, k)
      /\ Stepped(s, r, m) = Stepped(v, r, k)
  BY SteppedAdds
<1> QED BY <1>1, <1>2, <1>3

\* So it is for each of the counters.
LEMMA CountersAdd ==
  ASSUME NEW tm \in TimerState, NEW reg \in Registers, NEW a \in Nat, NEW b \in Nat,
         NEW t, t = Tick(tm, reg, a), NEW k, k = a + b
  PROVE  /\ Stepped(t.t0l, reg.t0lr, T0LSteps(t, reg, b))
              = Stepped(tm.t0l, reg.t0lr, T0LSteps(tm, reg, k))
         /\ Stepped(t.t0h, reg.t0hr, T0HSteps(t, reg, b))
              = Stepped(tm.t0h, reg.t0hr, T0HSteps(tm, reg, k))
         /\ Stepped(t.t1l, reg.t1lr, T1LSteps(reg, b))
              = Stepped(tm.t1l, reg.t1lr, T1LSteps(reg, k))
         /\ Stepped(t.t1h, reg.t1hr, T1HSteps(reg, b))
              = Stepped(tm.t1h, reg.t1hr, T1HSteps(reg, k))
         /\ Overflows(tm.t0l, reg.t0lr, T0LSteps(tm, reg, a)) > 0
              \/ Overflows(t.t0l, reg.t0lr, T0LSteps(t, reg, b)) > 0
              <=> Overflows(tm.t0l, reg.t0lr, T0LSteps(tm, reg, k)) > 0
         /\ Overflows(tm.t0h, reg.t0hr, T0HSteps(tm, reg, a)) > 0
              \/ Overflows(t.t0h, reg.t0hr, T0HSteps(t, reg, b)) > 0
              <=> Overflows(tm.t0h, reg.t0hr, T0HSteps(tm, reg, k)) > 0
         /\ Overflows(tm.t1l, reg.t1lr, T1LSteps(reg, a)) > 0
              \/ Overflows(t.t1l, reg.t1lr, T1LSteps(reg, b)) > 0
              <=> Overflows(tm.t1l, reg.t1lr, T1LSteps(reg, k)) > 0
         /\ Overflows(tm.t1h, reg.t1hr, T1HSteps(reg, a)) > 0
              \/ Overflows(t.t1h, reg.t1hr, T1HSteps(reg, b)) > 0
              <=> Overflows(tm.t1h, reg.t1hr, T1HSteps(reg, k)) > 0
<1>1. t \in TimerState
  BY TickType
<1>2. /\ tm.t0l \in Byte /\ tm.t0h \in Byte /\ tm.t1l \in Byte /\ tm.t1h \in Byte
      /\ reg.t0lr \in Byte /\ reg.t0hr \in Byte
      /\ reg.t1lr \in Byte /\ reg.t1hr \in Byte
  BY Typed
<1>3. /\ T0LSteps(tm, reg, a) \in Nat /\ T0HSteps(tm, reg, a) \in Nat
      /\ T1LSteps(reg, a) \in Nat /\ T1HSteps(reg, a) \in Nat
  BY StepsType
<1>4. /\ T0LSteps(t, reg, b) \in Nat /\ T0HSteps(t, reg, b) \in Nat
      /\ T1LSteps(reg, b) \in Nat /\ T1HSteps(reg, b) \in Nat
  BY <1>1, StepsType
<1>5. /\ T0LSteps(tm, reg, k) = T0LSteps(tm, reg, a) + T0LSteps(t, reg, b)
      /\ T0HSteps(tm, reg, k) = T0HSteps(tm, reg, a) + T0HSteps(t, reg, b)
      /\ T1LSteps(reg, k) = T1LSteps(reg, a) + T1LSteps(reg, b)
      /\ T1HSteps(reg, k) = T1HSteps(reg, a) + T1HSteps(reg, b)
  BY StepsAdd
<1>6. /\ t.t0l = Stepped(tm.t0l, reg.t0lr, T0LSteps(tm, reg, a))
      /\ t.t0h = Stepped(tm.t0h, reg.t0hr, T0HSteps(tm, reg, a))
      /\ t.t1l = Stepped(tm.t1l, reg.t1lr, T1LSteps(reg, a))
      /\ t.t1h = Stepped(tm.t1h, reg.t1hr, T1HSteps(reg, a))
  BY TickFields
<1>7. /\ Stepped(t.t0l, reg.t0lr, T0LSteps(t, reg, b))
           = Stepped(tm.t0l, reg.t0lr, T0LSteps(tm, reg, k))
      /\ Overflows(tm.t0l, reg.t0lr, T0LSteps(tm, reg, a)) > 0
           \/ Overflows(t.t0l, reg.t0lr, T0LSteps(t, reg, b)) > 0
           <=> Overflows(tm.t0l, reg.t0lr, T0LSteps(tm, reg, k)) > 0
  <2> DEFINE v == tm.t0l
             r == reg.t0lr
             n == T0LSteps(tm, reg, a)
             m == T0LSteps(t, reg, b)
             s == t.t0l
             q == T0LSteps(tm, reg, k)
  <2>1. /\ v \in Byte /\ r \in Byte /\ n \in Nat /\ m \in Nat
        /\ s = Stepped(v, r, n) /\ q = n + m
    BY <1>2, <1>3, <1>4, <1>5, <1>6
  <2> HIDE DEF v, r, n, m, s, q
  <2>2. /\ Stepped(s, r, m) = Stepped(v, r, q)
        /\ Overflows(v, r, n) > 0 \/ Overflows(s, r, m) > 0
             <=> Overflows(v, r, q) > 0
    BY ONLY <2>1, OverflowsAdd
  <2> QED BY <2>2 DEF v, r, n, m, s, q
<1>8. /\ Stepped(t.t0h, reg.t0hr, T0HSteps(t, reg, b))
           = Stepped(tm.t0h, reg.t0hr, T0HSteps(tm, reg, k))
      /\ Overflows(tm.t0h, reg.t0hr, T0HSteps(tm, reg, a)) > 0
           \/ Overflows(t.t0h, reg.t0hr, T0HSteps(t, reg, b)) > 0
           <=> Overflows(tm.t0h, reg.t0hr, T0HSteps(tm, reg, k)) > 0
  <2> DEFINE v == tm.t0h
             r == reg.t0hr
             n == T0HSteps(tm, reg, a)
             m == T0HSteps(t, reg, b)
             s == t.t0h
             q == T0HSteps(tm, reg, k)
  <2>1. /\ v \in Byte /\ r \in Byte /\ n \in Nat /\ m \in Nat
        /\ s = Stepped(v, r, n) /\ q = n + m
    BY <1>2, <1>3, <1>4, <1>5, <1>6
  <2> HIDE DEF v, r, n, m, s, q
  <2>2. /\ Stepped(s, r, m) = Stepped(v, r, q)
        /\ Overflows(v, r, n) > 0 \/ Overflows(s, r, m) > 0
             <=> Overflows(v, r, q) > 0
    BY ONLY <2>1, OverflowsAdd
  <2> QED BY <2>2 DEF v, r, n, m, s, q
<1>9. /\ Stepped(t.t1l, reg.t1lr, T1LSteps(reg, b))
           = Stepped(tm.t1l, reg.t1lr, T1LSteps(reg, k))
      /\ Overflows(tm.t1l, reg.t1lr, T1LSteps(reg, a)) > 0
           \/ Overflows(t.t1l, reg.t1lr, T1LSteps(reg, b)) > 0
           <=> Overflows(tm.t1l, reg.t1lr, T1LSteps(reg, k)) > 0
  <2> DEFINE v == tm.t1l
             r == reg.t1lr
             n == T1LSteps(reg, a)
             m == T1LSteps(reg, b)
             s == t.t1l
             q == T1LSteps(reg, k)
  <2>1. /\ v \in Byte /\ r \in Byte /\ n \in Nat /\ m \in Nat
        /\ s = Stepped(v, r, n) /\ q = n + m
    BY <1>2, <1>3, <1>4, <1>5, <1>6
  <2> HIDE DEF v, r, n, m, s, q
  <2>2. /\ Stepped(s, r, m) = Stepped(v, r, q)
        /\ Overflows(v, r, n) > 0 \/ Overflows(s, r, m) > 0
             <=> Overflows(v, r, q) > 0
    BY ONLY <2>1, OverflowsAdd
  <2> QED BY <2>2 DEF v, r, n, m, s, q
<1>10. /\ Stepped(t.t1h, reg.t1hr, T1HSteps(reg, b))
            = Stepped(tm.t1h, reg.t1hr, T1HSteps(reg, k))
       /\ Overflows(tm.t1h, reg.t1hr, T1HSteps(reg, a)) > 0
            \/ Overflows(t.t1h, reg.t1hr, T1HSteps(reg, b)) > 0
            <=> Overflows(tm.t1h, reg.t1hr, T1HSteps(reg, k)) > 0
  <2> DEFINE v == tm.t1h
             r == reg.t1hr
             n == T1HSteps(reg, a)
             m == T1HSteps(reg, b)
             s == t.t1h
             q == T1HSteps(reg, k)
  <2>1. /\ v \in Byte /\ r \in Byte /\ n \in Nat /\ m \in Nat
        /\ s = Stepped(v, r, n) /\ q = n + m
    BY <1>2, <1>3, <1>4, <1>5, <1>6
  <2> HIDE DEF v, r, n, m, s, q
  <2>2. /\ Stepped(s, r, m) = Stepped(v, r, q)
        /\ Overflows(v, r, n) > 0 \/ Overflows(s, r, m) > 0
             <=> Overflows(v, r, q) > 0
    BY ONLY <2>1, OverflowsAdd
  <2> QED BY <2>2 DEF v, r, n, m, s, q
<1> QED BY <1>7, <1>8, <1>9, <1>10

LEMMA RaisedAdds ==
  ASSUME NEW tm \in TimerState, NEW reg \in Registers, NEW a \in Nat, NEW b \in Nat,
         NEW t, t = Tick(tm, reg, a)
  PROVE  \A i : i \in Raised(tm, reg, a) \/ i \in Raised(t, reg, b)
                 <=> i \in Raised(tm, reg, a + b)
<1>1. t \in TimerState /\ a + b \in Nat
  BY TickType
<1>2. BaseRollsOver(tm, a) \/ BaseRollsOver(t, b) <=> BaseRollsOver(tm, a + b)
  BY BaseRollsAdd
<1> DEFINE O0L(u, c) == Overflows(u.t0l, reg.t0lr, T0LSteps(u, reg, c)) > 0
           O0H(u, c) == Overflows(u.t0h, reg.t0hr, T0HSteps(u, reg, c)) > 0
           O1L(u, c) == Overflows(u.t1l, reg.t1lr, T1LSteps(reg, c)) > 0
           O1H(u, c) == Overflows(u.t1h, reg.t1hr, T1HSteps(reg, c)) > 0
<1>3. /\ O0L(tm, a) \/ O0L(t, b) <=> O0L(tm, a + b)
      /\ O0H(tm, a) \/ O0H(t, b) <=> O0H(tm, a + b)
      /\ O1L(tm, a) \/ O1L(t, b) <=> O1L(tm, a + b)
      /\ O1H(tm, a) \/ O1H(t, b) <=> O1H(tm, a + b)
  <2> DEFINE k == a + b
  <2>1. /\ tm \in TimerState /\ reg \in Registers /\ a \in Nat /\ b \in Nat
        /\ t = Tick(tm, reg, a) /\ k = a + b
    OBVIOUS
  <2> HIDE DEF k
  <2>2. O0L(tm, a) \/ O0L(t, b) <=> O0L(tm, k)
    BY ONLY <2>1, CountersAdd, SMTT(30)
  <2>3. O0H(tm, a) \/ O0H(t, b) <=> O0H(tm, k)
    BY ONLY <2>1, CountersAdd, SMTT(30)
  <2>4. O1L(tm, a) \/ O1L(t, b) <=> O1L(tm, k)
    BY ONLY <2>1, CountersAdd, ZenonT(40)
  <2>5. O1H(tm, a) \/ O1H(t, b) <=> O1H(tm, k)
    BY ONLY <2>1, CountersAdd, ZenonT(40)
  <2> QED BY <2>2, <2>3, <2>4, <2>5 DEF k
<1>4. ASSUME NEW u, NEW c
      PROVE  Raised(u, reg, c)
               = {i \in {INT3_BASE} : reg.btcr /\ BaseRollsOver(u, c)}
                   \cup {i \in {INT2_T0L} : "LONG" \notin reg.t0con /\ O0L(u, c)}
                   \cup {i \in {T0H} : O0H(u, c)}
                   \cup {i \in {T1} : O1L(u, c) \/ O1H(u, c)}
  BY DEF Raised
<1> HIDE DEF O0L, O0H, O1L, O1H
<1> QED BY <1>2, <1>3, <1>4

\* Retiring a cycles and then b more is retiring a + b.
THEOREM TickAdds ==
  ASSUME NEW tm \in TimerState, NEW reg \in Registers, NEW a \in Nat, NEW b \in Nat
  PROVE  Tick(Tick(tm, reg, a), reg, b) = Tick(tm, reg, a + b)
<1> DEFINE t == Tick(tm, reg, a)
           u == Tick(t, reg, b)
           w == Tick(tm, reg, a + b)
<1>1. a + b \in Nat /\ t \in TimerState
  BY TickType
<1>2. u \in TimerState /\ w \in TimerState
  BY <1>1, TickType
<1>3. u.base_divisor = w.base_divisor
  BY <1>1, TickFields
<1>4. u.base_accum = w.base_accum
  <2> DEFINE x == tm.base_accum
             d == tm.base_divisor
  <2>1. x \in Nat /\ d \in Nat \ {0} /\ x + a \in Int /\ (x + a) + b = x + (a + b)
    BY Typed
  <2>2. /\ t.base_accum = (x + a) % d /\ t.base_divisor = d
        /\ w.base_accum = (x + (a + b)) % d
    BY <1>1, TickFields
  <2>3. u.base_accum = (t.base_accum + b) % t.base_divisor
    BY <1>1, TickFields
  <2> HIDE DEF x, d, t, u, w
  <2>4. (((x + a) % d) + b) % d = ((x + a) + b) % d
    <3>1. b \in Int
      OBVIOUS
    <3> QED BY <2>1, <3>1, DivSplit
  <2> QED BY <2>1, <2>2, <2>3, <2>4
<1>5. u.prescale_accum = w.prescale_accum
  <2> DEFINE x == tm.prescale_accum
             d == Period(reg)
  <2>1. x \in Nat /\ d \in Nat \ {0} /\ x + a \in Int /\ (x + a) + b = x + (a + b)
    BY Typed
  <2>2. /\ t.prescale_accum = (x + a) % d
        /\ w.prescale_accum = (x + (a + b)) % d
    BY <1>1, TickFields
  <2>3. u.prescale_accum = (t.prescale_accum + b) % d
    BY <1>1, TickFields
  <2> HIDE DEF x, d, t, u, w
  <2>4. (((x + a) % d) + b) % d = ((x + a) + b) % d
    <3>1. b \in Int
      OBVIOUS
    <3> QED BY <2>1, <3>1, DivSplit
  <2> QED BY <2>1, <2>2, <2>3, <2>4
<1>6. u.base_count = w.base_count
  <2> DEFINE x == tm.base_count
             n == BaseTicks(tm, a)
             m == BaseTicks(t, b)
  <2>1. /\ x \in Nat /\ n \in Nat /\ m \in Nat /\ CountMod \in Nat \ {0}
        /\ BaseTicks(tm, a + b) = n + m
    <3>1. x \in Nat /\ CountMod \in Nat \ {0}
      BY Typed, TimerConstants
    <3>2. n \in Nat
      BY StepsType
    <3>3. m \in Nat
      BY <1>1, StepsType
    <3>4. BaseTicks(tm, a + b) = n + m
      BY <1>1, StepsAdd
    <3> QED BY <3>1, <3>2, <3>3, <3>4
  <2>2. /\ t.base_count = (x + n) % CountMod
        /\ w.base_count = (x + (n + m)) % CountMod
    BY <1>1, <2>1, TickFields
  <2>3. u.base_count = (t.base_count + m) % CountMod
    BY <1>1, TickFields
  <2> HIDE DEF x, n, m, t, u, w
  <2>4. x + n \in Int /\ (x + n) + m = x + (n + m)
    BY <2>1
  <2>5. (((x + n) % CountMod) + m) % CountMod = ((x + n) + m) % CountMod
    <3>1. m \in Int /\ x + n \in Int
      BY <2>1
    <3> QED BY <2>1, <3>1, DivSplit
  <2> QED BY <2>2, <2>3, <2>4, <2>5
<1>7. /\ u.t0l = w.t0l /\ u.t0h = w.t0h
      /\ u.t1l = w.t1l /\ u.t1h = w.t1h
  <2>1. /\ u.t0l = Stepped(t.t0l, reg.t0lr, T0LSteps(t, reg, b))
        /\ u.t0h = Stepped(t.t0h, reg.t0hr, T0HSteps(t, reg, b))
        /\ u.t1l = Stepped(t.t1l, reg.t1lr, T1LSteps(reg, b))
        /\ u.t1h = Stepped(t.t1h, reg.t1hr, T1HSteps(reg, b))
    BY <1>1, TickFields
  <2>2. /\ w.t0l = Stepped(tm.t0l, reg.t0lr, T0LSteps(tm, reg, a + b))
        /\ w.t0h = Stepped(tm.t0h, reg.t0hr, T0HSteps(tm, reg, a + b))
        /\ w.t1l = Stepped(tm.t1l, reg.t1lr, T1LSteps(reg, a + b))
        /\ w.t1h = Stepped(tm.t1h, reg.t1hr, T1HSteps(reg, a + b))
    BY <1>1, TickFields
  <2> HIDE DEF t, u, w
  <2>3. t = Tick(tm, reg, a)
    BY DEF t
  <2> QED BY <2>1, <2>2, <2>3, CountersAdd
<1>8. u.pending = w.pending
  <2>1. /\ t.pending = tm.pending \cup Raised(tm, reg, a)
        /\ u.pending = t.pending \cup Raised(t, reg, b)
        /\ w.pending = tm.pending \cup Raised(tm, reg, a + b)
    BY <1>1, TickFields
  <2> HIDE DEF t, u, w
  <2>2. \A i : i \in Raised(tm, reg, a) \/ i \in Raised(t, reg, b)
               <=> i \in Raised(tm, reg, a + b)
    <3>1. t = Tick(tm, reg, a)
      BY DEF t
    <3> QED BY <3>1, RaisedAdds
  <2> QED BY <2>1, <2>2
<1> HIDE DEF u, w
<1>9. u = w
  BY <1>2, <1>3, <1>4, <1>5, <1>6, <1>7, <1>8 DEF TimerState
<1> QED BY <1>9 DEF t, u, w
=============================================================================
