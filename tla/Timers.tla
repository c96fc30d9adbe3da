------------------------------- MODULE Timers -------------------------------
(* The arithmetic of src/src/timer.c: the base timer, Timer 0 behind its    *)
(* prescaler and Timer 1, each a loop over elapsed cycles in the code and a *)
(* division here.  The counters wrap at W and restart at a reload value.    *)
EXTENDS Integers, FiniteSets

CONSTANTS W,               \* values of a counter byte: 256
          CountMod,        \* values of base_count: 65536
          BaseRoll,        \* base ticks between two base interrupts: 16384
          DefaultDivisor   \* BASE_DIVISOR_DEFAULT: 18

ASSUME TimerConstants ==
  /\ W \in Nat \ {0} /\ DefaultDivisor \in Nat \ {0}
  /\ BaseRoll \in Nat \ {0}
  /\ CountMod \in Nat \ {0} /\ CountMod % BaseRoll = 0

\* Interrupt sources in vector order; a smaller one goes first.
INT0 == 0
INT1 == 1
INT2_T0L == 2
INT3_BASE == 3
T0H == 4
T1 == 5
P3 == 9
Irqs == 0 .. 9

Byte == 0 .. W - 1

\* The registers the timers and the buzzer look at.  A control register is the
\* set of its bits; BTCR is reduced to its bit 0; T1LC matters to the buzzer only.
Registers ==
  [t0con : SUBSET {"LRUN", "HRUN", "LONG"}, t1cnt : SUBSET {"LRUN", "HRUN"},
   t0prr : Byte, t0lr : Byte, t0hr : Byte, t1lr : Byte, t1hr : Byte,
   t1lc : Byte, btcr : BOOLEAN]

TimerState ==
  [base_divisor : Nat \ {0}, base_accum : Nat, base_count : 0 .. CountMod - 1,
   prescale_accum : Nat,
   t0l : Byte, t0h : Byte, t1l : Byte, t1h : Byte,
   pending : SUBSET Irqs]

ZeroRegisters ==
  [t0con |-> {}, t1cnt |-> {}, t0prr |-> 0, t0lr |-> 0, t0hr |-> 0,
   t1lr |-> 0, t1hr |-> 0, t1lc |-> 0, btcr |-> FALSE]

\* vmu_timer_reset
ResetState ==
  [base_divisor |-> DefaultDivisor, base_accum |-> 0, base_count |-> 0,
   prescale_accum |-> 0, t0l |-> 0, t0h |-> 0, t1l |-> 0, t1h |-> 0,
   pending |-> {}]

-----------------------------------------------------------------------------
(* A reload counter: n times step_reload.                                   *)

Stepped_FromZero(v, r, n) ==
  IF v + n < W THEN v + n ELSE (v + n - W) % (W - r)
Stepped(v, r, n) ==
  IF v + n < W THEN v + n ELSE r + ((v + n - W) % (W - r))

\* How often it overflows on the way.
Overflows(v, r, n) ==
  IF v + n < W THEN 0 ELSE 1 + ((v + n - W) \div (W - r))

-----------------------------------------------------------------------------
(* vmu_timer_tick(c).                                                       *)

\* A counter without its run bit makes no steps.
Gated(run, n) == IF run THEN n ELSE 0

\* What an accumulator keeps once whole periods are taken out of it.
Remainder_Dropped(a, period) == 0
Remainder(a, period) == a % period

Period(reg) == W - reg.t0prr

BaseTicks(tm, c) == (tm.base_accum + c) \div tm.base_divisor
T0Ticks(tm, reg, c) == (tm.prescale_accum + c) \div Period(reg)

\* Steps each counter makes while c cycles pass.  In long mode T0H is stepped
\* by the overflows of T0L.
T0LSteps(tm, reg, c) == Gated("LRUN" \in reg.t0con, T0Ticks(tm, reg, c))
T0HSteps_Unchained(tm, reg, c) ==
  Gated("HRUN" \in reg.t0con, T0Ticks(tm, reg, c))
T0HSteps(tm, reg, c) ==
  Gated("HRUN" \in reg.t0con,
        IF "LONG" \in reg.t0con
        THEN Overflows(tm.t0l, reg.t0lr, T0LSteps(tm, reg, c))
        ELSE T0Ticks(tm, reg, c))
T1LSteps(reg, c) == Gated("LRUN" \in reg.t1cnt, c)
T1HSteps(reg, c) == Gated("HRUN" \in reg.t1cnt, c)

BaseRollsOver_AtTheEnd(tm, c) ==
  BaseTicks(tm, c) > 0 /\ (tm.base_count + BaseTicks(tm, c)) % BaseRoll = 0
BaseRollsOver(tm, c) ==
  \E k \in 1 .. BaseTicks(tm, c) : (tm.base_count + k) % BaseRoll = 0

Raised(tm, reg, c) ==
  {i \in {INT3_BASE} : reg.btcr /\ BaseRollsOver(tm, c)}
    \cup {i \in {INT2_T0L} :
            /\ "LONG" \notin reg.t0con
            /\ Overflows(tm.t0l, reg.t0lr, T0LSteps(tm, reg, c)) > 0}
    \cup {i \in {T0H} :
            Overflows(tm.t0h, reg.t0hr, T0HSteps(tm, reg, c)) > 0}
    \cup {i \in {T1} :
            \/ Overflows(tm.t1l, reg.t1lr, T1LSteps(reg, c)) > 0
            \/ Overflows(tm.t1h, reg.t1hr, T1HSteps(reg, c)) > 0}

Tick(tm, reg, c) ==
  [tm EXCEPT
    !.base_accum = Remainder(@ + c, tm.base_divisor),
    !.base_count = (@ + BaseTicks(tm, c)) % CountMod,
    !.prescale_accum = Remainder(@ + c, Period(reg)),
    !.t0l = Stepped(@, reg.t0lr, T0LSteps(tm, reg, c)),
    !.t0h = Stepped(@, reg.t0hr, T0HSteps(tm, reg, c)),
    !.t1l = Stepped(@, reg.t1lr, T1LSteps(reg, c)),
    !.t1h = Stepped(@, reg.t1hr, T1HSteps(reg, c)),
    !.pending = @ \cup Raised(tm, reg, c)]

-----------------------------------------------------------------------------
(* The register hooks.                                                      *)

\* vmu_timer_write: writing a control register with a run bit clear takes
\* that counter back to its reload value.
WriteT0CON(tm, reg, bits) ==
  [tm EXCEPT !.t0l = IF "LRUN" \in bits THEN @ ELSE reg.t0lr,
             !.t0h = IF "HRUN" \in bits THEN @ ELSE reg.t0hr]

WriteT1CNT(tm, reg, bits) ==
  [tm EXCEPT !.t1l = IF "LRUN" \in bits THEN @ ELSE reg.t1lr,
             !.t1h = IF "HRUN" \in bits THEN @ ELSE reg.t1hr]
=============================================================================
