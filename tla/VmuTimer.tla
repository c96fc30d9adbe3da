------------------------------ MODULE VmuTimer ------------------------------
(* The timers, the interrupt arbiter and the button edge as a machine: what *)
(* time, register writes by the code and calls by the host do to them       *)
(* (src/src/timer.c, vmu_set_buttons and vmu_reset of src/src/cpu.c).       *)
EXTENDS Timers

CONSTANTS Buttons,         \* bits of the button byte
          MaxCycles,       \* bound: cycles of one vmu_timer_tick
          Divisors,        \* bound: divisors the host sets
          Controls0, Controls1,  \* bound: T0CON and T1CNT values written
          ReloadRegs,      \* bound: reload registers written,
          Reloads,         \* bound: and the values written to them
          BtcrValues,      \* bound: BTCR bit 0 values written
          IEValues,        \* bound: IE values written
          P3INTValues,     \* bound: P3INT values written
          HandRaised,      \* bound: sources the host raises by hand
          Horizon          \* bound: longest stretch of time looked ahead

ASSUME VmuTimerConstants ==
  /\ MaxCycles \in Nat /\ Horizon \in Nat /\ Divisors \subseteq Nat
  /\ Controls0 \subseteq SUBSET {"LRUN", "HRUN", "LONG"}
  /\ Controls1 \subseteq SUBSET {"LRUN", "HRUN"}
  /\ ReloadRegs \subseteq {"t0prr", "t0lr", "t0hr", "t1lr", "t1hr", "t1lc"}
  /\ Reloads \subseteq Byte /\ BtcrValues \subseteq BOOLEAN
  /\ IEValues \subseteq SUBSET {"master", "IE0", "IE1"}
  /\ P3INTValues \subseteq SUBSET {"enable", "source"}
  /\ HandRaised \subseteq Irqs \ {P3}

VARIABLES tm, reg,
          ie,              \* IE, its bits "master", "IE0" and "IE1"
          p3int,           \* P3INT, its bits "enable" and "source"
          buttons          \* vmu.buttons, the pressed ones

vars == <<tm, reg, ie, p3int, buttons>>

TypeOK ==
  /\ tm \in TimerState /\ reg \in Registers
  /\ ie \in SUBSET {"master", "IE0", "IE1"}
  /\ p3int \in SUBSET {"enable", "source"}
  /\ buttons \in SUBSET Buttons

Init ==
  /\ tm = ResetState /\ reg = ZeroRegisters
  /\ ie = {} /\ p3int = {} /\ buttons = {}

\* vmu_timer_tick
Elapse(c) == tm' = Tick(tm, reg, c) /\ UNCHANGED <<reg, ie, p3int, buttons>>

\* vmu_timer_set_divisor; 0 stands for the default.
SetDivisor(d) ==
  /\ tm' = [tm EXCEPT !.base_divisor = IF d = 0 THEN DefaultDivisor ELSE d]
  /\ UNCHANGED <<reg, ie, p3int, buttons>>

\* The code writes a register (vmu_write): the SFR takes the value, then
\* vmu_timer_write sees it.
SetT0CON(bits) ==
  /\ reg' = [reg EXCEPT !.t0con = bits]
  /\ tm' = WriteT0CON(tm, reg, bits)
  /\ UNCHANGED <<ie, p3int, buttons>>

SetT1CNT(bits) ==
  /\ reg' = [reg EXCEPT !.t1cnt = bits]
  /\ tm' = WriteT1CNT(tm, reg, bits)
  /\ UNCHANGED <<ie, p3int, buttons>>

SetReload(r, v) ==
  /\ reg' = [reg EXCEPT ![r] = v]
  /\ UNCHANGED <<tm, ie, p3int, buttons>>

SetBTCR(b) == /\ reg' = [reg EXCEPT !.btcr = b]
              /\ UNCHANGED <<tm, ie, p3int, buttons>>

SetIE(v) == ie' = v /\ UNCHANGED <<tm, reg, p3int, buttons>>
SetP3INT(v) == p3int' = v /\ UNCHANGED <<tm, reg, ie, buttons>>

MostUrgent(P) == CHOOSE i \in P : \A j \in P : i <= j

\* vmu_irq_take hands over a source.
Take ==
  /\ "master" \in ie /\ tm.pending # {}
  /\ tm' = [tm EXCEPT !.pending = @ \ {MostUrgent(@)}]
  /\ UNCHANGED <<reg, ie, p3int, buttons>>

\* vmu_irq_raise by the host, external and serial sources say.
Raise(i) ==
  /\ tm' = [tm EXCEPT !.pending = @ \cup {i}]
  /\ UNCHANGED <<reg, ie, p3int, buttons>>

NewlyPressed(b) == b \ buttons

\* vmu_set_buttons(b)
SetButtons(b) ==
  /\ buttons' = b
  /\ IF NewlyPressed(b) # {} /\ "enable" \in p3int
     THEN /\ p3int' = p3int \cup {"source"}
          /\ tm' = [tm EXCEPT !.pending = @ \cup {P3}]
     ELSE UNCHANGED <<p3int, tm>>
  /\ UNCHANGED <<reg, ie>>

\* vmu_reset
Reset ==
  /\ tm' = ResetState /\ reg' = ZeroRegisters
  /\ ie' = {} /\ p3int' = {} /\ buttons' = {}

Code == \/ \E bits \in Controls0 : SetT0CON(bits)
        \/ \E bits \in Controls1 : SetT1CNT(bits)
        \/ \E r \in ReloadRegs, v \in Reloads : SetReload(r, v)
        \/ \E b \in BtcrValues : SetBTCR(b)
        \/ \E v \in IEValues : SetIE(v)
        \/ \E v \in P3INTValues : SetP3INT(v)

Host == \/ \E d \in Divisors : SetDivisor(d)
        \/ \E i \in HandRaised : Raise(i)
        \/ \E b \in SUBSET Buttons : SetButtons(b)
        \/ Reset

Next == (\E c \in 0 .. MaxCycles : Elapse(c)) \/ Take \/ Code \/ Host

Spec == Init /\ [][Next]_vars

-----------------------------------------------------------------------------
(* Properties.                                                              *)

\* The generated code retires a block's cycles in one call where the
\* interpreter makes one call per instruction: while no register changes,
\* both leave the same counters and the same requests (emit.c:8-11).
BatchingIrrelevant ==
  \A a, b \in 0 .. MaxCycles :
    Tick(Tick(tm, reg, a), reg, b) = Tick(tm, reg, a + b)

\* Cycles until the next overflow of a counter in state t, and from one
\* overflow to the next.  T0H of long mode waits for overflows of T0L.
Until(t, r) ==
  LET t0(n) == n * Period(r) - t.prescale_accum IN
  [base |-> (BaseRoll - (t.base_count % BaseRoll)) * t.base_divisor
              - t.base_accum,
   t0l |-> t0(W - t.t0l),
   t0h |-> t0(IF "LONG" \in r.t0con
              THEN (W - t.t0l) + (W - 1 - t.t0h) * (W - r.t0lr)
              ELSE W - t.t0h),
   t1l |-> W - t.t1l,
   t1h |-> W - t.t1h]

FullPeriod(t, r) ==
  LET low == (W - r.t0lr) * Period(r) IN
  [base |-> BaseRoll * t.base_divisor,
   t0l |-> low,
   t0h |-> (W - r.t0hr) * (IF "LONG" \in r.t0con THEN low ELSE Period(r)),
   t1l |-> W - r.t1lr,
   t1h |-> W - r.t1hr]

Running(r) ==
  {"base"} \cup {n \in {"t0l"} : "LRUN" \in r.t0con}
           \cup {n \in {"t0h"} : /\ "HRUN" \in r.t0con
                                 /\ "LONG" \in r.t0con => "LRUN" \in r.t0con}
           \cup {n \in {"t1l"} : "LRUN" \in r.t1cnt}
           \cup {n \in {"t1h"} : "HRUN" \in r.t1cnt}

\* The counters whose overflow makes a request, and which one.
Source(r) ==
  [n \in (Running(r) \ {m \in {"base"} : ~r.btcr})
           \ {m \in {"t0l"} : "LONG" \in r.t0con} |->
     CASE n = "base" -> INT3_BASE
       [] n = "t0l" -> INT2_T0L
       [] n = "t0h" -> T0H
       [] OTHER -> T1]

\* Time requests an interrupt exactly when a running counter is due for it; a
\* stopped one never does (timer.h:9-11, timer.c:56-58).
RaisesOnTime ==
  \A c \in 0 .. Horizon :
    Tick(tm, reg, c).pending =
      tm.pending \cup {Source(reg)[n] : n \in {m \in DOMAIN Source(reg) :
                                                 c >= Until(tm, reg)[m]}}

\* The cadence does not drift: however long a stretch of time is retired at
\* once, the overflow after it comes at a whole number of reload periods
\* behind the one that was due (timer.h:9-11).
SteadyCadence ==
  \A c \in 0 .. Horizon : \A n \in Running(reg) :
    LET due == Until(tm, reg)[n]
        full == FullPeriod(tm, reg)[n]
    IN Until(Tick(tm, reg, c), reg)[n] =
         IF c < due THEN due - c ELSE full - ((c - due) % full)

\* What timer.c:18 and :105 say of long mode: T0L and T0H are one 16-bit
\* counter, so a step that does not overflow it adds one to it.
Pair(t) == t.t0h * W + t.t0l

LongModeIsOneCounter ==
  [][LET oneStep == /\ reg' = reg /\ reg.t0con = {"LRUN", "HRUN", "LONG"}
                    /\ tm' = Tick(tm, reg, Period(reg) - tm.prescale_accum)
     IN oneStep /\ Pair(tm) # W * W - 1 => Pair(tm') = Pair(tm) + 1]_vars
=============================================================================
