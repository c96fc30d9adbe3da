------------------------------- MODULE Audio -------------------------------
(* The buzzer, src/src/audio.c: a square wave whose pitch and duty are      *)
(* computed when a register of Timer 1 is written, kept, and rendered into  *)
(* samples as time is retired.  The code's doubles are whole numbers of     *)
(* 1/Unit here, fine enough for every quotient to be exact: rounding is     *)
(* left out, and so is the loss of samples when memory runs out.            *)
EXTENDS Timers, Sequences

CONSTANTS Rate,            \* AUDIO_RATE: 44100 samples a second
          Unit,            \* fractions are counted in 1/Unit
          DefaultClock,    \* 600000 cycles a second
          DefaultCeiling   \* 20000 Hz

ASSUME AudioConstants ==
  /\ Rate \in Nat \ {0} /\ Unit \in Nat \ {0}
  /\ DefaultClock \in Nat \ {0} /\ DefaultCeiling \in Nat \ {0}
  /\ \A period \in 1 .. W : Unit % (Rate * period) = 0
  /\ Unit % DefaultClock = 0

AudioState ==
  [clock_hz : Nat \ {0}, audible_ceiling_hz : Nat \ {0},
   freq : Nat,             \* in Rate/Unit Hz: the phase a sample adds
   duty : 0 .. Unit, phase : 0 .. Unit - 1, frac : 0 .. Unit - 1]

\* vmu_audio_reset, and the knobs a host may turn after it.
ResetAudio ==
  [clock_hz |-> DefaultClock, audible_ceiling_hz |-> DefaultCeiling,
   freq |-> 0, duty |-> 0, phase |-> 0, frac |-> 0]

SetClock(au, hz) ==
  [au EXCEPT !.clock_hz = IF hz > 0 THEN hz ELSE DefaultClock]

SetAudibleCeiling(au, hz) ==
  [au EXCEPT !.audible_ceiling_hz = IF hz > 0 THEN hz ELSE DefaultCeiling]

-----------------------------------------------------------------------------
(* vmu_audio_retune.                                                        *)

ToneLength(reg) == W - reg.t1lr
High(reg) == IF reg.t1lc >= reg.t1lr THEN reg.t1lc - reg.t1lr ELSE 0
Duty(reg) == (High(reg) * Unit) \div ToneLength(reg)

\* A stopped counter, or one that cannot go high, keeps the old duty.
Oscillates(reg) == "LRUN" \in reg.t1cnt /\ ToneLength(reg) > 1

Audible(au, reg) ==
  /\ Oscillates(reg)
  /\ Duty(reg) > 0 /\ Duty(reg) < Unit
  /\ au.clock_hz <= au.audible_ceiling_hz * ToneLength(reg)

Retune(au, reg) ==
  [au EXCEPT
    !.duty = IF Oscillates(reg) THEN Duty(reg) ELSE @,
    !.freq = IF Audible(au, reg)
             THEN (au.clock_hz * Unit) \div (ToneLength(reg) * Rate) ELSE 0]

-----------------------------------------------------------------------------
(* vmu_audio_tick(c).                                                       *)

\* The samples due, in 1/Unit, with what the last call left over.
Samples(au, c) == c * Rate * (Unit \div au.clock_hz) + au.frac

PhaseAfter(au, k) == (au.phase + k * au.freq) % Unit

Sample(au, k) ==
  IF au.freq = 0 THEN "rest"
  ELSE IF PhaseAfter(au, k) < au.duty THEN "high" ELSE "low"

\* What the call appends to the capture.
Rendered(au, c) ==
  [k \in 1 .. Samples(au, c) \div Unit |-> Sample(au, k)]

AudioTick(au, c) ==
  [au EXCEPT !.frac = Samples(au, c) % Unit,
             !.phase = PhaseAfter(au, Samples(au, c) \div Unit)]
=============================================================================
