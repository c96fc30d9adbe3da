--------------------------- MODULE TimerBatching ---------------------------
(* One program, run twice: by the interpreter, which retires the cycles of  *)
(* every instruction behind it (tools/lc8670recomp/vmurun.c), and as        *)
(* generated code, which adds them up and retires them before the next      *)
(* control transfer or label (flush_cycles in emit.c).  Both see the same   *)
(* register writes in the same order; each has timers and a buzzer of its   *)
(* own.                                                                     *)
EXTENDS Audio, SequencesExt

CONSTANTS MaxInsn,      \* bound: cycles of one instruction
          MaxOwed,      \* bound: cycles a block adds up
          Sessions      \* programs, by the register writes they make, and
                        \* what the host sets the buzzer's knobs to

\* A program writes timer registers with what they can hold.
ASSUME BatchingConstants ==
  /\ MaxInsn \in Nat /\ MaxOwed \in Nat
  /\ \A s \in Sessions :
       /\ s.clock \in Nat /\ s.ceiling \in Nat
       /\ \A op \in s.program :
            /\ op.kind \in DOMAIN ZeroRegisters
            /\ [ZeroRegisters EXCEPT ![op.kind] = op.value] \in Registers

VARIABLES exact,        \* the interpreter's timers, buzzer and capture
          batched, owed,\* the generated code's, and the cycles they lag
          reg,          \* the timer registers
          program,      \* the register writes of this program
          midBlock      \* history: registers written while the two are apart

vars == <<exact, batched, owed, reg, program, midBlock>>

\* A capture is what of it the other engine's capture has not got as well.
Engine(hz, ceiling) ==
  [tm |-> ResetState,
   au |-> SetAudibleCeiling(SetClock(ResetAudio, hz), ceiling),
   pcm |-> <<>>]

\* The host resets, may set the knobs, and runs the program.
Init ==
  \E s \in Sessions :
    /\ program = s.program
    /\ exact = Engine(s.clock, s.ceiling)
    /\ batched = Engine(s.clock, s.ceiling)
    /\ owed = 0 /\ reg = ZeroRegisters
    /\ midBlock = FALSE

-----------------------------------------------------------------------------
(* What happens to the timers and the buzzer of one engine e.               *)

\* vmu_rt_tick, up to its interrupts.
Retired(e, r, c) ==
  [tm |-> Tick(e.tm, r, c), au |-> AudioTick(e.au, c),
   pcm |-> e.pcm \o Rendered(e.au, c)]

RetunedBy_NotCompare == {"t1cnt", "t1lr"}
RetunedBy == {"t1cnt", "t1lr", "t1lc"}

\* vmu_write of a timer register: the register, the timer's hook, the buzzer.
RegisterEffect(op) ==
  IF op.kind = "other" THEN reg ELSE [reg EXCEPT ![op.kind] = op.value]

Effect(op, e) ==
  [e EXCEPT
    !.tm = CASE op.kind = "t0con" -> WriteT0CON(@, reg, op.value)
             [] op.kind = "t1cnt" -> WriteT1CNT(@, reg, op.value)
             [] OTHER -> @,
    !.au = IF op.kind \in RetunedBy THEN Retune(@, RegisterEffect(op)) ELSE @]

Ops == program \cup [kind : {"other"}, value : {0}]
Writes(op) == op.kind # "other"

\* The interpreter executes, then retires the instruction's c cycles.
Interpreted(op, c) == Retired(Effect(op, exact), RegisterEffect(op), c)

\* Generated code pays for a transfer together with the block before it.
Flushed_BlockOnly(c) == owed
Flushed(c) == owed + c

\* Both engines' next states, less the capture the generated code has as well.
Both(e, b) ==
  LET n == IF IsPrefix(b.pcm, e.pcm) THEN Len(b.pcm) ELSE 0 IN
  /\ exact' = [e EXCEPT !.pcm = SubSeq(@, n + 1, Len(@))]
  /\ batched' = [b EXCEPT !.pcm = SubSeq(@, n + 1, Len(@))]

-----------------------------------------------------------------------------
\* An instruction inside a block.
Straight(op, c) ==
  /\ owed + c <= MaxOwed
  /\ Both(Interpreted(op, c), Effect(op, batched))
  /\ owed' = owed + c
  /\ reg' = RegisterEffect(op)
  /\ midBlock' = (midBlock \/ (Writes(op) /\ owed > 0))

\* A branch, jump, call or return; a branch may test or count down a
\* register, which generated code does behind the flush.
Transfer(op, c) ==
  /\ Both(Interpreted(op, c), Effect(op, Retired(batched, reg, Flushed(c))))
  /\ owed' = 0
  /\ reg' = RegisterEffect(op)
  /\ midBlock' = (midBlock \/ Writes(op))

\* Control falls through to a label: the block before it is paid for.
Label ==
  /\ Both(exact, Retired(batched, reg, owed))
  /\ owed' = 0
  /\ UNCHANGED <<reg, midBlock>>

\* The comparison ends where the two part.
Next == /\ ~midBlock
        /\ \/ \E op \in Ops, c \in 1 .. MaxInsn :
                Straight(op, c) \/ Transfer(op, c)
           \/ Label
        /\ UNCHANGED program

Spec == Init /\ [][Next]_vars

-----------------------------------------------------------------------------
(* Properties.                                                              *)

\* As long as no instruction writes a timer register in the middle of a block,
\* the generated code's timers and buzzer are the interpreter's as of the last
\* flush: the same counters, the same interrupt requests and, sample by sample,
\* the same sound once the owed cycles are in (emit.c:8-11).
LagsByTheBlock == midBlock \/ exact = Retired(batched, reg, owed)

\* The pitch and duty the buzzer sounds are those of the registers as they are
\* now, whichever of the three was written last: tuning again would change
\* nothing (mem.c:90-91, audio.h:18).
PitchFollowsRegisters ==
  \A e \in {exact, batched} : e.au = Retune(e.au, reg)
=============================================================================
