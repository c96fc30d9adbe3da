----------------------------- MODULE TimerLoops -----------------------------
(* vmu_timer_tick of src/src/timer.c as it is written, one function per     *)
(* loop, indexed by the number of passes made, to compare the divisions of  *)
(* Timers with.                                                             *)
EXTENDS VmuTimer

\* step_reload: the next value, and whether it overflows.
Step(v, r) == IF v = W - 1 THEN r ELSE v + 1
Over(v) == v = W - 1

\* A pass through the loop of the base timer; none is made of less than a period.
BasePass(s, r) ==
  IF s.base_accum < s.base_divisor THEN s
  ELSE LET k == (s.base_count + 1) % CountMod IN
       [s EXCEPT !.base_accum = @ - s.base_divisor,
                 !.base_count = k,
                 !.pending = @ \cup {i \in {INT3_BASE} : k % BaseRoll = 0 /\ r.btcr}]

BaseLoop(t, r, c) ==
  LET start == [t EXCEPT !.base_accum = @ + c]
      passes[n \in 0 .. start.base_accum] ==
        IF n = 0 THEN start ELSE BasePass(passes[n - 1], r)
  IN passes[start.base_accum]

\* A pass through the loop of Timer 0.
T0Pass(s, r) ==
  LET lrun == "LRUN" \in r.t0con
      lover == lrun /\ Over(s.t0l)
      hrun == "HRUN" \in r.t0con /\ ("LONG" \in r.t0con => lover)
      hover == hrun /\ Over(s.t0h)
  IN IF s.prescale_accum < Period(r) THEN s
     ELSE [s EXCEPT !.prescale_accum = @ - Period(r),
                    !.t0l = IF lrun THEN Step(@, r.t0lr) ELSE @,
                    !.t0h = IF hrun THEN Step(@, r.t0hr) ELSE @,
                    !.pending = @ \cup {i \in {INT2_T0L} :
                                         lover /\ "LONG" \notin r.t0con}
                                  \cup {i \in {T0H} : hover}]

T0Loop(t, r, c) ==
  LET start == [t EXCEPT !.prescale_accum = @ + c]
      passes[n \in 0 .. start.prescale_accum] ==
        IF n = 0 THEN start ELSE T0Pass(passes[n - 1], r)
  IN passes[start.prescale_accum]

\* A pass through the loop of Timer 1, one cycle.
T1Pass(s, r) ==
  LET lrun == "LRUN" \in r.t1cnt
      hrun == "HRUN" \in r.t1cnt
  IN [s EXCEPT !.t1l = IF lrun THEN Step(@, r.t1lr) ELSE @,
               !.t1h = IF hrun THEN Step(@, r.t1hr) ELSE @,
               !.pending = @ \cup {i \in {T1} : \/ lrun /\ Over(s.t1l)
                                                \/ hrun /\ Over(s.t1h)}]

T1Loop(t, r, c) ==
  LET passes[n \in 0 .. c] == IF n = 0 THEN t ELSE T1Pass(passes[n - 1], r)
  IN passes[c]

\* The divisions compute what the loops compute, from every reachable state.
TickIsTheLoops ==
  \A c \in 0 .. Horizon :
    Tick(tm, reg, c) = T1Loop(T0Loop(BaseLoop(tm, reg, c), reg, c), reg, c)
=============================================================================
