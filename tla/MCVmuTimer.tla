----------------------------- MODULE MCVmuTimer -----------------------------
(* The timers with counters of a few values.                                *)
EXTENDS TimerLoops

MCControls0 == SUBSET {"LRUN", "HRUN", "LONG"}
MCControls1 == SUBSET {"LRUN", "HRUN"}
MCP3INTValues == SUBSET {"enable", "source"}

(* One concern at a time, so that the state stays small: Timer 0, Timer 1,  *)
(* the base timer, or requests from outside.                                *)

QuietT0 == /\ reg.t0con = {} /\ reg.t0lr = 0 /\ reg.t0hr = 0 /\ reg.t0prr = 0
           /\ tm.t0l = 0 /\ tm.t0h = 0 /\ tm.pending \cap {INT2_T0L, T0H} = {}
QuietT1 == /\ reg.t1cnt = {} /\ reg.t1lr = 0 /\ reg.t1hr = 0
           /\ tm.t1l = 0 /\ tm.t1h = 0 /\ T1 \notin tm.pending
QuietBase == /\ ~reg.btcr /\ tm.base_divisor = DefaultDivisor
             /\ INT3_BASE \notin tm.pending
QuietOutside == /\ p3int = {} /\ buttons = {} /\ ie \subseteq {"master"}
                /\ tm.pending \cap {INT0, INT1, P3} = {}

OneConcern == \/ QuietT0 /\ QuietT1 /\ QuietBase
              \/ QuietT0 /\ QuietT1 /\ QuietOutside
              \/ QuietT0 /\ QuietBase /\ QuietOutside
              \/ QuietT1 /\ QuietBase /\ QuietOutside

MCSpec == Init /\ [][Next /\ OneConcern']_vars

=============================================================================
