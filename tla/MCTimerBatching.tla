-------------------------- MODULE MCTimerBatching --------------------------
(* One concern of a program at a time: Timer 0 behind its prescaler, or the *)
(* buzzer on Timer 1, with the clock and ceiling of the reset or others.     *)
EXTENDS TimerBatching

Controls0 == {{}, {"LRUN"}, {"LRUN", "HRUN", "LONG"}}

Timer0 == [kind : {"t0con"}, value : Controls0]
            \cup [kind : {"t0lr", "t0prr"}, value : {0, 2}]
Buzzer == [kind : {"t1cnt"}, value : {{}, {"LRUN"}}]
            \cup [kind : {"t1lr", "t1lc"}, value : {1, 2}]

MCSessions ==
  [program : {Timer0}, clock : {0}, ceiling : {0}]
    \cup [program : {Buzzer}, clock : {0}, ceiling : {0}]
    \cup [program : {Buzzer}, clock : {4}, ceiling : {2}]
=============================================================================
