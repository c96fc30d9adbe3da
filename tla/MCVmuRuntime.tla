---------------------------- MODULE MCVmuRuntime ----------------------------
(* Two interrupt sources, one ordinary function, a wrap-around SP and       *)
(* budgets small enough that runs end in a handler, under a call and in the *)
(* entry itself.                                                            *)
EXTENDS VmuRuntime
=============================================================================
