---------------------------- MODULE IrqDelivery ----------------------------
(* What the runtime promises about interrupts, and nothing of how: requests *)
(* are remembered until they are handed to a handler, the most urgent       *)
(* request goes first, and a handler is started above others only when each *)
(* of them has been opened, which a "return from interrupt" executed before *)
(* their own return does.  VmuRuntime (the C call stack, the in_isr flag,   *)
(* the escape from a run) is shown to implement this module.                *)
EXTENDS Integers

CONSTANT Irqs                   \* interrupt sources, smaller is more urgent

VARIABLES pending,              \* requests not handed over yet
          serving,              \* source served at each level in use
          open                  \* levels whose handler may be interrupted

vars == <<pending, serving, open>>

MostUrgent(P) == CHOOSE i \in P : \A j \in P : i <= j

Levels == DOMAIN serving
NoLevel == [l \in {} |-> 0]

Init == pending = {} /\ serving = NoLevel /\ open = {}

Raise(R) == pending' = pending \cup R /\ UNCHANGED <<serving, open>>

\* Requests R arrive and the most urgent one is handed over at once, to a
\* handler at a new level above all others.
Deliver(R) ==
  /\ Levels \subseteq open
  /\ pending \cup R # {}
  /\ \E l \in Levels' :
       /\ \A m \in Levels : m < l
       /\ serving' = [m \in Levels \cup {l} |->
                        IF m = l THEN MostUrgent(pending \cup R) ELSE serving[m]]
  /\ pending' = (pending \cup R) \ {MostUrgent(pending \cup R)}
  /\ UNCHANGED open

\* A return from interrupt that does not end the handler it is executed in.
Open == open' = Levels /\ UNCHANGED <<pending, serving>>

\* The innermost handler returns.
Finish ==
  /\ \E l \in Levels :
       /\ \A m \in Levels : m <= l
       /\ serving' = [m \in Levels \ {l} |-> serving[m]]
       /\ open' = open \ {l}
  /\ UNCHANGED pending

\* The run that all the handlers belong to is given up.
Abandon == serving' = NoLevel /\ open' = {} /\ UNCHANGED pending

Reset == Levels = {} /\ pending' = {} /\ UNCHANGED <<serving, open>>

Next == \/ \E R \in SUBSET Irqs : Raise(R) \/ Deliver(R)
        \/ Open
        \/ Finish
        \/ Abandon
        \/ Reset

Spec == Init /\ [][Next]_vars
=============================================================================
