----------------------------- MODULE VmuRuntime -----------------------------
(* The runtime that recompiled code is linked against: vmu_rt_run with its  *)
(* budget and longjmp escape, vmu_rt_tick, interrupt delivery, and the call *)
(* and return helpers that keep the emulated SP in step with the C stack    *)
(* (src/src/recomp_rt.c), over the arbiter of src/src/timer.c.              *)
(*                                                                          *)
(* Everything runs on one thread.  Control is either with the host, or with *)
(* the innermost C frame of recompiled code, or in the tail of vmu_rt_tick. *)
(* Generated code ticks before every control transfer and nowhere else      *)
(* (emit.c, flush_cycles), so a frame alternates between running a block    *)
(* ("code"), the tail of the tick that ends it ("check") and the transfer   *)
(* itself ("transfer").                                                     *)
EXTENDS Integers, Sequences, FiniteSets

CONSTANTS NIrq,        \* number of interrupt sources (IRQ__COUNT)
          Funcs,       \* addresses of the image's ordinary functions
          SPSize,      \* SP is a byte: 256
          MaxBlock,    \* bound: most cycles one block retires
          MaxBudget,   \* bound: largest budget a host gives a run
          MaxDepth     \* bound: C frames at which code calls no deeper

Irqs == 0 .. NIrq - 1
NoIrq == -1

ASSUME RuntimeConstants ==
  /\ NIrq \in Nat \ {0}
  /\ SPSize \in Nat /\ SPSize >= 4
  /\ MaxBlock \in Nat \ {0}
  /\ MaxBudget \in Nat
  /\ MaxDepth \in Nat \ {0}
  /\ Funcs \cap Irqs = {}

VARIABLES
  pc,          \* who has control: "host", "code", "check" or "transfer"
  cstack,      \* the C stack of recompiled code, innermost frame last
  sp,          \* emulated SP, SPSize values wide
  in_isr,      \* vmu.in_isr
  ie,          \* IE bit 7, the master enable
  pending,     \* tm.pending
  registry,    \* addresses with a function; source i stands for its vector
  run_active,
  left,        \* run_deadline - vmu.cycles while run_active, else 0
  result,      \* what the last vmu_rt_run returned
  base,        \* history: SP when the host last entered recompiled code
  astray,      \* history: code trapped or ran off since then
  released     \* history: handlers, by their place on the C stack, above
               \* which a routine has executed RETI

vars == <<pc, cstack, sp, in_isr, ie, pending, registry, run_active, left,
          result, base, astray, released>>

machine == <<ie, registry>>     \* what only the code or the host sets
history == <<base, astray, released>>

\* A frame of generated code: entered by vmu_rt_run, by vmu_rt_call, by a
\* tail call through vmu_rt_dispatch, or by vmu_rt_service_irq for a source.
Frame == [kind : {"entry", "call", "tail"}, irq : {NoIrq}]
           \cup [kind : {"isr"}, irq : Irqs]

Plain(k) == [kind |-> k, irq |-> NoIrq]
Isr(i)   == [kind |-> "isr", irq |-> i]

InitialSP == SPSize \div 2 - 1

TypeOK ==
  /\ pc \in {"host", "code", "check", "transfer"}
  /\ cstack \in Seq(Frame)
  /\ sp \in 0 .. SPSize - 1 /\ base \in 0 .. SPSize - 1
  /\ in_isr \in BOOLEAN /\ ie \in BOOLEAN /\ astray \in BOOLEAN
  /\ pending \in SUBSET Irqs
  /\ registry \in SUBSET (Irqs \cup Funcs)
  /\ run_active \in BOOLEAN
  /\ left \in Int
  /\ result \in {-1, 0, 1}
  /\ released \in SUBSET (1 .. Len(cstack))

Init ==
  /\ pc = "host" /\ cstack = <<>>
  /\ sp = InitialSP /\ base = InitialSP
  /\ in_isr = FALSE /\ ie = FALSE /\ astray = FALSE
  /\ pending = {} /\ registry = {}
  /\ run_active = FALSE /\ left = 0 /\ result = 0
  /\ released = {}

-----------------------------------------------------------------------------
(* Helpers of the runtime.                                                  *)

MostUrgent_Last(P) == CHOOSE i \in P : \A j \in P : j <= i
MostUrgent(P) == CHOOSE i \in P : \A j \in P : i <= j

\* Two vmu_push_byte calls, two vmu_pop_byte calls.
PushPair_NoWrap(s) == s + 2
PushPair_Half(s) == (s + 1) % SPSize
PushPair(s) == (s + 2) % SPSize
PopPair(s)  == (s + SPSize - 2) % SPSize

\* What vmu_irq_take leaves behind when it hands over the top source.
Taken_Kept(P) == P
Taken(P) == P \ {MostUrgent(P)}

\* ... and what is left after vmu_rt_service_irq re-raises a source that has
\* no handler.
PutBack_Swallowed(P) == P \ {MostUrgent(P)}
PutBack(P) == P

\* vmu_rt_service_irq gets a source from vmu_irq_take.
CanTake_Nested(P) == ie /\ P # {}
CanTake(P) == ~in_isr /\ ie /\ P # {}

HasHandler(P) == MostUrgent(P) \in registry

\* vmu.cycles += cycles, seen from the deadline.
Charge_Uncounted(c) == left
Charge(c) == IF run_active THEN left - c ELSE 0

BudgetSpent_Late == run_active /\ left < -MaxBlock
BudgetSpent_NotInHandler == run_active /\ left <= 0 /\ ~in_isr
BudgetSpent == run_active /\ left <= 0

-----------------------------------------------------------------------------
(* vmu_rt_tick(c) while the timers raise R.  If a handler is started, the   *)
(* tick is suspended below it on the C stack and reaches its deadline check *)
(* only when the handler returns.                                           *)

StartHandler(P) ==
  /\ CanTake(P) /\ HasHandler(P)
  /\ pending' = Taken(P)
  /\ in_isr' = TRUE
  /\ sp' = PushPair(sp)
  /\ cstack' = Append(cstack, Isr(MostUrgent(P)))
  /\ pc' = "code"

NoHandlerStarted(P) ==
  /\ ~(CanTake(P) /\ HasHandler(P))
  /\ pending' = IF CanTake(P) THEN PutBack(P) ELSE P
  /\ pc' = "check"
  /\ UNCHANGED <<in_isr, sp, cstack>>

Tick(c, R) ==
  /\ left' = Charge(c)
  /\ StartHandler(pending \cup R) \/ NoHandlerStarted(pending \cup R)
  /\ UNCHANGED <<machine, run_active, result>>

\* A block of generated code ends: it flushes the cycles it retired.
Block(c, R) == pc = "code" /\ Tick(c, R) /\ UNCHANGED history

\* The host calls vmu_rt_tick itself, or vmu_rt_service_irq between frames
\* (c = 0, R = {}).
HostTick(c, R) ==
  /\ pc = "host"
  /\ Tick(c, R)
  /\ base' = sp /\ astray' = FALSE /\ UNCHANGED released

\* The tail of vmu_rt_tick: the deadline has passed, longjmp to vmu_rt_run.
Escape ==
  /\ pc = "check" /\ BudgetSpent
  /\ pc' = "host" /\ cstack' = <<>>
  /\ run_active' = FALSE /\ left' = 0 /\ result' = 1
  /\ released' = {}
  /\ UNCHANGED <<sp, in_isr, pending, machine, base, astray>>

\* ... or vmu_rt_tick returns to the code, or to the host, that called it.
TickReturns ==
  /\ pc = "check" /\ ~BudgetSpent
  /\ pc' = IF cstack = <<>> THEN "host" ELSE "transfer"
  /\ UNCHANGED <<cstack, sp, in_isr, pending, machine, run_active, left,
                 result, history>>

-----------------------------------------------------------------------------
(* The transfers generated code can make once its block is paid for.        *)

Top == cstack[Len(cstack)]

\* A tail call is "dispatch, then return", so a return goes through every
\* tail frame down to the frame that was entered any other way.
ReturnIndex_Outermost ==
  CHOOSE n \in 1 .. Len(cstack) :
    cstack[n].kind # "tail" /\ \A m \in 1 .. n - 1 : cstack[m].kind = "tail"
ReturnIndex == CHOOSE n \in 1 .. Len(cstack) :
                 /\ cstack[n].kind # "tail"
                 /\ \A m \in n + 1 .. Len(cstack) : cstack[m].kind = "tail"

Returning == cstack[ReturnIndex]

Handlers == {n \in DOMAIN cstack : cstack[n].kind = "isr"}
Remaining == 1 .. ReturnIndex - 1

\* The C return of the innermost function, and what its caller does next:
\* vmu_rt_run reports 0, a call is over, vmu_rt_service_irq clears in_isr.
Return(isr_flag) ==
  /\ cstack' = SubSeq(cstack, 1, ReturnIndex - 1)
  /\ \/ /\ Returning.kind = "entry"
        /\ pc' = "host" /\ run_active' = FALSE /\ left' = 0 /\ result' = 0
        /\ in_isr' = isr_flag
     \/ /\ Returning.kind = "call"
        /\ pc' = "code" /\ in_isr' = isr_flag
        /\ UNCHANGED <<run_active, left, result>>
     \/ /\ Returning.kind = "isr"
        /\ pc' = "check" /\ in_isr' = FALSE
        /\ UNCHANGED <<run_active, left, result>>

\* A branch, a goto or a fallthrough inside the function.
Continue ==
  /\ pc = "transfer" /\ pc' = "code"
  /\ UNCHANGED <<cstack, sp, in_isr, pending, machine, run_active, left,
                 result, history>>

\* vmu_rt_call: the return address is pushed, then the target is dispatched.
Call(f) ==
  /\ pc = "transfer" /\ f \in registry /\ Len(cstack) < MaxDepth
  /\ sp' = PushPair(sp)
  /\ cstack' = Append(cstack, Plain("call"))
  /\ pc' = "code"
  /\ UNCHANGED <<in_isr, pending, machine, run_active, left, result, history>>

\* ... to an address nothing is registered for: trap, and carry on behind the
\* call.  The pair stays pushed.
CallTraps(f) ==
  /\ pc = "transfer" /\ f \notin registry
  /\ sp' = PushPair(sp)
  /\ pc' = "code"
  /\ astray' = TRUE
  /\ UNCHANGED <<cstack, in_isr, pending, machine, run_active, left, result,
                 base, released>>

\* A jump out of the function: { vmu_rt_dispatch(target); return; }
TailCall(f) ==
  /\ pc = "transfer" /\ f \in registry /\ Len(cstack) < MaxDepth
  /\ cstack' = Append(cstack, Plain("tail"))
  /\ pc' = "code"
  /\ UNCHANGED <<sp, in_isr, pending, machine, run_active, left, result,
                 history>>

\* A jump to an address nothing is registered for, or an undefined opcode:
\* trap and return from the C function without popping.  Code that runs off
\* the end of the image reaches the closing brace and returns like that too.
Undefined ==
  /\ pc = "transfer"
  /\ Return(in_isr)
  /\ astray' = TRUE
  /\ released' = released \cap Remaining
  /\ UNCHANGED <<sp, pending, machine, base>>

\* RET in any function, a handler's bare RET included.
Ret ==
  /\ pc = "transfer"
  /\ sp' = PopPair(sp)
  /\ Return(in_isr)
  /\ released' = released \cap Remaining
  /\ UNCHANGED <<pending, machine, base, astray>>

\* RETI, in a handler or in any other function: vmu_rt_reti clears in_isr
\* itself.  Where it does not end the handler, every handler the function
\* returns to is released: it stays on the C stack, its flag gone.
Reti ==
  /\ pc = "transfer"
  /\ sp' = PopPair(sp)
  /\ Return(FALSE)
  /\ released' = (IF Returning.kind = "isr" THEN released ELSE Handlers)
                   \cap Remaining
  /\ UNCHANGED <<pending, machine, base, astray>>

\* The code of a block writes IE (vmu_write).
WriteIE ==
  /\ pc = "code" /\ ie' = ~ie
  /\ UNCHANGED <<pc, cstack, sp, in_isr, pending, registry, run_active, left,
                 result, history>>

-----------------------------------------------------------------------------
(* The host, between runs.                                                  *)

\* vmu_rt_run(entry, budget).
Run(f, budget) ==
  /\ pc = "host" /\ f \in registry
  /\ cstack' = <<Plain("entry")>> /\ pc' = "code"
  /\ run_active' = TRUE /\ left' = budget
  /\ base' = sp /\ astray' = FALSE
  /\ UNCHANGED <<sp, in_isr, pending, machine, result, released>>

\* vmu_rt_run(NULL, budget), the looked-up entry not being registered.
RunNothing(f) ==
  /\ pc = "host" /\ f \notin registry
  /\ result' = -1
  /\ UNCHANGED <<pc, cstack, sp, in_isr, pending, machine, run_active, left,
                 history>>

\* vmu_irq_raise by the host; vmu_set_buttons does it on a button edge.
HostRaise(i) ==
  /\ pc = "host" /\ pending' = pending \cup {i}
  /\ UNCHANGED <<pc, cstack, sp, in_isr, machine, run_active, left, result,
                 history>>

Register(a) ==
  /\ pc = "host" /\ registry' = registry \cup {a}
  /\ UNCHANGED <<pc, cstack, sp, in_isr, ie, pending, run_active, left,
                 result, history>>

ClearRegistry ==
  /\ pc = "host" /\ registry' = {}
  /\ UNCHANGED <<pc, cstack, sp, in_isr, ie, pending, run_active, left,
                 result, history>>

\* vmu_reset: the machine and the timers are cleared; the registry and the
\* trap count are not.  Its final vmu_rt_tick(0) delivers nothing, IE being 0.
HostReset ==
  /\ pc = "host"
  /\ sp' = InitialSP /\ in_isr' = FALSE /\ ie' = FALSE /\ pending' = {}
  /\ UNCHANGED <<pc, cstack, registry, run_active, left, result, history>>

-----------------------------------------------------------------------------

Transfer == \/ Continue
            \/ \E f \in Funcs : Call(f) \/ CallTraps(f) \/ TailCall(f)
            \/ Undefined
            \/ Ret
            \/ Reti

Host == \/ \E f \in Funcs, budget \in 0 .. MaxBudget : Run(f, budget)
        \/ \E f \in Funcs : RunNothing(f)
        \/ \E c \in 0 .. MaxBlock, R \in SUBSET Irqs : HostTick(c, R)
        \/ \E i \in Irqs : HostRaise(i)
        \/ \E a \in Irqs \cup Funcs : Register(a)
        \/ ClearRegistry
        \/ HostReset

EndOfBlock == \E c \in 1 .. MaxBlock, R \in SUBSET Irqs : Block(c, R)

Next == EndOfBlock \/ Escape \/ TickReturns \/ Transfer \/ WriteIE \/ Host

Spec == Init /\ [][Next]_vars

\* The CPU keeps executing whatever the host has started: a block ends (every
\* loop of generated code contains a transfer, hence a tick), the tick's tail
\* runs, and the transfer is made.  Nothing obliges the host to do anything.
Fairness == WF_vars(EndOfBlock) /\ WF_vars(Escape \/ TickReturns)
              /\ WF_vars(Transfer)

FairSpec == Spec /\ Fairness

-----------------------------------------------------------------------------
(* Properties.                                                              *)

HandlerRunning == Handlers # {}

\* A handler that is on the C stack is interrupted by another one only after
\* a routine called by it, or above it, ended in RETI (recomp_rt.c:238-241):
\* neither a RET, nor a trap, nor a write to IE, nor the return of a handler
\* further up lets a second one in (recomp_rt.c:281, :302).
HandlersNestOnlyAfterReti ==
  \A m, n \in Handlers : m < n => m \in released

\* As long as no code goes astray, the emulated SP of running code stands two
\* bytes above where the host entered it for every call and every handler on
\* the C stack, also after handlers were delivered at arbitrary ticks; what
\* the code itself pushes and pops is left out
\* ("game code reads SP", recomp_rt.c:225; "keep SP balanced", :298).
SpTracksCStack ==
  cstack # <<>> /\ ~astray =>
    sp = (base + 2 * Cardinality({n \in DOMAIN cstack :
                                    cstack[n].kind \in {"call", "isr"}}))
           % SPSize

\* A run stops at the first tick after its budget is gone, so it overshoots
\* by less than a block and, if that block let a handler in, the handler's
\* first block (recomp_rt.c:274).
BoundedOvershoot ==
  run_active =>
    left >= - MaxBlock - (IF HandlerRunning THEN MaxBlock ELSE 0)

\* vmu_rt_run answers 0 only for an entry that returned inside its budget,
\* and 1 only once the budget is gone (recomp_rt.c:254-262).
OutcomeIsHonest ==
  [][run_active /\ ~run_active' =>
       (result' = 0 /\ left > 0) \/ (result' = 1 /\ left <= 0)]_vars

\* A requested interrupt stays pending until a handler for it is started or
\* the machine is reset; in particular one that has no handler is put back
\* ("Never consume what you cannot deliver", recomp_rt.c:287-290).
NoLostInterrupt ==
  [][\A i \in pending \ pending' :
       cstack' = Append(cstack, Isr(i)) \/ HostReset]_vars

\* The code below a handler does not move until the handler returns to the
\* tick it was started from, unless the whole run is given up
\* (recomp_rt.h:81-83).
HandlerRunsToCompletion ==
  [][\A n \in DOMAIN cstack :
       cstack[n].kind = "isr" =>
         \/ Len(cstack') >= n /\ SubSeq(cstack', 1, n) = SubSeq(cstack, 1, n)
         \/ cstack' = SubSeq(cstack, 1, n - 1) /\ pc' = "check"
         \/ pc' = "host" /\ result' = 1]_vars

\* A run always ends, also one of firmware whose main loop never returns and
\* however many interrupts it takes (recomp_rt.h:88-91).
RunTerminates == run_active ~> ~run_active

\* The interrupt path implements the abstract one: the most urgent request is
\* served first, none is forgotten, and a handler is started above another
\* one only if that was opened.  A handler's level is its place on the C stack.
Serving == [n \in Handlers |-> cstack[n].irq]

Delivery == INSTANCE IrqDelivery WITH serving <- Serving, open <- released

ImplementsDelivery == Delivery!Spec

\* What recomp_rt.h:90-91 says of the escape: nothing is held across a basic
\* block, so a run that is given up leaves no handler marked as running.
EscapeReleasesHandler == pc = "host" => ~in_isr

\* A request that could be delivered stays undelivered at the end of a tick only
\* behind a more urgent one that has no handler (recomp_rt.c:282-293).
BlockedOnlyByMoreUrgent ==
  [][pc = "code" /\ pc' = "check" =>
       \/ in_isr \/ ~ie
       \/ \A i \in pending' \cap registry :
            \E j \in pending' \ registry : j < i]_vars
=============================================================================
