------------------------------ MODULE Lockstep ------------------------------
(* One program, executed instruction by instruction by the interpreter      *)
(* (step in tools/lc8670recomp/vmurun.c) and by the C the emitter writes    *)
(* (emit_func and emit_insn in emit.c) over the runtime's calls.  The       *)
(* interpreter has a pc and return addresses on the emulated stack; the     *)
(* generated code has a C stack of functions, each laid out in address      *)
(* order, and pushes return addresses that it never reads.  As long as both *)
(* are at the same instruction they do the same to memory, so a branch goes *)
(* the same way in both.  What programs push and pop themselves is left     *)
(* out: a routine that rewrites its return address is beyond generated code *)
(* (vmurun.c:132-134).                                                      *)
EXTENDS Program

CONSTANTS Vectors,     \* where interrupts go, vmu_irq_vector
          MaxDepth,    \* bound: routines and handlers below one another
          MaxPairs     \* bound: return addresses on the emulated stack

ASSUME LockstepConstants ==
  Vectors \subseteq SeedSet /\ MaxDepth \in Nat /\ MaxPairs \in Nat

VARIABLES
  prog,                \* functions: their instructions, by entry
  ipc, istack, iisr,   \* interpreter: pc, emulated stack, in_isr
  frames,              \* generated code: the C stack
  rstack, risr,        \* its emulated stack and in_isr
  over                 \* the comparison has ended

vars == <<rom, prog, ipc, istack, iisr, frames, rstack, risr, over>>

Nowhere == -1          \* what lies behind an empty emulated stack
End == AddrSpace       \* the closing brace of a C function

\* `at` is the instruction a function is at or, below the top of the C stack,
\* the one it continues with.  An `isr` frame was entered by
\* vmu_rt_service_irq, the others by a call.
Frame == [fn : RomAddr, at : RomAddr \cup {End}, isr : BOOLEAN]

TypeOK ==
  /\ IsImage(rom)
  /\ DOMAIN prog \in SUBSET RomAddr
  /\ prog \in [DOMAIN prog -> SUBSET RomAddr]
  /\ ipc \in Addr \cup {Nowhere} /\ istack \in Seq(Addr)
  /\ frames \in Seq(Frame) /\ rstack \in Seq(Addr)
  /\ iisr \in BOOLEAN /\ risr \in BOOLEAN /\ over \in BOOLEAN

Last(s) == s[Len(s)]
Front(s) == SubSeq(s, 1, Len(s) - 1)

\* A function starts with its entry, which need not be its lowest address.
Entered_AtTheTop(e, isr) == [fn |-> e, at |-> Lowest(prog[e]), isr |-> isr]
Entered(e, isr) == [fn |-> e, at |-> e, isr |-> isr]

\* Both engines start at address 0, with nothing on the emulated stack.
Start ==
  /\ \E E \in {Entries} : prog = [e \in E |-> Body(E, e)]
  /\ ipc = 0 /\ istack = <<>> /\ iisr = FALSE
  /\ frames = <<Entered(0, FALSE)>> /\ rstack = <<>> /\ risr = FALSE
  /\ over = FALSE

Init == IsImage(rom) /\ Start

-----------------------------------------------------------------------------
(* The interpreter executes `in`; `taken` says how a branch goes.           *)

GoesToTarget(in, taken) == in.flow = "jump" \/ (in.flow = "branch" /\ taken)

\* A call outside the image traps and returns.
Called(in) == in.flow = "call" /\ InRom(in.target)

Interpret(in, taken) ==
  IF is_ret(in)
  THEN /\ ipc' = IF istack = <<>> THEN Nowhere ELSE Last(istack)
       /\ istack' = IF istack = <<>> THEN istack ELSE Front(istack)
       /\ iisr' = (iisr /\ in.flow # "reti")
  ELSE /\ ipc' = IF GoesToTarget(in, taken) \/ Called(in)
                 THEN in.target ELSE After(ipc, in)
       /\ istack' = IF Called(in) THEN Append(istack, After(ipc, in))
                                  ELSE istack
       /\ UNCHANGED iisr

-----------------------------------------------------------------------------
(* The generated code executes `in`.                                        *)

Top == Last(frames)

\* C falls through to what is emitted next.
Behind(f) ==
  LET later == {a \in prog[f.fn] : a > f.at}
  IN IF later = {} THEN End ELSE Lowest(later)

Resume(a) == [frames EXCEPT ![Len(frames)].at = a]

\* A C function returns; vmu_rt_service_irq then clears in_isr.
CReturn ==
  /\ frames' = Front(frames)
  /\ risr' = (risr /\ ~Top.isr)

\* A jump inside the function is a goto; one to another function is a call
\* through the dispatch table followed by return, and leaves no frame behind
\* that does anything more; any other jump traps and returns.
Jump_ReturnsToCaller(t) ==
  IF t \in prog[Top.fn] THEN frames' = Resume(t) /\ UNCHANGED risr ELSE CReturn
Jump(t) ==
  CASE t \in prog[Top.fn] -> frames' = Resume(t) /\ UNCHANGED risr
    [] t \notin prog[Top.fn] /\ t \in DOMAIN prog ->
         /\ frames' = [frames EXCEPT ![Len(frames)] = Entered(t, Top.isr)]
         /\ UNCHANGED risr
    [] OTHER -> CReturn

\* vmu_rt_call pushes the return address first, then looks for the function.
Call_RetriesCall(in) ==
  /\ rstack' = Append(rstack, After(Top.at, in))
  /\ frames' = IF in.target \in DOMAIN prog
               THEN Append(frames, Entered(in.target, FALSE))
               ELSE Resume(Behind(Top))
  /\ UNCHANGED risr
Call(in) ==
  /\ rstack' = Append(rstack, After(Top.at, in))
  /\ frames' = IF in.target \in DOMAIN prog
               THEN Append(Resume(Behind(Top)), Entered(in.target, FALSE))
               ELSE Resume(Behind(Top))
  /\ UNCHANGED risr

\* vmu_rt_ret and vmu_rt_reti pop a return address nobody looks at.
Return_KeepsPair(in) ==
  /\ rstack' = IF Top.isr \/ rstack = <<>> THEN rstack ELSE Front(rstack)
  /\ frames' = Front(frames)
  /\ risr' = (risr /\ in.flow # "reti" /\ ~Top.isr)
Return_KeepsMask(in) ==
  /\ rstack' = IF rstack = <<>> THEN rstack ELSE Front(rstack)
  /\ frames' = Front(frames)
  /\ risr' = (risr /\ ~Top.isr)
Return(in) ==
  /\ rstack' = IF rstack = <<>> THEN rstack ELSE Front(rstack)
  /\ frames' = Front(frames)
  /\ risr' = (risr /\ in.flow # "reti" /\ ~Top.isr)

Generated(in, taken) ==
  CASE in.flow = "call" -> Call(in)
    [] is_ret(in) -> Return(in)
    [] in.flow = "invalid" -> CReturn /\ UNCHANGED rstack
    [] GoesToTarget(in, taken) -> Jump(in.target) /\ UNCHANGED rstack
    [] OTHER -> frames' = Resume(Behind(Top)) /\ UNCHANGED <<rstack, risr>>

-----------------------------------------------------------------------------

\* Where the two may part: undefined opcodes, and control outside the image.
\* The interpreter goes on behind the one and stops at the other; generated
\* code traps and returns from the function.
Parts(in) == in.flow = "invalid" \/ ~InRom(ipc')

Together == ~over /\ frames # <<>> /\ Top.at = ipc

Insn1(taken) ==
  /\ Together
  /\ LET in == rom[ipc] IN
       /\ in.flow # "branch" => taken
       /\ Called(in) => Len(frames) < MaxDepth
       /\ in.flow = "call" => Len(rstack) < MaxPairs
       /\ Interpret(in, taken)
       /\ Generated(in, taken)
       /\ over' = Parts(in)
  /\ UNCHANGED <<rom, prog>>

\* Both deliver an interrupt before the instruction they are at.  Generated
\* code can do so at some instructions only, those with a tick before them;
\* the interpreter looks every IRQ_CHECK_INTERVAL instructions.
Interrupt(v) ==
  /\ Together /\ ~iisr /\ ~risr /\ Len(frames) < MaxDepth
  /\ v \in DOMAIN prog
  /\ ipc' = v /\ istack' = Append(istack, ipc) /\ iisr' = TRUE
  /\ frames' = Append(frames, Entered(v, TRUE))
  /\ rstack' = Append(rstack, 0) /\ risr' = TRUE
  /\ UNCHANGED <<rom, prog, over>>

Next == (\E taken \in BOOLEAN : Insn1(taken)) \/ (\E v \in Vectors : Interrupt(v))

Spec == Init /\ [][Next]_vars

-----------------------------------------------------------------------------
(* Properties.                                                              *)

\* No two reachable instructions share a byte, and none that falls through
\* ends with the address space.
NoOverlap ==
  LET code == UNION {prog[e] : e \in DOMAIN prog} IN
  \A a \in code :
    /\ \A b \in code : a < b => a + rom[a].len <= b
    /\ FallsThrough(a) => a + rom[a].len < AddrSpace

\* Where instructions do not overlap, generated code executes the instruction
\* the interpreter executes, through every call, tail call, shared tail and
\* interrupt (docs/ARCHITECTURE.md:94-100).
SameInstruction == NoOverlap /\ ~over => frames # <<>> /\ Top.at = ipc

\* And every routine and handler below it will continue where the
\* interpreter's return addresses say, interrupted code included.
SameReturns ==
  NoOverlap /\ ~over =>
    /\ Len(frames) = Len(istack) + 1
    /\ \A i \in 1 .. Len(istack) :
         frames[i].at = IF InRom(istack[i]) THEN istack[i] ELSE End

\* SP is the same in both as long as no call leaves the image.
SameSP ==
  /\ NoOverlap /\ ~over
  /\ \A e \in DOMAIN prog : \A a \in prog[e] :
       Calls(a) => InRom(rom[a].target)
  => Len(rstack) = Len(istack)

\* Generated code never holds back interrupts the interpreter delivers.
MasksNoMore == NoOverlap /\ ~over => (risr => iisr)

\* What vmurun.c:123-127 and CHANGELOG.md:91-94 say of calls that leave the
\* image: both engines do the same, so SP is the same whatever is called.
SameSPAlways == NoOverlap /\ ~over => Len(rstack) = Len(istack)
=============================================================================
