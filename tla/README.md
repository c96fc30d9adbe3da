# A TLA+ model of vmurecomp

vmurecomp translates images of the Dreamcast VMU (an LC8670 micro-controller)
into C, and links that C against a small runtime.  This directory models the
parts of it in which a mistake is hard to see in a test: control flow across
the C stack, interrupts, retired time, the discovery of functions, the
agreement of interpreter and generated code, banks, stack and flags, sound, and
the way of a file through decoder and containers.  Paths
below are relative to the repository's root; line numbers are those of the
modelled commit.

## The system

Two engines run an image.

* **Generated code + runtime.** `tools/lc8670recomp` decodes the image
  (`decode.c`), finds its functions (`analyze.c`) and writes one C function per
  routine (`emit.c`).  The C calls into the runtime for everything: instruction
  semantics, calls, dispatch, time and interrupts (`src/recomp_rt.c`), memory
  and SFRs (`src/mem.c`), timers (`src/timer.c`), audio (`src/audio.c`), display
  (`src/lcd.c`), reset and buttons (`src/cpu.c`).
* **Interpreter.** `tools/lc8670recomp/vmurun.c` decodes and executes one
  instruction at a time over the same runtime; it is the oracle the generated
  code is compared with.

Everything is single-threaded.  What is concurrent is the *emulated* machine:
interrupts are delivered from inside `vmu_rt_tick`, that is, below any C frame
of generated code, and a run can be abandoned from there by `longjmp`.

| Component | State | Operations | Interacts with | Correct when | Hard because |
|---|---|---|---|---|---|
| runtime control (`recomp_rt.c:177-304`) | registry, `run_active`, `run_deadline`, `vmu.in_isr`, `vmu.cycles`, SP, the C stack | register, lookup, dispatch, call, ret, reti, run, tick, service_irq | generated code calls it, it calls handlers and the timers | a run ends within its budget, a handler is interrupted only after a RETI above it, no request is lost, SP follows the C stack | handlers start inside any tick; `longjmp` out of any depth |
| timers and arbiter (`timer.c:1-159`) | counters, prescaler and base accumulators, `pending` | tick, register hooks, take, raise, set_divisor | `vmu_write`/`vmu_read`, `vmu_rt_tick` | requests come when due, however time is cut into calls | remainders carried between calls, several overflows per call, registers written between calls |
| reset, buttons (`cpu.c`) | the whole machine, `buttons` | reset, set_buttons | host | only a press edge wakes the firmware | edges against the last report |
| function discovery (`analyze.c`) | worklist, visited, entries, labels, covered, functions | discover, func_at | reads the decoder; the emitter reads it | exactly the reachable code, split so that every jump can be lowered | cycles, overlaps, shared tails, wrapping addresses |
| emitter (`emit.c`) | owed cycles | emit | discovery, decoder | the C does what the image does | batching of time, address order, fallthrough |
| interpreter (`vmurun.c`) | pc, step counts, press schedule | step, service_irq, main loop | runtime, decoder | same machine as the generated code | real return addresses, its own interrupt delivery |
| decoder (`decode.c`) | none | decode, format | everything | total, never reads past the image | operand layouts, truncated tail |
| instruction semantics (`recomp_rt.c:17-175`) | ACC, B, C, PSW | one per opcode | memory | flags | carries, division by zero |
| memory map (`mem.c`, `timer.c:161-185`) | RAM, XRAM, SFRs, work RAM | read, write, ind, push, pop | timers, LCD, audio | routing, banks, read-only bits | side effects of reads |
| LCD (`lcd.c`) | dirty flag | pixel, frame | memory map | the frame shows XRAM | dirty set by writers, cleared by the reader |
| audio (`audio.c`) | frequency, duty, phase, fraction of a sample, capture, clock and ceiling | reset, retune, tick, set_clock, set_audible_ceiling | register writes retune it, `vmu_rt_tick` renders it | the sound is that of the registers, however time is cut into calls | two fractions carried between calls; three registers retune it |
| container (`vms.c`) | none | parse, unwrap | tools | the same image whichever container | header guesses, word order |
| command line (`main.c`, `vmurun.c`, `host.c`) | the parsed file, the listing's position | parse, dis, recomp, interpret, host | container, decoder, discovery | a listing ends; all tools mean the same image | wrapping position, two ways to read a file |
| names (`sfr.c`), tests | none | - | - | - | tables |

## Modules

| Module | Models | State and actions |
|---|---|---|
| `IrqDelivery` | what the runtime promises about interrupts | `pending`, `serving`, `open`; `Raise`, `Deliver`, `Open`, `Finish`, `Abandon`, `Reset` |
| `VmuRuntime` | `recomp_rt.c` 177-304 with the transfers generated code makes | `cstack` is the C stack of generated functions; one action per C function or exit of it |
| `VmuRuntimeProofs` | theorems about `VmuRuntime` | |
| `Image` | the decoder's answers that control flow depends on | operators |
| `Program` | what discovery has to find: reachable code, functions and their bodies as least closed sets | operators on `rom` |
| `Discovery` | `vmu_discover`, both passes, one worklist step or walked instruction per action | `work`, `pc`, `visited`, `is_entry`, `is_label`, `covered`, `pcs` |
| `DiscoveryProofs` | theorems about `Discovery` | |
| `Timers` | the arithmetic of `timer.c` | operators on a record of counters and a record of registers |
| `VmuTimer` | `timer.c`, `vmu_set_buttons`, the timer part of `vmu_reset` | one action per call from code or host |
| `Audio` | `audio.c` | operators on a record of the buzzer and the record of registers |
| `TimerBatching` | the two engines retiring the same time, each with timers, buzzer and capture | `exact` (interpreter) and `batched`, `owed` (generated code) |
| `TimerLoops` | the loops of `vmu_timer_tick` as written, pass by pass | functions on the number of passes |
| `TimersProofs` | theorems about the operators of `Timers` | |
| `VmuTimerProofs` | theorems about `VmuTimer` and `TimerLoops` | |
| `TimerBatchingProofs` | theorems about `Audio` and `TimerBatching` | |
| `Lockstep` | the interpreter's `step` and the C that `emit.c` writes, executing one program | `ipc`, `istack`, `iisr` against `frames`, `rstack`, `risr`; one instruction or interrupt per action |
| `LockstepProofs` | theorems about `Lockstep` | |
| `Alu` | `do_add` to `vmu_rt_div`, rotates | operators on bytes and carry |
| `AluProperties` | a unit that adds, subtracts and rotates with carry, and what it should compute | `acc`, `cy`, `operand`; one action per instruction |
| `Machine` | `mem.c`, the work RAM port, the instructions over them, `lcd.c`, a host that draws and presses buttons | `m`, a record of memory and registers |
| `MachineProofs` | theorems about `Alu`, `AluProperties` and `Machine` | |
| `Decode` | `decode.c` on real bytes | operators on a byte, an image and an address |
| `VmsImage` | `vms.c` | operators on a file |
| `Loading` | a file in `lc8670recomp`, `vmurun` and `vmuhost` | `file`, `info`, the listing's `pc`, `n`, `insn`; `Parse`, `Dis`, `ListInsn`, `Recomp`, `Interpret`, `Host` |
| `LoadingProofs` | theorems about `Decode`, `VmsImage` and `Loading` | |
| `MC*` | instances for TLC | constants, image enumeration |

### VmuRuntime

`pc` says who runs: the host, a block of generated code (`code`), the tail of
`vmu_rt_tick` (`check`), or the control transfer that ends a block
(`transfer`).  Generated code ticks exactly before a transfer or a label
(`flush_cycles`, emit.c:17-22, 86-90, 227-230), so this is the finest
interleaving there is.  `cstack` holds a frame for every generated function on
the C stack and how it was entered: by `vmu_rt_run` (`entry`), `vmu_rt_call`
(`call`), `vmu_rt_dispatch` in a tail call (`tail`) or `vmu_rt_service_irq`
(`isr`).  A C `return` unwinds through tail frames to the first frame entered
otherwise, and what happens there is the code behind the call in the runtime.
`left` is `run_deadline - vmu.cycles`.  What a block computes is abstracted to
which transfer it makes, which sources the timers raise and whether it writes
IE; pushes and pops of the program itself are left out of `sp`.
`base` and `astray` are history variables for `SpTracksCStack`, and `released`,
the handlers above which a routine has executed RETI, is one for
`HandlersNestOnlyAfterReti`.

Handlers are ordinary generated functions: they tick, call, can be escaped
from, and may end in RETI, RET or a trap.  So may every other function: RETI is
emitted for the opcode wherever it stands (emit.c:177) and clears `in_isr`
whoever runs it (recomp_rt.c:238-241).  In a routine that a handler called, that
leaves the handler on the C stack with its flag gone, and the next tick may
start another handler above it (recomp_rt.c:281); the model has handlers in
handlers to any depth, as `Lockstep` has.  `IrqDelivery` therefore promises that
a handler starts only above handlers that were opened, not that there is one at
a time.

### Image and Discovery

`rom` maps each address of the image to the instruction decoded *there*, so
overlapping instructions are part of the model.  The bytes themselves are not.
An image has any length up to the address space, and `After` wraps.  Each of
`Pop`, `StopWalking`, `WalkInsn1/2`, `StartPass2`, `NextFunction`, `Finish` is a
pass through a loop of `find_entries`, `walk_func` or `vmu_discover`.
`OutOfMemory` may happen at any point (every allocation failure leads to the
same cleanup).  `pcs[e]` is a set: the code sorts the array it stands for.

### Timers, VmuTimer, Audio, TimerBatching

The loops of `vmu_timer_tick` are divisions in `Timers`: `Stepped` and
`Overflows` say what n calls of `step_reload` do to a counter, the accumulators
keep a remainder.  `TimerLoops` has the loops as written and `TickIsTheLoops`
compares them in every reachable state.  Sums of cycles are natural numbers:
the code's 32-bit accumulators hold less than a period plus one call's cycles.

`TimerBatching` steps one program through both engines.  The interpreter
executes an instruction and retires its cycles; generated code adds them to
`owed` and retires them before the next transfer or label.  A read of a timer
inside a block sees counters that lag by `owed`; the code accepts this
(emit.c:8-11).  A register *written* while time is owed is where the two part
for good (`midBlock`), and where the comparison ends.

`Audio` counts the code's doubles in units of 1/`Unit`, chosen so that every
quotient is whole: rounding is left out, carrying a fraction of a sample and of
a period is not.  A sample is `high`, `low` or a `rest`.  `TimerBatching` keeps
of the two captures what only one of them has: the interpreter has rendered up
to now, generated code up to the last flush, so after every flush both are
empty.  A program is the set of register writes it makes (`Sessions`), together
with the clock and the ceiling its host has set.

### Lockstep

The interpreter returns to addresses it finds on the emulated stack.  Generated
code returns through the C stack and only keeps SP in step.  `Lockstep` runs
both on the same program with the same interrupts and compares them before
every instruction.  The functions are those of `Program`, which `discovery`
shows `vmu_discover` to compute.  A frame of the C stack is the function it
runs and the instruction it is at, or will continue with; a C function's
instructions are laid out in address order (`Behind`), entered through the
`goto` to its entry (`Entered`), left for another function by a dispatch
followed by `return` (`Jump`; the frame that remains does nothing more, so a
tail call replaces it).  How a branch goes is chosen once for both: as long as
they execute the same instructions on the same memory it goes the same way.
What a program pushes and pops itself is left out.  Code that edits its own
return address is where the engines are known to differ (vmurun.c:132-134).

The comparison ends (`over`) where the engines part by design: at an undefined
opcode, which the interpreter steps over and generated code returns from, and
where control leaves the image, which stops the interpreter.  `NoOverlap` is
the properties' precondition: where two reachable instructions share bytes, the
C of the lower one falls through into the other.

### Machine and Alu

A read of memory may change state (PSW, VTRBF), so an access is two operators,
`Value` and `Touched`.  Each instruction is one action with both accesses
read-modify-write instructions make, so that `INC` of VTRBF reads one byte and
writes the next.  `Alu` is parameterised by the values of half a byte.  `live`
(what was pushed and not popped) and `shown` (what the host drew last) are
history variables.  What the host draws is translated from `vmu_lcd_frame`, dot
by dot; `ScreenIsFresh` reads it back from the side of the bytes, as lcd.h lays
them out.  A reset clears XRAM without setting the dirty flag, so the
model's host forgets what it has shown at a reset.

### Decode, VmsImage, Loading

A file is its size, the byte that fills it, and the bytes that differ.  That
keeps the sizes real - the address space is 65536 bytes, a header is at 0 or
512, a block has 512 bytes - and the files small.  `Decode` translates
`classify` and `vmu_decode` byte by byte; `VmsImage` does header detection and
the unwrapping of `.dci` files.  `Loading` is what the three tools do with a
file; each begins with `vms_parse`, except `vmuhost`, which does not parse.

What they are checked against is written from the other side: `Assembled` is the
assembler for the table at the top of decode.c (and docs/CPU.md), `InDci` the
encoder for the container vms.h and RECOMPILER.md describe.  `Graph` is the
module `Image` on what the decoder answered, and `DecodesToAnImage` says that
what `Discovery` and `Lockstep` take for granted of an image is what the decoder
delivers.

## Runs

| Run | Question | Bounds |
|---|---|---|
| `runtime` | type, `HandlersNestOnlyAfterReti`, `SpTracksCStack`, `BoundedOvershoot`, `OutcomeIsHonest`, `NoLostInterrupt`, `BlockedOnlyByMoreUrgent`, `HandlerRunsToCompletion`, `RunTerminates`, and refinement of `IrqDelivery` | two sources, one ordinary function, depth 3, blocks of 1-2 cycles, budgets 0-3, SP of 8 values so that it wraps |
| `runtime_escape` | does an abandoned run leave the machine fit for the next? **No** | same |
| `discovery` | both passes end and compute the least sets closed under control flow; every jump can be lowered | all images of 1-4 bytes in an address space of 5 and images of 5 bytes that wrap |
| `timer` | cadence, batching, loops = divisions | counters of 3 values, both T0 modes, two reload values, one concern (T0, T1 + base, outside requests) at a time |
| `timer_long` | is long mode one 16-bit counter? **No** | same |
| `batching` | do the engines agree about timers and sound at every flush, and is the buzzer always in tune with the registers? | counters of 3 values, 2 samples and 3 or 4 cycles a second, blocks of up to 3 cycles |
| `lockstep` | do both engines execute the same instruction, return to the same place, keep the same SP? | images of 1-4 bytes, depth 3, 3 return addresses, interrupts at any instruction |
| `lockstep_calls` | also where a call leaves the image? **No**: SP differs | same |
| `machine` | banks, stack, P, dirty flag under any instructions | 16 bytes of RAM per bank, 6 of XRAM (two pairs of lines and their gaps), 4 of work RAM, 4 of ROM; one concern (stack, display, port, input, flags) at a time |
| `alu` | flags, numbers of two bytes, DIV after MUL, rotates | all pairs of bytes and carries; five boundary values for the further bytes |
| `loading` | does the decoder say all that the bytes say, and what discovery relies on? Is the container invisible? Does a listing end? | every opcode with operands at the edges of a byte, at the start, at the ends of a segment and of 64 KB; files of five sizes with and without headers |
| `loading_host` | does the host run with the image the code was generated from? **No** | same |

Why the bounds are enough.  In the runtime two sources show priority and
head-of-line blocking, depth 3 lets a handler call and tail-call above an
interrupted call and, since it bounds calls and not handlers, lets handlers pile
up three high once routines they call end in RETI; and budgets smaller and larger than a block put the deadline
into every position relative to a handler's start.  Discovery's interesting
cases - a loop, an overlap, two entries sharing a tail, a jump onto an entry
reached by falling through, a target outside - all fit into four bytes, and
every image of that size is tried.  The counters wrap and reload within three
values, the prescaler has periods 1 and 3, and the looked-ahead time covers
the reload periods of single counters with the fast prescaler; longer periods
are covered step by step, because accumulators start in any reachable state.
In `lockstep` four instructions are enough for a function entered above its
lowest address, a tail shared by two functions, a tail call inside a handler
and a call behind a gap.  In `machine` RAM is small because only equality of
addresses matters, and lines are one byte long because only the step from line
to line, from pair to pair and from half to half can go wrong.
In `batching` a second of 3 or 4 cycles has 2 samples, so that most calls leave
a fraction of a sample behind; periods of 1 to 3 cycles make the phase wrap
inside a block, with duty and without; and pitches lie below, at and above the
ceiling.  In `loading` an instruction is decoded from its
own three bytes, its address and the image's end only: every opcode meets every
edge of its operands and every way to be cut off.  A listing of everything is
followed for at most 4 bytes (`MaxListing`), which from 65534 is past the end of
the address space; images that begin with each opcode and with each kind of
header byte are read as images, `.dci` of both kinds and plain dumps.

Deadlock checking is off where the program ends (discovery is done, the
comparison of engines is over, a tool has done its work).

### Fairness

`VmuRuntime` assumes weak fairness of the running code: a block ends (every loop
of generated code contains a transfer and hence a tick), the tail of a tick
runs, a transfer is made.  That is what a CPU executing C does.  Nothing is
assumed of the host or of interrupts.  `Discovery` assumes that the one thread
that runs it keeps running, `Loading` assumes it of the
listing loop.  The other modules have no liveness properties.

## What the runs found

* A budget that runs out inside a handler leaves `in_isr` set; no later run
  gets an interrupt (`EscapeReleasesHandler`, recomp_rt.c:274 against
  recomp_rt.h:90-91).
* In long mode T0L reloads at each carry, so T0H:T0L is not one 16-bit counter
  (`LongModeIsOneCounter`, timer.c:107 against :18).
* A call that leaves the image leaves a return address on the stack in generated
  code and none in the interpreter (`SameSPAlways`, recomp_rt.c:227 against
  vmurun.c:124-125 and CHANGELOG.md:93-94).
* `vmuhost` gives the file itself to `vmu_reset` (host.c:67) where the code was
  generated from the unwrapped image (main.c:9): with a `.dci` they differ, and
  host.c:46-47 wants the ROM the generated code was built from
  (`HostSeesTheSameRom`).

Seen in the models, and stated there as what remains true:

* vmu_rt_service_irq is said to be guarded against re-entry while a handler runs
  (recomp_rt.c:270-271), but the guard is `in_isr` (recomp_rt.c:281), which RETI in
  a routine of the handler lifts (recomp_rt.c:240).
  `HandlersNestOnlyAfterReti` says that nothing else does.
* A pending source without a handler blocks all less urgent ones, though
  recomp_rt.h:111-112 promises to deliver if a source is pending
  (recomp_rt.c:286).  `BlockedOnlyByMoreUrgent` says that nothing else does.
* IE0 and IE1 gate nothing: timer.c:60 lets INT0 and INT1 through whenever
  IE bit 7 is set, though timer.c:56 names them after the bits.
* Turning the clock or ceiling knob does not retune; the new value counts from
  the next register write on (audio.c, audio.h:31-34).

Seen while reading:

* `vmu_func_at` (analyze.c:241) finds a function by its entry only, though
  analyze.h:52 says "containing".
* A duty of full scale, silence in audio.h:4-5, cannot be reached: the compare
  register is a byte, so the duty is at most (255-r)/(256-r).
* Zeros are a plausible header, so a data file of at least 640 bytes with zeros
  at 0x200 is accepted as a game; vms.h:11 says data files are rejected.
* `vms_crc` does not leave out its own field, which vms.h:54-55 says it does.
  No tool calls it.
* `a12` takes the segment of the next instruction (decode.c:197-200): a JMP in
  the last two bytes of a segment lands in the next one.
* A plain dump of 512k + 32 bytes that begins with 0xCC or 0x33 is unwrapped.
* `dis` of an image longer than 64 KB lists wrapped addresses for the rest.

## Proofs

Every safety property of a passing run is stated by a theorem, for every value
of the constants; what stays with TLC is liveness, and of that the part that
is safety - a count of what is left, which every step lowers - is proved.  Every
assumption on a constant is named in the module that declares it, and TLC
evaluates it in the runs.  `[]` stands for a theorem `Spec => []P`; the action
properties (`OutcomeIsHonest`, `NoLostInterrupt`, `BlockedOnlyByMoreUrgent`,
`HandlerRunsToCompletion`, `ParityIsReadOnly`, `BanksAreSeparate`) and the refinement are proved as they stand.

A fact that needs an induction over the naturals - the lowest entry, the n-th
pass of a loop - is proved by its least counterexample: the naturals are
well-founded, and the set of counterexamples has a least element.

### VmuRuntimeProofs

For any number of sources, any functions, any depth, budget and block length
and any SP width of at least 4 (`RuntimeConstants`):

* `TypeCorrect`, `NestingNeedsReti`, `Overshoot`, `SpTracks`: `[]` of `TypeOK`,
  `HandlersNestOnlyAfterReti`, `BoundedOvershoot`, `SpTracksCStack`;
* `HonestOutcome`, `NothingLost`, `BlockedOnly`, `RunsToCompletion`: the four
  action properties;
* `Refinement`: `Spec => ImplementsDelivery`, step by step;
* `RunsAreBounded`: while a run goes on, `RunLeft` is a natural number and every
  step but a write to IE lowers it.

All rest on the invariant `IInv`.  None of the properties is inductive.  That
handlers nest only after RETI follows from a statement about `in_isr` and *all*
handlers on the C stack (`HandlerMarked`): while it is clear, each of them has
been released, and while it is set, at most the innermost has not.  A return can
clear it in two ways: it ends the innermost handler, below which all are
released, or it is a RETI further up, which releases all that remain.  Which of
the two it is depends on the frame the return ends at - hence `StackShape`, which
says where entry frames can be and that the bottom frame is not a tail call, so
that a return ends somewhere.

The overshoot needs `BudgetLeft`, which says for each point of control how far
past the deadline it can be.  A transfer is reached only with budget left, so a
block starts past the deadline only as the first block of a handler; and that
block cannot be interrupted, so it is one handler's slack however many are on
the C stack.  SP needs the same fact frame by frame; unwinding removes tail
frames, which hold no bytes, and one other frame, which holds two, and all of it
modulo the width of SP.

`RunLeft` counts three steps for every cycle left: a block, the tail of its tick
and the transfer behind it.  A handler's return adds a tail, that of the tick
which started it, so every handler on the C stack, those in handlers included,
counts two; the block that started it has paid for them.  As the deadline can be
missed by two blocks (`BoundedOvershoot`), two blocks' cycles are added.  A run
with a budget of b therefore makes at most 3 (b + 2 `MaxBlock`) steps besides
writes to IE, however many interrupts it takes.

### DiscoveryProofs

For every image, address space and list of seeds that contains 0
(`ImageConstants`, `SeedsAssumption`): `TypeCorrect`, `Reaches`, `EntriesAre`,
`FunctionsAre`, `Lowerable`, `EveryStepCounts`.  What the two passes are compared
with are least sets, and a worklist computes one because of two facts that hold
at every step
(`Pass1`, `Pass2Walk`): what is noted - walked, waiting or about to be walked -
is in every set closed under flow, and what follows from something walked is
noted.  When the list is empty, walked and noted are the same.  `Pass2` adds
that functions are finished in ascending order, so the walk of one leaves the
others alone.  That there are least sets at all is proved from the
intersection of all closed ones (`Program`).

`EveryStepCounts` says that `StepsLeft` is a natural number and every step lowers
it.  An instruction walked pays for the address it notes down, since no address
is walked twice in a walk; and there is one walk in pass 1 and at most one per
byte of the image in pass 2, because functions are taken in ascending order.

### LockstepProofs

For every image and any vectors, depth and number of pairs: `TypeCorrect`,
`StaysTogether`, `ReturnsAlike`, `SameStackPointer`, `NoLongerMasked`,
`DriftsByWildCalls`.  The invariant `Alike` says that a C frame continues where
the return address one level below points, counted from the bottom, *and* that
every frame continues inside the function it runs (`Frames`).  The second half is what makes the first
one survive: the C goes on behind a call in the text of its function, the
interpreter at an address, and the two are the same place only because
functions are closed under flow and no two of their instructions overlap.

`DriftsByWildCalls` says what is left of equal SPs where calls leave the image,
which is the finding of `lockstep_calls`: every such call puts generated code's
SP one pair above the interpreter's, and nothing else changes the difference.
The step that needs an argument is the return, which pops generated code's stack
only if there is something on it: the interpreter's is not empty, or it would
stop, and generated code's is never the shorter one (`DInv`).

### TimersProofs, VmuTimerProofs

For counters of any width and any positive divisors (`TimerConstants`,
`VmuTimerConstants`).  `TickAdds` says that retiring a and then b cycles is
retiring a + b, for every state and every setting of the registers; it rests on
lemmas about reloading counters (`Stepped`, `Overflows` of m + n steps) and about
remainders.  From the type invariant of `VmuTimer` follow `Batches` (any split
of any call), `OnTime` (requests come exactly when due) and `NoDrift` (the next
overflow is a whole number of periods behind).

`TicksAreTheLoops` is `[]` of `TickIsTheLoops`: the three loops of timer.c:80-138,
pass by pass as they are written, leave the counters and requests that the
divisions say, for any number of cycles.  The argument gives a closed form for
what k passes leave (`BaseAfter`, `T0After`, `T1After`: k periods less in the
accumulator, counters `Stepped` k times, the requests of the overflows among k),
proves that one more pass of the code leads from the form of k to that of k + 1,
and that a pass with less than a period left changes nothing, so that the loop
may be said to make more passes than it does.

### TimerBatchingProofs

For any clock, ceiling, sample rate and program (`AudioConstants`,
`BatchingConstants`).  `RetiredAdds` extends `TickAdds` to the buzzer: fractions
of samples and of periods carried between calls make two stretches of sound the
stretch of both.  `Lags` and `InTune` are `[]` of `LagsByTheBlock` and
`PitchFollowsRegisters`.  The invariant is `Together`: the interpreter's engine
is the generated code's after the owed cycles, and *is* the generated code's
when none are owed, which is when a write does the same to both.

### MachineProofs

For memories and displays of any size that SP and VRMAD, which are bytes, can
address (`MachineConstants`; a byte has 256 values, since PSW's flags are bits):
`TypeCorrect`, `PopsMatch`, `Fresh`, `ParityKept`, `BanksApart`.
`PopsWhatWasPushed` is inductive only together with `LiveFits` - what is
remembered of the stack is no more than it holds, or a push would overwrite it
unseen - and `ScreenIsFresh` follows from `ShowsXram`, which says it dot by dot
through `vmu_lcd_pixel`, as the host reads it, instead of by bytes, as lcd.h
describes it.  The step from dots to bytes is arithmetic on the addresses of
lines (`line_base`), pairs and gaps.

Of the unit of `AluProperties`, for bytes of any number of values that is the
square of an even one (`HalfAssumption`): `FlagsTrue` (CY and OV),
`HalfCarryTrue` (AC), `Wide` (two-byte sums and differences), `DivInverse`,
`RotatesTrue`, each from `UnitTypeCorrect`.  The argument for OV: with
`Size = 2h` a byte's sign is `x >= h`, so both sides of the equivalence are the
same case distinction on which of the operands and the wrapped result lie above
`h`.  AC needs that wrapping, which
moves a result by `Half * Half`, leaves its low half alone
(`WrapKeepsLowHalf`).  `Wide` reads `FlagsTrue` twice, with CY as the digit that
is carried; `DivInverse` needs that quotient and remainder are unique.

### LoadingProofs

For any files (`LoadingConstants`: an image has a size, and bytes at the places
below it that differ from its filling; counts are numbers), so for every image,
not for those a run tries:

* `ListedFromTheFile`: `[]` of the invariant, that the image in use is what
  `vms_parse` makes of the file and that what is listed is `vmu_decode` of it at
  a place inside it and inside the address space;
* `DecodingLosesNothing`, `DecodingFeedsDiscovery`, `ContainersAreTransparent`:
  `[]` of `Reassembles`, `DecodesToAnImage`, `DciIsTransparent`;
* `ListingsAreBounded`: every pass of the listing's loop lowers `ToList`, the
  bytes not come to.

None of them follows from the listing's state alone: each step writes a new
instruction, so the invariant has to carry where it was decoded from.  The rest
is about the operators.  `ClassifyForm` says of `classify`, column by column and
row by row of the opcode map, which instructions it gives to an opcode and what
the opcode's bits besides are; from that, `FormFlow` (which are branches, calls,
ends) and `FormOpcode` (the opcode comes back).  Targets come back by three
lemmas on distances modulo 64 K (`AbsoluteBack`, `ShortBack`, `LongBack`), each
with its range: an 11-bit place in a segment, a signed byte, two bytes.  For
containers, a `.dci` moves each byte to its mirror in its word, which undone is
the byte's place again (`PlaceTwice`), so no two bytes meet (`DciPlaceOnce`);
and a file of whole blocks does not have the 32 bytes more that make a `.dci`.

The proofs need operators that say one thing: where the guards of a CASE would
overlap, `VmsImage` and `Loading` ask in the order of the code with IF, since of
two guards that hold TLC takes the first but TLA+ either.

### Only model-checked

`RunTerminates`, `Terminates` and `ListingEnds`, as they are said of fair
behaviours: that *some* step remains possible until the end is ENABLED, and with
fairness out of the prover's reach.  What is proved instead is above
(`RunsAreBounded`, `EveryStepCounts`, `ListingsAreBounded`): the steps cannot go
on for ever.  A write to IE is the exception, since `VmuRuntime` lets a block
make any number of them; that a block ends is the fairness of `EndOfBlock`.

## Not modelled

* `vmu_format`, the register name table, listings and the text of generated C:
  formatting.
* Option and seed parsing, reading and writing of files, the .wav and .pgm
  writers, the header's text fields and `vms_crc`: no state of the machine, and
  no other part depends on them.
* The growth of the capture buffer (on failure samples are dropped) and the
  rounding of doubles in `audio.c`.
* The press schedule of `vmurun`; `VmuTimer` lets buttons change at any time
  (`SetButtons`), which has no property of its own: it would repeat the condition.
* How deep the C stack can get: that is the platform's.
* What a failed allocation leaves: `OutOfMemory` is the one cleanup of
  `vmu_discover`, and no property is about its result.

`TypeOK` of `VmuTimer`, `TimerBatching`, `Discovery`, `Lockstep` and `Machine` is
proved and has no place in a run.

## Plan

1. Done: all modules and runs above, and proofs about every component that has a
   run.
2. Stronger statements where the models have room for them: which writes in the
   middle of a block keep the engines together (`TimerBatching`), and what of
   `SameInstruction` survives an overlap that both engines never reach.
