----------------------------- MODULE Discovery -----------------------------
(* vmu_discover (tools/lc8670recomp/analyze.c): pass 1 walks everything     *)
(* reachable from the seeds and marks call targets as function entries;     *)
(* pass 2 walks each entry again and collects its instructions, turning a   *)
(* jump onto another entry into a tail call.  Both passes are worklists: a  *)
(* stack of addresses, and a walk along fallthroughs from the one on top.   *)
EXTENDS Program

VARIABLES
  phase,       \* "seeds", "pass1", "pass2", "done" or "failed"
  seeded,      \* how many seeds are on the worklist or skipped
  work,        \* the worklist
  pc,          \* where the walk is, or NoPc between two walks
  visited,     \* addresses this pass (pass 2: this function) has walked
  is_entry, is_label, covered,
  pcs,         \* pcs[e]: the instructions of the function entered at e
  entry,       \* pass 2: the function being walked
  reached      \* history: what pass 1 walked

vars == <<rom, phase, seeded, work, pc, visited, is_entry, is_label, covered,
          pcs, entry, reached>>
NoPc == -1

TypeOK ==
  /\ IsImage(rom)
  /\ phase \in {"seeds", "pass1", "pass2", "done", "failed"}
  /\ seeded \in 0 .. Len(Seeds)
  /\ work \in Seq(Addr)
  /\ pc \in Addr \cup {NoPc}
  /\ visited \in SUBSET RomAddr
  /\ is_entry \in SUBSET RomAddr
  /\ is_label \in SUBSET Addr
  /\ covered \in SUBSET RomAddr
  /\ pcs \in [Addr -> SUBSET RomAddr]
  /\ entry \in RomAddr
  /\ reached \in SUBSET RomAddr

Start ==
  /\ phase = "seeds" /\ seeded = 0
  /\ work = <<>> /\ pc = NoPc
  /\ visited = {} /\ is_label = {} /\ covered = {} /\ reached = {}
  /\ is_entry = {}
  /\ pcs = [a \in Addr |-> {}]
  /\ entry = 0

Init == IsImage(rom) /\ Start

Push(x) == work' = Append(work, x)

\* The seeds go onto the worklist; those outside the image are skipped.
TakeSeed ==
  /\ phase = "seeds"
  /\ seeded' = seeded + 1
  /\ LET s == Seeds[seeded + 1] IN
       IF InRom(s) THEN Push(s) /\ is_entry' = is_entry \cup {s}
                   ELSE UNCHANGED <<work, is_entry>>
  /\ phase' = IF seeded' = Len(Seeds) THEN "pass1" ELSE "seeds"
  /\ UNCHANGED <<rom, pc, visited, is_label, covered, pcs, entry, reached>>

-----------------------------------------------------------------------------
(* The walk both passes share.                                              *)

Pop ==
  /\ phase \in {"pass1", "pass2"} /\ pc = NoPc /\ work # <<>>
  /\ pc' = work[Len(work)]
  /\ work' = SubSeq(work, 1, Len(work) - 1)
  /\ UNCHANGED <<rom, seeded, phase, visited, is_entry, is_label, covered, pcs,
                 entry, reached>>

\* The walk leaves the image or meets what it has already walked.
WalkEnds_AtTheEndOnly == pc # NoPc /\ ~InRom(pc)
WalkEnds == pc # NoPc /\ (~InRom(pc) \/ pc \in visited)

StopWalking ==
  /\ phase \in {"pass1", "pass2"} /\ WalkEnds
  /\ pc' = NoPc
  /\ UNCHANGED <<rom, seeded, phase, work, visited, is_entry, is_label,
                 covered, pcs, entry, reached>>

NextPc(in) == IF ends_block(in) THEN NoPc ELSE After(pc, in)

-----------------------------------------------------------------------------
(* Pass 1, find_entries.                                                    *)

\* Call targets outside the image do not become functions.
NewEntries_Jumps(in) ==
  IF has_target(in) /\ InRom(in.target) THEN {in.target} ELSE {}
NewEntries(in) == IF is_call(in) /\ InRom(in.target) THEN {in.target} ELSE {}

\* Jump targets need a label in the generated C.
NewLabels_TakenOnly(in) == IF in.flow = "jump" THEN {in.target} ELSE {}
NewLabels(in) ==
  IF has_target(in) /\ ~is_call(in) THEN {in.target} ELSE {}

\* What pass 1 follows besides the fallthrough.
Follows_NotCalls(in) == has_target(in) /\ ~is_call(in)
Follows(in) == has_target(in) /\ (is_call(in) => InRom(in.target))

WalkInsn1 ==
  /\ phase = "pass1" /\ pc # NoPc /\ ~WalkEnds
  /\ LET in == rom[pc] IN
       /\ visited' = visited \cup {pc}
       /\ is_entry' = is_entry \cup NewEntries(in)
       /\ is_label' = is_label \cup NewLabels(in)
       /\ IF Follows(in) THEN Push(in.target) ELSE UNCHANGED work
       /\ pc' = NextPc(in)
  /\ UNCHANGED <<rom, seeded, phase, covered, pcs, entry, reached>>

\* vmu_discover sorts the entries and walks them in ascending order.
StartFunction(e) ==
  /\ entry' = e /\ work' = <<e>> /\ visited' = {}

StartPass2 ==
  /\ phase = "pass1" /\ pc = NoPc /\ work = <<>>
  /\ phase' = "pass2"
  /\ StartFunction(Lowest(is_entry))
  /\ reached' = visited
  /\ UNCHANGED <<rom, seeded, pc, is_entry, is_label, covered, pcs>>

-----------------------------------------------------------------------------
(* Pass 2, walk_func.                                                       *)

\* A jump onto another function's entry is a tail call, not absorbed.
Absorbs_Everything(in) == has_target(in) /\ ~is_call(in)
Absorbs(in) ==
  /\ has_target(in) /\ ~is_call(in)
  /\ ~(in.target \in is_entry /\ in.target # entry)

WalkInsn2 ==
  /\ phase = "pass2" /\ pc # NoPc /\ ~WalkEnds
  /\ LET in == rom[pc] IN
       /\ visited' = visited \cup {pc}
       /\ pcs' = [pcs EXCEPT ![entry] = @ \cup {pc}]
       /\ covered' = covered \cup {pc}
       /\ is_label' = is_label \cup (IF Absorbs(in) THEN {in.target} ELSE {})
       /\ IF Absorbs(in) THEN Push(in.target) ELSE UNCHANGED work
       /\ pc' = NextPc(in)
  /\ UNCHANGED <<rom, seeded, phase, is_entry, entry, reached>>

NextFunction ==
  LET later == {e \in is_entry : e > entry} IN
  /\ phase = "pass2" /\ pc = NoPc /\ work = <<>> /\ later # {}
  /\ StartFunction(Lowest(later))
  /\ UNCHANGED <<rom, seeded, phase, pc, is_entry, is_label, covered, pcs,
                 reached>>

Finish ==
  /\ phase = "pass2" /\ pc = NoPc /\ work = <<>>
  /\ \A e \in is_entry : e <= entry
  /\ phase' = "done"
  /\ UNCHANGED <<rom, seeded, work, pc, visited, is_entry, is_label, covered,
                 pcs, entry, reached>>

\* An allocation fails: the caller gets -1 and an empty program.
OutOfMemory ==
  /\ phase \in {"seeds", "pass1", "pass2"}
  /\ phase' = "failed"
  /\ is_entry' = {} /\ is_label' = {} /\ covered' = {}
  /\ pcs' = [a \in Addr |-> {}]
  /\ work' = <<>> /\ pc' = NoPc /\ visited' = {} /\ reached' = {}
  /\ UNCHANGED <<rom, seeded, entry>>

Step == \/ TakeSeed
        \/ Pop
        \/ StopWalking
        \/ WalkInsn1
        \/ StartPass2
        \/ WalkInsn2
        \/ NextFunction
        \/ Finish

Next == Step \/ OutOfMemory

Spec == Init /\ [][Next]_vars

\* One thread runs the passes to their end.
FairSpec == Spec /\ WF_vars(Step)

-----------------------------------------------------------------------------
(* Properties.                                                              *)

\* Pass 1 walks exactly what is reachable from the seeds, whatever cycles,
\* overlaps and wild targets the image has.
ReachesExactly == phase = "done" => reached = Reached

\* The functions are the seeds inside the image and the call targets inside
\* it that some reachable instruction calls (analyze.c:97-102).
EntriesExact == phase = "done" => is_entry = Entries

\* A function has the least set of instructions that holds its entry, the
\* instruction behind every one that falls through, and every jump target
\* that is not another function's entry.
FunctionsExact ==
  phase = "done" =>
    \A E \in {Entries} : \A e \in Addr :
      pcs[e] = IF e \in E THEN Body(E, e) ELSE {}

\* The emitter can lower every jump: inside the function it has a label to go
\* to, outside it has a registered function to dispatch to, or it leaves the
\* image and traps (emit.c:94-104, 227-230).
JumpsCanBeLowered ==
  phase = "done" =>
    \A e \in is_entry : \A a \in pcs[e] :
      Jumps(a) => LET t == rom[a].target IN
                    \/ t \in pcs[e] /\ t \in is_label
                    \/ t \notin pcs[e] /\ (t \in is_entry \/ ~InRom(t))

\* Both passes end, on every image.
Terminates == <>(phase \in {"done", "failed"})
=============================================================================
