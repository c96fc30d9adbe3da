-------------------------- MODULE DiscoveryProofs --------------------------
(* Proofs about Discovery, for every image, every address space and every   *)
(* list of seeds: when the worklists run empty, what they have walked is    *)
(* the least set Program defines, in pass 1 and for every function.         *)
EXTENDS Discovery, SequenceTheorems, FiniteSetTheorems, WellFoundedInduction,
        TLAPS

-----------------------------------------------------------------------------
(* The inductive invariant.  A worklist is right because of two things that *)
(* hold at every step: whatever it has noted down must be in every set that *)
(* is closed under flow, and whatever follows from what it has walked is    *)
(* noted down.                                                              *)

Waiting(w) == {w[i] : i \in 1 .. Len(w)}
Noted == visited \cup Waiting(work) \cup {pc}

\* What follows from a is in S, as pass 1 sees it and as pass 2 does.
FlowsIn(a, S) ==
  /\ FallsThrough(a) /\ InRom(NextOf(a)) => NextOf(a) \in S
  /\ has_target(rom[a]) /\ InRom(rom[a].target) => rom[a].target \in S

FlowsInFunction(E, e, a, S) ==
  /\ FallsThrough(a) /\ InRom(NextOf(a)) => NextOf(a) \in S
  /\ Jumps(a) /\ InRom(rom[a].target)
       /\ (rom[a].target \in E => rom[a].target = e)
         => rom[a].target \in S

SeedsTaken == {Seeds[i] : i \in 1 .. seeded} \cap RomAddr

CallTargets(S) ==
  {a \in RomAddr : \E c \in S : Calls(c) /\ rom[c].target = a}

Labelled(S) == \A a \in S : Jumps(a) => rom[a].target \in is_label

Phases ==
  /\ phase = "seeds" => seeded < Len(Seeds) /\ pc = NoPc
  /\ phase \in {"pass1", "pass2", "done"} => seeded = Len(Seeds)

Pass1 ==
  phase \in {"seeds", "pass1"} =>
    /\ SeedsTaken \subseteq Noted
    /\ \A a \in visited : FlowsIn(a, Noted)
    /\ \A S \in SUBSET RomAddr :
         ClosedUnderFlow(S) => Noted \cap RomAddr \subseteq S
    /\ is_entry = SeedsTaken \cup CallTargets(visited)
    /\ Labelled(visited)
    /\ \A e \in Addr : pcs[e] = {}

Pass2Walk ==
  phase = "pass2" =>
    /\ entry \in Noted
    /\ \A a \in visited : FlowsInFunction(Entries, entry, a, Noted)
    /\ \A S \in SUBSET RomAddr :
         ClosedInFunction(Entries, entry, S) => Noted \cap RomAddr \subseteq S

\* Functions are walked in ascending order: those below `entry` are complete,
\* those above it untouched.
Pass2 ==
  phase \in {"pass2", "done"} =>
    /\ reached = Reached /\ is_entry = Entries /\ entry \in Entries
    /\ Labelled(reached)
    /\ \A e \in Addr \ Entries : pcs[e] = {}
    /\ \A e \in Entries : e < entry => pcs[e] = Body(Entries, e)
    /\ \A e \in Entries : e > entry => pcs[e] = {} /\ phase = "pass2"
    /\ phase = "pass2" => pcs[entry] = visited
    /\ phase = "done" => pcs[entry] = Body(Entries, entry)

IInv == TypeOK /\ Phases /\ Pass1 /\ Pass2Walk /\ Pass2

-----------------------------------------------------------------------------
(* Facts about images, worklists and least sets.                            *)

\* The image never changes, and with it neither does what it defines.
LEMMA SameImage ==
  ASSUME rom' = rom
  PROVE  /\ Reached' = Reached /\ Entries' = Entries
         /\ \A E, e : Body(E, e)' = Body(E, e)
         /\ RomAddr' = RomAddr /\ IsImage(rom)' = IsImage(rom)
<1>1. Reached' = Reached
  BY DEF Reached, Least, ClosedUnderFlow, RomAddr, FallsThrough, InRom, NextOf
<1>2. Entries' = Entries
  BY <1>1 DEF Entries, RomAddr, Calls
<1>3. \A E, e : Body(E, e)' = Body(E, e)
  BY DEF Body, Least, ClosedInFunction, RomAddr, FallsThrough, InRom, NextOf,
         Jumps
<1>4. RomAddr' = RomAddr /\ IsImage(rom)' = IsImage(rom)
  BY DEF RomAddr
<1> QED BY <1>1, <1>2, <1>3, <1>4

\* Addresses computed from an image are addresses; address 0 is in it.
LEMMA ImageFacts ==
  ASSUME IsImage(rom)
  PROVE  /\ RomAddr \subseteq Addr /\ 0 \in RomAddr /\ RomAddr \subseteq Nat
         /\ NoPc \notin Addr
         /\ \A a \in RomAddr : rom[a].target \in Addr /\ NextOf(a) \in Addr
<1>1. PICK n \in 1 .. AddrSpace : rom \in [0 .. n - 1 -> Insn]
  BY DEF IsImage
<1>2. RomAddr = 0 .. n - 1
  BY <1>1 DEF RomAddr
<1>3. \A a \in RomAddr : rom[a].target \in Addr /\ rom[a].len \in 1 .. 3
  BY <1>1, <1>2 DEF Insn
<1>4. \A a \in RomAddr : NextOf(a) \in Addr
  BY <1>2, <1>3, ImageConstants, SMTT(30) DEF NextOf, After, Addr
<1> QED BY <1>1, <1>2, <1>3, <1>4, ImageConstants DEF Addr, NoPc

\* Pushing an address and popping one.
LEMMA WaitingPush ==
  ASSUME NEW w \in Seq(Addr), NEW x \in Addr
  PROVE  /\ Append(w, x) \in Seq(Addr)
         /\ Waiting(Append(w, x)) = Waiting(w) \cup {x}
<1>1. /\ Append(w, x) \in Seq(Addr) /\ Len(Append(w, x)) = Len(w) + 1
      /\ Len(w) \in Nat /\ Append(w, x)[Len(w) + 1] = x
      /\ \A n \in 1 .. Len(w) : Append(w, x)[n] = w[n]
  OBVIOUS
<1>2. 1 .. Len(w) + 1 = (1 .. Len(w)) \cup {Len(w) + 1}
  BY <1>1
<1> QED BY <1>1, <1>2 DEF Waiting

LEMMA WaitingPop ==
  ASSUME NEW w \in Seq(Addr), w # <<>>
  PROVE  /\ w[Len(w)] \in Addr /\ SubSeq(w, 1, Len(w) - 1) \in Seq(Addr)
         /\ Len(SubSeq(w, 1, Len(w) - 1)) = Len(w) - 1
         /\ Waiting(w) = Waiting(SubSeq(w, 1, Len(w) - 1)) \cup {w[Len(w)]}
<1> DEFINE v == SubSeq(w, 1, Len(w) - 1)
<1>1. Len(w) \in Nat \ {0} /\ \A i \in 1 .. Len(w) : w[i] \in Addr
  BY EmptySeq, ElementOfSeq
<1>2. /\ v \in Seq(Addr) /\ Len(v) = Len(w) - 1
      /\ \A i \in 1 .. Len(w) - 1 : v[i] = w[i]
  <2> DEFINE k == Len(w) - 1
  <2>1. k \in Nat /\ \A i \in 1 .. k : w[i] \in Addr
    BY <1>1
  <2> HIDE DEF k
  <2>2. /\ SubSeq(w, 1, k) \in Seq(Addr) /\ Len(SubSeq(w, 1, k)) = k
        /\ \A i \in 1 .. k : SubSeq(w, 1, k)[i] = w[i]
    BY <2>1, SubSeqProperties
  <2> QED BY <2>2 DEF k
<1> HIDE DEF v
<1>3. 1 .. Len(w) = (1 .. Len(w) - 1) \cup {Len(w)}
  BY <1>1
<1>4. Waiting(w) = Waiting(v) \cup {w[Len(w)]}
  BY <1>1, <1>2, <1>3 DEF Waiting
<1> QED BY <1>1, <1>2, <1>4 DEF v

LEMMA WaitingNone == Waiting(<<>>) = {}
BY DEF Waiting

LEMMA WaitingOne == ASSUME NEW x PROVE Waiting(<<x>>) = {x}
BY DEF Waiting

\* A non-empty set of addresses has a lowest one.
LEMMA LowestIn ==
  ASSUME NEW P \in SUBSET Nat, P # {}
  PROVE  Lowest(P) \in P /\ \A j \in P : Lowest(P) <= j
<1> DEFINE R == OpToRel(<, Nat)
<1>1. \E i \in P : \A j \in P : <<j, i>> \notin R
  <2> HIDE DEF R
  <2>1. IsWellFoundedOn(R, Nat)
    BY NatLessThanWellFounded DEF R
  <2> QED BY <2>1, WFMin
<1>2. \A i, j \in P : <<j, i>> \notin R => i <= j
  BY DEF OpToRel
<1>3. \E i \in P : \A j \in P : i <= j
  BY <1>1, <1>2
<1> QED BY <1>3 DEF Lowest

\* A closed set that is contained in every closed set is the least one.
LEMMA ReachedIs ==
  ASSUME NEW V \in SUBSET RomAddr, ClosedUnderFlow(V),
         \A S \in SUBSET RomAddr : ClosedUnderFlow(S) => V \subseteq S
  PROVE  Reached = V
BY DEF Reached, Least

LEMMA BodyIs ==
  ASSUME NEW E, NEW e, NEW V \in SUBSET RomAddr, ClosedInFunction(E, e, V),
         \A S \in SUBSET RomAddr : ClosedInFunction(E, e, S) => V \subseteq S
  PROVE  Body(E, e) = V
BY DEF Body, Least

-----------------------------------------------------------------------------
(* Every step preserves the invariant.                                      *)

\* There is always a function to begin pass 2 with.
LEMMA SomeEntry ==
  ASSUME IInv, phase = "pass1"
  PROVE  0 \in is_entry
<1>1. SeedsTaken = SeedSet \cap RomAddr
  BY DEF IInv, Phases, SeedsTaken, SeedSet
<1>2. 0 \in SeedSet /\ 0 \in RomAddr
  BY SeedsAssumption, ImageFacts DEF IInv, TypeOK, SeedSet
<1> QED BY <1>1, <1>2 DEF IInv, Pass1

\* The functions pass 2 goes to are entries.
LEMMA NextEntryIn ==
  ASSUME IInv
  PROVE  /\ phase = "pass1" => /\ Lowest(is_entry) \in is_entry
                               /\ \A e \in is_entry : Lowest(is_entry) <= e
         /\ LET later == {e \in is_entry : e > entry} IN
              later # {} => /\ Lowest(later) \in later
                            /\ \A e \in later : Lowest(later) <= e
<1>1. is_entry \subseteq Nat
  BY ImageFacts DEF IInv, TypeOK
<1>2. phase = "pass1" => is_entry # {}
  BY SomeEntry
<1> QED BY <1>1, <1>2, LowestIn

LEMMA InitIInv == Init => IInv
<1> SUFFICES ASSUME Init PROVE IInv
  OBVIOUS
<1>1. RomAddr \subseteq Addr /\ 0 \in RomAddr /\ NoPc \notin Addr
  BY ImageFacts DEF Init
<1>2. 0 < Len(Seeds) /\ Len(Seeds) \in Nat
  BY SeedsAssumption
<1>3. TypeOK
  BY <1>1, <1>2, EmptySeq DEF Init, Start, TypeOK
<1>4. SeedsTaken = {} /\ Noted = {NoPc} /\ CallTargets(visited) = {}
  BY <1>1, <1>2, WaitingNone
     DEF Init, Start, SeedsTaken, Noted, CallTargets
<1>5. Phases /\ Pass1 /\ Pass2Walk /\ Pass2
  BY <1>1, <1>2, <1>4
     DEF Init, Start, Phases, Pass1, Pass2Walk, Pass2, Labelled
<1> QED BY <1>3, <1>5 DEF IInv

LEMMA NextTypes ==
  ASSUME IInv, [Next]_vars
  PROVE  TypeOK'
<1> USE DEF IInv, TypeOK
<1>1. /\ RomAddr \subseteq Addr
      /\ \A a \in RomAddr : rom[a].target \in Addr /\ NextOf(a) \in Addr
  BY ImageFacts
<1>2. rom' = rom
  BY DEF Next, Step, vars, TakeSeed, Pop, StopWalking, WalkInsn1, StartPass2,
         WalkInsn2, NextFunction, Finish, OutOfMemory
<1>3. RomAddr' = RomAddr /\ IsImage(rom)'
  BY <1>2, SameImage
<1>4. CASE TakeSeed
  <2>1. seeded < Len(Seeds) /\ Len(Seeds) \in Nat
    BY <1>4, SeedsAssumption DEF TakeSeed, Phases
  <2>2. seeded + 1 \in 1 .. Len(Seeds) /\ Seeds[seeded + 1] \in Addr
    BY <2>1, SeedsAssumption, ElementOfSeq
  <2>3. work' \in Seq(Addr) /\ is_entry' \in SUBSET RomAddr
    BY <1>4, <2>2, WaitingPush DEF TakeSeed, Push, InRom
  <2>4. phase' \in {"seeds", "pass1"}
    BY <1>4 DEF TakeSeed
  <2> QED BY <1>2, <1>3, <1>4, <2>1, <2>3, <2>4 DEF TakeSeed
<1>5. CASE Pop
  BY <1>2, <1>3, <1>5, WaitingPop DEF Pop
<1>6. CASE StopWalking
  BY <1>2, <1>3, <1>6 DEF StopWalking
<1>7. ASSUME WalkInsn1 \/ WalkInsn2
      PROVE  /\ pc \in RomAddr /\ pc' \in Addr \cup {NoPc}
             /\ work' \in Seq(Addr)
  <2>1. pc \in RomAddr
    BY <1>7 DEF WalkInsn1, WalkInsn2, WalkEnds, InRom
  <2>2. pc' = NextPc(rom[pc])
    BY <1>7 DEF WalkInsn1, WalkInsn2
  <2>3. pc' \in Addr \cup {NoPc}
    BY <1>1, <2>1, <2>2 DEF NextPc, NextOf
  <2>4. work' = work \/ work' = Append(work, rom[pc].target)
    BY <1>7 DEF WalkInsn1, WalkInsn2, Push
  <2> QED BY <1>1, <2>1, <2>3, <2>4, WaitingPush
<1>8. CASE WalkInsn1
  <2>1. is_entry' \in SUBSET RomAddr
    BY <1>8 DEF WalkInsn1, NewEntries, InRom
  <2>2. is_label' \in SUBSET Addr
    BY <1>1, <1>7, <1>8 DEF WalkInsn1, NewLabels
  <2> QED BY <1>2, <1>3, <1>7, <1>8, <2>1, <2>2 DEF WalkInsn1
<1>9. CASE WalkInsn2
  <2>1. is_label' \in SUBSET Addr
    BY <1>1, <1>7, <1>9 DEF WalkInsn2
  <2>2. pcs' \in [Addr -> SUBSET RomAddr]
    BY <1>7, <1>9 DEF WalkInsn2
  <2> QED BY <1>2, <1>3, <1>7, <1>9, <2>1, <2>2 DEF WalkInsn2
<1>10. CASE StartPass2
  <2>1. entry' \in RomAddr
    BY <1>10, NextEntryIn DEF StartPass2, StartFunction
  <2>2. work' \in Seq(Addr)
    BY <1>1, <1>10, <2>1 DEF StartPass2, StartFunction
  <2> QED BY <1>2, <1>3, <1>10, <2>1, <2>2 DEF StartPass2, StartFunction
<1>11. CASE NextFunction
  <2>1. entry' \in RomAddr
    BY <1>11, NextEntryIn DEF NextFunction, StartFunction
  <2>2. work' \in Seq(Addr)
    BY <1>1, <1>11, <2>1 DEF NextFunction, StartFunction
  <2> QED BY <1>2, <1>3, <1>11, <2>1, <2>2 DEF NextFunction, StartFunction
<1>12. CASE Finish
  BY <1>2, <1>3, <1>12 DEF Finish
<1>13. CASE OutOfMemory
  BY <1>2, <1>3, <1>13, EmptySeq DEF OutOfMemory
<1>14. CASE UNCHANGED vars
  BY <1>2, <1>3, <1>14 DEF vars
<1> QED BY <1>4, <1>5, <1>6, <1>8, <1>9, <1>10, <1>11, <1>12, <1>13, <1>14
        DEF Next, Step

\* What flows into a set flows into a larger one.
LEMMA FlowsInLarger ==
  ASSUME NEW a, NEW S, NEW T, S \cap RomAddr \subseteq T
  PROVE  /\ FlowsIn(a, S) => FlowsIn(a, T)
         /\ \A E, e : FlowsInFunction(E, e, a, S) => FlowsInFunction(E, e, a, T)
BY DEF FlowsIn, FlowsInFunction, InRom

\* Taking an address off the worklist, and stopping at one that was walked or
\* is not in the image, lose nothing of what is noted down.
LEMMA NothingForgotten ==
  ASSUME IInv, Pop \/ StopWalking
  PROVE  Noted' \cap RomAddr = Noted \cap RomAddr
<1>1. NoPc \notin RomAddr
  BY ImageFacts DEF IInv, TypeOK
<1>2. CASE Pop
  BY <1>1, <1>2, WaitingPop DEF Pop, Noted, IInv, TypeOK
<1>3. CASE StopWalking
  BY <1>1, <1>3 DEF StopWalking, WalkEnds, InRom, Noted
<1> QED BY <1>2, <1>3

\* The parts of Pass1 and Pass2Walk after a step, said of the image before it.
LEMMA Pass1After ==
  ASSUME rom' = rom,
         SeedsTaken' \subseteq Noted',
         \A a \in visited' : FlowsIn(a, Noted'),
         \A S \in SUBSET RomAddr :
           ClosedUnderFlow(S) => Noted' \cap RomAddr \subseteq S,
         is_entry' = SeedsTaken' \cup CallTargets(visited'),
         \A a \in visited' : Jumps(a) => rom[a].target \in is_label',
         \A e \in Addr : pcs'[e] = {}
  PROVE  Pass1'
<1>1. \A a \in visited' : FlowsIn(a, Noted)'
  BY DEF FlowsIn, FallsThrough, InRom, NextOf, RomAddr
<1>2. \A S \in SUBSET RomAddr' :
        ClosedUnderFlow(S)' => Noted' \cap RomAddr' \subseteq S
  BY DEF ClosedUnderFlow, FallsThrough, InRom, NextOf, RomAddr
<1>3. CallTargets(visited)' = CallTargets(visited')
  BY DEF CallTargets, RomAddr, Calls
<1>4. Labelled(visited)'
  BY DEF Labelled, Jumps
<1> QED BY <1>1, <1>2, <1>3, <1>4 DEF Pass1

LEMMA Pass2WalkAfter ==
  ASSUME rom' = rom,
         entry' \in Noted',
         \A a \in visited' : FlowsInFunction(Entries, entry', a, Noted'),
         \A S \in SUBSET RomAddr :
           ClosedInFunction(Entries, entry', S) => Noted' \cap RomAddr \subseteq S
  PROVE  Pass2Walk'
<1>1. Entries' = Entries
  BY SameImage
<1>2. \A a \in visited' : FlowsInFunction(Entries, entry, a, Noted)'
  BY <1>1 DEF FlowsInFunction, FallsThrough, InRom, NextOf, RomAddr, Jumps
<1>3. \A S \in SUBSET RomAddr' :
        ClosedInFunction(Entries, entry, S)' => Noted' \cap RomAddr' \subseteq S
  BY <1>1 DEF ClosedInFunction, FallsThrough, InRom, NextOf, RomAddr, Jumps
<1> QED BY <1>2, <1>3 DEF Pass2Walk

\* A seed is noted down and is a function.
LEMMA SeedPass1 ==
  ASSUME IInv, TakeSeed
  PROVE  Pass1'
<1> DEFINE s == Seeds[seeded + 1]
<1>1. /\ seeded \in Nat /\ seeded < Len(Seeds) /\ Len(Seeds) \in Nat
      /\ pc = NoPc /\ pc' = NoPc /\ rom' = rom /\ seeded' = seeded + 1
      /\ UNCHANGED <<visited, is_label, pcs>>
  BY SeedsAssumption DEF TakeSeed, IInv, TypeOK, Phases
<1>2. s \in Addr /\ s \in SeedSet
  BY <1>1, SeedsAssumption, ElementOfSeq DEF SeedSet
<1>3. SeedsTaken' = SeedsTaken \cup ({s} \cap RomAddr)
  <2>1. 1 .. seeded + 1 = (1 .. seeded) \cup {seeded + 1}
    BY <1>1
  <2> QED BY <1>1, <2>1 DEF SeedsTaken, RomAddr
<1>4. Waiting(work') = Waiting(work) \cup ({s} \cap RomAddr)
  <2>1. CASE s \in RomAddr
    <3>1. work' = Append(work, s) /\ work \in Seq(Addr)
      BY <2>1 DEF TakeSeed, Push, InRom, IInv, TypeOK
    <3> QED BY <1>2, <2>1, <3>1, WaitingPush
  <2>2. CASE s \notin RomAddr
    <3>1. work' = work
      BY <2>2 DEF TakeSeed, InRom
    <3> QED BY <2>2, <3>1
  <2> QED BY <2>1, <2>2
<1>5. Noted' = Noted \cup ({s} \cap RomAddr)
  BY <1>1, <1>4 DEF Noted
<1>6. is_entry' = is_entry \cup ({s} \cap RomAddr)
  BY <1>1 DEF TakeSeed, InRom
<1> HIDE DEF s
<1>7. Pass1 /\ phase = "seeds"
  BY DEF TakeSeed, IInv
<1>8. SeedsTaken' \subseteq Noted'
  BY <1>3, <1>5, <1>7 DEF Pass1
<1>9. \A a \in visited' : FlowsIn(a, Noted')
  BY <1>1, <1>5, <1>7, FlowsInLarger DEF Pass1
<1>10. \A S \in SUBSET RomAddr :
         ClosedUnderFlow(S) => Noted' \cap RomAddr \subseteq S
  BY <1>2, <1>5, <1>7 DEF Pass1, ClosedUnderFlow
<1>11. is_entry' = SeedsTaken' \cup CallTargets(visited')
  BY <1>1, <1>3, <1>6, <1>7 DEF Pass1
<1>12. /\ \A a \in visited' : Jumps(a) => rom[a].target \in is_label'
       /\ \A e \in Addr : pcs'[e] = {}
  BY <1>1, <1>7 DEF Pass1, Labelled
<1> QED BY <1>1, <1>8, <1>9, <1>10, <1>11, <1>12, Pass1After

\* The walk goes on behind the instruction at pc.
LEMMA WalksOn ==
  ASSUME IInv, WalkInsn1 \/ WalkInsn2
  PROVE  /\ pc \in RomAddr /\ rom' = rom
         /\ FallsThrough(pc) => pc' = NextOf(pc)
         /\ ~FallsThrough(pc) => pc' = NoPc
         /\ NoPc \notin RomAddr
BY ImageFacts DEF IInv, TypeOK, WalkInsn1, WalkInsn2, WalkEnds, InRom, NextPc,
                  FallsThrough, NextOf

\* Pass 1 notes down all that follows from the instruction it walks.
LEMMA WalkPass1 ==
  ASSUME IInv, WalkInsn1
  PROVE  Pass1'
<1>1. /\ pc \in RomAddr /\ rom' = rom /\ NoPc \notin RomAddr
      /\ FallsThrough(pc) => pc' = NextOf(pc)
      /\ ~FallsThrough(pc) => pc' = NoPc
      /\ visited' = visited \cup {pc} /\ UNCHANGED <<seeded, pcs>>
  BY WalksOn DEF WalkInsn1
<1>2. Pass1 /\ phase = "pass1" /\ work \in Seq(Addr)
  BY DEF WalkInsn1, IInv, TypeOK
<1> DEFINE t == rom[pc].target
           T == {x \in {t} : Follows(rom[pc])}
<1>3. Waiting(work') = Waiting(work) \cup T
  <2>1. CASE Follows(rom[pc])
    <3>1. work' = Append(work, t) /\ t \in Addr
      BY <1>1, <2>1, ImageFacts DEF WalkInsn1, Push, IInv, TypeOK
    <3> QED BY <1>2, <2>1, <3>1, WaitingPush
  <2>2. CASE ~Follows(rom[pc])
    <3>1. work' = work
      BY <2>2 DEF WalkInsn1
    <3> QED BY <2>2, <3>1
  <2> QED BY <2>1, <2>2
<1>4. Noted' = Noted \cup T \cup {pc'}
  BY <1>1, <1>3 DEF Noted
<1>5. FlowsIn(pc, Noted')
  BY <1>1, <1>4 DEF FlowsIn, Follows, is_call
<1>6. \A S \in SUBSET RomAddr :
        ClosedUnderFlow(S) => Noted' \cap RomAddr \subseteq S
  <2> SUFFICES ASSUME NEW S \in SUBSET RomAddr, ClosedUnderFlow(S)
               PROVE  Noted' \cap RomAddr \subseteq S
    OBVIOUS
  <2>1. Noted \cap RomAddr \subseteq S /\ pc \in S
    BY <1>1, <1>2 DEF Pass1, Noted
  <2>2. T \cap RomAddr \subseteq S
    BY <2>1 DEF ClosedUnderFlow, InRom, Follows
  <2>3. {pc'} \cap RomAddr \subseteq S
    BY <1>1, <2>1 DEF ClosedUnderFlow, InRom
  <2> QED BY <1>4, <2>1, <2>2, <2>3
<1>7. SeedsTaken' = SeedsTaken
  BY <1>1 DEF SeedsTaken, RomAddr
<1>8. is_entry' = SeedsTaken' \cup CallTargets(visited')
  <2>1. is_entry' = is_entry \cup NewEntries(rom[pc])
    BY DEF WalkInsn1
  <2>2. CallTargets(visited') = CallTargets(visited) \cup NewEntries(rom[pc])
    BY <1>1 DEF CallTargets, NewEntries, Calls, InRom
  <2> QED BY <1>2, <1>7, <2>1, <2>2 DEF Pass1
<1>9. \A a \in visited' : Jumps(a) => rom[a].target \in is_label'
  BY <1>1, <1>2 DEF Pass1, Labelled, WalkInsn1, NewLabels, Jumps
<1>10. \A a \in visited' : FlowsIn(a, Noted')
  BY <1>1, <1>2, <1>4, <1>5, FlowsInLarger DEF Pass1
<1>11. SeedsTaken' \subseteq Noted' /\ \A e \in Addr : pcs'[e] = {}
  BY <1>1, <1>2, <1>4, <1>7 DEF Pass1
<1> QED BY <1>1, <1>6, <1>8, <1>9, <1>10, <1>11, Pass1After

\* Pass 2 notes down all that follows inside the function, and collects it.
LEMMA WalkPass2 ==
  ASSUME IInv, WalkInsn2
  PROVE  Pass2Walk' /\ Pass2'
<1>1. /\ pc \in RomAddr /\ rom' = rom /\ NoPc \notin RomAddr
      /\ FallsThrough(pc) => pc' = NextOf(pc)
      /\ ~FallsThrough(pc) => pc' = NoPc
      /\ visited' = visited \cup {pc} /\ phase' = "pass2"
      /\ UNCHANGED <<is_entry, entry, reached>>
  BY WalksOn DEF WalkInsn2
<1>2. Pass2Walk /\ Pass2 /\ phase = "pass2" /\ work \in Seq(Addr)
  BY DEF WalkInsn2, IInv, TypeOK
<1>3. is_entry = Entries
  BY <1>2 DEF Pass2
<1> DEFINE t == rom[pc].target
           T == {x \in {t} : Absorbs(rom[pc])}
<1>4. Absorbs(rom[pc]) <=>
        Jumps(pc) /\ (t \in Entries => t = entry)
  BY <1>3 DEF Absorbs, Jumps
<1>5. Waiting(work') = Waiting(work) \cup T
  <2>1. CASE Absorbs(rom[pc])
    <3>1. work' = Append(work, t) /\ t \in Addr
      BY <1>1, <2>1, ImageFacts DEF WalkInsn2, Push, IInv, TypeOK
    <3> QED BY <1>2, <2>1, <3>1, WaitingPush
  <2>2. CASE ~Absorbs(rom[pc])
    <3>1. work' = work
      BY <2>2 DEF WalkInsn2
    <3> QED BY <2>2, <3>1
  <2> QED BY <2>1, <2>2
<1>6. Noted' = Noted \cup T \cup {pc'}
  BY <1>1, <1>5 DEF Noted
<1>7. FlowsInFunction(Entries, entry, pc, Noted')
  BY <1>1, <1>4, <1>6 DEF FlowsInFunction
<1>8. \A S \in SUBSET RomAddr :
        ClosedInFunction(Entries, entry, S) => Noted' \cap RomAddr \subseteq S
  <2> SUFFICES ASSUME NEW S \in SUBSET RomAddr,
                      ClosedInFunction(Entries, entry, S)
               PROVE  Noted' \cap RomAddr \subseteq S
    OBVIOUS
  <2>1. Noted \cap RomAddr \subseteq S /\ pc \in S
    BY <1>1, <1>2 DEF Pass2Walk, Noted
  <2>2. T \cap RomAddr \subseteq S
    BY <1>4, <2>1 DEF ClosedInFunction, InRom
  <2>3. {pc'} \cap RomAddr \subseteq S
    BY <1>1, <2>1 DEF ClosedInFunction, InRom
  <2> QED BY <1>6, <2>1, <2>2, <2>3
<1>9. \A a \in visited' : FlowsInFunction(Entries, entry', a, Noted')
  BY <1>1, <1>2, <1>6, <1>7, FlowsInLarger DEF Pass2Walk
<1>10. Pass2Walk'
  <2>1. entry' \in Noted'
    BY <1>1, <1>2, <1>6 DEF Pass2Walk
  <2>2. \A S \in SUBSET RomAddr :
          ClosedInFunction(Entries, entry', S) => Noted' \cap RomAddr \subseteq S
    BY <1>1, <1>8
  <2> QED BY <1>1, <1>9, <2>1, <2>2, Pass2WalkAfter
<1>11. Pass2'
  <2>1. /\ Reached' = Reached /\ Entries' = Entries
        /\ \A E, e : Body(E, e)' = Body(E, e)
    BY <1>1, SameImage
  <2>2. Labelled(reached)'
    BY <1>1, <1>2 DEF Pass2, Labelled, WalkInsn2, Jumps
  <2>3. pcs' = [pcs EXCEPT ![entry] = pcs[entry] \cup {pc}]
    BY DEF WalkInsn2
  <2>4. pcs \in [Addr -> SUBSET RomAddr] /\ entry \in Addr
    BY ImageFacts DEF IInv, TypeOK
  <2>5. /\ pcs'[entry] = visited'
        /\ \A e \in Addr : e # entry => pcs'[e] = pcs[e]
    BY <1>1, <1>2, <2>3, <2>4 DEF Pass2
  <2>6. Entries \subseteq Addr /\ Entries \subseteq Nat
    BY <1>3, ImageFacts DEF IInv, TypeOK
  <2> QED BY <1>1, <1>2, <2>1, <2>2, <2>5, <2>6 DEF Pass2
<1> QED BY <1>10, <1>11

\* Pass 1 has run out of addresses: what it walked is what can be reached, and
\* what it marked are the functions.
LEMMA Pass1Complete ==
  ASSUME IInv, StartPass2
  PROVE  visited = Reached /\ is_entry = Entries /\ Labelled(Reached)
<1>1. Pass1 /\ Noted \cap RomAddr = visited /\ seeded = Len(Seeds)
  BY WaitingNone, ImageFacts
     DEF StartPass2, Noted, IInv, TypeOK, Phases
<1>2. SeedsTaken = SeedSet \cap RomAddr
  BY <1>1 DEF SeedsTaken, SeedSet
<1>3. ClosedUnderFlow(visited)
  <2>1. SeedSet \cap RomAddr \subseteq visited
    BY <1>1, <1>2 DEF Pass1, StartPass2
  <2>2. \A a \in visited : FlowsIn(a, visited)
    BY <1>1, FlowsInLarger DEF Pass1, StartPass2
  <2> QED BY <2>1, <2>2 DEF ClosedUnderFlow, FlowsIn
<1>4. visited = Reached
  <2>1. visited \in SUBSET RomAddr
    BY DEF IInv, TypeOK
  <2>2. \A S \in SUBSET RomAddr : ClosedUnderFlow(S) => visited \subseteq S
    BY <1>1 DEF Pass1, StartPass2
  <2> QED BY <1>3, <2>1, <2>2, ReachedIs
<1>5. is_entry = Entries
  BY <1>1, <1>2, <1>4 DEF Pass1, StartPass2, Entries, CallTargets
<1> QED BY <1>1, <1>4, <1>5 DEF Pass1, StartPass2

\* Pass 2 has run out of addresses inside a function: it has its instructions.
LEMMA FunctionComplete ==
  ASSUME IInv, phase = "pass2", pc = NoPc, work = <<>>
  PROVE  visited = Body(Entries, entry)
<1>1. Pass2Walk /\ Noted \cap RomAddr = visited
  BY WaitingNone, ImageFacts DEF Noted, IInv, TypeOK
<1>2. visited \in SUBSET RomAddr /\ entry \in RomAddr
  BY DEF IInv, TypeOK
<1>3. \A a \in visited : FlowsInFunction(Entries, entry, a, visited)
  BY <1>1, FlowsInLarger DEF Pass2Walk
<1>4. ClosedInFunction(Entries, entry, visited)
  BY <1>1, <1>2, <1>3 DEF Pass2Walk, ClosedInFunction, FlowsInFunction
<1>5. \A S \in SUBSET RomAddr :
        ClosedInFunction(Entries, entry, S) => visited \subseteq S
  BY <1>1 DEF Pass2Walk
<1> QED BY <1>2, <1>4, <1>5, BodyIs

\* A walk of a function starts with nothing but its entry noted down.
LEMMA StartsWalk ==
  ASSUME IInv, rom' = rom, pc = NoPc, pc' = NoPc, NEW e \in RomAddr,
         StartFunction(e)
  PROVE  Pass2Walk'
<1>1. Noted' = {e, NoPc} /\ NoPc \notin RomAddr /\ visited' = {} /\ entry' = e
  BY WaitingOne, ImageFacts DEF StartFunction, Noted, IInv, TypeOK
<1>2. \A S \in SUBSET RomAddr :
        ClosedInFunction(Entries, entry', S) => Noted' \cap RomAddr \subseteq S
  BY <1>1 DEF ClosedInFunction
<1> QED BY <1>1, <1>2, Pass2WalkAfter

LEMMA StartPass2Inv ==
  ASSUME IInv, StartPass2
  PROVE  Pass2Walk' /\ Pass2'
<1> DEFINE e == Lowest(is_entry)
<1>1. /\ phase = "pass1" /\ phase' = "pass2" /\ rom' = rom
      /\ StartFunction(e) /\ reached' = visited /\ pc = NoPc /\ pc' = NoPc
      /\ UNCHANGED <<is_entry, is_label, pcs>>
  BY DEF StartPass2
<1>2. e \in is_entry /\ \A x \in is_entry : e <= x
  BY <1>1, NextEntryIn
<1>3. is_entry \subseteq RomAddr /\ is_entry \subseteq Nat
  BY ImageFacts DEF IInv, TypeOK
<1> HIDE DEF e
<1>4. Pass2Walk'
  BY <1>1, <1>2, <1>3, StartsWalk
<1>5. visited = Reached /\ is_entry = Entries /\ Labelled(Reached)
  BY Pass1Complete
<1>6. Labelled(reached)' /\ Reached' = Reached /\ Entries' = Entries
  BY <1>1, <1>5, SameImage DEF Labelled, Jumps
<1>7. \A x \in Addr : pcs'[x] = {}
  BY <1>1 DEF IInv, Pass1
<1>8. /\ entry' = e /\ visited' = {} /\ e \in Addr
      /\ \A x \in Entries : ~(x < e)
  BY <1>1, <1>2, <1>3, <1>5, ImageFacts DEF StartFunction, IInv, TypeOK
<1>9. Entries \subseteq Addr
  BY <1>3, <1>5, ImageFacts DEF IInv, TypeOK
<1>10. Pass2'
  BY <1>1, <1>2, <1>5, <1>6, <1>7, <1>8, <1>9 DEF Pass2
<1> QED BY <1>4, <1>10

LEMMA NextFunctionInv ==
  ASSUME IInv, NextFunction
  PROVE  Pass2Walk' /\ Pass2'
<1> DEFINE later == {x \in is_entry : x > entry}
           e == Lowest(later)
<1>1. /\ phase = "pass2" /\ phase' = "pass2" /\ rom' = rom /\ later # {}
      /\ StartFunction(e) /\ pc = NoPc /\ pc' = NoPc /\ work = <<>>
      /\ UNCHANGED <<is_entry, is_label, pcs, reached>>
  BY DEF NextFunction
<1>2. e \in later /\ \A x \in later : e <= x
  BY <1>1, NextEntryIn
<1>3. /\ is_entry \subseteq RomAddr /\ is_entry \subseteq Nat
      /\ is_entry \subseteq Addr /\ Pass2
  BY ImageFacts DEF IInv, TypeOK
<1>4. e \in is_entry /\ e > entry
  BY <1>2
<1>5. \A x \in is_entry : x > entry => e <= x
  BY <1>2
<1> HIDE DEF e, later
<1>6. Pass2Walk'
  BY <1>1, <1>3, <1>4, StartsWalk
<1>7. pcs[entry] = Body(Entries, entry)
  BY <1>1, <1>3, FunctionComplete DEF Pass2
<1>8. /\ Reached' = Reached /\ Entries' = Entries
      /\ \A E, x : Body(E, x)' = Body(E, x)
  BY <1>1, SameImage
<1>9. Labelled(reached)'
  BY <1>1, <1>3 DEF Pass2, Labelled, Jumps
<1>10. is_entry = Entries /\ entry \in Nat /\ entry \in Entries
  BY <1>1, <1>3 DEF Pass2
<1>11. entry' = e /\ visited' = {}
  BY <1>1 DEF StartFunction
<1>12. \A x \in Entries : x < e => pcs[x] = Body(Entries, x)
  <2> SUFFICES ASSUME NEW x \in Entries, x < e
               PROVE  pcs[x] = Body(Entries, x)
    OBVIOUS
  <2>1. x < entry \/ x = entry
    BY <1>3, <1>4, <1>5, <1>10
  <2> QED BY <1>1, <1>3, <1>7, <2>1 DEF Pass2
<1>13. \A x \in Entries : x >= e => pcs[x] = {}
  BY <1>1, <1>3, <1>4, <1>10 DEF Pass2
<1>14. Pass2'
  BY <1>1, <1>3, <1>4, <1>8, <1>9, <1>10, <1>11, <1>12, <1>13 DEF Pass2
<1> QED BY <1>6, <1>14

LEMMA FinishInv ==
  ASSUME IInv, Finish
  PROVE  Pass2'
<1>1. /\ phase = "pass2" /\ phase' = "done" /\ rom' = rom
      /\ pc = NoPc /\ work = <<>> /\ \A e \in is_entry : e <= entry
      /\ UNCHANGED <<is_entry, is_label, pcs, reached, entry>>
  BY DEF Finish
<1>2. Pass2 /\ is_entry \subseteq Nat /\ entry \in Nat
  BY ImageFacts DEF IInv, TypeOK
<1>3. pcs[entry] = Body(Entries, entry)
  BY <1>1, <1>2, FunctionComplete DEF Pass2
<1>4. /\ Reached' = Reached /\ Entries' = Entries
      /\ \A E, x : Body(E, x)' = Body(E, x)
  BY <1>1, SameImage
<1>5. Labelled(reached)'
  BY <1>1, <1>2 DEF Pass2, Labelled, Jumps
<1>6. \A x \in Entries : ~(x > entry)
  <2>1. is_entry = Entries
    BY <1>1, <1>2 DEF Pass2
  <2> SUFFICES ASSUME NEW x \in Entries PROVE ~(x > entry)
    OBVIOUS
  <2>2. x \in Nat /\ x <= entry
    BY <1>1, <1>2, <2>1
  <2> QED BY <1>2, <2>2
<1> QED BY <1>1, <1>2, <1>3, <1>4, <1>5, <1>6 DEF Pass2

\* No step of either pass breaks the invariant.
LEMMA NextIInv ==
  ASSUME IInv, [Next]_vars
  PROVE  IInv'
<1>1. TypeOK'
  BY NextTypes
<1>2. CASE TakeSeed
  <2>1. Phases'
    BY <1>2, SeedsAssumption DEF TakeSeed, IInv, TypeOK, Phases
  <2>2. Pass2Walk' /\ Pass2'
    BY <1>2 DEF TakeSeed, Pass2Walk, Pass2
  <2> QED BY <1>1, <1>2, <2>1, <2>2, SeedPass1 DEF IInv
<1>3. CASE Pop \/ StopWalking
  <2>1. /\ rom' = rom /\ Noted' \cap RomAddr = Noted \cap RomAddr
        /\ phase \in {"pass1", "pass2"} /\ phase' = phase
        /\ UNCHANGED <<seeded, visited, is_entry, is_label, pcs, entry, reached>>
    BY <1>3, NothingForgotten DEF Pop, StopWalking
  <2>2. Phases'
    BY <2>1 DEF IInv, Phases
  <2>3. CASE phase = "pass1"
    <3>1. Pass1 /\ SeedsTaken' = SeedsTaken /\ SeedsTaken \subseteq RomAddr
      BY <2>1, <2>3 DEF IInv, SeedsTaken, RomAddr
    <3>2. \A a \in visited' : FlowsIn(a, Noted')
      BY <2>1, <2>3, <3>1, FlowsInLarger DEF Pass1
    <3>3. /\ SeedsTaken' \subseteq Noted'
          /\ \A S \in SUBSET RomAddr :
               ClosedUnderFlow(S) => Noted' \cap RomAddr \subseteq S
          /\ is_entry' = SeedsTaken' \cup CallTargets(visited')
          /\ \A a \in visited' : Jumps(a) => rom[a].target \in is_label'
          /\ \A e \in Addr : pcs'[e] = {}
      BY <2>1, <2>3, <3>1 DEF Pass1, Labelled
    <3>4. Pass1'
      BY <2>1, <3>2, <3>3, Pass1After
    <3> QED BY <1>1, <2>1, <2>2, <2>3, <3>4 DEF IInv, Pass2Walk, Pass2
  <2>4. CASE phase = "pass2"
    <3>1. Pass2Walk /\ Pass2 /\ entry \in RomAddr
      BY DEF IInv, TypeOK
    <3>2. \A a \in visited' : FlowsInFunction(Entries, entry', a, Noted')
      BY <2>1, <2>4, <3>1, FlowsInLarger DEF Pass2Walk
    <3>3. /\ entry' \in Noted'
          /\ \A S \in SUBSET RomAddr :
               ClosedInFunction(Entries, entry', S)
                 => Noted' \cap RomAddr \subseteq S
      BY <2>1, <2>4, <3>1 DEF Pass2Walk
    <3>4. Pass2Walk'
      BY <2>1, <3>2, <3>3, Pass2WalkAfter
    <3>5. /\ Reached' = Reached /\ Entries' = Entries
          /\ \A E, x : Body(E, x)' = Body(E, x)
      BY <2>1, SameImage
    <3>6. Labelled(reached)'
      BY <2>1, <2>4, <3>1 DEF Pass2, Labelled, Jumps
    <3>7. Pass2'
      BY <2>1, <2>4, <3>1, <3>5, <3>6 DEF Pass2
    <3> QED BY <1>1, <2>1, <2>2, <2>4, <3>4, <3>7 DEF IInv, Pass1
  <2> QED BY <2>1, <2>3, <2>4
<1>4. CASE WalkInsn1
  <2>1. Phases' /\ Pass2Walk' /\ Pass2'
    BY <1>4 DEF WalkInsn1, IInv, Phases, Pass2Walk, Pass2
  <2> QED BY <1>1, <1>4, <2>1, WalkPass1 DEF IInv
<1>5. CASE WalkInsn2
  <2>1. Phases' /\ Pass1'
    BY <1>5 DEF WalkInsn2, IInv, Phases, Pass1
  <2> QED BY <1>1, <1>5, <2>1, WalkPass2 DEF IInv
<1>6. CASE StartPass2
  <2>1. Phases' /\ Pass1'
    BY <1>6 DEF StartPass2, IInv, Phases, Pass1
  <2> QED BY <1>1, <1>6, <2>1, StartPass2Inv DEF IInv
<1>7. CASE NextFunction
  <2>1. Phases' /\ Pass1'
    BY <1>7 DEF NextFunction, IInv, Phases, Pass1
  <2> QED BY <1>1, <1>7, <2>1, NextFunctionInv DEF IInv
<1>8. CASE Finish
  <2>1. Phases' /\ Pass1' /\ Pass2Walk'
    BY <1>8 DEF Finish, IInv, Phases, Pass1, Pass2Walk
  <2> QED BY <1>1, <1>8, <2>1, FinishInv DEF IInv
<1>9. CASE OutOfMemory
  BY <1>1, <1>9 DEF OutOfMemory, IInv, Phases, Pass1, Pass2Walk, Pass2
<1>10. CASE UNCHANGED vars
  <2>1. rom' = rom /\ Pass1' = Pass1 /\ Pass2Walk' = Pass2Walk /\ Pass2' = Pass2
    BY <1>10 DEF vars, Pass1, Pass2Walk, Pass2, Noted, SeedsTaken, CallTargets,
         Labelled, FlowsIn, FlowsInFunction, ClosedUnderFlow, ClosedInFunction,
         Entries, Reached, Body, Least, RomAddr, InRom, FallsThrough, Jumps,
         Calls, NextOf
  <2> QED BY <1>1, <1>10, <2>1 DEF IInv, Phases, vars
<1> QED BY <1>2, <1>3, <1>4, <1>5, <1>6, <1>7, <1>8, <1>9, <1>10
        DEF Next, Step

\* Every pass through a loop of find_entries, walk_func and vmu_discover keeps
\* what the two passes have found between what is sure and what is possible.
THEOREM Invariance == Spec => []IInv
<1>1. Init => IInv
  BY InitIInv
<1>2. IInv /\ [Next]_vars => IInv'
  BY NextIInv
<1> QED BY <1>1, <1>2, PTL DEF Spec

-----------------------------------------------------------------------------
(* What follows from it.                                                    *)

\* Every variable of discovery keeps its type; no address it computes leaves
\* the address space.
THEOREM TypeCorrect == Spec => []TypeOK
<1>1. IInv => TypeOK
  BY DEF IInv
<1> QED BY <1>1, Invariance, PTL

\* Pass 1 (find_entries) walks what control can reach, and nothing else.
THEOREM Reaches == Spec => []ReachesExactly
<1>1. IInv => ReachesExactly
  BY DEF IInv, Pass2, ReachesExactly
<1> QED BY <1>1, Invariance, PTL

\* analyze.c:97-102: it marks the seeds and the targets of reachable calls as
\* functions, as far as they are inside the image.
THEOREM EntriesAre == Spec => []EntriesExact
<1>1. IInv => EntriesExact
  BY DEF IInv, Pass2, EntriesExact
<1> QED BY <1>1, Invariance, PTL

\* Once pass 2 is over, it has been through every function.
LEMMA BodiesAre ==
  ASSUME IInv, phase = "done", NEW e \in Addr
  PROVE  /\ e \in Entries => pcs[e] = Body(Entries, e)
         /\ e \notin Entries => pcs[e] = {}
<1>1. Pass2 /\ is_entry \subseteq Nat /\ entry \in Nat /\ is_entry = Entries
  BY ImageFacts DEF IInv, TypeOK, Pass2
<1>2. \A x \in Entries : x < entry \/ x = entry
  <2> SUFFICES ASSUME NEW x \in Entries PROVE x < entry \/ x = entry
    OBVIOUS
  <2>1. x \in Nat /\ ~(x > entry)
    BY <1>1 DEF Pass2
  <2> QED BY <1>1, <2>1
<1> QED BY <1>1, <1>2 DEF Pass2

\* Pass 2 (walk_func) collects for each function the least set that holds its
\* entry and what control reaches from it without another function's entry.
THEOREM FunctionsAre == Spec => []FunctionsExact
<1>1. IInv => FunctionsExact
  BY BodiesAre DEF FunctionsExact
<1> QED BY <1>1, Invariance, PTL

\* A function's instructions are reachable ones, and it is closed.
LEMMA BodyFacts ==
  ASSUME IsImage(rom), NEW e \in Entries, NEW a \in Body(Entries, e)
  PROVE  /\ a \in Reached
         /\ FlowsInFunction(Entries, e, a, Body(Entries, e))
<1>1. Entries \subseteq RomAddr /\ RomAddr \in SUBSET RomAddr
  BY DEF Entries
<1>2. Reached \in SUBSET RomAddr /\ ClosedUnderFlow(Reached)
  BY DEF Reached, Least, ClosedUnderFlow, InRom
<1>3. Entries \subseteq Reached
  <2> SUFFICES ASSUME NEW x \in Entries PROVE x \in Reached
    OBVIOUS
  <2>1. CASE x \in SeedSet \cap RomAddr
    BY <1>2, <2>1 DEF ClosedUnderFlow
  <2>2. CASE \E c \in Reached : Calls(c) /\ rom[c].target = x
    BY <1>1, <1>2, <2>2 DEF ClosedUnderFlow, Calls, is_call, has_target, InRom
  <2> QED BY <2>1, <2>2 DEF Entries
<1>4. ClosedInFunction(Entries, e, Reached)
  BY <1>2, <1>3 DEF ClosedInFunction, ClosedUnderFlow, Jumps
<1>5. Body(Entries, e) \subseteq Reached
  BY <1>2, <1>4 DEF Body, Least
<1>6. FlowsInFunction(Entries, e, a, Body(Entries, e))
  <2>1. \A S \in SUBSET RomAddr :
          ClosedInFunction(Entries, e, S) => FlowsInFunction(Entries, e, a, S)
    BY DEF Body, Least, ClosedInFunction, FlowsInFunction
  <2> QED BY <2>1 DEF FlowsInFunction, Body, Least, InRom
<1> QED BY <1>5, <1>6

\* emit.c:94-104, :227-230: no jump of a function is without somewhere to go:
\* a label inside, a function to dispatch to, or a trap outside the image.
THEOREM Lowerable == Spec => []JumpsCanBeLowered
<1>1. IInv => JumpsCanBeLowered
  <2> SUFFICES ASSUME IInv, phase = "done", NEW e \in is_entry,
                      NEW a \in pcs[e], Jumps(a)
               PROVE  LET t == rom[a].target IN
                        \/ t \in pcs[e] /\ t \in is_label
                        \/ t \notin pcs[e] /\ (t \in is_entry \/ ~InRom(t))
    BY DEF JumpsCanBeLowered
  <2>1. /\ is_entry = Entries /\ e \in Addr /\ reached = Reached
        /\ Labelled(reached) /\ IsImage(rom)
    BY ImageFacts DEF IInv, TypeOK, Pass2
  <2>2. pcs[e] = Body(Entries, e)
    BY <2>1, BodiesAre
  <2>3. a \in Reached /\ FlowsInFunction(Entries, e, a, Body(Entries, e))
    BY <2>1, <2>2, BodyFacts
  <2>4. rom[a].target \in is_label
    BY <2>1, <2>3 DEF Labelled
  <2> QED BY <2>1, <2>2, <2>3, <2>4 DEF FlowsInFunction
<1> QED BY <1>1, Invariance, PTL
-----------------------------------------------------------------------------
(* Why discovery ends.  An instruction is walked once per walk and a walk   *)
(* notes down at most one address per instruction, so what a walk may still *)
(* do is bounded by the bytes it has not walked and the length of its       *)
(* worklist; and there is one walk in pass 1 and one per function, in       *)
(* ascending order, in pass 2.                                              *)

Size == Cardinality(RomAddr)

\* An address on the worklist costs two steps at most beyond walking it (take
\* it, stop), an instruction three: its own step and the address it notes.
Walking == IF pc = NoPc THEN 0 ELSE 1
WalkLeft == 3 * (Size - Cardinality(visited)) + 2 * Len(work) + Walking
PerWalk == 3 * Size + 3
WalksAhead == IF phase = "pass2" THEN Size - entry ELSE Size + 1
Ended == phase \in {"done", "failed"}
StepsLeft ==
  IF Ended THEN 0
  ELSE WalksAhead * PerWalk + 3 * (Len(Seeds) - seeded) + WalkLeft
\* The quantities StepsLeft is made of are natural numbers.
LEMMA Sizes ==
  ASSUME IInv
  PROVE  /\ Size \in Nat /\ \A a \in RomAddr : a \in Nat /\ a < Size
         /\ entry \in Nat /\ entry < Size
         /\ IsFiniteSet(visited) /\ Cardinality(visited) \in Nat
         /\ Cardinality(visited) <= Size
         /\ Len(work) \in Nat /\ Len(Seeds) - seeded \in Nat
         /\ phase = "pass2" => Len(Seeds) - seeded = 0
<1> USE DEF IInv, TypeOK
<1>1. PICK n \in 1 .. AddrSpace : rom \in [0 .. n - 1 -> Insn]
  BY DEF IsImage
<1>2. RomAddr = 0 .. n - 1 /\ n \in Nat
  BY <1>1, ImageConstants DEF RomAddr
<1>3. IsFiniteSet(RomAddr) /\ Cardinality(RomAddr) = n
  BY <1>2, FS_Interval
<1>4. IsFiniteSet(visited) /\ Cardinality(visited) \in Nat
  BY <1>3, FS_Subset, FS_CardinalityType
<1>5. Cardinality(visited) <= Cardinality(RomAddr)
  BY <1>3, FS_Subset
<1>6. Len(work) \in Nat
  OBVIOUS
<1>7. /\ Len(Seeds) - seeded \in Nat
      /\ phase = "pass2" => Len(Seeds) - seeded = 0
  BY SeedsAssumption DEF Phases
<1> QED BY <1>2, <1>3, <1>4, <1>5, <1>6, <1>7 DEF Size

\* A walk less is PerWalk steps less.
LEMMA WalkLess ==
  ASSUME NEW x \in Nat, NEW y \in Nat, NEW k \in Nat, x < y
  PROVE  x * k \in Nat /\ y * k \in Nat /\ x * k + k <= y * k
<1>1. PICK d \in Nat : y = x + 1 + d
  <2>1. y - x - 1 \in Nat /\ y = x + 1 + (y - x - 1)
    OBVIOUS
  <2> QED BY <2>1
<1>2. x * k \in Nat /\ d * k \in Nat
  OBVIOUS
<1>3. y * k = x * k + k + d * k
  BY <1>1
<1> QED BY <1>2, <1>3

LEMMA StepsLeftType ==
  ASSUME IInv
  PROVE  /\ StepsLeft \in Nat /\ (~Ended => StepsLeft # 0)
         /\ WalksAhead * PerWalk \in Nat /\ WalkLeft \in Nat
<1> DEFINE c == Cardinality(visited)
           w == Len(work)
           n == Size
<1>0. /\ n \in Nat /\ entry \in Nat /\ entry < n
      /\ c \in Nat /\ c <= n /\ w \in Nat
  BY Sizes
<1> HIDE DEF c, w, n
<1>1. WalksAhead \in Nat /\ 0 < WalksAhead /\ PerWalk \in Nat /\ 0 < PerWalk
  <2>1. (n - entry) \in Nat /\ 0 < n - entry /\ n + 1 \in Nat /\ 0 < n + 1
    BY <1>0
  <2>2. 3 * n + 3 \in Nat /\ 0 < 3 * n + 3
    BY <1>0
  <2> QED BY <2>1, <2>2 DEF WalksAhead, PerWalk, n
<1>2. WalkLeft \in Nat
  <2>1. \A b \in {0, 1} : 3 * (n - c) + 2 * w + b \in Nat
    BY <1>0
  <2> QED BY <2>1 DEF WalkLeft, Walking, n, c, w
<1>3. WalksAhead * PerWalk \in Nat /\ 0 * PerWalk + PerWalk <= WalksAhead * PerWalk
  <2> HIDE DEF WalksAhead, PerWalk
  <2> QED BY <1>1, WalkLess
<1>4. 0 * PerWalk = 0
  BY <1>1
<1> HIDE DEF WalksAhead, PerWalk, WalkLeft
<1> DEFINE p == WalksAhead * PerWalk
           l == 3 * (Len(Seeds) - seeded)
<1>5. l \in Nat
  BY Sizes
<1>6. p \in Nat /\ 0 < p
  BY <1>1, <1>3, <1>4
<1>7. StepsLeft = IF Ended THEN 0 ELSE p + l + WalkLeft
  BY DEF StepsLeft
<1>8. WalksAhead * PerWalk \in Nat /\ WalkLeft \in Nat
  BY <1>2, <1>6
<1> HIDE DEF p, l
<1> QED BY <1>2, <1>5, <1>6, <1>7, <1>8
\* The arithmetic of the two lemmas below.
LEMMA LessOfThis ==
  ASSUME NEW p \in Nat, NEW l \in Nat, NEW w \in Nat, NEW i \in Int,
         NEW j \in Int, 3 * j + i < 0
  PROVE  p + 3 * (l + j) + (w + i) < p + 3 * l + w
OBVIOUS

LEMMA LessOfOthers ==
  ASSUME NEW p \in Nat, NEW q \in Nat, NEW k \in Nat, NEW l \in Nat,
         NEW v \in Nat, NEW w \in Nat, p + k <= q, v < k
  PROVE  p + 3 * l + v < q + 3 * l + w
OBVIOUS

\* What a step takes from the walk it is on.
LEMMA WalkChange ==
  ASSUME IInv, Size' = Size, NEW dv \in {0, 1}, NEW dw \in {-1, 0, 1},
         Cardinality(visited') = Cardinality(visited) + dv,
         Len(work') = Len(work) + dw
  PROVE  WalkLeft' = WalkLeft + (2 * dw - 3 * dv + (Walking' - Walking))
<1> DEFINE c == Cardinality(visited)
           w == Len(work)
           n == Size
<1>1. c \in Nat /\ w \in Nat /\ n \in Nat
  BY Sizes
<1>2. Walking \in {0, 1} /\ Walking' \in {0, 1}
  BY DEF Walking
<1>3. /\ WalkLeft = 3 * (n - c) + 2 * w + Walking
      /\ WalkLeft' = 3 * (n - (c + dv)) + 2 * (w + dw) + Walking'
  BY DEF WalkLeft
<1> HIDE DEF c, w, n
<1> QED BY <1>1, <1>2, <1>3

\* What is left is what is left of this walk, if the others are untouched.
LEMMA SameWalks ==
  ASSUME IInv, ~Ended, ~Ended', Size' = Size, WalksAhead' = WalksAhead,
         NEW i \in Int, NEW j \in Int,
         WalkLeft' = WalkLeft + i, Len(Seeds) - seeded' = Len(Seeds) - seeded + j,
         3 * j + i < 0
  PROVE  StepsLeft' < StepsLeft
<1>1. WalksAhead * PerWalk \in Nat /\ WalkLeft \in Nat
  BY StepsLeftType
<1>2. Len(Seeds) - seeded \in Nat
  BY Sizes
<1> DEFINE p == WalksAhead * PerWalk
           l == Len(Seeds) - seeded
<1>3. StepsLeft = p + 3 * l + WalkLeft
  BY DEF StepsLeft
<1>4. StepsLeft' = p + 3 * (l + j) + (WalkLeft + i)
  BY DEF StepsLeft, PerWalk
<1>5. p \in Nat /\ l \in Nat
  BY <1>1, <1>2
<1> HIDE DEF p, l
<1> QED BY <1>1, <1>3, <1>4, <1>5, LessOfThis

\* A new walk has at most PerWalk - 1 steps.
LEMMA FewerWalks ==
  ASSUME IInv, phase \in {"pass1", "pass2"}, pc = NoPc, work = <<>>,
         NEW e \in RomAddr, phase' = "pass2", entry' = e, Size' = Size,
         pc' = NoPc, work' = <<e>>, visited' = {}, seeded' = seeded,
         phase = "pass2" => entry < e
  PROVE  StepsLeft' < StepsLeft
<1> DEFINE c == Cardinality(visited)
           k == 3 * Size + 3
           x == Size - e
           y == WalksAhead
           l == Len(Seeds) - seeded
<1>1. /\ Size \in Nat /\ e \in Nat /\ e < Size /\ entry \in Nat /\ entry < Size
      /\ c \in Nat /\ c <= Size /\ l \in Nat
  BY Sizes
<1>2. x \in Nat /\ y \in Nat /\ x < y /\ k \in Nat
  BY <1>1 DEF WalksAhead
<1>3. x * k \in Nat /\ y * k \in Nat /\ x * k + k <= y * k
  <2> HIDE DEF x, y, k
  <2> QED BY <1>2, WalkLess
<1>4. Len(work) = 0 /\ Len(work') = 1
  OBVIOUS
<1>5. Cardinality(visited') = 0
  BY FS_EmptySet
<1>6. WalkLeft = 3 * (Size - c)
  BY <1>1, <1>4 DEF WalkLeft, Walking
<1>7. WalkLeft' = 3 * Size + 2
  BY <1>1, <1>4, <1>5 DEF WalkLeft, Walking
<1>8. StepsLeft = y * k + 3 * l + WalkLeft
  BY DEF StepsLeft, Ended, PerWalk
<1>9. StepsLeft' = x * k + 3 * l + WalkLeft'
  BY DEF StepsLeft, Ended, PerWalk, WalksAhead
<1>10. WalkLeft \in Nat /\ WalkLeft' < k
  BY <1>1, <1>6, <1>7
<1>11. k \in Nat /\ l \in Nat
  BY <1>1
<1> HIDE DEF c, k, x, y, l
<1> DEFINE p == x * k
           q == y * k
<1> HIDE DEF p, q
<1>12. p \in Nat /\ q \in Nat /\ p + k <= q
  BY <1>3 DEF p, q
<1>13. StepsLeft = q + 3 * l + WalkLeft /\ StepsLeft' = p + 3 * l + WalkLeft'
  BY <1>8, <1>9 DEF p, q
<1>14. WalkLeft' \in Nat
  BY <1>1, <1>7
<1> QED BY <1>10, <1>11, <1>12, <1>13, <1>14, LessOfOthers

LEMMA StepsFewer ==
  ASSUME IInv, Next
  PROVE  StepsLeft' < StepsLeft
<1>1. rom' = rom
  BY DEF Next, Step, TakeSeed, Pop, StopWalking, WalkInsn1, StartPass2,
         WalkInsn2, NextFunction, Finish, OutOfMemory
<1>2. Size' = Size
  BY <1>1, SameImage DEF Size
<1>3. CASE TakeSeed
  <2>1. seeded \in Nat /\ Len(Seeds) \in Nat
    BY SeedsAssumption DEF IInv, TypeOK
  <2>2. Len(Seeds) - seeded' = Len(Seeds) - seeded + (-1)
    BY <1>3, <2>1 DEF TakeSeed
  <2>3. PICK i \in {0, 1} : Len(work') = Len(work) + i
    <3>1. work' = work \/ \E s : work' = Append(work, s)
      BY <1>3 DEF TakeSeed, Push
    <3>2. work \in Seq(Addr)
      BY DEF IInv, TypeOK
    <3>3. \A s : Len(Append(work, s)) = Len(work) + 1
      BY <3>2
    <3>4. Len(work) \in Nat
      BY <3>2
    <3> QED BY <3>1, <3>3, <3>4
  <2>4. WalkLeft' = WalkLeft + 2 * i
    <3>1. /\ Cardinality(visited') = Cardinality(visited) + 0
          /\ Walking' = Walking /\ Walking \in {0, 1}
      BY <1>3, Sizes DEF TakeSeed, Walking
    <3>2. WalkLeft' = WalkLeft + (2 * i - 3 * 0 + (Walking' - Walking))
      BY <1>2, <2>3, <3>1, WalkChange
    <3>3. 2 * i - 3 * 0 + (Walking' - Walking) = 2 * i
      BY <3>1
    <3> QED BY <3>2, <3>3
  <2>5. ~Ended /\ ~Ended' /\ WalksAhead' = WalksAhead
    BY <1>2, <1>3 DEF TakeSeed, Ended, WalksAhead
  <2>6. -1 \in Int /\ 2 * i \in Int /\ 3 * (-1) + 2 * i < 0
    OBVIOUS
  <2> QED BY <1>2, <2>2, <2>4, <2>5, <2>6, SameWalks
<1> DEFINE s == Len(Seeds) - seeded
<1>4. s' = s + 0 \/ TakeSeed \/ OutOfMemory
  BY Sizes DEF Next, Step, Pop, StopWalking, WalkInsn1, StartPass2,
               WalkInsn2, NextFunction, Finish
<1>5. ASSUME Pop \/ StopWalking \/ WalkInsn1 \/ WalkInsn2
      PROVE  ~Ended /\ ~Ended' /\ WalksAhead' = WalksAhead /\ s' = s + 0
  BY <1>2, <1>5, Sizes
     DEF Pop, StopWalking, WalkInsn1, WalkInsn2, Ended, WalksAhead
<1>6. CASE Pop
  <2>1. Len(work') = Len(work) + (-1)
    <3>1. work # <<>> /\ work' = SubSeq(work, 1, Len(work) - 1)
      BY <1>6 DEF Pop
    <3>2. work \in Seq(Addr) /\ Len(work) \in Nat
      BY DEF IInv, TypeOK
    <3> QED BY <3>1, <3>2, WaitingPop
  <2>2. pc = NoPc /\ pc' # NoPc /\ visited' = visited
    BY <1>6, WaitingPop, ImageFacts DEF Pop, IInv, TypeOK
  <2>3. WalkLeft' = WalkLeft + (-1)
    <3>1. /\ Cardinality(visited') = Cardinality(visited) + 0
          /\ Walking = 0 /\ Walking' = 1
      BY <2>2, Sizes DEF Walking
    <3>2. WalkLeft' = WalkLeft + (2 * (-1) - 3 * 0 + (Walking' - Walking))
      BY <1>2, <2>1, <3>1, WalkChange
    <3>3. 2 * (-1) - 3 * 0 + (Walking' - Walking) = -1
      BY <3>1
    <3> QED BY <3>2, <3>3
  <2> QED BY <1>2, <1>5, <1>6, <2>3, SameWalks
<1>7. CASE StopWalking
  <2>1. pc # NoPc /\ pc' = NoPc /\ visited' = visited /\ work' = work
    BY <1>7 DEF StopWalking, WalkEnds
  <2>2. WalkLeft' = WalkLeft + (-1)
    <3>1. /\ Cardinality(visited') = Cardinality(visited) + 0
          /\ Len(work') = Len(work) + 0 /\ Walking = 1 /\ Walking' = 0
      BY <2>1, Sizes DEF Walking
    <3>2. WalkLeft' = WalkLeft + (2 * 0 - 3 * 0 + (Walking' - Walking))
      BY <1>2, <3>1, WalkChange
    <3>3. 2 * 0 - 3 * 0 + (Walking' - Walking) = -1
      BY <3>1
    <3> QED BY <3>2, <3>3
  <2> QED BY <1>2, <1>5, <1>7, <2>2, SameWalks
<1>8. CASE WalkInsn1 \/ WalkInsn2
  <2>1. /\ pc # NoPc /\ pc \notin visited /\ visited' = visited \cup {pc}
        /\ work' = work \/ work' = Append(work, rom[pc].target)
    BY <1>8 DEF WalkInsn1, WalkInsn2, WalkEnds, Push
  <2>2. Cardinality(visited') = Cardinality(visited) + 1
    BY <2>1, Sizes, FS_AddElement
  <2>3. PICK i \in {0, 1} : Len(work') = Len(work) + i
    <3>1. work \in Seq(Addr) /\ Len(work) \in Nat
      BY DEF IInv, TypeOK
    <3>2. \A t : Len(Append(work, t)) = Len(work) + 1
      BY <3>1
    <3> QED BY <2>1, <3>1, <3>2
  <2> DEFINE d == 2 * i - 3 * 1 + (Walking' - Walking)
  <2>4. WalkLeft' = WalkLeft + d
    BY <1>2, <2>2, <2>3, WalkChange
  <2>5. d \in Int /\ 3 * 0 + d < 0
    <3>1. Walking' - Walking \in {-1, 0}
      BY <2>1 DEF Walking
    <3>2. \A m \in {-1, 0} : LET x == 2 * i - 3 * 1 + m IN
            x \in Int /\ 3 * 0 + x < 0
      OBVIOUS
    <3> QED BY <3>1, <3>2
  <2> HIDE DEF d
  <2> QED BY <1>2, <1>5, <1>8, <2>4, <2>5, SameWalks
<1>9. CASE StartPass2
  <2>1. Lowest(is_entry) \in RomAddr
    BY <1>9, NextEntryIn DEF StartPass2, IInv, TypeOK
  <2> QED BY <1>2, <1>9, <2>1, FewerWalks DEF StartPass2, StartFunction
<1>10. CASE NextFunction
  <2> DEFINE later == {e \in is_entry : e > entry}
  <2>1. Lowest(later) \in later
    BY <1>10, NextEntryIn DEF NextFunction
  <2>2. Lowest(later) \in RomAddr /\ Lowest(later) > entry
    BY <2>1 DEF IInv, TypeOK
  <2>3. /\ phase = "pass2" /\ pc = NoPc /\ work = <<>> /\ phase' = "pass2"
        /\ entry' = Lowest(later) /\ pc' = NoPc /\ work' = <<Lowest(later)>>
        /\ visited' = {} /\ seeded' = seeded
    BY <1>10 DEF NextFunction, StartFunction
  <2>4. entry < Lowest(later)
    BY <2>2, Sizes
  <2> HIDE DEF later
  <2> QED BY <1>2, <2>2, <2>3, <2>4, FewerWalks
<1>11. CASE Finish \/ OutOfMemory
  <2>1. ~Ended /\ Ended'
    BY <1>11 DEF Finish, OutOfMemory, Ended
  <2>2. StepsLeft' = 0 /\ StepsLeft \in Nat /\ StepsLeft # 0
    BY <2>1, StepsLeftType DEF StepsLeft
  <2> QED BY <2>2
<1> QED BY <1>3, <1>6, <1>7, <1>8, <1>9, <1>10, <1>11 DEF Next, Step

\* Discovery cannot go on for ever: whatever the image, every step it takes
\* leaves it fewer to take, and it has a natural number of them.
THEOREM EveryStepCounts ==
  Spec => [](StepsLeft \in Nat) /\ [][StepsLeft' < StepsLeft]_vars
<1>1. IInv => StepsLeft \in Nat
  BY StepsLeftType
<1>2. IInv /\ [Next]_vars => [StepsLeft' < StepsLeft]_vars
  BY StepsFewer
<1> QED BY <1>1, <1>2, Invariance, PTL DEF Spec
=============================================================================
