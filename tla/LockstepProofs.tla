--------------------------- MODULE LockstepProofs ---------------------------
(* Proofs about Lockstep: for every image whose reachable instructions do   *)
(* not overlap, whatever its calls, tails and interrupts, generated code    *)
(* and interpreter stay together.                                           *)
EXTENDS Lockstep, SequenceTheorems, WellFoundedInduction, TLAPS

-----------------------------------------------------------------------------
(* The inductive invariant.  Generated code has no return addresses, only C *)
(* frames that continue behind the call in the emitted text; what has to be *)
(* kept up is that this is where the interpreter's return addresses point,  *)
(* frame by frame, and that each frame continues inside its own function.   *)

\* Where a frame continues that is to go on at address r.
Below(r) == IF InRom(r) THEN r ELSE End

\* The frames there can be: each continues inside its function, or leaves it.
Frames == {f \in Frame : f.fn \in DOMAIN prog /\ f.at \in prog[f.fn] \cup {End}}

Aligned(fs, is, next) ==
  /\ Len(fs) = Len(is) + 1
  /\ fs[Len(fs)].at = next
  /\ \A i \in 1 .. Len(is) : fs[i].at = Below(is[i])

\* A call outside the image leaves a return address on one stack only.
NoWildCalls ==
  \A e \in DOMAIN prog : \A a \in prog[e] : Calls(a) => InRom(rom[a].target)

Alike ==
  NoOverlap /\ ~over =>
    /\ Aligned(frames, istack, ipc)
    /\ risr => iisr
    /\ NoWildCalls => Len(rstack) = Len(istack)

Compiled == prog = [e \in Entries |-> Body(Entries, e)]

IInv == TypeOK /\ Compiled /\ frames \in Seq(Frames) /\ Alike

-----------------------------------------------------------------------------
(* Facts about images and the functions discovered in them.                 *)

\* The image and its functions never change.
LEMMA SameProgram ==
  ASSUME rom' = rom, prog' = prog
  PROVE  /\ Compiled => Compiled'
         /\ NoOverlap' = NoOverlap /\ NoWildCalls' = NoWildCalls
         /\ Frames' = Frames /\ IsImage(rom)' = IsImage(rom)
<1>1. Entries' = Entries /\ \A E, e : Body(E, e)' = Body(E, e)
  <2>1. Reached' = Reached
    BY DEF Reached, Least, ClosedUnderFlow, RomAddr, FallsThrough, InRom, NextOf
  <2>2. Entries' = Entries
    BY <2>1 DEF Entries, RomAddr, Calls
  <2> QED BY <2>2 DEF Body, Least, ClosedInFunction, RomAddr, FallsThrough,
                      InRom, NextOf, Jumps
<1>2. Compiled => Compiled'
  BY <1>1 DEF Compiled
<1>3. Frames' = Frames
  BY DEF Frames, Frame, RomAddr
<1> QED BY <1>2, <1>3 DEF NoOverlap, NoWildCalls, FallsThrough, Calls, InRom,
                          RomAddr

\* Addresses computed from an image are addresses; End and Nowhere are none.
LEMMA ImageFacts ==
  ASSUME IsImage(rom)
  PROVE  /\ RomAddr \subseteq Addr /\ RomAddr \subseteq Nat /\ 0 \in RomAddr
         /\ End \notin Addr /\ Nowhere \notin Addr /\ End \in Nat
         /\ \A a \in RomAddr : /\ rom[a].target \in Addr
                               /\ NextOf(a) \in Addr
                               /\ rom[a].len \in 1 .. 3
                               /\ rom[a].flow \in Flow
<1>1. PICK n \in 1 .. AddrSpace : rom \in [0 .. n - 1 -> Insn]
  BY DEF IsImage
<1>2. RomAddr = 0 .. n - 1
  BY <1>1 DEF RomAddr
<1>3. \A a \in RomAddr : /\ rom[a].target \in Addr /\ rom[a].len \in 1 .. 3
                         /\ rom[a].flow \in Flow
  BY <1>1, <1>2 DEF Insn
<1>4. ASSUME NEW a \in RomAddr PROVE NextOf(a) \in Addr
  <2>1. a + rom[a].len \in Nat
    BY <1>2, <1>3
  <2> QED BY <2>1, ImageConstants DEF NextOf, After, Addr
<1> QED BY <1>1, <1>2, <1>3, <1>4, ImageConstants DEF Addr, End, Nowhere

\* An image has no gaps.
LEMMA ImageSolid ==
  ASSUME IsImage(rom), NEW a \in Nat, NEW b \in RomAddr, a <= b
  PROVE  a \in RomAddr
<1>1. PICK n \in 1 .. AddrSpace : rom \in [0 .. n - 1 -> Insn]
  BY DEF IsImage
<1> QED BY <1>1 DEF RomAddr

\* A non-empty set of addresses has a lowest one, and only one.
LEMMA LowestIn ==
  ASSUME NEW P \in SUBSET Nat, P # {}
  PROVE  Lowest(P) \in P /\ \A j \in P : Lowest(P) <= j
<1> DEFINE R == OpToRel(<, Nat)
<1>1. \E i \in P : \A j \in P : <<j, i>> \notin R
  <2> HIDE DEF R
  <2>1. IsWellFoundedOn(R, Nat)
    BY NatLessThanWellFounded DEF R
  <2> QED BY <2>1, WFMin
<1>2. \A i, j \in P : <<j, i>> \notin R => i <= j
  BY DEF OpToRel
<1>3. \E i \in P : \A j \in P : i <= j
  BY <1>1, <1>2
<1> QED BY <1>3 DEF Lowest

\* Functions hold their entry, and every address of the image control goes to
\* from inside one is in it or is another function's entry.
LEMMA FunctionFacts ==
  ASSUME TypeOK, Compiled
  PROVE  /\ DOMAIN prog = Entries /\ 0 \in DOMAIN prog
         /\ \A e \in DOMAIN prog :
              /\ e \in prog[e] /\ prog[e] \subseteq RomAddr
              /\ \A a \in prog[e] :
                   /\ FallsThrough(a) /\ InRom(NextOf(a)) => NextOf(a) \in prog[e]
                   /\ has_target(rom[a]) /\ InRom(rom[a].target) =>
                        rom[a].target \in prog[e] \cup DOMAIN prog
                   /\ Calls(a) /\ InRom(rom[a].target) =>
                        rom[a].target \in DOMAIN prog
<1>1. /\ IsImage(rom) /\ 0 \in RomAddr /\ DOMAIN prog = Entries
      /\ Entries \subseteq RomAddr /\ RomAddr \in SUBSET RomAddr
  BY ImageFacts DEF TypeOK, Compiled, Entries
<1>2. 0 \in Entries
  BY <1>1, SeedsAssumption DEF Entries, SeedSet
<1>3. Reached \in SUBSET RomAddr /\ ClosedUnderFlow(Reached)
  BY DEF Reached, Least, ClosedUnderFlow, InRom
<1>4. Entries \subseteq Reached
  <2> SUFFICES ASSUME NEW x \in Entries PROVE x \in Reached
    OBVIOUS
  <2>1. CASE x \in SeedSet \cap RomAddr
    BY <1>3, <2>1 DEF ClosedUnderFlow
  <2>2. CASE \E c \in Reached : Calls(c) /\ rom[c].target = x
    BY <1>1, <1>3, <2>2 DEF ClosedUnderFlow, Calls, is_call, has_target, InRom
  <2> QED BY <2>1, <2>2 DEF Entries
<1>5. ASSUME NEW e \in Entries, NEW a \in Body(Entries, e)
      PROVE  /\ a \in Reached /\ a \in RomAddr
             /\ FallsThrough(a) /\ InRom(NextOf(a)) =>
                  NextOf(a) \in Body(Entries, e)
             /\ has_target(rom[a]) /\ InRom(rom[a].target) =>
                  rom[a].target \in Body(Entries, e) \cup Entries
             /\ Calls(a) /\ InRom(rom[a].target) => rom[a].target \in Entries
  <2>1. ClosedInFunction(Entries, e, Reached)
    BY <1>3, <1>4 DEF ClosedInFunction, ClosedUnderFlow, Jumps
  <2>2. a \in Reached
    BY <1>3, <2>1 DEF Body, Least
  <2>3. FallsThrough(a) /\ InRom(NextOf(a)) => NextOf(a) \in Body(Entries, e)
    BY DEF Body, Least, ClosedInFunction, InRom
  <2>4. Calls(a) /\ InRom(rom[a].target) => rom[a].target \in Entries
    BY <2>2 DEF Entries, InRom
  <2>5. Jumps(a) /\ InRom(rom[a].target) =>
          rom[a].target \in Body(Entries, e) \cup Entries
    BY DEF Body, Least, ClosedInFunction, InRom
  <2>6. has_target(rom[a]) => Calls(a) \/ Jumps(a)
    BY DEF Jumps, Calls
  <2> QED BY <1>3, <2>2, <2>3, <2>4, <2>5, <2>6
<1>6. \A e \in Entries : e \in Body(Entries, e)
  BY <1>1 DEF Body, Least, ClosedInFunction
<1> QED BY <1>1, <1>2, <1>5, <1>6 DEF Compiled

\* C falls through to the instruction behind this one in memory, or out of the
\* function: where nothing overlaps, that is where control goes.
LEMMA BehindIs ==
  ASSUME TypeOK, Compiled, NEW f, f.fn \in DOMAIN prog,
         f.at \in prog[f.fn], FallsThrough(f.at)
  PROVE  /\ Behind(f) \in prog[f.fn] \cup {End}
         /\ NoOverlap => Behind(f) = Below(NextOf(f.at))
<1> DEFINE later == {a \in prog[f.fn] : a > f.at}
           a0 == f.at
<1>1. /\ IsImage(rom) /\ prog[f.fn] \subseteq RomAddr /\ RomAddr \subseteq Nat
      /\ a0 \in RomAddr /\ rom[a0].len \in 1 .. 3
      /\ InRom(NextOf(a0)) => NextOf(a0) \in prog[f.fn]
  BY FunctionFacts, ImageFacts DEF TypeOK
<1>2. later # {} => /\ Lowest(later) \in later
                    /\ \A j \in later : Lowest(later) <= j
  BY <1>1, LowestIn
<1>3. Behind(f) = IF later = {} THEN End ELSE Lowest(later)
  BY DEF Behind
<1>4. ASSUME NoOverlap PROVE Behind(f) = Below(NextOf(a0))
  <2>1. \A b \in prog[f.fn] : b > a0 => a0 + rom[a0].len <= b
    BY <1>1, <1>4 DEF NoOverlap
  <2>2. a0 + rom[a0].len < AddrSpace /\ a0 + rom[a0].len \in Nat
    <3>1. a0 \in UNION {prog[e] : e \in DOMAIN prog}
      OBVIOUS
    <3>2. a0 \in Nat /\ rom[a0].len \in 1 .. 3
      BY <1>1
    <3> QED BY <1>4, <3>1, <3>2 DEF NoOverlap
  <2>3. NextOf(a0) = a0 + rom[a0].len
    BY <2>2, ImageConstants DEF NextOf, After
  <2> DEFINE n == NextOf(a0)
  <2>4. n \in Nat /\ n > a0 /\ \A b \in later : n <= b
    <3>1. a0 \in Nat /\ rom[a0].len \in 1 .. 3
      BY <1>1
    <3>2. n \in Nat /\ n > a0
      BY <2>2, <2>3, <3>1
    <3> QED BY <2>1, <2>3, <3>2
  <2> HIDE DEF n, a0
  <2>5. CASE InRom(n)
    <3>1. n \in later
      BY <1>1, <2>4, <2>5 DEF n, a0
    <3>2. Lowest(later) = n
      <4>1. Lowest(later) \in Nat /\ Lowest(later) <= n /\ n <= Lowest(later)
        BY <1>1, <1>2, <2>4, <3>1
      <4> QED BY <2>4, <4>1
    <3> QED BY <1>3, <2>5, <3>1, <3>2 DEF Below, n, a0
  <2>6. CASE ~InRom(n)
    <3>1. later = {}
      BY <1>1, <2>4, <2>6, ImageSolid DEF InRom
    <3> QED BY <1>3, <2>6, <3>1 DEF Below, n, a0
  <2> QED BY <2>5, <2>6
<1> QED BY <1>2, <1>3, <1>4

-----------------------------------------------------------------------------
(* Facts about stacks.                                                      *)

\* Pushing, popping and replacing the top of a stack.
LEMMA StackPush ==
  ASSUME NEW T, NEW s \in Seq(T), NEW x \in T
  PROVE  /\ Append(s, x) \in Seq(T) /\ Len(Append(s, x)) = Len(s) + 1
         /\ Len(s) \in Nat /\ Append(s, x)[Len(s) + 1] = x
         /\ \A i \in 1 .. Len(s) : Append(s, x)[i] = s[i]
OBVIOUS

LEMMA StackPop ==
  ASSUME NEW T, NEW s \in Seq(T), s # <<>>
  PROVE  /\ Front(s) \in Seq(T) /\ Len(Front(s)) = Len(s) - 1
         /\ Len(s) \in Nat \ {0} /\ Last(s) \in T
         /\ \A i \in 1 .. Len(s) - 1 : Front(s)[i] = s[i]
<1> DEFINE k == Len(s) - 1
<1>1. /\ Len(s) \in Nat \ {0} /\ k \in Nat /\ \A i \in 1 .. k : s[i] \in T
      /\ s[Len(s)] \in T
  BY EmptySeq, ElementOfSeq
<1> HIDE DEF k
<1>2. /\ SubSeq(s, 1, k) \in Seq(T) /\ Len(SubSeq(s, 1, k)) = k
      /\ \A i \in 1 .. k : SubSeq(s, 1, k)[i] = s[i]
  BY <1>1, SubSeqProperties, SMTT(30)
<1> QED BY <1>1, <1>2 DEF Front, Last, k

LEMMA StackReplace ==
  ASSUME NEW T, NEW s \in Seq(T), s # <<>>, NEW x \in T,
         NEW t, t = [s EXCEPT ![Len(s)] = x]
  PROVE  /\ t \in Seq(T) /\ Len(t) = Len(s)
         /\ Len(s) \in Nat \ {0} /\ t[Len(s)] = x
         /\ \A i \in 1 .. Len(s) - 1 : t[i] = s[i]
<1>1. Len(s) \in Nat \ {0} /\ DOMAIN s = 1 .. Len(s)
  BY EmptySeq, LenProperties
<1>2. t \in Seq(T) /\ Len(t) = Len(s)
  BY <1>1, ExceptSeq
<1>3. \A n \in Nat : \A i \in 1 .. n - 1 : i \in 1 .. n /\ i # n
  OBVIOUS
<1>4. t[Len(s)] = x
  BY <1>1, SMTT(30)
<1>5. \A i \in 1 .. Len(s) - 1 : t[i] = s[i]
  BY <1>1, <1>3
<1> QED BY <1>1, <1>2, <1>4, <1>5

\* The code below keeps its place when the top of the stack moves on.
LEMMA AlignedReplace ==
  ASSUME NEW fs \in Seq(Frame), NEW is \in Seq(Addr), NEW a, Aligned(fs, is, a),
         NEW f \in Frame
  PROVE  Aligned([fs EXCEPT ![Len(fs)] = f], is, f.at)
<1> DEFINE t == [fs EXCEPT ![Len(fs)] = f]
<1>1. Len(fs) = Len(is) + 1 /\ Len(is) \in Nat /\ fs # <<>>
  BY EmptySeq DEF Aligned
<1>2. /\ t \in Seq(Frame) /\ Len(t) = Len(fs) /\ Len(fs) \in Nat \ {0}
      /\ t[Len(fs)] = f /\ \A i \in 1 .. Len(fs) - 1 : t[i] = fs[i]
  BY <1>1, StackReplace
<1> HIDE DEF t
<1> QED BY <1>1, <1>2 DEF Aligned, t

\* A call, or an interrupt: the new frame comes on top.
LEMMA AlignedPush ==
  ASSUME NEW fs \in Seq(Frame), NEW is \in Seq(Addr), NEW r \in Addr,
         Aligned(fs, is, Below(r)), NEW f \in Frame
  PROVE  Aligned(Append(fs, f), Append(is, r), f.at)
<1> DEFINE t == Append(fs, f)
           u == Append(is, r)
<1>1. /\ Len(t) = Len(fs) + 1 /\ t[Len(fs) + 1] = f
      /\ \A i \in 1 .. Len(fs) : t[i] = fs[i]
  BY StackPush
<1>2. /\ Len(u) = Len(is) + 1 /\ u[Len(is) + 1] = r
      /\ \A i \in 1 .. Len(is) : u[i] = is[i]
  BY StackPush
<1>3. Len(fs) = Len(is) + 1 /\ Len(is) \in Nat
  BY DEF Aligned
<1> HIDE DEF t, u
<1>4. \A i \in 1 .. Len(u) : t[i].at = Below(u[i])
  BY <1>1, <1>2, <1>3 DEF Aligned
<1> QED BY <1>1, <1>2, <1>3, <1>4 DEF Aligned, t, u

\* A return: what was below continues where the return address says.
LEMMA AlignedPop ==
  ASSUME NEW fs \in Seq(Frame), NEW is \in Seq(Addr), NEW a, Aligned(fs, is, a),
         is # <<>>
  PROVE  Aligned(Front(fs), Front(is), Below(Last(is)))
<1>1. Len(fs) = Len(is) + 1 /\ Len(is) \in Nat \ {0} /\ fs # <<>>
  BY EmptySeq DEF Aligned
<1>2. /\ Len(Front(fs)) = Len(is)
      /\ \A i \in 1 .. Len(is) : Front(fs)[i] = fs[i]
  BY <1>1, StackPop
<1>3. /\ Len(Front(is)) = Len(is) - 1
      /\ \A i \in 1 .. Len(is) - 1 : Front(is)[i] = is[i]
  BY <1>1, StackPop
<1>4. \A i \in 1 .. Len(Front(is)) : Front(fs)[i].at = Below(Front(is)[i])
  BY <1>1, <1>2, <1>3 DEF Aligned
<1>5. Front(fs)[Len(Front(fs))].at = Below(is[Len(is)])
  BY <1>1, <1>2 DEF Aligned
<1> QED BY <1>1, <1>2, <1>3, <1>4, <1>5 DEF Aligned, Last

-----------------------------------------------------------------------------
(* The steps.                                                               *)

\* What a step has to keep up, of all that it changes.
Keeps ==
  /\ ipc' \in Addr \cup {Nowhere} /\ istack' \in Seq(Addr)
  /\ frames' \in Seq(Frames) /\ rstack' \in Seq(Addr)
  /\ NoOverlap /\ ~over' =>
       /\ Aligned(frames', istack', ipc')
       /\ risr' => iisr'
       /\ NoWildCalls => Len(rstack') = Len(istack')

\* While the two are together, the instruction they are at is one of the
\* function on top of the C stack.
LEMMA AtTheTop ==
  ASSUME IInv, Together
  PROVE  /\ ipc \in RomAddr /\ ipc \in Addr /\ Top \in Frames /\ Top.at = ipc
         /\ Top.fn \in DOMAIN prog /\ ipc \in prog[Top.fn]
         /\ frames \in Seq(Frames) /\ frames \in Seq(Frame) /\ frames # <<>>
         /\ Front(frames) \in Seq(Frames)
         /\ After(ipc, rom[ipc]) = NextOf(ipc) /\ NextOf(ipc) \in Addr
         /\ istack \in Seq(Addr) /\ rstack \in Seq(Addr)
<1>1. /\ RomAddr \subseteq Addr /\ End \notin Addr /\ Nowhere \notin Addr
      /\ \A e \in DOMAIN prog : prog[e] \subseteq RomAddr
      /\ \A a \in RomAddr : NextOf(a) \in Addr
      /\ Nowhere # End
  BY FunctionFacts, ImageFacts DEF IInv, TypeOK, End, Nowhere
<1>2. frames # <<>> /\ Top.at = ipc /\ frames \in Seq(Frames)
  BY DEF Together, IInv
<1>3. Top \in Frames /\ Front(frames) \in Seq(Frames)
  BY <1>2, StackPop DEF Top
<1>4. ipc \in prog[Top.fn] /\ Top.fn \in DOMAIN prog
  BY <1>1, <1>2, <1>3 DEF Frames, IInv, TypeOK
<1> QED BY <1>1, <1>2, <1>3, <1>4 DEF IInv, TypeOK, NextOf

\* The function on top of the C stack goes on at a.
LEMMA Resumes ==
  ASSUME IInv, Together, NEW a \in prog[Top.fn] \cup {End}
  PROVE  /\ Resume(a) \in Seq(Frames)
         /\ NoOverlap => Aligned(Resume(a), istack, a)
<1> DEFINE f == [Top EXCEPT !.at = a]
<1>1. /\ Top \in Frames /\ frames \in Seq(Frames) /\ frames \in Seq(Frame)
      /\ frames # <<>> /\ istack \in Seq(Addr) /\ ~over
  BY AtTheTop DEF Together
<1>2. \A e \in DOMAIN prog : prog[e] \subseteq RomAddr
  BY FunctionFacts DEF IInv
<1>3. f \in Frames /\ f \in Frame /\ f.at = a
  BY <1>1, <1>2 DEF Frames, Frame
<1>4. Resume(a) = [frames EXCEPT ![Len(frames)] = f]
  BY DEF Resume, Top, Last
<1> HIDE DEF f
<1>5. Resume(a) \in Seq(Frames)
  BY <1>1, <1>3, <1>4, StackReplace
<1>6. ASSUME NoOverlap PROVE Aligned(Resume(a), istack, a)
  BY <1>1, <1>3, <1>4, <1>6, AlignedReplace DEF IInv, Alike
<1> QED BY <1>5, <1>6

\* A function is entered at an address of its own.
LEMMA Enters ==
  ASSUME IInv, NEW e \in DOMAIN prog, NEW isr \in BOOLEAN
  PROVE  Entered(e, isr) \in Frames /\ Entered(e, isr) \in Frame
         /\ Entered(e, isr).at = e
BY FunctionFacts DEF IInv, Entered, Frames, Frame

\* Control goes to the instruction behind this one.
LEMMA GoesOn ==
  ASSUME IInv, Together, FallsThrough(ipc),
         frames' = Resume(Behind(Top)), ipc' = NextOf(ipc), istack' = istack,
         rstack' = rstack, risr' = risr, iisr' = iisr,
         over' = Parts(rom[ipc])
  PROVE  Keeps
<1>1. /\ Behind(Top) \in prog[Top.fn] \cup {End}
      /\ NoOverlap => Behind(Top) = Below(NextOf(ipc))
  BY AtTheTop, BehindIs DEF IInv
<1>2. /\ frames' \in Seq(Frames)
      /\ NoOverlap => Aligned(frames', istack, Behind(Top))
  BY <1>1, Resumes
<1>3. ~over' => Below(NextOf(ipc)) = ipc'
  BY DEF Parts, Below
<1> QED BY <1>1, <1>2, <1>3, AtTheTop DEF Keeps, IInv, Alike, Together

\* A jump, or a branch that is taken: inside the function, to another one, or
\* out of the image.
LEMMA GoesAway ==
  ASSUME IInv, Together, Jumps(ipc),
         Jump(rom[ipc].target), ipc' = rom[ipc].target, istack' = istack,
         rstack' = rstack, iisr' = iisr, over' = Parts(rom[ipc])
  PROVE  Keeps
<1> DEFINE t == rom[ipc].target
<1>1. /\ t \in Addr /\ has_target(rom[ipc])
      /\ InRom(t) => t \in prog[Top.fn] \cup DOMAIN prog
  BY AtTheTop, FunctionFacts, ImageFacts DEF IInv, TypeOK, Jumps
<1>2. CASE t \in prog[Top.fn]
  <2>1. frames' = Resume(t) /\ risr' = risr
    BY <1>2 DEF Jump
  <2>2. /\ frames' \in Seq(Frames)
        /\ NoOverlap => Aligned(frames', istack, t)
    BY <1>2, <2>1, Resumes
  <2> QED BY <1>1, <2>1, <2>2, AtTheTop DEF Keeps, IInv, Alike, Together
<1>3. CASE t \notin prog[Top.fn] /\ t \in DOMAIN prog
  <2> DEFINE f == Entered(t, Top.isr)
  <2>1. frames' = [frames EXCEPT ![Len(frames)] = f] /\ risr' = risr
    BY <1>3 DEF Jump
  <2>2. Top.isr \in BOOLEAN
    BY AtTheTop DEF Frames, Frame
  <2>3. f \in Frames /\ f \in Frame /\ f.at = t
    BY <1>3, <2>2, Enters
  <2> HIDE DEF f, t
  <2>4. frames' \in Seq(Frames)
    BY <2>1, <2>3, AtTheTop, StackReplace
  <2>5. ASSUME NoOverlap PROVE Aligned(frames', istack, t)
    BY <2>1, <2>3, <2>5, AtTheTop, AlignedReplace
       DEF IInv, Alike, Together
  <2> QED BY <1>1, <2>1, <2>4, <2>5, AtTheTop
          DEF Keeps, IInv, Alike, Together, t
<1>4. CASE t \notin prog[Top.fn] /\ t \notin DOMAIN prog
  <2>1. frames' = Front(frames) /\ ~InRom(t)
    BY <1>1, <1>4 DEF Jump, CReturn
  <2>2. over'
    BY <2>1 DEF Parts
  <2> QED BY <1>1, <2>1, <2>2, AtTheTop DEF Keeps
<1> QED BY <1>2, <1>3, <1>4

\* An undefined opcode ends the comparison.
LEMMA Traps ==
  ASSUME IInv, Together, CReturn, ipc' = NextOf(ipc), istack' = istack,
         rstack' = rstack, over'
  PROVE  Keeps
BY AtTheTop DEF Keeps, CReturn

\* A call that leaves the image puts a return address on one stack only.
LEMMA CallsOut ==
  ASSUME IInv, Together, Calls(ipc), ~InRom(rom[ipc].target),
         Call(rom[ipc]), ipc' = NextOf(ipc), istack' = istack, iisr' = iisr,
         over' = Parts(rom[ipc])
  PROVE  Keeps
<1>1. /\ FallsThrough(ipc) /\ Calls(ipc) /\ rom[ipc].target \notin DOMAIN prog
      /\ ~NoWildCalls
  <2>1. \A e \in DOMAIN prog : e \in RomAddr
    BY DEF IInv, TypeOK
  <2>2. FallsThrough(ipc)
    BY DEF FallsThrough, Calls, is_call, ends_block, is_ret
  <2> QED BY <2>1, <2>2, AtTheTop DEF InRom, NoWildCalls
<1>2. /\ frames' = Resume(Behind(Top)) /\ risr' = risr
      /\ rstack' = Append(rstack, NextOf(ipc))
  BY <1>1, AtTheTop DEF Call
<1>3. /\ Behind(Top) \in prog[Top.fn] \cup {End}
      /\ NoOverlap => Behind(Top) = Below(NextOf(ipc))
  BY <1>1, AtTheTop, BehindIs DEF IInv
<1>4. /\ frames' \in Seq(Frames)
      /\ NoOverlap => Aligned(frames', istack, Behind(Top))
  BY <1>2, <1>3, Resumes
<1>5. rstack' \in Seq(Addr)
  BY <1>2, AtTheTop, StackPush
<1>6. ~over' => Below(NextOf(ipc)) = ipc'
  BY DEF Parts, Below
<1> QED BY <1>1, <1>2, <1>3, <1>4, <1>5, <1>6, AtTheTop
        DEF Keeps, IInv, Alike, Together

\* A call inside the image: the C frame will continue at the return address.
LEMMA CallsIn ==
  ASSUME IInv, Together, Calls(ipc), InRom(rom[ipc].target),
         Call(rom[ipc]), ipc' = rom[ipc].target,
         istack' = Append(istack, NextOf(ipc)), iisr' = iisr
  PROVE  Keeps
<1> DEFINE t == rom[ipc].target
           g == Entered(t, FALSE)
<1>1. FallsThrough(ipc) /\ has_target(rom[ipc])
  BY DEF FallsThrough, Calls, is_call, ends_block, is_ret, has_target
<1>2. t \in DOMAIN prog /\ t \in Addr
  <2>1. IsImage(rom) /\ RomAddr \subseteq Addr
    BY ImageFacts DEF IInv, TypeOK
  <2>2. t \in DOMAIN prog
    BY FunctionFacts, AtTheTop DEF IInv
  <2> QED BY <2>1, <2>2 DEF InRom
<1>3. /\ frames' = Append(Resume(Behind(Top)), g) /\ risr' = risr
      /\ rstack' = Append(rstack, NextOf(ipc))
  BY <1>2, AtTheTop DEF Call
<1>4. g \in Frames /\ g \in Frame /\ g.at = t
  BY <1>2, Enters
<1>5. /\ Behind(Top) \in prog[Top.fn] \cup {End}
      /\ NoOverlap => Behind(Top) = Below(NextOf(ipc))
  BY <1>1, AtTheTop, BehindIs DEF IInv
<1> DEFINE r == Resume(Behind(Top))
<1>6. r \in Seq(Frames) /\ (NoOverlap => Aligned(r, istack, Behind(Top)))
  BY <1>5, Resumes
<1>7. frames' = Append(r, g)
  BY <1>3
<1> HIDE DEF r, g, t
<1>8. /\ frames' \in Seq(Frames) /\ rstack' \in Seq(Addr)
      /\ Len(rstack') = Len(rstack) + 1
  BY <1>3, <1>4, <1>6, <1>7, AtTheTop, StackPush
<1>9. istack' \in Seq(Addr) /\ Len(istack') = Len(istack) + 1
  BY AtTheTop, StackPush
<1>10. ASSUME NoOverlap PROVE Aligned(frames', istack', t)
  <2>1. r \in Seq(Frame)
    BY <1>6 DEF Frames
  <2> QED BY <1>4, <1>5, <1>6, <1>7, <1>10, <2>1, AtTheTop, AlignedPush
<1> QED BY <1>2, <1>3, <1>8, <1>9, <1>10 DEF Keeps, IInv, Alike, Together, t

\* A return: where the interpreter's return address is, there the C frame
\* below continues.  With none, or one outside the image, it is over.
LEMMA Returns ==
  ASSUME IInv, Together, NEW in, in = rom[ipc], is_ret(in),
         Return(in), Interpret(in, TRUE), over' = Parts(in)
  PROVE  Keeps
<1>1. /\ frames' = Front(frames) /\ frames' \in Seq(Frames)
      /\ risr' = (risr /\ in.flow # "reti" /\ ~Top.isr)
      /\ rstack' = IF rstack = <<>> THEN rstack ELSE Front(rstack)
  BY AtTheTop DEF Return
<1>2. /\ ipc' = IF istack = <<>> THEN Nowhere ELSE Last(istack)
      /\ istack' = IF istack = <<>> THEN istack ELSE Front(istack)
      /\ iisr' = (iisr /\ in.flow # "reti")
  BY DEF Interpret
<1>3. /\ istack # <<>> => /\ Front(istack) \in Seq(Addr) /\ Last(istack) \in Addr
                          /\ Len(Front(istack)) = Len(istack) - 1
      /\ rstack # <<>> => /\ Front(rstack) \in Seq(Addr)
                          /\ Len(Front(rstack)) = Len(rstack) - 1
      /\ istack \in Seq(Addr) /\ rstack \in Seq(Addr)
  BY AtTheTop, StackPop
<1>4. ipc' \in Addr \cup {Nowhere} /\ istack' \in Seq(Addr) /\ rstack' \in Seq(Addr)
  BY <1>1, <1>2, <1>3
<1>5. ASSUME NoOverlap, ~over'
      PROVE  /\ Aligned(frames', istack', ipc') /\ (risr' => iisr')
             /\ NoWildCalls => Len(rstack') = Len(istack')
  <2>1. InRom(ipc') /\ Nowhere \notin RomAddr
    BY <1>5, ImageFacts DEF Parts, IInv, TypeOK
  <2>2. istack # <<>>
    BY <1>2, <2>1 DEF InRom
  <2>3. /\ Aligned(frames, istack, ipc) /\ (risr => iisr)
        /\ NoWildCalls => Len(rstack) = Len(istack)
    BY <1>5 DEF IInv, Alike, Together
  <2>4. Aligned(frames', istack', ipc')
    <3>1. frames \in Seq(Frame)
      BY AtTheTop
    <3>2. Below(Last(istack)) = ipc'
      BY <1>2, <2>1, <2>2 DEF Below
    <3> QED BY <1>1, <1>2, <1>3, <2>2, <2>3, <3>1, <3>2, AlignedPop
  <2>5. risr' => iisr'
    BY <1>1, <1>2, <2>3
  <2>6. ASSUME NoWildCalls PROVE Len(rstack') = Len(istack')
    <3>1. Len(rstack) = Len(istack) /\ istack # <<>>
      BY <2>2, <2>3, <2>6
    <3>2. rstack # <<>>
      BY <1>3, <3>1, EmptySeq
    <3> QED BY <1>1, <1>2, <1>3, <3>1, <3>2
  <2> QED BY <2>4, <2>5, <2>6
<1> QED BY <1>1, <1>4, <1>5 DEF Keeps

\* An interrupt: both will come back to the instruction they are at.
LEMMA Interrupts ==
  ASSUME IInv, NEW v \in Vectors, Interrupt(v)
  PROVE  Keeps
<1> DEFINE g == Entered(v, TRUE)
<1>1. /\ Together /\ v \in DOMAIN prog /\ ipc' = v /\ iisr' = TRUE
      /\ istack' = Append(istack, ipc) /\ frames' = Append(frames, g)
      /\ rstack' = Append(rstack, 0) /\ risr' = TRUE /\ over' = over
  BY DEF Interrupt
<1>2. g \in Frames /\ g \in Frame /\ g.at = v
  BY <1>1, Enters
<1> HIDE DEF g
<1>3. 0 \in Addr /\ v \in Addr
  BY <1>1, ImageFacts DEF IInv, TypeOK
<1>4. /\ frames' \in Seq(Frames) /\ rstack' \in Seq(Addr) /\ istack' \in Seq(Addr)
      /\ Len(rstack') = Len(rstack) + 1 /\ Len(istack') = Len(istack) + 1
  BY <1>1, <1>2, <1>3, AtTheTop, StackPush
<1>5. ASSUME NoOverlap PROVE Aligned(frames', istack', ipc')
  <2>1. Below(ipc) = ipc
    BY <1>1, AtTheTop DEF Below, InRom
  <2>2. Aligned(frames, istack, ipc)
    BY <1>1, <1>5 DEF IInv, Alike, Together
  <2> QED BY <1>1, <1>2, <2>1, <2>2, AtTheTop, AlignedPush
<1> QED BY <1>1, <1>3, <1>4, <1>5 DEF Keeps, IInv, Alike, Together

\* One instruction, by what it does to control.
LEMMA Instructions ==
  ASSUME IInv, NEW taken \in BOOLEAN, Insn1(taken)
  PROVE  Keeps
<1> DEFINE in == rom[ipc]
<1>1. /\ Together /\ Interpret(in, taken) /\ Generated(in, taken)
      /\ over' = Parts(in) /\ (in.flow # "branch" => taken)
  BY DEF Insn1
<1>2. in.flow \in Flow /\ After(ipc, in) = NextOf(ipc)
  BY <1>1, AtTheTop, ImageFacts DEF IInv, TypeOK
<1>3. CASE in.flow = "call"
  <2>1. /\ ~is_ret(in) /\ ~GoesToTarget(in, taken) /\ Calls(ipc) /\ Call(in)
        /\ Called(in) <=> InRom(in.target)
    BY <1>1, <1>3 DEF is_ret, GoesToTarget, Calls, is_call, Called, Generated
  <2>2. CASE InRom(in.target)
    <3>1. /\ ipc' = in.target /\ iisr' = iisr
          /\ istack' = Append(istack, NextOf(ipc))
      BY <1>1, <1>2, <2>1, <2>2 DEF Interpret
    <3> QED BY <1>1, <2>1, <2>2, <3>1, CallsIn
  <2>3. CASE ~InRom(in.target)
    <3>1. ipc' = NextOf(ipc) /\ iisr' = iisr /\ istack' = istack
      BY <1>1, <1>2, <2>1, <2>3 DEF Interpret
    <3> QED BY <1>1, <2>1, <2>3, <3>1, CallsOut
  <2> QED BY <2>2, <2>3
<1>4. CASE is_ret(in)
  <2>1. Return(in)
    <3>1. in.flow # "call" /\ in.flow # "invalid" /\ ~GoesToTarget(in, taken)
      BY <1>4 DEF is_ret, GoesToTarget
    <3> HIDE DEF in
    <3> QED BY <1>1, <1>4, <3>1 DEF Generated
  <2>2. Interpret(in, TRUE)
    BY <1>1, <1>4 DEF Interpret
  <2> QED BY <1>1, <1>4, <2>1, <2>2, Returns
<1>5. CASE in.flow = "invalid"
  <2>1. CReturn /\ rstack' = rstack
    <3>1. in.flow # "call" /\ ~is_ret(in) /\ ~GoesToTarget(in, taken)
      BY <1>5 DEF is_ret, GoesToTarget
    <3> HIDE DEF in
    <3> QED BY <1>1, <1>5, <3>1 DEF Generated
  <2>2. ipc' = NextOf(ipc) /\ istack' = istack
    BY <1>1, <1>2, <1>5 DEF Interpret, is_ret, GoesToTarget, Called
  <2>3. over'
    BY <1>1, <1>5 DEF Parts
  <2> QED BY <1>1, <2>1, <2>2, <2>3, Traps
<1>6. CASE GoesToTarget(in, taken)
  <2>1. Jumps(ipc) /\ Jump(in.target) /\ rstack' = rstack
    BY <1>1, <1>6 DEF Generated, is_ret, GoesToTarget, Jumps, has_target, is_call
  <2>2. ipc' = in.target /\ istack' = istack /\ iisr' = iisr
    BY <1>1, <1>6 DEF Interpret, is_ret, GoesToTarget, Called
  <2> QED BY <1>1, <2>1, <2>2, GoesAway
<1>7. CASE in.flow # "call" /\ ~is_ret(in) /\ in.flow # "invalid"
           /\ ~GoesToTarget(in, taken)
  <2>1. /\ frames' = Resume(Behind(Top)) /\ rstack' = rstack /\ risr' = risr
    BY <1>1, <1>7 DEF Generated
  <2>2. ipc' = NextOf(ipc) /\ istack' = istack /\ iisr' = iisr
    BY <1>1, <1>2, <1>7 DEF Interpret, Called
  <2>3. FallsThrough(ipc)
    BY <1>7 DEF FallsThrough, ends_block, GoesToTarget
  <2> QED BY <1>1, <2>1, <2>2, <2>3, GoesOn
<1> QED BY <1>3, <1>4, <1>5, <1>6, <1>7

LEMMA StepTypes ==
  ASSUME IInv, Next
  PROVE  /\ iisr' \in BOOLEAN /\ risr' \in BOOLEAN /\ over' \in BOOLEAN
<1>1. iisr \in BOOLEAN /\ risr \in BOOLEAN /\ over \in BOOLEAN
  BY DEF IInv, TypeOK
<1>2. CASE \E taken \in BOOLEAN : Insn1(taken)
  <2>1. PICK taken \in BOOLEAN : Insn1(taken)
    BY <1>2
  <2>2. over' \in BOOLEAN /\ iisr' \in BOOLEAN
    BY <1>1, <2>1 DEF Insn1, Parts, InRom, Interpret
  <2>3. risr' \in BOOLEAN
    BY <1>1, <2>1 DEF Insn1, Generated, Call, Return, CReturn, Jump
  <2> QED BY <2>2, <2>3
<1>3. CASE \E v \in Vectors : Interrupt(v)
  BY <1>1, <1>3 DEF Interrupt
<1> QED BY <1>2, <1>3 DEF Next

\* The invariant holds initially and every step keeps it.
LEMMA StartInv == Init => IInv
<1> SUFFICES ASSUME Init PROVE IInv
  OBVIOUS
<1>1. /\ IsImage(rom) /\ Compiled /\ ipc = 0 /\ istack = <<>> /\ ~iisr
      /\ frames = <<Entered(0, FALSE)>> /\ rstack = <<>> /\ ~risr /\ ~over
      /\ iisr = FALSE /\ risr = FALSE /\ over = FALSE
  BY DEF Init, Start, Compiled
<1>2. 0 \in Addr /\ RomAddr \subseteq Addr
  BY <1>1, ImageFacts
<1>3. DOMAIN prog = Entries /\ Entries \in SUBSET RomAddr
      /\ \A e \in Entries : prog[e] \in SUBSET RomAddr
  BY <1>1 DEF Compiled, Entries, Body, Least, RomAddr
<1> DEFINE g == Entered(0, FALSE)
<1>4. g \in Frame /\ g.at = 0 /\ g.fn = 0
  BY <1>1, ImageFacts DEF Entered, Frame
<1> HIDE DEF g
<1>5. TypeOK
  <2>1. frames \in Seq(Frame)
    <3>1. frames = <<g>>
      BY <1>1 DEF g
    <3> QED BY <1>4, <3>1
  <2>2. istack \in Seq(Addr) /\ rstack \in Seq(Addr)
    BY <1>1
  <2>3. /\ DOMAIN prog \in SUBSET RomAddr
        /\ prog \in [DOMAIN prog -> SUBSET RomAddr]
    BY <1>1, <1>3 DEF Compiled
  <2> QED BY <1>1, <1>2, <2>1, <2>2, <2>3 DEF TypeOK
<1>6. 0 \in DOMAIN prog /\ 0 \in prog[0]
  BY <1>1, <1>5, FunctionFacts
<1>7. g \in Frames
  BY <1>4, <1>6 DEF Frames
<1>8. frames \in Seq(Frames)
  <2>1. frames = <<g>>
    BY <1>1 DEF g
  <2> HIDE DEF Frames
  <2> QED BY <1>7, <2>1
<1>9. Alike
  <2>1. frames = <<g>>
    BY <1>1 DEF g
  <2>2. Len(frames) = 1 /\ frames[1] = g /\ Len(istack) = 0 /\ Len(rstack) = 0
    <3>1. istack = <<>> /\ rstack = <<>>
      BY <1>1
    <3> QED BY <2>1, <3>1
  <2>3. Aligned(frames, istack, ipc)
    <3>1. g.at = ipc
      BY <1>1, <1>4
    <3> QED BY <2>2, <3>1 DEF Aligned
  <2> QED BY <1>1, <2>2, <2>3 DEF Alike
<1> QED BY <1>1, <1>5, <1>8, <1>9 DEF IInv

LEMMA StepInv == IInv /\ [Next]_vars => IInv'
<1> SUFFICES ASSUME IInv, [Next]_vars PROVE IInv'
  OBVIOUS
<1>1. CASE Next
  <2>1. rom' = rom /\ prog' = prog
    BY <1>1 DEF Next, Insn1, Interrupt
  <2>2. Keeps
    BY <1>1, Instructions, Interrupts DEF Next
  <2>3. /\ Compiled' /\ NoOverlap' = NoOverlap /\ NoWildCalls' = NoWildCalls
        /\ Frames' = Frames /\ IsImage(rom)' = IsImage(rom)
    BY <2>1, SameProgram DEF IInv
  <2>4. frames' \in Seq(Frames)'
    BY <2>2, <2>3 DEF Keeps
  <2>5. TypeOK'
    <3>1. frames' \in Seq(Frame)
      <4>1. frames' \in Seq(Frames) /\ Frames \subseteq Frame
        BY <2>2 DEF Keeps, Frames
      <4> HIDE DEF Frames, Frame
      <4> QED BY <4>1
    <3>2. Frame' = Frame
      BY <2>1 DEF Frame, RomAddr
    <3> QED BY <1>1, <3>2, <2>1, <2>2, <2>3, <3>1, StepTypes
            DEF TypeOK, Keeps, IInv, RomAddr
  <2>6. Alike'
    BY <2>1, <2>2, <2>3 DEF Keeps, Alike, Aligned, Below, InRom, RomAddr
  <2> QED BY <2>3, <2>4, <2>5, <2>6 DEF IInv
<1>2. CASE UNCHANGED vars
  <2>1. rom' = rom /\ prog' = prog
    BY <1>2 DEF vars
  <2>2. /\ Compiled' /\ NoOverlap' = NoOverlap /\ NoWildCalls' = NoWildCalls
        /\ Frames' = Frames /\ IsImage(rom)' = IsImage(rom)
    BY <2>1, SameProgram DEF IInv
  <2> QED BY <1>2, <2>1, <2>2
          DEF IInv, TypeOK, Alike, Aligned, Below, InRom, RomAddr, Frame, vars
<1> QED BY <1>1, <1>2

-----------------------------------------------------------------------------
(* The theorems.                                                            *)

\* Every instruction, return and interrupt leaves the frames of the C stack
\* matching the return addresses on the emulated one.
THEOREM Invariance == Spec => []IInv
BY StartInv, StepInv, PTL DEF Spec

\* The pc, the return addresses and the C stack stay addresses and functions
\* of the image.
THEOREM TypeCorrect == Spec => []TypeOK
BY Invariance, PTL DEF IInv

\* Where instructions do not overlap, generated code executes the instruction
\* the interpreter executes (docs/ARCHITECTURE.md:94-100).
THEOREM StaysTogether == Spec => []SameInstruction
<1>1. IInv => SameInstruction
  <2> SUFFICES ASSUME IInv, NoOverlap, ~over
               PROVE  frames # <<>> /\ Top.at = ipc
    BY DEF SameInstruction
  <2>1. /\ Len(frames) = Len(istack) + 1 /\ frames[Len(frames)].at = ipc
        /\ istack \in Seq(Addr) /\ frames \in Seq(Frame)
    BY DEF IInv, TypeOK, Alike, Aligned
  <2> QED BY <2>1, EmptySeq DEF Top, Last
<1> QED BY <1>1, Invariance, PTL

\* Every routine and handler below continues where the interpreter's return
\* addresses say.
THEOREM ReturnsAlike == Spec => []SameReturns
<1>1. IInv => SameReturns
  BY DEF IInv, Alike, Aligned, Below, SameReturns
<1> QED BY <1>1, Invariance, PTL

\* SP is the same in both as long as no call leaves the image.
THEOREM SameStackPointer == Spec => []SameSP
<1>1. IInv => SameSP
  BY DEF IInv, Alike, NoWildCalls, SameSP
<1> QED BY <1>1, Invariance, PTL

\* Generated code never holds back interrupts the interpreter delivers.
THEOREM NoLongerMasked == Spec => []MasksNoMore
<1>1. IInv => MasksNoMore
  BY DEF IInv, Alike, MasksNoMore
<1> QED BY <1>1, Invariance, PTL
-----------------------------------------------------------------------------
(* What remains of SameSP where calls leave the image.                      *)

\* Pairs of bytes on the emulated stack of generated code only.
Drift == Len(rstack) - Len(istack)

LeavesTheImage ==
  /\ \E taken \in BOOLEAN : Insn1(taken)
  /\ Calls(ipc) /\ ~InRom(rom[ipc].target)

DInv == ~over => Drift >= 0

\* The stacks are as deep as numbers say.
LEMMA Depths ==
  ASSUME TypeOK
  PROVE  /\ Len(istack) \in Nat /\ Len(rstack) \in Nat
         /\ \A a : Len(Append(istack, a)) = Len(istack) + 1
         /\ \A a : Len(Append(rstack, a)) = Len(rstack) + 1
         /\ istack # <<>> => Len(Front(istack)) = Len(istack) - 1
         /\ rstack # <<>> => Len(Front(rstack)) = Len(rstack) - 1
         /\ istack = <<>> <=> Len(istack) = 0
         /\ rstack = <<>> <=> Len(rstack) = 0
<1>1. istack \in Seq(Addr) /\ rstack \in Seq(Addr)
  BY DEF TypeOK
<1> QED BY <1>1, StackPop, EmptySeq

\* An instruction that is followed by another one moves both stacks alike,
\* but for a call that leaves the image.
LEMMA DriftOfInstruction ==
  ASSUME TypeOK, DInv, NEW taken \in BOOLEAN, Insn1(taken), ~over'
  PROVE  IF Calls(ipc) /\ ~InRom(rom[ipc].target)
         THEN Drift' = Drift + 1 ELSE Drift' = Drift
<1> DEFINE in == rom[ipc]
<1>1. /\ ~over /\ Interpret(in, taken) /\ Generated(in, taken)
      /\ over' = Parts(in)
  BY DEF Insn1, Together
<1>2. in.flow # "invalid" /\ InRom(ipc')
  BY <1>1 DEF Parts
<1> DEFINE i == Len(istack)
           r == Len(rstack)
<1>3. i \in Nat /\ r \in Nat /\ r >= i
  BY <1>1, Depths DEF DInv, Drift
<1>4. CASE in.flow = "call"
  <2>1. Calls(ipc) /\ ~is_ret(in) /\ (Called(in) <=> InRom(in.target))
    BY <1>4 DEF Calls, is_call, is_ret, Called
  <2>2. rstack' = Append(rstack, After(Top.at, in))
    <3>1. ~is_ret(in) /\ ~GoesToTarget(in, taken)
      BY <1>4 DEF is_ret, GoesToTarget
    <3> HIDE DEF in
    <3>2. Call(in)
      BY <1>1, <1>2, <1>4, <3>1 DEF Generated
    <3> QED BY <3>2 DEF Call
  <2>3. Len(rstack') = r + 1
    BY <2>2, Depths
  <2>4. CASE InRom(in.target)
    <3>1. istack' = Append(istack, After(ipc, in))
      BY <1>1, <2>1, <2>4 DEF Interpret
    <3>2. Len(istack') = i + 1
      BY <3>1, Depths
    <3>3. Drift' = Drift
      BY <1>3, <2>3, <3>2 DEF Drift
    <3> QED BY <2>4, <3>3
  <2>5. CASE ~InRom(in.target)
    <3>1. istack' = istack
      BY <1>1, <2>1, <2>5 DEF Interpret
    <3>2. Drift' = Drift + 1
      BY <1>3, <2>3, <3>1 DEF Drift
    <3> QED BY <2>1, <2>5, <3>2
  <2> QED BY <2>4, <2>5
<1>5. ASSUME in.flow # "call" PROVE ~Calls(ipc)
  BY <1>5 DEF Calls, is_call
<1>6. CASE is_ret(in)
  <2>1. in.flow # "call" /\ ~GoesToTarget(in, taken)
    BY <1>6 DEF is_ret, GoesToTarget
  <2>2. Return(in)
    <3> HIDE DEF in
    <3> QED BY <1>1, <1>2, <1>6, <2>1 DEF Generated
  <2>3. istack # <<>>
    <3>1. Nowhere \notin RomAddr
      BY ImageFacts DEF TypeOK
    <3> QED BY <1>1, <1>2, <1>6, <3>1 DEF Interpret, InRom
  <2>4. istack' = Front(istack)
    BY <1>1, <1>6, <2>3 DEF Interpret
  <2>5. rstack # <<>>
    BY <1>3, <2>3, Depths
  <2>6. rstack' = Front(rstack)
    BY <2>2, <2>5 DEF Return
  <2>7. Len(istack') = i - 1 /\ Len(rstack') = r - 1
    BY <2>3, <2>4, <2>5, <2>6, Depths
  <2>8. Drift' = Drift
    BY <1>3, <2>7 DEF Drift
  <2> QED BY <1>5, <2>1, <2>8
<1>7. CASE in.flow # "call" /\ ~is_ret(in)
  <2>1. istack' = istack
    BY <1>1, <1>7 DEF Interpret, Called
  <2>2. rstack' = rstack
    <3> HIDE DEF in
    <3> QED BY <1>1, <1>2, <1>7 DEF Generated
  <2> QED BY <1>5, <1>7, <2>1, <2>2 DEF Drift
<1> QED BY <1>4, <1>6, <1>7

LEMMA DriftOfInterrupt ==
  ASSUME TypeOK, NEW v, Interrupt(v)
  PROVE  Drift' = Drift
<1>1. /\ istack' = Append(istack, ipc) /\ rstack' = Append(rstack, 0)
  BY DEF Interrupt
<1>2. Len(istack') = Len(istack) + 1 /\ Len(rstack') = Len(rstack) + 1
  BY <1>1, Depths
<1> QED BY <1>2, Depths DEF Drift

LEMMA DriftStep ==
  ASSUME IInv, DInv, Next, ~over'
  PROVE  Drift' = Drift + (IF LeavesTheImage THEN 1 ELSE 0)
<1>1. TypeOK /\ Drift \in Int
  BY Depths DEF IInv, Drift
<1>2. CASE LeavesTheImage
  <2>1. Drift' = Drift + 1
    BY <1>1, <1>2, DriftOfInstruction DEF LeavesTheImage
  <2> QED BY <1>2, <2>1
<1>3. CASE ~LeavesTheImage
  <2>1. CASE \E taken \in BOOLEAN : Insn1(taken)
    <3>1. Drift' = Drift
      BY <1>1, <1>3, <2>1, DriftOfInstruction DEF LeavesTheImage
    <3> QED BY <1>1, <1>3, <3>1
  <2>2. CASE \E v \in Vectors : Interrupt(v)
    <3>1. Drift' = Drift
      BY <1>1, <2>2, DriftOfInterrupt
    <3> QED BY <1>1, <1>3, <3>1
  <2> QED BY <2>1, <2>2 DEF Next
<1> QED BY <1>2, <1>3

LEMMA DriftNext == IInv /\ DInv /\ [Next]_vars => DInv'
<1> SUFFICES ASSUME IInv, DInv, [Next]_vars, ~over'
             PROVE  (Drift >= 0)'
  BY DEF DInv
<1>1. CASE Next
  <2>1. Drift' = Drift + (IF LeavesTheImage THEN 1 ELSE 0)
    BY <1>1, DriftStep
  <2>2. Drift \in Nat
    <3>1. ~over
      BY <1>1 DEF Next, Insn1, Interrupt, Together
    <3> QED BY <3>1, Depths DEF IInv, DInv, Drift
  <2>3. Drift' = Drift \/ Drift' = Drift + 1
    BY <2>1, <2>2
  <2> QED BY <2>2, <2>3
<1>2. CASE UNCHANGED vars
  BY <1>2 DEF vars, DInv, Drift
<1> QED BY <1>1, <1>2

\* vmurun.c:123-127 and recomp_rt.c:227, what is true of them: SP of generated
\* code stands above the interpreter's by one pair of bytes for every call that
\* has left the image, and nothing else, no return and no handler, moves them
\* apart or together again.
THEOREM DriftsByWildCalls ==
  Spec => /\ [](~over => Drift >= 0)
          /\ [][~over' =>
                  Drift' = Drift + (IF LeavesTheImage THEN 1 ELSE 0)]_vars
<1>1. Init => DInv
  BY DEF Init, Start, DInv, Drift
<1>2. IInv /\ DInv /\ [Next]_vars =>
        [~over' => Drift' = Drift + (IF LeavesTheImage THEN 1 ELSE 0)]_vars
  BY DriftStep
<1>3. DInv => (~over => Drift >= 0)
  BY DEF DInv
<1> QED BY <1>1, <1>2, <1>3, DriftNext, Invariance, PTL DEF Spec
=============================================================================
