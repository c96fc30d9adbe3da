------------------------------ MODULE Program ------------------------------
(* What discovery is to find in an image, stated without worklists: the     *)
(* least sets closed under control flow (tools/lc8670recomp/analyze.h).     *)
EXTENDS Image, Sequences

CONSTANT Seeds               \* VMU_VECTORS and the extra seeds, in order

ASSUME SeedsAssumption ==         \* address 0 is the reset vector
  Seeds \in Seq(Addr) /\ \E i \in 1 .. Len(Seeds) : Seeds[i] = 0

SeedSet == {Seeds[i] : i \in 1 .. Len(Seeds)}

FallsThrough(a) == ~ends_block(rom[a])
Jumps(a) == has_target(rom[a]) /\ ~is_call(rom[a])
Calls(a) == is_call(rom[a])
NextOf(a) == After(a, rom[a])

ClosedUnderFlow(S) ==
  /\ SeedSet \cap RomAddr \subseteq S
  /\ \A a \in S :
       /\ FallsThrough(a) /\ InRom(NextOf(a)) => NextOf(a) \in S
       /\ has_target(rom[a]) /\ InRom(rom[a].target) => rom[a].target \in S

\* The least of a family of sets of addresses, if it is closed under
\* intersection.
Least(family) == {a \in RomAddr : \A S \in family : a \in S}

\* What control can reach from the seeds.
Reached == Least({S \in SUBSET RomAddr : ClosedUnderFlow(S)})

\* The functions: seeds inside the image and what reachable calls call there.
Entries ==
  (SeedSet \cap RomAddr)
    \cup {a \in RomAddr : \E c \in Reached : Calls(c) /\ rom[c].target = a}

\* Of jumps, a function follows those that do not reach another of the
\* functions E.
ClosedInFunction(E, e, S) ==
  /\ e \in S
  /\ \A a \in S :
       /\ FallsThrough(a) /\ InRom(NextOf(a)) => NextOf(a) \in S
       /\ Jumps(a) /\ InRom(rom[a].target)
            /\ (rom[a].target \in E => rom[a].target = e)
              => rom[a].target \in S

\* The instructions of the function entered at e, among functions E.
Body(E, e) == Least({S \in SUBSET RomAddr : ClosedInFunction(E, e, S)})

Lowest(S) == CHOOSE a \in S : \A b \in S : a <= b
=============================================================================
