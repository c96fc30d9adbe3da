----------------------------- MODULE MCLockstep -----------------------------
(* Every image of up to three bytes, overlapping instructions included, and *)
(* images of four one-byte instructions.  Lengths are scaled down with the  *)
(* address space.                                                           *)
EXTENDS Lockstep

MCSeeds == <<0, 2>>
MCVectors == {2}

Straight == [flow : {"next"}, len : {1}, target : {0}]
Returns == [flow : {"ret", "reti"}, len : {1}, target : {0}]
Undefined == [flow : {"invalid"}, len : {1}, target : {0}]
Transfers(L, T) == [flow : {"branch", "jump", "call"}, len : L, target : T]

Images(n, I) == {r \in [0 .. n - 1 -> I] : Decoded(r, n)}

MCImages ==
  UNION {Images(n, Straight \cup Returns \cup Undefined
                     \cup Transfers({1, 2}, 0 .. n)) : n \in 1 .. 3}
    \cup Images(4, Straight \cup Returns \cup Transfers({1}, {1, 2, 4}))

MCInit == rom \in MCImages /\ Start
MCSpec == MCInit /\ [][Next]_vars
=============================================================================
