---------------------------- MODULE MCDiscovery ----------------------------
(* Every image of up to AddrSpace - 1 bytes in which transfers with a       *)
(* target are two bytes long, other instructions one or two, and targets    *)
(* range over the address space; and images that fill the address space, so *)
(* that PC arithmetic wraps into them, with fewer instructions to choose    *)
(* from.                                                                    *)
EXTENDS Discovery

MCSeeds == <<0, 2, AddrSpace - 1>>

Straight == [flow : {"next"}, len : {1, 2}, target : {0}]
Returns == [flow : {"ret"}, len : {1}, target : {0}]
Transfers(T) == [flow : {"branch", "jump", "call"}, len : {2}, target : T]

Images(n, I) == {r \in [0 .. n - 1 -> I] : Decoded(r, n)}

MCImages ==
  UNION {Images(n, Straight \cup Returns \cup Transfers(Addr)) :
           n \in 1 .. AddrSpace - 1}
    \cup Images(AddrSpace, Straight \cup Returns \cup Transfers({1}))

MCInit == rom \in MCImages /\ Start
MCSpec == MCInit /\ [][Next]_vars /\ WF_vars(Step)
=============================================================================
