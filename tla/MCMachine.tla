----------------------------- MODULE MCMachine -----------------------------
(* The machine with sixteen bytes of RAM in a bank, four of work RAM and    *)
(* eight lines of eight dots, with a gap between pairs; code writes the     *)
(* first byte and the fifth of a bank.                                      *)
EXTENDS Machine

\* A table behind two other bytes.
MCRom == [a \in 0 .. 3 |-> IF a >= 2 THEN a ELSE 0]

\* Where the pointers the instructions can form lead in the SFR half.
MCUpperHalf == [i \in RamAddr |-> CASE i = 0 -> Sfr("acc")
                                    [] i = 2 -> Xram(0)
                                    [] OTHER -> Sfr("psw")]
MCOperands == {Ram(0), Ram(9), Sfr("psw"), Sfr("sp"), Sfr("acc"), Xram(0),
               Xram(4), Sfr("xbnk"), Sfr("vsel"), Sfr("vtrbf"), Sfr("p3"),
               Sfr("trl"), Sfr("trh")}

\* One concern at a time: the stack and the banks, the display, the port, the
\* flags.  2 is RAMBK0 and the icon bank, 16 (in 255) VSEL's auto-increment.
Quiet == ResetState(FALSE)
NoStack == live = <<>> /\ m.sp = Quiet.sp /\ m.ram = Quiet.ram
NoDisplay == m.xbnk = 0 /\ m.xram = Quiet.xram /\ ~m.dirty /\ shown = NotShown
NoPort == m.vsel = 0 /\ m.vrmad1 = 0 /\ m.vrmad2 = 0 /\ m.wram = Quiet.wram
NoInput == /\ m.p3 = Quiet.p3 /\ m.buttons = 0
           /\ m.trl = 0 /\ m.trh = 0
NoFlags == m.psw \in 0 .. 3 /\ m.b = 0 /\ m.c = 0

SmallStack ==
  /\ NoDisplay /\ NoPort /\ NoFlags /\ NoInput
  /\ m.acc \in {0, 2}
  /\ \A k \in 0 .. 1, i \in RamAddr : m.ram[k][i] \in {0, 2}
  /\ m.ram[1] = [Quiet.ram[1] EXCEPT ![0] = m.ram[1][0], ![9] = m.ram[1][9]]
  /\ m.sp \in {0, 7, 8, 9, 15} /\ Len(live) <= 2

SmallDisplay ==
  /\ NoStack /\ NoPort /\ NoFlags /\ NoInput
  /\ m.psw < 2 /\ m.acc \in {0, 2} /\ m.xbnk \in {0, 1, 255}
  /\ \A k \in 0 .. 2, i \in 0 .. XramSize - 1 : m.xram[k][i] \in {0, 2}
  /\ Cardinality({<<k, i>> \in (0 .. 2) \X {0, 4} : m.xram[k][i] # 0}) <= 2

SmallPort ==
  /\ NoStack /\ NoDisplay /\ NoFlags /\ NoInput
  /\ m.acc \in {0, 255} /\ m.vsel \in {0, 255}
  /\ \A i \in WramAddr : m.wram[i] \in {0, 255}

SmallFlags ==
  /\ NoStack /\ NoDisplay /\ NoPort /\ NoInput
  /\ {m.acc, m.b, m.c} \subseteq {0, 2, 128, 255}

SmallInput ==
  /\ NoStack /\ NoDisplay /\ NoPort /\ NoFlags
  /\ m.psw < 2 /\ m.p3 \in {0, 255}
  /\ {m.acc, m.trl, m.trh} \subseteq {0, 2, 253, 255}

Small == SmallInput \/ SmallStack \/ SmallDisplay \/ SmallPort \/ SmallFlags

MCSpec == Init /\ [][Next /\ Small']_vars
=============================================================================
