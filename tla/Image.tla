------------------------------- MODULE Image -------------------------------
(* An image as its readers see it: what vmu_decode says of each address     *)
(* (tools/lc8670recomp/decode.c) that control flow depends on.  `rom` maps  *)
(* every address of the image to the instruction decoded THERE; decoding    *)
(* may start anywhere, so instructions of different addresses can overlap.  *)
EXTENDS Integers

CONSTANT AddrSpace            \* 65536: addresses are uint16_t

ASSUME ImageConstants == AddrSpace \in Nat \ {0}

VARIABLE rom                  \* the image; its domain is 0 .. rom_size - 1

Addr == 0 .. AddrSpace - 1
RomAddr == DOMAIN rom
InRom(a) == a \in RomAddr

\* What an instruction does to control.  "invalid" is an undefined opcode or
\* one whose operands would lie past the end of the image.
Flow == {"next", "branch", "jump", "call", "ret", "reti", "invalid"}

Insn == [flow : Flow, len : 1 .. 3, target : Addr]

has_target(in) == in.flow \in {"branch", "jump", "call"}
is_call(in) == in.flow = "call"
is_ret(in) == in.flow \in {"ret", "reti"}
ends_block(in) == in.flow \in {"jump", "invalid"} \/ is_ret(in)

\* The address behind an instruction; PC arithmetic wraps.
After(pc, in) == (pc + in.len) % AddrSpace

\* What vmu_decode makes of an image of n bytes: operands never reach past
\* its end, and a truncated or undefined opcode is one byte long.
Decoded(r, n) ==
  \A pc \in 0 .. n - 1 : /\ pc + r[pc].len <= n
                         /\ r[pc].flow = "invalid" => r[pc].len = 1

IsImage(r) ==
  \E n \in 1 .. AddrSpace : r \in [0 .. n - 1 -> Insn] /\ Decoded(r, n)
=============================================================================
