------------------------------ MODULE Loading ------------------------------
(* A file on its way through the tools: lc8670recomp (main.c) parses it and *)
(* lists its instructions or generates code from it; vmurun interprets it;  *)
(* the host (host.c) runs the generated code beside it.                     *)
EXTENDS VmsImage, Sequences

CONSTANTS Images,      \* what the files hold
          Counts,      \* what `dis` may be told to list; 0 is everything
          MaxListing   \* bound: bytes listed when it is everything

ASSUME LoadingConstants == /\ \A im \in Images : IsFile(im)
                           /\ Counts \subseteq Nat

VARIABLES image, file, \* an image and a file that holds it
          phase,
          info,        \* vms_info_t
          pc, n, count,\* of analyze_linear
          insn,        \* what it listed last
          generated,   \* the image the C was generated from
          running      \* the image vmu_reset is given

vars == <<image, file, phase, info, pc, n, count, insn, generated, running>>

None == [none |-> TRUE]

-----------------------------------------------------------------------------
(* A .dci as vms.h and RECOMPILER.md describe it: a directory entry, then   *)
(* the file with every word byte-reversed.                                  *)

WholeBlocks(im) == im.size % BlockSize = 0

DciPlace(o) == 32 + 4 * (o \div 4) + 3 - (o % 4)

InDci(im, type) ==
  [size |-> 32 + im.size, fill |-> im.fill,
   at |-> [o \in {0} \cup {DciPlace(q) : q \in DOMAIN im.at} |->
             IF o = 0 THEN type
             ELSE im.at[CHOOSE q \in DOMAIN im.at : DciPlace(q) = o]]]

Files(im) == {im} \cup {InDci(im, type) : type \in {x \in {DciGame, DciData} :
                                                      WholeBlocks(im)}}

Init ==
  /\ image \in Images /\ file \in Files(image)
  /\ phase = "start" /\ info = None /\ insn = None
  /\ pc = 0 /\ n = 0 /\ count = 0
  /\ generated = None /\ running = None

-----------------------------------------------------------------------------
\* main: a file that cannot be parsed, or holds no code, ends the tool.
Parse ==
  /\ phase = "start"
  /\ info' = vms_parse(file)
  /\ phase' = IF Runnable(info') THEN "parsed" ELSE "rejected"
  /\ UNCHANGED <<image, file, pc, n, count, insn, generated, running>>

\* vms_parse: no memory for the unwrapped copy.
NoMemory ==
  /\ phase = "start" /\ is_dci(file)
  /\ phase' = "rejected"
  /\ UNCHANGED <<image, file, info, pc, n, count, insn, generated, running>>

\* lc8670recomp dis <file> start count
Dis(start, many) ==
  /\ phase = "parsed"
  /\ many = 0 => info.rom.size - start <= MaxListing
  /\ pc' = start /\ n' = 0 /\ count' = many
  /\ phase' = "listing"
  /\ UNCHANGED <<image, file, info, insn, generated, running>>

\* A pass of analyze_linear's loop.  Its pc is a size_t, vmu_decode's is not; n
\* matters only against a count.
Listed_LessOne(p, len) == p + len - 1
Listed(p, len) == p + len

MoreToList == pc < info.rom.size /\ (count = 0 \/ n < count)

ListInsn ==
  /\ phase = "listing" /\ MoreToList
  /\ insn' = vmu_decode(info.rom, U16(pc))
  /\ pc' = Listed(pc, insn'.len) /\ n' = IF count = 0 THEN n ELSE n + 1
  /\ UNCHANGED <<image, file, phase, info, count, generated, running>>

ListingDone ==
  /\ phase = "listing" /\ ~MoreToList
  /\ phase' = "listed"
  /\ UNCHANGED <<image, file, info, pc, n, count, insn, generated, running>>

\* lc8670recomp recomp <file>; what it makes of the image is Discovery and
\* Lockstep.
Recomp ==
  /\ phase = "parsed"
  /\ generated' = info.rom
  /\ phase' = "generated"
  /\ UNCHANGED <<image, file, info, pc, n, count, insn, running>>

\* vmurun <file>
Interpret ==
  /\ phase = "generated"
  /\ running' = vms_parse(file).rom
  /\ phase' = "interpreting"
  /\ UNCHANGED <<image, file, info, pc, n, count, insn, generated>>

\* vmuhost <file>
Host ==
  /\ phase = "generated"
  /\ running' = file
  /\ phase' = "hosting"
  /\ UNCHANGED <<image, file, info, pc, n, count, insn, generated>>

Step == ListInsn \/ ListingDone

Next == \/ Parse \/ NoMemory \/ Recomp \/ Interpret \/ Host
        \/ \E start \in DOMAIN image.at, many \in Counts : Dis(start, many)
        \/ Step

Spec == Init /\ [][Next]_vars
FairSpec == Spec /\ WF_vars(Step)

-----------------------------------------------------------------------------
(* The encoding, as the table at the top of decode.c and docs/CPU.md give   *)
(* it: what an assembler writes for an instruction.                         *)

OpcodeOf ==
  [nop |-> 0, br |-> 1, ld |-> 0, call |-> 8, callr |-> 16, brf |-> 17,
   st |-> 16, callf |-> 32, jmpf |-> 33, mov |-> 32, mul |-> 48, be |-> 48,
   jmp |-> 40, div |-> 64, bne |-> 64, dbnz |-> 80, bpc |-> 72, push |-> 96,
   inc |-> 96, bp |-> 104, pop |-> 112, dec |-> 112, bz |-> 128, add |-> 128,
   bn |-> 136, bnz |-> 144, addc |-> 144, ret |-> 160, sub |-> 160,
   not1 |-> 168, reti |-> 176, subc |-> 176, ror |-> 192, ldc |-> 193,
   xch |-> 192, clr1 |-> 200, rorc |-> 208, or |-> 208, rol |-> 224,
   and |-> 224, set1 |-> 232, rolc |-> 240, xor |-> 240]

\* What the operands put into the first byte.
OpcodeBits(in) ==
  CASE in.mode \in {"i8", "i8_r8"} -> 1
    [] in.mode \in {"d9", "d9_r8", "d9_i8"} ->
         (in.d9 \div 256) + (IF in.op \in {"push", "pop"} THEN 0 ELSE 2)
    [] in.mode \in {"ind", "ind_r8", "ind_i8", "ind_i8_r8"} -> 4 + in.ri
    [] in.mode \in {"d9_b3", "d9_b3_r8"} -> 16 * (in.d9 \div 256) + in.b3
    [] in.mode = "a12" -> 16 * Bit(in.target, 11) + ((in.target \div 256) % 8)
    [] OTHER -> 0

\* A distance of -128 .. 127 as a byte; there is none for any other.
Next16(in) == U16(in.pc + in.len)
Short(in) ==
  LET ahead == U16(in.target - Next16(in))
      behind == U16(Next16(in) - in.target)
  IN IF ahead < 128 THEN ahead ELSE IF behind <= 128 THEN 256 - behind ELSE -1

Low(x) == x % 256
Long(in) == U16(in.target - (Next16(in) - 1))

OperandBytes(in) ==
  CASE in.mode \in {"none", "ind"} -> <<>>
    [] in.mode \in {"i8", "ind_i8"} -> <<in.i8>>
    [] in.mode \in {"d9", "d9_b3"} -> <<Low(in.d9)>>
    [] in.mode = "a12" -> <<Low(in.target)>>
    [] in.mode = "a16" -> <<in.target \div 256, Low(in.target)>>
    [] in.mode = "r16" -> <<Low(Long(in)), Long(in) \div 256>>
    [] in.mode \in {"r8", "ind_r8"} -> <<Short(in)>>
    [] in.mode \in {"d9_r8", "d9_b3_r8"} -> <<Low(in.d9), Short(in)>>
    [] in.mode \in {"i8_r8", "ind_i8_r8"} -> <<in.i8, Short(in)>>
    [] in.mode = "d9_i8" -> <<Low(in.d9), in.i8>>

Assembled(in) == <<OpcodeOf[in.op] + OpcodeBits(in)>> \o OperandBytes(in)

\* What Discovery sees of an instruction.
Flow(op) ==
  CASE op \in {"bz", "bnz", "be", "bne", "dbnz", "bp", "bpc", "bn"} -> "branch"
    [] op \in {"br", "brf", "jmp", "jmpf"} -> "jump"
    [] op \in {"call", "callf", "callr"} -> "call"
    [] op \in {"ret", "reti", "invalid"} -> op
    [] OTHER -> "next"

Seen == [a \in {insn.pc} |-> [flow |-> Flow(insn.op), len |-> insn.len,
                              target |-> insn.target]]

Graph == INSTANCE Image WITH AddrSpace <- 65536, rom <- Seen

-----------------------------------------------------------------------------
(* Properties.                                                              *)

\* An instruction listed says everything its bytes say, in the encoding the
\* table at the top of decode.c describes; only 0x50, 0x51 and an instruction
\* the end of the image cuts off are none (decode.c:29, :160).
Reassembles ==
  insn # None =>
    LET bytes == [i \in 1 .. insn.len |-> Byte(info.rom, insn.pc + i - 1)] IN
    IF insn.op = "invalid"
    THEN bytes[1] \in {80, 81} \/ insn.pc + 3 > info.rom.size
    ELSE Assembled(insn) = bytes

\* What the decoder says of an instruction is what discovery takes for granted
\* of an image: it lies inside, what is no instruction is one byte long, and
\* targets, calls and ends of blocks are marked as such (decode.c:250-256).
DecodesToAnImage ==
  insn # None =>
    LET seen == Seen[insn.pc] IN
    /\ seen \in Graph!Insn
    /\ insn.pc + insn.len <= info.rom.size
    /\ insn.op = "invalid" => insn.len = 1
    /\ insn.has_target = Graph!has_target(seen)
    /\ insn.is_call = Graph!is_call(seen)
    /\ insn.is_ret = Graph!is_ret(seen)
    /\ insn.ends_block = Graph!ends_block(seen)

\* The image is the same whichever container it comes in, and an image of
\* whole blocks is never taken for a .dci (vms.c:89-93).
DciIsTransparent ==
  info # None /\ WholeBlocks(image) => info = [kind |-> Kind(image), rom |-> image]

\* A listing comes to its end, also of an image that fills the address space,
\* and by steps of whole instructions (decode.h:73-74).
ListingEnds == phase = "listing" ~> phase = "listed"

\* What host.c:46-47 asks for: the host runs with the image the code was
\* generated from.
HostSeesTheSameRom == phase = "hosting" => running = generated
=============================================================================
