------------------------------ MODULE VmsImage ------------------------------
(* The container formats, tools/lc8670recomp/vms.c: what kind of image a    *)
(* file holds, and the image itself.  The header's text fields, which are   *)
(* only printed, and the CRC, which nothing reads, are left out.            *)
EXTENDS Decode

HDR_GAME_OFF == 512
HDR_SIZE == 128
DCI_HDR == 32
BlockSize == 512
DciGame == 204               \* 0xCC
DciData == 51                \* 0x33

rd16(f, o) == Byte(f, o) + 256 * Byte(f, o + 1)

\* At most 3 icons, and a description of printable characters.
looks_like_header(f, h) ==
  /\ rd16(f, h + 64) <= 3
  /\ \A i \in 0 .. 15 : Byte(f, h + i) >= 32 \/ Byte(f, h + i) = 0

is_dci_GameOnly(f) ==
  /\ f.size > DCI_HDR /\ Byte(f, 0) = DciGame
  /\ (f.size - DCI_HDR) % BlockSize = 0
is_dci(f) ==
  /\ f.size > DCI_HDR /\ Byte(f, 0) \in {DciGame, DciData}
  /\ (f.size - DCI_HDR) % BlockSize = 0

\* Where the o-th of n bytes goes: words are turned around, a rest is not.
Place(n, o) == IF o < n - (n % 4) THEN o + 3 - 2 * (o % 4) ELSE o

unwrap_dci(f) ==
  LET n == f.size - DCI_HDR
      from == [o \in {Place(n, q - DCI_HDR) :
                        q \in {q \in DOMAIN f.at : q >= DCI_HDR}} |->
                 DCI_HDR + Place(n, o)]
  IN [size |-> n, fill |-> f.fill, at |-> [o \in DOMAIN from |-> f.at[from[o]]]]

Kind(rom) ==
  IF /\ rom.size >= HDR_GAME_OFF + HDR_SIZE
     /\ looks_like_header(rom, HDR_GAME_OFF) THEN "game"
  ELSE IF rom.size >= HDR_SIZE /\ looks_like_header(rom, 0) THEN "data"
  ELSE "raw"

\* vms_parse of a file that is not empty, memory permitting.
vms_parse(f) ==
  LET rom == IF is_dci(f) THEN unwrap_dci(f) ELSE f IN
  [kind |-> Kind(rom), rom |-> rom]

Runnable(info) == info.kind # "data"
=============================================================================
