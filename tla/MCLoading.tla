----------------------------- MODULE MCLoading -----------------------------
(* Every opcode with operand bytes around the sign and the ends of a byte:  *)
(* at the start of images of 1 to 4 bytes, across the end of a segment, at  *)
(* the end of the address space and across the end of a 64 KB image.  And   *)
(* games, data files and dumps with and without what looks like a header.   *)
EXTENDS Loading, TLC

Bytes == 0 .. 255
Edges == {0, 127, 128, 255}

Im(s, fill, at) ==
  [size |-> s, fill |-> fill, at |-> [o \in {o \in DOMAIN at : o < s} |-> at[o]]]

Small == {Im(s, 0, 0 :> b @@ 1 :> b1 @@ 2 :> b2) :
            s \in 1 .. 4, b \in Bytes, b1 \in Edges, b2 \in {127, 128}}

\* b and what follows, at address a of an image of 64 KB or more.
Far(a, s, b, b1, b2) == Im(s, 255, a :> b @@ a + 1 :> b1 @@ a + 2 :> b2)

Large == {Far(a, 65536, b, 18, 254) :
            a \in {4093, 4094, 65533, 65534, 65535}, b \in Bytes}
           \cup {Far(65535, 66048, b, 18, 254) : b \in Bytes}

\* Headers: printable or not, with a sane number of icons or not, in the
\* first or the second block, of files of whole blocks and others.
Headed ==
  {Im(s, fill, 0 :> b @@ h + 1 :> c @@ h + 64 :> k @@ h + 65 :> 0) :
     s \in {128, 512, 544, 640, 1024}, fill \in {0, 65, 255},
     b \in {33, 51, 204}, h \in {0, 512}, c \in {7, 65}, k \in {3, 4}}

MCImages == Small \cup Large \cup Headed
=============================================================================
