------------------------------- MODULE MCAlu -------------------------------
(* All bytes, in every pair, with and without carry.                        *)
EXTENDS AluProperties

\* The boundaries of a signed and of an unsigned byte, and between.
MCSamples == {0, 1, 127, 128, 255}
=============================================================================
