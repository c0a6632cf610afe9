---------------------------- MODULE MCFemRawTest ----------------------------
(* Signals of up to 6 samples and a tail of at most 2: blocks of no, one and *)
(* several samples, and signals short enough to be all tail.                 *)
EXTENDS FemRawTest
MCRecur(x, a, b) == (x + 3 * a + 4 * b) % 5
MCValue == 0 .. 4
=============================================================================
