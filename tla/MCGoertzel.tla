------------------------------ MODULE MCGoertzel ------------------------------
(* A recurrence of whole numbers modulo 5 with coeff = 3: q1 and q2 enter it *)
(* with different weights, so that a lost, repeated or swapped sample shows. *)
EXTENDS Goertzel
MCRecur(x, a, b) == (x + 3 * a + 4 * b) % 5
MCValue == 0 .. 4
=============================================================================
