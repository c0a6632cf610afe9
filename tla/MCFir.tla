------------------------------- MODULE MCFir --------------------------------
(* Filters of up to 5 taps, signals of up to 3 samples of two values; a sum *)
(* of products modulo 7 with a different weight for each tap.               *)
EXTENDS Fir, FiniteSetsExt
MCValue == 0 .. 6
MCDot(b) == MapThenSumSet(LAMBDA k : (k + 1) * b[k], DOMAIN b) % 7
=============================================================================
