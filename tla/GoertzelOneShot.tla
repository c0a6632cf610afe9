--------------------------- MODULE GoertzelOneShot ---------------------------
(***************************************************************************)
(* fast_goertzel_algorithm of fft/goertzel.c: one call over a signal that  *)
(* is there whole.  One action is one turn of its loop.  It is also the    *)
(* abstract specification of the block-wise filter of Goertzel.tla.        *)
(*                                                                         *)
(* The recurrence w(n) = x(n) + coeff*w(n-1) - w(n-2) is a constant        *)
(* operator: what is shown of the control holds for any arithmetic, that   *)
(* of floating point included.                                             *)
(***************************************************************************)
EXTENDS Naturals

CONSTANTS
  Sample,          \* the values of a sample
  Value,           \* the values of the filter's state
  Zero,            \* 0.0
  Recur(_, _, _),  \* Recur(x, q1, q2): the new q0
  MaxLen,          \* bound: the length of a signal
  None             \* no result yet

VARIABLES
  dat,     \* the signal
  length,  \* how much of it is to be analysed
  i,       \* samples run through the recurrence
  q1, q2,  \* w(i-1), w(i-2)
  answer   \* what magnitude and phase are computed from: <<q1, q2>>

oneVars == <<dat, length, i, q1, q2, answer>>

Signals == [1 .. MaxLen -> Sample]

OneInit ==
  /\ dat \in Signals
  /\ length = 0 /\ i = 0
  /\ q1 = Zero /\ q2 = Zero
  /\ answer = None

\* The call, up to the loop.
Begin ==
  /\ dat' \in Signals /\ length' \in 0 .. MaxLen
  /\ i' = 0 /\ q1' = Zero /\ q2' = Zero
  /\ answer' = None

Turn ==
  /\ i < length
  /\ i' = i + 1
  /\ q1' = Recur(dat[i + 1], q1, q2)
  /\ q2' = q1
  /\ UNCHANGED <<dat, length, answer>>

End ==
  /\ i = length
  /\ answer' = <<q1, q2>>
  /\ UNCHANGED <<dat, length, i, q1, q2>>

OneNext == Begin \/ Turn \/ End
=============================================================================
