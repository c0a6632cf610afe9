------------------------------ MODULE Goertzel ------------------------------
(***************************************************************************)
(* The block-wise Goertzel filter of fft/goertzel.c: goertzel_init,        *)
(* goertzel_update and goertzel_final on one static struct, used by a      *)
(* caller that hands over a signal in blocks of any length, none and too   *)
(* long ones included, and may start again at any time.  An action is the  *)
(* entry of a call, one turn of its loop, or its return.                   *)
(***************************************************************************)
EXTENDS Integers

CONSTANTS Sample, Value, Zero, Recur(_, _, _), MaxLen, None  \* as in GoertzelOneShot

ASSUME GoertzelAssumption ==
  /\ Zero \in Value
  /\ \A x \in Sample : \A a, b \in Value : Recur(x, a, b) \in Value
  /\ MaxLen \in Nat
  /\ None \notin Value \X Value

VARIABLES
  length, cnt, q1, q2,  \* struct goertzel_algo_t gzl_algo (q0 is q1 between turns)
  op,      \* the call in progress: "none", "update" or "final"
  todo,    \* the turns its loop has left
  dat,     \* the caller's signal
  fed,     \* samples run through the recurrence since goertzel_init
  ret,     \* what the last call returned
  answer   \* what magnitude and phase were last computed from, or None

gzl == <<length, cnt, q1, q2>>
vars == <<length, cnt, q1, q2, op, todo, dat, fed, ret, answer>>

Signals == [1 .. MaxLen -> Sample]

\* A static struct is zero before the first goertzel_init.
Init ==
  /\ length = 0 /\ cnt = 0 /\ q1 = Zero /\ q2 = Zero
  /\ op = "none" /\ todo = 0
  /\ dat \in Signals /\ fed = 0
  /\ ret = 0 /\ answer = None
-----------------------------------------------------------------------------
\* Mutant: the struct is not cleared.
goertzel_init_keeps(n, signal) ==
  /\ op = "none"
  /\ length' = n
  /\ dat' = signal /\ fed' = 0 /\ answer' = None
  /\ UNCHANGED <<cnt, q1, q2, op, todo, ret>>

\* goertzel_init(n, ...), before the samples of a signal
goertzel_init(n, signal) ==
  /\ op = "none"
  /\ length' = n /\ cnt' = 0 /\ q1' = Zero /\ q2' = Zero
  /\ dat' = signal /\ fed' = 0 /\ answer' = None
  /\ UNCHANGED <<op, todo, ret>>

\* Mutant: the block is not counted.
UpdateCallUncounted(n) ==
  /\ op = "none" /\ cnt < length
  /\ op' = "update" /\ todo' = n
  /\ UNCHANGED <<gzl, dat, fed, ret, answer>>

\* goertzel_update(dat, n) counts the block and runs it, or refuses it.
UpdateCall(n) ==
  /\ op = "none"
  /\ \/ /\ cnt < length
        /\ cnt' = cnt + n
        /\ op' = "update" /\ todo' = n
        /\ UNCHANGED ret
     \/ /\ cnt >= length
        /\ ret' = -1
        /\ UNCHANGED <<cnt, op, todo>>
  /\ UNCHANGED <<length, q1, q2, dat, fed, answer>>

\* goertzel_final(dat, n, fft) runs its block whatever the count is.
FinalCall(n) ==
  /\ op = "none"
  /\ cnt' = cnt + n
  /\ op' = "final" /\ todo' = n
  /\ UNCHANGED <<length, q1, q2, dat, fed, ret, answer>>

\* Mutant: q1 is overwritten before it is moved to q2.
SampleTurnSwapped ==
  /\ todo > 0
  /\ todo' = todo - 1
  /\ fed' = fed + 1
  /\ q1' = Recur(dat[fed + 1], q1, q2)
  /\ q2' = q1'
  /\ UNCHANGED <<length, cnt, op, dat, ret, answer>>

\* q0 = *dat++ + coeff*q1 - q2; q2 = q1; q1 = q0
SampleTurn ==
  /\ todo > 0
  /\ todo' = todo - 1
  /\ fed' = fed + 1
  /\ q1' = Recur(dat[fed + 1], q1, q2)
  /\ q2' = q1
  /\ UNCHANGED <<length, cnt, op, dat, ret, answer>>

UpdateReturn ==
  /\ op = "update" /\ todo = 0
  /\ op' = "none" /\ ret' = 0
  /\ UNCHANGED <<gzl, todo, dat, fed, answer>>

\* Mutant: an incomplete signal is answered too.
FinalReturnUnchecked ==
  /\ op = "final" /\ todo = 0
  /\ op' = "none" /\ ret' = 0 /\ answer' = <<q1, q2>>
  /\ UNCHANGED <<gzl, todo, dat, fed>>

\* The result is computed only from a signal of the announced length.
FinalReturn ==
  /\ op = "final" /\ todo = 0
  /\ op' = "none"
  /\ \/ /\ cnt = length
        /\ ret' = 0 /\ answer' = <<q1, q2>>
     \/ /\ cnt # length
        /\ ret' = -1
        /\ UNCHANGED answer
  /\ UNCHANGED <<gzl, todo, dat, fed>>

\* The caller passes what follows the samples taken so far.
Blocks == 0 .. MaxLen - fed

Next ==
  \/ \E n \in 0 .. MaxLen, signal \in Signals : goertzel_init(n, signal)
  \/ \E n \in Blocks : UpdateCall(n) \/ FinalCall(n)
  \/ SampleTurn \/ UpdateReturn \/ FinalReturn

Spec == Init /\ [][Next]_vars
-----------------------------------------------------------------------------
GoertzelTypeOK ==
  /\ length \in 0 .. MaxLen /\ cnt \in 0 .. MaxLen
  /\ q1 \in Value /\ q2 \in Value
  /\ op \in {"none", "update", "final"}
  /\ todo \in 0 .. MaxLen
  /\ dat \in Signals /\ fed \in 0 .. MaxLen
  /\ ret \in {0, -1}
  /\ answer \in {None} \cup (Value \X Value)

\* The recurrence over the first n samples, from its definition: <<w(n), w(n-1)>>.
W[n \in 0 .. MaxLen] ==
  IF n = 0 THEN <<Zero, Zero>>
           ELSE <<Recur(dat[n], W[n - 1][1], W[n - 1][2]), W[n - 1][1]>>

(***************************************************************************)
(* Whatever blocks a signal came in, whatever calls were refused or failed *)
(* in between, a result is that of the recurrence over exactly the         *)
(* announced number of samples: no block skipped, none run twice.          *)
(***************************************************************************)
AnswerExact == answer # None => answer = W[length]

(***************************************************************************)
(* The filter implements fast_goertzel_algorithm (fem-fft.c:209-219 prints *)
(* the two side by side), as long as no more samples are fed than were     *)
(* announced.                                                              *)
(***************************************************************************)
OneShot == INSTANCE GoertzelOneShot WITH i <- fed

ImplementsOneShot ==
  OneShot!OneInit /\ [][OneShot!OneNext \/ fed' > length]_(OneShot!oneVars)
=============================================================================
