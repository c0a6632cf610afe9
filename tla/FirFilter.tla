----------------------------- MODULE FirFilter ------------------------------
(***************************************************************************)
(* float_fir_filter of fft/fir.c: a signal goes through a delay line of    *)
(* coeff_num samples, one sum of products per output.  Memory is addressed *)
(* from `in`: in[k] is mem[k] and out[k] is mem[off + k], so that off = 0  *)
(* is the in-situ operation of fir.c:192.                                  *)
(***************************************************************************)
EXTENDS FirCoeff

CONSTANTS
  Value, Zero,  \* samples and sums, 0.0
  Dot(_),       \* the sum of products of a delay line with the coefficients
  MaxLen        \* bound on length

ASSUME FilterAssumption ==
  /\ Zero \in Value
  /\ \A k \in 1 .. MaxTaps : \A b \in [0 .. k - 1 -> Value] : Dot(b) \in Value
  /\ MaxLen \in Nat

VARIABLES
  fir,          \* the label: "idle", "turn", "shift", "done"
  length, off,  \* the parameters; coeff_num is len
  mem,          \* what in and out point into
  orig,         \* mem when the filter was called
  buffer,       \* the delay line
  n, i, pos,    \* n, i; `in` has been advanced by pos
  ret           \* what the call returned

filterVars == <<fir, length, off, mem, orig, buffer, n, i, pos, ret>>

Cells == - MaxLen .. 2 * MaxLen

\* Before the call; Sample is what a signal consists of.
FilterInit(Sample) ==
  /\ fir = "idle"
  /\ length = 0 /\ off = 0
  /\ \E s \in [0 .. MaxLen -> Sample] :
       mem = [c \in Cells |-> IF c \in 0 .. MaxLen THEN s[c] ELSE Zero]
  /\ orig = mem
  /\ buffer = [k \in Taps |-> Zero]
  /\ n = 0 /\ i = 0 /\ pos = 0 /\ ret = 0

\* float_fir_filter(in, in + d, l, coeff, len): the delay line is cleared and
\* takes its first sample.
FilterCall(l, d) ==
  /\ fir = "idle" /\ fir' = "turn"
  /\ length' = l /\ off' = d
  /\ buffer' = [j \in Taps |-> IF j = 0 THEN mem[0] ELSE Zero]
  /\ n' = 0 /\ i' = 0 /\ pos' = 1
  /\ UNCHANGED <<mem, orig, ret>>

FilterMallocFails ==
  /\ fir = "idle" /\ fir' = "done"
  /\ ret' = -1
  /\ UNCHANGED <<length, off, mem, orig, buffer, n, i, pos>>

\* Mutant: one output too many.
SumTurnOneMore ==
  /\ fir = "turn" /\ n <= length
  /\ mem' = [mem EXCEPT ![off + n] = Dot(buffer)]
  /\ fir' = "shift" /\ i' = len - 1
  /\ UNCHANGED <<length, off, orig, buffer, n, pos, ret>>

\* out[n] = msum
SumTurn ==
  /\ fir = "turn" /\ n < length
  /\ mem' = [mem EXCEPT ![off + n] = Dot(buffer)]
  /\ fir' = "shift" /\ i' = len - 1
  /\ UNCHANGED <<length, off, orig, buffer, n, pos, ret>>

\* Mutant: the line is shifted from its head on.
ShiftTurnUp ==
  /\ fir = "shift" /\ i > 0
  /\ buffer' = [buffer EXCEPT ![len - i] = buffer[len - i - 1]]
  /\ i' = i - 1
  /\ UNCHANGED <<fir, length, off, mem, orig, n, pos, ret>>

ShiftTurn ==
  /\ fir = "shift" /\ i > 0
  /\ buffer' = [buffer EXCEPT ![i] = buffer[i - 1]]
  /\ i' = i - 1
  /\ UNCHANGED <<fir, length, off, mem, orig, n, pos, ret>>

\* buffer[0] = *in++, one sample past the signal in the last turn
ReadNext ==
  /\ fir = "shift" /\ i = 0
  /\ buffer' = [buffer EXCEPT ![0] = mem[pos]]
  /\ pos' = pos + 1 /\ n' = n + 1 /\ fir' = "turn"
  /\ UNCHANGED <<length, off, mem, orig, i, ret>>

FilterReturn ==
  /\ fir = "turn" /\ n >= length
  /\ fir' = "done"
  /\ UNCHANGED <<length, off, mem, orig, buffer, n, i, pos, ret>>

FilterTurn == SumTurn \/ ShiftTurn \/ ReadNext
-----------------------------------------------------------------------------
FilterTypeOK ==
  /\ fir \in {"idle", "turn", "shift", "done"}
  /\ length \in 0 .. MaxLen /\ off \in - MaxLen .. MaxLen
  /\ mem \in [Cells -> Value] /\ orig \in [Cells -> Value]
  /\ buffer \in [Taps -> Value]
  /\ n \in 0 .. length /\ i \in Taps /\ pos \in 0 .. length + 1
  /\ ret \in {0, -1}

\* The last len samples up to sample m, the ones before the signal being 0.
History(m) == [k \in Taps |-> IF k <= m THEN orig[m - k] ELSE Zero]

Outputs == IF fir = "shift" THEN n + 1 ELSE n

\* out does not run ahead of in over the signal: in situ, behind it, or apart.
InSitu == off <= 0 \/ off >= length

(***************************************************************************)
(* Every output is the convolution of the coefficients with the signal as  *)
(* it was at the call, in situ too (fir.c:192), and whatever is in the     *)
(* memory after the signal, which the delay line is fed with.              *)
(***************************************************************************)
Convolves == InSitu => \A m \in 0 .. Outputs - 1 : mem[off + m] = Dot(History(m))

\* Nothing but out[0 .. length-1] is written, and of the input one sample past
\* the signal is read, no more; a call that fails writes nothing.
Confined ==
  /\ pos <= length + 1
  /\ \A c \in Cells : mem[c] # orig[c] => c - off \in 0 .. length - 1
  /\ ret = -1 => mem = orig
=============================================================================
