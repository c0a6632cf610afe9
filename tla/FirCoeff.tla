------------------------------ MODULE FirCoeff ------------------------------
(***************************************************************************)
(* The design of a FIR filter in fft/fir.c: alloc_filter_coeff with        *)
(* float_lh_sinc, float_bd_sinc and float_create_window, and               *)
(* alloc_kaiser_coeff with create_kaiser_window.  A tap is known by its    *)
(* distance from the nearer end of the filter, of which the sinc and every *)
(* window are functions; n and length-1-n have the same.                   *)
(***************************************************************************)
EXTENDS Integers

CONSTANTS
  MaxTaps,  \* bound on the length of a filter
  Unset,    \* what malloc left in an element
  NaN       \* 0.0/0.0

ASSUME CoeffAssumption == MaxTaps \in Nat /\ {Unset, NaN} \cap Nat = {} /\ Unset # NaN

VARIABLES
  step,      \* the label of the design: "idle", "sinc", "window", "done"
  filter,    \* filter_type
  window,    \* window_type; "KAISER" is a call of alloc_kaiser_coeff
  len,       \* length, or what calc_kaiser_params answered
  tap,       \* n of the loop in progress
  sinc, win, \* the two buffers
  live,      \* which of "sinc", "win" and "delay" (FirFilter) are allocated
  coeff      \* the address returned: "null" or "win"

designVars == <<step, filter, window, len, tap, sinc, win, coeff>>

FilterTypes == {"LOW_PASS", "HIGH_PASS", "BAND_PASS", "BAND_STOP", "unknown"}

\* HAMMING stands for HANNING, BLACKMAN and BARTLETT too: they divide by order.
WindowTypes == {"RECTANGULAR", "HAMMING", "KAISER", "unknown"}

Taps == 0 .. len - 1
half == len \div 2
Arm(n) == IF n < len - 1 - n THEN n ELSE len - 1 - n
Fresh == [k \in Taps |-> Unset]

DesignInit ==
  /\ step = "idle"
  /\ filter \in FilterTypes /\ window \in WindowTypes
  /\ len \in 1 .. MaxTaps
  /\ tap = 0 /\ sinc = Fresh /\ win = Fresh
  /\ live = {} /\ coeff = "null"

\* The requests that a sinc or alloc_kaiser_coeff refuses before it allocates.
Refused ==
  \/ filter = "unknown"
  \/ window = "KAISER" /\ filter # "LOW_PASS"
  \/ filter # "LOW_PASS" /\ len % 2 = 0

ReturnNull ==
  /\ step' = "done"
  /\ UNCHANGED <<filter, window, len, tap, sinc, win, coeff>>

DesignRefused == step = "idle" /\ Refused /\ ReturnNull /\ UNCHANGED live

SincMallocFails == step = "idle" /\ ~Refused /\ ReturnNull /\ UNCHANGED live

\* Mutant: the centre tap is left to the loop.
SincStartNoCentre ==
  /\ step = "idle" /\ ~Refused
  /\ step' = "sinc" /\ tap' = 0
  /\ live' = live \cup {"sinc"}
  /\ UNCHANGED <<filter, window, len, sinc, win, coeff>>

\* An odd filter has a centre tap, which the loop does not reach.
SincStart ==
  /\ step = "idle" /\ ~Refused
  /\ step' = "sinc" /\ tap' = 0
  /\ live' = live \cup {"sinc"}
  /\ sinc' = IF len % 2 = 1 THEN [sinc EXCEPT ![half] = half] ELSE sinc
  /\ UNCHANGED <<filter, window, len, win, coeff>>

SincTurn ==
  /\ step = "sinc" /\ tap < half
  /\ sinc' = [sinc EXCEPT ![tap] = tap, ![len - 1 - tap] = tap]
  /\ tap' = tap + 1
  /\ UNCHANGED <<step, filter, window, len, win, live, coeff>>

WindowStart ==
  /\ step = "sinc" /\ tap >= half
  /\ step' = "window" /\ tap' = 0
  /\ live' = live \cup {"win"}
  /\ UNCHANGED <<filter, window, len, sinc, win, coeff>>

\* Mutant: the sinc is kept when there is no window.
WindowFailsLeaks ==
  /\ \/ step = "sinc" /\ tap >= half
     \/ step = "window" /\ window = "unknown"
  /\ live' = live \ {"win"}
  /\ ReturnNull

\* No memory for the window, or a type that does not exist: the window is freed
\* by float_create_window, the sinc by its caller.
WindowFails ==
  /\ \/ step = "sinc" /\ tap >= half
     \/ step = "window" /\ window = "unknown"
  /\ live' = live \ {"sinc", "win"}
  /\ ReturnNull

\* A window of one tap divides 0 by an order of 0, but for the rectangular one.
WindowValue(n) == IF len = 1 /\ window # "RECTANGULAR" THEN NaN ELSE Arm(n)

\* The turns of float_create_window go up to length/2 and set both ends, those
\* of create_kaiser_window go up to length-1.
WindowLast == IF window = "KAISER" THEN len - 1 ELSE half

WindowTurn ==
  /\ step = "window" /\ window # "unknown" /\ tap <= WindowLast
  /\ win' = IF window = "KAISER"
            THEN [win EXCEPT ![tap] = WindowValue(tap)]
            ELSE [win EXCEPT ![tap] = WindowValue(tap), ![len - 1 - tap] = WindowValue(tap)]
  /\ tap' = tap + 1
  /\ UNCHANGED <<step, filter, window, len, sinc, live, coeff>>

\* coeff[n] *= sinc[n] for every n; free(sinc); return coeff
DesignReturn ==
  /\ step = "window" /\ window # "unknown" /\ tap > WindowLast
  /\ win' = [k \in Taps |-> <<win[k], sinc[k]>>]
  /\ coeff' = "win"
  /\ live' = live \ {"sinc"}
  /\ step' = "done"
  /\ UNCHANGED <<filter, window, len, tap, sinc>>

DesignNext ==
  \/ DesignRefused \/ SincMallocFails \/ SincStart \/ SincTurn
  \/ WindowStart \/ WindowFails \/ WindowTurn \/ DesignReturn
-----------------------------------------------------------------------------
(***************************************************************************)
(* The filter that is returned has every tap set, from its sinc and its    *)
(* window, and is symmetric, for even and odd lengths although the loops   *)
(* of sinc and window run over different halves; no turn of either leaves  *)
(* the buffers.  A single tap is not a number but with the rectangular     *)
(* window.                                                                 *)
(***************************************************************************)
TapsComplete ==
  /\ step = "window" /\ window # "unknown" /\ tap <= WindowLast => tap \in Taps
  /\ coeff = "win" => \A k \in Taps : win[k] = <<WindowValue(k), Arm(k)>>
=============================================================================
