----------------------------- MODULE FemRawTest -----------------------------
(***************************************************************************)
(* The Goertzel part of fem_raw_test in fft/fem-fft.c: a signal that was   *)
(* read from a file is cut into blocks of random length, which go through  *)
(* goertzel_update; the last samples go to goertzel_final.                 *)
(***************************************************************************)
EXTENDS Goertzel

CONSTANT TAIL  \* the 10 of `while (l > 10)`

ASSUME TailAssumption == TAIL \in Nat

VARIABLES
  l,      \* samples not handed over yet
  stage   \* "read", "feed", "final", "done"

femVars == <<vars, l, stage>>

FemInit == Init /\ l = 0 /\ stage = "read"

\* read_raw_txt returns at least 1.
Start ==
  /\ stage = "read"
  /\ \E n \in 1 .. MaxLen : \E signal \in Signals :
       /\ goertzel_init(n, signal)
       /\ l' = n
  /\ stage' = "feed"

\* Mutant: the loop goes on to the last sample, of which random() % 1 takes none.
MoreBlocksEver == l > 0

MoreBlocks == l > TAIL

\* Mutant: the block is not taken from l.
FeedBlockAgain ==
  /\ stage = "feed" /\ MoreBlocks
  /\ \E rand \in 0 .. l - 1 : UpdateCall(rand)
  /\ UNCHANGED <<l, stage>>

\* rand = random() % l; what goertzel_update returns is not looked at.
FeedBlock ==
  /\ stage = "feed" /\ MoreBlocks
  /\ \E rand \in 0 .. l - 1 : UpdateCall(rand) /\ l' = l - rand
  /\ UNCHANGED stage

FeedTail ==
  /\ stage = "feed" /\ ~MoreBlocks
  /\ FinalCall(l)
  /\ stage' = "final" /\ UNCHANGED l

InCall == (SampleTurn \/ UpdateReturn) /\ UNCHANGED <<l, stage>>

Finish == FinalReturn /\ stage' = "done" /\ UNCHANGED l

FemNext == Start \/ FeedBlock \/ FeedTail \/ InCall \/ Finish

\* The program runs, and random() is not a multiple of l for ever.
FemSpec ==
  /\ FemInit /\ [][FemNext]_femVars
  /\ WF_femVars(FemNext)
  /\ SF_femVars(FeedBlock /\ l' < l)
-----------------------------------------------------------------------------
\* However the signal is cut, goertzel_update refuses no block, goertzel_final
\* accepts the last one, and the result is that of the whole signal.
WholeSignal ==
  /\ ret = 0
  /\ stage = "done" => fed = length /\ answer = W[length]

\* At every call the samples taken and those left make up the signal.
NothingSkipped ==
  stage = "feed" => fed + todo + l = length

(***************************************************************************)
(* The loop that cuts the signal ends, although a block may be empty and   *)
(* the length of the next depends on what is left: only random() is to be  *)
(* trusted.                                                                *)
(***************************************************************************)
Finishes == <>(stage = "done")

\* Here the filter implements the one-shot algorithm without reservation.
StrictOneShot == OneShot!OneInit /\ [][OneShot!OneNext]_(OneShot!oneVars)
=============================================================================
