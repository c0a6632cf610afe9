-------------------------------- MODULE Fir ---------------------------------
(***************************************************************************)
(* The use fem-fft.c makes of fft/fir.c: design a filter, run a signal     *)
(* through it, give the coefficients to free_filter_coeff.                 *)
(***************************************************************************)
EXTENDS FirFilter

CONSTANT Sample

ASSUME SampleAssumption == Sample \subseteq Value

VARIABLE stage  \* the label of the caller: "design", "filter", "end"

firVars == <<designVars, filterVars, live, stage>>

FirInit == DesignInit /\ FilterInit(Sample) /\ stage = "design"

Design ==
  /\ stage = "design"
  /\ DesignNext
  /\ UNCHANGED <<filterVars, stage>>

\* alloc_filter_coeff has returned; without coefficients nothing is filtered.
Designed ==
  /\ stage = "design" /\ step = "done"
  /\ stage' = IF coeff = "null" THEN "end" ELSE "filter"
  /\ UNCHANGED <<designVars, filterVars, live>>

Filter ==
  /\ stage = "filter"
  /\ \/ /\ \E l \in 0 .. MaxLen, d \in - MaxLen .. MaxLen : FilterCall(l, d)
        /\ live' = live \cup {"delay"}
     \/ /\ FilterMallocFails \/ FilterTurn
        /\ UNCHANGED live
     \/ /\ FilterReturn
        /\ live' = live \ {"delay"}
  /\ UNCHANGED <<designVars, stage>>

\* free_filter_coeff: `if (!coeff) free(coeff)` frees no coefficients.
FreeCoeff ==
  /\ stage = "filter" /\ fir = "done"
  /\ stage' = "end"
  /\ live' = IF coeff = "null" THEN live \ {"win"} ELSE live
  /\ UNCHANGED <<designVars, filterVars>>

FirNext == Design \/ Designed \/ Filter \/ FreeCoeff

FirSpec == FirInit /\ [][FirNext]_firVars
-----------------------------------------------------------------------------
FirTypeOK ==
  /\ FilterTypeOK
  /\ stage \in {"design", "filter", "end"}
  /\ step \in {"idle", "sinc", "window", "done"}
  /\ live \subseteq {"sinc", "win", "delay"}
  /\ coeff \in {"null", "win"}

(***************************************************************************)
(* Whichever allocation fails or request is refused, the scratch buffers   *)
(* of the design and of the filter are given back, and nothing is left of  *)
(* a design that returned no coefficients.                                 *)
(***************************************************************************)
ScratchFreed ==
  stage = "end" => live \subseteq {"win"} /\ (coeff = "null" => live = {})
=============================================================================
