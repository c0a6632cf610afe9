------------------------------- MODULE FemFft -------------------------------
(***************************************************************************)
(* fft/fem-fft.c: the whole program, with its users of the FFT driver.     *)
(* main runs sin_test, fir_test of fir.c (each design goes through fir_out)*)
(* and fem_raw_test, one after the other.  Every allocation and every      *)
(* FFT_INIT may fail.  The Goertzel part of fem_raw_test is FemRawTest,    *)
(* what alloc_filter_coeff and float_fir_filter do inside is Fir.          *)
(***************************************************************************)
EXTENDS FftDrv

CONSTANTS
  SIN_CNT,   \* sin_test: cnt and fs
  FIR_CNT,   \* fir_out: length
  TAPS,      \* the longest filter
  DESIGNS,   \* fir_test: the number of filters
  FS, F0,    \* fem_raw_test
  MaxCnt     \* bound on the lines of its file

ASSUME FemAssumption ==
  /\ {SIN_CNT, FIR_CNT, TAPS, FS} \subseteq Nat \ {0}
  /\ {DESIGNS, F0, MaxCnt} \subseteq Nat
  /\ TAPS <= FIR_CNT /\ 2 * F0 <= FS

VARIABLES
  pc,
  fft,      \* the last FFT_INIT returned a buffer
  out,      \* dat2 of sin_test, out of fir_out and fem_raw_test: "null" or contents
  k,        \* fir_test: filters done
  cnt,      \* fem_raw_test: samples read
  w, sig,   \* fem_raw_test: the channel in work, and what raw1 and raw2 hold
  left,     \* allocations that have not been freed
  owed,     \* history: sinx and coeff not yet given to sinx_free, free_filter_coeff
  noRaw2,   \* history: the malloc of raw2 failed
  plot      \* history: the last file plotted: of which signal, and what it shows

progVars == <<fft, out, k, cnt, w, sig, left, owed, noRaw2, plot>>
femVars == <<drvVars, pc, progVars>>

Owned == {"sinx", "out", "coeff", "raw1", "raw2"}
Channel == {1, 2}
Raw == [c \in Channel |-> IF c = 1 THEN "raw1" ELSE "raw2"]
Filtered == [c \in Channel |-> IF c = 1 THEN "fir1" ELSE "fir2"]

FemInit ==
  /\ FftInitial
  /\ pc = "sin" /\ fft = FALSE /\ out = "null"
  /\ k = 0 /\ cnt = 1 /\ w = 1 /\ sig = Raw
  /\ left = [o \in Owned |-> 0]
  /\ owed = [o \in {"sinx", "coeff"} |-> 0]
  /\ noRaw2 = FALSE
  /\ plot = [of |-> "nothing", shown |-> "nothing", fft |-> FALSE]
-----------------------------------------------------------------------------
(* Steps the tests have in common *)

Goto(from, to) == pc = from /\ pc' = to

Alloc(o) == left' = [left EXCEPT ![o] = @ + 1]
Free(o) == left' = [left EXCEPT ![o] = 0]

\* What sinx_gen and alloc_filter_coeff return is to be given back ...
Obtain(o) == Alloc(o) /\ owed' = [owed EXCEPT ![o] = @ + 1]

\* ... to sinx_free and free_filter_coeff, which free nothing but NULL.
GiveBack(o) == owed' = [owed EXCEPT ![o] = @ - 1]

\* out = malloc(...), the result of which nobody looks at
MallocOut(from, to) ==
  /\ Goto(from, to)
  /\ \/ out' = "malloc" /\ Alloc("out")
     \/ out' = "null" /\ UNCHANGED left
  /\ UNCHANGED <<drvVars, fft, k, cnt, w, sig, owed, noRaw2, plot>>

\* if (FFT_INIT(points, DFT_1D_R2C) != NULL): the buffer, and then the plan
InitBuffer(from, points) ==
  /\ pc = from
  /\ FftMalloc(points, "DFT_1D_R2C")
  /\ UNCHANGED <<pc, progVars>>

InitDriver(from, points, ok) ==
  /\ Goto(from, ok) /\ fft' = TRUE
  /\ FftPlan(points, "DFT_1D_R2C")
  /\ UNCHANGED <<out, k, cnt, w, sig, left, owed, noRaw2, plot>>

InitDriverFails(from, points) ==
  /\ pc = from /\ fft' = FALSE
  /\ FftMallocFails(points, "DFT_1D_R2C") \/ FftPlanFails
  /\ UNCHANGED <<out, k, cnt, sig, left, owed, noRaw2, plot>>

Transform(from, signal, points) ==
  /\ pc = from
  /\ FftDft(signal, points)
  /\ UNCHANGED <<fft, out, k, cnt, sig, left, owed, noRaw2, plot>>

\* FFT_DFT_COPY(out), then the plot, if its file can be opened, and the
\* amplitude: memcpy to NULL is fatal.
CopyAndPlot(from, name) ==
  /\ pc = from /\ out # "null"
  /\ out' = Copied(out)
  /\ \/ plot' = [of |-> name, shown |-> out', fft |-> fft]
     \/ UNCHANGED plot
  /\ UNCHANGED <<drvVars, fft, k, cnt, sig, left, owed, noRaw2>>

DieOfNull(from) ==
  /\ out = "null"
  /\ Goto(from, "dead")
  /\ UNCHANGED <<drvVars, progVars>>

ClearDriver(from, to) == Goto(from, to) /\ FftClear /\ UNCHANGED progVars

\* The next channel, or on to label `to` after the second.
NextChannel(again, to) ==
  /\ pc' = IF w = 1 THEN again ELSE to
  /\ w' = IF w = 1 THEN 2 ELSE 1
-----------------------------------------------------------------------------
(* sin_test *)

SinGen ==
  /\ \/ Goto("sin", "sin_out") /\ Obtain("sinx")
     \/ Goto("sin", "fir") /\ UNCHANGED <<left, owed>>
  /\ UNCHANGED <<drvVars, fft, out, k, cnt, w, sig, noRaw2, plot>>

SinInit ==
  \/ InitBuffer("sin_init", SIN_CNT)
  \/ InitDriver("sin_init", SIN_CNT, "sin_dft")
  \/ InitDriverFails("sin_init", SIN_CNT) /\ pc' = "sin_free" /\ UNCHANGED w

SinDft ==
  /\ Transform("sin_dft", "sinx", SIN_CNT)
  /\ pc' = IF DftResult(SIN_CNT) >= 0 THEN "sin_copy" ELSE "sin_amp"
  /\ UNCHANGED w

SinCopy == CopyAndPlot("sin_copy", "sinx") /\ pc' = "sin_amp" /\ UNCHANGED w

\* free(dat2); sinx_free(dat)
SinFree ==
  /\ Goto("sin_free", "fir")
  /\ Free("out")
  /\ GiveBack("sinx")
  /\ UNCHANGED <<drvVars, fft, out, k, cnt, w, sig, noRaw2, plot>>

SinNext ==
  \/ SinGen \/ MallocOut("sin_out", "sin_init") \/ SinInit \/ SinDft
  \/ SinCopy \/ DieOfNull("sin_copy") \/ ClearDriver("sin_amp", "sin_free") \/ SinFree
-----------------------------------------------------------------------------
(* fir_test and fir_out *)

FirDesign ==
  /\ pc = "fir" /\ k < DESIGNS
  /\ \/ pc' = "fir_out" /\ Obtain("coeff") /\ UNCHANGED k
     \/ pc' = "fir" /\ k' = k + 1 /\ UNCHANGED <<left, owed>>
  /\ UNCHANGED <<drvVars, fft, out, cnt, w, sig, noRaw2, plot>>

FirInit ==
  \/ InitBuffer("fir_init", FIR_CNT)
  \/ InitDriver("fir_init", FIR_CNT, "fir_dft")
  \/ InitDriverFails("fir_init", FIR_CNT) /\ pc' = "fir_plot" /\ UNCHANGED w

FirDft == Transform("fir_dft", "coeff", TAPS) /\ pc' = "fir_copy" /\ UNCHANGED w

\* FFT_DFT_COPY(out); FFT_CLR()
FirCopy ==
  /\ out # "null"
  /\ Goto("fir_copy", "fir_plot")
  /\ out' = Copied(out)
  /\ FftClear
  /\ UNCHANGED <<fft, k, cnt, w, sig, left, owed, noRaw2, plot>>

\* plot_filter reads out, if it can open its file, with or without a spectrum.
FirPlot ==
  /\ Goto("fir_plot", "fir_free")
  /\ \/ UNCHANGED plot
     \/ out # "null" /\ plot' = [of |-> "coeff", shown |-> out, fft |-> fft]
  /\ UNCHANGED <<drvVars, fft, out, k, cnt, w, sig, left, owed, noRaw2>>

\* free(out); free_filter_coeff(coeff)
FirFree ==
  /\ Goto("fir_free", "fir")
  /\ Free("out")
  /\ GiveBack("coeff")
  /\ k' = k + 1
  /\ UNCHANGED <<drvVars, fft, out, cnt, w, sig, noRaw2, plot>>

FirNext ==
  \/ FirDesign \/ MallocOut("fir_out", "fir_init") \/ FirInit \/ FirDft
  \/ FirCopy \/ DieOfNull("fir_copy") \/ FirPlot \/ DieOfNull("fir_plot") \/ FirFree
-----------------------------------------------------------------------------
(* fem_raw_test *)

RawAlloc1 ==
  /\ k = DESIGNS
  /\ \/ Goto("fir", "raw2") /\ Alloc("raw1")
     \/ Goto("fir", "end") /\ UNCHANGED left
  /\ UNCHANGED <<drvVars, fft, out, k, cnt, w, sig, owed, noRaw2, plot>>

\* Without raw2 the exit label is the one that frees raw2, not raw1.
RawAlloc2 ==
  /\ \/ Goto("raw2", "read") /\ Alloc("raw2") /\ UNCHANGED noRaw2
     \/ Goto("raw2", "exit1") /\ noRaw2' = TRUE /\ UNCHANGED left
  /\ UNCHANGED <<drvVars, fft, out, k, cnt, w, sig, owed, plot>>

\* Mutant: a file that cannot be read leaves by the wrong label.
RawReadExit1 ==
  /\ \/ Goto("read", "raw_out") /\ cnt' \in 1 .. MaxCnt
     \/ Goto("read", "exit1") /\ UNCHANGED cnt
  /\ UNCHANGED <<drvVars, fft, out, k, w, sig, left, owed, noRaw2, plot>>

\* read_raw_txt counts a line even in an empty file.
RawRead ==
  /\ \/ Goto("read", "raw_out") /\ cnt' \in 1 .. MaxCnt
     \/ Goto("read", "exit2") /\ UNCHANGED cnt
  /\ UNCHANGED <<drvVars, fft, out, k, w, sig, left, owed, noRaw2, plot>>

RawInit ==
  \/ InitBuffer("raw_init", cnt)
  \/ InitDriver("raw_init", cnt, "raw_dft")
  \/ InitDriverFails("raw_init", cnt) /\ pc' = "raw_design" /\ UNCHANGED w

RawDft ==
  /\ Transform("raw_dft", sig[w], cnt)
  /\ \/ DftResult(cnt) >= 0 /\ pc' = "raw_copy" /\ UNCHANGED w
     \/ DftResult(cnt) < 0 /\ NextChannel("raw_dft", "raw_clear")

RawCopy == CopyAndPlot("raw_copy", Raw[w]) /\ NextChannel("raw_dft", "raw_clear")

RawDesign ==
  /\ \/ Goto("raw_design", "raw_fir") /\ Obtain("coeff")
     \/ Goto("raw_design", "raw_end") /\ UNCHANGED <<left, owed>>
  /\ UNCHANGED <<drvVars, fft, out, k, cnt, w, sig, noRaw2, plot>>

\* float_fir_filter(raw, raw, ...) in situ; it fails without memory for its line.
RawFir ==
  /\ pc = "raw_fir"
  /\ \/ /\ pc' = "fir_raw_init"
        /\ sig' = [sig EXCEPT ![w] = Filtered[w]]
        /\ UNCHANGED w
     \/ NextChannel("raw_fir", "fir_raw_end") /\ UNCHANGED sig
  /\ UNCHANGED <<drvVars, fft, out, k, cnt, left, owed, noRaw2, plot>>

\* FFT_INIT again, without FFT_CLR after the first channel
FirRawInit ==
  \/ InitBuffer("fir_raw_init", cnt)
  \/ InitDriver("fir_raw_init", cnt, "fir_raw_dft")
  \/ InitDriverFails("fir_raw_init", cnt) /\ NextChannel("raw_fir", "fir_raw_end")

\* The result of FFT_DFT is not looked at.
FirRawDft == Transform("fir_raw_dft", sig[w], cnt) /\ pc' = "fir_raw_copy" /\ UNCHANGED w

FirRawCopy ==
  /\ CopyAndPlot("fir_raw_copy", Filtered[w])
  /\ NextChannel("raw_fir", "fir_raw_end")

FirRawEnd ==
  /\ Goto("fir_raw_end", "raw_end")
  /\ GiveBack("coeff")
  /\ UNCHANGED <<drvVars, fft, out, k, cnt, w, sig, left, noRaw2, plot>>

FreeStep(from, to, o) ==
  /\ Goto(from, to) /\ Free(o)
  /\ UNCHANGED <<drvVars, fft, out, k, cnt, w, sig, owed, noRaw2, plot>>

RawNext ==
  \/ RawAlloc1 \/ RawAlloc2 \/ RawRead \/ MallocOut("raw_out", "raw_init")
  \/ RawInit \/ RawDft \/ RawCopy \/ DieOfNull("raw_copy") \/ ClearDriver("raw_clear", "raw_design")
  \/ RawDesign \/ RawFir
  \/ FirRawInit \/ FirRawDft \/ FirRawCopy \/ DieOfNull("fir_raw_copy") \/ FirRawEnd
  \/ FreeStep("raw_end", "exit2", "out")
  \/ FreeStep("exit2", "exit1", "raw1") \/ FreeStep("exit1", "end", "raw2")

\* main has returned, or the process is gone.
Over == pc \in {"end", "dead"} /\ UNCHANGED femVars

FemNext == SinNext \/ FirNext \/ RawNext \/ Over

FemSpec == FemInit /\ [][FemNext]_femVars
-----------------------------------------------------------------------------
SinLabels == {"sin", "sin_out", "sin_init", "sin_dft", "sin_copy", "sin_amp", "sin_free"}
FirLabels == {"fir", "fir_out", "fir_init", "fir_dft", "fir_copy", "fir_plot", "fir_free"}
RawLabels == {"raw2", "read", "raw_out", "raw_init", "raw_dft", "raw_copy", "raw_clear",
              "raw_design", "raw_fir", "fir_raw_init", "fir_raw_dft", "fir_raw_copy",
              "fir_raw_end", "raw_end", "exit2", "exit1"}
Signals == {"sinx", "coeff", "raw1", "raw2", "fir1", "fir2"}

FemTypeOK ==
  /\ drv \in [init : {0, 1}, flags : Flags \cup {"0"}, pnt : Nat, dat : {"null", "live"},
              length : Nat, plan : {"null", "live"}]
  /\ content \in Signals \cup {"malloc"} /\ fftw \in {"none", "live"}
  /\ made \in Nat /\ dropped \in Nat
  /\ pc \in SinLabels \cup FirLabels \cup RawLabels \cup {"end", "dead"}
  /\ fft \in BOOLEAN /\ noRaw2 \in BOOLEAN
  /\ out \in Signals \cup {"malloc", "null"}
  /\ k \in 0 .. DESIGNS /\ cnt \in Nat \ {0}
  /\ w \in Channel /\ sig \in [Channel -> Signals]
  /\ left \in [Owned -> Nat] /\ owed \in [{"sinx", "coeff"} -> Nat]
  /\ plot \in [of : Signals \cup {"nothing"}, shown : Signals \cup {"malloc", "nothing"},
               fft : BOOLEAN]

(***************************************************************************)
(* Between any two calls the driver is either unused, and its calls return *)
(* -1, or in use with the buffer and the length that belong to its points: *)
(* also after an FFT_INIT that failed.  Every buffer that was allocated    *)
(* and not freed is the driver's, was forgotten by a clear, or is the one  *)
(* for which float_fft_init makes a plan: a plan that fails leaves none.   *)
(***************************************************************************)
DriverSound ==
  /\ drv.init = 1 => /\ drv.dat = "live" /\ drv.plan = "live"
                     /\ drv.length = LengthFor(drv.pnt, drv.flags)
  /\ made = dropped + drv.init + (IF fftw = "live" THEN 1 ELSE 0)

(***************************************************************************)
(* Each plot shows the spectrum of the signal its file is named after,     *)
(* transformed after the signal got its present value, although most       *)
(* results of the driver are ignored, with one exception: fir_out plots    *)
(* what malloc left when its FFT_INIT has failed.                          *)
(***************************************************************************)
PlotTrue == plot.shown = plot.of \/ (plot.of = "coeff" /\ ~plot.fft)

\* The size of `out` in complex numbers, and of what is transformed in samples.
OutSize == IF pc \in SinLabels THEN SIN_CNT ELSE IF pc \in FirLabels THEN FIR_CNT ELSE cnt
Points == IF pc \in FirLabels THEN TAPS ELSE OutSize
Bins == IF pc \in SinLabels
        THEN {Bin(SIN_CNT, f0) : f0 \in {0, SIN_CNT \div 4, SIN_CNT \div 8}}
        ELSE {Bin(FS, F0)}

(***************************************************************************)
(* No call of the driver leaves a buffer: a transform copies at most the   *)
(* driver's buffer full of samples, FFT_DFT_COPY fits into the caller's    *)
(* buffer down to signals of one sample, and the amplitude is read at a    *)
(* point of the half spectrum.                                             *)
(***************************************************************************)
InBuffers ==
  /\ pc \in {"sin_dft", "fir_dft", "raw_dft", "fir_raw_dft"} =>
       drv.init = 1 /\ Points <= 2 * drv.length
  /\ pc \in {"sin_copy", "fir_copy", "raw_copy", "fir_raw_copy"} => drv.length <= OutSize
  /\ pc \in {"sin_amp", "raw_copy", "fir_raw_copy"} => \A b \in Bins : b < drv.length

(***************************************************************************)
(* When main returns, by whatever path: the scratch buffer and raw2 are    *)
(* freed, raw1 too unless it was raw2 that could not be allocated, and     *)
(* every sinx and coeff has been given to its release function once.       *)
(***************************************************************************)
EndOfMain ==
  pc = "end" =>
    /\ left["out"] = 0 /\ left["raw2"] = 0
    /\ left["raw1"] = IF noRaw2 THEN 1 ELSE 0
    /\ \A o \in DOMAIN owed : owed[o] = 0

(***************************************************************************)
(* fir.h:51: free_filter_coeff frees the coefficients it is given: there   *)
(* are never more of them than are still to be given to it.  Violated: the *)
(* function tests its argument the wrong way round.                        *)
(***************************************************************************)
CoeffFreed == left["coeff"] = owed["coeff"]
=============================================================================
