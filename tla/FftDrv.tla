------------------------------- MODULE FftDrv -------------------------------
(***************************************************************************)
(* fft/fft_float.c: one static driver with a buffer, in which FFTW         *)
(* transforms in place, and a plan.  (fft_double.c is the same file for    *)
(* double; no program is linked with it.)  Sizes are counted in complex    *)
(* numbers of two samples; a signal is known by its name, and what is in a *)
(* buffer by the signal it is the spectrum of.                             *)
(***************************************************************************)
EXTENDS Integers

VARIABLES
  drv,      \* struct fft_drv
  content,  \* what is in the driver's buffer
  fftw,     \* float_fft_init: its new buffer, while there is no plan for it
  made,     \* history: buffers that were allocated and not freed
  dropped   \* history: those of them that a clear forgot

drvVars == <<drv, content, fftw, made, dropped>>

Flags == {"DFT_1D_C2C", "DFT_1D_R2C", "IDFT_1D_C2C"}

Zeroed == [init |-> 0, flags |-> "0", pnt |-> 0, dat |-> "null", length |-> 0, plan |-> "null"]

FftInitial ==
  /\ drv = Zeroed /\ content = "malloc" /\ fftw = "none"
  /\ made = 0 /\ dropped = 0

\* float_fft_clear tests the pointers the wrong way round: a driver that is in
\* use has both, so that neither is freed before memset forgets them.
Cleared == IF drv.init = 1 THEN Zeroed ELSE drv
Forgotten == IF drv.init = 1 /\ drv.dat # "null" THEN 1 ELSE 0

FftClear ==
  /\ drv' = Cleared
  /\ dropped' = dropped + Forgotten
  /\ UNCHANGED <<content, fftw, made>>

\* Mutant: the half spectrum without its last point.
LengthForHalf(cnt, flags) == IF flags = "DFT_1D_R2C" THEN cnt \div 2 ELSE cnt

\* sizeof(fftwf_complex) * cnt, or * (cnt/2 + 1)
LengthFor(cnt, flags) == IF flags = "DFT_1D_R2C" THEN cnt \div 2 + 1 ELSE cnt

\* float_fft_init clears the old driver, sets the length of the new one and
\* allocates its buffer.  (No caller passes other flags.)
FftMalloc(cnt, flags) ==
  /\ fftw = "none"
  /\ drv' = [Cleared EXCEPT !.length = LengthFor(cnt, flags)]
  /\ dropped' = dropped + Forgotten
  /\ fftw' = "live" /\ made' = made + 1
  /\ UNCHANGED content

FftMallocFails(cnt, flags) ==
  /\ fftw = "none"
  /\ drv' = [Cleared EXCEPT !.length = LengthFor(cnt, flags)]
  /\ dropped' = dropped + Forgotten
  /\ UNCHANGED <<content, fftw, made>>

\* With a plan for it the buffer is the driver's ...
FftPlan(cnt, flags) ==
  /\ fftw = "live" /\ fftw' = "none"
  /\ drv' = [drv EXCEPT !.flags = flags, !.init = 1, !.dat = fftw, !.pnt = cnt, !.plan = "live"]
  /\ content' = "malloc"
  /\ UNCHANGED <<made, dropped>>

\* Mutant: the buffer is not freed.
FftPlanFailsLeaks ==
  /\ fftw = "live" /\ fftw' = "none"
  /\ UNCHANGED <<drv, content, made, dropped>>

\* ... and without one it is freed.
FftPlanFails ==
  /\ fftw = "live" /\ fftw' = "none"
  /\ made' = made - 1
  /\ UNCHANGED <<drv, content, dropped>>

\* Mutant: a signal as long as the transform is refused.
DftResultStrict(cnt) ==
  IF drv.init # 1 THEN -1 ELSE IF cnt >= drv.pnt THEN -2 ELSE 0

DftResult(cnt) ==
  IF drv.init # 1 THEN -1 ELSE IF cnt > drv.pnt THEN -2 ELSE 0

\* float_fft_dft copies a signal, zeroes the rest and executes the plan.
FftDft(signal, cnt) ==
  /\ content' = IF DftResult(cnt) = 0 THEN signal ELSE content
  /\ UNCHANGED <<drv, fftw, made, dropped>>

\* FFT_DFT_COPY(_buf): what `_buf` holds afterwards.
Copied(_buf) == IF drv.init = 1 THEN content ELSE _buf

\* The point float_dft_amp_and_phase looks at.
Bin(fs, f0) == (f0 * drv.pnt) \div fs
=============================================================================
