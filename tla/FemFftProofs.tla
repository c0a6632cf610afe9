---------------------------- MODULE FemFftProofs ----------------------------
(***************************************************************************)
(* The FFT driver under all failures of its callers, the plots and the     *)
(* memory of fem-fft, for every length of a signal, every number of        *)
(* filters and of taps.                                                    *)
(***************************************************************************)
EXTENDS FemFft, TLAPS

R2C == "DFT_1D_R2C"

Records == [init : {0, 1}, flags : Flags \cup {"0"}, pnt : Nat, dat : {"null", "live"},
            length : Nat, plan : {"null", "live"}]

\* Where FFT_INIT is called, and for how many points.
Initing == {"sin_init", "fir_init", "raw_init", "fir_raw_init"}
Asked == CASE pc = "sin_init" -> SIN_CNT [] pc = "fir_init" -> FIR_CNT [] OTHER -> cnt

DriverInv ==
  /\ drv \in Records /\ made \in Int /\ dropped \in Int
  /\ fftw \in {"none", "live"}
  /\ cnt \in Nat \ {0}
  /\ fftw = "live" => /\ pc \in Initing /\ drv.init = 0
                      /\ drv.length = LengthFor(Asked, R2C)
  /\ DriverSound

-----------------------------------------------------------------------------
(* The driver *)

LEMMA HalfLength ==
  ASSUME NEW n \in Nat
  PROVE  n \div 2 + 1 \in Nat /\ n <= 2 * (n \div 2 + 1) /\ n < 2 * (n \div 2 + 1)
  BY SMT

LEMMA AskedLength == DriverInv => Asked \in Nat /\ LengthFor(Asked, R2C) \in Nat
<1> SUFFICES ASSUME DriverInv PROVE Asked \in Nat /\ LengthFor(Asked, R2C) \in Nat
  OBVIOUS
<1>1. Asked \in Nat
  BY FemAssumption DEF Asked, DriverInv
<1> QED
  BY <1>1, HalfLength DEF LengthFor, R2C

\* Clearing the old driver and setting the length of the new one.
LEMMA LengthSet ==
  ASSUME DriverInv, fftw = "none", drv' = [Cleared EXCEPT !.length = LengthFor(Asked, R2C)]
  PROVE  /\ drv' \in Records /\ drv'.init = 0 /\ drv'.length = LengthFor(Asked, R2C)
         /\ Forgotten = drv.init /\ made = dropped + drv.init
<1>1. Cleared \in Records /\ Cleared.init = 0
  BY DEF Cleared, Zeroed, DriverInv, Records
<1>2. drv' \in Records /\ drv'.init = 0 /\ drv'.length = LengthFor(Asked, R2C)
  BY <1>1, AskedLength DEF Records
<1>3. Forgotten = drv.init /\ made = dropped + drv.init
  BY DEF Forgotten, DriverInv, DriverSound, Records
<1> QED
  BY <1>2, <1>3

LEMMA MallocKeepsSound ==
  ASSUME DriverInv, FftMalloc(Asked, R2C), pc \in Initing, pc' = pc, cnt' = cnt
  PROVE  DriverInv'
<1>1. /\ drv' \in Records /\ drv'.init = 0 /\ drv'.length = LengthFor(Asked, R2C)
      /\ Forgotten = drv.init /\ made = dropped + drv.init
  BY LengthSet DEF FftMalloc
<1>2. Asked' = Asked
  BY DEF Asked
<1>3. LengthFor(Asked, R2C)' = LengthFor(Asked, R2C)
  BY <1>2 DEF LengthFor
<1>4. made' = made + 1 /\ dropped' = dropped + Forgotten /\ fftw' = "live"
  BY DEF FftMalloc
<1> QED
  BY <1>1, <1>3, <1>4 DEF DriverInv, DriverSound, Records

LEMMA FailKeepsSound ==
  ASSUME DriverInv, FftMallocFails(Asked, R2C), cnt' = cnt
  PROVE  DriverInv'
<1>1. /\ drv' \in Records /\ drv'.init = 0
      /\ Forgotten = drv.init /\ made = dropped + drv.init
  BY LengthSet DEF FftMallocFails
<1>2. made' = made /\ dropped' = dropped + Forgotten /\ fftw' = "none"
  BY DEF FftMallocFails
<1> QED
  BY <1>1, <1>2 DEF DriverInv, DriverSound, Records

LEMMA PlanKeepsSound ==
  ASSUME DriverInv, FftPlan(Asked, R2C), cnt' = cnt
  PROVE  DriverInv'
<1>1. Asked \in Nat
  BY AskedLength
<1>2. drv' \in Records
  BY <1>1 DEF FftPlan, DriverInv, Records, Flags, R2C
<1>3. /\ drv'.init = 1 /\ drv'.dat = "live" /\ drv'.plan = "live"
      /\ drv'.pnt = Asked /\ drv'.flags = R2C /\ drv'.length = LengthFor(Asked, R2C)
  BY DEF FftPlan, DriverInv, Records
<1>4. drv'.length = LengthFor(drv'.pnt, drv'.flags)
  BY <1>3
<1>5. made = dropped + 1 /\ made' = made /\ dropped' = dropped /\ fftw' = "none"
  BY DEF FftPlan, DriverInv, DriverSound
<1> QED
  BY <1>2, <1>3, <1>4, <1>5 DEF DriverInv, DriverSound, LengthFor

LEMMA NoPlanKeepsSound ==
  ASSUME DriverInv, FftPlanFails, cnt' = cnt
  PROVE  DriverInv'
<1>1. made = dropped + 1 /\ drv.init = 0
  BY DEF FftPlanFails, DriverInv, DriverSound
<1> QED
  BY <1>1 DEF FftPlanFails, DriverInv, DriverSound

LEMMA ClearKeepsSound ==
  ASSUME DriverInv, FftClear, pc \notin Initing, cnt' = cnt
  PROVE  DriverInv'
<1>1. drv' \in Records /\ drv'.init = 0
  BY DEF FftClear, Cleared, Zeroed, DriverInv, Records
<1>2. Forgotten = drv.init
  BY DEF Forgotten, DriverInv, DriverSound, Records
<1>3. fftw = "none" /\ made = dropped + drv.init
  BY DEF DriverInv, DriverSound, Records
<1> QED
  BY <1>1, <1>2, <1>3 DEF FftClear, DriverInv, DriverSound, Records

LEMMA OtherKeepsSound ==
  ASSUME DriverInv, UNCHANGED <<drv, fftw, made, dropped>>, pc \notin Initing, cnt' \in Nat \ {0}
  PROVE  DriverInv'
<1>1. fftw = "none" /\ fftw' = "none"
  BY DEF DriverInv
<1> QED
  BY <1>1 DEF DriverInv, DriverSound

\* A step of the program is one call of the driver, or none.
DriverCall ==
  \/ /\ pc \in Initing /\ cnt' = cnt
     /\ \/ FftMalloc(Asked, R2C) /\ pc' = pc
        \/ FftMallocFails(Asked, R2C)
        \/ FftPlan(Asked, R2C)
        \/ FftPlanFails
  \/ pc \notin Initing /\ cnt' = cnt /\ FftClear
  \/ pc \notin Initing /\ cnt' \in Nat \ {0} /\ UNCHANGED <<drv, fftw, made, dropped>>

LEMMA OneInit ==
  ASSUME NEW from \in Initing, NEW n, NEW ok, pc = from => Asked = n,
         InitBuffer(from, n) \/ InitDriver(from, n, ok) \/ InitDriverFails(from, n)
  PROVE  DriverCall
<1>1. pc = from /\ Asked = n /\ cnt' = cnt
  BY DEF InitBuffer, InitDriver, InitDriverFails, Goto, progVars
<1>2. CASE InitBuffer(from, n)
  BY <1>1, <1>2 DEF InitBuffer, DriverCall, R2C
<1>3. CASE InitDriver(from, n, ok)
  BY <1>1, <1>3 DEF InitDriver, DriverCall, R2C
<1>4. CASE InitDriverFails(from, n)
  BY <1>1, <1>4 DEF InitDriverFails, DriverCall, R2C
<1> QED
  BY <1>2, <1>3, <1>4

LEMMA OneDriverCall ==
  ASSUME DriverInv, FemNext
  PROVE  DriverCall
<1>1. cnt \in Nat \ {0}
  BY DEF DriverInv
<1>2. CASE SinInit \/ FirInit \/ RawInit \/ FirRawInit
  <2>1. CASE SinInit
    BY <2>1, OneInit DEF SinInit, Initing, Asked
  <2>2. CASE FirInit
    BY <2>2, OneInit DEF FirInit, Initing, Asked
  <2>3. CASE RawInit
    BY <2>3, OneInit DEF RawInit, Initing, Asked
  <2>4. CASE FirRawInit
    BY <2>4, OneInit DEF FirRawInit, Initing, Asked
  <2> QED
    BY <1>2, <2>1, <2>2, <2>3, <2>4
<1> USE DEF DriverCall, drvVars, Initing, Goto
<1>3. CASE SinNext /\ ~SinInit
  BY <1>1, <1>3 DEF SinNext, SinGen, MallocOut,
     SinDft, Transform, FftDft, SinCopy, CopyAndPlot, DieOfNull, ClearDriver, SinFree, progVars
<1>4. CASE FirNext /\ ~FirInit
  BY <1>1, <1>4 DEF FirNext, FirDesign, MallocOut,
     FirDft, Transform, FftDft, FirCopy, DieOfNull, FirPlot, FirFree, progVars
<1>5. CASE RawNext /\ ~RawInit /\ ~FirRawInit
  BY <1>1, <1>5 DEF RawNext, RawAlloc1, RawAlloc2, RawRead, MallocOut,
     RawDft, Transform, FftDft, RawCopy, CopyAndPlot, DieOfNull, ClearDriver,
     RawDesign, RawFir, FirRawDft, FirRawCopy, FirRawEnd, FreeStep, progVars
<1>6. CASE Over
  BY <1>1, <1>6 DEF Over, femVars, progVars
<1> QED
  BY <1>2, <1>3, <1>4, <1>5, <1>6 DEF FemNext

LEMMA DriverStep == DriverInv /\ [FemNext]_femVars => DriverInv'
<1>1. ASSUME DriverInv, FemNext PROVE DriverInv'
  BY <1>1, OneDriverCall, MallocKeepsSound, FailKeepsSound, PlanKeepsSound, NoPlanKeepsSound,
     ClearKeepsSound, OtherKeepsSound
  DEF DriverCall
<1>2. ASSUME DriverInv, UNCHANGED femVars PROVE DriverInv'
  BY <1>2 DEF femVars, drvVars, progVars, DriverInv, DriverSound, Asked, LengthFor
<1> QED
  BY <1>1, <1>2

LEMMA DriverInit == FemInit => DriverInv
  BY DEF FemInit, FftInitial, Zeroed, DriverInv, DriverSound, Records, Flags

\* Whatever fails, the driver's calls find it either unused or whole.
THEOREM DriverCorrect == FemSpec => []DriverSound
<1>1. DriverInv => DriverSound
  BY DEF DriverInv
<1> QED
  BY <1>1, DriverInit, DriverStep, PTL DEF FemSpec
-----------------------------------------------------------------------------
(* The types of the program's state; those of the driver are in DriverInv *)

ProgTypes ==
  /\ content \in Signals \cup {"malloc"} /\ dropped \in Nat
  /\ pc \in SinLabels \cup FirLabels \cup RawLabels \cup {"end", "dead"}
  /\ fft \in BOOLEAN /\ noRaw2 \in BOOLEAN
  /\ out \in Signals \cup {"malloc", "null"}
  /\ k \in 0 .. DESIGNS /\ (pc \in FirLabels \ {"fir"} => k < DESIGNS)
  /\ cnt \in Nat \ {0}
  /\ w \in Channel /\ sig \in [Channel -> Signals]
  /\ left \in [Owned -> Nat]
  /\ plot \in [of : Signals \cup {"nothing"}, shown : Signals \cup {"malloc", "nothing"},
               fft : BOOLEAN]

LEMMA OneMore ==
  ASSUME ProgTypes
  PROVE  /\ \A o \in Owned : [left EXCEPT ![o] = @ + 1] \in [Owned -> Nat]
         /\ \A o \in Owned : [left EXCEPT ![o] = 0] \in [Owned -> Nat]
         /\ dropped + Forgotten \in Nat
         /\ sig[w] \in Signals /\ Filtered[w] \in Signals /\ Raw[w] \in Signals
         /\ out # "null" => Copied(out) \in Signals \cup {"malloc"}
  BY DEF ProgTypes, Forgotten, Copied, Filtered, Raw, Channel, Signals

LEMMA TypesSin == ASSUME ProgTypes, SinNext PROVE ProgTypes'
<1> USE OneMore DEF ProgTypes, SinLabels, FirLabels, Goto, Obtain, Alloc, Free, Owned, drvVars
<1>1. CASE SinGen
  BY <1>1 DEF SinGen
<1>2. CASE MallocOut("sin_out", "sin_init")
  BY <1>2 DEF MallocOut
<1>3. CASE SinInit
  BY <1>3 DEF SinInit, InitBuffer, InitDriver, InitDriverFails,
     FftMalloc, FftMallocFails, FftPlan, FftPlanFails, progVars
<1>4. CASE SinDft
  BY <1>4 DEF SinDft, Transform, FftDft, Signals
<1>5. CASE SinCopy
  BY <1>5 DEF SinCopy, CopyAndPlot, Signals
<1>6. CASE DieOfNull("sin_copy")
  BY <1>6 DEF DieOfNull, progVars
<1>7. CASE ClearDriver("sin_amp", "sin_free")
  BY <1>7 DEF ClearDriver, FftClear, progVars
<1>8. CASE SinFree
  BY <1>8 DEF SinFree
<1> QED
  BY <1>1, <1>2, <1>3, <1>4, <1>5, <1>6, <1>7, <1>8 DEF SinNext

LEMMA TypesFir == ASSUME ProgTypes, FirNext PROVE ProgTypes'
<1> USE OneMore DEF ProgTypes, FirLabels, Goto, Obtain, Alloc, Free, Owned, drvVars
<1>1. CASE FirDesign
  BY <1>1, FemAssumption DEF FirDesign
<1>2. CASE MallocOut("fir_out", "fir_init")
  BY <1>2 DEF MallocOut
<1>3. CASE FirInit
  BY <1>3 DEF FirInit, InitBuffer, InitDriver, InitDriverFails,
     FftMalloc, FftMallocFails, FftPlan, FftPlanFails, progVars
<1>4. CASE FirDft
  BY <1>4 DEF FirDft, Transform, FftDft, Signals
<1>5. CASE FirCopy
  BY <1>5 DEF FirCopy, FftClear
<1>6. CASE DieOfNull("fir_copy") \/ DieOfNull("fir_plot")
  BY <1>6 DEF DieOfNull, progVars
<1>7. CASE FirPlot
  BY <1>7 DEF FirPlot, Signals
<1>8. CASE FirFree
  BY <1>8, FemAssumption DEF FirFree
<1> QED
  BY <1>1, <1>2, <1>3, <1>4, <1>5, <1>6, <1>7, <1>8 DEF FirNext

LEMMA TypesRaw == ASSUME ProgTypes, RawNext PROVE ProgTypes'
<1> USE OneMore DEF ProgTypes, RawLabels, FirLabels, Goto, Obtain, Alloc, Free, Owned, drvVars
<1>1. CASE RawAlloc1 \/ RawAlloc2 \/ RawRead \/ RawDesign
  <2>1. CASE RawAlloc1
    BY <2>1 DEF RawAlloc1
  <2>2. CASE RawAlloc2
    <3>1. pc' \in {"read", "exit1"} /\ noRaw2' \in BOOLEAN /\ left' \in [Owned -> Nat]
      BY <2>2 DEF RawAlloc2
    <3>2. UNCHANGED <<drvVars, fft, out, k, cnt, w, sig, owed, plot>>
      BY <2>2 DEF RawAlloc2
    <3> QED
      BY <3>1, <3>2
  <2>3. CASE RawRead
    BY <2>3 DEF RawRead
  <2>4. CASE RawDesign
    BY <2>4 DEF RawDesign
  <2> QED
    BY <1>1, <2>1, <2>2, <2>3, <2>4
<1>2. CASE MallocOut("raw_out", "raw_init")
  BY <1>2 DEF MallocOut
<1>3. CASE RawInit \/ FirRawInit
  BY <1>3 DEF RawInit, FirRawInit, NextChannel, Channel, InitBuffer, InitDriver, InitDriverFails,
     FftMalloc, FftMallocFails, FftPlan, FftPlanFails, progVars
<1>4. CASE RawDft \/ FirRawDft
  BY <1>4 DEF RawDft, FirRawDft, NextChannel, Channel, Transform, FftDft
<1>5. CASE RawCopy
  BY <1>5 DEF RawCopy, NextChannel, Channel, CopyAndPlot
<1>6. CASE FirRawCopy
  BY <1>6 DEF FirRawCopy, NextChannel, Channel, CopyAndPlot
<1>7. CASE RawFir
  BY <1>7 DEF RawFir, NextChannel, Channel
<1>8. CASE DieOfNull("raw_copy") \/ DieOfNull("fir_raw_copy") \/ ClearDriver("raw_clear", "raw_design")
  BY <1>8 DEF DieOfNull, ClearDriver, FftClear, progVars
<1>9. CASE FirRawEnd
  BY <1>9 DEF FirRawEnd
<1>10. CASE \/ FreeStep("raw_end", "exit2", "out")
            \/ FreeStep("exit2", "exit1", "raw1") \/ FreeStep("exit1", "end", "raw2")
  BY <1>10 DEF FreeStep
<1> QED
  BY <1>1, <1>2, <1>3, <1>4, <1>5, <1>6, <1>7, <1>8, <1>9, <1>10 DEF RawNext

LEMMA ProgTypesInit == FemInit => ProgTypes
<1> SUFFICES ASSUME FemInit PROVE ProgTypes
  OBVIOUS
<1>1. sig \in [Channel -> Signals] /\ w \in Channel /\ content = "malloc" /\ dropped = 0
  BY DEF FemInit, FftInitial, Signals, Channel, Raw
<1>2. k \in 0 .. DESIGNS
  BY FemAssumption DEF FemInit
<1>3. left \in [Owned -> Nat]
  BY DEF FemInit
<1>4. plot \in [of : Signals \cup {"nothing"}, shown : Signals \cup {"malloc", "nothing"},
                fft : BOOLEAN]
  BY DEF FemInit
<1>5. pc = "sin" /\ fft = FALSE /\ noRaw2 = FALSE /\ out = "null" /\ cnt = 1
  BY DEF FemInit
<1>6. /\ pc \in SinLabels \cup FirLabels \cup RawLabels \cup {"end", "dead"}
      /\ pc \notin FirLabels
      /\ out \in Signals \cup {"malloc", "null"} /\ content \in Signals \cup {"malloc"}
  BY <1>1, <1>5 DEF SinLabels, FirLabels
<1>7. cnt \in Nat \ {0} /\ dropped \in Nat
  BY <1>1, <1>5
<1> QED
  BY <1>1, <1>2, <1>3, <1>4, <1>5, <1>6, <1>7 DEF ProgTypes

LEMMA ProgTypesStep == ProgTypes /\ [FemNext]_femVars => ProgTypes'
<1>1. ASSUME ProgTypes, Over \/ UNCHANGED femVars PROVE ProgTypes'
  BY <1>1 DEF Over, ProgTypes, femVars, progVars, drvVars
<1> QED
  BY <1>1, TypesSin, TypesFir, TypesRaw DEF FemNext
-----------------------------------------------------------------------------
(* The program ends *)

\* The steps a label is from the end of its part: of the one pass of sin_test,
\* of a turn of fir_test, and of fem_raw_test, where each channel has its turn.
SinPlace == [sin |-> 8, sin_out |-> 7, sin_init |-> 5, sin_dft |-> 4, sin_copy |-> 3,
             sin_amp |-> 2, sin_free |-> 1]
FirPlace == [fir |-> 8, fir_out |-> 7, fir_init |-> 5, fir_dft |-> 4, fir_copy |-> 3,
             fir_plot |-> 2, fir_free |-> 1]
RawPlace == [raw2 |-> 25, read |-> 24, raw_out |-> 23, raw_init |-> 21, raw_dft |-> 18,
             raw_copy |-> 17, raw_clear |-> 16, raw_design |-> 15, raw_fir |-> 9,
             fir_raw_init |-> 7, fir_raw_dft |-> 6, fir_raw_copy |-> 5, fir_raw_end |-> 4,
             raw_end |-> 3, exit2 |-> 2, exit1 |-> 1, end |-> 0, dead |-> 0]
Turn == IF pc \in {"raw_dft", "raw_copy"} THEN 2
        ELSE IF pc \in {"raw_fir", "fir_raw_init", "fir_raw_dft", "fir_raw_copy"} THEN 5 ELSE 0

\* An FFT_INIT takes two steps, unless its buffer cannot be had.
Buffer == IF pc \in Initing /\ fftw = "none" THEN 1 ELSE 0

StepsLeft ==
  CASE pc \in SinLabels -> 26 + 8 * DESIGNS + SinPlace[pc] + Buffer
    [] pc \in FirLabels -> 18 + 8 * (DESIGNS - k) + FirPlace[pc] + Buffer
    [] OTHER -> RawPlace[pc] + Turn * (2 - w) + Buffer

StepsInRange ==
  StepsLeft \in 0 .. 34 + 8 * DESIGNS /\ (StepsLeft = 0 <=> pc \in {"end", "dead"})

StepsFall == StepsLeft' < StepsLeft

LEMMA RangeOfSteps == ASSUME ProgTypes PROVE StepsInRange
<1> DESIGNS \in Nat /\ k \in 0 .. DESIGNS /\ w \in {1, 2}
  BY FemAssumption DEF ProgTypes, Channel
<1> DESIGNS - k \in 0 .. DESIGNS
  OBVIOUS
<1> Buffer \in {0, 1} /\ (pc \notin Initing => Buffer = 0)
  BY DEF Buffer
<1>1. CASE pc \in SinLabels
  <2>1. SinPlace[pc] \in 1 .. 8 /\ SinPlace[pc] + Buffer \in 1 .. 8
    BY <1>1 DEF SinLabels, SinPlace, Initing
  <2> QED
    BY <1>1, <2>1 DEF StepsInRange, StepsLeft, SinLabels, FirLabels
<1>2. CASE pc \in FirLabels
  <2>1. FirPlace[pc] \in 1 .. 8 /\ FirPlace[pc] + Buffer \in 1 .. 8
    BY <1>2 DEF FirLabels, FirPlace, Initing
  <2> QED
    BY <1>2, <2>1 DEF StepsInRange, StepsLeft, SinLabels, FirLabels
<1>3. CASE pc \in RawLabels \cup {"end", "dead"}
  BY <1>3 DEF StepsInRange, StepsLeft, SinLabels, FirLabels, RawLabels, RawPlace, Turn, Initing
<1> QED
  BY <1>1, <1>2, <1>3 DEF ProgTypes

\* The first step of an FFT_INIT.
LEMMA BufferFalls ==
  ASSUME ProgTypes, NEW from \in Initing, NEW n, InitBuffer(from, n)
  PROVE  StepsFall
<1>1. /\ pc = from /\ pc' = pc /\ k' = k /\ w' = w
      /\ DESIGNS \in Nat /\ k \in 0 .. DESIGNS /\ w \in {1, 2}
  BY FemAssumption DEF InitBuffer, progVars, ProgTypes, Channel
<1>2. Buffer = 1 /\ Buffer' = 0
  BY <1>1 DEF InitBuffer, FftMalloc, Buffer
<1>3. Turn' = Turn /\ Turn \in {0, 5}
  BY <1>1 DEF Turn, Initing
<1>4. CASE pc = "sin_init"
  BY <1>1, <1>2, <1>4 DEF StepsFall, StepsLeft, SinLabels, FirLabels, SinPlace
<1>5. CASE pc = "fir_init"
  BY <1>1, <1>2, <1>5 DEF StepsFall, StepsLeft, SinLabels, FirLabels, FirPlace
<1>6. CASE pc \in {"raw_init", "fir_raw_init"}
  BY <1>1, <1>2, <1>3, <1>6 DEF StepsFall, StepsLeft, SinLabels, FirLabels, RawPlace
<1> QED
  BY <1>1, <1>4, <1>5, <1>6 DEF Initing

LEMMA SinFalls == ASSUME ProgTypes, SinNext PROVE StepsFall
<1> /\ DESIGNS \in Nat /\ k \in 0 .. DESIGNS /\ k' = k
  BY FemAssumption DEF ProgTypes, SinNext, SinGen, MallocOut, SinInit, InitBuffer, InitDriver,
     InitDriverFails, SinDft, Transform, SinCopy, CopyAndPlot, DieOfNull, ClearDriver, SinFree, progVars
<1> Buffer \in {0, 1} /\ Buffer' \in {0, 1} /\ (pc' \notin Initing => Buffer' = 0)
  BY DEF Buffer
<1>1. CASE InitBuffer("sin_init", SIN_CNT)
  BY <1>1, BufferFalls DEF Initing
<1>2. ASSUME ~InitBuffer("sin_init", SIN_CNT)
      PROVE  /\ pc \in SinLabels
             /\ \/ pc' \in SinLabels /\ SinPlace[pc'] + Buffer' < SinPlace[pc]
                \/ pc' \in {"fir", "dead"}
  BY <1>2 DEF SinNext, SinGen, MallocOut, SinInit, InitDriver, InitDriverFails, SinDft, Transform,
     SinCopy, CopyAndPlot, DieOfNull, ClearDriver, SinFree, Goto, SinLabels, SinPlace, Initing
<1>3. pc \in SinLabels => /\ StepsLeft = 26 + 8 * DESIGNS + SinPlace[pc] + Buffer
                          /\ SinPlace[pc] \in 1 .. 8
  BY DEF StepsLeft, SinLabels, FirLabels, SinPlace
<1>4. CASE /\ pc \in SinLabels /\ pc' \in SinLabels
           /\ SinPlace[pc'] + Buffer' < SinPlace[pc]
  <2>1. StepsLeft' = 26 + 8 * DESIGNS + SinPlace[pc'] + Buffer' /\ SinPlace[pc'] \in 1 .. 8
    BY <1>4 DEF StepsLeft, SinLabels, FirLabels, SinPlace
  <2> QED
    BY <1>3, <1>4, <2>1 DEF StepsFall
<1>5. CASE pc \in SinLabels /\ pc' = "fir"
  <2>1. StepsLeft' = 18 + 8 * (DESIGNS - k) + 8
    BY <1>5 DEF StepsLeft, SinLabels, FirLabels, FirPlace, Initing
  <2> QED
    BY <1>3, <1>5, <2>1 DEF StepsFall
<1>6. CASE pc \in SinLabels /\ pc' = "dead"
  <2>1. w' \in {1, 2}
    BY TypesSin DEF ProgTypes, Channel
  <2> QED
    BY <1>3, <1>6, <2>1 DEF StepsFall, StepsLeft, SinLabels, FirLabels, RawPlace, Turn, Initing
<1> QED
  BY <1>1, <1>2, <1>4, <1>5, <1>6

LEMMA FirFalls == ASSUME ProgTypes, FirNext PROVE StepsFall
<1> DESIGNS \in Nat /\ k \in 0 .. DESIGNS
  BY FemAssumption DEF ProgTypes
<1> Buffer \in {0, 1} /\ Buffer' \in {0, 1} /\ (pc' \notin Initing => Buffer' = 0)
  BY DEF Buffer
<1>1. CASE InitBuffer("fir_init", FIR_CNT)
  BY <1>1, BufferFalls DEF Initing
<1>2. ASSUME ~InitBuffer("fir_init", FIR_CNT)
      PROVE  /\ pc \in FirLabels /\ k < DESIGNS
             /\ \/ pc' \in FirLabels /\ FirPlace[pc'] + Buffer' < FirPlace[pc] /\ k' = k
                \/ pc' = "fir" /\ k' = k + 1
                \/ pc' = "dead"
  <2> USE DEF ProgTypes, Goto, FirLabels, FirPlace, Initing
  <2>1. CASE FirDesign
    BY <2>1 DEF FirDesign
  <2>2. CASE MallocOut("fir_out", "fir_init") \/ FirInit \/ FirDft \/ FirCopy \/ FirPlot
    BY <1>2, <2>2 DEF MallocOut, FirInit, InitDriver, InitDriverFails, FirDft, Transform,
                FirCopy, FirPlot
  <2>3. CASE DieOfNull("fir_copy") \/ DieOfNull("fir_plot") \/ FirFree
    BY <2>3 DEF DieOfNull, FirFree
  <2> QED
    BY <2>1, <2>2, <2>3 DEF FirNext
<1>3. pc \in FirLabels => /\ StepsLeft = 18 + 8 * (DESIGNS - k) + FirPlace[pc] + Buffer
                          /\ FirPlace[pc] \in 1 .. 8
  BY DEF StepsLeft, SinLabels, FirLabels, FirPlace
<1>4. CASE /\ pc \in FirLabels /\ pc' \in FirLabels /\ k' = k
           /\ FirPlace[pc'] + Buffer' < FirPlace[pc]
  <2>1. StepsLeft' = 18 + 8 * (DESIGNS - k) + FirPlace[pc'] + Buffer' /\ FirPlace[pc'] \in 1 .. 8
    BY <1>4 DEF StepsLeft, SinLabels, FirLabels, FirPlace
  <2> QED
    BY <1>3, <1>4, <2>1 DEF StepsFall
<1>5. CASE pc \in FirLabels /\ k < DESIGNS /\ pc' = "fir" /\ k' = k + 1
  <2>1. StepsLeft' = 18 + 8 * (DESIGNS - (k + 1)) + 8
    BY <1>5 DEF StepsLeft, SinLabels, FirLabels, FirPlace, Initing
  <2> QED
    BY <1>3, <1>5, <2>1 DEF StepsFall
<1>6. CASE pc \in FirLabels /\ k < DESIGNS /\ pc' = "dead"
  <2>1. w' \in {1, 2}
    BY TypesFir DEF ProgTypes, Channel
  <2> QED
    BY <1>3, <1>6, <2>1 DEF StepsFall, StepsLeft, SinLabels, FirLabels, RawPlace, Turn, Initing
<1> QED
  BY <1>1, <1>2, <1>4, <1>5, <1>6

LEMMA RawFalls == ASSUME ProgTypes, RawNext PROVE StepsFall
<1> w \in {1, 2} /\ DESIGNS \in Nat
  BY FemAssumption DEF ProgTypes, Channel
<1> Buffer \in {0, 1} /\ Buffer' \in {0, 1}
  BY DEF Buffer
<1>1. CASE InitBuffer("raw_init", cnt) \/ InitBuffer("fir_raw_init", cnt)
  BY <1>1, BufferFalls DEF Initing
<1>2. CASE RawAlloc1
  BY <1>2 DEF RawAlloc1, FirPlace, Initing, Buffer, StepsFall, StepsLeft, SinLabels, FirLabels,
     RawPlace, Turn, Goto
<1> (pc \notin Initing => Buffer = 0) /\ (pc' \notin Initing => Buffer' = 0)
  BY DEF Buffer
<1> USE DEF StepsFall, StepsLeft, SinLabels, FirLabels, RawPlace, Turn, Goto, Initing
<1>3. CASE RawAlloc2 \/ RawRead \/ MallocOut("raw_out", "raw_init") \/ RawDesign \/ FirRawEnd
  BY <1>3 DEF RawAlloc2, RawRead, MallocOut, RawDesign, FirRawEnd
<1>4. CASE RawInit /\ ~InitBuffer("raw_init", cnt)
  BY <1>4 DEF RawInit, InitDriver, InitDriverFails
<1>5. CASE FirRawInit /\ ~InitBuffer("fir_raw_init", cnt)
  BY <1>5 DEF FirRawInit, InitDriver, InitDriverFails, NextChannel
<1>6. CASE RawDft \/ FirRawDft
  BY <1>6 DEF RawDft, FirRawDft, Transform, NextChannel
<1>7. CASE RawCopy \/ FirRawCopy
  BY <1>7 DEF RawCopy, FirRawCopy, CopyAndPlot, NextChannel
<1>8. CASE RawFir
  BY <1>8 DEF RawFir, NextChannel
<1>9. CASE DieOfNull("raw_copy") \/ DieOfNull("fir_raw_copy") \/ ClearDriver("raw_clear", "raw_design")
  BY <1>9 DEF DieOfNull, ClearDriver, progVars
<1>10. CASE \/ FreeStep("raw_end", "exit2", "out")
            \/ FreeStep("exit2", "exit1", "raw1") \/ FreeStep("exit1", "end", "raw2")
  BY <1>10 DEF FreeStep
<1> QED
  BY <1>1, <1>2, <1>3, <1>4, <1>5, <1>6, <1>7, <1>8, <1>9, <1>10 DEF RawNext

(***************************************************************************)
(* main of fem-fft.c returns or dies after at most 34 + 8 * DESIGNS of its *)
(* steps, whichever allocations, files and FFT_INITs fail: every step but  *)
(* the last brings it nearer to an end, and only there nothing is left.    *)
(***************************************************************************)
THEOREM ProgramEnds == FemSpec => []StepsInRange /\ [][StepsFall]_femVars
<1>1. ProgTypes /\ [FemNext]_femVars => [StepsFall]_femVars
  BY SinFalls, FirFalls, RawFalls DEF FemNext, Over
<1> QED
  BY <1>1, ProgTypesInit, ProgTypesStep, RangeOfSteps, PTL DEF FemSpec
-----------------------------------------------------------------------------
(* The memory of the program *)

CoeffLabels == {"fir_out", "fir_init", "fir_dft", "fir_copy", "fir_plot", "fir_free",
                "raw_fir", "fir_raw_init", "fir_raw_dft", "fir_raw_copy", "fir_raw_end"}
OutLabels == {"sin_init", "sin_dft", "sin_copy", "sin_amp", "sin_free",
              "fir_init", "fir_dft", "fir_copy", "fir_plot", "fir_free",
              "raw_init", "raw_dft", "raw_copy", "raw_clear", "raw_design", "raw_fir",
              "fir_raw_init", "fir_raw_dft", "fir_raw_copy", "fir_raw_end", "raw_end"}
SinxLabels == {"sin_out", "sin_init", "sin_dft", "sin_copy", "sin_amp", "sin_free"}
RawOwned == {"read", "raw_out", "raw_init", "raw_dft", "raw_copy", "raw_clear", "raw_design",
             "raw_fir", "fir_raw_init", "fir_raw_dft", "fir_raw_copy", "fir_raw_end", "raw_end",
             "exit2"}

\* What is allocated at each label, until the program dies.
MemoryInv ==
  /\ left \in [Owned -> Int] /\ owed \in [{"sinx", "coeff"} -> {0, 1}]
  /\ noRaw2 \in BOOLEAN
  /\ pc # "dead" =>
       /\ owed["sinx"] = IF pc \in SinxLabels THEN 1 ELSE 0
       /\ owed["coeff"] = IF pc \in CoeffLabels THEN 1 ELSE 0
       /\ pc \notin OutLabels => left["out"] = 0
       /\ pc \notin RawOwned \cup {"raw2"} => left["raw1"] = IF noRaw2 THEN 1 ELSE 0
       /\ pc = "raw2" => left["raw1"] = 1
       /\ pc \notin RawOwned \cup {"exit1"} => left["raw2"] = 0
       /\ noRaw2 => pc \in {"exit1", "end"}

LEMMA MemorySin == ASSUME MemoryInv, SinNext PROVE MemoryInv'
<1> USE DEF MemoryInv, SinxLabels, CoeffLabels, OutLabels, RawOwned, Goto, Obtain, GiveBack, Alloc, Free, Owned
<1>1. CASE SinGen
  BY <1>1 DEF SinGen
<1>2. CASE MallocOut("sin_out", "sin_init")
  BY <1>2 DEF MallocOut
<1>3. CASE SinInit
  BY <1>3 DEF SinInit, InitBuffer, InitDriver, InitDriverFails, progVars
<1>4. CASE SinDft
  BY <1>4 DEF SinDft, Transform
<1>5. CASE SinCopy
  BY <1>5 DEF SinCopy, CopyAndPlot
<1>6. CASE DieOfNull("sin_copy") \/ ClearDriver("sin_amp", "sin_free")
  BY <1>6 DEF DieOfNull, ClearDriver, progVars
<1>7. CASE SinFree
  BY <1>7 DEF SinFree
<1> QED
  BY <1>1, <1>2, <1>3, <1>4, <1>5, <1>6, <1>7 DEF SinNext

LEMMA MemoryFir == ASSUME MemoryInv, FirNext PROVE MemoryInv'
<1> USE DEF MemoryInv, SinxLabels, CoeffLabels, OutLabels, RawOwned, Goto, Obtain, GiveBack, Alloc, Free, Owned
<1>1. CASE FirDesign
  BY <1>1 DEF FirDesign
<1>2. CASE MallocOut("fir_out", "fir_init")
  BY <1>2 DEF MallocOut
<1>3. CASE FirInit
  BY <1>3 DEF FirInit, InitBuffer, InitDriver, InitDriverFails, progVars
<1>4. CASE FirDft
  BY <1>4 DEF FirDft, Transform
<1>5. CASE FirCopy
  BY <1>5 DEF FirCopy
<1>6. CASE DieOfNull("fir_copy") \/ DieOfNull("fir_plot") \/ FirPlot
  BY <1>6 DEF DieOfNull, FirPlot, progVars
<1>7. CASE FirFree
  BY <1>7 DEF FirFree
<1> QED
  BY <1>1, <1>2, <1>3, <1>4, <1>5, <1>6, <1>7 DEF FirNext

LEMMA MemoryRaw == ASSUME MemoryInv, RawNext PROVE MemoryInv'
<1> USE DEF MemoryInv, SinxLabels, CoeffLabels, OutLabels, RawOwned, Goto, Obtain, GiveBack, Alloc, Free, Owned
<1>1. CASE RawAlloc1
  BY <1>1 DEF RawAlloc1
<1>2. CASE RawAlloc2
  <2>1. pc = "raw2" /\ ~noRaw2 /\ owed' = owed
    BY <1>2 DEF RawAlloc2
  <2>2. CASE pc' = "read" /\ Alloc("raw2") /\ UNCHANGED noRaw2
    BY <2>1, <2>2
  <2>3. CASE pc' = "exit1" /\ noRaw2' = TRUE /\ UNCHANGED left
    BY <2>1, <2>3
  <2> QED
    BY <1>2, <2>2, <2>3 DEF RawAlloc2
<1>3. CASE RawRead
  BY <1>3 DEF RawRead
<1>4. CASE MallocOut("raw_out", "raw_init")
  BY <1>4 DEF MallocOut
<1>5. CASE RawInit
  BY <1>5 DEF RawInit, InitBuffer, InitDriver, InitDriverFails, progVars
<1>6. CASE RawDft
  BY <1>6 DEF RawDft, Transform, NextChannel
<1>7. CASE RawCopy
  BY <1>7 DEF RawCopy, CopyAndPlot, NextChannel
<1>8. CASE DieOfNull("raw_copy") \/ DieOfNull("fir_raw_copy") \/ ClearDriver("raw_clear", "raw_design")
  BY <1>8 DEF DieOfNull, ClearDriver, progVars
<1>9. CASE RawDesign
  BY <1>9 DEF RawDesign
<1>10. CASE RawFir
  BY <1>10 DEF RawFir, NextChannel
<1>11. CASE FirRawInit
  BY <1>11 DEF FirRawInit, InitBuffer, InitDriver, InitDriverFails, progVars, NextChannel
<1>12. CASE FirRawDft
  BY <1>12 DEF FirRawDft, Transform
<1>13. CASE FirRawCopy
  BY <1>13 DEF FirRawCopy, CopyAndPlot, NextChannel
<1>14. CASE FirRawEnd
  BY <1>14 DEF FirRawEnd
<1>15. CASE FreeStep("raw_end", "exit2", "out")
  BY <1>15 DEF FreeStep
<1>16. CASE FreeStep("exit2", "exit1", "raw1") \/ FreeStep("exit1", "end", "raw2")
  BY <1>16 DEF FreeStep
<1> QED
  BY <1>1, <1>2, <1>3, <1>4, <1>5, <1>6, <1>7, <1>8, <1>9, <1>10, <1>11, <1>12, <1>13, <1>14,
     <1>15, <1>16 DEF RawNext

LEMMA MemoryStep == MemoryInv /\ [FemNext]_femVars => MemoryInv'
<1>1. MemoryInv /\ UNCHANGED femVars => MemoryInv'
  BY DEF femVars, progVars, MemoryInv
<1> QED
  BY <1>1, MemorySin, MemoryFir, MemoryRaw DEF FemNext, Over

LEMMA MemoryInit == FemInit => MemoryInv
<1> SUFFICES ASSUME FemInit PROVE MemoryInv
  OBVIOUS
<1>1. left \in [Owned -> Int] /\ owed \in [{"sinx", "coeff"} -> {0, 1}]
  BY DEF FemInit, Owned
<1>2. /\ left["sinx"] = 0 /\ left["out"] = 0 /\ left["coeff"] = 0 /\ left["raw1"] = 0
      /\ left["raw2"] = 0 /\ owed["sinx"] = 0 /\ owed["coeff"] = 0
  BY DEF FemInit, Owned
<1>3. pc = "sin" /\ ~noRaw2 /\ noRaw2 \in BOOLEAN
  BY DEF FemInit
<1>4. pc \notin SinxLabels /\ pc \notin CoeffLabels /\ pc # "raw2"
  BY <1>3 DEF SinxLabels, CoeffLabels
<1> QED
  BY <1>1, <1>2, <1>3, <1>4 DEF MemoryInv

\* What is left in the heap when main returns, by whatever path.
THEOREM MemoryAtEnd == FemSpec => []EndOfMain
<1>1. MemoryInv => EndOfMain
  BY DEF MemoryInv, EndOfMain, SinxLabels, CoeffLabels, OutLabels, RawOwned
<1> QED
  BY <1>1, MemoryInit, MemoryStep, PTL DEF FemSpec

\* Every variable of the program keeps its type.
THEOREM FemTypes == FemSpec => []FemTypeOK
<1>1. ASSUME ProgTypes, DriverInv, MemoryInv PROVE FemTypeOK
  <2>1. made \in Nat
    BY <1>1 DEF ProgTypes, DriverInv, DriverSound, Records
  <2>2. owed \in [{"sinx", "coeff"} -> Nat]
    BY <1>1 DEF MemoryInv
  <2> QED
    BY <1>1, <2>1, <2>2 DEF ProgTypes, DriverInv, Records, FemTypeOK
<1> QED
  BY <1>1, ProgTypesInit, ProgTypesStep, DriverInit, DriverStep, MemoryInit, MemoryStep, PTL
  DEF FemSpec
-----------------------------------------------------------------------------
(* What the driver is used for, and what the plots show *)

Ready(n) == drv.init = 1 /\ drv.flags = R2C /\ drv.pnt = n

\* From an FFT_INIT that succeeded to the next clear the driver is set to the
\* length of the signals in work.
UseInv ==
  /\ pc \in {"sin_dft", "sin_copy", "sin_amp"} => Ready(SIN_CNT)
  /\ pc \in {"fir_dft", "fir_copy"} => Ready(FIR_CNT) /\ fft
  /\ pc \in {"raw_dft", "raw_copy", "raw_clear", "fir_raw_dft", "fir_raw_copy"} => Ready(cnt)

Filtering == {"raw_fir", "fir_raw_init", "fir_raw_dft", "fir_raw_copy", "fir_raw_end", "raw_end",
              "exit2", "exit1", "end", "dead"}

\* Before each copy the driver holds the spectrum that the plot is named after.
ContentInv ==
  /\ w \in Channel /\ sig \in [Channel -> Signals]
  /\ pc \notin Filtering => sig = Raw
  /\ pc \in {"fir_raw_init", "fir_raw_dft"} => sig[w] = Filtered[w]
  /\ pc = "sin_copy" => content = "sinx"
  /\ pc = "fir_copy" => content = "coeff"
  /\ pc = "raw_copy" => content = Raw[w]
  /\ pc = "fir_raw_copy" => content = Filtered[w]
  /\ pc = "fir_plot" /\ fft => out = "coeff"
  /\ PlotTrue

DataInv == DriverInv /\ UseInv /\ ContentInv

LEMMA ChannelNames ==
  /\ Raw \in [Channel -> Signals] /\ Filtered \in [Channel -> Signals]
  /\ \A c \in Channel : Raw[c] \in Signals /\ Filtered[c] \in Signals
  BY DEF Raw, Filtered, Channel, Signals

LEMMA FullLength ==
  ASSUME NEW n \in Nat \ {0}, Ready(n)
  PROVE  DftResult(n) = 0
  BY DEF Ready, DftResult

LEMMA DataSin ==
  ASSUME DataInv, SinNext
  PROVE  (UseInv /\ ContentInv)'
<1> USE DEF DataInv, UseInv, ContentInv, Ready, PlotTrue, Goto, drvVars, Filtering
<1>1. CASE SinGen \/ MallocOut("sin_out", "sin_init") \/ SinFree
  BY <1>1 DEF SinGen, MallocOut, SinFree
<1>2. CASE SinInit
  BY <1>2 DEF SinInit, InitBuffer, InitDriver, InitDriverFails, FftPlan,
     progVars, DriverInv, Records, R2C
<1>3. CASE SinDft
  <2>1. DftResult(SIN_CNT) = 0
    BY <1>3, FullLength, FemAssumption DEF SinDft, Transform
  <2> QED
    BY <1>3, <2>1 DEF SinDft, Transform, FftDft
<1>4. CASE SinCopy
  BY <1>4 DEF SinCopy, CopyAndPlot, Copied
<1>5. CASE DieOfNull("sin_copy") \/ ClearDriver("sin_amp", "sin_free")
  BY <1>5 DEF DieOfNull, ClearDriver, FftClear, progVars
<1> QED
  BY <1>1, <1>2, <1>3, <1>4, <1>5 DEF SinNext

LEMMA DataFir ==
  ASSUME DataInv, FirNext
  PROVE  (UseInv /\ ContentInv)'
<1> USE DEF DataInv, UseInv, ContentInv, Ready, PlotTrue, Goto, drvVars, Filtering
<1>1. CASE FirDesign \/ MallocOut("fir_out", "fir_init") \/ FirFree
  BY <1>1 DEF FirDesign, MallocOut, FirFree
<1>2. CASE FirInit
  BY <1>2 DEF FirInit, InitBuffer, InitDriver, InitDriverFails, FftPlan,
     progVars, DriverInv, Records, R2C
<1>3. CASE FirDft
  <2>1. TAPS \in Nat /\ FIR_CNT \in Nat /\ TAPS <= FIR_CNT
    BY FemAssumption
  <2>2. DftResult(TAPS) = 0
    BY <1>3, <2>1 DEF FirDft, Transform, DftResult
  <2> QED
    BY <1>3, <2>2 DEF FirDft, Transform, FftDft
<1>4. CASE FirCopy
  BY <1>4 DEF FirCopy, Copied
<1>5. CASE FirPlot
  BY <1>5 DEF FirPlot
<1>6. CASE DieOfNull("fir_copy") \/ DieOfNull("fir_plot")
  BY <1>6 DEF DieOfNull, progVars
<1> QED
  BY <1>1, <1>2, <1>3, <1>4, <1>5, <1>6 DEF FirNext

LEMMA DataRaw ==
  ASSUME DataInv, RawNext
  PROVE  (UseInv /\ ContentInv)'
<1> USE DEF DataInv, UseInv, ContentInv, Ready, PlotTrue, Goto, drvVars, Filtering
<1>1. CASE RawAlloc1 \/ RawAlloc2 \/ RawRead \/ MallocOut("raw_out", "raw_init")
  BY <1>1 DEF RawAlloc1, RawAlloc2, RawRead, MallocOut
<1>2. CASE RawInit
  BY <1>2 DEF RawInit, InitBuffer, InitDriver, InitDriverFails, FftPlan,
     progVars, DriverInv, Records, R2C
<1>3. CASE RawDft
  <2>1. DftResult(cnt) = 0
    BY <1>3, FullLength DEF RawDft, Transform, DriverInv
  <2> QED
    BY <1>3, <2>1 DEF RawDft, Transform, FftDft
<1>4. CASE RawCopy
  BY <1>4 DEF RawCopy, CopyAndPlot, Copied, NextChannel, Channel
<1>5. CASE DieOfNull("raw_copy") \/ DieOfNull("fir_raw_copy") \/ ClearDriver("raw_clear", "raw_design")
  BY <1>5 DEF DieOfNull, ClearDriver, FftClear, progVars
<1>6. CASE RawDesign \/ FirRawEnd
  BY <1>6 DEF RawDesign, FirRawEnd
<1>7. CASE RawFir
  BY <1>7, ChannelNames DEF RawFir, NextChannel, Channel
<1>8. CASE FirRawInit
  BY <1>8 DEF FirRawInit, InitBuffer, InitDriver, InitDriverFails, FftPlan,
     progVars, DriverInv, Records, NextChannel, Channel, R2C
<1>9. CASE FirRawDft
  <2>1. DftResult(cnt) = 0
    BY <1>9, FullLength DEF FirRawDft, Transform, DriverInv
  <2> QED
    BY <1>9, <2>1 DEF FirRawDft, Transform, FftDft
<1>10. CASE FirRawCopy
  BY <1>10 DEF FirRawCopy, CopyAndPlot, Copied, NextChannel, Channel
<1>11. CASE FreeStep("raw_end", "exit2", "out") \/ FreeStep("exit2", "exit1", "raw1")
            \/ FreeStep("exit1", "end", "raw2")
  BY <1>11 DEF FreeStep
<1> QED
  BY <1>1, <1>2, <1>3, <1>4, <1>5, <1>6, <1>7, <1>8, <1>9, <1>10, <1>11 DEF RawNext

LEMMA DataStep == DataInv /\ [FemNext]_femVars => DataInv'
<1>1. DataInv /\ UNCHANGED femVars => DataInv'
  BY DriverStep DEF femVars, drvVars, progVars, DataInv, UseInv, ContentInv, Ready, PlotTrue
<1> QED
  BY <1>1, DriverStep, DataSin, DataFir, DataRaw DEF FemNext, Over, DataInv

LEMMA DataInit == FemInit => DataInv
  BY DriverInit, ChannelNames
  DEF FemInit, DataInv, UseInv, ContentInv, PlotTrue, Channel

\* Every plot shows the signal it is named after, except the one of fir_out
\* after an FFT_INIT that failed.
THEOREM PlotsCorrect == FemSpec => []PlotTrue
<1>1. DataInv => PlotTrue
  BY DEF DataInv, ContentInv
<1> QED
  BY <1>1, DataInit, DataStep, PTL DEF FemSpec
-----------------------------------------------------------------------------
(* The sizes of the buffers *)

\* The point of a frequency up to half of fs lies in the half spectrum.
LEMMA BinInHalf ==
  ASSUME NEW n \in Nat, NEW fs \in Nat \ {0}, NEW f0 \in Nat, 2 * f0 <= fs
  PROVE  (f0 * n) \div fs < n \div 2 + 1
<1> DEFINE q == (f0 * n) \div fs
<1>1. f0 * n \in Nat
  BY SMT
<1>2. q \in Nat /\ fs * q <= f0 * n
  BY <1>1, SMT
<1> HIDE DEF q
<1>3. 2 * (f0 * n) <= fs * n
  <2>1. 2 * (f0 * n) = (2 * f0) * n
    BY SMT
  <2>2. (2 * f0) * n <= fs * n
    BY SMT
  <2> QED
    BY <2>1, <2>2, SMT
<1>4. 2 * q <= n
  <2>1. fs * (2 * q) <= fs * n
    BY <1>1, <1>2, <1>3, SMT
  <2>2. CASE 2 * q >= n + 1
    <3>1. fs * (2 * q) >= fs * (n + 1)
      BY <1>2, <2>2, SMT
    <3>2. fs * (n + 1) = fs * n + fs
      BY SMT
    <3> QED
      BY <1>2, <2>1, <3>1, <3>2, SMT
  <2> QED
    BY <1>2, <2>2, SMT
<1> QED
  BY <1>2, <1>4, SMT DEF q

LEMMA ReadyLength ==
  ASSUME DataInv, NEW n \in Nat \ {0}, Ready(n)
  PROVE  drv.length = n \div 2 + 1 /\ drv.length \in Nat /\ drv.length <= n
         /\ n <= 2 * drv.length
<1>1. drv.length = n \div 2 + 1
  BY DEF DataInv, DriverInv, DriverSound, Ready, LengthFor, R2C
<1>2. n \div 2 + 1 \in Nat /\ n <= 2 * (n \div 2 + 1) /\ n \div 2 + 1 <= n
  BY SMT
<1> QED
  BY <1>1, <1>2

LEMMA DataInBuffers ==
  ASSUME DataInv
  PROVE  InBuffers
<1> /\ SIN_CNT \in Nat \ {0} /\ FIR_CNT \in Nat \ {0} /\ cnt \in Nat \ {0}
    /\ TAPS \in Nat /\ TAPS <= FIR_CNT /\ FS \in Nat \ {0} /\ F0 \in Nat /\ 2 * F0 <= FS
  BY FemAssumption DEF DataInv, DriverInv
<1> USE DEF DataInv, UseInv
<1>1. CASE pc \in {"sin_dft", "sin_copy", "sin_amp"}
  <2>1. /\ drv.init = 1 /\ drv.pnt = SIN_CNT /\ drv.length = SIN_CNT \div 2 + 1
        /\ drv.length <= SIN_CNT /\ SIN_CNT <= 2 * drv.length
    BY <1>1, ReadyLength DEF Ready
  <2>2. OutSize = SIN_CNT /\ Points = SIN_CNT
    BY <1>1 DEF OutSize, Points, SinLabels, FirLabels
  <2>3. \A f0 \in {0, SIN_CNT \div 4, SIN_CNT \div 8} : f0 \in Nat /\ 2 * f0 <= SIN_CNT
    BY SMT
  <2>4. \A f0 \in {0, SIN_CNT \div 4, SIN_CNT \div 8} : Bin(SIN_CNT, f0) < drv.length
    BY <2>1, <2>3, BinInHalf DEF Bin
  <2>5. \A b \in Bins : b < drv.length
    BY <1>1, <2>4 DEF Bins, SinLabels
  <2> QED
    BY <1>1, <2>1, <2>2, <2>5 DEF InBuffers
<1>2. CASE pc \in {"fir_dft", "fir_copy"}
  <2>1. drv.init = 1 /\ drv.length <= FIR_CNT /\ FIR_CNT <= 2 * drv.length /\ drv.length \in Nat
    BY <1>2, ReadyLength DEF Ready
  <2>2. OutSize = FIR_CNT /\ Points = TAPS
    BY <1>2 DEF OutSize, Points, SinLabels, FirLabels
  <2> QED
    BY <1>2, <2>1, <2>2 DEF InBuffers
<1>3. CASE pc \in {"raw_dft", "raw_copy", "fir_raw_dft", "fir_raw_copy"}
  <2>1. /\ drv.init = 1 /\ drv.pnt = cnt /\ drv.length = cnt \div 2 + 1
        /\ drv.length <= cnt /\ cnt <= 2 * drv.length
    BY <1>3, ReadyLength DEF Ready
  <2>2. OutSize = cnt /\ Points = cnt /\ Bins = {Bin(FS, F0)}
    BY <1>3 DEF OutSize, Points, Bins, SinLabels, FirLabels
  <2>3. Bin(FS, F0) < drv.length
    BY <2>1, BinInHalf DEF Bin
  <2> QED
    BY <1>3, <2>1, <2>2, <2>3 DEF InBuffers
<1> QED
  BY <1>1, <1>2, <1>3 DEF InBuffers

\* No call of the driver reads or writes past a buffer, for every length.
THEOREM BuffersRespected == FemSpec => []InBuffers
  BY DataInit, DataStep, DataInBuffers, PTL DEF FemSpec
=============================================================================
