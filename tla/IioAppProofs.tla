---------------------------- MODULE IioAppProofs ----------------------------
(***************************************************************************)
(* What ends the sampling program, what becomes of the frame buffer's      *)
(* device, and the duration that is shown, for every clock, every width    *)
(* and every answer of the ADC.                                            *)
(***************************************************************************)
EXTENDS IioApp, TLAPS

MainLabels == {"signals", "create", "open", "init", "map", "draw", "close", "join", "over"}
IioLabels == {"none", "first", "read", "second", "show"}

IioTypes ==
  /\ pc \in [Threads -> MainLabels \cup IioLabels]
  /\ pc["iio"] \in IioLabels
  /\ handler \in [Threads -> {"none", "entered", "set"}]
  /\ process \in {"runs", "exited", "killed"}
  /\ cause \in {"none", "signal", "fault"}
  /\ fd \in BOOLEAN /\ fits \in BOOLEAN

\* What is open at each label of main.
LcdStage ==
  /\ pc["main"] \in {"signals", "create", "open"} => fb = "none" /\ ~fd
  /\ pc["main"] \in {"init", "map"} => fb = "none" /\ fd
  /\ pc["main"] \in {"draw", "close"} => fd
  /\ pc["main"] \in {"signals", "create", "open", "init", "map", "draw", "close"} => lcdEnd = "none"
  /\ DeviceClosed

\* A fault leaves main in its handler at the place of the fault; who is in a
\* handler has a cause; without a cause only a join without a thread ends.
CauseInv ==
  /\ cause = "fault" =>
       /\ handler["main"] # "none"
       /\ \/ pc["main"] = "draw" /\ (fb = "failed" \/ ~fits)
          \/ pc["main"] = "join" /\ pc["iio"] = "none"
  /\ \A t \in Threads : handler[t] # "none" => cause # "none"
  /\ process # "runs" => cause # "none" \/ pc["iio"] = "none"

EndInv == IioTypes /\ LcdStage /\ CauseInv

LEMMA MainStep ==
  ASSUME EndInv,
         InstallHandler \/ CreateThread \/ OpenLcd \/ InitLcd \/ RequestFbmem \/ DrawLcd \/ CloseLcd
  PROVE  EndInv'
<1> USE DEF EndInv, Runs, Goto, Threads, sigVars, lcdVars, sampleVars
<1> /\ process = "runs" /\ handler["main"] = "none" /\ cause # "fault"
  BY DEF InstallHandler, CreateThread, OpenLcd, InitLcd, RequestFbmem, DrawLcd, CloseLcd, CauseInv
<1>1. CASE InstallHandler
  BY <1>1 DEF InstallHandler, IioTypes, LcdStage, DeviceClosed, CauseInv, MainLabels, IioLabels
<1>2. CASE CreateThread
  BY <1>2 DEF CreateThread, IioTypes, LcdStage, DeviceClosed, CauseInv, MainLabels, IioLabels
<1>3. CASE OpenLcd
  <2>1. CASE Goto("main", "open", "init") /\ fd' = TRUE /\ UNCHANGED lcdEnd
    BY <1>3, <2>1 DEF OpenLcd, IioTypes, LcdStage, DeviceClosed, CauseInv, MainLabels, IioLabels
  <2>2. CASE Goto("main", "open", "join") /\ lcdEnd' = "no device" /\ UNCHANGED fd
    BY <1>3, <2>2 DEF OpenLcd, IioTypes, LcdStage, DeviceClosed, CauseInv, MainLabels, IioLabels
  <2> QED
    BY <1>3, <2>1, <2>2 DEF OpenLcd
<1>4. CASE InitLcd
  BY <1>4 DEF InitLcd, IioTypes, LcdStage, DeviceClosed, CauseInv, MainLabels, IioLabels
<1>5. CASE RequestFbmem
  BY <1>5 DEF RequestFbmem, IioTypes, LcdStage, DeviceClosed, CauseInv, MainLabels, IioLabels
<1>6. CASE DrawLcd
  BY <1>6 DEF DrawLcd, IioTypes, LcdStage, DeviceClosed, CauseInv, MainLabels, IioLabels
<1>7. CASE CloseLcd
  BY <1>7 DEF CloseLcd, IioTypes, LcdStage, DeviceClosed, CauseInv, MainLabels, IioLabels
<1> QED
  BY <1>1, <1>2, <1>3, <1>4, <1>5, <1>6, <1>7

LEMMA JoinStep ==
  ASSUME EndInv, DrawFaults \/ JoinReturns \/ JoinFaults
  PROVE  EndInv'
<1> USE DEF EndInv, Runs, Goto, Threads, sigVars, lcdVars, sampleVars
<1>1. CASE DrawFaults
  BY <1>1 DEF DrawFaults, Fault, IioTypes, LcdStage, DeviceClosed, CauseInv
<1>2. CASE JoinReturns
  BY <1>2 DEF JoinReturns, IioTypes, LcdStage, DeviceClosed, CauseInv, MainLabels
<1>3. CASE JoinFaults
  BY <1>3 DEF JoinFaults, Fault, IioTypes, LcdStage, DeviceClosed, CauseInv
<1> QED
  BY <1>1, <1>2, <1>3

LEMMA SampleStep ==
  ASSUME EndInv, SampleNext
  PROVE  EndInv'
<1>1. PICK from \in IioLabels \ {"none"}, to \in IioLabels \ {"none"} :
        Goto("iio", from, to) /\ UNCHANGED sigVars /\ UNCHANGED lcdVars
  BY DEF SampleNext, TakeTime, RawRead, TakeElapsed, Show, IioLabels
<1>2. pc["iio"] # "none" /\ pc'["iio"] # "none" /\ pc'["main"] = pc["main"] /\ process = "runs"
  BY <1>1 DEF EndInv, IioTypes, Goto, Runs, Threads
<1>3. pc' \in [Threads -> MainLabels \cup IioLabels] /\ pc'["iio"] \in IioLabels
  BY <1>1 DEF EndInv, IioTypes, Goto, Threads
<1>4. cause = "fault" => pc["main"] # "join"
  BY <1>2 DEF EndInv, CauseInv
<1> QED
  BY <1>1, <1>2, <1>3, <1>4
  DEF EndInv, IioTypes, LcdStage, DeviceClosed, CauseInv, sigVars, lcdVars

LEMMA SignalStep ==
  ASSUME EndInv, NEW t \in Threads, Handle(t) \/ \E which \in {1, 2} : Signal(t, which)
  PROVE  EndInv'
<1> USE DEF EndInv, Threads, lcdVars, sampleVars
<1>1. CASE HandlerSets(t)
  BY <1>1 DEF HandlerSets, IioTypes, LcdStage, DeviceClosed, CauseInv
<1>2. CASE HandlerExits(t)
  BY <1>2 DEF HandlerExits, IioTypes, LcdStage, DeviceClosed, CauseInv
<1>3. ASSUME NEW which \in {1, 2}, Signal(t, which) PROVE EndInv'
  <2>1. CASE installed < which
    BY <1>3, <2>1 DEF Signal, Runs, IioTypes, LcdStage, DeviceClosed, CauseInv
  <2>2. CASE ~(installed < which)
    BY <1>3, <2>2 DEF Signal, Runs, IioTypes, LcdStage, DeviceClosed, CauseInv
  <2> QED
    BY <2>1, <2>2
<1> QED
  BY <1>1, <1>2, <1>3 DEF Handle

LEMMA EndStep == EndInv /\ [IioNext]_iioVars => EndInv'
<1> SUFFICES ASSUME EndInv, [IioNext]_iioVars PROVE EndInv'
  OBVIOUS
<1>1. CASE MainNext
  BY <1>1, MainStep, JoinStep DEF MainNext
<1>2. CASE SampleNext
  BY <1>2, SampleStep
<1>3. CASE \E t \in Threads : Handle(t) \/ \E which \in {1, 2} : Signal(t, which)
  BY <1>3, SignalStep
<1>4. CASE Tick \/ UNCHANGED iioVars
  <2>1. UNCHANGED <<pc, sigVars, lcdVars>>
    BY <1>4 DEF Tick, iioVars, sigVars, lcdVars
  <2> QED
    BY <2>1 DEF sigVars, lcdVars, EndInv, IioTypes, LcdStage, DeviceClosed, CauseInv
<1> QED
  BY <1>1, <1>2, <1>3, <1>4 DEF IioNext

LEMMA EndInit == IioInit => EndInv
<1> SUFFICES ASSUME IioInit PROVE EndInv
  OBVIOUS
<1>1. pc["main"] = "signals" /\ pc["iio"] = "none" /\ DOMAIN pc = Threads
  BY DEF IioInit, Threads
<1>2. pc \in [Threads -> MainLabels \cup IioLabels]
  BY DEF IioInit, Threads, MainLabels, IioLabels
<1> QED
  BY <1>1, <1>2 DEF IioInit, EndInv, IioTypes, LcdStage, DeviceClosed, CauseInv, Threads, IioLabels

(***************************************************************************)
(* Once the sampling thread exists the program ends for a signal or for a  *)
(* fault of the drawing only, whatever devices answer: iio.c:82 waits.     *)
(***************************************************************************)
THEOREM EndCause == IioSpec => []EndsOnlyFor
<1>1. EndInv => EndsOnlyFor
  BY DEF EndInv, IioTypes, LcdStage, CauseInv, EndsOnlyFor
<1> QED
  BY <1>1, EndInit, EndStep, PTL DEF IioSpec

\* lcd_test leaves the device open on one of its paths only (fem_fb.c:22).
THEOREM DeviceReleased == IioSpec => []DeviceClosed
<1>1. EndInv => DeviceClosed
  BY DEF EndInv, LcdStage
<1> QED
  BY <1>1, EndInit, EndStep, PTL DEF IioSpec
-----------------------------------------------------------------------------
(* Signals *)

Installed ==
  /\ installed \in 0 .. 3
  /\ installed = 3 <=> pc["main"] # "signals"

\* A default action is met during the calls of signal() only; later, who took
\* a signal or faulted is in a handler until the process has ended.
ExitPending ==
  /\ process = "killed" => pc["main"] = "signals"
  /\ cause # "none" => process # "runs" \/ \E t \in Threads : handler[t] # "none"

\* No handler gives control back, and no thread moves in an ended process.
NoReturn ==
  /\ process = "runs"
  /\ \A t \in Threads :
       handler[t] # "none" => pc'[t] = pc[t] /\ handler'[t] \in {handler[t], "set"}

\* A thread that does not exist takes no signal.
Unborn ==
  /\ pc["main"] \in {"signals", "create"} => pc["iio"] = "none"
  /\ pc["iio"] = "none" => handler["iio"] = "none"

PendingInv == IioTypes /\ Installed /\ ExitPending /\ Unborn

LEMMA PendingInit == IioInit => Installed /\ ExitPending /\ Unborn
BY DEF IioInit, Installed, ExitPending, Unborn, Threads

LEMMA PendingMain ==
  ASSUME PendingInv, MainNext
  PROVE  Installed' /\ ExitPending' /\ Unborn' /\ NoReturn
<1> USE DEF PendingInv, Runs, Goto, Threads
<1>1. /\ process = "runs" /\ handler["main"] = "none"
      /\ pc \in [Threads -> MainLabels \cup IioLabels]
      /\ handler \in [Threads -> {"none", "entered", "set"}]
  BY DEF MainNext, InstallHandler, CreateThread, OpenLcd, InitLcd, RequestFbmem, DrawLcd,
         DrawFaults, CloseLcd, JoinReturns, JoinFaults, IioTypes
<1>2. CASE InstallHandler
  BY <1>1, <1>2 DEF InstallHandler, Installed, ExitPending, Unborn, NoReturn, sigVars
<1>3. CASE CreateThread
  <2>1. handler["iio"] = "none" /\ UNCHANGED sigVars /\ pc'["main"] = "open" /\ pc["main"] = "create"
    BY <1>3 DEF CreateThread, Unborn
  <2>2. pc'["iio"] = "none" => handler'["iio"] = "none"
    BY <2>1 DEF sigVars
  <2> QED
    BY <1>1, <2>1, <2>2 DEF Installed, ExitPending, Unborn, NoReturn, sigVars
<1>4. CASE OpenLcd \/ InitLcd \/ RequestFbmem \/ DrawLcd \/ CloseLcd
  <2>1. /\ pc["main"] \notin {"signals", "create"} /\ pc'["main"] \notin {"signals", "create"}
        /\ pc'["iio"] = pc["iio"] /\ UNCHANGED sigVars
    BY <1>1, <1>4 DEF OpenLcd, InitLcd, RequestFbmem, DrawLcd, CloseLcd
  <2> QED
    BY <1>1, <2>1 DEF Installed, ExitPending, Unborn, NoReturn, sigVars
<1>5. CASE JoinReturns
  BY <1>1, <1>5 DEF JoinReturns, Installed, ExitPending, Unborn, NoReturn
<1>6. CASE DrawFaults \/ JoinFaults
  <2>1. /\ UNCHANGED <<pc, installed, process>> /\ pc["main"] \in {"draw", "join"}
        /\ handler' = [handler EXCEPT !["main"] = "entered"]
    BY <1>6 DEF DrawFaults, JoinFaults, Fault
  <2> QED
    BY <1>1, <2>1 DEF Installed, ExitPending, Unborn, NoReturn
<1> QED
  BY <1>2, <1>3, <1>4, <1>5, <1>6 DEF MainNext

LEMMA PendingSample ==
  ASSUME PendingInv, SampleNext
  PROVE  Installed' /\ ExitPending' /\ Unborn' /\ NoReturn
<1> USE DEF PendingInv
<1>1. PICK to \in IioLabels \ {"none"} :
        /\ Runs("iio") /\ pc["iio"] # "none" /\ pc' = [pc EXCEPT !["iio"] = to] /\ UNCHANGED sigVars
  BY DEF SampleNext, TakeTime, RawRead, TakeElapsed, Show, Goto, IioLabels
<1>2. pc'["main"] = pc["main"] /\ pc'["iio"] # "none"
  BY <1>1 DEF IioTypes, Threads
<1> QED
  BY <1>1, <1>2 DEF Installed, ExitPending, Unborn, NoReturn, Runs, Threads, sigVars, IioTypes

LEMMA PendingSignal ==
  ASSUME PendingInv, NEW t \in Threads, Handle(t) \/ \E which \in {1, 2} : Signal(t, which)
  PROVE  Installed' /\ ExitPending' /\ Unborn' /\ NoReturn
<1> USE DEF PendingInv, Threads
<1>1. /\ handler \in [Threads -> {"none", "entered", "set"}] /\ UNCHANGED <<pc, installed>>
      /\ process = "runs" /\ cause \in {"none", "signal", "fault"}
  BY DEF IioTypes, Handle, HandlerSets, HandlerExits, Signal, Runs
<1>2. CASE HandlerSets(t)
  BY <1>1, <1>2 DEF HandlerSets, Installed, ExitPending, Unborn, NoReturn
<1>3. CASE HandlerExits(t)
  BY <1>1, <1>3 DEF HandlerExits, Installed, ExitPending, Unborn, NoReturn
<1>4. ASSUME NEW which \in {1, 2}, Signal(t, which)
      PROVE  Installed' /\ ExitPending' /\ Unborn' /\ NoReturn
  <2>1. CASE installed < which
    <3>1. pc["main"] = "signals" /\ process' = "killed" /\ UNCHANGED handler
      BY <1>4, <2>1 DEF Signal, Installed
    <3> QED
      BY <1>1, <3>1 DEF Installed, ExitPending, Unborn, NoReturn
  <2>2. CASE ~(installed < which)
    <3>1. /\ pc[t] # "none" /\ handler[t] = "none" /\ UNCHANGED process
          /\ handler' = [handler EXCEPT ![t] = "entered"]
      BY <1>4, <2>2 DEF Signal, Runs
    <3> QED
      BY <1>1, <3>1 DEF Installed, ExitPending, Unborn, NoReturn
  <2> QED
    BY <2>1, <2>2
<1> QED
  BY <1>2, <1>3, <1>4 DEF Handle

LEMMA PendingStep ==
  PendingInv /\ [IioNext]_iioVars => Installed' /\ ExitPending' /\ Unborn' /\ [NoReturn]_iioVars
<1> SUFFICES ASSUME PendingInv, [IioNext]_iioVars
             PROVE  Installed' /\ ExitPending' /\ Unborn' /\ [NoReturn]_iioVars
  OBVIOUS
<1>1. CASE Tick
  <2>1. UNCHANGED <<pc, sigVars>> /\ process = "runs"
    BY <1>1 DEF Tick
  <2> QED
    BY <2>1 DEF PendingInv, Installed, ExitPending, Unborn, NoReturn, sigVars
<1>2. CASE UNCHANGED iioVars
  BY <1>2 DEF PendingInv, Installed, ExitPending, Unborn, iioVars
<1> QED
  BY <1>1, <1>2, PendingMain, PendingSample, PendingSignal DEF IioNext

(***************************************************************************)
(* What SignalEnds needs of main.c:8-18 besides fair scheduling: a signal  *)
(* or a fault always leaves a handler that has yet to exit or an ended     *)
(* process, no handler returns to the code it interrupted, and a signal    *)
(* kills only before the three handlers are installed (main.c:23-25).      *)
(***************************************************************************)
THEOREM HandlersExit == IioSpec => []ExitPending /\ [][NoReturn]_iioVars
<1>1. EndInv /\ Installed /\ ExitPending /\ Unborn => PendingInv
  BY DEF EndInv, PendingInv
<1> QED
  BY <1>1, EndInit, EndStep, PendingInit, PendingStep, PTL DEF IioSpec
-----------------------------------------------------------------------------
(* The duration *)

LEMMA Remainder ==
  ASSUME NEW a \in Int, NEW w \in Nat \ {0}
  PROVE  /\ a = w * (a \div w) + (a % w) /\ a % w \in 0 .. w - 1
         /\ a \div w \in Int /\ a % w \in Int
  BY SMT

LEMMA OneRemainder ==
  ASSUME NEW w \in Nat \ {0}, NEW q \in Int, NEW r \in 0 .. w - 1, NEW s \in 0 .. w - 1,
         r = s + w * q
  PROVE  r = s
<1>1. CASE q >= 1
  <2>1. w * q >= w
    BY <1>1, SMT
  <2> QED
    BY <2>1, SMT
<1>2. CASE q <= -1
  <2>1. w * q <= -w
    BY <1>2, SMT
  <2> QED
    BY <2>1, SMT
<1>3. CASE q = 0
  BY <1>3, SMT
<1> QED
  BY <1>1, <1>2, <1>3, SMT

LEMMA Regroup ==
  ASSUME NEW w \in Int, NEW a \in Int, NEW b \in Int, NEW c \in Int, NEW e \in Int
  PROVE  w * c + w * (a - b) - w * e = w * (a - b + c - e)
  BY SMT

\* The difference of two wrapped counts is the wrapped difference.
LEMMA WrappedDifference ==
  ASSUME NEW a \in Int, NEW b \in Int, NEW w \in Nat \ {0}
  PROVE  ((a % w) - (b % w)) % w = (a - b) % w
<1> DEFINE d == (a % w) - (b % w)
<1>1. d \in Int /\ a - b \in Int
  BY Remainder
<1>2. /\ a = w * (a \div w) + (a % w) /\ b = w * (b \div w) + (b % w)
      /\ a \div w \in Int /\ b \div w \in Int /\ a % w \in Int /\ b % w \in Int
  BY Remainder
<1>3. a - b = d + w * ((a \div w) - (b \div w))
  BY <1>2, SMT
<1> HIDE DEF d
<1>4. /\ d = w * (d \div w) + (d % w) /\ d % w \in 0 .. w - 1 /\ d \div w \in Int
      /\ a - b = w * ((a - b) \div w) + ((a - b) % w) /\ (a - b) % w \in 0 .. w - 1
      /\ (a - b) \div w \in Int
  BY <1>1, Remainder
<1> DEFINE q == (a \div w) - (b \div w) + (d \div w) - ((a - b) \div w)
<1>5. q \in Int
  BY <1>2, <1>4
<1>6. (a - b) % w = (d % w) + w * q
  <2>1. w * (d \div w) + w * ((a \div w) - (b \div w)) - w * ((a - b) \div w) = w * q
    <3>1. PICK qa \in Int, qb \in Int, qd \in Int, qe \in Int :
            qa = a \div w /\ qb = b \div w /\ qd = d \div w /\ qe = (a - b) \div w
      BY <1>2, <1>4
    <3>2. w * qd + w * (qa - qb) - w * qe = w * (qa - qb + qd - qe)
      BY Regroup
    <3> QED
      BY <3>1, <3>2, Zenon
  <2>2. w * (d \div w) \in Int /\ w * ((a \div w) - (b \div w)) \in Int
        /\ w * ((a - b) \div w) \in Int /\ w * q \in Int
    BY <1>2, <1>4, <1>5
  <2> HIDE DEF q
  <2> QED
    BY <1>1, <1>3, <1>4, <2>1, <2>2, SMT
<1> HIDE DEF q
<1>7. (a - b) % w = d % w
  BY <1>4, <1>5, <1>6, OneRemainder
<1> QED
  BY <1>7 DEF d

\* get_of_tv before it wraps to 32 bits
Ticks(t) == (t \div USEC) * FACTOR + (t % USEC)

\* us is what get_of_tv returned when the clock was at `since`.
TimeInv ==
  /\ now \in Nat /\ since \in Nat
  /\ pc["iio"] \in {"read", "second"} => us = Ticks(since) % WORD

LEMMA TimeStep == IioTypes /\ TimeInv /\ [IioNext]_iioVars => TimeInv'
<1> SUFFICES ASSUME IioTypes, TimeInv, [IioNext]_iioVars PROVE TimeInv'
  OBVIOUS
<1>1. CASE MainNext
  <2>1. CASE CreateThread
    BY <2>1 DEF CreateThread, TimeInv, sampleVars
  <2>2. CASE ~CreateThread
    <3>1. pc'["iio"] = pc["iio"] /\ UNCHANGED <<sampleVars, now>>
      BY <1>1, <2>2 DEF MainNext, InstallHandler, OpenLcd, InitLcd, RequestFbmem, DrawLcd,
           DrawFaults, CloseLcd, JoinReturns, JoinFaults, Fault, Goto, IioTypes, Threads
    <3> QED
      BY <3>1 DEF TimeInv, sampleVars
  <2> QED
    BY <2>1, <2>2
<1>2. CASE SampleNext
  <2>1. CASE TakeTime
    BY <2>1 DEF TakeTime, TimeInv, get_of_tv, Ticks, Goto, lcdVars, sigVars
  <2>2. CASE RawRead
    BY <2>2 DEF RawRead, TimeInv, Goto, lcdVars, sigVars
  <2>3. CASE TakeElapsed \/ Show
    BY <2>3 DEF TakeElapsed, Show, TimeInv, Goto, IioTypes, Threads, sampleVars
  <2> QED
    BY <1>2, <2>1, <2>2, <2>3 DEF SampleNext
<1>3. CASE \E t \in Threads : Handle(t) \/ \E which \in {1, 2} : Signal(t, which)
  BY <1>3 DEF Handle, HandlerSets, HandlerExits, Signal, TimeInv, sampleVars
<1>4. CASE Tick \/ UNCHANGED iioVars
  BY <1>4 DEF Tick, iioVars, TimeInv, sampleVars
<1> QED
  BY <1>1, <1>2, <1>3, <1>4 DEF IioNext

LEMMA ElapsedStep ==
  ASSUME IioTypes, TimeInv, [IioNext]_iioVars, pc["iio"] = "second", pc'["iio"] = "show"
  PROVE  us' = (now - since - (USEC - FACTOR) * Crossed) % WORD
<1>1. TakeElapsed
  <2>1. ~MainNext
    <3>1. ~CreateThread
      BY DEF CreateThread
    <3>2. MainNext => pc'["iio"] = pc["iio"]
      BY <3>1 DEF MainNext, InstallHandler, OpenLcd, InitLcd, RequestFbmem, DrawLcd, DrawFaults,
                  CloseLcd, JoinReturns, JoinFaults, Fault, Goto, IioTypes, Threads
    <3> QED
      BY <3>2
  <2>2. SampleNext => TakeElapsed
    BY DEF IioTypes, SampleNext, TakeTime, RawRead, Show, Goto, Threads
  <2>3. pc' # pc
    OBVIOUS
  <2>4. ~\E t \in Threads : Handle(t) \/ \E which \in {1, 2} : Signal(t, which)
    BY <2>3 DEF Handle, HandlerSets, HandlerExits, Signal
  <2>5. ~Tick /\ ~UNCHANGED iioVars
    BY <2>3 DEF Tick, iioVars
  <2> QED
    BY <2>1, <2>2, <2>4, <2>5 DEF IioNext
<1> USE IioAssumption
<1>2. us' = ((Ticks(now) % WORD) - (Ticks(since) % WORD)) % WORD
  BY <1>1 DEF TakeElapsed, TimeInv, Ticks, get_of_tv, Goto
<1>3. USEC \in Nat \ {0} /\ FACTOR \in Nat /\ WORD \in Nat \ {0} /\ now \in Int /\ since \in Int
  BY DEF TimeInv
<1>4. /\ now = USEC * (now \div USEC) + (now % USEC) /\ now \div USEC \in Int /\ now % USEC \in Int
      /\ since = USEC * (since \div USEC) + (since % USEC)
      /\ since \div USEC \in Int /\ since % USEC \in Int
  BY <1>3, Remainder
<1>5. Ticks(now) \in Int /\ Ticks(since) \in Int
  BY <1>3, <1>4 DEF Ticks
<1>6. Ticks(now) - Ticks(since) = now - since - (USEC - FACTOR) * Crossed
  BY <1>3, <1>4, SMT DEF Ticks, Crossed
<1> QED
  BY <1>2, <1>3, <1>5, <1>6, WrappedDifference

(***************************************************************************)
(* The shown duration is exact up to the 900000 us that get_of_tv drops at *)
(* the end of each second, for every clock and every wrap of the word.     *)
(***************************************************************************)
THEOREM ElapsedExact == IioSpec => ElapsedTrue
<1>1. IioInit => TimeInv
  BY IioAssumption DEF IioInit, TimeInv
<1>2. EndInv => IioTypes
  BY DEF EndInv
<1>3. IioTypes /\ TimeInv /\ [IioNext]_iioVars =>
        [pc["iio"] = "second" /\ pc'["iio"] = "show" =>
           us' = (now - since - (USEC - FACTOR) * Crossed) % WORD]_iioVars
  BY ElapsedStep
<1> QED
  BY <1>1, <1>2, <1>3, EndInit, EndStep, TimeStep, PTL DEF IioSpec, ElapsedTrue
-----------------------------------------------------------------------------
(* Types *)

Sampled ==
  /\ running \in {0, 1}
  /\ fb \in {"none", "mapped", "failed"}
  /\ lcdEnd \in {"none", "no device", "no info", "closed"}
  /\ us \in 0 .. WORD - 1 /\ dat \in Level \cup {-1, 0}
  /\ now \in Nat /\ since \in Nat

LEMMA TicksInWord ==
  ASSUME now \in Nat
  PROVE  get_of_tv \in 0 .. WORD - 1 /\ get_of_tv \in Int
<1>0. USEC \in Nat \ {0} /\ FACTOR \in Int /\ WORD \in Nat \ {0} /\ now \in Int
  BY IioAssumption
<1>1. now \div USEC \in Int /\ now % USEC \in Int
  BY <1>0, Remainder
<1>2. \A p, q, r \in Int : p * q + r \in Int
  OBVIOUS
<1>3. Ticks(now) \in Int
  BY <1>0, <1>1, <1>2, Zenon DEF Ticks
<1>4. get_of_tv = Ticks(now) % WORD
  BY DEF get_of_tv, Ticks
<1> HIDE DEF Ticks, get_of_tv
<1> QED
  BY <1>0, <1>3, <1>4, Remainder

LEMMA SampledStep == Sampled /\ [IioNext]_iioVars => Sampled'
<1> SUFFICES ASSUME Sampled, [IioNext]_iioVars PROVE Sampled'
  OBVIOUS
<1> USE DEF Sampled
<1>1. CASE MainNext
  <2>1. UNCHANGED <<running, sampleVars, now>>
    BY <1>1 DEF MainNext, InstallHandler, CreateThread, OpenLcd, InitLcd, RequestFbmem, DrawLcd,
         DrawFaults, CloseLcd, JoinReturns, JoinFaults, Fault, sigVars
  <2>2. fb' \in {"none", "mapped", "failed"} /\ lcdEnd' \in {"none", "no device", "no info", "closed"}
    BY <1>1 DEF MainNext, InstallHandler, CreateThread, OpenLcd, InitLcd, RequestFbmem, DrawLcd,
         DrawFaults, CloseLcd, JoinReturns, JoinFaults, lcdVars
  <2> QED
    BY <2>1, <2>2 DEF sampleVars
<1>2. CASE SampleNext
  <2> USE DEF lcdVars, sigVars, sampleVars
  <2>1. CASE TakeTime
    BY <2>1, TicksInWord DEF TakeTime
  <2>2. CASE TakeElapsed
    <3>1. us' = (get_of_tv - us) % WORD
      BY <2>2 DEF TakeElapsed
    <3>2. WORD \in Nat \ {0}
      BY IioAssumption
    <3>3. us \in 0 .. WORD - 1 /\ now \in Nat
      OBVIOUS
    <3> HIDE DEF Sampled
    <3>4. get_of_tv \in 0 .. WORD - 1
      BY <3>3, TicksInWord, Zenon
    <3>5. get_of_tv - us \in Int
      BY <3>2, <3>3, <3>4
    <3>6. us' \in 0 .. WORD - 1
      BY <3>1, <3>2, <3>5, Remainder
    <3> QED
      BY <2>2, <3>6 DEF TakeElapsed, Sampled
  <2>3. CASE RawRead
    BY <2>3 DEF RawRead
  <2>4. CASE Show
    BY <2>4 DEF Show
  <2> QED
    BY <1>2, <2>1, <2>2, <2>3, <2>4 DEF SampleNext
<1>3. CASE \E t \in Threads : Handle(t) \/ \E which \in {1, 2} : Signal(t, which)
  BY <1>3 DEF Handle, HandlerSets, HandlerExits, Signal, lcdVars, sampleVars
<1>4. CASE Tick
  <2>1. UNCHANGED <<running, fb, lcdEnd, us, dat, since>> /\ now' = now + 1
    BY <1>4 DEF Tick, sigVars, lcdVars, sampleVars
  <2>2. now \in Nat
    BY Zenon
  <2>3. now' \in Nat
    <3> HIDE DEF Sampled
    <3> QED
      BY <2>1, <2>2
  <2> QED
    BY <2>1, <2>3, Zenon
<1>5. CASE UNCHANGED iioVars
  BY <1>5 DEF iioVars
<1> QED
  BY <1>1, <1>2, <1>3, <1>4, <1>5 DEF IioNext

\* The sampling program's state keeps its types; a duration is one of 32 bits.
THEOREM IioTypesCorrect == IioSpec => [](IioTypes /\ Installed /\ Sampled)
<1>1. IioInit => Sampled
  BY IioAssumption DEF IioInit, Sampled
<1>2. EndInv => IioTypes
  BY DEF EndInv
<1>3. EndInv /\ Installed /\ ExitPending /\ Unborn => PendingInv
  BY DEF EndInv, PendingInv
<1> QED
  BY <1>1, <1>2, <1>3, EndInit, EndStep, PendingInit, PendingStep, SampledStep, PTL DEF IioSpec
=============================================================================
