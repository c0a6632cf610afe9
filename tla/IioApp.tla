------------------------------- MODULE IioApp -------------------------------
(***************************************************************************)
(* The sampling program: iio/main.c, iio/iio.c, and of common/ lcd_test    *)
(* (fem_fb.c), the device functions of liblcd.c and get_of_tv (common.c).  *)
(* Two threads, main and the sampling thread, and signals that run a       *)
(* handler on either.  The clock counts microseconds; USEC of them are a   *)
(* second.                                                                 *)
(***************************************************************************)
EXTENDS Integers

CONSTANTS
  USEC, FACTOR, WORD,  \* 1000000, the 100000 of get_of_tv, and 2^32
  Level,               \* what the ADC may deliver
  MaxNow, MaxTurn      \* bounds: the clock, and its steps within a measurement

ASSUME IioAssumption ==
  /\ {USEC, FACTOR, WORD} \subseteq Nat \ {0}
  /\ {MaxNow, MaxTurn} \subseteq Nat /\ Level \subseteq Nat

VARIABLES
  pc,        \* the label of each thread
  handler,   \* what runs on a thread: "none", or a signal's handler before and after `running = 0`
  installed, \* signal() calls made: SIGINT, SIGQUIT, SIGSEGV
  running,   \* which nobody reads
  process,   \* "runs", "exited" (with 0) or "killed" (by a signal's default)
  fd, fb,    \* the frame buffer's device is open; its mapping: "none", "mapped", "failed"
  fits,      \* the device is as large as FB_XMAX x FB_YMAX
  lcdEnd,    \* history: where lcd_test returned
  cause,     \* history: the first signal or fault
  now,       \* the clock
  us, dat,   \* locals of iio_pthread
  since      \* history: the clock when us was first taken

iioVars == <<pc, handler, installed, running, process, fd, fb, fits, lcdEnd, cause,
             now, us, dat, since>>
lcdVars == <<fd, fb, fits, lcdEnd>>
sampleVars == <<us, dat, since>>
sigVars == <<handler, installed, running, process, cause>>

Threads == {"main", "iio"}

IioInit ==
  /\ pc = [main |-> "signals", iio |-> "none"]
  /\ handler = [t \in Threads |-> "none"]
  /\ installed = 0 /\ running = 1 /\ process = "runs" /\ cause = "none"
  /\ fd = FALSE /\ fb = "none" /\ fits \in BOOLEAN /\ lcdEnd = "none"
  /\ now \in 0 .. USEC /\ us = 0 /\ dat = 0 /\ since = 0

Runs(t) == process = "runs" /\ handler[t] = "none"

Goto(t, from, to) == Runs(t) /\ pc[t] = from /\ pc' = [pc EXCEPT ![t] = to]

\* An invalid access ends in signal_segv_exit.
Fault(t) ==
  /\ handler' = [handler EXCEPT ![t] = "entered"]
  /\ cause' = IF cause = "none" THEN "fault" ELSE cause
  /\ UNCHANGED <<pc, installed, running, process>>
-----------------------------------------------------------------------------
(* main and lcd_test *)

InstallHandler ==
  /\ Runs("main") /\ pc["main"] = "signals"
  /\ installed' = installed + 1
  /\ pc' = [pc EXCEPT !["main"] = IF installed = 2 THEN "create" ELSE "signals"]
  /\ UNCHANGED <<handler, running, process, cause, lcdVars, sampleVars, now>>

\* The result of create_iio_pthread is not looked at.
CreateThread ==
  /\ Runs("main") /\ pc["main"] = "create"
  /\ \E start \in {"first", "none"} : pc' = [main |-> "open", iio |-> start]
  /\ UNCHANGED <<sigVars, lcdVars, sampleVars, now>>

OpenLcd ==
  /\ \/ Goto("main", "open", "init") /\ fd' = TRUE /\ UNCHANGED lcdEnd
     \/ Goto("main", "open", "join") /\ lcdEnd' = "no device" /\ UNCHANGED fd
  /\ UNCHANGED <<fb, fits, sigVars, sampleVars, now>>

\* lcd_test returns with the device open.
InitLcd ==
  /\ \/ Goto("main", "init", "map") /\ UNCHANGED lcdEnd
     \/ Goto("main", "init", "join") /\ lcdEnd' = "no info"
  /\ UNCHANGED <<fd, fb, fits, sigVars, sampleVars, now>>

\* mmap reports a failure by MAP_FAILED, request_fbmem and lcd_test test for
\* NULL: they go on either way.
RequestFbmem ==
  /\ Goto("main", "map", "draw")
  /\ fb' \in {"mapped", "failed"}
  /\ UNCHANGED <<fd, fits, lcdEnd, sigVars, sampleVars, now>>

\* ScrCls and display_def_picture write the whole 800 x 480.
DrawLcd ==
  /\ fb = "mapped" /\ fits
  /\ Goto("main", "draw", "close")
  /\ UNCHANGED <<sigVars, lcdVars, sampleVars, now>>

DrawFaults ==
  /\ fb = "failed" \/ ~fits
  /\ Runs("main") /\ pc["main"] = "draw"
  /\ Fault("main")
  /\ UNCHANGED <<lcdVars, sampleVars, now>>

\* Mutant: the file is not closed.
CloseLcdUnmaps ==
  /\ Goto("main", "close", "join")
  /\ fb' = "none" /\ lcdEnd' = "closed"
  /\ UNCHANGED <<fd, fits, sigVars, sampleVars, now>>

CloseLcd ==
  /\ Goto("main", "close", "join")
  /\ fb' = "none" /\ fd' = FALSE /\ lcdEnd' = "closed"
  /\ UNCHANGED <<fits, sigVars, sampleVars, now>>

\* Mutant: stop_iio_pthread does not wait.
JoinReturnsAtOnce ==
  /\ Goto("main", "join", "over")
  /\ process' = "exited"
  /\ UNCHANGED <<handler, installed, running, cause, lcdVars, sampleVars, now>>

\* pthread_join of a thread that never ends waits for ever; without a thread
\* pth_iio is 0, which the library rejects or follows as a pointer.
JoinReturns ==
  /\ pc["iio"] = "none"
  /\ Goto("main", "join", "over")
  /\ process' = "exited"
  /\ UNCHANGED <<handler, installed, running, cause, lcdVars, sampleVars, now>>

JoinFaults ==
  /\ pc["iio"] = "none"
  /\ Runs("main") /\ pc["main"] = "join"
  /\ Fault("main")
  /\ UNCHANGED <<lcdVars, sampleVars, now>>

MainNext ==
  \/ InstallHandler \/ CreateThread
  \/ OpenLcd \/ InitLcd \/ RequestFbmem \/ DrawLcd \/ DrawFaults \/ CloseLcd
  \/ JoinReturns \/ JoinFaults
-----------------------------------------------------------------------------
(* The sampling thread *)

\* tv.tv_sec*100000 + tv.tv_usec as a uint32_t
get_of_tv == ((now \div USEC) * FACTOR + (now % USEC)) % WORD

TakeTime ==
  /\ Goto("iio", "first", "read")
  /\ us' = get_of_tv /\ since' = now
  /\ UNCHANGED <<dat, now, sigVars, lcdVars>>

\* Mutant: the thread ends when there is no device.
RawReadOrEnd ==
  /\ \/ Goto("iio", "read", "second") /\ dat' \in Level \cup {0}
     \/ Goto("iio", "read", "ended") /\ dat' = -1
  /\ UNCHANGED <<us, since, now, sigVars, lcdVars>>

\* iio_raw_read: -1 without a device; a read that fails leaves the buffer empty,
\* which is 0 (fread never returns a negative value).
RawRead ==
  /\ Goto("iio", "read", "second")
  /\ dat' \in Level \cup {-1, 0}
  /\ UNCHANGED <<us, since, now, sigVars, lcdVars>>

\* Mutant: the difference is not one of uint32_t.
TakeElapsedSigned ==
  /\ Goto("iio", "second", "show")
  /\ us' = get_of_tv - us
  /\ UNCHANGED <<since, dat, now, sigVars, lcdVars>>

TakeElapsed ==
  /\ Goto("iio", "second", "show")
  /\ us' = (get_of_tv - us) % WORD
  /\ UNCHANGED <<since, dat, now, sigVars, lcdVars>>

\* FEM_DBG and sleep(1)
Show ==
  /\ Goto("iio", "show", "first")
  /\ UNCHANGED <<sampleVars, now, sigVars, lcdVars>>

SampleNext == TakeTime \/ RawRead \/ TakeElapsed \/ Show
-----------------------------------------------------------------------------
(* Signals and time *)

\* SIGINT or SIGQUIT, taken by a thread that runs; `which` is its place among
\* the calls of signal().
Signal(t, which) ==
  /\ Runs(t) /\ pc[t] \notin {"none", "over"}
  /\ cause' = IF cause = "none" THEN "signal" ELSE cause
  /\ IF installed < which
     THEN process' = "killed" /\ UNCHANGED handler
     ELSE handler' = [handler EXCEPT ![t] = "entered"] /\ UNCHANGED process
  /\ UNCHANGED <<pc, installed, running, lcdVars, sampleVars, now>>

\* Mutant: the handlers only set `running`.
HandlerReturns(t) ==
  /\ process = "runs" /\ handler[t] = "entered"
  /\ running' = 0 /\ handler' = [handler EXCEPT ![t] = "none"]
  /\ UNCHANGED <<pc, installed, process, cause, lcdVars, sampleVars, now>>

\* signal_exit and signal_segv_exit: running = 0; exit(0)
HandlerSets(t) ==
  /\ process = "runs" /\ handler[t] = "entered"
  /\ running' = 0 /\ handler' = [handler EXCEPT ![t] = "set"]
  /\ UNCHANGED <<pc, installed, process, cause, lcdVars, sampleVars, now>>

HandlerExits(t) ==
  /\ process = "runs" /\ handler[t] = "set"
  /\ process' = "exited"
  /\ UNCHANGED <<pc, handler, installed, running, cause, lcdVars, sampleVars, now>>

Handle(t) == HandlerSets(t) \/ HandlerExits(t)

Tick ==
  /\ process = "runs" /\ now < MaxNow
  /\ pc["iio"] \in {"read", "second"} => now - since < MaxTurn
  /\ now' = now + 1
  /\ UNCHANGED <<pc, sigVars, lcdVars, sampleVars>>

IioNext ==
  \/ MainNext \/ SampleNext
  \/ \E t \in Threads : Handle(t) \/ \E which \in {1, 2} : Signal(t, which)
  \/ Tick

IioSpec ==
  /\ IioInit /\ [][IioNext]_iioVars
  /\ WF_iioVars(MainNext) /\ WF_iioVars(SampleNext)
  /\ \A t \in Threads : WF_iioVars(Handle(t))
-----------------------------------------------------------------------------
(***************************************************************************)
(* Once the sampling thread exists the program ends for a signal or for a  *)
(* fault of the drawing, never because an LCD that cannot be opened or     *)
(* asked, or an ADC that cannot be read: main waits in pthread_join.       *)
(***************************************************************************)
EndsOnlyFor ==
  process # "runs" /\ cause # "signal" /\ pc["iio"] # "none" =>
    cause = "fault" /\ (fb = "failed" \/ ~fits) /\ fd

\* When lcd_test has returned the device is closed and unmapped, unless its
\* information could not be read: then it stays open.
DeviceClosed ==
  pc["main"] \in {"join", "over"} => fb = "none" /\ (fd <=> lcdEnd = "no info")

\* Seconds that ended during the measurement.
Crossed == now \div USEC - since \div USEC

(***************************************************************************)
(* The duration that is shown is the true one also when the 32-bit value   *)
(* wraps, but lacks 900000 us for each second that ends meanwhile:         *)
(* get_of_tv counts a second as 100000 us.                                 *)
(***************************************************************************)
ElapsedTrue ==
  [][pc["iio"] = "second" /\ pc'["iio"] = "show" =>
       us' = (now - since - (USEC - FACTOR) * Crossed) % WORD]_iioVars

\* The thread keeps sampling, whatever the device answers, until the process ends.
KeepsSampling ==
  \A p \in {"first", "read", "second", "show", "ended"} :
    pc["iio"] = p ~> pc["iio"] # p \/ process # "runs"

\* A signal or a fault ends the program.
SignalEnds == cause # "none" ~> process # "runs"
=============================================================================
