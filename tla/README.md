# A verification project for FEM

FEM is the software of an AM335x (single-core Cortex-A8) instrument. Its own code is
about 3000 lines of C in `fpga/`, `iio/`, `fft/` and `common/`; the rest of the repository
(SDL, busybox, fftw, tslib, udev) is third-party source that the top Makefile
cross-compiles. The modules here model the repository's own code; every definition that
stands for code is tied to its lines in `PROJECT.json` ("map").

## 1. The system

| component | state | operations | hard because |
|---|---|---|---|
| `fpga/nl_pool.c`: pool of netlink buffers | `in`, `out`, `useful`, `lock`, 16 buffers | `malloc_pool`, `free_pool`, `kern_get_pool`/`kern_pool_hook` (receive thread), `user_get_pool`/`user_pool_hook` (main) | two threads, a "spin lock" of plain loads and stores, tests outside the lock, a full ring |
| `fpga/nl_msg.c`: netlink socket | one static `msghdr` with one iovec | `nlmsg_init`, `nl_msg_send`, `nl_msg_recv`, `nlmsg_close` | the two threads share the iovec without a lock; every allocation may fail |
| `fpga/fpga-test.c`: program | the two threads | start-up, send and drain loop, receive loop, tear-down | main frees everything under the running receive thread |
| `iio/ring/ringbuffer.c`: byte ring | two indices, size, count, bytes | `init`, `getchar`, `putchar`, `get`, `put`, `useful_size` | wrap, refusal, size 0, `uint16` arithmetic, a block counted only at the end |
| `fft/goertzel.c`: single-frequency filter | announced length, count, two state values | one-shot `fast_goertzel_algorithm`; `goertzel_init`/`update`/`final` | blocks of any length, refused and over-long ones, repeated finals |
| `fft/fem-fft.c`: analysis program | the signals of a file | Goertzel, FFT and FIR over the same signal | ignores return values; exit labels |
| `fft/fft_float.c`, `fft_double.c`: FFT driver | one static `fft_drv`, its buffer and plan | `init`, `dft`, `buffer_copy`, `clear`, amplitude and phase | inverted tests before `free`, partial failure of `init`, buffers of different sizes |
| `fft/fir.c`: FIR filter | a delay line, coefficients on the heap | `float_fir_filter`, `alloc_filter_coeff`, `alloc_kaiser_coeff`, `free_filter_coeff`, `fir_test` | in-place operation, one sample read ahead, loops over different halves, failures half-way |
| `iio/iio.c`, `iio/main.c`: sampling program | two threads, `running`, a time stamp | create, sample, join, signal handlers | join of a thread that never ends, signals at any step |
| `common/liblcd.c`, `fem_fb.c`: LCD | frame buffer, text cursor | pictures, text layout | places tested from above only, two lines of mixed widths, partial failure |
| `common/common.c` | - | `get_of_tv`, `sysprintf`, ... | arithmetic of time stamps |

Interaction: `fpga-test.c` is the only concurrent program whose threads share data: the
receive thread runs `nlmsg_poll` (take a buffer, receive into it, publish it), main sends
a command and then drains the pool. `fem-fft.c` drives the Goertzel filter, the FFT driver
and the FIR filter one after the other, and all of its users share the one static driver.
The sampling program's main thread shows a picture through the LCD library and then waits
for the sampling thread; the two share only the process: a fault or a signal of one ends
both. The ring buffer is a library that nothing in the tree calls; its header is its
contract. The LCD text functions are called from code that is switched off (`#if 0` in
`fem_fb.c`), with arguments that the bounds of the model include.

What makes each component correct, and where it could go wrong, is listed line by line
under "hazards" in `PROJECT.json`.

## 2. The modules

| module | models | kind |
|---|---|---|
| `NlPool` | `nl_pool.c` under the two loops of `fpga-test.c`, every shared access a step | component |
| `MessageQueue` | what `nl_pool.c` offers its two threads | abstract specification |
| `NlPoolProofs` | - | proofs about `NlPool` |
| `NlMsg` | `nl_msg.c`, every access to the shared socket state a step | component, actions only |
| `FpgaTest` | `fpga-test.c`: composes `NlPool` and `NlMsg`, adds start-up, failures, tear-down | composition |
| `FpgaTestProofs` | - | proofs about `FpgaTest` |
| `BoundedQueue` | the contract of `ringbuffer.h` | abstract specification |
| `RingBuffer`, `MCRingBuffer` | `ringbuffer.c`, block loops turn by turn | component, its TLC instance |
| `RingBufferProofs` | - | proofs about `RingBuffer` |
| `GoertzelOneShot` | `fast_goertzel_algorithm` | abstract specification |
| `Goertzel`, `MCGoertzel` | `goertzel_init`/`update`/`final` under any caller | component, its TLC instance |
| `FemRawTest`, `MCFemRawTest` | the loop of `fem_raw_test` that cuts a signal | composition, its TLC instance |
| `GoertzelProofs` | - | proofs about `Goertzel` and `FemRawTest` |
| `FftDrv` | `fft_float.c` | component, actions only |
| `FemFft` | `fem-fft.c` with `fir_test` and `fir_out`: composes `FftDrv`, adds every failure | composition |
| `FemFftProofs` | - | proofs about `FemFft` |
| `FirCoeff` | the design of a filter, its loops turn by turn | component, actions only |
| `FirFilter` | `float_fir_filter`, turn by turn | component, actions only |
| `Fir`, `MCFir` | design, filter, release in the order of `fem_raw_test` | composition, its TLC instance |
| `FirProofs` | - | proofs about `Fir` |
| `LcdText`, `MCLcdText` | text, pictures and clearing of `liblcd.c` | component, its TLC instance |
| `LcdTextProofs` | - | proofs about `LcdText` |
| `IioApp` | `iio/main.c`, `iio/iio.c`, `lcd_test` with the device functions, `get_of_tv` | composition |
| `IioAppProofs` | - | proofs about `IioApp` |

### NlPool

`pool.in`, `out`, `useful`, `lock` are the variables of the same names. `slot[i]` is what
`pool.nlh[i]` holds: the number of a message, or 0 after `kern_get_pool` has reset the
header. `pc` and `reg` give each thread its next instruction and the register of a
read-modify-write in progress. The program is compiled without optimisation for one core,
so `lock--`, `lock++`, `useful++` and `useful--` are a load and a store with a possible
preemption between them: `LockDecLoad`, `LockDecStore`, and so on. `in` is used by the
receive thread alone and `out` by main alone; they move in one step.

`recvd`, `released` and `clash` are history. `clash` becomes true when the two hooks
are between lock and unlock together, which the "spin lock" does not prevent.
What the code guarantees afterwards is only `UsefulInRange`; the other
safety properties are stated up to that moment, which is also how they can be relied on:
the window of the race is the two instructions between the test and the store.
The properties are therefore conditional on purpose, and `UsefulInRange` is not.

`MessageQueue` is the pool without its ring: a bounded first-in first-out queue whose consumer
looks at the oldest message and removes it later, and whose two ends are told when there is
nothing or no room. `ImplementsFifo` says that `NlPool` implements it; the refinement
mapping reads the queue off the slots. The queue is the messages from the first that main has
not given back to the last that is counted: a buffer enters when `useful++` is stored
and leaves when `useful--` is. From the first overlap on (`broken <- clash`) the
abstract queue promises nothing.

### NlMsg and FpgaTest

A buffer is a name: an index of the pool, `SBUF` (allocated and freed by each
`nl_msg_send`) or `WILD` (the uninitialised iovec). `rx` is what `recvmsg` copied when it
was entered, which is where the kernel delivers to later. `FpgaTest` replaces
`NlPool`'s `Recv` and `UserSend` by the steps of `nl_msg_recv` and `nl_msg_send`, adds
`malloc_pool`, `nlmsg_init` and `pthread_create` with their failures, and the tear-down.
Start-up is taken one call at a time: the i-th buffer (`MallocPool`), what is freed when it
cannot be had (`MallocUndo`), the socket, the iovec, and the socket closed again without it
(`NlmsgSocket`, `NlmsgIov`, `NlmsgUndo`), after which main frees the pool. So the pool that is
half allocated and the socket that is open on a failing path are states of the model, and
`CleanReturn` says that neither is left when main returns. `failed` is history: a call has failed
for which main gives up.
A dereference of a null pointer ends the process (`pc["kern"] = "dead"`); an access to
freed memory is recorded in `touched` and goes on, as it does on this system.
`free_pool` frees one buffer per step, after a failed `nlmsg_init` or, beside the running receive
thread, after a failed send.

### RingBuffer

The fields are the variables. A byte operation is one action; `ringbuffer_get` and
`ringbuffer_put` are an entry, one turn of the loop per byte, and a return: `put` moves
`write_index` with every byte and adds to `useful_size` only at the end. `BoundedQueue`
accepts a block whole or refuses it, as the comment of `ringbuffer.c:116` demands. The
refinement mapping is the `useful_size` bytes from `read_index` on (`Contents`).

### Goertzel and FemRawTest

The recurrence is a constant operator `Recur`, so that control is separated from
floating point: what is shown holds for every arithmetic and means agreement to the last
bit. `GoertzelOneShot` is the loop of `fast_goertzel_algorithm`; magnitude and phase are
functions of the pair `<<q1, q2>>`, which is what `answer` records. (`goertzel_final` writes
`0.5 * q1 * coeff` where the one-shot code has `cosine * q1`; the factors 0.5 and 2 are
exact.) `Goertzel` allows any caller; `FemRawTest` is the caller of `fem-fft.c:206-218`;
`MoreBlocks` is the condition of its loop.

### FftDrv and FemFft

`drv` is `struct fft_drv` with lengths in complex numbers; `content` is the signal whose
spectrum the buffer holds. `made` and `dropped` count the buffers that an `init` allocated
and a `clear` forgot: the tests of `float_fft_clear` (`if (!fft->dat) fftwf_free(...)`) are the
wrong way round, so nothing is ever freed. This loses memory and nothing else, and the
properties say so exactly instead of hiding it. `float_fft_init` is two steps, the buffer
(`FftMalloc`) and the plan for it (`FftPlan`), each of which may fail; between them the new buffer
is in the local `fftw`, the old driver is gone and `length` is that of the new one. A plan that
fails frees the buffer (`FftPlanFails`).

`FemFft` is `main` from end to end. `pc` names the statement; `out` is the buffer results are
copied to, `left` counts what is allocated, `owed` the sines and filters that have not yet been
given to `sinx_free` and `free_filter_coeff`. Every malloc, every plan and the opening of every
plot file may fail. A `memcpy` or a plot through an unchecked null `out` ends the process (`"dead"`).
The two channels of `fem_raw_test` are the values 1 and 2 of `w`; `sig` changes when a signal has
been filtered in situ.

### FirCoeff, FirFilter and Fir

A tap's value is a function of its distance from the nearer end, in the sinc and in all
windows, so `Arm(n)` stands for it; `Unset` is what malloc left, `NaN` the 0/0 of a window of
one tap. `FirFilter` addresses memory from `in`, so that `out = in + off` covers in situ
operation (0) and outputs before, after and overlapping. The sum of products is a constant
operator `Dot` of the whole delay line: what is shown holds for every arithmetic. `orig` is
the memory at the call; the convolution is stated over it.

### LcdText

Bytes are `"asc"` or `"hi"`; a pair of `"hi"` is a double-width character. `x`, `y`, `xreg`, `xnum`,
`curx`, `line` are the locals of `lcd_printf16` and `lcd_printf24`, which differ in the cell size
alone. What is drawn is a set of rectangles: the one of a glyph, a picture, or cleared lines.
`start` is the place the call was given. Places are ints that the functions test from above
only (liblcd.c:372, 425, 498, 538): `Xs` and `Ys` are sets of integers, and a negative place is accepted
and drawn to as the code does, before the frame buffer. The results for a NULL frame buffer, text
or image (-1) and for a picture that does not exist (0xff) are there; `ScrCls`, `Scrcls` and
the `puts_` functions do not ask for NULL, and being called with it is not modelled. The `puts_`
functions test no place at all; the only call is at 0, 0, and so is the model's.

### IioApp

`pc` gives the label of each thread, `handler` what runs on top of it. A signal may be taken
by either thread at any step, also before `signal` was called for it, when it kills. A fault
runs `signal_segv_exit` on the thread that faulted. `now` is a clock of microseconds, `USEC` of
which are a second; `get_of_tv` computes with `FACTOR`, the 100000 of the code, modulo `WORD`.
The handlers' `running = 0` and `exit(0)` are two steps. The clock is not set back. A second
signal on a thread that is in a handler, and what `exit` may do to a library call that the signal
interrupted, are not modelled.

## 3. The runs

| run | bounds | shows |
|---|---|---|
| `nl_pool` | 3 buffers, 5 messages | `TypeOK`, `UsefulInRange`, `LockExact`, `ExactCount`, `HeldSlotIntact`, `PrintIntact`, `Drained`, `ImplementsFifo` |
| `fpga_test` | 2 buffers, 3 messages | `FpgaTypeOK`, `OwnIovec`, `FreedUntouched`, `CleanReturn`, `FailureEnds`, `ImplementsPool` |
| `ring_buffer` | sizes 0, 1, 3; two byte values; blocks up to 4 | `RingTypeOK`, `GetWhole`, `PutInRoom`, `ImplementsQueue` |
| `goertzel` | signals of 4 samples of two values, blocks of 0 to 4 | `GoertzelTypeOK`, `AnswerExact`, `ImplementsOneShot` |
| `fem_raw_test` | signals of up to 6 samples, tail of 2 | `WholeSignal`, `NothingSkipped`, `Finishes`, `StrictOneShot` |
| `fem_fft` | signals of 8, 6 and 1 to 5 samples, 3 filters | `DriverSound`, `PlotTrue`, `InBuffers`, `EndOfMain` |
| `fir` | 1 to 5 taps, signals of 0 to 3 samples of two values, outputs 3 before to 3 behind | `TapsComplete`, `Convolves`, `Confined`, `ScratchFreed` |
| `lcd_text` | the real screen, text of up to 8 bytes, 12 x 4 places: room for no cell on, refused, negative | `InFrame`, `AllShown` |
| `iio_app` | a second of 4 us counted as 1, words of 4, 9 us, measurements of up to 5 us | `EndsOnlyFor`, `DeviceClosed`, `ElapsedTrue`, `KeepsSampling`, `SignalEnds` |
| `lock_is_mutex` | 2 buffers | violated: both hooks inside the lock |
| `full_pool` | 2 buffers | violated: receive into a null pointer |
| `coeff_freed` | as `fem_fft` | violated: coefficients given to `free_filter_coeff` stay allocated |

Why the bounds are enough. `GROUP_NUM` is 16 in the code and appears only in the tests for
full and in the wrap of the indices; with 3 buffers and 5 messages the ring is full, empty
and turned more than once, and there is a state in which a buffer lies between "full" and
"nearly full", which is what `PrintIntact` distinguishes. 2 buffers and 3 messages do so for
the whole program, whose state is larger. Ring sizes 0, 1 and 3 are the degenerate ring,
the ring in which every step wraps, and one whose wrap is no power of two; blocks of 4 are
longer than any of them. Four and six samples allow no, one and several blocks, blocks
that run past the announced length, and signals that are all tail. `UINT_MAX` is 15:
larger than the ring, so that a wrap below zero would be seen. The proofs then remove the
bounds for most of these properties. `MaxRecv`, `MaxLen` (ring) and `MaxLen` (Goertzel) are
bounds of the model, not of the code.

`fem_fft`: the lengths are even and odd, one included, for which the copies of half spectra
are tightest; three filters are enough for a failing `FFT_INIT` to come between two that
succeed. `fir`: odd and even filters, the single tap, and signals shorter and longer than the
delay line. `lcd_text`: the places are those at which 0 to 10 cells of either font fit, the last
accepted one, a refused one, and one before the frame buffer in each direction; eight bytes fill
both lines of the short ones. `iio_app`:
9 us are two ends of a second and several wraps of the word; a measurement may cross a
second's end, a wrap, and both. `MaxNow`, `MaxTurn`, `MaxTaps`, `MaxLen` (filter), `MaxText`,
`MaxCnt`, `Xs` and `Ys` are bounds of the model.

The recurrence of the Goertzel runs is one of whole numbers modulo 5 with different weights
for `q1` and `q2`, so that a lost, repeated or swapped sample changes the result.

Deadlock is checked for the library components `RingBuffer` and `Goertzel`, where some call is
always possible, and for `FemFft`, whose end is the step `Over`: it stops nowhere else. The
other programs end, or wait for a message, a thread or a signal that need not come, and `Fir`
and `LcdText` are one call long: their configurations say `CHECK_DEADLOCK FALSE`.

### What the three violations say

`lock_is_mutex`: `while (!pool.lock) {;}` is commented `//spin_lock` (nl_pool.c:60, :79) but the
test and the decrement are separate steps. After an overlap `pool.useful` may be too small
or too large by one per overlap (a message lost or read twice) and `pool.lock` may stay at 0,
so that both threads spin for ever (`LostForGood` proves that there is no way back), or at 2.

`full_pool`: a full pool is a case `kern_get_pool` reports by NULL (nl_pool.c:90);
`nlmsg_poll` receives into that NULL. It happens when the driver sends as many messages as
the pool has buffers while main is in one `nl_msg_send`, or does not get to run.

`coeff_freed`: `fir.h:51` says of `free_filter_coeff` "free firtel coefficient". The function
frees only a null pointer (`if (!coeff)`, fir.c:341), so the coefficients of every filter stay
allocated after they were given back. `CoeffFreed` says that no more coefficients are allocated
than are still to be given to it; a correct test would make it hold. The passing properties say
nothing about the coefficients (`ScratchFreed`, `EndOfMain`) but that each was given to
`free_filter_coeff` once, so that they hold of the corrected function as well.

Other things the models show and their properties state as they are:
* no buffer or plan of the FFT driver is ever freed once in use (`DriverSound`: a clear forgets it);
  without `raw2`, `raw1` is not freed either (`EndOfMain`);
* `fir_out` plots an uninitialised buffer when `FFT_INIT` fails (`PlotTrue`);
* a measured duration lacks 0.9 s per end of a second (`ElapsedTrue`);
* the device stays open when its information cannot be read (`DeviceClosed`);
* `request_fbmem` and `lcd_test` test the result of `mmap` for NULL (liblcd.c:65, fem_fb.c:29-31),
  but a failure is `MAP_FAILED`: `lcd_test` goes on to `ScrCls`, and the fault ends the process with status
  0, the sampling thread included. `EndsOnlyFor` says that this, a device smaller than 800 x 480,
  and signals are the only ways in which a program that samples ends;
* text that starts where fewer than two cells fit has one glyph per line, which may end
  beyond the panel but not outside the frame buffer; a negative place is accepted and drawn to
  before the frame buffer, which is the only way out of it (`InFrame`).

### Fairness

`NlPool` and `FpgaTest` assume weak fairness of each thread: both are `SCHED_OTHER`
(fpga-test.c:53), so a runnable thread runs in the end. Nothing is assumed of the driver:
in `NlPool` a receive step happens while the bound allows, in `FpgaTest` `RecvFails` is always
an alternative, and `Drained` and `FailureEnds` do not need a message to come. `FemRawTest`
assumes weak fairness of the sequential program and strong fairness of a block that takes samples:
`random() % l` is not 0 for ever. `IioApp` assumes weak fairness of main, of the sampling thread
and of the handlers: `SCHED_OTHER` threads of one process (iio.c:71) whose device calls
return; signals and the clock owe nothing. `FemFft`, `Fir` and `LcdText` have no liveness property
and no fairness. `RingBuffer` and `Goertzel` are libraries: their callers
owe them nothing, and they have no liveness property.

## 4. The proofs

All are checked by tlapm, with no assumption but the named ones on the constants.

**NlPoolProofs**, for every `GROUP_NUM`, `UINT_MAX > GROUP_NUM` and number of messages.
* `UsefulCorrect`, `PoolTypes`: `UsefulInRange` and `TypeOK` in every interleaving, races included. The
  range alone is not inductive. `RangeInv` adds `Room` (once the receive thread has seen room, there is
  room until it counts, and the value it loaded is below the limit) and `Supply` (the
  same for main and emptiness): each thread is the only one that moves the counter towards the limit it tested, and
  a lost update can only err to the safe side.
* `LockCorrect`, `CountCorrect`, `HeldSlotCorrect`, `PrintCorrect`: `LockExact` and `ExactCount`,
  `HeldSlotIntact`, `PrintIntact`. `OrderInv` says that until `clash`: the hooks are apart,
  registers are fresh, `in` is `out` plus the messages in between, the ring's content from
  `out` on is `released + 1, released + 2, ...`, and the buffer just given back is the one
  behind `out`. The key lemma is `FillsFree`: the buffer the receive thread writes is none of those.
* `PoolImplementsFifo`: `Spec => ImplementsFifo`. `QueueIs` says that under `OrderInv` the mapped
  queue is `released + 1, released + 2, ...` up to the messages counted; `FifoStep` then takes
  the actions one by one: the two stores of `useful` are `Add` and `Remove`, the two tests outside the lock
  `NoRoom` or `Nothing` when they refuse (until an overlap `useful` is exactly the queue's length) and
  `Look` when main gets a buffer; everything else leaves the queue alone (`SameQueue`).
* `LostForGood`: when `pool.lock` is 0 and no hook is inside, `clash` has happened, and neither hook
  ever passes its loop again.

**FpgaTestProofs**, for every number of buffers and messages.
* `IovecCorrect`, `FreedCorrect`, `ReturnCorrect`, `FpgaTypesCorrect`: `OwnIovec`, `FreedUntouched`,
  `CleanReturn`, `FpgaTypeOK`. `StageInv` says what main has allocated and opened at each of its
  labels, those half-way through start-up included; `IovecInv` says what the iovec holds at each label of the thread that fills it, while
  the two have not met there.
* `FpgaRefinesPool`: `FpgaSpec => ImplementsPool`. `Label` maps the labels of both threads
  (`PoolGoto`); `PoolQuiet` collects the steps that `NlPool` does not see, `PoolKern` and `PoolUser`
  match the others.
* `PoolInProgram` carries results on `NlPool` over to the whole program: the lemmas of
  `NlPoolProofs` are instantiated with the program's labels, so that `UsefulInRange` and
  `HeldSlotIntact` hold of it until main gives up or the iovec is shared. `FifoInProgram` does
  the same with the abstract queue: two refinements, one on top of the other.
* `TearDownBounded` is the safety half of `FailureEnds`: after a failed start-up or send, main has at most
  `GROUP_NUM + 5` steps left (`StepsLeft`: its place plus the pool's buffers in the heap),
  each of its steps lowers that number and none of the receive thread raises it.

**RingBufferProofs**, for every alphabet, every set of sizes up to 65535 and every block.
* `RingTypes`, `GetIsWhole`, `RingCorrect`: types, `GetWhole`, `PutInRoom`. `RingInv` adds that `write_index` is the cell
  `useful_size` plus what `put` has written but not counted from `read_index`.
* `RingImplementsQueue`: `Spec => ImplementsQueue`, one lemma per abstract action (`TakeStep`,
  `AcceptStep`) and one for the steps that must not change the queue (`PutByteKeeps`).

**GoertzelProofs**, for every signal, length, cut and recurrence.
* `GoertzelImplementsOneShot`, `FemImplementsOneShot`, `NothingIsSkipped`. The invariant is
  `cnt = fed + todo`: `goertzel_update` and `goertzel_final` count a block before they run it.
  For `fem_raw_test` it is `cnt + l = length` besides, from which it follows that no update
  is refused and the final accepts.

* `AnswersExact`, `WholeSignalExact`: `AnswerExact` and `WholeSignal`, which compare with the
  recursive definition `W`. `SetInduction` is induction over a set of numbers, from the library's
  theorem that a well-founded set has a least element (its induction theorems take an operator
  and cannot be instantiated). `FollowsExists` builds the recurrence of any signal, `WFollows`
  concludes that `W` obeys its equation, and `StateExact` says `<<q1, q2>> = W[fed]`.
* `GoertzelTypes`: the type invariant.
* `CutAdvances` is the safety half of `Finishes`: `StepsLeft` falls with every step of the loop that cuts
  the signal, except with an empty block, which costs one step more.

**FirProofs**, for every number of taps, length, signal, offset and arithmetic.
* `FilterConvolves`, `FilterConfined`: the invariant (`LineInv`) is that the delay line is
  `History(n)`, half shifted in the middle of a turn, and that memory from `n` on is still the
  signal when the outputs do not run ahead of it (`InSitu`).
* `EveryTap`, `ScratchReleased`: `DesignInv` says which taps the loop in progress has set: those
  nearer to an end than its turn, and the centre of an odd filter (`SincPart`, `WindowPart`).
* `FirTypes`: the type invariant.
* `FilterEnds`: `UseLeft` falls with every step, so that all loops end. The design's part
  counts the turns of the loop in progress and of those after it, the filter's part
  `coeff_num + 1` steps per output.

**FemFftProofs**, for every length, number of filters and taps up to `FIR_CNT`.
* `DriverCorrect`: every step is at most one call of the driver, and each call keeps `DriverInv`.
* `MemoryAtEnd`: `MemoryInv` lists what is allocated at each label.
* `PlotsCorrect`, `BuffersRespected`: `DataInv` adds what the driver was initialised for at each
  label, from which no unchecked call can be refused; the arithmetic is `HalfLength` and
  `BinInHalf`.
* `FemTypes`: the type invariant.
* `ProgramEnds`: `StepsLeft` falls with every step and is 0 only where `main` has returned or died;
  it is at most `34 + 8 * DESIGNS`.

**LcdTextProofs**, for every frame buffer, panel and font with room for two cells beyond the panel.
* `TextInFrame`: `CursorInv` says that the cells left in a line end on the panel and that a
  second line lies one cell below an accepted first one; `FromStart` that something is drawn at the
  place itself and nothing left of it or above it, from which it follows that the frame buffer is
  left just for a negative place. `LcdTypes`: the type invariant.
* `EveryByteShown`: `AllShown`. All that is drawn lies before the cursor (`Before`), so that a new
  glyph is apart from it and adds its one or two cells to the count (`CellsAdded`).
* `PrintReturns`: a turn takes one or two bytes of the text and never its terminator, so the loop ends.

**IioAppProofs**, for every clock, width and factor.
* `EndCause`, `DeviceReleased`: `EndInv` says what is open at each label and that who runs a
  handler has a cause.
* `ElapsedExact`: `TimeInv` says that `us` is the value of `get_of_tv` at `since`; the rest is
  arithmetic modulo `WORD`.
* `HandlersExit` is the safety half of `SignalEnds`: who took a signal or faulted is in a handler
  until the process has ended (`ExitPending`), and no handler returns (`NoReturn`).
* `IioTypesCorrect`: the types, with a duration in `0 .. WORD - 1`.

Only model-checked: liveness (`Drained`, `FailureEnds`, `Finishes`, `KeepsSampling`,
`SignalEnds`), which the prover cannot do under fairness. For three of them the theorems above
prove the half that does not need it: a number that every step of the process concerned lowers, or
a handler that cannot be left; what remains to TLC is that the scheduler lets the steps happen.
`Drained` and `KeepsSampling` have no such half: new messages and new turns of the loop never run out. No module has a RECURSIVE operator.

## 5. Not modelled

The content of FPGA commands, time stamps, printing, plotting and file formats; the values
of windows, sines and transforms (floating point, and FFTW's); the pixels of glyphs and the
font files; `set_lcd_backlight`, `sysprintf`, `board_info` and `systime`, which only call the
system; tables of data and build scripts. `fft_double.c` is `fft_float.c` for another type and
has no caller; the flags `DFT_1D_C2C` and `IDFT_1D_C2C` have none either (the latter is planned
with `FFTW_FORWARD`, fft_float.c:53, and `float_fft_idft` is empty). `read_raw_txt` reads a file
of at most `POINT` lines, as the program's own files are; `MaxCnt` bounds it. A frequency bin
is computed in whole numbers where the code divides floats and rounds. The kernel's netlink
socket, the frame buffer's device, malloc and FFTW's planner are external: they answer or
fail as they like. `pthread_join` of a thread that was never created is undefined: the
library rejects it (`JoinReturns`) or follows a null pointer (`JoinFaults`).

The vendored packages (SDL, busybox, fftw, tslib, udev) are more than 99 % of the lines of
the tree. They are other projects' releases, cross-compiled by the top Makefile; no program
of this repository but fem-fft calls any of them (FFTW). Modelling them would say nothing
about FEM, so the share of the tree's lines that the map covers stays small although the
state-changing operations of `fpga/`, `iio/` and `fft/` are all modelled, and those of `common/`
but for the ones named above.

## 6. Plan

Done: the pool, the socket and the program around them; the ring buffer; the Goertzel
filter, the FIR filter, the FFT driver and the program that drives them; text and pictures
on the LCD; the sampling program; the proofs of every safety property and refinement that the
passing runs check; that the programs and calls without a liveness property end (`ProgramEnds`,
`FilterEnds`, `PrintReturns`).

What could follow: an instance of `FftDrv` for the double-precision driver, should a program call
it, and one of `RingBuffer` under an interrupt handler, should one feed it.
