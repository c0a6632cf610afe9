------------------------------- MODULE NlPool -------------------------------
(***************************************************************************)
(* fpga/nl_pool.c, used the way fpga/fpga-test.c uses it: a ring of        *)
(* GROUP_NUM netlink buffers between the thread that runs nlmsg_poll       *)
(* ("kern", as in kern_get_pool) and the main thread ("user").             *)
(*                                                                         *)
(* The Makefile compiles without optimisation for a single-core Cortex-A8, *)
(* so `pool.lock--` is a load, a subtraction in a register and a store,    *)
(* and a thread may be preempted between any two of them.  One action is   *)
(* one access to a field that both threads use; a field that one thread    *)
(* alone uses (`in`, `out`) is read and written in one step.               *)
(*                                                                         *)
(* nl_msg_recv and nl_msg_send are taken at their word in this module: a   *)
(* receive that succeeds fills the buffer it was given, a send returns.    *)
(* FpgaTest.tla replaces both by what nl_msg.c does.                       *)
(***************************************************************************)
EXTENDS Integers, Sequences

CONSTANTS
  GROUP_NUM,   \* number of buffers in the pool
  UINT_MAX,    \* largest value of the unsigned counter pool.useful
  MaxRecv,     \* bound: messages the socket delivers in a behaviour
  NULL         \* the null pointer

ASSUME PoolAssumption ==
  /\ GROUP_NUM \in Nat \ {0}
  /\ UINT_MAX \in Nat /\ UINT_MAX > GROUP_NUM
  /\ MaxRecv \in Nat
  /\ NULL \notin Nat

Threads == {"kern", "user"}
Other(t) == IF t = "kern" THEN "user" ELSE "kern"
Slots == 0 .. GROUP_NUM - 1

VARIABLES
  in, out,     \* pool.in, pool.out
  useful,      \* pool.useful
  lock,        \* pool.lock
  slot,        \* what each pool.nlh[i] holds: the number of a message, 0 when its header is reset
  pc,          \* next instruction of each thread
  reg,         \* the register of each thread's read-modify-write in progress
  nlh,         \* the buffer each thread holds: its index in pool.nlh, or NULL
  recvd,       \* history: messages received so far, which number them
  released,    \* history: buffers the user thread gave back
  clash        \* history: the two hooks have been between lock and unlock at once

poolVars == <<in, out, useful, lock>>
history == <<recvd, released, clash>>
vars == <<in, out, useful, lock, slot, pc, reg, nlh, recvd, released, clash>>
-----------------------------------------------------------------------------
(***************************************************************************)
(* The labels of kern_pool_hook and user_pool_hook, which differ only in   *)
(* the index they advance and the direction they count.                    *)
(***************************************************************************)
BeforeMove == {"spin", "dec_ld", "dec_st", "move"}
Counting == {"cnt_ld", "cnt_st"}
Leaving == {"inc_ld", "inc_st"}
Hook == BeforeMove \cup Counting \cup Leaving

\* Past the spin loop and not yet past `pool.lock++`.
Critical == Hook \ {"spin"}
Inside(t) == pc[t] \in Critical

\* A fault in the receive thread ends the process: main takes no further step.
Goto(t, from, to) ==
  /\ pc["kern"] # "dead"
  /\ pc[t] = from
  /\ pc' = [pc EXCEPT ![t] = to]

\* unsigned int arithmetic
UIntInc(x) == IF x = UINT_MAX THEN 0 ELSE x + 1
UIntDec(x) == IF x = 0 THEN UINT_MAX ELSE x - 1

Init ==
  /\ in = 0 /\ out = 0
  /\ useful = 0
  /\ lock = 1
  /\ slot = [s \in Slots |-> 0]
  /\ pc = [t \in Threads |-> IF t = "kern" THEN "get" ELSE "send"]
  /\ reg = [t \in Threads |-> 0]
  /\ nlh = [t \in Threads |-> NULL]
  /\ recvd = 0 /\ released = 0
  /\ clash = FALSE
-----------------------------------------------------------------------------
(* The hooks: while (!pool.lock) {;} lock--; move the index; count; lock++ *)

\* The spin loop reads a nonzero lock; nothing is written yet.
SpinExit(t) ==
  /\ lock # 0
  /\ Goto(t, "spin", "dec_ld")
  /\ clash' = (clash \/ Inside(Other(t)))
  /\ UNCHANGED <<in, out, useful, lock, slot, reg, nlh, recvd, released>>

LockDecLoad(t) ==
  /\ Goto(t, "dec_ld", "dec_st")
  /\ reg' = [reg EXCEPT ![t] = lock]
  /\ UNCHANGED <<in, out, useful, lock, slot, nlh, recvd, released, clash>>

LockDecStore(t) ==
  /\ Goto(t, "dec_st", "move")
  /\ lock' = reg[t] - 1
  /\ UNCHANGED <<in, out, useful, slot, reg, nlh, recvd, released, clash>>

\* Mutant: the index is not wrapped.
MoveIndexUnwrapped(t) ==
  /\ Goto(t, "move", "cnt_ld")
  /\ in' = IF t = "kern" THEN in + 1 ELSE in
  /\ out' = IF t = "user" THEN (out + 1) % GROUP_NUM ELSE out
  /\ released' = IF t = "user" THEN released + 1 ELSE released
  /\ UNCHANGED <<useful, lock, slot, reg, nlh, recvd, clash>>

\* pool.in = (pool.in + 1) % GROUP_NUM, or the same with pool.out
MoveIndex(t) ==
  /\ Goto(t, "move", "cnt_ld")
  /\ \/ /\ t = "kern"
        /\ in' = (in + 1) % GROUP_NUM
        /\ UNCHANGED <<out, released>>
     \/ /\ t = "user"
        /\ out' = (out + 1) % GROUP_NUM
        /\ released' = released + 1
        /\ UNCHANGED in
  /\ UNCHANGED <<useful, lock, slot, reg, nlh, recvd, clash>>

CountLoad(t) ==
  /\ Goto(t, "cnt_ld", "cnt_st")
  /\ reg' = [reg EXCEPT ![t] = useful]
  /\ UNCHANGED <<in, out, useful, lock, slot, nlh, recvd, released, clash>>

\* Mutant: user_pool_hook does not count.
CountStoreKernOnly(t) ==
  /\ Goto(t, "cnt_st", "inc_ld")
  /\ useful' = IF t = "kern" THEN UIntInc(reg[t]) ELSE reg[t]
  /\ UNCHANGED <<in, out, lock, slot, reg, nlh, recvd, released, clash>>

\* pool.useful++ or pool.useful--
CountStore(t) ==
  /\ Goto(t, "cnt_st", "inc_ld")
  /\ useful' = IF t = "kern" THEN UIntInc(reg[t]) ELSE UIntDec(reg[t])
  /\ UNCHANGED <<in, out, lock, slot, reg, nlh, recvd, released, clash>>

LockIncLoad(t) ==
  /\ Goto(t, "inc_ld", "inc_st")
  /\ reg' = [reg EXCEPT ![t] = lock]
  /\ UNCHANGED <<in, out, useful, lock, slot, nlh, recvd, released, clash>>

\* Mutant: the lock is not given back.
LockIncStoreLost(t) ==
  /\ Goto(t, "inc_st", IF t = "kern" THEN "get" ELSE "print")
  /\ nlh' = IF t = "kern" THEN [nlh EXCEPT ![t] = NULL] ELSE nlh
  /\ UNCHANGED <<in, out, useful, lock, slot, reg, recvd, released, clash>>

\* The store that ends pool.lock++.  nlmsg_poll then forgets its buffer;
\* main goes on to print from the one it has just given back.
LockIncStore(t) ==
  /\ Goto(t, "inc_st", IF t = "kern" THEN "get" ELSE "print")
  /\ lock' = reg[t] + 1
  /\ nlh' = IF t = "kern" THEN [nlh EXCEPT ![t] = NULL] ELSE nlh
  /\ UNCHANGED <<in, out, useful, slot, reg, recvd, released, clash>>

HookStep(t) ==
  \/ SpinExit(t)
  \/ LockDecLoad(t)
  \/ LockDecStore(t)
  \/ MoveIndex(t)
  \/ CountLoad(t)
  \/ CountStore(t)
  \/ LockIncLoad(t)
  \/ LockIncStore(t)
-----------------------------------------------------------------------------
(* kern_get_pool and the receive loop nlmsg_poll *)

\* Mutant: full is tested one too late.
KernCheckLate ==
  /\ Goto("kern", "get", IF useful > GROUP_NUM THEN "recv" ELSE "take")
  /\ UNCHANGED <<in, out, useful, lock, slot, reg, nlh, recvd, released, clash>>

\* Mutant: full is tested one too early.
KernCheckEarly ==
  /\ Goto("kern", "get", IF useful = GROUP_NUM - 1 THEN "recv" ELSE "take")
  /\ UNCHANGED <<in, out, useful, lock, slot, reg, nlh, recvd, released, clash>>

\* `if (pool.useful == GROUP_NUM) return NULL`
KernCheck ==
  /\ \/ /\ useful = GROUP_NUM
        /\ Goto("kern", "get", "recv")
     \/ /\ useful # GROUP_NUM
        /\ Goto("kern", "get", "take")
  /\ UNCHANGED <<in, out, useful, lock, slot, reg, nlh, recvd, released, clash>>

\* Mutant: the buffer after the one pool.in names is taken.
KernTakeNext ==
  /\ Goto("kern", "take", "recv")
  /\ nlh' = [nlh EXCEPT !["kern"] = (in + 1) % GROUP_NUM]
  /\ slot' = [slot EXCEPT ![(in + 1) % GROUP_NUM] = 0]
  /\ UNCHANGED <<in, out, useful, lock, reg, recvd, released, clash>>

\* Takes pool.nlh[pool.in] and resets its header.
KernTake ==
  /\ Goto("kern", "take", "recv")
  /\ nlh' = [nlh EXCEPT !["kern"] = in]
  /\ slot' = [slot EXCEPT ![in] = 0]
  /\ UNCHANGED <<in, out, useful, lock, reg, recvd, released, clash>>

\* nl_msg_recv(nlh) >= 0.  When it fails the loop keeps nlh and calls again:
\* a step that changes nothing.
Recv ==
  /\ nlh["kern"] # NULL
  /\ recvd < MaxRecv
  /\ Goto("kern", "recv", "spin")
  /\ slot' = [slot EXCEPT ![nlh["kern"]] = recvd + 1]
  /\ recvd' = recvd + 1
  /\ UNCHANGED <<in, out, useful, lock, reg, nlh, released, clash>>

\* nlmsg_poll does not look at what kern_get_pool returned, and nl_msg_recv
\* reads nlh->nlmsg_len: the process dies of a null pointer.
RecvNull ==
  /\ nlh["kern"] = NULL
  /\ Goto("kern", "recv", "dead")
  /\ UNCHANGED <<in, out, useful, lock, slot, reg, nlh, recvd, released, clash>>

KernStep == HookStep("kern") \/ KernCheck \/ KernTake \/ Recv \/ RecvNull
-----------------------------------------------------------------------------
(* user_get_pool and the loop of main *)

\* Mutant: main is given the buffer that is to be filled next.
UserGetIn ==
  /\ Goto("user", "get", IF useful = 0 THEN "send" ELSE "spin")
  /\ nlh' = [nlh EXCEPT !["user"] = IF useful = 0 THEN NULL ELSE in]
  /\ UNCHANGED <<in, out, useful, lock, slot, reg, recvd, released, clash>>

\* Mutant: the last message is left in the pool.
UserGetKeepsOne ==
  /\ Goto("user", "get", IF useful <= 1 THEN "send" ELSE "spin")
  /\ nlh' = [nlh EXCEPT !["user"] = IF useful <= 1 THEN NULL ELSE out]
  /\ UNCHANGED <<in, out, useful, lock, slot, reg, recvd, released, clash>>

\* `if (pool.useful == 0) return NULL`, else pool.nlh[pool.out].
UserGet ==
  /\ \/ /\ useful = 0
        /\ Goto("user", "get", "send")
        /\ nlh' = [nlh EXCEPT !["user"] = NULL]
     \/ /\ useful # 0
        /\ Goto("user", "get", "spin")
        /\ nlh' = [nlh EXCEPT !["user"] = out]
  /\ UNCHANGED <<in, out, useful, lock, slot, reg, recvd, released, clash>>

\* The fprintf of the message, whose arguments are read after user_pool_hook.
UserPrint ==
  /\ Goto("user", "print", "get")
  /\ UNCHANGED <<in, out, useful, lock, slot, reg, nlh, recvd, released, clash>>

\* nl_msg_send returns and main starts to drain the pool.
UserSend ==
  /\ Goto("user", "send", "get")
  /\ UNCHANGED <<in, out, useful, lock, slot, reg, nlh, recvd, released, clash>>

UserStep == HookStep("user") \/ UserGet \/ UserPrint \/ UserSend
-----------------------------------------------------------------------------
Next == KernStep \/ UserStep

\* The scheduler runs every runnable thread in the end.
Spec == Init /\ [][Next]_vars /\ WF_vars(KernStep) /\ WF_vars(UserStep)
-----------------------------------------------------------------------------
TypeOK ==
  /\ in \in Slots /\ out \in Slots
  /\ useful \in 0 .. UINT_MAX
  /\ lock \in Int
  /\ slot \in [Slots -> Nat]
  /\ pc \in [Threads -> Hook \cup {"get", "take", "recv", "print", "send", "dead"}]
  /\ reg \in [Threads -> Int]
  /\ nlh \in [Threads -> Slots \cup {NULL}]
  /\ recvd \in Nat /\ released \in Nat
  /\ clash \in BOOLEAN

\* Messages that pool.useful counts when the hooks are taken one at a time:
\* received and published, not yet withdrawn.
Published == recvd - (IF pc["kern"] \in BeforeMove \cup Counting THEN 1 ELSE 0)
Withdrawn == released - (IF pc["user"] \in Counting THEN 1 ELSE 0)

(***************************************************************************)
(* kern_get_pool and user_get_pool test pool.useful without the lock, and  *)
(* two hooks that overlap lose updates of it.  Even so the unsigned        *)
(* counter never wraps below zero nor exceeds the ring, in any             *)
(* interleaving: each thread is the only one that moves it towards the     *)
(* limit it has tested.                                                    *)
(***************************************************************************)
UsefulInRange == useful \in 0 .. GROUP_NUM

(***************************************************************************)
(* Until two hooks overlap, pool.lock is 0 exactly while a hook is between *)
(* the end of lock-- and the end of lock++, so a spinning thread is always *)
(* let in.  (Once they overlap a lost update can leave the lock at 0 or 2  *)
(* for ever: run lock_is_mutex.)                                           *)
(***************************************************************************)
LockTaken(t) == pc[t] \in {"move"} \cup Counting \cup Leaving
LockExact ==
  ~clash => lock = IF \E t \in Threads : LockTaken(t) THEN 0 ELSE 1

\* Until two hooks overlap, pool.useful counts the messages in the ring.
ExactCount == ~clash => useful = Published - Withdrawn

(***************************************************************************)
(* Until two hooks overlap, the buffer main holds and has not given back   *)
(* is the oldest message not yet handled: messages come out once each, in  *)
(* the order they came in, and kern_get_pool never resets or refills a     *)
(* buffer that is in use.                                                  *)
(***************************************************************************)
HeldSlotIntact ==
  ~clash /\ pc["user"] \in BeforeMove => slot[nlh["user"]] = released + 1

(***************************************************************************)
(* main prints from a buffer after user_pool_hook gave it back             *)
(* (fpga-test.c:104-108).  What it prints is still its message unless the  *)
(* receive thread has meanwhile come within one buffer of a full ring.     *)
(***************************************************************************)
PrintIntact ==
  ~clash /\ pc["user"] = "print" /\ recvd - released < GROUP_NUM - 1
    => slot[nlh["user"]] = released

(* The queue that the pool is *)

\* The slot of the oldest message that pool.useful counts.
Oldest == IF pc["user"] \in Counting THEN nlh["user"] ELSE out

InRing == [k \in 1 .. Published - Withdrawn |-> slot[(Oldest + (k - 1)) % GROUP_NUM]]

LookedAt == IF pc["user"] \in BeforeMove \cup Counting THEN slot[nlh["user"]] ELSE NULL

ToldFull == pc["kern"] = "dead" \/ (pc["kern"] = "recv" /\ nlh["kern"] = NULL)

Fifo == INSTANCE MessageQueue
          WITH Capacity <- GROUP_NUM, None <- NULL, queue <- InRing, sent <- Published,
               held <- LookedAt, empty <- (pc["user"] = "send"), full <- ToldFull,
               broken <- clash

(***************************************************************************)
(* Until two hooks overlap, the pool is a first-in first-out queue of at   *)
(* most GROUP_NUM messages: none is lost, repeated, reordered or           *)
(* overwritten in the ring while it waits there or while main works on it, *)
(* kern_get_pool reports a full pool only when GROUP_NUM messages wait     *)
(* (nothing else brings the process down), and main stops draining only    *)
(* when none does.                                                         *)
(***************************************************************************)
ImplementsFifo == Fifo!QueueSpec

(***************************************************************************)
(* Once the driver stops sending, every message received is handled,       *)
(* unless two hooks overlapped or the receive thread ran out of buffers    *)
(* and brought the process down.                                           *)
(***************************************************************************)
Drained ==
  \A k \in 1 .. MaxRecv :
    (recvd >= k) ~> (released >= k \/ clash \/ pc["kern"] = "dead")

\* nl_pool.c:60 and :79 call the loop on pool.lock a spin_lock.  It is not one:
\* the test and the decrement are separate steps (run lock_is_mutex).
MutualExclusion == ~ (Inside("kern") /\ Inside("user"))

\* nl_pool.c:90 takes a full pool for a case to report by NULL; nlmsg_poll does
\* not look at the result and receives into it (run full_pool).
ReceivesIntoBuffer == pc["kern"] = "recv" => nlh["kern"] # NULL
=============================================================================
