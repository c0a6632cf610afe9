------------------------------ MODULE FpgaTest ------------------------------
(***************************************************************************)
(* fpga/fpga-test.c: the whole program.  NlPool gives the two hooks, the   *)
(* kern_ and user_ accessors and the labels of the two threads; NlMsg the  *)
(* socket they share.  This module adds what happens before and after:     *)
(* start-up, one call at a time, with what main and nlmsg_init undo when   *)
(* one of them fails, nl_msg_send and nl_msg_recv access by access, and    *)
(* the tear-down main runs when a send fails, while the receive thread is  *)
(* still running.                                                          *)
(***************************************************************************)
EXTENDS NlPool, NlMsg

ASSUME FpgaAssumption == {SBUF, WILD} \cap (Nat \cup {NULL}) = {}

VARIABLES
  heap,        \* the pool buffers that are allocated
  cleared,     \* free_pool's memset has made every pool.nlh[i] NULL
  sbuf,        \* nl_msg_send's buffer is allocated
  raced,       \* history: the two threads have filled the iovec at the same time
  failed,      \* history: a call has failed for which main gives up
  touched      \* history: memory was accessed after it was freed

memVars == <<heap, cleared, sbuf>>
allVars == <<vars, skVars, memVars, raced, failed, touched>>

\* The labels between storing iov_base and the system call that reads it.
Filling == [t \in Threads |-> IF t = "kern" THEN {"r_len", "r_enter"} ELSE {"s_len", "s_msg"}]

FpgaInit ==
  /\ in = 0 /\ out = 0 /\ useful = 0 /\ lock = 1
  /\ slot = [s \in Slots |-> 0]
  /\ pc = [t \in Threads |-> IF t = "kern" THEN "none" ELSE "malloc_pool"]
  /\ reg = [t \in Threads |-> 0]
  /\ nlh = [t \in Threads |-> NULL]
  /\ recvd = 0 /\ released = 0 /\ clash = FALSE
  /\ MsgInit
  /\ heap = {} /\ cleared = FALSE /\ sbuf = FALSE
  /\ raced = FALSE /\ failed = FALSE /\ touched = FALSE

\* A step of thread t that only moves it on.
Only(t, from, to) ==
  /\ Goto(t, from, to)
  /\ UNCHANGED <<in, out, useful, lock, slot, reg, nlh, recvd, released, clash>>

\* main returns: the process ends, and the receive thread with it.
Exit(from) ==
  /\ pc["kern"] # "dead" /\ pc["user"] = from
  /\ pc' = [kern |-> "dead", user |-> "exit"]
  /\ UNCHANGED <<in, out, useful, lock, slot, reg, nlh, recvd, released, clash>>
-----------------------------------------------------------------------------
(* main before its loop *)

\* malloc_pool's loop for n buffers: one more, or all are there, or nlmsg_malloc
\* fails and the loop is left.
MallocLoop(n) ==
  /\ UNCHANGED <<skVars, cleared, sbuf, raced, touched>>
  /\ \/ /\ \E i \in 0 .. n - 1 : heap = 0 .. i - 1 /\ heap' = 0 .. i
        /\ Only("user", "malloc_pool", "malloc_pool")
        /\ UNCHANGED failed
     \/ /\ heap = 0 .. n - 1
        /\ Only("user", "malloc_pool", "nlmsg_init")
        /\ UNCHANGED <<heap, failed>>
     \/ /\ heap # 0 .. n - 1
        /\ Only("user", "malloc_pool", "malloc_undo")
        /\ failed' = TRUE
        /\ UNCHANGED heap

\* Mutant: one buffer too many, and one too few.
MallocPoolOneMore == MallocLoop(GROUP_NUM + 1)
MallocPoolOneLess == MallocLoop(GROUP_NUM - 1)

MallocPool == MallocLoop(GROUP_NUM)

\* free(pool.nlh[j]), j counting up
FreeFirst(l) ==
  /\ heap # {}
  /\ heap' = {s \in heap : \E r \in heap : r < s}
  /\ Only("user", l, l)
  /\ UNCHANGED <<skVars, cleared, sbuf, raced, failed, touched>>

\* Mutant: j < i - 1, the last buffer that was allocated is kept.
MallocUndoOneLess ==
  \/ /\ \E s, r \in heap : r < s
     /\ FreeFirst("malloc_undo")
  \/ /\ \A s, r \in heap : s = r
     /\ Only("user", "malloc_undo", "return")
     /\ UNCHANGED <<skVars, memVars, raced, failed, touched>>

\* The buffers before the one that could not be had are freed; main returns.
MallocUndo ==
  \/ FreeFirst("malloc_undo")
  \/ /\ heap = {}
     /\ Only("user", "malloc_undo", "return")
     /\ UNCHANGED <<skVars, memVars, raced, failed, touched>>

\* nlmsg_init: the socket ...
NlmsgSocket ==
  /\ UNCHANGED <<memVars, raced, touched>>
  /\ \/ /\ Only("user", "nlmsg_init", "nlmsg_iov")
        /\ OpenSocket
        /\ UNCHANGED failed
     \/ /\ Only("user", "nlmsg_init", "init_failed")
        /\ failed' = TRUE
        /\ UNCHANGED skVars

\* ... and the iovec, without which the socket is closed again.
NlmsgIov ==
  /\ UNCHANGED <<memVars, raced, touched>>
  /\ \/ /\ Only("user", "nlmsg_iov", "create")
        /\ AllocIov
        /\ UNCHANGED failed
     \/ /\ Only("user", "nlmsg_iov", "nlmsg_undo")
        /\ failed' = TRUE
        /\ UNCHANGED skVars

NlmsgUndo ==
  /\ Only("user", "nlmsg_undo", "init_failed")
  /\ CloseFd
  /\ UNCHANGED <<memVars, raced, failed, touched>>

\* The result of pthread_nlrecv_create is not looked at.
CreateThread ==
  /\ pc["user"] = "create"
  /\ \E k \in {"get", "none"} : pc' = [kern |-> k, user |-> "send"]
  /\ UNCHANGED <<in, out, useful, lock, slot, reg, nlh, recvd, released, clash>>
  /\ UNCHANGED <<skVars, memVars, raced, failed, touched>>
-----------------------------------------------------------------------------
(* nl_msg_send and what main does with its result *)

SendMalloc ==
  /\ UNCHANGED <<skVars, heap, cleared, raced, touched>>
  /\ \/ /\ Only("user", "send", "s_base")
        /\ sbuf' = TRUE
        /\ UNCHANGED failed
     \/ /\ Only("user", "send", "free_pool")
        /\ failed' = TRUE
        /\ UNCHANGED sbuf

SendBase ==
  /\ Only("user", "s_base", "s_len")
  /\ StoreBase(SBUF)
  /\ raced' = (raced \/ pc["kern"] \in Filling["kern"])
  /\ UNCHANGED <<memVars, failed, touched>>

SendLen ==
  /\ Only("user", "s_len", "s_msg")
  /\ StoreLen("send")
  /\ UNCHANGED <<memVars, raced, failed, touched>>

\* sendmsg, free(nlh) and the test of the result.
SendMsg ==
  /\ UNCHANGED <<skVars, heap, cleared, raced, touched>>
  /\ sbuf' = FALSE
  /\ \/ /\ Only("user", "s_msg", "get")
        /\ UNCHANGED failed
     \/ /\ Only("user", "s_msg", "free_pool")
        /\ failed' = TRUE
-----------------------------------------------------------------------------
(* free_pool, after nlmsg_init has failed; free_pool and nlmsg_close, after a *)
(* send that failed.                                                         *)

FreePool == FreeFirst("init_failed") \/ FreeFirst("free_pool")

\* memset(&pool, 0, ...), in whatever the receive thread is doing with the pool
ClearAll(from, to) ==
  /\ heap = {}
  /\ Goto("user", from, to)
  /\ cleared' = TRUE
  /\ in' = 0 /\ out' = 0 /\ useful' = 0 /\ lock' = 0
  /\ UNCHANGED <<slot, reg, nlh, recvd, released, clash>>
  /\ UNCHANGED <<skVars, heap, sbuf, raced, failed, touched>>

\* Mutant: the tear-down waits for the pool's lock.
ClearPoolLocked ==
  lock # 0 /\ (ClearAll("init_failed", "return") \/ ClearAll("free_pool", "close_free"))

ClearPool == ClearAll("init_failed", "return") \/ ClearAll("free_pool", "close_free")

CloseFree ==
  /\ Only("user", "close_free", "close_fd")
  /\ FreeIov
  /\ UNCHANGED <<memVars, raced, failed, touched>>

CloseSocket ==
  /\ Only("user", "close_fd", "close_sk")
  /\ CloseFd
  /\ UNCHANGED <<memVars, raced, failed, touched>>

CloseClear ==
  /\ Only("user", "close_sk", "return")
  /\ ClearSk
  /\ UNCHANGED <<memVars, raced, failed, touched>>

Return ==
  /\ Exit("return")
  /\ UNCHANGED <<skVars, memVars, raced, failed, touched>>
-----------------------------------------------------------------------------
(* The receive thread: kern_get_pool and nl_msg_recv *)

\* kern_get_pool resets a buffer of the pool, or one that free_pool has freed.
TakeBuffer ==
  /\ ~cleared
  /\ KernTake
  /\ touched' = (touched \/ in \notin heap)
  /\ UNCHANGED <<skVars, memVars, raced, failed>>

\* pool.nlh[pool.in] is NULL after free_pool: memset faults.
TakeNull ==
  /\ cleared
  /\ Only("kern", "take", "dead")
  /\ UNCHANGED <<skVars, memVars, raced, failed, touched>>

RecvBase ==
  /\ iov # "null"
  /\ Only("kern", "recv", "r_len")
  /\ StoreBase(nlh["kern"])
  /\ raced' = (raced \/ pc["user"] \in Filling["user"])
  /\ touched' = (touched \/ iov = "freed")
  /\ UNCHANGED <<memVars, failed>>

\* sk.msg.msg_iov is NULL after nlmsg_close.
RecvNoIov ==
  /\ iov = "null"
  /\ Only("kern", "recv", "dead")
  /\ UNCHANGED <<skVars, memVars, raced, failed, touched>>

\* iov_len = nlh->nlmsg_len, through pointers that may be gone by now
RecvLen ==
  /\ nlh["kern"] # NULL /\ iov # "null"
  /\ Only("kern", "r_len", "r_enter")
  /\ StoreLen("pool")
  /\ touched' = (touched \/ nlh["kern"] \notin heap \/ iov = "freed")
  /\ UNCHANGED <<memVars, raced, failed>>

RecvLenFaults ==
  /\ nlh["kern"] = NULL \/ iov = "null"
  /\ Only("kern", "r_len", "dead")
  /\ UNCHANGED <<skVars, memVars, raced, failed, touched>>

RecvEnter ==
  /\ iov # "null"
  /\ Only("kern", "r_enter", "r_wait")
  /\ RecvmsgEnter
  /\ touched' = (touched \/ iov = "freed")
  /\ UNCHANGED <<memVars, raced, failed>>

\* Mutant: nlmsg_poll does not look at the result of nl_msg_recv.
RecvFailsIgnored ==
  /\ \/ Only("kern", "r_enter", "spin")
     \/ Only("kern", "r_wait", "spin")
  /\ UNCHANGED <<skVars, memVars, raced, failed, touched>>

\* The call fails (no socket any more, an overrun); nlmsg_poll calls again with
\* the same buffer.
RecvFails ==
  /\ \/ Only("kern", "r_enter", "recv")
     \/ Only("kern", "r_wait", "recv")
  /\ UNCHANGED <<skVars, memVars, raced, failed, touched>>

\* The FPGA driver answers when it likes.  A message lands in the buffer the
\* call was entered with, whole if the length is that of a pool buffer.
RecvReturn ==
  /\ recvd < MaxRecv
  /\ Goto("kern", "r_wait", "spin")
  /\ slot' = IF rx.base \in Slots /\ rx.len = "pool"
             THEN [slot EXCEPT ![rx.base] = recvd + 1] ELSE slot
  /\ recvd' = recvd + 1
  /\ touched' = (touched \/ rx.base \notin (heap \cup (IF sbuf THEN {SBUF} ELSE {})))
  /\ UNCHANGED <<in, out, useful, lock, reg, nlh, released, clash>>
  /\ UNCHANGED <<skVars, memVars, raced, failed>>
-----------------------------------------------------------------------------
\* A step of NlPool that touches nothing else.
PoolStep(A) == A /\ UNCHANGED <<skVars, memVars, raced, failed, touched>>

KernNext ==
  \/ PoolStep(HookStep("kern"))
  \/ PoolStep(KernCheck)
  \/ TakeBuffer \/ TakeNull
  \/ RecvBase \/ RecvNoIov
  \/ RecvLen \/ RecvLenFaults
  \/ RecvEnter \/ RecvFails \/ RecvReturn

UserNext ==
  \/ PoolStep(HookStep("user"))
  \/ PoolStep(UserGet)
  \/ PoolStep(UserPrint)
  \/ MallocPool \/ MallocUndo \/ NlmsgSocket \/ NlmsgIov \/ NlmsgUndo \/ CreateThread
  \/ SendMalloc \/ SendBase \/ SendLen \/ SendMsg
  \/ FreePool \/ ClearPool \/ CloseFree \/ CloseSocket \/ CloseClear \/ Return

FpgaNext == KernNext \/ UserNext

FpgaSpec == FpgaInit /\ [][FpgaNext]_allVars /\ WF_allVars(KernNext) /\ WF_allVars(UserNext)
-----------------------------------------------------------------------------
Buffers == Slots \cup {SBUF, WILD, NULL}

FpgaTypeOK ==
  /\ iov \in {"null", "live", "freed"}
  /\ fdOpen \in BOOLEAN
  /\ base \in Buffers /\ len \in Lengths
  /\ rx \in [base : Buffers, len : Lengths]
  /\ heap \subseteq Slots
  /\ {cleared, sbuf, raced, failed, touched} \subseteq BOOLEAN

(***************************************************************************)
(* nl_msg_send and nl_msg_recv share one iovec and no lock.  As long as    *)
(* the two have not filled it at the same time, sendmsg is given main's    *)
(* message and recvmsg the whole buffer the receive thread took, even when *)
(* main sends while a receive is waiting.                                  *)
(***************************************************************************)
OwnIovec ==
  ~raced /\ ~failed =>
    /\ pc["user"] = "s_msg" => base = SBUF /\ len = "send"
    /\ pc["kern"] = "r_wait" => rx = [base |-> nlh["kern"], len |-> "pool"]

(***************************************************************************)
(* No buffer is used that is not allocated, and freed memory is reached    *)
(* only once a send has failed (main frees pool and iovec under the        *)
(* receive thread) or the iovec was shared.                                *)
(***************************************************************************)
FreedUntouched == touched => raced \/ failed

(***************************************************************************)
(* However main comes to return, it has freed the pool, the message and    *)
(* the iovec and closed the socket: after any number of buffers, with the  *)
(* socket open and no iovec for it, or from its loop.                      *)
(***************************************************************************)
CleanReturn ==
  pc["user"] = "exit" => heap = {} /\ ~sbuf /\ iov = "null" /\ ~fdOpen

(***************************************************************************)
(* A failed start-up or send ends the program: the tear-down does not wait *)
(* for the receive thread, whatever that is doing or blocked in.           *)
(***************************************************************************)
FailureEnds == failed ~> pc["kern"] = "dead"

(***************************************************************************)
(* Until the iovec is shared or main gives up, the program is NlPool: the  *)
(* calls of nl_msg.c do to the pool what that module takes them to do.     *)
(***************************************************************************)
PoolPc ==
  [kern |-> CASE pc["kern"] = "none" -> "get"
              [] pc["kern"] \in {"r_len", "r_enter", "r_wait"} -> "recv"
              [] OTHER -> pc["kern"],
   user |-> IF pc["user"] \in Hook \cup {"get", "print"} THEN pc["user"] ELSE "send"]

Pool == INSTANCE NlPool WITH pc <- PoolPc

ImplementsPool ==
  Pool!Init /\ [][raced' \/ failed' \/ Pool!Next]_(Pool!vars)
=============================================================================
