--------------------------- MODULE FpgaTestProofs ---------------------------
(***************************************************************************)
(* The whole FPGA program: what its two threads do to the socket, the heap *)
(* and the pool, for every number of buffers and messages.                 *)
(***************************************************************************)
EXTENDS FpgaTest, FiniteSetTheorems, WellFoundedInduction, TLAPS

Sending == {"s_base", "s_len", "s_msg"}
Working == Hook \cup Sending \cup {"get", "print", "send"}
TearingDown == {"free_pool", "close_free", "close_fd", "close_sk", "return"}
Receiving == {"r_len", "r_enter", "r_wait"}
KernLabels == Hook \cup Receiving \cup {"none", "get", "take", "recv", "dead"}
Starting == {"malloc_pool", "nlmsg_init", "nlmsg_iov", "create"}
GivingUp == {"malloc_undo", "nlmsg_undo", "init_failed"}
UserLabels == Working \cup TearingDown \cup Starting \cup GivingUp \cup {"exit"}

FlagTypes ==
  cleared \in BOOLEAN /\ sbuf \in BOOLEAN /\ raced \in BOOLEAN /\ failed \in BOOLEAN
    /\ touched \in BOOLEAN

FpgaTypes ==
  /\ iov \in {"null", "live", "freed"} /\ fdOpen \in BOOLEAN
  /\ base \in Buffers /\ len \in Lengths
  /\ rx \in [base : Buffers, len : Lengths]
  /\ heap \subseteq Slots
  /\ pc \in [Threads -> KernLabels \cup UserLabels]
  /\ pc["kern"] \in KernLabels /\ pc["user"] \in UserLabels
  /\ in \in Slots /\ out \in Slots /\ nlh \in [Threads -> Slots \cup {NULL}]

\* What main has allocated and opened at each of its labels.
StageInv ==
  /\ pc["user"] \in Starting \cup GivingUp =>
       pc["kern"] = "none" /\ ~sbuf /\ ~cleared /\ ~raced /\ ~touched
  /\ pc["user"] \in Starting => ~failed
  /\ pc["user"] \in (Starting \cup GivingUp) \ {"create"} => iov = "null"
  /\ pc["user"] \in {"malloc_pool", "malloc_undo", "nlmsg_init", "init_failed"} => ~fdOpen
  /\ pc["user"] \in {"nlmsg_init", "nlmsg_iov"} => heap = Slots
  /\ pc["user"] = "nlmsg_iov" => fdOpen
  /\ pc["user"] \in Working \cup {"create"} =>
       heap = Slots /\ iov = "live" /\ fdOpen /\ ~cleared /\ ~failed
  /\ pc["user"] \notin Sending => ~sbuf
  /\ pc["user"] \in GivingUp \cup TearingDown => failed
  /\ pc["user"] \in {"close_free", "close_fd", "close_sk", "return"} => heap = {}
  /\ pc["user"] \in {"close_sk", "return"} => ~fdOpen
  /\ pc["user"] = "return" => iov = "null"
  /\ pc["user"] = "exit" => pc["kern"] = "dead"
  /\ CleanReturn

\* Who fills the iovec finds there what it stored, as long as it is alone.
IovecInv ==
  /\ pc["kern"] \in {"r_enter", "r_wait"} => nlh["kern"] \in Slots
  /\ ~raced =>
       /\ ~ (pc["kern"] \in Filling["kern"] /\ pc["user"] \in Filling["user"])
       /\ pc["user"] \in Filling["user"] => base = SBUF
       /\ pc["user"] = "s_msg" => len = "send"
       /\ pc["kern"] \in Filling["kern"] => base = nlh["kern"]
       /\ pc["kern"] = "r_enter" => len = "pool"
       /\ pc["kern"] = "r_wait" => rx = [base |-> nlh["kern"], len |-> "pool"]
  /\ FreedUntouched

WholeInv == FlagTypes /\ FpgaTypes /\ StageInv /\ IovecInv
-----------------------------------------------------------------------------
LEMMA FpgaNextSlot == \A i \in Slots : (i + 1) % GROUP_NUM \in Slots
  BY PoolAssumption DEF Slots

\* What a step of a hook does to what main and the receive thread share here.
LEMMA HookFrame ==
  ASSUME FpgaTypes, NEW t \in Threads, HookStep(t)
  PROVE  /\ pc["kern"] # "dead" /\ pc[t] \in Hook
         /\ \E l \in Hook \cup {IF t = "kern" THEN "get" ELSE "print"} : pc' = [pc EXCEPT ![t] = l]
         /\ in' \in Slots /\ out' \in Slots
         /\ nlh' = nlh \/ (t = "kern" /\ nlh' = [nlh EXCEPT !["kern"] = NULL])
  <1> USE DEF FpgaTypes, Threads, Hook, BeforeMove, Counting, Leaving, Goto
  <1>1. CASE MoveIndex(t)
    <2>1. in' \in Slots /\ out' \in Slots
      BY <1>1, FpgaNextSlot DEF MoveIndex
    <2>2. QED
      BY <1>1, <2>1 DEF MoveIndex
  <1>2. CASE LockIncStore(t)
    BY <1>2 DEF LockIncStore
  <1>3. CASE SpinExit(t)
    BY <1>3 DEF SpinExit
  <1>4. CASE LockDecLoad(t)
    BY <1>4 DEF LockDecLoad
  <1>5. CASE LockDecStore(t)
    BY <1>5 DEF LockDecStore
  <1>6. CASE CountLoad(t)
    BY <1>6 DEF CountLoad
  <1>7. CASE CountStore(t)
    BY <1>7 DEF CountStore
  <1>8. CASE LockIncLoad(t)
    BY <1>8 DEF LockIncLoad
  <1>9. QED
    BY <1>1, <1>2, <1>3, <1>4, <1>5, <1>6, <1>7, <1>8 DEF HookStep

LEMMA TypesStep == WholeInv /\ [FpgaNext]_allVars => FpgaTypes'
  <1> SUFFICES ASSUME WholeInv, [FpgaNext]_allVars PROVE FpgaTypes'
    OBVIOUS
  <1> USE DEF WholeInv, FpgaTypes, Buffers, Lengths, skVars, memVars, Threads, Slots, Goto, Hook, BeforeMove, Counting, Leaving, Receiving, Sending, Working, TearingDown, Starting, GivingUp, KernLabels, UserLabels
  <1>1. ASSUME NEW t \in Threads, PoolStep(HookStep(t)) PROVE FpgaTypes'
    BY <1>1, HookFrame DEF PoolStep
  <1>2. CASE PoolStep(KernCheck)
    BY <1>2 DEF PoolStep, KernCheck
  <1>3. CASE TakeBuffer
    BY <1>3 DEF TakeBuffer, KernTake
  <1>4. CASE TakeNull
    BY <1>4 DEF TakeNull, Only
  <1>5. CASE RecvBase
    BY <1>5 DEF RecvBase, Only, StoreBase
  <1>6. CASE RecvNoIov
    BY <1>6 DEF RecvNoIov, Only, skVars
  <1>7. CASE RecvLen
    BY <1>7 DEF RecvLen, Only, StoreLen
  <1>8. CASE RecvLenFaults
    BY <1>8 DEF RecvLenFaults, Only
  <1>9. CASE RecvEnter
    BY <1>9 DEF RecvEnter, Only, RecvmsgEnter
  <1>10. CASE RecvFails
    BY <1>10 DEF RecvFails, Only
  <1>11. CASE RecvReturn
    BY <1>11 DEF RecvReturn
  <1>12. CASE PoolStep(UserGet)
    BY <1>12 DEF PoolStep, UserGet
  <1>13. CASE PoolStep(UserPrint)
    BY <1>13 DEF PoolStep, UserPrint
  <1>14. CASE MallocPool
    <2>1. heap' \subseteq Slots
      <3>1. (\E i \in 0 .. GROUP_NUM - 1 : heap' = 0 .. i) \/ heap' = heap
        BY <1>14, Zenon DEF MallocPool, MallocLoop
      <3>2. ASSUME NEW i \in 0 .. GROUP_NUM - 1 PROVE 0 .. i \subseteq Slots
        BY PoolAssumption
      <3>3. QED
        BY <3>1, <3>2
    <2>2. QED
      BY <1>14, <2>1 DEF MallocPool, MallocLoop, Only
  <1>15. CASE MallocUndo
    <2>1. heap' \subseteq Slots
      BY <1>15, Zenon DEF MallocUndo, FreeFirst
    <2>2. QED
      BY <1>15, <2>1 DEF MallocUndo, FreeFirst, Only
  <1>16. CASE NlmsgSocket
    <2>1. fdOpen' \in BOOLEAN
      BY <1>16, Zenon DEF NlmsgSocket, OpenSocket
    <2>2. QED
      BY <1>16, <2>1 DEF NlmsgSocket, OpenSocket, Only
  <1>17. CASE NlmsgIov
    BY <1>17 DEF NlmsgIov, AllocIov, Only
  <1>18. CASE NlmsgUndo
    <2>1. fdOpen' \in BOOLEAN
      BY <1>18, Zenon DEF NlmsgUndo, CloseFd
    <2>2. QED
      BY <1>18, <2>1 DEF NlmsgUndo, CloseFd, Only
  <1>19. CASE CreateThread
    BY <1>19 DEF CreateThread
  <1>20. CASE SendMalloc
    BY <1>20 DEF SendMalloc, Only
  <1>21. CASE SendBase
    BY <1>21 DEF SendBase, Only, StoreBase
  <1>22. CASE SendLen
    BY <1>22 DEF SendLen, Only, StoreLen
  <1>23. CASE SendMsg
    BY <1>23 DEF SendMsg, Only
  <1>24. CASE FreePool
    <2>1. heap' \subseteq Slots
      BY <1>24, Zenon DEF FreePool, FreeFirst
    <2>2. QED
      BY <1>24, <2>1 DEF FreePool, FreeFirst, Only
  <1>25. CASE ClearPool
    <2>1. 0 \in Slots
      BY PoolAssumption
    <2>2. QED
      <3>1. CASE ClearAll("init_failed", "return")
        BY <2>1, <3>1 DEF ClearAll
      <3>2. CASE ClearAll("free_pool", "close_free")
        BY <2>1, <3>2 DEF ClearAll
      <3>3. QED
        BY <1>25, <3>1, <3>2 DEF ClearPool
  <1>26. CASE CloseFree
    BY <1>26 DEF CloseFree, Only, FreeIov
  <1>27. CASE CloseSocket
    <2>1. fdOpen' \in BOOLEAN
      BY <1>27, Zenon DEF CloseSocket, CloseFd
    <2>2. QED
      BY <1>27, <2>1 DEF CloseSocket, Only, CloseFd
  <1>28. CASE CloseClear
    BY <1>28 DEF CloseClear, Only, ClearSk
  <1>29. CASE Return
    BY <1>29 DEF Return, Exit
  <1>30. CASE UNCHANGED allVars
    BY <1>30 DEF allVars, vars
  <1>31. QED
    BY <1>1, <1>2, <1>3, <1>4, <1>5, <1>6, <1>7, <1>8, <1>9, <1>10, <1>11, <1>12, <1>13, <1>14, <1>15, <1>16, <1>17, <1>18, <1>19, <1>20, <1>21, <1>22, <1>23, <1>24, <1>25, <1>26, <1>27, <1>28, <1>29, <1>30
       DEF FpgaNext, KernNext, UserNext, Threads

LEMMA StageStep == WholeInv /\ [FpgaNext]_allVars => StageInv'
  <1> SUFFICES ASSUME WholeInv, [FpgaNext]_allVars PROVE StageInv'
    OBVIOUS
  <1> USE DEF WholeInv, FpgaTypes, StageInv, CleanReturn, skVars, memVars, Threads, Slots, Goto, Hook, BeforeMove, Counting, Leaving, Receiving, Sending, Working, TearingDown, Starting, GivingUp, KernLabels, UserLabels
  <1>1. ASSUME NEW t \in Threads, PoolStep(HookStep(t)) PROVE StageInv'
    BY <1>1, HookFrame DEF PoolStep
  <1>2. CASE PoolStep(KernCheck)
    BY <1>2 DEF PoolStep, KernCheck
  <1>3. CASE TakeBuffer
    BY <1>3 DEF TakeBuffer, KernTake
  <1>4. CASE TakeNull
    BY <1>4 DEF TakeNull, Only
  <1>5. CASE RecvBase
    BY <1>5 DEF RecvBase, Only, StoreBase
  <1>6. CASE RecvNoIov
    BY <1>6 DEF RecvNoIov, Only, skVars
  <1>7. CASE RecvLen
    BY <1>7 DEF RecvLen, Only, StoreLen
  <1>8. CASE RecvLenFaults
    BY <1>8 DEF RecvLenFaults, Only
  <1>9. CASE RecvEnter
    BY <1>9 DEF RecvEnter, Only, RecvmsgEnter
  <1>10. CASE RecvFails
    BY <1>10 DEF RecvFails, Only
  <1>11. CASE RecvReturn
    BY <1>11 DEF RecvReturn
  <1>12. CASE PoolStep(UserGet)
    BY <1>12 DEF PoolStep, UserGet
  <1>13. CASE PoolStep(UserPrint)
    BY <1>13 DEF PoolStep, UserPrint
  <1>14. CASE MallocPool
    BY <1>14 DEF MallocPool, MallocLoop, Only
  <1>15. CASE MallocUndo
    <2>1. CASE FreeFirst("malloc_undo")
      BY <2>1 DEF FreeFirst, Only
    <2>2. CASE heap = {} /\ Only("user", "malloc_undo", "return") /\ UNCHANGED <<skVars, memVars, raced, failed, touched>>
      BY <2>2 DEF Only
    <2>3. QED
      BY <1>15, <2>1, <2>2 DEF MallocUndo
  <1>16. CASE NlmsgSocket
    BY <1>16 DEF NlmsgSocket, OpenSocket, Only
  <1>17. CASE NlmsgIov
    <2>1. CASE Only("user", "nlmsg_iov", "create") /\ AllocIov /\ UNCHANGED failed
      BY <1>17, <2>1 DEF NlmsgIov, AllocIov, Only
    <2>2. CASE Only("user", "nlmsg_iov", "nlmsg_undo") /\ failed' /\ UNCHANGED skVars
      BY <1>17, <2>2 DEF NlmsgIov, Only
    <2>3. QED
      BY <1>17, <2>1, <2>2 DEF NlmsgIov
  <1>18. CASE NlmsgUndo
    BY <1>18 DEF NlmsgUndo, CloseFd, Only
  <1>19. CASE CreateThread
    BY <1>19 DEF CreateThread
  <1>20. CASE SendMalloc
    BY <1>20 DEF SendMalloc, Only
  <1>21. CASE SendBase
    BY <1>21 DEF SendBase, Only, StoreBase
  <1>22. CASE SendLen
    BY <1>22 DEF SendLen, Only, StoreLen
  <1>23. CASE SendMsg
    BY <1>23 DEF SendMsg, Only
  <1>24. CASE FreePool
    BY <1>24 DEF FreePool, FreeFirst, Only
  <1>25. CASE ClearPool
    <2>1. CASE ClearAll("init_failed", "return")
      BY <2>1 DEF ClearAll
    <2>2. CASE ClearAll("free_pool", "close_free")
      BY <2>2 DEF ClearAll
    <2>3. QED
      BY <1>25, <2>1, <2>2 DEF ClearPool
  <1>26. CASE CloseFree
    BY <1>26 DEF CloseFree, Only, FreeIov
  <1>27. CASE CloseSocket
    BY <1>27 DEF CloseSocket, Only, CloseFd
  <1>28. CASE CloseClear
    BY <1>28 DEF CloseClear, Only, ClearSk
  <1>29. CASE Return
    BY <1>29 DEF Return, Exit
  <1>30. CASE UNCHANGED allVars
    BY <1>30 DEF allVars, vars
  <1>31. QED
    BY <1>1, <1>2, <1>3, <1>4, <1>5, <1>6, <1>7, <1>8, <1>9, <1>10, <1>11, <1>12, <1>13, <1>14, <1>15, <1>16, <1>17, <1>18, <1>19, <1>20, <1>21, <1>22, <1>23, <1>24, <1>25, <1>26, <1>27, <1>28, <1>29, <1>30
       DEF FpgaNext, KernNext, UserNext, Threads

LEMMA IovecStep == WholeInv /\ [FpgaNext]_allVars => IovecInv'
  <1> SUFFICES ASSUME WholeInv, [FpgaNext]_allVars PROVE IovecInv'
    OBVIOUS
  <1> USE DEF WholeInv, FpgaTypes, StageInv, IovecInv, FreedUntouched, Filling, Buffers, Lengths, skVars, memVars, Threads, Slots, Goto, Hook, BeforeMove, Counting, Leaving, Receiving, Sending, Working, TearingDown, Starting, GivingUp, KernLabels, UserLabels
  <1>1. ASSUME NEW t \in Threads, PoolStep(HookStep(t)) PROVE IovecInv'
    BY <1>1, HookFrame DEF PoolStep
  <1>2. CASE PoolStep(KernCheck)
    BY <1>2 DEF PoolStep, KernCheck
  <1>3. CASE TakeBuffer
    BY <1>3 DEF TakeBuffer, KernTake
  <1>4. CASE TakeNull
    BY <1>4 DEF TakeNull, Only
  <1>5. CASE RecvBase
    BY <1>5 DEF RecvBase, Only, StoreBase
  <1>6. CASE RecvNoIov
    BY <1>6 DEF RecvNoIov, Only, skVars
  <1>7. CASE RecvLen
    BY <1>7 DEF RecvLen, Only, StoreLen
  <1>8. CASE RecvLenFaults
    BY <1>8 DEF RecvLenFaults, Only
  <1>9. CASE RecvEnter
    BY <1>9 DEF RecvEnter, Only, RecvmsgEnter
  <1>10. CASE RecvFails
    BY <1>10 DEF RecvFails, Only
  <1>11. CASE RecvReturn
    <2>1. ASSUME ~raced, ~failed PROVE rx.base \in heap
      <3>1. pc["kern"] = "r_wait"
        BY <1>11 DEF RecvReturn
      <3>2. pc["user"] \in Working
        BY <2>1, <3>1
      <3>3. heap = Slots /\ nlh["kern"] \in Slots /\ rx = [base |-> nlh["kern"], len |-> "pool"]
        BY <2>1, <3>1, <3>2
      <3>4. QED
        BY <3>3
    <2>2. FreedUntouched'
      BY <1>11, <2>1, Zenon DEF RecvReturn
    <2>3. QED
      BY <1>11, <2>2 DEF RecvReturn
  <1>12. CASE PoolStep(UserGet)
    BY <1>12 DEF PoolStep, UserGet
  <1>13. CASE PoolStep(UserPrint)
    BY <1>13 DEF PoolStep, UserPrint
  <1>14. CASE MallocPool
    BY <1>14 DEF MallocPool, MallocLoop, Only
  <1>15. CASE MallocUndo
    BY <1>15 DEF MallocUndo, FreeFirst, Only
  <1>16. CASE NlmsgSocket
    BY <1>16 DEF NlmsgSocket, OpenSocket, Only
  <1>17. CASE NlmsgIov
    BY <1>17 DEF NlmsgIov, AllocIov, Only
  <1>18. CASE NlmsgUndo
    BY <1>18 DEF NlmsgUndo, CloseFd, Only
  <1>19. CASE CreateThread
    BY <1>19 DEF CreateThread
  <1>20. CASE SendMalloc
    BY <1>20 DEF SendMalloc, Only
  <1>21. CASE SendBase
    BY <1>21 DEF SendBase, Only, StoreBase
  <1>22. CASE SendLen
    BY <1>22 DEF SendLen, Only, StoreLen
  <1>23. CASE SendMsg
    BY <1>23 DEF SendMsg, Only
  <1>24. CASE FreePool
    BY <1>24 DEF FreePool, FreeFirst, Only
  <1>25. CASE ClearPool
    BY <1>25 DEF ClearPool, ClearAll
  <1>26. CASE CloseFree
    BY <1>26 DEF CloseFree, Only, FreeIov
  <1>27. CASE CloseSocket
    BY <1>27 DEF CloseSocket, Only, CloseFd
  <1>28. CASE CloseClear
    BY <1>28 DEF CloseClear, Only, ClearSk
  <1>29. CASE Return
    BY <1>29 DEF Return, Exit
  <1>30. CASE UNCHANGED allVars
    BY <1>30 DEF allVars, vars
  <1>31. QED
    BY <1>1, <1>2, <1>3, <1>4, <1>5, <1>6, <1>7, <1>8, <1>9, <1>10, <1>11, <1>12, <1>13, <1>14, <1>15, <1>16, <1>17, <1>18, <1>19, <1>20, <1>21, <1>22, <1>23, <1>24, <1>25, <1>26, <1>27, <1>28, <1>29, <1>30
       DEF FpgaNext, KernNext, UserNext, Threads

LEMMA FlagsStep == FlagTypes /\ [FpgaNext]_allVars => FlagTypes'
  <1> SUFFICES ASSUME FlagTypes, [FpgaNext]_allVars PROVE FlagTypes'
    OBVIOUS
  <1> USE DEF FlagTypes, memVars
  <1>1. CASE UNCHANGED <<skVars, memVars, raced, failed, touched>>
    BY <1>1, Zenon
  <1>2. CASE TakeBuffer
    BY <1>2, Zenon DEF TakeBuffer
  <1>3. CASE TakeNull
    BY <1>3, Zenon DEF TakeNull
  <1>4. CASE RecvBase
    BY <1>4, Zenon DEF RecvBase
  <1>5. CASE RecvNoIov
    BY <1>5, Zenon DEF RecvNoIov
  <1>6. CASE RecvLen
    BY <1>6, Zenon DEF RecvLen
  <1>7. CASE RecvLenFaults
    BY <1>7, Zenon DEF RecvLenFaults
  <1>8. CASE RecvEnter
    BY <1>8, Zenon DEF RecvEnter
  <1>9. CASE RecvFails
    BY <1>9, Zenon DEF RecvFails
  <1>10. CASE RecvReturn
    BY <1>10, Zenon DEF RecvReturn
  <1>11. CASE MallocPool
    BY <1>11, Zenon DEF MallocPool, MallocLoop
  <1>12. CASE MallocUndo
    BY <1>12, Zenon DEF MallocUndo, FreeFirst, memVars
  <1>13. CASE NlmsgSocket
    BY <1>13, Zenon DEF NlmsgSocket
  <1>14. CASE NlmsgIov
    BY <1>14, Zenon DEF NlmsgIov
  <1>15. CASE NlmsgUndo
    BY <1>15, Zenon DEF NlmsgUndo
  <1>16. CASE CreateThread
    BY <1>16, Zenon DEF CreateThread
  <1>17. CASE SendMalloc
    BY <1>17, Zenon DEF SendMalloc
  <1>18. CASE SendBase
    BY <1>18, Zenon DEF SendBase
  <1>19. CASE SendLen
    BY <1>19, Zenon DEF SendLen
  <1>20. CASE SendMsg
    BY <1>20, Zenon DEF SendMsg
  <1>21. CASE FreePool
    BY <1>21, Zenon DEF FreePool, FreeFirst
  <1>22. CASE ClearPool
    BY <1>22, Zenon DEF ClearPool, ClearAll
  <1>23. CASE CloseFree
    BY <1>23, Zenon DEF CloseFree
  <1>24. CASE CloseSocket
    BY <1>24, Zenon DEF CloseSocket
  <1>25. CASE CloseClear
    BY <1>25, Zenon DEF CloseClear
  <1>26. CASE Return
    BY <1>26, Zenon DEF Return
  <1>27. CASE UNCHANGED allVars
    BY <1>27, Zenon DEF allVars
  <1>28. QED
    BY <1>1, <1>2, <1>3, <1>4, <1>5, <1>6, <1>7, <1>8, <1>9, <1>10, <1>11, <1>12, <1>13, <1>14, <1>15, <1>16, <1>17, <1>18, <1>19, <1>20, <1>21, <1>22, <1>23, <1>24, <1>25, <1>26, <1>27, Zenon DEF FpgaNext, KernNext, UserNext, PoolStep

LEMMA WholeInit == FpgaInit => WholeInv
  <1> SUFFICES ASSUME FpgaInit PROVE WholeInv
    OBVIOUS
  <1>1. FlagTypes
    BY Zenon DEF FpgaInit, FlagTypes
  <1>2. 0 \in Slots
    BY PoolAssumption DEF Slots
  <1>3. FpgaTypes
    <2>1. fdOpen \in BOOLEAN
      BY Zenon DEF FpgaInit, MsgInit
    <2>2. pc["kern"] = "none" /\ pc["user"] = "malloc_pool"
      BY DEF FpgaInit, Threads
    <2>3. pc \in [Threads -> KernLabels \cup UserLabels]
      BY DEF FpgaInit, Threads, KernLabels, UserLabels, Starting
    <2>4. QED
      BY <1>2, <2>1, <2>2, <2>3
         DEF FpgaInit, MsgInit, FpgaTypes, Threads, Buffers, Lengths, KernLabels, UserLabels, Starting
  <1>4. StageInv /\ IovecInv
    BY DEF FpgaInit, MsgInit, StageInv, IovecInv, CleanReturn, FreedUntouched, Threads, Working,
           Starting, GivingUp, Sending, TearingDown, Hook, BeforeMove, Counting, Leaving, Filling
  <1>5. QED
    BY <1>1, <1>3, <1>4 DEF WholeInv

LEMMA WholeStep == WholeInv /\ [FpgaNext]_allVars => WholeInv'
  <1>1. WholeInv => FlagTypes
    BY DEF WholeInv
  <1>2. QED
    BY <1>1, FlagsStep, TypesStep, StageStep, IovecStep DEF WholeInv

LEMMA WholeCorrect == FpgaSpec => []WholeInv
  BY WholeInit, WholeStep, PTL DEF FpgaSpec
-----------------------------------------------------------------------------
\* The socket, the heap and the iovec keep their types.
THEOREM FpgaTypesCorrect == FpgaSpec => []FpgaTypeOK
  <1>1. WholeInv => FpgaTypeOK
    <2>1. FlagTypes => {cleared, sbuf, raced, failed, touched} \subseteq BOOLEAN
      BY Zenon DEF FlagTypes
    <2>2. QED
      BY <2>1, Zenon DEF WholeInv, FpgaTypes, FpgaTypeOK
  <1>2. QED
    BY <1>1, WholeCorrect, PTL

(***************************************************************************)
(* As long as the two threads have not filled the iovec at the same time,  *)
(* sendmsg is given main's message and recvmsg the buffer the receive      *)
(* thread took, whatever the other thread does meanwhile.                  *)
(***************************************************************************)
THEOREM IovecCorrect == FpgaSpec => []OwnIovec
  <1>1. WholeInv => OwnIovec
    BY DEF WholeInv, IovecInv, OwnIovec, Filling, Threads
  <1>2. QED
    BY <1>1, WholeCorrect, PTL

\* Freed memory is reached only once a send has failed or the iovec was shared.
THEOREM FreedCorrect == FpgaSpec => []FreedUntouched
  <1>1. WholeInv => FreedUntouched
    BY DEF WholeInv, IovecInv
  <1>2. QED
    BY <1>1, WholeCorrect, PTL

\* However main comes to return, it has freed what it allocated and closed the socket.
THEOREM ReturnCorrect == FpgaSpec => []CleanReturn
  <1>1. WholeInv => CleanReturn
    BY DEF WholeInv, StageInv
  <1>2. QED
    BY <1>1, WholeCorrect, PTL
-----------------------------------------------------------------------------
(* The program does to the pool what NlPool says, until main gives up or    *)
(* the iovec is shared.                                                     *)

\* The label of NlPool a thread is at while it is at label l here.
Label(t, l) ==
  CASE t = "kern" /\ l = "none" -> "get"
    [] t = "kern" /\ l \in Receiving -> "recv"
    [] t = "user" /\ l \notin Hook \cup {"get", "print"} -> "send"
    [] OTHER -> l

LEMMA PoolPcIs ==
  PoolPc = [kern |-> Label("kern", pc["kern"]), user |-> Label("user", pc["user"])]
  BY DEF PoolPc, Label, Receiving, Hook, BeforeMove, Counting, Leaving

LEMMA PoolGoto ==
  ASSUME FpgaTypes, FpgaTypes', NEW t \in Threads, NEW from, NEW to, Goto(t, from, to),
         pc["user"] # "exit", to # "exit"
  PROVE  /\ Pool!Goto(t, Label(t, from), Label(t, to))
         /\ Label(t, from) = Label(t, to) => UNCHANGED PoolPc
  <1>1. /\ pc["kern"] # "dead" /\ pc[t] = from /\ pc' = [pc EXCEPT ![t] = to]
        /\ pc \in [Threads -> KernLabels \cup UserLabels] /\ pc'["user"] # "exit"
    BY DEF Goto, FpgaTypes, Threads
  <1>2. PoolPc = [kern |-> Label("kern", pc["kern"]), user |-> Label("user", pc["user"])]
    BY <1>1, PoolPcIs
  <1>3. PoolPc' = [kern |-> Label("kern", pc'["kern"]), user |-> Label("user", pc'["user"])]
    BY <1>1 DEF PoolPc, Label, Receiving, Hook, BeforeMove, Counting, Leaving
  <1>4. PoolPc' = [PoolPc EXCEPT ![t] = Label(t, to)] /\ PoolPc[t] = Label(t, from)
    <2>1. CASE t = "kern"
      <3>1. pc'["kern"] = to /\ pc'["user"] = pc["user"]
        BY <1>1, <2>1 DEF Threads
      <3>2. QED
        BY <1>1, <1>2, <1>3, <2>1, <3>1
    <2>2. CASE t = "user"
      <3>1. pc'["user"] = to /\ pc'["kern"] = pc["kern"]
        BY <1>1, <2>2 DEF Threads
      <3>2. QED
        BY <1>1, <1>2, <1>3, <2>2, <3>1
    <2>3. QED
      BY <2>1, <2>2 DEF Threads
  <1>5. PoolPc["kern"] # "dead"
    BY <1>1, <1>2 DEF Label
  <1>6. QED
    BY <1>2, <1>3, <1>4, <1>5 DEF Pool!Goto, Threads

\* A step of a hook is the same step of NlPool.
LEMMA PoolHook ==
  ASSUME FpgaTypes, FpgaTypes', StageInv, NEW t \in Threads, HookStep(t)
  PROVE  Pool!HookStep(t)
  <1>1. pc["user"] # "exit"
    BY HookFrame DEF StageInv
  <1>2. /\ \A l \in Hook : Label(t, l) = l
        /\ t = "kern" => Label(t, "get") = "get"
        /\ t = "user" => Label(t, "print") = "print"
    BY DEF Label, Receiving, Threads, Hook, BeforeMove, Counting, Leaving
  <1>3. ASSUME NEW from \in Hook, NEW to \in Hook, Goto(t, from, to)
        PROVE  Pool!Goto(t, from, to)
    <2>1. to # "exit"
      BY DEF Hook, BeforeMove, Counting, Leaving
    <2>2. QED
      BY <1>1, <1>2, <1>3, <2>1, PoolGoto
  <1>4. ASSUME Goto(t, "inc_st", IF t = "kern" THEN "get" ELSE "print")
        PROVE  Pool!Goto(t, "inc_st", IF t = "kern" THEN "get" ELSE "print")
    <2>1. Label(t, "inc_st") = "inc_st"
      BY <1>2 DEF Hook, Leaving
    <2>2. CASE t = "kern"
      BY <1>1, <1>2, <1>4, <2>1, <2>2, PoolGoto
    <2>3. CASE t = "user"
      BY <1>1, <1>2, <1>4, <2>1, <2>3, PoolGoto
    <2>4. QED
      BY <2>2, <2>3 DEF Threads
  <1>5. {"spin", "dec_ld", "dec_st", "move", "cnt_ld", "cnt_st", "inc_ld", "inc_st"} = Hook
    BY DEF Hook, BeforeMove, Counting, Leaving
  <1>6. ASSUME NEW u \in Threads PROVE Pool!Inside(u) <=> Inside(u)
    <2>1. PoolPc[u] = Label(u, pc[u])
      BY <1>1, PoolPcIs DEF Threads
    <2>2. Label(u, pc[u]) \in Critical <=> pc[u] \in Critical
      BY DEF Label, Receiving, Threads, Critical, Hook, BeforeMove, Counting, Leaving
    <2>3. Pool!Critical = Critical
      BY DEF Pool!Critical, Critical, Pool!Hook, Hook, Pool!BeforeMove, BeforeMove,
             Pool!Counting, Counting, Pool!Leaving, Leaving
    <2>4. QED
      BY <2>1, <2>2, <2>3 DEF Inside, Pool!Inside
  <1>7. CASE SpinExit(t)
    <2>1. Pool!Inside(Pool!Other(t)) <=> Inside(Other(t))
      BY <1>6 DEF Other, Pool!Other, Threads
    <2>2. clash' = (clash \/ Pool!Inside(Pool!Other(t)))
      BY <1>7, <2>1, Zenon DEF SpinExit
    <2>3. Pool!SpinExit(t)
      BY <1>3, <1>5, <1>7, <2>2 DEF SpinExit, Pool!SpinExit
    <2>4. QED
      BY <2>3 DEF Pool!HookStep
  <1>8. CASE LockDecLoad(t)
    BY <1>3, <1>5, <1>8 DEF LockDecLoad, Pool!LockDecLoad, Pool!HookStep
  <1>9. CASE LockDecStore(t)
    BY <1>3, <1>5, <1>9 DEF LockDecStore, Pool!LockDecStore, Pool!HookStep
  <1>10. CASE MoveIndex(t)
    BY <1>3, <1>5, <1>10 DEF MoveIndex, Pool!MoveIndex, Pool!HookStep
  <1>11. CASE CountLoad(t)
    BY <1>3, <1>5, <1>11 DEF CountLoad, Pool!CountLoad, Pool!HookStep
  <1>12. CASE CountStore(t)
    BY <1>3, <1>5, <1>12 DEF CountStore, Pool!CountStore, Pool!HookStep, UIntInc, UIntDec, Pool!UIntInc, Pool!UIntDec
  <1>13. CASE LockIncLoad(t)
    BY <1>3, <1>5, <1>13 DEF LockIncLoad, Pool!LockIncLoad, Pool!HookStep
  <1>14. CASE LockIncStore(t)
    BY <1>4, <1>14 DEF LockIncStore, Pool!LockIncStore, Pool!HookStep
  <1>15. QED
    BY <1>7, <1>8, <1>9, <1>10, <1>11, <1>12, <1>13, <1>14 DEF HookStep

\* The steps that NlPool does not see leave its variables alone; so does main's
\* start-up, and its return when that fails.
LEMMA PoolQuiet ==
  ASSUME WholeInv, WholeInv', FpgaNext, ~raced', ~failed'
  PROVE  \/ KernNext /\ pc["user"] # "exit" /\ iov = "live" /\ ~cleared
         \/ UNCHANGED Pool!vars
         \/ PoolStep(HookStep("user")) \/ PoolStep(UserGet) \/ PoolStep(UserPrint)
         \/ SendMsg /\ Only("user", "s_msg", "get")
  <1> DEFINE Data == <<in, out, useful, lock, slot, reg, nlh, recvd, released, clash>>
  <1> USE DEF WholeInv, FpgaTypes, Threads
  <1>1. CASE KernNext
    <2>1. pc["kern"] # "dead" /\ pc["kern"] # "none"
      BY <1>1, HookFrame DEF KernNext, PoolStep, KernCheck, TakeBuffer, KernTake, TakeNull,
         RecvBase, RecvNoIov, RecvLen, RecvLenFaults, RecvEnter, RecvFails, RecvReturn, Only,
         Goto, Hook, BeforeMove, Counting, Leaving
    <2>2. UNCHANGED failed
      BY <1>1 DEF KernNext, PoolStep, TakeBuffer, TakeNull,
         RecvBase, RecvNoIov, RecvLen, RecvLenFaults, RecvEnter, RecvFails, RecvReturn
    <2>3. pc["user"] \in Working
      BY <2>1, <2>2 DEF StageInv, UserLabels
    <2>4. QED
      BY <1>1, <2>3 DEF StageInv, Working, Hook, BeforeMove, Counting, Leaving, Sending
  <1>2. ASSUME NEW from \in UserLabels \ (Hook \cup {"get", "print", "exit"}),
               NEW to \in UserLabels \ (Hook \cup {"get", "print", "exit"}),
               Only("user", from, to)
        PROVE  UNCHANGED Pool!vars
    <2>1. Label("user", from) = Label("user", to)
      BY DEF Label
    <2>2. UNCHANGED Data /\ Goto("user", from, to)
      BY <1>2 DEF Only
    <2>3. UNCHANGED PoolPc
      BY <2>1, <2>2, PoolGoto DEF Goto
    <2>4. QED
      BY <2>2, <2>3 DEF Pool!vars
  <1> USE DEF UserLabels, Working, TearingDown, Starting, GivingUp, Sending, Hook, BeforeMove, Counting, Leaving
  <1>3. CASE MallocPool
    BY <1>2, <1>3 DEF MallocPool, MallocLoop
  <1>4. CASE NlmsgSocket
    BY <1>2, <1>4 DEF NlmsgSocket
  <1>5. CASE NlmsgIov
    BY <1>2, <1>5 DEF NlmsgIov
  <1>6. CASE CreateThread
    <2>1. /\ pc["kern"] = "none" /\ pc["user"] = "create"
          /\ pc'["kern"] \in {"get", "none"} /\ pc'["user"] = "send"
      BY <1>6 DEF CreateThread, StageInv
    <2>2. UNCHANGED PoolPc
      BY <2>1 DEF PoolPc
    <2>3. QED
      BY <1>6, <2>2 DEF CreateThread, Pool!vars
  <1>7. CASE SendMalloc
    BY <1>2, <1>7 DEF SendMalloc
  <1>8. CASE SendBase
    BY <1>2, <1>8 DEF SendBase
  <1>9. CASE SendLen
    BY <1>2, <1>9 DEF SendLen
  <1>10. CASE SendMsg
    BY <1>10 DEF SendMsg
  <1>11. CASE MallocUndo \/ NlmsgUndo
    <2>1. pc["user"] \in GivingUp /\ UNCHANGED failed
      BY <1>11 DEF MallocUndo, FreeFirst, NlmsgUndo, Only, Goto
    <2>2. QED
      BY <2>1 DEF StageInv
  <1>12. CASE FreePool \/ ClearPool \/ CloseFree \/ CloseSocket \/ CloseClear \/ Return
    <2>1. pc["user"] \in GivingUp \cup TearingDown /\ UNCHANGED failed
      BY <1>12 DEF FreePool, FreeFirst, ClearPool, ClearAll, CloseFree, CloseSocket, CloseClear,
         Return, Only, Goto, Exit
    <2>2. QED
      BY <2>1 DEF StageInv
  <1>13. QED
    BY <1>1, <1>3, <1>4, <1>5, <1>6, <1>7, <1>8, <1>9, <1>10, <1>11, <1>12 DEF FpgaNext, UserNext

LEMMA PoolKern ==
  ASSUME WholeInv, WholeInv', KernNext, pc["user"] # "exit", iov = "live", ~cleared, ~raced'
  PROVE  Pool!Next \/ UNCHANGED Pool!vars
  <1> USE DEF WholeInv, Threads
  <1>1. ASSUME NEW from, NEW to, Goto("kern", from, to), to # "exit"
        PROVE  /\ Pool!Goto("kern", Label("kern", from), Label("kern", to))
               /\ Label("kern", from) = Label("kern", to) => UNCHANGED PoolPc
    BY <1>1, PoolGoto
  <1>2. /\ \A l \in {"recv", "r_len", "r_enter", "r_wait"} : Label("kern", l) = "recv"
        /\ \A l \in {"get", "take", "spin", "dead"} : Label("kern", l) = l
    BY DEF Label, Receiving
  <1>3. ASSUME NEW from \in {"recv", "r_len", "r_enter", "r_wait"},
               NEW to \in {"recv", "r_len", "r_enter", "r_wait"}, Only("kern", from, to)
        PROVE  UNCHANGED Pool!vars
    <2>1. UNCHANGED PoolPc
      BY <1>1, <1>2, <1>3 DEF Only
    <2>2. QED
      BY <1>3, <2>1 DEF Only, Pool!vars
  <1>4. CASE PoolStep(HookStep("kern"))
    BY <1>4, PoolHook DEF PoolStep, Pool!Next, Pool!KernStep
  <1>5. CASE PoolStep(KernCheck)
    BY <1>1, <1>2, <1>5 DEF PoolStep, KernCheck, Pool!KernCheck, Pool!Next, Pool!KernStep
  <1>6. CASE TakeBuffer
    BY <1>1, <1>2, <1>6 DEF TakeBuffer, KernTake, Pool!KernTake, Pool!Next, Pool!KernStep
  <1>7. CASE RecvBase
    BY <1>3, <1>7 DEF RecvBase
  <1>8. CASE RecvLen
    BY <1>3, <1>8 DEF RecvLen
  <1>9. CASE RecvLenFaults
    <2>1. nlh["kern"] = NULL /\ Only("kern", "r_len", "dead")
      BY <1>9 DEF RecvLenFaults
    <2>2. Pool!RecvNull
      BY <1>1, <1>2, <2>1 DEF Only, Pool!RecvNull
    <2>3. QED
      BY <2>2 DEF Pool!Next, Pool!KernStep
  <1>10. CASE RecvEnter
    BY <1>3, <1>10 DEF RecvEnter
  <1>11. CASE RecvFails
    BY <1>3, <1>11 DEF RecvFails
  <1>12. CASE RecvReturn
    <2>1. pc["kern"] = "r_wait" /\ ~raced
      BY <1>12 DEF RecvReturn, Goto
    <2>2. rx = [base |-> nlh["kern"], len |-> "pool"] /\ nlh["kern"] \in Slots
      BY <2>1 DEF IovecInv
    <2>3. nlh["kern"] # NULL
      BY <2>2, PoolAssumption DEF Slots
    <2>4. slot' = [slot EXCEPT ![nlh["kern"]] = recvd + 1]
      BY <1>12, <2>2 DEF RecvReturn
    <2>5. Pool!Goto("kern", "recv", "spin")
      BY <1>1, <1>2, <1>12 DEF RecvReturn
    <2>6. Pool!Recv
      BY <1>12, <2>3, <2>4, <2>5, Zenon DEF RecvReturn, Pool!Recv
    <2>7. QED
      BY <2>6 DEF Pool!Next, Pool!KernStep
  <1>13. QED
    BY <1>4, <1>5, <1>6, <1>7, <1>8, <1>9, <1>10, <1>11, <1>12
       DEF KernNext, TakeNull, RecvNoIov

LEMMA PoolUser ==
  ASSUME WholeInv, WholeInv',
         \/ PoolStep(HookStep("user")) \/ PoolStep(UserGet) \/ PoolStep(UserPrint)
         \/ SendMsg /\ Only("user", "s_msg", "get")
  PROVE  Pool!Next
  <1> USE DEF WholeInv, Threads
  <1>1. ASSUME NEW from, NEW to, Goto("user", from, to), from # "exit", to # "exit"
        PROVE  Pool!Goto("user", Label("user", from), Label("user", to))
    <2>1. pc["user"] # "exit"
      BY <1>1 DEF Goto
    <2>2. QED
      BY <1>1, <2>1, PoolGoto
  <1>2. /\ Label("user", "s_msg") = "send" /\ Label("user", "send") = "send"
        /\ \A l \in {"get", "print", "spin"} : Label("user", l) = l
    BY DEF Label, Hook, BeforeMove, Counting, Leaving
  <1>3. CASE PoolStep(HookStep("user"))
    BY <1>3, PoolHook DEF PoolStep, Pool!Next, Pool!UserStep
  <1>4. CASE PoolStep(UserGet)
    BY <1>1, <1>2, <1>4 DEF PoolStep, UserGet, Pool!UserGet, Pool!Next, Pool!UserStep
  <1>5. CASE PoolStep(UserPrint)
    BY <1>1, <1>2, <1>5 DEF PoolStep, UserPrint, Pool!UserPrint, Pool!Next, Pool!UserStep
  <1>6. CASE Only("user", "s_msg", "get")
    BY <1>1, <1>2, <1>6 DEF Only, Pool!UserSend, Pool!Next, Pool!UserStep
  <1>7. QED
    BY <1>3, <1>4, <1>5, <1>6

LEMMA PoolStart == FpgaInit => Pool!Init
  <1> SUFFICES ASSUME FpgaInit PROVE Pool!Init
    OBVIOUS
  <1>1. pc["kern"] = "none" /\ pc["user"] = "malloc_pool"
    BY DEF FpgaInit, Threads
  <1>2. PoolPc = [kern |-> "get", user |-> "send"]
    BY <1>1 DEF PoolPc, Hook, BeforeMove, Counting, Leaving
  <1>3. PoolPc = [t \in Pool!Threads |-> IF t = "kern" THEN "get" ELSE "send"]
    BY <1>2 DEF Pool!Threads
  <1>4. QED
    BY <1>3 DEF FpgaInit, Pool!Init, Threads, Pool!Threads, Slots, Pool!Slots

LEMMA PoolFollows ==
  WholeInv /\ WholeInv' /\ [FpgaNext]_allVars => [raced' \/ failed' \/ Pool!Next]_(Pool!vars)
  <1>1. CASE FpgaNext
    BY <1>1, PoolQuiet, PoolKern, PoolUser
  <1>2. CASE UNCHANGED allVars
    <2>1. UNCHANGED PoolPc
      BY <1>2 DEF allVars, vars, PoolPc
    <2>2. QED
      BY <1>2, <2>1 DEF allVars, vars, Pool!vars
  <1>3. QED
    BY <1>1, <1>2

(***************************************************************************)
(* Until the iovec is shared or main gives up, the program is NlPool.      *)
(***************************************************************************)
THEOREM FpgaRefinesPool == FpgaSpec => ImplementsPool
  BY PoolStart, PoolFollows, WholeCorrect, PTL DEF FpgaSpec, ImplementsPool
-----------------------------------------------------------------------------
(* What is proved of NlPool, for this program *)

Proved == INSTANCE NlPoolProofs WITH pc <- PoolPc

LEMMA SameNext == Pool!Next => Proved!Next
  BY Zenon
     DEF Pool!Next, Pool!KernStep, Pool!UserStep, Pool!HookStep, Pool!SpinExit,
         Pool!LockDecLoad, Pool!LockDecStore, Pool!MoveIndex, Pool!CountLoad,
         Pool!CountStore, Pool!LockIncLoad, Pool!LockIncStore, Pool!KernCheck,
         Pool!KernTake, Pool!Recv, Pool!RecvNull, Pool!UserGet, Pool!UserPrint,
         Pool!UserSend, Pool!Goto, Pool!Inside, Pool!Other, Pool!Critical, Pool!Hook,
         Pool!BeforeMove, Pool!Counting, Pool!Leaving, Pool!UIntInc, Pool!UIntDec,
         Proved!Next, Proved!KernStep, Proved!UserStep, Proved!HookStep,
         Proved!SpinExit, Proved!LockDecLoad, Proved!LockDecStore, Proved!MoveIndex,
         Proved!CountLoad, Proved!CountStore, Proved!LockIncLoad, Proved!LockIncStore,
         Proved!KernCheck, Proved!KernTake, Proved!Recv, Proved!RecvNull,
         Proved!UserGet, Proved!UserPrint, Proved!UserSend, Proved!Goto, Proved!Inside,
         Proved!Other, Proved!Critical, Proved!Hook, Proved!BeforeMove, Proved!Counting,
         Proved!Leaving, Proved!UIntInc, Proved!UIntDec

LEMMA SameInit == Pool!Init => Proved!Init
  BY DEF Pool!Init, Proved!Init, Pool!Threads, Proved!Threads, Pool!Slots, Proved!Slots

Alone == ~raced /\ ~failed

\* History: neither is forgotten.
LEMMA AloneBefore == [FpgaNext]_allVars /\ Alone' => Alone
  <1> SUFFICES ASSUME [FpgaNext]_allVars, Alone' PROVE Alone
    OBVIOUS
  <1> USE DEF Alone, memVars
  <1>1. CASE UNCHANGED <<skVars, memVars, raced, failed, touched>>
    BY <1>1, Zenon
  <1>2. CASE TakeBuffer
    BY <1>2, Zenon DEF TakeBuffer
  <1>3. CASE TakeNull
    BY <1>3, Zenon DEF TakeNull
  <1>4. CASE RecvBase
    BY <1>4, Zenon DEF RecvBase
  <1>5. CASE RecvNoIov
    BY <1>5, Zenon DEF RecvNoIov
  <1>6. CASE RecvLen
    BY <1>6, Zenon DEF RecvLen
  <1>7. CASE RecvLenFaults
    BY <1>7, Zenon DEF RecvLenFaults
  <1>8. CASE RecvEnter
    BY <1>8, Zenon DEF RecvEnter
  <1>9. CASE RecvFails
    BY <1>9, Zenon DEF RecvFails
  <1>10. CASE RecvReturn
    BY <1>10, Zenon DEF RecvReturn
  <1>11. CASE MallocPool
    <2>1. raced' = raced /\ (failed' = failed \/ failed' = TRUE)
      BY <1>11 DEF MallocPool, MallocLoop
    <2>2. failed' # TRUE
      BY Zenon
    <2>3. QED
      BY <2>1, <2>2, Zenon
  <1>12. CASE MallocUndo
    <2>1. raced' = raced /\ failed' = failed
      BY <1>12 DEF MallocUndo, FreeFirst
    <2>2. QED
      BY <2>1, Zenon
  <1>13. CASE NlmsgSocket
    <2>1. raced' = raced /\ (failed' = failed \/ failed' = TRUE)
      BY <1>13 DEF NlmsgSocket
    <2>2. failed' # TRUE
      BY Zenon
    <2>3. QED
      BY <2>1, <2>2, Zenon
  <1>14. CASE NlmsgIov
    <2>1. raced' = raced /\ (failed' = failed \/ failed' = TRUE)
      BY <1>14 DEF NlmsgIov
    <2>2. failed' # TRUE
      BY Zenon
    <2>3. QED
      BY <2>1, <2>2, Zenon
  <1>15. CASE NlmsgUndo
    BY <1>15, Zenon DEF NlmsgUndo
  <1>16. CASE CreateThread
    BY <1>16, Zenon DEF CreateThread
  <1>17. CASE SendMalloc
    <2>1. raced' = raced /\ (failed' = failed \/ failed' = TRUE)
      BY <1>17 DEF SendMalloc
    <2>2. failed' # TRUE
      BY Zenon
    <2>3. QED
      BY <2>1, <2>2, Zenon
  <1>18. CASE SendBase
    BY <1>18, Zenon DEF SendBase
  <1>19. CASE SendLen
    BY <1>19, Zenon DEF SendLen
  <1>20. CASE SendMsg
    <2>1. raced' = raced /\ (failed' = failed \/ failed' = TRUE)
      BY <1>20 DEF SendMsg
    <2>2. failed' # TRUE
      BY Zenon
    <2>3. QED
      BY <2>1, <2>2, Zenon
  <1>21. CASE FreePool
    <2>1. raced' = raced /\ failed' = failed
      BY <1>21 DEF FreePool, FreeFirst
    <2>2. QED
      BY <2>1, Zenon
  <1>22. CASE ClearPool
    <2>1. raced' = raced /\ failed' = failed
      BY <1>22 DEF ClearPool, ClearAll
    <2>2. QED
      BY <2>1, Zenon
  <1>23. CASE CloseFree
    BY <1>23, Zenon DEF CloseFree
  <1>24. CASE CloseSocket
    BY <1>24, Zenon DEF CloseSocket
  <1>25. CASE CloseClear
    BY <1>25, Zenon DEF CloseClear
  <1>26. CASE Return
    BY <1>26, Zenon DEF Return
  <1>27. CASE UNCHANGED allVars
    BY <1>27, Zenon DEF allVars
  <1>28. QED
    BY <1>1, <1>2, <1>3, <1>4, <1>5, <1>6, <1>7, <1>8, <1>9, <1>10, <1>11, <1>12, <1>13, <1>14, <1>15, <1>16, <1>17, <1>18, <1>19, <1>20, <1>21, <1>22, <1>23, <1>24, <1>25, <1>26, <1>27, Zenon
       DEF FpgaNext, KernNext, UserNext, PoolStep

\* What NlPoolProofs shows by induction, for the program.
ProvedInv == WholeInv /\ (Alone => Proved!PoolInv)

LEMMA AloneStep ==
  ASSUME ProvedInv, WholeInv', [FpgaNext]_allVars, Alone'
  PROVE  Proved!PoolInv /\ [Proved!Next]_(Proved!vars)
  <1>1. Alone /\ Proved!PoolInv
    BY AloneBefore DEF ProvedInv
  <1>2. [Pool!Next]_(Pool!vars)
    BY PoolFollows DEF Alone, ProvedInv
  <1>3. QED
    BY <1>1, <1>2, SameNext DEF Pool!vars, Proved!vars

LEMMA ProvedCorrect == FpgaSpec => []ProvedInv
  <1>1. FpgaInit => Proved!PoolInv
    BY PoolAssumption, PoolStart, SameInit, Proved!PoolInvInit
  <1>2. ProvedInv /\ WholeInv' /\ [FpgaNext]_allVars => ProvedInv'
    <2> SUFFICES ASSUME ProvedInv, WholeInv', [FpgaNext]_allVars, Alone'
                 PROVE  Proved!PoolInv'
      BY DEF ProvedInv
    <2>1. QED
      BY AloneStep, PoolAssumption, Proved!PoolInvStep
  <1>3. WholeInv /\ FpgaInit => ProvedInv
    BY <1>1 DEF ProvedInv
  <1>4. QED
    BY <1>2, <1>3, WholeCorrect, PTL DEF FpgaSpec

(***************************************************************************)
(* In the whole program, while main has not given up and the iovec was     *)
(* not shared, pool.useful stays within the ring, and until two hooks      *)
(* overlap main is handed every message once, in order and unharmed: what  *)
(* NlPool assumes of nl_msg.c is what nl_msg.c does.                       *)
(***************************************************************************)
THEOREM PoolInProgram == FpgaSpec => [](Alone => UsefulInRange /\ HeldSlotIntact)
  <1>1. ProvedInv => (Alone => UsefulInRange /\ HeldSlotIntact)
    <2> SUFFICES ASSUME WholeInv, Proved!PoolInv PROVE UsefulInRange /\ HeldSlotIntact
      BY DEF ProvedInv
    <2>1. UsefulInRange
      BY DEF Proved!PoolInv, Proved!RangeInv, Proved!UsefulInRange, UsefulInRange
    <2>2. ASSUME pc["user"] \in BeforeMove
          PROVE  PoolPc["user"] \in Proved!BeforeMove
      BY <2>2 DEF PoolPc, Hook, BeforeMove, Proved!BeforeMove
    <2>3. Proved!HeldSlotIntact
      BY PoolAssumption, Proved!HeldFromOrder
    <2>4. QED
      BY <2>1, <2>2, <2>3 DEF HeldSlotIntact, Proved!HeldSlotIntact
  <1>2. QED
    BY <1>1, ProvedCorrect, PTL

LEMMA SameFifo ==
  /\ Proved!Fifo!QueueInit => Pool!Fifo!QueueInit
  /\ [Proved!Fifo!QueueNext]_(Proved!Fifo!queueVars) => [Pool!Fifo!QueueNext]_(Pool!Fifo!queueVars)
  <1> USE DEF Proved!InRing, Pool!InRing, Proved!Published, Pool!Published, Proved!Withdrawn,
              Pool!Withdrawn, Proved!Oldest, Pool!Oldest, Proved!LookedAt, Pool!LookedAt,
              Proved!ToldFull, Pool!ToldFull, Proved!BeforeMove, Pool!BeforeMove,
              Proved!Counting, Pool!Counting
  <1>1. Proved!Fifo!QueueInit => Pool!Fifo!QueueInit
    BY Zenon DEF Proved!Fifo!QueueInit, Pool!Fifo!QueueInit
  <1>2. QED
    BY <1>1, Zenon
       DEF Proved!Fifo!QueueNext, Proved!Fifo!queueVars, Proved!Fifo!Add, Proved!Fifo!NoRoom,
           Proved!Fifo!Look, Proved!Fifo!Remove, Proved!Fifo!Nothing, Proved!Fifo!Return,
           Pool!Fifo!QueueNext, Pool!Fifo!queueVars, Pool!Fifo!Add, Pool!Fifo!NoRoom,
           Pool!Fifo!Look, Pool!Fifo!Remove, Pool!Fifo!Nothing, Pool!Fifo!Return

\* The pool of the program is the queue of MessageQueue, unless the iovec is
\* shared, main gives up, or two hooks overlap.
ProgramIsFifo ==
  Pool!Fifo!QueueInit
    /\ [][raced' \/ failed' \/ Pool!Fifo!QueueNext]_(Pool!Fifo!queueVars)

(***************************************************************************)
(* fpga-test.c with the calls of nl_msg.c it makes, failures of the        *)
(* start-up and of receives included, hands main every message once, in    *)
(* order and unharmed, and reports a full or an empty pool only when it is *)
(* full or empty, until the iovec is shared, main gives up or two hooks    *)
(* overlap.                                                                *)
(***************************************************************************)
THEOREM FifoInProgram == FpgaSpec => ProgramIsFifo
  <1>1. FpgaInit => Pool!Fifo!QueueInit
    BY PoolAssumption, PoolStart, SameInit, SameFifo, Proved!FifoStart
  <1>2. ProvedInv /\ ProvedInv' /\ [FpgaNext]_allVars
        => [raced' \/ failed' \/ Pool!Fifo!QueueNext]_(Pool!Fifo!queueVars)
    <2> SUFFICES ASSUME ProvedInv, ProvedInv', [FpgaNext]_allVars, Alone'
                 PROVE  [Pool!Fifo!QueueNext]_(Pool!Fifo!queueVars)
      BY DEF Alone
    <2>1. Proved!PoolInv /\ Proved!PoolInv' /\ [Proved!Next]_(Proved!vars)
      BY AloneStep DEF ProvedInv
    <2>2. [Proved!Fifo!QueueNext]_(Proved!Fifo!queueVars)
      BY <2>1, PoolAssumption, Proved!FifoStep
    <2>3. QED
      BY <2>2, SameFifo
  <1>3. QED
    BY <1>1, <1>2, ProvedCorrect, PTL DEF FpgaSpec, ProgramIsFifo
-----------------------------------------------------------------------------
(* The tear-down ends *)

\* What main still has to do once it gives up.
StepsLeft ==
  CASE pc["user"] = "malloc_undo" -> Cardinality(heap) + 2
    [] pc["user"] = "nlmsg_undo" -> Cardinality(heap) + 3
    [] pc["user"] = "init_failed" -> Cardinality(heap) + 2
    [] pc["user"] = "free_pool" -> Cardinality(heap) + 5
    [] pc["user"] = "close_free" -> 4
    [] pc["user"] = "close_fd" -> 3
    [] pc["user"] = "close_sk" -> 2
    [] pc["user"] = "return" -> 1
    [] OTHER -> 0

LeftInRange ==
  failed => StepsLeft \in 0 .. GROUP_NUM + 5 /\ (StepsLeft = 0 <=> pc["user"] = "exit")

LeftFalls ==
  failed => failed' /\ StepsLeft' <= StepsLeft /\ (UserNext => StepsLeft' < StepsLeft)

LEMMA SlotsFinite == IsFiniteSet(Slots) /\ Cardinality(Slots) = GROUP_NUM
  BY PoolAssumption, FS_Interval DEF Slots

LEMMA HeapFinite ==
  ASSUME heap \subseteq Slots
  PROVE  IsFiniteSet(heap) /\ Cardinality(heap) \in 0 .. GROUP_NUM
  BY SlotsFinite, FS_Subset, FS_CardinalityType, PoolAssumption

\* A set of numbers that is not empty has a least element.
LEMMA LeastExists ==
  ASSUME NEW S, S \subseteq Nat, S # {}
  PROVE  \E m \in S : \A s \in S : m <= s
  <1> DEFINE Less == OpToRel(<, Nat)
  <1>1. IsWellFoundedOn(Less, Nat)
    BY NatLessThanWellFounded
  <1>2. PICK m \in S : \A s \in Nat : <<s, m>> \in Less => s \notin S
    BY <1>1, WFMin, Zenon
  <1>3. \A s \in S : ~ (s < m)
    <2>1. SUFFICES ASSUME NEW s \in S, s < m PROVE FALSE
      OBVIOUS
    <2>2. <<s, m>> \in Less
      BY <2>1, Zenon DEF OpToRel
    <2>3. QED
      BY <1>2, <2>2
  <1> HIDE DEF Less
  <1>4. ASSUME NEW s \in S PROVE m <= s
    <2>1. m \in Nat /\ s \in Nat /\ ~ (s < m)
      BY <1>2, <1>3
    <2>2. QED
      BY <2>1
  <1>5. QED
    BY <1>2, <1>4

\* One turn of a loop that frees the pool frees one buffer.
LEMMA FreesOne ==
  ASSUME heap \subseteq Slots, NEW l, FreeFirst(l)
  PROVE  Cardinality(heap') = Cardinality(heap) - 1
  <1>1. heap \subseteq Nat /\ heap # {}
    BY DEF Slots, FreeFirst
  <1>2. PICK m \in heap : \A s \in heap : m <= s
    BY <1>1, LeastExists
  <1>3. heap' = heap \ {m}
    <2>1. heap' = {s \in heap : \E r \in heap : r < s}
      BY DEF FreeFirst
    <2>2. ASSUME NEW s \in heap PROVE (\E r \in heap : r < s) <=> s # m
      <3>1. s \in Nat /\ m \in Nat /\ m <= s
        BY <1>1, <1>2
      <3>2. ~ (m < s) => s = m
        BY <3>1
      <3>3. ASSUME NEW r \in heap, r < m PROVE FALSE
        BY <1>1, <1>2, <3>3
      <3>4. QED
        BY <3>2, <3>3
    <2>3. QED
      BY <2>1, <2>2, Zenon
  <1>4. QED
    BY <1>2, <1>3, HeapFinite, FS_RemoveElement

\* Each step of main after the failure is one of the tear-down, and brings it
\* nearer to the end.
LEMMA MainFalls ==
  ASSUME WholeInv, WholeInv', failed, UserNext
  PROVE  failed' /\ StepsLeft' < StepsLeft
  <1>1. /\ pc["user"] \in GivingUp \cup TearingDown \cup {"exit"} /\ heap \subseteq Slots
        /\ pc \in [Threads -> KernLabels \cup UserLabels]
    BY DEF WholeInv, FpgaTypes, StageInv, UserLabels, Working
  <1>2. Cardinality(heap) \in Nat
    BY <1>1, HeapFinite, PoolAssumption
  <1> USE DEF Goto, Only, Threads, GivingUp, TearingDown
  <1>3. ASSUME NEW l \in {"malloc_undo", "init_failed", "free_pool"}, FreeFirst(l)
        PROVE  failed' /\ StepsLeft' < StepsLeft
    <2>1. pc["user"] = l /\ pc'["user"] = l /\ failed' = failed
      BY <1>1, <1>3 DEF FreeFirst
    <2>2. PICK n \in {2, 5} : StepsLeft = Cardinality(heap) + n /\ StepsLeft' = Cardinality(heap') + n
      BY <2>1 DEF StepsLeft
    <2>3. QED
      BY <1>1, <1>2, <1>3, <2>1, <2>2, FreesOne
  <1>4. CASE MallocUndo
    <2>1. CASE FreeFirst("malloc_undo")
      BY <1>3, <2>1
    <2>2. CASE heap = {} /\ Only("user", "malloc_undo", "return") /\ UNCHANGED failed
      <3>1. pc["user"] = "malloc_undo" /\ pc'["user"] = "return" /\ failed' = failed
        BY <1>1, <2>2
      <3>2. StepsLeft = 2 /\ StepsLeft' = 1
        BY <2>2, <3>1, FS_EmptySet DEF StepsLeft
      <3>3. QED
        BY <3>1, <3>2
    <2>3. QED
      BY <1>4, <2>1, <2>2 DEF MallocUndo
  <1>5. CASE NlmsgUndo
    <2>1. /\ pc["user"] = "nlmsg_undo" /\ pc'["user"] = "init_failed" /\ failed' = failed
          /\ heap' = heap
      BY <1>1, <1>5 DEF NlmsgUndo, memVars
    <2>2. StepsLeft = Cardinality(heap) + 3 /\ StepsLeft' = Cardinality(heap) + 2
      BY <2>1 DEF StepsLeft
    <2>3. QED
      BY <1>2, <2>1, <2>2
  <1>6. CASE FreePool
    BY <1>3, <1>6 DEF FreePool
  <1>7. CASE ClearPool
    <2>1. CASE ClearAll("init_failed", "return")
      <3>1. /\ pc["user"] = "init_failed" /\ pc'["user"] = "return" /\ failed' = failed
            /\ heap = {}
        BY <1>1, <2>1 DEF ClearAll
      <3>2. StepsLeft = 2 /\ StepsLeft' = 1
        BY <3>1, FS_EmptySet DEF StepsLeft
      <3>3. QED
        BY <3>1, <3>2
    <2>2. CASE ClearAll("free_pool", "close_free")
      <3>1. /\ pc["user"] = "free_pool" /\ pc'["user"] = "close_free" /\ failed' = failed
            /\ heap = {}
        BY <1>1, <2>2 DEF ClearAll
      <3>2. StepsLeft = 5 /\ StepsLeft' = 4
        BY <3>1, FS_EmptySet DEF StepsLeft
      <3>3. QED
        BY <3>1, <3>2
    <2>3. QED
      BY <1>7, <2>1, <2>2 DEF ClearPool
  <1>8. CASE CloseFree
    BY <1>1, <1>8 DEF CloseFree, StepsLeft
  <1>9. CASE CloseSocket
    BY <1>1, <1>9 DEF CloseSocket, StepsLeft
  <1>10. CASE CloseClear
    BY <1>1, <1>10 DEF CloseClear, StepsLeft
  <1>11. CASE Return
    BY <1>1, <1>11 DEF Return, Exit, StepsLeft
  <1>12. CASE MallocPool \/ NlmsgSocket \/ NlmsgIov \/ CreateThread
    BY <1>1, <1>12 DEF MallocPool, MallocLoop, NlmsgSocket, NlmsgIov, CreateThread
  <1>13. CASE SendMalloc \/ SendBase \/ SendLen \/ SendMsg
    BY <1>1, <1>13 DEF SendMalloc, SendBase, SendLen, SendMsg
  <1>14. CASE PoolStep(HookStep("user"))
    <2>1. pc["user"] \in Hook
      BY <1>14, HookFrame DEF WholeInv, PoolStep
    <2>2. QED
      BY <1>1, <2>1 DEF Hook, BeforeMove, Counting, Leaving
  <1>15. CASE PoolStep(UserGet) \/ PoolStep(UserPrint)
    BY <1>1, <1>15 DEF PoolStep, UserGet, UserPrint
  <1>16. QED
    BY <1>4, <1>5, <1>6, <1>7, <1>8, <1>9, <1>10, <1>11, <1>12, <1>13, <1>14, <1>15
       DEF UserNext

\* The receive thread neither adds to it nor takes from it.
LEMMA KernLeaves ==
  ASSUME WholeInv, KernNext
  PROVE  UNCHANGED <<pc["user"], heap, failed>>
  <1> USE DEF WholeInv, FpgaTypes, Goto, Only, Threads, memVars
  <1>1. CASE PoolStep(HookStep("kern"))
    BY <1>1, HookFrame DEF PoolStep
  <1>2. CASE PoolStep(KernCheck)
    BY <1>2 DEF PoolStep, KernCheck
  <1>3. CASE TakeBuffer
    BY <1>3 DEF TakeBuffer, KernTake
  <1>4. CASE TakeNull \/ RecvNoIov \/ RecvLenFaults \/ RecvFails
    BY <1>4 DEF TakeNull, RecvNoIov, RecvLenFaults, RecvFails
  <1>5. CASE RecvBase \/ RecvLen \/ RecvEnter
    BY <1>5 DEF RecvBase, RecvLen, RecvEnter
  <1>6. CASE RecvReturn
    BY <1>6 DEF RecvReturn
  <1>7. QED
    BY <1>1, <1>2, <1>3, <1>4, <1>5, <1>6 DEF KernNext

LEMMA LeftStep == WholeInv /\ WholeInv' /\ [FpgaNext]_allVars => LeftFalls
  <1> SUFFICES ASSUME WholeInv, WholeInv', [FpgaNext]_allVars, failed
               PROVE  failed' /\ StepsLeft' <= StepsLeft /\ (UserNext => StepsLeft' < StepsLeft)
    BY DEF LeftFalls
  <1>1. StepsLeft \in Int /\ StepsLeft' \in Int
    <2>1. Cardinality(heap) \in Nat /\ Cardinality(heap') \in Nat
      BY HeapFinite, PoolAssumption, SlotsFinite, FS_Subset, FS_CardinalityType DEF WholeInv, FpgaTypes
    <2>2. QED
      BY <2>1 DEF StepsLeft
  <1>2. CASE UserNext
    BY <1>1, <1>2, MainFalls
  <1>3. CASE ~UserNext
    <2>1. UNCHANGED <<pc["user"], heap, failed>>
      BY <1>3, KernLeaves DEF FpgaNext, allVars, vars, memVars
    <2>2. StepsLeft' = StepsLeft
      BY <2>1 DEF StepsLeft
    <2>3. QED
      BY <1>1, <1>3, <2>1, <2>2
  <1>4. QED
    BY <1>2, <1>3

(***************************************************************************)
(* Once a start-up call or a send has failed, main takes at most           *)
(* GROUP_NUM + 5 steps and has then left the program (nl_pool.c:34-39,     *)
(* nl_msg.c:76-78 and fpga-test.c:77-79, 96-101): every step of its own    *)
(* brings the end nearer, whatever the receive thread, the pool's lock and *)
(* its counters are doing, and no step of the receive thread moves it      *)
(* away.  For FailureEnds only the scheduler is left to be trusted.        *)
(***************************************************************************)
THEOREM TearDownBounded == FpgaSpec => []LeftInRange /\ [][LeftFalls]_allVars
  <1>1. WholeInv => LeftInRange
    <2> SUFFICES ASSUME WholeInv, failed
                 PROVE  StepsLeft \in 0 .. GROUP_NUM + 5 /\ (StepsLeft = 0 <=> pc["user"] = "exit")
      BY DEF LeftInRange
    <2>1. /\ pc["user"] \in GivingUp \cup TearingDown \cup {"exit"}
          /\ Cardinality(heap) \in 0 .. GROUP_NUM
      BY HeapFinite DEF WholeInv, FpgaTypes, StageInv, UserLabels, Working
    <2>2. QED
      BY <2>1, PoolAssumption DEF StepsLeft, GivingUp, TearingDown
  <1>2. QED
    BY <1>1, LeftStep, WholeCorrect, PTL DEF FpgaSpec
=============================================================================
