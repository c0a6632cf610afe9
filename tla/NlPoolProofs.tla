---------------------------- MODULE NlPoolProofs ----------------------------
(***************************************************************************)
(* For every size of the ring and every number of messages: the types, the *)
(* range of pool.useful in any interleaving, and, as long as two hooks     *)
(* have not overlapped, the lock, the count and the order of the messages. *)
(***************************************************************************)
EXTENDS NlPool, SequenceTheorems, TLAPS

USE PoolAssumption

-----------------------------------------------------------------------------
(* Types, and the range of pool.useful in any interleaving *)

\* Where a thread holds a buffer of the ring.
Held ==
  /\ pc["kern"] \in Hook => nlh["kern"] # NULL
  /\ pc["kern"] \in {"get", "take"} => nlh["kern"] = NULL
  /\ pc["user"] \in Hook \cup {"print"} => nlh["user"] # NULL

\* The kern thread fills, so room it has seen can only grow; the user thread
\* drains, so a message it has seen can only be joined by more.
Room ==
  /\ pc["kern"] = "take" \/ (pc["kern"] = "recv" /\ nlh["kern"] # NULL)
       \/ pc["kern"] \in {"cnt_ld"} \cup BeforeMove => useful <= GROUP_NUM - 1
  /\ pc["kern"] = "cnt_st" => reg["kern"] \in 0 .. GROUP_NUM - 1

Supply ==
  /\ pc["user"] \in {"cnt_ld"} \cup BeforeMove => useful >= 1
  /\ pc["user"] = "cnt_st" => reg["user"] \in 1 .. GROUP_NUM

RangeInv == TypeOK /\ Held /\ UsefulInRange /\ Room /\ Supply
-----------------------------------------------------------------------------
\* The index of the next buffer stays in the ring.
LEMMA NextSlot ==
  \A i \in Slots : (i + 1) % GROUP_NUM = IF i + 1 < GROUP_NUM THEN i + 1 ELSE 0
  BY DEF Slots

LEMMA RangeInit == Init => RangeInv
  <1> SUFFICES ASSUME Init PROVE RangeInv
    OBVIOUS
  <1> USE DEF Init, Threads, Slots, Hook, BeforeMove, Counting, Leaving
  <1>1. TypeOK
    <2>1. in \in Slots /\ out \in Slots /\ useful \in 0 .. UINT_MAX
      OBVIOUS
    <2>2. slot \in [Slots -> Nat]
      OBVIOUS
    <2>3. nlh \in [Threads -> Slots \cup {NULL}] /\ reg \in [Threads -> Int]
      OBVIOUS
    <2>4. pc \in [Threads -> Hook \cup {"get", "take", "recv", "print", "send", "dead"}]
      OBVIOUS
    <2>5. lock \in Int /\ recvd \in Nat /\ released \in Nat
      OBVIOUS
    <2>6. clash \in BOOLEAN
      BY Zenon
    <2>7. QED
      BY <2>1, <2>2, <2>3, <2>4, <2>5, <2>6, Zenon DEF TypeOK
  <1>2. Held /\ UsefulInRange /\ Room /\ Supply
    BY DEF Held, UsefulInRange, Room, Supply
  <1>3. QED
    BY <1>1, <1>2 DEF RangeInv

LEMMA RangeStep == RangeInv /\ [Next]_vars => RangeInv'
  <1> SUFFICES ASSUME RangeInv, [Next]_vars PROVE RangeInv'
    OBVIOUS
  <1> USE DEF RangeInv, TypeOK, Held, UsefulInRange, Room, Supply, Slots, Threads, Hook,
              BeforeMove, Counting, Leaving, Goto
  <1>1. ASSUME NEW t \in Threads, SpinExit(t) PROVE RangeInv'
    BY <1>1 DEF SpinExit
  <1>2. ASSUME NEW t \in Threads, LockDecLoad(t) PROVE RangeInv'
    BY <1>2 DEF LockDecLoad
  <1>3. ASSUME NEW t \in Threads, LockDecStore(t) PROVE RangeInv'
    BY <1>3 DEF LockDecStore
  <1>4. ASSUME NEW t \in Threads, MoveIndex(t) PROVE RangeInv'
    <2>1. /\ in' \in Slots /\ out' \in Slots /\ released' \in Nat
          /\ pc[t] = "move" /\ pc' = [pc EXCEPT ![t] = "cnt_ld"]
          /\ UNCHANGED <<useful, lock, slot, reg, nlh, recvd, clash>>
      <3>1. CASE t = "kern"
        BY <1>4, <3>1, NextSlot DEF MoveIndex
      <3>2. CASE t = "user"
        BY <1>4, <3>2, NextSlot DEF MoveIndex
      <3>3. QED
        BY <3>1, <3>2
    <2>2. QED
      BY <2>1
  <1>5. ASSUME NEW t \in Threads, CountLoad(t) PROVE RangeInv'
    BY <1>5 DEF CountLoad
  <1>6. ASSUME NEW t \in Threads, CountStore(t) PROVE RangeInv'
    <2>1. CASE t = "kern"
      BY <1>6, <2>1 DEF CountStore, UIntInc
    <2>2. CASE t = "user"
      BY <1>6, <2>2 DEF CountStore, UIntDec
    <2>3. QED
      BY <2>1, <2>2
  <1>7. ASSUME NEW t \in Threads, LockIncLoad(t) PROVE RangeInv'
    BY <1>7 DEF LockIncLoad
  <1>8. ASSUME NEW t \in Threads, LockIncStore(t) PROVE RangeInv'
    BY <1>8 DEF LockIncStore
  <1>9. CASE KernCheck
    BY <1>9 DEF KernCheck
  <1>10. CASE KernTake
    BY <1>10 DEF KernTake
  <1>11. CASE Recv
    BY <1>11 DEF Recv
  <1>12. CASE RecvNull
    BY <1>12 DEF RecvNull
  <1>13. CASE UserGet
    BY <1>13 DEF UserGet
  <1>14. CASE UserPrint
    BY <1>14 DEF UserPrint
  <1>15. CASE UserSend
    BY <1>15 DEF UserSend
  <1>16. CASE UNCHANGED vars
    BY <1>16 DEF vars
  <1>17. QED
    BY <1>1, <1>2, <1>3, <1>4, <1>5, <1>6, <1>7, <1>8, <1>9, <1>10, <1>11, <1>12, <1>13, <1>14, <1>15, <1>16 DEF Next, KernStep, UserStep, HookStep

(***************************************************************************)
(* pool.useful stays within the ring whatever the two threads do.          *)
(***************************************************************************)
THEOREM UsefulCorrect == Spec => []UsefulInRange
  <1>1. RangeInv => UsefulInRange
    BY DEF RangeInv
  <1>2. QED
    BY <1>1, RangeInit, RangeStep, PTL DEF Spec

\* The variables keep their types: the indices stay in the ring.
THEOREM PoolTypes == Spec => []TypeOK
  <1>1. RangeInv => TypeOK
    BY DEF RangeInv
  <1>2. QED
    BY <1>1, RangeInit, RangeStep, PTL DEF Spec
-----------------------------------------------------------------------------
(* The lock, the count and the order, until two hooks overlap *)

\* Indices wrap once at most: every sum below is less than twice the ring.
Wrap(x) == IF x < GROUP_NUM THEN x ELSE x - GROUP_NUM

\* Messages that pool.in has moved past.
Moved == recvd - (IF pc["kern"] \in BeforeMove THEN 1 ELSE 0)

Apart == ~ (Inside("kern") /\ Inside("user"))

LockIs == lock = IF \E t \in Threads : LockTaken(t) THEN 0 ELSE 1

\* What a thread has loaded is what is there: nobody stores in between.
RegFresh ==
  \A t \in Threads :
    /\ pc[t] = "dec_st" => reg[t] = 1
    /\ pc[t] = "cnt_st" => reg[t] = useful
    /\ pc[t] = "inc_st" => reg[t] = 0

CountIs == useful = Published - Withdrawn

Ring ==
  /\ released <= Moved
  /\ in = Wrap(out + (Moved - released))
  /\ recvd - released <= GROUP_NUM
  /\ pc["kern"] \in {"recv"} \cup BeforeMove /\ nlh["kern"] # NULL => nlh["kern"] = in
  /\ pc["user"] \in BeforeMove => nlh["user"] = out

\* The messages not given back lie in the ring from `out` on, in order.
Content ==
  \A k \in 0 .. recvd - released - 1 : slot[Wrap(out + k)] = released + 1 + k

\* The buffer just given back is the one before `out`.  Until it is counted the
\* receive thread cannot reach it, however full the ring is.
Behind ==
  pc["user"] \in Counting \cup Leaving \cup {"print"} =>
    /\ out = Wrap(nlh["user"] + 1)
    /\ recvd - released < GROUP_NUM - 1 \/ pc["user"] \in Counting =>
         slot[nlh["user"]] = released

Ordered == Apart /\ LockIs /\ RegFresh /\ CountIs /\ Ring /\ Content /\ Behind
OrderInv == ~clash => Ordered
-----------------------------------------------------------------------------
\* Stepping through the ring from a slot i: at most once round, every step
\* lands on another slot.
LEMMA WrapSlots ==
  \A i \in Slots, k \in 0 .. GROUP_NUM : Wrap(i + k) \in Slots
  BY DEF Slots, Wrap

LEMMA WrapApart ==
  \A i \in Slots, j, k \in 0 .. GROUP_NUM - 1 : j # k => Wrap(i + j) # Wrap(i + k)
  BY DEF Slots, Wrap

LEMMA WrapNext ==
  \A i \in Slots, k \in 0 .. GROUP_NUM - 1 : Wrap(Wrap(i + 1) + k) = Wrap(i + (k + 1))
  BY DEF Slots, Wrap

LEMMA WrapSucc ==
  \A i \in Slots, k \in 0 .. GROUP_NUM - 1 : Wrap(Wrap(i + k) + 1) = Wrap(i + (k + 1))
  BY DEF Slots, Wrap

LEMMA NextIsWrap == \A i \in Slots : (i + 1) % GROUP_NUM = Wrap(i + 1)
  BY NextSlot DEF Slots, Wrap

\* How many messages the ring holds, and that there is room, or supply, for
\* the thread that has tested for it.
LEMMA Occupancy ==
  ASSUME RangeInv, Ordered
  PROVE  /\ Moved - released \in 0 .. GROUP_NUM
         /\ pc["kern"] = "take" \/ (pc["kern"] = "recv" /\ nlh["kern"] # NULL)
              \/ pc["kern"] \in BeforeMove => Moved - released \in 0 .. GROUP_NUM - 1
         /\ pc["user"] \in BeforeMove => Moved - released \in 1 .. GROUP_NUM
  <1> USE DEF RangeInv, TypeOK, Room, Supply, Ordered, Ring, CountIs, Published, Withdrawn, Moved,
              Threads, BeforeMove, Counting
  <1>1. Moved \in Int /\ released \in Nat /\ released <= Moved /\ Moved <= recvd
    OBVIOUS
  <1>2. Moved - released \in 0 .. GROUP_NUM
    BY <1>1
  <1>3. ASSUME pc["kern"] = "take" \/ (pc["kern"] = "recv" /\ nlh["kern"] # NULL)
                 \/ pc["kern"] \in BeforeMove
        PROVE  Moved - released <= GROUP_NUM - 1
    BY <1>3
  <1>4. ASSUME pc["user"] \in BeforeMove
        PROVE  Moved - released >= 1
    BY <1>4
  <1>5. QED
    BY <1>1, <1>2, <1>3, <1>4

\* The buffer the receive thread writes is none of those that hold a message,
\* nor, unless the ring is nearly full, the one main still prints from.
LEMMA FillsFree ==
  ASSUME RangeInv, Ordered,
         pc["kern"] = "take" \/ (pc["kern"] = "recv" /\ nlh["kern"] # NULL)
  PROVE  /\ in = Wrap(out + (recvd - released)) /\ recvd - released \in 0 .. GROUP_NUM - 1
         /\ \A k \in 0 .. recvd - released - 1 : Wrap(out + k) # in
         /\ pc["user"] \in Counting \cup Leaving \cup {"print"}
              /\ recvd - released < GROUP_NUM - 1 => nlh["user"] # in
         /\ pc["user"] \in Counting => recvd - released < GROUP_NUM - 1
  <1>1. /\ in \in Slots /\ out \in Slots /\ nlh["user"] \in Slots \cup {NULL}
        /\ recvd \in Nat /\ released \in Nat
    BY DEF RangeInv, TypeOK, Threads
  <1>2. Moved = recvd
    BY <1>1 DEF Moved, BeforeMove
  <1>3. in = Wrap(out + (recvd - released)) /\ recvd - released \in 0 .. GROUP_NUM - 1
    BY <1>2, Occupancy DEF Ordered, Ring
  <1>4. ASSUME NEW k \in 0 .. recvd - released - 1
        PROVE  Wrap(out + k) # in
    <2>1. k \in 0 .. GROUP_NUM - 1 /\ k # recvd - released
      BY <1>1, <1>3
    <2>2. QED
      BY <1>1, <1>3, <2>1, WrapApart
  <1>5. ASSUME pc["user"] \in Counting \cup Leaving \cup {"print"},
               recvd - released < GROUP_NUM - 1
        PROVE  nlh["user"] # in
    <2>1. nlh["user"] \in Slots /\ out = Wrap(nlh["user"] + 1)
      BY <1>1, <1>5 DEF RangeInv, Held, Ordered, Behind, Hook
    <2>2. (recvd - released) + 1 \in 1 .. GROUP_NUM - 1
      BY <1>1, <1>3, <1>5
    <2>3. in = Wrap(nlh["user"] + ((recvd - released) + 1))
      BY <1>3, <2>1, WrapNext
    <2>4. nlh["user"] = Wrap(nlh["user"] + 0)
      BY <2>1 DEF Wrap, Slots
    <2>5. QED
      BY <2>1, <2>2, <2>3, <2>4, WrapApart
  <1>6. ASSUME pc["user"] \in Counting PROVE recvd - released < GROUP_NUM - 1
    <2>1. useful <= GROUP_NUM - 1
      BY DEF RangeInv, Room
    <2>2. Published = recvd /\ Withdrawn = released - 1
      BY <1>1, <1>6 DEF Published, Withdrawn, BeforeMove, Counting
    <2>3. QED
      BY <1>1, <2>1, <2>2 DEF Ordered, CountIs
  <1>7. QED
    BY <1>3, <1>4, <1>5, <1>6

LEMMA MoveKern ==
  ASSUME RangeInv, MoveIndex("kern")
  PROVE  /\ in' = Wrap(in + 1)
         /\ pc["kern"] = "move" /\ pc' = [pc EXCEPT !["kern"] = "cnt_ld"]
         /\ UNCHANGED <<out, slot, nlh, recvd, released>>
  BY NextIsWrap DEF RangeInv, TypeOK, MoveIndex, Goto

LEMMA MoveUser ==
  ASSUME RangeInv, MoveIndex("user")
  PROVE  /\ out' = Wrap(out + 1) /\ released' = released + 1
         /\ pc["user"] = "move" /\ pc' = [pc EXCEPT !["user"] = "cnt_ld"]
         /\ UNCHANGED <<in, slot, nlh, recvd>>
  BY NextIsWrap DEF RangeInv, TypeOK, MoveIndex, Goto

LEMMA OrderInit == Init => OrderInv
  <1> SUFFICES ASSUME Init PROVE Ordered
    BY DEF OrderInv
  <1> USE DEF Init, Threads, Slots, Hook, BeforeMove, Counting, Leaving
  <1>1. Apart /\ LockIs /\ RegFresh
    BY DEF Apart, Inside, Critical, LockIs, LockTaken, RegFresh
  <1>2. /\ pc["kern"] = "get" /\ pc["user"] = "send" /\ nlh["kern"] = NULL
        /\ recvd = 0 /\ released = 0
    OBVIOUS
  <1>3. CountIs /\ Ring
    <2>1. Published = 0 /\ Withdrawn = 0 /\ Moved = 0
      <3>1. pc["kern"] \notin BeforeMove \cup Counting /\ pc["user"] \notin Counting
        BY <1>2
      <3>2. Published = 0 - 0 /\ Withdrawn = 0 - 0 /\ Moved = 0 - 0
        BY <1>2, <3>1, Zenon DEF Published, Withdrawn, Moved
      <3>3. QED
        BY <3>2
    <2>2. Wrap(0) = 0
      BY DEF Wrap
    <2>3. QED
      BY <1>2, <2>1, <2>2 DEF CountIs, Ring
  <1>4. Content /\ Behind
    BY <1>2 DEF Content, Behind
  <1>5. QED
    BY <1>1, <1>3, <1>4 DEF Ordered

\* History: an overlap is not forgotten.
LEMMA ClashStays == [Next]_vars /\ ~clash' => ~clash
  BY Zenon DEF Next, KernStep, UserStep, HookStep, SpinExit, LockDecLoad, LockDecStore,
         MoveIndex, CountLoad, CountStore, LockIncLoad, LockIncStore, KernCheck, KernTake,
         Recv, RecvNull, UserGet, UserPrint, UserSend, vars

LEMMA LockStep ==
  RangeInv /\ Ordered /\ [Next]_vars /\ ~clash' => (Apart /\ LockIs /\ RegFresh)'
  <1> SUFFICES ASSUME RangeInv, Ordered, [Next]_vars, ~clash' PROVE (Apart /\ LockIs /\ RegFresh)'
    OBVIOUS
  <1> USE DEF RangeInv, TypeOK, Held, Threads, Hook, BeforeMove, Counting, Leaving, Goto, Ordered,
              Apart, Inside, Critical, Other, LockIs, LockTaken, RegFresh
  <1>1. ASSUME NEW t \in Threads, SpinExit(t) PROVE (Apart /\ LockIs /\ RegFresh)'
    BY <1>1 DEF SpinExit
  <1>2. ASSUME NEW t \in Threads, LockDecLoad(t) PROVE (Apart /\ LockIs /\ RegFresh)'
    BY <1>2 DEF LockDecLoad
  <1>3. ASSUME NEW t \in Threads, LockDecStore(t) PROVE (Apart /\ LockIs /\ RegFresh)'
    BY <1>3 DEF LockDecStore
  <1>4. ASSUME NEW t \in Threads, MoveIndex(t) PROVE (Apart /\ LockIs /\ RegFresh)'
    BY <1>4 DEF MoveIndex
  <1>5. ASSUME NEW t \in Threads, CountLoad(t) PROVE (Apart /\ LockIs /\ RegFresh)'
    BY <1>5 DEF CountLoad
  <1>6. ASSUME NEW t \in Threads, CountStore(t) PROVE (Apart /\ LockIs /\ RegFresh)'
    BY <1>6 DEF CountStore
  <1>7. ASSUME NEW t \in Threads, LockIncLoad(t) PROVE (Apart /\ LockIs /\ RegFresh)'
    BY <1>7 DEF LockIncLoad
  <1>8. ASSUME NEW t \in Threads, LockIncStore(t) PROVE (Apart /\ LockIs /\ RegFresh)'
    BY <1>8 DEF LockIncStore
  <1>9. CASE KernCheck
    BY <1>9 DEF KernCheck
  <1>10. CASE KernTake
    BY <1>10 DEF KernTake
  <1>11. CASE Recv
    BY <1>11 DEF Recv
  <1>12. CASE RecvNull
    BY <1>12 DEF RecvNull
  <1>13. CASE UserGet
    BY <1>13 DEF UserGet
  <1>14. CASE UserPrint
    BY <1>14 DEF UserPrint
  <1>15. CASE UserSend
    BY <1>15 DEF UserSend
  <1>16. CASE UNCHANGED vars
    BY <1>16 DEF vars
  <1>17. QED
    BY <1>1, <1>2, <1>3, <1>4, <1>5, <1>6, <1>7, <1>8,
       <1>9, <1>10, <1>11, <1>12, <1>13, <1>14, <1>15, <1>16
       DEF Next, KernStep, UserStep, HookStep

LEMMA CountStep ==
  RangeInv /\ Ordered /\ [Next]_vars /\ ~clash' => CountIs'
  <1> SUFFICES ASSUME RangeInv, Ordered, [Next]_vars, ~clash' PROVE CountIs'
    OBVIOUS
  <1> USE DEF RangeInv, TypeOK, Held, Threads, Hook, BeforeMove, Counting, Leaving, Goto, Ordered,
              CountIs, Published, Withdrawn, RegFresh, UsefulInRange, UIntInc, UIntDec
  <1>1. ASSUME NEW t \in Threads, SpinExit(t) PROVE CountIs'
    BY <1>1 DEF SpinExit
  <1>2. ASSUME NEW t \in Threads, LockDecLoad(t) PROVE CountIs'
    BY <1>2 DEF LockDecLoad
  <1>3. ASSUME NEW t \in Threads, LockDecStore(t) PROVE CountIs'
    BY <1>3 DEF LockDecStore
  <1>4. ASSUME NEW t \in Threads, MoveIndex(t) PROVE CountIs'
    BY <1>4 DEF MoveIndex
  <1>5. ASSUME NEW t \in Threads, CountLoad(t) PROVE CountIs'
    BY <1>5 DEF CountLoad
  <1>6. ASSUME NEW t \in Threads, CountStore(t) PROVE CountIs'
    <2>1. CASE t = "kern"
      BY <1>6, <2>1 DEF CountStore, Supply, Room
    <2>2. CASE t = "user"
      BY <1>6, <2>2 DEF CountStore, Supply, Room
    <2>3. QED
      BY <2>1, <2>2
  <1>7. ASSUME NEW t \in Threads, LockIncLoad(t) PROVE CountIs'
    BY <1>7 DEF LockIncLoad
  <1>8. ASSUME NEW t \in Threads, LockIncStore(t) PROVE CountIs'
    BY <1>8 DEF LockIncStore
  <1>9. CASE KernCheck
    BY <1>9 DEF KernCheck
  <1>10. CASE KernTake
    BY <1>10 DEF KernTake
  <1>11. CASE Recv
    BY <1>11 DEF Recv
  <1>12. CASE RecvNull
    BY <1>12 DEF RecvNull
  <1>13. CASE UserGet
    BY <1>13 DEF UserGet
  <1>14. CASE UserPrint
    BY <1>14 DEF UserPrint
  <1>15. CASE UserSend
    BY <1>15 DEF UserSend
  <1>16. CASE UNCHANGED vars
    BY <1>16 DEF vars
  <1>17. QED
    BY <1>1, <1>2, <1>3, <1>4, <1>5, <1>6, <1>7, <1>8,
       <1>9, <1>10, <1>11, <1>12, <1>13, <1>14, <1>15, <1>16
       DEF Next, KernStep, UserStep, HookStep

LEMMA RingStep ==
  RangeInv /\ Ordered /\ [Next]_vars /\ ~clash' => Ring'
  <1> SUFFICES ASSUME RangeInv, Ordered, [Next]_vars, ~clash' PROVE Ring'
    OBVIOUS
  <1> USE DEF RangeInv, TypeOK, Held, Threads, Hook, BeforeMove, Counting, Leaving, Goto, Ordered,
              Ring, Moved, Room, Supply, CountIs, Published, Withdrawn
  <1>1. ASSUME NEW t \in Threads, SpinExit(t) PROVE Ring'
    BY <1>1 DEF SpinExit
  <1>2. ASSUME NEW t \in Threads, LockDecLoad(t) PROVE Ring'
    BY <1>2 DEF LockDecLoad
  <1>3. ASSUME NEW t \in Threads, LockDecStore(t) PROVE Ring'
    BY <1>3 DEF LockDecStore
  <1>4. ASSUME NEW t \in Threads, MoveIndex(t) PROVE Ring'
    <2>1. CASE t = "kern"
      <3>1. Moved - released \in 0 .. GROUP_NUM - 1
        BY <1>4, <2>1, MoveKern, Occupancy
      <3>2. Moved' = Moved + 1
        BY <1>4, <2>1, MoveKern
      <3>3. in' = Wrap(out + ((Moved - released) + 1))
        BY <1>4, <2>1, <3>1, MoveKern, WrapSucc
      <3>4. in' = Wrap(out' + (Moved' - released'))
        BY <1>4, <2>1, <3>2, <3>3, MoveKern
      <3>5. QED
        BY <1>4, <2>1, <3>1, <3>2, <3>4, MoveKern
    <2>2. CASE t = "user"
      <3>1. Moved - released \in 1 .. GROUP_NUM
        BY <1>4, <2>2, MoveUser, Occupancy
      <3>2. Moved' = Moved
        BY <1>4, <2>2, MoveUser
      <3>3. Wrap(Wrap(out + 1) + ((Moved - released) - 1)) = Wrap(out + (Moved - released))
        BY <3>1, WrapNext
      <3>4. in' = Wrap(out' + (Moved' - released'))
        BY <1>4, <2>2, <3>2, <3>3, MoveUser
      <3>5. QED
        BY <1>4, <2>2, <3>1, <3>2, <3>4, MoveUser
    <2>3. QED
      BY <2>1, <2>2, <1>4
  <1>5. ASSUME NEW t \in Threads, CountLoad(t) PROVE Ring'
    BY <1>5 DEF CountLoad
  <1>6. ASSUME NEW t \in Threads, CountStore(t) PROVE Ring'
    BY <1>6 DEF CountStore
  <1>7. ASSUME NEW t \in Threads, LockIncLoad(t) PROVE Ring'
    BY <1>7 DEF LockIncLoad
  <1>8. ASSUME NEW t \in Threads, LockIncStore(t) PROVE Ring'
    BY <1>8 DEF LockIncStore
  <1>9. CASE KernCheck
    BY <1>9 DEF KernCheck
  <1>10. CASE KernTake
    BY <1>10 DEF KernTake
  <1>11. CASE Recv
    BY <1>11 DEF Recv
  <1>12. CASE RecvNull
    BY <1>12 DEF RecvNull
  <1>13. CASE UserGet
    BY <1>13 DEF UserGet
  <1>14. CASE UserPrint
    BY <1>14 DEF UserPrint
  <1>15. CASE UserSend
    BY <1>15 DEF UserSend
  <1>16. CASE UNCHANGED vars
    BY <1>16 DEF vars
  <1>17. QED
    BY <1>1, <1>2, <1>3, <1>4, <1>5, <1>6, <1>7, <1>8,
       <1>9, <1>10, <1>11, <1>12, <1>13, <1>14, <1>15, <1>16
       DEF Next, KernStep, UserStep, HookStep

LEMMA ContentStep ==
  RangeInv /\ Ordered /\ [Next]_vars /\ ~clash' => Content'
  <1> SUFFICES ASSUME RangeInv, Ordered, [Next]_vars, ~clash' PROVE Content'
    OBVIOUS
  <1> USE DEF RangeInv, TypeOK, Held, Threads, Hook, BeforeMove, Counting, Leaving, Goto, Ordered,
              Ring, Content, Moved, Room, CountIs, Published, Withdrawn
  <1>1. ASSUME NEW t \in Threads, SpinExit(t) PROVE Content'
    BY <1>1 DEF SpinExit
  <1>2. ASSUME NEW t \in Threads, LockDecLoad(t) PROVE Content'
    BY <1>2 DEF LockDecLoad
  <1>3. ASSUME NEW t \in Threads, LockDecStore(t) PROVE Content'
    BY <1>3 DEF LockDecStore
  <1>4. ASSUME NEW t \in Threads, MoveIndex(t) PROVE Content'
    <2>1. CASE t = "kern"
      BY <1>4, <2>1, MoveKern
    <2>2. CASE t = "user"
      <3>1. SUFFICES ASSUME NEW k \in 0 .. recvd' - released' - 1
                     PROVE  slot'[Wrap(out' + k)] = released' + 1 + k
        OBVIOUS
      <3>2. k \in 0 .. GROUP_NUM - 1 /\ k + 1 \in 0 .. recvd - released - 1
        BY <1>4, <2>2, MoveUser
      <3>3. slot[Wrap(out + (k + 1))] = released + 1 + (k + 1)
        BY <3>2
      <3>4. Wrap(out' + k) = Wrap(out + (k + 1))
        BY <1>4, <2>2, <3>2, MoveUser, WrapNext
      <3>5. QED
        BY <1>4, <2>2, <3>3, <3>4, MoveUser
    <2>3. QED
      BY <2>1, <2>2, <1>4
  <1>5. ASSUME NEW t \in Threads, CountLoad(t) PROVE Content'
    BY <1>5 DEF CountLoad
  <1>6. ASSUME NEW t \in Threads, CountStore(t) PROVE Content'
    BY <1>6 DEF CountStore
  <1>7. ASSUME NEW t \in Threads, LockIncLoad(t) PROVE Content'
    BY <1>7 DEF LockIncLoad
  <1>8. ASSUME NEW t \in Threads, LockIncStore(t) PROVE Content'
    BY <1>8 DEF LockIncStore
  <1>9. CASE KernCheck
    BY <1>9 DEF KernCheck
  <1>10. CASE KernTake
    <2>1. /\ pc["kern"] = "take" /\ slot' = [slot EXCEPT ![in] = 0]
          /\ UNCHANGED <<out, recvd, released>>
      BY <1>10 DEF KernTake
    <2>2. QED
      BY <2>1, FillsFree, WrapSlots
  <1>11. CASE Recv
    <2>1. SUFFICES ASSUME NEW k \in 0 .. recvd' - released' - 1
                   PROVE  slot'[Wrap(out' + k)] = released' + 1 + k
      OBVIOUS
    <2>2. /\ pc["kern"] = "recv" /\ nlh["kern"] # NULL /\ nlh["kern"] = in
          /\ slot' = [slot EXCEPT ![in] = recvd + 1] /\ recvd' = recvd + 1
          /\ UNCHANGED <<out, released>>
      BY <1>11 DEF Recv
    <2>3. /\ in = Wrap(out + (recvd - released)) /\ recvd - released \in 0 .. GROUP_NUM - 1
          /\ \A j \in 0 .. recvd - released - 1 : Wrap(out + j) # in
      BY <2>2, FillsFree
    <2>4. CASE k = recvd - released
      BY <2>2, <2>3, <2>4
    <2>5. CASE k # recvd - released
      <3>1. k \in 0 .. recvd - released - 1
        BY <2>2, <2>3, <2>5
      <3>2. slot[Wrap(out + k)] = released + 1 + k /\ Wrap(out + k) # in
        BY <2>3, <3>1
      <3>3. QED
        BY <2>2, <3>2
    <2>6. QED
      BY <2>4, <2>5
  <1>12. CASE RecvNull
    BY <1>12 DEF RecvNull
  <1>13. CASE UserGet
    BY <1>13 DEF UserGet
  <1>14. CASE UserPrint
    BY <1>14 DEF UserPrint
  <1>15. CASE UserSend
    BY <1>15 DEF UserSend
  <1>16. CASE UNCHANGED vars
    BY <1>16 DEF vars
  <1>17. QED
    BY <1>1, <1>2, <1>3, <1>4, <1>5, <1>6, <1>7, <1>8,
       <1>9, <1>10, <1>11, <1>12, <1>13, <1>14, <1>15, <1>16
       DEF Next, KernStep, UserStep, HookStep

LEMMA BehindStep ==
  RangeInv /\ Ordered /\ [Next]_vars /\ ~clash' => Behind'
  <1> SUFFICES ASSUME RangeInv, Ordered, [Next]_vars, ~clash' PROVE Behind'
    OBVIOUS
  <1> USE DEF RangeInv, TypeOK, Held, Threads, Hook, BeforeMove, Counting, Leaving, Goto, Ordered,
              Ring, Content, Behind, Moved, Supply, CountIs, Published, Withdrawn
  <1>1. ASSUME NEW t \in Threads, SpinExit(t) PROVE Behind'
    BY <1>1 DEF SpinExit
  <1>2. ASSUME NEW t \in Threads, LockDecLoad(t) PROVE Behind'
    BY <1>2 DEF LockDecLoad
  <1>3. ASSUME NEW t \in Threads, LockDecStore(t) PROVE Behind'
    BY <1>3 DEF LockDecStore
  <1>4. ASSUME NEW t \in Threads, MoveIndex(t) PROVE Behind'
    <2>1. CASE t = "kern"
      BY <1>4, <2>1, MoveKern
    <2>2. CASE t = "user"
      <3>1. Moved - released \in 1 .. GROUP_NUM /\ nlh["user"] = out
        BY <1>4, <2>2, MoveUser, Occupancy
      <3>2. 0 \in 0 .. recvd - released - 1 /\ Wrap(out + 0) = out
        BY <3>1 DEF Wrap, Slots
      <3>3. slot[out] = released + 1
        BY <3>2
      <3>4. QED
        BY <1>4, <2>2, <3>1, <3>3, MoveUser
    <2>3. QED
      BY <2>1, <2>2, <1>4
  <1>5. ASSUME NEW t \in Threads, CountLoad(t) PROVE Behind'
    BY <1>5 DEF CountLoad
  <1>6. ASSUME NEW t \in Threads, CountStore(t) PROVE Behind'
    BY <1>6 DEF CountStore
  <1>7. ASSUME NEW t \in Threads, LockIncLoad(t) PROVE Behind'
    BY <1>7 DEF LockIncLoad
  <1>8. ASSUME NEW t \in Threads, LockIncStore(t) PROVE Behind'
    BY <1>8 DEF LockIncStore
  <1>9. CASE KernCheck
    BY <1>9 DEF KernCheck
  <1>10. CASE KernTake
    <2>1. /\ pc["kern"] = "take" /\ pc' = [pc EXCEPT !["kern"] = "recv"]
          /\ nlh' = [nlh EXCEPT !["kern"] = in] /\ slot' = [slot EXCEPT ![in] = 0]
          /\ UNCHANGED <<out, recvd, released>>
      BY <1>10 DEF KernTake
    <2>2. QED
      BY <2>1, FillsFree
  <1>11. CASE Recv
    <2>1. /\ pc["kern"] = "recv" /\ pc' = [pc EXCEPT !["kern"] = "spin"]
          /\ nlh["kern"] # NULL /\ nlh["kern"] = in
          /\ slot' = [slot EXCEPT ![in] = recvd + 1] /\ recvd' = recvd + 1
          /\ UNCHANGED <<out, nlh, released>>
      BY <1>11 DEF Recv
    <2>2. QED
      BY <2>1, FillsFree
  <1>12. CASE RecvNull
    BY <1>12 DEF RecvNull
  <1>13. CASE UserGet
    BY <1>13 DEF UserGet
  <1>14. CASE UserPrint
    BY <1>14 DEF UserPrint
  <1>15. CASE UserSend
    BY <1>15 DEF UserSend
  <1>16. CASE UNCHANGED vars
    BY <1>16 DEF vars
  <1>17. QED
    BY <1>1, <1>2, <1>3, <1>4, <1>5, <1>6, <1>7, <1>8,
       <1>9, <1>10, <1>11, <1>12, <1>13, <1>14, <1>15, <1>16
       DEF Next, KernStep, UserStep, HookStep

LEMMA OrderStep == RangeInv /\ OrderInv /\ [Next]_vars => OrderInv'
  <1> SUFFICES ASSUME RangeInv, OrderInv, [Next]_vars, ~clash'
               PROVE  Ordered'
    BY DEF OrderInv
  <1>1. Ordered
    BY ClashStays DEF OrderInv
  <1>2. QED
    BY <1>1, LockStep, CountStep, RingStep, ContentStep, BehindStep DEF Ordered

PoolInv == RangeInv /\ OrderInv

LEMMA PoolInvInit == Init => PoolInv
  BY RangeInit, OrderInit DEF PoolInv

LEMMA PoolInvStep == PoolInv /\ [Next]_vars => PoolInv'
  BY RangeStep, OrderStep DEF PoolInv

LEMMA Inductive == Spec => []PoolInv
  BY PoolInvInit, PoolInvStep, PTL DEF Spec

(***************************************************************************)
(* Until two hooks overlap the lock and the count are exact.               *)
(***************************************************************************)
THEOREM LockCorrect == Spec => []LockExact
  <1>1. PoolInv => LockExact
    BY DEF PoolInv, OrderInv, Ordered, LockIs, LockExact
  <1>2. QED
    BY <1>1, Inductive, PTL

\* Until two hooks overlap pool.useful counts the messages in the ring.
THEOREM CountCorrect == Spec => []ExactCount
  <1>1. PoolInv => ExactCount
    BY DEF PoolInv, OrderInv, Ordered, CountIs, ExactCount
  <1>2. QED
    BY <1>1, Inductive, PTL

\* The buffer main holds is the oldest of the ring, and its content is in order.
LEMMA HeldFromOrder == PoolInv => HeldSlotIntact
  <1> SUFFICES ASSUME RangeInv, Ordered, pc["user"] \in BeforeMove
               PROVE  slot[nlh["user"]] = released + 1
    BY DEF PoolInv, OrderInv, HeldSlotIntact
  <1>1. /\ Moved - released \in 1 .. GROUP_NUM /\ nlh["user"] = out
        /\ out \in Slots /\ recvd \in Nat /\ released \in Nat
    BY Occupancy DEF Ordered, Ring, RangeInv, TypeOK
  <1>2. 0 \in 0 .. recvd - released - 1 /\ Wrap(out + 0) = out
    BY <1>1 DEF Moved, Wrap, Slots
  <1>3. slot[Wrap(out + 0)] = released + 1 + 0
    BY <1>2 DEF Ordered, Content
  <1>4. QED
    BY <1>1, <1>2, <1>3

(***************************************************************************)
(* Until two hooks overlap main is handed every message once, in order,    *)
(* and nobody writes the buffer while main has not given it back.          *)
(***************************************************************************)
THEOREM HeldSlotCorrect == Spec => []HeldSlotIntact
  BY HeldFromOrder, Inductive, PTL

(***************************************************************************)
(* What main prints after giving a buffer back is still its message, as    *)
(* long as the ring has not come within one buffer of full.                *)
(***************************************************************************)
THEOREM PrintCorrect == Spec => []PrintIntact
  <1>1. PoolInv => PrintIntact
    BY DEF PoolInv, OrderInv, Ordered, Behind, PrintIntact
  <1>2. QED
    BY <1>1, Inductive, PTL
-----------------------------------------------------------------------------
(* The pool as a queue *)

LEMMA ModWrap == \A i \in Slots, k \in 0 .. GROUP_NUM - 1 : (i + k) % GROUP_NUM = Wrap(i + k)
  BY DEF Slots, Wrap

\* n consecutive numbers after b, as a queue.
Run(b, n) == [k \in 1 .. n |-> b + k]

LEMMA RunLen ==
  \A b \in Int, n \in Nat : Run(b, n) \in Seq(Int) /\ Len(Run(b, n)) = n
  BY DEF Run

LEMMA RunEmpty == \A b \in Int : Run(b, 0) = <<>>
  BY DEF Run

LEMMA RunAppend ==
  ASSUME NEW b \in Int, NEW n \in Nat
  PROVE  Append(Run(b, n), b + (n + 1)) = Run(b, n + 1)
  <1>1. Run(b, n) \in Seq(Int) /\ Len(Run(b, n)) = n /\ b + (n + 1) \in Int
    BY RunLen
  <1>2. /\ Append(Run(b, n), b + (n + 1)) \in Seq(Int)
        /\ Len(Append(Run(b, n), b + (n + 1))) = n + 1
        /\ \A i \in 1 .. n : Append(Run(b, n), b + (n + 1))[i] = Run(b, n)[i]
        /\ Append(Run(b, n), b + (n + 1))[n + 1] = b + (n + 1)
    BY <1>1, AppendProperties
  <1>3. Run(b, n + 1) \in Seq(Int) /\ Len(Run(b, n + 1)) = n + 1
    BY RunLen
  <1>4. \A i \in 1 .. n + 1 : Append(Run(b, n), b + (n + 1))[i] = Run(b, n + 1)[i]
    BY <1>2 DEF Run
  <1>5. QED
    BY <1>2, <1>3, <1>4, SeqEqual

LEMMA RunTail ==
  ASSUME NEW b \in Int, NEW n \in Nat \ {0}
  PROVE  /\ Run(b, n) # <<>> /\ Head(Run(b, n)) = b + 1
         /\ Tail(Run(b, n)) = Run(b + 1, n - 1)
  <1>1. Run(b, n) \in Seq(Int) /\ Len(Run(b, n)) = n /\ Run(b, n) # <<>>
    BY RunLen, EmptySeq
  <1>2. /\ Head(Run(b, n)) = Run(b, n)[1]
        /\ Tail(Run(b, n)) \in Seq(Int) /\ Len(Tail(Run(b, n))) = n - 1
        /\ \A i \in 1 .. n - 1 : Tail(Run(b, n))[i] = Run(b, n)[i + 1]
    BY <1>1, HeadTailProperties
  <1>3. Run(b + 1, n - 1) \in Seq(Int) /\ Len(Run(b + 1, n - 1)) = n - 1
    BY RunLen
  <1>4. \A i \in 1 .. n - 1 : Tail(Run(b, n))[i] = Run(b + 1, n - 1)[i]
    BY <1>2 DEF Run
  <1>5. Run(b, n)[1] = b + 1
    BY DEF Run
  <1>6. Tail(Run(b, n)) = Run(b + 1, n - 1)
    BY <1>2, <1>3, <1>4, SeqEqual
  <1>7. QED
    BY <1>1, <1>2, <1>5, <1>6

\* What the queue is, until two hooks overlap.
QueueFact ==
  /\ Published \in Int /\ Withdrawn \in Int /\ Withdrawn + 1 \in Nat
  /\ Published - Withdrawn \in 0 .. GROUP_NUM
  /\ useful = Published - Withdrawn
  /\ InRing = Run(Withdrawn, Published - Withdrawn)
  /\ LookedAt = IF pc["user"] \in BeforeMove \cup Counting THEN Withdrawn + 1 ELSE NULL

LEMMA QueueIs == PoolInv /\ ~clash => QueueFact
  <1> SUFFICES ASSUME PoolInv, ~clash, RangeInv, Ordered PROVE QueueFact
    BY DEF PoolInv, OrderInv
  <1>1. /\ useful \in 0 .. GROUP_NUM /\ useful = Published - Withdrawn
        /\ recvd \in Nat /\ released \in Nat /\ out \in Slots
        /\ released <= Moved /\ Moved - released \in 0 .. GROUP_NUM
    BY Occupancy DEF RangeInv, TypeOK, UsefulInRange, Ordered, CountIs, Ring
  <1>2. Published \in Int /\ Withdrawn \in Int /\ Withdrawn + 1 \in Nat /\ Published <= recvd
    BY <1>1 DEF Published, Withdrawn
  <1>3. ASSUME pc["user"] \in Counting
        PROVE  /\ nlh["user"] \in Slots /\ out = Wrap(nlh["user"] + 1)
               /\ slot[nlh["user"]] = released /\ Withdrawn = released - 1
    <2>1. nlh["user"] \in Slots
      BY <1>3 DEF RangeInv, TypeOK, Held, Hook, Threads
    <2>2. QED
      BY <1>1, <1>3, <2>1 DEF Ordered, Behind, Withdrawn
  <1>4. ASSUME pc["user"] \notin Counting PROVE Withdrawn = released
    BY <1>1, <1>4 DEF Withdrawn
  <1>5. ASSUME NEW k \in 1 .. Published - Withdrawn
        PROVE  slot[(Oldest + (k - 1)) % GROUP_NUM] = Withdrawn + k
    <2>1. k \in 1 .. GROUP_NUM /\ k <= recvd - Withdrawn /\ k - 1 \in 0 .. GROUP_NUM - 1
      BY <1>1, <1>2
    <2>2. CASE pc["user"] \notin Counting
      <3>1. k - 1 \in 0 .. recvd - released - 1
        BY <1>1, <1>4, <2>1, <2>2
      <3>2. slot[Wrap(out + (k - 1))] = released + 1 + (k - 1)
        BY <3>1 DEF Ordered, Content
      <3>3. (Oldest + (k - 1)) % GROUP_NUM = Wrap(out + (k - 1))
        BY <1>1, <2>1, <2>2, ModWrap DEF Oldest
      <3>4. QED
        BY <1>1, <1>4, <2>1, <2>2, <3>2, <3>3
    <2>3. CASE pc["user"] \in Counting
      <3>1. (Oldest + (k - 1)) % GROUP_NUM = Wrap(nlh["user"] + (k - 1))
        BY <1>3, <2>1, <2>3, ModWrap DEF Oldest
      <3>2. CASE k = 1
        <4>1. Wrap(nlh["user"] + 0) = nlh["user"]
          BY <1>3, <2>3 DEF Slots, Wrap
        <4>2. QED
          BY <1>1, <1>3, <2>3, <3>1, <3>2, <4>1
      <3>3. CASE k # 1
        <4>1. k - 2 \in 0 .. recvd - released - 1 /\ k - 2 \in 0 .. GROUP_NUM - 1
          BY <1>1, <1>3, <2>1, <2>3, <3>3
        <4>2. slot[Wrap(out + (k - 2))] = released + 1 + (k - 2)
          BY <4>1 DEF Ordered, Content
        <4>3. Wrap(out + (k - 2)) = Wrap(nlh["user"] + (k - 1))
          <5>1. Wrap(Wrap(nlh["user"] + 1) + (k - 2)) = Wrap(nlh["user"] + ((k - 2) + 1))
            BY <1>3, <2>3, <4>1, WrapNext
          <5>2. (k - 2) + 1 = k - 1
            BY <2>1
          <5>3. QED
            BY <1>3, <2>3, <5>1, <5>2
        <4>4. QED
          BY <1>1, <1>3, <2>1, <2>3, <3>1, <4>2, <4>3
      <3>4. QED
        BY <3>2, <3>3
    <2>4. QED
      BY <2>2, <2>3
  <1>6. LookedAt = IF pc["user"] \in BeforeMove \cup Counting THEN Withdrawn + 1 ELSE NULL
    <2>1. CASE pc["user"] \in Counting
      BY <1>1, <1>3, <2>1 DEF LookedAt
    <2>2. CASE pc["user"] \in BeforeMove
      <3>1. pc["user"] \notin Counting /\ slot[nlh["user"]] = released + 1
        BY <2>2, HeldFromOrder DEF HeldSlotIntact, BeforeMove, Counting
      <3>2. QED
        BY <1>4, <2>2, <3>1 DEF LookedAt
    <2>3. QED
      BY <2>1, <2>2 DEF LookedAt
  <1>7. QED
    BY <1>1, <1>2, <1>5, <1>6 DEF QueueFact, InRing, Run

\* The queue is as long as pool.useful says, and its head is the next message.
LEMMA QueueShape ==
  ASSUME QueueFact
  PROVE  /\ useful \in Nat /\ Len(InRing) = useful
         /\ useful = 0 => InRing = <<>>
         /\ useful # 0 => /\ InRing # <<>> /\ Head(InRing) = Withdrawn + 1
                         /\ Tail(InRing) = Run(Withdrawn + 1, useful - 1)
         /\ Append(InRing, Published + 1) = Run(Withdrawn, useful + 1)
  <1>1. /\ useful \in Nat /\ Withdrawn \in Int /\ InRing = Run(Withdrawn, useful)
        /\ Published + 1 = Withdrawn + (useful + 1)
    BY DEF QueueFact
  <1>2. QED
    BY <1>1, RunLen, RunEmpty, RunTail, RunAppend

LEMMA QueueIsNext == PoolInv' /\ ~clash' => QueueFact'
  BY QueueIs, PTL

\* What the two threads are looking at, for the steps that leave it as it is.
Views == <<Published, Withdrawn, pc["user"] \in BeforeMove \cup Counting, pc["user"] = "send",
           ToldFull, clash>>

LEMMA SameQueue ==
  ASSUME QueueFact, QueueFact', UNCHANGED Views
  PROVE  UNCHANGED Fifo!queueVars
  <1>1. InRing' = InRing /\ LookedAt' = LookedAt
    BY DEF Views, QueueFact
  <1>2. QED
    BY <1>1 DEF Views, Fifo!queueVars

LEMMA FifoStart == Init => Fifo!QueueInit
  <1> SUFFICES ASSUME Init PROVE Fifo!QueueInit
    OBVIOUS
  <1>1. QueueFact
    BY PoolInvInit, QueueIs DEF Init
  <1>2. /\ pc["kern"] = "get" /\ pc["user"] = "send" /\ useful = 0 /\ recvd = 0
        /\ clash = FALSE
    BY DEF Init, Threads
  <1>3. Published = 0
    <2>1. Published = 0 - 0
      BY <1>2, Zenon DEF Published, BeforeMove, Counting
    <2>2. QED
      BY <2>1
  <1>4. InRing = <<>>
    BY <1>1, <1>2, QueueShape
  <1>5. LookedAt = NULL
    BY <1>2 DEF LookedAt, BeforeMove, Counting
  <1>6. (pc["user"] = "send") = TRUE /\ ToldFull = FALSE
    BY <1>2 DEF ToldFull
  <1>7. QED
    BY <1>2, <1>3, <1>4, <1>5, <1>6 DEF Fifo!QueueInit

LEMMA FifoStep ==
  PoolInv /\ PoolInv' /\ [Next]_vars => [Fifo!QueueNext]_(Fifo!queueVars)
  <1> SUFFICES ASSUME PoolInv, PoolInv', [Next]_vars, ~clash'
               PROVE  [Fifo!QueueNext]_(Fifo!queueVars)
    BY DEF Fifo!QueueNext
  <1>1. ~clash /\ QueueFact /\ QueueFact' /\ TypeOK
    BY ClashStays, QueueIs, QueueIsNext DEF PoolInv, RangeInv
  <1>2. ASSUME UNCHANGED Views PROVE [Fifo!QueueNext]_(Fifo!queueVars)
    BY <1>1, <1>2, SameQueue
  <1> USE DEF TypeOK, Threads, Slots, Hook, BeforeMove, Counting, Leaving, Goto,
              Published, Withdrawn, ToldFull, Views
  <1>3. ASSUME NEW t \in Threads, SpinExit(t) PROVE UNCHANGED Views
    <2>1. clash \in BOOLEAN /\ clash' \in BOOLEAN
      BY <1>1 DEF PoolInv, RangeInv
    <2>2. clash' = clash
      BY <1>1, <2>1, Zenon
    <2>3. QED
      BY <1>1, <1>3, <2>2 DEF SpinExit
  <1>4. ASSUME NEW t \in Threads, LockDecLoad(t) PROVE UNCHANGED Views
    BY <1>1, <1>4 DEF LockDecLoad
  <1>5. ASSUME NEW t \in Threads, LockDecStore(t) PROVE UNCHANGED Views
    BY <1>1, <1>5 DEF LockDecStore
  <1>6. ASSUME NEW t \in Threads, MoveIndex(t) PROVE UNCHANGED Views
    BY <1>1, <1>6 DEF MoveIndex
  <1>7. ASSUME NEW t \in Threads, CountLoad(t) PROVE UNCHANGED Views
    BY <1>1, <1>7 DEF CountLoad
  <1>8. ASSUME NEW t \in Threads, LockIncLoad(t) PROVE UNCHANGED Views
    BY <1>1, <1>8 DEF LockIncLoad
  <1>9. ASSUME NEW t \in Threads, LockIncStore(t) PROVE UNCHANGED Views
    BY <1>1, <1>9 DEF LockIncStore
  <1>10. ASSUME KernTake PROVE UNCHANGED Views
    BY <1>1, <1>10 DEF KernTake
  <1>11. ASSUME Recv PROVE UNCHANGED Views
    BY <1>1, <1>11 DEF Recv
  <1>12. ASSUME RecvNull PROVE UNCHANGED Views
    BY <1>1, <1>12 DEF RecvNull
  <1>13. ASSUME UserPrint PROVE UNCHANGED Views
    BY <1>1, <1>13 DEF UserPrint
  <1>14. ASSUME UNCHANGED vars PROVE UNCHANGED Views
    BY <1>1, <1>14 DEF vars
  <1>15. CASE CountStore("kern")
    <2>1. /\ Published' = Published + 1 /\ Withdrawn' = Withdrawn
          /\ UNCHANGED <<pc["user"], slot, nlh, clash>>
          /\ ToldFull' = ToldFull
      BY <1>1, <1>15 DEF CountStore
    <2> HIDE DEF Published, Withdrawn
    <2>2. useful \in Nat /\ useful' = useful + 1 /\ useful < GROUP_NUM
      BY <1>1, <2>1 DEF QueueFact
    <2>3. InRing' = Append(InRing, Published + 1)
      BY <1>1, <2>1, <2>2, QueueShape DEF QueueFact
    <2>4. Len(InRing) < GROUP_NUM
      BY <1>1, <2>2, QueueShape
    <2>5. LookedAt' = LookedAt
      BY <1>1, <2>1 DEF QueueFact
    <2>6. Fifo!Add
      BY <2>1, <2>3, <2>4, <2>5 DEF Fifo!Add
    <2>7. QED
      BY <1>1, <2>6 DEF Fifo!QueueNext
  <1>16. CASE CountStore("user")
    <2>1. /\ pc["user"] \in Counting /\ pc'["user"] \notin BeforeMove \cup Counting
          /\ Published' = Published /\ Withdrawn' = Withdrawn + 1
          /\ (pc'["user"] = "send") = (pc["user"] = "send") /\ ToldFull' = ToldFull
      BY <1>1, <1>16 DEF CountStore
    <2> HIDE DEF Published, Withdrawn
    <2>2. useful # 0 /\ useful' = useful - 1
      BY <1>1, <2>1 DEF QueueFact
    <2>3. InRing' = Tail(InRing)
      BY <1>1, <2>1, <2>2, QueueShape DEF QueueFact
    <2>4. LookedAt = Withdrawn + 1 /\ LookedAt' = NULL /\ Withdrawn + 1 # NULL
      BY <1>1, <2>1, <2>2 DEF QueueFact
    <2>5. Fifo!Remove
      BY <1>1, <2>1, <2>3, <2>4 DEF Fifo!Remove
    <2>6. QED
      BY <1>1, <2>5 DEF Fifo!QueueNext
  <1>17. CASE KernCheck
    <2>1. CASE useful # GROUP_NUM
      BY <1>1, <1>2, <1>17, <2>1 DEF KernCheck
    <2>2. CASE useful = GROUP_NUM
      <3>1. ToldFull' = TRUE /\ UNCHANGED <<InRing, Published, LookedAt, pc["user"]>>
        BY <1>1, <1>17, <2>2 DEF KernCheck, QueueFact, PoolInv, RangeInv, Held
      <3>2. Len(InRing) = GROUP_NUM
        BY <1>1, <2>2, QueueShape
      <3>3. Fifo!NoRoom
        BY <3>1, <3>2 DEF Fifo!NoRoom
      <3>4. QED
        BY <1>1, <3>3 DEF Fifo!QueueNext
    <2>3. QED
      BY <2>1, <2>2
  <1>18. CASE UserGet
    <2>1. Published' = Published /\ ToldFull' = ToldFull /\ InRing' = InRing
      BY <1>1, <1>18 DEF UserGet, QueueFact
    <2>2. CASE useful = 0
      <3>1. LookedAt' = LookedAt /\ (pc'["user"] = "send") = TRUE
        BY <1>1, <1>18, <2>2 DEF UserGet, QueueFact
      <3>2. InRing = <<>>
        BY <1>1, <2>2, QueueShape
      <3>3. Fifo!Nothing
        BY <2>1, <3>1, <3>2 DEF Fifo!Nothing
      <3>4. QED
        BY <1>1, <3>3 DEF Fifo!QueueNext
    <2>3. CASE useful # 0
      <3>1. LookedAt' = Withdrawn + 1 /\ (pc'["user"] = "send") = (pc["user"] = "send")
        BY <1>1, <1>18, <2>3 DEF UserGet, QueueFact
      <3>2. InRing # <<>> /\ Head(InRing) = Withdrawn + 1
        BY <1>1, <2>3, QueueShape
      <3>3. Fifo!Look
        BY <2>1, <3>1, <3>2 DEF Fifo!Look
      <3>4. QED
        BY <1>1, <3>3 DEF Fifo!QueueNext
    <2>4. QED
      BY <2>2, <2>3
  <1>19. CASE UserSend
    <2>1. /\ UNCHANGED <<Published, InRing, LookedAt, ToldFull>>
          /\ (pc'["user"] = "send") = FALSE
      BY <1>1, <1>19 DEF UserSend, QueueFact
    <2>2. Fifo!Return
      BY <2>1 DEF Fifo!Return
    <2>3. QED
      BY <1>1, <2>2 DEF Fifo!QueueNext
  <1>20. QED
    BY <1>2, <1>3, <1>4, <1>5, <1>6, <1>7, <1>8, <1>9, <1>10, <1>11, <1>12, <1>13, <1>14,
       <1>15, <1>16, <1>17, <1>18, <1>19
       DEF Next, KernStep, UserStep, HookStep

(***************************************************************************)
(* Until two hooks overlap, the pool is a bounded first-in first-out       *)
(* queue: every message is handed to main once, in the order received and  *)
(* unharmed, and full and empty are reported only when they are true.      *)
(***************************************************************************)
THEOREM PoolImplementsFifo == Spec => ImplementsFifo
  BY FifoStart, FifoStep, Inductive, PTL DEF Spec, ImplementsFifo, Fifo!QueueSpec
-----------------------------------------------------------------------------
(* What an overlap may leave behind *)

\* Nobody is in a hook and the lock says somebody is.
LockLost == lock = 0 /\ ~Inside("kern") /\ ~Inside("user")

Frozen == UNCHANGED <<in, out, useful, lock, released>>

LEMMA LostStays == TypeOK /\ LockLost /\ [Next]_vars => LockLost' /\ Frozen
  <1> SUFFICES ASSUME TypeOK, LockLost, [Next]_vars PROVE LockLost' /\ Frozen
    OBVIOUS
  <1> USE DEF TypeOK, LockLost, Frozen, Inside, Critical, Goto, Threads, Hook, BeforeMove,
              Counting, Leaving
  <1>1. ASSUME NEW t \in Threads, HookStep(t) PROVE FALSE
    BY <1>1 DEF HookStep, SpinExit, LockDecLoad, LockDecStore, MoveIndex, CountLoad, CountStore,
                LockIncLoad, LockIncStore
  <1>2. CASE KernCheck
    BY <1>2 DEF KernCheck
  <1>3. CASE KernTake
    BY <1>3 DEF KernTake
  <1>4. CASE Recv
    BY <1>4 DEF Recv
  <1>5. CASE RecvNull
    BY <1>5 DEF RecvNull
  <1>6. CASE UserGet
    BY <1>6 DEF UserGet
  <1>7. CASE UserPrint
    BY <1>7 DEF UserPrint
  <1>8. CASE UserSend
    BY <1>8 DEF UserSend
  <1>9. CASE UNCHANGED vars
    BY <1>9 DEF vars
  <1>10. QED
    BY <1>1, <1>2, <1>3, <1>4, <1>5, <1>6, <1>7, <1>8, <1>9 DEF Next, KernStep, UserStep, Threads

(***************************************************************************)
(* There is no way back from a lock lost to an overlap (nl_pool.c:60-64,   *)
(* 79-83): once pool.lock is 0 with nobody in a hook, no index moves,      *)
(* nothing is counted and main gives no buffer back, for ever.  It takes   *)
(* an overlap to get there.                                                *)
(***************************************************************************)
THEOREM LostForGood ==
  Spec => [](LockLost => clash /\ [](LockLost) /\ [][Frozen]_vars)
  <1>1. PoolInv => TypeOK
    BY DEF PoolInv, RangeInv
  <1>2. PoolInv /\ LockLost => clash
    BY DEF PoolInv, RangeInv, TypeOK, OrderInv, Ordered, LockIs, LockTaken, LockLost, Inside,
           Critical, Threads, Hook, BeforeMove, Counting, Leaving
  <1>3. QED
    BY <1>1, <1>2, LostStays, Inductive, PTL DEF Spec
=============================================================================
