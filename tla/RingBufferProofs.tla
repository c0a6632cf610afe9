-------------------------- MODULE RingBufferProofs --------------------------
(***************************************************************************)
(* The circular buffer of ringbuffer.c implements the bounded queue, for   *)
(* every size a uint16 can give, every alphabet and every block.           *)
(***************************************************************************)
EXTENDS RingBuffer, SequenceTheorems, TLAPS

-----------------------------------------------------------------------------
(* The invariant *)

\* An index stays within the ring; a ring of no bytes keeps it at 0.
IndexOK(i) == i \in 0 .. buffer_size - 1 \/ (buffer_size = 0 /\ i = 0)

Written == IF op = "put" THEN Len(data) - count ELSE 0

Indices ==
  /\ IndexOK(read_index) /\ IndexOK(write_index)
  /\ write_index = Cell(useful_size + Written)

Counting == op = "put" => count <= Len(data)

RingInv == RingTypeOK /\ Indices /\ Counting /\ GetWhole /\ PutInRoom
-----------------------------------------------------------------------------
(* Arithmetic *)

LEMMA ModSmall == \A n \in Nat \ {0} : \A x \in 0 .. n - 1 : x % n = x
  OBVIOUS

LEMMA ModSucc == \A n \in Nat \ {0} : \A x \in 0 .. n - 1 :
                   (x + 1) % n = IF x + 1 < n THEN x + 1 ELSE 0
  OBVIOUS

LEMMA MaxIsNat == UINT16_MAX \in Nat
  BY DEF UINT16_MAX

LEMMA U16Id == \A x \in 0 .. UINT16_MAX : U16(x) = x
  BY MaxIsNat, ModSmall DEF U16

LEMMA SizesWord == RingTypeOK => buffer_size \in 0 .. UINT16_MAX
  BY RingAssumption, MaxIsNat DEF RingTypeOK

\* The cells of the ring: each is one, the next one follows, and no two of the
\* first buffer_size are the same.
LEMMA Cells ==
  ASSUME buffer_size \in Nat, read_index \in 0 .. buffer_size - 1
  PROVE  /\ \A i \in 0 .. buffer_size : Cell(i) \in 0 .. buffer_size - 1
         /\ \A i \in 0 .. buffer_size - 1 : Next1(Cell(i)) = Cell(i + 1)
         /\ \A i, j \in 0 .. buffer_size - 1 : i # j => Cell(i) # Cell(j)
         /\ Cell(0) = read_index
  <1>1. \A i \in 0 .. buffer_size : Cell(i) \in 0 .. buffer_size - 1
    BY DEF Cell
  <1>2. ASSUME NEW i \in 0 .. buffer_size - 1
        PROVE  Next1(Cell(i)) = Cell(i + 1)
    <2>1. Cell(i) \in 0 .. buffer_size - 1 /\ buffer_size \in Nat \ {0}
      BY <1>1
    <2>2. Next1(Cell(i)) = IF Cell(i) + 1 < buffer_size THEN Cell(i) + 1 ELSE 0
      BY <2>1, ModSucc DEF Next1
    <2>3. QED
      BY <2>2 DEF Cell
  <1>3. \A i, j \in 0 .. buffer_size - 1 : i # j => Cell(i) # Cell(j)
    BY DEF Cell
  <1>4. Cell(0) = read_index
    BY DEF Cell
  <1>5. QED
    BY <1>1, <1>2, <1>3, <1>4
-----------------------------------------------------------------------------
(* The invariant holds *)

LEMMA RingInit == Init => RingInv
  <1> SUFFICES ASSUME Init PROVE RingInv
    OBVIOUS
  <1> USE RingAssumption, MaxIsNat DEF Init
  <1>1. RingTypeOK
    BY DEF RingTypeOK
  <1>2. Indices
    BY DEF Indices, IndexOK, Cell, Written
  <1>3. Counting /\ GetWhole /\ PutInRoom
    BY DEF Counting, GetWhole, PutInRoom
  <1>4. QED
    BY <1>1, <1>2, <1>3 DEF RingInv

\* Taking a byte, outside and inside ringbuffer_get.
LEMMA GetcharIndices ==
  ASSUME RingInv, Getchar, Written = 0, Written' = 0
  PROVE  Indices'
  <1> USE SizesWord, MaxIsNat DEF RingInv, RingTypeOK, Indices, IndexOK, Getchar
  <1>1. CASE useful_size = 0
    BY <1>1 DEF Cell
  <1>2. CASE useful_size # 0
    <2>1. /\ read_index \in 0 .. buffer_size - 1 /\ buffer_size \in Nat \ {0}
          /\ useful_size \in 1 .. buffer_size
      BY <1>2
    <2>2. read_index' = IF read_index + 1 < buffer_size THEN read_index + 1 ELSE 0
      BY <1>2, <2>1, ModSucc DEF Next1
    <2>3. /\ UNCHANGED <<buffer_size, write_index>> /\ useful_size' = useful_size - 1
          /\ write_index = Cell(useful_size)
      BY <1>2, <2>1
    <2>4. write_index' = Cell(useful_size)
      BY <2>3
    <2>5. Cell(useful_size) = IF read_index' + (useful_size - 1) < buffer_size
                              THEN read_index' + (useful_size - 1)
                              ELSE read_index' + (useful_size - 1) - buffer_size
      BY <2>1, <2>2 DEF Cell
    <2>6. write_index' = Cell(useful_size + Written)'
      BY <2>1, <2>2, <2>3, <2>4, <2>5 DEF Cell
    <2>7. QED
      BY <2>1, <2>2, <2>3, <2>6
  <1>3. QED
    BY <1>1, <1>2

\* Writing a byte behind the i that are there, and moving write_index on.
LEMMA WriteNext ==
  ASSUME RingInv, NEW i \in Nat, i < buffer_size, write_index = Cell(i)
  PROVE  /\ write_index \in 0 .. buffer_size - 1
         /\ Next1(write_index) = Cell(i + 1) /\ Next1(write_index) \in 0 .. buffer_size - 1
         /\ \A j \in 0 .. i - 1 : Cell(j) # write_index
  <1>1. buffer_size \in Nat /\ read_index \in 0 .. buffer_size - 1 /\ i \in 0 .. buffer_size - 1
    BY SizesWord, MaxIsNat DEF RingInv, RingTypeOK, Indices, IndexOK
  <1>2. QED
    BY <1>1, Cells

LEMMA SeqOf ==
  ASSUME NEW n \in 0 .. MaxLen, NEW d \in [1 .. n -> Byte]
  PROVE  d \in Seq(Byte) /\ Len(d) = n /\ n \in 0 .. UINT16_MAX
  <1>1. n \in Nat /\ n \in 0 .. UINT16_MAX
    BY RingAssumption, MaxIsNat
  <1>2. d \in Seq(Byte) /\ Len(d) = n
    BY <1>1
  <1>3. QED
    BY <1>1, <1>2

LEMMA NewRing ==
  \A n \in Nat : /\ 0 \in 0 .. n - 1 \/ n = 0
                 /\ 0 = IF 0 + (0 + 0) < n THEN 0 + (0 + 0) ELSE 0 + (0 + 0) - n
  OBVIOUS

LEMMA ReinitStep == RingInv /\ Reinit => RingInv'
  <1> SUFFICES ASSUME RingInv, Reinit PROVE RingInv'
    OBVIOUS
  <1>1. /\ op = "none" /\ op' = "none"
        /\ read_index' = 0 /\ write_index' = 0 /\ useful_size' = 0
        /\ buffer_size' \in Sizes
        /\ UNCHANGED <<data, count, accepted, got>>
    BY DEF Reinit
  <1>2. buffer_size' \in Nat
    BY <1>1, RingAssumption, MaxIsNat
  <1>3. buffer' \in [0 .. buffer_size' - 1 -> Byte]
    <2>1. PICK b \in Byte : buffer' = [c \in 0 .. buffer_size' - 1 |-> b]
      BY DEF Reinit
    <2>2. QED
      BY <2>1
  <1>4. RingTypeOK'
    <2>1. useful_size' \in 0 .. buffer_size'
      BY <1>1, <1>2
    <2>2. read_index' \in 0 .. buffer_size' /\ write_index' \in 0 .. buffer_size'
      BY <1>1, <1>2
    <2>3. /\ op' \in {"none", "get", "put"} /\ data' \in Seq(Byte) /\ count' \in 0 .. UINT16_MAX
          /\ accepted' \in 0 .. UINT16_MAX /\ got' \in Byte
      BY <1>1 DEF RingInv, RingTypeOK
    <2>4. QED
      BY <1>1, <1>3, <2>1, <2>2, <2>3, Zenon DEF RingTypeOK
  <1>5. Indices'
    <2>1. Written' = 0
      BY <1>1 DEF Written
    <2>2. read_index' = 0 /\ write_index' = 0 /\ useful_size' = 0
      BY <1>1
    <2>3. QED
      BY <1>2, <2>1, <2>2, NewRing DEF Indices, IndexOK, Cell
  <1>6. (Counting /\ GetWhole /\ PutInRoom)'
    BY <1>1 DEF Counting, GetWhole, PutInRoom
  <1>7. QED
    BY <1>4, <1>5, <1>6 DEF RingInv

LEMMA RingStep == RingInv /\ [Next]_vars => RingInv'
  <1> SUFFICES ASSUME RingInv, [Next]_vars PROVE RingInv'
    OBVIOUS
  <1> USE RingAssumption, MaxIsNat, SizesWord DEF RingInv, RingTypeOK, Indices, IndexOK,
              Counting, GetWhole, PutInRoom, Written, fields
  <1>1. CASE Reinit
    BY <1>1, ReinitStep
  <1>2. CASE ringbuffer_getchar
    <2>1. RingTypeOK'
      BY <1>2, U16Id DEF ringbuffer_getchar, Getchar, Next1
    <2>2. Indices'
      <3>1. Written = 0 /\ Written' = 0 /\ Getchar
        BY <1>2 DEF ringbuffer_getchar
      <3>2. QED
        BY <3>1, GetcharIndices
    <2>3. Counting' /\ GetWhole'
      BY <1>2 DEF ringbuffer_getchar, Getchar
    <2>4. PutInRoom'
      BY <1>2 DEF ringbuffer_getchar, Getchar, Cell
    <2>5. QED
      BY <2>1, <2>2, <2>3, <2>4
  <1>3. CASE GetCall
    <2>1. RingTypeOK'
      BY <1>3, U16Id DEF GetCall, Next1
    <2>2. Indices'
      BY <1>3, ModSucc, U16Id DEF GetCall, Next1, Cell
    <2>3. Counting' /\ GetWhole'
      BY <1>3 DEF GetCall
    <2>4. PutInRoom'
      BY <1>3 DEF GetCall, Cell
    <2>5. QED
      BY <2>1, <2>2, <2>3, <2>4
  <1>4. CASE GetByte
    <2>1. RingTypeOK'
      BY <1>4, U16Id DEF GetByte, Getchar, Next1
    <2>2. Indices'
      <3>1. Written = 0 /\ Written' = 0 /\ Getchar
        BY <1>4 DEF GetByte
      <3>2. QED
        BY <3>1, GetcharIndices
    <2>3. Counting' /\ GetWhole'
      BY <1>4 DEF GetByte, Getchar
    <2>4. PutInRoom'
      BY <1>4 DEF GetByte, Getchar, Cell
    <2>5. QED
      BY <2>1, <2>2, <2>3, <2>4
  <1>5. CASE GetReturn
    <2>1. RingTypeOK'
      BY <1>5, U16Id DEF GetReturn, Next1
    <2>2. Indices'
      BY <1>5, ModSucc, U16Id DEF GetReturn, Next1, Cell
    <2>3. Counting' /\ GetWhole'
      BY <1>5 DEF GetReturn
    <2>4. PutInRoom'
      BY <1>5 DEF GetReturn, Cell
    <2>5. QED
      BY <2>1, <2>2, <2>3, <2>4
  <1>6. CASE PutByte
    <2> DEFINE i == useful_size + (Len(data) - count)
    <2>1. /\ i \in Nat /\ i < buffer_size /\ write_index = Cell(i) /\ count \in Nat \ {0}
          /\ useful_size \in Nat /\ Len(data) \in Nat /\ buffer_size \in Nat
          /\ read_index \in 0 .. buffer_size - 1
      BY <1>6 DEF PutByte
    <2>2. /\ write_index \in 0 .. buffer_size - 1
          /\ write_index' = Cell(i + 1) /\ write_index' \in 0 .. buffer_size - 1
          /\ \A j \in 0 .. i - 1 : Cell(j) # write_index
      BY <1>6, <2>1, WriteNext DEF PutByte
    <2> HIDE DEF i
    <2>3. /\ op = "put" /\ op' = "put" /\ count' = count - 1
          /\ buffer' = [buffer EXCEPT ![write_index] = data[Len(data) - count + 1]]
          /\ UNCHANGED <<read_index, buffer_size, useful_size, data, accepted, got>>
      BY <1>6 DEF PutByte
    <2>4. data[Len(data) - count + 1] \in Byte
      BY <2>1, <2>3
    <2>5. RingTypeOK'
      BY <2>1, <2>2, <2>3, <2>4
    <2>6. Indices'
      <3>1. useful_size' + Written' = i + 1
        BY <2>1, <2>3 DEF i
      <3>2. QED
        BY <2>1, <2>2, <2>3, <3>1 DEF Cell
    <2>7. Counting' /\ GetWhole'
      BY <2>1, <2>3
    <2>8. PutInRoom'
      <3>1. SUFFICES ASSUME NEW j \in 1 .. Len(data) - count + 1
                     PROVE  buffer'[Cell(useful_size + (j - 1))] = data[j]
        BY <2>1, <2>3 DEF Cell
      <3>2. CASE j = Len(data) - count + 1
        <4>1. Cell(useful_size + (j - 1)) = write_index
          BY <2>1, <3>2 DEF i
        <4>2. QED
          BY <2>2, <2>3, <3>2, <4>1
      <3>3. CASE j # Len(data) - count + 1
        <4>1. j \in 1 .. Len(data) - count
          BY <2>1, <3>3
        <4>2. useful_size + (j - 1) \in 0 .. i - 1
          BY <2>1, <4>1 DEF i
        <4>3. Cell(useful_size + (j - 1)) # write_index
          BY <2>2, <4>2
        <4>4. buffer[Cell(useful_size + (j - 1))] = data[j]
          BY <2>3, <4>1
        <4>5. Cell(useful_size + (j - 1)) \in 0 .. buffer_size - 1
          <5>1. useful_size + (j - 1) \in 0 .. buffer_size
            BY <2>1, <4>2
          <5>2. QED
            BY <2>1, <5>1, Cells
        <4>6. QED
          BY <2>3, <4>3, <4>4, <4>5
      <3>4. QED
        BY <3>2, <3>3
    <2>9. QED
      BY <2>5, <2>6, <2>7, <2>8
  <1>7. CASE PutReturn
    <2>1. RingTypeOK'
      BY <1>7, U16Id DEF PutReturn, Next1
    <2>2. Indices'
      BY <1>7, ModSucc, U16Id DEF PutReturn, Next1, Cell
    <2>3. Counting' /\ GetWhole'
      BY <1>7 DEF PutReturn
    <2>4. PutInRoom'
      BY <1>7 DEF PutReturn, Cell
    <2>5. QED
      BY <2>1, <2>2, <2>3, <2>4
  <1>8. ASSUME NEW ch \in Byte, ringbuffer_putchar(ch) PROVE RingInv'
    <2>1. CASE useful_size = buffer_size
      BY <1>8, <2>1 DEF ringbuffer_putchar, Cell
    <2>2. CASE useful_size # buffer_size
      <3>1. useful_size \in Nat /\ useful_size < buffer_size /\ buffer_size <= UINT16_MAX
        BY <2>2
      <3>2. /\ op = "none" /\ op' = "none"
            /\ buffer' = [buffer EXCEPT ![write_index] = ch]
            /\ write_index' = Next1(write_index) /\ accepted' = 1
            /\ useful_size' = U16(useful_size + 1)
            /\ UNCHANGED <<read_index, buffer_size, data, count, got>>
        BY <1>8, <2>2 DEF ringbuffer_putchar
      <3>3. useful_size' = useful_size + 1
        BY <3>1, <3>2, U16Id
      <3>4. write_index = Cell(useful_size)
        BY <3>1, <3>2
      <3>5. write_index' = Cell(useful_size + 1) /\ write_index' \in 0 .. buffer_size - 1
        BY <3>1, <3>2, <3>4, WriteNext
      <3>6. RingTypeOK'
        BY <1>8, <3>1, <3>2, <3>3, <3>5
      <3>7. Indices'
        <4>1. IndexOK(read_index)' /\ IndexOK(write_index)'
          BY <3>2, <3>5
        <4>2. useful_size' + Written' = useful_size + 1
          BY <3>1, <3>2, <3>3
        <4>3. write_index' = Cell(useful_size + Written)'
          BY ONLY <3>2, <3>5, <4>2 DEF Cell
        <4>4. QED
          BY ONLY <4>1, <4>3 DEF Indices
      <3>8. QED
        BY <3>2, <3>6, <3>7
    <2>3. QED
      BY <2>1, <2>2
  <1>9. ASSUME NEW n \in 0 .. MaxLen, NEW d \in [1 .. n -> Byte], PutCall(d) PROVE RingInv'
    <2>1. CASE buffer_size - useful_size < Len(d)
      BY <1>9, <2>1, SeqOf DEF PutCall, Cell
    <2>2. CASE buffer_size - useful_size >= Len(d)
      <3>1. d \in Seq(Byte) /\ Len(d) \in 0 .. UINT16_MAX
        BY SeqOf
      <3>2. /\ op = "none" /\ op' = "put" /\ data' = d /\ count' = Len(d)
            /\ UNCHANGED <<read_index, write_index, buffer_size, useful_size, buffer, got>>
            /\ UNCHANGED accepted
        BY <1>9, <2>2, <3>1 DEF PutCall
      <3>3. RingTypeOK'
        BY <3>1, <3>2
      <3>4. Indices' /\ Counting' /\ GetWhole'
        BY <3>1, <3>2 DEF Cell
      <3>5. PutInRoom'
        BY <2>2, <3>1, <3>2
      <3>6. QED
        BY <3>3, <3>4, <3>5
    <2>3. Len(d) \in Nat /\ buffer_size - useful_size \in Int
      BY SeqOf
    <2>4. QED
      BY ONLY <2>1, <2>2, <2>3
  <1>10. CASE UNCHANGED vars
    BY <1>10 DEF vars, Cell
  <1>11. QED
    BY <1>1, <1>2, <1>3, <1>4, <1>5, <1>6, <1>7, <1>8, <1>9, <1>10 DEF Next

LEMMA Inductive == Spec => []RingInv
  BY RingInit, RingStep, PTL DEF Spec

(***************************************************************************)
(* ringbuffer_put never runs into the bytes that are there.                *)
(***************************************************************************)
THEOREM RingCorrect == Spec => []PutInRoom
  <1>1. RingInv => PutInRoom
    BY DEF RingInv
  <1>2. QED
    BY <1>1, Inductive, PTL

\* A get that has checked the count never runs out of bytes in its loop.
THEOREM GetIsWhole == Spec => []GetWhole
  <1>1. RingInv => GetWhole
    BY DEF RingInv
  <1>2. QED
    BY <1>1, Inductive, PTL

\* The indices stay in the buffer and the count within its size.
THEOREM RingTypes == Spec => []RingTypeOK
  <1>1. RingInv => RingTypeOK
    BY DEF RingInv
  <1>2. QED
    BY <1>1, Inductive, PTL
-----------------------------------------------------------------------------
(* The refinement *)

\* What the queue is, as a sequence.
ContentsFact ==
  /\ Contents \in Seq(Byte) /\ Len(Contents) = useful_size
  /\ \A i \in 1 .. useful_size : Contents[i] = buffer[Cell(i - 1)]

LEMMA ContentsIs == RingInv => ContentsFact
  <1> SUFFICES ASSUME RingInv PROVE ContentsFact
    OBVIOUS
  <1>1. /\ buffer_size \in Nat /\ useful_size \in 0 .. buffer_size
        /\ buffer \in [0 .. buffer_size - 1 -> Byte]
        /\ buffer_size # 0 => read_index \in 0 .. buffer_size - 1
    BY SizesWord, MaxIsNat DEF RingInv, RingTypeOK, Indices, IndexOK
  <1>2. \A i \in 1 .. useful_size : buffer[Cell(i - 1)] \in Byte
    <2>1. SUFFICES ASSUME NEW i \in 1 .. useful_size PROVE buffer[Cell(i - 1)] \in Byte
      OBVIOUS
    <2>2. i - 1 \in 0 .. buffer_size /\ buffer_size # 0
      BY <1>1
    <2>3. Cell(i - 1) \in 0 .. buffer_size - 1
      BY <1>1, <2>2, Cells
    <2>4. QED
      BY <1>1, <2>3
  <1>3. Contents \in [1 .. useful_size -> Byte] /\ useful_size \in Nat
    BY <1>1, <1>2 DEF Contents
  <1>4. QED
    BY <1>3 DEF Contents, ContentsFact

LEMMA ContentsIsNext == RingInv' => ContentsFact'
  BY ContentsIs, PTL

LEMMA SameContents ==
  ASSUME RingInv, UNCHANGED <<read_index, buffer_size, useful_size, buffer>>
  PROVE  Contents' = Contents
  BY DEF Contents, Cell

LEMMA EmptyContents ==
  ASSUME RingInv, useful_size = 0
  PROVE  Contents = <<>>
  BY ContentsIs, EmptySeq DEF ContentsFact

LEMMA QueueStart == Init => Queue!QueueInit
  <1> SUFFICES ASSUME Init PROVE Queue!QueueInit
    OBVIOUS
  <1>1. Contents = <<>>
    BY RingInit, EmptyContents DEF Init
  <1>2. buffer_size \in Sizes /\ accepted = 0 /\ got \in Byte
    BY RingInit DEF Init, RingInv, RingTypeOK
  <1>3. QED
    BY <1>1, <1>2 DEF Queue!QueueInit

\* A byte taken is the head of the queue.
LEMMA TakeStep ==
  ASSUME RingInv, RingInv', Getchar, useful_size # 0
  PROVE  Contents # <<>> /\ got' = Head(Contents) /\ Contents' = Tail(Contents)
  <1>1. /\ buffer_size \in Nat \ {0} /\ useful_size \in 1 .. buffer_size
        /\ read_index \in 0 .. buffer_size - 1
    BY SizesWord, MaxIsNat DEF RingInv, RingTypeOK, Indices, IndexOK
  <1>2. /\ got' = buffer[read_index]
        /\ read_index' = IF read_index + 1 < buffer_size THEN read_index + 1 ELSE 0
        /\ useful_size' = useful_size - 1
        /\ UNCHANGED <<buffer_size, buffer>>
    BY <1>1, ModSucc DEF Getchar, Next1
  <1>3. Contents \in Seq(Byte) /\ Len(Contents) = useful_size /\ Contents # <<>>
    BY <1>1, ContentsIs, EmptySeq DEF ContentsFact
  <1>4. got' = Head(Contents)
    <2>1. Contents[1] = buffer[Cell(1 - 1)]
      BY <1>1, ContentsIs DEF ContentsFact
    <2>2. Cell(1 - 1) = read_index
      BY <1>1 DEF Cell
    <2>3. QED
      BY <1>2, <1>3, <2>1, <2>2
  <1>5. /\ Contents' \in Seq(Byte) /\ Len(Contents') = useful_size - 1
        /\ \A i \in 1 .. useful_size - 1 : Contents'[i] = buffer[Cell(i - 1)']
    BY <1>2, ContentsIsNext DEF ContentsFact
  <1>6. /\ Tail(Contents) \in Seq(Byte) /\ Len(Tail(Contents)) = useful_size - 1
        /\ \A i \in 1 .. useful_size - 1 : Tail(Contents)[i] = Contents[i + 1]
    BY <1>3, HeadTailProperties
  <1>7. ASSUME NEW i \in 1 .. useful_size - 1
        PROVE  Contents'[i] = Tail(Contents)[i]
    <2>1. Cell(i - 1)' = Cell((i + 1) - 1)
      BY <1>1, <1>2 DEF Cell
    <2>2. Contents[i + 1] = buffer[Cell((i + 1) - 1)]
      BY <1>1, ContentsIs DEF ContentsFact
    <2>3. QED
      BY <1>5, <1>6, <2>1, <2>2
  <1>8. Contents' = Tail(Contents)
    BY <1>1, <1>5, <1>6, <1>7, SeqEqual
  <1>9. QED
    BY <1>3, <1>4, <1>8

\* A block that is in place behind the queue, once it is counted, is appended.
LEMMA AcceptStep ==
  ASSUME RingInv, RingInv', NEW block \in Seq(Byte),
         UNCHANGED <<read_index, buffer_size, got>>,
         useful_size' = useful_size + Len(block), accepted' = Len(block),
         \A i \in 0 .. useful_size - 1 : buffer'[Cell(i)] = buffer[Cell(i)],
         \A j \in 1 .. Len(block) : buffer'[Cell(useful_size + (j - 1))] = block[j]
  PROVE  Queue!Accept
  <1>1. /\ useful_size \in Nat /\ useful_size' \in Nat /\ Len(block) \in Nat
        /\ buffer_size \in Nat /\ useful_size' <= buffer_size
        /\ block \in [1 .. Len(block) -> Byte]
    BY SizesWord, MaxIsNat, LenProperties DEF RingInv, RingTypeOK
  <1>2. /\ Contents \in Seq(Byte) /\ Len(Contents) = useful_size
        /\ \A i \in 1 .. useful_size : Contents[i] = buffer[Cell(i - 1)]
    BY ContentsIs DEF ContentsFact
  <1>3. /\ Contents' \in Seq(Byte) /\ Len(Contents') = useful_size + Len(block)
        /\ \A i \in 1 .. useful_size + Len(block) : Contents'[i] = buffer'[Cell(i - 1)]
    <2>1. /\ Contents' \in Seq(Byte) /\ Len(Contents') = useful_size'
          /\ \A i \in 1 .. useful_size' : Contents'[i] = buffer'[Cell(i - 1)']
      BY ContentsIsNext DEF ContentsFact
    <2>2. \A i \in 1 .. useful_size' : Cell(i - 1)' = Cell(i - 1)
      BY DEF Cell
    <2>3. QED
      BY <2>1, <2>2
  <1>4. /\ Contents \o block \in Seq(Byte)
        /\ Len(Contents \o block) = useful_size + Len(block)
        /\ \A i \in 1 .. useful_size + Len(block) : (Contents \o block)[i] =
             IF i <= useful_size THEN Contents[i] ELSE block[i - useful_size]
    BY <1>2, ConcatProperties
  <1>5. ASSUME NEW i \in 1 .. useful_size + Len(block)
        PROVE  Contents'[i] = (Contents \o block)[i]
    <2>1. CASE i <= useful_size
      <3>1. i \in 1 .. useful_size /\ i - 1 \in 0 .. useful_size - 1
        BY <1>1, <2>1
      <3>2. QED
        BY <1>2, <1>3, <1>4, <2>1, <3>1
    <2>2. CASE i > useful_size
      <3>1. /\ i - useful_size \in 1 .. Len(block)
            /\ useful_size + ((i - useful_size) - 1) = i - 1
        BY <1>1, <2>2
      <3>2. buffer'[Cell(i - 1)] = block[i - useful_size]
        BY <3>1
      <3>3. QED
        BY <1>1, <1>3, <1>4, <2>2, <3>2
    <2>3. i \in Nat
      BY <1>1
    <2>4. i <= useful_size \/ i > useful_size
      BY <1>1, <2>3
    <2>5. QED
      BY <2>1, <2>2, <2>4
  <1>6. Contents' = Contents \o block
    BY <1>3, <1>4, <1>5, SeqEqual
  <1>7. Len(block) \in 0 .. buffer_size - Len(Contents)
    BY <1>1, <1>2
  <1>8. QED
    BY <1>1, <1>6, <1>7 DEF Queue!Accept

\* What ringbuffer_put writes is not part of the queue yet.
LEMMA PutByteKeeps ==
  ASSUME RingInv, PutByte
  PROVE  Contents' = Contents
  <1> DEFINE k == useful_size + (Len(data) - count)
  <1>1. /\ k \in Nat /\ k < buffer_size /\ write_index = Cell(k) /\ useful_size <= k
        /\ useful_size \in Nat /\ buffer_size \in Nat
        /\ buffer \in [0 .. buffer_size - 1 -> Byte]
        /\ read_index \in 0 .. buffer_size - 1
    BY SizesWord, MaxIsNat DEF PutByte, RingInv, RingTypeOK, Indices, IndexOK, Counting,
       PutInRoom, Written
  <1>2. \A j \in 0 .. k - 1 : Cell(j) # write_index
    BY <1>1, WriteNext
  <1>3. /\ buffer' = [buffer EXCEPT ![write_index] = data[Len(data) - count + 1]]
        /\ UNCHANGED <<read_index, buffer_size, useful_size>>
    BY DEF PutByte
  <1> HIDE DEF k
  <1>4. ASSUME NEW i \in 1 .. useful_size
        PROVE  buffer'[Cell(i - 1)'] = buffer[Cell(i - 1)]
    <2>1. i - 1 \in 0 .. k - 1 /\ i - 1 \in 0 .. buffer_size
      BY <1>1
    <2>2. Cell(i - 1) \in 0 .. buffer_size - 1 /\ Cell(i - 1) # write_index
      BY <1>1, <1>2, <2>1, Cells
    <2>3. Cell(i - 1)' = Cell(i - 1)
      BY <1>3 DEF Cell
    <2>4. QED
      BY <1>1, <1>3, <2>2, <2>3
  <1>5. QED
    BY <1>3, <1>4 DEF Contents

LEMMA QueueStep == RingInv /\ RingInv' /\ [Next]_vars => [Queue!QueueNext]_(Queue!queueVars)
  <1> SUFFICES ASSUME RingInv, RingInv', [Next]_vars
               PROVE  Queue!QueueNext \/ UNCHANGED <<Contents, buffer_size, accepted, got>>
    BY DEF Queue!queueVars
  <1>1. CASE Reinit
    <2>1. Contents' = <<>>
      <3>1. useful_size' = 0
        BY <1>1 DEF Reinit
      <3>2. Contents' \in Seq(Byte) /\ Len(Contents') = 0
        BY <3>1, ContentsIsNext DEF ContentsFact
      <3>3. QED
        BY <3>2, EmptySeq
    <2>2. QED
      BY <1>1, <2>1 DEF Reinit, Queue!QueueNext, Queue!Reset
  <1>2. ASSUME Getchar, UNCHANGED accepted
        PROVE  Queue!Take \/ UNCHANGED <<Contents, buffer_size, accepted, got>>
    <2>1. CASE useful_size = 0
      BY <1>2, <2>1, SameContents DEF Getchar
    <2>2. CASE useful_size # 0
      BY <1>2, <2>2, TakeStep DEF Getchar, Queue!Take
    <2>3. QED
      BY <2>1, <2>2
  <1>3. CASE ringbuffer_getchar \/ GetByte
    BY <1>2, <1>3 DEF ringbuffer_getchar, GetByte, Queue!QueueNext
  <1>4. CASE GetCall \/ GetReturn
    BY <1>4, SameContents DEF GetCall, GetReturn, fields
  <1>5. ASSUME NEW ch \in Byte, ringbuffer_putchar(ch)
        PROVE  Queue!Accept \/ Queue!Refuse
    <2>1. CASE useful_size = buffer_size
      BY <1>5, <2>1, SameContents DEF ringbuffer_putchar, fields, Queue!Refuse
    <2>2. CASE useful_size # buffer_size
      <3>1. /\ useful_size \in Nat /\ useful_size < buffer_size /\ buffer_size <= UINT16_MAX
            /\ buffer_size \in Nat /\ buffer \in [0 .. buffer_size - 1 -> Byte]
        BY <2>2, SizesWord, MaxIsNat DEF RingInv, RingTypeOK
      <3>2. /\ op = "none"
            /\ buffer' = [buffer EXCEPT ![write_index] = ch] /\ accepted' = 1
            /\ useful_size' = U16(useful_size + 1)
            /\ UNCHANGED <<read_index, buffer_size, got>>
        BY <1>5, <2>2 DEF ringbuffer_putchar
      <3>3. useful_size' = useful_size + 1
        BY <3>1, <3>2, MaxIsNat, U16Id
      <3>4. write_index = Cell(useful_size)
        BY <3>1, <3>2 DEF RingInv, Indices, Written
      <3>5. /\ write_index \in 0 .. buffer_size - 1
            /\ \A j \in 0 .. useful_size - 1 : Cell(j) # write_index
        BY <3>1, <3>4, WriteNext
      <3>6. <<ch>> \in Seq(Byte) /\ Len(<<ch>>) = 1 /\ <<ch>>[1] = ch
        OBVIOUS
      <3>7. \A i \in 0 .. useful_size - 1 : buffer'[Cell(i)] = buffer[Cell(i)]
        <4>1. read_index \in 0 .. buffer_size - 1
          BY <3>1 DEF RingInv, Indices, IndexOK
        <4>2. \A i \in 0 .. buffer_size : Cell(i) \in 0 .. buffer_size - 1
          BY <3>1, <4>1, Cells
        <4>3. \A i \in 0 .. useful_size - 1 : i \in 0 .. buffer_size
          BY <3>1
        <4>4. QED
          BY <3>1, <3>2, <3>5, <4>2, <4>3
      <3>8. \A j \in 1 .. Len(<<ch>>) : buffer'[Cell(useful_size + (j - 1))] = <<ch>>[j]
        <4>1. SUFFICES buffer'[Cell(useful_size + (1 - 1))] = ch
          BY <3>6
        <4>2. useful_size + (1 - 1) = useful_size
          BY <3>1
        <4>3. QED
          BY <3>1, <3>2, <3>4, <3>5, <4>2
      <3>9. QED
        BY <3>2, <3>3, <3>6, <3>7, <3>8, AcceptStep
    <2>3. QED
      BY <2>1, <2>2
  <1>6. ASSUME NEW n \in 0 .. MaxLen, NEW d \in [1 .. n -> Byte], PutCall(d)
        PROVE  Queue!Refuse \/ UNCHANGED <<Contents, buffer_size, accepted, got>>
    BY <1>6, SameContents DEF PutCall, fields, Queue!Refuse
  <1>7. CASE PutByte
    BY <1>7, PutByteKeeps DEF PutByte
  <1>8. CASE PutReturn
    <2>1. /\ op = "put" /\ count = 0 /\ accepted' = Len(data)
          /\ useful_size' = U16(useful_size + Len(data))
          /\ UNCHANGED <<read_index, buffer_size, buffer, got>>
      BY <1>8 DEF PutReturn
    <2>2. /\ data \in Seq(Byte) /\ Len(data) \in Nat /\ useful_size \in Nat
          /\ useful_size + Len(data) <= buffer_size /\ buffer_size \in 0 .. UINT16_MAX
          /\ \A j \in 1 .. Len(data) - count : buffer[Cell(useful_size + (j - 1))] = data[j]
      BY <2>1, SizesWord, MaxIsNat DEF RingInv, RingTypeOK, PutInRoom
    <2>3. useful_size' = useful_size + Len(data)
      BY <2>1, <2>2, MaxIsNat, U16Id
    <2>4. \A j \in 1 .. Len(data) : buffer'[Cell(useful_size + (j - 1))] = data[j]
      BY <2>1, <2>2
    <2>5. Queue!Accept
      BY <2>1, <2>2, <2>3, <2>4, AcceptStep
    <2>6. QED
      BY <2>5 DEF Queue!QueueNext
  <1>9. CASE UNCHANGED vars
    BY <1>9, SameContents DEF vars
  <1>10. QED
    BY <1>1, <1>3, <1>4, <1>5, <1>6, <1>7, <1>8, <1>9 DEF Next, Queue!QueueNext

(***************************************************************************)
(* ringbuffer.c implements the bounded queue.                              *)
(***************************************************************************)
THEOREM RingImplementsQueue == Spec => ImplementsQueue
  BY QueueStep, Inductive, QueueStart, PTL DEF Spec, ImplementsQueue, Queue!QueueSpec
=============================================================================
