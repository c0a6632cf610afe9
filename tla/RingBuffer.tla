----------------------------- MODULE RingBuffer -----------------------------
(***************************************************************************)
(* iio/ring/ringbuffer.c: a byte queue in a circular buffer.  The block    *)
(* operations loop over the bytes; an action is one call of a byte         *)
(* operation, or the entry, one turn of the loop, or the return of a block *)
(* operation.  ringbuffer_put writes the bytes behind write_index first    *)
(* and counts them in one assignment at the end.                           *)
(*                                                                         *)
(* All four fields are uint16, and what is stored to them is reduced to    *)
(* that width; an index is incremented as an int before `%`.               *)
(***************************************************************************)
EXTENDS Naturals, Sequences

CONSTANTS
  Byte,      \* the bytes
  Sizes,     \* the values of `size` ringbuffer_init is called with
  MaxLen     \* bound: the length of a block that is put

UINT16_MAX == 65535

ASSUME RingAssumption ==
  /\ Byte # {}
  /\ Sizes \subseteq 0 .. UINT16_MAX
  /\ MaxLen \in 0 .. UINT16_MAX

VARIABLES
  read_index, write_index, buffer_size, useful_size,  \* struct ringbuffer
  buffer,    \* the bytes behind buffer_ptr
  op,        \* the block operation in progress: "none", "get" or "put"
  data,      \* the caller's buffer of that operation
  count,     \* its loop counter
  accepted,  \* the return value of the last putchar or put
  got        \* the byte getchar stored last

fields == <<read_index, write_index, buffer_size, useful_size, buffer>>
vars == <<read_index, write_index, buffer_size, useful_size, buffer,
          op, data, count, accepted, got>>

U16(x) == x % (UINT16_MAX + 1)
Next1(i) == (i + 1) % buffer_size
-----------------------------------------------------------------------------
\* ringbuffer_init; the bytes of the pool are whatever they are.
Init ==
  /\ read_index = 0 /\ write_index = 0
  /\ buffer_size \in Sizes
  /\ useful_size = 0
  /\ \E b \in Byte : buffer = [c \in 0 .. buffer_size - 1 |-> b] /\ got = b
  /\ op = "none" /\ data = <<>> /\ count = 0
  /\ accepted = 0

\* ringbuffer_init on a buffer already in use.
Reinit ==
  /\ op = "none"
  /\ read_index' = 0 /\ write_index' = 0 /\ useful_size' = 0
  /\ buffer_size' \in Sizes
  /\ \E b \in Byte : buffer' = [c \in 0 .. buffer_size' - 1 |-> b]
  /\ UNCHANGED <<op, data, count, accepted, got>>

\* The body of ringbuffer_getchar, which ringbuffer_get calls in its loop.
Getchar ==
  /\ IF useful_size = 0
     THEN UNCHANGED <<got, read_index, useful_size>>
     ELSE /\ got' = buffer[read_index]
          /\ read_index' = Next1(read_index)
          /\ useful_size' = useful_size - 1
  /\ UNCHANGED <<write_index, buffer_size, buffer>>

ringbuffer_getchar ==
  /\ op = "none"
  /\ Getchar
  /\ UNCHANGED <<op, data, count, accepted>>

\* Mutant: one byte is written over the oldest of a full ring.
PutcharNoCheck(ch) ==
  /\ op = "none" /\ buffer_size # 0
  /\ buffer' = [buffer EXCEPT ![write_index] = ch]
  /\ write_index' = Next1(write_index)
  /\ useful_size' = U16(useful_size + 1)
  /\ accepted' = 1
  /\ UNCHANGED <<read_index, buffer_size, op, data, count, got>>

ringbuffer_putchar(ch) ==
  /\ op = "none"
  /\ \/ /\ useful_size = buffer_size
        /\ accepted' = 0
        /\ UNCHANGED fields
     \/ /\ useful_size # buffer_size
        /\ buffer' = [buffer EXCEPT ![write_index] = ch]
        /\ write_index' = Next1(write_index)
        /\ useful_size' = U16(useful_size + 1)
        /\ accepted' = 1
        /\ UNCHANGED <<read_index, buffer_size>>
  /\ UNCHANGED <<op, data, count, got>>

\* Mutant: the loop turns once for every byte of the ring.
GetCallAll ==
  /\ op = "none"
  /\ op' = "get" /\ data' = <<>> /\ count' = buffer_size
  /\ UNCHANGED <<fields, accepted, got>>

\* ringbuffer_get: length = count = useful_size, and so many getchar.
GetCall ==
  /\ op = "none"
  /\ op' = "get" /\ data' = <<>> /\ count' = useful_size
  /\ UNCHANGED <<fields, accepted, got>>

GetByte ==
  /\ op = "get" /\ count # 0
  /\ count' = count - 1
  /\ Getchar
  /\ data' = IF useful_size = 0 THEN data ELSE Append(data, got')
  /\ UNCHANGED <<op, accepted>>

GetReturn ==
  /\ op = "get" /\ count = 0
  /\ op' = "none" /\ data' = <<>>
  /\ UNCHANGED <<fields, count, accepted, got>>

\* Mutant: the commented-out test of line 117: a block is put unless the ring is
\* full, and only as much of it as fits.
PutCallCut(d) ==
  /\ op = "none"
  /\ buffer_size # useful_size
  /\ op' = "put" /\ data' = d
  /\ count' = IF Len(d) < buffer_size - useful_size THEN Len(d) ELSE buffer_size - useful_size
  /\ UNCHANGED <<fields, accepted, got>>

\* ringbuffer_put: a block that does not fit is refused; the MIN below is then its length.
PutCall(d) ==
  /\ op = "none"
  /\ \/ /\ buffer_size - useful_size < Len(d)
        /\ accepted' = 0
        /\ UNCHANGED <<op, data, count>>
     \/ /\ buffer_size - useful_size >= Len(d)
        /\ op' = "put" /\ data' = d /\ count' = Len(d)
        /\ UNCHANGED accepted
  /\ UNCHANGED <<fields, got>>

\* Mutant: the byte is counted here and again on return, as with the
\* ringbuffer_putchar of line 135.
PutByteCounted ==
  /\ op = "put" /\ count # 0
  /\ buffer' = [buffer EXCEPT ![write_index] = data[Len(data) - count + 1]]
  /\ write_index' = Next1(write_index)
  /\ useful_size' = U16(useful_size + 1)
  /\ count' = count - 1
  /\ UNCHANGED <<read_index, buffer_size, op, data, accepted, got>>

PutByte ==
  /\ op = "put" /\ count # 0
  /\ buffer' = [buffer EXCEPT ![write_index] = data[Len(data) - count + 1]]
  /\ write_index' = Next1(write_index)
  /\ count' = count - 1
  /\ UNCHANGED <<read_index, buffer_size, useful_size, op, data, accepted, got>>

PutReturn ==
  /\ op = "put" /\ count = 0
  /\ useful_size' = U16(useful_size + Len(data))
  /\ accepted' = Len(data)
  /\ op' = "none" /\ data' = <<>>
  /\ UNCHANGED <<read_index, write_index, buffer_size, buffer, count, got>>

Next ==
  \/ Reinit
  \/ ringbuffer_getchar
  \/ \E ch \in Byte : ringbuffer_putchar(ch)
  \/ GetCall \/ GetByte \/ GetReturn
  \/ \E n \in 0 .. MaxLen : \E d \in [1 .. n -> Byte] : PutCall(d)
  \/ PutByte \/ PutReturn

Spec == Init /\ [][Next]_vars
-----------------------------------------------------------------------------
RingTypeOK ==
  /\ buffer_size \in Sizes
  /\ useful_size \in 0 .. buffer_size
  /\ read_index \in 0 .. buffer_size /\ write_index \in 0 .. buffer_size
  /\ buffer \in [0 .. buffer_size - 1 -> Byte]
  /\ op \in {"none", "get", "put"}
  /\ data \in Seq(Byte)
  /\ count \in 0 .. UINT16_MAX
  /\ accepted \in 0 .. UINT16_MAX
  /\ got \in Byte

\* ringbuffer_get counts its turns once, on entry: at every turn there are just
\* so many bytes, so that no turn finds the queue empty and the length it
\* returns is the number of bytes it stored.
GetWhole == op = "get" => count = useful_size

\* The cell i places from read_index, which is at most once round.
Cell(i) == IF read_index + i < buffer_size THEN read_index + i ELSE read_index + i - buffer_size

\* What ringbuffer_put has written and not yet counted lies behind what the
\* queue holds, and does not reach round to it.
PutInRoom ==
  op = "put" => /\ useful_size + Len(data) <= buffer_size
                /\ \A j \in 1 .. Len(data) - count :
                     buffer[Cell(useful_size + (j - 1))] = data[j]

(***************************************************************************)
(* The buffer implements the queue of ringbuffer.h: the bytes from         *)
(* read_index on, useful_size of them, are the queue.  A block is put whole*)
(* or not at all, as ringbuffer.c:116 asks, and a byte comes out once, in  *)
(* order, whatever blocks and single bytes went in.                        *)
(***************************************************************************)
Contents == [i \in 1 .. useful_size |-> buffer[Cell(i - 1)]]

Queue == INSTANCE BoundedQueue WITH queue <- Contents, capacity <- buffer_size

ImplementsQueue == Queue!QueueSpec
=============================================================================
