---------------------------- MODULE BoundedQueue ----------------------------
(***************************************************************************)
(* What iio/ring/ringbuffer.h promises: a first-in first-out queue of      *)
(* bytes of a fixed capacity.  A block is accepted whole or refused whole; *)
(* bytes come out one at a time in the order they were accepted.           *)
(***************************************************************************)
EXTENDS Naturals, Sequences

CONSTANTS
  Byte,   \* the bytes
  Sizes   \* the capacities a queue may be given

VARIABLES
  queue,     \* the bytes accepted and not yet taken
  capacity,
  accepted,  \* what the last offer was answered: the bytes accepted
  got        \* the byte taken last

queueVars == <<queue, capacity, accepted, got>>

QueueInit ==
  /\ queue = <<>>
  /\ capacity \in Sizes
  /\ accepted = 0
  /\ got \in Byte

Reset ==
  /\ queue' = <<>>
  /\ capacity' \in Sizes
  /\ UNCHANGED <<accepted, got>>

Accept ==
  /\ \E n \in 0 .. capacity - Len(queue) : \E block \in [1 .. n -> Byte] :
       /\ queue' = queue \o block
       /\ accepted' = n
  /\ UNCHANGED <<capacity, got>>

Refuse ==
  /\ accepted' = 0
  /\ UNCHANGED <<queue, capacity, got>>

Take ==
  /\ queue # <<>>
  /\ got' = Head(queue)
  /\ queue' = Tail(queue)
  /\ UNCHANGED <<capacity, accepted>>

QueueNext == Reset \/ Accept \/ Refuse \/ Take

QueueSpec == QueueInit /\ [][QueueNext]_queueVars
=============================================================================
