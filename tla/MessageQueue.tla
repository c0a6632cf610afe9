---------------------------- MODULE MessageQueue ----------------------------
(***************************************************************************)
(* What fpga/nl_pool.c offers its two threads: a bounded first-in          *)
(* first-out queue of the messages received.  The consumer looks at the    *)
(* oldest message (user_get_pool), works on it in place and then removes   *)
(* it (user_pool_hook); the producer adds a message it has received        *)
(* (kern_pool_hook).  Either is told when there is nothing, or no room.    *)
(* All this holds as long as nothing has broken the queue's lock.          *)
(***************************************************************************)
EXTENDS Naturals, Sequences

CONSTANTS
  Capacity,  \* messages the queue has room for
  None       \* the consumer looks at no message

VARIABLES
  queue,   \* the numbers of the messages in it, oldest first
  sent,    \* messages added so far, which number them
  held,    \* the message the consumer is looking at
  empty,   \* the consumer was told that there is none
  full,    \* the producer was told that there is no room
  broken   \* the lock did not keep the two apart: nothing is promised

queueVars == <<queue, sent, held, empty, full, broken>>

QueueInit ==
  /\ queue = <<>>
  /\ sent = 0
  /\ held = None
  /\ empty = TRUE
  /\ full = FALSE
  /\ broken = FALSE

Add ==
  /\ Len(queue) < Capacity
  /\ sent' = sent + 1
  /\ queue' = Append(queue, sent')
  /\ UNCHANGED <<held, empty, full>>

NoRoom ==
  /\ Len(queue) = Capacity
  /\ full' = TRUE
  /\ UNCHANGED <<queue, sent, held, empty>>

Look ==
  /\ queue # <<>>
  /\ held' = Head(queue)
  /\ UNCHANGED <<queue, sent, empty, full>>

Remove ==
  /\ held # None
  /\ queue' = Tail(queue)
  /\ held' = None
  /\ UNCHANGED <<sent, empty, full>>

Nothing ==
  /\ queue = <<>>
  /\ empty' = TRUE
  /\ UNCHANGED <<queue, sent, held, full>>

\* The consumer comes back.
Return ==
  /\ empty' = FALSE
  /\ UNCHANGED <<queue, sent, held, full>>

QueueNext ==
  \/ ~broken' /\ (Add \/ NoRoom \/ Look \/ Remove \/ Nothing \/ Return)
  \/ broken'

QueueSpec == QueueInit /\ [][QueueNext]_queueVars
=============================================================================
