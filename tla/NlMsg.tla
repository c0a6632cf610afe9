------------------------------- MODULE NlMsg -------------------------------
(***************************************************************************)
(* fpga/nl_msg.c: one netlink socket and one static `struct msghdr`, whose *)
(* single iovec nl_msg_send and nl_msg_recv both fill before they call the *)
(* kernel.  An action here is one access to that shared state; the program *)
(* counter of the calling thread is FpgaTest's.                            *)
(*                                                                         *)
(* A buffer is known by its name: the index of a pool buffer, SBUF for the *)
(* message nl_msg_send allocates, WILD for what malloc left in the iovec.  *)
(* A length is known by the buffer it was computed for.                    *)
(***************************************************************************)
EXTENDS Integers

CONSTANTS
  SBUF,   \* the buffer nl_msg_send allocates for the message it sends
  WILD    \* the uninitialised contents of a new iovec

ASSUME MsgAssumption == SBUF # WILD

VARIABLES
  iov,     \* sk.msg.msg_iov: "null", or the iovec it points to is "live" or "freed"
  fdOpen,  \* sk.fd is an open socket
  base,    \* sk.msg.msg_iov->iov_base
  len,     \* sk.msg.msg_iov->iov_len
  rx       \* the iovec that the recvmsg in progress copied when it was called

skVars == <<iov, fdOpen, base, len, rx>>

Lengths == {"send", "pool", "wild"}

MsgInit ==
  /\ iov = "null" /\ fdOpen = FALSE
  /\ base = WILD /\ len = "wild"
  /\ rx = [base |-> WILD, len |-> "wild"]

\* nlmsg_init: open the socket (an error from bind is ignored); allocate the iovec.
OpenSocket ==
  /\ fdOpen' = TRUE
  /\ UNCHANGED <<iov, base, len, rx>>

AllocIov ==
  /\ iov' = "live"
  /\ base' = WILD /\ len' = "wild"
  /\ UNCHANGED <<fdOpen, rx>>

\* sk.msg.msg_iov->iov_base = b, iov_len = l
StoreBase(b) ==
  /\ base' = b
  /\ UNCHANGED <<iov, fdOpen, len, rx>>

\* Mutant: nl_msg_recv leaves the length of the last message sent.
StoreLenSendOnly(l) ==
  /\ len' = IF l = "send" THEN l ELSE len
  /\ UNCHANGED <<iov, fdOpen, base, rx>>

StoreLen(l) ==
  /\ len' = l
  /\ UNCHANGED <<iov, fdOpen, base, rx>>

\* recvmsg copies the iovec on entry and then waits.
RecvmsgEnter ==
  /\ fdOpen
  /\ rx' = [base |-> base, len |-> len]
  /\ UNCHANGED <<iov, fdOpen, base, len>>

\* nlmsg_close: free the iovec; close the socket; memset(&sk, 0).
FreeIov ==
  /\ iov' = "freed"
  /\ UNCHANGED <<fdOpen, base, len, rx>>

CloseFd ==
  /\ fdOpen' = FALSE
  /\ UNCHANGED <<iov, base, len, rx>>

ClearSk ==
  /\ iov' = "null"
  /\ UNCHANGED <<fdOpen, base, len, rx>>
=============================================================================
