---------------------------- MODULE MCRingBuffer ----------------------------
(* The smallest rings: none, one byte, and three, which blocks of up to four *)
(* bytes fill, overfill and wrap.                                            *)
EXTENDS RingBuffer
MCByte == {1, 2}
MCSizes == {0, 1, 3}
=============================================================================
