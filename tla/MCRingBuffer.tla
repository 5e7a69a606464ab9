---------------------------- MODULE MCRingBuffer ----------------------------
(* The ring buffer with room for two bytes, and streams long enough to wrap   *)
(* it several times and to grow it twice.                                     *)
EXTENDS RingBuffer

MCByte == {0, 1}
MCZero == 0
=============================================================================
