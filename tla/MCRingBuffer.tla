---------------------------- MODULE MCRingBuffer ----------------------------
(* Model-checking instance of RingBuffer: two byte values, chunks of up to  *)
(* two bytes, and a buffer that may have to grow up to four.                *)
EXTENDS RingBuffer
=============================================================================
