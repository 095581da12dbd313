---------------------------- MODULE MCBufferPool ----------------------------
(* BufferPool for TLC.  Goroutines and buffers are interchangeable, and     *)
(* every property is an invariant, so the symmetry is sound.                *)
EXTENDS BufferPool, TLC

Symmetry == Permutations(Users) \cup Permutations(Bufs)
=============================================================================
