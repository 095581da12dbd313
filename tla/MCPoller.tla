------------------------------ MODULE MCPoller ------------------------------
(* Model-checking instance of Poller: two sockets and an events slice of    *)
(* length one, so that the slice overflows and grows, and two goroutines    *)
(* that call Close.                                                         *)
EXTENDS Poller
=============================================================================
