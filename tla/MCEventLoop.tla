---------------------------- MODULE MCEventLoop ----------------------------
(* Model-checking instance of EventLoop: two calling goroutines besides the *)
(* loop itself and the one that stops it.                                   *)
EXTENDS EventLoop
=============================================================================
