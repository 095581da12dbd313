----------------------------- MODULE MCIdleTimer -----------------------------
(* IdleTimer for TLC: the constants are given in the configuration.         *)
EXTENDS IdleTimer
=============================================================================
