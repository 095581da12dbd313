---------------------------- MODULE MCConnection ----------------------------
(* Model-checking instance of Connection: a protocol of two-byte frames and *)
(* DefaultProtocol, replies and Sends of two bytes, a send buffer of one.   *)
EXTENDS Connection
=============================================================================
