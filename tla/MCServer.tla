------------------------------ MODULE MCServer ------------------------------
(* Model-checking instance of Server: two work loops and fewer descriptor   *)
(* numbers than connections, so that numbers are reused.                    *)
EXTENDS Server
=============================================================================
