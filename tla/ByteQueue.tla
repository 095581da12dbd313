----------------------------- MODULE ByteQueue -----------------------------
(***************************************************************************)
(* What ringbuffer.RingBuffer promises: a queue of bytes of any length     *)
(* with a cursor for tentative reads.  VirtualRead moves the cursor,       *)
(* VirtualFlush drops what is before it, VirtualRevert takes it back.      *)
(***************************************************************************)
EXTENDS Naturals, Sequences

CONSTANTS Byte, MaxLen

VARIABLES
  q,    \* the bytes in the queue
  v,    \* how many of them have been read tentatively
  ret   \* what the last operation returned

bqVars == <<q, v, ret>>

Chunks == UNION {[1 .. n -> Byte] : n \in 0 .. MaxLen}
First(n) == SubSeq(q, 1, n)
Drop(n) == SubSeq(q, n + 1, Len(q))
AtMost(n, max) == IF n < max THEN n ELSE max

Init == q = <<>> /\ v = 0 /\ ret = <<>>

Write(p) == q' = q \o p /\ ret' = <<>> /\ UNCHANGED v

Replace(p) == q' = p /\ v' = 0 /\ ret' = <<>>

Read(n) ==
  LET k == AtMost(n, Len(q))
  IN ret' = First(k) /\ q' = Drop(k) /\ v' = IF k = 0 THEN v ELSE 0

Retrieve(n) ==
  LET k == AtMost(n, Len(q))
  IN q' = Drop(k) /\ v' = (IF k = 0 THEN v ELSE 0) /\ ret' = <<>>

Clear == q' = <<>> /\ v' = 0 /\ ret' = <<>>

Peek(n) == ret' = First(AtMost(n, Len(q))) /\ UNCHANGED <<q, v>>

(* The bytes of a number of n bytes, or nothing; and all the bytes. *)
PeekUint(n) == ret' = (IF Len(q) < n THEN <<>> ELSE First(n)) /\ UNCHANGED <<q, v>>

Bytes == ret' = q /\ UNCHANGED <<q, v>>

VirtualRead(n) ==
  LET k == AtMost(n, Len(q) - v)
  IN ret' = SubSeq(q, v + 1, v + k) /\ v' = v + k /\ UNCHANGED q

VirtualFlush == q' = Drop(v) /\ v' = 0 /\ ret' = <<>>

VirtualRevert == v' = 0 /\ ret' = <<>> /\ UNCHANGED q

Next ==
  \/ \E p \in Chunks : Write(p) \/ Replace(p)
  \/ \E n \in 0 .. MaxLen + 1 :
       Read(n) \/ Retrieve(n) \/ Peek(n) \/ VirtualRead(n)
  \/ \E n \in {1, 2, 4, 8} : PeekUint(n)
  \/ Bytes \/ Clear \/ VirtualFlush \/ VirtualRevert

Spec == Init /\ [][Next]_bqVars
=============================================================================
