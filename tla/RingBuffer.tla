----------------------------- MODULE RingBuffer -----------------------------
(***************************************************************************)
(* The growing ring buffer of ringbuffer/ringbuffer.go.  Its methods are   *)
(* operators on a record rb with the fields of the Go struct: buf (indexed *)
(* from 0), size, r, w, vr and isEmpty.  The state machine below applies   *)
(* them to one buffer in any order and is shown to implement ByteQueue.    *)
(*                                                                         *)
(* Two calls damage a buffer that holds data, and the state machine makes  *)
(* them only with AnyCall.  A VirtualRead that reaches the end of the data *)
(* does not keep isEmpty right (lines 64-75 and 88-90).  And VirtualFlush  *)
(* takes a full buffer of which nothing has been read tentatively for an   *)
(* empty one (lines 45-50), so that its data is lost.  WithData is called  *)
(* with at least one byte, as by handleRead.                               *)
(***************************************************************************)
EXTENDS Integers, Sequences

CONSTANTS
  Byte,       \* values of a byte
  MaxLen,     \* bound on the length of one write
  MaxSize,    \* bound on the size a write may grow the buffer to
  AnyCall     \* also the two calls that a buffer with data does not survive

ASSUME RingBufferAssumption ==
  /\ MaxLen \in Nat \ {0} /\ MaxSize \in Nat /\ AnyCall \in BOOLEAN
  /\ Byte # {}

VARIABLES
  rb,  \* the buffer
  ret  \* what the last operation returned

vars == <<rb, ret>>

(* make([]byte, n): the zero byte is some byte. *)
Zero == CHOOSE b \in Byte : TRUE

New(n) ==
  [buf |-> [i \in 0 .. n - 1 |-> Zero], size |-> n, r |-> 0, w |-> 0, vr |-> 0,
   isEmpty |-> TRUE]
-----------------------------------------------------------------------------
(* Lengths *)

(* From one position to the other around the ring; w = from is empty or full. *)
Distance(b, from) ==
  IF b.w = from THEN (IF b.isEmpty THEN 0 ELSE b.size)
  ELSE IF b.w > from THEN b.w - from ELSE b.size - from + b.w

Length(b) == Distance(b, b.r)
VirtualLength(b) == Distance(b, b.vr)

free(b) ==
  IF b.w = b.r THEN (IF b.isEmpty THEN b.size ELSE 0)
  ELSE IF b.w < b.r THEN b.r - b.w ELSE b.size - b.w + b.r

(* The n bytes from a position on, around the ring: head and tail copies.   *)
Slice(b, from, n) == [i \in 1 .. n |-> b.buf[(from + i - 1) % b.size]]

(* copy(buf[at:], p) *)
Copy(buf, at, p) ==
  [i \in DOMAIN buf |-> IF i >= at /\ i < at + Len(p) THEN p[i - at + 1] ELSE buf[i]]
-----------------------------------------------------------------------------
(* Reading *)

(* How many bytes a read of n from position from gets. *)
Available(b, from, n) ==
  IF n = 0 \/ b.isEmpty THEN 0
  ELSE LET max == IF b.w > from THEN b.w - from ELSE b.size - from + b.w
       IN IF n > max THEN max ELSE n

PeekBytes(b, n) == Slice(b, b.r, Available(b, b.r, n))

(* The first of the two slices PeekAll returns: up to the array's end. *)
PeekAllFirst(b) ==
  IF b.isEmpty THEN <<>>
  ELSE Slice(b, b.r, (IF b.w > b.r THEN b.w ELSE b.size) - b.r)

(* PeekUint8 to PeekUint64: the n bytes of a number, or 0 for want of them. *)
PeekUint(b, n) == IF Length(b) < n THEN <<>> ELSE PeekBytes(b, n)

Bytes(b) == IF b.isEmpty THEN <<>> ELSE Slice(b, b.r, Length(b))

RetrieveAll(b) == [b EXCEPT !.r = 0, !.w = 0, !.vr = 0, !.isEmpty = TRUE]

Retrieve(b, n) ==
  IF b.isEmpty \/ n <= 0 THEN b
  ELSE IF n < Length(b)
       THEN LET at == (b.r + n) % b.size
            IN [b EXCEPT !.r = at, !.vr = at, !.isEmpty = (b.w = at)]
       ELSE RetrieveAll(b)

Read(b, n) ==
  LET k  == Available(b, b.r, n)
      at == (b.r + k) % b.size
  IN IF k = 0 THEN b
     ELSE [b EXCEPT !.r = at, !.vr = at, !.isEmpty = (at = b.w)]
ReadByte(b) ==
  LET at == IF b.r + 1 = b.size THEN 0 ELSE b.r + 1
  IN IF b.isEmpty THEN b
     ELSE [b EXCEPT !.r = at, !.vr = at, !.isEmpty = (b.w = at)]
-----------------------------------------------------------------------------
(* The virtual cursor *)

VirtualRead(b, n) ==
  LET k  == Available(b, b.vr, n)
      at == (b.vr + k) % b.size
  IN IF k = 0 THEN b
     ELSE [b EXCEPT !.vr = at, !.isEmpty = @ \/ (b.w > b.vr /\ at = b.w)]

VirtualFlush(b) == [b EXCEPT !.r = b.vr, !.isEmpty = @ \/ b.vr = b.w]

VirtualRevert(b) == [b EXCEPT !.vr = b.r]
-----------------------------------------------------------------------------
(* Writing *)

(* Mutant: the virtual cursor keeps its place in the old array. *)
makeSpaceKeepsVr(b, n) ==
  LET size == b.size + n
      kept == Available(b, b.r, size)
  IN [buf |-> Copy([i \in 0 .. size - 1 |-> Zero], 0, Slice(b, b.r, kept)),
      size |-> size, r |-> 0, w |-> Length(b), vr |-> b.vr,
      isEmpty |-> Read(b, size).isEmpty]

makeSpace(b, n) ==
  LET size == b.size + n
      old  == Length(b)
      kept == Available(b, b.r, size)
  IN [buf |-> Copy([i \in 0 .. size - 1 |-> Zero], 0, Slice(b, b.r, kept)),
      size |-> size, r |-> 0, w |-> old, vr |-> old - VirtualLength(b),
      isEmpty |-> Read(b, size).isEmpty]

(* Mutant: w does not go back to 0 at the end of the array. *)
WriteNoWrap(b0, p) ==
  LET n == Len(p)
      b == IF free(b0) < n THEN makeSpace(b0, n - free(b0)) ELSE b0
      k == IF b.w >= b.r /\ b.size - b.w < n THEN b.size - b.w ELSE n
      head == Copy(b.buf, b.w, SubSeq(p, 1, k))
      end == IF k < n THEN n - k ELSE b.w + n
  IN IF n = 0 THEN b0
     ELSE [b EXCEPT !.buf = Copy(head, 0, SubSeq(p, k + 1, n)),
                    !.w = end, !.isEmpty = FALSE]

Write(b0, p) ==
  LET n == Len(p)
      b == IF free(b0) < n THEN makeSpace(b0, n - free(b0)) ELSE b0
      k == IF b.w >= b.r /\ b.size - b.w < n THEN b.size - b.w ELSE n
      head == Copy(b.buf, b.w, SubSeq(p, 1, k))
      end == IF k < n THEN n - k ELSE b.w + n
  IN IF n = 0 THEN b0
     ELSE [b EXCEPT !.buf = Copy(head, 0, SubSeq(p, k + 1, n)),
                    !.w = IF end = b.size THEN 0 ELSE end, !.isEmpty = FALSE]

WriteByte(b0, x) ==
  LET b == IF free(b0) < 1 THEN makeSpace(b0, 1) ELSE b0
  IN [b EXCEPT !.buf = Copy(@, b.w, <<x>>),
               !.w = IF @ + 1 = b.size THEN 0 ELSE @ + 1, !.isEmpty = FALSE]

WithData(p) ==
  [buf |-> [i \in 0 .. Len(p) - 1 |-> p[i + 1]], size |-> Len(p),
   r |-> 0, w |-> 0, vr |-> 0, isEmpty |-> FALSE]
-----------------------------------------------------------------------------
(* One buffer *)

Chunks == UNION {[1 .. n -> Byte] : n \in 1 .. MaxLen}

Init == rb = New(0) /\ ret = <<>>

DoWrite ==
  \E p \in Chunks \cup {<<>>} :
    /\ Length(rb) + Len(p) <= MaxSize
    /\ rb' = Write(rb, p) /\ ret' = <<>>

DoWriteByte ==
  \E x \in Byte :
    /\ Length(rb) < MaxSize
    /\ rb' = WriteByte(rb, x) /\ ret' = <<>>

DoWithData == \E p \in Chunks : rb' = WithData(p) /\ ret' = <<>>

DoRead ==
  \E n \in 0 .. MaxLen + 1 :
    rb' = Read(rb, n) /\ ret' = PeekBytes(rb, n)

DoReadByte ==
  rb' = ReadByte(rb) /\ ret' = IF rb.isEmpty THEN <<>> ELSE <<rb.buf[rb.r]>>

DoRetrieve == \E n \in 0 .. MaxLen + 1 : rb' = Retrieve(rb, n) /\ ret' = <<>>

DoRetrieveAll == rb' = RetrieveAll(rb) /\ ret' = <<>>

DoPeek ==
  /\ \/ \E n \in 0 .. MaxLen + 1 : ret' = PeekBytes(rb, n)
     \/ \E n \in {1, 2, 4, 8} : ret' = PeekUint(rb, n)
     \/ ret' = Bytes(rb)
  /\ UNCHANGED rb

DoVirtualRead ==
  \E n \in 0 .. MaxLen :
    /\ AnyCall \/ n < VirtualLength(rb)
    /\ rb' = VirtualRead(rb, n)
    /\ ret' = Slice(rb, rb.vr, Available(rb, rb.vr, n))

(* Full, and nothing of it has been read tentatively. *)
FullUnread(b) == ~b.isEmpty /\ b.w = b.r /\ b.vr = b.r

DoVirtualFlush ==
  /\ AnyCall \/ ~FullUnread(rb)
  /\ rb' = VirtualFlush(rb) /\ ret' = <<>>

DoVirtualRevert == rb' = VirtualRevert(rb) /\ ret' = <<>>

Next ==
  \/ DoWrite \/ DoWriteByte \/ DoWithData
  \/ DoRead \/ DoReadByte \/ DoRetrieve \/ DoRetrieveAll \/ DoPeek
  \/ DoVirtualRead \/ DoVirtualFlush \/ DoVirtualRevert

Spec == Init /\ [][Next]_vars
-----------------------------------------------------------------------------
TypeOK ==
  /\ rb.size \in Nat
  /\ rb.buf \in [0 .. rb.size - 1 -> Byte]
  /\ \A p \in {rb.r, rb.w, rb.vr} : p = 0 \/ p \in 0 .. rb.size - 1
  /\ rb.isEmpty \in BOOLEAN
  /\ ret \in Seq(Byte)

(* The buffer implements a queue with a tentative cursor: whatever wraps    *)
(* around the ring or is moved by makeSpace, what is read is what was       *)
(* written, in order, and Revert and Flush find the place they should.      *)
Content == Slice(rb, rb.r, Length(rb))
BQ == INSTANCE ByteQueue WITH q <- Content, v <- Length(rb) - VirtualLength(rb)
ImplementsByteQueue == BQ!Spec
=============================================================================
