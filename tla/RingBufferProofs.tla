-------------------------- MODULE RingBufferProofs --------------------------
(***************************************************************************)
(* Proofs about RingBuffer, for any bytes, any length of a write and any   *)
(* size of the buffer: the ring of ringbuffer.go, with its wrap around and *)
(* its makeSpace, implements the queue with a cursor of module ByteQueue.  *)
(*                                                                         *)
(* RingOK is the invariant of the Go struct; the lemmas say of each method *)
(* that it keeps RingOK and what it does to Content and to the cursor.     *)
(***************************************************************************)
EXTENDS RingBuffer, DataLemmas

(* The Go struct. *)
Ring == [buf : UNION {[0 .. n - 1 -> Byte] : n \in Nat}, size : Nat,
         r : Nat, w : Nat, vr : Nat, isEmpty : BOOLEAN]

(* r, w and vr are places of the array, or 0 while there is none. *)
Placed(b) ==
  /\ b \in Ring /\ b.buf \in [0 .. b.size - 1 -> Byte]
  /\ b.size = 0 => b.r = 0 /\ b.w = 0 /\ b.vr = 0
  /\ b.size > 0 => b.r < b.size /\ b.w < b.size /\ b.vr < b.size

(* An empty buffer has its cursors together; in any other, vr is at a byte  *)
(* that has been written and not read.                                      *)
RingOK(b) ==
  /\ Placed(b)
  /\ b.size = 0 => b.isEmpty
  /\ b.isEmpty => b.w = b.r /\ b.vr = b.r
  /\ ~b.isEmpty /\ b.r < b.w => b.r <= b.vr /\ b.vr < b.w
  /\ ~b.isEmpty /\ b.w <= b.r => b.r <= b.vr \/ b.vr < b.w

(* A place less than twice around the ring. *)
Wrap(b, x) == IF x < b.size THEN x ELSE x - b.size

(* How far the cursor of the tentative reads is. *)
Ahead(b) == Length(b) - VirtualLength(b)

(* What is in a buffer. *)
Data(b) == Slice(b, b.r, Length(b))

(* How many bytes a call that asks for so many gets. *)
Least(m, n) == IF m < n THEN m ELSE n
-----------------------------------------------------------------------------
(* A place never runs further than once around the ring. *)
LEMMA ModWrap ==
  ASSUME NEW n \in Nat \ {0}, NEW x \in 0 .. 2 * n - 1
  PROVE  x % n = IF x < n THEN x ELSE x - n
<1>1. CASE x < n
  BY <1>1
<1>2. CASE ~(x < n)
  BY <1>2
<1> QED
  BY <1>1, <1>2

(* The code's % is one subtraction at most. *)
LEMMA ModIsWrap ==
  ASSUME NEW b, b.size \in Nat \ {0}, NEW x \in 0 .. 2 * b.size - 1
  PROVE  x % b.size = Wrap(b, x) /\ Wrap(b, x) \in 0 .. b.size - 1
<1>1. x % b.size = IF x < b.size THEN x ELSE x - b.size
  BY ModWrap
<1> QED
  BY <1>1 DEF Wrap

(* The lengths of a buffer, and the places they lead to. *)
LEMMA Lengths ==
  ASSUME NEW b, RingOK(b)
  PROVE  /\ Length(b) \in 0 .. b.size /\ (Length(b) = 0 <=> b.isEmpty)
         /\ VirtualLength(b) \in 0 .. Length(b) /\ (VirtualLength(b) = 0 <=> b.isEmpty)
         /\ Ahead(b) \in 0 .. Length(b) /\ (b.isEmpty \/ Ahead(b) < Length(b))
         /\ b.w = Wrap(b, b.r + Length(b)) /\ b.vr = Wrap(b, b.r + Ahead(b))
         /\ free(b) = b.size - Length(b)
<1>1. /\ b.size \in Nat /\ b.r \in Nat /\ b.w \in Nat /\ b.vr \in Nat
      /\ b.isEmpty \in BOOLEAN
  BY DEF RingOK, Placed, Ring
<1>2. /\ b.size = 0 => b.r = 0 /\ b.w = 0 /\ b.vr = 0 /\ b.isEmpty
      /\ b.size > 0 => b.r < b.size /\ b.w < b.size /\ b.vr < b.size
      /\ b.isEmpty => b.w = b.r /\ b.vr = b.r
      /\ ~b.isEmpty /\ b.r < b.w => b.r <= b.vr /\ b.vr < b.w
      /\ ~b.isEmpty /\ b.w <= b.r => b.r <= b.vr \/ b.vr < b.w
  BY DEF RingOK, Placed
<1> USE DEF Length, VirtualLength, Distance, Ahead, Wrap, free
<1>3. CASE b.isEmpty
  BY <1>1, <1>2, <1>3
<1>4. CASE ~b.isEmpty /\ b.r < b.w
  BY <1>1, <1>2, <1>4
<1>5. CASE ~b.isEmpty /\ b.w <= b.r
  BY <1>1, <1>2, <1>5
<1> QED
  BY <1>1, <1>3, <1>4, <1>5

(* What a slice is made of. *)
LEMMA SliceElements ==
  ASSUME NEW b, Placed(b), NEW from \in Nat, NEW n \in 0 .. b.size, b.size > 0 => from < b.size
  PROVE  /\ Slice(b, from, n) \in Seq(Byte) /\ Len(Slice(b, from, n)) = n
         /\ \A i \in 1 .. n : Slice(b, from, n)[i] = b.buf[Wrap(b, from + i - 1)]
<1>1. b.size \in Nat /\ b.buf \in [0 .. b.size - 1 -> Byte]
  BY DEF Placed, Ring
<1>2. ASSUME NEW i \in 1 .. n
      PROVE  /\ (from + i - 1) % b.size = Wrap(b, from + i - 1)
             /\ Wrap(b, from + i - 1) \in 0 .. b.size - 1
  <2>1. b.size \in Nat \ {0} /\ from + i - 1 \in 0 .. 2 * b.size - 1
    BY <1>1
  <2> QED
    BY <2>1, ModIsWrap
<1>3. Slice(b, from, n) = [i \in 1 .. n |-> b.buf[Wrap(b, from + i - 1)]]
  BY <1>2 DEF Slice
<1>4. \A i \in 1 .. n : b.buf[Wrap(b, from + i - 1)] \in Byte
  BY <1>1, <1>2
<1>5. Slice(b, from, n) \in [1 .. n -> Byte] /\ n \in Nat
  <2>1. n \in Nat
    BY <1>1
  <2> QED
    BY <1>3, <1>4, <2>1
<1>6. Slice(b, from, n) \in Seq(Byte) /\ Len(Slice(b, from, n)) = n
  BY <1>5
<1> QED
  BY <1>3, <1>6

(* A part of a slice is the slice of its places. *)
LEMMA SubSlice ==
  ASSUME NEW b, Placed(b), NEW from \in Nat, b.size > 0 => from < b.size,
         NEW n \in 0 .. b.size, NEW k \in 0 .. n, NEW m \in 0 .. n - k
  PROVE  Slice(b, Wrap(b, from + k), m) = SubSeq(Slice(b, from, n), k + 1, k + m)
<1>1. b.size \in Nat /\ n \in Nat /\ k \in Nat /\ m \in Nat
  BY DEF Placed, Ring
<1>2. CASE m = 0
  <2>1. Slice(b, Wrap(b, from + k), m) = <<>>
    BY <1>2 DEF Slice
  <2>2. Slice(b, from, n) \in Seq(Byte) /\ Len(Slice(b, from, n)) = n
    BY SliceElements
  <2>3. k + 1 \in 1 .. n + 1 /\ k + m \in k + 1 - 1 .. n
    BY <1>1, <1>2
  <2>4. /\ SubSeq(Slice(b, from, n), k + 1, k + m) \in Seq(Byte)
        /\ Len(SubSeq(Slice(b, from, n), k + 1, k + m)) = k + m - (k + 1) + 1
    BY <2>2, <2>3, PartElements
  <2> QED
    <3>1. k + m - (k + 1) + 1 = 0
      BY <1>1, <1>2
    <3>2. SubSeq(Slice(b, from, n), k + 1, k + m) = <<>>
      BY <2>4, <3>1, EmptySeq
    <3> QED
      BY <2>1, <3>2
<1>3. CASE m > 0
  <2>1. b.size > 0 /\ Wrap(b, from + k) \in Nat /\ Wrap(b, from + k) < b.size
    BY <1>1, <1>3 DEF Wrap
  <2> DEFINE s == Slice(b, from, n)
             t == Slice(b, Wrap(b, from + k), m)
             u == SubSeq(s, k + 1, k + m)
  <2>2. s \in Seq(Byte) /\ Len(s) = n /\ \A i \in 1 .. n : s[i] = b.buf[Wrap(b, from + i - 1)]
    BY SliceElements
  <2>3. /\ t \in Seq(Byte) /\ Len(t) = m
        /\ \A i \in 1 .. m : t[i] = b.buf[Wrap(b, Wrap(b, from + k) + i - 1)]
    <3>1. m \in 0 .. b.size
      BY <1>1
    <3> QED
      BY <2>1, <3>1, SliceElements
  <2> HIDE DEF s, t
  <2>4. k + 1 \in 1 .. Len(s) + 1 /\ k + m \in k + 1 - 1 .. Len(s)
    BY <1>1, <2>2
  <2>5. /\ u \in Seq(Byte) /\ Len(u) = k + m - (k + 1) + 1
        /\ \A i \in 1 .. k + m - (k + 1) + 1 : u[i] = s[k + 1 + i - 1]
    BY <2>2, <2>4, PartElements
  <2> HIDE DEF u
  <2>6. Len(u) = m
    BY <1>1, <2>5
  <2>7. ASSUME NEW i \in 1 .. m PROVE t[i] = u[i]
    <3>1. u[i] = s[k + i]
      BY <1>1, <2>5
    <3>2. s[k + i] = b.buf[Wrap(b, from + (k + i) - 1)]
      BY <1>1, <2>2
    <3>3. Wrap(b, Wrap(b, from + k) + i - 1) = Wrap(b, from + (k + i) - 1)
      BY <1>1, <2>1 DEF Wrap
    <3> QED
      BY <2>3, <3>1, <3>2, <3>3
  <2>8. t = u
    BY <2>3, <2>5, <2>6, <2>7, SeqEqual
  <2> QED
    BY <2>8 DEF s, t, u
<1> QED
  BY <1>1, <1>2, <1>3

(* A read gets what there is, up to what it asks for. *)
LEMMA AvailableBytes ==
  ASSUME NEW b, RingOK(b), NEW n \in Nat
  PROVE  /\ Available(b, b.r, n) = Least(n, Length(b))
         /\ Available(b, b.vr, n) = Least(n, VirtualLength(b))
<1>1. /\ b.size \in Nat /\ b.r \in Nat /\ b.w \in Nat /\ b.vr \in Nat
      /\ b.isEmpty \in BOOLEAN
  BY DEF RingOK, Placed, Ring
<1>2. /\ b.size > 0 => b.r < b.size /\ b.w < b.size /\ b.vr < b.size
      /\ b.size = 0 => b.isEmpty
      /\ b.isEmpty => b.w = b.r /\ b.vr = b.r
  BY DEF RingOK, Placed
<1> USE DEF Available, Length, VirtualLength, Distance, Least
<1>3. CASE b.isEmpty
  BY <1>1, <1>2, <1>3
<1>4. CASE ~b.isEmpty
  BY <1>1, <1>2, <1>4
<1> QED
  BY <1>1, <1>3, <1>4

(* The data of a buffer, its first bytes, what follows them, and what the   *)
(* tentative cursor is at.                                                  *)
LEMMA DataParts ==
  ASSUME NEW b, RingOK(b), NEW k \in 0 .. Length(b)
  PROVE  /\ Data(b) \in Seq(Byte) /\ Len(Data(b)) = Length(b)
         /\ Slice(b, b.r, k) = SubSeq(Data(b), 1, k)
         /\ Slice(b, Wrap(b, b.r + k), Length(b) - k) = SubSeq(Data(b), k + 1, Len(Data(b)))
         /\ k <= VirtualLength(b)
              => Slice(b, b.vr, k) = SubSeq(Data(b), Ahead(b) + 1, Ahead(b) + k)
<1>1. /\ b.size \in Nat /\ b.r \in Nat /\ Placed(b)
      /\ b.size > 0 => b.r < b.size
      /\ b.size = 0 => b.r = 0
  BY DEF RingOK, Placed, Ring
<1>2. /\ Length(b) \in 0 .. b.size /\ VirtualLength(b) \in 0 .. Length(b)
      /\ Ahead(b) \in 0 .. Length(b) /\ b.vr = Wrap(b, b.r + Ahead(b))
      /\ Length(b) - Ahead(b) = VirtualLength(b)
  BY Lengths DEF Ahead
<1>3. Data(b) \in Seq(Byte) /\ Len(Data(b)) = Length(b)
  BY <1>1, <1>2, SliceElements DEF Data
<1>4. Slice(b, b.r, k) = SubSeq(Data(b), 1, k)
  <2>1. 0 \in 0 .. Length(b) /\ k \in 0 .. Length(b) - 0
    BY <1>1, <1>2
  <2>2. Slice(b, Wrap(b, b.r + 0), k) = SubSeq(Data(b), 0 + 1, 0 + k)
    BY <1>1, <1>2, <2>1, SubSlice DEF Data
  <2>3. Wrap(b, b.r + 0) = b.r /\ 0 + k = k /\ 0 + 1 = 1
    BY <1>1, <1>2 DEF Wrap
  <2> QED
    BY <2>2, <2>3
<1>5. Slice(b, Wrap(b, b.r + k), Length(b) - k) = SubSeq(Data(b), k + 1, Len(Data(b)))
  <2>1. Length(b) - k \in 0 .. Length(b) - k
    BY <1>2
  <2>2. Slice(b, Wrap(b, b.r + k), Length(b) - k)
          = SubSeq(Data(b), k + 1, k + (Length(b) - k))
    BY <1>1, <1>2, <2>1, SubSlice DEF Data
  <2>3. k + (Length(b) - k) = Len(Data(b))
    BY <1>2, <1>3
  <2> QED
    BY <2>2, <2>3
<1>6. ASSUME k <= VirtualLength(b)
      PROVE  Slice(b, b.vr, k) = SubSeq(Data(b), Ahead(b) + 1, Ahead(b) + k)
  <2>1. k \in 0 .. Length(b) - Ahead(b)
    BY <1>2, <1>6
  <2>2. Slice(b, Wrap(b, b.r + Ahead(b)), k) = SubSeq(Data(b), Ahead(b) + 1, Ahead(b) + k)
    BY <1>1, <1>2, <2>1, SubSlice DEF Data
  <2> QED
    BY <1>2, <2>2
<1> QED
  BY <1>3, <1>4, <1>5, <1>6
-----------------------------------------------------------------------------
(* The methods that read *)

(* From one of two places around the ring to the other. *)
LEMMA Around ==
  ASSUME NEW z \in Nat \ {0}, NEW r \in 0 .. z - 1, NEW n \in 1 .. z, NEW k \in 1 .. n
  PROVE  LET w  == IF r + n < z THEN r + n ELSE (r + n) - z
             at == IF r + k < z THEN r + k ELSE (r + k) - z
         IN /\ w = at <=> k = n
            /\ k # n => n - k = IF w > at THEN w - at ELSE (z - at) + w
OBVIOUS

(* A place that goes on, but not as far as w, stays between r and w.        *)
LEMMA Onward ==
  ASSUME NEW z \in Nat \ {0}, NEW r \in 0 .. z - 1, NEW w \in 0 .. z - 1,
         NEW v \in 0 .. z - 1, NEW n \in Nat \ {0},
         n < IF w > v THEN w - v ELSE (z - v) + w,
         NEW at \in 0 .. z - 1, at = IF v + n < z THEN v + n ELSE (v + n) - z
  PROVE  /\ (IF w > at THEN w - at ELSE (z - at) + w)
               = (IF w > v THEN w - v ELSE (z - v) + w) - n
         /\ r < w /\ r <= v /\ v < w => r <= at /\ at < w
         /\ w <= r /\ (r <= v \/ v < w) => r <= at \/ at < w
OBVIOUS

(* r moves on by k, and vr with it. *)
Drop(b, k) ==
  LET at == (b.r + k) % b.size
  IN [b EXCEPT !.r = at, !.vr = at, !.isEmpty = (b.w = at)]

(* The cursors move on by k of the bytes there are. *)
LEMMA DropKeeps ==
  ASSUME NEW b, RingOK(b), NEW k \in Nat \ {0}, k <= Length(b), NEW c, c = Drop(b, k)
  PROVE  /\ RingOK(c) /\ Length(c) = Length(b) - k /\ Ahead(c) = 0
         /\ Data(c) = SubSeq(Data(b), k + 1, Len(Data(b)))
<1>1. /\ b.size \in Nat /\ b.r \in Nat /\ b.w \in Nat /\ b.vr \in Nat
      /\ b.isEmpty \in BOOLEAN /\ b \in Ring /\ b.buf \in [0 .. b.size - 1 -> Byte]
      /\ b.size > 0 => b.r < b.size /\ b.w < b.size
      /\ k \in Nat \ {0}
  BY DEF RingOK, Placed, Ring
<1>2. /\ Length(b) \in 0 .. b.size /\ Length(b) > 0
      /\ b.w = IF b.r + Length(b) < b.size THEN b.r + Length(b)
               ELSE (b.r + Length(b)) - b.size
  BY <1>1, Lengths DEF Wrap
<1>3. b.size \in Nat \ {0} /\ b.r + k \in 0 .. 2 * b.size - 1
  BY <1>1, <1>2
<1>a. PICK at : at = Wrap(b, b.r + k)
  OBVIOUS
<1>4. at = Wrap(b, b.r + k) /\ at = (b.r + k) % b.size /\ at \in 0 .. b.size - 1
  BY <1>3, <1>a, ModIsWrap
<1>5. at = IF b.r + k < b.size THEN b.r + k ELSE (b.r + k) - b.size
  BY <1>a DEF Wrap
<1>b. c = [b EXCEPT !.r = at, !.vr = at, !.isEmpty = (b.w = at)]
  BY <1>4 DEF Drop
<1>c. at \in Nat
  BY <1>1, <1>4
<1>6. c \in Ring
  BY <1>1, <1>b, <1>c DEF Ring
<1>7. /\ c.size = b.size /\ c.buf = b.buf /\ c.w = b.w /\ c.r = at /\ c.vr = at
      /\ c.isEmpty = (b.w = at)
  BY <1>1, <1>b DEF Ring
<1>8. c.isEmpty <=> b.w = at
  BY <1>7
<1>9. c.isEmpty <=> k = Length(b)
  <2>1. k \in 1 .. Length(b) /\ Length(b) \in 1 .. b.size /\ b.r \in 0 .. b.size - 1
    BY <1>1, <1>2, <1>3
  <2> QED
    BY <1>2, <1>3, <1>5, <1>8, <2>1, Around
<1>10. RingOK(c)
  <2>1. Placed(c)
    BY <1>1, <1>3, <1>4, <1>6, <1>7 DEF Placed
  <2> QED
    BY <1>1, <1>3, <1>4, <1>7, <1>8, <2>1 DEF RingOK
<1>11. Length(c) = Length(b) - k
  <2>1. CASE k = Length(b)
    BY <1>1, <1>2, <1>7, <1>8, <1>9, <2>1 DEF Length, Distance
  <2>2. CASE k # Length(b)
    <3>1. /\ b.w # at /\ ~c.isEmpty /\ ~b.isEmpty
          /\ c.size = b.size /\ c.w = b.w /\ c.r = at /\ at \in Nat
      BY <1>2, <1>7, <1>8, <1>9, <1>c, <2>2, Lengths
    <3>2. Length(c) = IF b.w > at THEN b.w - at ELSE (b.size - at) + b.w
      BY <1>1, <3>1 DEF Length, Distance
    <3>3. PICK z \in Nat \ {0} : z = b.size
      BY <1>3
    <3>4. PICK n \in 1 .. z : n = Length(b)
      BY <1>1, <1>2, <3>3
    <3>5. PICK r \in 0 .. z - 1 : r = b.r
      BY <1>1, <3>3
    <3>6. k \in 1 .. n /\ k # n
      BY <1>1, <2>2, <3>4
    <3>7. LET w  == IF r + n < z THEN r + n ELSE (r + n) - z
              to == IF r + k < z THEN r + k ELSE (r + k) - z
          IN n - k = IF w > to THEN w - to ELSE (z - to) + w
      BY <3>6, Around
    <3>8. /\ b.w = IF r + n < z THEN r + n ELSE (r + n) - z
          /\ at = IF r + k < z THEN r + k ELSE (r + k) - z
      BY <1>2, <1>5, <3>3, <3>4, <3>5
    <3>9. n - k = IF b.w > at THEN b.w - at ELSE (z - at) + b.w
      BY <3>7, <3>8
    <3> QED
      BY <3>2, <3>3, <3>4, <3>9
  <2> QED
    BY <2>1, <2>2
<1>12. Ahead(c) = 0
  <2>1. VirtualLength(c) = Length(c)
    BY <1>7 DEF Length, VirtualLength
  <2> QED
    BY <1>2, <1>11, <2>1 DEF Ahead
<1>13. Data(c) = Slice(b, Wrap(b, b.r + k), Length(b) - k)
  BY <1>4, <1>7, <1>11 DEF Data, Slice
<1>14. Data(c) = SubSeq(Data(b), k + 1, Len(Data(b)))
  BY <1>13, DataParts
<1> QED
  BY <1>10, <1>11, <1>12, <1>14

(* A Read of k bytes moves the cursor as Retrieve does. *)
LEMMA ReadIsDrop ==
  ASSUME NEW b, NEW n \in Nat, NEW k \in Nat, Available(b, b.r, n) = k, k # 0
  PROVE  Read(b, n) = Drop(b, k)
BY DEF Read, Drop

(* Reads of nothing leave the buffer alone, even its tentative cursor. *)
LEMMA ReadKeeps ==
  ASSUME NEW b, RingOK(b), NEW n \in Nat, NEW k \in Nat, k = Least(n, Length(b))
  PROVE  /\ RingOK(Read(b, n))
         /\ PeekBytes(b, n) = SubSeq(Data(b), 1, k)
         /\ Data(Read(b, n)) = SubSeq(Data(b), k + 1, Len(Data(b)))
         /\ Ahead(Read(b, n)) = IF k = 0 THEN Ahead(b) ELSE 0
<1>1. Length(b) \in Nat /\ b \in Ring
  BY Lengths DEF RingOK, Placed, Ring
<1>2. k \in 0 .. Length(b) /\ Available(b, b.r, n) = k
  BY <1>1, AvailableBytes DEF Least
<1>3. PeekBytes(b, n) = SubSeq(Data(b), 1, k)
  BY <1>2, DataParts DEF PeekBytes
<1>4. CASE k = 0
  <2>1. Read(b, n) = b
    BY <1>2, <1>4 DEF Read
  <2>2. SubSeq(Data(b), 0 + 1, Len(Data(b))) = Data(b)
    BY <1>2, DataParts, SubSeqFull
  <2> QED
    BY <1>3, <1>4, <2>1, <2>2
<1>5. CASE k # 0
  <2>1. Read(b, n) = Drop(b, k)
    BY <1>2, <1>5, ReadIsDrop
  <2>4. k \in Nat \ {0} /\ k <= Length(b)
    BY <1>2, <1>5
  <2>5. /\ RingOK(Read(b, n)) /\ Ahead(Read(b, n)) = 0
        /\ Data(Read(b, n)) = SubSeq(Data(b), k + 1, Len(Data(b)))
    BY <2>1, <2>4, DropKeeps
  <2> QED
    BY <1>3, <1>5, <2>5
<1> QED
  BY <1>4, <1>5

(* ReadByte reads one byte. *)
LEMMA ReadByteKeeps ==
  ASSUME NEW b, RingOK(b)
  PROVE  /\ ReadByte(b) = Read(b, 1)
         /\ (IF b.isEmpty THEN <<>> ELSE <<b.buf[b.r]>>) = PeekBytes(b, 1)
<1>1. /\ b.size \in Nat /\ b.r \in Nat /\ Placed(b) /\ Length(b) \in 0 .. b.size
      /\ b.size > 0 => b.r < b.size
      /\ Length(b) = 0 <=> b.isEmpty
  BY Lengths DEF RingOK, Placed, Ring
<1>2. Available(b, b.r, 1) = IF b.isEmpty THEN 0 ELSE 1
  BY <1>1, AvailableBytes DEF Least
<1>3. CASE b.isEmpty
  BY <1>2, <1>3 DEF ReadByte, Read, PeekBytes, Slice
<1>4. CASE ~b.isEmpty
  <2>1. b.size \in Nat \ {0} /\ b.r + 1 \in 0 .. 2 * b.size - 1
    BY <1>1, <1>4
  <2>a. PICK at : at = Wrap(b, b.r + 1)
    OBVIOUS
  <2>2. at = (b.r + 1) % b.size
    BY <2>1, <2>a, ModIsWrap
  <2>3. at = IF b.r + 1 = b.size THEN 0 ELSE b.r + 1
    BY <1>1, <2>1, <2>a DEF Wrap
  <2>4. ReadByte(b) = [b EXCEPT !.r = at, !.vr = at, !.isEmpty = (b.w = at)]
    BY <1>4, <2>3 DEF ReadByte
  <2>5. (at = b.w) = (b.w = at)
    OBVIOUS
  <2>6. Read(b, 1) = [b EXCEPT !.r = at, !.vr = at, !.isEmpty = (b.w = at)]
    <3>1. Available(b, b.r, 1) = 1
      BY <1>2, <1>4
    <3>2. Read(b, 1) = Drop(b, 1)
      BY <3>1, ReadIsDrop
    <3> QED
      BY <2>2, <3>2 DEF Drop
  <2>7. PeekBytes(b, 1) = Slice(b, b.r, 1)
    BY <1>2, <1>4 DEF PeekBytes
  <2>8. /\ Slice(b, b.r, 1) \in Seq(Byte) /\ Len(Slice(b, b.r, 1)) = 1
        /\ Slice(b, b.r, 1)[1] = b.buf[Wrap(b, b.r + 1 - 1)]
    <3>1. 1 \in 0 .. b.size /\ 1 \in 1 .. 1
      BY <2>1
    <3> QED
      BY <1>1, <3>1, SliceElements
  <2>9. Wrap(b, b.r + 1 - 1) = b.r
    BY <1>1, <2>1 DEF Wrap
  <2>10. Slice(b, b.r, 1) = <<b.buf[b.r]>>
    <3>1. b.buf[b.r] \in Byte
      BY <1>1, <2>1 DEF Placed
    <3>2. <<b.buf[b.r]>> \in Seq(Byte) /\ Len(<<b.buf[b.r]>>) = 1
      BY <3>1
    <3> QED
      BY <2>8, <2>9, <3>2, SeqEqual
  <2> QED
    BY <1>4, <2>4, <2>6, <2>7, <2>10
<1> QED
  BY <1>1, <1>3, <1>4 DEF RingOK, Placed, Ring

(* A buffer that is emptied starts at the beginning of its array. *)
LEMMA RetrieveAllKeeps ==
  ASSUME NEW b, RingOK(b)
  PROVE  /\ RingOK(RetrieveAll(b)) /\ Data(RetrieveAll(b)) = <<>>
         /\ Length(RetrieveAll(b)) = 0 /\ Ahead(RetrieveAll(b)) = 0
<1>1. b \in Ring /\ b.buf \in [0 .. b.size - 1 -> Byte] /\ b.size \in Nat
  BY DEF RingOK, Placed, Ring
<1>a. PICK c : c = RetrieveAll(b)
  OBVIOUS
<1>2. /\ c \in Ring /\ c.size = b.size /\ c.buf = b.buf
      /\ c.r = 0 /\ c.w = 0 /\ c.vr = 0 /\ c.isEmpty = TRUE
  BY <1>1, <1>a DEF RetrieveAll, Ring
<1>3. RingOK(c)
  BY <1>1, <1>2 DEF RingOK, Placed
<1>4. Length(c) = 0 /\ VirtualLength(c) = 0
  BY <1>2 DEF Length, VirtualLength, Distance
<1>5. Data(c) = <<>>
  BY <1>4 DEF Data, Slice
<1> QED
  BY <1>a, <1>3, <1>4, <1>5 DEF Ahead

(* Retrieve drops as many bytes as there are to drop. *)
LEMMA RetrieveKeeps ==
  ASSUME NEW b, RingOK(b), NEW n \in Nat, NEW k \in Nat, k = Least(n, Length(b))
  PROVE  /\ RingOK(Retrieve(b, n))
         /\ Data(Retrieve(b, n)) = SubSeq(Data(b), k + 1, Len(Data(b)))
         /\ Ahead(Retrieve(b, n)) = IF k = 0 THEN Ahead(b) ELSE 0
<1>1. Length(b) \in Nat /\ (Length(b) = 0 <=> b.isEmpty) /\ b \in Ring /\ b.isEmpty \in BOOLEAN
  BY Lengths DEF RingOK, Placed, Ring
<1>2. 0 \in 0 .. Length(b) /\ Data(b) \in Seq(Byte) /\ Len(Data(b)) = Length(b)
  BY <1>1, DataParts
<1>3. CASE k = 0
  <2>1. Retrieve(b, n) = b
    BY <1>1, <1>3 DEF Retrieve, Least
  <2>2. SubSeq(Data(b), 0 + 1, Len(Data(b))) = Data(b)
    BY <1>2, SubSeqFull
  <2> QED
    BY <1>3, <2>1, <2>2
<1>4. CASE k # 0 /\ n < Length(b)
  <2>1. ~b.isEmpty /\ ~(n <= 0) /\ k = n
    BY <1>1, <1>4 DEF Least
  <2>2. Retrieve(b, n) = Drop(b, k)
    BY <1>4, <2>1 DEF Retrieve, Drop
  <2>3. k \in Nat \ {0} /\ k <= Length(b)
    BY <1>1, <1>4, <2>1
  <2> QED
    BY <1>4, <2>2, <2>3, DropKeeps
<1>5. CASE k # 0 /\ ~(n < Length(b))
  <2>1. ~b.isEmpty /\ ~(n <= 0) /\ k = Length(b)
    BY <1>1, <1>5 DEF Least
  <2>2. Retrieve(b, n) = RetrieveAll(b)
    BY <1>5, <2>1 DEF Retrieve
  <2>3. SubSeq(Data(b), k + 1, Len(Data(b))) = <<>>
    <3>1. k + 1 \in 1 .. Len(Data(b)) + 1 /\ Len(Data(b)) \in k + 1 - 1 .. Len(Data(b))
      BY <1>1, <1>2, <2>1
    <3>2. /\ SubSeq(Data(b), k + 1, Len(Data(b))) \in Seq(Byte)
          /\ Len(SubSeq(Data(b), k + 1, Len(Data(b)))) = Len(Data(b)) - (k + 1) + 1
      BY <1>2, <3>1, PartElements
    <3>3. Len(Data(b)) - (k + 1) + 1 = 0
      BY <1>1, <1>2, <2>1
    <3> QED
      BY <3>2, <3>3, EmptySeq
  <2> QED
    BY <1>5, <2>2, <2>3, RetrieveAllKeeps
<1> QED
  BY <1>3, <1>4, <1>5
-----------------------------------------------------------------------------
(* The tentative cursor *)

(* A tentative read that stops short of the end moves vr and nothing else. *)
LEMMA VirtualReadKeeps ==
  ASSUME NEW b, RingOK(b), NEW n \in Nat, n < VirtualLength(b)
  PROVE  /\ RingOK(VirtualRead(b, n)) /\ Data(VirtualRead(b, n)) = Data(b)
         /\ Ahead(VirtualRead(b, n)) = Ahead(b) + n
         /\ Available(b, b.vr, n) = n
         /\ Slice(b, b.vr, n) = SubSeq(Data(b), Ahead(b) + 1, Ahead(b) + n)
<1>1. /\ b.size \in Nat /\ b.r \in Nat /\ b.w \in Nat /\ b.vr \in Nat
      /\ b.isEmpty \in BOOLEAN /\ b \in Ring /\ b.buf \in [0 .. b.size - 1 -> Byte]
      /\ b.size > 0 => b.r < b.size /\ b.w < b.size /\ b.vr < b.size
  BY DEF RingOK, Placed, Ring
<1>2. /\ Length(b) \in 0 .. b.size /\ VirtualLength(b) \in 0 .. Length(b)
      /\ (VirtualLength(b) = 0 <=> b.isEmpty) /\ Ahead(b) \in Nat
  BY <1>1, Lengths
<1>3. Available(b, b.vr, n) = n
  BY <1>2, AvailableBytes DEF Least
<1>4. Slice(b, b.vr, n) = SubSeq(Data(b), Ahead(b) + 1, Ahead(b) + n)
  <2>1. n \in 0 .. Length(b) /\ n <= VirtualLength(b)
    BY <1>1, <1>2
  <2> QED
    BY <2>1, DataParts
<1>5. CASE n = 0
  <2>1. VirtualRead(b, n) = b
    BY <1>3, <1>5 DEF VirtualRead
  <2> QED
    BY <1>2, <1>3, <1>4, <1>5, <2>1
<1>6. CASE n # 0
  <2>1. ~b.isEmpty /\ b.size \in Nat \ {0} /\ b.vr + n \in 0 .. 2 * b.size - 1
    BY <1>1, <1>2
  <2>a. PICK at : at = Wrap(b, b.vr + n)
    OBVIOUS
  <2>2. at = (b.vr + n) % b.size /\ at \in 0 .. b.size - 1 /\ at \in Nat
    BY <1>1, <2>1, <2>a, ModIsWrap
  <2>3. at = IF b.vr + n < b.size THEN b.vr + n ELSE (b.vr + n) - b.size
    BY <2>a DEF Wrap
  <2>4. VirtualLength(b) = IF b.w > b.vr THEN b.w - b.vr ELSE (b.size - b.vr) + b.w
    BY <1>1, <2>1 DEF VirtualLength, Distance
  <2>c. /\ n \in Nat \ {0} /\ b.r \in 0 .. b.size - 1
        /\ b.vr \in 0 .. b.size - 1 /\ b.w \in 0 .. b.size - 1
        /\ n < IF b.w > b.vr THEN b.w - b.vr ELSE (b.size - b.vr) + b.w
    BY <1>1, <1>6, <2>1, <2>4
  <2>5. at # b.w
    BY <1>1, <1>2, <1>6, <2>1, <2>3, <2>4
  <2>d. /\ (IF b.w > at THEN b.w - at ELSE (b.size - at) + b.w)
              = (IF b.w > b.vr THEN b.w - b.vr ELSE (b.size - b.vr) + b.w) - n
        /\ b.r < b.w /\ b.r <= b.vr /\ b.vr < b.w => b.r <= at /\ at < b.w
        /\ b.w <= b.r /\ (b.r <= b.vr \/ b.vr < b.w) => b.r <= at \/ at < b.w
    <3>1. at \in 0 .. b.size - 1 /\ b.size \in Nat \ {0}
      BY <2>1, <2>2
    <3> QED
      BY <2>3, <2>c, <3>1, Onward
  <2>b. PICK c : c = VirtualRead(b, n)
    OBVIOUS
  <2>6. c = [b EXCEPT !.vr = at, !.isEmpty = @ \/ (b.w > b.vr /\ at = b.w)]
    BY <1>3, <1>6, <2>2, <2>b DEF VirtualRead
  <2>7. /\ c \in Ring /\ c.size = b.size /\ c.buf = b.buf /\ c.r = b.r /\ c.w = b.w
        /\ c.vr = at /\ c.isEmpty = FALSE
    BY <1>1, <2>1, <2>2, <2>5, <2>6 DEF Ring
  <2>8. RingOK(c)
    <3>1. Placed(c)
      BY <1>1, <2>1, <2>2, <2>7 DEF Placed
    <3>2. /\ b.r < b.w => b.r <= b.vr /\ b.vr < b.w
          /\ b.w <= b.r => b.r <= b.vr \/ b.vr < b.w
      BY <2>1 DEF RingOK
    <3>3. /\ b.r < b.w => b.r <= at /\ at < b.w
          /\ b.w <= b.r => b.r <= at \/ at < b.w
      BY <2>d, <3>2
    <3> QED
      BY <2>1, <2>7, <3>1, <3>3 DEF RingOK
  <2>9. Length(c) = Length(b) /\ Data(c) = Data(b)
    BY <2>1, <2>7 DEF Data, Slice, Length, Distance
  <2>10. VirtualLength(c) = VirtualLength(b) - n
    <3>1. VirtualLength(c) = IF b.w > at THEN b.w - at ELSE (b.size - at) + b.w
      BY <2>5, <2>7 DEF VirtualLength, Distance
    <3> QED
      BY <2>4, <2>d, <3>1
  <2> QED
    BY <1>2, <1>3, <1>4, <2>b, <2>8, <2>9, <2>10 DEF Ahead
<1> QED
  BY <1>5, <1>6

(* What is read tentatively is dropped; vr is at r then. *)
LEMMA VirtualFlushKeeps ==
  ASSUME NEW b, RingOK(b), b.vr # b.r
  PROVE  /\ RingOK(VirtualFlush(b)) /\ Ahead(VirtualFlush(b)) = 0
         /\ Data(VirtualFlush(b)) = SubSeq(Data(b), Ahead(b) + 1, Len(Data(b)))
<1>1. /\ b.size \in Nat /\ b.r \in Nat /\ b.vr \in Nat /\ b.w \in Nat /\ b \in Ring
      /\ b.isEmpty = FALSE /\ b.size > 0 /\ b.r < b.size
  BY DEF RingOK, Placed, Ring
<1>2. /\ Ahead(b) \in 0 .. Length(b) /\ Length(b) \in 0 .. b.size
      /\ b.vr = Wrap(b, b.r + Ahead(b))
  BY Lengths
<1>3. Ahead(b) # 0
  BY <1>1, <1>2 DEF Wrap
<1>4. Ahead(b) \in Nat \ {0} /\ Ahead(b) <= Length(b) /\ Ahead(b) < b.size
  BY <1>1, <1>2, <1>3, Lengths
<1>5. (b.r + Ahead(b)) % b.size = b.vr
  <2>1. b.size \in Nat \ {0} /\ b.r + Ahead(b) \in 0 .. 2 * b.size - 1
    BY <1>1, <1>4
  <2> QED
    BY <1>2, <2>1, ModIsWrap
<1>6. VirtualFlush(b) = Drop(b, Ahead(b))
  <2>1. Drop(b, Ahead(b)) = [b EXCEPT !.r = b.vr, !.vr = b.vr, !.isEmpty = (b.w = b.vr)]
    BY <1>5 DEF Drop
  <2>2. VirtualFlush(b) = [b EXCEPT !.r = b.vr, !.isEmpty = (b.w = b.vr)]
    BY <1>1 DEF VirtualFlush
  <2> QED
    BY <1>1, <2>1, <2>2 DEF Ring
<1> QED
  BY <1>4, <1>6, DropKeeps

(* Unless the buffer is full, a flush of nothing changes nothing. *)
LEMMA FlushOfNothing ==
  ASSUME NEW b, RingOK(b), b.vr = b.r, ~FullUnread(b)
  PROVE  VirtualFlush(b) = b /\ Ahead(b) = 0
<1>1. b \in Ring /\ b.isEmpty \in BOOLEAN
  BY DEF RingOK, Placed, Ring
<1>2. (b.isEmpty \/ b.vr = b.w) = b.isEmpty
  BY <1>1 DEF FullUnread
<1>3. VirtualFlush(b) = [b EXCEPT !.r = b.r, !.isEmpty = b.isEmpty]
  BY <1>2 DEF VirtualFlush
<1>4. VirtualFlush(b) = b
  BY <1>1, <1>3 DEF Ring
<1>5. VirtualLength(b) = Length(b) /\ Length(b) \in Int
  BY Lengths, <1>1 DEF VirtualLength, Length, RingOK, Placed, Ring
<1> QED
  BY <1>4, <1>5 DEF Ahead

(* Nothing but the tentative reads is undone. *)
LEMMA VirtualRevertKeeps ==
  ASSUME NEW b, RingOK(b)
  PROVE  /\ RingOK(VirtualRevert(b)) /\ Ahead(VirtualRevert(b)) = 0
         /\ Data(VirtualRevert(b)) = Data(b)
<1>1. b \in Ring /\ b.r \in Nat /\ b.w \in Nat
  BY DEF RingOK, Placed, Ring
<1>a. PICK c : c = VirtualRevert(b)
  OBVIOUS
<1>2. /\ c \in Ring /\ c.size = b.size /\ c.buf = b.buf /\ c.r = b.r /\ c.w = b.w
      /\ c.vr = b.r /\ c.isEmpty = b.isEmpty
  BY <1>1, <1>a DEF VirtualRevert, Ring
<1>3. RingOK(c)
  BY <1>1, <1>2 DEF RingOK, Placed
<1>4. Length(c) = Length(b) /\ VirtualLength(c) = Length(b)
  BY <1>2 DEF Length, VirtualLength, Distance
<1>5. Data(c) = Data(b)
  BY <1>2, <1>4 DEF Data, Slice
<1>6. Ahead(c) = 0
  <2>1. Length(b) \in 0 .. b.size /\ b.size \in Nat
    BY <1>1, Lengths DEF Ring
  <2> QED
    BY <1>4, <2>1 DEF Ahead
<1> QED
  BY <1>a, <1>3, <1>5, <1>6
-----------------------------------------------------------------------------
(* The methods that write *)

(* From a place v bytes on from r to the one m bytes on. *)
LEMMA Between ==
  ASSUME NEW z \in Nat \ {0}, NEW r \in 0 .. z - 1, NEW m \in 1 .. z, NEW v \in 0 .. m - 1,
         NEW w \in Nat, w = IF r + m < z THEN r + m ELSE (r + m) - z,
         NEW c \in Nat, c = IF r + v < z THEN r + v ELSE (r + v) - z
  PROVE  /\ m - v = IF w = c THEN z ELSE IF w > c THEN w - c ELSE (z - c) + w
         /\ r < w => r <= c /\ c < w
         /\ w <= r => r <= c \/ c < w
OBVIOUS

(* From the places of the cursors to the lengths. *)
LEMMA PlacedLengths ==
  ASSUME NEW b, Placed(b), b.size > 0, b.isEmpty = FALSE,
         NEW m \in 1 .. b.size, NEW v \in 0 .. m - 1,
         b.w = Wrap(b, b.r + m), b.vr = Wrap(b, b.r + v)
  PROVE  RingOK(b) /\ Length(b) = m /\ Ahead(b) = v
<1>1. /\ b.size \in Nat \ {0} /\ b.r \in Nat /\ b.r < b.size
      /\ m \in Nat /\ v \in Nat /\ m <= b.size /\ v < m
  BY DEF Placed, Ring
<1>2. /\ b.w = IF b.r + m < b.size THEN b.r + m ELSE (b.r + m) - b.size
      /\ b.vr = IF b.r + v < b.size THEN b.r + v ELSE (b.r + v) - b.size
  BY DEF Wrap
<1>3. /\ m - v = Distance(b, b.vr)
      /\ b.r < b.w => b.r <= b.vr /\ b.vr < b.w
      /\ b.w <= b.r => b.r <= b.vr \/ b.vr < b.w
  <2>1. b.r \in 0 .. b.size - 1 /\ b.w \in Nat /\ b.vr \in Nat
    BY <1>1 DEF Placed, Ring
  <2>2. /\ m - v = IF b.w = b.vr THEN b.size
                   ELSE IF b.w > b.vr THEN b.w - b.vr ELSE (b.size - b.vr) + b.w
        /\ b.r < b.w => b.r <= b.vr /\ b.vr < b.w
        /\ b.w <= b.r => b.r <= b.vr \/ b.vr < b.w
    BY <1>1, <1>2, <2>1, Between
  <2> QED
    BY <2>2 DEF Distance
<1>4. m - 0 = Distance(b, b.r)
  <2>a. PICK o : o = 0
    OBVIOUS
  <2>1. b.r \in 0 .. b.size - 1 /\ b.w \in Nat /\ b.r \in Nat /\ o \in 0 .. m - 1
        /\ b.r = IF b.r + o < b.size THEN b.r + o ELSE (b.r + o) - b.size
    BY <1>1, <2>a DEF Placed, Ring
  <2>2. m - o = IF b.w = b.r THEN b.size
                ELSE IF b.w > b.r THEN b.w - b.r ELSE (b.size - b.r) + b.w
    BY <1>1, <1>2, <2>1, Between
  <2> QED
    BY <2>2, <2>a DEF Distance
<1>5. RingOK(b)
  BY <1>1, <1>3 DEF RingOK
<1>6. Length(b) = m /\ VirtualLength(b) = m - v
  BY <1>1, <1>3, <1>4 DEF Length, VirtualLength
<1> QED
  BY <1>1, <1>5, <1>6 DEF Ahead

(* A new buffer of size 0. *)
LEMMA NewKeeps == RingOK(New(0)) /\ Data(New(0)) = <<>> /\ Ahead(New(0)) = 0
<1>a. PICK c : c = New(0)
  OBVIOUS
<1>1. /\ c.size = 0 /\ c.r = 0 /\ c.w = 0 /\ c.vr = 0 /\ c.isEmpty = TRUE
      /\ c.buf = [i \in 0 .. 0 - 1 |-> Zero]
      /\ DOMAIN c = {"buf", "size", "r", "w", "vr", "isEmpty"}
  BY <1>a DEF New
<1>2. c.buf \in [0 .. 0 - 1 -> Byte]
  BY <1>1
<1>3. c \in Ring
  BY <1>a, <1>1, <1>2 DEF Ring, New
<1>4. RingOK(c)
  BY <1>1, <1>2, <1>3 DEF RingOK, Placed
<1>5. Length(c) = 0 /\ VirtualLength(c) = 0
  BY <1>1 DEF Length, VirtualLength, Distance
<1>6. Data(c) = <<>>
  BY <1>5 DEF Data, Slice
<1> QED
  BY <1>a, <1>4, <1>5, <1>6 DEF Ahead

(* A buffer made of bytes is full of them. *)
LEMMA WithDataKeeps ==
  ASSUME NEW p \in Seq(Byte), p # <<>>
  PROVE  RingOK(WithData(p)) /\ Data(WithData(p)) = p /\ Ahead(WithData(p)) = 0
<1>1. Len(p) \in Nat \ {0} /\ \A i \in 1 .. Len(p) : p[i] \in Byte
  BY EmptySeq, ElementOfSeq
<1>a. PICK n : n = Len(p)
  OBVIOUS
<1>b. PICK c : c = WithData(p)
  OBVIOUS
<1>2. n \in Nat \ {0} /\ \A i \in 1 .. n : p[i] \in Byte
  BY <1>1, <1>a
<1>3. /\ c.size = n /\ c.r = 0 /\ c.w = 0 /\ c.vr = 0 /\ c.isEmpty = FALSE
      /\ c.buf = [i \in 0 .. n - 1 |-> p[i + 1]]
  BY <1>a, <1>b DEF WithData
<1>4. c.buf \in [0 .. n - 1 -> Byte]
  BY <1>2, <1>3
<1>5. c \in Ring
  BY <1>a, <1>b, <1>2, <1>3, <1>4 DEF Ring, WithData
<1>6. Placed(c)
  BY <1>2, <1>3, <1>4, <1>5 DEF Placed
<1>7. RingOK(c) /\ Length(c) = n /\ Ahead(c) = 0
  <2>1. n \in 1 .. c.size /\ 0 \in 0 .. n - 1 /\ c.size > 0
    BY <1>2, <1>3
  <2>2. c.w = Wrap(c, c.r + n) /\ c.vr = Wrap(c, c.r + 0)
    BY <1>2, <1>3 DEF Wrap
  <2> QED
    BY <1>3, <1>6, <2>1, <2>2, PlacedLengths
<1>8. Data(c) = p
  <2>1. c.size > 0 /\ n \in 0 .. c.size /\ c.r \in Nat /\ c.r < c.size
    BY <1>2, <1>3
  <2>2. /\ Data(c) \in Seq(Byte) /\ Len(Data(c)) = n
        /\ \A i \in 1 .. n : Data(c)[i] = c.buf[Wrap(c, c.r + i - 1)]
    BY <1>6, <1>7, <2>1, SliceElements DEF Data
  <2>3. \A i \in 1 .. n : Wrap(c, c.r + i - 1) = i - 1 /\ i - 1 \in 0 .. n - 1
    BY <1>2, <1>3 DEF Wrap
  <2>4. \A i \in 1 .. n : Data(c)[i] = p[i]
    <3> TAKE i \in 1 .. n
    <3>1. Data(c)[i] = c.buf[i - 1] /\ i - 1 \in 0 .. n - 1
      BY <2>2, <2>3
    <3>2. i - 1 + 1 = i
      BY <1>2
    <3> QED
      BY <1>3, <3>1, <3>2
  <2> QED
    BY <1>a, <2>2, <2>4, SeqEqual
<1> QED
  BY <1>b, <1>7, <1>8

(* A buffer as Write finds it once there is space for n bytes: it holds d,  *)
(* v bytes of it read tentatively; makeSpace leaves isEmpty to Write.       *)
Room(c, d, v, n) ==
  /\ Placed(c) /\ c.size > 0 /\ d \in Seq(Byte) /\ Len(d) + n <= c.size
  /\ v \in 0 .. Len(d) /\ (v = Len(d) => v = 0)
  /\ c.w = Wrap(c, c.r + Len(d)) /\ c.vr = Wrap(c, c.r + v)
  /\ Slice(c, c.r, Len(d)) = d

(* There may be space enough. *)
LEMMA FreeRoom ==
  ASSUME NEW b, RingOK(b), NEW n \in Nat \ {0}, ~(free(b) < n)
  PROVE  Room(b, Data(b), Ahead(b), n)
<1>1. /\ b.size \in Nat /\ Length(b) \in 0 .. b.size /\ Ahead(b) \in 0 .. Length(b)
      /\ (Length(b) = 0 <=> b.isEmpty) /\ (b.isEmpty \/ Ahead(b) < Length(b))
      /\ b.w = Wrap(b, b.r + Length(b)) /\ b.vr = Wrap(b, b.r + Ahead(b))
      /\ free(b) = b.size - Length(b)
  BY Lengths DEF RingOK, Placed, Ring
<1>2. Data(b) \in Seq(Byte) /\ Len(Data(b)) = Length(b)
  BY <1>1, DataParts
<1>3. b.size > 0 /\ Length(b) + n <= b.size
  BY <1>1
<1>4. Ahead(b) = Length(b) => Ahead(b) = 0
  BY <1>1
<1>5. Slice(b, b.r, Length(b)) = Data(b)
  BY DEF Data
<1> QED
  BY <1>1, <1>2, <1>3, <1>4, <1>5 DEF Room, RingOK

(* makeSpace moves the bytes to the start of a longer array, and vr and w   *)
(* with them.                                                               *)
LEMMA MakeSpaceRoom ==
  ASSUME NEW b, RingOK(b), NEW n \in Nat \ {0}
  PROVE  /\ Room(makeSpace(b, n), Data(b), Ahead(b), b.size + n - Length(b))
         /\ makeSpace(b, n).size = b.size + n
<1>1. /\ b.size \in Nat /\ b.r \in Nat /\ b \in Ring /\ b.isEmpty \in BOOLEAN
      /\ Length(b) \in 0 .. b.size /\ Ahead(b) \in 0 .. Length(b)
      /\ (Length(b) = 0 <=> b.isEmpty) /\ (b.isEmpty \/ Ahead(b) < Length(b))
  BY Lengths DEF RingOK, Placed, Ring
<1>a. PICK z : z = b.size + n
  OBVIOUS
<1>b. PICK L : L = Length(b)
  OBVIOUS
<1>d. PICK d : d = Data(b)
  OBVIOUS
<1>2. /\ z \in Nat \ {0} /\ L \in Nat /\ L < z /\ b.size + n - Length(b) + L <= z
  BY <1>1, <1>a, <1>b
<1>3. d \in Seq(Byte) /\ Len(d) = L /\ \A i \in 1 .. L : d[i] \in Byte
  <2>1. d \in Seq(Byte) /\ Len(d) = L
    BY <1>1, <1>b, <1>d, DataParts
  <2> QED
    BY <2>1, ElementOfSeq
<1>4. Available(b, b.r, z) = L
  BY <1>1, <1>2, <1>b, AvailableBytes DEF Least
<1>5. Slice(b, b.r, L) = d
  BY <1>b, <1>d DEF Data
<1>6. Zero \in Byte
  BY RingBufferAssumption DEF Zero
<1>e. PICK buf : buf = Copy([i \in 0 .. z - 1 |-> Zero], 0, d)
  OBVIOUS
<1>7. /\ buf \in [0 .. z - 1 -> Byte]
      /\ \A i \in 1 .. L : buf[i - 1] = d[i]
  <2>1. buf = [i \in 0 .. z - 1 |-> IF i >= 0 /\ i < 0 + L THEN d[i - 0 + 1] ELSE Zero]
    BY <1>3, <1>e DEF Copy
  <2>2. \A i \in 0 .. z - 1 : i >= 0 /\ i < 0 + L => d[i - 0 + 1] \in Byte
    BY <1>2, <1>3
  <2>3. buf \in [0 .. z - 1 -> Byte]
    BY <1>6, <2>1, <2>2
  <2>4. ASSUME NEW i \in 1 .. L PROVE buf[i - 1] = d[i]
    <3>1. i - 1 \in 0 .. z - 1 /\ i - 1 >= 0 /\ i - 1 < 0 + L /\ i - 1 - 0 + 1 = i
      BY <1>2
    <3> QED
      BY <2>1, <3>1
  <2> QED
    BY <2>3, <2>4
<1>f. PICK e : e = Read(b, z).isEmpty
  OBVIOUS
<1>8. e \in BOOLEAN
  BY <1>1, <1>f DEF Read, Ring
<1>c. PICK c : c = makeSpace(b, n)
  OBVIOUS
<1>g. c = [buf |-> buf, size |-> z, r |-> 0, w |-> L, vr |-> Ahead(b), isEmpty |-> e]
  BY <1>4, <1>5, <1>a, <1>b, <1>c, <1>e, <1>f DEF makeSpace, Ahead
<1>9. /\ c.buf = buf /\ c.size = z /\ c.r = 0 /\ c.w = L /\ c.vr = Ahead(b)
      /\ c \in Ring
  <2>1. buf \in UNION {[0 .. m - 1 -> Byte] : m \in Nat} /\ Ahead(b) \in Nat
    BY <1>1, <1>2, <1>7
  <2> QED
    BY <1>2, <1>8, <1>g, <2>1 DEF Ring
<1>10. Ahead(b) \in 0 .. L /\ (Ahead(b) = L => Ahead(b) = 0)
  BY <1>1, <1>b
<1>11. Placed(c)
  BY <1>2, <1>7, <1>9, <1>10 DEF Placed
<1>12. Slice(c, c.r, L) = d
  <2>1. /\ c.r \in Nat /\ L \in 0 .. c.size /\ (c.size > 0 => c.r < c.size)
    BY <1>2, <1>9
  <2>2. /\ Slice(c, c.r, L) \in Seq(Byte) /\ Len(Slice(c, c.r, L)) = L
        /\ \A i \in 1 .. L : Slice(c, c.r, L)[i] = c.buf[Wrap(c, c.r + i - 1)]
    BY <1>11, <2>1, SliceElements
  <2>3. \A i \in 1 .. L : Wrap(c, c.r + i - 1) = i - 1
    BY <1>2, <1>9 DEF Wrap
  <2>4. \A i \in 1 .. L : Slice(c, c.r, L)[i] = d[i]
    BY <1>7, <1>9, <2>2, <2>3
  <2> QED
    BY <1>3, <2>2, <2>4, SeqEqual
<1>13. c.w = Wrap(c, c.r + L) /\ c.vr = Wrap(c, c.r + Ahead(b))
  BY <1>1, <1>2, <1>9, <1>10 DEF Wrap
<1>14. L + (b.size + n - Length(b)) <= c.size /\ c.size > 0
  BY <1>1, <1>2, <1>9
<1>15. Room(c, d, Ahead(b), b.size + n - Length(b))
  BY <1>3, <1>10, <1>11, <1>12, <1>13, <1>14 DEF Room
<1> QED
  BY <1>9, <1>15, <1>a, <1>c, <1>d

(* The rest of Write: p is copied from w on, and what does not fit before   *)
(* the end of the array to its start.                                       *)
Fill(c, p) ==
  LET n == Len(p)
      k == IF c.w >= c.r /\ c.size - c.w < n THEN c.size - c.w ELSE n
      head == Copy(c.buf, c.w, SubSeq(p, 1, k))
      end == IF k < n THEN n - k ELSE c.w + n
  IN [c EXCEPT !.buf = Copy(head, 0, SubSeq(p, k + 1, n)),
               !.w = IF end = c.size THEN 0 ELSE end, !.isEmpty = FALSE]

(* Where the L bytes there are end and the n that are written do; k of them *)
(* fit before the end of the array.                                         *)
Fits(z, r, L, n, w, k) ==
  /\ z \in Nat \ {0} /\ r \in 0 .. z - 1 /\ L \in Nat /\ n \in Nat \ {0} /\ L + n <= z
  /\ w \in 0 .. z - 1 /\ w = IF r + L < z THEN r + L ELSE (r + L) - z
  /\ k \in Int /\ k = IF w >= r /\ z - w < n THEN z - w ELSE n

(* Where a write ends, and in how many pieces it is copied. *)
LEMMA FillEnd ==
  ASSUME NEW z, NEW r, NEW L, NEW n, NEW w, NEW k, Fits(z, r, L, n, w, k),
         NEW end, end = IF k < n THEN n - k ELSE w + n,
         NEW w1, w1 = IF end = z THEN 0 ELSE end
  PROVE  /\ k \in 1 .. n /\ w + k <= z /\ n - k <= z
         /\ w1 = IF r + (L + n) < z THEN r + (L + n) ELSE (r + (L + n)) - z
         /\ w1 \in 0 .. z - 1
<1>1. CASE w >= r /\ z - w < n
  BY <1>1 DEF Fits
<1>2. CASE ~(w >= r /\ z - w < n)
  BY <1>2 DEF Fits
<1> QED
  BY <1>1, <1>2

(* Every byte that is written gets to its place by one of the two copies. *)
LEMMA FillNew ==
  ASSUME NEW z, NEW r, NEW L, NEW n, NEW w, NEW k, Fits(z, r, L, n, w, k),
         NEW i \in 1 .. n, NEW x, x = r + (L + i) - 1,
         NEW j, j = IF x < z THEN x ELSE x - z
  PROVE  /\ j \in 0 .. z - 1
         /\ \/ j < n - k /\ k + j + 1 = i
            \/ ~(j < n - k) /\ w <= j /\ j < w + k /\ j - w + 1 = i
<1>1. CASE w >= r /\ z - w < n
  BY <1>1 DEF Fits
<1>2. CASE ~(w >= r /\ z - w < n)
  BY <1>2 DEF Fits
<1> QED
  BY <1>1, <1>2

(* No byte that was there is at a place the copies reach. *)
LEMMA FillOld ==
  ASSUME NEW z, NEW r, NEW L, NEW n, NEW w, NEW k, Fits(z, r, L, n, w, k),
         NEW i \in 1 .. L, NEW x, x = r + i - 1,
         NEW j, j = IF x < z THEN x ELSE x - z
  PROVE  j \in 0 .. z - 1 /\ ~(j < n - k) /\ ~(w <= j /\ j < w + k)
<1>1. CASE w >= r /\ z - w < n
  BY <1>1 DEF Fits
<1>2. CASE ~(w >= r /\ z - w < n)
  BY <1>2 DEF Fits
<1> QED
  BY <1>1, <1>2

(* What one copy does. *)
LEMMA CopyElements ==
  ASSUME NEW z \in Nat, NEW buf \in [0 .. z - 1 -> Byte], NEW at \in Nat,
         NEW p \in Seq(Byte), at + Len(p) <= z
  PROVE  /\ Copy(buf, at, p) \in [0 .. z - 1 -> Byte]
         /\ \A j \in 0 .. z - 1 :
              /\ at <= j /\ j < at + Len(p) => Copy(buf, at, p)[j] = p[j - at + 1]
              /\ ~(at <= j /\ j < at + Len(p)) => Copy(buf, at, p)[j] = buf[j]
<1>1. Len(p) \in Nat /\ \A i \in 1 .. Len(p) : p[i] \in Byte
  BY LenProperties, ElementOfSeq
<1>2. Copy(buf, at, p) = [j \in 0 .. z - 1 |-> IF j >= at /\ j < at + Len(p)
                                               THEN p[j - at + 1] ELSE buf[j]]
  BY DEF Copy
<1>3. \A j \in 0 .. z - 1 : j >= at /\ j < at + Len(p) => p[j - at + 1] \in Byte
  BY <1>1
<1>4. Copy(buf, at, p) \in [0 .. z - 1 -> Byte]
  BY <1>2, <1>3
<1>5. ASSUME NEW j \in 0 .. z - 1
      PROVE  /\ at <= j /\ j < at + Len(p) => Copy(buf, at, p)[j] = p[j - at + 1]
             /\ ~(at <= j /\ j < at + Len(p)) => Copy(buf, at, p)[j] = buf[j]
  <2>1. j >= at <=> at <= j
    OBVIOUS
  <2> QED
    BY <1>2, <2>1
<1> QED
  BY <1>4, <1>5

(* The bytes written follow those that were there, and vr stays at its byte. *)
LEMMA FillKeeps ==
  ASSUME NEW c, NEW d, NEW v, NEW p \in Seq(Byte), p # <<>>, Room(c, d, v, Len(p))
  PROVE  RingOK(Fill(c, p)) /\ Data(Fill(c, p)) = d \o p /\ Ahead(Fill(c, p)) = v
<1>a. PICK n : n = Len(p)
  OBVIOUS
<1>b. PICK L : L = Len(d)
  OBVIOUS
<1>d. PICK k : k = IF c.w >= c.r /\ c.size - c.w < n THEN c.size - c.w ELSE n
  OBVIOUS
<1>e. PICK end : end = IF k < n THEN n - k ELSE c.w + n
  OBVIOUS
<1>f. PICK head : head = Copy(c.buf, c.w, SubSeq(p, 1, k))
  OBVIOUS
<1>g. PICK buf : buf = Copy(head, 0, SubSeq(p, k + 1, n))
  OBVIOUS
<1>h. PICK w : w = IF end = c.size THEN 0 ELSE end
  OBVIOUS
<1>c. PICK e : e = Fill(c, p)
  OBVIOUS
<1>1. /\ n \in Nat \ {0} /\ L \in Nat /\ d \in Seq(Byte) /\ Placed(c) /\ L + n <= c.size
      /\ v \in 0 .. L /\ (v = L => v = 0)
      /\ c.w = Wrap(c, c.r + L) /\ c.vr = Wrap(c, c.r + v) /\ Slice(c, c.r, L) = d
  BY <1>a, <1>b, EmptySeq, LenProperties DEF Room
<1>2. /\ c.size \in Nat \ {0} /\ c.r \in 0 .. c.size - 1 /\ c.w \in 0 .. c.size - 1
      /\ c.vr \in 0 .. c.size - 1 /\ c \in Ring /\ c.buf \in [0 .. c.size - 1 -> Byte]
  BY <1>1 DEF Placed, Ring, Room
<1>3. k \in Int
  BY <1>1, <1>2, <1>d
<1>4. c.w = IF c.r + L < c.size THEN c.r + L ELSE (c.r + L) - c.size
  BY <1>1 DEF Wrap
<1>i. Fits(c.size, c.r, L, n, c.w, k)
  BY <1>1, <1>2, <1>3, <1>4, <1>d DEF Fits
<1>5. /\ k \in 1 .. n /\ c.w + k <= c.size /\ n - k <= c.size
      /\ w = IF c.r + (L + n) < c.size THEN c.r + (L + n) ELSE (c.r + (L + n)) - c.size
      /\ w \in 0 .. c.size - 1
  BY <1>e, <1>h, <1>i, FillEnd
<1>6. /\ SubSeq(p, 1, k) \in Seq(Byte) /\ Len(SubSeq(p, 1, k)) = k
      /\ \A i \in 1 .. k : SubSeq(p, 1, k)[i] = p[i]
  <2>1. 1 \in 1 .. Len(p) + 1 /\ k \in 1 - 1 .. Len(p) /\ k - 1 + 1 = k
    BY <1>1, <1>5, <1>a
  <2>2. /\ SubSeq(p, 1, k) \in Seq(Byte) /\ Len(SubSeq(p, 1, k)) = k - 1 + 1
        /\ \A i \in 1 .. k - 1 + 1 : SubSeq(p, 1, k)[i] = p[1 + i - 1]
    BY <2>1, PartElements
  <2>3. \A i \in 1 .. k : 1 + i - 1 = i
    BY <1>5
  <2> QED
    BY <2>1, <2>2, <2>3
<1>7. /\ SubSeq(p, k + 1, n) \in Seq(Byte) /\ Len(SubSeq(p, k + 1, n)) = n - k
      /\ \A i \in 1 .. n - k : SubSeq(p, k + 1, n)[i] = p[k + i]
  <2>1. k + 1 \in 1 .. Len(p) + 1 /\ n \in k + 1 - 1 .. Len(p) /\ n - (k + 1) + 1 = n - k
    BY <1>1, <1>5, <1>a
  <2>a. PICK m : m = k + 1
    OBVIOUS
  <2>2. m \in 1 .. Len(p) + 1 /\ n \in m - 1 .. Len(p)
    BY <1>1, <1>5, <1>a, <2>a
  <2>3. /\ SubSeq(p, m, n) \in Seq(Byte) /\ Len(SubSeq(p, m, n)) = n - m + 1
        /\ \A i \in 1 .. n - m + 1 : SubSeq(p, m, n)[i] = p[m + i - 1]
    BY <2>2, PartElements
  <2>4. n - m + 1 = n - k /\ \A i \in 1 .. n - k : m + i - 1 = k + i
    BY <1>1, <1>5, <2>a
  <2> QED
    BY <2>3, <2>4, <2>a
<1>j. PICK p1 : p1 = SubSeq(p, 1, k)
  OBVIOUS
<1>k. PICK p2 : p2 = SubSeq(p, k + 1, n)
  OBVIOUS
<1>8. /\ head \in [0 .. c.size - 1 -> Byte]
      /\ \A j \in 0 .. c.size - 1 :
           /\ c.w <= j /\ j < c.w + k => head[j] = p[j - c.w + 1]
           /\ ~(c.w <= j /\ j < c.w + k) => head[j] = c.buf[j]
  <2>1. /\ c.size \in Nat /\ c.w \in Nat /\ p1 \in Seq(Byte) /\ Len(p1) = k
        /\ c.w + Len(p1) <= c.size
    BY <1>2, <1>5, <1>6, <1>j
  <2>2. /\ head \in [0 .. c.size - 1 -> Byte]
        /\ \A j \in 0 .. c.size - 1 :
             /\ c.w <= j /\ j < c.w + Len(p1) => head[j] = p1[j - c.w + 1]
             /\ ~(c.w <= j /\ j < c.w + Len(p1)) => head[j] = c.buf[j]
    <3>1. head = Copy(c.buf, c.w, p1) /\ c.buf \in [0 .. c.size - 1 -> Byte]
      BY <1>2, <1>f, <1>j
    <3>2. PICK z \in Nat : z = c.size
      BY <2>1
    <3>3. PICK at \in Nat : at = c.w
      BY <2>1
    <3>4. PICK b \in [0 .. z - 1 -> Byte] : b = c.buf
      BY <3>1, <3>2
    <3>5. p1 \in Seq(Byte) /\ at + Len(p1) <= z
      BY <2>1, <3>2, <3>3
    <3>6. /\ Copy(b, at, p1) \in [0 .. z - 1 -> Byte]
          /\ \A j \in 0 .. z - 1 :
               /\ at <= j /\ j < at + Len(p1) => Copy(b, at, p1)[j] = p1[j - at + 1]
               /\ ~(at <= j /\ j < at + Len(p1)) => Copy(b, at, p1)[j] = b[j]
      BY <3>5, CopyElements
    <3>7. head = Copy(b, at, p1)
      BY <3>1, <3>3, <3>4
    <3> QED
      BY <3>2, <3>3, <3>4, <3>6, <3>7
  <2>3. \A j \in 0 .. c.size - 1 : c.w <= j /\ j < c.w + k => j - c.w + 1 \in 1 .. k
    BY <1>2, <1>5
  <2> QED
    BY <1>6, <1>j, <2>1, <2>2, <2>3
<1>9. /\ buf \in [0 .. c.size - 1 -> Byte]
      /\ \A j \in 0 .. c.size - 1 :
           /\ j < n - k => buf[j] = p[k + j + 1]
           /\ ~(j < n - k) => buf[j] = head[j]
  <2>1. /\ c.size \in Nat /\ 0 \in Nat /\ p2 \in Seq(Byte) /\ Len(p2) = n - k
        /\ 0 + Len(p2) <= c.size
    BY <1>1, <1>2, <1>5, <1>7, <1>k
  <2>2. /\ buf \in [0 .. c.size - 1 -> Byte]
        /\ \A j \in 0 .. c.size - 1 :
             /\ 0 <= j /\ j < 0 + Len(p2) => buf[j] = p2[j - 0 + 1]
             /\ ~(0 <= j /\ j < 0 + Len(p2)) => buf[j] = head[j]
    <3>1. buf = Copy(head, 0, p2) /\ head \in [0 .. c.size - 1 -> Byte]
      BY <1>8, <1>g, <1>k
    <3>2. PICK z \in Nat : z = c.size
      BY <2>1
    <3>3. PICK h \in [0 .. z - 1 -> Byte] : h = head
      BY <3>1, <3>2
    <3>4. PICK at \in Nat : at = 0
      BY <2>1
    <3>5. p2 \in Seq(Byte) /\ at + Len(p2) <= z
      BY <2>1, <3>2, <3>4
    <3>6. /\ Copy(h, at, p2) \in [0 .. z - 1 -> Byte]
          /\ \A j \in 0 .. z - 1 :
               /\ at <= j /\ j < at + Len(p2) => Copy(h, at, p2)[j] = p2[j - at + 1]
               /\ ~(at <= j /\ j < at + Len(p2)) => Copy(h, at, p2)[j] = h[j]
      BY <3>5, CopyElements
    <3>7. buf = Copy(h, at, p2)
      BY <3>1, <3>3, <3>4
    <3> QED
      BY <3>2, <3>3, <3>4, <3>6, <3>7
  <2>3. \A j \in 0 .. c.size - 1 :
          /\ j < n - k <=> 0 <= j /\ j < 0 + (n - k)
          /\ j < n - k => j - 0 + 1 \in 1 .. n - k /\ k + (j - 0 + 1) = k + j + 1
    BY <1>1, <1>2, <1>5
  <2> QED
    BY <1>7, <1>k, <2>1, <2>2, <2>3
<1>10. e = [c EXCEPT !.buf = buf, !.w = w, !.isEmpty = FALSE]
  BY <1>a, <1>c, <1>d, <1>e, <1>f, <1>g, <1>h DEF Fill
<1>11. /\ e.buf = buf /\ e.w = w /\ e.isEmpty = FALSE /\ e.size = c.size /\ e.r = c.r
       /\ e.vr = c.vr /\ e \in Ring
  <2>1. w \in Nat
    BY <1>1, <1>2, <1>5
  <2>2. buf \in UNION {[0 .. m - 1 -> Byte] : m \in Nat}
    BY <1>2, <1>9
  <2> QED
    BY <1>2, <1>10, <2>1, <2>2 DEF Ring
<1>12. w < c.size /\ w \in Nat
  BY <1>1, <1>2, <1>5
<1>13. Placed(e)
  BY <1>2, <1>9, <1>11, <1>12 DEF Placed
<1>14. RingOK(e) /\ Length(e) = L + n /\ Ahead(e) = v
  <2>1. L + n \in 1 .. e.size /\ v \in 0 .. (L + n) - 1 /\ e.size > 0
    BY <1>1, <1>2, <1>11
  <2>2. e.w = Wrap(e, e.r + (L + n)) /\ e.vr = Wrap(e, e.r + v)
    BY <1>1, <1>5, <1>11 DEF Wrap
  <2> QED
    BY <1>11, <1>13, <2>1, <2>2, PlacedLengths
<1>15. /\ Data(e) \in Seq(Byte) /\ Len(Data(e)) = L + n
       /\ \A i \in 1 .. L + n : Data(e)[i] = buf[Wrap(c, c.r + i - 1)]
  <2>1. e.size > 0 /\ L + n \in 0 .. e.size /\ e.r \in Nat /\ e.r < e.size
    BY <1>1, <1>2, <1>11
  <2>2. /\ Data(e) \in Seq(Byte) /\ Len(Data(e)) = L + n
        /\ \A i \in 1 .. L + n : Data(e)[i] = e.buf[Wrap(e, e.r + i - 1)]
    BY <1>13, <1>14, <2>1, SliceElements DEF Data
  <2> QED
    BY <1>11, <2>2 DEF Wrap
<1>17. ASSUME NEW i \in 1 .. L PROVE Data(e)[i] = d[i]
  <2>1. /\ Slice(c, c.r, L)[i] = c.buf[Wrap(c, c.r + i - 1)]
    <3>1. /\ L \in 0 .. c.size /\ c.r \in Nat /\ c.r < c.size
      BY <1>1, <1>2
    <3> QED
      BY <1>1, <3>1, SliceElements
  <2>2. i \in 1 .. L + n
    BY <1>1
  <2>3. buf[Wrap(c, c.r + i - 1)] = c.buf[Wrap(c, c.r + i - 1)]
    <3>a. PICK j : j = Wrap(c, c.r + i - 1)
      OBVIOUS
    <3>1. j = IF c.r + i - 1 < c.size THEN c.r + i - 1 ELSE (c.r + i - 1) - c.size
      BY <3>a DEF Wrap
    <3>2. j \in 0 .. c.size - 1 /\ ~(j < n - k) /\ ~(c.w <= j /\ j < c.w + k)
      BY <1>i, <3>1, FillOld
    <3> QED
      BY <1>8, <1>9, <3>2, <3>a
  <2> QED
    BY <1>1, <1>15, <2>1, <2>2, <2>3
<1>18. ASSUME NEW i \in 1 .. n PROVE Data(e)[L + i] = p[i]
  <2>1. L + i \in 1 .. L + n
    BY <1>1
  <2>3. buf[Wrap(c, c.r + (L + i) - 1)] = p[i]
    <3>a. PICK j : j = Wrap(c, c.r + (L + i) - 1)
      OBVIOUS
    <3>1. j = IF c.r + (L + i) - 1 < c.size THEN c.r + (L + i) - 1
              ELSE (c.r + (L + i) - 1) - c.size
      BY <3>a DEF Wrap
    <3>2. /\ j \in 0 .. c.size - 1
          /\ \/ j < n - k /\ k + j + 1 = i
             \/ ~(j < n - k) /\ c.w <= j /\ j < c.w + k /\ j - c.w + 1 = i
      BY <1>i, <3>1, FillNew
    <3> QED
      BY <1>8, <1>9, <3>2, <3>a
  <2> QED
    BY <1>15, <2>1, <2>3
<1>19. Data(e) = d \o p
  <2>1. /\ d \o p \in Seq(Byte) /\ Len(d \o p) = L + n
        /\ \A i \in 1 .. L + n : (d \o p)[i] = IF i <= L THEN d[i] ELSE p[i - L]
    BY <1>1, <1>a, <1>b, ConcatProperties
  <2>2. ASSUME NEW i \in 1 .. L + n PROVE Data(e)[i] = (d \o p)[i]
    <3>1. CASE i <= L
      BY <1>1, <1>17, <2>1, <3>1
    <3>2. CASE ~(i <= L)
      <4>1. i - L \in 1 .. n /\ L + (i - L) = i
        BY <1>1, <3>2
      <4> QED
        BY <1>18, <2>1, <3>2, <4>1
    <3> QED
      BY <3>1, <3>2
  <2> QED
    BY <1>15, <2>1, <2>2, SeqEqual
<1> QED
  BY <1>14, <1>19, <1>c

(* Write adds its bytes at the end, whether they fit, wrap around or need a *)
(* longer array.                                                            *)
LEMMA WriteKeeps ==
  ASSUME NEW b, RingOK(b), NEW p \in Seq(Byte)
  PROVE  RingOK(Write(b, p)) /\ Data(Write(b, p)) = Data(b) \o p /\ Ahead(Write(b, p)) = Ahead(b)
<1>1. b.size \in Nat /\ Length(b) \in 0 .. b.size /\ free(b) = b.size - Length(b)
  BY Lengths DEF RingOK, Placed, Ring
<1>2. 0 \in 0 .. Length(b) /\ Data(b) \in Seq(Byte)
  BY <1>1, DataParts
<1>3. CASE p = <<>>
  <2>1. Write(b, p) = b
    BY <1>3, EmptySeq DEF Write
  <2> QED
    BY <1>2, <1>3, <2>1, ConcatEmptySeq
<1>4. CASE p # <<>>
  <2>1. Len(p) \in Nat \ {0}
    BY <1>4, EmptySeq
  <2>2. CASE ~(free(b) < Len(p))
    <3>1. Write(b, p) = Fill(b, p)
      BY <2>1, <2>2 DEF Write, Fill
    <3> QED
      BY <1>4, <2>1, <2>2, <3>1, FreeRoom, FillKeeps
  <2>3. CASE free(b) < Len(p)
    <3>a. PICK m : m = Len(p) - free(b)
      OBVIOUS
    <3>b. PICK c : c = makeSpace(b, m)
      OBVIOUS
    <3>1. m \in Nat \ {0} /\ b.size + m - Length(b) = Len(p)
      <4>1. free(b) \in Int /\ Length(b) \in Int /\ b.size \in Int /\ Len(p) \in Int
        BY <1>1, <2>1
      <4>2. m > 0 /\ m \in Int
        BY <2>3, <3>a, <4>1
      <4>3. b.size + m - Length(b) = free(b) + m
        BY <1>1, <4>1, <4>2
      <4>4. free(b) + m = Len(p)
        BY <3>a, <4>1
      <4>5. m \in Nat \ {0}
        BY <4>2
      <4> QED
        BY <4>3, <4>4, <4>5
    <3>2. Write(b, p) = Fill(c, p)
      BY <2>1, <2>3, <3>a, <3>b DEF Write, Fill
    <3>3. Room(c, Data(b), Ahead(b), Len(p))
      BY <3>1, <3>b, MakeSpaceRoom
    <3> QED
      BY <1>4, <3>2, <3>3, FillKeeps
  <2> QED
    BY <2>2, <2>3
<1> QED
  BY <1>3, <1>4

(* The rest of WriteByte. *)
AddByte(c, x) ==
  [c EXCEPT !.buf = Copy(@, c.w, <<x>>), !.w = IF @ + 1 = c.size THEN 0 ELSE @ + 1,
            !.isEmpty = FALSE]

(* WriteByte is a Write of one byte: it needs no second copy. *)
LEMMA FillByte ==
  ASSUME NEW c, NEW d, NEW v, NEW x \in Byte, Room(c, d, v, 1)
  PROVE  Fill(c, <<x>>) = AddByte(c, x)
<1>a. PICK p : p = <<x>>
  OBVIOUS
<1>1. p \in Seq(Byte) /\ Len(p) = 1
  BY <1>a
<1>2. /\ c.size \in Nat \ {0} /\ c.w \in Nat /\ c.w < c.size /\ c \in Ring
      /\ c.buf \in [0 .. c.size - 1 -> Byte]
  BY DEF Room, Placed, Ring
<1>3. ~(c.w >= c.r /\ c.size - c.w < 1)
  BY <1>2
<1>4. SubSeq(p, 1, 1) = p
  BY <1>1, SubSeqFull
<1>5. SubSeq(p, 1 + 1, 1) = <<>>
  <2>a. PICK m : m = 1 + 1
    OBVIOUS
  <2>1. m \in 1 .. Len(p) + 1 /\ 1 \in m - 1 .. Len(p) /\ 1 - m + 1 = 0
    BY <1>1, <2>a
  <2>2. SubSeq(p, m, 1) \in Seq(Byte) /\ Len(SubSeq(p, m, 1)) = 1 - m + 1
    BY <1>1, <2>1, PartElements
  <2> QED
    BY <2>1, <2>2, <2>a, EmptySeq
<1>b. PICK head : head = Copy(c.buf, c.w, p)
  OBVIOUS
<1>6. Copy(head, 0, <<>>) = head
  <2>1. head = [i \in 0 .. c.size - 1 |-> IF i >= c.w /\ i < c.w + Len(p)
                                          THEN p[i - c.w + 1] ELSE c.buf[i]]
    BY <1>2, <1>b DEF Copy
  <2>2. DOMAIN head = 0 .. c.size - 1 /\ \A i \in 0 .. c.size - 1 : ~(i >= 0 /\ i < 0 + Len(<<>>))
    BY <1>2, <2>1
  <2>3. Copy(head, 0, <<>>) = [i \in DOMAIN head |-> head[i]]
    BY <2>2 DEF Copy
  <2> QED
    BY <2>1, <2>2, <2>3
<1>7. Fill(c, p) = [c EXCEPT !.buf = head, !.w = IF c.w + 1 = c.size THEN 0 ELSE c.w + 1,
                             !.isEmpty = FALSE]
  <2>a. PICK k : k = IF c.w >= c.r /\ c.size - c.w < Len(p) THEN c.size - c.w ELSE Len(p)
    OBVIOUS
  <2>b. PICK end : end = IF k < Len(p) THEN Len(p) - k ELSE c.w + Len(p)
    OBVIOUS
  <2>1. Fill(c, p)
          = [c EXCEPT !.buf = Copy(Copy(c.buf, c.w, SubSeq(p, 1, k)), 0, SubSeq(p, k + 1, Len(p))),
                      !.w = IF end = c.size THEN 0 ELSE end, !.isEmpty = FALSE]
    BY <2>a, <2>b DEF Fill
  <2>2. k = 1
    BY <1>1, <1>3, <2>a
  <2>3. end = c.w + 1
    BY <1>1, <2>2, <2>b
  <2>4. Copy(Copy(c.buf, c.w, SubSeq(p, 1, k)), 0, SubSeq(p, k + 1, Len(p))) = head
    BY <1>1, <1>4, <1>5, <1>6, <1>b, <2>2
  <2> QED
    BY <2>1, <2>3, <2>4
<1>8. AddByte(c, x) = [c EXCEPT !.buf = head, !.w = IF c.w + 1 = c.size THEN 0 ELSE c.w + 1,
                       !.isEmpty = FALSE]
  BY <1>2, <1>a, <1>b DEF Ring, AddByte
<1> QED
  BY <1>7, <1>8, <1>a

(* WriteByte is Write of one byte. *)
LEMMA WriteByteIsWrite ==
  ASSUME NEW b, RingOK(b), NEW x \in Byte
  PROVE  WriteByte(b, x) = Write(b, <<x>>)
<1>1. b.size \in Nat /\ Length(b) \in 0 .. b.size /\ free(b) = b.size - Length(b)
  BY Lengths DEF RingOK, Placed, Ring
<1>2. <<x>> \in Seq(Byte) /\ Len(<<x>>) = 1
  OBVIOUS
<1>3. CASE ~(free(b) < 1)
  <2>1. Room(b, Data(b), Ahead(b), 1)
    BY <1>3, FreeRoom
  <2>2. Write(b, <<x>>) = Fill(b, <<x>>)
    BY <1>2, <1>3 DEF Write, Fill
  <2> QED
    <3>1. WriteByte(b, x) = AddByte(b, x)
      BY <1>3 DEF WriteByte, AddByte
    <3> QED
      BY <2>1, <2>2, <3>1, FillByte
<1>4. CASE free(b) < 1
  <2>a. PICK c : c = makeSpace(b, 1)
    OBVIOUS
  <2>1. free(b) = 0 /\ b.size + 1 - Length(b) = 1 /\ 1 - free(b) = 1
    BY <1>1, <1>4
  <2>2. Room(c, Data(b), Ahead(b), 1)
    BY <2>1, <2>a, MakeSpaceRoom
  <2>3. Write(b, <<x>>) = Fill(c, <<x>>)
    BY <1>2, <1>4, <2>1, <2>a DEF Write, Fill
  <2>4. WriteByte(b, x) = AddByte(c, x)
    BY <1>4, <2>a DEF WriteByte, AddByte
  <2> QED
    BY <2>2, <2>3, <2>4, FillByte
<1> QED
  BY <1>3, <1>4
-----------------------------------------------------------------------------
(* The buffer as a queue *)

(* The inductive invariant. *)
RingInv == RingOK(rb) /\ ret \in Seq(Byte)

(* What an action needs to show: the invariant, and its step of ByteQueue   *)
(* on what the new buffer holds.                                            *)
LEMMA NextContent == Content' = Data(rb') /\ (Length(rb) - VirtualLength(rb))' = Ahead(rb')
                     /\ Content = Data(rb) /\ Length(rb) - VirtualLength(rb) = Ahead(rb)
BY DEF Content, Data, Ahead

(* New makes an empty queue. *)
LEMMA RingInit == Init => RingInv /\ BQ!Init
<1> SUFFICES ASSUME Init PROVE RingInv /\ BQ!Init
  OBVIOUS
<1>1. RingOK(rb) /\ Data(rb) = <<>> /\ Ahead(rb) = 0 /\ ret = <<>>
  BY NewKeeps DEF Init
<1>2. ret \in Seq(Byte)
  BY <1>1
<1> QED
  BY <1>1, <1>2, NextContent DEF RingInv, BQ!Init

(* The chunks of bytes that are written. *)
LEMMA ChunksAreBytes ==
  /\ \A p \in Chunks : p \in Seq(Byte) /\ p # <<>> /\ p \in BQ!Chunks
  /\ <<>> \in Seq(Byte) /\ <<>> \in BQ!Chunks
  /\ \A x \in Byte : <<x>> \in Seq(Byte) /\ <<x>> \in BQ!Chunks
<1>1. MaxLen \in Nat \ {0}
  BY RingBufferAssumption
<1>2. ASSUME NEW p \in Chunks PROVE p \in Seq(Byte) /\ p # <<>> /\ p \in BQ!Chunks
  <2>1. PICK n \in 1 .. MaxLen : p \in [1 .. n -> Byte]
    BY DEF Chunks
  <2>2. n \in Nat /\ n \in 0 .. MaxLen /\ n # 0
    BY <1>1
  <2>3. p \in Seq(Byte) /\ Len(p) = n
    BY <2>1, <2>2
  <2> QED
    BY <2>1, <2>2, <2>3, EmptySeq DEF BQ!Chunks
<1>3. <<>> \in BQ!Chunks
  <2>1. <<>> \in [1 .. 0 -> Byte] /\ 0 \in 0 .. MaxLen
    BY <1>1
  <2> QED
    BY <2>1 DEF BQ!Chunks
<1>4. ASSUME NEW x \in Byte PROVE <<x>> \in BQ!Chunks
  <2>1. <<x>> \in [1 .. 1 -> Byte] /\ 1 \in 0 .. MaxLen
    BY <1>1
  <2> QED
    BY <2>1 DEF BQ!Chunks
<1> QED
  BY <1>2, <1>3, <1>4

(* Writes. *)
LEMMA WriteStep ==
  ASSUME RingInv, DoWrite \/ DoWriteByte \/ DoWithData
  PROVE  RingInv' /\ BQ!Next
<1>1. ASSUME NEW p \in Seq(Byte), p \in BQ!Chunks, rb' = Write(rb, p), ret' = <<>>
      PROVE  RingInv' /\ BQ!Next
  <2>1. RingOK(rb') /\ Data(rb') = Data(rb) \o p /\ Ahead(rb') = Ahead(rb)
    BY <1>1, WriteKeeps DEF RingInv
  <2>2. RingInv'
    BY <1>1, <2>1 DEF RingInv
  <2>3. BQ!Write(p)
    BY <1>1, <2>1, NextContent DEF BQ!Write
  <2> QED
    BY <1>1, <2>2, <2>3 DEF BQ!Next
<1>2. CASE DoWrite
  BY <1>1, <1>2, ChunksAreBytes DEF DoWrite
<1>3. CASE DoWriteByte
  <2>1. PICK x \in Byte : rb' = WriteByte(rb, x) /\ ret' = <<>>
    BY <1>3 DEF DoWriteByte
  <2>2. rb' = Write(rb, <<x>>)
    BY <2>1, WriteByteIsWrite DEF RingInv
  <2> QED
    BY <1>1, <2>1, <2>2, ChunksAreBytes
<1>4. CASE DoWithData
  <2>1. PICK p \in Chunks : rb' = WithData(p) /\ ret' = <<>>
    BY <1>4 DEF DoWithData
  <2>2. p \in Seq(Byte) /\ p # <<>> /\ p \in BQ!Chunks
    BY ChunksAreBytes
  <2>3. RingOK(rb') /\ Data(rb') = p /\ Ahead(rb') = 0
    BY <2>1, <2>2, WithDataKeeps
  <2>4. RingInv'
    BY <2>1, <2>3 DEF RingInv
  <2>5. BQ!Replace(p)
    BY <2>1, <2>3, NextContent DEF BQ!Replace
  <2> QED
    BY <2>2, <2>4, <2>5 DEF BQ!Next
<1> QED
  BY <1>2, <1>3, <1>4

(* Reads, and looks at what there is. *)
LEMMA ReadStep ==
  ASSUME RingInv, DoRead \/ DoReadByte \/ DoRetrieve \/ DoRetrieveAll \/ DoPeek
  PROVE  RingInv' /\ BQ!Next
<1>1. /\ RingOK(rb) /\ Length(rb) \in Nat /\ Data(rb) \in Seq(Byte) /\ ret \in Seq(Byte)
      /\ Len(Data(rb)) = Length(rb) /\ rb.size \in Nat /\ MaxLen \in Nat \ {0}
  <2>1. rb.size \in Nat /\ Length(rb) \in 0 .. rb.size /\ 0 \in 0 .. Length(rb)
    BY Lengths DEF RingInv, RingOK, Placed, Ring
  <2> QED
    BY <2>1, DataParts, RingBufferAssumption DEF RingInv
<1>2. \A n \in Nat : /\ Least(n, Length(rb)) \in 0 .. Length(rb)
                     /\ BQ!AtMost(n, Len(Data(rb))) = Least(n, Length(rb))
  BY <1>1 DEF Least, BQ!AtMost
<1>3. ASSUME NEW n \in Nat PROVE SubSeq(Data(rb), 1, Least(n, Length(rb))) \in Seq(Byte)
  <2>a. PICK k : k = Least(n, Length(rb))
    OBVIOUS
  <2>1. 1 \in 1 .. Len(Data(rb)) + 1 /\ k \in 1 - 1 .. Len(Data(rb))
    BY <1>1, <1>2, <2>a
  <2> QED
    BY <1>1, <2>1, <2>a, PartElements
<1>4. ASSUME NEW n \in 0 .. MaxLen + 1, rb' = Read(rb, n), ret' = PeekBytes(rb, n)
      PROVE  RingInv' /\ BQ!Next
  <2>a. PICK k : k = Least(n, Length(rb))
    OBVIOUS
  <2>1. n \in Nat /\ k \in Nat
    BY <1>1, <1>2, <2>a
  <2>2. /\ RingOK(rb') /\ ret' = SubSeq(Data(rb), 1, k)
        /\ Data(rb') = SubSeq(Data(rb), k + 1, Len(Data(rb)))
        /\ Ahead(rb') = IF k = 0 THEN Ahead(rb) ELSE 0
    BY <1>1, <1>4, <2>1, <2>a, ReadKeeps
  <2>3. RingInv'
    BY <1>3, <2>1, <2>2, <2>a DEF RingInv
  <2>4. BQ!AtMost(n, Len(Data(rb))) = k
    BY <1>2, <2>1, <2>a
  <2>5. BQ!Read(n)
    BY <2>2, <2>4, NextContent DEF BQ!Read, BQ!First, BQ!Drop
  <2> QED
    BY <1>4, <2>3, <2>5 DEF BQ!Next
<1>5. CASE DoRead
  BY <1>4, <1>5 DEF DoRead
<1>6. CASE DoReadByte
  <2>1. rb' = Read(rb, 1) /\ ret' = PeekBytes(rb, 1)
    BY <1>1, <1>6, ReadByteKeeps DEF DoReadByte
  <2>2. 1 \in 0 .. MaxLen + 1
    BY <1>1
  <2> QED
    BY <1>4, <2>1, <2>2
<1>7. CASE DoRetrieve
  <2>1. PICK n \in 0 .. MaxLen + 1 : rb' = Retrieve(rb, n) /\ ret' = <<>>
    BY <1>7 DEF DoRetrieve
  <2>a. PICK k : k = Least(n, Length(rb))
    OBVIOUS
  <2>2. n \in Nat /\ k \in Nat
    BY <1>1, <1>2, <2>a
  <2>3. /\ RingOK(rb') /\ Data(rb') = SubSeq(Data(rb), k + 1, Len(Data(rb)))
        /\ Ahead(rb') = IF k = 0 THEN Ahead(rb) ELSE 0
    BY <1>1, <2>1, <2>2, <2>a, RetrieveKeeps
  <2>4. RingInv'
    BY <2>1, <2>3 DEF RingInv
  <2>5. BQ!AtMost(n, Len(Data(rb))) = k
    BY <1>2, <2>2, <2>a
  <2>6. BQ!Retrieve(n)
    BY <2>1, <2>3, <2>5, NextContent DEF BQ!Retrieve, BQ!Drop
  <2> QED
    BY <2>4, <2>6 DEF BQ!Next
<1>8. CASE DoRetrieveAll
  <2>1. RingOK(rb') /\ Data(rb') = <<>> /\ Ahead(rb') = 0 /\ ret' = <<>>
    BY <1>1, <1>8, RetrieveAllKeeps DEF DoRetrieveAll
  <2>2. RingInv'
    BY <2>1 DEF RingInv
  <2>3. BQ!Clear
    BY <2>1, NextContent DEF BQ!Clear
  <2> QED
    BY <2>2, <2>3 DEF BQ!Next
<1>9. CASE DoPeek
  <2>1. rb' = rb
    BY <1>9 DEF DoPeek
  <2>2. UNCHANGED <<Content, Length(rb) - VirtualLength(rb)>>
    BY <2>1, NextContent
  <2>3. ASSUME ret' \in Seq(Byte) PROVE RingInv'
    BY <1>1, <2>1, <2>3 DEF RingInv
  <2>4. ASSUME NEW n \in Nat
        PROVE  PeekBytes(rb, n) = SubSeq(Data(rb), 1, Least(n, Length(rb)))
    <3>a. PICK k : k = Least(n, Length(rb))
      OBVIOUS
    <3>1. k \in Nat
      BY <1>1, <1>2, <3>a
    <3> QED
      BY <1>1, <3>1, <3>a, ReadKeeps
  <2>5. ASSUME NEW n \in 0 .. MaxLen + 1, ret' = PeekBytes(rb, n)
        PROVE  RingInv' /\ BQ!Next
    <3>1. n \in Nat
      BY <1>1
    <3>2. BQ!Peek(n)
      BY <1>2, <2>2, <2>4, <2>5, <3>1, NextContent DEF BQ!Peek, BQ!First
    <3> QED
      BY <1>3, <2>3, <2>4, <2>5, <3>1, <3>2 DEF BQ!Next
  <2>6. ASSUME NEW n \in {1, 2, 4, 8}, ret' = PeekUint(rb, n)
        PROVE  RingInv' /\ BQ!Next
    <3>1. n \in Nat /\ (~(Length(rb) < n) => Least(n, Length(rb)) = n)
      BY <1>1 DEF Least
    <3>2. ret' = IF Length(rb) < n THEN <<>> ELSE SubSeq(Data(rb), 1, n)
      <4>1. PeekBytes(rb, n) = SubSeq(Data(rb), 1, Least(n, Length(rb)))
        BY <2>4, <3>1
      <4> QED
        BY <2>6, <3>1, <4>1 DEF PeekUint
    <3>3. BQ!PeekUint(n)
      BY <1>1, <2>2, <3>2, NextContent DEF BQ!PeekUint, BQ!First
    <3>4. ret' \in Seq(Byte)
      BY <1>3, <3>1, <3>2, EmptySeq
    <3> QED
      BY <2>3, <3>3, <3>4 DEF BQ!Next
  <2>7. ASSUME ret' = Bytes(rb) PROVE RingInv' /\ BQ!Next
    <3>1. ret' = Data(rb)
      <4>1. CASE rb.isEmpty
        BY <1>1, <2>7, <4>1, Lengths, EmptySeq DEF Bytes
      <4>2. CASE ~rb.isEmpty
        BY <2>7, <4>2 DEF Bytes, Data
      <4> QED
        BY <4>1, <4>2
    <3>2. BQ!Bytes
      BY <2>2, <3>1, NextContent DEF BQ!Bytes
    <3> QED
      BY <1>1, <2>3, <3>1, <3>2 DEF BQ!Next
  <2> QED
    BY <1>9, <2>5, <2>6, <2>7 DEF DoPeek
<1> QED
  BY <1>5, <1>6, <1>7, <1>8, <1>9

(* Tentative reads that stop short of the end. *)
LEMMA VirtualStep ==
  ASSUME RingInv, ~AnyCall, DoVirtualRead \/ DoVirtualFlush \/ DoVirtualRevert
  PROVE  RingInv' /\ BQ!Next
<1>1. /\ RingOK(rb) /\ Data(rb) \in Seq(Byte) /\ Len(Data(rb)) = Length(rb)
      /\ Length(rb) \in Nat /\ Ahead(rb) \in 0 .. Length(rb) /\ VirtualLength(rb) \in Nat
      /\ Length(rb) - Ahead(rb) = VirtualLength(rb) /\ MaxLen \in Nat \ {0}
  <2>1. /\ rb.size \in Nat /\ Length(rb) \in 0 .. rb.size /\ 0 \in 0 .. Length(rb)
        /\ VirtualLength(rb) \in 0 .. Length(rb) /\ Ahead(rb) \in 0 .. Length(rb)
    BY Lengths DEF RingInv, RingOK, Placed, Ring
  <2>2. Data(rb) \in Seq(Byte) /\ Len(Data(rb)) = Length(rb)
    BY <2>1, DataParts DEF RingInv
  <2>3. Length(rb) - Ahead(rb) = VirtualLength(rb)
    BY <2>1 DEF Ahead
  <2> QED
    BY <2>1, <2>2, <2>3, RingBufferAssumption DEF RingInv
<1>2. CASE DoVirtualRead
  <2>1. PICK n \in 0 .. MaxLen : /\ n < VirtualLength(rb) /\ rb' = VirtualRead(rb, n)
                                 /\ ret' = Slice(rb, rb.vr, Available(rb, rb.vr, n))
    BY <1>2 DEF DoVirtualRead
  <2>2. n \in Nat /\ n \in 0 .. MaxLen + 1
    BY <1>1
  <2>3. /\ RingOK(rb') /\ Data(rb') = Data(rb) /\ Ahead(rb') = Ahead(rb) + n
        /\ ret' = SubSeq(Data(rb), Ahead(rb) + 1, Ahead(rb) + n)
    BY <1>1, <2>1, <2>2, VirtualReadKeeps
  <2>4. ret' \in Seq(Byte)
    <3>a. PICK m : m = Ahead(rb) + 1
      OBVIOUS
    <3>b. PICK j : j = Ahead(rb) + n
      OBVIOUS
    <3>1. m \in 1 .. Len(Data(rb)) + 1 /\ j \in m - 1 .. Len(Data(rb))
      BY <1>1, <2>1, <2>2, <3>a, <3>b
    <3>2. SubSeq(Data(rb), m, j) \in Seq(Byte)
      BY <1>1, <3>1, PartElements
    <3> QED
      BY <2>3, <3>2, <3>a, <3>b
  <2>5. RingInv'
    BY <2>3, <2>4 DEF RingInv
  <2>6. BQ!AtMost(n, Len(Data(rb)) - Ahead(rb)) = n
    BY <1>1, <2>1, <2>2 DEF BQ!AtMost
  <2>7. BQ!VirtualRead(n)
    BY <2>3, <2>6, NextContent DEF BQ!VirtualRead
  <2> QED
    BY <2>2, <2>5, <2>7 DEF BQ!Next
<1>3. CASE DoVirtualFlush
  <2>1. ~FullUnread(rb) /\ rb' = VirtualFlush(rb) /\ ret' = <<>>
    BY <1>3 DEF DoVirtualFlush
  <2>2. /\ RingOK(rb') /\ Ahead(rb') = 0
        /\ Data(rb') = SubSeq(Data(rb), Ahead(rb) + 1, Len(Data(rb)))
    <3>1. CASE rb.vr # rb.r
      BY <1>1, <2>1, <3>1, VirtualFlushKeeps
    <3>2. CASE rb.vr = rb.r
      <4>1. rb' = rb /\ Ahead(rb) = 0
        BY <1>1, <2>1, <3>2, FlushOfNothing
      <4>2. SubSeq(Data(rb), 1, Len(Data(rb))) = Data(rb)
        BY <1>1
      <4> QED
        BY <1>1, <4>1, <4>2
    <3> QED
      BY <3>1, <3>2
  <2>3. RingInv'
    BY <2>1, <2>2 DEF RingInv
  <2>4. BQ!VirtualFlush
    BY <2>1, <2>2, NextContent DEF BQ!VirtualFlush, BQ!Drop
  <2> QED
    BY <2>3, <2>4 DEF BQ!Next
<1>4. CASE DoVirtualRevert
  <2>1. RingOK(rb') /\ Ahead(rb') = 0 /\ Data(rb') = Data(rb) /\ ret' = <<>>
    BY <1>1, <1>4, VirtualRevertKeeps DEF DoVirtualRevert
  <2>2. RingInv'
    BY <2>1 DEF RingInv
  <2>3. BQ!VirtualRevert
    BY <2>1, NextContent DEF BQ!VirtualRevert
  <2> QED
    BY <2>2, <2>3 DEF BQ!Next
<1> QED
  BY <1>2, <1>3, <1>4

(* Every step keeps the invariant and is a step of the queue. *)
LEMMA RingStep ==
  ASSUME ~AnyCall
  PROVE  RingInv /\ [Next]_vars => RingInv' /\ [BQ!Next]_BQ!bqVars
<1> SUFFICES ASSUME RingInv, [Next]_vars PROVE RingInv' /\ [BQ!Next]_BQ!bqVars
  OBVIOUS
<1>1. CASE Next
  BY <1>1, WriteStep, ReadStep, VirtualStep DEF Next
<1>2. CASE UNCHANGED vars
  <2>1. rb' = rb /\ ret' = ret
    BY <1>2 DEF vars
  <2> QED
    BY <2>1, NextContent DEF RingInv, BQ!bqVars
<1> QED
  BY <1>1, <1>2

(* Of callers whose tentative reads stop short of the last byte and that    *)
(* flush no full buffer of which they have not read (VirtualRead and        *)
(* VirtualFlush of ringbuffer.go, lines 45-91, lose the data of the         *)
(* others): every call of the methods of RingBuffer leaves its cursors      *)
(* where RingOK says, so an empty buffer and a full one, which have r = w   *)
(* in common, are never mistaken.                                           *)
THEOREM RingInvariant ==
  ASSUME ~AnyCall
  PROVE  Spec => []RingInv
BY RingInit, RingStep, PTL DEF Spec

(* TypeOK: with these callers no cursor of ringbuffer.go leaves the array,  *)
(* whatever the size, the writes and the reads.                             *)
THEOREM RingTypes ==
  ASSUME ~AnyCall
  PROVE  Spec => []TypeOK
<1>1. RingInv => TypeOK
  <2> SUFFICES ASSUME RingInv PROVE TypeOK
    OBVIOUS
  <2>1. /\ rb.size \in Nat /\ rb.r \in Nat /\ rb.w \in Nat /\ rb.vr \in Nat
        /\ rb.isEmpty \in BOOLEAN /\ rb.buf \in [0 .. rb.size - 1 -> Byte] /\ ret \in Seq(Byte)
        /\ rb.size = 0 => rb.r = 0 /\ rb.w = 0 /\ rb.vr = 0
        /\ rb.size > 0 => rb.r < rb.size /\ rb.w < rb.size /\ rb.vr < rb.size
    BY DEF RingInv, RingOK, Placed, Ring
  <2>2. \A p \in {rb.r, rb.w, rb.vr} : p = 0 \/ p \in 0 .. rb.size - 1
    BY <2>1
  <2> QED
    BY <2>1, <2>2 DEF TypeOK
<1> QED
  BY RingInvariant, <1>1, PTL

(* ImplementsByteQueue: with its wrap around and its growth in makeSpace,   *)
(* the ring answers every call as a queue of bytes with a tentative cursor  *)
(* does, but for the two calls that ~AnyCall leaves out: a tentative read   *)
(* of the last byte, and the flush of a full buffer that has not been read. *)
THEOREM RingImplementsByteQueue ==
  ASSUME ~AnyCall
  PROVE  Spec => ImplementsByteQueue
<1>1. RingInv /\ [Next]_vars => [BQ!Next]_BQ!bqVars
  BY RingStep
<1>2. Init => BQ!Init
  BY RingInit
<1> QED
  BY <1>1, <1>2, RingInvariant, PTL DEF Spec, ImplementsByteQueue, BQ!Spec
=============================================================================
