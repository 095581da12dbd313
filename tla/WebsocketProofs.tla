--------------------------- MODULE WebsocketProofs ---------------------------
(***************************************************************************)
(* Theorems about Handshake and Websocket, for any requests, any Upgrader, *)
(* any frames and masks.  For any cut of the reads but those in a frame's  *)
(* header that CleanCut excludes: what OnMessage is given is what the client has sent, and what *)
(* the client reads is what OnMessage has answered.  For any cut: only     *)
(* acceptable requests, and those whose version asciiToInt misreads, are   *)
(* let in, with the right response, and an acceptable one is refused only  *)
(* when a part of it is missing.                                           *)
(*                                                                         *)
(* RP has the lemmas of RingBufferProofs about the two buffers.            *)
(***************************************************************************)
EXTENDS Websocket, DataLemmas

RP == INSTANCE RingBufferProofs WITH rb <- inBuf, ret <- <<>>, MaxLen <- PacketSize,
                                     MaxSize <- 0, AnyCall <- TRUE

(* What the client may send, what OnMessage is given and what it returns.   *)
Masked == UNION {Sends[k] : k \in 1 .. Len(Sends)}
Messages == [op : 0 .. 15, payload : Seq(Byte)]
Short == {f \in Messages : Len(f.payload) < Huge}

Plain(f) == [op |-> f.op, payload |-> f.payload]

ClientFrames(s) == [k \in 1 .. Len(s) |-> ClientFrame(s[k])]
ServerFrames(s) == [k \in 1 .. Len(s) |-> FrameToBytes(s[k])]

(* The bytes of the frames behind the first m. *)
FramesAfter(s, m) == FlattenSeq(ClientFrames(SubSeq(s, m + 1, Len(s))))

(* The bytes that have been read and not been taken off, and those that     *)
(* have not been taken off, read or not.                                    *)
Held == RP!Data(Buffer)

Pending ==
  IF upgraded THEN FramesAfter(sent, Len(msgs)) ELSE RequestBytes \o FramesAfter(sent, 0)
-----------------------------------------------------------------------------
(* The invariant *)

DataInv ==
  /\ sent \in Seq(Masked) /\ msgs \in Seq(Messages) /\ answers \in Seq(Short)
  /\ stream \in Seq(Byte) /\ wire \in Seq(Byte) /\ reply \in Seq(Byte)
  /\ hdr \in Seq(Byte) /\ Len(hdr) = 12
  /\ cur \in {"none", "buf", "inBuf"}
  /\ {upgraded, shut, closed, fatal} \subseteq BOOLEAN

(* c.buf is there only in a read that has found inBuf empty, and does not   *)
(* wrap around.                                                             *)
BufferInv ==
  /\ RP!RingOK(buf) /\ RP!Ahead(buf) = 0 /\ RP!RingOK(inBuf) /\ RP!Ahead(inBuf) = 0
  /\ cur = "none" => buf = RB!New(0)
  /\ cur = "buf" => buf.w = 0 /\ inBuf.isEmpty

(* No read has ended where CleanCut does not let it. *)
CutInv ==
  LET at == Start[Len(sent) + 1] - Len(stream)
  IN \A k \in 1 .. Len(sent) :
       at < Start[k + 1] => at - Start[k] \notin 6 .. HeaderLen(sent[k])

(* OnMessage has been given the first frames, and the others are still      *)
(* there; between two reads the next of them has not arrived.               *)
InputInv ==
  /\ Len(msgs) <= Len(sent) /\ \A k \in 1 .. Len(msgs) : msgs[k] = Plain(sent[k])
  /\ Held \o stream = Pending
  /\ Len(Held) + Len(stream)
       = Start[Len(sent) + 1] - IF upgraded THEN Start[Len(msgs) + 1] ELSE 0
  /\ ~upgraded => msgs = <<>> /\ (cur = "none" => Held = <<>>)
  /\ cur = "none" /\ upgraded /\ Len(msgs) < Len(sent) =>
       Len(Held) < Len(ClientFrame(sent[Len(msgs) + 1]))

(* What has been written, and what this read will write. *)
OutputInv ==
  /\ ~closed => wire \o reply = (IF upgraded THEN ResponseBytes ELSE <<>>)
                                  \o FlattenSeq(ServerFrames(answers))
  /\ cur = "none" => reply = <<>>
  /\ closed => cur = "none"
  /\ ~upgraded => answers = <<>> /\ ~closed

(* The request has been let in by Upgraded, and no frame is fatal. *)
ShakeInv ==
  LET result == Upgraded(request.req, request.app)
  IN /\ request \in Requests
     /\ response = IF upgraded THEN <<Response(result)>> ELSE <<>>
     /\ upgraded => result.err = "none"
     /\ fatal => ~upgraded

WebsocketInv == DataInv /\ BufferInv /\ CutInv /\ InputInv /\ OutputInv /\ ShakeInv
-----------------------------------------------------------------------------
(* Bytes *)

(* A byte, without the interval written out.                                *)
LEMMA ByteIs ==
  ASSUME NEW x
  PROVE  x \in Byte <=> x \in Nat /\ x <= 255
BY DEF Byte

(* One bit of a byte. *)
Bit(a, w) == (a \div w) % 2

(* A byte is the sum of its bits. *)
LEMMA ByteOfBits ==
  ASSUME NEW a \in Byte
  PROVE  /\ \A w \in {1, 2, 4, 8, 16, 32, 64, 128} : Bit(a, w) \in {0, 1}
         /\ a = Bit(a, 1) + 2 * Bit(a, 2) + 4 * Bit(a, 4) + 8 * Bit(a, 8) + 16 * Bit(a, 16)
                  + 32 * Bit(a, 32) + 64 * Bit(a, 64) + 128 * Bit(a, 128)
<1>1. a \in Nat /\ a <= 255
  BY ByteIs
<1> QED
  BY <1>1 DEF Bit

(* Bits are those of their sum. *)
LEMMA BitsOfByte ==
  ASSUME NEW x1 \in {0, 1}, NEW x2 \in {0, 1}, NEW x3 \in {0, 1}, NEW x4 \in {0, 1},
         NEW x5 \in {0, 1}, NEW x6 \in {0, 1}, NEW x7 \in {0, 1}, NEW x8 \in {0, 1},
         NEW x, x = x1 + 2 * x2 + 4 * x3 + 8 * x4 + 16 * x5 + 32 * x6 + 64 * x7 + 128 * x8
  PROVE  /\ x \in Byte
         /\ Bit(x, 1) = x1 /\ Bit(x, 2) = x2 /\ Bit(x, 4) = x3 /\ Bit(x, 8) = x4
         /\ Bit(x, 16) = x5 /\ Bit(x, 32) = x6 /\ Bit(x, 64) = x7 /\ Bit(x, 128) = x8
BY ByteIs DEF Bit

(* One bit of XorBit.                                                       *)
LEMMA XorBits ==
  ASSUME NEW a \in Byte, NEW b \in Byte, NEW w \in {1, 2, 4, 8, 16, 32, 64, 128}
  PROVE  XorBit(a, b, w) = w * ((Bit(a, w) + Bit(b, w)) % 2)
<1>1. a \div w \in Nat /\ b \div w \in Nat
  BY ByteIs
<1>2. \A m, n \in Nat : (m + n) % 2 = ((m % 2) + (n % 2)) % 2
  OBVIOUS
<1> QED
  BY <1>1, <1>2 DEF XorBit, Bit

(* Xor gives a byte, and twice with the same byte undoes it. *)
LEMMA XorTwice ==
  ASSUME NEW a \in Byte, NEW b \in Byte
  PROVE  Xor(a, b) \in Byte /\ Xor(Xor(a, b), b) = a
<1> DEFINE s(m, n) == (m + n) % 2
           x(w) == s(Bit(a, w), Bit(b, w))
<1>1. \A w \in {1, 2, 4, 8, 16, 32, 64, 128} : Bit(a, w) \in {0, 1} /\ Bit(b, w) \in {0, 1}
  BY ByteOfBits
<1>2. \A m, n \in {0, 1} : s(m, n) \in {0, 1} /\ s(s(m, n), n) = m
  OBVIOUS
<1>3. \A w \in {1, 2, 4, 8, 16, 32, 64, 128} :
        x(w) \in {0, 1} /\ s(x(w), Bit(b, w)) = Bit(a, w) /\ XorBit(a, b, w) = w * x(w)
  <2> TAKE w \in {1, 2, 4, 8, 16, 32, 64, 128}
  <2>1. XorBit(a, b, w) = w * x(w)
    BY XorBits
  <2> HIDE DEF s
  <2> QED
    BY <1>1, <1>2, <2>1
<1> HIDE DEF x
<1>4. Xor(a, b) = x(1) + 2 * x(2) + 4 * x(4) + 8 * x(8) + 16 * x(16) + 32 * x(32)
                    + 64 * x(64) + 128 * x(128)
  BY <1>3 DEF Xor
<1>5. /\ Xor(a, b) \in Byte
      /\ \A w \in {1, 2, 4, 8, 16, 32, 64, 128} : Bit(Xor(a, b), w) = x(w)
  BY <1>3, <1>4, BitsOfByte
<1>6. PICK c \in Byte : c = Xor(a, b)
  BY <1>5
<1>7. \A w \in {1, 2, 4, 8, 16, 32, 64, 128} : XorBit(c, b, w) = w * Bit(a, w)
  <2> TAKE w \in {1, 2, 4, 8, 16, 32, 64, 128}
  <2>1. XorBit(c, b, w) = w * s(Bit(c, w), Bit(b, w))
    BY XorBits
  <2> HIDE DEF s
  <2> QED
    BY <1>3, <1>5, <1>6, <2>1
<1>8. Xor(c, b) = a
  BY <1>1, <1>7, ByteOfBits DEF Xor
<1> QED
  BY <1>5, <1>6, <1>8

(* Two times the mask is a word of eight.                                   *)
LEMMA EightIsTwoFours == \A j \in Nat : (j % 8) % 4 = j % 4
<1> TAKE j \in Nat
<1>1. PICK d \in Nat, r \in 0 .. 7 : j = 8 * d + r /\ j % 8 = r
  <2>1. j \div 8 \in Nat
    OBVIOUS
  <2>2. j - 8 * (j \div 8) \in 0 .. 7
    OBVIOUS
  <2>3. j % 8 = j - 8 * (j \div 8)
    OBVIOUS
  <2> QED
    BY <2>1, <2>2, <2>3
<1>2. (8 * d + r) % 4 = r % 4
  OBVIOUS
<1> QED
  BY <1>1, <1>2

(* Cipher with offset 0 is the masking of the client, whatever it does word *)
(* by word, and undoes it.                                                  *)
LEMMA CipherUnmasks ==
  ASSUME NEW p \in Seq(Byte), NEW mask \in Seq(Byte), Len(mask) = 4,
         NEW q, q = [i \in DOMAIN p |-> Xor(p[i], mask[1 + ((i - 1) % 4)])]
  PROVE  q \in Seq(Byte) /\ Len(q) = Len(p) /\ Cipher(q, mask, 0) = p
<1>0. Len(p) \in Nat /\ DOMAIN p = 1 .. Len(p) /\ \A i \in 1 .. Len(p) : p[i] \in Byte
  BY LenProperties, ElementOfSeq
<1>1. \A i \in 1 .. Len(p) : 1 + ((i - 1) % 4) \in 1 .. 4
  BY <1>0
<1>2. \A j \in 1 .. 4 : mask[j] \in Byte
  BY ElementOfSeq
<1>3. ASSUME NEW i \in 1 .. Len(p)
      PROVE  /\ q[i] = Xor(p[i], mask[1 + ((i - 1) % 4)]) /\ q[i] \in Byte
             /\ Xor(q[i], mask[1 + ((i - 1) % 4)]) = p[i]
  <2>1. PICK a \in Byte : a = p[i]
    BY <1>0
  <2>2. PICK b \in Byte : b = mask[1 + ((i - 1) % 4)]
    BY <1>1, <1>2
  <2>3. q[i] = Xor(a, b)
    BY <1>0, <2>1, <2>2
  <2> QED
    BY <2>1, <2>2, <2>3, XorTwice
<1>4. q \in [1 .. Len(p) -> Byte]
  BY <1>0, <1>3
<1>5. q \in Seq(Byte) /\ Len(q) = Len(p)
  BY <1>0, <1>4
<1> DEFINE n == Len(q)
           mpos == 0 % 4
           ln == IF n < 8 THEN n ELSE (4 - mpos) % 4
           rn == (n - ln) % 8
           at(i) == (IF i <= ln \/ i > n - rn THEN mpos + i - 1 ELSE (i - ln - 1) % 8) % 4
<1>6. Cipher(q, mask, 0) = [i \in 1 .. n |-> Xor(q[i], mask[1 + at(i)])]
  BY DEF Cipher
<1>7. ASSUME NEW i \in 1 .. n PROVE at(i) = (i - 1) % 4
  <2>1. mpos = 0 /\ n \in Nat
    BY <1>0, <1>5
  <2> HIDE DEF mpos, n
  <2>2. ln \in Nat /\ (n < 8 => ln = n) /\ (~(n < 8) => ln = 0)
    BY <2>1
  <2>3. ((i - 1) % 8) % 4 = (i - 1) % 4
    <3>1. i - 1 \in Nat
      BY <2>1
    <3> QED
      BY <3>1, EightIsTwoFours
  <2>4. at(i) = (IF i <= ln \/ i > n - rn THEN i - 1 ELSE (i - 1) % 8) % 4
    <3> HIDE DEF ln, rn
    <3> QED
      BY <2>1, <2>2
  <2> HIDE DEF ln, rn, at
  <2> QED
    BY <2>3, <2>4
<1> HIDE DEF at
<1>8. \A i \in 1 .. n : Xor(q[i], mask[1 + at(i)]) = p[i]
  BY <1>3, <1>5, <1>7
<1>9. p = [i \in 1 .. n |-> p[i]]
  BY <1>0, <1>5
<1>10. [i \in 1 .. n |-> Xor(q[i], mask[1 + at(i)])] = [i \in 1 .. n |-> p[i]]
  BY <1>8
<1> HIDE DEF n
<1>11. Cipher(q, mask, 0) = p
  BY <1>6, <1>9, <1>10, Zenon
<1> QED
  BY <1>5, <1>11
-----------------------------------------------------------------------------
(* Headers *)

(* What the assumption says of Len7 and Len16.                              *)
LEMMA LengthBounds ==
  /\ Len7 \in Nat /\ 1 <= Len7 /\ Len7 <= 125
  /\ Len16 \in Nat /\ Len7 <= Len16 /\ Len16 <= 65535
BY WebsocketAssumption

(* Sequences written out. *)
LEMMA PairOfBytes ==
  ASSUME NEW x \in Byte, NEW y \in Byte
  PROVE  /\ <<x>> \in Seq(Byte) /\ <<x, y>> \in Seq(Byte) /\ Len(<<x, y>>) = 2
         /\ <<x, y>>[1] = x /\ <<x, y>>[2] = y /\ <<x>> \o <<y>> = <<x, y>>
<1>1. <<x>> \in Seq(Byte) /\ <<y>> \in Seq(Byte) /\ <<x, y>> \in Seq(Byte)
  OBVIOUS
<1>2. Len(<<x, y>>) = 2 /\ <<x, y>>[1] = x /\ <<x, y>>[2] = y
  OBVIOUS
<1>3. <<x>> \o <<y>> \in Seq(Byte) /\ Len(<<x>> \o <<y>>) = 2
  BY <1>1, ConcatProperties
<1>4. \A i \in 1 .. 2 : (<<x>> \o <<y>>)[i] = <<x, y>>[i]
  OBVIOUS
<1>5. <<x>> \o <<y>> = <<x, y>>
  BY <1>1, <1>2, <1>3, <1>4, SeqEqual
<1> QED
  BY <1>1, <1>2, <1>5

(* A length of eight bytes.                                                 *)
LEMMA EightBytes ==
  ASSUME NEW x \in Byte, NEW y \in Byte, NEW z \in Byte, NEW o \in Byte
  PROVE  LET u == <<o, o, o, o, o, x, y, z>>
         IN /\ u \in Seq(Byte) /\ Len(u) = 8
            /\ \A i \in 1 .. 5 : u[i] = o
            /\ u[6] = x /\ u[7] = y /\ u[8] = z
<1> DEFINE u == <<o, o, o, o, o, x, y, z>>
<1>1. u \in Seq(Byte) /\ Len(u) = 8
  OBVIOUS
<1>2. /\ u[1] = o /\ u[2] = o /\ u[3] = o /\ u[4] = o /\ u[5] = o
      /\ u[6] = x /\ u[7] = y /\ u[8] = z
  OBVIOUS
<1> QED
  BY <1>1, <1>2

(* The low bits of the second byte, and what follows it of the length. *)
Code(n) == IF n <= Len7 THEN n ELSE IF n <= Len16 THEN Len7 + 1 ELSE Len7 + 2
Long(n) == IF n <= Len7 THEN <<>> ELSE IF n <= Len16 THEN PutUint16(n) ELSE PutUint64(n)

(* How many bytes of length the code in the second byte announces. *)
Width(code) == IF code <= Len7 THEN 0 ELSE IF code = Len7 + 1 THEN 2 ELSE 8

(* The last byte of a number, and the rest. *)
LEMMA LastByte ==
  ASSUME NEW q \in Nat, NEW r \in Byte
  PROVE  (256 * q + r) \div 256 = q /\ (256 * q + r) % 256 = r
<1>1. r \in Nat /\ r <= 255
  BY ByteIs
<1>2. (256 * q + r) \div 256 = q
  BY <1>1
<1>3. (256 * q + r) % 256 = r
  BY <1>1
<1> QED
  BY <1>2, <1>3

IsCut(n, q, r) == n \div 256 = q /\ n % 256 = r

(* The same, as the named relation.                                         *)
LEMMA LastByteCut ==
  ASSUME NEW q \in Nat, NEW r \in Byte, NEW n, n = 256 * q + r
  PROVE  IsCut(n, q, r)
BY LastByte DEF IsCut

(* A number is its last byte and what is before it.                         *)
LEMMA CutLastByte ==
  ASSUME NEW n \in Nat
  PROVE  \E q \in Nat, r \in Byte : n = 256 * q + r
<1>1. n \div 256 \in Nat
  OBVIOUS
<1>2. PICK r \in Nat : r = n - 256 * (n \div 256) /\ r <= 255
  OBVIOUS
<1>3. r \in Byte
  BY <1>2, ByteIs
<1> QED
  BY <1>1, <1>2, <1>3

(* PutUint16 and PutUint64 write what Uint16 and Uint64 read back. *)
LEMMA NumberOfUint16 ==
  ASSUME NEW n \in Nat, n <= 65535
  PROVE  PutUint16(n) \in Seq(Byte) /\ Len(PutUint16(n)) = 2 /\ Number(PutUint16(n)) = n
<1>1. PICK x \in Nat, y \in Byte : n = 256 * x + y
  BY CutLastByte
<1>2. x \in Byte
  BY <1>1, ByteIs
<1>3. n \div 256 = x /\ n % 256 = y
  BY <1>1, LastByte
<1>4. x % 256 = x
  BY <1>2, ByteIs
<1>5. PutUint16(n) = <<x, y>>
  BY <1>3, <1>4 DEF PutUint16
<1> DEFINE u == <<x, y>>
<1>8. u \in Seq(Byte) /\ Len(u) = 2 /\ u[1] = x /\ u[2] = y
  BY <1>2, PairOfBytes
<1>9. PutUint16(n) = u
  BY <1>5
<1> HIDE DEF u
<1>7. Number(u) = 256 * u[1] + u[2]
  BY <1>8 DEF Number
<1> QED
  BY <1>1, <1>7, <1>8, <1>9

(* Number takes back what PutUint64 has written.                            *)
LEMMA NumberOfUint64 ==
  ASSUME NEW n \in Nat, n < Huge
  PROVE  /\ PutUint64(n) \in Seq(Byte) /\ Len(PutUint64(n)) = 8 /\ Number(PutUint64(n)) = n
         /\ PutUint64(n)[1] = 0
<1>1. PICK m \in Nat, z \in Byte : n = 256 * m + z
  BY CutLastByte
<1>b. PICK x \in Nat, y \in Byte : m = 256 * x + y
  BY CutLastByte
<1>c. x \in Byte /\ n = 65536 * x + 256 * y + z
  BY <1>1, <1>b, ByteIs DEF Huge
<1>2. /\ n \div Huge = 0 /\ n \div 65536 = x /\ n \div 256 = m /\ n % 256 = z
      /\ x % 256 = x /\ m % 256 = y /\ 0 % 256 = 0
  <2>1. n \div Huge = 0
    BY DEF Huge
  <2>2. n \div 65536 = x
    <3>1. PICK r \in Nat : r = 256 * y + z /\ r <= 65535 /\ n = 65536 * x + r
      BY <1>c, ByteIs
    <3>2. (65536 * x + r) \div 65536 = x
      BY <3>1
    <3> QED
      BY <3>1, <3>2
  <2>3. n \div 256 = m /\ n % 256 = z /\ m % 256 = y
    <3>1. n \div 256 = m /\ n % 256 = z
      <4>1. IsCut(n, m, z)
        BY ONLY <1>1, m \in Nat, z \in Byte, LastByteCut
      <4> QED
        BY ONLY <4>1 DEF IsCut
    <3>2. m % 256 = y
      <4>1. IsCut(m, x, y)
        BY ONLY <1>b, x \in Nat, y \in Byte, LastByteCut
      <4> QED
        BY ONLY <4>1 DEF IsCut
    <3> QED
      BY <3>1, <3>2
  <2>4. x % 256 = x /\ 0 % 256 = 0
    <3>1. x \in Nat /\ x <= 255
      BY <1>c, ByteIs
    <3> QED
      BY <3>1
  <2> QED
    BY <2>1, <2>2, <2>3, <2>4
<1>3. PutUint64(n) = <<0, 0, 0, 0, 0, x, y, z>>
  BY <1>2 DEF PutUint64
<1>a. 0 \in Byte
  BY ByteIs
<1> DEFINE u == <<0, 0, 0, 0, 0, x, y, z>>
<1>6. /\ u \in Seq(Byte) /\ Len(u) = 8
      /\ (\A i \in 1 .. 5 : u[i] = 0) /\ u[6] = x /\ u[7] = y /\ u[8] = z
  BY <1>a, <1>c, EightBytes
<1>7. PutUint64(n) = u
  BY <1>3
<1> HIDE DEF u
<1>5. Number(u) = 65536 * x + 256 * y + z
  <2>1. ~ \E i \in 1 .. 5 : u[i] > 0
    BY <1>6
  <2>2. Len(u) # 2
    BY <1>6
  <2>3. Number(u) = 65536 * u[6] + 256 * u[7] + u[8]
    BY <2>1, <2>2 DEF Number
  <2> QED
    BY <1>6, <2>3
<1>8. u[1] = 0
  BY <1>6
<1> QED
  BY <1>c, <1>5, <1>6, <1>7, <1>8

(* What a header says about the length. *)
LEMMA LengthForm ==
  ASSUME NEW n \in Nat, n < Huge
  PROVE  /\ Code(n) \in Nat /\ Code(n) <= 127
         /\ Width(Code(n)) = 0 \/ Width(Code(n)) = 2 \/ Width(Code(n)) = 8
         /\ Long(n) \in Seq(Byte) /\ Len(Long(n)) = Width(Code(n))
         /\ Width(Code(n)) = 0 => Code(n) = n
         /\ Width(Code(n)) # 0 => Number(Long(n)) = n
         /\ Width(Code(n)) = 8 => Code(n) = Len7 + 2 /\ Long(n)[1] = 0
<1>a. Len7 \in Nat /\ 1 <= Len7 /\ Len7 <= 125 /\ Len16 \in Nat /\ Len7 <= Len16 /\ Len16 <= 65535
  BY LengthBounds
<1>1. CASE n <= Len7
  <2>1. Code(n) = n /\ Width(n) = 0 /\ Long(n) = <<>>
    BY <1>1 DEF Code, Width, Long
  <2> QED
    BY <1>a, <1>1, <2>1, EmptySeq
<1>2. CASE ~(n <= Len7) /\ n <= Len16
  <2>1. Code(n) = Len7 + 1 /\ Long(n) = PutUint16(n)
    BY <1>2 DEF Code, Long
  <2>2. Width(Code(n)) = 2 /\ Code(n) \in Nat /\ Code(n) <= 127
    BY <1>a, <2>1 DEF Width
  <2>3. n <= 65535
    BY <1>a, <1>2
  <2>4. PutUint16(n) \in Seq(Byte) /\ Len(PutUint16(n)) = 2 /\ Number(PutUint16(n)) = n
    BY <2>3, NumberOfUint16
  <2>5. Long(n) \in Seq(Byte) /\ Len(Long(n)) = 2 /\ Number(Long(n)) = n
    BY <2>1, <2>4
  <2> QED
    BY <2>2, <2>5
<1>3. CASE ~(n <= Len7) /\ ~(n <= Len16)
  <2>1. Code(n) = Len7 + 2 /\ Long(n) = PutUint64(n)
    BY <1>3 DEF Code, Long
  <2>2. Width(Code(n)) = 8 /\ Code(n) \in Nat /\ Code(n) <= 127
    BY <1>a, <2>1 DEF Width
  <2>3. /\ PutUint64(n) \in Seq(Byte) /\ Len(PutUint64(n)) = 8 /\ Number(PutUint64(n)) = n
        /\ PutUint64(n)[1] = 0
    BY NumberOfUint64
  <2>4. /\ Long(n) \in Seq(Byte) /\ Len(Long(n)) = 8 /\ Number(Long(n)) = n
        /\ Long(n)[1] = 0
    BY <2>1, <2>3
  <2> QED
    BY <2>1, <2>2, <2>4
<1> QED
  BY <1>1, <1>2, <1>3

(* The first byte is one, and its low bits are the opcode. *)
LEMMA FirstByteIs ==
  ASSUME NEW fin \in BOOLEAN, NEW op \in 0 .. 15
  PROVE  FirstByte(fin, op) \in Byte /\ FirstByte(fin, op) % 16 = op
<1>1. PICK x : x = FirstByte(fin, op) /\ (x = 128 + op \/ x = 0 + op)
  BY DEF FirstByte
<1>2. x \in Nat /\ x <= 255 /\ x % 16 = op
  BY ONLY <1>1, op \in 0 .. 15
<1> QED
  BY <1>1, <1>2, ByteIs

(* The two bytes every header begins with. *)
FirstTwo(first, bit, n) == <<first, bit + Code(n)>>

(* A header is two bytes, the longer form of the length and the mask. *)
Header(first, n, bit, mask) == <<first>> \o LengthBytes(n, bit) \o mask

LEMMA HeaderForm ==
  ASSUME NEW first \in Byte, NEW n \in Nat, n < Huge, NEW mask \in Seq(Byte),
         NEW bit \in Nat, mask = <<>> => bit = 0, mask # <<>> => bit = 128
  PROVE  /\ Header(first, n, bit, mask) = FirstTwo(first, bit, n) \o (Long(n) \o mask)
         /\ FirstTwo(first, bit, n) \in Seq(Byte) /\ Len(FirstTwo(first, bit, n)) = 2
         /\ Long(n) \o mask \in Seq(Byte)
         /\ Len(Long(n) \o mask) = Width(Code(n)) + Len(mask)
         /\ Header(first, n, bit, mask) \in Seq(Byte)
         /\ Len(Header(first, n, bit, mask)) = 2 + Width(Code(n)) + Len(mask)
<1>1. /\ Code(n) \in Nat /\ Code(n) <= 127 /\ Width(Code(n)) \in {0, 2, 8}
      /\ Long(n) \in Seq(Byte) /\ Len(Long(n)) = Width(Code(n))
  BY LengthForm
<1>2. PICK x \in Byte, y \in Byte : x = first /\ y = bit + Code(n)
  <2>1. bit = 0 \/ bit = 128
    OBVIOUS
  <2>3. bit + Code(n) \in Nat /\ bit + Code(n) <= 255
    BY <1>1, <2>1
  <2>4. bit + Code(n) \in Byte
    BY <2>3, ByteIs
  <2> QED
    BY <2>4
<1>3. LengthBytes(n, bit) = <<y>> \o Long(n)
  <2>1. CASE n <= Len7
    <3>1. <<y>> \o <<>> = <<y>>
      OBVIOUS
    <3> QED
      BY <1>2, <2>1, <3>1 DEF LengthBytes, Code, Long
  <2>2. CASE ~(n <= Len7) /\ n <= Len16
    <3>1. bit + (Len7 + 1) = bit + Len7 + 1
      BY LengthBounds
    <3> QED
      BY <1>2, <2>2, <3>1 DEF LengthBytes, Code, Long
  <2>3. CASE ~(n <= Len7) /\ ~(n <= Len16)
    <3>1. bit + (Len7 + 2) = bit + Len7 + 2
      BY LengthBounds
    <3> QED
      BY <1>2, <2>3, <3>1 DEF LengthBytes, Code, Long
  <2> QED
    BY <2>1, <2>2, <2>3
<1>4. Header(first, n, bit, mask) = (<<x>> \o (<<y>> \o Long(n))) \o mask
  BY <1>2, <1>3 DEF Header
<1>5. PICK sx \in Seq(Byte), sy \in Seq(Byte), l \in Seq(Byte) :
        sx = <<x>> /\ sy = <<y>> /\ l = Long(n)
  <2>1. <<x>> \in Seq(Byte) /\ <<y>> \in Seq(Byte)
    OBVIOUS
  <2> QED
    BY <1>1, <2>1
<1>6. /\ sy \o l \in Seq(Byte) /\ l \o mask \in Seq(Byte) /\ sx \o sy \in Seq(Byte)
      /\ Len(l \o mask) = Len(l) + Len(mask)
  BY ConcatProperties
<1>7. (sx \o (sy \o l)) \o mask = (sx \o sy) \o (l \o mask)
  <2>1. sx \o (sy \o l) = (sx \o sy) \o l
    <3>1. Associates(sx, sy, l)
      BY ONLY ConcatAssociates, <1>5
    <3> QED
      BY ONLY <3>1 DEF Associates
  <2>2. ((sx \o sy) \o l) \o mask = (sx \o sy) \o (l \o mask)
    <3>1. Associates(sx \o sy, l, mask)
      BY ONLY ConcatAssociates, <1>5, <1>6, mask \in Seq(Byte)
    <3> QED
      BY ONLY <3>1 DEF Associates
  <2> QED
    BY <2>1, <2>2
<1>8. sx \o sy = <<x, y>>
  <2>1. <<x>> \o <<y>> = <<x, y>>
    BY PairOfBytes
  <2> QED
    BY <1>5, <2>1
<1>9. /\ <<x, y>> \in Seq(Byte) /\ Len(<<x, y>>) = 2
  BY PairOfBytes
<1>13. FirstTwo(first, bit, n) = <<x, y>>
  BY <1>2 DEF FirstTwo
<1>10. /\ (sx \o sy) \o (l \o mask) \in Seq(Byte)
       /\ Len((sx \o sy) \o (l \o mask)) = Len(sx \o sy) + Len(l \o mask)
  BY <1>6, ConcatProperties
<1>11. Header(first, n, bit, mask) = (sx \o sy) \o (l \o mask)
  BY <1>4, <1>5, <1>7
<1>12. Len(mask) \in Nat /\ Len(l) = Width(Code(n))
  BY <1>1, <1>5, LenProperties
<1> QED
  BY <1>1, <1>2, <1>5, <1>6, <1>8, <1>9, <1>10, <1>11, <1>12, <1>13
-----------------------------------------------------------------------------
(* Buffers *)

(* What the lemmas of RingBufferProofs assume of the constants. *)
LEMMA RingFacts == PacketSize \in Nat \ {0} /\ 0 \in Nat /\ TRUE \in BOOLEAN /\ Byte # {}
<1>1. 0 \in Byte
  BY ByteIs
<1> QED
  BY <1>1, WebsocketAssumption

(* RP has the operators of RB. *)
LEMMA SameLengths ==
  ASSUME NEW b
  PROVE  RB!Length(b) = RP!Length(b) /\ RB!VirtualLength(b) = RP!VirtualLength(b)
BY DEF RB!Length, RP!Length, RB!VirtualLength, RP!VirtualLength, RB!Distance, RP!Distance

(* The operators of the ring buffer are those the lemmas are about.         *)
LEMMA SameReads ==
  ASSUME NEW b, NEW n, NEW k
  PROVE  /\ RB!Available(b, k, n) = RP!Available(b, k, n) /\ RB!Slice(b, k, n) = RP!Slice(b, k, n)
         /\ RB!PeekBytes(b, n) = RP!PeekBytes(b, n) /\ RB!Read(b, n) = RP!Read(b, n)
         /\ RB!RetrieveAll(b) = RP!RetrieveAll(b)
<1>1. RB!Available(b, k, n) = RP!Available(b, k, n)
  BY DEF RB!Available, RP!Available
<1>2. RB!Slice(b, k, n) = RP!Slice(b, k, n)
  BY DEF RB!Slice, RP!Slice
<1>3. RB!PeekBytes(b, n) = RP!PeekBytes(b, n)
  BY DEF RB!PeekBytes, RP!PeekBytes, RB!Available, RP!Available, RB!Slice, RP!Slice
<1>4. RB!Read(b, n) = RP!Read(b, n)
  BY DEF RB!Read, RP!Read, RB!Available, RP!Available
<1>5. RB!RetrieveAll(b) = RP!RetrieveAll(b)
  BY DEF RB!RetrieveAll, RP!RetrieveAll
<1> QED
  BY <1>1, <1>2, <1>3, <1>4, <1>5

(* The same for the pointers of the tentative read.                         *)
LEMMA SameVirtual ==
  ASSUME NEW b, NEW n
  PROVE  /\ RB!VirtualRead(b, n) = RP!VirtualRead(b, n)
         /\ RB!VirtualFlush(b) = RP!VirtualFlush(b) /\ RB!VirtualRevert(b) = RP!VirtualRevert(b)
<1>1. RB!VirtualRead(b, n) = RP!VirtualRead(b, n)
  BY DEF RB!VirtualRead, RP!VirtualRead, RB!Available, RP!Available
<1>2. RB!VirtualFlush(b) = RP!VirtualFlush(b) /\ RB!VirtualRevert(b) = RP!VirtualRevert(b)
  BY DEF RB!VirtualFlush, RP!VirtualFlush, RB!VirtualRevert, RP!VirtualRevert
<1> QED
  BY <1>1, <1>2

(* The same for what writes.                                                *)
LEMMA SameWrites ==
  ASSUME NEW b, NEW p, NEW n
  PROVE  RB!Write(b, p) = RP!Write(b, p) /\ RB!New(n) = RP!New(n) /\ RB!WithData(p) = RP!WithData(p)
<1>1. RB!Write(b, p) = RP!Write(b, p)
  BY ZenonT(30) DEF RB!Write, RP!Write, RB!free, RP!free, RB!makeSpace, RP!makeSpace,
         RB!Length, RP!Length, RB!Distance, RP!Distance, RB!Available, RP!Available,
         RB!Copy, RP!Copy, RB!Slice, RP!Slice, RB!VirtualLength, RP!VirtualLength,
         RB!Read, RP!Read, RB!Zero, RP!Zero
<1>2. RB!New(n) = RP!New(n)
  BY DEF RB!New, RP!New, RB!Zero, RP!Zero
<1>3. RB!WithData(p) = RP!WithData(p)
  BY DEF RB!WithData, RP!WithData
<1> QED
  BY <1>1, <1>2, <1>3

(* The fields of a buffer. *)
LEMMA RingFields ==
  ASSUME NEW b, RP!RingOK(b)
  PROVE  /\ b \in RP!Ring /\ b.size \in Nat /\ b.r \in Nat /\ b.w \in Nat /\ b.vr \in Nat
         /\ b.isEmpty \in BOOLEAN /\ b.buf \in [0 .. b.size - 1 -> Byte]
         /\ b.size = 0 => b.r = 0 /\ b.w = 0 /\ b.vr = 0 /\ b.isEmpty
         /\ b.size > 0 => b.r < b.size /\ b.w < b.size /\ b.vr < b.size
         /\ b.isEmpty => b.w = b.r /\ b.vr = b.r
         /\ ~b.isEmpty /\ b.r < b.w => b.r <= b.vr /\ b.vr < b.w
         /\ ~b.isEmpty /\ b.w <= b.r => b.r <= b.vr \/ b.vr < b.w
<1>1. b \in RP!Ring /\ b.buf \in [0 .. b.size - 1 -> Byte]
  BY DEF RP!RingOK, RP!Placed
<1>2. /\ b.size \in Nat /\ b.r \in Nat /\ b.w \in Nat /\ b.vr \in Nat
      /\ b.isEmpty \in BOOLEAN
  BY <1>1 DEF RP!Ring
<1> QED
  BY <1>1, <1>2 DEF RP!RingOK, RP!Placed

(* What of a buffer stands behind the tentative cursor, and that there are  *)
(* as many bytes as Length says.                                            *)
LEMMA DataOf ==
  ASSUME NEW b, RP!RingOK(b)
  PROVE  /\ RP!Data(b) \in Seq(Byte) /\ RP!Length(b) = Len(RP!Data(b)) /\ RP!Length(b) \in Nat
         /\ RP!VirtualLength(b) = RP!Length(b) - RP!Ahead(b) /\ RP!Ahead(b) \in Nat
         /\ RP!VirtualLength(b) \in Nat
         /\ b.isEmpty <=> RP!Data(b) = <<>>
<1>1. /\ RP!Length(b) \in 0 .. b.size /\ (RP!Length(b) = 0 <=> b.isEmpty)
      /\ RP!Ahead(b) \in 0 .. RP!Length(b) /\ RP!VirtualLength(b) \in 0 .. RP!Length(b)
  BY RP!Lengths, RingFacts
<1>2. b.size \in Nat
  BY RingFields
<1>3. 0 \in 0 .. RP!Length(b)
  BY <1>1, <1>2
<1>4. RP!Data(b) \in Seq(Byte) /\ Len(RP!Data(b)) = RP!Length(b)
  BY <1>3, RP!DataParts, RingFacts
<1>5. RP!Ahead(b) = RP!Length(b) - RP!VirtualLength(b)
  BY DEF RP!Ahead
<1> QED
  BY <1>1, <1>2, <1>4, <1>5, EmptySeq

(* None of the reads moves w. *)
LEMMA WriteCursorKept ==
  ASSUME NEW b, RP!RingOK(b), NEW n
  PROVE  /\ RP!Read(b, n).w = b.w /\ RP!VirtualRead(b, n).w = b.w
         /\ RP!VirtualFlush(b).w = b.w /\ RP!VirtualRevert(b).w = b.w
<1>1. b \in RP!Ring
  BY RingFields
<1>2. RP!Read(b, n).w = b.w
  BY <1>1 DEF RP!Ring, RP!Read
<1>3. RP!VirtualRead(b, n).w = b.w
  BY <1>1 DEF RP!Ring, RP!VirtualRead
<1>4. RP!VirtualFlush(b).w = b.w /\ RP!VirtualRevert(b).w = b.w
  BY <1>1 DEF RP!Ring, RP!VirtualFlush, RP!VirtualRevert
<1> QED
  BY <1>2, <1>3, <1>4

(* A buffer that WithData has made and that only reads have changed since   *)
(* does not wrap around: PeekAll returns one slice.                         *)
LEMMA PeekAllIsData ==
  ASSUME NEW b, RP!RingOK(b), b.w = 0
  PROVE  RB!PeekAllFirst(b) = RP!Data(b)
<1>1. /\ b.size \in Nat /\ b.r \in Nat /\ b.isEmpty \in BOOLEAN
      /\ b.size = 0 => b.r = 0 /\ b.isEmpty
      /\ b.size > 0 => b.r < b.size
  BY RingFields
<1>2. CASE b.isEmpty
  BY <1>2, DataOf DEF RB!PeekAllFirst
<1>3. CASE ~b.isEmpty
  <2>1. RP!Length(b) = b.size - b.r
    BY <1>1, <1>3 DEF RP!Length, RP!Distance
  <2>2. RB!PeekAllFirst(b) = RB!Slice(b, b.r, b.size - b.r)
    BY <1>1, <1>3 DEF RB!PeekAllFirst
  <2> QED
    BY <2>1, <2>2, SameReads DEF RP!Data
<1> QED
  BY <1>2, <1>3

(* What Bytes returns is what the buffer holds.                             *)
LEMMA BytesIsData ==
  ASSUME NEW b, RP!RingOK(b)
  PROVE  RB!Bytes(b) = RP!Data(b)
<1>1. CASE b.isEmpty
  BY <1>1, DataOf DEF RB!Bytes
<1>2. CASE ~b.isEmpty
  <2>1. RB!Bytes(b) = RB!Slice(b, b.r, RB!Length(b))
    BY <1>2 DEF RB!Bytes
  <2> QED
    BY <2>1, SameReads, SameLengths DEF RP!Data
<1>3. b.isEmpty \in BOOLEAN
  BY RingFields
<1> QED
  BY <1>1, <1>2, <1>3

(* A tentative read of no more than there is. *)
LEMMA VirtualGets ==
  ASSUME NEW b, RP!RingOK(b), NEW n \in Nat, n <= RP!VirtualLength(b)
  PROVE  /\ RB!Available(b, b.vr, n) = n
         /\ RB!Slice(b, b.vr, n) = SubSeq(RP!Data(b), RP!Ahead(b) + 1, RP!Ahead(b) + n)
<1>1. /\ RP!Length(b) \in Nat /\ RP!VirtualLength(b) \in Nat /\ RP!Ahead(b) \in Nat
      /\ RP!VirtualLength(b) = RP!Length(b) - RP!Ahead(b)
  BY DataOf
<1>2. RP!Available(b, b.vr, n) = n
  <2>1. RP!Available(b, b.vr, n) = RP!Least(n, RP!VirtualLength(b))
    BY RP!AvailableBytes, RingFacts
  <2> QED
    BY <1>1, <2>1 DEF RP!Least
<1>3. n \in 0 .. RP!Length(b)
  BY <1>1
<1>4. RP!Slice(b, b.vr, n) = SubSeq(RP!Data(b), RP!Ahead(b) + 1, RP!Ahead(b) + n)
  BY <1>3, RP!DataParts, RingFacts
<1> QED
  BY <1>2, <1>4, SameReads

(* A tentative read of all there is, and the flush after it: the buffer is  *)
(* empty, and right.                                                        *)
LEMMA ExhaustedFlush ==
  ASSUME NEW b, RP!RingOK(b), NEW n \in Nat \ {0}, n = RP!VirtualLength(b),
         NEW c, c = RP!VirtualFlush(RP!VirtualRead(b, n))
  PROVE  RP!RingOK(c) /\ RP!Data(c) = <<>> /\ RP!Ahead(c) = 0
<1>1. /\ b \in RP!Ring /\ b.size \in Nat /\ b.r \in Nat /\ b.w \in Nat /\ b.vr \in Nat
      /\ b.isEmpty \in BOOLEAN /\ b.buf \in [0 .. b.size - 1 -> Byte]
      /\ b.size = 0 => b.isEmpty
      /\ b.size > 0 => b.r < b.size /\ b.w < b.size /\ b.vr < b.size
  BY RingFields
<1>2. n = RP!Distance(b, b.vr)
  BY DEF RP!VirtualLength
<1>3. ~b.isEmpty /\ b.size > 0
  BY <1>1, RP!Lengths, RingFacts
<1>4. RP!Available(b, b.vr, n) = n
  BY SameReads, VirtualGets, <1>1
<1>5. (b.vr + n) % b.size = b.w
  <2>1. b.vr + n \in 0 .. 2 * b.size - 1
    BY <1>1, <1>2, <1>3 DEF RP!Distance
  <2>2. (b.vr + n) % b.size = RP!Wrap(b, b.vr + n)
    BY <1>1, <1>3, <2>1, RP!ModIsWrap, RingFacts
  <2> QED
    BY <1>1, <1>2, <1>3, <2>2 DEF RP!Distance, RP!Wrap
<1> DEFINE a == RP!VirtualRead(b, n)
<1>6. a = [b EXCEPT !.vr = b.w, !.isEmpty = @ \/ (b.w > b.vr /\ b.w = b.w)]
  BY <1>4, <1>5 DEF RP!VirtualRead
<1>7. /\ a \in RP!Ring /\ a.size = b.size /\ a.buf = b.buf /\ a.w = b.w /\ a.vr = b.w
      /\ a.isEmpty \in BOOLEAN
  BY <1>1, <1>6 DEF RP!Ring
<1> HIDE DEF a
<1>8. /\ c \in RP!Ring /\ c.size = b.size /\ c.buf = b.buf /\ c.w = b.w /\ c.vr = b.w
      /\ c.r = b.w /\ c.isEmpty = TRUE
  BY <1>7 DEF RP!VirtualFlush, RP!Ring, a
<1>9. RP!RingOK(c)
  BY <1>1, <1>3, <1>8 DEF RP!RingOK, RP!Placed
<1>10. RP!Length(c) = 0
  BY <1>8 DEF RP!Length, RP!Distance
<1> QED
  BY <1>9, <1>10, DataOf, EmptySeq
-----------------------------------------------------------------------------
(* VirtualReadHeader *)

(* A frame of the client. *)
IsMasked(f) ==
  /\ f.fin \in BOOLEAN /\ f.op \in 0 .. 15
  /\ f.payload \in Seq(Byte) /\ Len(f.payload) < Huge
  /\ f.mask \in Seq(Byte) /\ Len(f.mask) = 4

(* The payload as the client sends it. *)
MaskedPayload(f) == [i \in DOMAIN f.payload |-> Xor(f.payload[i], f.mask[1 + ((i - 1) % 4)])]

(* The first byte of a client's frame. *)
Lead(f) == FirstByte(f.fin, f.op)

(* The form of the header of a frame of n bytes.                            *)
HeaderFormed(f, n) ==
  /\ FirstTwo(Lead(f), 128, n) \in Seq(Byte) /\ Len(FirstTwo(Lead(f), 128, n)) = 2
  /\ Long(n) \o f.mask \in Seq(Byte) /\ Len(Long(n) \o f.mask) = Width(Code(n)) + 4
  /\ ClientHeader(f) = FirstTwo(Lead(f), 128, n) \o (Long(n) \o f.mask)

(* The header of a client's frame. *)
LEMMA ClientHeaderForm ==
  ASSUME NEW f, IsMasked(f), NEW n \in Nat, n = Len(f.payload)
  PROVE  /\ Len(Long(n) \o f.mask) = Width(Code(n)) + 4
         /\ ClientHeader(f) = FirstTwo(Lead(f), 128, n) \o (Long(n) \o f.mask)
         /\ FirstTwo(Lead(f), 128, n) \in Seq(Byte) /\ Len(FirstTwo(Lead(f), 128, n)) = 2
         /\ Long(n) \o f.mask \in Seq(Byte)
         /\ ClientHeader(f) \in Seq(Byte) /\ HeaderLen(f) = 6 + Width(Code(n))
         /\ Len(ClientHeader(f)) = 6 + Width(Code(n))
<1>1. /\ f.fin \in BOOLEAN /\ f.op \in 0 .. 15 /\ n \in Nat /\ n < Huge /\ f.mask \in Seq(Byte)
      /\ Len(f.mask) = 4
  BY LenProperties DEF IsMasked
<1>b. PICK fin : fin = f.fin
  OBVIOUS
<1>2. PICK op \in 0 .. 15, mask \in Seq(Byte) : op = f.op /\ mask = f.mask
  BY <1>1
<1>f. PICK first \in Byte : first = FirstByte(fin, op)
  <2>1. FirstByte(f.fin, op) \in Byte
    BY <1>1, FirstByteIs
  <2> QED
    BY <1>b, <2>1
<1>3. mask # <<>>
  <2>1. Len(mask) = 4
    BY <1>1, <1>2
  <2>2. Len(<<>>) = 0
    OBVIOUS
  <2> QED
    BY ONLY <2>1, <2>2, 4 # 0
<1>4. Width(Code(n)) = 0 \/ Width(Code(n)) = 2 \/ Width(Code(n)) = 8
  BY DEF Width
<1>5. /\ Header(first, n, 128, mask) = FirstTwo(first, 128, n) \o (Long(n) \o mask)
      /\ FirstTwo(first, 128, n) \in Seq(Byte) /\ Len(FirstTwo(first, 128, n)) = 2
      /\ Long(n) \o mask \in Seq(Byte)
      /\ Len(Long(n) \o mask) = Width(Code(n)) + Len(mask)
      /\ Header(first, n, 128, mask) \in Seq(Byte)
      /\ Len(Header(first, n, 128, mask)) = 2 + Width(Code(n)) + Len(mask)
  <2>1. n \in Nat /\ n < Huge
    BY <1>1
  <2>2. Header(first, n, 128, mask) = FirstTwo(first, 128, n) \o (Long(n) \o mask)
    <3>1. PICK bit \in Nat : bit = 128
      OBVIOUS
    <3>2. (mask = <<>> => bit = 0) /\ (mask # <<>> => bit = 128)
      BY <1>3, <3>1
    <3>3. Header(first, n, bit, mask) = FirstTwo(first, bit, n) \o (Long(n) \o mask)
      BY ONLY <2>1, <3>2, HeaderForm, first \in Byte, mask \in Seq(Byte), bit \in Nat
    <3> QED
      BY <3>1, <3>3
  <2>5. FirstTwo(first, 128, n) \in Seq(Byte) /\ Len(FirstTwo(first, 128, n)) = 2
    <3>1. Code(n) \in Nat /\ Code(n) <= 127
      BY <2>1, LengthForm
    <3>2. PICK x \in Byte, y \in Byte : x = first /\ y = 128 + Code(n)
      <4>1. 128 + Code(n) \in Byte
        BY <3>1, ByteIs
      <4> QED
        BY <4>1
    <3> QED
      BY <3>2, PairOfBytes DEF FirstTwo
  <2>3. /\ Long(n) \o mask \in Seq(Byte)
        /\ Len(Long(n) \o mask) = Width(Code(n)) + Len(mask)
    BY <1>3, <2>1, HeaderForm
  <2>4. /\ Header(first, n, 128, mask) \in Seq(Byte)
        /\ Len(Header(first, n, 128, mask)) = 2 + Width(Code(n)) + Len(mask)
    BY <1>3, <2>1, HeaderForm
  <2> QED
    BY <2>2, <2>3, <2>4, <2>5
<1>6. ClientHeader(f) = Header(first, n, 128, mask) /\ first = Lead(f)
  <2>1. ClientHeader(f) = WriteHeader(fin, op, n, mask)
    BY <1>2, <1>b DEF ClientHeader
  <2>2. WriteHeader(fin, op, n, mask) = Header(first, n, 128, mask)
    BY <1>3, <1>f DEF WriteHeader, Header
  <2>3. first = Lead(f)
    BY <1>2, <1>b, <1>f DEF Lead
  <2> QED
    BY <2>1, <2>2, <2>3
<1>7. Len(mask) = 4 /\ Width(Code(n)) \in Nat
  BY <1>1, <1>2, <1>4
<1>8. 2 + Width(Code(n)) + 4 = 6 + Width(Code(n))
  BY <1>7
<1>9. Len(ClientHeader(f)) = 6 + Width(Code(n)) /\ HeaderLen(f) = 6 + Width(Code(n))
  BY <1>5, <1>6, <1>7, <1>8 DEF HeaderLen
<1> QED
  BY <1>1, <1>2, <1>5, <1>6, <1>7, <1>9

(* The same, as the named relation.                                         *)
LEMMA ClientHeaderFormed ==
  ASSUME NEW f, IsMasked(f), NEW n \in Nat, n = Len(f.payload)
  PROVE  HeaderFormed(f, n)
<1> USE DEF HeaderFormed
<1>1. /\ FirstTwo(Lead(f), 128, n) \in Seq(Byte) /\ Len(FirstTwo(Lead(f), 128, n)) = 2
      /\ Long(n) \o f.mask \in Seq(Byte) /\ Len(Long(n) \o f.mask) = Width(Code(n)) + 4
      /\ ClientHeader(f) = FirstTwo(Lead(f), 128, n) \o (Long(n) \o f.mask)
  BY ClientHeaderForm, ZenonT(60)
<1> QED
  BY <1>1, Zenon

(* A frame of the client is its header and its masked payload, which Cipher *)
(* unmasks.                                                                 *)
LEMMA ClientFrameForm ==
  ASSUME NEW f, IsMasked(f)
  PROVE  /\ MaskedPayload(f) \in Seq(Byte) /\ Len(MaskedPayload(f)) = Len(f.payload)
         /\ Cipher(MaskedPayload(f), f.mask, 0) = f.payload
         /\ ClientFrame(f) = ClientHeader(f) \o MaskedPayload(f)
         /\ ClientFrame(f) \in Seq(Byte)
         /\ Len(ClientFrame(f)) = HeaderLen(f) + Len(f.payload)
         /\ HeaderLen(f) \in Nat /\ HeaderLen(f) >= 6 /\ Len(f.payload) \in Nat
         /\ ClientHeader(f) \in Seq(Byte) /\ Len(ClientHeader(f)) = HeaderLen(f)
<1>1. f.payload \in Seq(Byte) /\ f.mask \in Seq(Byte) /\ Len(f.mask) = 4
  BY DEF IsMasked
<1>2. /\ MaskedPayload(f) \in Seq(Byte) /\ Len(MaskedPayload(f)) = Len(f.payload)
      /\ Cipher(MaskedPayload(f), f.mask, 0) = f.payload
  <2>1. PICK p \in Seq(Byte), mask \in Seq(Byte) : p = f.payload /\ mask = f.mask
    BY <1>1
  <2>2. PICK q : q = [i \in DOMAIN p |-> Xor(p[i], mask[1 + ((i - 1) % 4)])]
    OBVIOUS
  <2>3. q \in Seq(Byte) /\ Len(q) = Len(p) /\ Cipher(q, mask, 0) = p
    BY <1>1, <2>1, <2>2, CipherUnmasks
  <2>4. q = MaskedPayload(f)
    BY <2>1, <2>2 DEF MaskedPayload
  <2> QED
    BY <2>1, <2>3, <2>4
<1>3. ClientFrame(f) = ClientHeader(f) \o MaskedPayload(f)
  BY DEF ClientFrame, MaskedPayload
<1>4. /\ ClientHeader(f) \in Seq(Byte) /\ HeaderLen(f) = 6 + Width(Code(Len(f.payload)))
      /\ Len(ClientHeader(f)) = HeaderLen(f) /\ Len(f.payload) \in Nat
  <2>1. PICK n \in Nat : n = Len(f.payload)
    BY <1>1, LenProperties
  <2>2. /\ ClientHeader(f) \in Seq(Byte) /\ HeaderLen(f) = 6 + Width(Code(n))
        /\ Len(ClientHeader(f)) = 6 + Width(Code(n))
    BY <2>1, ClientHeaderForm
  <2> QED
    BY <2>1, <2>2
<1>5. HeaderLen(f) \in Nat /\ HeaderLen(f) >= 6
  BY <1>4 DEF Width
<1>6. /\ ClientHeader(f) \o MaskedPayload(f) \in Seq(Byte)
      /\ Len(ClientHeader(f) \o MaskedPayload(f)) = Len(ClientHeader(f)) + Len(MaskedPayload(f))
  BY <1>2, <1>4, ConcatParts
<1> QED
  BY <1>2, <1>3, <1>4, <1>5, <1>6

(* Unread and undone, a tentative read leaves r where it was.               *)
LEMMA AheadMoved ==
  ASSUME NEW b, RP!RingOK(b), RP!Ahead(b) # 0
  PROVE  b.vr # b.r
<1>1. RP!Length(b) \in Nat
  BY DataOf
<1>2. b.vr = b.r => RP!VirtualLength(b) = RP!Length(b)
  BY DEF RP!VirtualLength, RP!Length
<1> QED
  BY <1>1, <1>2 DEF RP!Ahead

(* The low bits of the second byte of a header. *)
LEMMA LowBits ==
  ASSUME NEW c \in Nat, c <= 127
  PROVE  (128 + c) % 128 = c /\ 128 + c >= 128
OBVIOUS

(* Reads of nothing more than there is keep w and the size.                 *)
LEMMA VirtualCursors ==
  ASSUME NEW b, RP!RingOK(b), NEW n \in Nat, n <= RP!VirtualLength(b), n # 0,
         NEW c, c = RP!VirtualRead(b, n)
  PROVE  c \in RP!Ring /\ c.w = b.w /\ RP!VirtualLength(c) \in Nat
<1>1. /\ b \in RP!Ring /\ b.size \in Nat /\ b.r \in Nat /\ b.w \in Nat /\ b.vr \in Nat
      /\ b.isEmpty \in BOOLEAN
      /\ b.size = 0 => b.isEmpty
      /\ b.size > 0 => b.w < b.size /\ b.vr < b.size
  BY RingFields
<1>2. RP!Available(b, b.vr, n) = n
  BY SameReads, VirtualGets
<1>3. b.size > 0
  BY <1>1, RP!Lengths, RingFacts
<1>4. (b.vr + n) % b.size \in Nat /\ (b.vr + n) % b.size < b.size
  BY <1>1, <1>3
<1>5. PICK at \in Nat : at = (b.vr + n) % b.size /\ at < b.size
  BY <1>4
<1>6. c = [b EXCEPT !.vr = at, !.isEmpty = @ \/ (at > b.vr /\ at = b.w)]
  BY <1>2, <1>5 DEF RP!VirtualRead
<1>7. c \in RP!Ring /\ c.w = b.w /\ c.vr = at /\ c.size = b.size /\ c.isEmpty \in BOOLEAN
  BY <1>1, <1>6 DEF RP!Ring
<1>8. RP!VirtualLength(c) \in Nat
  BY <1>1, <1>3, <1>5, <1>7 DEF RP!VirtualLength, RP!Distance
<1> QED
  BY <1>7, <1>8

(* VirtualFlush and VirtualRevert leave the write cursor alone.             *)
LEMMA FlushCursors ==
  ASSUME NEW c, c \in RP!Ring
  PROVE  RP!VirtualFlush(c).w = c.w /\ RP!VirtualRevert(c).w = c.w
BY DEF RP!VirtualFlush, RP!VirtualRevert, RP!Ring

(* The length of a frame's payload, and how many bytes of length there are  *)
(* in its header.                                                           *)
Shape(f, n, W) ==
  n \in Nat /\ n < Huge /\ n = Len(f.payload) /\ W \in Nat /\ W <= 8 /\ W = Width(Code(n))

Part(s, i, j) == SubSeq(s, i, j)
HeaderThen(d, f, rest) == d = ClientHeader(f) \o rest
Begins(s, t) == \E u \in Seq(Byte) : s = t \o u

(* What a tentative read of n bytes gets. *)
Gets(b, n, got) ==
  /\ got \in Seq(Byte) /\ Len(got) = n
  /\ got = SubSeq(RP!Data(b), RP!Ahead(b) + 1, RP!Ahead(b) + n)

(* The bytes of a header and what follows it, by their places. *)
LEMMA HeaderPlaces ==
  ASSUME NEW f, IsMasked(f), NEW rest \in Seq(Byte), NEW n \in Nat, NEW W \in Nat,
         Shape(f, n, W), NEW d, HeaderThen(d, f, rest)
  PROVE  /\ d \in Seq(Byte) /\ Len(d) = 6 + W + Len(rest)
         /\ Part(d, 1, 2) = FirstTwo(Lead(f), 128, n)
         /\ Part(d, 3, W + 6) = Long(n) \o f.mask
         /\ Part(d, W + 7, Len(d)) = rest
<1>0. n = Len(f.payload) /\ W = Width(Code(n))
  BY DEF Shape
<1>1. /\ FirstTwo(Lead(f), 128, n) \in Seq(Byte) /\ Len(FirstTwo(Lead(f), 128, n)) = 2
      /\ Long(n) \o f.mask \in Seq(Byte) /\ Len(Long(n) \o f.mask) = W + 4
      /\ ClientHeader(f) = FirstTwo(Lead(f), 128, n) \o (Long(n) \o f.mask)
  <2>1. HeaderFormed(f, n)
    BY ONLY <1>0, ClientHeaderFormed, IsMasked(f), n \in Nat
  <2> QED
    BY ONLY <1>0, <2>1 DEF HeaderFormed
<1>2. PICK a \in Seq(Byte), m \in Seq(Byte) :
        /\ a = FirstTwo(Lead(f), 128, n) /\ Len(a) = 2
        /\ m = Long(n) \o f.mask /\ Len(m) = W + 4
  BY ONLY <1>1
<1>3. d = (a \o m) \o rest
  BY <1>1, <1>2 DEF HeaderThen
<1>4. /\ d \in Seq(Byte) /\ Len(d) = 2 + (W + 4) + Len(rest)
      /\ SubSeq(d, 1, 2) = a /\ SubSeq(d, 2 + 1, 2 + (W + 4)) = m
      /\ SubSeq(d, 2 + (W + 4) + 1, Len(d)) = rest
  <2>1. /\ d \in Seq(Byte) /\ Len(d) = Len(a) + Len(m) + Len(rest)
        /\ SubSeq(d, 1, Len(a)) = a /\ SubSeq(d, Len(a) + 1, Len(a) + Len(m)) = m
        /\ SubSeq(d, Len(a) + Len(m) + 1, Len(d)) = rest
    BY ONLY <1>3, ThreeParts, a \in Seq(Byte), m \in Seq(Byte), rest \in Seq(Byte)
  <2> QED
    BY ONLY <2>1, <1>2
<1>5. /\ 2 + (W + 4) = W + 6 /\ 2 + (W + 4) + 1 = W + 7 /\ 2 + 1 = 3
      /\ 2 + (W + 4) + Len(rest) = 6 + W + Len(rest)
  BY LenProperties
<1> QED
  BY <1>2, <1>4, <1>5 DEF Part

(* A tentative read fills the beginning of the header buffer. *)
LEMMA VirtualBytes ==
  ASSUME NEW b, RP!RingOK(b), NEW bts \in Seq(Byte), Len(bts) = 12,
         NEW n \in Nat, n <= RP!VirtualLength(b), n <= 12,
         NEW got, Gets(b, n, got), NEW v, v = Virtual(b, bts, n)
  PROVE  /\ v.b = RP!VirtualRead(b, n) /\ v.bts \in Seq(Byte) /\ Len(v.bts) = 12
         /\ Begins(v.bts, got)
<1>0. /\ got \in Seq(Byte) /\ Len(got) = n
      /\ got = SubSeq(RP!Data(b), RP!Ahead(b) + 1, RP!Ahead(b) + n)
  BY DEF Gets
<1>1. RB!Slice(b, b.vr, RB!Available(b, b.vr, n)) = got
  <2>1. RB!Available(b, b.vr, n) = n
    BY VirtualGets
  <2> QED
    BY <1>0, <2>1, VirtualGets
<1>2. PICK old \in Seq(Byte) : old = SubSeq(bts, n + 1, 12) /\ Len(old) = 12 - n
  <2>1. n + 1 \in 1 .. Len(bts) + 1 /\ 12 \in (n + 1) - 1 .. Len(bts)
    OBVIOUS
  <2>2. /\ SubSeq(bts, n + 1, 12) \in Seq(Byte)
        /\ Len(SubSeq(bts, n + 1, 12)) = 12 - (n + 1) + 1
    BY <2>1, PartElements
  <2>3. 12 - (n + 1) + 1 = 12 - n
    OBVIOUS
  <2> QED
    BY ONLY <2>2, <2>3
<1>4. v.b = RP!VirtualRead(b, n) /\ v.bts = got \o old
  BY <1>0, <1>1, <1>2, SameVirtual DEF Virtual
<1>3. got \o old \in Seq(Byte) /\ Len(got \o old) = 12
  BY <1>0, <1>2, ConcatProperties
<1> QED
  BY <1>3, <1>4 DEF Begins

(* The parts of the header buffer. *)
LEMMA HeaderBuffer ==
  ASSUME NEW f, IsMasked(f), NEW n \in Nat, NEW W \in Nat, Shape(f, n, W),
         NEW bts, Begins(bts, Long(n) \o f.mask)
  PROVE  /\ Part(bts, 1, W) = Long(n) /\ Part(bts, W + 1, W + 4) = f.mask
         /\ W = 8 => bts[1] = 0
<1>1. /\ Long(n) \in Seq(Byte) /\ Len(Long(n)) = W /\ (W = 8 => Long(n)[1] = 0)
      /\ f.mask \in Seq(Byte) /\ Len(f.mask) = 4
  BY LengthForm DEF IsMasked, Shape
<1>2. PICK l \in Seq(Byte), mask \in Seq(Byte) :
        l = Long(n) /\ mask = f.mask /\ Len(l) = W /\ Len(mask) = 4
  BY ONLY <1>1
<1>3. PICK old \in Seq(Byte) : bts = (l \o mask) \o old
  BY <1>2 DEF Begins
<1>4. /\ bts = l \o (mask \o old) /\ SubSeq(bts, 1, W) = l
      /\ SubSeq(bts, W + 1, W + 4) = mask
  <2>1. /\ bts = l \o (mask \o old) /\ SubSeq(bts, 1, Len(l)) = l
        /\ SubSeq(bts, Len(l) + 1, Len(l) + Len(mask)) = mask
    BY ONLY <1>3, ThreeParts, l \in Seq(Byte), mask \in Seq(Byte), old \in Seq(Byte)
  <2> QED
    BY ONLY <2>1, <1>2
<1>5. ASSUME W = 8 PROVE bts[1] = 0
  <2>1. l[1] = 0
    BY <1>1, <1>2, <1>5
  <2>2. PICK t \in Seq(Byte) : t = mask \o old
    BY ConcatParts
  <2>3. (l \o t)[1] = l[1]
    <3>1. 1 \in 1 .. Len(l) + Len(t) /\ 1 <= Len(l)
      BY <1>2, <1>5, LenProperties
    <3> QED
      BY <3>1, ConcatProperties
  <2> QED
    BY <1>4, <2>1, <2>2, <2>3
<1> QED
  BY <1>2, <1>4, <1>5 DEF Part

(* What VirtualReadHeader makes of the bytes of a header.                   *)
LEMMA HeaderParts ==
  ASSUME NEW b
  PROVE  LET two   == Virtual(b, hdr, 2)
             code  == two.bts[2] % 128
             width == Width(code)
             more  == Virtual(two.b, two.bts, width + 4)
             h     == VirtualReadHeader(b)
         IN two.bts[2] >= 128 =>
              /\ h.b = more.b /\ h.bts = more.bts /\ h.op = two.bts[1] % 16
              /\ h.length = IF width = 0 THEN code ELSE Number(Part(more.bts, 1, width))
              /\ h.mask = Part(more.bts, width + 1, width + 4)
              /\ h.error <=> width = 8 /\ (code # Len7 + 2 \/ more.bts[1] >= 128)
<1> DEFINE two    == Virtual(b, hdr, 2)
           code   == two.bts[2] % 128
           masked == two.bts[2] >= 128
           width  == IF code <= Len7 THEN 0 ELSE IF code = Len7 + 1 THEN 2 ELSE 8
           more   == Virtual(two.b, two.bts, width + IF masked THEN 4 ELSE 0)
           h      == VirtualReadHeader(b)
<1>1. h = [b |-> more.b, bts |-> more.bts, op |-> two.bts[1] % 16,
           length |-> IF width = 0 THEN code ELSE Number(SubSeq(more.bts, 1, width)),
           mask |-> IF masked THEN SubSeq(more.bts, width + 1, width + 4)
                    ELSE <<0, 0, 0, 0>>,
           error |-> width = 8 /\ (code # Len7 + 2 \/ more.bts[1] >= 128)]
  BY DEF VirtualReadHeader
<1>2. width = Width(code)
  BY DEF Width
<1>3. masked => more = Virtual(two.b, two.bts, width + 4)
  OBVIOUS
<1>4. masked <=> two.bts[2] >= 128
  OBVIOUS
<1> HIDE DEF h, more, width, masked, code
<1>5. masked => /\ h.b = more.b /\ h.bts = more.bts /\ h.op = two.bts[1] % 16
                /\ h.length = IF width = 0 THEN code ELSE Number(SubSeq(more.bts, 1, width))
                /\ h.mask = SubSeq(more.bts, width + 1, width + 4)
                /\ h.error <=> width = 8 /\ (code # Len7 + 2 \/ more.bts[1] >= 128)
  BY <1>1
<1> QED
  BY <1>2, <1>3, <1>4, <1>5 DEF code, h, Part

(* The same, as a relation of what is read and what is understood.          *)
Understood(h, more, two, code, width) ==
  /\ h.b = more.b /\ h.bts = more.bts /\ h.op = two.bts[1] % 16
  /\ h.length = IF width = 0 THEN code ELSE Number(Part(more.bts, 1, width))
  /\ h.mask = Part(more.bts, width + 1, width + 4)
  /\ h.error <=> width = 8 /\ (code # Len7 + 2 \/ more.bts[1] >= 128)

(* VirtualReadHeader understands what the bytes read say.                   *)
LEMMA HeaderUnderstood ==
  ASSUME NEW b
  PROVE  LET two   == Virtual(b, hdr, 2)
             code  == two.bts[2] % 128
             more  == Virtual(two.b, two.bts, Width(code) + 4)
         IN two.bts[2] >= 128 => Understood(VirtualReadHeader(b), more, two, code, Width(code))
BY HeaderParts DEF Understood

(* What VirtualReadHeader finds is the header of f, rest is behind it, and  *)
(* the buffer is as it was when the tentative read is taken back.           *)
HeaderIs(b, f, rest, h) ==
  /\ h.op = f.op /\ h.length = Len(f.payload) /\ h.mask = f.mask /\ ~h.error
  /\ h.bts \in Seq(Byte) /\ Len(h.bts) = 12
  /\ RB!VirtualLength(h.b) >= h.length <=> Len(rest) >= h.length
  /\ RB!VirtualLength(h.b) < h.length <=> Len(rest) < h.length
  /\ LET c == RB!VirtualFlush(h.b)
     IN RP!RingOK(c) /\ RP!Ahead(c) = 0 /\ RP!Data(c) = rest /\ c.w = b.w
  /\ rest # <<>> => LET c == RB!VirtualRevert(h.b)
                    IN /\ RP!RingOK(c) /\ RP!Ahead(c) = 0
                       /\ RP!Data(c) = RP!Data(b) /\ c.w = b.w

(* VirtualReadHeader finds the header of a frame of which the header and,   *)
(* if there is one, a byte of the payload have arrived.                     *)
LEMMA HeaderRead ==
  ASSUME NEW b, RP!RingOK(b), RP!Ahead(b) = 0, NEW f, IsMasked(f),
         NEW rest \in Seq(Byte), RP!Data(b) = ClientHeader(f) \o rest,
         rest # <<>> \/ Len(f.payload) = 0, hdr \in Seq(Byte), Len(hdr) = 12,
         NEW h, h = VirtualReadHeader(b)
  PROVE  HeaderIs(b, f, rest, h)
<1> USE DEF HeaderIs
<1>1. PICK n \in Nat : n = Len(f.payload) /\ n < Huge
  BY LenProperties DEF IsMasked
<1>2. PICK W \in Nat : W = Width(Code(n)) /\ W \in {0, 2, 8}
  <2>1. Width(Code(n)) \in {0, 2, 8}
    BY DEF Width
  <2> QED
    BY <2>1
<1>3. Len(rest) \in Nat
  BY LenProperties
<1>s. Shape(f, n, W)
  BY <1>1, <1>2 DEF Shape
<1>4. PICK d : d = RP!Data(b)
  OBVIOUS
<1>5. /\ d \in Seq(Byte) /\ Len(d) = 6 + W + Len(rest)
      /\ Part(d, 1, 2) = FirstTwo(Lead(f), 128, n)
      /\ Part(d, 3, W + 6) = Long(n) \o f.mask
      /\ Part(d, W + 7, Len(d)) = rest
  <2>1. HeaderThen(d, f, rest)
    BY <1>4 DEF HeaderThen
  <2>2. d \in Seq(Byte) /\ Len(d) = 6 + W + Len(rest)
    BY ONLY <1>s, <2>1, HeaderPlaces, IsMasked(f), n \in Nat, W \in Nat, rest \in Seq(Byte)
  <2>3. /\ Part(d, 1, 2) = FirstTwo(Lead(f), 128, n)
        /\ Part(d, 3, W + 6) = Long(n) \o f.mask
    BY ONLY <1>s, <2>1, HeaderPlaces, IsMasked(f), n \in Nat, W \in Nat, rest \in Seq(Byte)
  <2>4. Part(d, W + 7, Len(d)) = rest
    BY ONLY <1>s, <2>1, HeaderPlaces, IsMasked(f), n \in Nat, W \in Nat, rest \in Seq(Byte)
  <2> QED
    BY <2>2, <2>3, <2>4
<1>6. RP!VirtualLength(b) = 6 + W + Len(rest)
  <2>1. /\ RP!Length(b) = Len(RP!Data(b)) /\ RP!Length(b) \in Nat
        /\ RP!VirtualLength(b) = RP!Length(b) - RP!Ahead(b)
    BY DataOf
  <2> QED
    BY <1>4, <1>5, <2>1
<1>7. /\ FirstTwo(Lead(f), 128, n) \in Seq(Byte) /\ Len(FirstTwo(Lead(f), 128, n)) = 2
      /\ Long(n) \o f.mask \in Seq(Byte) /\ Len(Long(n) \o f.mask) = W + 4
  <2>1. HeaderFormed(f, n)
    BY ONLY <1>1, <1>2, ClientHeaderFormed, IsMasked(f)
  <2> QED
    BY ONLY <1>1, <1>2, <2>1 DEF HeaderFormed
(* The first two bytes. *)
<1>8. PICK two : two = Virtual(b, hdr, 2)
  OBVIOUS
<1>9. PICK b2 : b2 = two.b
  OBVIOUS
<1>10. /\ b2 = RP!VirtualRead(b, 2) /\ two.bts \in Seq(Byte) /\ Len(two.bts) = 12
       /\ two.bts[1] = Lead(f) /\ two.bts[2] = 128 + Code(n)
  <2>1. PICK k \in Nat : k = 2
    OBVIOUS
  <2>2. PICK first : first = FirstTwo(Lead(f), 128, n)
    OBVIOUS
  <2>3. first \in Seq(Byte) /\ Len(first) = k
    BY <1>7, <2>1, <2>2
  <2>4. first = SubSeq(RP!Data(b), RP!Ahead(b) + 1, RP!Ahead(b) + k)
    <3>1. 0 + 1 = 1 /\ 0 + 2 = 2
      OBVIOUS
    <3> QED
      BY <1>4, <1>5, <2>1, <2>2, <3>1 DEF Part
  <2>11. Gets(b, k, first)
    BY <2>3, <2>4 DEF Gets
  <2>5. k <= RP!VirtualLength(b) /\ k <= 12
    BY <1>3, <1>6, <2>1
  <2>6. two = Virtual(b, hdr, k)
    BY <1>8, <2>1
  <2>7. /\ two.b = RP!VirtualRead(b, k) /\ two.bts \in Seq(Byte) /\ Len(two.bts) = 12
        /\ Begins(two.bts, first)
    BY ONLY <2>11, <2>5, <2>6, k \in Nat, VirtualBytes, RP!RingOK(b),
            hdr \in Seq(Byte), Len(hdr) = 12
  <2>8. PICK old : old \in Seq(Byte) /\ two.bts = first \o old
    BY <2>7 DEF Begins
  <2>9. two.bts[1] = first[1] /\ two.bts[2] = first[2]
    <3>1. 1 \in 1 .. Len(first) /\ 2 \in 1 .. Len(first)
      BY <2>1, <2>3
    <3>2. (first \o old)[1] = first[1]
      BY ONLY <2>3, <2>8, <3>1, ConcatFirst
    <3>3. (first \o old)[2] = first[2]
      BY ONLY <2>3, <2>8, <3>1, ConcatFirst
    <3> QED
      BY <2>8, <3>2, <3>3
  <2>10. first[1] = Lead(f) /\ first[2] = 128 + Code(n)
    BY <2>2 DEF FirstTwo
  <2> QED
    BY <1>9, <2>1, <2>7, <2>9, <2>10
<1>11. RP!RingOK(b2) /\ RP!Data(b2) = d /\ RP!Ahead(b2) = 2
  <2>1. PICK k \in Nat : k = 2 /\ k < RP!VirtualLength(b)
    BY <1>3, <1>6
  <2>2. /\ RP!RingOK(RP!VirtualRead(b, k)) /\ RP!Data(RP!VirtualRead(b, k)) = RP!Data(b)
        /\ RP!Ahead(RP!VirtualRead(b, k)) = RP!Ahead(b) + k
    BY <2>1, RP!VirtualReadKeeps, RingFacts
  <2> QED
    BY <1>4, <1>10, <2>1, <2>2
<1>12. RP!VirtualLength(b2) = 4 + W + Len(rest)
  <2>1. RP!VirtualLength(b2) = Len(d) - 2
    BY <1>11, DataOf
  <2> QED
    BY <1>3, <1>5, <2>1
<1>13. two.bts[1] % 16 = f.op /\ two.bts[2] >= 128 /\ two.bts[2] % 128 = Code(n)
  <2>1. Lead(f) % 16 = f.op
    BY FirstByteIs DEF IsMasked, Lead
  <2>2. PICK c \in Nat : c = Code(n) /\ c <= 127
    BY <1>1, LengthForm
  <2>3. (128 + c) % 128 = c /\ 128 + c >= 128
    BY ONLY <2>2, LowBits
  <2> QED
    BY <1>10, <2>1, <2>2, <2>3
(* The others. *)
<1>14. PICK more : more = Virtual(two.b, two.bts, W + 4)
  OBVIOUS
<1>15. PICK b3 : b3 = more.b
  OBVIOUS
<1>16. PICK bts : bts = more.bts
  OBVIOUS
<1>17. /\ b3 = RP!VirtualRead(b2, W + 4) /\ bts \in Seq(Byte) /\ Len(bts) = 12
       /\ Begins(bts, Long(n) \o f.mask)
  <2>1. PICK k \in Nat : k = W + 4 /\ k <= 12
    BY <1>2
  <2>2. PICK tail, o : tail = Long(n) \o f.mask /\ o = two.bts
    OBVIOUS
  <2>3. tail \in Seq(Byte) /\ Len(tail) = k /\ o \in Seq(Byte) /\ Len(o) = 12
    BY <1>7, <1>10, <2>1, <2>2
  <2>4. tail = SubSeq(RP!Data(b2), RP!Ahead(b2) + 1, RP!Ahead(b2) + k)
    <3>1. 2 + 1 = 3 /\ 2 + k = W + 6
      BY <2>1
    <3> QED
      BY <1>5, <1>11, <2>2, <3>1 DEF Part
  <2>8. Gets(b2, k, tail)
    BY <2>3, <2>4 DEF Gets
  <2>5. k <= RP!VirtualLength(b2)
    BY <1>3, <1>12, <2>1
  <2>6. more = Virtual(b2, o, k)
    BY <1>9, <1>14, <2>1, <2>2
  <2>7. /\ more.b = RP!VirtualRead(b2, k) /\ more.bts \in Seq(Byte) /\ Len(more.bts) = 12
        /\ Begins(more.bts, tail)
    BY ONLY <1>11, <2>1, <2>3, <2>5, <2>6, <2>8, VirtualBytes
  <2> QED
    BY <1>15, <1>16, <2>1, <2>2, <2>7
<1>18. /\ Part(bts, 1, W) = Long(n) /\ Part(bts, W + 1, W + 4) = f.mask
       /\ W = 8 => bts[1] = 0
  BY ONLY <1>s, <1>17, HeaderBuffer, IsMasked(f), n \in Nat, W \in Nat
(* What it has understood. *)
<1>19. /\ h.b = b3 /\ h.bts = bts /\ h.op = f.op /\ h.mask = f.mask
       /\ h.length = IF W = 0 THEN Code(n) ELSE Number(Long(n))
       /\ h.error <=> W = 8 /\ (Code(n) # Len7 + 2 \/ bts[1] >= 128)
  <2>1. PICK code : code = two.bts[2] % 128
    OBVIOUS
  <2>2. code = Code(n) /\ W = Width(code)
    BY <1>2, <1>13, <2>1
  <2>3. /\ h.b = more.b /\ h.bts = more.bts /\ h.op = two.bts[1] % 16
        /\ h.length = IF W = 0 THEN code ELSE Number(Part(more.bts, 1, W))
        /\ h.mask = Part(more.bts, W + 1, W + 4)
        /\ h.error <=> W = 8 /\ (code # Len7 + 2 \/ more.bts[1] >= 128)
    <3>1. Understood(VirtualReadHeader(b), more, two, code, W)
      BY ONLY <1>8, <1>13, <1>14, <2>1, <2>2, HeaderUnderstood
    <3> QED
      BY <3>1 DEF Understood
  <2> QED
    BY ONLY <1>13, <1>15, <1>16, <1>18, <2>2, <2>3
<1>20. h.length = n /\ ~h.error
  <2>1. /\ W = 0 => Code(n) = n
        /\ W # 0 => Number(Long(n)) = n
        /\ W = 8 => Code(n) = Len7 + 2
    BY <1>1, <1>2, LengthForm
  <2>2. W = 8 => ~(bts[1] >= 128)
    BY <1>18
  <2> QED
    BY <1>19, <2>1, <2>2
(* What is left in the buffer. *)
<1>21. PICK k \in Nat : k = W + 4 /\ k # 0 /\ k <= RP!VirtualLength(b2)
  BY <1>3, <1>12
<1>22. b3 = RP!VirtualRead(b2, k)
  BY <1>17, <1>21
<1>23. /\ RP!VirtualLength(b3) \in Nat
       /\ RP!VirtualFlush(b3).w = b.w /\ RP!VirtualRevert(b3).w = b.w
  <2>1. b2.w = b.w
    BY <1>10, WriteCursorKept
  <2>2. b3 \in RP!Ring /\ b3.w = b2.w /\ RP!VirtualLength(b3) \in Nat
    BY <1>11, <1>21, <1>22, VirtualCursors
  <2> QED
    BY <2>1, <2>2, FlushCursors
<1>24. RB!VirtualLength(h.b) = RP!VirtualLength(b3) /\ RB!VirtualFlush(h.b) = RP!VirtualFlush(b3)
       /\ RB!VirtualRevert(h.b) = RP!VirtualRevert(b3)
  BY <1>19, SameLengths, SameVirtual
<1>25. CASE rest # <<>>
  <2>1. Len(rest) > 0
    BY <1>3, <1>25, EmptySeq
  <2>2. k < RP!VirtualLength(b2) /\ 2 + k = W + 6 /\ 2 + k # 0
    BY <1>3, <1>12, <1>21, <2>1
  <2>3. RP!RingOK(b3) /\ RP!Data(b3) = d /\ RP!Ahead(b3) = W + 6
    <3>1. RP!RingOK(b3) /\ RP!Data(b3) = RP!Data(b2) /\ RP!Ahead(b3) = RP!Ahead(b2) + k
      BY <1>11, <1>22, <2>2, RP!VirtualReadKeeps, RingFacts
    <3> QED
      BY <1>11, <2>2, <3>1
  <2>4. RP!VirtualLength(b3) = Len(rest)
    <3>1. RP!VirtualLength(b3) = Len(d) - (W + 6)
      BY <2>3, DataOf
    <3> QED
      BY <1>3, <1>5, <3>1
  <2>5. /\ RP!RingOK(RP!VirtualFlush(b3)) /\ RP!Ahead(RP!VirtualFlush(b3)) = 0
        /\ RP!Data(RP!VirtualFlush(b3)) = rest
    <3>1. b3.vr # b3.r
      <4>1. W + 6 # 0
        OBVIOUS
      <4> QED
        BY <2>3, <4>1, AheadMoved
    <3>2. /\ RP!RingOK(RP!VirtualFlush(b3)) /\ RP!Ahead(RP!VirtualFlush(b3)) = 0
          /\ RP!Data(RP!VirtualFlush(b3))
               = SubSeq(RP!Data(b3), RP!Ahead(b3) + 1, Len(RP!Data(b3)))
      BY <2>3, <3>1, RP!VirtualFlushKeeps, RingFacts
    <3>3. (W + 6) + 1 = W + 7
      OBVIOUS
    <3> QED
      BY <1>5, <2>3, <3>2, <3>3 DEF Part
  <2>6. /\ RP!RingOK(RP!VirtualRevert(b3)) /\ RP!Ahead(RP!VirtualRevert(b3)) = 0
        /\ RP!Data(RP!VirtualRevert(b3)) = d
    BY <2>3, RP!VirtualRevertKeeps, RingFacts
  <2> QED
    BY ONLY <1>1, <1>4, <1>17, <1>19, <1>20, <1>23, <1>24, <2>4, <2>5, <2>6
<1>26. CASE rest = <<>>
  <2>1. Len(rest) = 0 /\ n = 0
    BY <1>1, <1>26, EmptySeq
  <2>2. k \in Nat \ {0} /\ k = RP!VirtualLength(b2)
    BY <1>12, <1>21, <2>1
  <2>3. PICK c : c = RP!VirtualFlush(b3)
    OBVIOUS
  <2>4. RP!RingOK(c) /\ RP!Data(c) = <<>> /\ RP!Ahead(c) = 0
    BY <1>11, <1>22, <2>2, <2>3, ExhaustedFlush
  <2>5. /\ RB!VirtualLength(h.b) >= h.length /\ Len(rest) >= h.length
        /\ ~(RB!VirtualLength(h.b) < h.length) /\ ~(Len(rest) < h.length)
    BY <1>20, <1>23, <1>24, <2>1
  <2> QED
    BY ONLY <1>1, <1>17, <1>19, <1>20, <1>23, <1>24, <1>26, <2>3, <2>4, <2>5
<1> QED
  BY <1>25, <1>26
-----------------------------------------------------------------------------
(* The frames that are sent *)

(* What the assumption says of the frames.                                  *)
LEMMA MaskedFrames == \A f \in Masked : IsMasked(f)
<1> TAKE f \in Masked
<1>1. PICK k \in 1 .. Len(Sends) : f \in Sends[k]
  BY Zenon DEF Masked
<1> QED
  BY <1>1, WebsocketAssumption DEF IsMasked

FrameLen(f) == HeaderLen(f) + Len(f.payload)

(* The frames that are sent have at least six bytes.                        *)
LEMMA FrameLengths ==
  ASSUME NEW s \in Seq(Masked), NEW k \in 1 .. Len(s)
  PROVE  IsMasked(s[k]) /\ FrameLen(s[k]) \in Nat /\ FrameLen(s[k]) >= 6
<1>1. PICK f : f = s[k] /\ IsMasked(f)
  <2>1. s[k] \in Masked
    BY ElementOfSeq
  <2> QED
    BY <2>1, MaskedFrames
<1>2. HeaderLen(f) \in Nat /\ HeaderLen(f) >= 6 /\ Len(f.payload) \in Nat
  BY <1>1, ClientFrameForm
<1> QED
  BY <1>1, <1>2 DEF FrameLen

(* Start, for any sequence of frames, and what its recursion comes to.      *)
StartOf(s) ==
  CHOOSE g : g = [k \in 1 .. Len(s) + 1 |->
                    IF k = 1 THEN Len(RequestBytes)
                    ELSE g[k - 1] + HeaderLen(s[k - 1]) + Len(s[k - 1].payload)]

Adds(s, g) ==
  /\ g[1] = 2
  /\ \A k \in 1 .. Len(s) : g[k] \in Nat /\ g[k + 1] = g[k] + FrameLen(s[k])

(* Start is the sum of the lengths of the frames before.                    *)
LEMMA StartAdds ==
  ASSUME NEW s \in Seq(Masked)
  PROVE  Adds(s, StartOf(s)) /\ \A k \in 1 .. Len(s) + 1 : StartOf(s)[k] \in Nat
<1>1. PICK n \in Nat : n = Len(s)
  BY LenProperties
<1>2. \A k \in 1 .. n : FrameLen(s[k]) \in Nat
  BY <1>1, FrameLengths
<1>3. Len(RequestBytes) = 2
  BY DEF RequestBytes
<1> DEFINE step == [p \in (1 .. n) \X Nat |-> p[2] + FrameLen(s[p[1]])]
<1>4. step \in [(1 .. n) \X Nat -> Nat]
  <2>1. \A p \in (1 .. n) \X Nat : p[2] + FrameLen(s[p[1]]) \in Nat
    BY <1>2
  <2> QED
    BY <2>1
<1>5. \A k \in 1 .. n, x \in Nat : step[<<k, x>>] = x + FrameLen(s[k])
  OBVIOUS
<1> HIDE DEF step
<1>6. PICK f \in [0 .. n -> Nat] :
        f[0] = 2 /\ \A k \in 1 .. n : f[k] = step[<<k, f[k - 1]>>]
  <2>1. PICK first \in Nat : first = 2
    OBVIOUS
  <2>2. \E f \in [0 .. n -> Nat] : Recurs(f, first, n, step)
    BY ONLY <1>4, RecursionExists, n \in Nat, first \in Nat
  <2> QED
    BY <2>1, <2>2 DEF Recurs
<1>7. \A k \in 1 .. n : f[k - 1] \in Nat /\ f[k] = f[k - 1] + FrameLen(s[k])
  <2> TAKE k \in 1 .. n
  <2>1. f[k - 1] \in Nat
    OBVIOUS
  <2> QED
    BY <1>5, <1>6, <2>1
<1> DEFINE G == [k \in 1 .. n + 1 |-> f[k - 1]]
           Is(g) == g = [k \in 1 .. n + 1 |->
                           IF k = 1 THEN 2
                           ELSE g[k - 1] + HeaderLen(s[k - 1]) + Len(s[k - 1].payload)]
<1>a. \A k \in 1 .. n, x \in Nat :
        x + HeaderLen(s[k]) + Len(s[k].payload) = x + FrameLen(s[k])
  <2> TAKE k \in 1 .. n, x \in Nat
  <2>1. HeaderLen(s[k]) \in Nat /\ Len(s[k].payload) \in Nat
    BY <1>1, FrameLengths, ClientFrameForm
  <2> QED
    BY <2>1 DEF FrameLen
<1>8. Is(G)
  <2>1. ASSUME NEW k \in 1 .. n + 1
        PROVE  G[k] = IF k = 1 THEN 2
                      ELSE G[k - 1] + HeaderLen(s[k - 1]) + Len(s[k - 1].payload)
    <3>1. CASE k = 1
      BY <1>6, <3>1
    <3>2. CASE k # 1
      <4>1. PICK j \in 1 .. n : j = k - 1
        BY <3>2
      <4>2. G[k] = f[j] /\ G[j] = f[j - 1]
        BY <4>1
      <4> QED
        BY <1>7, <1>a, <3>2, <4>1, <4>2
    <3> QED
      BY <3>1, <3>2
  <2>2. G = [k \in 1 .. n + 1 |-> G[k]]
    OBVIOUS
  <2> HIDE DEF G
  <2>3. [k \in 1 .. n + 1 |-> G[k]]
          = [k \in 1 .. n + 1 |-> IF k = 1 THEN 2
                ELSE G[k - 1] + HeaderLen(s[k - 1]) + Len(s[k - 1].payload)]
    BY <2>1
  <2> QED
    BY <2>2, <2>3, Zenon
<1>9. StartOf(s) = CHOOSE g : Is(g)
  BY <1>1, <1>3 DEF StartOf
<1>10. Is(StartOf(s))
  <2> HIDE DEF Is, G
  <2> QED
    BY <1>8, <1>9
<1>11. PICK g : g = StartOf(s) /\ Is(g)
  BY <1>10
<1>12. /\ g[1] = 2
       /\ \A k \in 1 .. n :
            g[k + 1] = g[k] + HeaderLen(s[k]) + Len(s[k].payload)
  <2>1. \A k \in 1 .. n + 1 :
          g[k] = IF k = 1 THEN 2 ELSE g[k - 1] + HeaderLen(s[k - 1]) + Len(s[k - 1].payload)
    BY <1>11
  <2>2. 1 \in 1 .. n + 1
    OBVIOUS
  <2>3. ASSUME NEW k \in 1 .. n
        PROVE  g[k + 1] = g[k] + HeaderLen(s[k]) + Len(s[k].payload)
    <3>1. k + 1 \in 1 .. n + 1 /\ k + 1 # 1 /\ (k + 1) - 1 = k
      OBVIOUS
    <3> QED
      BY <2>1, <3>1
  <2> QED
    BY <2>1, <2>2, <2>3
<1> HIDE DEF Is, G
<1> DEFINE N == {k \in 0 .. n : g[k + 1] \in Nat}
<1>13. \A k \in 0 .. n : k \in N
  <2>1. 0 \in N
    BY <1>12
  <2>2. ASSUME NEW k \in 0 .. n - 1, k \in N PROVE k + 1 \in N
    <3>1. k + 1 \in 1 .. n /\ g[k + 1] \in Nat
      BY <2>2
    <3>2. g[(k + 1) + 1] = g[k + 1] + FrameLen(s[k + 1])
      BY <1>12, <1>a, <3>1
    <3> QED
      BY <1>2, <3>1, <3>2
  <2> HIDE DEF N
  <2> QED
    BY <2>1, <2>2, InductionUpTo
<1>14. \A k \in 1 .. n + 1 : g[k] \in Nat
  <2> TAKE k \in 1 .. n + 1
  <2>1. k - 1 \in 0 .. n /\ (k - 1) + 1 = k
    OBVIOUS
  <2> QED
    BY <1>13, <2>1
<1>15. \A k \in 1 .. n : g[k + 1] = g[k] + FrameLen(s[k])
  BY <1>12, <1>14, <1>a
<1> QED
  BY <1>1, <1>11, <1>12, <1>14, <1>15 DEF Adds

(* Start is StartOf the frames that have been sent.                         *)
LEMMA StartIs == Start = StartOf(sent) /\ Start' = StartOf(sent')
BY DEF Start, StartOf

(* The places of the frames are no others for the frame that follows them.  *)
LEMMA StartAppend ==
  ASSUME NEW s \in Seq(Masked), NEW f \in Masked
  PROVE  /\ \A k \in 1 .. Len(s) + 1 : StartOf(Append(s, f))[k] = StartOf(s)[k]
         /\ StartOf(Append(s, f))[Len(s) + 2] = StartOf(s)[Len(s) + 1] + FrameLen(f)
<1>1. PICK n \in Nat : n = Len(s)
  BY LenProperties
<1>2. PICK t \in Seq(Masked) : t = Append(s, f)
  BY AppendProperties
<1>3. Len(t) = n + 1 /\ t[n + 1] = f /\ \A k \in 1 .. n : t[k] = s[k]
  BY <1>1, <1>2, AppendProperties
<1>4. PICK g, h : g = StartOf(s) /\ h = StartOf(t)
  OBVIOUS
<1>5. /\ g[1] = 2 /\ h[1] = 2
      /\ \A k \in 1 .. n : g[k] \in Nat /\ g[k + 1] = g[k] + FrameLen(s[k])
      /\ \A k \in 1 .. n + 1 : h[k] \in Nat /\ h[k + 1] = h[k] + FrameLen(t[k])
  BY <1>1, <1>3, <1>4, StartAdds DEF Adds
<1> DEFINE N == {k \in 0 .. n : h[k + 1] = g[k + 1]}
<1>6. \A k \in 0 .. n : k \in N
  <2>1. 0 \in N
    BY <1>5
  <2>2. ASSUME NEW k \in 0 .. n - 1, k \in N PROVE k + 1 \in N
    <3>1. k + 1 \in 1 .. n /\ k + 1 \in 1 .. n + 1 /\ k + 1 \in 0 .. n
      OBVIOUS
    <3>2. h[(k + 1) + 1] = g[(k + 1) + 1]
      BY <1>3, <1>5, <2>2, <3>1
    <3> QED
      BY <3>1, <3>2
  <2> HIDE DEF N
  <2> QED
    BY <2>1, <2>2, InductionUpTo
<1>7. ASSUME NEW k \in 1 .. n + 1 PROVE h[k] = g[k]
  <2>1. k - 1 \in 0 .. n /\ (k - 1) + 1 = k
    OBVIOUS
  <2> QED
    BY <1>6, <2>1
<1>8. h[n + 2] = g[n + 1] + FrameLen(f)
  <2>1. n + 1 \in 1 .. n + 1 /\ (n + 1) + 1 = n + 2
    OBVIOUS
  <2> QED
    BY <1>3, <1>5, <1>7, <2>1
<1> QED
  BY <1>1, <1>2, <1>4, <1>7, <1>8

(* The bytes of the client's frames, ...                                    *)
LEMMA ClientFramesTyped ==
  ASSUME NEW s \in Seq(Masked)
  PROVE  /\ ClientFrames(s) \in Seq(Seq(Byte)) /\ Len(ClientFrames(s)) = Len(s)
         /\ \A k \in 1 .. Len(s) : ClientFrames(s)[k] = ClientFrame(s[k])
<1>1. \A k \in 1 .. Len(s) : ClientFrame(s[k]) \in Seq(Byte)
  BY FrameLengths, ClientFrameForm
<1>2. PICK n \in Nat : n = Len(s)
  BY LenProperties
<1>3. PICK c : c = [k \in 1 .. n |-> ClientFrame(s[k])]
  OBVIOUS
<1>4. c \in [1 .. n -> Seq(Byte)] /\ \A k \in 1 .. n : c[k] = ClientFrame(s[k])
  BY <1>1, <1>2, <1>3
<1>5. c \in Seq(Seq(Byte)) /\ Len(c) = n
  BY <1>4
<1> QED
  BY <1>2, <1>3, <1>4, <1>5 DEF ClientFrames

(* ... and of those behind the first m.                                     *)
LEMMA FramesAfterTyped ==
  ASSUME NEW s \in Seq(Masked), NEW m \in 0 .. Len(s)
  PROVE  /\ SubSeq(s, m + 1, Len(s)) \in Seq(Masked) /\ Len(SubSeq(s, m + 1, Len(s))) = Len(s) - m
         /\ \A k \in 1 .. Len(s) - m : SubSeq(s, m + 1, Len(s))[k] = s[m + k]
         /\ FramesAfter(s, m) \in Seq(Byte)
<1>1. m + 1 \in 1 .. Len(s) + 1 /\ Len(s) \in (m + 1) - 1 .. Len(s)
  BY LenProperties
<1>2. PICK t : t = SubSeq(s, m + 1, Len(s))
  OBVIOUS
<1>3. /\ t \in Seq(Masked) /\ Len(t) = Len(s) - (m + 1) + 1
      /\ \A k \in 1 .. Len(s) - (m + 1) + 1 : t[k] = s[(m + 1) + k - 1]
  BY <1>1, <1>2, PartElements
<1>4. Len(s) - (m + 1) + 1 = Len(s) - m
  BY LenProperties
<1>5. \A k \in 1 .. Len(s) - m : t[k] = s[m + k]
  <2> TAKE k \in 1 .. Len(s) - m
  <2>1. (m + 1) + k - 1 = m + k
    BY LenProperties
  <2> QED
    BY <1>3, <1>4, <2>1
<1>6. FlattenSeq(ClientFrames(t)) \in Seq(Byte)
  <2>1. PICK c \in Seq(Seq(Byte)) : c = ClientFrames(t)
    BY <1>3, ClientFramesTyped
  <2>2. <<>> \in Seq(Byte)
    OBVIOUS
  <2> QED
    BY <2>1, <2>2, FlattenAppend
<1> QED
  BY <1>2, <1>3, <1>4, <1>5, <1>6 DEF FramesAfter

(* Behind the last frame there is nothing. *)
LEMMA FramesAfterLast ==
  ASSUME NEW s \in Seq(Masked)
  PROVE  FramesAfter(s, Len(s)) = <<>>
<1>1. Len(s) \in 0 .. Len(s)
  BY LenProperties
<1>2. PICK t \in Seq(Masked) : t = SubSeq(s, Len(s) + 1, Len(s)) /\ Len(t) = Len(s) - Len(s)
  BY <1>1, FramesAfterTyped
<1>3. Len(t) = 0
  BY <1>2, LenProperties
<1>4. PICK c \in Seq(Seq(Byte)) : c = ClientFrames(t) /\ Len(c) = 0
  BY <1>3, ClientFramesTyped
<1>5. FlattenSeq(c) = <<>>
  BY <1>4, FlattenIs
<1> QED
  BY <1>2, <1>4, <1>5 DEF FramesAfter

(* Behind the m-th frame comes the next one. *)
LEMMA FramesAfterNext ==
  ASSUME NEW s \in Seq(Masked), NEW m \in 0 .. Len(s), m # Len(s)
  PROVE  /\ FramesAfter(s, m) = ClientFrame(s[m + 1]) \o FramesAfter(s, m + 1)
         /\ FramesAfter(s, m + 1) \in Seq(Byte) /\ s[m + 1] \in Masked
<1>0. PICK n \in Nat : n = Len(s)
  BY LenProperties
<1>1. m + 1 \in 0 .. n /\ m + 1 \in 1 .. n /\ m \in 0 .. n
  BY <1>0
<1>2. s[m + 1] \in Masked
  BY <1>0, <1>1, ElementOfSeq
<1>3. PICK f \in Masked : f = s[m + 1]
  BY <1>2
<1>4. PICK t, u : t = SubSeq(s, m + 1, n) /\ u = SubSeq(s, (m + 1) + 1, n)
  OBVIOUS
<1>5. /\ t \in Seq(Masked) /\ Len(t) = n - m
      /\ \A k \in 1 .. n - m : t[k] = s[m + k]
  BY <1>0, <1>4, FramesAfterTyped
<1>6. /\ u \in Seq(Masked) /\ Len(u) = n - (m + 1)
      /\ \A k \in 1 .. n - (m + 1) : u[k] = s[(m + 1) + k]
      /\ FramesAfter(s, m + 1) \in Seq(Byte)
  BY <1>0, <1>1, <1>4, FramesAfterTyped
<1>7. PICK c, d : c = ClientFrames(t) /\ d = ClientFrames(u)
  OBVIOUS
<1>8. /\ c \in Seq(Seq(Byte)) /\ Len(c) = n - m
      /\ \A k \in 1 .. n - m : c[k] = ClientFrame(t[k])
  BY <1>5, <1>7, ClientFramesTyped
<1>9. /\ d \in Seq(Seq(Byte)) /\ Len(d) = n - (m + 1)
      /\ \A k \in 1 .. n - (m + 1) : d[k] = ClientFrame(u[k])
  BY <1>6, <1>7, ClientFramesTyped
<1>10. PICK x \in Seq(Byte) : x = ClientFrame(f)
  BY <1>3, MaskedFrames, ClientFrameForm
<1>11. PICK one : one \in Seq(Seq(Byte)) /\ Len(one) = 1 /\ one[1] = x
  <2>1. \A y \in Seq(Byte) : <<y>> \in Seq(Seq(Byte)) /\ Len(<<y>>) = 1 /\ <<y>>[1] = y
    OBVIOUS
  <2> QED
    BY <2>1
<1>12. c = one \o d
  <2>1. one \o d \in Seq(Seq(Byte)) /\ Len(one \o d) = 1 + Len(d)
    <3>1. one \in Seq(Seq(Byte)) /\ d \in Seq(Seq(Byte))
      BY <1>9, <1>11
    <3>2. one \o d \in Seq(Seq(Byte)) /\ Len(one \o d) = Len(one) + Len(d)
      BY ONLY <3>1, ConcatProperties
    <3> QED
      BY <1>11, <3>2
  <2>2. Len(one \o d) = Len(c)
    BY <1>0, <1>1, <1>8, <1>9, <2>1
  <2>3. ASSUME NEW k \in 1 .. Len(c) PROVE (one \o d)[k] = c[k]
    <3>0. \A i \in 1 .. Len(one) + Len(d) :
            (one \o d)[i] = IF i <= Len(one) THEN one[i] ELSE d[i - Len(one)]
      BY <1>9, <1>11, ConcatProperties
    <3>a. k \in 1 .. Len(one) + Len(d) /\ k \in 1 .. n - m
      BY <1>0, <1>1, <1>8, <1>9, <1>11
    <3>1. CASE k = 1
      <4>1. (one \o d)[k] = x
        <5>1. k \in 1 .. Len(one) + Len(d) /\ k <= Len(one)
          BY <1>11, <3>a, <3>1
        <5> QED
          BY ONLY <1>11, <3>0, <3>1, <5>1
      <4>2. c[k] = ClientFrame(s[m + 1])
        BY <1>5, <1>8, <3>a, <3>1
      <4> QED
        BY <1>3, <1>10, <4>1, <4>2
    <3>2. CASE k # 1
      <4>1. PICK j \in 1 .. n - (m + 1) : j = k - 1 /\ m + k = (m + 1) + j
        BY <1>0, <1>1, <3>a, <3>2
      <4>2. (one \o d)[k] = d[j]
        <5>1. k \in 1 .. Len(one) + Len(d) /\ ~(k <= Len(one)) /\ k - Len(one) = j
          BY <1>11, <3>a, <3>2, <4>1
        <5> QED
          BY ONLY <3>0, <5>1
      <4>3. d[j] = ClientFrame(s[(m + 1) + j])
        BY <1>6, <1>9
      <4>4. c[k] = ClientFrame(s[m + k])
        BY <1>5, <1>8, <3>a
      <4> QED
        BY <4>1, <4>2, <4>3, <4>4
    <3> QED
      BY <3>1, <3>2
  <2> QED
    BY <1>8, <2>1, <2>2, <2>3, SeqEqual
<1>13. FlattenSeq(c) = x \o FlattenSeq(d)
  <2>a. one \in Seq(Seq(Byte)) /\ d \in Seq(Seq(Byte))
    BY <1>9, <1>11
  <2>1. FlattenSeq(one \o d) = FlattenSeq(one) \o FlattenSeq(d)
    BY ONLY <2>a, FlattenConcat
  <2>2. FlattenSeq(one) = x
    BY <1>11, FlattenOne
  <2> QED
    BY <1>12, <2>1, <2>2
<1> QED
  BY <1>0, <1>2, <1>3, <1>4, <1>6, <1>7, <1>10, <1>13 DEF FramesAfter

(* One frame more comes behind all the others. *)
LEMMA FramesAfterAppend ==
  ASSUME NEW s \in Seq(Masked), NEW f \in Masked, NEW m \in 0 .. Len(s)
  PROVE  FramesAfter(Append(s, f), m) = FramesAfter(s, m) \o ClientFrame(f)
<1>0. PICK n \in Nat : n = Len(s)
  BY LenProperties
<1>1. PICK a \in Seq(Masked) : a = Append(s, f)
  BY AppendProperties
<1>2. Len(a) = n + 1 /\ a[n + 1] = f /\ \A k \in 1 .. n : a[k] = s[k]
  BY <1>0, <1>1, AppendProperties
<1>3. PICK t, u : t = SubSeq(s, m + 1, n) /\ u = SubSeq(a, m + 1, n + 1)
  OBVIOUS
<1>4. /\ t \in Seq(Masked) /\ Len(t) = n - m
      /\ \A k \in 1 .. n - m : t[k] = s[m + k]
  BY <1>0, <1>3, FramesAfterTyped
<1>5. /\ u \in Seq(Masked) /\ Len(u) = n + 1 - m
      /\ \A k \in 1 .. n + 1 - m : u[k] = a[m + k]
  <2>1. m \in 0 .. Len(a)
    BY <1>0, <1>2
  <2> QED
    BY <1>2, <1>3, <2>1, FramesAfterTyped
<1>6. PICK c, d : c = ClientFrames(t) /\ d = ClientFrames(u)
  OBVIOUS
<1>7. /\ c \in Seq(Seq(Byte)) /\ Len(c) = n - m
      /\ \A k \in 1 .. n - m : c[k] = ClientFrame(t[k])
  BY <1>4, <1>6, ClientFramesTyped
<1>8. /\ d \in Seq(Seq(Byte)) /\ Len(d) = n + 1 - m
      /\ \A k \in 1 .. n + 1 - m : d[k] = ClientFrame(u[k])
  BY <1>5, <1>6, ClientFramesTyped
<1>9. PICK x \in Seq(Byte) : x = ClientFrame(f)
  BY MaskedFrames, ClientFrameForm
<1>10. d = Append(c, x)
  <2>1. /\ Append(c, x) \in Seq(Seq(Byte)) /\ Len(Append(c, x)) = Len(c) + 1
        /\ Append(c, x)[Len(c) + 1] = x /\ \A k \in 1 .. Len(c) : Append(c, x)[k] = c[k]
    <3>1. c \in Seq(Seq(Byte)) /\ x \in Seq(Byte)
      BY <1>7
    <3> QED
      BY ONLY <3>1, AppendProperties
  <2>2. Len(d) = Len(c) + 1 /\ m \in 0 .. n
    BY <1>0, <1>7, <1>8
  <2>3. ASSUME NEW k \in 1 .. Len(d) PROVE d[k] = Append(c, x)[k]
    <3>0. k \in 1 .. n + 1 - m
      BY <1>8
    <3>1. CASE k = Len(c) + 1
      <4>1. m + k = n + 1
        BY <1>7, <2>2, <3>1
      <4> QED
        BY <1>2, <1>5, <1>8, <1>9, <2>1, <3>0, <3>1, <4>1
    <3>2. CASE k # Len(c) + 1
      <4>1. k \in 1 .. Len(c) /\ k \in 1 .. n - m /\ m + k \in 1 .. n
        <5>1. n \in Nat /\ m \in 0 .. n /\ Len(c) = n - m /\ k \in 1 .. n + 1 - m
          BY <1>0, <1>7, <2>2, <3>0
        <5> QED
          BY ONLY <3>2, <5>1
      <4>2. d[k] = ClientFrame(s[m + k])
        BY <1>2, <1>5, <1>8, <3>0, <4>1
      <4>3. Append(c, x)[k] = ClientFrame(s[m + k])
        BY <1>4, <1>7, <2>1, <4>1
      <4> QED
        BY <4>2, <4>3
    <3> QED
      BY <3>1, <3>2
  <2> QED
    BY <1>8, <2>1, <2>2, <2>3, SeqEqual
<1>11. FlattenSeq(d) = FlattenSeq(c) \o x
  BY <1>7, <1>10, FlattenAppend
<1> QED
  BY <1>0, <1>1, <1>2, <1>3, <1>6, <1>9, <1>11 DEF FramesAfter

(* What the server writes: two bytes, the longer forms of the length and   *)
(* the payload.                                                             *)
LEMMA ServerFrameForm ==
  ASSUME NEW f \in Short, NEW n \in Nat, n = Len(f.payload)
  PROVE  /\ FirstTwo(128 + f.op, 0, n) \in Seq(Byte) /\ Len(FirstTwo(128 + f.op, 0, n)) = 2
         /\ Long(n) \in Seq(Byte) /\ Len(Long(n)) = Width(Code(n)) /\ Width(Code(n)) \in Nat
         /\ FrameToBytes(f) = (FirstTwo(128 + f.op, 0, n) \o Long(n)) \o f.payload
         /\ FrameToBytes(f) \in Seq(Byte)
         /\ Len(FrameToBytes(f)) = 2 + Width(Code(n)) + n
<1>1. f.op \in 0 .. 15 /\ f.payload \in Seq(Byte) /\ n < Huge
  BY DEF Short, Messages
<1>2. Long(n) \in Seq(Byte) /\ Len(Long(n)) = Width(Code(n)) /\ Width(Code(n)) \in Nat
  BY <1>1, LengthForm
<1>3. PICK op \in 0 .. 15, p \in Seq(Byte) : op = f.op /\ p = f.payload
  BY <1>1
<1>4. PICK h : h = WriteHeader(TRUE, op, n, <<>>)
  OBVIOUS
<1>5. h = FirstTwo(128 + op, 0, n) \o Long(n)
  <2>0. <<>> \in Seq(Byte) /\ 0 \in Nat
    OBVIOUS
  <2>1. PICK mask \in Seq(Byte), bit \in Nat : mask = <<>> /\ bit = 0
    BY ONLY <2>0
  <2>2. n \in Nat /\ n < Huge /\ (mask = <<>> => bit = 0) /\ (mask # <<>> => bit = 128)
    BY <1>1, <2>1
  <2>3. WriteHeader(TRUE, op, n, mask) = FirstTwo(128 + op, bit, n) \o (Long(n) \o mask)
    <3>1. PICK first \in Byte : first = 128 + op
      <4>1. 128 + op \in Byte
        BY ByteIs
      <4> QED
        BY <4>1
    <3>2. WriteHeader(TRUE, op, n, mask) = Header(first, n, bit, mask)
      BY <2>1, <3>1 DEF WriteHeader, FirstByte, Header
    <3>3. Header(first, n, bit, mask) = FirstTwo(first, bit, n) \o (Long(n) \o mask)
      BY ONLY <2>2, HeaderForm, first \in Byte, mask \in Seq(Byte), bit \in Nat
    <3> QED
      BY <3>1, <3>2, <3>3
  <2>4. Long(n) \o <<>> = Long(n)
    BY <1>2, ConcatEmptySeq
  <2> QED
    BY <1>4, <2>1, <2>3, <2>4
<1>6. FirstTwo(128 + op, 0, n) \in Seq(Byte) /\ Len(FirstTwo(128 + op, 0, n)) = 2
  <2>1. Code(n) \in Nat /\ Code(n) <= 127
    BY <1>1, LengthForm
  <2>2. PICK x \in Byte, y \in Byte : x = 128 + op /\ y = 0 + Code(n)
    <3>1. 128 + op \in Byte /\ 0 + Code(n) \in Byte
      BY <2>1, ByteIs
    <3> QED
      BY <3>1
  <2> QED
    BY <2>2, PairOfBytes DEF FirstTwo
<1>7. h \in Seq(Byte) /\ Len(h) = 2 + Width(Code(n))
  <2>1. /\ FirstTwo(128 + op, 0, n) \in Seq(Byte) /\ Len(FirstTwo(128 + op, 0, n)) = 2
        /\ Long(n) \in Seq(Byte) /\ Len(Long(n)) = Width(Code(n)) /\ Width(Code(n)) \in Nat
    BY <1>2, <1>6
  <2>2. PICK a, c : a = FirstTwo(128 + op, 0, n) /\ c = Long(n)
    OBVIOUS
  <2>3. a \in Seq(Byte) /\ c \in Seq(Byte)
    BY <2>1, <2>2
  <2>4. a \o c \in Seq(Byte) /\ Len(a \o c) = Len(a) + Len(c)
    BY ONLY <2>3, ConcatProperties
  <2> QED
    BY <1>5, <2>1, <2>2, <2>4
<1>8. FrameToBytes(f) = h \o p
  BY <1>3, <1>4 DEF FrameToBytes
<1>9. h \o p \in Seq(Byte) /\ Len(h \o p) = Len(h) + Len(p)
  BY <1>7, ConcatProperties
<1>10. Len(p) = n
  BY <1>3
<1> QED
  BY <1>2, <1>3, <1>5, <1>6, <1>7, <1>8, <1>9, <1>10

(* The frames of the server. *)
LEMMA ServerFramesTyped ==
  ASSUME NEW s \in Seq(Short)
  PROVE  /\ ServerFrames(s) \in Seq(Seq(Byte)) /\ Len(ServerFrames(s)) = Len(s)
         /\ \A k \in 1 .. Len(s) : /\ ServerFrames(s)[k] = FrameToBytes(s[k])
                                   /\ s[k] \in Short /\ FrameToBytes(s[k]) \in Seq(Byte)
         /\ FlattenSeq(ServerFrames(s)) \in Seq(Byte)
<1>1. ASSUME NEW k \in 1 .. Len(s)
      PROVE  s[k] \in Short /\ FrameToBytes(s[k]) \in Seq(Byte)
  <2>1. PICK f \in Short : f = s[k]
    BY ElementOfSeq
  <2>a. PICK n \in Nat : n = Len(f.payload)
    BY LenProperties DEF Short, Messages
  <2>2. FrameToBytes(f) \in Seq(Byte)
    BY <2>a, ServerFrameForm
  <2> QED
    BY <2>1, <2>2
<1>2. PICK n \in Nat : n = Len(s)
  BY LenProperties
<1>3. PICK c : c = [k \in 1 .. n |-> FrameToBytes(s[k])]
  OBVIOUS
<1>4. c \in [1 .. n -> Seq(Byte)] /\ \A k \in 1 .. n : c[k] = FrameToBytes(s[k])
  BY <1>1, <1>2, <1>3
<1>5. c \in Seq(Seq(Byte)) /\ Len(c) = n
  BY <1>4
<1>6. FlattenSeq(c) \in Seq(Byte)
  <2>1. <<>> \in Seq(Byte)
    OBVIOUS
  <2> QED
    BY <1>5, <2>1, FlattenAppend
<1> QED
  BY <1>1, <1>2, <1>3, <1>4, <1>5, <1>6 DEF ServerFrames

(* The bytes of the server's frames, in two parts.                          *)
LEMMA ServerFramesConcat ==
  ASSUME NEW s \in Seq(Short), NEW a \in Seq(Short)
  PROVE  FlattenSeq(ServerFrames(s \o a))
           = FlattenSeq(ServerFrames(s)) \o FlattenSeq(ServerFrames(a))
<1>1. PICK n \in Nat, m \in Nat : n = Len(s) /\ m = Len(a)
  BY LenProperties
<1>2. PICK t : t = s \o a
  OBVIOUS
<1>3. /\ t \in Seq(Short) /\ Len(t) = n + m
      /\ \A k \in 1 .. n + m : t[k] = IF k <= n THEN s[k] ELSE a[k - n]
  BY <1>1, <1>2, ConcatProperties
<1>4. PICK c, d, e : c = ServerFrames(s) /\ d = ServerFrames(a) /\ e = ServerFrames(t)
  OBVIOUS
<1>5. /\ c \in Seq(Seq(Byte)) /\ Len(c) = n /\ \A k \in 1 .. n : c[k] = FrameToBytes(s[k])
  BY <1>1, <1>4, ServerFramesTyped
<1>6. /\ d \in Seq(Seq(Byte)) /\ Len(d) = m /\ \A k \in 1 .. m : d[k] = FrameToBytes(a[k])
  BY <1>1, <1>4, ServerFramesTyped
<1>7. /\ e \in Seq(Seq(Byte)) /\ Len(e) = n + m
      /\ \A k \in 1 .. n + m : e[k] = FrameToBytes(t[k])
  BY <1>3, <1>4, ServerFramesTyped
<1>8. e = c \o d
  <2>1. /\ c \o d \in Seq(Seq(Byte)) /\ Len(c \o d) = n + m
        /\ \A k \in 1 .. n + m : (c \o d)[k] = IF k <= n THEN c[k] ELSE d[k - n]
    BY <1>5, <1>6, ConcatProperties
  <2>2. ASSUME NEW k \in 1 .. n + m PROVE e[k] = (c \o d)[k]
    <3>1. CASE k <= n
      <4>1. k \in 1 .. n
        BY <3>1
      <4> QED
        BY <1>3, <1>5, <1>7, <2>1, <3>1, <4>1
    <3>2. CASE ~(k <= n)
      <4>1. k - n \in 1 .. m
        BY <3>2
      <4> QED
        BY <1>3, <1>6, <1>7, <2>1, <3>2, <4>1
    <3> QED
      BY <3>1, <3>2
  <2> QED
    BY <1>7, <2>1, <2>2, SeqEqual
<1> QED
  BY <1>2, <1>4, <1>5, <1>6, <1>8, FlattenConcat
-----------------------------------------------------------------------------
(* The invariant holds at first, ... *)

(* The request and the response are bytes.                                  *)
LEMMA TextBytes ==
  /\ RequestBytes \in Seq(Byte) /\ Len(RequestBytes) = 2
  /\ RequestBytes[1] = 71 /\ RequestBytes[2] = End
  /\ ResponseBytes \in Seq(Byte) /\ Len(ResponseBytes) = 1
<1>1. PICK x \in Byte, y \in Byte, z \in Byte : x = 71 /\ y = End /\ z = 72
  <2>1. 71 \in Byte /\ End \in Byte /\ 72 \in Byte
    BY ByteIs DEF End
  <2> QED
    BY <2>1
<1>2. /\ <<x, y>> \in Seq(Byte) /\ Len(<<x, y>>) = 2 /\ <<x, y>>[1] = x /\ <<x, y>>[2] = y
      /\ <<z>> \in Seq(Byte)
  BY PairOfBytes
<1>3. Len(<<z>>) = 1
  OBVIOUS
<1> QED
  BY <1>1, <1>2, <1>3 DEF RequestBytes, ResponseBytes

(* Where the frames begin and end.                                          *)
LEMMA Places ==
  ASSUME sent \in Seq(Masked)
  PROVE  /\ Start[1] = 2 /\ \A k \in 1 .. Len(sent) + 1 : Start[k] \in Nat
         /\ \A k \in 1 .. Len(sent) :
              /\ Start[k] \in Nat /\ Start[k + 1] = Start[k] + FrameLen(sent[k])
              /\ IsMasked(sent[k]) /\ FrameLen(sent[k]) = HeaderLen(sent[k]) + Len(sent[k].payload)
              /\ HeaderLen(sent[k]) \in Nat /\ HeaderLen(sent[k]) >= 6
              /\ Len(sent[k].payload) \in Nat
<1>1. Adds(sent, StartOf(sent)) /\ \A k \in 1 .. Len(sent) + 1 : StartOf(sent)[k] \in Nat
  BY StartAdds
<1>2. \A k \in 1 .. Len(sent) :
        /\ IsMasked(sent[k]) /\ HeaderLen(sent[k]) \in Nat /\ HeaderLen(sent[k]) >= 6
        /\ Len(sent[k].payload) \in Nat
  BY FrameLengths, ClientFrameForm
<1>3. Start = StartOf(sent)
  BY StartIs
<1> QED
  BY <1>1, <1>2, <1>3 DEF Adds, FrameLen

(* The buffer handlerProtocol works on. *)
LEMMA TheBuffer ==
  ASSUME BufferInv
  PROVE  /\ RP!RingOK(Buffer) /\ RP!Ahead(Buffer) = 0 /\ Held \in Seq(Byte)
         /\ RB!Length(Buffer) = Len(Held) /\ Len(Held) \in Nat
         /\ RB!Bytes(Buffer) = Held
<1>1. RP!RingOK(Buffer) /\ RP!Ahead(Buffer) = 0
  BY DEF BufferInv, Buffer
<1> QED
  BY <1>1, DataOf, SameLengths, BytesIsData DEF Held

(* The buffers are empty, and nothing has been read.                        *)
LEMMA WebsocketInit == Init => WebsocketInv
<1> SUFFICES ASSUME Init PROVE WebsocketInv
  OBVIOUS
<1>1. sent = <<>> /\ sent \in Seq(Masked) /\ Len(sent) = 0
  BY EmptySeq DEF Init
<1>2. RB!New(0) = RP!New(0)
  BY SameWrites
<1>3. RP!RingOK(RP!New(0)) /\ RP!Data(RP!New(0)) = <<>> /\ RP!Ahead(RP!New(0)) = 0
  BY RingFacts, RP!NewKeeps
<1>4. Held = <<>>
  BY <1>2, <1>3 DEF Init, Held, Buffer
<1>5. DataInv
  <2>1. hdr \in Seq(Byte) /\ Len(hdr) = 12
    <3>1. 0 \in Byte
      BY ByteIs
    <3>2. PICK n \in Nat, o \in Byte : n = 12 /\ o = 0
      BY <3>1
    <3>3. [i \in 1 .. n |-> o] \in Seq(Byte) /\ Len([i \in 1 .. n |-> o]) = n
      OBVIOUS
    <3> QED
      BY <3>2, <3>3 DEF Init
  <2>2. stream \in Seq(Byte)
    BY TextBytes DEF Init
  <2>3. <<>> \in Seq(Byte) /\ <<>> \in Seq(Messages) /\ <<>> \in Seq(Short)
    BY EmptySeq
  <2> QED
    BY <1>1, <2>1, <2>2, <2>3 DEF DataInv, Init
<1>6. BufferInv
  BY <1>2, <1>3 DEF BufferInv, Init
<1>7. CutInv
  BY <1>1 DEF CutInv
<1>8. InputInv
  <2>1. FramesAfter(sent, 0) = <<>>
    BY <1>1, FramesAfterLast
  <2>2. Pending = RequestBytes
    BY <2>1, TextBytes, ConcatEmptySeq DEF Pending, Init
  <2>3. Held \o stream = RequestBytes
    BY <1>4, TextBytes, ConcatEmptySeq DEF Init
  <2>4. Start[1] = 2
    BY <1>1, Places
  <2>5. Len(Held) = 0 /\ Len(stream) = 2 /\ Start[Len(sent) + 1] = 2
    BY <1>1, <1>4, <2>4, TextBytes, EmptySeq DEF Init
  <2>6. msgs = <<>> /\ ~upgraded /\ cur = "none" /\ Len(msgs) = 0
    BY EmptySeq DEF Init
  <2> QED
    BY <1>1, <1>4, <2>2, <2>3, <2>5, <2>6 DEF InputInv
<1>9. OutputInv
  <2>1. answers = <<>> /\ answers \in Seq(Short) /\ Len(answers) = 0
    BY EmptySeq DEF Init
  <2>2. PICK c : c = ServerFrames(answers) /\ c \in Seq(Seq(Byte)) /\ Len(c) = 0
    BY <2>1, ServerFramesTyped
  <2>3. FlattenSeq(c) = <<>>
    BY <2>2, FlattenIs
  <2> QED
    BY <2>1, <2>2, <2>3, EmptySeq, ConcatEmptySeq DEF OutputInv, Init
<1>10. ShakeInv
  BY DEF ShakeInv, Init
<1> QED
  BY <1>5, <1>6, <1>7, <1>8, <1>9, <1>10 DEF WebsocketInv
-----------------------------------------------------------------------------
(* ... a frame that is sent keeps it, ... *)

(* The frame comes behind all that has been sent.                           *)
LEMMA ClientSendsKeeps ==
  ASSUME WebsocketInv, ClientSends
  PROVE  WebsocketInv'
<1> USE DEF WebsocketInv
<1>a. DataInv /\ sent \in Seq(Masked) /\ stream \in Seq(Byte)
  BY DEF DataInv
<1>1. PICK f \in Masked : sent' = Append(sent, f) /\ stream' = stream \o ClientFrame(f)
  <2>1. PICK f \in Sends[Len(sent) + 1] :
          sent' = Append(sent, f) /\ stream' = stream \o ClientFrame(f)
    BY DEF ClientSends
  <2>2. Len(sent) + 1 \in 1 .. Len(Sends)
    BY <1>a, LenProperties, WebsocketAssumption DEF ClientSends
  <2>3. f \in Masked
    BY <2>1, <2>2 DEF Masked
  <2> QED
    BY <2>1, <2>3
<1>2. PICK n \in Nat, m \in Nat : n = Len(sent) /\ m = Len(msgs) /\ m <= n
  BY <1>a, LenProperties DEF InputInv, DataInv
<1>3. PICK x : x = ClientFrame(f) /\ x \in Seq(Byte) /\ Len(x) = FrameLen(f)
               /\ FrameLen(f) \in Nat /\ FrameLen(f) >= 6
  BY MaskedFrames, ClientFrameForm DEF FrameLen
<1>4. /\ sent' \in Seq(Masked) /\ Len(sent') = n + 1 /\ sent'[n + 1] = f
      /\ \A k \in 1 .. n : sent'[k] = sent[k]
  BY <1>a, <1>1, <1>2, AppendProperties
<1>5. /\ stream' \in Seq(Byte) /\ Len(stream') = Len(stream) + FrameLen(f)
      /\ Len(stream) \in Nat
  BY <1>a, <1>1, <1>3, ConcatProperties, LenProperties
<1>6. /\ \A k \in 1 .. n + 1 : Start'[k] = Start[k] /\ Start[k] \in Nat
      /\ Start'[n + 2] = Start[n + 1] + FrameLen(f)
  <2>1. Start = StartOf(sent) /\ Start' = StartOf(Append(sent, f))
    BY <1>1, StartIs
  <2>2. \A k \in 1 .. n + 1 : StartOf(Append(sent, f))[k] = StartOf(sent)[k]
    BY <1>a, <1>2, StartAppend
  <2>3. StartOf(Append(sent, f))[n + 2] = StartOf(sent)[n + 1] + FrameLen(f)
    BY <1>a, <1>2, StartAppend
  <2>4. \A k \in 1 .. n + 1 : Start[k] \in Nat
    BY <1>a, <1>2, Places
  <2> QED
    BY <2>1, <2>2, <2>3, <2>4
<1>7. /\ UNCHANGED <<shakeVars, inVars, msgs, outVars, closed, fatal>>
      /\ Held' = Held /\ Buffer' = Buffer
  BY DEF ClientSends, inVars, Held, Buffer
<1>8. DataInv'
  BY <1>4, <1>5, <1>7 DEF DataInv, inVars, outVars
<1>9. BufferInv'
  BY <1>7 DEF BufferInv, inVars
<1>10. CutInv'
  <2>1. Start[n + 1] - Len(stream) = Start'[Len(sent') + 1] - Len(stream')
    BY <1>3, <1>4, <1>5, <1>6, <1>2
  <2>2. PICK at \in Int : at = Start[n + 1] - Len(stream)
    BY <1>2, <1>5, <1>6
  <2>3. \A k \in 1 .. n : at < Start[k + 1] => at - Start[k] \notin 6 .. HeaderLen(sent[k])
    BY <1>2, <2>2 DEF CutInv
  <2>4. ASSUME NEW k \in 1 .. n + 1, at < Start'[k + 1]
        PROVE  at - Start'[k] \notin 6 .. HeaderLen(sent'[k])
    <3>1. CASE k \in 1 .. n
      <4>1. Start'[k] = Start[k] /\ Start'[k + 1] = Start[k + 1] /\ sent'[k] = sent[k]
        BY <1>2, <1>4, <1>6, <3>1
      <4> QED
        BY <2>3, <2>4, <3>1, <4>1
    <3>2. CASE k = n + 1
      <4>1. at - Start'[k] <= 0
        BY <1>2, <1>5, <1>6, <2>2, <3>2
      <4> QED
        BY <4>1
    <3> QED
      BY <1>2, <3>1, <3>2
  <2> QED
    BY <1>4, <2>1, <2>2, <2>4 DEF CutInv
<1>b. BufferInv
  OBVIOUS
<1>c. Held \in Seq(Byte) /\ Len(Held) \in Nat
  BY <1>b, TheBuffer
<1>d. /\ Held \o stream = Pending
      /\ Len(Held) + Len(stream) = Start[n + 1] - IF upgraded THEN Start[m + 1] ELSE 0
  BY <1>2 DEF InputInv
<1>11. Held' \o stream' = Pending'
  <2>1. \A j \in 0 .. n : /\ FramesAfter(sent', j) = FramesAfter(sent, j) \o x
                          /\ FramesAfter(sent, j) \in Seq(Byte)
    BY <1>a, <1>1, <1>2, <1>3, FramesAfterAppend, FramesAfterTyped
  <2>2. Pending' = Pending \o x
    <3>1. CASE upgraded
      <4>1. Pending = FramesAfter(sent, m) /\ Pending' = FramesAfter(sent', m)
        BY <1>2, <1>7, <3>1 DEF Pending, inVars
      <4>2. m \in 0 .. n
        BY <1>2
      <4> QED
        BY ONLY <2>1, <4>1, <4>2
    <3>2. CASE ~upgraded
      <4>1. /\ Pending = RequestBytes \o FramesAfter(sent, 0)
            /\ Pending' = RequestBytes \o FramesAfter(sent', 0)
        BY <1>7, <3>2 DEF Pending, inVars
      <4>2. PICK r, g : r = RequestBytes /\ g = FramesAfter(sent, 0)
        OBVIOUS
      <4>3. r \in Seq(Byte) /\ g \in Seq(Byte) /\ x \in Seq(Byte)
        BY <1>2, <1>3, <2>1, <4>2, TextBytes
      <4>4. (r \o g) \o x = r \o (g \o x)
        <5>1. Associates(r, g, x)
          BY ONLY <4>3, ConcatAssociates
        <5> QED
          BY ONLY <5>1 DEF Associates
      <4>5. FramesAfter(sent', 0) = g \o x
        <5>1. 0 \in 0 .. n
          BY <1>2
        <5> QED
          BY ONLY <2>1, <4>2, <5>1
      <4> QED
        BY <4>1, <4>2, <4>4, <4>5
    <3> QED
      BY <3>1, <3>2
  <2>3. (Held \o stream) \o x = Held \o (stream \o x)
    <3>1. PICK h, s : h = Held /\ s = stream
      OBVIOUS
    <3>2. h \in Seq(Byte) /\ s \in Seq(Byte) /\ x \in Seq(Byte)
      BY <1>a, <1>c, <1>3, <3>1
    <3>3. (h \o s) \o x = h \o (s \o x)
      <4>1. Associates(h, s, x)
        BY ONLY <3>2, ConcatAssociates
      <4> QED
        BY ONLY <4>1 DEF Associates
    <3> QED
      BY <3>1, <3>3
  <2> QED
    BY <1>1, <1>3, <1>7, <1>d, <2>2, <2>3
<1>12. InputInv'
  <2>1. msgs' = msgs /\ upgraded' = upgraded /\ cur' = cur /\ Len(msgs') = m
    BY <1>2, <1>7 DEF inVars
  <2>2. Len(msgs') <= Len(sent') /\ \A k \in 1 .. Len(msgs') : msgs'[k] = Plain(sent'[k])
    <3>1. \A k \in 1 .. m : msgs[k] = Plain(sent[k])
      BY <1>2 DEF InputInv
    <3> QED
      BY <1>2, <1>4, <2>1, <3>1
  <2>3. Len(Held') + Len(stream')
          = Start'[Len(sent') + 1] - IF upgraded' THEN Start'[Len(msgs') + 1] ELSE 0
    <3>1. m + 1 \in 1 .. n + 1 /\ Start'[m + 1] = Start[m + 1] /\ Start[m + 1] \in Nat
          /\ Start[n + 1] \in Nat
      BY <1>2, <1>6
    <3>2. Start'[Len(sent') + 1] = Start[n + 1] + FrameLen(f)
      BY <1>2, <1>4, <1>6
    <3>3. Len(Held') = Len(Held) /\ Len(Held) \in Nat /\ Len(stream') = Len(stream) + FrameLen(f)
      BY <1>5, <1>7, <1>c
    <3>4. PICK at, to : at = Start[n + 1] /\ to = IF upgraded THEN Start[m + 1] ELSE 0
      OBVIOUS
    <3>5. at \in Nat /\ to \in Nat
      BY <3>1, <3>4
    <3>6. to = IF upgraded' THEN Start'[Len(msgs') + 1] ELSE 0
      BY <2>1, <3>1, <3>4
    <3>7. Len(Held) + (Len(stream) + FrameLen(f)) = (at + FrameLen(f)) - to
      <4>1. PICK h, t, d : h = Len(Held) /\ t = Len(stream) /\ d = FrameLen(f)
        OBVIOUS
      <4>2. h \in Nat /\ t \in Nat /\ d \in Nat
        BY <1>3, <1>5, <1>c, <4>1
      <4>3. h + t = at - to
        BY ONLY <1>d, <3>4, <4>1
      <4>4. h + (t + d) = (at + d) - to
        BY ONLY <3>5, <4>2, <4>3
      <4> QED
        BY ONLY <4>1, <4>4
    <3> QED
      BY ONLY <3>2, <3>3, <3>4, <3>6, <3>7
  <2>4. ~upgraded' => msgs' = <<>> /\ (cur' = "none" => Held' = <<>>)
    BY <1>7, <2>1 DEF InputInv
  <2>5. ASSUME cur' = "none", upgraded', Len(msgs') < Len(sent')
        PROVE  Len(Held') < Len(ClientFrame(sent'[Len(msgs') + 1]))
    <3>1. CASE m < n
      <4>1. Len(Held) < Len(ClientFrame(sent[m + 1]))
        BY <1>2, <2>1, <2>5, <3>1 DEF InputInv
      <4> QED
        BY <1>2, <1>4, <1>7, <2>1, <3>1, <4>1
    <3>2. CASE m = n
      <4>1. Len(Held) + Len(stream) = Start[n + 1] - Start[n + 1] /\ Start[n + 1] \in Nat
        BY <1>2, <1>6, <1>d, <2>1, <2>5, <3>2
      <4>2. Len(Held) = 0
        BY <1>5, <1>c, <4>1
      <4> QED
        BY <1>3, <1>4, <1>7, <2>1, <3>2, <4>2
    <3> QED
      BY <1>2, <3>1, <3>2
  <2> QED
    BY <1>11, <2>2, <2>3, <2>4, <2>5 DEF InputInv
<1>13. OutputInv' /\ ShakeInv'
  BY <1>7 DEF OutputInv, ShakeInv, inVars, outVars, shakeVars
<1> QED
  BY <1>8, <1>9, <1>10, <1>12, <1>13

(* ... so does a read, ... *)
LEMMA ReadPacketKeeps ==
  ASSUME WebsocketInv, ~AnyCut, NEW n \in 1 .. PacketSize, ReadPacket(n)
  PROVE  WebsocketInv'
<1> USE DEF WebsocketInv
<1>a. DataInv /\ sent \in Seq(Masked) /\ stream \in Seq(Byte) /\ BufferInv /\ n \in Nat /\ n # 0
  BY WebsocketAssumption DEF DataInv
<1>b. cur = "none" /\ ~closed /\ n <= Len(stream) /\ CleanCut(n) /\ Len(stream) \in Nat
  BY <1>a, LenProperties DEF ReadPacket
<1>1. PICK p, s : p = SubSeq(stream, 1, n) /\ s = SubSeq(stream, n + 1, Len(stream))
  OBVIOUS
<1>2. /\ p \in Seq(Byte) /\ s \in Seq(Byte) /\ Len(p) = n /\ Len(s) = Len(stream) - n
      /\ p \o s = stream /\ p # <<>>
  <2>1. n \in 0 .. Len(stream)
    BY <1>a, <1>b
  <2>2. /\ p \in Seq(Byte) /\ s \in Seq(Byte) /\ Len(p) = n /\ Len(s) = Len(stream) - n
        /\ p \o s = stream
    BY <1>1, <1>a, <2>1, CutInTwo
  <2> QED
    BY <1>a, <2>2, EmptySeq
<1>3. /\ stream' = s
      /\ UNCHANGED <<shakeVars, sent, upgraded, hdr, msgs, outVars, closed, fatal>>
      /\ Start' = Start
  BY <1>1, StartIs DEF ReadPacket
<1>4. Held = RP!Data(inBuf) /\ Held \in Seq(Byte) /\ Len(Held) \in Nat /\ buf = RB!New(0)
  BY <1>a, <1>b, TheBuffer DEF Held, Buffer, BufferInv
<1>5. BufferInv' /\ Held' = Held \o p /\ cur' \in {"buf", "inBuf"}
  <2>1. CASE inBuf.isEmpty
    <3>1. cur' = "buf" /\ buf' = RB!WithData(p) /\ inBuf' = inBuf
      BY <1>1, <2>1 DEF ReadPacket
    <3>2. RB!WithData(p) = RP!WithData(p)
      BY SameWrites
    <3>3. RP!RingOK(buf') /\ RP!Data(buf') = p /\ RP!Ahead(buf') = 0
      BY <1>2, <3>1, <3>2, RingFacts, RP!WithDataKeeps
    <3>4. buf'.w = 0
      BY <3>1 DEF RB!WithData
    <3>5. Held = <<>>
      BY <1>a, <1>4, <2>1, DataOf DEF BufferInv
    <3>6. Held' = p
      BY <3>1, <3>3 DEF Held, Buffer
    <3>7. <<>> \o p = p
      BY <1>2, ConcatEmptySeq
    <3> QED
      BY <1>a, <2>1, <3>1, <3>3, <3>4, <3>5, <3>6, <3>7 DEF BufferInv
  <2>2. CASE ~inBuf.isEmpty
    <3>1. cur' = "inBuf" /\ inBuf' = RB!Write(inBuf, p) /\ buf' = buf
      BY <1>1, <2>2 DEF ReadPacket
    <3>2. RB!Write(inBuf, p) = RP!Write(inBuf, p)
      BY SameWrites
    <3>3. RP!RingOK(inBuf) /\ RP!Ahead(inBuf) = 0
      BY <1>a DEF BufferInv
    <3>4. RP!RingOK(inBuf') /\ RP!Data(inBuf') = RP!Data(inBuf) \o p /\ RP!Ahead(inBuf') = 0
      BY <1>2, <3>1, <3>2, <3>3, RingFacts, RP!WriteKeeps
    <3>5. Held' = RP!Data(inBuf')
      BY <3>1 DEF Held, Buffer
    <3> QED
      BY <1>a, <1>4, <3>1, <3>4, <3>5 DEF BufferInv
  <2> QED
    BY <2>1, <2>2
<1>6. DataInv'
  BY <1>a, <1>2, <1>3, <1>5 DEF DataInv, outVars
<1>7. PICK N \in Nat, m \in Nat : N = Len(sent) /\ m = Len(msgs) /\ m <= N
  BY <1>a, LenProperties DEF InputInv, DataInv
<1>8. Start[N + 1] \in Nat /\ Start[m + 1] \in Nat
  BY <1>a, <1>7, Places
<1>9. Start[N + 1] - Len(stream) + n = Start[N + 1] - Len(s)
  BY <1>a, <1>b, <1>2, <1>8
<1>10. CutInv'
  BY <1>b, <1>3, <1>7, <1>9 DEF CutInv, CleanCut
<1>11. Held' \o stream' = Pending'
  <2>1. PICK h : h = Held
    OBVIOUS
  <2>2. h \in Seq(Byte) /\ p \in Seq(Byte) /\ s \in Seq(Byte)
    BY <1>2, <1>4, <2>1
  <2>3. (h \o p) \o s = h \o (p \o s)
    <3>1. Associates(h, p, s)
      BY ONLY <2>2, ConcatAssociates
    <3> QED
      BY ONLY <3>1 DEF Associates
  <2>4. Pending' = Pending
    BY <1>3 DEF Pending
  <2>5. Held \o stream = Pending
    BY DEF InputInv
  <2> QED
    BY <1>2, <1>3, <1>5, <2>1, <2>3, <2>4, <2>5
<1>12. Len(Held') = Len(Held) + n
  BY <1>2, <1>4, <1>5, ConcatProperties
<1>13. InputInv'
  <2>1. /\ m <= N /\ \A k \in 1 .. m : msgs[k] = Plain(sent[k])
        /\ Len(Held) + Len(stream) = Start[N + 1] - IF upgraded THEN Start[m + 1] ELSE 0
        /\ ~upgraded => msgs = <<>> /\ Held = <<>>
    BY <1>b, <1>7 DEF InputInv
  <2>2. Len(Held') + Len(s) = Start[N + 1] - IF upgraded THEN Start[m + 1] ELSE 0
    BY <1>a, <1>b, <1>2, <1>4, <1>8, <1>12, <2>1
  <2>3. cur' # "none"
    BY <1>5
  <2> QED
    BY <1>3, <1>7, <1>11, <2>1, <2>2, <2>3 DEF InputInv
<1>14. OutputInv'
  <2>1. closed' = FALSE /\ cur' # "none" /\ DataInv
    BY <1>a, <1>b, <1>3, <1>5 DEF DataInv
  <2> QED
    BY <1>b, <1>3, <2>1 DEF OutputInv, outVars
<1>15. ShakeInv'
  BY <1>3 DEF ShakeInv, shakeVars
<1> QED
  BY <1>5, <1>6, <1>10, <1>13, <1>14, <1>15
-----------------------------------------------------------------------------
(* ... so does the upgrade, ... *)

(* The buffer in use may be replaced by another with the same write cursor. *)
LEMMA SetBufferKeeps ==
  ASSUME BufferInv, cur \in {"buf", "inBuf"}, cur' = cur,
         NEW b, RP!RingOK(b), RP!Ahead(b) = 0, b.w = Buffer.w, SetBuffer(b)
  PROVE  BufferInv' /\ Held' = RP!Data(b)
<1>1. CASE cur = "buf"
  <2>1. buf' = b /\ inBuf' = inBuf /\ cur' = "buf" /\ b.w = 0
    BY <1>1 DEF SetBuffer, Buffer, BufferInv
  <2> QED
    BY <1>1, <2>1 DEF BufferInv, Held, Buffer
<1>2. CASE cur = "inBuf"
  <2>1. inBuf' = b /\ buf' = buf /\ cur' = "inBuf"
    BY <1>2 DEF SetBuffer
  <2> QED
    BY <1>2, <2>1 DEF BufferInv, Held, Buffer
<1> QED
  BY <1>1, <1>2

(* The request is found at the start of what has been read. *)
LEMMA FindEnd ==
  ASSUME NEW e \in Seq(Byte), NEW d, d = RequestBytes \o e
  PROVE  /\ Contains(d, End) /\ SelectInSeq(d, LAMBDA x : x = End) = 2
         /\ d \in Seq(Byte) /\ Len(d) = 2 + Len(e) /\ SubSeq(d, 3, Len(d)) = e
<1>1. PICK r : r = RequestBytes /\ r \in Seq(Byte) /\ Len(r) = 2 /\ r[1] = 71 /\ r[2] = End
  BY TextBytes
<1>2. /\ d \in Seq(Byte) /\ Len(d) = 2 + Len(e) /\ Len(e) \in Nat
      /\ SubSeq(d, 2 + 1, 2 + Len(e)) = e
  <2>1. r \in Seq(Byte) /\ e \in Seq(Byte) /\ Len(e) \in Nat
    BY <1>1, LenProperties
  <2>2. /\ r \o e \in Seq(Byte) /\ Len(r \o e) = Len(r) + Len(e)
        /\ SubSeq(r \o e, Len(r) + 1, Len(r) + Len(e)) = e
    BY ONLY <2>1, ConcatAssociates
  <2> QED
    BY <1>1, <2>1, <2>2
<1>3. d[1] = 71 /\ d[2] = End
  <2>1. 1 \in 1 .. Len(r) /\ 2 \in 1 .. Len(r)
    BY <1>1
  <2>2. (r \o e)[1] = r[1] /\ (r \o e)[2] = r[2]
    <3>1. r \in Seq(Byte) /\ e \in Seq(Byte)
      BY <1>1
    <3> QED
      BY ONLY <2>1, <3>1, ConcatFirst
  <2> QED
    BY <1>1, <2>2
<1>4. 1 \in 1 .. Len(d) /\ 2 \in 1 .. Len(d)
  BY <1>2
<1>5. Contains(d, End)
  BY <1>3, <1>4 DEF Contains
<1>6. SelectInSeq(d, LAMBDA x : x = End) = 2
  <2> DEFINE I == {i \in 1 .. Len(d) : d[i] = End}
  <2>1. 2 \in I /\ \A i \in I : 2 <= i /\ i \in Nat
    <3>1. \A i \in 1 .. Len(d) : i = 1 \/ 2 <= i
      BY <1>2
    <3>2. d[1] # End
      BY <1>3 DEF End
    <3> QED
      BY <1>2, <1>3, <1>4, <3>1, <3>2
  <2>2. SelectInSeq(d, LAMBDA x : x = End) = IF I # {} THEN Min(I) ELSE 0
    BY DEF SelectInSeq
  <2> HIDE DEF I
  <2>3. Min(I) = 2
    BY <2>1 DEF Min
  <2> QED
    BY <2>1, <2>2, <2>3
<1> QED
  BY <1>2, <1>5, <1>6

(* The request is taken off the buffer, or the process ends.                *)
LEMMA UpgradeKeeps ==
  ASSUME WebsocketInv, Upgrade, ~fatal
  PROVE  WebsocketInv'
<1> USE DEF WebsocketInv
<1> DEFINE result == Upgraded(request.req, request.app)
<1>a. DataInv /\ BufferInv /\ sent \in Seq(Masked) /\ stream \in Seq(Byte)
  BY DEF DataInv
<1>b. cur \in {"buf", "inBuf"} /\ ~upgraded /\ msgs = <<>> /\ answers = <<>> /\ ~closed
  BY <1>a DEF Upgrade, DataInv, InputInv, OutputInv
<1>1. /\ UNCHANGED <<request, stream, sent, cur, hdr, msgs, answers, wire, shut, closed>>
      /\ Start' = Start
  BY StartIs DEF Upgrade
<1>2. PICK g : g = FramesAfter(sent, 0) /\ g \in Seq(Byte)
  <2>1. 0 \in 0 .. Len(sent)
    BY <1>a, LenProperties
  <2> QED
    BY <1>a, <2>1, FramesAfterTyped
<1>3. PICK d : d = Held /\ d \in Seq(Byte) /\ d \o stream = RequestBytes \o g
  <2>1. Held \o stream = Pending
    BY DEF InputInv
  <2> QED
    BY <1>a, <1>b, <1>2, <2>1, TheBuffer DEF Pending
<1>4. RB!Bytes(Buffer) = d
  BY <1>a, <1>3, TheBuffer
<1>5. PICK r, s : r = RequestBytes /\ s = stream
  OBVIOUS
<1>6. /\ d \in Seq(Byte) /\ s \in Seq(Byte) /\ r \in Seq(Byte) /\ g \in Seq(Byte)
      /\ Len(r) = 2 /\ r[1] = 71 /\ d \o s = r \o g
  BY <1>a, <1>2, <1>3, <1>5, TextBytes
<1>7. CASE result.err = "none" /\ Contains(d, End)
  <2>a. Len(d) >= 2
    <3>1. PICK i \in 1 .. Len(d) : d[i] = End
      BY <1>7 DEF Contains
    <3>2. (d \o s)[i] = d[i] /\ (r \o g)[1] = r[1]
      <4>1. 1 \in 1 .. Len(r)
        BY <1>6
      <4>2. d \in Seq(Byte) /\ s \in Seq(Byte) /\ r \in Seq(Byte) /\ g \in Seq(Byte)
        BY <1>6
      <4>3. (d \o s)[i] = d[i]
        BY ONLY <3>1, <4>2, ConcatFirst
      <4>4. (r \o g)[1] = r[1]
        BY ONLY <4>1, <4>2, ConcatFirst
      <4> QED
        BY ONLY <4>3, <4>4
    <3>3. i # 1
      BY <1>6, <3>1, <3>2 DEF End
    <3> QED
      BY <1>6, <3>1, <3>3, LenProperties
  <2>b. PICK e \in Seq(Byte) : d = RequestBytes \o e /\ g = e \o stream
    <3>1. Cuts(d, s, r, g)
      BY <1>6, <2>a DEF Cuts
    <3>2. Overlap(Byte, d, s, r, g)
      BY ONLY <1>6, <3>1, TwoCuts
    <3> QED
      BY <1>5, <3>2 DEF Overlap
  <2>c. /\ SelectInSeq(d, LAMBDA x : x = End) = 2
        /\ Len(d) = 2 + Len(e) /\ SubSeq(d, 3, Len(d)) = e /\ Len(e) \in Nat
    BY <2>b, FindEnd, LenProperties
  <2>1. /\ upgraded' = TRUE /\ response' = <<Response(result)>> /\ reply' = reply \o ResponseBytes
        /\ SetBuffer(RB!Read(Buffer, 2)) /\ fatal' = FALSE
    BY <1>4, <1>7, <2>c DEF Upgrade
  <2>2. PICK b : b = RP!Read(Buffer, 2) /\ SetBuffer(b)
    BY <2>1, SameReads
  <2>3. RP!RingOK(b) /\ RP!Ahead(b) = 0 /\ RP!Data(b) = e /\ b.w = Buffer.w
    <3>1. /\ RP!RingOK(Buffer) /\ RP!Ahead(Buffer) = 0 /\ RP!Data(Buffer) = d
          /\ RP!Length(Buffer) = Len(d)
      BY <1>a, <1>3, TheBuffer, SameLengths DEF Held
    <3>2. PICK n \in Nat : n = 2
      OBVIOUS
    <3>3. n = RP!Least(n, RP!Length(Buffer))
      BY <2>a, <2>c, <3>1, <3>2 DEF RP!Least
    <3>4. /\ RP!RingOK(RP!Read(Buffer, n))
          /\ RP!Data(RP!Read(Buffer, n)) = SubSeq(RP!Data(Buffer), n + 1, Len(RP!Data(Buffer)))
          /\ RP!Ahead(RP!Read(Buffer, n)) = IF n = 0 THEN RP!Ahead(Buffer) ELSE 0
      BY <3>1, <3>3, RingFacts, RP!ReadKeeps
    <3>5. RP!Read(Buffer, n).w = Buffer.w
      BY <3>1, WriteCursorKept
    <3> QED
      <4>1. n = 2 /\ n # 0 /\ n + 1 = 3
        BY <3>2
      <4>2. b = RP!Read(Buffer, n) /\ SubSeq(d, n + 1, Len(d)) = e
        BY <2>2, <2>c, <4>1
      <4> QED
        BY <3>1, <3>4, <3>5, <4>1, <4>2
  <2>4. BufferInv' /\ Held' = e
    BY <1>a, <1>b, <1>1, <2>2, <2>3, SetBufferKeeps
  <2>5. reply \in Seq(Byte) /\ wire \in Seq(Byte) /\ reply' \in Seq(Byte)
    BY <1>a, <2>1, TextBytes, ConcatProperties DEF DataInv
  <2>6. DataInv'
    <3>1. fatal \in BOOLEAN /\ {upgraded', shut', closed', fatal'} \subseteq BOOLEAN
      BY <1>a, <1>1, <2>1 DEF DataInv
    <3> QED
      BY <1>a, <1>1, <2>5, <3>1 DEF DataInv
  <2>7. CutInv'
    BY <1>1 DEF CutInv
  <2>8. InputInv'
    <3>1. Pending' = g
      <4>1. Len(msgs') = 0 /\ upgraded' /\ sent' = sent
        BY <1>1, <1>b, <2>1, EmptySeq
      <4> QED
        BY <1>2, <4>1 DEF Pending
    <3>2. PICK N \in Nat : N = Len(sent)
      BY <1>a, LenProperties
    <3>3. Start[1] = 2 /\ Start[N + 1] \in Nat /\ Len(stream) \in Nat
      BY <1>a, <3>2, Places, LenProperties
    <3>4. Len(d) + Len(stream) = Start[N + 1] - 0
      BY <1>b, <1>3, <3>2 DEF InputInv
    <3>5. Len(e) + Len(stream) = Start[N + 1] - Start[1]
      BY <2>c, <3>3, <3>4
    <3>6. Len(msgs') = 0 /\ 0 + 1 = 1 /\ msgs' = msgs
      BY <1>1, <1>b, EmptySeq
    <3>7. /\ Len(Held') + Len(stream') = Start'[Len(sent') + 1] - Start'[Len(msgs') + 1]
          /\ Held' \o stream' = Pending'
      BY <1>1, <2>4, <2>b, <3>1, <3>2, <3>5, <3>6
    <3>8. /\ Len(msgs') <= Len(sent') /\ \A k \in 1 .. Len(msgs') : msgs'[k] = Plain(sent'[k])
      BY <1>1 DEF InputInv
    <3>9. cur' # "none"
      BY <1>b, <1>1
    <3> QED
      BY <2>1, <3>7, <3>8, <3>9 DEF InputInv
  <2>9. OutputInv'
    <3>1. FlattenSeq(ServerFrames(answers)) = <<>>
      <4>1. answers \in Seq(Short) /\ Len(answers) = 0
        BY <1>b, EmptySeq
      <4>2. PICK c : c = ServerFrames(answers) /\ c \in Seq(Seq(Byte)) /\ Len(c) = 0
        BY <4>1, ServerFramesTyped
      <4>3. FlattenSeq(c) = <<>>
        BY <4>2, FlattenIs
      <4> QED
        BY <4>2, <4>3
    <3>2. wire \o reply = <<>>
      BY <1>b, <3>1, EmptySeq, ConcatEmptySeq DEF OutputInv
    <3>3. PICK w, y, t : w = wire /\ y = reply /\ t = ResponseBytes
      OBVIOUS
    <3>4. w \in Seq(Byte) /\ y \in Seq(Byte) /\ t \in Seq(Byte)
      BY <2>5, <3>3, TextBytes
    <3>5. w \o (y \o t) = (w \o y) \o t
      <4>1. Associates(w, y, t)
        BY ONLY <3>4, ConcatAssociates
      <4> QED
        BY ONLY <4>1 DEF Associates
    <3>6. <<>> \o t = t /\ t \o <<>> = t
      BY <3>4, ConcatEmptySeq
    <3>7. wire' \o reply' = ResponseBytes \o FlattenSeq(ServerFrames(answers'))
      BY <1>1, <2>1, <3>1, <3>2, <3>3, <3>5, <3>6
    <3> QED
      BY <1>b, <1>1, <2>1, <3>7 DEF OutputInv
  <2>10. ShakeInv'
    BY <1>1, <1>7, <2>1 DEF ShakeInv
  <2> QED
    BY <2>4, <2>6, <2>7, <2>8, <2>9, <2>10
<1>8. CASE ~(result.err = "none" /\ Contains(d, End))
  <2>1. fatal' = TRUE /\ UNCHANGED <<response, upgraded, reply, buf, inBuf>>
    BY <1>4, <1>8 DEF Upgrade
  <2>2. Held' = Held /\ Pending' = Pending
    BY <1>1, <2>1 DEF Held, Buffer, Pending
  <2>3. DataInv' /\ BufferInv'
    BY <1>1, <2>1 DEF DataInv, BufferInv
  <2>4. CutInv' /\ InputInv'
    BY <1>1, <2>1, <2>2 DEF CutInv, InputInv
  <2>5. OutputInv'
    BY <1>1, <2>1 DEF OutputInv
  <2>6. ShakeInv'
    BY <1>1, <1>b, <2>1 DEF ShakeInv
  <2> QED
    BY <2>3, <2>4, <2>5, <2>6
<1> QED
  BY <1>7, <1>8
-----------------------------------------------------------------------------
(* ... so does the end of a read, ... *)

(* What is left when no whole frame has arrived. *)
Unfinished ==
  Len(msgs) < Len(sent) => Len(Held) < Len(ClientFrame(sent[Len(msgs) + 1]))

(* What is left is put aside in inBuf, and the replies are sent.            *)
LEMMA EndReadKeeps ==
  ASSUME WebsocketInv, cur \in {"buf", "inBuf"}, upgraded, Unfinished,
         NEW b, RP!RingOK(b), RP!Ahead(b) = 0, RP!Data(b) = Held, b.w = Buffer.w,
         EndRead(b), UNCHANGED <<shakeVars, stream, sent, upgraded, msgs, answers, shut, fatal>>,
         hdr' \in Seq(Byte), Len(hdr') = 12
  PROVE  WebsocketInv'
<1> USE DEF WebsocketInv
<1>a. DataInv /\ BufferInv /\ Held \in Seq(Byte) /\ ~closed
  BY TheBuffer DEF OutputInv
<1> DEFINE rest == IF cur = "inBuf" THEN b ELSE RB!Write(inBuf, RB!PeekAllFirst(b))
<1>1. RP!RingOK(rest) /\ RP!Ahead(rest) = 0 /\ RP!Data(rest) = Held
  <2>1. CASE cur = "inBuf"
    BY <2>1
  <2>2. CASE cur = "buf"
    <3>1. b.w = 0 /\ inBuf.isEmpty /\ RP!RingOK(inBuf) /\ RP!Ahead(inBuf) = 0
      BY <1>a, <2>2 DEF BufferInv, Buffer
    <3>2. RB!PeekAllFirst(b) = Held
      BY <3>1, PeekAllIsData
    <3>3. rest = RP!Write(inBuf, Held)
      BY <2>2, <3>2, SameWrites
    <3>4. /\ RP!RingOK(RP!Write(inBuf, Held))
          /\ RP!Data(RP!Write(inBuf, Held)) = RP!Data(inBuf) \o Held
          /\ RP!Ahead(RP!Write(inBuf, Held)) = 0
      BY <1>a, <3>1, RingFacts, RP!WriteKeeps
    <3>5. RP!Data(inBuf) = <<>>
      BY <3>1, DataOf
    <3>6. <<>> \o Held = Held
      BY <1>a, ConcatEmptySeq
    <3> QED
      BY <3>3, <3>4, <3>5, <3>6
  <2> QED
    BY <2>1, <2>2
<1>2. /\ cur' = "none" /\ buf' = RB!New(0) /\ reply' = <<>>
      /\ inBuf' = (IF rest.isEmpty THEN RB!RetrieveAll(rest) ELSE rest)
      /\ closed' = (reply # <<>> /\ shut) /\ wire' = (IF shut THEN wire ELSE wire \o reply)
  BY DEF EndRead
<1> HIDE DEF rest
<1>3. RP!RingOK(inBuf') /\ RP!Ahead(inBuf') = 0 /\ RP!Data(inBuf') = Held
  <2>1. CASE rest.isEmpty
    <3>1. inBuf' = RP!RetrieveAll(rest)
      BY <1>2, <2>1, SameReads
    <3>2. Held = <<>>
      BY <1>1, <2>1, DataOf
    <3> QED
      BY <1>1, <3>1, <3>2, RingFacts, RP!RetrieveAllKeeps
  <2>2. CASE ~rest.isEmpty
    BY <1>1, <1>2, <2>2
  <2> QED
    BY <2>1, <2>2
<1>4. BufferInv' /\ Held' = Held
  <2>1. RB!New(0) = RP!New(0) /\ RP!RingOK(RP!New(0)) /\ RP!Ahead(RP!New(0)) = 0
    BY SameWrites, RingFacts, RP!NewKeeps
  <2>2. Held' = RP!Data(inBuf')
    BY <1>2 DEF Held, Buffer
  <2> QED
    BY <1>2, <1>3, <2>1, <2>2 DEF BufferInv
<1>5. wire \in Seq(Byte) /\ reply \in Seq(Byte) /\ wire \o reply \in Seq(Byte)
  BY <1>a, ConcatProperties DEF DataInv
<1>6. DataInv'
  <2>1. wire' \in Seq(Byte) /\ reply' \in Seq(Byte)
    BY <1>2, <1>5, EmptySeq
  <2>2. {upgraded', shut', closed', fatal'} \subseteq BOOLEAN
    BY <1>a, <1>2 DEF DataInv
  <2> QED
    BY <1>a, <1>2, <2>1, <2>2 DEF DataInv
<1>7. CutInv'
  BY StartIs DEF CutInv
<1>8. InputInv'
  <2>1. Start' = Start /\ Pending' = Pending
    BY StartIs DEF Pending
  <2>2. Unfinished'
    BY <1>4 DEF Unfinished
  <2>3. /\ Len(msgs') <= Len(sent') /\ \A k \in 1 .. Len(msgs') : msgs'[k] = Plain(sent'[k])
        /\ Held' \o stream' = Pending'
        /\ Len(Held') + Len(stream')
             = Start'[Len(sent') + 1] - IF upgraded' THEN Start'[Len(msgs') + 1] ELSE 0
    BY <1>4, <2>1 DEF InputInv
  <2>4. upgraded'
    OBVIOUS
  <2> QED
    BY <1>2, <2>2, <2>3, <2>4 DEF InputInv, Unfinished
<1>9. OutputInv'
  <2>1. wire \o reply = ResponseBytes \o FlattenSeq(ServerFrames(answers))
    BY <1>a DEF OutputInv
  <2>2. ASSUME ~closed' PROVE wire' \o reply' = wire \o reply
    <3>1. CASE reply = <<>>
      <4>1. wire \o <<>> = wire
        BY <1>5, ConcatEmptySeq
      <4> QED
        BY <1>2, <3>1, <4>1
    <3>2. CASE ~shut
      <4>1. (wire \o reply) \o <<>> = wire \o reply
        BY <1>5, ConcatEmptySeq
      <4> QED
        BY <1>2, <3>2, <4>1
    <3> QED
      BY <1>2, <2>2, <3>1, <3>2
  <2>3. upgraded' /\ answers' = answers
    OBVIOUS
  <2> QED
    BY <1>2, <2>1, <2>2, <2>3 DEF OutputInv
<1>10. ShakeInv'
  BY DEF ShakeInv, shakeVars
<1> QED
  BY <1>4, <1>6, <1>7, <1>8, <1>9, <1>10
-----------------------------------------------------------------------------
(* ... and so does UnPacket with the call of OnMessage.                     *)

(* The next frame f, of which the header has arrived with the bytes rest    *)
(* behind it, and the frames that follow it.                                *)
Arrived(f, rest, more) ==
  /\ Len(msgs) < Len(sent) /\ f = sent[Len(msgs) + 1] /\ IsMasked(f)
  /\ rest \in Seq(Byte) /\ more \in Seq(Byte) /\ more = FramesAfter(sent, Len(msgs) + 1)
  /\ Held = ClientHeader(f) \o rest /\ MaskedPayload(f) \o more = rest \o stream
  /\ rest # <<>> \/ Len(f.payload) = 0

(* With six bytes in the buffer, the header of the next frame has arrived:  *)
(* CleanCut excludes reads that end in it.                                  *)
LEMMA NextArrives ==
  ASSUME WebsocketInv, upgraded, Len(Held) >= 6
  PROVE  \E f, rest, more : Arrived(f, rest, more)
<1> USE DEF WebsocketInv
<1>a. DataInv /\ BufferInv /\ sent \in Seq(Masked) /\ stream \in Seq(Byte) /\ Held \in Seq(Byte)
  BY TheBuffer DEF DataInv
<1>1. PICK n \in Nat, m \in Nat : n = Len(sent) /\ m = Len(msgs) /\ m <= n
  BY <1>a, LenProperties DEF InputInv, DataInv
<1>2. /\ Len(Held) \in Nat /\ Len(stream) \in Nat
      /\ Len(Held) + Len(stream) = Start[n + 1] - Start[m + 1]
      /\ Start[n + 1] \in Nat /\ Start[m + 1] \in Nat
  BY <1>a, <1>1, LenProperties, Places DEF InputInv
<1>3. m < n
  BY <1>1, <1>2
<1>4. PICK f : f = sent[m + 1] /\ IsMasked(f)
  <2>1. m + 1 \in 1 .. Len(sent)
    BY <1>1, <1>3
  <2> QED
    BY <1>a, <2>1, FrameLengths
<1>5. PICK x, y, p, more :
        /\ x = ClientFrame(f) /\ y = ClientHeader(f) /\ p = MaskedPayload(f)
        /\ more = FramesAfter(sent, m + 1)
  OBVIOUS
<1>6. /\ x \in Seq(Byte) /\ y \in Seq(Byte) /\ p \in Seq(Byte) /\ x = y \o p
      /\ Len(y) = HeaderLen(f) /\ HeaderLen(f) \in Nat /\ HeaderLen(f) >= 6
      /\ Len(f.payload) \in Nat /\ Len(p) = Len(f.payload)
  BY <1>4, <1>5, ClientFrameForm
<1>7. more \in Seq(Byte) /\ Pending = x \o more
  <2>1. m \in 0 .. n /\ m # n
    BY <1>1, <1>3
  <2>2. FramesAfter(sent, m) = x \o more /\ more \in Seq(Byte)
    BY <1>a, <1>1, <1>4, <1>5, <2>1, FramesAfterNext
  <2> QED
    BY <1>1, <2>2 DEF Pending
<1>8. Len(Held) >= HeaderLen(f) + Len(f.payload) \/ Len(Held) > HeaderLen(f)
  <2>1. m + 1 \in 1 .. n
    BY <1>1, <1>3
  <2>2. /\ Start[(m + 1) + 1] = Start[m + 1] + FrameLen(sent[m + 1])
        /\ FrameLen(sent[m + 1]) = HeaderLen(f) + Len(f.payload)
    BY <1>a, <1>1, <1>4, <2>1, Places
  <2>3. Start[n + 1] - Len(stream) < Start[(m + 1) + 1]
          => (Start[n + 1] - Len(stream)) - Start[m + 1] \notin 6 .. HeaderLen(f)
    BY <1>1, <1>4, <2>1 DEF CutInv
  <2>4. (Start[n + 1] - Len(stream)) - Start[m + 1] = Len(Held)
    BY <1>2
  <2>5. Len(Held) < HeaderLen(f) + Len(f.payload) => Len(Held) \notin 6 .. HeaderLen(f)
    <3>1. PICK to, from, t : to = Start[n + 1] /\ from = Start[m + 1] /\ t = Len(stream)
      OBVIOUS
    <3>2. PICK hd, pl : hd = HeaderLen(f) /\ pl = Len(f.payload)
      OBVIOUS
    <3>3. to \in Nat /\ from \in Nat /\ t \in Nat /\ hd \in Nat /\ pl \in Nat
      BY <1>2, <1>6, <3>1, <3>2
    <3>4. Start[(m + 1) + 1] = from + (hd + pl)
      BY <2>2, <3>1, <3>2
    <3>5. to - t < from + (hd + pl) => (to - t) - from \notin 6 .. hd
      BY <2>3, <3>1, <3>2, <3>4
    <3>6. (to - t) - from = Len(Held)
      BY <2>4, <3>1
    <3>7. Len(Held) < hd + pl => Len(Held) \notin 6 .. hd
      BY ONLY <1>2, <3>3, <3>5, <3>6
    <3> QED
      BY <3>2, <3>7
  <2> QED
    BY <1>2, <1>6, <2>5
<1>9. PICK h, s : h = Held /\ s = stream /\ h \in Seq(Byte) /\ s \in Seq(Byte)
  BY <1>a
<1>10. h \o s = y \o (p \o more)
  <2>1. p \in Seq(Byte) /\ y \in Seq(Byte) /\ more \in Seq(Byte)
    BY <1>6, <1>7
  <2>2. (y \o p) \o more = y \o (p \o more)
    <3>1. Associates(y, p, more)
      BY ONLY <2>1, ConcatAssociates
    <3> QED
      BY ONLY <3>1 DEF Associates
  <2>3. Held \o stream = Pending
    BY DEF InputInv
  <2> QED
    BY <1>6, <1>7, <1>9, <2>2, <2>3
<1>11. PICK rest : /\ rest \in Seq(Byte) /\ h = y \o rest /\ p \o more = rest \o s
                   /\ Len(rest) = Len(h) - Len(y)
  <2>1. p \o more \in Seq(Byte)
    BY <1>6, <1>7, ConcatProperties
  <2>2. PICK d : d = p \o more
    OBVIOUS
  <2>3. /\ h \in Seq(Byte) /\ s \in Seq(Byte) /\ y \in Seq(Byte) /\ d \in Seq(Byte)
        /\ Cuts(h, s, y, d)
    BY <1>2, <1>6, <1>8, <1>9, <1>10, <2>1, <2>2 DEF Cuts
  <2>4. Overlap(Byte, h, s, y, d)
    BY ONLY <2>3, TwoCuts
  <2> QED
    BY <2>2, <2>4 DEF Overlap
<1>12. rest # <<>> \/ Len(f.payload) = 0
  BY <1>2, <1>6, <1>8, <1>9, <1>11, EmptySeq, SMTT(20)
<1>13. Arrived(f, rest, more)
  BY <1>1, <1>3, <1>4, <1>5, <1>7, <1>9, <1>11, <1>12 DEF Arrived
<1> QED
  BY <1>13

(* What the assumption says of the user's answers.                          *)
LEMMA RepliesAre == \A r \in Replies : r \in Seq(Byte) /\ Len(r) < Huge
<1>1. ASSUME NEW r \in Replies PROVE r \in Seq(Byte) /\ Len(r) < Huge
  <2>1. r \in Seq(Byte) /\ Len(r) \in 1 .. Huge - 1
    BY WebsocketAssumption
  <2>2. \A n, m \in Nat : n \in 1 .. m - 1 => n < m
    OBVIOUS
  <2>3. Huge \in Nat
    BY DEF Huge
  <2> QED
    BY <2>1, <2>2, <2>3, LenProperties
<1> QED
  BY <1>1

(* A code and what is kept of a reason are at most as many bytes as they.   *)
LEMMA CloseFrameBodyShort ==
  ASSUME NEW code \in Nat, NEW reason \in Seq(Byte), Len(reason) + 2 < Huge
  PROVE  /\ NewCloseFrameBody(code, reason) \in Seq(Byte)
         /\ Len(NewCloseFrameBody(code, reason)) < Huge
<1>1. PICK kept : kept = IF Len(reason) <= MaxControl - 2 THEN Len(reason) ELSE MaxControl - 2
  OBVIOUS
<1>2. kept \in 0 .. Len(reason) /\ Len(reason) \in Nat
  BY <1>1, LenProperties, WebsocketAssumption
<1>3. PICK a \in Seq(Byte) : a = PutUint16(code) /\ Len(a) = 2
  <2>1. PICK x \in Byte, y \in Byte : x = (code \div 256) % 256 /\ y = code % 256
    <3>1. (code \div 256) % 256 \in Byte /\ code % 256 \in Byte
      BY ByteIs
    <3> QED
      BY <3>1
  <2>2. <<x, y>> \in Seq(Byte) /\ Len(<<x, y>>) = 2
    BY PairOfBytes
  <2>3. PutUint16(code) = <<x, y>>
    BY <2>1 DEF PutUint16
  <2> QED
    BY <2>2, <2>3
<1>4. PICK r \in Seq(Byte) : r = SubSeq(reason, 1, kept) /\ Len(r) = kept
  <2>1. SubSeq(reason, 1, kept) \in Seq(Byte) /\ Len(SubSeq(reason, 1, kept)) = kept
    BY ONLY <1>2, reason \in Seq(Byte)
  <2> QED
    BY <2>1
<1>5. a \o r \in Seq(Byte) /\ Len(a \o r) = Len(a) + Len(r)
  BY ONLY <1>3, <1>4, ConcatProperties
<1>6. NewCloseFrameBody(code, reason) = a \o r
  BY <1>1, <1>3, <1>4 DEF NewCloseFrameBody
<1> QED
  BY <1>2, <1>3, <1>4, <1>5, <1>6 DEF Huge

(* The body of the reply is short, as the close frame is.                   *)
LEMMA CloseBodyShort ==
  ASSUME NEW p \in Seq(Byte), Len(p) < Huge
  PROVE  CloseBody(p) \in Seq(Byte) /\ Len(CloseBody(p)) < Huge
<1>1. CASE p = <<>>
  <2>1. CloseBody(p) = p
    BY <1>1 DEF CloseBody
  <2> QED
    BY <2>1
<1>2. NewCloseFrameBody(StatusProtocolError, ErrorText) \in Seq(Byte)
      /\ Len(NewCloseFrameBody(StatusProtocolError, ErrorText)) < Huge
  <2>1. PICK x \in Byte : x = 69
    <3>1. 69 \in Byte
      BY ByteIs
    <3> QED
      BY <3>1
  <2>2. PICK reason \in Seq(Byte), code \in Nat :
          /\ reason = ErrorText /\ code = StatusProtocolError /\ Len(reason) = 1
    <3>1. <<x>> \in Seq(Byte) /\ Len(<<x>>) = 1
      OBVIOUS
    <3>2. ErrorText = <<x>> /\ StatusProtocolError \in Nat
      BY <2>1 DEF ErrorText, StatusProtocolError
    <3> QED
      BY <3>1, <3>2
  <2>3. Len(reason) + 2 < Huge
    BY <2>2 DEF Huge
  <2> QED
    BY <2>2, <2>3, CloseFrameBodyShort
<1>3. CASE p # <<>> /\ CheckCloseFrameData(CloseCode(p), CloseReason(p))
  <2>1. CloseCode(p) \in CloseCodes
    BY <1>3 DEF CheckCloseFrameData
  <2>2. PICK code \in Nat : code = CloseCode(p) /\ code # 0
    <3>1. \A c \in CloseCodes : c \in Nat /\ c # 0
      BY DEF CloseCodes
    <3> QED
      BY <2>1, <3>1
  <2>3. Len(p) \in Nat /\ ~(Len(p) < 2)
    BY <2>2, LenProperties DEF CloseCode
  <2>4. SubSeq(p, 3, Len(p)) \in Seq(Byte) /\ Len(SubSeq(p, 3, Len(p))) = Len(p) - 2
    <3>1. /\ 3 \in 1 .. Len(p) + 1 /\ Len(p) \in 3 - 1 .. Len(p)
          /\ Len(p) - 3 + 1 = Len(p) - 2
      BY ONLY <2>3
    <3>2. PICK m \in 1 .. Len(p) + 1 : m = 3
      BY ONLY <3>1
    <3>a. PICK n \in m - 1 .. Len(p) : n = Len(p)
      BY ONLY <3>1, <3>2
    <3>3. SubSeq(p, m, n) \in Seq(Byte) /\ Len(SubSeq(p, m, n)) = n - m + 1
      BY ONLY p \in Seq(Byte), m \in 1 .. Len(p) + 1, n \in m - 1 .. Len(p), PartElements
    <3> QED
      BY ONLY <3>1, <3>2, <3>3, <3>a
  <2>5. PICK reason \in Seq(Byte) : reason = CloseReason(p) /\ Len(reason) + 2 = Len(p)
    <3>1. CloseReason(p) = SubSeq(p, 3, Len(p))
      BY <2>3 DEF CloseReason
    <3>2. (Len(p) - 2) + 2 = Len(p)
      BY <2>3
    <3> QED
      BY <2>4, <3>1, <3>2
  <2>6. Len(reason) + 2 < Huge
    BY <2>5
  <2>7. CloseBody(p) = NewCloseFrameBody(code, reason)
    BY <1>3, <2>2, <2>5 DEF CloseBody
  <2> QED
    BY <2>6, <2>7, CloseFrameBodyShort
<1>4. CASE p # <<>> /\ ~CheckCloseFrameData(CloseCode(p), CloseReason(p))
  BY <1>2, <1>4 DEF CloseBody
<1> QED
  BY <1>1, <1>3, <1>4

(* What OnMessage returns is short, as what it is given is.                 *)
LEMMA AnswersShort ==
  ASSUME NEW op \in 0 .. 15, NEW p \in Seq(Byte), Len(p) < Huge, NEW a \in Answers(op, p)
  PROVE  a \in Seq(Short)
<1>1. \A x, q : x \in 0 .. 15 /\ q \in Seq(Byte) /\ Len(q) < Huge
                  => [op |-> x, payload |-> q] \in Short
  BY DEF Short, Messages
<1> DEFINE May(x, q) == x \in 0 .. 15 /\ (q = p \/ q = CloseBody(p) \/ q \in Replies)
<1>2. a = <<>> \/ \E x, q : a = <<[op |-> x, payload |-> q]>> /\ May(x, q)
  <2>1. CASE op = Close
    BY <2>1 DEF Answers, Close, Ping, Pong
  <2>2. CASE op = Ping
    BY <2>2 DEF Answers, Close, Ping, Pong
  <2>3. CASE op = Pong
    BY <2>3 DEF Answers, Close, Ping, Pong
  <2>4. CASE op # Close /\ op # Ping /\ op # Pong
    BY <2>4 DEF Answers, Text, Binary
  <2> QED
    BY <2>1, <2>2, <2>3, <2>4
<1>3. CASE a = <<>>
  BY <1>3, EmptySeq
<1>4. ASSUME NEW x, NEW q, a = <<[op |-> x, payload |-> q]>>, May(x, q)
      PROVE  a \in Seq(Short)
  <2>1. CASE q \in Replies
    BY <2>1, <1>1, <1>4, RepliesAre
  <2>2. CASE q = p \/ q = CloseBody(p)
    <3>1. q \in Seq(Byte) /\ Len(q) < Huge
      BY <2>2, CloseBodyShort
    <3>2. [op |-> x, payload |-> q] \in Short
      BY <1>1, <1>4, <3>1
    <3> QED
      BY <1>4, <3>2
  <2> QED
    BY <1>4, <2>1, <2>2
<1> HIDE DEF May
<1> QED
  BY <1>2, <1>3, <1>4

Taken(f, e, c, h, b) ==
  /\ Payload(h, c) = f.payload
  /\ RP!RingOK(b) /\ RP!Ahead(b) = 0 /\ RP!Data(b) = e /\ b.w = c.w

(* The payload that is taken off is what the client has masked.             *)
LEMMA PayloadTaken ==
  ASSUME NEW c, RP!RingOK(c), RP!Ahead(c) = 0, NEW f, IsMasked(f), NEW e \in Seq(Byte),
         RP!Data(c) = MaskedPayload(f) \o e,
         NEW h, h.length = Len(f.payload), h.mask = f.mask,
         NEW b, b = RB!Read(c, h.length)
  PROVE  Taken(f, e, c, h, b)
<1>1. PICK p, n : p = MaskedPayload(f) /\ n = h.length
  OBVIOUS
<1>2. p \in Seq(Byte) /\ Len(p) = n /\ n \in Nat /\ Cipher(p, f.mask, 0) = f.payload
  BY <1>1, ClientFrameForm
<1>3. PICK d : d = RP!Data(c) /\ d = p \o e
  BY <1>1
<1>4. /\ d \in Seq(Byte) /\ Len(d) = n + Len(e) /\ Len(e) \in Nat
      /\ SubSeq(d, 1, n) = p /\ SubSeq(d, n + 1, Len(d)) = e
  <2>1. p \in Seq(Byte) /\ e \in Seq(Byte) /\ Len(e) \in Nat
    BY <1>2, LenProperties
  <2>2. /\ p \o e \in Seq(Byte) /\ Len(p \o e) = Len(p) + Len(e)
        /\ SubSeq(p \o e, 1, Len(p)) = p
        /\ SubSeq(p \o e, Len(p) + 1, Len(p) + Len(e)) = e
    BY ONLY <2>1, ConcatAssociates
  <2> QED
    BY <1>2, <1>3, <2>1, <2>2
<1>5. RP!Length(c) = Len(d)
  BY <1>3, DataOf
<1>6. n = RP!Least(n, RP!Length(c))
  BY <1>2, <1>4, <1>5 DEF RP!Least
<1>7. /\ RP!RingOK(RP!Read(c, n)) /\ RP!PeekBytes(c, n) = SubSeq(RP!Data(c), 1, n)
      /\ RP!Data(RP!Read(c, n)) = SubSeq(RP!Data(c), n + 1, Len(RP!Data(c)))
      /\ RP!Ahead(RP!Read(c, n)) = IF n = 0 THEN RP!Ahead(c) ELSE 0
  BY <1>2, <1>6, RingFacts, RP!ReadKeeps
<1>8. b = RP!Read(c, n) /\ RB!PeekBytes(c, n) = p
  BY <1>1, <1>3, <1>4, <1>7, SameReads
<1>9. b.w = c.w
  BY <1>8, WriteCursorKept
<1>10. Payload(h, c) = f.payload
  <2>1. n - Len(p) = 0
    BY <1>2
  <2>2. [i \in 1 .. 0 |-> 0] = <<>>
    OBVIOUS
  <2>3. p \o <<>> = p
    BY <1>2, ConcatEmptySeq
  <2>4. Payload(h, c) = Cipher(p \o [i \in 1 .. n - Len(p) |-> 0], h.mask, 0)
    BY <1>1, <1>8 DEF Payload
  <2>5. Payload(h, c) = Cipher(p, f.mask, 0)
    BY <2>1, <2>2, <2>3, <2>4
  <2> QED
    BY <1>2, <2>5
<1> QED
  BY <1>3, <1>4, <1>7, <1>8, <1>9, <1>10 DEF Taken

(* A frame is taken off the buffer and handed to OnMessage.                 *)
LEMMA TakeKeeps ==
  ASSUME WebsocketInv, cur \in {"buf", "inBuf"}, upgraded,
         NEW f, NEW rest, NEW more, Arrived(f, rest, more),
         NEW e \in Seq(Byte), Len(rest) = Len(f.payload) + Len(e), more = e \o stream,
         NEW b, RP!RingOK(b), RP!Ahead(b) = 0, b.w = Buffer.w, RP!Data(b) = e,
         SetBuffer(b), OnMessage(f.op, f.payload),
         UNCHANGED <<cur, wire, closed, fatal, shakeVars, stream, sent, upgraded>>,
         hdr' \in Seq(Byte), Len(hdr') = 12
  PROVE  WebsocketInv'
<1> USE DEF WebsocketInv
<1>a. /\ DataInv /\ BufferInv /\ sent \in Seq(Masked) /\ msgs \in Seq(Messages)
      /\ answers \in Seq(Short) /\ reply \in Seq(Byte) /\ wire \in Seq(Byte)
      /\ stream \in Seq(Byte) /\ ~closed /\ cur # "none"
  BY DEF DataInv, OutputInv
<1>b. BufferInv' /\ Held' = e
  BY <1>a, SetBufferKeeps
<1>1. PICK n \in Nat, m \in Nat : n = Len(sent) /\ m = Len(msgs) /\ m < n
  BY <1>a, LenProperties DEF Arrived
<1>2. /\ f = sent[m + 1] /\ f.op \in 0 .. 15 /\ f.payload \in Seq(Byte)
      /\ Len(f.payload) < Huge /\ Plain(f) \in Messages
  BY <1>1 DEF Arrived, IsMasked, Plain, Messages
<1>3. PICK a : /\ a \in Answers(f.op, f.payload) /\ answers' = answers \o a
               /\ reply' = reply \o FlattenSeq([i \in DOMAIN a |-> FrameToBytes(a[i])])
  BY DEF OnMessage
<1>4. a \in Seq(Short)
  BY <1>2, <1>3, AnswersShort
<1>5. PICK x : x = FlattenSeq(ServerFrames(a)) /\ x \in Seq(Byte) /\ reply' = reply \o x
  <2>1. DOMAIN a = 1 .. Len(a)
    BY <1>4
  <2>2. [i \in DOMAIN a |-> FrameToBytes(a[i])] = ServerFrames(a)
    BY <2>1, Zenon DEF ServerFrames
  <2> QED
    BY <1>3, <1>4, <2>2, ServerFramesTyped
<1>6. msgs' = Append(msgs, Plain(f)) /\ shut' \in BOOLEAN
  BY <1>a DEF OnMessage, Plain, DataInv
<1>7. /\ msgs' \in Seq(Messages) /\ Len(msgs') = m + 1 /\ msgs'[m + 1] = Plain(f)
      /\ \A k \in 1 .. m : msgs'[k] = msgs[k]
  BY <1>a, <1>1, <1>2, <1>6, AppendProperties
<1>8. answers' \in Seq(Short) /\ reply' \in Seq(Byte)
  <2>1. answers \o a \in Seq(Short)
    BY <1>a, <1>4, ConcatProperties
  <2>2. reply \o x \in Seq(Byte)
    BY <1>a, <1>5, ConcatProperties
  <2> QED
    BY <1>3, <1>5, <2>1, <2>2
<1>9. DataInv'
  <2>1. {upgraded', shut', closed', fatal'} \subseteq BOOLEAN
    BY <1>a, <1>6 DEF DataInv
  <2> QED
    BY <1>a, <1>7, <1>8, <2>1 DEF DataInv
<1>10. CutInv'
  BY StartIs DEF CutInv
<1>11. InputInv'
  <2>1. Start' = Start /\ Pending' = FramesAfter(sent, m + 1) /\ cur' # "none" /\ upgraded'
    BY <1>a, <1>7, StartIs DEF Pending
  <2>2. Held' \o stream' = Pending'
    BY <1>1, <1>b, <2>1 DEF Arrived
  <2>3. /\ Len(msgs') <= Len(sent') /\ \A k \in 1 .. Len(msgs') : msgs'[k] = Plain(sent'[k])
    <3>1. ASSUME NEW k \in 1 .. m + 1 PROVE msgs'[k] = Plain(sent[k])
      <4>1. CASE k \in 1 .. m
        BY <1>1, <1>7, <4>1 DEF InputInv
      <4>2. CASE k = m + 1
        BY <1>2, <1>7, <4>2
      <4> QED
        BY ONLY m \in Nat, k \in 1 .. m + 1, <4>1, <4>2
    <3> QED
      BY <1>1, <1>7, <3>1
  <2>4. Len(Held') + Len(stream') = Start'[Len(sent') + 1] - Start'[Len(msgs') + 1]
    <3>1. PICK to, from, hd, pl : /\ to = Start[n + 1] /\ from = Start[m + 1]
                                  /\ hd = HeaderLen(f) /\ pl = Len(f.payload)
      OBVIOUS
    <3>2. m + 1 \in 1 .. Len(sent) /\ n + 1 \in 1 .. Len(sent) + 1
      BY <1>1
    <3>3. /\ to \in Nat /\ from \in Nat /\ hd \in Nat /\ pl \in Nat
          /\ Start[(m + 1) + 1] = from + (hd + pl)
      BY <1>a, <1>2, <3>1, <3>2, Places
    <3>4. Len(Held) = hd + Len(rest)
      <4>1. PICK y, r : y = ClientHeader(f) /\ r = rest
        OBVIOUS
      <4>2. y \in Seq(Byte) /\ r \in Seq(Byte) /\ Len(y) = hd /\ Held = y \o r
        BY <3>1, <4>1, ClientFrameForm DEF Arrived
      <4>3. Len(y \o r) = Len(y) + Len(r)
        BY ONLY <4>2, ConcatProperties
      <4> QED
        BY <4>1, <4>2, <4>3
    <3>5. Len(Held) + Len(stream) = to - from
      BY <1>1, <3>1 DEF InputInv
    <3>6. PICK t, u : t = Len(stream) /\ u = Len(e)
      OBVIOUS
    <3>7. t \in Nat /\ u \in Nat
      BY <1>a, <3>6, LenProperties
    <3>8. Len(rest) = pl + u
      BY <3>1, <3>6
    <3>9. u + t = to - (from + (hd + pl))
      BY ONLY <3>3, <3>4, <3>5, <3>6, <3>7, <3>8
    <3>10. /\ Len(Held') = u /\ Len(stream') = t /\ Start'[Len(sent') + 1] = to
           /\ Start'[Len(msgs') + 1] = Start[(m + 1) + 1]
      BY <1>1, <1>7, <1>b, <2>1, <3>1, <3>6
    <3> QED
      BY <3>3, <3>9, <3>10
  <2> QED
    BY <2>1, <2>2, <2>3, <2>4 DEF InputInv
<1>12. OutputInv'
  <2>1. PICK w, r, t, s : /\ w = wire /\ r = reply /\ t = ResponseBytes
                          /\ s = FlattenSeq(ServerFrames(answers))
    OBVIOUS
  <2>2. w \in Seq(Byte) /\ r \in Seq(Byte) /\ t \in Seq(Byte) /\ s \in Seq(Byte)
        /\ x \in Seq(Byte)
    BY <1>a, <1>5, <2>1, TextBytes, ServerFramesTyped
  <2>3. w \o r = t \o s
    BY <1>a, <2>1 DEF OutputInv
  <2>4. FlattenSeq(ServerFrames(answers')) = s \o x
    BY <1>a, <1>3, <1>4, <1>5, <2>1, ServerFramesConcat
  <2>a. w \o (r \o x) = (w \o r) \o x
    <3>1. Associates(w, r, x)
      BY ONLY <2>2, ConcatAssociates
    <3> QED
      BY ONLY <3>1 DEF Associates
  <2>b. (t \o s) \o x = t \o (s \o x)
    <3>1. Associates(t, s, x)
      BY ONLY <2>2, ConcatAssociates
    <3> QED
      BY ONLY <3>1 DEF Associates
  <2>5. w \o (r \o x) = (w \o r) \o x /\ (t \o s) \o x = t \o (s \o x)
    BY <2>a, <2>b
  <2>6. wire' \o reply' = ResponseBytes \o FlattenSeq(ServerFrames(answers'))
    BY <1>5, <2>1, <2>3, <2>4, <2>5
  <2> QED
    BY <1>a, <2>6 DEF OutputInv
<1>13. ShakeInv'
  BY DEF ShakeInv, shakeVars
<1> QED
  BY <1>9, <1>10, <1>11, <1>12, <1>13, <1>b

(* UnPacket takes a frame off, or ends the read.                            *)
LEMMA UnPacketKeeps ==
  ASSUME WebsocketInv, UnPacket
  PROVE  WebsocketInv'
<1> USE DEF WebsocketInv
<1>a. DataInv /\ BufferInv /\ stream \in Seq(Byte) /\ hdr \in Seq(Byte) /\ Len(hdr) = 12
  BY DEF DataInv
<1>b. cur \in {"buf", "inBuf"} /\ upgraded /\ UNCHANGED <<shakeVars, stream, sent, upgraded>>
  BY <1>a DEF UnPacket, DataInv
<1>1. /\ RP!RingOK(Buffer) /\ RP!Ahead(Buffer) = 0 /\ Held \in Seq(Byte) /\ Len(Held) \in Nat
      /\ RB!Length(Buffer) = Len(Held) /\ RP!Data(Buffer) = Held
  BY <1>a, TheBuffer DEF Held
<1>2. CASE Len(Held) < 6
  <2>1. EndRead(Buffer) /\ UNCHANGED <<hdr, msgs, answers, shut, fatal>>
    BY <1>1, <1>2 DEF UnPacket
  <2>2. Unfinished
    <3>1. ASSUME Len(msgs) < Len(sent)
          PROVE  Len(Held) < Len(ClientFrame(sent[Len(msgs) + 1]))
      <4>1. Len(msgs) + 1 \in 1 .. Len(sent) /\ sent \in Seq(Masked)
        BY <3>1, LenProperties DEF DataInv
      <4>2. PICK f : f = sent[Len(msgs) + 1] /\ IsMasked(f)
        BY <4>1, FrameLengths
      <4>3. /\ Len(ClientFrame(f)) = HeaderLen(f) + Len(f.payload)
            /\ HeaderLen(f) \in Nat /\ HeaderLen(f) >= 6 /\ Len(f.payload) \in Nat
        BY <4>2, ClientFrameForm
      <4> QED
        BY <1>1, <1>2, <4>2, <4>3
    <3> QED
      BY <3>1 DEF Unfinished
  <2> QED
    BY <1>a, <1>b, <1>1, <2>1, <2>2, EndReadKeeps
<1>3. CASE Len(Held) >= 6
  <2>1. PICK f, rest, more : Arrived(f, rest, more)
    BY <1>b, <1>3, NextArrives
  <2>2. PICK h : h = VirtualReadHeader(Buffer)
    OBVIOUS
  <2>3. /\ IsMasked(f) /\ rest \in Seq(Byte) /\ RP!Data(Buffer) = ClientHeader(f) \o rest
        /\ rest # <<>> \/ Len(f.payload) = 0
    BY <1>1, <2>1 DEF Arrived
  <2>a. /\ RP!RingOK(Buffer) /\ RP!Ahead(Buffer) = 0 /\ hdr \in Seq(Byte) /\ Len(hdr) = 12
        /\ h = VirtualReadHeader(Buffer)
    BY <1>a, <1>1, <2>2
  <2>b. HeaderIs(Buffer, f, rest, h)
    BY ONLY <2>3, <2>a, HeaderRead
  <2>4. /\ h.op = f.op /\ h.length = Len(f.payload) /\ h.mask = f.mask /\ ~h.error
        /\ h.bts \in Seq(Byte) /\ Len(h.bts) = 12
        /\ RB!VirtualLength(h.b) >= h.length <=> Len(rest) >= h.length
        /\ RB!VirtualLength(h.b) < h.length <=> Len(rest) < h.length
        /\ LET c == RB!VirtualFlush(h.b)
           IN RP!RingOK(c) /\ RP!Ahead(c) = 0 /\ RP!Data(c) = rest /\ c.w = Buffer.w
        /\ rest # <<>> => LET c == RB!VirtualRevert(h.b)
                          IN /\ RP!RingOK(c) /\ RP!Ahead(c) = 0
                             /\ RP!Data(c) = RP!Data(Buffer) /\ c.w = Buffer.w
    BY <2>b DEF HeaderIs
  <2>5. PICK c : c = RB!VirtualFlush(h.b)
    OBVIOUS
  <2>6. ~(RB!Length(Buffer) < 6)
    BY <1>1, <1>3
  <2>7. /\ hdr' = h.bts
        /\ \/ /\ RB!VirtualLength(h.b) >= h.length
              /\ SetBuffer(RB!Read(c, h.length)) /\ OnMessage(h.op, Payload(h, c))
              /\ UNCHANGED <<cur, wire, closed, fatal>>
           \/ /\ RB!VirtualLength(h.b) < h.length
              /\ EndRead(RB!VirtualRevert(h.b)) /\ UNCHANGED <<msgs, answers, shut, fatal>>
    BY <2>2, <2>4, <2>5, <2>6 DEF UnPacket
  <2>8. hdr' \in Seq(Byte) /\ Len(hdr') = 12
    BY <2>4, <2>7
  <2>9. CASE /\ RB!VirtualLength(h.b) >= h.length
             /\ SetBuffer(RB!Read(c, h.length)) /\ OnMessage(h.op, Payload(h, c))
             /\ UNCHANGED <<cur, wire, closed, fatal>>
    <3>1. PICK e \in Seq(Byte) : /\ rest = MaskedPayload(f) \o e /\ more = e \o stream
                                 /\ Len(rest) = Len(f.payload) + Len(e)
      <4>1. PICK p, s : p = MaskedPayload(f) /\ s = stream
        OBVIOUS
      <4>2. /\ p \in Seq(Byte) /\ s \in Seq(Byte) /\ more \in Seq(Byte) /\ rest \in Seq(Byte)
            /\ Len(p) = Len(f.payload) /\ Len(p) \in Nat /\ rest \o s = p \o more
        BY <1>a, <2>1, <2>3, <4>1, ClientFrameForm DEF Arrived
      <4>3. Cuts(rest, s, p, more)
        BY <2>4, <2>9, <4>2 DEF Cuts
      <4>4. Overlap(Byte, rest, s, p, more)
        BY ONLY <4>2, <4>3, TwoCuts
      <4>5. PICK e \in Seq(Byte) : rest = p \o e /\ more = e \o s /\ Len(e) = Len(rest) - Len(p)
        BY <4>4 DEF Overlap
      <4>6. Len(rest) = Len(p) + Len(e)
        BY <2>3, <4>2, <4>5, LenProperties
      <4> QED
        BY <4>1, <4>2, <4>5, <4>6
    <3>2. PICK b : b = RB!Read(c, h.length)
      OBVIOUS
    <3>3. RP!RingOK(c) /\ RP!Ahead(c) = 0 /\ RP!Data(c) = MaskedPayload(f) \o e /\ c.w = Buffer.w
      BY <2>4, <2>5, <3>1
    <3>4. h.length = Len(f.payload) /\ h.mask = f.mask /\ h.op = f.op
      BY <2>4
    <3>5. /\ Payload(h, c) = f.payload
          /\ RP!RingOK(b) /\ RP!Ahead(b) = 0 /\ RP!Data(b) = e /\ b.w = Buffer.w
      <4>1. Taken(f, e, c, h, b)
        BY ONLY <2>3, <3>2, <3>3, <3>4, e \in Seq(Byte), PayloadTaken
      <4> QED
        BY <3>3, <4>1 DEF Taken
    <3>6. SetBuffer(b) /\ OnMessage(f.op, f.payload) /\ UNCHANGED <<cur, wire, closed, fatal>>
      BY <2>9, <3>2, <3>4, <3>5
    <3> QED
      BY <1>b, <2>1, <2>8, <3>1, <3>5, <3>6, TakeKeeps
  <2>10. CASE /\ RB!VirtualLength(h.b) < h.length
              /\ EndRead(RB!VirtualRevert(h.b)) /\ UNCHANGED <<msgs, answers, shut, fatal>>
    <3>1. Len(rest) < Len(f.payload) /\ Len(f.payload) \in Nat /\ Len(rest) \in Nat
      BY <2>3, <2>4, <2>10, LenProperties, ClientFrameForm
    <3>2. rest # <<>>
      BY <2>3, <3>1
    <3>3. PICK b : b = RB!VirtualRevert(h.b) /\ EndRead(b)
      BY <2>10
    <3>4. RP!RingOK(b) /\ RP!Ahead(b) = 0 /\ RP!Data(b) = Held /\ b.w = Buffer.w
      BY <1>1, <2>4, <3>2, <3>3
    <3>5. Unfinished
      <4>1. PICK y : y = ClientHeader(f)
        OBVIOUS
      <4>2. /\ y \in Seq(Byte) /\ Len(y) = HeaderLen(f) /\ HeaderLen(f) \in Nat
            /\ Len(ClientFrame(f)) = HeaderLen(f) + Len(f.payload)
        BY <2>3, <4>1, ClientFrameForm
      <4>3. y \in Seq(Byte) /\ rest \in Seq(Byte)
        BY <2>3, <4>2
      <4>4. Len(y \o rest) = Len(y) + Len(rest)
        BY ONLY <4>3, ConcatProperties
      <4>5. Held = y \o rest
        BY <2>1, <4>1 DEF Arrived
      <4>6. Len(Held) < Len(ClientFrame(f))
        BY <3>1, <4>2, <4>4, <4>5
      <4> QED
        BY <2>1, <4>6 DEF Unfinished, Arrived
    <3> QED
      BY <1>b, <2>8, <2>10, <3>3, <3>4, <3>5, EndReadKeeps
  <2> QED
    BY <2>7, <2>9, <2>10
<1> QED
  BY <1>1, <1>2, <1>3

(* Every step keeps the invariant.                                          *)
LEMMA WebsocketStep ==
  ASSUME ~AnyCut
  PROVE  WebsocketInv /\ [Next]_vars => WebsocketInv'
<1> SUFFICES ASSUME WebsocketInv, [Next]_vars PROVE WebsocketInv'
  OBVIOUS
<1>1. CASE ClientSends
  BY <1>1, ClientSendsKeeps
<1>2. ASSUME NEW n \in 1 .. PacketSize, ReadPacket(n) PROVE WebsocketInv'
  BY <1>2, ReadPacketKeeps
<1>3. ASSUME Upgrade, ~fatal PROVE WebsocketInv'
  BY <1>3, UpgradeKeeps
<1>4. CASE UnPacket
  BY <1>4, UnPacketKeeps
<1>5. CASE UNCHANGED vars
  <2>1. Held' = Held /\ Pending' = Pending /\ Start' = Start
    BY <1>5, StartIs DEF vars, inVars, Held, Pending, Buffer
  <2>2. DataInv' /\ BufferInv'
    BY <1>5 DEF vars, inVars, outVars, WebsocketInv, DataInv, BufferInv
  <2>3. CutInv' /\ InputInv'
    BY <1>5, <2>1 DEF vars, inVars, WebsocketInv, CutInv, InputInv
  <2>4. OutputInv' /\ ShakeInv'
    BY <1>5 DEF vars, inVars, outVars, shakeVars, WebsocketInv, OutputInv, ShakeInv
  <2> QED
    BY <2>2, <2>3, <2>4 DEF WebsocketInv
<1> QED
  BY <1>1, <1>2, <1>3, <1>4, <1>5 DEF Next

(* Where the frames of the client, the bytes in the two buffers and the     *)
(* bytes on the way are at any time, for any frames, masks and answers of   *)
(* OnMessage and the cuts of the reads that CleanCut leaves (protocol.go,   *)
(* lines 22-59; connection.go, lines 209-261).                              *)
THEOREM WebsocketInvariant ==
  ASSUME ~AnyCut
  PROVE  Spec => []WebsocketInv
BY WebsocketInit, WebsocketStep, PTL DEF Spec
-----------------------------------------------------------------------------
(* What the invariant says of the client's frames *)

(* Its types, ...                                                           *)
LEMMA TypesHold == WebsocketInv => TypeOK
<1> SUFFICES ASSUME WebsocketInv PROVE TypeOK
  OBVIOUS
<1>a. DataInv /\ BufferInv /\ ShakeInv
  BY DEF WebsocketInv
<1>1. Len(response) <= 1
  <2>1. Len(<<>>) <= 1 /\ \A x : Len(<<x>>) <= 1
    OBVIOUS
  <2> QED
    BY <1>a, <2>1 DEF ShakeInv
<1>2. \A i \in DOMAIN sent : sent[i].op \in 0 .. 15 /\ sent[i].payload \in Seq(Byte)
  <2>1. sent \in Seq(Masked) /\ DOMAIN sent = 1 .. Len(sent)
    BY <1>a DEF DataInv
  <2> QED
    BY <2>1, FrameLengths DEF IsMasked
<1>3. \A i \in DOMAIN msgs : msgs[i].op \in 0 .. 15 /\ msgs[i].payload \in Seq(Byte)
  <2>1. msgs \in Seq(Messages) /\ DOMAIN msgs = 1 .. Len(msgs)
    BY <1>a DEF DataInv
  <2>2. \A i \in 1 .. Len(msgs) : msgs[i] \in Messages
    BY ONLY <2>1, ElementOfSeq
  <2> QED
    BY <2>1, <2>2 DEF Messages
<1>4. \A i \in DOMAIN answers : answers[i].op \in 0 .. 15 /\ answers[i].payload \in Seq(Byte)
  <2>1. answers \in Seq(Short) /\ DOMAIN answers = 1 .. Len(answers)
    BY <1>a DEF DataInv
  <2> QED
    BY <2>1, ElementOfSeq DEF Short, Messages
<1>5. ASSUME NEW b, RP!RingOK(b)
      PROVE  /\ b.size \in Nat /\ b.buf \in [0 .. b.size - 1 -> Byte]
             /\ \A p \in {b.r, b.w, b.vr} : p = 0 \/ p \in 0 .. b.size - 1
  BY <1>5, RingFields
<1>6. \A b \in {buf, inBuf} :
        /\ b.size \in Nat /\ b.buf \in [0 .. b.size - 1 -> Byte]
        /\ \A p \in {b.r, b.w, b.vr} : p = 0 \/ p \in 0 .. b.size - 1
  BY <1>5, <1>a DEF BufferInv
<1>7. \A s \in {sent, msgs, answers} :
        \A i \in DOMAIN s : s[i].op \in 0 .. 15 /\ s[i].payload \in Seq(Byte)
  BY <1>2, <1>3, <1>4
<1> QED
  BY <1>a, <1>1, <1>6, <1>7 DEF TypeOK, DataInv

(* ... and the messages.                                                    *)
LEMMA MessagesHold == WebsocketInv => MessagesIntact
<1> SUFFICES ASSUME WebsocketInv PROVE MessagesIntact
  OBVIOUS
<1>a. /\ sent \in Seq(Masked) /\ msgs \in Seq(Messages) /\ stream \in Seq(Byte)
      /\ BufferInv /\ InputInv
  BY DEF WebsocketInv, DataInv
<1>b. Held \in Seq(Byte) /\ Len(Held) \in Nat
  BY <1>a, TheBuffer
<1>1. PICK n \in Nat, m \in Nat : n = Len(sent) /\ m = Len(msgs) /\ m <= n
  BY <1>a, LenProperties DEF InputInv
<1>2. PICK plain : plain = [k \in DOMAIN sent |-> [op |-> sent[k].op, payload |-> sent[k].payload]]
  OBVIOUS
<1>3. /\ plain \in Seq(Messages) /\ Len(plain) = n
      /\ \A k \in 1 .. n : plain[k] = Plain(sent[k])
  <2>1. \A k \in 1 .. n : [op |-> sent[k].op, payload |-> sent[k].payload] \in Messages
    BY <1>a, <1>1, FrameLengths DEF IsMasked, Messages
  <2>2. DOMAIN sent = 1 .. n
    BY <1>a, <1>1
  <2>3. plain \in [1 .. n -> Messages] /\ \A k \in 1 .. n : plain[k] = Plain(sent[k])
    BY <1>2, <2>1, <2>2 DEF Plain
  <2>4. plain \in Seq(Messages) /\ Len(plain) = n
    BY ONLY <2>3, n \in Nat
  <2> QED
    BY <2>3, <2>4
<1>4. \A k \in 1 .. m : msgs[k] = plain[k]
  BY <1>a, <1>1, <1>3 DEF InputInv
<1>5. IsPrefix(msgs, plain)
  BY <1>a, <1>1, <1>3, <1>4, PrefixElements
<1>6. ASSUME stream = <<>>, cur = "none" PROVE msgs = plain
  <2>1. Held = Pending
    <3>1. Held \o <<>> = Held
      BY <1>b, ConcatEmptySeq
    <3> QED
      BY <1>a, <1>6, <3>1 DEF InputInv
  <2>2. upgraded
    <3>1. ASSUME ~upgraded PROVE FALSE
      <4>1. Held = <<>> /\ Pending = RequestBytes \o FramesAfter(sent, 0)
        BY <1>a, <1>6, <3>1 DEF InputInv, Pending
      <4>2. PICK r, g : r = RequestBytes /\ g = FramesAfter(sent, 0)
        OBVIOUS
      <4>3. r \in Seq(Byte) /\ g \in Seq(Byte) /\ Len(r) = 2 /\ Len(g) \in Nat
        BY <1>a, <1>1, <4>2, TextBytes, FramesAfterTyped, LenProperties
      <4>4. Len(r \o g) = Len(r) + Len(g)
        BY ONLY <4>3, ConcatProperties
      <4> QED
        <5>1. r \o g = <<>> /\ Len(<<>>) = 0
          BY <2>1, <4>1, <4>2, EmptySeq
        <5> QED
          BY <4>3, <4>4, <5>1
    <3> QED
      BY <3>1
  <2>3. m = n
    <3>1. ASSUME m # n PROVE FALSE
      <4>1. m \in 0 .. n /\ m < n
        BY <1>1, <3>1
      <4>2. PICK x, g : x = ClientFrame(sent[m + 1]) /\ g = FramesAfter(sent, m + 1)
        OBVIOUS
      <4>3. FramesAfter(sent, m) = x \o g /\ g \in Seq(Byte) /\ sent[m + 1] \in Masked
        BY <1>a, <1>1, <3>1, <4>1, <4>2, FramesAfterNext
      <4>4. x \in Seq(Byte) /\ Len(x) \in Nat /\ Len(g) \in Nat
        BY <4>2, <4>3, MaskedFrames, ClientFrameForm, LenProperties
      <4>5. Len(x \o g) = Len(x) + Len(g)
        BY ONLY <4>3, <4>4, ConcatProperties
      <4>6. Held = x \o g
        BY <1>1, <2>1, <2>2, <4>3 DEF Pending
      <4>7. Len(Held) < Len(x)
        BY <1>a, <1>1, <1>6, <2>2, <4>1, <4>2 DEF InputInv
      <4> QED
        BY <4>4, <4>5, <4>6, <4>7
    <3> QED
      BY <3>1
  <2> QED
    BY <1>a, <1>1, <1>3, <1>4, <2>3, SeqEqual
<1> QED
  BY <1>2, <1>5, <1>6 DEF MessagesIntact

(* The buffers are ring buffers of bytes with their cursors inside, and     *)
(* frames have opcodes of four bits (connection.go, handleRead;             *)
(* ws/read.go).                                                             *)
THEOREM WebsocketTypes ==
  ASSUME ~AnyCut
  PROVE  Spec => []TypeOK
BY WebsocketInvariant, TypesHold, PTL

(* OnMessage is given what the client has sent, whole, unmasked and in      *)
(* order, for reads that do not end in or just behind a header              *)
(* (protocol.go, lines 22-59, with what is left in inBuf).                  *)
THEOREM MessagesIntactAlways ==
  ASSUME ~AnyCut
  PROVE  Spec => []MessagesIntact
BY WebsocketInvariant, MessagesHold, PTL
-----------------------------------------------------------------------------
(* What it says of the answers *)

(* A frame of the server between other bytes is the one the client finds    *)
(* there.                                                                   *)
Around(a, f, c, b) == b = (a \o FrameToBytes(f)) \o c

(* The length, in any of its three forms, says where it ends.               *)
LEMMA FrameIsFound ==
  ASSUME NEW a \in Seq(Byte), NEW c \in Seq(Byte), NEW f \in Short, NEW b, Around(a, f, c, b)
  PROVE  /\ FrameAt(b, Len(a)).frame = f
         /\ FrameAt(b, Len(a)).end = Len(a) + Len(FrameToBytes(f))
         /\ b \in Seq(Byte) /\ Len(b) >= Len(a) + Len(FrameToBytes(f))
         /\ Len(FrameToBytes(f)) \in Nat /\ Len(FrameToBytes(f)) >= 2
<1>1. f.op \in 0 .. 15 /\ f.payload \in Seq(Byte) /\ f = [op |-> f.op, payload |-> f.payload]
  BY DEF Short, Messages
<1>2. PICK n, W : n = Len(f.payload) /\ W = Width(Code(n))
  OBVIOUS
<1>3. n \in Nat /\ n < Huge /\ W \in Nat /\ Code(n) \in Nat /\ Code(n) <= 127
  <2>1. n \in Nat /\ n < Huge
    BY <1>1, <1>2, LenProperties DEF Short
  <2> QED
    BY <1>2, <2>1, LengthForm
<1>4. PICK two, long, m, q :
        /\ two = FirstTwo(128 + f.op, 0, n) /\ long = Long(n) /\ m = FrameToBytes(f) /\ q = f.payload
  OBVIOUS
<1>5. /\ two \in Seq(Byte) /\ Len(two) = 2 /\ long \in Seq(Byte) /\ Len(long) = W
      /\ m = (two \o long) \o q /\ m \in Seq(Byte) /\ Len(m) = 2 + W + n
      /\ q \in Seq(Byte) /\ Len(q) = n
  BY <1>1, <1>2, <1>3, <1>4, ServerFrameForm
<1>6. /\ SubSeq(m, 3, 2 + W) = long /\ SubSeq(m, 3 + W, 2 + W + n) = q
      /\ m[1] = 128 + f.op /\ m[2] = Code(n)
  <2>1. two \in Seq(Byte) /\ long \in Seq(Byte) /\ q \in Seq(Byte) /\ m = (two \o long) \o q
    BY <1>5
  <2>a. SubSeq(m, Len(two) + 1, Len(two) + Len(long)) = long
    BY ONLY <2>1, ThreeParts
  <2>b. SubSeq(m, Len(two) + Len(long) + 1, Len(m)) = q
    BY ONLY <2>1, ThreeParts
  <2>c. m = two \o (long \o q)
    BY ONLY <2>1, ThreeParts
  <2>2. /\ SubSeq(m, Len(two) + 1, Len(two) + Len(long)) = long
        /\ SubSeq(m, Len(two) + Len(long) + 1, Len(m)) = q /\ m = two \o (long \o q)
    BY <2>a, <2>b, <2>c
  <2>3. 2 + 1 = 3 /\ (2 + W) + 1 = 3 + W
    BY <1>3
  <2>4. long \o q \in Seq(Byte)
    BY ONLY <2>1, ConcatProperties
  <2>5. 1 \in 1 .. Len(two) /\ 2 \in 1 .. Len(two)
    BY <1>5
  <2>6. (two \o (long \o q))[1] = two[1] /\ (two \o (long \o q))[2] = two[2]
    BY ONLY <2>1, <2>4, <2>5, ConcatFirst
  <2>7. two[1] = 128 + f.op /\ two[2] = 0 + Code(n)
    BY <1>4 DEF FirstTwo
  <2>8. Len(two) = 2 /\ Len(long) = W /\ Len(m) = 2 + W + n
    BY <1>5
  <2>9. SubSeq(m, 3, 2 + W) = long /\ SubSeq(m, 3 + W, 2 + W + n) = q
    BY ONLY <2>2, <2>3, <2>8
  <2>10. m[1] = two[1] /\ m[2] = two[2]
    BY ONLY <2>2, <2>6
  <2>11. 0 + Code(n) = Code(n)
    BY ONLY <1>3
  <2> QED
    BY ONLY <2>7, <2>9, <2>10, <2>11
<1>7. PICK p \in Nat : p = Len(a)
  BY LenProperties
<1>8. /\ b \in Seq(Byte) /\ Len(b) = p + Len(m) + Len(c)
      /\ \A i \in 1 .. Len(m) : b[p + i] = m[i]
      /\ \A i \in 1 .. Len(m) + 1 : \A j \in i - 1 .. Len(m) :
           SubSeq(b, p + i, p + j) = SubSeq(m, i, j)
  <2>1. b = (a \o m) \o c /\ m \in Seq(Byte)
    BY <1>4, <1>5 DEF Around
  <2>2. b \in Seq(Byte) /\ Middle(a, m, c, b)
    BY ONLY <2>1, a \in Seq(Byte), c \in Seq(Byte), MiddlePart
  <2>3. Len(b) = p + Len(m) + Len(c) /\ \A i \in 1 .. Len(m) : b[p + i] = m[i]
    BY ONLY <1>7, <2>2 DEF Middle
  <2>4. ASSUME NEW i \in 1 .. Len(m) + 1, NEW j \in i - 1 .. Len(m)
        PROVE  SubSeq(b, p + i, p + j) = SubSeq(m, i, j)
    <3>1. SubSeq(b, Len(a) + i, Len(a) + j) = SubSeq(m, i, j)
      BY <2>2, Zenon DEF Middle
    <3> QED
      BY <1>7, <3>1, Zenon
  <2>5. \A i \in 1 .. Len(m) + 1 : \A j \in i - 1 .. Len(m) :
          SubSeq(b, p + i, p + j) = SubSeq(m, i, j)
    BY <2>4
  <2>6. b \in Seq(Byte)
    BY ONLY <2>2
  <2> QED
    BY ONLY <2>3, <2>5, <2>6
<1>9. b[p + 1] = 128 + f.op /\ b[p + 2] = Code(n)
  <2>1. 1 \in 1 .. Len(m) /\ 2 \in 1 .. Len(m)
    BY <1>3, <1>5
  <2> QED
    BY <1>6, <1>8, <2>1
<1>10. SubSeq(b, p + 3, p + 2 + W) = long /\ SubSeq(b, p + 3 + W, p + 2 + W + n) = q
  <2>1. PICK i, j, k, l : i = 3 /\ j = 2 + W /\ k = 3 + W /\ l = 2 + W + n
    OBVIOUS
  <2>2. /\ i \in 1 .. Len(m) + 1 /\ j \in i - 1 .. Len(m)
        /\ k \in 1 .. Len(m) + 1 /\ l \in k - 1 .. Len(m)
    BY <1>3, <1>5, <2>1
  <2>3. SubSeq(b, p + i, p + j) = SubSeq(m, i, j) /\ SubSeq(b, p + k, p + l) = SubSeq(m, k, l)
    BY ONLY <1>8, <2>2
  <2>4. p + j = p + 2 + W /\ p + k = p + 3 + W /\ p + l = p + 2 + W + n
    BY <1>3, <2>1
  <2> QED
    BY <1>6, <2>1, <2>3, <2>4
<1>11. (128 + f.op) % 16 = f.op
  BY <1>1
<1>12. W = 0 => Code(n) = n
  BY <1>2, <1>3, LengthForm
<1>13. W # 0 => Number(long) = n
  BY <1>2, <1>3, <1>4, LengthForm
<1>14. FrameAt(b, p) = [frame |-> [op |-> f.op, payload |-> q], end |-> p + 2 + W + n]
  <2> DEFINE code == b[p + 2]
             size == IF Width(code) = 0 THEN code ELSE Number(SubSeq(b, p + 3, p + 2 + Width(code)))
  <2>1. FrameAt(b, p) = [frame |-> [op |-> b[p + 1] % 16,
                              payload |-> SubSeq(b, p + 3 + Width(code), p + 2 + Width(code) + size)],
                         end |-> p + 2 + Width(code) + size]
    BY DEF FrameAt, Width
  <2>2. code = Code(n)
    BY <1>9
  <2> HIDE DEF code
  <2>3. Width(code) = W
    BY <1>2, <2>2
  <2>4. size = n
    BY <1>10, <1>12, <1>13, <2>2, <2>3
  <2> HIDE DEF size
  <2> QED
    BY <1>9, <1>10, <1>11, <2>1, <2>3, <2>4
<1> QED
  <2>1. Len(c) \in Nat /\ p + 2 + W + n = p + Len(m) /\ Len(m) \in Nat /\ Len(m) >= 2
    BY <1>3, <1>5, LenProperties
  <2>2. FrameAt(b, p).frame = f /\ FrameAt(b, p).end = p + Len(m)
    BY <1>1, <1>4, <1>14, <2>1
  <2>3. Len(b) >= p + Len(m)
    BY <1>8, <2>1
  <2> QED
    BY <1>4, <1>7, <1>8, <2>1, <2>2, <2>3

(* The first k frames, one after the other. *)
Upto(s, k) == FlattenSeq(ServerFrames(SubSeq(s, 1, k)))

(* No frames have no bytes.                                                 *)
LEMMA UptoNone ==
  ASSUME NEW s \in Seq(Short)
  PROVE  Upto(s, 0) = <<>>
<1>1. PICK t : t = SubSeq(s, 1, 0) /\ t \in Seq(Short) /\ Len(t) = 0
  <2>1. 1 \in 1 .. Len(s) + 1 /\ 0 \in 1 - 1 .. Len(s)
    BY LenProperties
  <2>2. HasElements(Short, SubSeq(s, 1, 0), s, 1, 0)
    BY ONLY <2>1, PartHasElements, s \in Seq(Short)
  <2>3. SubSeq(s, 1, 0) \in Seq(Short) /\ Len(SubSeq(s, 1, 0)) = 0
    BY ONLY <2>2 DEF HasElements
  <2> QED
    BY ONLY <2>3
<1>2. PICK c : c = ServerFrames(t) /\ c \in Seq(Seq(Byte)) /\ Len(c) = 0
  <2>1. ServerFrames(t) \in Seq(Seq(Byte)) /\ Len(ServerFrames(t)) = Len(t)
    BY ONLY <1>1, ServerFramesTyped
  <2> QED
    BY ONLY <1>1, <2>1
<1>3. FlattenSeq(c) = <<>>
  BY <1>2, FlattenIs
<1> QED
  BY <1>1, <1>2, <1>3 DEF Upto

(* One frame more is behind those before. *)
LEMMA UptoNext ==
  ASSUME NEW s \in Seq(Short), NEW k \in 1 .. Len(s)
  PROVE  /\ Upto(s, k) = Upto(s, k - 1) \o FrameToBytes(s[k])
         /\ Upto(s, k) \in Seq(Byte) /\ Upto(s, k - 1) \in Seq(Byte)
<1>1. PICK t, u, f : t = SubSeq(s, 1, k - 1) /\ u = SubSeq(s, 1, k) /\ f = s[k]
  OBVIOUS
<1>2. t \in Seq(Short) /\ u \in Seq(Short) /\ f \in Short
  <2>1. k - 1 \in 0 .. Len(s) /\ k \in 0 .. Len(s)
    BY LenProperties
  <2> QED
    BY <1>1, <2>1, CutInTwo, ElementOfSeq
<1>3. PICK one : one = <<f>>
  OBVIOUS
<1>4. one \in Seq(Short) /\ Len(one) = 1 /\ one[1] = f
  BY <1>2, <1>3
<1>5. u = t \o one
  <2>1. 1 \in 1 .. Len(s) /\ k \in 1 .. Len(s)
    BY LenProperties
  <2>2. SubSeq(s, 1, k) = SubSeq(s, 1, k - 1) \o <<s[k]>>
    BY <2>1, SubSeqRecursiveSecond
  <2> QED
    BY <1>1, <1>3, <2>2
<1>6. FlattenSeq(ServerFrames(u)) = FlattenSeq(ServerFrames(t)) \o FlattenSeq(ServerFrames(one))
  BY <1>2, <1>4, <1>5, ServerFramesConcat
<1>7. FlattenSeq(ServerFrames(one)) = FrameToBytes(f)
  <2>1. PICK c, x : c = ServerFrames(one) /\ x = FrameToBytes(f)
    OBVIOUS
  <2>2. 1 \in 1 .. Len(one)
    BY <1>4
  <2>3. c \in Seq(Seq(Byte)) /\ Len(c) = 1 /\ c[1] = x /\ x \in Seq(Byte)
    BY <1>4, <2>1, <2>2, ServerFramesTyped
  <2>4. FlattenSeq(c) = x
    BY ONLY <2>3, FlattenOne
  <2> QED
    BY <2>1, <2>4
<1> QED
  BY <1>1, <1>2, <1>6, <1>7, ServerFramesTyped DEF Upto

(* What is left behind them. *)
LEMMA UptoRest ==
  ASSUME NEW s \in Seq(Short), NEW k \in 0 .. Len(s)
  PROVE  \E c \in Seq(Byte) : /\ FlattenSeq(ServerFrames(s)) = Upto(s, k) \o c
                              /\ k = Len(s) => c = <<>>
<1>1. PICK t, u : t = SubSeq(s, 1, k) /\ u = SubSeq(s, k + 1, Len(s))
  OBVIOUS
<1>2. t \in Seq(Short) /\ u \in Seq(Short) /\ t \o u = s /\ Len(u) = Len(s) - k
  BY <1>1, CutInTwo
<1>3. PICK c : c = FlattenSeq(ServerFrames(u)) /\ c \in Seq(Byte)
  BY <1>2, ServerFramesTyped
<1>4. FlattenSeq(ServerFrames(s)) = Upto(s, k) \o c
  BY <1>1, <1>2, <1>3, ServerFramesConcat DEF Upto
<1>5. k = Len(s) => c = <<>>
  <2>1. ASSUME k = Len(s) PROVE c = <<>>
    <3>1. Len(u) = 0
      BY <1>2, <2>1
    <3>2. PICK d : d = ServerFrames(u) /\ d \in Seq(Seq(Byte)) /\ Len(d) = 0
      BY <1>2, <3>1, ServerFramesTyped
    <3>3. FlattenSeq(d) = <<>>
      BY <3>2, FlattenIs
    <3> QED
      BY <1>3, <3>2, <3>3
  <2> QED
    BY <2>1
<1> QED
  BY <1>3, <1>4, <1>5

(* Where the k-th frame ends behind the bytes a, and that the next one is   *)
(* found there.                                                             *)
EndOf(a, s, k) == Len(a) + Len(Upto(s, k))

Behind(a, s, b) == b = a \o FlattenSeq(ServerFrames(s))

(* Behind k - 1 frames the client finds the k-th.                           *)
LEMMA NextFound ==
  ASSUME NEW s \in Seq(Short), NEW a \in Seq(Byte), NEW b, Behind(a, s, b), NEW k \in 1 .. Len(s)
  PROVE  /\ FrameAt(b, EndOf(a, s, k - 1)).frame = s[k]
         /\ FrameAt(b, EndOf(a, s, k - 1)).end = EndOf(a, s, k)
         /\ EndOf(a, s, k - 1) < Len(b)
<1>1. PICK t, f, x, u : /\ t = Upto(s, k - 1) /\ f = s[k] /\ x = FrameToBytes(f)
                        /\ u = Upto(s, k)
  OBVIOUS
<1>2. PICK c : c \in Seq(Byte) /\ FlattenSeq(ServerFrames(s)) = u \o c
  <2>1. k \in 0 .. Len(s)
    BY LenProperties
  <2> QED
    BY <1>1, <2>1, UptoRest
<1>3. f \in Short /\ t \in Seq(Byte) /\ u = t \o x /\ x \in Seq(Byte)
  BY <1>1, UptoNext, ServerFramesTyped
<1>4. /\ a \in Seq(Byte) /\ t \in Seq(Byte) /\ x \in Seq(Byte) /\ c \in Seq(Byte)
  BY <1>2, <1>3
<1>5. PICK h : h = a \o t
  OBVIOUS
<1>6. h \in Seq(Byte) /\ Len(h) = Len(a) + Len(t) /\ Len(a) \in Nat /\ Len(t) \in Nat
  <2>1. a \o t \in Seq(Byte) /\ Len(a \o t) = Len(a) + Len(t)
    BY ONLY <1>4, ConcatProperties
  <2> QED
    BY <1>4, <1>5, <2>1, LenProperties
<1>7. b = (h \o x) \o c
  <2>0. t \in Seq(Byte) /\ x \in Seq(Byte) /\ c \in Seq(Byte)
    BY <1>4
  <2>1. (t \o x) \o c = t \o (x \o c)
    <3>1. Associates(t, x, c)
      BY ONLY <2>0, ConcatAssociates
    <3> QED
      BY ONLY <3>1 DEF Associates
  <2>2. x \o c \in Seq(Byte)
    BY ONLY <1>4, ConcatProperties
  <2>3. PICK d : d = x \o c
    OBVIOUS
  <2>4. d \in Seq(Byte)
    BY <2>2, <2>3
  <2>5. (a \o t) \o d = a \o (t \o d)
    <3>1. a \in Seq(Byte) /\ t \in Seq(Byte) /\ d \in Seq(Byte)
      BY <1>4, <2>4
    <3> QED
      <4>1. Associates(a, t, d)
        BY ONLY <3>1, ConcatAssociates
      <4> QED
        BY ONLY <4>1 DEF Associates
  <2>6. h \in Seq(Byte) /\ x \in Seq(Byte) /\ c \in Seq(Byte)
    BY <1>4, <1>6
  <2>7. (h \o x) \o c = h \o (x \o c)
    <3>1. Associates(h, x, c)
      BY ONLY <2>6, ConcatAssociates
    <3> QED
      BY ONLY <3>1 DEF Associates
  <2>8. b = a \o (u \o c)
    BY <1>2 DEF Behind
  <2> QED
    BY <1>3, <1>5, <2>1, <2>3, <2>5, <2>7, <2>8
<1>8. Around(h, f, c, b)
  BY <1>1, <1>7 DEF Around
<1>9. /\ FrameAt(b, Len(h)).frame = f /\ FrameAt(b, Len(h)).end = Len(h) + Len(x)
      /\ Len(b) >= Len(h) + Len(x) /\ Len(x) \in Nat /\ Len(x) >= 2 /\ b \in Seq(Byte)
  <2>1. h \in Seq(Byte) /\ c \in Seq(Byte) /\ f \in Short /\ Around(h, f, c, b) /\ x = FrameToBytes(f)
    BY <1>1, <1>3, <1>4, <1>6, <1>8
  <2>2. /\ FrameAt(b, Len(h)).frame = f
        /\ FrameAt(b, Len(h)).end = Len(h) + Len(FrameToBytes(f))
        /\ b \in Seq(Byte) /\ Len(b) >= Len(h) + Len(FrameToBytes(f))
        /\ Len(FrameToBytes(f)) \in Nat /\ Len(FrameToBytes(f)) >= 2
    BY ONLY <2>1, FrameIsFound, Zenon
  <2> QED
    BY <2>1, <2>2
<1>10. Len(u) = Len(t) + Len(x)
  <2>1. Len(t \o x) = Len(t) + Len(x)
    BY ONLY <1>4, ConcatProperties
  <2> QED
    BY <1>3, <2>1
<1>11. EndOf(a, s, k - 1) = Len(h) /\ EndOf(a, s, k) = Len(h) + Len(x)
  BY <1>1, <1>6, <1>9, <1>10 DEF EndOf
<1>12. Len(h) < Len(b)
  BY <1>6, <1>9, LenProperties
<1> QED
  BY <1>1, <1>9, <1>11, <1>12

(* So it finds them all.                                                    *)
LEMMA AllFound ==
  ASSUME NEW s \in Seq(Short), NEW a \in Seq(Byte), NEW b, Behind(a, s, b)
  PROVE  Decodes(b, Len(a), s)
<1>1. PICK n \in Nat : n = Len(s)
  BY LenProperties
<1>2. PICK e : e = [k \in 0 .. n |-> EndOf(a, s, k)]
  OBVIOUS
<1>3. e[0] = Len(a) /\ e[n] = Len(b)
  <2>1. e[0] = EndOf(a, s, 0) /\ e[n] = EndOf(a, s, n)
    BY <1>2
  <2>2. EndOf(a, s, 0) = Len(a)
    BY UptoNone, EmptySeq, LenProperties DEF EndOf
  <2>3. PICK u, c : /\ u = Upto(s, n) /\ c \in Seq(Byte) /\ c = <<>>
                    /\ FlattenSeq(ServerFrames(s)) = u \o c
    <3>1. n \in 0 .. Len(s)
      BY <1>1
    <3> QED
      BY <1>1, <3>1, UptoRest
  <2>4. u \in Seq(Byte)
    <3>1. CASE n = 0
      BY <2>3, <3>1, UptoNone, EmptySeq
    <3>2. CASE n # 0
      <4>1. n \in 1 .. Len(s)
        BY <1>1, <3>2
      <4> QED
        BY <2>3, <4>1, UptoNext
    <3> QED
      BY <3>1, <3>2
  <2>5. b = a \o u
    BY <2>3, <2>4, ConcatEmptySeq DEF Behind
  <2>6. a \in Seq(Byte) /\ u \in Seq(Byte)
    BY <2>4
  <2>7. Len(a \o u) = Len(a) + Len(u)
    BY ONLY <2>6, ConcatProperties
  <2> QED
    BY <2>1, <2>2, <2>3, <2>5, <2>7 DEF EndOf
<1>4. ASSUME NEW k \in 1 .. n
      PROVE  /\ e[k] = FrameAt(b, e[k - 1]).end /\ FrameAt(b, e[k - 1]).frame = s[k]
             /\ e[k - 1] < Len(b)
  <2>1. e[k] = EndOf(a, s, k) /\ e[k - 1] = EndOf(a, s, k - 1)
    BY <1>2
  <2>2. k \in 1 .. Len(s)
    BY <1>1
  <2> QED
    BY <2>1, <2>2, NextFound
<1> DEFINE Is(g) == g = [k \in 0 .. n |-> IF k = 0 THEN Len(a) ELSE FrameAt(b, g[k - 1]).end]
           at == CHOOSE g : Is(g)
<1>5. Is(e)
  <2>1. \A k \in 0 .. n : e[k] = IF k = 0 THEN Len(a) ELSE FrameAt(b, e[k - 1]).end
    <3> TAKE k \in 0 .. n
    <3>1. CASE k = 0
      BY <1>3, <3>1
    <3>2. CASE k # 0
      <4>1. k \in 1 .. n
        BY <3>2
      <4> QED
        BY <1>4, <3>2, <4>1
    <3> QED
      BY <3>1, <3>2
  <2>2. e = [k \in 0 .. n |-> e[k]]
    BY <1>2
  <2>3. [k \in 0 .. n |-> e[k]]
          = [k \in 0 .. n |-> IF k = 0 THEN Len(a) ELSE FrameAt(b, e[k - 1]).end]
    BY <2>1
  <2> QED
    BY <2>2, <2>3, Zenon
<1>6. PICK g : g = at /\ Is(g)
  <2> HIDE DEF Is
  <2> QED
    BY <1>5
<1>7. \A k \in 0 .. n : g[k] = IF k = 0 THEN Len(a) ELSE FrameAt(b, g[k - 1]).end
  BY <1>6
<1> DEFINE K == {k \in 0 .. n : g[k] = e[k]}
<1>8. \A k \in 0 .. n : k \in K
  <2>1. 0 \in K
    <3>1. 0 \in 0 .. n
      OBVIOUS
    <3> QED
      BY <1>3, <1>7, <3>1
  <2>2. ASSUME NEW k \in 0 .. n - 1, k \in K PROVE k + 1 \in K
    <3>1. k + 1 \in 0 .. n /\ k + 1 \in 1 .. n /\ k + 1 # 0 /\ (k + 1) - 1 = k /\ g[k] = e[k]
      BY <2>2
    <3>2. g[k + 1] = FrameAt(b, g[k]).end
      BY <1>7, <3>1
    <3>3. e[k + 1] = FrameAt(b, e[k]).end
      BY <1>4, <3>1
    <3> QED
      BY <3>1, <3>2, <3>3
  <2> HIDE DEF K
  <2> QED
    BY <2>1, <2>2, InductionUpTo
<1>9. \A k \in 1 .. n : g[k - 1] < Len(b) /\ FrameAt(b, g[k - 1]).frame = s[k]
  <2> TAKE k \in 1 .. n
  <2>1. k - 1 \in 0 .. n
    OBVIOUS
  <2> QED
    BY <1>4, <1>8, <2>1
<1>10. g[n] = Len(b)
  <2>1. n \in 0 .. n
    OBVIOUS
  <2> QED
    BY <1>3, <1>8, <2>1
<1>11. Decodes(b, Len(a), s)
         <=> /\ \A k \in 1 .. n : at[k - 1] < Len(b) /\ FrameAt(b, at[k - 1]).frame = s[k]
             /\ at[n] = Len(b)
  BY <1>1 DEF Decodes
<1> HIDE DEF at
<1> QED
  BY <1>6, <1>9, <1>10, <1>11

(* Outside of a read, what has been written is the response and the         *)
(* answers.                                                                 *)
LEMMA RepliesHold == WebsocketInv => RepliesIntact
<1> SUFFICES ASSUME WebsocketInv, cur = "none", wire # <<>>, ~closed
             PROVE  IsPrefix(ResponseBytes, wire) /\ Decodes(wire, Len(ResponseBytes), answers)
  BY DEF RepliesIntact
<1>1. answers \in Seq(Short) /\ wire \in Seq(Byte) /\ OutputInv
  BY DEF WebsocketInv, DataInv
<1>2. PICK r, x : r = ResponseBytes /\ x = FlattenSeq(ServerFrames(answers))
  OBVIOUS
<1>3. r \in Seq(Byte) /\ x \in Seq(Byte)
  BY <1>1, <1>2, TextBytes, ServerFramesTyped
<1>4. wire \o <<>> = wire /\ <<>> \o x = x
  BY <1>1, <1>3, ConcatEmptySeq
<1>5. upgraded
  <2>1. ASSUME ~upgraded PROVE FALSE
    <3>1. answers = <<>> /\ Len(answers) = 0
      BY <1>1, <2>1, EmptySeq DEF OutputInv
    <3>2. PICK c : c = ServerFrames(answers) /\ c \in Seq(Seq(Byte)) /\ Len(c) = 0
      BY <1>1, <3>1, ServerFramesTyped
    <3>3. FlattenSeq(c) = <<>>
      BY <3>2, FlattenIs
    <3> QED
      BY <1>1, <1>2, <1>4, <2>1, <3>2, <3>3 DEF OutputInv
  <2> QED
    BY <2>1
<1>6. wire = r \o x
  BY <1>1, <1>2, <1>4, <1>5 DEF OutputInv
<1>7. IsPrefix(r, wire)
  BY <1>3, <1>6, PrefixFirst
<1>8. Decodes(wire, Len(r), answers)
  BY <1>1, <1>2, <1>3, <1>6, AllFound DEF Behind
<1> QED
  BY <1>2, <1>7, <1>8

(* For the same reads, the client finds the response and then all answers,  *)
(* whole and in order, in what the server has written (write.go, lines      *)
(* 47-84; wrap.go, lines 37-89).                                            *)
THEOREM RepliesIntactAlways ==
  ASSUME ~AnyCut
  PROVE  Spec => []RepliesIntact
BY WebsocketInvariant, RepliesHold, PTL
-----------------------------------------------------------------------------
(* What the upgrade makes of a request *)

(* The strings that occur; those that the code names are written out, since *)
(* the provers do not know that they are in STRING.                         *)
Errors ==
  {"malformed request", "bad protocol", "bad method", "rejected", "bad upgrade",
   "bad connection", "upgrade required", "bad sec key"}
Words == STRING \cup Mandatory \cup Errors \cup {NoProtocol, "none"}

(* The errors and names are words, and none of the errors is none.          *)
LEMMA WordsAre ==
  /\ NoProtocol \in Words /\ "none" \in Words /\ Mandatory \subseteq Words
  /\ Errors \subseteq Words /\ "none" \notin Errors /\ STRING \subseteq Words
<1>1. "none" \notin Errors
  BY DEF Errors
<1> QED
  BY <1>1 DEF Words

Key == "Sec-Websocket-Key"
Protocols == "Sec-Websocket-Protocol"
Extensions == "Sec-Websocket-Extensions"

(* Line is a header of that name. *)
Named(line, name) == Len(line) = 2 /\ line[1] = name

(* What the loop over the lines may know. *)
Reached ==
  [err : Words, seen : SUBSET Words, nonce : Words, protocol : Words,
   extensions : SUBSET Words]

(* What btsSelectProtocol returns: the first accepted name, if the scan gets *)
(* that far.                                                                *)
Scanned(names, accepts) ==
  /\ names # <<>>
  /\ \A j \in DOMAIN names : names[j] = Junk => \E l \in DOMAIN names : l < j /\ names[l] \in accepts

FirstOf(name, names, accepts) ==
  IF \A j \in DOMAIN names : names[j] \notin accepts THEN name = NoProtocol
  ELSE \E j \in DOMAIN names :
         /\ name = names[j] /\ name \in accepts
         /\ \A l \in DOMAIN names : names[l] \in accepts => j <= l

RightlySelected(sel, names, accepts) ==
  /\ sel.name \in Words
  /\ sel.ok <=> Scanned(names, accepts)
  /\ sel.ok => FirstOf(sel.name, names, accepts)

(* btsSelectProtocol does so.                                               *)
LEMMA ProtocolSelected ==
  ASSUME NEW names \in Seq(Words), NEW accepts \in SUBSET Words,
         NoProtocol \notin accepts, Junk \notin accepts
  PROVE  RightlySelected(btsSelectProtocol(names, accepts), names, accepts)
<1>1. PICK n \in Nat : n = Len(names) /\ DOMAIN names = 1 .. n
  BY LenProperties
<1>2. \A j \in 1 .. n : names[j] \in Words
  BY <1>1, ElementOfSeq
<1> DEFINE I == {i \in 1 .. n : names[i] = Junk \/ names[i] \in accepts}
<1>a. PICK sel : sel = btsSelectProtocol(names, accepts)
  OBVIOUS
<1>3. PICK k : k = IF I # {} THEN Min(I) ELSE 0
  OBVIOUS
<1>4. sel = [ok |-> names # <<>> /\ (k # 0 => names[k] # Junk),
             name |-> IF k = 0 \/ names[k] = Junk THEN NoProtocol ELSE names[k]]
  BY <1>1, <1>3, <1>a DEF btsSelectProtocol, SelectInSeq, NoProtocol
<1>5. I = {} => k = 0
  BY <1>3
<1>6. I # {} => k \in I /\ \A i \in I : k <= i
  <2>1. I \in SUBSET Nat
    OBVIOUS
  <2>2. ASSUME I # {} PROVE k \in I /\ \A i \in I : k <= i
    <3>1. PICK m \in I : \A i \in I : m <= i
      <4> HIDE DEF I
      <4> QED
        BY <2>1, <2>2, LeastNumber
    <3>2. k = CHOOSE x \in I : \A y \in I : x <= y
      BY <1>3, <2>2 DEF Min
    <3> HIDE DEF I
    <3> QED
      BY <3>1, <3>2
  <2> QED
    BY <2>2
<1>7. /\ sel.ok <=> names # <<>> /\ (k # 0 => names[k] # Junk)
      /\ sel.name = IF k = 0 \/ names[k] = Junk THEN NoProtocol ELSE names[k]
  <2>1. PICK ok, name : /\ ok = (names # <<>> /\ (k # 0 => names[k] # Junk))
                        /\ name = IF k = 0 \/ names[k] = Junk THEN NoProtocol ELSE names[k]
    OBVIOUS
  <2>2. sel = [ok |-> ok, name |-> name]
    BY <1>4, <2>1, Zenon
  <2>3. sel.ok = ok /\ sel.name = name
    BY ONLY <2>2
  <2> QED
    BY ONLY <2>1, <2>3
<1>8. CASE I = {}
  <2>1. k = 0 /\ \A j \in 1 .. n : names[j] # Junk /\ names[j] \notin accepts
    BY <1>5, <1>8
  <2>2. sel.name = NoProtocol /\ (sel.ok <=> names # <<>>)
    BY <1>7, <2>1
  <2>3. Scanned(names, accepts) <=> names # <<>>
    BY <1>1, <2>1 DEF Scanned
  <2>4. FirstOf(sel.name, names, accepts)
    BY <1>1, <2>1, <2>2 DEF FirstOf
  <2> QED
    BY <1>a, <2>2, <2>3, <2>4, WordsAre DEF RightlySelected
<1>9. CASE I # {}
  <2>1. k \in 1 .. n /\ (names[k] = Junk \/ names[k] \in accepts)
    BY <1>6, <1>9
  <2>2. \A j \in 1 .. n : names[j] = Junk \/ names[j] \in accepts => k <= j
    BY <1>6, <1>9
  <2> HIDE DEF I
  <2>3. names # <<>>
    BY <1>1, <2>1, EmptySeq
  <2>4. k # 0
    BY <2>1
  <2>5. CASE names[k] = Junk
    <3>1. ~sel.ok /\ sel.name = NoProtocol
      BY <1>7, <2>4, <2>5
    <3>2. ~Scanned(names, accepts)
      <4>1. \A l \in 1 .. n : l < k => names[l] \notin accepts
        BY <2>1, <2>2
      <4> QED
        BY <1>1, <2>1, <2>5, <4>1 DEF Scanned
    <3> QED
      BY <1>a, <3>1, <3>2, WordsAre DEF RightlySelected
  <2>6. CASE names[k] # Junk
    <3>1. sel.ok /\ sel.name = names[k] /\ names[k] \in accepts /\ names[k] \in Words
      BY <1>2, <1>7, <2>1, <2>3, <2>4, <2>6
    <3>2. Scanned(names, accepts)
      <4>1. \A j \in 1 .. n : names[j] = Junk => k < j
        BY <2>1, <2>2, <2>6
      <4> QED
        BY <1>1, <2>1, <2>3, <3>1, <4>1 DEF Scanned
    <3>3. FirstOf(sel.name, names, accepts)
      BY <1>1, <2>1, <2>2, <3>1 DEF FirstOf
    <3> QED
      BY <1>a, <3>1, <3>2, <3>3 DEF RightlySelected
  <2> QED
    BY <2>5, <2>6
<1> QED
  BY <1>8, <1>9

(* What one header line changes in what is known, if it passes. *)
Passes(s, line, app) ==
  /\ Len(line) = 2
  /\ Named(line, "Host") => app.host
  /\ line[1] \in Mandatory => line[2] # "bad"
  /\ Named(line, Protocols) /\ app.selects /\ s.protocol = NoProtocol =>
       Scanned(line[2], app.accepts)
  /\ Named(line, Extensions) /\ app.selects => line[2] # <<>> /\ Junk \notin Range(line[2])
  /\ line[1] \in Mandatory \/ line[1] \in Lists \/ app.header

NonceRead(s, line, app, r) == r.nonce = IF Named(line, Key) THEN line[2] ELSE s.nonce

ProtocolRead(s, line, app, r) ==
  IF Named(line, Protocols) /\ app.selects /\ s.protocol = NoProtocol
  THEN FirstOf(r.protocol, line[2], app.accepts) ELSE r.protocol = s.protocol

ExtensionsRead(s, line, app, r) ==
  r.extensions = IF Named(line, Extensions) /\ app.selects
                 THEN s.extensions \cup (Range(line[2]) \cap app.accepts) ELSE s.extensions

LineRead(s, line, app, r) ==
  /\ r \in Reached
  /\ r.err = "none" <=> Passes(s, line, app)
  /\ Passes(s, line, app) =>
       /\ r.seen = s.seen \cup {x \in Mandatory : Named(line, x)}
       /\ NonceRead(s, line, app, r)
       /\ ProtocolRead(s, line, app, r)
       /\ ExtensionsRead(s, line, app, r)

(* The lines without a value, ... *)
LEMMA LineBroken ==
  ASSUME NEW s \in Reached, NEW line, NEW app, Len(line) = 1
  PROVE  LineRead(s, line, app, ReadHeader(s, line, app))
<1>1. PICK r : r = ReadHeader(s, line, app)
  OBVIOUS
<1>2. r = [s EXCEPT !.err = "malformed request"]
  <2>1. Len(line) # 2
    OBVIOUS
  <2>2. PICK x : x = [s EXCEPT !.err = "malformed request"]
    OBVIOUS
  <2>3. r = x
    BY ONLY <1>1, <2>1, <2>2, Len(line) = 1 DEF ReadHeader
  <2> QED
    BY <2>2, <2>3
<1>3. "malformed request" \in Words /\ "malformed request" # "none"
  BY WordsAre DEF Errors
<1>4. r \in Reached /\ r.err = "malformed request"
  BY <1>2, <1>3 DEF Reached
<1>5. ~Passes(s, line, app)
  BY DEF Passes
<1> QED
  BY <1>1, <1>3, <1>4, <1>5 DEF LineRead

(* ... those that are ticked off, ... *)
SeenToo(s, name, seen) ==
  /\ seen \in Reached /\ seen.seen = s.seen \cup {name} /\ seen.err = s.err
  /\ seen.nonce = s.nonce /\ seen.protocol = s.protocol /\ seen.extensions = s.extensions

(* Ticking a header off changes nothing else.                               *)
LEMMA HeaderSeen ==
  ASSUME NEW s \in Reached, NEW name \in Words
  PROVE  SeenToo(s, name, [s EXCEPT !.seen = @ \cup {name}])
<1>1. PICK new : new = s.seen \cup {name}
  OBVIOUS
<1>2. PICK seen : seen = [s EXCEPT !.seen = new]
  OBVIOUS
<1>3. new \in SUBSET Words
  BY <1>1 DEF Reached
<1>4. /\ seen \in Reached /\ seen.seen = new /\ seen.err = s.err /\ seen.nonce = s.nonce
      /\ seen.protocol = s.protocol /\ seen.extensions = s.extensions
  BY <1>2, <1>3 DEF Reached
<1> QED
  BY <1>1, <1>2, <1>4 DEF SeenToo

(* ... the four that must be as they should, ... *)
LEMMA LineChecked ==
  ASSUME NEW s \in Reached, s.err = "none", NEW line, NEW app, IsUpgrader(app), IsLine(line),
         Len(line) = 2, line[1] \in Mandatory \ {Key}
  PROVE  LineRead(s, line, app, ReadHeader(s, line, app))
<1>1. PICK r, name, value, seen, e :
        /\ r = ReadHeader(s, line, app) /\ name = line[1] /\ value = line[2]
        /\ seen = [s EXCEPT !.seen = @ \cup {name}]
        /\ e = r.err
  OBVIOUS
<1>2. /\ name \in Mandatory /\ name # Key /\ name # Protocols /\ name # Extensions
      /\ value \in {"good", "bad"} /\ (name = "Host" => value = "good")
  BY <1>1 DEF IsLine, Mandatory, Key, Protocols, Extensions
<1>3. PICK x : /\ r = [seen EXCEPT !.err = x] /\ x \in Words
               /\ x = "none" <=> /\ name = "Host" => app.host
                                 /\ value # "bad"
  <2>1. CASE name = "Host"
    BY <1>1, <1>2, <2>1, WordsAre DEF ReadHeader, Errors
  <2>2. CASE name = "Upgrade"
    BY <1>1, <1>2, <2>2, WordsAre DEF ReadHeader, Errors
  <2>3. CASE name = "Connection"
    BY <1>1, <1>2, <2>3, WordsAre DEF ReadHeader, Errors
  <2>4. CASE name = "Sec-Websocket-Version"
    BY <1>1, <1>2, <2>4, WordsAre DEF ReadHeader, Errors
  <2> QED
    BY <1>2, <2>1, <2>2, <2>3, <2>4 DEF Mandatory, Key
<1>4. /\ r \in Reached /\ r.err = x /\ r.seen = s.seen \cup {name} /\ r.nonce = s.nonce
      /\ r.protocol = s.protocol /\ r.extensions = s.extensions
  <2>1. name \in Words
    BY <1>2, WordsAre
  <2>2. SeenToo(s, name, seen)
    BY <1>1, <2>1, HeaderSeen
  <2> QED
    BY <1>3, <2>2 DEF SeenToo, Reached
<1>5. Passes(s, line, app) <=> (name = "Host" => app.host) /\ value # "bad"
  BY <1>1, <1>2 DEF Passes, Named
<1>6. {y \in Mandatory : Named(line, y)} = {name}
  BY <1>1, <1>2 DEF Named
<1>7. ~Named(line, Key) /\ ~Named(line, Protocols) /\ ~Named(line, Extensions)
  BY <1>1, <1>2 DEF Named
<1> QED
  BY <1>1, <1>3, <1>4, <1>5, <1>6, <1>7
     DEF LineRead, NonceRead, ProtocolRead, ExtensionsRead

(* ... the key, ... *)
LEMMA LineKey ==
  ASSUME NEW s \in Reached, s.err = "none", NEW line, NEW app, IsLine(line),
         Len(line) = 2, line[1] = Key
  PROVE  LineRead(s, line, app, ReadHeader(s, line, app))
<1>1. PICK r, value, seen :
        /\ r = ReadHeader(s, line, app) /\ value = line[2]
        /\ seen = [s EXCEPT !.seen = @ \cup {Key}]
  OBVIOUS
<1>2. /\ Key \in Mandatory /\ Key # Protocols /\ Key # Extensions /\ Key # "Host"
      /\ value \in Words
  BY <1>1, WordsAre DEF IsLine, Mandatory, Key, Protocols, Extensions
<1>3. r = IF value = "bad" THEN [seen EXCEPT !.err = "bad sec key"]
          ELSE [seen EXCEPT !.nonce = value]
  BY <1>1 DEF ReadHeader, Key
<1>4. Passes(s, line, app) <=> value # "bad"
  BY <1>1, <1>2 DEF Passes, Named
<1>5. {y \in Mandatory : Named(line, y)} = {Key}
  BY <1>1, <1>2 DEF Named
<1>6. Named(line, Key) /\ ~Named(line, Protocols) /\ ~Named(line, Extensions)
  BY <1>1, <1>2 DEF Named
<1>7. Key \in Words /\ "bad sec key" \in Words /\ "bad sec key" # "none"
  BY <1>2, WordsAre DEF Errors
<1>a. SeenToo(s, Key, seen)
  BY <1>1, <1>7, HeaderSeen
<1>8. CASE value = "bad"
  <2>1. r \in Reached /\ r.err = "bad sec key"
    BY <1>3, <1>7, <1>8, <1>a DEF SeenToo, Reached
  <2> QED
    BY <1>1, <1>4, <1>7, <1>8, <2>1 DEF LineRead
<1>9. CASE value # "bad"
  <2>1. /\ r \in Reached /\ r.err = "none" /\ r.seen = s.seen \cup {Key} /\ r.nonce = value
        /\ r.protocol = s.protocol /\ r.extensions = s.extensions
    BY <1>2, <1>3, <1>9, <1>a DEF SeenToo, Reached
  <2> QED
    BY <1>1, <1>4, <1>5, <1>6, <1>9, <2>1
       DEF LineRead, NonceRead, ProtocolRead, ExtensionsRead
<1> QED
  BY <1>8, <1>9

(* ... the lists of names, ... *)
LEMMA ListTyped ==
  ASSUME NEW line, IsLine(line), Len(line) = 2, line[1] \in Lists
  PROVE  line[2] \in Seq(Words)
<1>1. line[2] \in Seq(STRING)
  BY DEF IsLine
<1>2. PICK names : names = line[2]
  OBVIOUS
<1>3. \A S, T : S \subseteq T /\ names \in Seq(S) => names \in Seq(T)
  OBVIOUS
<1> QED
  BY <1>1, <1>2, <1>3, WordsAre

(* What the assumption says of the names an Upgrader accepts.               *)
LEMMA AcceptsTyped ==
  ASSUME NEW app, IsUpgrader(app)
  PROVE  /\ app.accepts \in SUBSET Words
         /\ NoProtocol \notin app.accepts /\ Junk \notin app.accepts
BY WordsAre DEF IsUpgrader

(* ... of which the first is about one protocol, ...                        *)
LEMMA LineProtocol ==
  ASSUME NEW s \in Reached, s.err = "none", NEW line, NEW app, IsUpgrader(app), IsLine(line),
         Len(line) = 2, line[1] = Protocols
  PROVE  LineRead(s, line, app, ReadHeader(s, line, app))
<1>1. PICK r, value, sel :
        /\ r = ReadHeader(s, line, app) /\ value = line[2]
        /\ sel = btsSelectProtocol(value, app.accepts)
  OBVIOUS
<1>2. /\ Protocols \notin Mandatory /\ Protocols # Key /\ Protocols # Extensions
      /\ Protocols # "Host" /\ Protocols \in Lists
  BY DEF Mandatory, Lists, Key, Protocols, Extensions
<1>3. RightlySelected(sel, value, app.accepts)
  BY <1>1, <1>2, ListTyped, AcceptsTyped, ProtocolSelected
<1>4. r = IF s.protocol # NoProtocol \/ ~app.selects THEN s
          ELSE [s EXCEPT !.protocol = sel.name,
                         !.err = IF ~sel.ok THEN "malformed request" ELSE "none"]
  BY <1>1 DEF ReadHeader, Protocols
<1>5. {y \in Mandatory : Named(line, y)} = {}
  BY <1>2 DEF Named
<1>6. Named(line, Protocols) /\ ~Named(line, Key) /\ ~Named(line, Extensions)
      /\ ~Named(line, "Host") /\ line[1] \notin Mandatory /\ line[1] \in Lists
  BY <1>2 DEF Named
<1>7. CASE s.protocol # NoProtocol \/ ~app.selects
  <2>1. r = s
    BY <1>4, <1>7
  <2>2. Passes(s, line, app)
    BY <1>6, <1>7 DEF Passes
  <2> QED
    BY <1>1, <1>5, <1>6, <1>7, <2>1, <2>2
       DEF LineRead, NonceRead, ProtocolRead, ExtensionsRead
<1>8. CASE ~(s.protocol # NoProtocol \/ ~app.selects)
  <2>1. PICK e : e = IF ~sel.ok THEN "malformed request" ELSE "none"
    OBVIOUS
  <2>2. e \in Words /\ (e = "none" <=> sel.ok)
    BY <2>1, WordsAre DEF Errors
  <2>3. r = [s EXCEPT !.protocol = sel.name, !.err = e]
    BY <1>4, <1>8, <2>1
  <2>4. sel.name \in Words
    BY <1>3 DEF RightlySelected
  <2>5. /\ r \in Reached /\ r.err = e /\ r.seen = s.seen /\ r.nonce = s.nonce
        /\ r.protocol = sel.name /\ r.extensions = s.extensions
    BY <2>2, <2>3, <2>4 DEF Reached
  <2>6. sel.ok <=> Scanned(value, app.accepts)
    BY <1>3 DEF RightlySelected
  <2>7. Passes(s, line, app) <=> sel.ok
    BY <1>1, <1>6, <1>8, <2>6 DEF Passes
  <2>8. sel.ok => FirstOf(r.protocol, value, app.accepts)
    BY <1>3, <2>5 DEF RightlySelected
  <2> QED
    BY <1>1, <1>5, <1>6, <1>8, <2>2, <2>5, <2>7, <2>8
       DEF LineRead, NonceRead, ProtocolRead, ExtensionsRead
<1> QED
  BY <1>7, <1>8

(* ... and the second about any number of extensions, ...                   *)
LEMMA LineExtensions ==
  ASSUME NEW s \in Reached, s.err = "none", NEW line, NEW app, IsUpgrader(app), IsLine(line),
         Len(line) = 2, line[1] = Extensions
  PROVE  LineRead(s, line, app, ReadHeader(s, line, app))
<1>1. PICK r, value, fine, names :
        /\ r = ReadHeader(s, line, app) /\ value = line[2]
        /\ fine = (value # <<>> /\ Junk \notin Range(value))
        /\ names = s.extensions \cup (Range(value) \cap app.accepts)
  OBVIOUS
<1>2. /\ Extensions \notin Mandatory /\ Extensions # Key /\ Extensions # Protocols
      /\ Extensions # "Host" /\ Extensions \in Lists
  BY DEF Mandatory, Lists, Key, Protocols, Extensions
<1>3. names \in SUBSET Words
  BY <1>1, AcceptsTyped DEF Reached
<1>4. r = IF ~app.selects THEN s
          ELSE [s EXCEPT !.extensions = names,
                         !.err = IF ~fine THEN "malformed request" ELSE "none"]
  BY <1>1 DEF ReadHeader, Extensions, btsSelectExtensions
<1>5. {y \in Mandatory : Named(line, y)} = {}
  BY <1>2 DEF Named
<1>6. Named(line, Extensions) /\ ~Named(line, Key) /\ ~Named(line, Protocols)
      /\ ~Named(line, "Host") /\ line[1] \notin Mandatory /\ line[1] \in Lists
  BY <1>2 DEF Named
<1>7. CASE ~app.selects
  <2>1. r = s
    BY <1>4, <1>7
  <2>2. Passes(s, line, app)
    BY <1>6, <1>7 DEF Passes
  <2> QED
    BY <1>1, <1>5, <1>6, <1>7, <2>1, <2>2
       DEF LineRead, NonceRead, ProtocolRead, ExtensionsRead
<1>8. CASE app.selects
  <2>1. PICK e : e = IF ~fine THEN "malformed request" ELSE "none"
    OBVIOUS
  <2>2. e \in Words /\ (e = "none" <=> fine)
    BY <2>1, WordsAre DEF Errors
  <2>3. r = [s EXCEPT !.extensions = names, !.err = e]
    BY <1>4, <1>8, <2>1
  <2>4. /\ r \in Reached /\ r.err = e /\ r.seen = s.seen /\ r.nonce = s.nonce
        /\ r.protocol = s.protocol /\ r.extensions = names
    BY <1>3, <2>2, <2>3 DEF Reached
  <2>5. Passes(s, line, app) <=> fine
    BY <1>1, <1>6, <1>8 DEF Passes
  <2> QED
    BY <1>1, <1>5, <1>6, <1>8, <2>2, <2>4, <2>5
       DEF LineRead, NonceRead, ProtocolRead, ExtensionsRead
<1> QED
  BY <1>7, <1>8

(* ... and the others. *)
LEMMA LineOther ==
  ASSUME NEW s \in Reached, s.err = "none", NEW line, NEW app, IsUpgrader(app),
         Len(line) = 2, line[1] \notin Mandatory, line[1] \notin Lists
  PROVE  LineRead(s, line, app, ReadHeader(s, line, app))
<1>1. PICK r, e : /\ r = ReadHeader(s, line, app)
                  /\ e = IF ~app.header THEN "rejected" ELSE "none"
  OBVIOUS
<1>2. /\ line[1] # "Host" /\ line[1] # "Upgrade" /\ line[1] # "Connection"
      /\ line[1] # "Sec-Websocket-Version" /\ line[1] # "Sec-Websocket-Key"
      /\ line[1] # "Sec-Websocket-Protocol" /\ line[1] # "Sec-Websocket-Extensions"
  BY DEF Mandatory, Lists
<1>3. r = [s EXCEPT !.err = e]
  BY <1>1, <1>2 DEF ReadHeader
<1>4. e \in Words /\ (e = "none" <=> app.header)
  BY <1>1, WordsAre DEF Errors
<1>5. /\ r \in Reached /\ r.err = e /\ r.seen = s.seen /\ r.nonce = s.nonce
      /\ r.protocol = s.protocol /\ r.extensions = s.extensions
  BY <1>3, <1>4 DEF Reached
<1>6. {y \in Mandatory : Named(line, y)} = {}
  BY DEF Named
<1>7. ~Named(line, Key) /\ ~Named(line, Protocols) /\ ~Named(line, Extensions)
      /\ ~Named(line, "Host")
  BY <1>2 DEF Named, Key, Protocols, Extensions
<1>8. Passes(s, line, app) <=> app.header
  BY <1>7 DEF Passes
<1> QED
  BY <1>1, <1>4, <1>5, <1>6, <1>7, <1>8
     DEF LineRead, NonceRead, ProtocolRead, ExtensionsRead

(* Whatever the line, ReadHeader changes what is known as said.             *)
LEMMA EveryLineRead ==
  ASSUME NEW s \in Reached, s.err = "none", NEW line, NEW app, IsUpgrader(app), IsLine(line)
  PROVE  LineRead(s, line, app, ReadHeader(s, line, app))
<1>1. CASE Len(line) = 1
  BY <1>1, LineBroken
<1>2. CASE Len(line) = 2 /\ line[1] \in Mandatory /\ line[1] # Key
  BY <1>2, LineChecked
<1>3. CASE Len(line) = 2 /\ line[1] = Key
  BY <1>3, LineKey
<1>4. CASE Len(line) = 2 /\ line[1] = Protocols
  BY <1>4, LineProtocol
<1>5. CASE Len(line) = 2 /\ line[1] = Extensions
  BY <1>5, LineExtensions
<1>6. CASE Len(line) = 2 /\ line[1] \notin Mandatory /\ line[1] \notin Lists
  BY <1>6, LineOther
<1>7. Len(line) \in {1, 2} /\ Lists = {Protocols, Extensions}
  BY DEF IsLine, Lists, Protocols, Extensions
<1> QED
  BY <1>1, <1>2, <1>3, <1>4, <1>5, <1>6, <1>7

(* The characters that asciiToInt takes for digits: the first is 0.         *)
Looks(c) == c \in 48 .. 63

LEMMA CharacterRead ==
  ASSUME NEW c \in Byte
  PROVE  /\ c \div 16 = 3 <=> Looks(c)
         /\ c % 16 \in Nat
         /\ Looks(c) => (c % 16 = 0 <=> c = 48) /\ (c % 16 = 1 <=> c = 49)
<1>1. c \in Nat /\ c <= 255
  BY ByteIs
<1> QED
  BY ONLY <1>1 DEF Looks

(* The function that asciiToInt defines by recursion.                       *)
Valued(s, f) ==
  /\ f[0] = 0 /\ \A k \in 1 .. Len(s) : f[k] = 10 * f[k - 1] + (s[k] % 16)
  /\ asciiToInt(s) = IF s = <<>> \/ \E i \in 1 .. Len(s) : ~Looks(s[i]) THEN NotANumber
                     ELSE f[Len(s)]

LEMMA ValueExists ==
  ASSUME NEW s \in Seq(Byte)
  PROVE  \E f : Valued(s, f)
<1>1. PICK n \in Nat : n = Len(s) /\ DOMAIN s = 1 .. n
  BY LenProperties
<1>2. \A k \in 1 .. n : s[k] \in Byte
  BY <1>1, ElementOfSeq
<1>3. \A k \in 1 .. n : s[k] % 16 \in Nat
  BY <1>2, CharacterRead
<1> DEFINE step == [p \in (1 .. n) \X Nat |-> 10 * p[2] + (s[p[1]] % 16)]
<1>4. step \in [(1 .. n) \X Nat -> Nat]
  <2>1. \A p \in (1 .. n) \X Nat : 10 * p[2] + (s[p[1]] % 16) \in Nat
    BY <1>3
  <2> QED
    BY <2>1
<1>5. \A k \in 1 .. n, x \in Nat : step[<<k, x>>] = 10 * x + (s[k] % 16)
  OBVIOUS
<1> HIDE DEF step
<1>a. PICK first \in Nat : first = 0
  OBVIOUS
<1>6. PICK f \in [0 .. n -> Nat] : Recurs(f, first, n, step)
  BY ONLY <1>4, RecursionExists, n \in Nat, first \in Nat
<1> DEFINE Is(g) == g = [k \in 0 .. Len(s) |->
                           IF k = 0 THEN 0 ELSE 10 * g[k - 1] + (s[k] % 16)]
           at == CHOOSE g : Is(g)
<1>7. Is(f)
  <2>1. \A k \in 0 .. n : f[k] = IF k = 0 THEN 0 ELSE 10 * f[k - 1] + (s[k] % 16)
    <3> TAKE k \in 0 .. n
    <3>1. CASE k = 0
      BY <1>a, <1>6, <3>1 DEF Recurs
    <3>2. CASE k # 0
      <4>1. k \in 1 .. n /\ f[k - 1] \in Nat
        BY <3>2
      <4> QED
        BY <1>5, <1>6, <3>2, <4>1 DEF Recurs
    <3> QED
      BY <3>1, <3>2
  <2>2. f = [k \in 0 .. n |-> f[k]]
    OBVIOUS
  <2>3. [k \in 0 .. n |-> f[k]]
          = [k \in 0 .. n |-> IF k = 0 THEN 0 ELSE 10 * f[k - 1] + (s[k] % 16)]
    BY <2>1
  <2> QED
    BY <1>1, <2>2, <2>3, Zenon
<1>8. PICK g : g = at /\ Is(g)
  <2> HIDE DEF Is
  <2> QED
    BY <1>7
<1>9. g[0] = 0 /\ \A k \in 1 .. n : g[k] = 10 * g[k - 1] + (s[k] % 16)
  <2>1. \A k \in 0 .. n : g[k] = IF k = 0 THEN 0 ELSE 10 * g[k - 1] + (s[k] % 16)
    BY <1>1, <1>8
  <2>2. 0 \in 0 .. n /\ \A k \in 1 .. n : k \in 0 .. n /\ k # 0
    OBVIOUS
  <2> QED
    BY <2>1, <2>2
<1>10. asciiToInt(s) = IF s = <<>> \/ \E i \in DOMAIN s : s[i] \div 16 # 3 THEN NotANumber
                       ELSE at[Len(s)]
  BY DEF asciiToInt
<1> HIDE DEF at
<1>11. (\E i \in DOMAIN s : s[i] \div 16 # 3) <=> \E i \in 1 .. Len(s) : ~Looks(s[i])
  BY <1>1, <1>2, CharacterRead
<1> QED
  BY <1>1, <1>8, <1>9, <1>10, <1>11 DEF Valued

(* A value is 0 if all the digits are.                                      *)
LEMMA ZeroValue ==
  ASSUME NEW s \in Seq(Byte), \A i \in 1 .. Len(s) : Looks(s[i]), NEW f, Valued(s, f)
  PROVE  \A k \in 0 .. Len(s) : f[k] \in Nat /\ (f[k] = 0 <=> \A i \in 1 .. k : s[i] = 48)
<1>1. PICK n \in Nat : n = Len(s)
  BY LenProperties
<1>2. \A k \in 1 .. n : s[k] % 16 \in Nat /\ (s[k] % 16 = 0 <=> s[k] = 48)
  BY <1>1, ElementOfSeq, CharacterRead
<1> DEFINE K == {k \in 0 .. n : f[k] \in Nat /\ (f[k] = 0 <=> \A i \in 1 .. k : s[i] = 48)}
<1>3. 0 \in K
  BY DEF Valued
<1>4. ASSUME NEW k \in 0 .. n - 1, k \in K PROVE k + 1 \in K
  <2>1. /\ k + 1 \in 1 .. n /\ k + 1 \in 0 .. n /\ (k + 1) - 1 = k /\ f[k] \in Nat
        /\ f[k] = 0 <=> \A i \in 1 .. k : s[i] = 48
    BY <1>4
  <2>2. PICK x \in Nat, d \in Nat : x = f[k] /\ d = s[k + 1] % 16
    BY <1>2, <2>1
  <2>3. f[k + 1] = 10 * x + d
    BY <1>1, <2>1, <2>2 DEF Valued
  <2>4. f[k + 1] \in Nat /\ (f[k + 1] = 0 <=> x = 0 /\ d = 0)
    <3>1. 10 * x + d \in Nat /\ (10 * x + d = 0 <=> x = 0 /\ d = 0)
      BY ONLY x \in Nat, d \in Nat
    <3> QED
      BY ONLY <2>3, <3>1
  <2>5. d = 0 <=> s[k + 1] = 48
    BY <1>2, <2>1, <2>2
  <2>6. \A i : i \in 1 .. k + 1 <=> i \in 1 .. k \/ i = k + 1
    OBVIOUS
  <2> QED
    BY <2>1, <2>2, <2>4, <2>5, <2>6
<1> HIDE DEF K
<1>5. \A k \in 0 .. n : k \in K
  BY <1>3, <1>4, InductionUpTo
<1> QED
  BY <1>1, <1>5 DEF K

(* What asciiToInt makes of the characters from place m to k of a text, as  *)
(* far as the checks of the version can tell.                               *)
LEMMA NumberRead ==
  ASSUME NEW text \in Seq(Byte), NEW m \in 1 .. Len(text) + 1, NEW k \in m - 1 .. Len(text),
         NEW x, x = asciiToInt(SubSeq(text, m, k))
  PROVE  /\ x # NotANumber <=> m <= k /\ \A i \in m .. k : Looks(text[i])
         /\ x # NotANumber =>
              /\ x \in Nat /\ (x = 0 <=> \A i \in m .. k : text[i] = 48)
              /\ x = 1 <=> text[k] = 49 /\ \A i \in m .. k - 1 : text[i] = 48
<1>1. Len(text) \in Nat
  BY LenProperties
<1>2. PICK n \in Nat : n = k - m + 1 /\ m \in Nat /\ k \in Nat
  BY <1>1
<1>3. PICK s \in Seq(Byte) : /\ s = SubSeq(text, m, k) /\ Len(s) = n
                             /\ \A i \in 1 .. n : s[i] = text[m + i - 1]
  <2>1. /\ SubSeq(text, m, k) \in Seq(Byte) /\ Len(SubSeq(text, m, k)) = k - m + 1
        /\ \A i \in 1 .. k - m + 1 : SubSeq(text, m, k)[i] = text[m + i - 1]
    BY PartElements
  <2> QED
    BY <1>2, <2>1
<1>4. \A i \in m .. k : i - m + 1 \in 1 .. n /\ text[i] = s[i - m + 1]
  <2>1. \A i \in m .. k : i - m + 1 \in 1 .. n /\ m + (i - m + 1) - 1 = i
    BY <1>2
  <2> QED
    BY <1>3, <2>1
<1>5. \A i \in 1 .. n : m + i - 1 \in m .. k
  BY <1>2
<1>6. s = <<>> <=> ~(m <= k)
  BY <1>2, <1>3, EmptySeq
<1>7. (\A i \in 1 .. n : Looks(s[i])) <=> \A i \in m .. k : Looks(text[i])
  BY <1>3, <1>4, <1>5
<1>8. PICK f : Valued(s, f)
  BY ValueExists
<1>9. CASE s = <<>> \/ ~\A i \in 1 .. n : Looks(s[i])
  <2>1. x = NotANumber
    BY <1>3, <1>8, <1>9 DEF Valued
  <2> QED
    BY <1>6, <1>7, <1>9, <2>1
<1>10. CASE s # <<>> /\ \A i \in 1 .. n : Looks(s[i])
  <2>1. x = f[n]
    BY <1>3, <1>8, <1>10 DEF Valued
  <2>2. n \in 1 .. n /\ n \in 0 .. n /\ n - 1 \in 0 .. n
    BY <1>2, <1>6, <1>10
  <2>3. \A h \in 0 .. n : f[h] \in Nat /\ (f[h] = 0 <=> \A i \in 1 .. h : s[i] = 48)
    BY <1>3, <1>8, <1>10, ZeroValue
  <2>4. x \in Nat /\ (x = 0 <=> \A i \in 1 .. n : s[i] = 48)
    BY <2>1, <2>2, <2>3
  <2>5. (\A i \in 1 .. n : s[i] = 48) <=> \A i \in m .. k : text[i] = 48
    BY <1>3, <1>4, <1>5
  <2>6. PICK y \in Nat, d \in Nat : y = f[n - 1] /\ d = s[n] % 16 /\ (d = 1 <=> s[n] = 49)
    <3>1. s[n] \in Byte /\ Looks(s[n])
      BY <1>3, <1>10, <2>2, ElementOfSeq
    <3> QED
      BY <2>2, <2>3, <3>1, CharacterRead
  <2>7. x = 10 * y + d
    BY <1>3, <1>8, <2>1, <2>2, <2>6 DEF Valued
  <2>8. x = 1 <=> y = 0 /\ d = 1
    BY ONLY <2>7, y \in Nat, d \in Nat
  <2>9. s[n] = text[k]
    BY <1>2, <1>3, <2>2
  <2>10. y = 0 <=> \A i \in m .. k - 1 : text[i] = 48
    <3>1. y = 0 <=> \A i \in 1 .. n - 1 : s[i] = 48
      BY <2>2, <2>3, <2>6
    <3>2. \A i \in m .. k - 1 : i \in m .. k /\ i - m + 1 \in 1 .. n - 1
      BY <1>2
    <3>3. \A i \in 1 .. n - 1 : i \in 1 .. n /\ m + i - 1 \in m .. k - 1
      BY <1>2
    <3> QED
      BY <1>3, <1>4, <3>1, <3>2, <3>3
  <2>11. x # NotANumber
    BY <2>4 DEF NotANumber
  <2> QED
    BY <1>6, <1>7, <1>10, <2>4, <2>5, <2>6, <2>8, <2>9, <2>10, <2>11
<1> QED
  BY <1>9, <1>10

(* The dot that httpParseVersion finds is the first.                        *)
LEMMA DotFound ==
  ASSUME NEW text \in Seq(Byte), NEW dot, dot = SelectInSeq(text, LAMBDA c : c = Dot)
  PROVE  /\ dot = 0 \/ (dot \in 1 .. Len(text) /\ text[dot] = Dot)
         /\ \A i \in 1 .. Len(text) : text[i] = Dot => dot # 0 /\ dot <= i
<1> DEFINE I == {i \in 1 .. Len(text) : text[i] = Dot}
<1>1. dot = IF I # {} THEN Min(I) ELSE 0
  BY DEF SelectInSeq
<1>2. I \in SUBSET Nat
  BY LenProperties
<1>3. ASSUME I # {} PROVE dot \in I /\ \A i \in I : dot <= i
  <2> HIDE DEF I
  <2>1. PICK m \in I : \A i \in I : m <= i
    BY <1>2, <1>3, LeastNumber
  <2>2. dot = CHOOSE x \in I : \A y \in I : x <= y
    BY <1>1, <1>3 DEF Min
  <2> QED
    BY <2>1, <2>2
<1>4. \A i \in 1 .. Len(text) : text[i] = Dot <=> i \in I
  OBVIOUS
<1>5. I # {} => dot # 0
  <2>1. 0 \notin I
    OBVIOUS
  <2> HIDE DEF I
  <2> QED
    BY <1>3, <2>1
<1> QED
  BY <1>1, <1>3, <1>4, <1>5

VersionPasses(proto) ==
  LET v == httpParseVersion(proto) IN v # <<>> /\ v[1] = 1 /\ ~(v[2] < 1)

(* The versions that pass are those the requirement names, but for the      *)
(* characters taken for digits.                                             *)
LEMMA VersionRead ==
  ASSUME NEW proto, IsProto(proto)
  PROVE  VersionPasses(proto) <=> HasVersion(proto, 48 .. 63)
<1>1. PICK text \in Seq(Byte), n \in Nat : text = proto.rest /\ n = Len(text) /\ DOMAIN text = 1 .. n
  BY LenProperties DEF IsProto, Byte
<1>2. PICK dot : dot = SelectInSeq(text, LAMBDA c : c = Dot)
  OBVIOUS
<1>3. /\ dot = 0 \/ (dot \in 1 .. n /\ text[dot] = Dot)
      /\ \A i \in 1 .. n : text[i] = Dot => dot # 0 /\ dot <= i
  BY <1>1, <1>2, DotFound
<1>4. PICK major, minor : /\ major = asciiToInt(SubSeq(text, 1, dot - 1))
                          /\ minor = asciiToInt(SubSeq(text, dot + 1, n))
  OBVIOUS
<1>5. httpParseVersion(proto) = IF ~proto.prefix \/ n < 3 \/ dot = 0
                                   \/ NotANumber \in {major, minor}
                                THEN <<>> ELSE <<major, minor>>
  BY <1>1, <1>2, <1>4 DEF httpParseVersion
<1>6. VersionPasses(proto)
        <=> /\ proto.prefix /\ ~(n < 3) /\ dot # 0
            /\ major # NotANumber /\ minor # NotANumber /\ major = 1 /\ ~(minor < 1)
  <2>1. <<major, minor>> # <<>> /\ <<major, minor>>[1] = major /\ <<major, minor>>[2] = minor
    OBVIOUS
  <2> QED
    BY <1>5, <2>1, IsProto(proto) DEF VersionPasses, IsProto
<1>7. dot # 0 =>
        /\ major # NotANumber <=> 1 <= dot - 1 /\ \A i \in 1 .. dot - 1 : Looks(text[i])
        /\ major # NotANumber =>
             (major = 1 <=> text[dot - 1] = 49 /\ \A i \in 1 .. dot - 2 : text[i] = 48)
  <2>1. ASSUME dot # 0
        PROVE  /\ 1 \in 1 .. Len(text) + 1 /\ dot - 1 \in 1 - 1 .. Len(text)
               /\ (dot - 1) - 1 = dot - 2
    BY <1>1, <1>3, <2>1
  <2> QED
    BY <1>4, <2>1, NumberRead
<1>8. dot # 0 =>
        /\ minor # NotANumber <=> dot + 1 <= n /\ \A i \in dot + 1 .. n : Looks(text[i])
        /\ minor # NotANumber =>
             minor \in Nat /\ (minor = 0 <=> \A i \in dot + 1 .. n : text[i] = 48)
  <2>1. ASSUME dot # 0
        PROVE  dot + 1 \in 1 .. Len(text) + 1 /\ n \in (dot + 1) - 1 .. Len(text)
    BY <1>1, <1>3, <2>1
  <2> QED
    BY <1>4, <2>1, NumberRead
<1>9. HasVersion(proto, 48 .. 63)
        <=> /\ proto.prefix
            /\ \E d \in 1 .. n :
                 /\ text[d] = Dot /\ d > 1 /\ text[d - 1] = 49
                 /\ \A i \in 1 .. d - 2 : text[i] = 48
                 /\ \A i \in d + 1 .. n : Looks(text[i])
                 /\ \E i \in d + 1 .. n : text[i] # 48
  BY <1>1 DEF HasVersion, Looks
<1>10. ASSUME VersionPasses(proto) PROVE HasVersion(proto, 48 .. 63)
  <2>1. /\ proto.prefix /\ dot # 0 /\ major # NotANumber /\ minor # NotANumber
        /\ major = 1 /\ ~(minor < 1)
    BY <1>6, <1>10
  <2>2. dot \in 1 .. n /\ text[dot] = Dot
    BY <1>3, <2>1
  <2>3. /\ dot > 1 /\ text[dot - 1] = 49 /\ \A i \in 1 .. dot - 2 : text[i] = 48
    BY <1>7, <2>1, <2>2
  <2>4. minor # 0
    BY <1>8, <2>1
  <2>5. (\A i \in dot + 1 .. n : Looks(text[i])) /\ \E i \in dot + 1 .. n : text[i] # 48
    BY <1>8, <2>1, <2>4
  <2> QED
    BY <1>9, <2>1, <2>2, <2>3, <2>5
<1>11. ASSUME HasVersion(proto, 48 .. 63) PROVE VersionPasses(proto)
  <2>1. PICK d \in 1 .. n :
          /\ text[d] = Dot /\ d > 1 /\ text[d - 1] = 49
          /\ \A i \in 1 .. d - 2 : text[i] = 48
          /\ \A i \in d + 1 .. n : Looks(text[i])
          /\ \E i \in d + 1 .. n : text[i] # 48
    BY <1>9, <1>11
  <2>2. dot = d
    <3>1. dot # 0 /\ dot <= d /\ dot \in 1 .. n /\ text[dot] = Dot
      BY <1>3, <2>1
    <3>2. \A i \in 1 .. d - 1 : text[i] # Dot
      <4>1. \A i \in 1 .. d - 1 : i \in 1 .. d - 2 \/ i = d - 1
        OBVIOUS
      <4> QED
        BY <2>1, <4>1 DEF Dot
    <3>3. ~(dot < d)
      <4>1. dot < d => dot \in 1 .. d - 1
        BY <3>1
      <4> QED
        BY <3>1, <3>2, <4>1
    <3> QED
      BY <3>1, <3>3
  <2>3. dot # 0 /\ 1 <= dot - 1 /\ dot + 1 <= n /\ ~(n < 3)
    BY <2>1, <2>2
  <2>4. \A i \in 1 .. dot - 1 : Looks(text[i])
    <3>1. \A i \in 1 .. dot - 1 : i \in 1 .. dot - 2 \/ i = dot - 1
      BY <2>2
    <3>2. \A i \in 1 .. dot - 1 : text[i] = 48 \/ text[i] = 49
      BY <2>1, <2>2, <3>1
    <3> QED
      BY <3>2 DEF Looks
  <2>5. major # NotANumber /\ major = 1
    BY <1>7, <2>1, <2>2, <2>3, <2>4
  <2>6. minor # NotANumber /\ minor \in Nat /\ minor # 0
    BY <1>8, <2>1, <2>2, <2>3
  <2> QED
    BY <1>6, <1>9, <1>11, <2>3, <2>5, <2>6
<1> QED
  BY <1>10, <1>11

(* A version of digits passes; one that passes is of digits or misread.     *)
LEMMA VersionExact ==
  ASSUME NEW proto, IsProto(proto)
  PROVE  /\ IsHttp11(proto) => VersionPasses(proto)
         /\ VersionPasses(proto) => IsHttp11(proto) \/ Misread(proto)
<1>1. PICK text : text = proto.rest
  OBVIOUS
<1>2. \A c : c \in 48 .. 63 <=> c \in 48 .. 57 \/ c \in 58 .. 63
  OBVIOUS
<1>3. \A dot \in DOMAIN text : \A i \in dot + 1 .. Len(text) : i \in DOMAIN text
  BY <1>1, LenProperties DEF IsProto
<1>4. HasVersion(proto, 48 .. 57) => HasVersion(proto, 48 .. 63)
  BY <1>2 DEF HasVersion
<1>5. HasVersion(proto, 48 .. 63) => HasVersion(proto, 48 .. 57) \/ Misread(proto)
  BY <1>1, <1>2, <1>3 DEF HasVersion, Misread
<1> QED
  BY <1>4, <1>5, VersionRead DEF IsHttp11

(* The request line lets the request pass, ... *)
LinePasses(req, app) == VersionPasses(req.proto) /\ req.method = "GET" /\ app.request

(* The error of the request line says so.                                   *)
LEMMA RequestLineRead ==
  ASSUME NEW req, NEW app, IsUpgrader(app)
  PROVE  /\ RequestLineError(req, app) \in Words
         /\ RequestLineError(req, app) = "none" <=> LinePasses(req, app)
         /\ NoHeader(RequestLineError(req, app)) \in Reached
<1>1. PICK e : e = RequestLineError(req, app)
  OBVIOUS
<1>2. e \in Errors \cup {"none"}
  BY <1>1 DEF RequestLineError, Errors
<1>3. e = "none" <=> LinePasses(req, app)
  BY <1>1 DEF RequestLineError, LinePasses, VersionPasses
<1>4. e \in Words
  BY <1>2, WordsAre
<1>5. NoHeader(e) \in Reached
  BY <1>4, WordsAre DEF NoHeader, Reached
<1> QED
  BY <1>1, <1>3, <1>4, <1>5

(* ... and the loop reads the lines up to the first that does not. *)
AfterLine(s, line, app) == IF s.err # "none" THEN s ELSE ReadHeader(s, line, app)

Loop(req, app, f) ==
  /\ f[0] = NoHeader(RequestLineError(req, app))
  /\ \A k \in 0 .. Len(req.lines) : f[k] \in Reached
  /\ \A k \in 1 .. Len(req.lines) : f[k] = AfterLine(f[k - 1], req.lines[k], app)
  /\ ReadHeaders(req, app) = f[Len(req.lines)]

(* The function that ReadHeaders defines by recursion.                      *)
LEMMA LoopExists ==
  ASSUME NEW req, NEW app, IsRequest(req), IsUpgrader(app)
  PROVE  \E f : Loop(req, app, f)
<1>1. PICK n \in Nat : n = Len(req.lines)
  BY DEF IsRequest
<1>2. PICK first \in Reached : first = NoHeader(RequestLineError(req, app))
  BY RequestLineRead
<1>3. ASSUME NEW k \in 1 .. n, NEW s \in Reached
      PROVE  AfterLine(s, req.lines[k], app) \in Reached
  <2>1. IsLine(req.lines[k])
    BY <1>1 DEF IsRequest
  <2>2. CASE s.err # "none"
    BY <2>2 DEF AfterLine
  <2>3. CASE s.err = "none"
    BY <2>1, <2>3, EveryLineRead DEF AfterLine, LineRead
  <2> QED
    BY <2>2, <2>3
<1> DEFINE step == [p \in (1 .. n) \X Reached |-> AfterLine(p[2], req.lines[p[1]], app)]
<1>4. step \in [(1 .. n) \X Reached -> Reached]
  <2>1. \A p \in (1 .. n) \X Reached : AfterLine(p[2], req.lines[p[1]], app) \in Reached
    BY <1>3
  <2> QED
    BY <2>1
<1>5. \A k \in 1 .. n, s \in Reached : step[<<k, s>>] = AfterLine(s, req.lines[k], app)
  OBVIOUS
<1> HIDE DEF step
<1>6. PICK f \in [0 .. n -> Reached] : Recurs(f, first, n, step)
  BY ONLY <1>4, RecursionExists, n \in Nat, first \in Reached
<1> DEFINE Is(g) == g = [k \in 0 .. n |->
                           IF k = 0 THEN NoHeader(RequestLineError(req, app))
                           ELSE LET before == g[k - 1]
                                IN IF before.err # "none" THEN before
                                   ELSE ReadHeader(before, req.lines[k], app)]
           at == CHOOSE g : Is(g)
<1>7. Is(f)
  <2>1. \A k \in 0 .. n : f[k] = IF k = 0 THEN NoHeader(RequestLineError(req, app))
                                 ELSE AfterLine(f[k - 1], req.lines[k], app)
    <3> TAKE k \in 0 .. n
    <3>1. CASE k = 0
      BY <1>2, <1>6, <3>1 DEF Recurs
    <3>2. CASE k # 0
      <4>1. k \in 1 .. n /\ f[k - 1] \in Reached
        BY <3>2
      <4> QED
        BY <1>5, <1>6, <3>2, <4>1 DEF Recurs
    <3> QED
      BY <3>1, <3>2
  <2>2. f = [k \in 0 .. n |-> f[k]]
    OBVIOUS
  <2>3. [k \in 0 .. n |-> f[k]]
          = [k \in 0 .. n |-> IF k = 0 THEN NoHeader(RequestLineError(req, app))
                              ELSE LET before == f[k - 1]
                                   IN IF before.err # "none" THEN before
                                      ELSE ReadHeader(before, req.lines[k], app)]
    BY <2>1 DEF AfterLine
  <2> QED
    BY <2>2, <2>3, Zenon
<1>8. PICK g : g = at /\ Is(g)
  <2> HIDE DEF Is
  <2> QED
    BY <1>7
<1>9. /\ g[0] = first
      /\ \A k \in 1 .. n : g[k] = AfterLine(g[k - 1], req.lines[k], app)
  <2>1. \A k \in 0 .. n : g[k] = IF k = 0 THEN NoHeader(RequestLineError(req, app))
                                 ELSE LET before == g[k - 1]
                                      IN IF before.err # "none" THEN before
                                         ELSE ReadHeader(before, req.lines[k], app)
    BY <1>8
  <2>2. 0 \in 0 .. n /\ \A k \in 1 .. n : k \in 0 .. n /\ k # 0
    OBVIOUS
  <2> QED
    BY <1>2, <2>1, <2>2 DEF AfterLine
<1>10. \A k \in 0 .. n : g[k] \in Reached
  <2> DEFINE K == {k \in 0 .. n : g[k] \in Reached}
  <2>1. 0 \in K
    BY <1>9
  <2>2. ASSUME NEW k \in 0 .. n - 1, k \in K PROVE k + 1 \in K
    <3>1. k + 1 \in 1 .. n /\ (k + 1) - 1 = k /\ g[k] \in Reached
      BY <2>2
    <3>2. g[k + 1] = AfterLine(g[k], req.lines[k + 1], app)
      BY <1>9, <3>1
    <3>3. g[k + 1] \in Reached
      BY <1>3, <3>1, <3>2
    <3> QED
      BY <3>1, <3>3
  <2> HIDE DEF K
  <2>3. \A k \in 0 .. n : k \in K
    BY <2>1, <2>2, InductionUpTo
  <2> QED
    BY <2>3 DEF K
<1>11. ReadHeaders(req, app) = at[n]
  BY <1>1 DEF ReadHeaders
<1> HIDE DEF at
<1> QED
  BY <1>1, <1>2, <1>8, <1>9, <1>10, <1>11 DEF Loop

(* What is known behind the k-th line, said of the lines themselves: the    *)
(* accepted protocol names, whether there are none in the first k lines,    *)
(* ...                                                                      *)
Offered(req, app, i, j) ==
  /\ i \in 1 .. Len(req.lines) /\ Named(req.lines[i], Protocols)
  /\ j \in DOMAIN req.lines[i][2] /\ req.lines[i][2][j] \in app.accepts

NoOffer(req, app, k) == \A i \in 1 .. k : \A j : ~Offered(req, app, i, j)

(* ... and which of the lines let the request pass. *)
LineFine(req, app, i) ==
  /\ Len(req.lines[i]) = 2
  /\ Named(req.lines[i], "Host") => app.host
  /\ req.lines[i][1] \in Mandatory => req.lines[i][2] # "bad"
  /\ Named(req.lines[i], Protocols) /\ app.selects /\ NoOffer(req, app, i - 1) =>
       Scanned(req.lines[i][2], app.accepts)
  /\ Named(req.lines[i], Extensions) /\ app.selects =>
       req.lines[i][2] # <<>> /\ Junk \notin Range(req.lines[i][2])
  /\ req.lines[i][1] \in Mandatory \/ req.lines[i][1] \in Lists \/ app.header

KnownError(req, app, k, s) ==
  s.err = "none" <=> LinePasses(req, app) /\ \A i \in 1 .. k : LineFine(req, app, i)

KnownSeen(req, k, s) ==
  s.seen = {x \in Mandatory : \E i \in 1 .. k : Named(req.lines[i], x)}

KnownNonce(req, k, s) ==
  \A i \in 1 .. k :
    /\ Named(req.lines[i], Key)
    /\ \A h \in 1 .. k : Named(req.lines[h], Key) => h <= i
    => s.nonce = req.lines[i][2]

FirstOffer(req, app, k, name) ==
  \E i \in 1 .. k, j \in Nat :
    /\ Offered(req, app, i, j) /\ name = req.lines[i][2][j]
    /\ \A h, l : Offered(req, app, h, l) => i < h \/ (i = h /\ j <= l)

KnownProtocol(req, app, k, s) ==
  IF ~app.selects \/ NoOffer(req, app, k) THEN s.protocol = NoProtocol
  ELSE s.protocol # NoProtocol /\ FirstOffer(req, app, k, s.protocol)

KnownExtensions(req, app, k, s) ==
  s.extensions =
    IF app.selects
    THEN {x \in app.accepts : \E i \in 1 .. k : /\ Named(req.lines[i], Extensions)
                                                /\ x \in Range(req.lines[i][2])}
    ELSE {}

Known(req, app, k, s) ==
  /\ KnownError(req, app, k, s)
  /\ s.err = "none" =>
       /\ KnownSeen(req, k, s) /\ KnownNonce(req, k, s)
       /\ KnownProtocol(req, app, k, s) /\ KnownExtensions(req, app, k, s)

(* It holds before the first line, ...                                      *)
LEMMA KnownFirst ==
  ASSUME NEW req, NEW app, IsUpgrader(app)
  PROVE  Known(req, app, 0, NoHeader(RequestLineError(req, app)))
<1>1. PICK s, e : s = NoHeader(e) /\ e = RequestLineError(req, app)
  OBVIOUS
<1>2. /\ s.err = e /\ s.seen = {} /\ s.protocol = NoProtocol /\ s.extensions = {}
  BY <1>1 DEF NoHeader
<1>3. 1 .. 0 = {}
  OBVIOUS
<1>4. KnownError(req, app, 0, s)
  BY <1>1, <1>2, <1>3, RequestLineRead DEF KnownError
<1>5. KnownSeen(req, 0, s) /\ KnownNonce(req, 0, s)
  BY <1>2, <1>3 DEF KnownSeen, KnownNonce
<1>6. KnownProtocol(req, app, 0, s)
  BY <1>2, <1>3 DEF KnownProtocol, NoOffer
<1>7. KnownExtensions(req, app, 0, s)
  BY <1>2, <1>3 DEF KnownExtensions
<1> QED
  BY <1>1, <1>4, <1>5, <1>6, <1>7 DEF Known

(* A line that passes is one that is fine, where it stands. *)
LEMMA PassesFine ==
  ASSUME NEW req, NEW app, IsRequest(req), IsUpgrader(app), NEW k \in 1 .. Len(req.lines),
         NEW s, KnownProtocol(req, app, k - 1, s)
  PROVE  Passes(s, req.lines[k], app) <=> LineFine(req, app, k)
<1>1. app.selects => (s.protocol = NoProtocol <=> NoOffer(req, app, k - 1))
  BY DEF KnownProtocol
<1> QED
  BY <1>1 DEF Passes, LineFine

(* The next line adds its name to those seen, ...                           *)
LEMMA KnownNextSeen ==
  ASSUME NEW req, IsRequest(req), NEW k \in 1 .. Len(req.lines), NEW s, NEW r,
         KnownSeen(req, k - 1, s), r.seen = s.seen \cup {x \in Mandatory : Named(req.lines[k], x)}
  PROVE  KnownSeen(req, k, r)
<1>1. k \in Nat /\ \A i : i \in 1 .. k <=> i \in 1 .. k - 1 \/ i = k
  BY DEF IsRequest
<1> QED
  BY <1>1 DEF KnownSeen

(* ... replaces the nonce if it is a key, ...                               *)
LEMMA KnownNextNonce ==
  ASSUME NEW req, IsRequest(req), NEW k \in 1 .. Len(req.lines), NEW app, NEW s, NEW r,
         KnownNonce(req, k - 1, s), NonceRead(s, req.lines[k], app, r)
  PROVE  KnownNonce(req, k, r)
<1>1. k \in Nat /\ \A i : i \in 1 .. k <=> i \in 1 .. k - 1 \/ i = k
  BY DEF IsRequest
<1>2. CASE Named(req.lines[k], Key)
  <2>1. r.nonce = req.lines[k][2]
    BY <1>2 DEF NonceRead
  <2>2. \A i \in 1 .. k : (\A h \in 1 .. k : Named(req.lines[h], Key) => h <= i) => i = k
    BY <1>1, <1>2
  <2> QED
    BY <2>1, <2>2 DEF KnownNonce
<1>3. CASE ~Named(req.lines[k], Key)
  <2>1. r.nonce = s.nonce
    BY <1>3 DEF NonceRead
  <2> QED
    BY <1>1, <1>3, <2>1 DEF KnownNonce
<1> QED
  BY <1>2, <1>3

(* ... adds to the extensions, ...                                          *)
LEMMA KnownNextExtensions ==
  ASSUME NEW req, IsRequest(req), NEW k \in 1 .. Len(req.lines), NEW app, NEW s, NEW r,
         KnownExtensions(req, app, k - 1, s), ExtensionsRead(s, req.lines[k], app, r)
  PROVE  KnownExtensions(req, app, k, r)
<1>1. k \in Nat /\ \A i : i \in 1 .. k <=> i \in 1 .. k - 1 \/ i = k
  BY DEF IsRequest
<1>2. CASE Named(req.lines[k], Extensions) /\ app.selects
  <2>1. r.extensions = s.extensions \cup (Range(req.lines[k][2]) \cap app.accepts)
    BY <1>2 DEF ExtensionsRead
  <2> QED
    BY <1>1, <1>2, <2>1 DEF KnownExtensions
<1>3. CASE ~(Named(req.lines[k], Extensions) /\ app.selects)
  <2>1. r.extensions = s.extensions
    BY <1>3 DEF ExtensionsRead
  <2> QED
    BY <1>1, <1>3, <2>1 DEF KnownExtensions
<1> QED
  BY <1>2, <1>3

(* ... and selects a protocol if none has been selected.                    *)
LEMMA KnownNextProtocol ==
  ASSUME NEW req, NEW app, IsRequest(req), IsUpgrader(app), NEW k \in 1 .. Len(req.lines),
         NEW s, NEW r, KnownProtocol(req, app, k - 1, s), ProtocolRead(s, req.lines[k], app, r)
  PROVE  KnownProtocol(req, app, k, r)
<1>1. k \in Nat /\ k - 1 \in Nat /\ \A i : i \in 1 .. k <=> i \in 1 .. k - 1 \/ i = k
  BY DEF IsRequest
<1>2. IsLine(req.lines[k])
  BY DEF IsRequest
<1>3. CASE ~app.selects
  BY <1>3 DEF KnownProtocol, ProtocolRead
<1>4. CASE app.selects /\ ~NoOffer(req, app, k - 1)
  <2>1. s.protocol # NoProtocol /\ FirstOffer(req, app, k - 1, s.protocol)
    BY <1>4 DEF KnownProtocol
  <2>2. r.protocol = s.protocol
    BY <2>1 DEF ProtocolRead
  <2>3. ~NoOffer(req, app, k)
    BY <1>1, <1>4 DEF NoOffer
  <2>4. FirstOffer(req, app, k, s.protocol)
    BY <1>1, <2>1 DEF FirstOffer
  <2> QED
    BY <1>4, <2>1, <2>2, <2>3, <2>4 DEF KnownProtocol
<1>5. CASE app.selects /\ NoOffer(req, app, k - 1) /\ ~Named(req.lines[k], Protocols)
  <2>1. s.protocol = NoProtocol /\ r.protocol = s.protocol
    BY <1>5 DEF KnownProtocol, ProtocolRead
  <2>2. NoOffer(req, app, k)
    BY <1>1, <1>5 DEF NoOffer, Offered
  <2> QED
    BY <2>1, <2>2 DEF KnownProtocol
<1>6. CASE app.selects /\ NoOffer(req, app, k - 1) /\ Named(req.lines[k], Protocols)
  <2>1. PICK names : names = req.lines[k][2]
    OBVIOUS
  <2>2. s.protocol = NoProtocol /\ FirstOf(r.protocol, names, app.accepts)
    BY <1>6, <2>1 DEF KnownProtocol, ProtocolRead
  <2>3. \A j : Offered(req, app, k, j) <=> j \in DOMAIN names /\ names[j] \in app.accepts
    BY <1>6, <2>1 DEF Offered
  <2>4. CASE \A j \in DOMAIN names : names[j] \notin app.accepts
    <3>1. r.protocol = NoProtocol
      BY <2>2, <2>4 DEF FirstOf
    <3>2. NoOffer(req, app, k)
      BY <1>1, <1>6, <2>3, <2>4 DEF NoOffer
    <3> QED
      BY <3>1, <3>2 DEF KnownProtocol
  <2>5. CASE ~\A j \in DOMAIN names : names[j] \notin app.accepts
    <3>1. PICK j \in DOMAIN names :
            /\ r.protocol = names[j] /\ r.protocol \in app.accepts
            /\ \A l \in DOMAIN names : names[l] \in app.accepts => j <= l
      BY <2>2, <2>5 DEF FirstOf
    <3>2. j \in Nat
      <4>1. names \in Seq(Words)
        BY <1>2, <1>6, <2>1, ListTyped DEF Named, Lists, Protocols
      <4> QED
        BY <3>1, <4>1, LenProperties
    <3>3. Offered(req, app, k, j) /\ ~NoOffer(req, app, k)
      BY <1>1, <2>3, <3>1 DEF NoOffer
    <3>4. r.protocol # NoProtocol
      BY <3>1, AcceptsTyped
    <3>5. ASSUME NEW h, NEW l, Offered(req, app, h, l) PROVE k < h \/ (k = h /\ j <= l)
      <4>1. h \in 1 .. Len(req.lines) /\ Len(req.lines) \in Nat /\ h \notin 1 .. k - 1
        BY <1>6, <3>5 DEF NoOffer, Offered, IsRequest
      <4>2. h = k => j <= l
        BY <2>3, <3>1, <3>5
      <4> QED
        BY <1>1, <4>1, <4>2
    <3>6. FirstOffer(req, app, k, r.protocol)
      BY <1>1, <2>1, <3>1, <3>2, <3>3, <3>5 DEF FirstOffer
    <3> QED
      BY <1>6, <3>3, <3>4, <3>6 DEF KnownProtocol
  <2> QED
    BY <2>4, <2>5
<1> QED
  BY <1>3, <1>4, <1>5, <1>6

(* ... and behind a line if it holds before it.                             *)
LEMMA KnownNext ==
  ASSUME NEW req, NEW app, IsRequest(req), IsUpgrader(app), NEW k \in 1 .. Len(req.lines),
         NEW s \in Reached, Known(req, app, k - 1, s)
  PROVE  Known(req, app, k, AfterLine(s, req.lines[k], app))
<1>1. k \in Nat /\ \A i : i \in 1 .. k <=> i \in 1 .. k - 1 \/ i = k
  BY DEF IsRequest
<1>2. CASE s.err # "none"
  <2>1. AfterLine(s, req.lines[k], app) = s
    BY <1>2 DEF AfterLine
  <2> QED
    BY <1>1, <1>2, <2>1 DEF Known, KnownError
<1>3. CASE s.err = "none"
  <2>1. PICK r : r = AfterLine(s, req.lines[k], app)
    OBVIOUS
  <2>2. LineRead(s, req.lines[k], app, r)
    BY <1>3, <2>1, EveryLineRead DEF AfterLine, IsRequest
  <2>3. /\ KnownSeen(req, k - 1, s) /\ KnownNonce(req, k - 1, s)
        /\ KnownProtocol(req, app, k - 1, s) /\ KnownExtensions(req, app, k - 1, s)
    BY <1>3 DEF Known
  <2>4. Passes(s, req.lines[k], app) <=> LineFine(req, app, k)
    BY <2>3, PassesFine
  <2>5. KnownError(req, app, k, r)
    BY <1>1, <1>3, <2>2, <2>4 DEF Known, KnownError, LineRead
  <2>6. ASSUME r.err = "none"
        PROVE  /\ KnownSeen(req, k, r) /\ KnownNonce(req, k, r)
               /\ KnownProtocol(req, app, k, r) /\ KnownExtensions(req, app, k, r)
    <3>1. /\ r.seen = s.seen \cup {x \in Mandatory : Named(req.lines[k], x)}
          /\ NonceRead(s, req.lines[k], app, r) /\ ProtocolRead(s, req.lines[k], app, r)
          /\ ExtensionsRead(s, req.lines[k], app, r)
      BY <2>2, <2>6 DEF LineRead
    <3>2. KnownSeen(req, k, r)
      BY <2>3, <3>1, KnownNextSeen
    <3>3. KnownNonce(req, k, r)
      BY <2>3, <3>1, KnownNextNonce
    <3>4. KnownProtocol(req, app, k, r)
      BY <2>3, <3>1, KnownNextProtocol
    <3>5. KnownExtensions(req, app, k, r)
      BY <2>3, <3>1, KnownNextExtensions
    <3> QED
      BY <3>2, <3>3, <3>4, <3>5
  <2> QED
    BY <2>1, <2>5, <2>6 DEF Known
<1> QED
  BY <1>2, <1>3

(* So it holds behind the last line.                                        *)
LEMMA AllKnown ==
  ASSUME NEW req, NEW app, IsRequest(req), IsUpgrader(app)
  PROVE  Known(req, app, Len(req.lines), ReadHeaders(req, app))
<1>1. PICK n \in Nat : n = Len(req.lines)
  BY DEF IsRequest
<1>2. PICK f : Loop(req, app, f)
  BY LoopExists
<1> DEFINE K == {k \in 0 .. n : Known(req, app, k, f[k])}
<1>3. 0 \in K
  BY <1>2, KnownFirst DEF Loop
<1>4. ASSUME NEW k \in 0 .. n - 1, k \in K PROVE k + 1 \in K
  <2>1. /\ k + 1 \in 1 .. n /\ (k + 1) - 1 = k /\ k \in 0 .. n /\ k + 1 \in 0 .. n
        /\ Known(req, app, k, f[k])
    BY <1>4
  <2>2. f[k] \in Reached /\ f[k + 1] = AfterLine(f[k], req.lines[k + 1], app)
    BY <1>1, <1>2, <2>1 DEF Loop
  <2>3. Known(req, app, k + 1, AfterLine(f[k], req.lines[k + 1], app))
    BY <1>1, <2>1, <2>2, KnownNext
  <2> QED
    BY <2>1, <2>2, <2>3
<1> HIDE DEF K
<1>5. n \in K
  BY <1>3, <1>4, InductionUpTo
<1> QED
  BY <1>1, <1>2, <1>5 DEF K, Loop

(* The same, in the words of the requirement. *)
LEMMA LinesAre ==
  ASSUME NEW req, NEW name
  PROVE  \A i : i \in Lines(req, name) <=> i \in 1 .. Len(req.lines) /\ Named(req.lines[i], name)
BY DEF Lines, Named

(* The offers are pairs of a line and a place.                              *)
LEMMA OffersAre ==
  ASSUME NEW req, NEW app
  PROVE  /\ \A p \in Offers(req, app) : p = <<p[1], p[2]>> /\ Offered(req, app, p[1], p[2])
         /\ \A i, j : Offered(req, app, i, j) => <<i, j>> \in Offers(req, app)
<1>1. \A i : i \in Lines(req, Protocols)
               <=> i \in 1 .. Len(req.lines) /\ Named(req.lines[i], Protocols)
  BY LinesAre
<1>2. Offers(req, app)
        = {p \in UNION {{i} \X DOMAIN Value(req, i) : i \in Lines(req, Protocols)} :
             Value(req, p[1])[p[2]] \in app.accepts}
  BY DEF Offers, Protocols
<1>3. ASSUME NEW p \in Offers(req, app)
      PROVE  p = <<p[1], p[2]>> /\ Offered(req, app, p[1], p[2])
  <2>1. PICK i \in Lines(req, Protocols) : p \in {i} \X DOMAIN Value(req, i)
    BY <1>2
  <2>2. p = <<p[1], p[2]>> /\ p[1] = i /\ p[2] \in DOMAIN Value(req, i)
    BY <2>1
  <2>3. Value(req, i)[p[2]] \in app.accepts
    BY <1>2, <2>2
  <2> QED
    BY <1>1, <2>1, <2>2, <2>3 DEF Offered, Value
<1>4. ASSUME NEW i, NEW j, Offered(req, app, i, j) PROVE <<i, j>> \in Offers(req, app)
  <2>1. i \in Lines(req, Protocols) /\ j \in DOMAIN Value(req, i) /\ Value(req, i)[j] \in app.accepts
    BY <1>1, <1>4 DEF Offered, Value
  <2>2. <<i, j>> \in {i} \X DOMAIN Value(req, i) /\ <<i, j>>[1] = i /\ <<i, j>>[2] = j
    BY <2>1
  <2> QED
    BY <1>2, <2>1, <2>2
<1> QED
  BY <1>3, <1>4

(* Where the list of a line is read, and when it can be. *)
LEMMA OffersBefore ==
  ASSUME NEW req, NEW app, IsRequest(req), NEW i \in 1 .. Len(req.lines)
  PROVE  (\A p \in Offers(req, app) : p[1] >= i) <=> NoOffer(req, app, i - 1)
<1>1. Len(req.lines) \in Nat
  BY DEF IsRequest
<1>2. ASSUME \A p \in Offers(req, app) : p[1] >= i PROVE NoOffer(req, app, i - 1)
  <2>1. SUFFICES ASSUME NEW h \in 1 .. i - 1, NEW j, Offered(req, app, h, j) PROVE FALSE
    BY DEF NoOffer
  <2>2. <<h, j>> \in Offers(req, app) /\ <<h, j>>[1] = h
    BY <2>1, OffersAre
  <2>3. h >= i
    BY <1>2, <2>2
  <2> QED
    BY <1>1, <2>3
<1>3. ASSUME NoOffer(req, app, i - 1), NEW p \in Offers(req, app) PROVE p[1] >= i
  <2>1. Offered(req, app, p[1], p[2])
    BY OffersAre
  <2>2. p[1] \in 1 .. Len(req.lines) /\ p[1] \notin 1 .. i - 1
    BY <1>3, <2>1 DEF NoOffer, Offered
  <2> QED
    BY <1>1, <2>2
<1> QED
  BY <1>2, <1>3

(* The same of the names up to the first accepted one.                      *)
LEMMA ScannedHere ==
  ASSUME NEW req, NEW app, NEW i \in 1 .. Len(req.lines), Named(req.lines[i], Protocols)
  PROVE  Scanned(req.lines[i][2], app.accepts)
           <=> /\ Value(req, i) # <<>>
               /\ \A j \in DOMAIN Value(req, i) :
                    Value(req, i)[j] = Junk => \E p \in Offers(req, app) : p[1] = i /\ p[2] < j
<1>1. PICK names : names = req.lines[i][2] /\ names = Value(req, i)
  BY DEF Value
<1>2. \A l : Offered(req, app, i, l) <=> l \in DOMAIN names /\ names[l] \in app.accepts
  BY <1>1 DEF Offered
<1>3. ASSUME NEW j
      PROVE  (\E l \in DOMAIN names : l < j /\ names[l] \in app.accepts)
               <=> \E p \in Offers(req, app) : p[1] = i /\ p[2] < j
  <2>1. ASSUME NEW l \in DOMAIN names, l < j, names[l] \in app.accepts
        PROVE  \E p \in Offers(req, app) : p[1] = i /\ p[2] < j
    <3>1. <<i, l>> \in Offers(req, app) /\ <<i, l>>[1] = i /\ <<i, l>>[2] = l
      BY <1>2, <2>1, OffersAre
    <3> QED
      BY <2>1, <3>1
  <2>2. ASSUME NEW p \in Offers(req, app), p[1] = i, p[2] < j
        PROVE  \E l \in DOMAIN names : l < j /\ names[l] \in app.accepts
    BY <1>2, <2>2, OffersAre
  <2> QED
    BY <2>1, <2>2
<1> QED
  BY <1>1, <1>3 DEF Scanned

(* The request is let in ... *)
LEMMA ReadTyped ==
  ASSUME NEW req, NEW app, IsRequest(req), IsUpgrader(app)
  PROVE  ReadHeaders(req, app) \in Reached
<1>1. PICK f : Loop(req, app, f)
  BY LoopExists
<1>2. Len(req.lines) \in 0 .. Len(req.lines)
  BY DEF IsRequest
<1> QED
  BY <1>1, <1>2 DEF Loop

(* The checks behind the loop.                                              *)
LEMMA UpgradedIs ==
  ASSUME NEW req, NEW app, IsRequest(req), IsUpgrader(app)
  PROVE  /\ Upgraded(req, app).err = "none"
              <=> /\ ReadHeaders(req, app).err = "none"
                  /\ ReadHeaders(req, app).seen = Mandatory /\ app.before
         /\ Upgraded(req, app).err = "none" => Upgraded(req, app) = ReadHeaders(req, app)
<1>1. PICK s, u : s = ReadHeaders(req, app) /\ u = Upgraded(req, app)
  OBVIOUS
<1>2. s \in Reached
  BY <1>1, ReadTyped
<1>3. u = IF s.err # "none" THEN s
          ELSE IF s.seen # Mandatory THEN [s EXCEPT !.err = "missing header"]
          ELSE IF ~app.before THEN [s EXCEPT !.err = "rejected"]
          ELSE s
  BY <1>1 DEF Upgraded
<1>4. /\ [s EXCEPT !.err = "missing header"].err = "missing header"
      /\ [s EXCEPT !.err = "rejected"].err = "rejected"
  BY <1>2 DEF Reached
<1>5. "missing header" # "none" /\ "rejected" # "none"
  OBVIOUS
<1> QED
  BY <1>1, <1>3, <1>4, <1>5

AllFine(req, app) ==
  /\ LinePasses(req, app) /\ app.before
  /\ \A i \in 1 .. Len(req.lines) : LineFine(req, app, i)
  /\ \A x \in Mandatory : \E i \in 1 .. Len(req.lines) : Named(req.lines[i], x)

(* The request is let in if all lines are fine and no header is missing.    *)
LEMMA LetInWhenFine ==
  ASSUME NEW req, NEW app, IsRequest(req), IsUpgrader(app)
  PROVE  Upgraded(req, app).err = "none" <=> AllFine(req, app)
<1>1. PICK s : s = ReadHeaders(req, app)
  OBVIOUS
<1>2. Known(req, app, Len(req.lines), s)
  BY <1>1, AllKnown
<1>3. s.err = "none" <=> LinePasses(req, app) /\ \A i \in 1 .. Len(req.lines) : LineFine(req, app, i)
  BY <1>2 DEF Known, KnownError
<1>4. s.err = "none" =>
        s.seen = {x \in Mandatory : \E i \in 1 .. Len(req.lines) : Named(req.lines[i], x)}
  BY <1>2 DEF Known, KnownSeen
<1>5. {x \in Mandatory : \E i \in 1 .. Len(req.lines) : Named(req.lines[i], x)} = Mandatory
        <=> \A x \in Mandatory : \E i \in 1 .. Len(req.lines) : Named(req.lines[i], x)
  OBVIOUS
<1>6. Upgraded(req, app).err = "none" <=> s.err = "none" /\ s.seen = Mandatory /\ app.before
  BY <1>1, UpgradedIs
<1> QED
  BY <1>3, <1>4, <1>5, <1>6 DEF AllFine

(* ... when the requirement says so, ... *)
LEMMA FineAcceptable ==
  ASSUME NEW req, NEW app, IsRequest(req), IsUpgrader(app)
  PROVE  AllFine(req, app) <=> VersionPasses(req.proto) /\ AcceptableBut(req, app)
<1>1. \A name : \A i : i \in Lines(req, name)
                         <=> i \in 1 .. Len(req.lines) /\ Named(req.lines[i], name)
  BY LinesAre
<1>2. "Host" \in Mandatory /\ Lists = {Protocols, Extensions}
  BY DEF Mandatory, Lists, Protocols, Extensions
<1>3. ASSUME AllFine(req, app) PROVE VersionPasses(req.proto) /\ AcceptableBut(req, app)
  <2>1. \A i \in 1 .. Len(req.lines) : LineFine(req, app, i)
    BY <1>3 DEF AllFine
  <2>2. VersionPasses(req.proto) /\ req.method = "GET" /\ app.request /\ app.before
    BY <1>3 DEF AllFine, LinePasses
  <2>3. app.host
    BY <1>2, <1>3, <2>1 DEF AllFine, LineFine
  <2>4. \A name \in Mandatory : /\ Lines(req, name) # {}
                                /\ \A i \in Lines(req, name) : Value(req, i) # "bad"
    <3> TAKE name \in Mandatory
    <3>1. Lines(req, name) # {}
      BY <1>1, <1>3 DEF AllFine
    <3>2. ASSUME NEW i \in Lines(req, name) PROVE Value(req, i) # "bad"
      <4>1. i \in 1 .. Len(req.lines) /\ req.lines[i][1] = name
        BY <1>1 DEF Named
      <4> QED
        BY <2>1, <4>1 DEF LineFine, Value
    <3> QED
      BY <3>1, <3>2
  <2>5. \A i \in 1 .. Len(req.lines) :
          /\ Len(req.lines[i]) = 2
          /\ \/ req.lines[i][1] \in Mandatory \/ app.header
             \/ req.lines[i][1] \in Lists
    BY <2>1 DEF LineFine
  <2>6. ASSUME app.selects PROVE ListsReadable(req, app)
    <3>1. ASSUME NEW i \in Lines(req, Protocols), \A p \in Offers(req, app) : p[1] >= i
          PROVE  /\ Value(req, i) # <<>>
                 /\ \A j \in DOMAIN Value(req, i) :
                      Value(req, i)[j] = Junk => \E p \in Offers(req, app) : p[1] = i /\ p[2] < j
      <4>1. i \in 1 .. Len(req.lines) /\ Named(req.lines[i], Protocols)
        BY <1>1
      <4>2. NoOffer(req, app, i - 1)
        BY <3>1, <4>1, OffersBefore
      <4>3. Scanned(req.lines[i][2], app.accepts)
        BY <2>1, <2>6, <4>1, <4>2 DEF LineFine
      <4> QED
        BY <4>1, <4>3, ScannedHere
    <3>2. ASSUME NEW i \in Lines(req, Extensions)
          PROVE  Value(req, i) # <<>> /\ Junk \notin Range(Value(req, i))
      <4>1. i \in 1 .. Len(req.lines) /\ Named(req.lines[i], Extensions)
        BY <1>1
      <4> QED
        BY <2>1, <2>6, <4>1 DEF LineFine, Value
    <3> QED
      BY <3>1, <3>2 DEF ListsReadable, Protocols, Extensions
  <2> QED
    BY <2>2, <2>3, <2>4, <2>5, <2>6 DEF AcceptableBut
<1>4. ASSUME VersionPasses(req.proto), AcceptableBut(req, app) PROVE AllFine(req, app)
  <2>1. LinePasses(req, app) /\ app.before
    BY <1>4 DEF AcceptableBut, LinePasses
  <2>2. \A x \in Mandatory : \E i \in 1 .. Len(req.lines) : Named(req.lines[i], x)
    BY <1>1, <1>4 DEF AcceptableBut
  <2>3. ASSUME NEW i \in 1 .. Len(req.lines) PROVE LineFine(req, app, i)
    <3>1. /\ Len(req.lines[i]) = 2 /\ app.host
          /\ req.lines[i][1] \in Mandatory \/ req.lines[i][1] \in Lists \/ app.header
      BY <1>4 DEF AcceptableBut
    <3>2. ASSUME req.lines[i][1] \in Mandatory PROVE req.lines[i][2] # "bad"
      <4>1. PICK name \in Mandatory : name = req.lines[i][1]
        BY <3>2
      <4>2. i \in Lines(req, name)
        BY <1>1, <3>1, <4>1 DEF Named
      <4> QED
        BY <1>4, <4>1, <4>2 DEF AcceptableBut, Value
    <3>3. ASSUME Named(req.lines[i], Protocols), app.selects, NoOffer(req, app, i - 1)
          PROVE  Scanned(req.lines[i][2], app.accepts)
      <4>1. i \in Lines(req, Protocols)
        BY <1>1, <3>3
      <4>2. \A p \in Offers(req, app) : p[1] >= i
        BY <3>3, OffersBefore
      <4>3. /\ Value(req, i) # <<>>
            /\ \A j \in DOMAIN Value(req, i) :
                 Value(req, i)[j] = Junk => \E p \in Offers(req, app) : p[1] = i /\ p[2] < j
        BY <1>4, <3>3, <4>1, <4>2 DEF AcceptableBut, ListsReadable, Protocols
      <4> QED
        BY <3>3, <4>3, ScannedHere
    <3>4. ASSUME Named(req.lines[i], Extensions), app.selects
          PROVE  req.lines[i][2] # <<>> /\ Junk \notin Range(req.lines[i][2])
      <4>1. i \in Lines(req, Extensions)
        BY <1>1, <3>4
      <4> QED
        BY <1>4, <3>4, <4>1 DEF AcceptableBut, ListsReadable, Extensions, Value
    <3> QED
      BY <3>1, <3>2, <3>3, <3>4 DEF LineFine
  <2> QED
    BY <2>1, <2>2, <2>3 DEF AllFine
<1> QED
  BY <1>3, <1>4

(* ... and the response says what it is to say. *)
LEMMA LastOne ==
  ASSUME NEW n \in Nat, NEW S \in SUBSET (1 .. n), S # {}
  PROVE  \E m \in S : \A k \in S : k <= m
<1> DEFINE T == {n - k : k \in S}
<1>1. T \in SUBSET Nat /\ T # {}
  <2>1. \A k \in S : n - k \in Nat
    OBVIOUS
  <2> QED
    BY <2>1
<1>2. PICK t \in T : \A u \in T : t <= u
  <2> HIDE DEF T
  <2> QED
    BY <1>1, LeastNumber
<1>3. PICK m \in S : t = n - m
  OBVIOUS
<1>4. \A k \in S : n - m <= n - k
  BY <1>2, <1>3
<1>5. \A k \in S : k <= m
  BY <1>4
<1> QED
  BY <1>5

(* The nonce, the protocol and the extensions are the right ones.           *)
LEMMA ResponseRight ==
  ASSUME NEW req, NEW app, IsRequest(req), IsUpgrader(app), Upgraded(req, app).err = "none"
  PROVE  IsRight(Response(Upgraded(req, app)), req, app)
<1>1. PICK s, n : /\ s = ReadHeaders(req, app) /\ s = Upgraded(req, app) /\ n = Len(req.lines)
                  /\ s.err = "none" /\ n \in Nat
  BY UpgradedIs DEF IsRequest
<1>2. Known(req, app, n, s)
  BY <1>1, AllKnown
<1>3. /\ KnownNonce(req, n, s) /\ KnownProtocol(req, app, n, s)
      /\ KnownExtensions(req, app, n, s)
  BY <1>1, <1>2 DEF Known
<1>4. AllFine(req, app)
  BY LetInWhenFine
<1>5. RightAccept(s.nonce, req)
  <2>1. \A i : i \in Lines(req, Key) <=> i \in 1 .. n /\ Named(req.lines[i], Key)
    BY <1>1, LinesAre
  <2>2. Lines(req, Key) # {}
    <3>1. Key \in Mandatory
      BY DEF Key, Mandatory
    <3> QED
      BY <1>1, <1>4, <2>1, <3>1 DEF AllFine
  <2>3. PICK i \in Lines(req, Key) : \A h \in Lines(req, Key) : h <= i
    BY <1>1, <2>1, <2>2, LastOne
  <2>4. s.nonce = Value(req, i)
    BY <1>3, <2>1, <2>3 DEF KnownNonce, Value
  <2> QED
    BY <2>3, <2>4 DEF RightAccept, Key
<1>6. RightProtocol(s.protocol, req, app)
  <2>1. NoOffer(req, app, n) <=> Offers(req, app) = {}
    <3>1. ASSUME NoOffer(req, app, n), NEW p \in Offers(req, app) PROVE FALSE
      BY <1>1, <3>1, OffersAre DEF NoOffer, Offered
    <3>2. ASSUME Offers(req, app) = {} PROVE NoOffer(req, app, n)
      BY <3>2, OffersAre DEF NoOffer
    <3> QED
      BY <3>1, <3>2
  <2>2. CASE ~app.selects \/ Offers(req, app) = {}
    BY <1>3, <2>1, <2>2 DEF KnownProtocol, RightProtocol
  <2>3. CASE ~(~app.selects \/ Offers(req, app) = {})
    <3>1. FirstOffer(req, app, n, s.protocol)
      BY <1>3, <2>1, <2>3 DEF KnownProtocol
    <3>2. PICK i \in 1 .. n, j \in Nat :
            /\ Offered(req, app, i, j) /\ s.protocol = req.lines[i][2][j]
            /\ \A h, l : Offered(req, app, h, l) => i < h \/ (i = h /\ j <= l)
      BY <3>1 DEF FirstOffer
    <3>3. PICK p \in Offers(req, app) : p[1] = i /\ p[2] = j
      <4>1. <<i, j>> \in Offers(req, app) /\ <<i, j>>[1] = i /\ <<i, j>>[2] = j
        BY <3>2, OffersAre
      <4> QED
        BY <4>1
    <3>4. \A q \in Offers(req, app) : i < q[1] \/ (i = q[1] /\ j <= q[2])
      BY <3>2, OffersAre
    <3>5. s.protocol = Value(req, p[1])[p[2]]
      BY <3>2, <3>3 DEF Value
    <3> QED
      BY <2>3, <3>3, <3>4, <3>5 DEF RightProtocol
  <2> QED
    BY <2>2, <2>3
<1>7. RightExtensions(s.extensions, req, app)
  <2>1. \A i : i \in Lines(req, Extensions) <=> i \in 1 .. n /\ Named(req.lines[i], Extensions)
    BY <1>1, LinesAre
  <2>2. PICK offered : offered = UNION {Range(Value(req, i)) : i \in Lines(req, Extensions)}
    OBVIOUS
  <2>3. PICK found : found = {x \in app.accepts :
                                \E i \in 1 .. n : /\ Named(req.lines[i], Extensions)
                                                 /\ x \in Range(req.lines[i][2])}
    OBVIOUS
  <2>4. \A x : x \in offered <=> \E i \in Lines(req, Extensions) : x \in Range(Value(req, i))
    BY <2>2
  <2>5. \A x : x \in offered \cap app.accepts <=> x \in found
    BY <2>1, <2>3, <2>4 DEF Value
  <2>6. offered \cap app.accepts = found
    BY <2>5
  <2>7. s.extensions = IF app.selects THEN found ELSE {}
    BY <1>1, <1>3, <2>3 DEF KnownExtensions
  <2> QED
    BY <2>2, <2>6, <2>7 DEF RightExtensions, Extensions
<1>8. /\ Response(s).accept = s.nonce /\ Response(s).protocol = s.protocol
      /\ Response(s).extensions = s.extensions
  BY DEF Response
<1> QED
  BY <1>1, <1>5, <1>6, <1>7, <1>8 DEF IsRight

(* Upgrader.Upgrade (ws.go, lines 160-345) meets the requirement for every  *)
(* request and every Upgrader, whatever the number and the order of the     *)
(* headers: all acceptable requests are let in; of the others only such     *)
(* whose one fault is a version with one of the characters :;<=>? in it;    *)
(* and what is answered is right.                                           *)
THEOREM HandshakeCorrect ==
  ASSUME NEW req, NEW app, IsRequest(req), IsUpgrader(app)
  PROVE  /\ Acceptable(req, app) => Upgraded(req, app).err = "none"
         /\ Upgraded(req, app).err = "none" =>
              /\ AcceptableBut(req, app) /\ (IsHttp11(req.proto) \/ Misread(req.proto))
              /\ IsRight(Response(Upgraded(req, app)), req, app)
<1>1. /\ IsHttp11(req.proto) => VersionPasses(req.proto)
      /\ VersionPasses(req.proto) => IsHttp11(req.proto) \/ Misread(req.proto)
  BY VersionExact DEF IsRequest
<1>2. Upgraded(req, app).err = "none" <=> VersionPasses(req.proto) /\ AcceptableBut(req, app)
  BY LetInWhenFine, FineAcceptable
<1>3. Acceptable(req, app) <=> IsHttp11(req.proto) /\ AcceptableBut(req, app)
  BY DEF Acceptable
<1> QED
  BY <1>1, <1>2, <1>3, ResponseRight

(* What the assumption says of the requests.                                *)
LEMMA RequestsAre ==
  ASSUME NEW r \in Requests
  PROVE  IsRequest(r.req) /\ IsUpgrader(r.app)
BY WebsocketAssumption

(* The response and the end of the process both come from what Upgrade      *)
(* makes of the request, or of the part of it that has arrived.             *)
UpgradeInv ==
  /\ request \in Requests
  /\ upgraded \in BOOLEAN /\ fatal \in BOOLEAN
  /\ upgraded => response # <<>>
  /\ response # <<>> =>
       /\ Upgraded(request.req, request.app).err = "none"
       /\ response = <<Response(Upgraded(request.req, request.app))>>
  /\ fatal /\ ~upgraded => Upgraded(request.req, request.app).err # "none" \/ RequestCut

(* There is no response at first, and the process runs.                     *)
LEMMA UpgradeInvInit == Init => UpgradeInv
BY DEF Init, UpgradeInv

(* It does not run on after Upgrade has failed.                             *)
LEMMA UpgradeInvStep == UpgradeInv /\ [Next]_vars => UpgradeInv'
<1> SUFFICES ASSUME UpgradeInv, [Next]_vars PROVE UpgradeInv'
  OBVIOUS
<1>1. ASSUME ~fatal, UNCHANGED <<request, response, upgraded, fatal>> PROVE UpgradeInv'
  BY <1>1 DEF UpgradeInv
<1>2. CASE ~fatal /\ ClientSends
  BY <1>1, <1>2 DEF ClientSends, shakeVars, inVars
<1>3. ASSUME ~fatal, NEW n \in 1 .. PacketSize, ReadPacket(n) PROVE UpgradeInv'
  BY <1>1, <1>3 DEF ReadPacket, shakeVars
<1>4. CASE ~fatal /\ Upgrade
  <2>1. PICK u, data : u = Upgraded(request.req, request.app) /\ data = RB!Bytes(Buffer)
    OBVIOUS
  <2>2. UNCHANGED request /\ ~upgraded
    BY <1>4 DEF Upgrade
  <2>3. CASE Contains(data, End) /\ u.err = "none"
    <3>1. upgraded' = TRUE /\ response' = <<Response(u)>> /\ UNCHANGED fatal
      BY <1>4, <2>1, <2>3 DEF Upgrade
    <3>2. response' # <<>>
      BY <3>1
    <3> QED
      BY <1>4, <2>1, <2>2, <2>3, <3>1, <3>2 DEF UpgradeInv
  <2>4. CASE ~(Contains(data, End) /\ u.err = "none")
    <3>1. fatal' = TRUE /\ UNCHANGED <<response, upgraded, cur, buf, inBuf>>
      BY <1>4, <2>1, <2>4 DEF Upgrade
    <3>2. RB!Bytes(Buffer)' = data
      BY <2>1, <3>1 DEF Buffer
    <3>3. u.err # "none" \/ RequestCut'
      BY <2>2, <2>4, <3>1, <3>2 DEF RequestCut
    <3> QED
      BY <2>1, <2>2, <3>1, <3>3 DEF UpgradeInv
  <2> QED
    BY <2>3, <2>4
<1>5. CASE ~fatal /\ UnPacket
  <2>1. UNCHANGED <<request, response, upgraded>> /\ upgraded /\ fatal' \in BOOLEAN
    BY <1>5 DEF UnPacket, shakeVars, UpgradeInv, outVars, EndRead
  <2> QED
    BY <1>5, <2>1 DEF UpgradeInv
<1>6. CASE UNCHANGED vars
  <2>1. /\ UNCHANGED <<request, response, upgraded, fatal>>
        /\ UNCHANGED <<cur, buf, inBuf>>
    BY <1>6 DEF vars, shakeVars, inVars
  <2>2. RequestCut' = RequestCut
    BY <2>1 DEF RequestCut, Buffer
  <2> QED
    BY <2>1, <2>2 DEF UpgradeInv
<1> QED
  BY <1>2, <1>3, <1>4, <1>5, <1>6 DEF Next

(* What it leaves is what the requirement asks of Upgraded.                 *)
LEMMA HandshakeHolds == UpgradeInv => HandshakeExact
<1> SUFFICES ASSUME UpgradeInv PROVE HandshakeExact
  OBVIOUS
<1>1. PICK req, app, u : /\ req = request.req /\ app = request.app
                         /\ u = Upgraded(req, app)
  OBVIOUS
<1>2. IsRequest(req) /\ IsUpgrader(app)
  BY <1>1, RequestsAre DEF UpgradeInv
<1>3. /\ Acceptable(req, app) => u.err = "none"
      /\ u.err = "none" =>
           /\ AcceptableBut(req, app) /\ (IsHttp11(req.proto) \/ Misread(req.proto))
           /\ IsRight(Response(u), req, app)
  BY <1>1, <1>2, HandshakeCorrect
<1>4. ASSUME response # <<>>
      PROVE  /\ AcceptableBut(req, app) /\ (IsHttp11(req.proto) \/ Misread(req.proto))
             /\ IsRight(response[1], req, app)
  <2>1. u.err = "none" /\ response = <<Response(u)>>
    BY <1>1, <1>4 DEF UpgradeInv
  <2>2. response[1] = Response(u)
    BY <2>1
  <2> QED
    BY <1>3, <2>1, <2>2
<1>5. fatal /\ response = <<>> => ~Acceptable(req, app) \/ RequestCut
  BY <1>1, <1>3 DEF UpgradeInv
<1> QED
  BY <1>1, <1>4, <1>5 DEF HandshakeExact

(* Whatever clients send, and wherever the network cuts it into reads: a    *)
(* response is right, and only a request gets one that is acceptable or     *)
(* whose one fault is a misread version; an acceptable request ends the     *)
(* process only if it has arrived in part when Upgrade is called (ws.go,    *)
(* lines 160-345; protocol.go, lines 24-32).                                *)
THEOREM HandshakeExactAlways == Spec => []HandshakeExact
BY UpgradeInvInit, UpgradeInvStep, HandshakeHolds, PTL DEF Spec
=============================================================================
