-------------------------- MODULE ConnectionProofs --------------------------
(***************************************************************************)
(* Theorems about Connection, for any protocol, lengths of replies and     *)
(* packets, send buffer, number of callers and of bytes.  The inductive    *)
(* invariant ConnectionInv says in its parts                               *)
(*   - Sound: what holds of the connection object by itself;               *)
(*   - PlaceInv: the registration comes first, and an event is only        *)
(*     handled while the connection is registered;                         *)
(*   - OutputIntact: the way of the bytes out;                             *)
(*   - InputIntact: the way of the bytes in, and what a reset leaves.      *)
(***************************************************************************)
EXTENDS Connection, DataLemmas

(* The connection objects there may be. *)
Objects ==
  [frameLen : FrameLens, connected : BOOLEAN, registered : BOOLEAN, interest : {"R", "RW"},
   fdOpen : BOOLEAN, outBuf : Bytes, inBuf : Bytes, outBufLen : Nat,
   closes : Nat, fatal : BOOLEAN]

(* The tasks of one connection. *)
TaskSet == [op : {"register", "close"}] \cup [op : {"send"}, data : Bytes]

(* OnClose has been called once if the connection is closed, epoll does not *)
(* watch a closed connection, watches for writability while there is        *)
(* something to write, and no removal from epoll has failed.                *)
Sound(c) ==
  /\ c.closes = IF c.connected THEN 0 ELSE 1
  /\ c.registered => c.connected
  /\ c.registered => (c.interest = "RW" <=> c.outBuf # <<>>)
  /\ ~c.fatal

(* Until it is registered the connection has only that task in the queue,   *)
(* nobody else knows it and nothing has been written to it.  Events are     *)
(* those of a registered connection.                                        *)
PlaceInv ==
  /\ conn.connected /\ ~conn.registered =>
       /\ tasks = <<[op |-> "register"]>> /\ \A c \in Callers : callPC[c] = "idle"
       /\ conn.outBuf = <<>> /\ conn.interest = "R"
  /\ ~(conn.connected /\ ~conn.registered) =>
       \A i \in 1 .. Len(tasks) : tasks[i].op # "register"
  /\ events # {} => loopPC = "event" /\ conn.registered

(* What is left of the peer's bytes when it resets the connection. *)
ResetInv == peer = "reset" => rcv = <<>>

(* The inductive invariant. *)
ConnectionInv ==
  TypeOK /\ Sound(conn) /\ PlaceInv /\ OutputIntact /\ InputIntact /\ ResetInv
-----------------------------------------------------------------------------
(* The methods on the connection object *)

(* handleClose of a registered connection. *)
LEMMA HandleCloseEffect ==
  ASSUME NEW c \in Objects, Sound(c), c.registered \/ ~c.connected
  PROVE  /\ HandleClose(c) \in Objects /\ Sound(HandleClose(c))
         /\ ~HandleClose(c).connected /\ ~HandleClose(c).registered
         /\ HandleClose(c).frameLen = c.frameLen
         /\ HandleClose(c).inBuf = c.inBuf
         /\ ~c.connected => HandleClose(c) = c
<1>1. CASE c.connected
  <2> DEFINE d == [c EXCEPT !.connected = FALSE, !.fatal = ~c.registered,
                            !.registered = FALSE, !.closes = @ + 1, !.fdOpen = FALSE]
  <2>1. HandleClose(c) = d
    BY <1>1 DEF HandleClose
  <2>0. c.closes + 1 \in Nat /\ (~c.registered) \in BOOLEAN
    BY DEF Objects
  <2>a. d \in Objects
    BY <2>0 DEF Objects
  <2>2. /\ ~d.connected /\ ~d.registered /\ d.closes = c.closes + 1
        /\ d.frameLen = c.frameLen /\ d.inBuf = c.inBuf /\ d.fatal = ~c.registered
    BY DEF Objects
  <2>3. Sound(d)
    BY <1>1, <2>2 DEF Sound, Objects
  <2> HIDE DEF d
  <2> QED
    BY <1>1, <2>1, <2>a, <2>2, <2>3
<1>2. CASE ~c.connected
  BY <1>2 DEF HandleClose, Sound
<1> QED
  BY <1>1, <1>2

(* Publish changes no more than the published length. *)
LEMMA PublishEffect ==
  ASSUME NEW c \in Objects
  PROVE  /\ Publish(c) \in Objects
         /\ Sound(c) => Sound(Publish(c))
         /\ Publish(c).connected = c.connected /\ Publish(c).registered = c.registered
         /\ Publish(c).frameLen = c.frameLen /\ Publish(c).interest = c.interest
         /\ Publish(c).inBuf = c.inBuf /\ Publish(c).outBuf = c.outBuf
         /\ ~c.connected => Publish(c) = c
<1>1. CASE c.connected
  <2> DEFINE d == [c EXCEPT !.outBufLen = Len(c.outBuf)]
  <2>1. Len(c.outBuf) \in Nat
    BY LenProperties DEF Objects, Bytes
  <2>2. Publish(c) = d
    BY <1>1 DEF Publish
  <2>3. d \in Objects
    BY <2>1 DEF Objects
  <2>4. /\ d.connected = c.connected /\ d.registered = c.registered
        /\ d.frameLen = c.frameLen /\ d.interest = c.interest
        /\ d.inBuf = c.inBuf /\ d.outBuf = c.outBuf /\ d.closes = c.closes
        /\ d.fatal = c.fatal
    BY DEF Objects
  <2> HIDE DEF d
  <2> QED
    BY <1>1, <2>2, <2>3, <2>4 DEF Sound
<1>2. CASE ~c.connected
  BY <1>2 DEF Publish
<1> QED
  BY <1>1, <1>2

(* What is left of a write, and that the bytes taken and those left are the *)
(* bytes given.                                                             *)
LEMMA RestOfWrite ==
  ASSUME NEW data \in Bytes, NEW w \in 0 .. Len(data)
  PROVE  /\ SubSeq(data, 1, w) \in Bytes /\ SubSeq(data, w + 1, Len(data)) \in Bytes
         /\ SubSeq(data, 1, w) \o SubSeq(data, w + 1, Len(data)) = data
         /\ w = 0 => SubSeq(data, w + 1, Len(data)) = data
<1>1. w = 0 => SubSeq(data, w + 1, Len(data)) = data
  BY SubSeqFull DEF Bytes
<1> QED
  BY <1>1, CutInTwo DEF Bytes

(* sendInLoop of a registered connection keeps it sound; what the socket    *)
(* does not take of the data is behind what is in outBuf already.           *)
LEMMA SendInLoopEffect ==
  ASSUME NEW c \in Objects, Sound(c), c.registered, NEW data \in Bytes,
         NEW w \in {-1} \cup 0 .. Len(data), c.outBuf # <<>> => w = 0
  PROVE  /\ SendInLoop(c, data, w) \in Objects /\ Sound(SendInLoop(c, data, w))
         /\ SendInLoop(c, data, w).frameLen = c.frameLen
         /\ SendInLoop(c, data, w).inBuf = c.inBuf
         /\ w = -1 => /\ ~SendInLoop(c, data, w).connected
                      /\ ~SendInLoop(c, data, w).registered
         /\ w # -1 => /\ SendInLoop(c, data, w).connected
                      /\ SendInLoop(c, data, w).registered
                      /\ SendInLoop(c, data, w).outBuf =
                           c.outBuf \o SubSeq(data, w + 1, Len(data))
<1>0. c.outBuf \in Bytes /\ c.connected /\ Len(data) \in Nat
  BY LenProperties DEF Objects, Sound, Bytes
<1>1. CASE c.outBuf # <<>>
  <2> DEFINE d == [c EXCEPT !.outBuf = c.outBuf \o data]
  <2>1. SendInLoop(c, data, w) = d /\ w = 0
    BY <1>1 DEF SendInLoop
  <2>2. c.outBuf \o data \in Bytes /\ c.outBuf \o data # <<>>
    BY <1>0, <1>1, ConcatProperties, ConcatEqualIffEmpty DEF Bytes
  <2>3. /\ d \in Objects /\ d.outBuf = c.outBuf \o data
        /\ d.connected = c.connected /\ d.registered = c.registered
        /\ d.frameLen = c.frameLen /\ d.interest = c.interest
        /\ d.inBuf = c.inBuf /\ d.closes = c.closes /\ d.fatal = c.fatal
    BY <2>2 DEF Objects
  <2>4. SubSeq(data, w + 1, Len(data)) = data
    BY <2>1, RestOfWrite, <1>0
  <2> HIDE DEF d
  <2>5. Sound(d)
    BY <1>0, <1>1, <2>2, <2>3 DEF Sound
  <2> PICK rest \in Bytes : rest = SubSeq(data, w + 1, Len(data))
    BY <2>4
  <2>6. d.outBuf = c.outBuf \o rest
    BY <2>3, <2>4
  <2>7. w # -1
    BY <2>1
  <2> QED
    BY <1>0, <2>1, <2>3, <2>5, <2>6, <2>7
<1>2. CASE c.outBuf = <<>> /\ w = -1
  <2>1. SendInLoop(c, data, w) = HandleClose(c)
    BY <1>2 DEF SendInLoop
  <2> QED
    BY <1>2, <2>1, HandleCloseEffect
<1>3. CASE c.outBuf = <<>> /\ w # -1
  <2> PICK rest \in Bytes : rest = SubSeq(data, w + 1, Len(data))
    BY <1>3, RestOfWrite
  <2> DEFINE d == [c EXCEPT !.outBuf = rest, !.interest = IF rest # <<>> THEN "RW" ELSE @]
  <2>1. SendInLoop(c, data, w) = d
    BY <1>3 DEF SendInLoop
  <2>2. /\ d \in Objects /\ d.outBuf = rest
        /\ d.connected = c.connected /\ d.registered = c.registered
        /\ d.frameLen = c.frameLen
        /\ d.interest = IF rest # <<>> THEN "RW" ELSE c.interest
        /\ d.inBuf = c.inBuf /\ d.closes = c.closes /\ d.fatal = c.fatal
    BY DEF Objects
  <2>3. c.interest = "R"
    BY <1>3 DEF Sound, Objects
  <2>4. c.outBuf \o rest = rest
    BY <1>3, ConcatEmptySeq DEF Bytes
  <2> HIDE DEF d
  <2>5. Sound(d)
    BY <1>0, <2>2, <2>3 DEF Sound
  <2> QED
    BY <1>0, <1>3, <2>1, <2>2, <2>4, <2>5
<1> QED
  BY <1>1, <1>2, <1>3

(* handleWrite of a registered connection with something to write. *)
LEMMA HandleWriteEffect ==
  ASSUME NEW c \in Objects, Sound(c), c.registered, c.outBuf # <<>>,
         NEW w \in {-1} \cup 0 .. Len(c.outBuf)
  PROVE  /\ HandleWrite(c, w) \in Objects /\ Sound(HandleWrite(c, w))
         /\ HandleWrite(c, w).frameLen = c.frameLen
         /\ HandleWrite(c, w).inBuf = c.inBuf
         /\ w = -1 => /\ ~HandleWrite(c, w).connected
                      /\ ~HandleWrite(c, w).registered
         /\ w # -1 => /\ HandleWrite(c, w).connected
                      /\ HandleWrite(c, w).registered
                      /\ HandleWrite(c, w).outBuf =
                           SubSeq(c.outBuf, w + 1, Len(c.outBuf))
<1>0. c.outBuf \in Bytes /\ c.connected /\ Len(c.outBuf) \in Nat
  BY LenProperties DEF Objects, Sound, Bytes
<1>1. CASE w = -1
  <2>1. HandleWrite(c, w) = HandleClose(c)
    BY <1>1 DEF HandleWrite
  <2> QED
    BY <1>1, <2>1, HandleCloseEffect
<1>2. CASE w # -1
  <2> PICK rest \in Bytes : rest = SubSeq(c.outBuf, w + 1, Len(c.outBuf))
    BY <1>0, <1>2, RestOfWrite
  <2> DEFINE d == [c EXCEPT !.outBuf = rest, !.interest = IF rest = <<>> THEN "R" ELSE @]
  <2>1. HandleWrite(c, w) = d
    BY <1>2 DEF HandleWrite
  <2>2. /\ d \in Objects /\ d.outBuf = rest
        /\ d.connected = c.connected /\ d.registered = c.registered
        /\ d.frameLen = c.frameLen
        /\ d.interest = IF rest = <<>> THEN "R" ELSE c.interest
        /\ d.inBuf = c.inBuf /\ d.closes = c.closes /\ d.fatal = c.fatal
    BY DEF Objects
  <2> HIDE DEF d
  <2>3. Sound(d)
    BY <1>0, <2>2 DEF Sound
  <2> QED
    BY <1>0, <1>2, <2>1, <2>2, <2>3
<1> QED
  BY <1>1, <1>2
-----------------------------------------------------------------------------
(* The protocol and the socket *)

(* A write returns an error or how many bytes it took. *)
LEMMA WriteResultsBound ==
  ASSUME TypeOK, NEW len \in Nat, NEW w \in WriteResults(len)
  PROVE  w \in {-1} \cup 0 .. len
<1>1. Len(wire) - got \in Int /\ SndCap \in Nat
  BY LenProperties, ConnectionAssumption DEF TypeOK, Bytes
<1> QED
  BY <1>1 DEF WriteResults

(* The bytes of n replies. *)
LEMMA FreshBytes ==
  ASSUME TypeOK, NEW n \in Nat
  PROVE  Fresh(n) \in Bytes /\ made + n * ReplyLen \in Nat
<1>1. n * ReplyLen \in Nat /\ made \in Nat
  BY ConnectionAssumption DEF TypeOK
<1> DEFINE k == n * ReplyLen
<1> HIDE DEF k
<1>2. [i \in 1 .. k |-> made + i] \in [1 .. k -> Nat] /\ k \in Nat
  BY <1>1 DEF k
<1>3. [i \in 1 .. k |-> made + i] \in Seq(Nat)
  BY <1>2, SeqDef
<1> QED
  BY <1>1, <1>3 DEF Fresh, Bytes, k

(* FramesFlatten for bytes. *)
LEMMA FramesOfBytes ==
  ASSUME NEW b \in Bytes, NEW L \in Nat \ {0}, NEW q \in Nat, q * L <= Len(b)
  PROVE  /\ Frames(b, L, q) \in Seq(Bytes) /\ Len(Frames(b, L, q)) = q
         /\ \A k \in 1 .. q : Len(Frames(b, L, q)[k]) = L
         /\ FlattenSeq(Frames(b, L, q)) = SubSeq(b, 1, q * L)
<1>1. b \in Seq(Nat) /\ L \in Nat \ {0} /\ q \in Nat /\ q * L <= Len(b)
  BY DEF Bytes
<1>2. /\ Frames(b, L, q) \in Seq(Seq(Nat)) /\ Len(Frames(b, L, q)) = q
      /\ \A k \in 1 .. q : Len(Frames(b, L, q)[k]) = L
      /\ FlattenSeq(Frames(b, L, q)) = SubSeq(b, 1, q * L)
  BY <1>1, FramesFlatten
<1> QED
  BY <1>2 DEF Bytes

(* UnPacket cuts a buffer into messages and a rest, and loses nothing: the  *)
(* messages of a framed protocol are whole frames, and the rest is less.    *)
LEMMA UnpackCuts ==
  ASSUME conn \in Objects, NEW b \in Bytes
  PROVE  /\ Unpacked(b) \in Seq(Bytes) /\ Leftover(b) \in Bytes
         /\ FlattenSeq(Unpacked(b)) \in Bytes
         /\ FlattenSeq(Unpacked(b)) \o Leftover(b) = b
         /\ conn.frameLen > 0 =>
              /\ \A k \in 1 .. Len(Unpacked(b)) : Len(Unpacked(b)[k]) = conn.frameLen
              /\ Len(Leftover(b)) < conn.frameLen
<1> PICK L \in Nat : L = conn.frameLen
  BY ConnectionAssumption DEF Objects
<1>0. Len(b) \in Nat /\ <<>> \in Seq(Bytes) /\ <<>> \in Bytes /\ FlattenSeq(<<>>) = <<>>
  <2>1. <<>> \in Seq(Seq(Nat)) /\ Len(<<>>) = 0
    BY EmptySeq
  <2> QED
    BY <2>1, EmptySeq, LenProperties, FlattenIs DEF Bytes
<1>1. CASE L = 0 /\ b = <<>>
  <2>1. Unpacked(b) = <<>> /\ Leftover(b) = <<>>
    BY <1>1 DEF Unpacked, Leftover
  <2>2. <<>> \o <<>> = <<>>
    BY <1>0, ConcatEmptySeq DEF Bytes
  <2>3. /\ FlattenSeq(Unpacked(b)) \in Bytes
        /\ FlattenSeq(Unpacked(b)) \o Leftover(b) = b
    BY <1>0, <1>1, <2>1, <2>2
  <2>4. ~(conn.frameLen > 0)
    BY <1>1
  <2> QED
    BY <1>0, <2>1, <2>3, <2>4
<1>2. CASE L = 0 /\ b # <<>>
  <2>1. Unpacked(b) = <<b>> /\ Leftover(b) = <<>>
    BY <1>2 DEF Unpacked, Leftover
  <2>2. <<b>> \in Seq(Bytes) /\ <<b>> = Append(<<>>, b)
    BY <1>0
  <2>3. FlattenSeq(<<b>>) = b
    <3>1. FlattenSeq(Append(<<>>, b)) = FlattenSeq(<<>>) \o b
      BY <1>0, FlattenAppend DEF Bytes
    <3>2. <<>> \o b = b
      BY ConcatEmptySeq DEF Bytes
    <3> QED
      BY <1>0, <2>2, <3>1, <3>2
  <2> QED
    BY <1>0, <1>2, <2>1, <2>2, <2>3, ConcatEmptySeq DEF Bytes
<1>3. CASE L # 0
  <2>a. PICK q \in Nat : q = Len(b) \div L
    BY <1>0, <1>3, DivBounds
  <2>0. L \in Nat \ {0}
    BY <1>3
  <2>1. q * L <= Len(b) /\ Len(b) < q * L + L /\ q * L \in Nat
    <3>1. q * L <= Len(b) /\ Len(b) < q * L + L
      BY <1>0, <2>a, <2>0, DivBounds
    <3>2. q * L \in Nat
      BY <2>a
    <3> QED
      BY <3>1, <3>2
  <2>2. Unpacked(b) = Frames(b, L, q) /\ Leftover(b) = SubSeq(b, q * L + 1, Len(b))
    BY <1>3, <2>a DEF Unpacked, Leftover, Frames
  <2>3. /\ Frames(b, L, q) \in Seq(Bytes) /\ Len(Frames(b, L, q)) = q
        /\ \A k \in 1 .. q : Len(Frames(b, L, q)[k]) = L
        /\ FlattenSeq(Frames(b, L, q)) = SubSeq(b, 1, q * L)
    <3>1. q \in Nat /\ q * L <= Len(b)
      BY <2>a, <2>1
    <3> HIDE <2>a
    <3> QED
      BY <2>0, <3>1, FramesOfBytes
  <2> PICK m \in Nat : m = q * L
    BY <2>1
  <2>4. /\ SubSeq(b, 1, m) \in Bytes /\ SubSeq(b, m + 1, Len(b)) \in Bytes
        /\ Len(SubSeq(b, m + 1, Len(b))) = Len(b) - m
        /\ SubSeq(b, 1, m) \o SubSeq(b, m + 1, Len(b)) = b
    <3>1. m \in 0 .. Len(b)
      BY <1>0, <2>1
    <3> QED
      BY <3>1, CutInTwo DEF Bytes
  <2>5. FlattenSeq(Unpacked(b)) = SubSeq(b, 1, m) /\ Leftover(b) = SubSeq(b, m + 1, Len(b))
    BY <2>2, <2>3
  <2>6. Len(b) - m < L
    BY <1>0, <2>1
  <2> QED
    BY <2>2, <2>3, <2>4, <2>5, <2>6
<1> QED
  BY <1>1, <1>2, <1>3

(* Concatenation of bytes. *)
LEMMA BytesThree ==
  /\ \A s, t, u \in Bytes : (s \o t) \o u = s \o (t \o u)
  /\ \A s, t \in Bytes : /\ s \o t \in Bytes /\ Len(s \o t) = Len(s) + Len(t)
                         /\ Len(s) \in Nat /\ Len(t) \in Nat
  /\ \A s \in Bytes : s \o <<>> = s /\ <<>> \o s = s
<1>1. \A s, t, u \in Bytes : (s \o t) \o u = s \o (t \o u)
  BY ConcatThree DEF Bytes
<1>2. \A s, t \in Bytes : /\ s \o t \in Bytes /\ Len(s \o t) = Len(s) + Len(t)
                          /\ Len(s) \in Nat /\ Len(t) \in Nat
  BY ConcatProperties, LenProperties DEF Bytes
<1>3. \A s \in Bytes : s \o <<>> = s /\ <<>> \o s = s
  BY ConcatEmptySeq DEF Bytes
<1> QED
  BY <1>1, <1>2, <1>3

(* Its associativity alone. *)
LEMMA BytesAssoc ==
  ASSUME NEW s \in Bytes, NEW t \in Bytes, NEW u \in Bytes
  PROVE  (s \o t) \o u = s \o (t \o u)
BY BytesThree

(* One byte more. *)
LEMMA BytesAppend ==
  ASSUME NEW s \in Bytes, NEW e \in Nat
  PROVE  <<e>> \in Bytes /\ Append(s, e) = s \o <<e>> /\ Append(s, e) \in Bytes
BY AppendIsConcat, AppendProperties DEF Bytes

(* sendInLoop with its effect on the socket: while the connection is open   *)
(* the data comes, in order, behind what has been written and buffered; an  *)
(* error closes it and writes nothing.                                      *)
LEMMA DoSendEffect ==
  ASSUME TypeOK, NEW c \in Objects, Sound(c), c.registered, NEW data \in Bytes,
         NEW inEvent \in BOOLEAN, DoSend(c, data, inEvent)
  PROVE  /\ conn' \in Objects /\ Sound(conn') /\ wire' \in Bytes
         /\ conn'.frameLen = c.frameLen /\ conn'.inBuf = c.inBuf
         /\ conn'.connected = conn'.registered
         /\ conn'.connected => wire' \o conn'.outBuf = (wire \o c.outBuf) \o data
         /\ ~conn'.connected => wire' = wire
         /\ Len(wire) <= Len(wire')
<1>0. wire \in Bytes /\ c.outBuf \in Bytes /\ Len(data) \in Nat /\ Len(wire) \in Nat
  BY LenProperties DEF TypeOK, Objects, Bytes
<1>1. ASSUME NEW d \in Objects, Sound(d), d.frameLen = c.frameLen, d.inBuf = c.inBuf,
             d.connected = d.registered, conn' = IF inEvent THEN Publish(d) ELSE d
      PROVE  /\ conn' \in Objects /\ Sound(conn')
             /\ conn'.frameLen = c.frameLen /\ conn'.inBuf = c.inBuf
             /\ conn'.connected = conn'.registered /\ conn'.connected = d.connected
             /\ conn'.outBuf = d.outBuf
  <2>1. CASE inEvent
    BY <1>1, <2>1, PublishEffect
  <2>2. CASE ~inEvent
    BY <1>1, <2>2
  <2> QED
    BY <2>1, <2>2
<1>2. CASE c.outBuf # <<>>
  <2>1. conn' = (IF inEvent THEN Publish(SendInLoop(c, data, 0)) ELSE SendInLoop(c, data, 0))
        /\ wire' = wire
    BY <1>2 DEF DoSend
  <2>2. /\ SendInLoop(c, data, 0) \in Objects /\ Sound(SendInLoop(c, data, 0))
        /\ SendInLoop(c, data, 0).frameLen = c.frameLen
        /\ SendInLoop(c, data, 0).inBuf = c.inBuf
        /\ SendInLoop(c, data, 0).connected /\ SendInLoop(c, data, 0).registered
        /\ SendInLoop(c, data, 0).outBuf = c.outBuf \o SubSeq(data, 1, Len(data))
    <3>0. PICK w \in {-1} \cup 0 .. Len(data) : w = 0
      BY <1>0
    <3>a. (c.outBuf # <<>> => w = 0) /\ w # -1
      BY <3>0
    <3>1. /\ SendInLoop(c, data, w) \in Objects /\ Sound(SendInLoop(c, data, w))
          /\ SendInLoop(c, data, w).frameLen = c.frameLen
          /\ SendInLoop(c, data, w).inBuf = c.inBuf
          /\ SendInLoop(c, data, w).connected /\ SendInLoop(c, data, w).registered
          /\ SendInLoop(c, data, w).outBuf = c.outBuf \o SubSeq(data, w + 1, Len(data))
      BY <3>0, <3>a, SendInLoopEffect
    <3>2. w = 0 /\ w + 1 = 1
      BY <3>0
    <3> QED
      BY <3>1, <3>2
  <2>3. SubSeq(data, 1, Len(data)) = data
    BY SubSeqFull DEF Bytes
  <2> PICK d \in Objects : d = SendInLoop(c, data, 0)
    BY <2>2
  <2>4. /\ Sound(d) /\ d.frameLen = c.frameLen /\ d.inBuf = c.inBuf
        /\ d.connected /\ d.registered /\ d.outBuf = c.outBuf \o data
    BY <2>2, <2>3
  <2>5. conn' = IF inEvent THEN Publish(d) ELSE d
    BY <2>1
  <2>6. wire \o (c.outBuf \o data) = (wire \o c.outBuf) \o data
    BY <1>0, BytesThree
  <2>7. /\ conn' \in Objects /\ Sound(conn')
        /\ conn'.frameLen = c.frameLen /\ conn'.inBuf = c.inBuf
        /\ conn'.connected = conn'.registered /\ conn'.connected = d.connected
        /\ conn'.outBuf = d.outBuf
    BY <1>1, <2>4, <2>5
  <2>8. wire' \in Bytes /\ Len(wire) <= Len(wire')
    BY <1>0, <2>1
  <2>9. wire' \o conn'.outBuf = (wire \o c.outBuf) \o data
    BY <2>1, <2>4, <2>6, <2>7
  <2> HIDE DEF Sound
  <2> QED
    BY <2>4, <2>7, <2>8, <2>9
<1>3. CASE c.outBuf = <<>>
  <2>1. PICK w \in WriteResults(Len(data)) :
          /\ conn' = IF inEvent THEN Publish(SendInLoop(c, data, w))
                     ELSE SendInLoop(c, data, w)
          /\ wire' = IF w > 0 THEN wire \o SubSeq(data, 1, w) ELSE wire
    BY <1>3 DEF DoSend
  <2>2. w \in {-1} \cup 0 .. Len(data)
    BY <1>0, WriteResultsBound
  <2>3. /\ SendInLoop(c, data, w) \in Objects /\ Sound(SendInLoop(c, data, w))
        /\ SendInLoop(c, data, w).frameLen = c.frameLen
        /\ SendInLoop(c, data, w).inBuf = c.inBuf
        /\ w = -1 => /\ ~SendInLoop(c, data, w).connected
                     /\ ~SendInLoop(c, data, w).registered
        /\ w # -1 => /\ SendInLoop(c, data, w).connected
                     /\ SendInLoop(c, data, w).registered
                     /\ SendInLoop(c, data, w).outBuf =
                          c.outBuf \o SubSeq(data, w + 1, Len(data))
    BY <1>3, <2>2, SendInLoopEffect
  <2> PICK d \in Objects : d = SendInLoop(c, data, w)
    BY <2>3
  <2>4. conn' = IF inEvent THEN Publish(d) ELSE d
    BY <2>1
  <2>5. CASE w = -1
    <3>1. ~d.connected /\ ~d.registered /\ wire' = wire
      BY <2>1, <2>3, <2>5
    <3>2. /\ conn' \in Objects /\ Sound(conn')
          /\ conn'.frameLen = c.frameLen /\ conn'.inBuf = c.inBuf
          /\ conn'.connected = conn'.registered /\ conn'.connected = d.connected
      <4>1. Sound(d) /\ d.frameLen = c.frameLen /\ d.inBuf = c.inBuf
        BY <2>3
      <4>2. d.connected = d.registered
        BY <3>1 DEF Objects
      <4> QED
        BY <1>1, <2>4, <4>1, <4>2
    <3> QED
      BY <1>0, <3>1, <3>2
  <2>6. CASE w \in 0 .. Len(data)
    <3>0. PICK a \in Bytes, r \in Bytes :
          a = SubSeq(data, 1, w) /\ r = SubSeq(data, w + 1, Len(data))
      BY <2>6, RestOfWrite
    <3>1. a \o r = data /\ (w = 0 => r = data)
      BY <2>6, <3>0, RestOfWrite
    <3>2. d.connected /\ d.registered /\ d.outBuf = r
      <4>1. <<>> \o r = r
        BY <3>0, BytesThree
      <4> QED
        BY <1>3, <2>3, <2>6, <3>0, <4>1
    <3>3. wire \o c.outBuf = wire
      BY <1>0, <1>3, ConcatEmptySeq DEF Bytes
    <3>4. wire' \in Bytes /\ Len(wire) <= Len(wire') /\ wire' \o r = wire \o data
      <4>1. CASE w > 0
        <5>1. wire' = wire \o a
          BY <2>1, <3>0, <4>1
        <5>2. wire \o a \in Bytes /\ Len(wire \o a) = Len(wire) + Len(a) /\ Len(a) \in Nat
          BY <1>0, <3>0, BytesThree
        <5>3. (wire \o a) \o r = wire \o (a \o r)
          <6>1. wire \in Bytes /\ a \in Bytes /\ r \in Bytes
            BY <1>0, <3>0
          <6> QED
            BY <6>1, BytesThree
        <5>4. Len(wire) <= Len(wire \o a)
          BY <1>0, <5>2
        <5> QED
          BY <3>1, <5>1, <5>2, <5>3, <5>4
      <4>2. CASE w = 0
        <5>1. wire' = wire /\ r = data
          BY <2>1, <3>1, <4>2
        <5>2. Len(wire) <= Len(wire)
          BY <1>0
        <5> QED
          BY <1>0, <5>1, <5>2
      <4>3. w > 0 \/ w = 0
        BY <2>6, <1>0
      <4> QED
        BY <4>1, <4>2, <4>3
    <3> QED
      BY <1>1, <2>3, <2>4, <3>2, <3>3, <3>4
  <2> QED
    BY <2>2, <2>5, <2>6
<1> QED
  BY <1>2, <1>3
-----------------------------------------------------------------------------
(* The parts of the invariant that an action leaves alone *)

(* The output is intact after a step that writes nothing and does not touch *)
(* outBuf, unless it closes.                                                *)
LEMMA OutputSame ==
  ASSUME OutputIntact, wire' = wire, out' = out,
         conn'.connected => conn.connected /\ conn'.outBuf = conn.outBuf
  PROVE  OutputIntact'
BY DEF OutputIntact

(* The input is intact after a step that reads nothing, unless it closes. *)
LEMMA InputSame ==
  ASSUME InputIntact, rcv' = rcv, peer' = peer, peerSent' = peerSent,
         delivered' = delivered, conn'.inBuf = conn.inBuf,
         conn'.frameLen = conn.frameLen, conn'.connected => conn.connected
  PROVE  InputIntact'
BY DEF InputIntact

(* The connection is known to others: it is registered, or closed already. *)
Known(c) == c.connected => c.registered

(* Once the connection is known, its place depends on the tasks and on the  *)
(* events that are left.                                                    *)
LEMMA PlaceKnown ==
  ASSUME Known(conn'), \A i \in 1 .. Len(tasks') : tasks'[i].op # "register",
         events' = {}
  PROVE  PlaceInv'
BY DEF Known, PlaceInv

(* No task of a known connection registers it. *)
LEMMA NoRegister ==
  ASSUME PlaceInv, Known(conn)
  PROVE  \A i \in 1 .. Len(tasks) : tasks[i].op # "register"
BY DEF Known, PlaceInv

(* What EndEvent leaves. *)
LEMMA EndEventEffect ==
  ASSUME TypeOK, EndEvent
  PROVE  /\ loopPC' \in {"wait", "event", "tasks"} /\ events' = {} /\ woken' \in BOOLEAN
         /\ left' \in 0 .. Len(tasks) /\ tasks' = tasks
         /\ callPC' = callPC /\ calls' = calls
<1>1. Len(tasks) \in Nat /\ woken \in BOOLEAN
  BY LenProperties DEF TypeOK
<1>2. /\ events' = {} /\ woken' = FALSE /\ tasks' = tasks /\ callPC' = callPC
      /\ calls' = calls
      /\ loopPC' = IF woken THEN "tasks" ELSE "wait"
      /\ left' = IF woken THEN Len(tasks) ELSE 0
  BY DEF EndEvent, appVars
<1>3. loopPC' \in {"wait", "tasks"} /\ left' \in {0, Len(tasks)}
  BY <1>2
<1>4. woken' \in BOOLEAN
  BY <1>2
<1> QED
  BY <1>1, <1>2, <1>3, <1>4

(* What the end of a task leaves. *)
LEMMA TaskDoneEffect ==
  ASSUME TypeOK, loopPC = "tasks", left > 0, TaskDone
  PROVE  /\ tasks # <<>> /\ Len(tasks) \in Nat \ {0} /\ Head(tasks) = tasks[1]
         /\ Head(tasks) \in TaskSet
         /\ tasks' \in Seq(TaskSet) /\ left' \in 0 .. Len(tasks')
         /\ Len(tasks') = Len(tasks) - 1
         /\ \A i \in 1 .. Len(tasks') : tasks'[i] = tasks[i + 1]
<1>1. tasks \in Seq(TaskSet) /\ left \in 0 .. Len(tasks) /\ Len(tasks) \in Nat
  BY LenProperties DEF TypeOK, TaskSet
<1>2. tasks # <<>> /\ Len(tasks) \in Nat \ {0}
  BY <1>1, EmptySeq
<1>3. tasks' = Tail(tasks) /\ left' = left - 1
  BY DEF TaskDone
<1>4. /\ Head(tasks) = tasks[1] /\ Head(tasks) \in TaskSet
      /\ Tail(tasks) \in Seq(TaskSet) /\ Len(Tail(tasks)) = Len(tasks) - 1
      /\ \A i \in 1 .. Len(Tail(tasks)) : Tail(tasks)[i] = tasks[i + 1]
  BY <1>1, <1>2, HeadTailProperties
<1> QED
  BY <1>1, <1>2, <1>3, <1>4

(* A task after those queued: the queue stays well formed, and has no       *)
(* registration if neither the queue nor the task was one.                  *)
LEMMA AppendTask ==
  ASSUME TypeOK, NEW t \in TaskSet, tasks' = Append(tasks, t), left' = left,
         t.op # "register", \A i \in 1 .. Len(tasks) : tasks[i].op # "register"
  PROVE  /\ tasks' \in Seq(TaskSet) /\ left' \in 0 .. Len(tasks')
         /\ \A i \in 1 .. Len(tasks') : tasks'[i].op # "register"
<1>1. tasks \in Seq(TaskSet) /\ left \in 0 .. Len(tasks) /\ Len(tasks) \in Nat
  BY LenProperties DEF TypeOK, TaskSet
<1>2. /\ tasks' \in Seq(TaskSet) /\ Len(tasks') = Len(tasks) + 1
      /\ \A i \in 1 .. Len(tasks) : tasks'[i] = tasks[i]
      /\ tasks'[Len(tasks) + 1] = t
  BY <1>1, AppendProperties
<1>3. \A i \in 1 .. Len(tasks') : i \in 1 .. Len(tasks) \/ i = Len(tasks) + 1
  BY <1>1, <1>2
<1> QED
  BY <1>1, <1>2, <1>3

(* A connection somebody else may call is known. *)
LEMMA CalledIsKnown ==
  ASSUME PlaceInv, NEW c \in Callers,
         callPC[c] # "idle" \/ [op |-> "register"] \notin Range(tasks)
  PROVE  Known(conn)
<1> SUFFICES ASSUME ~Known(conn) PROVE FALSE
  OBVIOUS
<1>1. tasks = <<[op |-> "register"]>> /\ callPC[c] = "idle"
  BY DEF PlaceInv, Known
<1>2. [op |-> "register"] \in Range(tasks)
  BY <1>1 DEF Range
<1> QED
  BY <1>1, <1>2
-----------------------------------------------------------------------------
(* The loop's steps *)

(* EpollWait returns. *)
LEMMA EpollReturnsStep ==
  ASSUME ConnectionInv, EpollReturns
  PROVE  ConnectionInv'
<1>1. events' \subseteq {"Err", "Write", "Read"} /\ woken' \in BOOLEAN
  BY DEF EpollReturns, Translate
<1>2. events' # {} => conn.registered
  BY DEF EpollReturns
<1>3. /\ loopPC' = "event"
      /\ UNCHANGED <<conn, tasks, left, callPC, calls, netVars, histVars>>
  BY DEF EpollReturns, appVars
<1>4. TypeOK'
  BY <1>1, <1>3 DEF ConnectionInv, TypeOK, netVars, histVars
<1>5. PlaceInv'
  BY <1>2, <1>3 DEF ConnectionInv, PlaceInv
<1>6. OutputIntact' /\ InputIntact' /\ ResetInv' /\ Sound(conn')
  BY <1>3, OutputSame, InputSame DEF ConnectionInv, netVars, histVars, ResetInv
<1> QED
  BY <1>4, <1>5, <1>6 DEF ConnectionInv

(* A step of the loop that changes only the connection object, without      *)
(* making it unsound or opening it, and leaves the buffers alone.           *)
LEMMA QuietStep ==
  ASSUME ConnectionInv, conn' \in Objects, Sound(conn'), Known(conn),
         conn'.connected => conn.connected /\ conn'.registered
                              /\ conn'.outBuf = conn.outBuf,
         conn'.inBuf = conn.inBuf, conn'.frameLen = conn.frameLen,
         EndEvent, UNCHANGED <<netVars, histVars>>
  PROVE  ConnectionInv'
<1>1. /\ loopPC' \in {"wait", "event", "tasks"} /\ events' = {} /\ woken' \in BOOLEAN
      /\ left' \in 0 .. Len(tasks) /\ tasks' = tasks
      /\ callPC' = callPC /\ calls' = calls
  BY EndEventEffect DEF ConnectionInv
<1>2. TypeOK'
  BY <1>1 DEF ConnectionInv, TypeOK, netVars, histVars, Objects
<1>3. PlaceInv'
  BY <1>1, NoRegister, PlaceKnown DEF ConnectionInv, Known
<1>4. OutputIntact' /\ InputIntact' /\ ResetInv'
  BY OutputSame, InputSame DEF ConnectionInv, netVars, histVars, ResetInv
<1> QED
  BY <1>2, <1>3, <1>4 DEF ConnectionInv

(* The object of the state is one, and what an event finds. *)
LEMMA ObjectFacts ==
  ASSUME ConnectionInv
  PROVE  /\ conn \in Objects /\ Sound(conn)
         /\ events # {} => conn.registered /\ conn.connected /\ Known(conn)
<1>1. conn \in Objects
  BY DEF ConnectionInv, TypeOK, Objects
<1> QED
  BY <1>1 DEF ConnectionInv, PlaceInv, Sound, Known

(* The steps of the loop that close the connection. *)
LEMMA ClosingStep ==
  ASSUME ConnectionInv, HandleErr \/ HandleReadEnd
  PROVE  ConnectionInv'
<1>1. events # {} /\ conn' = HandleClose(conn) /\ EndEvent /\ UNCHANGED <<netVars, histVars>>
  BY DEF HandleErr, HandleReadEnd, Reads
<1> QED
  BY <1>1, ObjectFacts, HandleCloseEffect, QuietStep

(* The steps of the loop that at most publish the length. *)
LEMMA PublishingStep ==
  ASSUME ConnectionInv, HandleReadAgain \/ HandleNothing
  PROVE  ConnectionInv'
<1>1. EndEvent /\ UNCHANGED <<netVars, histVars>>
  BY DEF HandleReadAgain, HandleNothing
<1>2. CASE events # {}
  <2>1. conn' = Publish(conn)
    BY <1>2 DEF HandleReadAgain, HandleNothing
  <2> QED
    BY <1>1, <1>2, <2>1, ObjectFacts, PublishEffect, QuietStep
<1>3. CASE events = {}
  <2>1. conn' = conn
    BY <1>3 DEF HandleReadAgain, HandleNothing, Reads
  <2>2. /\ loopPC' \in {"wait", "event", "tasks"} /\ events' = {} /\ woken' \in BOOLEAN
        /\ left' \in 0 .. Len(tasks) /\ tasks' = tasks
        /\ callPC' = callPC /\ calls' = calls
    BY <1>1, EndEventEffect DEF ConnectionInv
  <2>3. TypeOK'
    BY <1>1, <2>1, <2>2 DEF ConnectionInv, TypeOK, netVars, histVars
  <2>4. PlaceInv'
    BY <2>1, <2>2 DEF ConnectionInv, PlaceInv
  <2>5. OutputIntact' /\ InputIntact' /\ ResetInv' /\ Sound(conn')
    BY <1>1, <2>1, OutputSame, InputSame DEF ConnectionInv, netVars, histVars, ResetInv
  <2> QED
    BY <2>3, <2>4, <2>5 DEF ConnectionInv
<1> QED
  BY <1>2, <1>3

(* handleWrite: what is left in outBuf follows what the socket took. *)
LEMMA WritableStep ==
  ASSUME ConnectionInv, HandleWritable
  PROVE  ConnectionInv'
<1>0. conn \in Objects /\ Sound(conn) /\ conn.registered /\ conn.connected /\ Known(conn)
  BY ObjectFacts DEF HandleWritable
<1>1. /\ conn.outBuf # <<>> /\ conn.outBuf \in Bytes /\ Len(conn.outBuf) \in Nat
      /\ wire \in Bytes /\ out \in Bytes /\ Len(wire) \in Nat /\ got \in 0 .. Len(wire)
      /\ wire \o conn.outBuf = out
  BY <1>0, LenProperties
     DEF HandleWritable, ConnectionInv, TypeOK, Bytes, OutputIntact
<1>2. PICK w \in WriteResults(Len(conn.outBuf)) :
        /\ conn' = Publish(HandleWrite(conn, w))
        /\ wire' = IF w > 0 THEN wire \o SubSeq(conn.outBuf, 1, w) ELSE wire
  BY DEF HandleWritable
<1>3. w \in {-1} \cup 0 .. Len(conn.outBuf)
  BY <1>1, WriteResultsBound DEF ConnectionInv
<1>4. PICK d \in Objects :
        /\ d = HandleWrite(conn, w) /\ Sound(d)
        /\ d.frameLen = conn.frameLen /\ d.inBuf = conn.inBuf
        /\ w = -1 => ~d.connected /\ ~d.registered
        /\ w # -1 => /\ d.connected /\ d.registered
                     /\ d.outBuf = SubSeq(conn.outBuf, w + 1, Len(conn.outBuf))
  BY <1>0, <1>1, <1>3, HandleWriteEffect
<1>5. conn' = Publish(d)
  BY <1>2, <1>4
<1>6. /\ conn' \in Objects /\ Sound(conn')
      /\ conn'.frameLen = conn.frameLen /\ conn'.inBuf = conn.inBuf
      /\ conn'.connected = d.connected /\ conn'.registered = d.registered
      /\ conn'.outBuf = d.outBuf /\ Known(conn')
  BY <1>4, <1>5, PublishEffect DEF Known
<1>7. /\ OutputIntact' /\ wire' \in Bytes /\ got' \in 0 .. Len(wire') /\ out' \in Bytes
  <2>0. out' = out /\ got' = got
    BY DEF HandleWritable, histVars
  <2>1. CASE w \in {-1, 0}
    <3>1. wire' = wire
      BY <1>2, <2>1
    <3>2. w = 0 => d.outBuf = conn.outBuf
      <4>1. 0 \in 0 .. Len(conn.outBuf) /\ conn.outBuf \in Bytes
        BY <1>1
      <4>2. SubSeq(conn.outBuf, 0 + 1, Len(conn.outBuf)) = conn.outBuf
        BY <4>1, RestOfWrite
      <4> QED
        BY <1>4, <4>2
    <3>3. conn'.connected => conn'.outBuf = conn.outBuf
      BY <1>4, <1>6, <2>1, <3>2
    <3> QED
      BY <1>0, <1>1, <2>0, <3>1, <3>3, OutputSame DEF ConnectionInv
  <2>2. CASE w \in 1 .. Len(conn.outBuf)
    <3>1. PICK a \in Bytes, r \in Bytes :
            /\ a = SubSeq(conn.outBuf, 1, w) /\ r = SubSeq(conn.outBuf, w + 1, Len(conn.outBuf))
            /\ a \o r = conn.outBuf
      <4>1. w \in 0 .. Len(conn.outBuf) /\ conn.outBuf \in Bytes
        BY <1>1, <2>2
      <4>2. /\ SubSeq(conn.outBuf, 1, w) \in Bytes
            /\ SubSeq(conn.outBuf, w + 1, Len(conn.outBuf)) \in Bytes
            /\ SubSeq(conn.outBuf, 1, w) \o SubSeq(conn.outBuf, w + 1, Len(conn.outBuf))
                 = conn.outBuf
        BY <4>1, RestOfWrite
      <4> QED
        BY <4>2
    <3>2. wire' = wire \o a /\ conn'.outBuf = r
      BY <1>2, <1>4, <1>6, <2>2, <3>1
    <3>3. /\ wire \o a \in Bytes /\ Len(wire \o a) = Len(wire) + Len(a) /\ Len(a) \in Nat
          /\ (wire \o a) \o r = wire \o (a \o r)
      <4>1. wire \in Bytes /\ a \in Bytes /\ r \in Bytes
        BY <1>1, <3>1
      <4>2. (wire \o a) \o r = wire \o (a \o r)
        BY <4>1, BytesThree
      <4>3. wire \o a \in Bytes /\ Len(wire \o a) = Len(wire) + Len(a) /\ Len(a) \in Nat
        BY <4>1, BytesThree
      <4> QED
        BY <4>2, <4>3
    <3>4. (wire \o a) \o r = out
      BY <1>1, <3>1, <3>3
    <3>5. IsPrefix(wire \o a, (wire \o a) \o r)
      BY <3>1, <3>3, PrefixFirst DEF Bytes
    <3>6. got \in 0 .. Len(wire \o a)
      BY <1>1, <3>3
    <3> QED
      BY <1>1, <2>0, <3>2, <3>3, <3>4, <3>5, <3>6 DEF OutputIntact
  <2> QED
    BY <1>1, <1>3, <2>1, <2>2
<1>8. /\ EndEvent /\ UNCHANGED <<shut, rcv, peer, peerSent, made, delivered>>
  BY DEF HandleWritable, histVars
<1>9. /\ loopPC' \in {"wait", "event", "tasks"} /\ events' = {} /\ woken' \in BOOLEAN
      /\ left' \in 0 .. Len(tasks) /\ tasks' = tasks
      /\ callPC' = callPC /\ calls' = calls
  BY <1>8, EndEventEffect DEF ConnectionInv
<1>10. TypeOK'
  BY <1>6, <1>7, <1>8, <1>9 DEF ConnectionInv, TypeOK, Objects
<1>11. PlaceInv'
  BY <1>0, <1>6, <1>9, NoRegister, PlaceKnown DEF ConnectionInv
<1>12. InputIntact' /\ ResetInv'
  BY <1>0, <1>6, <1>8, InputSame DEF ConnectionInv, ResetInv
<1> QED
  BY <1>6, <1>7, <1>10, <1>11, <1>12 DEF ConnectionInv

(* Handing data to sendInLoop keeps the output intact. *)
LEMMA OutputSent ==
  ASSUME TypeOK, OutputIntact, conn.connected,
         NEW c \in Objects, Sound(c), c.registered, c.outBuf = conn.outBuf,
         NEW data \in Bytes, NEW inEvent \in BOOLEAN,
         DoSend(c, data, inEvent), out' = out \o data
  PROVE  OutputIntact' /\ out' \in Bytes /\ wire' \in Bytes /\ Len(wire) <= Len(wire')
<1>1. /\ conn' \in Objects /\ wire' \in Bytes /\ Len(wire) <= Len(wire')
      /\ conn'.connected => wire' \o conn'.outBuf = (wire \o c.outBuf) \o data
      /\ ~conn'.connected => wire' = wire
  BY DoSendEffect
<1>2. wire \in Bytes /\ out \in Bytes /\ wire \o conn.outBuf = out /\ IsPrefix(wire, out)
  BY DEF TypeOK, OutputIntact
<1>3. out' \in Bytes
  BY <1>2, BytesThree
<1>4. conn'.connected => wire' \o conn'.outBuf = out'
  BY <1>1, <1>2
<1>5. IsPrefix(wire', out')
  <2>1. CASE conn'.connected
    <3>1. conn'.outBuf \in Bytes
      BY <1>1 DEF Objects
    <3>2. IsPrefix(wire', wire' \o conn'.outBuf)
      BY <1>1, <3>1, PrefixFirst DEF Bytes
    <3> QED
      BY <1>4, <2>1, <3>2
  <2>2. CASE ~conn'.connected
    <3>1. IsPrefix(wire, out \o data)
      BY <1>2, PrefixOfConcat DEF Bytes
    <3> QED
      BY <1>1, <2>2, <3>1
  <2> QED
    BY <2>1, <2>2
<1> QED
  BY <1>1, <1>3, <1>4, <1>5 DEF OutputIntact

(* The registration runs on a fresh connection, once. *)
LEMMA RunRegisterStep ==
  ASSUME ConnectionInv, RunRegister
  PROVE  ConnectionInv'
<1>0. conn \in Objects /\ Sound(conn) /\ TypeOK
  BY ObjectFacts DEF ConnectionInv
<1>1. loopPC = "tasks" /\ left > 0 /\ Head(tasks).op = "register" /\ TaskDone
      /\ wire' = wire /\ out' = out /\ conn' = [conn EXCEPT !.registered = TRUE]
  BY DEF RunRegister, NextTask
<1>2. /\ tasks # <<>> /\ Len(tasks) \in Nat \ {0} /\ Head(tasks) = tasks[1]
      /\ tasks' \in Seq(TaskSet) /\ left' \in 0 .. Len(tasks')
      /\ Len(tasks') = Len(tasks) - 1
  BY <1>0, <1>1, TaskDoneEffect
<1>3. /\ conn.connected /\ ~conn.registered /\ tasks = <<[op |-> "register"]>>
      /\ conn.outBuf = <<>> /\ conn.interest = "R" /\ events = {}
  <2>1. 1 \in 1 .. Len(tasks) /\ tasks[1].op = "register"
    BY <1>1, <1>2
  <2> QED
    BY <1>1, <2>1 DEF ConnectionInv, PlaceInv
<1>4. Len(tasks') = 0
  BY <1>2, <1>3
<1>5. /\ conn' \in Objects /\ conn'.connected /\ conn'.registered /\ Sound(conn')
      /\ conn'.outBuf = conn.outBuf /\ conn'.inBuf = conn.inBuf
      /\ conn'.frameLen = conn.frameLen
  <2>1. conn' \in Objects
    BY <1>0, <1>1 DEF Objects
  <2>2. /\ conn'.connected = conn.connected /\ conn'.registered /\ conn'.closes = conn.closes
        /\ conn'.outBuf = conn.outBuf /\ conn'.inBuf = conn.inBuf
        /\ conn'.interest = conn.interest
        /\ conn'.frameLen = conn.frameLen /\ conn'.fatal = conn.fatal
    BY <1>0, <1>1 DEF Objects
  <2> QED
    BY <1>0, <1>3, <2>1, <2>2 DEF Sound
<1>6. UNCHANGED <<loopPC, events, woken, callPC, calls, shut, rcv, got, peer,
                  peerSent, made, delivered>>
  BY <1>1 DEF TaskDone, appVars
<1>7. TypeOK'
  BY <1>0, <1>1, <1>2, <1>5, <1>6 DEF TypeOK, Objects, TaskSet
<1>8. PlaceInv'
  <2>1. \A i \in 1 .. Len(tasks') : tasks'[i].op # "register"
    BY <1>4
  <2>2. events' = {} /\ Known(conn')
    BY <1>3, <1>5, <1>6 DEF Known
  <2> QED
    BY <2>1, <2>2, PlaceKnown
<1>9. OutputIntact' /\ InputIntact' /\ ResetInv'
  BY <1>1, <1>3, <1>5, <1>6, OutputSame, InputSame DEF ConnectionInv, ResetInv
<1> QED
  BY <1>5, <1>7, <1>8, <1>9 DEF ConnectionInv

(* A task of a known connection that is not a Send being written. *)
LEMMA QuietTask ==
  ASSUME ConnectionInv, conn' \in Objects, Sound(conn'), Known(conn),
         conn'.connected => conn.connected /\ conn'.registered
                              /\ conn'.outBuf = conn.outBuf,
         conn'.inBuf = conn.inBuf, conn'.frameLen = conn.frameLen,
         loopPC = "tasks", left > 0, TaskDone, wire' = wire, out' = out
  PROVE  ConnectionInv'
<1>0. TypeOK /\ events = {}
  BY DEF ConnectionInv, PlaceInv
<1>1. /\ tasks' \in Seq(TaskSet) /\ left' \in 0 .. Len(tasks')
      /\ Len(tasks) \in Nat \ {0} /\ Len(tasks') = Len(tasks) - 1
      /\ \A i \in 1 .. Len(tasks') : tasks'[i] = tasks[i + 1]
  BY <1>0, TaskDoneEffect
<1>2. UNCHANGED <<loopPC, events, woken, callPC, calls, shut, rcv, got, peer,
                  peerSent, made, delivered>>
  BY DEF TaskDone, appVars
<1>3. TypeOK'
  BY <1>0, <1>1, <1>2 DEF TypeOK, Objects, TaskSet
<1>4. PlaceInv'
  <2>1. \A i \in 1 .. Len(tasks') : tasks'[i].op # "register"
    BY <1>1, NoRegister DEF ConnectionInv
  <2> QED
    BY <1>0, <1>2, <2>1, PlaceKnown DEF Known
<1>5. OutputIntact' /\ InputIntact' /\ ResetInv'
  BY <1>2, OutputSame, InputSame DEF ConnectionInv, ResetInv
<1> QED
  BY <1>3, <1>4, <1>5 DEF ConnectionInv

(* A task that is not the registration belongs to a known connection. *)
LEMMA TaskIsKnown ==
  ASSUME ConnectionInv, loopPC = "tasks", left > 0, TaskDone, Head(tasks).op # "register"
  PROVE  Known(conn)
<1> SUFFICES ASSUME ~Known(conn) PROVE FALSE
  OBVIOUS
<1>1. tasks = <<[op |-> "register"]>>
  BY DEF ConnectionInv, PlaceInv, Known
<1> QED
  BY <1>1

(* Tasks of Close. *)
LEMMA RunCloseStep ==
  ASSUME ConnectionInv, RunClose
  PROVE  ConnectionInv'
<1>1. /\ loopPC = "tasks" /\ left > 0 /\ Head(tasks).op = "close" /\ TaskDone
      /\ conn' = HandleClose(conn) /\ wire' = wire /\ out' = out
  BY DEF RunClose, NextTask
<1>2. Known(conn) /\ conn \in Objects /\ Sound(conn)
  BY <1>1, TaskIsKnown, ObjectFacts
<1>3. /\ HandleClose(conn) \in Objects /\ Sound(HandleClose(conn))
      /\ ~HandleClose(conn).connected
      /\ HandleClose(conn).frameLen = conn.frameLen
      /\ HandleClose(conn).inBuf = conn.inBuf
  BY <1>2, HandleCloseEffect DEF Known
<1> QED
  BY <1>1, <1>2, <1>3, QuietTask

(* Tasks of Send. *)
LEMMA RunSendStep ==
  ASSUME ConnectionInv, RunSend
  PROVE  ConnectionInv'
<1>1. loopPC = "tasks" /\ left > 0 /\ Head(tasks).op = "send" /\ TaskDone
  BY DEF RunSend, NextTask
<1>2. Known(conn) /\ conn \in Objects /\ Sound(conn) /\ TypeOK /\ events = {}
  BY <1>1, TaskIsKnown, ObjectFacts DEF ConnectionInv, PlaceInv
<1>3. CASE ~conn.connected
  <2>1. UNCHANGED <<conn, wire, out>>
    BY <1>3 DEF RunSend
  <2> QED
    BY <1>1, <1>2, <1>3, <2>1, QuietTask
<1>4. CASE conn.connected
  <2>1. PICK data : /\ data = Head(tasks).data /\ out' = out \o data
                    /\ DoSend(conn, data, FALSE)
    BY <1>4 DEF RunSend
  <2>2. /\ tasks' \in Seq(TaskSet) /\ left' \in 0 .. Len(tasks')
        /\ Len(tasks) \in Nat \ {0} /\ Len(tasks') = Len(tasks) - 1
        /\ \A i \in 1 .. Len(tasks') : tasks'[i] = tasks[i + 1]
        /\ Head(tasks) \in TaskSet
    BY <1>1, <1>2, TaskDoneEffect
  <2>3. data \in Bytes
    BY <1>1, <2>1, <2>2 DEF TaskSet
  <2>4. /\ conn' \in Objects /\ Sound(conn')
        /\ conn'.frameLen = conn.frameLen /\ conn'.inBuf = conn.inBuf
        /\ conn'.connected = conn'.registered
    BY <1>2, <1>4, <2>1, <2>3, DoSendEffect DEF Known
  <2>5. /\ OutputIntact' /\ out' \in Bytes /\ wire' \in Bytes /\ Len(wire) <= Len(wire')
    BY <1>2, <1>4, <2>1, <2>3, OutputSent DEF Known, ConnectionInv
  <2>6. UNCHANGED <<loopPC, events, woken, callPC, calls, shut, rcv, got, peer,
                    peerSent, made, delivered>>
    BY <1>1 DEF TaskDone, appVars
  <2>7. got' \in 0 .. Len(wire')
    BY <1>2, <2>5, <2>6, BytesThree DEF TypeOK
  <2>8. TypeOK'
    BY <1>2, <2>2, <2>4, <2>5, <2>6, <2>7 DEF TypeOK, Objects, TaskSet
  <2>9. PlaceInv'
    <3>1. \A i \in 1 .. Len(tasks') : tasks'[i].op # "register"
      BY <1>2, <2>2, NoRegister DEF ConnectionInv
    <3> QED
      BY <1>2, <2>4, <2>6, <3>1, PlaceKnown DEF Known
  <2>10. InputIntact' /\ ResetInv'
    BY <1>4, <2>4, <2>6, InputSame DEF ConnectionInv, ResetInv
  <2> QED
    BY <2>4, <2>5, <2>8, <2>9, <2>10 DEF ConnectionInv
<1> QED
  BY <1>3, <1>4

(* The loop waits again. *)
LEMMA TasksDoneStep ==
  ASSUME ConnectionInv, TasksDone
  PROVE  ConnectionInv'
<1>1. /\ loopPC = "tasks" /\ loopPC' = "wait"
      /\ UNCHANGED <<conn, tasks, events, woken, left, callPC, calls, netVars, histVars>>
  BY DEF TasksDone, appVars
<1>2. TypeOK'
  BY <1>1 DEF ConnectionInv, TypeOK, netVars, histVars
<1>3. PlaceInv'
  BY <1>1 DEF ConnectionInv, PlaceInv
<1>4. OutputIntact' /\ InputIntact' /\ ResetInv' /\ Sound(conn')
  BY <1>1, OutputSame, InputSame DEF ConnectionInv, netVars, histVars, ResetInv
<1> QED
  BY <1>2, <1>3, <1>4 DEF ConnectionInv
-----------------------------------------------------------------------------
(* Reading *)

(* The first n bytes the peer sends. *)
Sent(n) == [k \in 1 .. n |-> k]

(* They are bytes, and one more comes behind them. *)
LEMMA SentBytes ==
  ASSUME NEW n \in Nat
  PROVE  Sent(n) \in Bytes /\ Sent(n + 1) = Append(Sent(n), n + 1)
<1>1. ASSUME NEW m \in Nat PROVE Sent(m) \in Bytes /\ Len(Sent(m)) = m
  <2>1. Sent(m) \in [1 .. m -> Nat]
    BY DEF Sent
  <2> QED
    BY <1>1, <2>1, SeqDef, LenProperties DEF Bytes, Sent
<1>2. /\ Append(Sent(n), n + 1) \in Seq(Nat) /\ Len(Append(Sent(n), n + 1)) = n + 1
      /\ \A i \in 1 .. n : Append(Sent(n), n + 1)[i] = Sent(n)[i]
      /\ Append(Sent(n), n + 1)[n + 1] = n + 1
  <2>1. PICK s \in Seq(Nat), e \in Nat : s = Sent(n) /\ e = n + 1 /\ Len(s) = n
    BY <1>1 DEF Bytes
  <2>2. /\ Append(s, e) \in Seq(Nat) /\ Len(Append(s, e)) = Len(s) + 1
        /\ \A i \in 1 .. Len(s) : Append(s, e)[i] = s[i]
        /\ Append(s, e)[Len(s) + 1] = e
    BY <2>1, AppendProperties
  <2> QED
    BY <2>1, <2>2
<1>3. /\ \A i \in 1 .. n : Sent(n)[i] = i
      /\ \A i \in 1 .. n + 1 : Sent(n + 1)[i] = i
      /\ \A i \in 1 .. n + 1 : i \in 1 .. n \/ i = n + 1
  BY DEF Sent
<1>4. Sent(n + 1) \in Seq(Nat) /\ Len(Sent(n + 1)) = n + 1
  BY <1>1 DEF Bytes
<1>5. \A i \in 1 .. n + 1 : Sent(n + 1)[i] = Append(Sent(n), n + 1)[i]
  BY <1>2, <1>3
<1>6. Sent(n + 1) = Append(Sent(n), n + 1)
  BY <1>2, <1>4, <1>5, SeqEqual
<1> QED
  BY <1>1, <1>6

(* Messages more are messages of the same kind. *)
LEMMA MessagesMore ==
  ASSUME NEW d \in Seq(Bytes), NEW m \in Seq(Bytes), NEW L,
         \A k \in 1 .. Len(m) : Len(m[k]) = L,
         \A k \in DOMAIN d : Len(d[k]) = L
  PROVE  \A k \in DOMAIN (d \o m) : Len((d \o m)[k]) = L
<1>1. /\ d \o m \in Seq(Bytes) /\ Len(d \o m) = Len(d) + Len(m)
      /\ \A i \in 1 .. Len(d) : (d \o m)[i] = d[i]
      /\ \A i \in Len(d) + 1 .. Len(d) + Len(m) : (d \o m)[i] = m[i - Len(d)]
      /\ Len(d) \in Nat /\ Len(m) \in Nat
  BY ConcatProperties, LenProperties
<1>2. DOMAIN (d \o m) = 1 .. Len(d) + Len(m) /\ DOMAIN d = 1 .. Len(d)
  BY <1>1, LenProperties
<1>3. ASSUME NEW k \in 1 .. Len(d) + Len(m) PROVE Len((d \o m)[k]) = L
  <2>1. CASE k \in 1 .. Len(d)
    BY <1>1, <1>2, <2>1
  <2>2. CASE k \in Len(d) + 1 .. Len(d) + Len(m)
    <3>1. k - Len(d) \in 1 .. Len(m)
      BY <1>1, <2>2
    <3> QED
      BY <1>1, <2>2, <3>1
  <2> QED
    BY <1>1, <2>1, <2>2
<1> QED
  BY <1>2, <1>3

(* What a read that got data does to the input. *)
LEMMA ReadKeepsInput ==
  ASSUME ConnectionInv, conn.connected, peer # "reset", NEW n \in 0 .. Len(rcv),
         NEW b, b = conn.inBuf \o SubSeq(rcv, 1, n),
         rcv' = SubSeq(rcv, n + 1, Len(rcv)), delivered' = delivered \o Unpacked(b),
         conn'.inBuf = Leftover(b), conn'.frameLen = conn.frameLen,
         peerSent' = peerSent
  PROVE  InputIntact' /\ rcv' \in Bytes /\ delivered' \in Seq(Bytes)
<1>1. /\ conn \in Objects /\ conn.inBuf \in Bytes /\ rcv \in Bytes /\ delivered \in Seq(Bytes)
      /\ peerSent \in Nat
  BY ConnectionAssumption DEF ConnectionInv, TypeOK, Objects
<1>2. PICK p \in Bytes, r \in Bytes :
        p = SubSeq(rcv, 1, n) /\ r = SubSeq(rcv, n + 1, Len(rcv)) /\ p \o r = rcv
  <2>1. PICK s \in Bytes, k \in 0 .. Len(rcv) : s = rcv /\ k = n
    BY <1>1
  <2>2. /\ SubSeq(s, 1, k) \in Bytes /\ SubSeq(s, k + 1, Len(s)) \in Bytes
        /\ SubSeq(s, 1, k) \o SubSeq(s, k + 1, Len(s)) = s
    BY <2>1, RestOfWrite
  <2> QED
    BY <2>1, <2>2
<1>3. b \in Bytes /\ b = conn.inBuf \o p
  BY <1>1, <1>2, BytesThree
<1>4. PICK m \in Seq(Bytes), lo \in Bytes, g \in Bytes :
        /\ m = Unpacked(b) /\ lo = Leftover(b) /\ g = FlattenSeq(m)
        /\ g \o lo = b
        /\ conn.frameLen > 0 => /\ \A k \in 1 .. Len(m) : Len(m[k]) = conn.frameLen
                                /\ Len(lo) < conn.frameLen
  BY <1>1, <1>3, UnpackCuts
<1>5. PICK f \in Bytes : f = FlattenSeq(delivered)
  BY <1>1, FlattenAppend, EmptySeq DEF Bytes
<1>6. delivered' = delivered \o m /\ delivered \o m \in Seq(Bytes)
  BY <1>1, <1>4, ConcatProperties
<1>7. FlattenSeq(delivered \o m) = f \o g
  BY <1>1, <1>4, <1>5, FlattenConcat DEF Bytes
<1>8. (f \o conn.inBuf) \o rcv = Sent(peerSent)
  BY <1>5 DEF ConnectionInv, InputIntact, Sent
<1>9. ((f \o g) \o lo) \o r = Sent(peerSent)
  <2>1. PICK ib \in Bytes : ib = conn.inBuf /\ g \o lo = ib \o p
    BY <1>1, <1>3, <1>4
  <2>2. ((f \o g) \o lo) \o r = (f \o ib) \o (p \o r)
    <3>1. /\ f \in Bytes /\ g \in Bytes /\ lo \in Bytes /\ ib \in Bytes
          /\ p \in Bytes /\ r \in Bytes
      BY <1>2, <1>4, <1>5, <2>1
    <3>2. (f \o g) \o lo = f \o (g \o lo)
      BY <3>1, BytesAssoc
    <3>3. (f \o ib) \o p = f \o (ib \o p)
      BY <3>1, BytesAssoc
    <3>4. PICK h \in Bytes : h = f \o ib
      BY <3>1, BytesThree
    <3>5. (h \o p) \o r = h \o (p \o r)
      BY <3>1, <3>4, BytesAssoc
    <3>6. (f \o g) \o lo = h \o p
      BY <2>1, <3>2, <3>3, <3>4
    <3> QED
      BY <3>4, <3>5, <3>6
  <2> QED
    BY <1>2, <1>8, <2>1, <2>2
<1>10. IsPrefix(f \o g, Sent(peerSent))
  <2>1. f \o g \in Bytes /\ lo \o r \in Bytes
    BY <1>2, <1>4, <1>5, BytesThree
  <2>2. ((f \o g) \o lo) \o r = (f \o g) \o (lo \o r)
    <3>1. PICK h \in Bytes : h = f \o g
      BY <2>1
    <3>2. lo \in Bytes /\ r \in Bytes
      BY <1>2, <1>4
    <3>3. (h \o lo) \o r = h \o (lo \o r)
      BY <3>2, BytesAssoc
    <3> QED
      BY <3>1, <3>3
  <2>3. IsPrefix(f \o g, (f \o g) \o (lo \o r))
    BY <2>1, PrefixFirst DEF Bytes
  <2> QED
    BY <1>9, <2>2, <2>3
<1>11. conn.frameLen > 0 =>
         /\ \A k \in DOMAIN (delivered \o m) : Len((delivered \o m)[k]) = conn.frameLen
         /\ Len(lo) < conn.frameLen
  <2> SUFFICES ASSUME conn.frameLen > 0
               PROVE  \A k \in DOMAIN (delivered \o m) :
                        Len((delivered \o m)[k]) = conn.frameLen
    BY <1>4
  <2>1. \A k \in DOMAIN delivered : Len(delivered[k]) = conn.frameLen
    BY DEF ConnectionInv, InputIntact
  <2>2. \A k \in 1 .. Len(m) : Len(m[k]) = conn.frameLen
    BY <1>4
  <2>3. delivered \in Seq(Bytes) /\ m \in Seq(Bytes)
    BY <1>1, <1>4
  <2> QED
    BY <2>1, <2>2, <2>3, MessagesMore
<1>12. InputIntact'
  <2>1. FlattenSeq(delivered') = f \o g /\ conn'.inBuf = lo /\ rcv' = r
    BY <1>2, <1>4, <1>6, <1>7
  <2> QED
    BY <1>6, <1>9, <1>10, <1>11, <2>1 DEF InputIntact, Sent
<1> QED
  BY <1>2, <1>6, <1>12

(* HandleEvent reads data, hands out the messages and sends the replies. *)
LEMMA ReadDataStep ==
  ASSUME ConnectionInv, HandleReadData
  PROVE  ConnectionInv'
<1>0. /\ TypeOK /\ conn \in Objects /\ Sound(conn) /\ conn.registered /\ conn.connected
      /\ Known(conn) /\ rcv # <<>> /\ rcv \in Bytes /\ Len(rcv) \in Nat
      /\ PacketSize \in Nat \ {0} /\ conn.inBuf \in Bytes /\ peer # "reset"
  <2>1. events # {} /\ rcv # <<>>
    BY DEF HandleReadData, Reads
  <2>2. rcv \in Bytes /\ PacketSize \in Nat \ {0}
    BY ConnectionAssumption DEF ConnectionInv, TypeOK
  <2>3. Len(rcv) \in Nat
    BY <2>2, BytesThree
  <2>4. conn \in Objects /\ Sound(conn) /\ conn.registered /\ conn.connected /\ Known(conn)
    BY <2>1, ObjectFacts
  <2> QED
    BY <2>1, <2>2, <2>3, <2>4 DEF ConnectionInv, ResetInv, Objects
<1> DEFINE n == IF Len(rcv) < PacketSize THEN Len(rcv) ELSE PacketSize
           b == conn.inBuf \o SubSeq(rcv, 1, n)
           c == [conn EXCEPT !.inBuf = Leftover(b)]
<1>1. n \in 0 .. Len(rcv)
  BY <1>0
<1>2. /\ rcv' = SubSeq(rcv, n + 1, Len(rcv)) /\ delivered' = delivered \o Unpacked(b)
      /\ EndEvent /\ UNCHANGED <<shut, got, peer, peerSent>>
  BY DEF HandleReadData
<1>3. PICK r \in 0 .. Len(Unpacked(b)) :
        /\ made' = made + r * ReplyLen /\ out' = out \o Fresh(r)
        /\ IF r = 0 THEN conn' = Publish(c) /\ wire' = wire ELSE DoSend(c, Fresh(r), TRUE)
  BY DEF HandleReadData
<1> HIDE DEF n
<1>4. b \in Bytes
  <2>1. SubSeq(rcv, 1, n) \in Bytes
    BY <1>0, <1>1, RestOfWrite
  <2> QED
    BY <1>0, <2>1, BytesThree
<1> HIDE DEF b
<1>5. Leftover(b) \in Bytes /\ Unpacked(b) \in Seq(Bytes)
  BY <1>0, <1>4, UnpackCuts
<1>6. r \in Nat /\ Fresh(r) \in Bytes /\ made' \in Nat
  <2>1. Len(Unpacked(b)) \in Nat
    BY <1>5, LenProperties
  <2>2. r \in Nat
    BY <2>1
  <2> QED
    BY <1>0, <1>3, <2>2, FreshBytes
<1>7. /\ c \in Objects /\ c.inBuf = Leftover(b) /\ c.frameLen = conn.frameLen
      /\ c.outBuf = conn.outBuf /\ c.registered /\ c.connected /\ Sound(c)
  <2>1. c \in Objects
    BY <1>0, <1>5 DEF Objects
  <2>2. /\ c.inBuf = Leftover(b) /\ c.frameLen = conn.frameLen
        /\ c.outBuf = conn.outBuf /\ c.registered = conn.registered
        /\ c.connected = conn.connected /\ c.interest = conn.interest
        /\ c.closes = conn.closes /\ c.fatal = conn.fatal
    BY <1>0 DEF Objects
  <2> HIDE DEF c
  <2> QED
    BY <1>0, <2>1, <2>2 DEF Sound
<1> HIDE DEF c
<1>8. /\ conn' \in Objects /\ Sound(conn') /\ Known(conn') /\ conn'.inBuf = c.inBuf
      /\ conn'.frameLen = c.frameLen
      /\ OutputIntact' /\ out' \in Bytes /\ wire' \in Bytes /\ Len(wire) <= Len(wire')
  <2>1. CASE r = 0
    <3>1. conn' = Publish(c) /\ wire' = wire
      BY <1>3, <2>1
    <3>2. Fresh(0) = <<>>
      <4>1. 0 * ReplyLen = 0
        BY ConnectionAssumption
      <4>2. Fresh(0) \in Bytes /\ Len(Fresh(0)) = 0
        <5>1. Fresh(0) = [i \in 1 .. 0 |-> made + i]
          BY <4>1 DEF Fresh
        <5>2. Fresh(0) \in Seq(Nat)
          BY <1>0, FreshBytes DEF Bytes
        <5> QED
          BY <5>1, <5>2, LenProperties DEF Bytes
      <4> QED
        BY <4>2, EmptySeq DEF Bytes
    <3>3. /\ conn' \in Objects /\ Sound(conn') /\ conn'.inBuf = c.inBuf
          /\ conn'.frameLen = c.frameLen /\ conn'.outBuf = c.outBuf
          /\ conn'.registered
      BY <1>7, <3>1, PublishEffect
    <3>4. out' = out /\ out \in Bytes /\ wire \in Bytes /\ Len(wire) \in Nat
      <4>1. out \in Bytes /\ wire \in Bytes
        BY <1>0 DEF TypeOK
      <4> QED
        BY <1>3, <2>1, <3>2, <4>1, BytesThree
    <3>5. OutputIntact'
      BY <1>0, <1>7, <3>1, <3>3, <3>4, OutputSame DEF ConnectionInv
    <3> QED
      BY <3>1, <3>3, <3>4, <3>5 DEF Known
  <2>2. CASE r # 0
    <3>1. DoSend(c, Fresh(r), TRUE) /\ out' = out \o Fresh(r)
      BY <1>3, <2>2
    <3>2. PICK data \in Bytes : data = Fresh(r)
      BY <1>6
    <3>3. DoSend(c, data, TRUE) /\ out' = out \o data
      BY <3>1, <3>2
    <3>4. /\ conn' \in Objects /\ Sound(conn') /\ conn'.inBuf = c.inBuf
          /\ conn'.frameLen = c.frameLen /\ conn'.connected = conn'.registered
      BY <1>0, <1>7, <3>3, DoSendEffect
    <3>5. OutputIntact' /\ out' \in Bytes /\ wire' \in Bytes /\ Len(wire) <= Len(wire')
      BY <1>0, <1>7, <3>3, OutputSent DEF ConnectionInv
    <3> QED
      BY <3>4, <3>5 DEF Known
  <2> QED
    BY <2>1, <2>2
<1>9. InputIntact' /\ rcv' \in Bytes /\ delivered' \in Seq(Bytes)
  <2>1. b = conn.inBuf \o SubSeq(rcv, 1, n)
    BY DEF b
  <2> QED
    BY <1>0, <1>1, <1>2, <1>7, <1>8, <2>1, ReadKeepsInput
<1>10. /\ loopPC' \in {"wait", "event", "tasks"} /\ events' = {} /\ woken' \in BOOLEAN
       /\ left' \in 0 .. Len(tasks) /\ tasks' = tasks
       /\ callPC' = callPC /\ calls' = calls
  BY <1>0, <1>2, EndEventEffect
<1>11. TypeOK'
  <2>1. got' \in 0 .. Len(wire')
    BY <1>0, <1>2, <1>8, BytesThree DEF TypeOK
  <2> QED
    BY <1>0, <1>2, <1>6, <1>8, <1>9, <1>10, <2>1 DEF TypeOK, Objects
<1>12. PlaceInv' /\ ResetInv'
  <2>1. PlaceInv'
    BY <1>0, <1>8, <1>10, NoRegister, PlaceKnown DEF ConnectionInv
  <2>2. ResetInv'
    BY <1>0, <1>2 DEF ResetInv
  <2> QED
    BY <2>1, <2>2
<1> QED
  BY <1>8, <1>9, <1>11, <1>12 DEF ConnectionInv
-----------------------------------------------------------------------------
(* The callers and the peer *)

(* Send, Close and ShutdownWrite up to the queue. *)
LEMMA CallStep ==
  ASSUME ConnectionInv, NEW c \in Callers,
         CallSend(c) \/ CallClose(c) \/ CallShutdownWrite(c)
  PROVE  ConnectionInv'
<1>1. /\ callPC' \in [Callers -> {"idle", "send", "close"}]
      /\ calls' \in 0 .. MaxCalls /\ shut' \in BOOLEAN
      /\ [op |-> "register"] \notin Range(tasks)
      /\ UNCHANGED <<conn, tasks, loopPC, events, woken, left, rcv, wire, got, peer,
                     peerSent, made, out, delivered>>
  <2>1. /\ [op |-> "register"] \notin Range(tasks) /\ calls < MaxCalls /\ calls' = calls + 1
        /\ UNCHANGED <<conn, tasks, loopPC, events, woken, left, rcv, wire, got, peer,
                       peerSent, made, out, delivered>>
    BY DEF CallSend, CallClose, CallShutdownWrite, loopVars, netVars, histVars
  <2>2. callPC' \in [Callers -> {"idle", "send", "close"}]
    BY DEF CallSend, CallClose, CallShutdownWrite, ConnectionInv, TypeOK
  <2>3. calls' \in 0 .. MaxCalls
    BY <2>1, ConnectionAssumption DEF ConnectionInv, TypeOK
  <2>4. shut' \in BOOLEAN
    BY DEF CallSend, CallClose, CallShutdownWrite, ConnectionInv, TypeOK, netVars
  <2> QED
    BY <2>1, <2>2, <2>3, <2>4
<1>2. Known(conn)
  BY <1>1, CalledIsKnown DEF ConnectionInv
<1>3. TypeOK'
  BY <1>1 DEF ConnectionInv, TypeOK
<1>4. PlaceInv'
  BY <1>1, <1>2 DEF ConnectionInv, PlaceInv, Known
<1>5. OutputIntact' /\ InputIntact' /\ ResetInv' /\ Sound(conn')
  BY <1>1, OutputSame, InputSame DEF ConnectionInv, ResetInv
<1> QED
  BY <1>3, <1>4, <1>5 DEF ConnectionInv

(* Send and Close put their task in the queue. *)
LEMMA QueueStepKeeps ==
  ASSUME ConnectionInv, NEW c \in Callers, QueueStep(c)
  PROVE  ConnectionInv'
<1>0. TypeOK /\ conn \in Objects
  BY ObjectFacts DEF ConnectionInv
<1>1. /\ callPC[c] # "idle" /\ callPC' = [callPC EXCEPT ![c] = "idle"]
      /\ UNCHANGED <<conn, loopPC, events, woken, left, calls, shut, rcv, wire, got, peer,
                     peerSent, out, delivered>>
  BY DEF QueueStep, QueueSend, QueueClose, loopVars, netVars, histVars
<1>2. Known(conn)
  BY <1>1, CalledIsKnown DEF ConnectionInv
<1>3. /\ \E t \in TaskSet : t.op # "register" /\ tasks' = Append(tasks, t)
      /\ made' \in Nat
  <2>1. CASE QueueSend(c)
    <3>1. Fresh(1) \in Bytes /\ made + ReplyLen \in Nat
      <4>1. 1 \in Nat /\ made \in Nat /\ ReplyLen \in Nat
        BY <1>0, ConnectionAssumption DEF TypeOK
      <4>2. Fresh(1) \in Bytes
        BY <1>0, <4>1, FreshBytes
      <4>3. made + ReplyLen \in Nat
        BY <4>1
      <4> QED
        BY <4>2, <4>3
    <3>2. [op |-> "send", data |-> Fresh(1)] \in TaskSet
      BY <3>1 DEF TaskSet
    <3>3. [op |-> "send", data |-> Fresh(1)].op # "register"
      OBVIOUS
    <3> QED
      BY <2>1, <3>1, <3>2, <3>3 DEF QueueSend
  <2>2. CASE QueueClose(c)
    <3>1. [op |-> "close"] \in TaskSet /\ [op |-> "close"].op # "register"
      BY DEF TaskSet
    <3> QED
      BY <1>0, <2>2, <3>1 DEF QueueClose, histVars, TypeOK
  <2> QED
    BY <2>1, <2>2 DEF QueueStep
<1>4. /\ tasks' \in Seq(TaskSet) /\ left' \in 0 .. Len(tasks')
      /\ \A i \in 1 .. Len(tasks') : tasks'[i].op # "register"
  BY <1>0, <1>1, <1>2, <1>3, NoRegister, AppendTask DEF ConnectionInv
<1>5. callPC' \in [Callers -> {"idle", "send", "close"}]
  BY <1>0, <1>1 DEF TypeOK
<1>6. TypeOK'
  BY <1>0, <1>1, <1>3, <1>4, <1>5 DEF TypeOK, TaskSet
<1>7. PlaceInv'
  BY <1>1, <1>2, <1>4 DEF ConnectionInv, PlaceInv, Known
<1>8. OutputIntact' /\ InputIntact' /\ ResetInv' /\ Sound(conn')
  BY <1>1, OutputSame, InputSame DEF ConnectionInv, ResetInv
<1> QED
  BY <1>6, <1>7, <1>8 DEF ConnectionInv

(* The peer sends a byte more. *)
LEMMA PeerSendsStep ==
  ASSUME ConnectionInv, PeerSends
  PROVE  ConnectionInv'
<1>0. /\ conn \in Objects /\ rcv \in Bytes /\ peerSent \in 0 .. MaxIn /\ MaxIn \in Nat
      /\ delivered \in Seq(Bytes) /\ conn.inBuf \in Bytes
  BY ConnectionAssumption DEF ConnectionInv, TypeOK, Objects
<1>1. /\ peer = "open" /\ peerSent < MaxIn
      /\ rcv' = Append(rcv, peerSent + 1) /\ peerSent' = peerSent + 1
      /\ UNCHANGED <<conn, tasks, loopPC, events, woken, left, callPC, calls, shut, wire,
                     got, peer, made, out, delivered>>
  BY DEF PeerSends, loopVars, appVars, histVars
<1>2. PICK x \in Bytes : x = <<peerSent + 1>> /\ rcv' = rcv \o x /\ rcv' \in Bytes
  <2>1. PICK e \in Nat : e = peerSent + 1
    BY <1>0
  <2>2. <<e>> \in Bytes /\ Append(rcv, e) = rcv \o <<e>> /\ Append(rcv, e) \in Bytes
    BY <1>0, <2>1, BytesAppend
  <2> QED
    BY <1>1, <2>1, <2>2
<1>3. TypeOK'
  <2>1. peerSent' \in 0 .. MaxIn
    BY <1>0, <1>1
  <2> QED
    BY <1>1, <1>2, <2>1 DEF ConnectionInv, TypeOK
<1>4. PlaceInv' /\ ResetInv' /\ Sound(conn')
  BY <1>1 DEF ConnectionInv, PlaceInv, ResetInv
<1>5. OutputIntact'
  BY <1>1, OutputSame DEF ConnectionInv
<1>6. InputIntact'
  <2>1. PICK f \in Bytes : f = FlattenSeq(delivered)
    BY <1>0, FlattenAppend DEF Bytes
  <2>2. Sent(peerSent) \in Bytes /\ Sent(peerSent + 1) = Sent(peerSent) \o x
    <3>1. peerSent \in Nat
      BY <1>0
    <3>2. Sent(peerSent) \in Bytes /\ Sent(peerSent + 1) = Append(Sent(peerSent), peerSent + 1)
      BY <3>1, SentBytes
    <3>3. PICK e \in Nat : e = peerSent + 1
      BY <3>1
    <3>4. Append(Sent(peerSent), e) = Sent(peerSent) \o <<e>>
      BY <3>2, <3>3, BytesAppend
    <3> QED
      BY <1>2, <3>2, <3>3, <3>4
  <2>3. conn.connected => (f \o conn.inBuf) \o rcv' = Sent(peerSent + 1)
    <3> SUFFICES ASSUME conn.connected PROVE (f \o conn.inBuf) \o rcv' = Sent(peerSent + 1)
      OBVIOUS
    <3>1. (f \o conn.inBuf) \o rcv = Sent(peerSent)
      BY <1>1, <2>1 DEF ConnectionInv, InputIntact, Sent
    <3>2. PICK h \in Bytes : h = f \o conn.inBuf
      BY <1>0, <2>1, BytesThree
    <3>3. (h \o rcv) \o x = h \o (rcv \o x)
      <4>1. h \in Bytes /\ rcv \in Bytes /\ x \in Bytes
        BY <1>0, <1>2, <3>2
      <4> QED
        BY <4>1, BytesAssoc
    <3> QED
      BY <1>2, <2>2, <3>1, <3>2, <3>3
  <2>4. IsPrefix(f, Sent(peerSent + 1))
    <3>1. IsPrefix(f, Sent(peerSent))
      BY <2>1 DEF ConnectionInv, InputIntact, Sent
    <3>2. IsPrefix(f, Sent(peerSent) \o x)
      BY <1>2, <2>1, <2>2, <3>1, PrefixOfConcat DEF Bytes
    <3> QED
      BY <2>2, <3>2
  <2> QED
    BY <1>1, <2>1, <2>3, <2>4 DEF ConnectionInv, InputIntact, Sent
<1> QED
  BY <1>3, <1>4, <1>5, <1>6 DEF ConnectionInv

(* The peer reads, finishes or resets. *)
LEMMA PeerStep ==
  ASSUME ConnectionInv, PeerReads \/ PeerFinishes \/ PeerResets
  PROVE  ConnectionInv'
<1>1. /\ UNCHANGED <<conn, tasks, loopPC, events, woken, left, callPC, calls, shut, wire,
                     peerSent, made, out, delivered>>
      /\ peer' # "reset" => peer # "reset" /\ rcv' = rcv
      /\ peer' = "reset" => rcv' = <<>> \/ (rcv' = rcv /\ peer = "reset")
      /\ peer' \in {"open", "fin", "reset"}
  BY DEF PeerReads, PeerFinishes, PeerResets, loopVars, appVars, histVars, ConnectionInv,
         TypeOK
<1>2. got' \in 0 .. Len(wire)
  <2>1. Len(wire) \in Nat
    BY BytesThree DEF ConnectionInv, TypeOK
  <2> QED
    BY <2>1 DEF PeerReads, PeerFinishes, PeerResets, ConnectionInv, TypeOK
<1>3. rcv' \in Bytes
  <2>1. rcv \in Bytes /\ <<>> \in Bytes
    BY EmptySeq DEF ConnectionInv, TypeOK, Bytes
  <2> QED
    BY <1>1, <2>1
<1>4. TypeOK'
  BY <1>1, <1>2, <1>3 DEF ConnectionInv, TypeOK
<1>5. PlaceInv' /\ ResetInv' /\ Sound(conn') /\ OutputIntact'
  BY <1>1, OutputSame DEF ConnectionInv, PlaceInv, ResetInv
<1>6. InputIntact'
  BY <1>1 DEF ConnectionInv, InputIntact
<1> QED
  BY <1>4, <1>5, <1>6 DEF ConnectionInv
-----------------------------------------------------------------------------
(* A connection that has just been accepted. *)
LEMMA InitInv == Init => ConnectionInv
<1> SUFFICES ASSUME Init PROVE ConnectionInv
  OBVIOUS
<1>1. PICK f \in FrameLens : conn = NewConnection(f)
  BY DEF Init
<1>2. /\ conn.frameLen = f /\ conn.connected /\ ~conn.registered /\ conn.interest = "R"
      /\ conn.outBuf = <<>> /\ conn.inBuf = <<>> /\ conn.closes = 0 /\ conn.fatal = FALSE
      /\ conn \in [frameLen : FrameLens, connected : BOOLEAN, registered : BOOLEAN,
                   interest : {"R", "RW"}, fdOpen : BOOLEAN, outBuf : {<<>>},
                   inBuf : {<<>>}, outBufLen : Nat, closes : Nat, fatal : BOOLEAN]
  BY <1>1 DEF NewConnection
<1>3. <<>> \in Bytes /\ <<>> \in Seq(Bytes) /\ Len(<<>>) = 0 /\ <<>> \o <<>> = <<>>
  <2>1. <<>> \in Bytes /\ <<>> \in Seq(Bytes)
    BY EmptySeq DEF Bytes
  <2> QED
    BY <2>1, EmptySeq, BytesThree
<1>4. conn \in Objects
  BY <1>2, <1>3 DEF Objects
<1>5. /\ tasks = <<[op |-> "register"]>> /\ tasks \in Seq(TaskSet) /\ Len(tasks) = 1
      /\ loopPC = "wait" /\ events = {} /\ woken = FALSE /\ left = 0
      /\ callPC = [c \in Callers |-> "idle"] /\ calls = 0
      /\ shut = FALSE /\ rcv = <<>> /\ wire = <<>> /\ got = 0 /\ peer = "open"
      /\ peerSent = 0 /\ made = 0 /\ out = <<>> /\ delivered = <<>>
  BY DEF Init, TaskSet
<1>6. TypeOK
  <2>1. /\ callPC \in [Callers -> {"idle", "send", "close"}] /\ calls \in 0 .. MaxCalls
        /\ left \in 0 .. Len(tasks) /\ peerSent \in 0 .. MaxIn
    BY <1>5, ConnectionAssumption
  <2>2. rcv \in Bytes /\ wire \in Bytes /\ got \in 0 .. Len(wire) /\ out \in Bytes
        /\ delivered \in Seq(Bytes)
    BY <1>3, <1>5
  <2>3. /\ loopPC \in {"wait", "event", "tasks"} /\ events \subseteq {"Err", "Write", "Read"}
        /\ woken \in BOOLEAN /\ shut \in BOOLEAN /\ peer \in {"open", "fin", "reset"}
        /\ made \in Nat
    BY <1>5
  <2> QED
    BY <1>4, <1>5, <2>1, <2>2, <2>3 DEF TypeOK, Objects, TaskSet
<1>7. Sound(conn) /\ PlaceInv /\ ResetInv
  BY <1>2, <1>5 DEF Sound, PlaceInv, ResetInv
<1>8. OutputIntact
  <2>1. IsPrefix(<<>>, <<>>)
    BY <1>3, PrefixFirst DEF Bytes
  <2> QED
    BY <1>2, <1>3, <1>5, <2>1 DEF OutputIntact
<1>9. InputIntact
  <2>1. FlattenSeq(<<>>) = <<>>
    BY <1>3, FlattenIs DEF Bytes
  <2>2. Sent(0) = <<>>
    <3>1. Sent(0) \in Seq(Nat) /\ Len(Sent(0)) = 0
      BY SentBytes, LenProperties DEF Bytes, Sent
    <3> QED
      BY <3>1, EmptySeq
  <2>3. IsPrefix(<<>>, <<>>)
    BY <1>3, PrefixFirst DEF Bytes
  <2>4. DOMAIN delivered = {}
    BY <1>5
  <2>5. conn.frameLen \in Nat
    BY <1>1, <1>2, ConnectionAssumption
  <2> QED
    BY <1>2, <1>3, <1>5, <2>1, <2>2, <2>3, <2>4, <2>5 DEF InputIntact, Sent
<1> QED
  BY <1>6, <1>7, <1>8, <1>9 DEF ConnectionInv

(* Every step keeps the invariant. *)
LEMMA StepInv == ConnectionInv /\ [Next]_vars => ConnectionInv'
<1> SUFFICES ASSUME ConnectionInv, [Next]_vars PROVE ConnectionInv'
  OBVIOUS
<1>1. CASE UNCHANGED vars
  <2>1. UNCHANGED <<conn, tasks, loopPC, events, woken, left, callPC, calls, shut, rcv,
                    wire, got, peer, peerSent, made, out, delivered>>
    BY <1>1 DEF vars, loopVars, appVars, netVars, histVars
  <2>2. TypeOK'
    BY <2>1 DEF ConnectionInv, TypeOK
  <2>3. PlaceInv' /\ ResetInv' /\ Sound(conn') /\ OutputIntact' /\ InputIntact'
    BY <2>1, OutputSame, InputSame DEF ConnectionInv, PlaceInv, ResetInv
  <2> QED
    BY <2>2, <2>3 DEF ConnectionInv
<1>2. CASE LoopStep
  BY <1>2, EpollReturnsStep, ClosingStep, WritableStep, PublishingStep, ReadDataStep,
     RunRegisterStep, RunSendStep, RunCloseStep, TasksDoneStep DEF LoopStep
<1>3. CASE \E c \in Callers : CallSend(c) \/ CallClose(c) \/ CallShutdownWrite(c) \/ QueueStep(c)
  BY <1>3, CallStep, QueueStepKeeps
<1>4. CASE PeerSends \/ PeerReads \/ PeerFinishes \/ PeerResets
  BY <1>4, PeerSendsStep, PeerStep
<1> QED
  BY <1>1, <1>2, <1>3, <1>4 DEF Next

(* Registration, events, tasks and calls from outside keep the inductive    *)
(* invariant, in whatever order they come (connection.go).                  *)
THEOREM ConnectionInvariant == Spec => []ConnectionInv
<1> QED
  BY InitInv, StepInv, PTL DEF Spec

(* TypeOK: whatever the protocol replies and the kernel takes, the buffers  *)
(* of the connection hold bytes of the streams and no event has a mask that *)
(* EpollWait does not report.                                               *)
THEOREM ConnectionTypes == Spec => []TypeOK
<1>1. ConnectionInv => TypeOK
  BY DEF ConnectionInv
<1> QED
  BY <1>1, ConnectionInvariant, PTL

(* What the socket was given is what was handed to sendInLoop, in order,    *)
(* and the rest of it is in outBuf, through partial writes, EAGAIN and      *)
(* queued Sends (handleWrite and sendInLoop of connection.go).              *)
THEOREM OutputIntactAlways == Spec => []OutputIntact
<1>1. ConnectionInv => OutputIntact
  BY DEF ConnectionInv
<1> QED
  BY <1>1, ConnectionInvariant, PTL

(* The messages, inBuf and the kernel's buffer are the bytes the peer sent, *)
(* and a framed protocol gives whole frames, however reads cut them         *)
(* (handleRead and handlerProtocol of connection.go).                       *)
THEOREM InputIntactAlways == Spec => []InputIntact
<1>1. ConnectionInv => InputIntact
  BY DEF ConnectionInv
<1> QED
  BY <1>1, ConnectionInvariant, PTL

(* epoll watches for writability exactly while outBuf of a registered       *)
(* connection has something: EnableReadWrite of sendInLoop and EnableRead   *)
(* of handleWrite never get out of step with it.                            *)
THEOREM InterestMatchesAlways == Spec => []InterestMatches
<1>1. ConnectionInv => InterestMatches
  BY DEF ConnectionInv, Sound, InterestMatches
<1> QED
  BY <1>1, ConnectionInvariant, PTL

(* OnClose is called once per connection, when it stops being connected,    *)
(* although events, errors of reads and writes and queued Closes all lead   *)
(* to handleClose.                                                          *)
THEOREM ClosedOnceAlways == Spec => []ClosedOnce
<1>1. ConnectionInv => ClosedOnce
  BY DEF ConnectionInv, Sound, ClosedOnce
<1> QED
  BY <1>1, ConnectionInvariant, PTL

(* handleClose never removes from the loop a socket that is not in it, so   *)
(* the log.Fatal of its error never ends the program.                       *)
THEOREM ConnectionNeverFatal == Spec => [](~conn.fatal)
<1>1. ConnectionInv => ~conn.fatal
  BY DEF ConnectionInv, Sound
<1> QED
  BY <1>1, ConnectionInvariant, PTL

(* No task or event touches a closed connection or writes to its socket. *)
LEMMA ClosedStays ==
  ASSUME ConnectionInv, Next, ~conn.connected
  PROVE  conn' = conn /\ wire' = wire
<1>1. /\ conn \in Objects /\ Sound(conn) /\ events = {} /\ Known(conn)
      /\ \A i \in 1 .. Len(tasks) : tasks[i].op # "register"
  BY ObjectFacts, NoRegister DEF Known, ConnectionInv, Sound
<1>2. CASE LoopStep
  <2>1. CASE EpollReturns \/ TasksDone
    BY <2>1 DEF EpollReturns, TasksDone, netVars
  <2>2. CASE HandleErr \/ HandleWritable \/ HandleReadEnd \/ HandleReadAgain \/ HandleReadData
    BY <1>1, <2>2 DEF HandleErr, HandleWritable, HandleReadEnd, HandleReadAgain,
                      HandleReadData, Reads
  <2>3. CASE HandleNothing
    BY <1>1, <2>3 DEF HandleNothing, netVars
  <2>4. CASE RunRegister
    <3>1. /\ tasks # <<>> /\ Len(tasks) \in Nat \ {0} /\ Head(tasks) = tasks[1]
      BY <2>4, TaskDoneEffect DEF RunRegister, NextTask, ConnectionInv
    <3>2. tasks[1].op # "register"
      BY <1>1, <3>1
    <3> QED
      BY <2>4, <3>1, <3>2 DEF RunRegister, NextTask
  <2>5. CASE RunSend
    BY <2>5, ~conn.connected DEF RunSend
  <2>6. CASE RunClose
    BY <1>1, <2>6 DEF RunClose, HandleClose
  <2> QED
    BY <1>2, <2>1, <2>2, <2>3, <2>4, <2>5, <2>6 DEF LoopStep
<1>3. CASE \E c \in Callers : CallSend(c) \/ CallClose(c) \/ CallShutdownWrite(c) \/ QueueStep(c)
  BY <1>3 DEF CallSend, CallClose, CallShutdownWrite, QueueStep, QueueSend, QueueClose,
              netVars
<1>4. CASE PeerSends \/ PeerReads \/ PeerFinishes \/ PeerResets
  BY <1>4 DEF PeerSends, PeerReads, PeerFinishes, PeerResets
<1> QED
  BY <1>2, <1>3, <1>4 DEF Next

(* Closed is final: once OnClose has been called the object and what has    *)
(* been written stay as they are.                                           *)
THEOREM ClosedIsFinalAlways == Spec => ClosedIsFinal
<1>1. ConnectionInv /\ [Next]_vars => [~conn.connected => conn' = conn /\ wire' = wire]_vars
  BY ClosedStays
<1> QED
  BY <1>1, ConnectionInvariant, PTL DEF Spec, ClosedIsFinal
=============================================================================
