------------------------------ MODULE Websocket ------------------------------
(***************************************************************************)
(* The websocket protocol on a connection (plugins/websocket): the upgrade *)
(* request, the frames UnPacket cuts out of the bytes that have been read, *)
(* the replies to them, and handleRead of connection.go around it, on ring *)
(* buffers that are records of RingBuffer.  One UnPacket with the call of  *)
(* OnMessage that follows is one step.                                     *)
(*                                                                         *)
(* Bytes are numbers.  The HTTP texts are abstracted: in the stream, the   *)
(* upgrade request is a byte followed by End, which stands for the empty   *)
(* line, and the response is one byte; what they say is in request and     *)
(* response, as records of Handshake.  Len7 and Len16 are constants, so    *)
(* that the longer forms of a length occur with short payloads.            *)
(***************************************************************************)
EXTENDS Integers, Sequences, SequencesExt, Handshake

CONSTANTS
  Requests,    \* upgrade requests, each with the Upgrader that gets it
  Followed,    \* those of them after which the client sends frames
  Sends,       \* Sends[k] is the set of frames the client may send as its
               \* k-th, with the masks; it sends at most Len(Sends)
  Len7,        \* longest payload whose length is in the second byte (125)
  Len16,       \* longest payload whose length takes two more (65535)
  MaxControl,  \* MaxControlFramePayloadSize (125)
  Replies,     \* what the user's handler may answer to a message with
  NotText,     \* the byte sequences that are not UTF-8
  PacketSize,  \* length of the loop's packet buffer, the most one read takes
  AnyCut       \* a read may end anywhere, see ReadPacket

Byte == 0 .. 255

(* Lengths from here on are not told apart. *)
Huge == 16777216

ASSUME WebsocketAssumption ==
  /\ \A r \in Requests : IsRequest(r.req) /\ IsUpgrader(r.app)
  /\ Len(Sends) \in Nat
  /\ \A k \in 1 .. Len(Sends) : \A f \in Sends[k] :
       /\ f.fin \in BOOLEAN /\ f.op \in 0 .. 15
       /\ f.payload \in Seq(Byte) /\ Len(f.payload) < Huge
       /\ f.mask \in Seq(Byte) /\ Len(f.mask) = 4
  /\ \A r \in Replies : r \in Seq(Byte) /\ Len(r) \in 1 .. Huge - 1
  /\ Len7 \in 1 .. 125 /\ Len16 \in Len7 .. 65535 /\ MaxControl \in 2 .. 125
  /\ PacketSize \in Nat \ {0} /\ AnyCut \in BOOLEAN

VARIABLES
  request,   \* the upgrade request [req, app] of this connection
  response,  \* response to it, <<>> until there is one
  stream,    \* bytes of the client that have not been read
  sent,      \* frames the client has sent
  cur,       \* buffer handlerProtocol works on: "none", "buf" or "inBuf"
  buf,       \* c.buf, which wraps the packet buffer of one read
  inBuf,     \* c.inBuf, what is left of earlier reads
  upgraded,  \* upgradedKey is set
  hdr,       \* the 12 bytes under headerbufferKey
  reply,     \* replies collected in this read
  msgs,      \* frames handed to OnMessage
  answers,   \* frames OnMessage has returned
  wire,      \* bytes written to the socket
  shut,      \* the write side has been shut down
  closed,    \* handleClose has run
  fatal      \* log.Fatal has ended the process

inVars == <<cur, buf, inBuf, upgraded, hdr>>
outVars == <<reply, answers, wire, shut>>
shakeVars == <<request, response>>
vars == <<shakeVars, stream, sent, inVars, msgs, outVars, closed, fatal>>

RB == INSTANCE RingBuffer WITH rb <- inBuf, ret <- <<>>, MaxLen <- PacketSize,
                               MaxSize <- 0, AnyCall <- TRUE

End == 10
RequestBytes == <<71, End>>
ResponseBytes == <<72>>

Text == 1
Binary == 2
Close == 8
Ping == 9
Pong == 10
IsControl(op) == op >= 8

Init ==
  /\ request \in Requests /\ response = <<>>
  /\ stream = RequestBytes /\ sent = <<>>
  /\ cur = "none" /\ buf = RB!New(0) /\ inBuf = RB!New(0)
  /\ upgraded = FALSE /\ hdr = [i \in 1 .. 12 |-> 0]
  /\ reply = <<>> /\ msgs = <<>> /\ answers = <<>> /\ wire = <<>>
  /\ shut = FALSE /\ closed = FALSE /\ fatal = FALSE
-----------------------------------------------------------------------------
(* Frames *)

(* a ^ b, for bytes. *)
XorBit(a, b, w) == w * ((a \div w + b \div w) % 2)

Xor(a, b) ==
  XorBit(a, b, 1) + XorBit(a, b, 2) + XorBit(a, b, 4) + XorBit(a, b, 8)
    + XorBit(a, b, 16) + XorBit(a, b, 32) + XorBit(a, b, 64) + XorBit(a, b, 128)

(* Mutant: the bytes after the last whole word are forgotten. *)
CipherNoTail(p, mask, offset) ==
  LET n == Len(p)
      whole == IF n < 8 THEN n ELSE n - (n % 8)
  IN [i \in 1 .. n |-> IF i <= whole THEN Xor(p[i], mask[1 + ((offset + i - 1) % 4)])
                       ELSE p[i]]

(* Cipher: the bytes of p before the first and after the last whole word of *)
(* eight are treated one by one, the words between with the mask twice.     *)
Cipher(p, mask, offset) ==
  LET n    == Len(p)
      mpos == offset % 4
      ln   == IF n < 8 THEN n ELSE (4 - mpos) % 4
      rn   == (n - ln) % 8
  IN [i \in 1 .. n |->
        Xor(p[i], mask[1 + ((IF i <= ln \/ i > n - rn THEN mpos + i - 1
                             ELSE (i - ln - 1) % 8) % 4)])]

(* PutUint16, and PutUint64 for numbers with four bytes. *)
PutUint16(n) == <<(n \div 256) % 256, n % 256>>

PutUint64(n) ==
  <<0, 0, 0, 0, (n \div Huge) % 256, (n \div 65536) % 256, (n \div 256) % 256, n % 256>>

(* The second byte, with the bit that says whether there is a mask, and the *)
(* longer forms of the length behind it.                                    *)
LengthBytes(n, bit) ==
  IF n <= Len7 THEN <<bit + n>>
  ELSE IF n <= Len16 THEN <<bit + Len7 + 1>> \o PutUint16(n)
  ELSE <<bit + Len7 + 2>> \o PutUint64(n)

FirstByte(fin, op) == (IF fin THEN 128 ELSE 0) + op

WriteHeader(fin, op, n, mask) ==
  <<FirstByte(fin, op)>> \o LengthBytes(n, IF mask = <<>> THEN 0 ELSE 128) \o mask

(* The server does not mask, and all its frames are final. *)
FrameToBytes(f) == WriteHeader(TRUE, f.op, Len(f.payload), <<>>) \o f.payload

(* The client masks. *)
ClientHeader(f) == WriteHeader(f.fin, f.op, Len(f.payload), f.mask)
HeaderLen(f) == Len(ClientHeader(f))
ClientFrame(f) ==
  ClientHeader(f)
    \o [i \in DOMAIN f.payload |-> Xor(f.payload[i], f.mask[1 + ((i - 1) % 4)])]

ClientSends ==
  /\ Len(sent) < Len(Sends) /\ ~shut /\ request \in Followed
  /\ \E f \in Sends[Len(sent) + 1] :
       sent' = Append(sent, f) /\ stream' = stream \o ClientFrame(f)
  /\ UNCHANGED <<shakeVars, inVars, msgs, outVars, closed, fatal>>
-----------------------------------------------------------------------------
(* handleRead *)

(* Where the k-th frame begins in all that the client has sent. *)
Start[k \in 1 .. Len(sent) + 1] ==
  IF k = 1 THEN Len(RequestBytes)
  ELSE Start[k - 1] + HeaderLen(sent[k - 1]) + Len(sent[k - 1].payload)

(* A read that ends in a frame after its sixth byte and not after its       *)
(* header makes VirtualReadHeader run out of data, which the ring buffer    *)
(* does not survive.  Without AnyCut reads end elsewhere, in the request    *)
(* too.                                                                     *)
CleanCut(n) ==
  LET at == Start[Len(sent) + 1] - Len(stream) + n
  IN \A k \in 1 .. Len(sent) :
       at < Start[k + 1] => at - Start[k] \notin 6 .. HeaderLen(sent[k])

ReadPacket(n) ==
  /\ cur = "none" /\ ~closed
  /\ n <= Len(stream)
  /\ AnyCut \/ CleanCut(n)
  /\ stream' = SubSeq(stream, n + 1, Len(stream))
  /\ IF inBuf.isEmpty
     THEN cur' = "buf" /\ buf' = RB!WithData(SubSeq(stream, 1, n)) /\ UNCHANGED inBuf
     ELSE cur' = "inBuf" /\ inBuf' = RB!Write(inBuf, SubSeq(stream, 1, n)) /\ UNCHANGED buf
  /\ UNCHANGED <<shakeVars, sent, upgraded, hdr, msgs, outVars, closed, fatal>>

Buffer == IF cur = "buf" THEN buf ELSE inBuf

SetBuffer(b) ==
  IF cur = "buf" THEN buf' = b /\ UNCHANGED inBuf ELSE inBuf' = b /\ UNCHANGED buf

(* UnPacket has returned nothing: what is left of c.buf goes to inBuf, an   *)
(* empty inBuf is reset, and the replies are sent, which after ShutdownWrite *)
(* fails and closes the connection.                                         *)
EndRead(b) ==
  LET rest == IF cur = "inBuf" THEN b ELSE RB!Write(inBuf, RB!PeekAllFirst(b))
  IN /\ cur' = "none"
     /\ buf' = RB!New(0)
     /\ inBuf' = IF rest.isEmpty THEN RB!RetrieveAll(rest) ELSE rest
     /\ reply' = <<>>
     /\ closed' = (reply # <<>> /\ shut)
     /\ wire' = IF shut THEN wire ELSE wire \o reply
-----------------------------------------------------------------------------
(* UnPacket *)

(* The first call: Upgrade takes the request off the buffer; its errors are *)
(* fatal.  Without the empty line there is no line at all, and the request  *)
(* line cannot be parsed.                                                   *)
Upgrade ==
  /\ cur # "none" /\ ~upgraded
  /\ LET data   == RB!Bytes(Buffer)
         result == Upgraded(request.req, request.app)
     IN IF Contains(data, End) /\ result.err = "none"
        THEN /\ upgraded' = TRUE
             /\ response' = <<Response(result)>>
             /\ reply' = reply \o ResponseBytes
             /\ SetBuffer(RB!Read(Buffer, SelectInSeq(data, LAMBDA x : x = End)))
             /\ UNCHANGED fatal
        ELSE /\ fatal' = TRUE
             /\ UNCHANGED <<response, upgraded, reply, buf, inBuf>>
  /\ UNCHANGED <<request, stream, sent, cur, hdr, msgs, answers, wire, shut, closed>>

(* Mutant: what is read replaces all of the header buffer. *)
VirtualShrinks(b, bts, n) ==
  [b |-> RB!VirtualRead(b, n),
   bts |-> RB!Slice(b, b.vr, RB!Available(b, b.vr, n))]

(* VirtualRead into bts[:n], which keeps its old bytes behind those read. *)
Virtual(b, bts, n) ==
  LET got == RB!Slice(b, b.vr, RB!Available(b, b.vr, n))
  IN [b |-> RB!VirtualRead(b, n), bts |-> got \o SubSeq(bts, Len(got) + 1, 12)]

(* Uint16 or Uint64 of the bytes of a length. *)
Number(bts) ==
  IF Len(bts) = 2 THEN 256 * bts[1] + bts[2]
  ELSE IF \E i \in 1 .. 5 : bts[i] > 0 THEN Huge
  ELSE 65536 * bts[6] + 256 * bts[7] + bts[8]

VirtualReadHeader(b) ==
  LET two    == Virtual(b, hdr, 2)
      code   == two.bts[2] % 128
      masked == two.bts[2] >= 128
      width  == IF code <= Len7 THEN 0 ELSE IF code = Len7 + 1 THEN 2 ELSE 8
      more   == Virtual(two.b, two.bts, width + IF masked THEN 4 ELSE 0)
  IN [b |-> more.b, bts |-> more.bts, op |-> two.bts[1] % 16,
      length |-> IF width = 0 THEN code ELSE Number(SubSeq(more.bts, 1, width)),
      mask |-> IF masked THEN SubSeq(more.bts, width + 1, width + 4)
               ELSE <<0, 0, 0, 0>>,
      error |-> width = 8 /\ (code # Len7 + 2 \/ more.bts[1] >= 128)]

(* The status codes that may be in a close frame: used, not reserved, and   *)
(* defined if the protocol is to define them.                               *)
CloseCodes == (1000 .. 1003) \cup (1007 .. 1011) \cup (3000 .. 65535)

(* No error, for the code and the reason of a close frame. *)
CheckCloseFrameData(code, reason) == code \in CloseCodes /\ reason \notin NotText

(* The code and as much of the reason as fits in a control frame. *)
NewCloseFrameBody(code, reason) ==
  PutUint16(code)
    \o SubSeq(reason, 1, IF Len(reason) <= MaxControl - 2 THEN Len(reason) ELSE MaxControl - 2)

(* The code of a payload too short for one is 0.                            *)
CloseCode(p) == IF Len(p) < 2 THEN 0 ELSE 256 * p[1] + p[2]
CloseReason(p) == IF Len(p) < 2 THEN <<>> ELSE SubSeq(p, 3, Len(p))

StatusProtocolError == 1002

(* The texts of the errors, all of which are shorter than a control frame.  *)
ErrorText == <<69>>

(* The body of the reply to a close frame. *)
CloseBody(p) ==
  IF p = <<>> THEN <<>>
  ELSE IF CheckCloseFrameData(CloseCode(p), CloseReason(p))
       THEN NewCloseFrameBody(CloseCode(p), CloseReason(p))
       ELSE NewCloseFrameBody(StatusProtocolError, ErrorText)

(* What OnMessage returns: the wrapper answers control frames, the handler  *)
(* may answer a data frame with a text or a binary message.                 *)
Answers(op, p) ==
  CASE op = Close -> {<<[op |-> Close, payload |-> CloseBody(p)]>>}
    [] op = Ping  -> {<<[op |-> Pong, payload |-> p]>>}
    [] op = Pong  -> {<<[op |-> Ping, payload |-> p]>>}
    [] OTHER      -> IF IsControl(op) THEN {<<>>}
                     ELSE {<<>>} \cup {<<f>> : f \in [op : {Text, Binary}, payload : Replies]}

(* Mutant: a reply takes the place of those collected before it. *)
OnMessageOverwrites(op, p) ==
  /\ msgs' = Append(msgs, [op |-> op, payload |-> p])
  /\ shut' = (shut \/ op = Close)
  /\ \E a \in Answers(op, p) :
       /\ answers' = answers \o a
       /\ reply' = FlattenSeq([i \in DOMAIN a |-> FrameToBytes(a[i])])

(* After a close frame the write side is shut down at once. *)
OnMessage(op, p) ==
  /\ msgs' = Append(msgs, [op |-> op, payload |-> p])
  /\ shut' = (shut \/ op = Close)
  /\ \E a \in Answers(op, p) :
       /\ answers' = answers \o a
       /\ reply' = reply \o FlattenSeq([i \in DOMAIN a |-> FrameToBytes(a[i])])

(* The payload is read into a fresh slice: zeros where the data ends. *)
Payload(h, b) ==
  LET got == RB!PeekBytes(b, h.length)
  IN Cipher(got \o [i \in 1 .. h.length - Len(got) |-> 0], h.mask, 0)

UnPacket ==
  /\ cur # "none" /\ upgraded
  /\ LET h       == VirtualReadHeader(Buffer)
         flushed == RB!VirtualFlush(h.b)
     IN IF RB!Length(Buffer) < 6
        THEN EndRead(Buffer) /\ UNCHANGED <<hdr, msgs, answers, shut, fatal>>
        ELSE /\ hdr' = h.bts
             /\ \/ /\ h.error
                   /\ fatal' = TRUE
                   /\ UNCHANGED <<cur, buf, inBuf, msgs, outVars, closed>>
                \/ /\ ~h.error /\ RB!VirtualLength(h.b) >= h.length
                   /\ SetBuffer(RB!Read(flushed, h.length))
                   /\ OnMessage(h.op, Payload(h, flushed))
                   /\ UNCHANGED <<cur, wire, closed, fatal>>
                \/ /\ ~h.error /\ RB!VirtualLength(h.b) < h.length
                   /\ EndRead(RB!VirtualRevert(h.b))
                   /\ UNCHANGED <<msgs, answers, shut, fatal>>
  /\ UNCHANGED <<shakeVars, stream, sent, upgraded>>
-----------------------------------------------------------------------------
Next ==
  /\ ~fatal
  /\ \/ ClientSends
     \/ \E n \in 1 .. PacketSize : ReadPacket(n)
     \/ Upgrade
     \/ UnPacket

Spec == Init /\ [][Next]_vars
-----------------------------------------------------------------------------
TypeOK ==
  /\ Len(response) <= 1
  /\ stream \in Seq(Byte) /\ wire \in Seq(Byte) /\ reply \in Seq(Byte)
  /\ \A s \in {sent, msgs, answers} :
       \A i \in DOMAIN s : s[i].op \in 0 .. 15 /\ s[i].payload \in Seq(Byte)
  /\ cur \in {"none", "buf", "inBuf"}
  /\ \A b \in {buf, inBuf} :
       /\ b.size \in Nat /\ b.buf \in [0 .. b.size - 1 -> Byte]
       /\ \A p \in {b.r, b.w, b.vr} : p = 0 \/ p \in 0 .. b.size - 1
  /\ hdr \in Seq(Byte) /\ Len(hdr) = 12
  /\ {upgraded, shut, closed, fatal} \subseteq BOOLEAN

(* As long as no read ends in a header (CleanCut), OnMessage is given       *)
(* exactly the client's frames, unmasked, in order; once everything has     *)
(* been read none is missing (protocol.go, lines 22-59, with the leftovers  *)
(* in inBuf).                                                               *)
MessagesIntact ==
  LET plain == [k \in DOMAIN sent |-> [op |-> sent[k].op, payload |-> sent[k].payload]]
  IN /\ IsPrefix(msgs, plain)
     /\ stream = <<>> /\ cur = "none" /\ ~closed => msgs = plain

(* The client's view of the bytes b: the frame behind the first p of them,  *)
(* and where it ends.                                                       *)
FrameAt(b, p) ==
  LET code  == b[p + 2]
      width == IF code <= Len7 THEN 0 ELSE IF code = Len7 + 1 THEN 2 ELSE 8
      n     == IF width = 0 THEN code ELSE Number(SubSeq(b, p + 3, p + 2 + width))
  IN [frame |-> [op |-> b[p + 1] % 16,
                 payload |-> SubSeq(b, p + 3 + width, p + 2 + width + n)],
      end |-> p + 2 + width + n]

(* A client that reads frame by frame from place p finds fs and the end.    *)
Decodes(b, p, fs) ==
  LET at[k \in 0 .. Len(fs)] == IF k = 0 THEN p ELSE FrameAt(b, at[k - 1]).end
  IN /\ \A k \in 1 .. Len(fs) :
          at[k - 1] < Len(b) /\ FrameAt(b, at[k - 1]).frame = fs[k]
     /\ at[Len(fs)] = Len(b)

(* A client that reads what the server has written finds the response to    *)
(* the upgrade and then the answers, whole and in order, whatever form      *)
(* their lengths take (write.go, lines 47-84; wrap.go, lines 37-89).        *)
RepliesIntact ==
  cur = "none" /\ wire # <<>> /\ ~closed =>
    /\ IsPrefix(ResponseBytes, wire)
    /\ Decodes(wire, Len(ResponseBytes), answers)

(* The read has ended before the empty line behind the request. *)
RequestCut == ~upgraded /\ ~Contains(RB!Bytes(Buffer), End)

(* Whatever the order of the headers, whatever the request says and however *)
(* it is cut into reads: a response is right, and given only to a request   *)
(* that is acceptable; and the process is not ended by one that is.  Two    *)
(* exceptions are named: asciiToInt, which by its comment takes 0-9 for     *)
(* digits (ws/utils.go, lines 11-13), also takes the six characters behind  *)
(* 9; and a request of which a part has arrived ends the process (ws.go,    *)
(* lines 160-345; protocol.go, lines 24-32), see RefusedRightly.            *)
HandshakeExact ==
  LET req == request.req
      app == request.app
  IN /\ response # <<>> =>
          /\ AcceptableBut(req, app) /\ (IsHttp11(req.proto) \/ Misread(req.proto))
          /\ IsRight(response[1], req, app)
     /\ fatal /\ response = <<>> => ~Acceptable(req, app) \/ RequestCut

(* When Upgrade has returned an error, which ends the process, the request  *)
(* is a bad one and the client has been sent a response (ws.go, lines       *)
(* 156-159).  The code meets neither for a good request of which the first  *)
(* read has brought a part, and not the second for a bad one (protocol.go,  *)
(* lines 26-29).                                                            *)
RefusedRightly ==
  fatal /\ ~upgraded => ~Acceptable(request.req, request.app) /\ wire # <<>>

(* A close frame is answered by a close frame: "HandleClose ... returns the *)
(* reply" (utils/utils.go, lines 26-46), and the connection does not close  *)
(* before the client has been sent it.                                      *)
CloseAnswered ==
  closed => \E k \in DOMAIN answers :
              /\ answers[k].op = Close
              /\ Decodes(wire, Len(ResponseBytes), SubSeq(answers, 1, k))
=============================================================================
