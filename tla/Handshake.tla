------------------------------ MODULE Handshake ------------------------------
(***************************************************************************)
(* Upgrader.Upgrade (plugins/websocket/ws/ws.go): what it makes of an      *)
(* upgrade request, as operators.  A request is a record of                *)
(*   method: "GET" or another,                                             *)
(*   proto:  the third word of the request line: prefix, whether it begins *)
(*           with HTTP/, and rest, the character codes behind it, at most  *)
(*           MaxRest of them,                                              *)
(*   lines:  the header lines, each a sequence <<name, value>>, or <<text>> *)
(*           if there is no colon in it.  Names stand for their canonical  *)
(*           spelling; values are "good", "bad" or what the header lists.  *)
(* app is what the user has set in the Upgrader: request, host, header and *)
(* before say whether OnRequest, OnHost, OnHeader and OnBeforeUpgrade let  *)
(* the request pass (a callback that is not set does), selects whether     *)
(* Protocol and Extension are set, and accepts the names these let pass.   *)
(***************************************************************************)
EXTENDS Integers, Sequences, SequencesExt

(* Requests and Upgraders as above. *)
Lists == {"Sec-Websocket-Protocol", "Sec-Websocket-Extensions"}

Mandatory == {"Host", "Upgrade", "Connection", "Sec-Websocket-Version",
              "Sec-Websocket-Key"}

(* A token list that cannot be scanned has Junk where the scan fails. *)
Junk == "!"

(* The Protocol of a handshake for which none has been selected. *)
NoProtocol == ""

(* A value is tested for being good or bad where the code tests it. *)
IsLine(line) ==
  /\ Len(line) \in {1, 2} /\ line[1] \in STRING
  /\ Len(line) = 2 =>
       /\ line[1] \in Lists => line[2] \in Seq(STRING)
       /\ line[1] \in Mandatory => line[2] \in STRING
       /\ line[1] \in Mandatory \ {"Sec-Websocket-Key"} => line[2] \in {"good", "bad"}
       /\ line[1] = "Host" => line[2] = "good"

(* With more characters a number of the version may exceed an int of Go.    *)
MaxRest == 19

IsProto(proto) ==
  proto.prefix \in BOOLEAN /\ proto.rest \in Seq(0 .. 255) /\ Len(proto.rest) <= MaxRest

IsRequest(req) ==
  /\ IsProto(req.proto)
  /\ Len(req.lines) \in Nat /\ \A i \in 1 .. Len(req.lines) : IsLine(req.lines[i])

(* A check is asked about names, which are not empty. *)
IsUpgrader(app) ==
  /\ \A x \in {app.request, app.host, app.header, app.before, app.selects} : x \in BOOLEAN
  /\ app.accepts \subseteq STRING /\ NoProtocol \notin app.accepts /\ Junk \notin app.accepts

NotANumber == -1
Dot == 46

(* asciiToInt looks at the high half of a character only, so : to ? count   *)
(* as digits of value 10 to 15.                                             *)
asciiToInt(s) ==
  LET value[n \in 0 .. Len(s)] ==
        IF n = 0 THEN 0 ELSE 10 * value[n - 1] + (s[n] % 16)
  IN IF s = <<>> \/ \E i \in DOMAIN s : s[i] \div 16 # 3 THEN NotANumber
     ELSE value[Len(s)]

(* <<major, minor>>, or <<>> for what is not a version. *)
httpParseVersion(proto) ==
  LET dot   == SelectInSeq(proto.rest, LAMBDA c : c = Dot)
      major == asciiToInt(SubSeq(proto.rest, 1, dot - 1))
      minor == asciiToInt(SubSeq(proto.rest, dot + 1, Len(proto.rest)))
  IN IF ~proto.prefix \/ Len(proto.rest) < 3 \/ dot = 0
        \/ NotANumber \in {major, minor}
     THEN <<>> ELSE <<major, minor>>

(* The error of the request line. *)
RequestLineError(req, app) ==
  LET version == httpParseVersion(req.proto)
  IN IF version = <<>> THEN "malformed request"
     ELSE IF version[1] # 1 \/ version[2] < 1 THEN "bad protocol"
     ELSE IF req.method # "GET" THEN "bad method"
     ELSE IF ~app.request THEN "rejected" ELSE "none"

(* The first name the check accepts, if there is one; the scan fails at     *)
(* Junk in front of it, and on an empty list.                               *)
btsSelectProtocol(names, accepts) ==
  LET k == SelectInSeq(names, LAMBDA n : n = Junk \/ n \in accepts)
  IN [ok |-> names # <<>> /\ (k # 0 => names[k] # Junk),
      name |-> IF k = 0 \/ names[k] = Junk THEN NoProtocol ELSE names[k]]

(* All names the check accepts, each once; their order is left out. *)
btsSelectExtensions(names, selected, accepts) ==
  [ok |-> names # <<>> /\ Junk \notin Range(names),
   names |-> selected \cup (Range(names) \cap accepts)]

(* What the loop of lines 240-309 knows: the error, headerSeen, the nonce   *)
(* and the protocol and extensions selected so far.                         *)
NoHeader(err) ==
  [err |-> err, seen |-> {}, nonce |-> "none", protocol |-> NoProtocol, extensions |-> {}]

(* One header line. *)
ReadHeader(s, line, app) ==
  LET key   == line[1]
      value == line[2]
      fail(cond, e) == IF cond THEN e ELSE "none"
      seen  == [s EXCEPT !.seen = @ \cup {key}]
      protocol   == btsSelectProtocol(value, app.accepts)
      extensions == btsSelectExtensions(value, s.extensions, app.accepts)
  IN CASE Len(line) = 1 -> [s EXCEPT !.err = "malformed request"]
       [] Len(line) = 2 /\ key = "Host" ->
            [seen EXCEPT !.err = fail(~app.host, "rejected")]
       [] Len(line) = 2 /\ key = "Upgrade" ->
            [seen EXCEPT !.err = fail(value # "good", "bad upgrade")]
       [] Len(line) = 2 /\ key = "Connection" ->
            [seen EXCEPT !.err = fail(value # "good", "bad connection")]
       [] Len(line) = 2 /\ key = "Sec-Websocket-Version" ->
            [seen EXCEPT !.err = fail(value # "good", "upgrade required")]
       [] Len(line) = 2 /\ key = "Sec-Websocket-Key" ->
            IF value = "bad" THEN [seen EXCEPT !.err = "bad sec key"]
            ELSE [seen EXCEPT !.nonce = value]
       [] Len(line) = 2 /\ key = "Sec-Websocket-Protocol" ->
            IF s.protocol # NoProtocol \/ ~app.selects THEN s
            ELSE [s EXCEPT !.protocol = protocol.name,
                           !.err = fail(~protocol.ok, "malformed request")]
       [] Len(line) = 2 /\ key = "Sec-Websocket-Extensions" ->
            IF ~app.selects THEN s
            ELSE [s EXCEPT !.extensions = extensions.names,
                           !.err = fail(~extensions.ok, "malformed request")]
       [] OTHER -> [s EXCEPT !.err = fail(~app.header, "rejected")]

(* Mutant: the loop goes on after an error, which the next line overwrites. *)
ReadHeadersOn(req, app) ==
  LET s[k \in 0 .. Len(req.lines)] ==
        IF k = 0 THEN NoHeader(RequestLineError(req, app))
        ELSE ReadHeader(s[k - 1], req.lines[k], app)
  IN s[Len(req.lines)]

(* s[k] is what is known behind the k-th line.  The loop ends at the first  *)
(* error; it does not begin after one in the request line.                  *)
ReadHeaders(req, app) ==
  LET s[k \in 0 .. Len(req.lines)] ==
        IF k = 0 THEN NoHeader(RequestLineError(req, app))
        ELSE LET before == s[k - 1]
             IN IF before.err # "none" THEN before
                ELSE ReadHeader(before, req.lines[k], app)
  IN s[Len(req.lines)]

(* The result: all five headers must have been seen, and OnBeforeUpgrade is *)
(* asked last.                                                              *)
Upgraded(req, app) ==
  LET s == ReadHeaders(req, app)
  IN IF s.err # "none" THEN s
     ELSE IF s.seen # Mandatory THEN [s EXCEPT !.err = "missing header"]
     ELSE IF ~app.before THEN [s EXCEPT !.err = "rejected"]
     ELSE s

(* httpWriteResponseUpgrade: Sec-WebSocket-Accept is made from the nonce,   *)
(* for which the nonce stands here.                                         *)
Response(s) ==
  [accept |-> s.nonce, protocol |-> s.protocol, extensions |-> s.extensions]
-----------------------------------------------------------------------------
(* The requirement, stated without the functions above: which requests      *)
(* are to be let in, and what the response to them says.                    *)

(* The places of the lines of one header, and their values. *)
Lines(req, name) ==
  {i \in 1 .. Len(req.lines) : Len(req.lines[i]) = 2 /\ req.lines[i][1] = name}

Value(req, i) == req.lines[i][2]

(* The accepted protocol names, each as the line and its place in the list. *)
Offers(req, app) ==
  {p \in UNION {{i} \X DOMAIN Value(req, i) : i \in Lines(req, "Sec-Websocket-Protocol")} :
     Value(req, p[1])[p[2]] \in app.accepts}

(* What is read of the protocol headers, which is up to the first accepted  *)
(* name, and all of the extension headers must be lists of names.           *)
ListsReadable(req, app) ==
  /\ \A i \in Lines(req, "Sec-Websocket-Protocol") :
       (\A p \in Offers(req, app) : p[1] >= i) =>
         /\ Value(req, i) # <<>>
         /\ \A j \in DOMAIN Value(req, i) :
              Value(req, i)[j] = Junk => \E p \in Offers(req, app) : p[1] = i /\ p[2] < j
  /\ \A i \in Lines(req, "Sec-Websocket-Extensions") :
       Value(req, i) # <<>> /\ Junk \notin Range(Value(req, i))

(* HTTP/ with a version of two numbers: the first is 1 and the second at    *)
(* least 1, in any number of digits.                                        *)
HasVersion(proto, Digits) ==
  LET text == proto.rest
  IN /\ proto.prefix
     /\ \E dot \in DOMAIN text :
          /\ text[dot] = Dot /\ dot > 1 /\ text[dot - 1] = 49
          /\ \A i \in 1 .. dot - 2 : text[i] = 48
          /\ \A i \in dot + 1 .. Len(text) : text[i] \in Digits
          /\ \E i \in dot + 1 .. Len(text) : text[i] # 48

IsHttp11(proto) == HasVersion(proto, 48 .. 57)

(* There is one of the six characters behind 9 in it.                       *)
Misread(proto) == \E i \in DOMAIN proto.rest : proto.rest[i] \in 58 .. 63

(* What is asked of a request besides its version.                          *)
AcceptableBut(req, app) ==
  /\ req.method = "GET"
  /\ app.request /\ app.host /\ app.before
  /\ \A name \in Mandatory :
       /\ Lines(req, name) # {}
       /\ \A i \in Lines(req, name) : Value(req, i) # "bad"
  /\ \A i \in 1 .. Len(req.lines) :
       /\ Len(req.lines[i]) = 2
       /\ \/ req.lines[i][1] \in Mandatory \/ app.header
          \/ req.lines[i][1] \in Lists
  /\ app.selects => ListsReadable(req, app)

Acceptable(req, app) == IsHttp11(req.proto) /\ AcceptableBut(req, app)

(* The accept code of the last key, ...  *)
RightAccept(accept, req) ==
  \E i \in Lines(req, "Sec-Websocket-Key") :
    accept = Value(req, i) /\ \A j \in Lines(req, "Sec-Websocket-Key") : j <= i

(* ... the first offered protocol that the check lets pass, ... *)
RightProtocol(protocol, req, app) ==
  IF ~app.selects \/ Offers(req, app) = {} THEN protocol = NoProtocol
  ELSE \E p \in Offers(req, app) :
         /\ protocol = Value(req, p[1])[p[2]]
         /\ \A q \in Offers(req, app) : p[1] < q[1] \/ (p[1] = q[1] /\ p[2] <= q[2])

(* ... and all the extensions that it lets pass. *)
RightExtensions(extensions, req, app) ==
  LET offered == UNION {Range(Value(req, i)) : i \in Lines(req, "Sec-Websocket-Extensions")}
  IN extensions = IF app.selects THEN offered \cap app.accepts ELSE {}

IsRight(response, req, app) ==
  /\ RightAccept(response.accept, req)
  /\ RightProtocol(response.protocol, req, app)
  /\ RightExtensions(response.extensions, req, app)
=============================================================================
