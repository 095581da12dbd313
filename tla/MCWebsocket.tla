----------------------------- MODULE MCWebsocket -----------------------------
(* Model-checking instance of Websocket: the usual request, followed by     *)
(* frames, and a set of others around it that are not.                      *)
EXTENDS Websocket

Http(rest) == [prefix |-> TRUE, rest |-> rest]
Http11 == Http(<<49, 46, 49>>)

UsualLines == << <<"Host", "good">>, <<"Upgrade", "good">>, <<"Connection", "good">>,
                 <<"Sec-Websocket-Version", "good">>, <<"Sec-Websocket-Key", "k1">> >>

OtherLines ==
  {<<"no colon">>, <<"Origin", "good">>, <<"Host", "good">>, <<"Upgrade", "bad">>,
   <<"Connection", "bad">>, <<"Sec-Websocket-Version", "bad">>,
   <<"Sec-Websocket-Key", "k2">>, <<"Sec-Websocket-Key", "bad">>}
  \cup {<<"Sec-Websocket-Protocol", list>> :
          list \in {<<>>, <<"a">>, <<"c", "a">>, <<"b", "!">>, <<"!", "b">>, <<"c">>}}
  \cup {<<"Sec-Websocket-Extensions", list>> :
          list \in {<<>>, <<"a", "c">>, <<"a", "!">>}}

(* One line taken out, one put in, two put in side by side, any order.      *)
HeaderLines ==
  {RemoveAt(UsualLines, i) : i \in 1 .. 5}
  \cup {InsertAt(UsualLines, i, l) : i \in 1 .. 6, l \in OtherLines}
  \cup {InsertAt(InsertAt(UsualLines, 4, l), 4, m) : l \in OtherLines, m \in OtherLines}
  \cup SetToSeqs(ToSet(UsualLines))

Permissive == [request |-> TRUE, host |-> TRUE, header |-> TRUE, before |-> TRUE,
               selects |-> TRUE, accepts |-> {"a", "b"}]

Upgraders == {Permissive, [Permissive EXCEPT !.selects = FALSE],
              [Permissive EXCEPT !.request = FALSE], [Permissive EXCEPT !.host = FALSE],
              [Permissive EXCEPT !.header = FALSE], [Permissive EXCEPT !.before = FALSE]}

UsualRequest == [method |-> "GET", proto |-> Http11, lines |-> UsualLines]

(* HTTP/1.0, HTTP/1., HTTP/1.10, HTTP/2.0, HTTP/11, HTTP/x.1, HTTP/01.1,    *)
(* HTTP/1.1.1, HTTP/1.: and no version at all.                              *)
Protos ==
  {Http(<<49, 46, 48>>), Http(<<49, 46>>), Http(<<49, 46, 49, 48>>),
   Http(<<50, 46, 48>>), Http(<<49, 49, 49>>), Http(<<120, 46, 49>>),
   Http(<<48, 49, 46, 49>>), Http(<<49, 46, 49, 46, 49>>),
   Http(<<49, 46, 58>>), [prefix |-> FALSE, rest |-> <<>>]}

(* The k-th frame: a message, a fragment or a control frame, one of three   *)
(* payloads and its own bytes, or a close frame with a code and a reason.   *)
TwoFrames ==
  [k \in 1 .. 2 |->
     {[fin |-> TRUE, op |-> op, payload |-> [i \in 1 .. n |-> 16 * (k - 1) + i],
       mask |-> [i \in 1 .. 4 |-> 3 * i + k - 1]] :
        op \in {0, 1, 8, 9, 10}, n \in {0, 2, 9}}
     \cup {[fin |-> op = 8, op |-> op, payload |-> p, mask |-> <<7, 77, 177, 255>>] :
             op \in {1, 8}, p \in {<<3, 232, 65, 66>>, <<3, 232, 255>>}}]

(* One answer for each form of a length, the longest ending in a zero byte. *)
ThreeReplies == {[i \in 1 .. n |-> (200 + i) % 209] : n \in {1, 2, 9}}

NoText == {<<255>>}

Usual == {[req |-> UsualRequest, app |-> Permissive]}

(* No client sends frames, in the run about the upgrade alone. *)
None == {}

AllRequests ==
  Usual
  \cup {[req |-> [UsualRequest EXCEPT !.lines = ls], app |-> a] :
          ls \in HeaderLines, a \in Upgraders}
  \cup {[req |-> [UsualRequest EXCEPT !.proto = p], app |-> Permissive] : p \in Protos}
  \cup {[req |-> [UsualRequest EXCEPT !.method = "POST"], app |-> Permissive]}
=============================================================================
