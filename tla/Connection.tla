----------------------------- MODULE Connection -----------------------------
(***************************************************************************)
(* One TCP connection of connection.go, from its registration with its     *)
(* event loop to its close: the bytes read from the socket, the messages   *)
(* the protocol cuts out of them, the replies and the Sends written back,  *)
(* outBuf for what the kernel does not take, the epoll interest, and close *)
(* by either side.  The loop goroutine alternates between the events of    *)
(* this connection and the tasks queued for it (EventLoop, TaskQueue);     *)
(* callers, the kernel and the peer move concurrently.                     *)
(*                                                                         *)
(* Bytes are numbered: the k-th byte the peer sends is k, and so is the    *)
(* k-th byte the application makes, so order, loss and repetition show.    *)
(* conn is the part of the Connection object the loop goroutine owns:      *)
(*   connected, registered (in the loop's sockets and in epoll), interest  *)
(*   ("R" or "RW"), fdOpen, outBuf, inBuf, outBufLen (the atomic that      *)
(*   WriteBufLen reads), closes (calls of OnClose), fatal (log.Fatal), and *)
(*   its protocol, frameLen                                                *)
(***************************************************************************)
EXTENDS Integers, Sequences, SequencesExt

CONSTANTS
  Callers,     \* goroutines that call Send and Close
  FrameLens,   \* protocols: bytes of a message; 0 is DefaultProtocol
  ReplyLen,    \* bytes of a reply and of a Send
  PacketSize,  \* length of the loop's packet buffer, the most one read takes
  SndCap,      \* bytes the kernel's send buffer holds
  MaxIn,       \* bound on the bytes the peer sends
  MaxCalls     \* bound on the calls of Send, Close and ShutdownWrite

ASSUME ConnectionAssumption ==
  /\ FrameLens \subseteq Nat /\ MaxIn \in Nat /\ MaxCalls \in Nat
  /\ ReplyLen \in Nat \ {0} /\ PacketSize \in Nat \ {0} /\ SndCap \in Nat \ {0}

VARIABLES
  conn,       \* the connection object, see above
  tasks,      \* the loop's task queue, for this connection
  loopPC,     \* "wait" in EpollWait, "event" handling one, "tasks"
  events,     \* what EpollWait reported for the connection
  woken,      \* EpollWait reported the eventfd too
  left,       \* tasks swapped out and still to be run
  callPC,     \* place of each caller: "idle", "send" or "close"
  calls,      \* calls made so far
  shut,       \* ShutdownWrite has shut the write side of the socket
  rcv,        \* bytes in the kernel's receive buffer
  wire,       \* all bytes written to the socket
  got,        \* how many of them the peer has taken
  peer,       \* "open", "fin" (it has shut down writing) or "reset"
  peerSent,   \* bytes the peer has sent
  made,       \* bytes the application has made
  out,        \* all bytes handed to sendInLoop
  delivered   \* messages handed to OnMessage

loopVars == <<loopPC, events, woken, left>>
appVars == <<callPC, calls>>
netVars == <<shut, rcv, wire, got, peer, peerSent>>
histVars == <<made, out, delivered>>
vars == <<conn, tasks, loopVars, appVars, netVars, histVars>>

NewConnection(f) ==
  [frameLen |-> f, connected |-> TRUE, registered |-> FALSE, interest |-> "R",
   fdOpen |-> TRUE,
   outBuf |-> <<>>, inBuf |-> <<>>, outBufLen |-> 0, closes |-> 0, fatal |-> FALSE]

(* handleNewConnection has queued OnConnect and the registration. *)
Init ==
  /\ conn \in {NewConnection(f) : f \in FrameLens}
  /\ tasks = <<[op |-> "register"]>>
  /\ loopPC = "wait" /\ events = {} /\ woken = FALSE /\ left = 0
  /\ callPC = [c \in Callers |-> "idle"] /\ calls = 0
  /\ shut = FALSE /\ rcv = <<>> /\ wire = <<>> /\ got = 0 /\ peer = "open" /\ peerSent = 0
  /\ made = 0 /\ out = <<>> /\ delivered = <<>>
-----------------------------------------------------------------------------

(* Mutant: handleClose does not look at connected. *)
HandleCloseUnchecked(c) ==
  [c EXCEPT !.connected = FALSE, !.fatal = ~c.registered,
            !.registered = FALSE, !.closes = @ + 1, !.fdOpen = FALSE]

(* The methods that run on the loop goroutine, as operators on conn. *)

HandleClose(c) ==
  IF c.connected
  THEN [c EXCEPT !.connected = FALSE, !.fatal = ~c.registered,
                 !.registered = FALSE, !.closes = @ + 1, !.fdOpen = FALSE]
  ELSE c

(* What a write of len bytes may return: -1 an error, 0 EAGAIN. *)
WriteResults(len) ==
  LET room == SndCap - (Len(wire) - got)
  IN IF peer = "reset" \/ shut THEN {-1}
     ELSE IF room = 0 THEN {0} ELSE 1 .. (IF room < len THEN room ELSE len)

(* Mutant: what the kernel did not take does not enable EPOLLOUT. *)
SendInLoopNoEnable(c, data, w) ==
  IF c.outBuf # <<>> THEN [c EXCEPT !.outBuf = @ \o data]
  ELSE IF w = -1 THEN HandleClose(c)
  ELSE [c EXCEPT !.outBuf = SubSeq(data, w + 1, Len(data))]

(* Mutant: after a partial write all of data is buffered. *)
SendInLoopRepeats(c, data, w) ==
  IF c.outBuf # <<>> THEN [c EXCEPT !.outBuf = @ \o data]
  ELSE IF w = -1 THEN HandleClose(c)
  ELSE IF w = Len(data) THEN c
  ELSE [c EXCEPT !.outBuf = data, !.interest = "RW"]

(* sendInLoop(data) when its write, if it makes one, returns w. *)
SendInLoop(c, data, w) ==
  IF c.outBuf # <<>> THEN [c EXCEPT !.outBuf = @ \o data]
  ELSE IF w = -1 THEN HandleClose(c)
  ELSE LET rest == SubSeq(data, w + 1, Len(data))
       IN [c EXCEPT !.outBuf = rest,
                    !.interest = IF rest # <<>> THEN "RW" ELSE @]

(* Mutant: EnableRead is forgotten once outBuf is empty. *)
HandleWriteNoEnable(c, w) ==
  IF w = -1 THEN HandleClose(c)
  ELSE [c EXCEPT !.outBuf = SubSeq(c.outBuf, w + 1, Len(c.outBuf))]

(* handleWrite when w bytes of outBuf are written; the two writes for a     *)
(* wrapped ring buffer are one write of any length up to both.              *)
HandleWrite(c, w) ==
  IF w = -1 THEN HandleClose(c)
  ELSE LET rest == SubSeq(c.outBuf, w + 1, Len(c.outBuf))
       IN [c EXCEPT !.outBuf = rest,
                    !.interest = IF rest = <<>> THEN "R" ELSE @]

(* The messages UnPacket cuts out of buffer b, and what it leaves there. *)
Unpacked(b) ==
  IF conn.frameLen = 0
  THEN IF b = <<>> THEN <<>> ELSE <<b>>
  ELSE [k \in 1 .. Len(b) \div conn.frameLen |->
          SubSeq(b, (k - 1) * conn.frameLen + 1, k * conn.frameLen)]

(* Mutant: the rest of an incomplete frame is not kept. *)
LeftoverLost(b) == <<>>

Leftover(b) ==
  IF conn.frameLen = 0 THEN <<>>
  ELSE SubSeq(b, (Len(b) \div conn.frameLen) * conn.frameLen + 1, Len(b))

(* n fresh replies or Sends of the application, one after the other. *)
Fresh(n) == [i \in 1 .. n * ReplyLen |-> made + i]

(* Mutant: outBufLen is published only while something is left to write. *)
PublishPendingOnly(c) ==
  IF c.connected /\ c.outBuf # <<>> THEN [c EXCEPT !.outBufLen = Len(c.outBuf)] ELSE c

(* The end of HandleEvent: the lengths are published unless it closed. *)
Publish(c) == IF c.connected THEN [c EXCEPT !.outBufLen = Len(c.outBuf)] ELSE c

(* sendInLoop(data) with its effect on the wire; a call from HandleEvent    *)
(* publishes the lengths afterwards.                                        *)
DoSend(c, data, inEvent) ==
  LET after(d) == IF inEvent THEN Publish(d) ELSE d
  IN IF c.outBuf # <<>>
     THEN conn' = after(SendInLoop(c, data, 0)) /\ UNCHANGED wire
     ELSE \E w \in WriteResults(Len(data)) :
            /\ conn' = after(SendInLoop(c, data, w))
            /\ wire' = IF w > 0 THEN wire \o SubSeq(data, 1, w) ELSE wire
-----------------------------------------------------------------------------
(* Poll and HandleEvent *)

(* The event mask of the socket, and its translation in Poll (epoll.go,     *)
(* lines 157-171).  Urgent data makes PRI; after a reset the kernel reports *)
(* ERR and HUP, with or without IN.  A socket that is shut down for writing *)
(* counts as writable, and one that is shut down both ways as hung up.      *)
Masks ==
  LET in  == IF rcv # <<>> \/ peer = "fin" THEN {"IN"} ELSE {}
      out_ == IF conn.interest = "RW" /\ (shut \/ Len(wire) - got < SndCap)
              THEN {"OUT"} ELSE {}
      hup == IF shut /\ peer = "fin" THEN {"HUP"} ELSE {}
      all == in \cup out_ \cup hup
  IN IF peer = "reset" THEN {{"HUP", "ERR"}, {"HUP", "ERR", "IN"}}
     ELSE {all, all \cup {"PRI"}}

Translate(mask) ==
  (IF "HUP" \in mask /\ "IN" \notin mask THEN {"Err"} ELSE {})
  \cup (IF mask \cap {"ERR", "OUT"} # {} THEN {"Write"} ELSE {})
  \cup (IF mask \cap {"IN", "PRI"} # {} THEN {"Read"} ELSE {})

EpollReturns ==
  /\ loopPC = "wait"
  /\ events' \in IF conn.registered THEN {Translate(m) : m \in Masks} ELSE {{}}
  /\ woken' = (tasks # <<>>)
  /\ events' # {} \/ woken'
  /\ loopPC' = "event"
  /\ UNCHANGED <<conn, tasks, left, appVars, netVars, histVars>>

(* After the events the loop runs the tasks queued by then, if woken. *)
EndEvent ==
  /\ events' = {}
  /\ woken' = FALSE
  /\ loopPC' = IF woken THEN "tasks" ELSE "wait"
  /\ left' = IF woken THEN Len(tasks) ELSE 0
  /\ UNCHANGED <<tasks, appVars>>

HandleErr ==
  /\ loopPC = "event" /\ "Err" \in events
  /\ conn' = HandleClose(conn)
  /\ EndEvent
  /\ UNCHANGED <<netVars, histVars>>

HandleWritable ==
  /\ loopPC = "event" /\ "Err" \notin events /\ "Write" \in events
  /\ conn.outBuf # <<>>
  /\ \E w \in WriteResults(Len(conn.outBuf)) :
       /\ conn' = Publish(HandleWrite(conn, w))
       /\ wire' = IF w > 0 THEN wire \o SubSeq(conn.outBuf, 1, w) ELSE wire
  /\ EndEvent
  /\ UNCHANGED <<shut, rcv, got, peer, peerSent, histVars>>

Reads == /\ loopPC = "event" /\ "Err" \notin events /\ "Read" \in events
         /\ conn.outBuf = <<>>

(* Mutant: a read of zero bytes is taken for EAGAIN. *)
HandleReadEndIgnoresFin ==
  /\ Reads /\ rcv = <<>> /\ peer # "open"
  /\ conn' = IF peer = "reset" THEN HandleClose(conn) ELSE Publish(conn)
  /\ EndEvent
  /\ UNCHANGED <<netVars, histVars>>

(* read returns 0 or an error. *)
HandleReadEnd ==
  /\ Reads /\ rcv = <<>> /\ peer # "open"
  /\ conn' = HandleClose(conn)
  /\ EndEvent
  /\ UNCHANGED <<netVars, histVars>>

HandleReadAgain ==
  /\ Reads /\ rcv = <<>> /\ peer = "open"
  /\ conn' = Publish(conn)
  /\ EndEvent
  /\ UNCHANGED <<netVars, histVars>>

(* OnMessage is called for every message in the buffer; r of the calls      *)
(* return a reply, and all replies are sent at the end.                     *)
HandleReadData ==
  /\ Reads /\ rcv # <<>>
  /\ LET n    == IF Len(rcv) < PacketSize THEN Len(rcv) ELSE PacketSize
         b    == conn.inBuf \o SubSeq(rcv, 1, n)
         msgs == Unpacked(b)
         c    == [conn EXCEPT !.inBuf = Leftover(b)]
     IN /\ rcv' = SubSeq(rcv, n + 1, Len(rcv))
        /\ delivered' = delivered \o msgs
        /\ \E r \in 0 .. Len(msgs) :
             /\ made' = made + r * ReplyLen
             /\ out' = out \o Fresh(r)
             /\ IF r = 0 THEN conn' = Publish(c) /\ UNCHANGED wire
                ELSE DoSend(c, Fresh(r), TRUE)
  /\ EndEvent
  /\ UNCHANGED <<shut, got, peer, peerSent>>

(* Nothing to do: only the eventfd was reported, or the socket is readable  *)
(* while outBuf is not empty, or writable while it is.                      *)
HandleNothing ==
  /\ loopPC = "event" /\ "Err" \notin events
  /\ "Write" \in events => conn.outBuf = <<>>
  /\ "Read" \in events => conn.outBuf # <<>>
  /\ conn' = IF events = {} THEN conn ELSE Publish(conn)
  /\ EndEvent
  /\ UNCHANGED <<netVars, histVars>>
-----------------------------------------------------------------------------

(* Mutant: the count of tasks to run is not decremented. *)
TaskDoneNoCount ==
  /\ tasks' = Tail(tasks)
  /\ UNCHANGED <<loopPC, events, woken, left, appVars, shut, rcv, got, peer,
                 peerSent, made, delivered>>

(* Tasks *)

TaskDone ==
  /\ tasks' = Tail(tasks)
  /\ left' = left - 1
  /\ UNCHANGED <<loopPC, events, woken, appVars, shut, rcv, got, peer, peerSent,
                 made, delivered>>

NextTask(op) == loopPC = "tasks" /\ left > 0 /\ Head(tasks).op = op

(* OnConnect, then AddSocketAndEnableRead. *)
RunRegister ==
  /\ NextTask("register")
  /\ conn' = [conn EXCEPT !.registered = TRUE]
  /\ TaskDone
  /\ UNCHANGED <<wire, out>>

(* Mutant: the queued Send does not check connected again. *)
RunSendUnchecked ==
  /\ NextTask("send")
  /\ DoSend(conn, Head(tasks).data, FALSE)
  /\ out' = out \o Head(tasks).data
  /\ TaskDone

RunSend ==
  /\ NextTask("send")
  /\ IF conn.connected
     THEN /\ DoSend(conn, Head(tasks).data, FALSE)
          /\ out' = out \o Head(tasks).data
     ELSE UNCHANGED <<conn, wire, out>>
  /\ TaskDone

RunClose ==
  /\ NextTask("close")
  /\ conn' = HandleClose(conn)
  /\ TaskDone
  /\ UNCHANGED <<wire, out>>

TasksDone ==
  /\ loopPC = "tasks" /\ left = 0
  /\ loopPC' = "wait"
  /\ UNCHANGED <<conn, tasks, events, woken, left, appVars, netVars, histVars>>

LoopStep ==
  \/ EpollReturns
  \/ HandleErr \/ HandleWritable \/ HandleReadEnd \/ HandleReadAgain
  \/ HandleReadData \/ HandleNothing
  \/ RunRegister \/ RunSend \/ RunClose \/ TasksDone
-----------------------------------------------------------------------------
(* Send and Close, from any goroutine once OnConnect has run: connected is  *)
(* checked first, the task is queued later.                                 *)
CallSend(c) ==
  /\ callPC[c] = "idle" /\ calls < MaxCalls
  /\ [op |-> "register"] \notin Range(tasks)
  /\ conn.connected
  /\ callPC' = [callPC EXCEPT ![c] = "send"]
  /\ calls' = calls + 1
  /\ UNCHANGED <<conn, tasks, loopVars, netVars, histVars>>

QueueSend(c) ==
  /\ callPC[c] = "send"
  /\ callPC' = [callPC EXCEPT ![c] = "idle"]
  /\ tasks' = Append(tasks, [op |-> "send", data |-> Fresh(1)])
  /\ made' = made + ReplyLen
  /\ UNCHANGED <<conn, loopVars, calls, netVars, out, delivered>>

CallClose(c) ==
  /\ callPC[c] = "idle" /\ calls < MaxCalls
  /\ [op |-> "register"] \notin Range(tasks)
  /\ conn.connected
  /\ callPC' = [callPC EXCEPT ![c] = "close"]
  /\ calls' = calls + 1
  /\ UNCHANGED <<conn, tasks, loopVars, netVars, histVars>>

QueueClose(c) ==
  /\ callPC[c] = "close"
  /\ callPC' = [callPC EXCEPT ![c] = "idle"]
  /\ tasks' = Append(tasks, [op |-> "close"])
  /\ UNCHANGED <<conn, loopVars, calls, netVars, histVars>>

(* ShutdownWrite is a system call on the caller's goroutine, with no look   *)
(* at connected or outBuf.  On a descriptor that is closed it fails.        *)
CallShutdownWrite(c) ==
  /\ callPC[c] = "idle" /\ calls < MaxCalls
  /\ [op |-> "register"] \notin Range(tasks)
  /\ shut' = (shut \/ conn.fdOpen)
  /\ calls' = calls + 1
  /\ UNCHANGED <<conn, tasks, loopVars, callPC, rcv, wire, got, peer, peerSent, histVars>>
-----------------------------------------------------------------------------
(* The peer *)

PeerSends ==
  /\ peer = "open" /\ conn.fdOpen /\ peerSent < MaxIn
  /\ rcv' = Append(rcv, peerSent + 1)
  /\ peerSent' = peerSent + 1
  /\ UNCHANGED <<conn, tasks, loopVars, appVars, shut, wire, got, peer, histVars>>

PeerReads ==
  /\ peer # "reset" /\ got < Len(wire)
  /\ got' = got + 1
  /\ UNCHANGED <<conn, tasks, loopVars, appVars, shut, rcv, wire, peer, peerSent,
                 histVars>>

PeerFinishes ==
  /\ peer = "open"
  /\ peer' = "fin"
  /\ UNCHANGED <<conn, tasks, loopVars, appVars, shut, rcv, wire, got, peerSent,
                 histVars>>

(* A reset discards what has not been read. *)
PeerResets ==
  /\ peer # "reset"
  /\ peer' = "reset"
  /\ rcv' = <<>>
  /\ UNCHANGED <<conn, tasks, loopVars, appVars, shut, wire, got, peerSent, histVars>>

QueueStep(c) == QueueSend(c) \/ QueueClose(c)

Next ==
  /\ ~conn.fatal
  /\ \/ LoopStep
     \/ \E c \in Callers : CallSend(c) \/ CallClose(c) \/ CallShutdownWrite(c) \/ QueueStep(c)
     \/ PeerSends \/ PeerReads \/ PeerFinishes \/ PeerResets

(* The loop goroutine and a caller inside Send or Close go on; the peer     *)
(* keeps reading what is sent to it.                                        *)
Fairness ==
  /\ WF_vars(~conn.fatal /\ LoopStep)
  /\ \A c \in Callers : WF_vars(~conn.fatal /\ QueueStep(c))
  /\ WF_vars(~conn.fatal /\ PeerReads)

Spec == Init /\ [][Next]_vars /\ Fairness
-----------------------------------------------------------------------------
Bytes == Seq(Nat)

TypeOK ==
  /\ conn \in [frameLen : FrameLens, connected : BOOLEAN,
              registered : BOOLEAN, interest : {"R", "RW"},
              fdOpen : BOOLEAN, outBuf : Bytes, inBuf : Bytes, outBufLen : Nat,
              closes : Nat, fatal : BOOLEAN]
  /\ tasks \in Seq([op : {"register", "close"}] \cup [op : {"send"}, data : Bytes])
  /\ loopPC \in {"wait", "event", "tasks"}
  /\ events \subseteq {"Err", "Write", "Read"}
  /\ woken \in BOOLEAN
  /\ left \in 0 .. Len(tasks)
  /\ callPC \in [Callers -> {"idle", "send", "close"}]
  /\ calls \in 0 .. MaxCalls /\ shut \in BOOLEAN
  /\ rcv \in Bytes /\ wire \in Bytes /\ got \in 0 .. Len(wire)
  /\ peer \in {"open", "fin", "reset"}
  /\ peerSent \in 0 .. MaxIn
  /\ made \in Nat /\ out \in Bytes /\ delivered \in Seq(Bytes)

(* What the socket has been given is, in order and without a gap or a       *)
(* repetition, what was handed to sendInLoop, and while the connection is   *)
(* open the rest of it is in outBuf.  Partial writes, EAGAIN, replies made  *)
(* while outBuf is not empty and Sends from other goroutines all meet here  *)
(* (lines 256-258, 296-351).                                                *)
OutputIntact ==
  /\ IsPrefix(wire, out)
  /\ conn.connected => wire \o conn.outBuf = out

(* However the peer's bytes are cut into reads, the messages OnMessage has  *)
(* been given, followed by inBuf and by what is still in the kernel, are    *)
(* the bytes sent; a framed protocol gives whole frames and keeps less than *)
(* one (lines 209-273).                                                     *)
InputIntact ==
  /\ conn.connected /\ peer # "reset" =>
       FlattenSeq(delivered) \o conn.inBuf \o rcv = [k \in 1 .. peerSent |-> k]
  /\ IsPrefix(FlattenSeq(delivered), [k \in 1 .. peerSent |-> k])
  /\ conn.frameLen > 0 =>
       /\ \A k \in DOMAIN delivered : Len(delivered[k]) = conn.frameLen
       /\ Len(conn.inBuf) < conn.frameLen

(* epoll watches for writability exactly while there is something to write: *)
(* without it outBuf would never be drained, with it when outBuf is empty   *)
(* the loop would spin (lines 322-326 and 346-348).                         *)
InterestMatches ==
  conn.registered => (conn.interest = "RW" <=> conn.outBuf # <<>>)

(* OnClose is called exactly once per connection, at the moment it stops    *)
(* being connected, although an error of a read or a write, EventErr, any   *)
(* number of Closes and a failing Send may each get to handleClose.         *)
ClosedOnce == conn.closes = IF conn.connected THEN 0 ELSE 1

(* handleClose returns both buffers to the pool and closes the descriptor,  *)
(* whose number may be in use again: afterwards no task or event of this    *)
(* connection touches them (the checks of connected in lines 116 and 191).  *)
ClosedIsFinal == [][~conn.connected => conn' = conn /\ wire' = wire]_vars

(* Buffered output is written as long as the peer reads. *)
OutputDrains == (conn.outBuf # <<>>) ~> (conn.outBuf = <<>> \/ ~conn.connected)

(* The end or the reset of the peer's stream closes the connection, even    *)
(* though reads are not served while outBuf is not empty (lines 157-166).   *)
PeerEndNoticed == (peer # "open") ~> ~conn.connected

(* WriteBufLen is refreshed only at the end of HandleEvent, not by a Send:  *)
(* it may be stale, but not for ever (lines 142-144 and 175-176).           *)
WriteBufLenCatchesUp ==
  (conn.outBufLen # Len(conn.outBuf)) ~>
    (conn.outBufLen = Len(conn.outBuf) \/ ~conn.connected)
=============================================================================
