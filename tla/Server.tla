------------------------------- MODULE Server -------------------------------
(***************************************************************************)
(* The life of a server (server.go, listener.go) and of its connections    *)
(* across its goroutines: Start, the listener's loop that accepts          *)
(* descriptors and hands them over, the work loops that register and close *)
(* them, user goroutines that call Close, and Stop.  What a connection     *)
(* reads and writes is in Connection, how a queue wakes its loop in        *)
(* EventLoop: here a work loop runs its tasks in order, a round at a time, *)
(* and a descriptor number is free again as soon as it is closed.          *)
(*                                                                         *)
(* loopPC[w]: "new" until the goroutine of work loop w has entered Poll,   *)
(*   "wait" at EpollWait, "tasks" in doPendingFunc, "returned".            *)
(* mainPC, the listener's loop: "new", "wait", "accepted" between Accept   *)
(*   and the QueueInLoop of handleNewConnection, "returned".               *)
(* stopPC, the goroutine in Server.Stop: <<"idle">>, <<"queue", w>> before *)
(*   Stop of loop w queues its task, <<"close", w>> before poll.Close,     *)
(*   <<"join", w>> at <-waitDone, <<"done">>; w = 0 is the listener's.     *)
(***************************************************************************)
EXTENDS Integers, Sequences, FiniteSets, SequencesExt

CONSTANTS
  NumLoops,  \* number of work loops
  FdNums,    \* descriptor numbers the kernel gives to accepted sockets
  MaxConns,  \* bound on the connections accepted
  MaxTasks   \* bound on the tasks in a queue when Close is called

ASSUME ServerAssumption ==
  /\ NumLoops \in Nat \ {0} /\ MaxConns \in Nat /\ MaxTasks \in Nat
  /\ FdNums \subseteq Nat \ {0} /\ IsFiniteSet(FdNums)

Loops == 1 .. NumLoops

VARIABLES
  running,      \* Server.running
  spawned,      \* Start has started the goroutines of the loops
  mainPC,       \* place of the listener's loop
  mainRunning,  \* running of its poller
  newFd,        \* descriptor Accept returned, while mainPC = "accepted"
  loopPC,       \* place of each work loop
  pollRunning,  \* running of the poller of each work loop
  tasks,        \* tasks of each work loop, oldest first
  left,         \* tasks of the current round still to be run
  sockets,      \* sockets of each loop: a function from descriptors
  nilMap,       \* Stop's task has set sockets of the loop to nil
  watched,      \* descriptors in the epoll set of each loop
  connCnt,      \* ConnCnt of each loop
  closedFds,    \* loops whose eventfd has been closed
  conns,        \* all connections, in the order of their Accept
  owner,        \* connection a descriptor number is open for, 0 if free
  closing,      \* connections with a Close between its check and its task
  stopPC,       \* place of the goroutine in Stop
  fatal         \* why log.Fatal or a panic ended the process, or "no"

loopVars == <<loopPC, pollRunning, tasks, left, sockets, nilMap, watched, connCnt>>
mainVars == <<mainPC, mainRunning, newFd>>
srvVars == <<running, spawned, stopPC, closedFds>>
connVars == <<conns, owner, closing>>
vars == <<loopVars, mainVars, srvVars, connVars, fatal>>

EmptyMap == [f \in {} |-> 0]

Init ==
  /\ running = FALSE /\ spawned = FALSE
  /\ mainPC = "new" /\ mainRunning = FALSE /\ newFd = 0
  /\ loopPC = [w \in Loops |-> "new"]
  /\ pollRunning = [w \in Loops |-> FALSE]
  /\ tasks = [w \in Loops |-> <<>>]
  /\ left = [w \in Loops |-> 0]
  /\ sockets = [w \in Loops |-> EmptyMap]
  /\ nilMap = [w \in Loops |-> FALSE]
  /\ watched = [w \in Loops |-> {}]
  /\ connCnt = [w \in Loops |-> 0]
  /\ closedFds = {}
  /\ conns = <<>>
  /\ owner = [f \in FdNums |-> 0]
  /\ closing = {}
  /\ stopPC = <<"idle">>
  /\ fatal = "no"
-----------------------------------------------------------------------------
(* Start *)

SpawnLoops ==
  /\ ~spawned
  /\ spawned' = TRUE
  /\ UNCHANGED <<loopVars, mainVars, running, stopPC, closedFds, connVars, fatal>>

SetRunning ==
  /\ spawned /\ ~running /\ stopPC = <<"idle">>
  /\ running' = TRUE
  /\ UNCHANGED <<loopVars, mainVars, spawned, stopPC, closedFds, connVars, fatal>>

(* The goroutine of a loop gets to Poll, which sets running. *)
EnterPoll(w) ==
  /\ spawned /\ loopPC[w] = "new"
  /\ loopPC' = [loopPC EXCEPT ![w] = "wait"]
  /\ pollRunning' = [pollRunning EXCEPT ![w] = TRUE]
  /\ UNCHANGED <<tasks, left, sockets, nilMap, watched, connCnt, mainVars,
                 srvVars, connVars, fatal>>

EnterMainPoll ==
  /\ spawned /\ mainPC = "new"
  /\ mainPC' = "wait"
  /\ mainRunning' = TRUE
  /\ UNCHANGED <<loopVars, newFd, srvVars, connVars, fatal>>
-----------------------------------------------------------------------------
(* The listener's loop *)

Accept(f) ==
  /\ mainPC = "wait" /\ Len(conns) < MaxConns
  /\ owner[f] = 0
  /\ mainPC' = "accepted"
  /\ newFd' = f
  /\ owner' = [owner EXCEPT ![f] = Len(conns) + 1]
  /\ UNCHANGED <<loopVars, mainRunning, srvVars, conns, closing, fatal>>

(* RoundRobin() makes a new closure, with its own index, on every call: the *)
(* loop it picks is always the first.                                       *)
RoundRobin == 1

(* handleNewConnection: NewConnection, and QueueInLoop of its registration. *)
HandleNewConnection ==
  /\ mainPC = "accepted"
  /\ mainPC' = "wait"
  /\ conns' = Append(conns, [fd |-> newFd, loop |-> RoundRobin, connected |-> TRUE,
                             announced |-> FALSE, closes |-> 0])
  /\ tasks' = [tasks EXCEPT
                 ![RoundRobin] = Append(@, [op |-> "register", c |-> Len(conns) + 1])]
  /\ UNCHANGED <<loopPC, pollRunning, left, sockets, nilMap, watched, connCnt,
                 mainRunning, newFd, srvVars, owner, closing, fatal>>

(* After the wake-up of Close the loop finds running false, between events. *)
MainReturns ==
  /\ mainPC = "wait" /\ ~mainRunning
  /\ mainPC' = "returned"
  /\ UNCHANGED <<loopVars, mainRunning, newFd, srvVars, connVars, fatal>>
-----------------------------------------------------------------------------
(* A work loop *)

(* Mutant: connected is not checked. *)
HandleCloseUnchecked(w, c) ==
  LET f == conns[c].fd
  IN /\ conns' = [conns EXCEPT ![c].connected = FALSE, ![c].closes = @ + 1]
     /\ fatal' = fatal
     /\ watched' = [watched EXCEPT ![w] = @ \ {f}]
     /\ sockets' = [sockets EXCEPT ![w] = [g \in DOMAIN @ \ {f} |-> @[g]]]
     /\ connCnt' = [connCnt EXCEPT ![w] = @ - 1]
     /\ owner' = [owner EXCEPT ![f] = 0]

(* Mutant: the connection is not deleted from sockets. *)
HandleCloseKeepsSocket(w, c) ==
  IF conns[c].connected
  THEN LET f == conns[c].fd
       IN /\ conns' = [conns EXCEPT ![c].connected = FALSE, ![c].closes = @ + 1]
          /\ fatal' = IF f \notin watched[w] THEN "remove" ELSE fatal
          /\ watched' = [watched EXCEPT ![w] = @ \ {f}]
          /\ connCnt' = [connCnt EXCEPT ![w] = @ - 1]
          /\ owner' = [owner EXCEPT ![f] = 0]
          /\ UNCHANGED sockets
  ELSE UNCHANGED <<conns, fatal, watched, sockets, connCnt, owner>>

(* handleClose of connection c on its loop w. *)
HandleClose(w, c) ==
  IF conns[c].connected
  THEN LET f == conns[c].fd
       IN /\ conns' = [conns EXCEPT ![c].connected = FALSE, ![c].closes = @ + 1]
          /\ fatal' = IF f \notin watched[w] THEN "remove"
                      ELSE IF owner[f] # c THEN "foreign close" ELSE fatal
          /\ watched' = [watched EXCEPT ![w] = @ \ {f}]
          /\ sockets' = [sockets EXCEPT ![w] = [g \in DOMAIN @ \ {f} |-> @[g]]]
          /\ connCnt' = [connCnt EXCEPT ![w] = @ - 1]
          /\ owner' = [owner EXCEPT ![f] = 0]
  ELSE UNCHANGED <<conns, fatal, watched, sockets, connCnt, owner>>

(* An event of descriptor f makes its connection close: the peer has gone,  *)
(* or a write fails.  Events that keep it open change nothing here.         *)
CloseEvent(w, f) ==
  /\ loopPC[w] = "wait"
  /\ f \in watched[w] \cap DOMAIN sockets[w]
  /\ HandleClose(w, sockets[w][f])
  /\ UNCHANGED <<loopPC, pollRunning, tasks, left, nilMap, mainVars, srvVars, closing>>

(* A round begins: there are tasks, or Close has woken the loop. *)
SwapTasks(w) ==
  /\ loopPC[w] = "wait"
  /\ tasks[w] # <<>> \/ ~pollRunning[w]
  /\ loopPC' = [loopPC EXCEPT ![w] = "tasks"]
  /\ left' = [left EXCEPT ![w] = Len(tasks[w])]
  /\ UNCHANGED <<pollRunning, tasks, sockets, nilMap, watched, connCnt, mainVars,
                 srvVars, connVars, fatal>>

TaskOf(w, op) ==
  loopPC[w] = "tasks" /\ left[w] > 0 /\ Head(tasks[w]).op = op

(* Mutant: doPendingFunc's index does not advance. *)
PopTaskNoCount(w, more) ==
  /\ tasks' = [tasks EXCEPT ![w] = Tail(@) \o more]
  /\ UNCHANGED <<left, loopPC, pollRunning>>

PopTask(w, more) ==
  /\ tasks' = [tasks EXCEPT ![w] = Tail(@) \o more]
  /\ left' = [left EXCEPT ![w] = @ - 1]
  /\ UNCHANGED <<loopPC, pollRunning>>

(* Mutant: ConnCnt is not incremented. *)
RunRegisterNoCount(w) ==
  /\ TaskOf(w, "register")
  /\ LET c == Head(tasks[w]).c
         f == conns[c].fd
     IN /\ conns' = [conns EXCEPT ![c].announced = TRUE]
        /\ fatal' = IF nilMap[w] THEN "nil map" ELSE fatal
        /\ sockets' = [sockets EXCEPT ![w] = [g \in DOMAIN @ \cup {f} |->
                                                IF g = f THEN c ELSE @[g]]]
        /\ watched' = [watched EXCEPT ![w] = @ \cup {f}]
  /\ PopTask(w, <<>>)
  /\ UNCHANGED <<connCnt, nilMap, mainVars, srvVars, owner, closing>>

(* OnConnect, then AddSocketAndEnableRead; a store into the nil map panics. *)
RunRegister(w) ==
  /\ TaskOf(w, "register")
  /\ LET c == Head(tasks[w]).c
         f == conns[c].fd
     IN /\ conns' = [conns EXCEPT ![c].announced = TRUE]
        /\ fatal' = IF nilMap[w] THEN "nil map"
                    ELSE IF f \in watched[w] THEN "add" ELSE fatal
        /\ sockets' = [sockets EXCEPT ![w] = [g \in DOMAIN @ \cup {f} |->
                                                IF g = f THEN c ELSE @[g]]]
        /\ watched' = [watched EXCEPT ![w] = @ \cup {f}]
        /\ connCnt' = [connCnt EXCEPT ![w] = @ + 1]
  /\ PopTask(w, <<>>)
  /\ UNCHANGED <<nilMap, mainVars, srvVars, owner, closing>>

RunClose(w) ==
  /\ TaskOf(w, "close")
  /\ HandleClose(w, Head(tasks[w]).c)
  /\ PopTask(w, <<>>)
  /\ UNCHANGED <<nilMap, mainVars, srvVars, closing>>

(* Mutant: the sockets are dropped without a Close. *)
RunCloseAllDrops(w) ==
  /\ TaskOf(w, "closeall")
  /\ PopTask(w, <<>>)
  /\ sockets' = [sockets EXCEPT ![w] = EmptyMap]
  /\ nilMap' = [nilMap EXCEPT ![w] = TRUE]
  /\ UNCHANGED <<watched, connCnt, mainVars, srvVars, connVars, fatal>>

(* Stop's task: v.Close() for every socket, in the order of a map, each of  *)
(* which queues a task; an error would be fatal.  Then sockets = nil.       *)
RunCloseAll(w) ==
  /\ TaskOf(w, "closeall")
  /\ LET all == {sockets[w][f] : f \in DOMAIN sockets[w]}
     IN /\ \E order \in SetToSeqs(all) :
             PopTask(w, [i \in DOMAIN order |-> [op |-> "close", c |-> order[i]]])
        /\ fatal' = IF \E c \in all : ~conns[c].connected THEN "close all" ELSE fatal
  /\ sockets' = [sockets EXCEPT ![w] = EmptyMap]
  /\ nilMap' = [nilMap EXCEPT ![w] = TRUE]
  /\ UNCHANGED <<watched, connCnt, mainVars, srvVars, connVars>>

EndRound(w) ==
  /\ loopPC[w] = "tasks" /\ left[w] = 0
  /\ loopPC' = [loopPC EXCEPT ![w] = IF pollRunning[w] THEN "wait" ELSE "returned"]
  /\ UNCHANGED <<pollRunning, tasks, left, sockets, nilMap, watched, connCnt,
                 mainVars, srvVars, connVars, fatal>>

LoopStep(w) ==
  \/ EnterPoll(w)
  \/ \E f \in FdNums : CloseEvent(w, f)
  \/ SwapTasks(w) \/ RunRegister(w) \/ RunClose(w) \/ RunCloseAll(w) \/ EndRound(w)
-----------------------------------------------------------------------------
(* Connection.Close, from a goroutine that got the connection in OnConnect. *)

CallClose(c) ==
  /\ conns[c].announced /\ conns[c].connected /\ c \notin closing
  /\ Len(tasks[conns[c].loop]) < MaxTasks
  /\ closing' = closing \cup {c}
  /\ UNCHANGED <<loopVars, mainVars, srvVars, conns, owner, fatal>>

(* The task is queued; when the eventfd is closed already, the wake-up may  *)
(* be the one that needWake asks for, and its failure is fatal.             *)
QueueClose(c) ==
  /\ c \in closing
  /\ closing' = closing \ {c}
  /\ LET w == conns[c].loop
     IN /\ tasks' = [tasks EXCEPT ![w] = Append(@, [op |-> "close", c |-> c])]
        /\ fatal' \in IF w \in closedFds THEN {fatal, "late wake"} ELSE {fatal}
  /\ UNCHANGED <<loopPC, pollRunning, left, sockets, nilMap, watched, connCnt,
                 mainVars, srvVars, conns, owner>>
-----------------------------------------------------------------------------
(* Stop *)

(* Mutant: the work loops are stopped without the listener's. *)
CallStopWorkLoops ==
  /\ stopPC = <<"idle">> /\ running
  /\ running' = FALSE
  /\ stopPC' = <<"queue", 1>>
  /\ UNCHANGED <<loopVars, mainVars, spawned, closedFds, connVars, fatal>>

(* if running: running = false, the timing wheel stops; otherwise nothing.  *)
CallStop ==
  /\ stopPC = <<"idle">> /\ running
  /\ running' = FALSE
  /\ stopPC' = <<"queue", 0>>
  /\ UNCHANGED <<loopVars, mainVars, spawned, closedFds, connVars, fatal>>

(* EventLoop.Stop: the task that closes all sockets, and ConnCnt.Swap(0).   *)
(* The listener's own task (w = 0) closes the net.Listener; its loop accepts *)
(* on a duplicate of that descriptor (listener.go, lines 54-60), so Accept  *)
(* goes on until MainReturns, and the task changes nothing here.            *)
StopQueue ==
  /\ stopPC[1] = "queue"
  /\ LET w == stopPC[2]
     IN /\ stopPC' = <<"close", w>>
        /\ IF w = 0 THEN UNCHANGED <<tasks, connCnt>>
           ELSE /\ tasks' = [tasks EXCEPT ![w] = Append(@, [op |-> "closeall"])]
                /\ connCnt' = [connCnt EXCEPT ![w] = 0]
  /\ UNCHANGED <<loopPC, pollRunning, left, sockets, nilMap, watched, mainVars,
                 running, spawned, closedFds, connVars, fatal>>

(* Mutant: Close does not store running = false. *)
StopCloseNoStore ==
  /\ stopPC[1] = "close"
  /\ LET w == stopPC[2]
     IN IF ~(IF w = 0 THEN mainRunning ELSE pollRunning[w])
        THEN fatal' = "not running" /\ UNCHANGED stopPC
        ELSE stopPC' = <<"join", w>> /\ UNCHANGED fatal
  /\ UNCHANGED <<loopVars, mainVars, running, spawned, closedFds, connVars>>

(* poll.Close: an error if the poller does not run, which Stop takes as     *)
(* fatal; otherwise running = false and a wake-up.                          *)
StopClose ==
  /\ stopPC[1] = "close"
  /\ LET w == stopPC[2]
     IN IF ~(IF w = 0 THEN mainRunning ELSE pollRunning[w])
        THEN fatal' = "not running" /\ UNCHANGED <<stopPC, mainRunning, pollRunning>>
        ELSE /\ stopPC' = <<"join", w>>
             /\ mainRunning' = (mainRunning /\ w # 0)
             /\ pollRunning' = [v \in Loops |-> pollRunning[v] /\ v # w]
             /\ UNCHANGED fatal
  /\ UNCHANGED <<loopPC, tasks, left, sockets, nilMap, watched, connCnt, mainPC,
                 newFd, running, spawned, closedFds, connVars>>

(* Mutant: Close does not wait for Poll to return. *)
StopJoinNoWait ==
  /\ stopPC[1] = "join"
  /\ LET w == stopPC[2]
     IN /\ closedFds' = closedFds \cup {w}
        /\ stopPC' = IF w < NumLoops THEN <<"queue", w + 1>> ELSE <<"done">>
  /\ UNCHANGED <<loopVars, mainVars, running, spawned, connVars, fatal>>

(* <-waitDone, the descriptors are closed, and Stop goes to the next loop.  *)
StopJoin ==
  /\ stopPC[1] = "join"
  /\ LET w == stopPC[2]
     IN /\ (IF w = 0 THEN mainPC ELSE loopPC[w]) = "returned"
        /\ closedFds' = closedFds \cup {w}
        /\ stopPC' = IF w < NumLoops THEN <<"queue", w + 1>> ELSE <<"done">>
  /\ UNCHANGED <<loopVars, mainVars, running, spawned, connVars, fatal>>

StopStep == StopQueue \/ StopClose \/ StopJoin
-----------------------------------------------------------------------------
MainStep == EnterMainPoll \/ (\E f \in FdNums : Accept(f)) \/ HandleNewConnection
              \/ MainReturns

Next ==
  /\ fatal = "no"
  /\ \/ SpawnLoops \/ SetRunning
     \/ MainStep
     \/ \E w \in Loops : LoopStep(w)
     \/ \E c \in DOMAIN conns : CallClose(c) \/ QueueClose(c)
     \/ CallStop \/ StopStep

(* Every goroutine that can go on is scheduled: the loops, and Stop. *)
Fairness ==
  /\ WF_vars(fatal = "no" /\ (EnterMainPoll \/ HandleNewConnection \/ MainReturns))
  /\ \A w \in Loops : WF_vars(fatal = "no" /\ LoopStep(w))
  /\ WF_vars(fatal = "no" /\ StopStep)

Spec == Init /\ [][Next]_vars /\ Fairness
-----------------------------------------------------------------------------
(* The records of the connections; the tasks there may be and the maps a    *)
(* loop may have when the connections are cs.                               *)
Connections ==
  [fd : FdNums, loop : Loops, connected : BOOLEAN, announced : BOOLEAN, closes : Nat]

Tasks(cs) == [op : {"register", "close"}, c : DOMAIN cs] \cup [op : {"closeall"}]

SocketMaps(cs) == UNION {[F -> DOMAIN cs] : F \in SUBSET FdNums}

TypeOK ==
  /\ running \in BOOLEAN /\ spawned \in BOOLEAN /\ mainRunning \in BOOLEAN
  /\ mainPC \in {"new", "wait", "accepted", "returned"}
  /\ newFd \in FdNums \cup {0}
  /\ loopPC \in [Loops -> {"new", "wait", "tasks", "returned"}]
  /\ pollRunning \in [Loops -> BOOLEAN] /\ nilMap \in [Loops -> BOOLEAN]
  /\ conns \in Seq(Connections)
  /\ tasks \in [Loops -> Seq(Tasks(conns))]
  /\ left \in [Loops -> Nat] /\ \A w \in Loops : left[w] <= Len(tasks[w])
  /\ sockets \in [Loops -> SocketMaps(conns)]
  /\ watched \in [Loops -> SUBSET FdNums] /\ connCnt \in [Loops -> Int]
  /\ owner \in [FdNums -> 0 .. MaxConns]
  /\ closing \subseteq DOMAIN conns /\ closedFds \subseteq 0 .. NumLoops
  /\ stopPC[1] \in {"idle", "queue", "close", "join", "done"}

(* A descriptor number is reused as soon as it is closed, while tasks of    *)
(* the connection that had it before are still queued.  Whatever their      *)
(* order, a loop hands the events of a descriptor to the connection that    *)
(* owns it now, and that connection is open (eventloop.go, lines 72-89 and  *)
(* 128-133; connection.go, lines 190-207).                                  *)
EventsReachOwner ==
  \A w \in Loops : \A f \in DOMAIN sockets[w] :
    LET c == sockets[w][f]
    IN /\ conns[c].connected /\ conns[c].fd = f /\ conns[c].loop = w
       /\ owner[f] = c /\ f \in watched[w]

(* Every open connection owns its descriptor: nobody has closed it under it. *)
(* OnClose has been called once for each of the others, and never for it.   *)
ClosedExactlyOnce ==
  \A c \in DOMAIN conns :
    IF conns[c].connected THEN conns[c].closes = 0 /\ owner[conns[c].fd] = c
    ELSE conns[c].closes = 1

(* ConnectionCount is the number of registered connections, until Stop      *)
(* resets it from another goroutine (eventloop.go, lines 72-89 and 113).    *)
CountIsExact ==
  \A w \in Loops :
    connCnt[w] # Cardinality(DOMAIN sockets[w]) =>
      \/ stopPC[1] \in {"close", "join"} /\ stopPC[2] >= w
      \/ stopPC[1] = "queue" /\ stopPC[2] > w
      \/ stopPC[1] = "done"

(* Of all the ways in which the loops could end the process, no schedule    *)
(* takes one: a descriptor registered twice or removed when it is not       *)
(* registered, a foreign descriptor closed, a Close of Stop's task that     *)
(* fails, a registration that stores into the map Stop has set to nil       *)
(* (server.go, lines 84-89 and 125-139; eventloop.go, lines 72-115).  What  *)
(* remains is a Close after Stop, and a Stop that gets to a loop before the *)
(* goroutine that Start has spawned for it: Close finds no loop that has    *)
(* returned already (epoll.go, lines 78-81).                                *)
NoLoopFatal ==
  /\ fatal \in {"no", "not running", "late wake"}
  /\ fatal = "not running" =>
       (IF stopPC[2] = 0 THEN mainPC ELSE loopPC[stopPC[2]]) = "new"

(* A Stop that has been let in ends, unless the process does. *)
StopEnds == (stopPC # <<"idle">>) ~> (stopPC = <<"done">> \/ fatal # "no")

(* Once Stop has returned no callback runs any more: no connection is       *)
(* accepted, opened or closed behind the back of the caller of Stop, who    *)
(* may release what its handler uses.                                       *)
QuietAfterStop == [][stopPC = <<"done">> => conns' = conns]_vars

(* Stop leaves connections open, and nobody calls their OnClose: a loop     *)
(* returns at the end of the round in which it finds running false, and     *)
(* closing takes one round more than the task that asks for it.  None is    *)
(* forgotten, though: each one left open has its registration, its close or *)
(* the close of all still in the queue (eventloop.go, lines 103-115;        *)
(* epoll.go, lines 178-184).                                                *)
LeftoversQueued ==
  stopPC = <<"done">> =>
    \A c \in DOMAIN conns :
      LET w == conns[c].loop
      IN conns[c].connected =>
           \E t \in Range(tasks[w]) :
             \/ t.op \in {"register", "close"} /\ t.c = c
             \/ t.op = "closeall" /\ c \in Range(sockets[w])
=============================================================================
