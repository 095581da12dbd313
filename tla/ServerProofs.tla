---------------------------- MODULE ServerProofs ----------------------------
(***************************************************************************)
(* Theorems about Server, for any number of work loops, of connections and *)
(* of descriptor numbers: every safety property that a run of Server       *)
(* checks.  None of them is inductive.  ServerInv is, and its parts say    *)
(*   - StopInv: how far Stop has come and what that says of the loops;     *)
(*   - CloseAllInv: Stop's task comes after every registration;            *)
(*   - OwnerInv: who has an open descriptor number;                        *)
(*   - TaskInv: which connections the queued tasks are about;              *)
(*   - SocketInv: the connections of a loop, its map and its epoll set.    *)
(***************************************************************************)
EXTENDS Server, SequenceTheorems, FiniteSetTheorems, TLAPS

(* Stop has queued the task of loop w; has stored running = false in its    *)
(* poller; has seen its goroutine return.                                   *)
StopQueued(w) ==
  \/ stopPC[1] \in {"close", "join"} /\ stopPC[2] >= w
  \/ stopPC[1] = "queue" /\ stopPC[2] > w
  \/ stopPC[1] = "done"

StopStored(w) ==
  \/ stopPC[1] = "join" /\ stopPC[2] >= w
  \/ stopPC[1] \in {"queue", "close"} /\ stopPC[2] > w
  \/ stopPC[1] = "done"

StopJoined(w) ==
  \/ stopPC[1] \in {"queue", "close", "join"} /\ stopPC[2] > w
  \/ stopPC[1] = "done"

StopPlaces ==
  {<<"idle">>, <<"done">>} \cup ({"queue", "close", "join"} \X (0 .. NumLoops))

StopInv ==
  /\ stopPC \in StopPlaces
  /\ ~mainRunning => mainPC = "new" \/ StopStored(0)
  /\ StopJoined(0) => mainPC = "returned"
  /\ \A w \in Loops :
       /\ ~pollRunning[w] => loopPC[w] = "new" \/ StopStored(w)
       /\ StopJoined(w) => loopPC[w] = "returned"

RegisterOf(c) == [op |-> "register", c |-> c]
CloseOf(c) == [op |-> "close", c |-> c]
CloseAll == [op |-> "closeall"]

Queued(w, t) == \E i \in 1 .. Len(tasks[w]) : tasks[w][i] = t

(* Stop's task is queued after the listener's loop has returned, so that no *)
(* registration comes after it, nor after the map it sets to nil.           *)
CloseAllLast(w) ==
  /\ StopQueued(w) <=> nilMap[w] \/ Queued(w, CloseAll)
  /\ \A i, j \in 1 .. Len(tasks[w]) :
       i < j /\ tasks[w][i] = CloseAll => tasks[w][j].op # "register"
  /\ nilMap[w] => /\ DOMAIN sockets[w] = {}
                  /\ \A i \in 1 .. Len(tasks[w]) : tasks[w][i].op # "register"

CloseAllInv == \A w \in Loops : CloseAllLast(w)

(* A descriptor number is taken by the one open connection that has it, or  *)
(* by the connection that the listener has just accepted.                   *)
OwnerInv ==
  /\ mainPC = "accepted" => newFd \in FdNums /\ owner[newFd] = Len(conns) + 1
  /\ \A f \in FdNums : owner[f] # 0 =>
       \/ /\ owner[f] \in DOMAIN conns
          /\ conns[owner[f]].connected /\ conns[owner[f]].fd = f
       \/ mainPC = "accepted" /\ newFd = f
  /\ ClosedExactlyOnce

(* A connection has one registration in its queue until OnConnect is called, *)
(* and a Close of it is only ever asked for afterwards.                      *)
RegisterOnce(w) ==
  \A i, j \in 1 .. Len(tasks[w]) :
    tasks[w][i].op = "register" /\ tasks[w][i] = tasks[w][j] => i = j

TaskInv ==
  /\ \A c \in DOMAIN conns : ~conns[c].announced =>
       conns[c].connected /\ Queued(conns[c].loop, RegisterOf(c))
  /\ \A w \in Loops : \A c \in DOMAIN conns :
       /\ Queued(w, RegisterOf(c)) => conns[c].loop = w /\ ~conns[c].announced
       /\ Queued(w, CloseOf(c)) => conns[c].loop = w /\ conns[c].announced
  /\ \A w \in Loops : RegisterOnce(w)
  /\ \A c \in closing : conns[c].announced

(* The epoll set of a loop holds its open connections that are registered;  *)
(* the map too, until Stop's task leaves a task to close each of them.      *)
SocketInv ==
  /\ EventsReachOwner
  /\ \A w \in Loops : \A f \in watched[w] :
       /\ owner[f] \in DOMAIN conns
       /\ conns[owner[f]].loop = w /\ conns[owner[f]].announced
       /\ nilMap[w] \/ f \in DOMAIN sockets[w]
  /\ \A c \in DOMAIN conns : conns[c].connected /\ conns[c].announced =>
       /\ conns[c].fd \in watched[conns[c].loop]
       /\ nilMap[conns[c].loop] => Queued(conns[c].loop, CloseOf(c))

ServerInv ==
  /\ TypeOK /\ StopInv /\ CloseAllInv /\ OwnerInv /\ TaskInv /\ SocketInv
  /\ CountIsExact /\ NoLoopFatal
-----------------------------------------------------------------------------
(* Lemmas about queues *)

(* Append leaves every task at its place and puts the new one behind them.  *)
LEMMA AppendElements ==
  ASSUME NEW S, NEW s \in Seq(S), NEW e \in S
  PROVE  /\ Append(s, e) \in Seq(S)
         /\ Len(Append(s, e)) = Len(s) + 1
         /\ \A i \in 1 .. Len(s) : Append(s, e)[i] = s[i]
         /\ Append(s, e)[Len(s) + 1] = e
  BY AppendProperties

(* PopTask moves every task but the first one place forward, and puts the   *)
(* tasks that it is given behind them.                                      *)
LEMMA PopElements ==
  ASSUME NEW S, NEW s \in Seq(S), s # <<>>, NEW m \in Seq(S)
  PROVE  /\ Tail(s) \o m \in Seq(S)
         /\ Len(Tail(s) \o m) = Len(s) - 1 + Len(m)
         /\ \A i \in 1 .. Len(s) - 1 : (Tail(s) \o m)[i] = s[i + 1]
         /\ \A i \in 1 .. Len(m) : (Tail(s) \o m)[Len(s) - 1 + i] = m[i]
<1>1. Tail(s) \in Seq(S) /\ Len(Tail(s)) = Len(s) - 1 /\ Len(s) >= 1
  BY HeadTailProperties, LenProperties, EmptySeq
<1>2. \A i \in 1 .. Len(s) - 1 : Tail(s)[i] = s[i + 1]
  BY <1>1, HeadTailProperties
<1> QED
  BY <1>1, <1>2, ConcatProperties, LenProperties

(* A function on 1 .. n is a sequence of length n. *)
LEMMA FunctionIsSeq ==
  ASSUME NEW S, NEW n \in Nat, NEW f \in [1 .. n -> S]
  PROVE  f \in Seq(S) /\ Len(f) = n
  BY SeqDef

(* Every order in which RunCloseAll may go through the sockets visits each  *)
(* of them.                                                                 *)
LEMMA OrderVisitsAll ==
  ASSUME NEW S, IsFiniteSet(S), NEW order \in SetToSeqs(S)
  PROVE  /\ order \in Seq(S) /\ DOMAIN order = 1 .. Len(order)
         /\ \A x \in S : \E i \in DOMAIN order : order[i] = x
<1> DEFINE D == 1 .. Cardinality(S)
<1>1. Cardinality(S) \in Nat /\ IsFiniteSet(D) /\ Cardinality(D) = Cardinality(S)
  BY FS_CardinalityType, FS_Interval
<1>2. order \in [D -> S] /\ \A i, j \in D : i # j => order[i] # order[j]
  BY DEF SetToSeqs
<1>3. order \in Injection(D, S)
  BY <1>2 DEF Injection, IsInjective
<1>4. order \in Surjection(D, S)
  BY <1>1, <1>3, FS_Injection
<1>5. order \in Seq(S)
  BY <1>1, <1>2, SeqDef
<1> QED
  BY <1>2, <1>4, <1>5 DEF Surjection
-----------------------------------------------------------------------------
(* The server starts in a state of the invariant. *)
LEMMA ServerInit == Init => ServerInv
<1> SUFFICES ASSUME Init PROVE ServerInv
  OBVIOUS
<1> USE ServerAssumption DEF Init, EmptyMap, Loops
<1>1. TypeOK
  <2>1. /\ tasks \in [Loops -> Seq(Tasks(conns))] /\ conns \in Seq(Connections)
        /\ \A w \in Loops : left[w] <= Len(tasks[w])
    BY EmptySeq
  <2>2. /\ loopPC \in [Loops -> {"new", "wait", "tasks", "returned"}]
        /\ pollRunning \in [Loops -> BOOLEAN] /\ nilMap \in [Loops -> BOOLEAN]
        /\ left \in [Loops -> Nat] /\ watched \in [Loops -> SUBSET FdNums]
        /\ connCnt \in [Loops -> Int] /\ owner \in [FdNums -> 0 .. MaxConns]
    OBVIOUS
  <2>3. sockets \in [Loops -> SocketMaps(conns)]
    <3>1. [f \in {} |-> 0] \in [{} -> DOMAIN conns]
      OBVIOUS
    <3>2. [f \in {} |-> 0] \in SocketMaps(conns)
      BY <3>1 DEF SocketMaps
    <3> QED
      BY <3>2
  <2> QED
    BY <2>1, <2>2, <2>3 DEF TypeOK
<1>2. StopInv
  BY DEF StopInv, StopPlaces, StopStored, StopJoined
<1>3. DOMAIN conns = {} /\ Len(conns) = 0 /\ \A w \in Loops : Len(tasks[w]) = 0
  BY EmptySeq
<1>4. CloseAllInv /\ TaskInv
  BY <1>3 DEF CloseAllInv, CloseAllLast, TaskInv, RegisterOnce, StopQueued, Queued
<1>5. OwnerInv
  BY <1>3 DEF OwnerInv, ClosedExactlyOnce
<1>6. SocketInv
  BY <1>3 DEF SocketInv, EventsReachOwner
<1>7. CountIsExact /\ NoLoopFatal
  BY FS_EmptySet DEF CountIsExact, NoLoopFatal
<1> QED
  BY <1>1, <1>2, <1>4, <1>5, <1>6, <1>7 DEF ServerInv

(* A loop that Stop is busy with has a number. *)
LEMMA StopPlace ==
  ASSUME StopInv, stopPC[1] \in {"queue", "close", "join"}
  PROVE  stopPC[2] \in 0 .. NumLoops /\ stopPC = <<stopPC[1], stopPC[2]>>
<1>1. stopPC # <<"idle">> /\ stopPC # <<"done">>
  OBVIOUS
<1>2. stopPC \in {"queue", "close", "join"} \X (0 .. NumLoops)
  BY <1>1 DEF StopInv, StopPlaces
<1> QED
  BY <1>2

(* Where Stop goes when it has waited for the loop with number l.           *)
LEMMA AfterJoin ==
  ASSUME NEW l \in 0 .. NumLoops, stopPC = <<"join", l>>,
         stopPC' = IF l < NumLoops THEN <<"queue", l + 1>> ELSE <<"done">>
  PROVE  /\ stopPC' \in StopPlaces
         /\ \A v \in 0 .. NumLoops :
              /\ StopStored(v) => StopStored(v)'
              /\ StopJoined(v)' => StopJoined(v) \/ v = l
<1>0. NumLoops \in Nat /\ l \in Nat /\ stopPC[1] = "join" /\ stopPC[2] = l
  BY ServerAssumption
<1>1. ASSUME l < NumLoops
      PROVE  /\ stopPC' \in StopPlaces
             /\ \A v \in 0 .. NumLoops :
                  /\ StopStored(v) => StopStored(v)'
                  /\ StopJoined(v)' => StopJoined(v) \/ v = l
  <2>1. /\ stopPC' = <<"queue", l + 1>> /\ l + 1 \in 0 .. NumLoops
        /\ stopPC'[1] = "queue" /\ stopPC'[2] = l + 1
    BY <1>0, <1>1
  <2>2. stopPC' \in StopPlaces
    BY <2>1 DEF StopPlaces
  <2>3. \A v \in 0 .. NumLoops : StopStored(v) => StopStored(v)'
    BY <1>0, <2>1 DEF StopStored
  <2>4. \A v \in 0 .. NumLoops : StopJoined(v)' => StopJoined(v) \/ v = l
    BY <1>0, <2>1 DEF StopJoined
  <2> QED
    BY <2>2, <2>3, <2>4
<1>2. ASSUME l = NumLoops
      PROVE  /\ stopPC' \in StopPlaces
             /\ \A v \in 0 .. NumLoops :
                  /\ StopStored(v) => StopStored(v)'
                  /\ StopJoined(v)' => StopJoined(v) \/ v = l
  <2>1. stopPC' = <<"done">> /\ stopPC'[1] = "done"
    BY <1>0, <1>2
  <2>2. stopPC' \in StopPlaces
    BY <2>1 DEF StopPlaces
  <2>3. \A v \in 0 .. NumLoops : StopStored(v) => StopStored(v)'
    BY <2>1 DEF StopStored
  <2>4. \A v \in 0 .. NumLoops : StopJoined(v) \/ v = l
    BY <1>0, <1>2 DEF StopJoined
  <2> QED
    BY <2>2, <2>3, <2>4
<1> QED
  BY <1>0, <1>1, <1>2

(* Where Stop is, and that only its own steps move it and the loops' places. *)
LEMMA StopStepInv == TypeOK /\ StopInv /\ [Next]_vars => StopInv'
<1> SUFFICES ASSUME TypeOK, StopInv, [Next]_vars PROVE StopInv'
  OBVIOUS
<1> USE ServerAssumption DEF TypeOK, StopInv, StopPlaces, StopStored, StopJoined, Loops
<1>1. CASE SpawnLoops \/ SetRunning
  BY <1>1 DEF SpawnLoops, SetRunning, loopVars, mainVars
<1>2. CASE EnterMainPoll \/ MainReturns
  BY <1>2 DEF EnterMainPoll, MainReturns, loopVars, srvVars
<1>3. CASE HandleNewConnection \/ \E f \in FdNums : Accept(f)
  BY <1>3 DEF HandleNewConnection, Accept, loopVars, srvVars
<1>4. ASSUME NEW w \in Loops, LoopStep(w) PROVE StopInv'
  <2>1. CASE EnterPoll(w)
    BY <2>1 DEF EnterPoll, mainVars, srvVars
  <2>2. CASE SwapTasks(w) \/ EndRound(w)
    BY <2>2 DEF SwapTasks, EndRound, mainVars, srvVars
  <2>3. CASE \/ \E f \in FdNums : CloseEvent(w, f)
             \/ RunRegister(w) \/ RunClose(w) \/ RunCloseAll(w)
    BY <2>3 DEF CloseEvent, RunRegister, RunClose, RunCloseAll, PopTask,
                mainVars, srvVars
  <2> QED
    BY <1>4, <2>1, <2>2, <2>3 DEF LoopStep
<1>5. ASSUME NEW c \in DOMAIN conns, CallClose(c) \/ QueueClose(c) PROVE StopInv'
  <2>1. UNCHANGED <<mainVars, srvVars, loopPC, pollRunning>>
    BY <1>5 DEF CallClose, QueueClose, loopVars
  <2> QED
    BY <2>1 DEF mainVars, srvVars
<1>6. CASE CallStop
  BY <1>6 DEF CallStop, loopVars, mainVars
<1>7. CASE StopQueue
  BY <1>7 DEF StopQueue, mainVars
<1>8. CASE StopClose
  <2> DEFINE w == stopPC[2]
  <2>0. w \in 0 .. NumLoops /\ stopPC = <<"close", w>>
    BY <1>8, StopPlace DEF StopClose
  <2>1. CASE ~(IF w = 0 THEN mainRunning ELSE pollRunning[w])
    BY <1>8, <2>1 DEF StopClose
  <2>2. CASE IF w = 0 THEN mainRunning ELSE pollRunning[w]
    <3>1. /\ stopPC' = <<"join", w>> /\ mainRunning' = (mainRunning /\ w # 0)
          /\ pollRunning' = [v \in Loops |-> pollRunning[v] /\ v # w]
          /\ UNCHANGED <<mainPC, loopPC>>
      BY <1>8, <2>2 DEF StopClose
    <3> QED
      BY <2>0, <3>1
  <2> QED
    BY <2>1, <2>2
<1>9. CASE StopJoin
  <2>1. UNCHANGED <<mainPC, mainRunning, loopPC, pollRunning>>
    BY <1>9 DEF StopJoin, loopVars, mainVars
  <2> DEFINE w == stopPC[2]
  <2>2. w \in 0 .. NumLoops /\ stopPC = <<"join", w>>
    BY <1>9, StopPlace DEF StopJoin
  <2>3. /\ (IF w = 0 THEN mainPC ELSE loopPC[w]) = "returned"
        /\ stopPC' = IF w < NumLoops THEN <<"queue", w + 1>> ELSE <<"done">>
    BY <1>9 DEF StopJoin
  <2>4. stopPC' \in StopPlaces
    BY <2>2, <2>3, AfterJoin
  <2>5. \A v \in 0 .. NumLoops :
          /\ StopStored(v) => StopStored(v)'
          /\ StopJoined(v)' => StopJoined(v) \/ v = w
    <3>1. PICK l \in 0 .. NumLoops : l = w
      BY <2>2
    <3>2. stopPC = <<"join", l>>
      BY <2>2, <3>1
    <3>3. stopPC' = IF l < NumLoops THEN <<"queue", l + 1>> ELSE <<"done">>
      BY <2>3, <3>1
    <3> HIDE DEF TypeOK, StopInv, StopPlaces, StopStored, StopJoined
    <3>4. \A v \in 0 .. NumLoops :
            /\ StopStored(v) => StopStored(v)'
            /\ StopJoined(v)' => StopJoined(v) \/ v = l
      BY <3>2, <3>3, AfterJoin
    <3> QED
      BY <3>1, <3>4
  <2>6. (StopJoined(0) => mainPC = "returned")'
    BY <2>1, <2>3, <2>5
  <2>7. ASSUME NEW v \in Loops, StopJoined(v)' PROVE loopPC'[v] = "returned"
    <3>1. CASE v = w
      BY <2>1, <2>3, <3>1
    <3>2. CASE v # w
      <4>1. StopJoined(v)
        BY <2>5, <2>7, <3>2
      <4> QED
        BY <2>1, <4>1
    <3> QED
      BY <3>1, <3>2
  <2>8. (~mainRunning => mainPC = "new" \/ StopStored(0))'
    <3>1. ~mainRunning => mainPC = "new" \/ StopStored(0)
      OBVIOUS
    <3> HIDE DEF StopStored
    <3> QED
      BY <2>1, <2>5, <3>1
  <2>9. \A v \in Loops : (~pollRunning[v] => loopPC[v] = "new" \/ StopStored(v))'
    <3>1. \A v \in Loops : ~pollRunning[v] => loopPC[v] = "new" \/ StopStored(v)
      OBVIOUS
    <3> HIDE DEF StopStored
    <3> QED
      BY <2>1, <2>5, <3>1
  <2> HIDE DEF StopStored, StopJoined, StopPlaces
  <2> QED
    BY <2>4, <2>6, <2>7, <2>8, <2>9
<1>10. CASE UNCHANGED vars
  BY <1>10 DEF vars, loopVars, mainVars, srvVars
<1> QED
  BY <1>1, <1>2, <1>3, <1>4, <1>5, <1>6, <1>7, <1>8, <1>9, <1>10
     DEF Next, MainStep, StopStep
-----------------------------------------------------------------------------
(* Types *)

(* What handleClose changes in the table of connections, for one that is    *)
(* still connected.                                                         *)
LEMMA CloseUpdatesConns ==
  ASSUME TypeOK, NEW c \in DOMAIN conns,
         conns' = [conns EXCEPT ![c].connected = FALSE, ![c].closes = @ + 1]
  PROVE  /\ conns' \in Seq(Connections)
         /\ DOMAIN conns' = DOMAIN conns /\ Len(conns') = Len(conns)
         /\ \A d \in DOMAIN conns : d # c => conns'[d] = conns[d]
         /\ conns'[c] = [fd |-> conns[c].fd, loop |-> conns[c].loop,
                         connected |-> FALSE, announced |-> conns[c].announced,
                         closes |-> conns[c].closes + 1]
<1>0. conns \in Seq(Connections)
  BY DEF TypeOK
<1>1. /\ DOMAIN conns' = DOMAIN conns /\ Len(conns') = Len(conns)
      /\ \A d \in DOMAIN conns : d # c => conns'[d] = conns[d]
  BY <1>0, LenProperties
<1>2. conns[c] \in Connections
  BY <1>0, LenProperties, ElementOfSeq
<1>3. conns'[c] = [fd |-> conns[c].fd, loop |-> conns[c].loop,
                   connected |-> FALSE, announced |-> conns[c].announced,
                   closes |-> conns[c].closes + 1]
  BY <1>2 DEF Connections
<1>4. conns'[c] \in Connections
  BY <1>2, <1>3 DEF Connections
<1>5. conns' \in [1 .. Len(conns) -> Connections]
  <2>1. \A d \in 1 .. Len(conns) : conns'[d] \in Connections
    BY <1>0, <1>1, <1>4, LenProperties, ElementOfSeq
  <2>2. conns' = [d \in 1 .. Len(conns) |-> conns'[d]]
    BY <1>0, LenProperties
  <2> QED
    BY <2>1, <2>2
<1>6. Len(conns) \in Nat
  BY <1>0, LenProperties
<1> QED
  BY <1>1, <1>3, <1>5, <1>6, FunctionIsSeq

(* What a registration changes in the table of connections. *)
LEMMA RegisterUpdatesConns ==
  ASSUME TypeOK, NEW c \in DOMAIN conns,
         conns' = [conns EXCEPT ![c].announced = TRUE]
  PROVE  /\ conns' \in Seq(Connections)
         /\ DOMAIN conns' = DOMAIN conns /\ Len(conns') = Len(conns)
         /\ \A d \in DOMAIN conns : d # c => conns'[d] = conns[d]
         /\ conns'[c] = [fd |-> conns[c].fd, loop |-> conns[c].loop,
                         connected |-> conns[c].connected, announced |-> TRUE,
                         closes |-> conns[c].closes]
<1>0. conns \in Seq(Connections)
  BY DEF TypeOK
<1>1. /\ DOMAIN conns' = DOMAIN conns /\ Len(conns') = Len(conns)
      /\ \A d \in DOMAIN conns : d # c => conns'[d] = conns[d]
  BY <1>0, LenProperties
<1>2. conns[c] \in Connections
  BY <1>0, LenProperties, ElementOfSeq
<1>3. conns'[c] = [fd |-> conns[c].fd, loop |-> conns[c].loop,
                   connected |-> conns[c].connected, announced |-> TRUE,
                   closes |-> conns[c].closes]
  BY <1>2 DEF Connections
<1>4. conns'[c] \in Connections
  BY <1>2, <1>3 DEF Connections
<1>5. conns' \in [1 .. Len(conns) -> Connections]
  <2>1. \A d \in 1 .. Len(conns) : conns'[d] \in Connections
    BY <1>0, <1>1, <1>4, LenProperties, ElementOfSeq
  <2>2. conns' = [d \in 1 .. Len(conns) |-> conns'[d]]
    BY <1>0, LenProperties
  <2> QED
    BY <2>1, <2>2
<1>6. Len(conns) \in Nat
  BY <1>0, LenProperties
<1> QED
  BY <1>1, <1>3, <1>5, <1>6, FunctionIsSeq

(* The tasks of a loop, and their number. *)
LEMMA TaskTypes ==
  ASSUME TypeOK
  PROVE  /\ tasks \in [Loops -> Seq(Tasks(conns))] /\ conns \in Seq(Connections)
         /\ Len(conns) \in Nat /\ DOMAIN conns = 1 .. Len(conns)
         /\ \A w \in Loops : Len(tasks[w]) \in Nat
         /\ \A w \in Loops : \A i \in 1 .. Len(tasks[w]) :
              /\ tasks[w][i] \in Tasks(conns)
              /\ tasks[w][i].op \in {"register", "close", "closeall"}
              /\ tasks[w][i].op # "closeall" =>
                   /\ tasks[w][i].c \in DOMAIN conns
                   /\ tasks[w][i] = [op |-> tasks[w][i].op, c |-> tasks[w][i].c]
         /\ \A c \in DOMAIN conns : conns[c] \in Connections
<1>1. tasks \in [Loops -> Seq(Tasks(conns))] /\ conns \in Seq(Connections)
  BY DEF TypeOK
<1>2. Len(conns) \in Nat /\ DOMAIN conns = 1 .. Len(conns)
  BY <1>1, LenProperties
<1>3. \A w \in Loops : Len(tasks[w]) \in Nat
  BY <1>1, LenProperties
<1>4. \A w \in Loops : \A i \in 1 .. Len(tasks[w]) : tasks[w][i] \in Tasks(conns)
  BY <1>1, ElementOfSeq
<1>5. \A c \in DOMAIN conns : conns[c] \in Connections
  BY <1>1, <1>2, ElementOfSeq
<1>6. \A w \in Loops : \A i \in 1 .. Len(tasks[w]) :
        /\ tasks[w][i].op \in {"register", "close", "closeall"}
        /\ tasks[w][i].op # "closeall" =>
             /\ tasks[w][i].c \in DOMAIN conns
             /\ tasks[w][i] = [op |-> tasks[w][i].op, c |-> tasks[w][i].c]
  <2> TAKE w \in Loops
  <2> TAKE i \in 1 .. Len(tasks[w])
  <2> DEFINE t == tasks[w][i]
  <2>1. t \in Tasks(conns)
    BY <1>4
  <2> HIDE DEF t
  <2>2. /\ t.op \in {"register", "close", "closeall"}
        /\ t.op # "closeall" => t.c \in DOMAIN conns /\ t = [op |-> t.op, c |-> t.c]
    BY <2>1 DEF Tasks
  <2> QED
    BY <2>2 DEF t
<1> QED
  BY <1>1, <1>2, <1>3, <1>4, <1>5, <1>6

(* Tasks and maps depend on which connections there are, not on their state. *)
LEMMA SameConnections ==
  ASSUME NEW cs, NEW ds, DOMAIN cs = DOMAIN ds
  PROVE  Tasks(cs) = Tasks(ds) /\ SocketMaps(cs) = SocketMaps(ds)
  BY DEF Tasks, SocketMaps

(* The map of a loop. *)
LEMMA SocketTypes ==
  ASSUME TypeOK, NEW w \in Loops
  PROVE  /\ DOMAIN sockets[w] \subseteq FdNums
         /\ sockets[w] \in [DOMAIN sockets[w] -> DOMAIN conns]
         /\ \A f \in DOMAIN sockets[w] : sockets[w][f] \in DOMAIN conns
<1>1. PICK F \in SUBSET FdNums : sockets[w] \in [F -> DOMAIN conns]
  BY DEF TypeOK, SocketMaps
<1> QED
  BY <1>1

(* PopTask with tasks of the right kind. *)
LEMMA PopTyped ==
  ASSUME TypeOK, NEW w \in Loops, loopPC[w] = "tasks", left[w] > 0,
         NEW more \in Seq(Tasks(conns)), tasks[w] # <<>>, PopTask(w, more)
  PROVE  /\ tasks' \in [Loops -> Seq(Tasks(conns))] /\ left' \in [Loops -> Nat]
         /\ \A v \in Loops : left'[v] <= Len(tasks'[v])
         /\ tasks' = [tasks EXCEPT ![w] = Tail(tasks[w]) \o more]
<1>1. /\ Tail(tasks[w]) \o more \in Seq(Tasks(conns))
      /\ Len(Tail(tasks[w]) \o more) = Len(tasks[w]) - 1 + Len(more)
  BY TaskTypes, PopElements
<1>2. tasks' = [tasks EXCEPT ![w] = Tail(tasks[w]) \o more]
  BY DEF PopTask
<1>3. left' = [left EXCEPT ![w] = left[w] - 1] /\ left \in [Loops -> Nat]
  BY DEF PopTask, TypeOK
<1>4. tasks' \in [Loops -> Seq(Tasks(conns))] /\ left' \in [Loops -> Nat]
  BY <1>1, <1>2, <1>3, TaskTypes
<1>5. ASSUME NEW v \in Loops PROVE left'[v] <= Len(tasks'[v])
  <2>1. CASE v = w
    <3>1. tasks'[w] = Tail(tasks[w]) \o more /\ left'[w] = left[w] - 1
      BY <1>2, <1>3, TaskTypes
    <3>2. Len(more) \in Nat /\ left[w] <= Len(tasks[w]) /\ Len(tasks[w]) \in Nat
      BY LenProperties, TaskTypes DEF TypeOK
    <3> QED
      BY <1>1, <1>3, <2>1, <3>1, <3>2
  <2>2. CASE v # w
    BY <1>2, <1>3, <2>2, TaskTypes DEF TypeOK
  <2> QED
    BY <2>1, <2>2
<1> QED
  BY <1>2, <1>4, <1>5

(* A loop that has a task to run has one of its own, about a connection. *)
LEMMA HeadTask ==
  ASSUME TypeOK, NEW w \in Loops, NEW op \in {"register", "close", "closeall"},
         TaskOf(w, op)
  PROVE  /\ tasks[w] # <<>> /\ Len(tasks[w]) >= 1 /\ Head(tasks[w]) = tasks[w][1]
         /\ tasks[w][1].op = op
         /\ op # "closeall" => /\ tasks[w][1].c \in DOMAIN conns
                               /\ tasks[w][1] = [op |-> op, c |-> tasks[w][1].c]
<1>1. left[w] > 0 /\ left[w] \in Nat /\ left[w] <= Len(tasks[w]) /\ Len(tasks[w]) \in Nat
  BY TaskTypes DEF TaskOf, TypeOK
<1>2. Len(tasks[w]) >= 1 /\ tasks[w] # <<>>
  BY <1>1, EmptySeq, TaskTypes
<1>3. Head(tasks[w]) = tasks[w][1]
  BY <1>2, TaskTypes, HeadTailProperties
<1> QED
  BY <1>1, <1>2, <1>3, TaskTypes DEF TaskOf

(* The maps of the loops after handleClose, when the connection was open. *)
LEMMA HandleCloseTyped ==
  ASSUME TypeOK, NEW w \in Loops, NEW c \in DOMAIN conns, HandleClose(w, c)
  PROVE  /\ conns' \in Seq(Connections)
         /\ DOMAIN conns' = DOMAIN conns /\ Len(conns') = Len(conns)
         /\ watched' \in [Loops -> SUBSET FdNums] /\ connCnt' \in [Loops -> Int]
         /\ sockets' \in [Loops -> SocketMaps(conns)]
         /\ owner' \in [FdNums -> 0 .. MaxConns]
<1>1. CASE ~conns[c].connected
  BY <1>1, TaskTypes DEF HandleClose, TypeOK
<1>2. CASE conns[c].connected
  <2> DEFINE f == conns[c].fd
  <2>1. f \in FdNums
    BY TaskTypes DEF Connections
  <2>2. /\ watched' = [watched EXCEPT ![w] = @ \ {f}]
        /\ sockets' = [sockets EXCEPT ![w] = [g \in DOMAIN @ \ {f} |-> @[g]]]
        /\ connCnt' = [connCnt EXCEPT ![w] = @ - 1]
        /\ owner' = [owner EXCEPT ![f] = 0]
        /\ conns' = [conns EXCEPT ![c].connected = FALSE, ![c].closes = @ + 1]
    BY <1>2 DEF HandleClose
  <2> HIDE DEF f
  <2>3. watched' \in [Loops -> SUBSET FdNums] /\ connCnt' \in [Loops -> Int]
    <3>1. watched \in [Loops -> SUBSET FdNums] /\ connCnt \in [Loops -> Int]
      BY DEF TypeOK
    <3>2. watched[w] \ {f} \in SUBSET FdNums /\ connCnt[w] - 1 \in Int
      BY <3>1
    <3> QED
      BY <2>2, <3>1, <3>2
  <2>4. owner' \in [FdNums -> 0 .. MaxConns]
    <3>1. owner \in [FdNums -> 0 .. MaxConns] /\ 0 \in 0 .. MaxConns
      BY ServerAssumption DEF TypeOK
    <3> QED
      BY <2>2, <3>1
  <2>5. sockets' \in [Loops -> SocketMaps(conns)]
    <3> DEFINE s == sockets[w]
               t == [g \in DOMAIN s \ {f} |-> s[g]]
    <3>1. PICK F \in SUBSET FdNums : s \in [F -> DOMAIN conns]
      BY DEF TypeOK, SocketMaps
    <3>2. t \in [F \ {f} -> DOMAIN conns]
      BY <3>1
    <3>3. t \in SocketMaps(conns)
      BY <3>2 DEF SocketMaps
    <3> HIDE DEF t
    <3>4. sockets' = [sockets EXCEPT ![w] = t]
      BY <2>2 DEF t
    <3> QED
      BY <3>3, <3>4 DEF TypeOK
  <2> QED
    BY <2>2, <2>3, <2>4, <2>5, CloseUpdatesConns
<1> QED
  BY <1>1, <1>2

(* The tasks that close all sockets: one for each of them. *)
LEMMA CloseTasksTyped ==
  ASSUME TypeOK, NEW w \in Loops,
         NEW order \in SetToSeqs({sockets[w][f] : f \in DOMAIN sockets[w]})
  PROVE  LET more == [i \in DOMAIN order |-> [op |-> "close", c |-> order[i]]]
         IN /\ more \in Seq(Tasks(conns)) /\ DOMAIN more = 1 .. Len(more)
            /\ \A i \in 1 .. Len(more) : more[i].op = "close"
            /\ \A i \in 1 .. Len(more) : \E f \in DOMAIN sockets[w] :
                 more[i] = [op |-> "close", c |-> sockets[w][f]]
            /\ \A f \in DOMAIN sockets[w] : \E i \in 1 .. Len(more) :
                 more[i] = [op |-> "close", c |-> sockets[w][f]]
<1> DEFINE all == {sockets[w][f] : f \in DOMAIN sockets[w]}
           more == [i \in DOMAIN order |-> [op |-> "close", c |-> order[i]]]
<1>1. /\ DOMAIN sockets[w] \subseteq FdNums
      /\ \A f \in DOMAIN sockets[w] : sockets[w][f] \in DOMAIN conns
  BY SocketTypes
<1>2. all \subseteq 1 .. Len(conns) /\ Len(conns) \in Nat
  BY <1>1, TaskTypes
<1>3. IsFiniteSet(1 .. Len(conns))
  BY <1>2, FS_Interval
<1>4. all \subseteq DOMAIN conns /\ IsFiniteSet(all)
  BY <1>2, <1>3, TaskTypes, FS_Subset
<1> HIDE DEF all
<1>5. /\ order \in Seq(all) /\ DOMAIN order = 1 .. Len(order)
      /\ \A x \in all : \E i \in DOMAIN order : order[i] = x
  BY <1>4, OrderVisitsAll DEF all
<1>6. Len(order) \in Nat /\ \A i \in 1 .. Len(order) : order[i] \in all
  BY <1>5, LenProperties, ElementOfSeq
<1>7. more \in [1 .. Len(order) -> Tasks(conns)]
  BY <1>4, <1>5, <1>6 DEF Tasks
<1>8. more \in Seq(Tasks(conns)) /\ Len(more) = Len(order) /\ DOMAIN more = 1 .. Len(order)
  BY <1>6, <1>7, FunctionIsSeq
<1>9. \A i \in 1 .. Len(order) : more[i] = [op |-> "close", c |-> order[i]]
  BY <1>5
<1>10. \A i \in 1 .. Len(more) : more[i].op = "close"
  BY <1>8, <1>9
<1>11. \A i \in 1 .. Len(order) : \E f \in DOMAIN sockets[w] : order[i] = sockets[w][f]
  BY <1>6 DEF all
<1>12. \A i \in 1 .. Len(more) : \E f \in DOMAIN sockets[w] :
         more[i] = [op |-> "close", c |-> sockets[w][f]]
  BY <1>8, <1>9, <1>11
<1>13. \A f \in DOMAIN sockets[w] : \E i \in 1 .. Len(order) : order[i] = sockets[w][f]
  BY <1>5 DEF all
<1>14. \A f \in DOMAIN sockets[w] : \E i \in 1 .. Len(more) :
         more[i] = [op |-> "close", c |-> sockets[w][f]]
  BY <1>8, <1>9, <1>13
<1> HIDE DEF more
<1> QED
  BY <1>8, <1>10, <1>12, <1>14 DEF more

(* Every step keeps the types. *)
LEMMA TypeStep == TypeOK /\ StopInv /\ OwnerInv /\ TaskInv /\ [Next]_vars => TypeOK'
<1> SUFFICES ASSUME TypeOK, StopInv, OwnerInv, TaskInv, [Next]_vars PROVE TypeOK'
  OBVIOUS
<1> USE ServerAssumption
<1>1. CASE SpawnLoops \/ SetRunning
  BY <1>1 DEF SpawnLoops, SetRunning, TypeOK, loopVars, mainVars, connVars
<1>2. CASE EnterMainPoll \/ MainReturns
  BY <1>2 DEF EnterMainPoll, MainReturns, TypeOK, loopVars, srvVars, connVars
<1>3. ASSUME NEW f \in FdNums, Accept(f) PROVE TypeOK'
  <2>1. owner' \in [FdNums -> 0 .. MaxConns]
    <3>1. Len(conns) + 1 \in 0 .. MaxConns
      BY <1>3, TaskTypes DEF Accept
    <3>2. owner' = [owner EXCEPT ![f] = Len(conns) + 1]
      BY <1>3 DEF Accept
    <3> QED
      BY <3>1, <3>2 DEF TypeOK
  <2>2. newFd' \in FdNums \cup {0} /\ mainPC' \in {"new", "wait", "accepted", "returned"}
    BY <1>3 DEF Accept
  <2>3. UNCHANGED <<loopVars, mainRunning, srvVars, conns, closing>>
    BY <1>3 DEF Accept
  <2> QED
    BY <2>1, <2>2, <2>3 DEF TypeOK, loopVars, srvVars
<1>4. CASE HandleNewConnection
  <2> DEFINE r == [fd |-> newFd, loop |-> RoundRobin, connected |-> TRUE,
                   announced |-> FALSE, closes |-> 0]
             t == [op |-> "register", c |-> Len(conns) + 1]
  <2>1. r \in Connections
    BY <1>4 DEF HandleNewConnection, OwnerInv, Connections, RoundRobin, Loops
  <2>2. conns' = Append(conns, r) /\ tasks' = [tasks EXCEPT ![1] = Append(tasks[1], t)]
    BY <1>4 DEF HandleNewConnection, RoundRobin
  <2>3. /\ conns' \in Seq(Connections) /\ Len(conns') = Len(conns) + 1
        /\ DOMAIN conns' = 1 .. Len(conns) + 1 /\ DOMAIN conns \subseteq DOMAIN conns'
    <3> HIDE DEF r
    <3>1. conns' \in Seq(Connections) /\ Len(conns') = Len(conns) + 1
      BY <2>1, <2>2, TaskTypes, AppendElements
    <3> QED
      BY <3>1, TaskTypes, LenProperties
  <2>4. t \in Tasks(conns') /\ Tasks(conns) \subseteq Tasks(conns')
    BY <2>3, TaskTypes DEF Tasks
  <2>5. 1 \in Loops /\ tasks \in [Loops -> Seq(Tasks(conns'))]
    <3>1. \A w \in Loops : tasks[w] \in Seq(Tasks(conns'))
      BY <2>4, TaskTypes, SeqMonotonic
    <3> QED
      BY <3>1, TaskTypes DEF Loops
  <2> HIDE DEF t, r
  <2>6. Append(tasks[1], t) \in Seq(Tasks(conns')) /\ Len(Append(tasks[1], t)) = Len(tasks[1]) + 1
    BY <2>4, <2>5, AppendElements
  <2>7. tasks' \in [Loops -> Seq(Tasks(conns'))]
    BY <2>2, <2>5, <2>6
  <2>8. left' \in [Loops -> Nat] /\ \A w \in Loops : left'[w] <= Len(tasks'[w])
    <3>1. left' = left /\ left \in [Loops -> Nat]
      BY <1>4 DEF HandleNewConnection, TypeOK
    <3>2. \A w \in Loops : left[w] <= Len(tasks[w]) /\ Len(tasks[w]) \in Nat
      BY TaskTypes DEF TypeOK
    <3> QED
      BY <2>2, <2>5, <2>6, <3>1, <3>2
  <2>9. sockets' \in [Loops -> SocketMaps(conns')]
    <3>1. sockets' = sockets
      BY <1>4 DEF HandleNewConnection
    <3>2. \A F \in SUBSET FdNums : [F -> DOMAIN conns] \subseteq [F -> DOMAIN conns']
      BY <2>3
    <3>3. \A w \in Loops :
            sockets[w] \in SocketMaps(conns')
      <4> TAKE w \in Loops
      <4>1. PICK F \in SUBSET FdNums : sockets[w] \in [F -> DOMAIN conns]
        BY DEF TypeOK, SocketMaps
      <4> QED
        BY <3>2, <4>1 DEF SocketMaps
    <3> QED
      BY <3>1, <3>3 DEF TypeOK
  <2>10. mainPC' = "wait" /\ closing' \subseteq DOMAIN conns'
    BY <1>4, <2>3 DEF HandleNewConnection, TypeOK
  <2>11. UNCHANGED <<loopPC, pollRunning, nilMap, watched, connCnt, mainRunning,
                     newFd, srvVars, owner>>
    BY <1>4 DEF HandleNewConnection
  <2> QED
    BY <2>3, <2>7, <2>8, <2>9, <2>10, <2>11 DEF TypeOK, srvVars
<1>5. ASSUME NEW w \in Loops, EnterPoll(w) \/ SwapTasks(w) \/ EndRound(w) PROVE TypeOK'
  <2>1. left' \in [Loops -> Nat] /\ \A v \in Loops : left'[v] <= Len(tasks'[v])
    <3>1. CASE SwapTasks(w)
      BY <3>1, TaskTypes DEF SwapTasks, TypeOK
    <3>2. CASE EnterPoll(w) \/ EndRound(w)
      BY <3>2 DEF EnterPoll, EndRound, TypeOK
    <3> QED
      BY <1>5, <3>1, <3>2
  <2>2. loopPC' \in [Loops -> {"new", "wait", "tasks", "returned"}]
    BY <1>5 DEF EnterPoll, SwapTasks, EndRound, TypeOK
  <2>3. pollRunning' \in [Loops -> BOOLEAN]
    BY <1>5 DEF EnterPoll, SwapTasks, EndRound, TypeOK
  <2>4. UNCHANGED <<tasks, sockets, nilMap, watched, connCnt, mainVars, srvVars, connVars>>
    BY <1>5 DEF EnterPoll, SwapTasks, EndRound
  <2> QED
    BY <2>1, <2>2, <2>3, <2>4 DEF TypeOK, mainVars, srvVars, connVars
<1>6. ASSUME NEW w \in Loops, NEW f \in FdNums, CloseEvent(w, f) PROVE TypeOK'
  <2>1. sockets[w][f] \in DOMAIN conns
    BY <1>6, SocketTypes DEF CloseEvent
  <2>2. HandleClose(w, sockets[w][f])
    BY <1>6 DEF CloseEvent
  <2>3. UNCHANGED <<loopPC, pollRunning, tasks, left, nilMap, mainVars, srvVars, closing>>
    BY <1>6 DEF CloseEvent
  <2> HIDE DEF HandleClose
  <2> QED
    BY <2>1, <2>2, <2>3, HandleCloseTyped, SameConnections DEF TypeOK, mainVars, srvVars
<1>7. ASSUME NEW w \in Loops, RunClose(w) PROVE TypeOK'
  <2>1. /\ tasks[w][1].c \in DOMAIN conns /\ Head(tasks[w]) = tasks[w][1]
        /\ tasks[w] # <<>> /\ loopPC[w] = "tasks" /\ left[w] > 0
    BY <1>7, HeadTask DEF RunClose, TaskOf
  <2>2. HandleClose(w, tasks[w][1].c)
    BY <1>7, <2>1 DEF RunClose
  <2>3. /\ conns' \in Seq(Connections) /\ DOMAIN conns' = DOMAIN conns
        /\ watched' \in [Loops -> SUBSET FdNums] /\ connCnt' \in [Loops -> Int]
        /\ sockets' \in [Loops -> SocketMaps(conns)]
        /\ owner' \in [FdNums -> 0 .. MaxConns]
    BY <2>1, <2>2, HandleCloseTyped
  <2>4. PopTask(w, <<>>) /\ <<>> \in Seq(Tasks(conns))
    BY <1>7, EmptySeq DEF RunClose
  <2>5. /\ tasks' \in [Loops -> Seq(Tasks(conns))] /\ left' \in [Loops -> Nat]
        /\ \A v \in Loops : left'[v] <= Len(tasks'[v])
    BY <2>1, <2>4, PopTyped
  <2>6. UNCHANGED <<loopPC, pollRunning, nilMap, mainVars, srvVars, closing>>
    BY <1>7 DEF RunClose, PopTask
  <2> QED
    BY <2>3, <2>5, <2>6, SameConnections DEF TypeOK, mainVars, srvVars
<1>8. ASSUME NEW w \in Loops, RunRegister(w) PROVE TypeOK'
  <2> DEFINE c == tasks[w][1].c
             f == conns[c].fd
  <2>1. /\ c \in DOMAIN conns /\ Head(tasks[w]) = tasks[w][1]
        /\ tasks[w] # <<>> /\ loopPC[w] = "tasks" /\ left[w] > 0
    BY <1>8, HeadTask DEF RunRegister, TaskOf
  <2>2. f \in FdNums
    BY <2>1, TaskTypes DEF Connections
  <2>3. /\ conns' = [conns EXCEPT ![c].announced = TRUE]
        /\ sockets' = [sockets EXCEPT ![w] = [g \in DOMAIN @ \cup {f} |->
                                                IF g = f THEN c ELSE @[g]]]
        /\ watched' = [watched EXCEPT ![w] = @ \cup {f}]
        /\ connCnt' = [connCnt EXCEPT ![w] = @ + 1]
    BY <1>8, <2>1 DEF RunRegister
  <2>4. conns' \in Seq(Connections) /\ DOMAIN conns' = DOMAIN conns
    BY <2>1, <2>3, RegisterUpdatesConns
  <2> HIDE DEF c, f
  <2>5. watched' \in [Loops -> SUBSET FdNums] /\ connCnt' \in [Loops -> Int]
    <3>1. watched \in [Loops -> SUBSET FdNums] /\ connCnt \in [Loops -> Int]
      BY DEF TypeOK
    <3>2. watched[w] \cup {f} \in SUBSET FdNums /\ connCnt[w] + 1 \in Int
      BY <2>2, <3>1
    <3> QED
      BY <2>3, <3>1, <3>2
  <2>6. sockets' \in [Loops -> SocketMaps(conns)]
    <3> DEFINE s == sockets[w]
               t == [g \in DOMAIN s \cup {f} |-> IF g = f THEN c ELSE s[g]]
    <3>1. PICK F \in SUBSET FdNums : s \in [F -> DOMAIN conns]
      BY DEF TypeOK, SocketMaps
    <3>2. t \in [F \cup {f} -> DOMAIN conns]
      BY <2>1, <3>1
    <3>3. t \in SocketMaps(conns)
      BY <2>2, <3>2 DEF SocketMaps
    <3> HIDE DEF t
    <3>4. sockets' = [sockets EXCEPT ![w] = t]
      BY <2>3 DEF t
    <3> QED
      BY <3>3, <3>4 DEF TypeOK
  <2>7. PopTask(w, <<>>) /\ <<>> \in Seq(Tasks(conns))
    BY <1>8, EmptySeq DEF RunRegister
  <2>8. /\ tasks' \in [Loops -> Seq(Tasks(conns))] /\ left' \in [Loops -> Nat]
        /\ \A v \in Loops : left'[v] <= Len(tasks'[v])
    BY <2>1, <2>7, PopTyped
  <2>9. UNCHANGED <<loopPC, pollRunning, nilMap, mainVars, srvVars, owner, closing>>
    BY <1>8 DEF RunRegister, PopTask
  <2> QED
    BY <2>4, <2>5, <2>6, <2>8, <2>9, SameConnections DEF TypeOK, mainVars, srvVars
<1>9. ASSUME NEW w \in Loops, RunCloseAll(w) PROVE TypeOK'
  <2> DEFINE all == {sockets[w][f] : f \in DOMAIN sockets[w]}
  <2>1. tasks[w] # <<>> /\ loopPC[w] = "tasks" /\ left[w] > 0
    BY <1>9, HeadTask DEF RunCloseAll, TaskOf
  <2>2. PICK order \in SetToSeqs(all) :
          PopTask(w, [i \in DOMAIN order |-> [op |-> "close", c |-> order[i]]])
    BY <1>9 DEF RunCloseAll
  <2> DEFINE more == [i \in DOMAIN order |-> [op |-> "close", c |-> order[i]]]
  <2>3. more \in Seq(Tasks(conns))
    BY <2>2, CloseTasksTyped
  <2> HIDE DEF more
  <2>4. /\ tasks' \in [Loops -> Seq(Tasks(conns))] /\ left' \in [Loops -> Nat]
        /\ \A v \in Loops : left'[v] <= Len(tasks'[v])
    BY <2>1, <2>2, <2>3, PopTyped DEF more
  <2>5. sockets' \in [Loops -> SocketMaps(conns)]
    <3>1. EmptyMap \in SocketMaps(conns)
      <4>1. EmptyMap \in [{} -> DOMAIN conns]
        BY DEF EmptyMap
      <4> QED
        BY <4>1 DEF SocketMaps
    <3>2. sockets' = [sockets EXCEPT ![w] = EmptyMap]
      BY <1>9 DEF RunCloseAll
    <3> QED
      BY <3>1, <3>2 DEF TypeOK
  <2>6. nilMap' \in [Loops -> BOOLEAN]
    BY <1>9 DEF RunCloseAll, TypeOK
  <2>7. UNCHANGED <<loopPC, pollRunning, watched, connCnt, mainVars, srvVars, connVars>>
    BY <1>9 DEF RunCloseAll, PopTask
  <2> QED
    BY <2>4, <2>5, <2>6, <2>7 DEF TypeOK, mainVars, srvVars, connVars
<1>10. ASSUME NEW c \in DOMAIN conns, CallClose(c) PROVE TypeOK'
  BY <1>10 DEF CallClose, TypeOK, loopVars, mainVars, srvVars
<1>11. ASSUME NEW c \in DOMAIN conns, QueueClose(c) PROVE TypeOK'
  <2> DEFINE w == conns[c].loop
             t == [op |-> "close", c |-> c]
  <2>1. w \in Loops /\ t \in Tasks(conns)
    BY TaskTypes DEF Connections, Tasks
  <2>2. tasks' = [tasks EXCEPT ![w] = Append(tasks[w], t)]
    BY <1>11 DEF QueueClose
  <2>3. UNCHANGED <<loopPC, pollRunning, left, sockets, nilMap, watched, connCnt,
                    mainVars, srvVars, conns, owner>> /\ closing' \subseteq closing
    BY <1>11 DEF QueueClose
  <2> HIDE DEF w, t
  <2>4. Append(tasks[w], t) \in Seq(Tasks(conns)) /\ Len(Append(tasks[w], t)) = Len(tasks[w]) + 1
    BY <2>1, TaskTypes, AppendElements
  <2>5. tasks' \in [Loops -> Seq(Tasks(conns))] /\ \A v \in Loops : left[v] <= Len(tasks'[v])
    <3>1. \A v \in Loops : /\ left[v] <= Len(tasks[v]) /\ Len(tasks[v]) \in Nat
                           /\ left[v] \in Nat
      BY TaskTypes DEF TypeOK
    <3> QED
      BY <2>1, <2>2, <2>4, <3>1, TaskTypes
  <2> QED
    BY <2>3, <2>5 DEF TypeOK, mainVars, srvVars
<1>12. CASE CallStop
  BY <1>12 DEF CallStop, TypeOK, loopVars, mainVars, connVars
<1>13. CASE StopQueue
  <2> DEFINE w == stopPC[2]
             t == [op |-> "closeall"]
  <2>1. UNCHANGED <<loopPC, pollRunning, left, sockets, nilMap, watched, mainVars,
                    running, spawned, closedFds, connVars>> /\ stopPC' = <<"close", w>>
    BY <1>13 DEF StopQueue
  <2>2. /\ tasks' \in [Loops -> Seq(Tasks(conns))] /\ connCnt' \in [Loops -> Int]
        /\ \A v \in Loops : left[v] <= Len(tasks'[v])
    <3>1. CASE w = 0
      BY <1>13, <3>1, TaskTypes DEF StopQueue, TypeOK
    <3>2. CASE w # 0
      <4>1. w \in Loops /\ t \in Tasks(conns)
        BY <1>13, <3>2, StopPlace DEF StopQueue, Loops, Tasks
      <4>2. /\ tasks' = [tasks EXCEPT ![w] = Append(tasks[w], t)]
            /\ connCnt' = [connCnt EXCEPT ![w] = 0]
        BY <1>13, <3>2 DEF StopQueue
      <4> HIDE DEF w, t
      <4>3. /\ Append(tasks[w], t) \in Seq(Tasks(conns))
            /\ Len(Append(tasks[w], t)) = Len(tasks[w]) + 1
        BY <4>1, TaskTypes, AppendElements
      <4>4. \A v \in Loops : /\ left[v] <= Len(tasks[v]) /\ Len(tasks[v]) \in Nat
                             /\ left[v] \in Nat
        BY TaskTypes DEF TypeOK
      <4>5. connCnt' \in [Loops -> Int]
        BY <4>1, <4>2 DEF TypeOK
      <4> QED
        BY <4>1, <4>2, <4>3, <4>4, <4>5, TaskTypes
    <3> QED
      BY <3>1, <3>2
  <2> QED
    BY <2>1, <2>2 DEF TypeOK, mainVars, connVars
<1>14. CASE StopClose
  <2>1. UNCHANGED <<loopPC, tasks, left, sockets, nilMap, watched, connCnt, mainPC,
                    newFd, running, spawned, closedFds, connVars>>
    BY <1>14 DEF StopClose
  <2>2. stopPC'[1] \in {"close", "join"} /\ mainRunning' \in BOOLEAN
    <3>1. stopPC[1] = "close" /\ mainRunning \in BOOLEAN
      BY <1>14 DEF StopClose, TypeOK
    <3>2. \/ UNCHANGED <<stopPC, mainRunning>>
          \/ /\ stopPC' = <<"join", stopPC[2]>>
             /\ mainRunning' = (mainRunning /\ stopPC[2] # 0)
      BY <1>14 DEF StopClose
    <3>3. stopPC'[1] \in {"close", "join"}
      BY <3>1, <3>2
    <3>4. mainRunning' \in BOOLEAN
      BY <3>1, <3>2
    <3> QED
      BY <3>3, <3>4
  <2>3. pollRunning' \in [Loops -> BOOLEAN]
    BY <1>14 DEF StopClose, TypeOK
  <2> QED
    BY <2>1, <2>2, <2>3 DEF TypeOK, connVars
<1>15. CASE StopJoin
  <2>1. UNCHANGED <<loopVars, mainVars, running, spawned, connVars>>
    BY <1>15 DEF StopJoin
  <2>2. closedFds' \subseteq 0 .. NumLoops
    BY <1>15, StopPlace DEF StopJoin, TypeOK
  <2>3. stopPC'[1] \in {"queue", "done"}
    BY <1>15 DEF StopJoin
  <2> QED
    BY <2>1, <2>2, <2>3 DEF TypeOK, loopVars, mainVars, connVars
<1>16. CASE UNCHANGED vars
  BY <1>16 DEF vars, loopVars, mainVars, srvVars, connVars, TypeOK
<1> QED
  BY <1>1, <1>2, <1>3, <1>4, <1>5, <1>6, <1>7, <1>8, <1>9, <1>10, <1>11, <1>12,
     <1>13, <1>14, <1>15, <1>16 DEF Next, MainStep, LoopStep, StopStep
-----------------------------------------------------------------------------
(* What a step does, to the queues in particular *)

(* The steps that move only the places of the goroutines. *)
QuietStep ==
  \/ SpawnLoops \/ SetRunning \/ EnterMainPoll \/ MainReturns
  \/ \E w \in Loops : EnterPoll(w) \/ SwapTasks(w) \/ EndRound(w)
  \/ CallStop \/ StopClose \/ StopJoin
  \/ UNCHANGED vars

(* The steps, grouped by what they change. *)
LEMMA StepCases ==
  ASSUME [Next]_vars
  PROVE  \/ QuietStep
         \/ \E f \in FdNums : Accept(f)
         \/ HandleNewConnection
         \/ \E w \in Loops : \/ \E f \in FdNums : CloseEvent(w, f)
                             \/ RunRegister(w) \/ RunClose(w) \/ RunCloseAll(w)
         \/ \E c \in DOMAIN conns : CallClose(c) \/ QueueClose(c)
         \/ StopQueue
  BY DEF QuietStep, Next, MainStep, LoopStep, StopStep

(* A quiet step changes no queue, map, epoll set or connection. *)
LEMMA QuietUnchanged ==
  ASSUME QuietStep
  PROVE  /\ UNCHANGED <<tasks, sockets, nilMap, watched, connCnt, newFd, conns, owner, closing>>
         /\ mainPC' = "accepted" <=> mainPC = "accepted"
<1>1. CASE SpawnLoops \/ SetRunning \/ EnterMainPoll \/ MainReturns
  BY <1>1 DEF SpawnLoops, SetRunning, EnterMainPoll, MainReturns, loopVars, mainVars, connVars
<1>2. CASE \E w \in Loops : EnterPoll(w) \/ SwapTasks(w) \/ EndRound(w)
  BY <1>2 DEF EnterPoll, SwapTasks, EndRound, mainVars, connVars
<1>3. CASE CallStop \/ StopJoin \/ UNCHANGED vars
  BY <1>3 DEF CallStop, StopJoin, vars, loopVars, mainVars, connVars
<1>4. CASE StopClose
  BY <1>4 DEF StopClose, connVars
<1> QED
  BY <1>1, <1>2, <1>3, <1>4 DEF QuietStep

(* Only StopQueue makes Stop's task of a loop count as queued. *)
LEMMA StopQueuedStep ==
  ASSUME TypeOK, StopInv, [Next]_vars, NEW w \in Loops
  PROVE  /\ StopQueued(w)' <=> StopQueued(w) \/ (stopPC[1] = "queue" /\ stopPC[2] = w /\ StopQueue)
         /\ StopQueue => \/ /\ stopPC[2] = 0
                            /\ UNCHANGED <<tasks, connCnt>>
                         \/ /\ stopPC[2] \in Loops
                            /\ tasks' = [tasks EXCEPT ![stopPC[2]] =
                                           Append(tasks[stopPC[2]], CloseAll)]
                            /\ connCnt' = [connCnt EXCEPT ![stopPC[2]] = 0]
<1> USE DEF StopQueued
<1>1. CASE UNCHANGED stopPC
  <2>1. ~StopQueue
    BY <1>1 DEF StopQueue
  <2> QED
    BY <1>1, <2>1
<1>2. CASE CallStop
  BY <1>2 DEF CallStop, StopQueue, Loops
<1>3. CASE StopQueue
  <2>1. stopPC[2] \in 0 .. NumLoops /\ stopPC[1] = "queue" /\ stopPC' = <<"close", stopPC[2]>>
    BY <1>3, StopPlace DEF StopQueue
  <2>2. CASE stopPC[2] = 0
    BY <1>3, <2>1, <2>2, ServerAssumption DEF StopQueue, Loops
  <2>3. CASE stopPC[2] # 0
    BY <1>3, <2>1, <2>3, ServerAssumption DEF StopQueue, Loops, CloseAll
  <2> QED
    BY <2>2, <2>3
<1>4. CASE StopClose
  <2>1. stopPC[2] \in 0 .. NumLoops /\ stopPC[1] = "close"
    BY <1>4, StopPlace DEF StopClose
  <2>2. stopPC' = stopPC \/ stopPC' = <<"join", stopPC[2]>>
    BY <1>4 DEF StopClose
  <2> QED
    BY <2>1, <2>2 DEF StopQueue, Loops
<1>5. CASE StopJoin
  <2>1. stopPC[2] \in 0 .. NumLoops /\ stopPC[1] = "join"
    BY <1>5, StopPlace DEF StopJoin
  <2>2. stopPC' = IF stopPC[2] < NumLoops THEN <<"queue", stopPC[2] + 1>> ELSE <<"done">>
    BY <1>5 DEF StopJoin
  <2> QED
    BY <2>1, <2>2, ServerAssumption DEF StopQueue, Loops
<1>6. UNCHANGED stopPC \/ CallStop \/ StopQueue \/ StopClose \/ StopJoin
  BY DEF Next, vars, srvVars, MainStep, LoopStep, StopStep, SpawnLoops, SetRunning,
         EnterMainPoll, Accept, HandleNewConnection, MainReturns, EnterPoll,
         CloseEvent, SwapTasks, RunRegister, RunClose, RunCloseAll, EndRound,
         CallClose, QueueClose
<1> QED
  BY <1>1, <1>2, <1>3, <1>4, <1>5, <1>6

(* A task is put behind the others of its loop. *)
LEMMA AppendQueue ==
  ASSUME TypeOK, NEW w \in Loops, NEW t,
         tasks' = [tasks EXCEPT ![w] = Append(tasks[w], t)]
  PROVE  /\ \A v \in Loops : v # w => tasks'[v] = tasks[v]
         /\ Len(tasks'[w]) = Len(tasks[w]) + 1
         /\ \A i \in 1 .. Len(tasks[w]) : tasks'[w][i] = tasks[w][i]
         /\ tasks'[w][Len(tasks[w]) + 1] = t
         /\ \A v \in Loops : \A u : Queued(v, u)' <=> Queued(v, u) \/ (v = w /\ u = t)
<1> DEFINE T == Tasks(conns) \cup {t}
<1>0. tasks[w] \in Seq(Tasks(conns)) /\ DOMAIN tasks = Loops
  BY TaskTypes
<1>1. tasks[w] \in Seq(T) /\ tasks'[w] = Append(tasks[w], t) /\ t \in T
  BY <1>0, SeqMonotonic
<1> HIDE DEF T
<1>2. Len(tasks[w]) \in Nat
  BY <1>1, LenProperties
<1>3. /\ Len(tasks'[w]) = Len(tasks[w]) + 1
      /\ \A i \in 1 .. Len(tasks[w]) : tasks'[w][i] = tasks[w][i]
      /\ tasks'[w][Len(tasks[w]) + 1] = t
  BY <1>1, AppendElements
<1>4. \A v \in Loops : v # w => tasks'[v] = tasks[v]
  BY <1>0
<1>5. \A u : Queued(w, u)' <=> Queued(w, u) \/ u = t
  BY <1>2, <1>3 DEF Queued
<1>6. \A v \in Loops : v # w => \A u : Queued(v, u)' <=> Queued(v, u)
  BY <1>4 DEF Queued
<1> QED
  BY <1>3, <1>4, <1>5, <1>6

(* The first task leaves, and those it queues are put behind the others. *)
LEMMA PopQueue ==
  ASSUME TypeOK, NEW w \in Loops, tasks[w] # <<>>,
         NEW more \in Seq(Tasks(conns)), PopTask(w, more)
  PROVE  /\ \A v \in Loops : v # w => tasks'[v] = tasks[v]
         /\ Len(tasks[w]) \in Nat /\ Len(more) \in Nat /\ Len(tasks[w]) >= 1
         /\ Len(tasks'[w]) = Len(tasks[w]) - 1 + Len(more)
         /\ \A i \in 1 .. Len(tasks[w]) - 1 : tasks'[w][i] = tasks[w][i + 1]
         /\ \A i \in 1 .. Len(more) : tasks'[w][Len(tasks[w]) - 1 + i] = more[i]
         /\ \A i \in 1 .. Len(tasks'[w]) :
              \/ i + 1 \in 2 .. Len(tasks[w]) /\ tasks'[w][i] = tasks[w][i + 1]
              \/ \E n \in 1 .. Len(more) :
                   i = Len(tasks[w]) - 1 + n /\ tasks'[w][i] = more[n]
         /\ \A u : Queued(w, u)' <=> \/ \E i \in 2 .. Len(tasks[w]) : tasks[w][i] = u
                                     \/ \E i \in 1 .. Len(more) : more[i] = u
         /\ \A v \in Loops : v # w => \A u : Queued(v, u)' <=> Queued(v, u)
<1>1. tasks \in [Loops -> Seq(Tasks(conns))] /\ tasks'[w] = Tail(tasks[w]) \o more
  BY TaskTypes DEF PopTask
<1>2. \A v \in Loops : v # w => tasks'[v] = tasks[v]
  BY <1>1 DEF PopTask
<1>3. Len(tasks[w]) \in Nat /\ Len(more) \in Nat /\ Len(tasks[w]) >= 1
  BY <1>1, LenProperties, EmptySeq
<1>4. /\ Len(tasks'[w]) = Len(tasks[w]) - 1 + Len(more)
      /\ \A i \in 1 .. Len(tasks[w]) - 1 : tasks'[w][i] = tasks[w][i + 1]
      /\ \A i \in 1 .. Len(more) : tasks'[w][Len(tasks[w]) - 1 + i] = more[i]
  BY <1>1, PopElements
<1>5. ASSUME NEW i \in 1 .. Len(tasks'[w])
      PROVE  \/ i + 1 \in 2 .. Len(tasks[w]) /\ tasks'[w][i] = tasks[w][i + 1]
             \/ \E n \in 1 .. Len(more) :
                  i = Len(tasks[w]) - 1 + n /\ tasks'[w][i] = more[n]
  <2>1. CASE i <= Len(tasks[w]) - 1
    BY <1>3, <1>4, <2>1
  <2>2. CASE i > Len(tasks[w]) - 1
    <3>1. i \in Nat /\ i <= Len(tasks[w]) - 1 + Len(more)
      BY <1>3, <1>4
    <3>2. \A a, b, k \in Nat : k > a - 1 /\ k <= a - 1 + b =>
            k - (a - 1) \in 1 .. b /\ k = a - 1 + (k - (a - 1))
      OBVIOUS
    <3>3. \E n \in 1 .. Len(more) : i = Len(tasks[w]) - 1 + n
      BY <1>3, <2>2, <3>1, <3>2
    <3> QED
      BY <1>4, <3>3
  <2> QED
    BY <1>3, <2>1, <2>2
<1>6. ASSUME NEW u PROVE Queued(w, u)' <=>
                           \/ \E i \in 2 .. Len(tasks[w]) : tasks[w][i] = u
                           \/ \E i \in 1 .. Len(more) : more[i] = u
  <2>1. ASSUME NEW i \in 1 .. Len(tasks'[w]), tasks'[w][i] = u
        PROVE  \/ \E j \in 2 .. Len(tasks[w]) : tasks[w][j] = u
               \/ \E j \in 1 .. Len(more) : more[j] = u
    BY <1>5, <2>1
  <2>2. ASSUME NEW j \in 2 .. Len(tasks[w]), tasks[w][j] = u PROVE Queued(w, u)'
    <3>1. j - 1 \in 1 .. Len(tasks[w]) - 1 /\ j - 1 \in 1 .. Len(tasks'[w])
      BY <1>3, <1>4
    <3>2. tasks'[w][j - 1] = u
      BY <1>3, <1>4, <2>2, <3>1
    <3> QED
      BY <3>1, <3>2 DEF Queued
  <2>3. ASSUME NEW j \in 1 .. Len(more), more[j] = u PROVE Queued(w, u)'
    <3>1. Len(tasks[w]) - 1 + j \in 1 .. Len(tasks'[w])
      BY <1>3, <1>4
    <3> QED
      BY <1>4, <2>3, <3>1 DEF Queued
  <2> QED
    BY <2>1, <2>2, <2>3 DEF Queued
<1>7. \A v \in Loops : v # w => \A u : Queued(v, u)' <=> Queued(v, u)
  BY <1>2 DEF Queued
<1> QED
  BY <1>2, <1>3, <1>4, <1>5, <1>6, <1>7

(* What a loop that runs a task has at the head of its queue. *)
LEMMA RunHead ==
  ASSUME TypeOK, NEW w \in Loops
  PROVE  /\ RunRegister(w) =>
              \E c \in DOMAIN conns : /\ tasks[w] # <<>> /\ tasks[w][1] = RegisterOf(c)
                                      /\ Head(tasks[w]) = tasks[w][1]
                                      /\ Queued(w, RegisterOf(c)) /\ PopTask(w, <<>>)
         /\ RunClose(w) =>
              \E c \in DOMAIN conns : /\ tasks[w] # <<>> /\ tasks[w][1] = CloseOf(c)
                                      /\ Queued(w, CloseOf(c)) /\ PopTask(w, <<>>)
                                      /\ HandleClose(w, c)
         /\ RunCloseAll(w) => /\ tasks[w] # <<>> /\ tasks[w][1] = CloseAll
                              /\ Queued(w, CloseAll)
<1> USE HeadTask DEF Queued, RegisterOf, CloseOf, CloseAll
<1>1. ASSUME RunRegister(w)
      PROVE  \E c \in DOMAIN conns : /\ tasks[w] # <<>> /\ tasks[w][1] = RegisterOf(c)
                                     /\ Head(tasks[w]) = tasks[w][1]
                                     /\ Queued(w, RegisterOf(c)) /\ PopTask(w, <<>>)
  <2>1. TaskOf(w, "register") /\ PopTask(w, <<>>)
    BY <1>1 DEF RunRegister
  <2>2. /\ tasks[w] # <<>> /\ Len(tasks[w]) >= 1 /\ tasks[w][1].c \in DOMAIN conns
        /\ Head(tasks[w]) = tasks[w][1]
        /\ tasks[w][1] = [op |-> "register", c |-> tasks[w][1].c]
    BY <2>1
  <2>3. 1 \in 1 .. Len(tasks[w])
    BY <2>2, TaskTypes
  <2> QED
    BY <2>1, <2>2, <2>3
<1>2. ASSUME RunClose(w)
      PROVE  \E c \in DOMAIN conns : /\ tasks[w] # <<>> /\ tasks[w][1] = CloseOf(c)
                                     /\ Queued(w, CloseOf(c)) /\ PopTask(w, <<>>)
                                     /\ HandleClose(w, c)
  <2>1. TaskOf(w, "close") /\ PopTask(w, <<>>) /\ HandleClose(w, Head(tasks[w]).c)
    BY <1>2 DEF RunClose
  <2>2. /\ tasks[w] # <<>> /\ Len(tasks[w]) >= 1 /\ tasks[w][1].c \in DOMAIN conns
        /\ Head(tasks[w]) = tasks[w][1]
        /\ tasks[w][1] = [op |-> "close", c |-> tasks[w][1].c]
    BY <2>1
  <2>3. 1 \in 1 .. Len(tasks[w])
    BY <2>2, TaskTypes
  <2> QED
    BY <2>1, <2>2, <2>3
<1>3. ASSUME RunCloseAll(w)
      PROVE  /\ tasks[w] # <<>> /\ tasks[w][1] = CloseAll /\ Queued(w, CloseAll)
  <2>1. TaskOf(w, "closeall")
    BY <1>3 DEF RunCloseAll
  <2>2. /\ tasks[w] # <<>> /\ Len(tasks[w]) >= 1 /\ tasks[w][1].op = "closeall"
    BY <2>1
  <2>3. 1 \in 1 .. Len(tasks[w])
    BY <2>2, TaskTypes
  <2>4. tasks[w][1] = [op |-> "closeall"]
    <3>1. tasks[w][1] \in Tasks(conns)
      BY <2>3, TaskTypes
    <3> QED
      BY <2>2, <3>1 DEF Tasks
  <2> QED
    BY <2>2, <2>3, <2>4
<1> QED
  BY <1>1, <1>2, <1>3

(* What RunCloseAll queues. *)
LEMMA CloseAllEffect ==
  ASSUME TypeOK, NEW w \in Loops, RunCloseAll(w)
  PROVE  \E more \in Seq(Tasks(conns)) :
           /\ PopTask(w, more)
           /\ \A i \in 1 .. Len(more) : more[i].op = "close"
           /\ \A i \in 1 .. Len(more) : \E f \in DOMAIN sockets[w] :
                more[i] = CloseOf(sockets[w][f])
           /\ \A f \in DOMAIN sockets[w] : \E i \in 1 .. Len(more) :
                more[i] = CloseOf(sockets[w][f])
<1>1. PICK order \in SetToSeqs({sockets[w][f] : f \in DOMAIN sockets[w]}) :
        PopTask(w, [i \in DOMAIN order |-> [op |-> "close", c |-> order[i]]])
  BY DEF RunCloseAll
<1> DEFINE more == [i \in DOMAIN order |-> [op |-> "close", c |-> order[i]]]
<1>2. /\ more \in Seq(Tasks(conns))
      /\ \A i \in 1 .. Len(more) : more[i].op = "close"
      /\ \A i \in 1 .. Len(more) : \E f \in DOMAIN sockets[w] :
           more[i] = [op |-> "close", c |-> sockets[w][f]]
      /\ \A f \in DOMAIN sockets[w] : \E i \in 1 .. Len(more) :
           more[i] = [op |-> "close", c |-> sockets[w][f]]
  BY <1>1, CloseTasksTyped
<1>3. PopTask(w, more)
  BY <1>1
<1> HIDE DEF more
<1> QED
  BY <1>2, <1>3 DEF CloseOf
(* What handleClose does to the maps of the loop. *)
LEMMA HandleCloseMaps ==
  ASSUME TypeOK, NEW w \in Loops, NEW c \in DOMAIN conns, HandleClose(w, c)
  PROVE  /\ \A v \in Loops : v # w =>
              sockets'[v] = sockets[v] /\ watched'[v] = watched[v] /\ connCnt'[v] = connCnt[v]
         /\ conns[c].connected =>
              /\ DOMAIN sockets'[w] = DOMAIN sockets[w] \ {conns[c].fd}
              /\ \A g \in DOMAIN sockets[w] \ {conns[c].fd} :
                   sockets'[w][g] = sockets[w][g]
              /\ watched'[w] = watched[w] \ {conns[c].fd}
              /\ connCnt'[w] = connCnt[w] - 1
              /\ owner' = [owner EXCEPT ![conns[c].fd] = 0]
              /\ conns' = [conns EXCEPT ![c].connected = FALSE, ![c].closes = @ + 1]
         /\ ~conns[c].connected => UNCHANGED <<conns, fatal, watched, sockets, connCnt, owner>>
<1>1. CASE ~conns[c].connected
  BY <1>1 DEF HandleClose
<1>2. CASE conns[c].connected
  <2> DEFINE f == conns[c].fd
             s == sockets[w]
             t == [g \in DOMAIN s \ {f} |-> s[g]]
  <2>1. /\ watched' = [watched EXCEPT ![w] = @ \ {f}]
        /\ connCnt' = [connCnt EXCEPT ![w] = @ - 1]
        /\ owner' = [owner EXCEPT ![f] = 0]
        /\ conns' = [conns EXCEPT ![c].connected = FALSE, ![c].closes = @ + 1]
    BY <1>2 DEF HandleClose
  <2>2. sockets' = [sockets EXCEPT ![w] = t]
    BY <1>2 DEF HandleClose
  <2>3. DOMAIN watched = Loops /\ DOMAIN connCnt = Loops /\ DOMAIN sockets = Loops
    BY DEF TypeOK
  <2>4. /\ DOMAIN t = DOMAIN sockets[w] \ {f}
        /\ \A g \in DOMAIN sockets[w] \ {f} : t[g] = sockets[w][g]
    OBVIOUS
  <2> HIDE DEF t
  <2> QED
    BY <1>2, <2>1, <2>2, <2>3, <2>4
<1> QED
  BY <1>1, <1>2

-----------------------------------------------------------------------------
(* Stop's task comes last *)

(* Once Stop has got to a work loop, the listener's loop has returned. *)
LEMMA ListenerReturned ==
  ASSUME TypeOK, StopInv, NEW w \in Loops,
         StopQueued(w) \/ (stopPC[1] = "queue" /\ stopPC[2] = w)
  PROVE  mainPC = "returned"
<1>1. w \in Nat /\ w >= 1
  BY ServerAssumption DEF Loops
<1>2. stopPC[1] \in {"queue", "close", "join"} => stopPC[2] \in 0 .. NumLoops
  BY StopPlace
<1>3. StopJoined(0)
  BY <1>1, <1>2, ServerAssumption DEF StopQueued, StopJoined
<1> QED
  BY <1>3 DEF StopInv

(* A step keeps Stop's task behind the registrations: the listener's loop,  *)
(* which alone queues them, has returned before Stop comes to a work loop.  *)
LEMMA CloseAllStep ==
  TypeOK /\ StopInv /\ CloseAllInv /\ [Next]_vars => CloseAllInv'
<1> SUFFICES ASSUME TypeOK, StopInv, CloseAllInv, [Next]_vars PROVE CloseAllInv'
  OBVIOUS
(* A loop whose queue, map and place in Stop stay as they are. *)
<1>1. ASSUME NEW w \in Loops, ~StopQueue \/ stopPC[2] # w, tasks'[w] = tasks[w],
             nilMap'[w] = nilMap[w],
             nilMap[w] /\ DOMAIN sockets[w] = {} => DOMAIN sockets'[w] = {}
      PROVE  CloseAllLast(w)'
  <2>1. StopQueued(w)' <=> StopQueued(w)
    BY <1>1, StopQueuedStep
  <2>2. CloseAllLast(w) /\ (Queued(w, CloseAll)' <=> Queued(w, CloseAll))
    BY <1>1 DEF CloseAllInv, Queued, CloseAll
  <2> QED
    BY <1>1, <2>1, <2>2 DEF CloseAllLast
<1>2. CASE StopQueue
  <2>1. UNCHANGED <<nilMap, sockets>>
    BY <1>2 DEF StopQueue
  <2>2. CASE stopPC[2] = 0
    BY <1>1, <1>2, <2>1, <2>2, StopQueuedStep, ServerAssumption DEF CloseAllInv, Loops
  <2>3. CASE stopPC[2] # 0
    <3>0. stopPC[2] \in Loops
      BY <1>2, <2>3, StopPlace, ServerAssumption DEF StopQueue, Loops
    <3> PICK w \in Loops : w = stopPC[2]
      BY <3>0
    <3>1. /\ w \in Loops /\ tasks' = [tasks EXCEPT ![w] = Append(tasks[w], CloseAll)]
      BY <1>2, <2>3, StopQueuedStep, StopPlace, ServerAssumption DEF StopQueue, Loops
    <3>2. CloseAll \in Tasks(conns)
      BY DEF CloseAll, Tasks
    <3>3. /\ \A v \in Loops : v # w => tasks'[v] = tasks[v]
          /\ Len(tasks'[w]) = Len(tasks[w]) + 1
          /\ \A i \in 1 .. Len(tasks[w]) : tasks'[w][i] = tasks[w][i]
          /\ tasks'[w][Len(tasks[w]) + 1] = CloseAll
          /\ \A v \in Loops : \A u : Queued(v, u)' <=> Queued(v, u) \/ (v = w /\ u = CloseAll)
      BY <3>1, AppendQueue
    <3>4. CloseAllLast(w)'
      <4>1. StopQueued(w)'
        BY <1>2, <3>1, StopQueuedStep DEF StopQueue
      <4>2. CloseAll.op # "register"
        BY DEF CloseAll
      <4>3. CloseAllLast(w) /\ Len(tasks[w]) \in Nat
        BY <3>1, TaskTypes DEF CloseAllInv
      <4>4. Queued(w, CloseAll)'
        BY <3>1, <3>3
      <4>5. \A i, j \in 1 .. Len(tasks'[w]) :
              i < j /\ tasks'[w][i] = CloseAll => tasks'[w][j].op # "register"
        <5> TAKE i, j \in 1 .. Len(tasks'[w])
        <5> HAVE i < j /\ tasks'[w][i] = CloseAll
        <5>1. i \in 1 .. Len(tasks[w]) /\ tasks[w][i] = CloseAll
          BY <3>3, <4>3
        <5>2. CASE j = Len(tasks[w]) + 1
          BY <3>3, <4>2, <5>2
        <5>3. CASE j \in 1 .. Len(tasks[w])
          BY <3>3, <4>3, <5>1, <5>3 DEF CloseAllLast
        <5> QED
          BY <3>3, <4>3, <5>2, <5>3
      <4>6. ASSUME nilMap[w], NEW i \in 1 .. Len(tasks'[w])
            PROVE  tasks'[w][i].op # "register"
        <5>1. i \in 1 .. Len(tasks[w]) \/ i = Len(tasks[w]) + 1
          BY <3>3, <4>3
        <5>2. CASE i \in 1 .. Len(tasks[w])
          <6>1. tasks[w][i].op # "register"
            BY <4>3, <4>6, <5>2 DEF CloseAllLast
          <6> QED
            BY <3>3, <5>2, <6>1
        <5>3. CASE i = Len(tasks[w]) + 1
          BY <3>3, <4>2, <5>3
        <5> QED
          BY <5>1, <5>2, <5>3
      <4> QED
        BY <2>1, <4>1, <4>3, <4>4, <4>5, <4>6 DEF CloseAllLast
    <3>5. \A v \in Loops : v # w => CloseAllLast(v)'
      BY <1>1, <2>1, <3>3
    <3> QED
      BY <3>4, <3>5 DEF CloseAllInv
  <2> QED
    BY <2>2, <2>3
<1>3. CASE ~StopQueue /\ QuietStep
  BY <1>1, <1>3, QuietUnchanged DEF CloseAllInv
<1>4. CASE ~StopQueue /\ \E f \in FdNums : Accept(f)
  BY <1>1, <1>4 DEF CloseAllInv, Accept, loopVars
<1>5. CASE ~StopQueue /\ HandleNewConnection
  <2>1. \A w \in Loops : ~StopQueued(w)
    BY <1>5, ListenerReturned DEF HandleNewConnection
  <2> PICK n \in Nat : n = Len(conns) + 1
    BY TaskTypes
  <2>2. /\ tasks' = [tasks EXCEPT ![1] = Append(tasks[1], RegisterOf(n))]
        /\ 1 \in Loops /\ UNCHANGED <<nilMap, sockets>>
    BY <1>5, ServerAssumption DEF HandleNewConnection, RoundRobin, RegisterOf, Loops
  <2>3. ASSUME NEW w \in Loops PROVE CloseAllLast(w)'
    <3>1. \A v \in Loops : \A u :
            Queued(v, u)' <=> Queued(v, u) \/ (v = 1 /\ u = RegisterOf(n))
      BY <2>2, AppendQueue
    <3>2. Queued(w, CloseAll)' <=> Queued(w, CloseAll)
      BY <3>1 DEF CloseAll, RegisterOf
    <3>3. ~StopQueued(w)' /\ CloseAllLast(w)
      BY <1>5, <2>1, StopQueuedStep DEF CloseAllInv
    <3>4. ~nilMap[w] /\ ~Queued(w, CloseAll)
      BY <2>1, <3>3 DEF CloseAllLast
    <3> QED
      BY <2>2, <3>2, <3>3, <3>4 DEF CloseAllLast, Queued, CloseAll
  <2> QED
    BY <2>3 DEF CloseAllInv
<1>6. ASSUME ~StopQueue, NEW w \in Loops, NEW f \in FdNums, CloseEvent(w, f)
      PROVE  CloseAllInv'
  <2>1. UNCHANGED <<tasks, nilMap>> /\ f \in DOMAIN sockets[w]
    BY <1>6 DEF CloseEvent
  <2>2. ~nilMap[w]
    BY <2>1 DEF CloseAllInv, CloseAllLast
  <2>3. \A v \in Loops : v # w => sockets'[v] = sockets[v]
    BY <1>6 DEF CloseEvent, HandleClose, TypeOK
  <2> QED
    BY <1>1, <1>6, <2>1, <2>2, <2>3 DEF CloseAllInv
(* The first task leaves, and more, without a registration, comes behind.   *)
<1>7. ASSUME ~StopQueue, NEW w \in Loops, NEW more \in Seq(Tasks(conns)), tasks[w] # <<>>,
             PopTask(w, more), \A i \in 1 .. Len(more) : more[i].op = "close",
             nilMap'[w] <=> nilMap[w] \/ tasks[w][1] = CloseAll,
             nilMap'[w] => DOMAIN sockets'[w] = {},
             \A v \in Loops : v # w => UNCHANGED <<nilMap[v], sockets[v]>>
      PROVE  CloseAllInv'
  <2>1. /\ \A v \in Loops : v # w => tasks'[v] = tasks[v]
        /\ Len(tasks[w]) \in Nat /\ Len(more) \in Nat /\ Len(tasks[w]) >= 1
        /\ Len(tasks'[w]) = Len(tasks[w]) - 1 + Len(more)
        /\ \A i \in 1 .. Len(tasks[w]) - 1 : tasks'[w][i] = tasks[w][i + 1]
        /\ \A i \in 1 .. Len(more) : tasks'[w][Len(tasks[w]) - 1 + i] = more[i]
        /\ \A i \in 1 .. Len(tasks'[w]) :
             \/ i + 1 \in 2 .. Len(tasks[w]) /\ tasks'[w][i] = tasks[w][i + 1]
             \/ \E n \in 1 .. Len(more) :
                  i = Len(tasks[w]) - 1 + n /\ tasks'[w][i] = more[n]
        /\ \A u : Queued(w, u)' <=> \/ \E i \in 2 .. Len(tasks[w]) : tasks[w][i] = u
                                    \/ \E i \in 1 .. Len(more) : more[i] = u
        /\ \A v \in Loops : v # w => \A u : Queued(v, u)' <=> Queued(v, u)
    <3>1. tasks[w] # <<>> /\ PopTask(w, more)
      BY <1>7
    <3> QED
      BY <3>1, PopQueue
  <2>2. CloseAllLast(w) /\ CloseAll.op = "closeall"
    BY DEF CloseAllInv, CloseAll
  <2>3. StopQueued(w)' <=> StopQueued(w)
    BY <1>7, StopQueuedStep
  <2>4. ~\E i \in 1 .. Len(more) : more[i] = CloseAll
    BY <1>7, <2>2
  <2>5. Queued(w, CloseAll) <=> tasks[w][1] = CloseAll \/ Queued(w, CloseAll)'
    <3>1. Queued(w, CloseAll)' <=> \E i \in 2 .. Len(tasks[w]) : tasks[w][i] = CloseAll
      BY <2>1, <2>4
    <3>2. Queued(w, CloseAll) <=>
            tasks[w][1] = CloseAll \/ \E i \in 2 .. Len(tasks[w]) : tasks[w][i] = CloseAll
      <4>1. Len(tasks[w]) \in Nat /\ Len(tasks[w]) >= 1
        BY <2>1
      <4> QED
        BY <4>1 DEF Queued
    <3> QED
      BY <3>1, <3>2
  <2>6. StopQueued(w)' <=> nilMap'[w] \/ Queued(w, CloseAll)'
    BY <1>7, <2>2, <2>3, <2>5 DEF CloseAllLast
  (* A place in the new queue is a later one of the old, or a close. *)
  <2>7. ASSUME NEW i \in 1 .. Len(tasks'[w])
        PROVE  \/ i + 1 \in 2 .. Len(tasks[w]) /\ tasks'[w][i] = tasks[w][i + 1]
               \/ i > Len(tasks[w]) - 1 /\ tasks'[w][i].op = "close"
    <3>1. CASE i + 1 \in 2 .. Len(tasks[w]) /\ tasks'[w][i] = tasks[w][i + 1]
      BY <3>1
    <3>2. ASSUME NEW n \in 1 .. Len(more),
                 i = Len(tasks[w]) - 1 + n, tasks'[w][i] = more[n]
          PROVE  i > Len(tasks[w]) - 1 /\ tasks'[w][i].op = "close"
      BY <1>7, <2>1, <3>2
    <3> QED
      BY <2>1, <3>1, <3>2
  <2>8. ASSUME NEW i \in 1 .. Len(tasks'[w]), NEW j \in 1 .. Len(tasks'[w]),
               i < j, tasks'[w][i] = CloseAll
        PROVE  tasks'[w][j].op # "register"
    <3>1. i + 1 \in 1 .. Len(tasks[w]) /\ tasks[w][i + 1] = CloseAll
      BY <2>2, <2>7, <2>8
    <3>2. CASE tasks'[w][j].op = "close"
      BY <3>2
    <3>3. CASE j + 1 \in 2 .. Len(tasks[w]) /\ tasks'[w][j] = tasks[w][j + 1]
      BY <2>1, <2>2, <2>8, <3>1, <3>3 DEF CloseAllLast
    <3> QED
      BY <2>7, <3>2, <3>3
  <2>9. ASSUME nilMap'[w], NEW j \in 1 .. Len(tasks'[w]) PROVE tasks'[w][j].op # "register"
    <3>1. CASE tasks'[w][j].op = "close"
      BY <3>1
    <3>2. CASE j + 1 \in 2 .. Len(tasks[w]) /\ tasks'[w][j] = tasks[w][j + 1]
      <4>1. CASE nilMap[w]
        BY <2>1, <2>2, <3>2, <4>1 DEF CloseAllLast
      <4>2. CASE tasks[w][1] = CloseAll
        BY <2>1, <2>2, <3>2, <4>2 DEF CloseAllLast
      <4> QED
        BY <1>7, <2>9, <4>1, <4>2
    <3> QED
      BY <2>7, <3>1, <3>2
  <2>10. CloseAllLast(w)'
    BY <1>7, <2>6, <2>8, <2>9 DEF CloseAllLast, CloseAll
  <2>11. \A v \in Loops : v # w => CloseAllLast(v)'
    BY <1>1, <1>7, <2>1
  <2> QED
    BY <2>10, <2>11 DEF CloseAllInv
<1>8. ASSUME ~StopQueue, NEW w \in Loops, RunRegister(w) PROVE CloseAllInv'
  <2>1. PICK c \in DOMAIN conns : /\ tasks[w] # <<>> /\ tasks[w][1] = RegisterOf(c)
                                  /\ PopTask(w, <<>>)
    BY <1>8, RunHead
  <2>2. UNCHANGED nilMap /\ \A v \in Loops : v # w => UNCHANGED sockets[v]
    BY <1>8 DEF RunRegister, TypeOK
  <2>3. /\ <<>> \in Seq(Tasks(conns)) /\ Len(<<>>) = 0
        /\ tasks[w][1] # CloseAll /\ tasks[w][1].op = "register"
    BY <2>1, EmptySeq DEF RegisterOf, CloseAll
  <2>4. ~nilMap[w]
    <3>1. 1 \in 1 .. Len(tasks[w])
      BY <2>1, TaskTypes, EmptySeq
    <3> QED
      BY <2>3, <3>1 DEF CloseAllInv, CloseAllLast
  <2>5. \A i \in 1 .. Len(<<>>) : <<>>[i].op = "close"
    BY <2>3
  <2> QED
    BY <1>7, <1>8, <2>1, <2>2, <2>3, <2>4, <2>5
<1>9. ASSUME ~StopQueue, NEW w \in Loops, RunClose(w) PROVE CloseAllInv'
  <2>1. PICK c \in DOMAIN conns : /\ tasks[w] # <<>> /\ tasks[w][1] = CloseOf(c)
                                  /\ PopTask(w, <<>>) /\ HandleClose(w, c)
    BY <1>9, RunHead
  <2>2. UNCHANGED nilMap
    BY <1>9 DEF RunClose
  <2>3. <<>> \in Seq(Tasks(conns)) /\ Len(<<>>) = 0 /\ tasks[w][1] # CloseAll
    BY <2>1, EmptySeq DEF CloseOf, CloseAll
  <2>4. /\ \A v \in Loops : v # w => UNCHANGED sockets[v]
        /\ DOMAIN sockets'[w] \subseteq DOMAIN sockets[w]
    BY <2>1, HandleCloseMaps
  <2>5. nilMap[w] => DOMAIN sockets[w] = {}
    BY DEF CloseAllInv, CloseAllLast
  <2>6. \A i \in 1 .. Len(<<>>) : <<>>[i].op = "close"
    BY <2>3
  <2> QED
    BY <1>7, <1>9, <2>1, <2>2, <2>3, <2>4, <2>5, <2>6
<1>10. ASSUME ~StopQueue, NEW w \in Loops, RunCloseAll(w) PROVE CloseAllInv'
  <2>1. tasks[w] # <<>> /\ tasks[w][1] = CloseAll
    BY <1>10, RunHead
  <2>2. PICK more \in Seq(Tasks(conns)) :
          PopTask(w, more) /\ \A i \in 1 .. Len(more) : more[i].op = "close"
    BY <1>10, CloseAllEffect
  <2>3. /\ nilMap' = [nilMap EXCEPT ![w] = TRUE]
        /\ sockets' = [sockets EXCEPT ![w] = EmptyMap]
    BY <1>10 DEF RunCloseAll
  <2>4. nilMap'[w] /\ DOMAIN sockets'[w] = {}
    BY <2>3 DEF TypeOK, EmptyMap
  <2>5. \A v \in Loops : v # w => UNCHANGED <<nilMap[v], sockets[v]>>
    BY <2>3 DEF TypeOK
  <2> QED
    BY <1>7, <1>10, <2>1, <2>2, <2>4, <2>5
<1>11. ASSUME ~StopQueue, NEW c \in DOMAIN conns, CallClose(c) PROVE CloseAllInv'
  BY <1>1, <1>11 DEF CloseAllInv, CallClose, loopVars
<1>12. ASSUME ~StopQueue, NEW c \in DOMAIN conns, QueueClose(c) PROVE CloseAllInv'
  <2> PICK w \in Loops : w = conns[c].loop
    BY TaskTypes DEF Connections
  <2>1. /\ w \in Loops /\ tasks' = [tasks EXCEPT ![w] = Append(tasks[w], CloseOf(c))]
        /\ UNCHANGED <<nilMap, sockets>>
    BY <1>12, TaskTypes DEF QueueClose, CloseOf, Connections
  <2>2. CloseOf(c) \in Tasks(conns) /\ CloseOf(c).op = "close" /\ CloseOf(c) # CloseAll
    BY DEF CloseOf, CloseAll, Tasks
  <2>3. /\ \A v \in Loops : v # w => tasks'[v] = tasks[v]
        /\ Len(tasks'[w]) = Len(tasks[w]) + 1
        /\ \A i \in 1 .. Len(tasks[w]) : tasks'[w][i] = tasks[w][i]
        /\ tasks'[w][Len(tasks[w]) + 1] = CloseOf(c)
        /\ \A v \in Loops : \A u : Queued(v, u)' <=> Queued(v, u) \/ (v = w /\ u = CloseOf(c))
    BY <2>1, AppendQueue
  <2>4. CloseAllLast(w)'
    <3>1. StopQueued(w)' <=> StopQueued(w)
      BY <1>12, <2>1, StopQueuedStep
    <3>2. CloseAllLast(w) /\ Len(tasks[w]) \in Nat
      BY <2>1, TaskTypes DEF CloseAllInv
    <3>3. Queued(w, CloseAll)' <=> Queued(w, CloseAll)
      BY <2>1, <2>2, <2>3
    <3>4. \A i, j \in 1 .. Len(tasks'[w]) :
            i < j /\ tasks'[w][i] = CloseAll => tasks'[w][j].op # "register"
      <4> TAKE i, j \in 1 .. Len(tasks'[w])
      <4> HAVE i < j /\ tasks'[w][i] = CloseAll
      <4>1. i \in 1 .. Len(tasks[w]) /\ tasks[w][i] = CloseAll
        BY <2>3, <3>2
      <4>2. CASE j = Len(tasks[w]) + 1
        BY <2>2, <2>3, <4>2
      <4>3. CASE j \in 1 .. Len(tasks[w])
        BY <2>3, <3>2, <4>1, <4>3 DEF CloseAllLast
      <4> QED
        BY <2>3, <3>2, <4>2, <4>3
    <3>5. nilMap[w] => \A i \in 1 .. Len(tasks'[w]) : tasks'[w][i].op # "register"
      BY <2>2, <2>3, <3>2 DEF CloseAllLast
    <3> QED
      BY <2>1, <3>1, <3>2, <3>3, <3>4, <3>5 DEF CloseAllLast
  <2>5. \A v \in Loops : v # w => CloseAllLast(v)'
    BY <1>1, <1>12, <2>1, <2>3
  <2> QED
    BY <2>4, <2>5 DEF CloseAllInv
<1> QED
  BY <1>2, <1>3, <1>4, <1>5, <1>6, <1>8, <1>9, <1>10, <1>11, <1>12, StepCases
-----------------------------------------------------------------------------
(* Who owns a descriptor number *)

(* What the steps on connections need and keep together. *)
ConnInv == OwnerInv /\ TaskInv /\ SocketInv

(* Every handleClose that runs is one of a connection of its loop that has  *)
(* been announced, and if it still is open it is watched and owns its       *)
(* descriptor: so none of the checks of handleClose ends the process.       *)
LEMMA CloseOfOwn ==
  ASSUME TypeOK, ConnInv, NEW w \in Loops,
         RunClose(w) \/ \E f \in FdNums : CloseEvent(w, f)
  PROVE  \E c \in DOMAIN conns :
           /\ HandleClose(w, c)
           /\ conns[c].loop = w /\ conns[c].announced /\ conns[c].fd \in FdNums
           /\ RunClose(w) => /\ tasks[w] # <<>> /\ tasks[w][1] = CloseOf(c)
                             /\ PopTask(w, <<>>)
           /\ conns[c].connected => /\ owner[conns[c].fd] = c
                                    /\ conns[c].fd \in watched[w]
                                    /\ fatal' = fatal
<1>1. ASSUME NEW c \in DOMAIN conns, HandleClose(w, c), conns[c].loop = w, conns[c].announced
      PROVE  /\ conns[c].fd \in FdNums
             /\ conns[c].connected => /\ owner[conns[c].fd] = c
                                      /\ conns[c].fd \in watched[w]
                                      /\ fatal' = fatal
  <2>1. conns[c].fd \in FdNums
    BY TaskTypes DEF Connections
  <2>2. conns[c].connected => owner[conns[c].fd] = c /\ conns[c].fd \in watched[w]
    BY <1>1 DEF ConnInv, OwnerInv, SocketInv, ClosedExactlyOnce
  <2>3. conns[c].connected => fatal' = fatal
    BY <1>1, <2>2 DEF HandleClose
  <2> QED
    BY <2>1, <2>2, <2>3
<1>2. CASE RunClose(w)
  <2>1. PICK c \in DOMAIN conns : /\ tasks[w] # <<>> /\ tasks[w][1] = CloseOf(c)
                                  /\ Queued(w, CloseOf(c)) /\ PopTask(w, <<>>)
                                  /\ HandleClose(w, c)
    BY <1>2, RunHead
  <2>2. conns[c].loop = w /\ conns[c].announced
    BY <2>1 DEF ConnInv, TaskInv
  <2> QED
    BY <1>1, <2>1, <2>2
<1>3. ASSUME NEW f \in FdNums, CloseEvent(w, f), ~RunClose(w)
      PROVE  \E c \in DOMAIN conns :
               /\ HandleClose(w, c)
               /\ conns[c].loop = w /\ conns[c].announced
  <2>1. f \in DOMAIN sockets[w] /\ HandleClose(w, sockets[w][f]) /\ f \in watched[w]
    BY <1>3 DEF CloseEvent
  <2>2. sockets[w][f] \in DOMAIN conns
    BY <2>1, SocketTypes
  <2>3. conns[sockets[w][f]].loop = w /\ owner[f] = sockets[w][f]
    BY <2>1 DEF ConnInv, SocketInv, EventsReachOwner
  <2>4. conns[sockets[w][f]].announced
    BY <2>1, <2>3 DEF ConnInv, SocketInv
  <2> QED
    BY <2>1, <2>2, <2>3, <2>4
<1> QED
  BY <1>1, <1>2, <1>3

(* A step keeps the table of descriptor numbers right: a number is given    *)
(* away only when it is free, and freed only by the connection that has it. *)
LEMMA OwnerStep == TypeOK /\ ConnInv /\ [Next]_vars => OwnerInv'
<1> SUFFICES ASSUME TypeOK, ConnInv, [Next]_vars PROVE OwnerInv'
  OBVIOUS
<1>0. /\ Len(conns) \in Nat /\ DOMAIN conns = 1 .. Len(conns)
      /\ \A c \in DOMAIN conns : conns[c] \in Connections
      /\ owner \in [FdNums -> 0 .. MaxConns]
      /\ \A c \in DOMAIN conns : conns[c].fd \in FdNums
  BY TaskTypes DEF TypeOK, Connections
<1>00. OwnerInv /\ ClosedExactlyOnce
  BY DEF ConnInv, OwnerInv
<1>1. ASSUME UNCHANGED <<conns, owner, newFd>>, mainPC' = "accepted" <=> mainPC = "accepted"
      PROVE  OwnerInv'
  BY <1>00, <1>1 DEF OwnerInv, ClosedExactlyOnce
<1>2. CASE QuietStep
  BY <1>1, <1>2, QuietUnchanged
<1>3. ASSUME NEW f \in FdNums, Accept(f) PROVE OwnerInv'
  <2>1. /\ mainPC' = "accepted" /\ newFd' = f /\ owner[f] = 0 /\ mainPC = "wait"
        /\ owner' = [owner EXCEPT ![f] = Len(conns) + 1] /\ conns' = conns
    BY <1>3 DEF Accept
  <2>2. owner'[f] = Len(conns) + 1 /\ \A g \in FdNums : g # f => owner'[g] = owner[g]
    BY <1>0, <2>1
  <2>3. ClosedExactlyOnce'
    BY <1>0, <1>00, <2>1, <2>2 DEF ClosedExactlyOnce
  <2> QED
    BY <1>00, <2>1, <2>2, <2>3 DEF OwnerInv
<1>4. CASE HandleNewConnection
  <2> DEFINE r == [fd |-> newFd, loop |-> RoundRobin, connected |-> TRUE,
                   announced |-> FALSE, closes |-> 0]
  <2>1. /\ mainPC = "accepted" /\ mainPC' = "wait" /\ conns' = Append(conns, r)
        /\ UNCHANGED <<owner, newFd>>
    BY <1>4 DEF HandleNewConnection
  <2>2. /\ newFd \in FdNums /\ owner[newFd] = Len(conns) + 1
        /\ r.fd = newFd /\ r.connected /\ r.closes = 0
    BY <1>00, <2>1 DEF OwnerInv
  <2> HIDE DEF r
  <2>3. /\ Len(conns') = Len(conns) + 1 /\ DOMAIN conns' = 1 .. Len(conns) + 1
        /\ \A c \in 1 .. Len(conns) : conns'[c] = conns[c]
        /\ conns'[Len(conns) + 1] = r
    <3>1. conns \in Seq(Connections \cup {r}) /\ r \in Connections \cup {r}
      BY TaskTypes, SeqMonotonic
    <3>2. conns' \in Seq(Connections \cup {r})
      BY <2>1, <3>1, AppendElements
    <3> QED
      BY <2>1, <3>1, <3>2, AppendElements, LenProperties
  <2>4. ClosedExactlyOnce'
    BY <1>0, <1>00, <2>1, <2>2, <2>3 DEF ClosedExactlyOnce
  <2> QED
    BY <1>0, <1>00, <2>1, <2>2, <2>3, <2>4 DEF OwnerInv
<1>5. ASSUME NEW w \in Loops, RunClose(w) \/ \E f \in FdNums : CloseEvent(w, f)
      PROVE  OwnerInv'
  <2>1. UNCHANGED <<mainPC, newFd>>
    BY <1>5 DEF RunClose, CloseEvent, mainVars
  <2>2. PICK c \in DOMAIN conns :
          HandleClose(w, c) /\ (conns[c].connected => owner[conns[c].fd] = c)
    BY <1>5, CloseOfOwn
  <2>3. CASE ~conns[c].connected
    BY <1>1, <2>1, <2>2, <2>3, HandleCloseMaps
  <2>4. CASE conns[c].connected
    <3>1. PICK f \in FdNums : f = conns[c].fd
      BY <1>0
    <3>2. /\ owner[f] = c /\ owner' = [owner EXCEPT ![f] = 0]
          /\ conns' = [conns EXCEPT ![c].connected = FALSE, ![c].closes = @ + 1]
      BY <2>2, <2>4, <3>1, HandleCloseMaps
    <3>3. owner'[f] = 0 /\ \A g \in FdNums : g # f => owner'[g] = owner[g]
      BY <1>0, <3>2
    <3>4. /\ DOMAIN conns' = DOMAIN conns /\ Len(conns') = Len(conns)
          /\ \A d \in DOMAIN conns : d # c => conns'[d] = conns[d]
          /\ ~conns'[c].connected /\ conns'[c].closes = conns[c].closes + 1
      <4>1. /\ DOMAIN conns' = DOMAIN conns /\ Len(conns') = Len(conns)
            /\ \A d \in DOMAIN conns : d # c => conns'[d] = conns[d]
            /\ conns'[c] = [fd |-> conns[c].fd, loop |-> conns[c].loop,
                            connected |-> FALSE, announced |-> conns[c].announced,
                            closes |-> conns[c].closes + 1]
        BY <3>2, CloseUpdatesConns
      <4> QED
        BY <4>1
    <3>5. conns[c].closes = 0
      BY <1>00, <2>4 DEF ClosedExactlyOnce
    <3>6. ClosedExactlyOnce'
      BY <1>0, <1>00, <3>2, <3>3, <3>4, <3>5 DEF ClosedExactlyOnce
    <3>7. ASSUME NEW g \in FdNums, owner'[g] # 0
          PROVE  \/ /\ owner'[g] \in DOMAIN conns'
                    /\ conns'[owner'[g]].connected /\ conns'[owner'[g]].fd = g
                 \/ mainPC' = "accepted" /\ newFd' = g
      <4>1. g # f /\ owner'[g] = owner[g]
        BY <3>3, <3>7
      <4>2. CASE mainPC = "accepted" /\ newFd = g
        BY <2>1, <4>2
      <4>3. CASE /\ owner[g] \in DOMAIN conns
                 /\ conns[owner[g]].connected /\ conns[owner[g]].fd = g
        BY <3>1, <3>4, <4>1, <4>3
      <4> QED
        BY <1>00, <3>7, <4>1, <4>2, <4>3 DEF OwnerInv
    <3>8. mainPC' = "accepted" => newFd' \in FdNums /\ owner'[newFd'] = Len(conns') + 1
      BY <1>0, <1>00, <2>1, <3>2, <3>3, <3>4 DEF OwnerInv
    <3> QED
      BY <3>6, <3>7, <3>8 DEF OwnerInv
  <2> QED
    BY <2>3, <2>4
<1>6. ASSUME NEW w \in Loops, RunRegister(w) PROVE OwnerInv'
  <2>1. PICK c \in DOMAIN conns : tasks[w][1] = RegisterOf(c) /\ Head(tasks[w]) = tasks[w][1]
    BY <1>6, RunHead
  <2>2. conns' = [conns EXCEPT ![c].announced = TRUE] /\ UNCHANGED <<owner, mainPC, newFd>>
    <3>1. Head(tasks[w]).c = c
      BY <2>1 DEF RegisterOf
    <3> QED
      BY <1>6, <3>1 DEF RunRegister, mainVars
  <2>3. /\ DOMAIN conns' = DOMAIN conns /\ Len(conns') = Len(conns)
        /\ \A d \in DOMAIN conns : /\ conns'[d].fd = conns[d].fd
                                   /\ conns'[d].connected = conns[d].connected
                                   /\ conns'[d].closes = conns[d].closes
    BY <2>2, RegisterUpdatesConns
  <2> QED
    BY <1>00, <2>2, <2>3 DEF OwnerInv, ClosedExactlyOnce
<1>7. ASSUME NEW w \in Loops, RunCloseAll(w) PROVE OwnerInv'
  BY <1>1, <1>7 DEF RunCloseAll, mainVars, connVars
<1>8. ASSUME NEW c \in DOMAIN conns, CallClose(c) \/ QueueClose(c) PROVE OwnerInv'
  BY <1>1, <1>8 DEF CallClose, QueueClose, mainVars
<1>9. CASE StopQueue
  BY <1>1, <1>9 DEF StopQueue, mainVars, connVars
<1> QED
  BY <1>2, <1>3, <1>4, <1>5, <1>6, <1>7, <1>8, <1>9, StepCases
-----------------------------------------------------------------------------
(* Which connections the tasks are about *)

(* Tasks of different operations or connections are different. *)
LEMMA TaskTags ==
  /\ \A c, d : RegisterOf(c) # CloseOf(d)
  /\ \A c : RegisterOf(c) # CloseAll /\ CloseOf(c) # CloseAll
  /\ \A c, d : RegisterOf(c) = RegisterOf(d) => c = d
  /\ \A c, d : CloseOf(c) = CloseOf(d) => c = d
  /\ \A c : RegisterOf(c).op = "register" /\ RegisterOf(c).c = c /\ CloseOf(c).op = "close"
  /\ CloseAll.op = "closeall"
  BY DEF RegisterOf, CloseOf, CloseAll

(* A queue still has each registration once when a task is appended that is *)
(* none, or a new one.                                                      *)
LEMMA AppendRegisterOnce ==
  ASSUME TypeOK, NEW w \in Loops, NEW t, RegisterOnce(w),
         tasks' = [tasks EXCEPT ![w] = Append(tasks[w], t)],
         t.op # "register" \/ ~Queued(w, t)
  PROVE  RegisterOnce(w)'
<1>1. /\ Len(tasks'[w]) = Len(tasks[w]) + 1 /\ Len(tasks[w]) \in Nat
      /\ \A i \in 1 .. Len(tasks[w]) : tasks'[w][i] = tasks[w][i]
      /\ tasks'[w][Len(tasks[w]) + 1] = t
  BY AppendQueue, TaskTypes
<1> SUFFICES ASSUME NEW i \in 1 .. Len(tasks'[w]), NEW j \in 1 .. Len(tasks'[w]),
                    tasks'[w][i].op = "register", tasks'[w][i] = tasks'[w][j]
             PROVE  i = j
  BY DEF RegisterOnce
<1>2. CASE i \in 1 .. Len(tasks[w]) /\ j \in 1 .. Len(tasks[w])
  BY <1>1, <1>2 DEF RegisterOnce
<1>3. CASE i = Len(tasks[w]) + 1 /\ j \in 1 .. Len(tasks[w])
  BY <1>1, <1>3 DEF Queued
<1>4. CASE i \in 1 .. Len(tasks[w]) /\ j = Len(tasks[w]) + 1
  BY <1>1, <1>4 DEF Queued
<1> QED
  BY <1>1, <1>2, <1>3, <1>4

(* What is left in a queue when its first task is taken off and closes are  *)
(* put behind it: all other tasks, and no second copy of a registration.    *)
LEMMA PopRegisterOnce ==
  ASSUME TypeOK, NEW w \in Loops, tasks[w] # <<>>, RegisterOnce(w),
         NEW more \in Seq(Tasks(conns)), PopTask(w, more),
         \A i \in 1 .. Len(more) : more[i].op = "close"
  PROVE  /\ RegisterOnce(w)'
         /\ \A u : Queued(w, u)' => Queued(w, u) \/ \E i \in 1 .. Len(more) : more[i] = u
         /\ \A u : Queued(w, u) /\ u # tasks[w][1] => Queued(w, u)'
         /\ \A u : u = tasks[w][1] /\ u.op = "register" => ~Queued(w, u)'
<1>1. /\ Len(tasks[w]) \in Nat /\ Len(tasks[w]) >= 1
      /\ \A i \in 1 .. Len(tasks'[w]) :
           \/ i + 1 \in 2 .. Len(tasks[w]) /\ tasks'[w][i] = tasks[w][i + 1]
           \/ \E n \in 1 .. Len(more) :
                i = Len(tasks[w]) - 1 + n /\ tasks'[w][i] = more[n]
  BY PopQueue
<1>2. \A u : Queued(w, u)' <=> \/ \E i \in 2 .. Len(tasks[w]) : tasks[w][i] = u
                               \/ \E i \in 1 .. Len(more) : more[i] = u
  BY PopQueue
<1>3. ASSUME NEW u
      PROVE  /\ Queued(w, u)' => Queued(w, u) \/ \E i \in 1 .. Len(more) : more[i] = u
             /\ Queued(w, u) /\ u # tasks[w][1] => Queued(w, u)'
  <2>1. Queued(w, u) <=> tasks[w][1] = u \/ \E i \in 2 .. Len(tasks[w]) : tasks[w][i] = u
    <3>1. Len(tasks[w]) \in Nat /\ Len(tasks[w]) >= 1
      BY <1>1
    <3> QED
      BY <3>1 DEF Queued
  <2>2. Queued(w, u)' <=> \/ \E i \in 2 .. Len(tasks[w]) : tasks[w][i] = u
                          \/ \E i \in 1 .. Len(more) : more[i] = u
    BY <1>2
  <2> QED
    BY <2>1, <2>2
<1>4. ASSUME NEW u, u = tasks[w][1], u.op = "register" PROVE ~Queued(w, u)'
  <2>1. ~\E i \in 2 .. Len(tasks[w]) : tasks[w][i] = u
    BY <1>1, <1>4 DEF RegisterOnce
  <2>2. ~\E i \in 1 .. Len(more) : more[i] = u
    BY <1>4
  <2> QED
    BY <1>2, <2>1, <2>2
<1>5. RegisterOnce(w)'
  <2> SUFFICES ASSUME NEW i \in 1 .. Len(tasks'[w]), NEW j \in 1 .. Len(tasks'[w]),
                      tasks'[w][i].op = "register", tasks'[w][i] = tasks'[w][j]
               PROVE  i = j
    BY DEF RegisterOnce
  <2>1. i + 1 \in 2 .. Len(tasks[w]) /\ tasks'[w][i] = tasks[w][i + 1]
    BY <1>1
  <2>2. j + 1 \in 2 .. Len(tasks[w]) /\ tasks'[w][j] = tasks[w][j + 1]
    BY <1>1
  <2>3. i + 1 = j + 1
    <3>1. i + 1 \in 1 .. Len(tasks[w]) /\ j + 1 \in 1 .. Len(tasks[w])
      BY <1>1, <2>1, <2>2
    <3> QED
      BY <2>1, <2>2, <3>1 DEF RegisterOnce
  <2> QED
    BY <2>3
<1> QED
  BY <1>3, <1>4, <1>5

(* A step leaves the queued tasks about connections in the right state: one *)
(* registration until OnConnect is called, closes only afterwards.          *)
LEMMA TaskStep == TypeOK /\ ConnInv /\ [Next]_vars => TaskInv'
<1> SUFFICES ASSUME TypeOK, ConnInv, [Next]_vars PROVE TaskInv'
  OBVIOUS
<1>0. /\ Len(conns) \in Nat /\ DOMAIN conns = 1 .. Len(conns) /\ closing \subseteq DOMAIN conns
      /\ \A c \in DOMAIN conns : conns[c] \in Connections /\ conns[c].loop \in Loops
  BY TaskTypes DEF TypeOK, Connections
<1>00. TaskInv
  BY DEF ConnInv
(* The queues stay as they are, or a task that is not a registration, and   *)
(* is only ever a close of an announced connection, is put into one.        *)
<1>1. ASSUME \A w \in Loops : RegisterOnce(w)',
             \A w \in Loops : \A c \in DOMAIN conns :
               /\ Queued(w, RegisterOf(c))' <=> Queued(w, RegisterOf(c))
               /\ Queued(w, CloseOf(c))' =>
                    Queued(w, CloseOf(c)) \/ (conns[c].loop = w /\ conns[c].announced),
             DOMAIN conns' = DOMAIN conns,
             \A c \in DOMAIN conns : /\ conns'[c].loop = conns[c].loop
                                     /\ conns'[c].announced = conns[c].announced
                                     /\ ~conns[c].announced =>
                                          conns'[c].connected = conns[c].connected,
             \A c \in closing' : c \in DOMAIN conns /\ conns[c].announced
      PROVE  TaskInv'
  <2>1. \A c \in DOMAIN conns' : ~conns'[c].announced =>
          conns'[c].connected /\ Queued(conns[c].loop, RegisterOf(c))'
    <3> TAKE c \in DOMAIN conns'
    <3> HAVE ~conns'[c].announced
    <3> PICK w \in Loops : w = conns[c].loop
      BY <1>0, <1>1
    <3>1. Queued(w, RegisterOf(c)) /\ conns'[c].connected
      BY <1>00, <1>1 DEF TaskInv
    <3>2. Queued(w, RegisterOf(c))' /\ conns'[c].loop = w
      BY <1>1, <3>1
    <3> QED
      BY <3>1, <3>2 DEF Queued
  <2>2. \A w \in Loops : \A c \in DOMAIN conns' :
          /\ Queued(w, RegisterOf(c))' => conns'[c].loop = w /\ ~conns'[c].announced
          /\ Queued(w, CloseOf(c))' => conns'[c].loop = w /\ conns'[c].announced
    BY <1>00, <1>1 DEF TaskInv
  <2>3. \A c \in closing' : conns'[c].announced
    BY <1>1
  <2> QED
    BY <1>1, <2>1, <2>2, <2>3 DEF TaskInv
<1>2. ASSUME UNCHANGED <<tasks, conns>>, \A c \in closing' : c \in DOMAIN conns /\ conns[c].announced
      PROVE  TaskInv'
  BY <1>00, <1>2 DEF TaskInv, Queued, RegisterOnce
<1>3. CASE QuietStep \/ \E f \in FdNums : Accept(f)
  <2>1. UNCHANGED <<tasks, conns, closing>>
    BY <1>3, QuietUnchanged DEF Accept, loopVars
  <2> QED
    BY <1>0, <1>00, <1>2, <2>1 DEF TaskInv
<1>4. CASE HandleNewConnection
  <2> DEFINE r == [fd |-> newFd, loop |-> RoundRobin, connected |-> TRUE,
                   announced |-> FALSE, closes |-> 0]
  <2> PICK n \in Nat : n = Len(conns) + 1
    BY <1>0
  <2>1. /\ conns' = Append(conns, r) /\ closing' = closing
        /\ tasks' = [tasks EXCEPT ![1] = Append(tasks[1], RegisterOf(n))]
        /\ 1 \in Loops
    BY <1>4, ServerAssumption DEF HandleNewConnection, RoundRobin, RegisterOf, Loops
  <2>2. r.loop = 1 /\ ~r.announced /\ r.connected
    BY DEF RoundRobin
  <2> HIDE DEF r
  <2>3. /\ DOMAIN conns' = 1 .. n
        /\ \A c \in 1 .. Len(conns) : conns'[c] = conns[c]
        /\ conns'[n] = r
    <3>1. conns \in Seq(Connections \cup {r}) /\ r \in Connections \cup {r}
      BY TaskTypes, SeqMonotonic
    <3>2. conns' \in Seq(Connections \cup {r})
      BY <2>1, <3>1, AppendElements
    <3> QED
      BY <2>1, <3>1, <3>2, AppendElements, LenProperties
  <2>4. /\ \A v \in Loops : v # 1 => tasks'[v] = tasks[v]
        /\ \A v \in Loops : \A u : Queued(v, u)' <=> Queued(v, u) \/ (v = 1 /\ u = RegisterOf(n))
    BY <2>1, AppendQueue
  <2>5. \A w \in Loops : ~Queued(w, RegisterOf(n)) /\ ~Queued(w, CloseOf(n))
    <3> TAKE w \in Loops
    <3>1. \A i \in 1 .. Len(tasks[w]) :
            tasks[w][i].op # "closeall" => tasks[w][i].c \in DOMAIN conns
      BY TaskTypes
    <3>2. n \notin DOMAIN conns
      BY <1>0
    <3> QED
      BY <3>1, <3>2 DEF Queued, RegisterOf, CloseOf
  <2>6. ASSUME NEW w \in Loops PROVE RegisterOnce(w)'
    <3>1. CASE w = 1
      <4>1. RegisterOnce(1)
        BY <1>00, <2>1 DEF TaskInv
      <4>2. ~Queued(1, RegisterOf(n))
        BY <2>1, <2>5
      <4>3. RegisterOnce(1)'
        BY <2>1, <4>1, <4>2, AppendRegisterOnce
      <4> QED
        BY <3>1, <4>3
    <3>2. CASE w # 1
      BY <1>00, <2>4, <3>2 DEF TaskInv, RegisterOnce
    <3> QED
      BY <3>1, <3>2
  <2>7. \A c \in DOMAIN conns' : ~conns'[c].announced =>
          conns'[c].connected /\ Queued(conns[c].loop, RegisterOf(c))'
    <3> TAKE c \in DOMAIN conns'
    <3> HAVE ~conns'[c].announced
    <3>1. CASE c = n
      <4>1. Queued(1, RegisterOf(n))'
        BY <2>1, <2>4
      <4> QED
        BY <2>2, <2>3, <3>1, <4>1
    <3>2. CASE c # n
      <4>1. c \in DOMAIN conns /\ conns'[c] = conns[c]
        BY <1>0, <2>3, <3>2
      <4> PICK w \in Loops : w = conns[c].loop
        BY <1>0, <4>1
      <4>2. conns[c].connected /\ Queued(w, RegisterOf(c))
        BY <1>00, <4>1 DEF TaskInv
      <4>3. Queued(w, RegisterOf(c))'
        BY <2>4, <4>2
      <4> QED
        BY <4>1, <4>2, <4>3
    <3> QED
      BY <3>1, <3>2
  <2>8. ASSUME NEW w \in Loops, NEW c \in DOMAIN conns'
        PROVE  /\ Queued(w, RegisterOf(c))' => conns'[c].loop = w /\ ~conns'[c].announced
               /\ Queued(w, CloseOf(c))' => conns'[c].loop = w /\ conns'[c].announced
    <3>1. CASE c = n
      BY <2>2, <2>3, <2>4, <2>5, <3>1, TaskTags
    <3>2. CASE c # n
      <4>1. c \in DOMAIN conns /\ conns'[c] = conns[c]
        BY <1>0, <2>3, <3>2
      <4>2. /\ Queued(w, RegisterOf(c))' <=> Queued(w, RegisterOf(c))
            /\ Queued(w, CloseOf(c))' <=> Queued(w, CloseOf(c))
        BY <2>4, <3>2, TaskTags
      <4> QED
        BY <1>00, <4>1, <4>2 DEF TaskInv
    <3> QED
      BY <3>1, <3>2
  <2>9. \A c \in closing' : conns'[c].announced
    BY <1>0, <1>00, <2>1, <2>3 DEF TaskInv
  <2> QED
    BY <2>6, <2>7, <2>8, <2>9 DEF TaskInv
(* The first task leaves, and closes of announced connections come behind.  *)
<1>5. ASSUME NEW w \in Loops, NEW more \in Seq(Tasks(conns)), tasks[w] # <<>>, PopTask(w, more),
             \A i \in 1 .. Len(more) : \E c \in DOMAIN conns :
               more[i] = CloseOf(c) /\ conns[c].loop = w /\ conns[c].announced,
             DOMAIN conns' = DOMAIN conns, closing' = closing,
             \A c \in DOMAIN conns :
               /\ conns'[c].loop = conns[c].loop
               /\ conns'[c].announced <=> conns[c].announced \/ tasks[w][1] = RegisterOf(c)
               /\ ~conns[c].announced => conns'[c].connected = conns[c].connected
      PROVE  TaskInv'
  <2>1. \A i \in 1 .. Len(more) : more[i].op = "close"
    BY <1>5, TaskTags
  <2>2. /\ RegisterOnce(w)'
        /\ \A u : Queued(w, u)' => Queued(w, u) \/ \E i \in 1 .. Len(more) : more[i] = u
        /\ \A u : Queued(w, u) /\ u # tasks[w][1] => Queued(w, u)'
        /\ \A u : u = tasks[w][1] /\ u.op = "register" => ~Queued(w, u)'
    BY <1>00, <1>5, <2>1, PopRegisterOnce DEF TaskInv
  <2>3. \A v \in Loops : v # w => /\ \A u : Queued(v, u)' <=> Queued(v, u)
                                  /\ tasks'[v] = tasks[v]
    BY <1>5, PopQueue
  <2>4. ASSUME NEW c \in DOMAIN conns, NEW v \in Loops, Queued(v, CloseOf(c))'
        PROVE  conns'[c].loop = v /\ conns'[c].announced
    <3>1. CASE Queued(v, CloseOf(c))
      BY <1>00, <1>5, <3>1 DEF TaskInv
    <3>2. CASE v = w /\ \E i \in 1 .. Len(more) : more[i] = CloseOf(c)
      BY <1>5, <3>2, TaskTags
    <3> QED
      BY <2>2, <2>3, <2>4, <3>1, <3>2
  <2>5. ASSUME NEW c \in DOMAIN conns, NEW v \in Loops, Queued(v, RegisterOf(c))'
        PROVE  conns'[c].loop = v /\ ~conns'[c].announced
    <3>1. ~\E i \in 1 .. Len(more) : more[i] = RegisterOf(c)
      BY <2>1, TaskTags
    <3>2. Queued(v, RegisterOf(c))
      BY <2>2, <2>3, <2>5, <3>1
    <3>3. conns[c].loop = v /\ ~conns[c].announced
      BY <1>00, <3>2 DEF TaskInv
    <3>4. tasks[w][1] # RegisterOf(c)
      <4>1. CASE v = w
        BY <2>2, <2>5, <4>1, TaskTags
      <4>2. CASE v # w
        <5>1. ~Queued(w, RegisterOf(c))
          BY <1>00, <3>3, <4>2 DEF TaskInv
        <5>2. 1 \in 1 .. Len(tasks[w])
          BY <1>5, TaskTypes, EmptySeq
        <5> QED
          BY <5>1, <5>2 DEF Queued
      <4> QED
        BY <4>1, <4>2
    <3> QED
      BY <1>5, <3>3, <3>4
  <2>6. ASSUME NEW c \in DOMAIN conns, ~conns'[c].announced
        PROVE  conns'[c].connected /\ Queued(conns[c].loop, RegisterOf(c))'
    <3>1. ~conns[c].announced /\ tasks[w][1] # RegisterOf(c)
      BY <1>5, <2>6
    <3> PICK v \in Loops : v = conns[c].loop
      BY <1>0
    <3>2. conns[c].connected /\ Queued(v, RegisterOf(c))
      BY <1>00, <3>1 DEF TaskInv
    <3>3. Queued(v, RegisterOf(c))'
      BY <2>2, <2>3, <3>1, <3>2
    <3> QED
      BY <1>5, <3>1, <3>2, <3>3
  <2>7. \A c \in closing : conns'[c].announced
    BY <1>0, <1>00, <1>5 DEF TaskInv
  <2>8. \A v \in Loops : RegisterOnce(v)'
    <3> TAKE v \in Loops
    <3>1. CASE v # w
      BY <1>00, <2>3, <3>1 DEF TaskInv, RegisterOnce
    <3> QED
      BY <2>2, <3>1
  <2> QED
    BY <1>5, <2>4, <2>5, <2>6, <2>7, <2>8 DEF TaskInv
<1>6. ASSUME NEW w \in Loops, RunRegister(w) PROVE TaskInv'
  <2>1. PICK c \in DOMAIN conns : /\ tasks[w] # <<>> /\ tasks[w][1] = RegisterOf(c)
                                  /\ Head(tasks[w]) = tasks[w][1]
                                  /\ Queued(w, RegisterOf(c)) /\ PopTask(w, <<>>)
    BY <1>6, RunHead
  <2>2. conns' = [conns EXCEPT ![c].announced = TRUE] /\ closing' = closing
    <3>1. Head(tasks[w]).c = c
      BY <2>1 DEF RegisterOf
    <3> QED
      BY <1>6, <3>1 DEF RunRegister
  <2>3. DOMAIN conns' = DOMAIN conns
    BY <2>2, RegisterUpdatesConns
  <2>4. ASSUME NEW d \in DOMAIN conns
        PROVE  /\ conns'[d].loop = conns[d].loop /\ conns'[d].connected = conns[d].connected
               /\ conns'[d].announced <=> conns[d].announced \/ d = c
    BY <2>2, RegisterUpdatesConns
  <2>5. <<>> \in Seq(Tasks(conns)) /\ Len(<<>>) = 0
    BY EmptySeq
  <2>6. \A d \in DOMAIN conns : d = c <=> tasks[w][1] = RegisterOf(d)
    BY <2>1, TaskTags
  <2>7. \A i \in 1 .. Len(<<>>) : \E d \in DOMAIN conns :
          <<>>[i] = CloseOf(d) /\ conns[d].loop = w /\ conns[d].announced
    BY <2>5
  <2> QED
    BY <1>5, <2>1, <2>2, <2>3, <2>4, <2>5, <2>6, <2>7
<1>7. ASSUME NEW w \in Loops, RunClose(w) \/ \E f \in FdNums : CloseEvent(w, f)
      PROVE  TaskInv'
  <2>1. PICK c \in DOMAIN conns :
          /\ HandleClose(w, c) /\ conns[c].announced
          /\ RunClose(w) => /\ tasks[w] # <<>> /\ tasks[w][1] = CloseOf(c)
                            /\ PopTask(w, <<>>)
    BY <1>7, CloseOfOwn
  <2>2. /\ DOMAIN conns' = DOMAIN conns
        /\ \A d \in DOMAIN conns : /\ conns'[d].loop = conns[d].loop
                                   /\ conns'[d].announced = conns[d].announced
                                   /\ ~conns[d].announced =>
                                        conns'[d].connected = conns[d].connected
    <3>1. CASE ~conns[c].connected
      BY <2>1, <3>1, HandleCloseMaps
    <3>2. CASE conns[c].connected
      <4>1. conns' = [conns EXCEPT ![c].connected = FALSE, ![c].closes = @ + 1]
        BY <2>1, <3>2, HandleCloseMaps
      <4>2. /\ DOMAIN conns' = DOMAIN conns
            /\ \A d \in DOMAIN conns : d # c => conns'[d] = conns[d]
            /\ conns'[c] = [fd |-> conns[c].fd, loop |-> conns[c].loop,
                            connected |-> FALSE, announced |-> conns[c].announced,
                            closes |-> conns[c].closes + 1]
        BY <4>1, CloseUpdatesConns
      <4>3. conns'[c].loop = conns[c].loop /\ conns'[c].announced = conns[c].announced
        BY <4>2
      <4> QED
        BY <2>1, <4>2, <4>3
    <3> QED
      BY <3>1, <3>2
  <2>3. CASE RunClose(w)
    <3>1. closing' = closing
      BY <2>3 DEF RunClose
    <3>2. <<>> \in Seq(Tasks(conns)) /\ Len(<<>>) = 0
      BY EmptySeq
    <3>3. \A i \in 1 .. Len(<<>>) : \E d \in DOMAIN conns :
            <<>>[i] = CloseOf(d) /\ conns[d].loop = w /\ conns[d].announced
      BY <3>2
    <3>4. \A d \in DOMAIN conns : tasks[w][1] # RegisterOf(d)
      BY <2>1, <2>3, TaskTags
    <3>5. \A d \in DOMAIN conns : conns[d].announced \in BOOLEAN /\ conns'[d].announced \in BOOLEAN
      BY <1>0, <2>2 DEF Connections
    <3> QED
      BY <1>5, <2>1, <2>2, <2>3, <3>1, <3>2, <3>3, <3>4, <3>5
  <2>4. CASE \E f \in FdNums : CloseEvent(w, f)
    <3>1. UNCHANGED <<tasks, closing>>
      BY <2>4 DEF CloseEvent
    <3>2. \A v \in Loops : RegisterOnce(v)'
      BY <1>00, <3>1 DEF TaskInv, RegisterOnce
    <3>3. \A v \in Loops : \A d \in DOMAIN conns :
            /\ Queued(v, RegisterOf(d))' <=> Queued(v, RegisterOf(d))
            /\ Queued(v, CloseOf(d))' <=> Queued(v, CloseOf(d))
      BY <3>1 DEF Queued
    <3>4. \A d \in closing' : d \in DOMAIN conns /\ conns[d].announced
      BY <1>0, <1>00, <3>1 DEF TaskInv
    <3> QED
      BY <1>1, <2>2, <3>2, <3>3, <3>4
  <2> QED
    BY <1>7, <2>3, <2>4
<1>8. ASSUME NEW w \in Loops, RunCloseAll(w) PROVE TaskInv'
  <2>1. tasks[w] # <<>> /\ tasks[w][1] = CloseAll
    BY <1>8, RunHead
  <2>2. PICK more \in Seq(Tasks(conns)) :
          /\ PopTask(w, more)
          /\ \A i \in 1 .. Len(more) : \E f \in DOMAIN sockets[w] :
               more[i] = CloseOf(sockets[w][f])
    BY <1>8, CloseAllEffect
  <2>3. ASSUME NEW f \in DOMAIN sockets[w]
        PROVE  /\ sockets[w][f] \in DOMAIN conns
               /\ conns[sockets[w][f]].loop = w /\ conns[sockets[w][f]].announced
    <3>1. sockets[w][f] \in DOMAIN conns
      BY SocketTypes
    <3>2. /\ conns[sockets[w][f]].loop = w
          /\ owner[f] = sockets[w][f] /\ f \in watched[w]
      BY DEF ConnInv, SocketInv, EventsReachOwner
    <3> QED
      BY <3>1, <3>2 DEF ConnInv, SocketInv
  <2>4. \A i \in 1 .. Len(more) : \E c \in DOMAIN conns :
          more[i] = CloseOf(c) /\ conns[c].loop = w /\ conns[c].announced
    BY <2>2, <2>3
  <2>5. conns' = conns /\ closing' = closing
    BY <1>8 DEF RunCloseAll, connVars
  <2>6. \A d \in DOMAIN conns : tasks[w][1] # RegisterOf(d)
    BY <2>1, TaskTags
  <2> QED
    BY <1>5, <2>1, <2>2, <2>4, <2>5, <2>6
<1>9. ASSUME NEW c \in DOMAIN conns, CallClose(c) PROVE TaskInv'
  <2>1. UNCHANGED <<tasks, conns>> /\ closing' = closing \cup {c} /\ conns[c].announced
    BY <1>9 DEF CallClose, loopVars
  <2> QED
    BY <1>0, <1>00, <1>2, <2>1 DEF TaskInv
<1>10. ASSUME NEW c \in DOMAIN conns, QueueClose(c) PROVE TaskInv'
  <2> PICK w \in Loops : w = conns[c].loop
    BY <1>0
  <2>1. /\ tasks' = [tasks EXCEPT ![w] = Append(tasks[w], CloseOf(c))] /\ conns' = conns
        /\ closing' = closing \ {c} /\ c \in closing
    BY <1>10 DEF QueueClose, CloseOf
  <2>2. /\ \A v \in Loops : v # w => tasks'[v] = tasks[v]
        /\ \A v \in Loops : \A u : Queued(v, u)' <=> Queued(v, u) \/ (v = w /\ u = CloseOf(c))
    BY <2>1, AppendQueue
  <2>3. \A v \in Loops : RegisterOnce(v)'
    <3>1. RegisterOnce(w)'
      <4>1. RegisterOnce(w) /\ CloseOf(c).op # "register"
        BY <1>00, TaskTags DEF TaskInv
      <4> QED
        BY <2>1, <4>1, AppendRegisterOnce
    <3>2. \A v \in Loops : v # w => RegisterOnce(v)'
      BY <1>00, <2>2 DEF TaskInv, RegisterOnce
    <3> QED
      BY <3>1, <3>2
  <2>4. conns[c].announced /\ \A d \in closing' : d \in DOMAIN conns /\ conns[d].announced
    BY <1>0, <1>00, <2>1 DEF TaskInv
  <2>5. \A v \in Loops : \A d \in DOMAIN conns :
          /\ Queued(v, RegisterOf(d))' <=> Queued(v, RegisterOf(d))
          /\ Queued(v, CloseOf(d))' =>
               Queued(v, CloseOf(d)) \/ (conns[d].loop = v /\ conns[d].announced)
    BY <2>2, <2>4, TaskTags
  <2> QED
    BY <1>1, <2>1, <2>3, <2>4, <2>5
<1>11. CASE StopQueue
  <2>1. conns' = conns /\ closing' = closing
    BY <1>11 DEF StopQueue, connVars
  <2>2. CASE ~(stopPC[2] \in Loops) \/ tasks' = tasks
    <3>1. CASE tasks' = tasks
      BY <1>0, <1>00, <1>2, <2>1, <3>1 DEF TaskInv
    <3> QED
      BY <1>11, <2>2, <3>1 DEF StopQueue, TypeOK
  <2>3. CASE stopPC[2] \in Loops /\ tasks' # tasks
    <3> PICK w \in Loops : w = stopPC[2]
      BY <2>3
    <3>1. tasks' = [tasks EXCEPT ![w] = Append(tasks[w], CloseAll)]
      BY <1>11, <2>3 DEF StopQueue, CloseAll
    <3>2. /\ \A v \in Loops : v # w => tasks'[v] = tasks[v]
          /\ \A v \in Loops : \A u : Queued(v, u)' <=> Queued(v, u) \/ (v = w /\ u = CloseAll)
      BY <3>1, AppendQueue
    <3>3. \A v \in Loops : RegisterOnce(v)'
      <4>1. RegisterOnce(w)'
        <5>1. RegisterOnce(w) /\ CloseAll.op # "register"
          BY <1>00, TaskTags DEF TaskInv
        <5> QED
          BY <3>1, <5>1, AppendRegisterOnce
      <4>2. \A v \in Loops : v # w => RegisterOnce(v)'
        BY <1>00, <3>2 DEF TaskInv, RegisterOnce
      <4> QED
        BY <4>1, <4>2
    <3>4. \A v \in Loops : \A d \in DOMAIN conns :
            /\ Queued(v, RegisterOf(d))' <=> Queued(v, RegisterOf(d))
            /\ Queued(v, CloseOf(d))' <=> Queued(v, CloseOf(d))
      BY <3>2, TaskTags
    <3>5. \A d \in closing' : d \in DOMAIN conns /\ conns[d].announced
      BY <1>0, <1>00, <2>1 DEF TaskInv
    <3> QED
      BY <1>1, <2>1, <3>3, <3>4, <3>5
  <2> QED
    BY <2>2, <2>3
<1> QED
  BY <1>3, <1>4, <1>6, <1>7, <1>8, <1>9, <1>10, <1>11, StepCases
-----------------------------------------------------------------------------
(* Maps and epoll sets *)

(* The registration at the head of the queue of loop w is of connection c,  *)
(* which is open and has number f, and running it adds f to the epoll set   *)
(* and to the map.                                                          *)
Registers(w, c, f) ==
  /\ tasks[w] # <<>> /\ tasks[w][1] = RegisterOf(c) /\ PopTask(w, <<>>)
  /\ conns[c].fd = f /\ conns[c].loop = w /\ conns[c].connected
  /\ ~conns[c].announced /\ owner[f] = c /\ f \notin watched[w] /\ ~nilMap[w]
  /\ conns' = [conns EXCEPT ![c].announced = TRUE]
  /\ DOMAIN sockets'[w] = DOMAIN sockets[w] \cup {f}
  /\ \A g \in DOMAIN sockets[w] \cup {f} :
       sockets'[w][g] = IF g = f THEN c ELSE sockets[w][g]
  /\ watched'[w] = watched[w] \cup {f} /\ connCnt'[w] = connCnt[w] + 1
  /\ \A v \in Loops : v # w => /\ sockets'[v] = sockets[v]
                               /\ watched'[v] = watched[v]
                               /\ connCnt'[v] = connCnt[v]
  /\ UNCHANGED <<nilMap, owner, fatal>>

(* A registration that runs is of an open connection that owns its number,  *)
(* which the loop does not watch yet, and the map is there: so neither      *)
(* AddRead nor the store into the map ends the process.                     *)
LEMMA RegisterOfNew ==
  ASSUME TypeOK, CloseAllInv, ConnInv, NEW w \in Loops, RunRegister(w)
  PROVE  \E c \in DOMAIN conns, f \in FdNums : Registers(w, c, f)
<1>1. PICK c \in DOMAIN conns : /\ tasks[w] # <<>> /\ tasks[w][1] = RegisterOf(c)
                                /\ Head(tasks[w]) = tasks[w][1]
                                /\ Queued(w, RegisterOf(c)) /\ PopTask(w, <<>>)
  BY RunHead
<1>2. PICK f \in FdNums : f = conns[c].fd
  BY TaskTypes DEF Connections
<1>3. conns[c].loop = w /\ ~conns[c].announced /\ conns[c].connected
  BY <1>1 DEF ConnInv, TaskInv
<1>4. owner[f] = c
  BY <1>2, <1>3 DEF ConnInv, OwnerInv, ClosedExactlyOnce
<1>5. f \notin watched[w]
  BY <1>3, <1>4 DEF ConnInv, SocketInv
<1>6. ~nilMap[w]
  <2>1. 1 \in 1 .. Len(tasks[w]) /\ tasks[w][1].op = "register"
    BY <1>1, TaskTypes, EmptySeq, TaskTags
  <2> QED
    BY <2>1 DEF CloseAllInv, CloseAllLast
<1>7. Head(tasks[w]).c = c
  BY <1>1 DEF RegisterOf
<1> DEFINE t == [g \in DOMAIN sockets[w] \cup {f} |-> IF g = f THEN c ELSE sockets[w][g]]
<1>8. /\ conns' = [conns EXCEPT ![c].announced = TRUE]
      /\ sockets' = [sockets EXCEPT ![w] = t]
      /\ watched' = [watched EXCEPT ![w] = watched[w] \cup {f}]
      /\ connCnt' = [connCnt EXCEPT ![w] = connCnt[w] + 1]
      /\ UNCHANGED <<nilMap, owner>>
  BY <1>2, <1>7 DEF RunRegister
<1>9. fatal' = fatal
  BY <1>2, <1>5, <1>6, <1>7 DEF RunRegister
<1>10. DOMAIN sockets = Loops /\ DOMAIN watched = Loops /\ DOMAIN connCnt = Loops
  BY DEF TypeOK
<1>11. /\ DOMAIN t = DOMAIN sockets[w] \cup {f}
       /\ \A g \in DOMAIN sockets[w] \cup {f} : t[g] = IF g = f THEN c ELSE sockets[w][g]
  OBVIOUS
<1> HIDE DEF t
<1>12. /\ sockets'[w] = t /\ watched'[w] = watched[w] \cup {f}
       /\ connCnt'[w] = connCnt[w] + 1
       /\ \A v \in Loops : v # w => /\ sockets'[v] = sockets[v]
                                    /\ watched'[v] = watched[v]
                                    /\ connCnt'[v] = connCnt[v]
  BY <1>8, <1>10
<1>13. /\ DOMAIN sockets'[w] = DOMAIN sockets[w] \cup {f}
       /\ \A g \in DOMAIN sockets[w] \cup {f} :
            sockets'[w][g] = IF g = f THEN c ELSE sockets[w][g]
  BY <1>11, <1>12
<1>14. conns[c].fd = f /\ conns' = [conns EXCEPT ![c].announced = TRUE]
  BY <1>2, <1>8
<1>15. UNCHANGED <<nilMap, owner, fatal>>
  BY <1>8, <1>9
<1>16. Registers(w, c, f)
  BY <1>1, <1>3, <1>4, <1>5, <1>6, <1>12, <1>13, <1>14, <1>15 DEF Registers
<1> QED
  BY <1>16

(* A step keeps the map, the epoll set and the connections of each loop in  *)
(* agreement, even when a number that an old task is about is in use again. *)
LEMMA SocketStep ==
  TypeOK /\ CloseAllInv /\ ConnInv /\ [Next]_vars => SocketInv'
<1> SUFFICES ASSUME TypeOK, CloseAllInv, ConnInv, [Next]_vars PROVE SocketInv'
  OBVIOUS
<1>0. /\ Len(conns) \in Nat /\ DOMAIN conns = 1 .. Len(conns)
      /\ \A c \in DOMAIN conns : /\ conns[c] \in Connections /\ conns[c].loop \in Loops
                                 /\ conns[c].fd \in FdNums
      /\ \A w \in Loops : watched[w] \subseteq FdNums /\ DOMAIN sockets[w] \subseteq FdNums
      /\ \A w \in Loops : \A f \in DOMAIN sockets[w] : sockets[w][f] \in DOMAIN conns
      /\ owner \in [FdNums -> 0 .. MaxConns]
  <2>1. \A w \in Loops : /\ DOMAIN sockets[w] \subseteq FdNums
                         /\ \A f \in DOMAIN sockets[w] : sockets[w][f] \in DOMAIN conns
    BY SocketTypes
  <2> QED
    BY <2>1, TaskTypes DEF TypeOK, Connections
<1>00. /\ SocketInv /\ EventsReachOwner /\ OwnerInv /\ ClosedExactlyOnce
  BY DEF ConnInv, OwnerInv, SocketInv
<1>1. ASSUME UNCHANGED <<sockets, watched, conns, owner, nilMap>>,
             \A w \in Loops : \A c \in DOMAIN conns :
               Queued(w, CloseOf(c)) => Queued(w, CloseOf(c))'
      PROVE  SocketInv'
  <2>1. EventsReachOwner'
    BY <1>00, <1>1 DEF EventsReachOwner
  <2>2. \A c \in DOMAIN conns : conns[c].connected /\ conns[c].announced =>
          /\ conns[c].fd \in watched[conns[c].loop]
          /\ nilMap[conns[c].loop] => Queued(conns[c].loop, CloseOf(c))'
    <3> TAKE c \in DOMAIN conns
    <3> HAVE conns[c].connected /\ conns[c].announced
    <3> PICK w \in Loops : w = conns[c].loop
      BY <1>0
    <3>1. conns[c].fd \in watched[w] /\ (nilMap[w] => Queued(w, CloseOf(c)))
      BY <1>00 DEF SocketInv
    <3>2. nilMap[w] => Queued(w, CloseOf(c))'
      BY <1>1, <3>1
    <3> QED
      BY <1>1, <3>1, <3>2
  <2> QED
    BY <1>00, <1>1, <2>1, <2>2 DEF SocketInv
<1>2. CASE QuietStep
  BY <1>1, <1>2, QuietUnchanged DEF Queued
<1>3. ASSUME NEW f \in FdNums, Accept(f) PROVE SocketInv'
  <2>1. /\ owner[f] = 0 /\ owner' = [owner EXCEPT ![f] = Len(conns) + 1]
        /\ UNCHANGED <<conns, sockets, watched, nilMap, tasks>>
    BY <1>3 DEF Accept, loopVars
  <2>2. \A w \in Loops : f \notin watched[w] /\ f \notin DOMAIN sockets[w]
    BY <1>0, <1>00, <2>1 DEF SocketInv, EventsReachOwner
  <2>3. \A g \in FdNums : g # f => owner'[g] = owner[g]
    BY <1>0, <2>1
  <2>4. EventsReachOwner'
    BY <1>0, <1>00, <2>1, <2>2, <2>3 DEF EventsReachOwner
  <2>5. \A w \in Loops : \A g \in watched[w] :
          /\ owner'[g] \in DOMAIN conns
          /\ conns[owner'[g]].loop = w /\ conns[owner'[g]].announced
          /\ nilMap[w] \/ g \in DOMAIN sockets[w]
    BY <1>0, <1>00, <2>2, <2>3 DEF SocketInv
  <2>6. \A c \in DOMAIN conns : Queued(conns[c].loop, CloseOf(c))' <=> Queued(conns[c].loop, CloseOf(c))
    BY <2>1 DEF Queued
  <2> QED
    BY <1>00, <2>1, <2>4, <2>5, <2>6 DEF SocketInv
<1>4. CASE HandleNewConnection
  <2> DEFINE r == [fd |-> newFd, loop |-> RoundRobin, connected |-> TRUE,
                   announced |-> FALSE, closes |-> 0]
  <2> PICK n \in Nat : n = Len(conns) + 1
    BY <1>0
  <2>1. /\ conns' = Append(conns, r) /\ UNCHANGED <<owner, watched, sockets, nilMap>>
        /\ tasks' = [tasks EXCEPT ![1] = Append(tasks[1], RegisterOf(n))] /\ 1 \in Loops
    BY <1>4, ServerAssumption DEF HandleNewConnection, RoundRobin, RegisterOf, Loops
  <2>2. ~r.announced
    OBVIOUS
  <2> HIDE DEF r
  <2>3. /\ DOMAIN conns' = 1 .. n
        /\ \A c \in 1 .. Len(conns) : conns'[c] = conns[c]
        /\ conns'[n] = r
    <3>1. conns \in Seq(Connections \cup {r}) /\ r \in Connections \cup {r}
      BY TaskTypes, SeqMonotonic
    <3>2. conns' \in Seq(Connections \cup {r})
      BY <2>1, <3>1, AppendElements
    <3> QED
      BY <2>1, <3>1, <3>2, AppendElements, LenProperties
  <2>4. \A v \in Loops : \A u : Queued(v, u) => Queued(v, u)'
    BY <2>1, AppendQueue
  <2>5. EventsReachOwner'
    BY <1>0, <1>00, <2>1, <2>3 DEF EventsReachOwner
  <2>6. \A w \in Loops : \A g \in watched[w] :
          /\ owner[g] \in DOMAIN conns'
          /\ conns'[owner[g]].loop = w /\ conns'[owner[g]].announced
          /\ nilMap[w] \/ g \in DOMAIN sockets[w]
    BY <1>0, <1>00, <2>3 DEF SocketInv
  <2>7. \A c \in DOMAIN conns' : conns'[c].connected /\ conns'[c].announced =>
          /\ conns'[c].fd \in watched[conns'[c].loop]
          /\ nilMap[conns'[c].loop] => Queued(conns[c].loop, CloseOf(c))'
    <3> TAKE c \in DOMAIN conns'
    <3> HAVE conns'[c].connected /\ conns'[c].announced
    <3>1. c \in DOMAIN conns /\ conns'[c] = conns[c]
      BY <1>0, <2>2, <2>3
    <3> PICK w \in Loops : w = conns[c].loop
      BY <1>0, <3>1
    <3>2. conns[c].fd \in watched[w] /\ (nilMap[w] => Queued(w, CloseOf(c)))
      BY <1>00, <3>1 DEF SocketInv
    <3>3. nilMap[w] => Queued(w, CloseOf(c))'
      BY <2>4, <3>2
    <3> QED
      BY <3>1, <3>2, <3>3
  <2> QED
    BY <2>1, <2>5, <2>6, <2>7 DEF SocketInv
<1>5. ASSUME NEW w \in Loops, RunClose(w) \/ \E f \in FdNums : CloseEvent(w, f)
      PROVE  SocketInv'
  <2>1. PICK c \in DOMAIN conns :
          /\ HandleClose(w, c)
          /\ conns[c].loop = w /\ conns[c].announced
          /\ RunClose(w) => /\ tasks[w] # <<>> /\ tasks[w][1] = CloseOf(c)
                            /\ PopTask(w, <<>>)
          /\ conns[c].connected => /\ owner[conns[c].fd] = c
                                   /\ conns[c].fd \in watched[w]
    BY <1>5, CloseOfOwn
  <2>2. nilMap' = nilMap
    BY <1>5 DEF RunClose, CloseEvent
  <2>3. \A v \in Loops : \A u : Queued(v, u) /\ u # CloseOf(c) => Queued(v, u)'
    <3>1. CASE RunClose(w)
      <4>1. <<>> \in Seq(Tasks(conns)) /\ Len(<<>>) = 0 /\ RegisterOnce(w)
        BY EmptySeq DEF ConnInv, TaskInv
      <4>2. \A i \in 1 .. Len(<<>>) : <<>>[i].op = "close"
        BY <4>1
      <4>3. \A u : Queued(w, u) /\ u # tasks[w][1] => Queued(w, u)'
        BY <2>1, <3>1, <4>1, <4>2, PopRegisterOnce
      <4>4. \A v \in Loops : v # w => \A u : Queued(v, u)' <=> Queued(v, u)
        BY <2>1, <3>1, <4>1, PopQueue
      <4> QED
        BY <2>1, <3>1, <4>3, <4>4
    <3>2. CASE \E f \in FdNums : CloseEvent(w, f)
      BY <3>2 DEF CloseEvent, Queued
    <3> QED
      BY <1>5, <3>1, <3>2
  <2>4. CASE conns[c].connected
    <3> PICK f \in FdNums : f = conns[c].fd
      BY <1>0
    <3>1. /\ \A v \in Loops : v # w => sockets'[v] = sockets[v] /\ watched'[v] = watched[v]
          /\ DOMAIN sockets'[w] = DOMAIN sockets[w] \ {f}
          /\ \A g \in DOMAIN sockets[w] \ {f} : sockets'[w][g] = sockets[w][g]
          /\ watched'[w] = watched[w] \ {f}
          /\ owner' = [owner EXCEPT ![f] = 0]
          /\ conns' = [conns EXCEPT ![c].connected = FALSE, ![c].closes = @ + 1]
      <4>1. HandleClose(w, c)
        BY <2>1
      <4> QED
        BY <2>4, <4>1, HandleCloseMaps
    <3>2. /\ DOMAIN conns' = DOMAIN conns
          /\ \A d \in DOMAIN conns : d # c => conns'[d] = conns[d]
          /\ ~conns'[c].connected /\ conns'[c].loop = w /\ conns'[c].announced
      <4>1. /\ DOMAIN conns' = DOMAIN conns
            /\ \A d \in DOMAIN conns : d # c => conns'[d] = conns[d]
            /\ conns'[c] = [fd |-> conns[c].fd, loop |-> conns[c].loop,
                            connected |-> FALSE, announced |-> conns[c].announced,
                            closes |-> conns[c].closes + 1]
        BY <3>1, CloseUpdatesConns
      <4> QED
        BY <2>1, <4>1
    <3>3. owner[f] = c /\ \A g \in FdNums : g # f => owner'[g] = owner[g]
      BY <1>0, <2>1, <2>4, <3>1
    <3>4. ASSUME NEW v \in Loops, NEW g \in DOMAIN sockets'[v]
          PROVE  /\ g \in DOMAIN sockets[v] /\ sockets'[v][g] = sockets[v][g]
                 /\ sockets[v][g] # c /\ g # f /\ g \in watched'[v]
      <4>1. g \in DOMAIN sockets[v] /\ sockets'[v][g] = sockets[v][g] /\ (v = w => g # f)
        BY <3>1, <3>4
      <4>2. /\ conns[sockets[v][g]].fd = g /\ conns[sockets[v][g]].loop = v
            /\ owner[g] = sockets[v][g] /\ g \in watched[v]
        BY <1>00, <4>1 DEF EventsReachOwner
      <4>3. sockets[v][g] # c
        BY <2>1, <4>1, <4>2
      <4> QED
        BY <3>1, <3>3, <4>1, <4>2, <4>3
    <3>5. EventsReachOwner'
      BY <1>0, <1>00, <3>2, <3>3, <3>4 DEF EventsReachOwner
    <3>6. ASSUME NEW v \in Loops, NEW g \in watched'[v]
          PROVE  /\ owner'[g] \in DOMAIN conns'
                 /\ conns'[owner'[g]].loop = v /\ conns'[owner'[g]].announced
                 /\ nilMap'[v] \/ g \in DOMAIN sockets'[v]
      <4>1. g \in watched[v] /\ (v = w => g # f)
        BY <3>1, <3>6
      <4>2. /\ owner[g] \in DOMAIN conns /\ conns[owner[g]].loop = v
            /\ conns[owner[g]].announced /\ (nilMap[v] \/ g \in DOMAIN sockets[v])
        BY <1>00, <4>1 DEF SocketInv
      <4>3. g # f /\ g \in FdNums
        BY <1>0, <2>1, <3>3, <4>1, <4>2
      <4>4. g \in DOMAIN sockets[v] => g \in DOMAIN sockets'[v]
        BY <3>1, <4>3
      <4> QED
        BY <2>1, <2>2, <3>2, <3>3, <4>2, <4>3, <4>4
    <3>7. ASSUME NEW d \in DOMAIN conns', conns'[d].connected, conns'[d].announced
          PROVE  /\ conns'[d].fd \in watched'[conns'[d].loop]
                 /\ nilMap'[conns'[d].loop] => Queued(conns[d].loop, CloseOf(d))'
      <4>1. d \in DOMAIN conns /\ d # c /\ conns'[d] = conns[d]
        BY <3>2, <3>7
      <4> PICK v \in Loops : v = conns[d].loop
        BY <1>0, <4>1
      <4>2. conns[d].fd \in watched[v] /\ (nilMap[v] => Queued(v, CloseOf(d)))
        BY <1>00, <3>7, <4>1 DEF SocketInv
      <4>3. conns[d].fd # f
        BY <1>00, <3>3, <3>7, <4>1 DEF ClosedExactlyOnce
      <4>4. conns[d].fd \in watched'[v]
        BY <3>1, <4>2, <4>3
      <4>5. nilMap[v] => Queued(v, CloseOf(d))'
        BY <2>3, <4>1, <4>2, TaskTags
      <4> QED
        BY <2>2, <4>1, <4>4, <4>5
    <3> QED
      BY <3>5, <3>6, <3>7 DEF SocketInv
  <2>5. CASE ~conns[c].connected
    <3>1. UNCHANGED <<conns, watched, sockets, owner>>
      BY <2>1, <2>5, HandleCloseMaps
    <3>2. ASSUME NEW d \in DOMAIN conns', conns'[d].connected, conns'[d].announced
          PROVE  /\ conns'[d].fd \in watched'[conns'[d].loop]
                 /\ nilMap'[conns'[d].loop] => Queued(conns[d].loop, CloseOf(d))'
      <4> PICK v \in Loops : v = conns[d].loop
        BY <1>0, <3>1
      <4>1. d # c /\ conns[d].fd \in watched[v] /\ (nilMap[v] => Queued(v, CloseOf(d)))
        BY <1>00, <2>5, <3>1, <3>2 DEF SocketInv
      <4>2. nilMap[v] => Queued(v, CloseOf(d))'
        BY <2>3, <4>1, TaskTags
      <4> QED
        BY <2>2, <3>1, <4>1, <4>2
    <3>3. EventsReachOwner'
      BY <1>00, <3>1 DEF EventsReachOwner
    <3> QED
      BY <1>00, <2>2, <3>1, <3>2, <3>3 DEF SocketInv
  <2> QED
    BY <2>4, <2>5
<1>6. ASSUME NEW w \in Loops, RunRegister(w) PROVE SocketInv'
  <2>0. PICK c \in DOMAIN conns, f \in FdNums : Registers(w, c, f)
    BY <1>6, RegisterOfNew
  <2>1.    /\ tasks[w] # <<>> /\ tasks[w][1] = RegisterOf(c) /\ PopTask(w, <<>>)
           /\ conns[c].fd = f /\ conns[c].loop = w /\ conns[c].connected
           /\ ~conns[c].announced /\ owner[f] = c /\ f \notin watched[w] /\ ~nilMap[w]
           /\ conns' = [conns EXCEPT ![c].announced = TRUE]
           /\ DOMAIN sockets'[w] = DOMAIN sockets[w] \cup {f}
           /\ \A g \in DOMAIN sockets[w] \cup {f} :
                sockets'[w][g] = IF g = f THEN c ELSE sockets[w][g]
           /\ watched'[w] = watched[w] \cup {f}
           /\ \A v \in Loops : v # w => sockets'[v] = sockets[v] /\ watched'[v] = watched[v]
           /\ UNCHANGED <<nilMap, owner>>
    BY <2>0 DEF Registers
  <2>2. /\ DOMAIN conns' = DOMAIN conns
        /\ \A d \in DOMAIN conns : d # c => conns'[d] = conns[d]
        /\ conns'[c].fd = f /\ conns'[c].loop = w /\ conns'[c].connected /\ conns'[c].announced
    <3>1. /\ DOMAIN conns' = DOMAIN conns
          /\ \A d \in DOMAIN conns : d # c => conns'[d] = conns[d]
          /\ conns'[c] = [fd |-> conns[c].fd, loop |-> conns[c].loop,
                          connected |-> conns[c].connected, announced |-> TRUE,
                          closes |-> conns[c].closes]
      BY <2>1, RegisterUpdatesConns
    <3> QED
      BY <2>1, <3>1
  <2>3. \A v \in Loops : \A u : Queued(v, u) /\ u # RegisterOf(c) => Queued(v, u)'
    <3>1. <<>> \in Seq(Tasks(conns)) /\ Len(<<>>) = 0 /\ RegisterOnce(w)
      BY EmptySeq DEF ConnInv, TaskInv
    <3>2. \A i \in 1 .. Len(<<>>) : <<>>[i].op = "close"
      BY <3>1
    <3>3. \A u : Queued(w, u) /\ u # tasks[w][1] => Queued(w, u)'
      BY <2>1, <3>1, <3>2, PopRegisterOnce
    <3>4. \A v \in Loops : v # w => \A u : Queued(v, u)' <=> Queued(v, u)
      BY <2>1, <3>1, PopQueue
    <3> QED
      BY <2>1, <3>3, <3>4
  <2>4. ASSUME NEW v \in Loops, NEW g \in DOMAIN sockets'[v]
        PROVE  LET d == sockets'[v][g]
               IN /\ conns'[d].connected /\ conns'[d].fd = g /\ conns'[d].loop = v
                  /\ owner[g] = d /\ g \in watched'[v]
    <3>1. CASE v = w /\ g = f
      BY <2>1, <2>2, <3>1
    <3>2. CASE ~(v = w /\ g = f)
      <4>1. /\ g \in DOMAIN sockets[v] /\ sockets'[v][g] = sockets[v][g]
        BY <2>1, <2>4, <3>2
      <4>2. /\ conns[sockets[v][g]].connected /\ conns[sockets[v][g]].fd = g
            /\ conns[sockets[v][g]].loop = v
            /\ owner[g] = sockets[v][g] /\ g \in watched[v]
        BY <1>00, <4>1 DEF EventsReachOwner
      <4>3. g \in watched'[v] /\ sockets[v][g] \in DOMAIN conns
        BY <1>0, <2>1, <4>1, <4>2
      <4>4. conns'[sockets[v][g]] = conns[sockets[v][g]]
        <5>1. conns[sockets[v][g]].announced
          BY <1>00, <4>2 DEF SocketInv
        <5> QED
          BY <2>1, <2>2, <4>3, <5>1
      <4> QED
        BY <4>1, <4>2, <4>3, <4>4
    <3> QED
      BY <3>1, <3>2
  <2>5. EventsReachOwner'
    BY <2>1, <2>4 DEF EventsReachOwner
  <2>6. ASSUME NEW v \in Loops, NEW g \in watched'[v]
        PROVE  /\ owner[g] \in DOMAIN conns'
               /\ conns'[owner[g]].loop = v /\ conns'[owner[g]].announced
               /\ nilMap[v] \/ g \in DOMAIN sockets'[v]
    <3>1. CASE v = w /\ g = f
      BY <2>1, <2>2, <3>1
    <3>2. CASE ~(v = w /\ g = f)
      <4>1. g \in watched[v]
        BY <2>1, <2>6, <3>2
      <4>2. /\ owner[g] \in DOMAIN conns /\ conns[owner[g]].loop = v
            /\ conns[owner[g]].announced /\ (nilMap[v] \/ g \in DOMAIN sockets[v])
        BY <1>00, <4>1 DEF SocketInv
      <4> QED
        BY <2>1, <2>2, <4>2
    <3> QED
      BY <3>1, <3>2
  <2>7. ASSUME NEW d \in DOMAIN conns', conns'[d].connected, conns'[d].announced
        PROVE  /\ conns'[d].fd \in watched'[conns'[d].loop]
               /\ nilMap[conns'[d].loop] => Queued(conns[d].loop, CloseOf(d))'
    <3>1. CASE d = c
      BY <2>1, <2>2, <3>1
    <3>2. CASE d # c
      <4>1. d \in DOMAIN conns /\ conns'[d] = conns[d]
        BY <2>2, <3>2
      <4> PICK v \in Loops : v = conns[d].loop
        BY <1>0, <4>1
      <4>2. conns[d].fd \in watched[v] /\ (nilMap[v] => Queued(v, CloseOf(d)))
        BY <1>00, <2>7, <4>1 DEF SocketInv
      <4>3. conns[d].fd \in watched'[v]
        BY <2>1, <4>2
      <4>4. nilMap[v] => Queued(v, CloseOf(d))'
        BY <2>3, <4>2, TaskTags
      <4> QED
        BY <4>1, <4>3, <4>4
    <3> QED
      BY <3>1, <3>2
  <2> QED
    BY <2>1, <2>5, <2>6, <2>7 DEF SocketInv
<1>7. ASSUME NEW w \in Loops, RunCloseAll(w) PROVE SocketInv'
  <2>1. tasks[w] # <<>> /\ tasks[w][1] = CloseAll
    BY <1>7, RunHead
  <2>2. PICK more \in Seq(Tasks(conns)) :
          /\ PopTask(w, more)
          /\ \A i \in 1 .. Len(more) : more[i].op = "close"
          /\ \A f \in DOMAIN sockets[w] : \E i \in 1 .. Len(more) :
               more[i] = CloseOf(sockets[w][f])
    BY <1>7, CloseAllEffect
  <2>3. UNCHANGED <<conns, owner, watched>>
    BY <1>7 DEF RunCloseAll, connVars
  <2>4. /\ DOMAIN sockets'[w] = {} /\ nilMap'[w]
        /\ \A v \in Loops : v # w => UNCHANGED <<nilMap[v], sockets[v]>>
    <3>1. /\ nilMap' = [nilMap EXCEPT ![w] = TRUE]
          /\ sockets' = [sockets EXCEPT ![w] = EmptyMap]
      BY <1>7 DEF RunCloseAll
    <3> QED
      BY <3>1 DEF TypeOK, EmptyMap
  <2>5. /\ \A u : Queued(w, u) /\ u # CloseAll => Queued(w, u)'
        /\ \A u : (\E i \in 1 .. Len(more) : more[i] = u) => Queued(w, u)'
        /\ \A v \in Loops : v # w => \A u : Queued(v, u)' <=> Queued(v, u)
    <3>1. RegisterOnce(w)
      BY DEF ConnInv, TaskInv
    <3>2. \A u : Queued(w, u) /\ u # CloseAll => Queued(w, u)'
      BY <2>1, <2>2, <3>1, PopRegisterOnce
    <3>3. /\ \A u : Queued(w, u)' <=> \/ \E i \in 2 .. Len(tasks[w]) : tasks[w][i] = u
                                      \/ \E i \in 1 .. Len(more) : more[i] = u
          /\ \A v \in Loops : v # w => \A u : Queued(v, u)' <=> Queued(v, u)
      BY <2>1, <2>2, PopQueue
    <3> QED
      BY <3>2, <3>3
  <2>6. EventsReachOwner'
    BY <1>00, <2>3, <2>4 DEF EventsReachOwner
  <2>7. \A v \in Loops : \A g \in watched[v] :
          /\ owner[g] \in DOMAIN conns
          /\ conns[owner[g]].loop = v /\ conns[owner[g]].announced
          /\ nilMap'[v] \/ g \in DOMAIN sockets'[v]
    BY <1>00, <2>4 DEF SocketInv
  <2>8. ASSUME NEW c \in DOMAIN conns, conns[c].connected, conns[c].announced
        PROVE  /\ conns[c].fd \in watched[conns[c].loop]
               /\ nilMap'[conns[c].loop] => Queued(conns[c].loop, CloseOf(c))'
    <3> PICK v \in Loops : v = conns[c].loop
      BY <1>0
    <3>1. conns[c].fd \in watched[v] /\ (nilMap[v] => Queued(v, CloseOf(c)))
      BY <1>00, <2>8 DEF SocketInv
    <3>2. CASE v # w
      BY <2>3, <2>4, <2>5, <3>1, <3>2
    <3>3. CASE v = w /\ nilMap[w]
      <4>1. Queued(w, CloseOf(c))'
        BY <2>5, <3>1, <3>3, TaskTags
      <4> QED
        BY <2>3, <3>1, <3>3, <4>1
    <3>4. CASE v = w /\ ~nilMap[w]
      <4>1. conns[c].fd \in DOMAIN sockets[w]
        BY <1>00, <3>1, <3>4 DEF SocketInv
      <4>2. sockets[w][conns[c].fd] = c
        BY <1>00, <2>8, <4>1 DEF EventsReachOwner, ClosedExactlyOnce
      <4>3. Queued(w, CloseOf(c))'
        BY <2>2, <2>5, <4>1, <4>2
      <4> QED
        BY <2>3, <3>1, <3>4, <4>3
    <3> QED
      BY <3>2, <3>3, <3>4
  <2> QED
    BY <2>3, <2>6, <2>7, <2>8 DEF SocketInv
<1>8. ASSUME NEW c \in DOMAIN conns, CallClose(c) PROVE SocketInv'
  BY <1>1, <1>8 DEF CallClose, loopVars, Queued
<1>9. ASSUME NEW c \in DOMAIN conns, QueueClose(c) PROVE SocketInv'
  <2> PICK w \in Loops : w = conns[c].loop
    BY <1>0
  <2>1. /\ tasks' = [tasks EXCEPT ![w] = Append(tasks[w], CloseOf(c))]
        /\ UNCHANGED <<sockets, watched, conns, owner, nilMap>>
    BY <1>9 DEF QueueClose, CloseOf
  <2>2. \A v \in Loops : \A u : Queued(v, u) => Queued(v, u)'
    BY <2>1, AppendQueue
  <2> QED
    BY <1>1, <2>1, <2>2
<1>10. CASE StopQueue
  <2>1. UNCHANGED <<sockets, watched, conns, owner, nilMap>>
    BY <1>10 DEF StopQueue, connVars
  <2>2. CASE tasks' = tasks
    BY <1>1, <2>1, <2>2 DEF Queued
  <2>3. CASE tasks' # tasks
    <3>1. stopPC[2] \in Loops
      BY <1>10, <2>3 DEF StopQueue, TypeOK
    <3> PICK w \in Loops : w = stopPC[2]
      BY <3>1
    <3>2. tasks' = [tasks EXCEPT ![w] = Append(tasks[w], CloseAll)]
      BY <1>10, <2>3 DEF StopQueue, CloseAll
    <3>3. \A v \in Loops : \A u : Queued(v, u) => Queued(v, u)'
      BY <3>2, AppendQueue
    <3> QED
      BY <1>1, <2>1, <3>3
  <2> QED
    BY <2>2, <2>3
<1> QED
  BY <1>2, <1>3, <1>4, <1>5, <1>6, <1>7, <1>8, <1>9, <1>10, StepCases
-----------------------------------------------------------------------------
(* The count of connections, and the ways to end the process *)

(* A step that ends a connection, registers one or runs Stop's task changes *)
(* the map of the loop and its count together.                              *)
LEMMA CountStep ==
  TypeOK /\ StopInv /\ CloseAllInv /\ ConnInv /\ CountIsExact /\ [Next]_vars
    => CountIsExact'
<1> SUFFICES ASSUME TypeOK, StopInv, CloseAllInv, ConnInv, CountIsExact, [Next]_vars,
                    NEW v \in Loops, ~StopQueued(v)'
             PROVE  connCnt'[v] = Cardinality(DOMAIN sockets'[v])
  BY DEF CountIsExact, StopQueued
<1>1. ~StopQueued(v) /\ connCnt[v] = Cardinality(DOMAIN sockets[v])
  BY StopQueuedStep DEF CountIsExact, StopQueued
<1>2. ~nilMap[v] /\ ~Queued(v, CloseAll)
  BY <1>1 DEF CloseAllInv, CloseAllLast
<1>3. /\ DOMAIN sockets[v] \subseteq FdNums /\ IsFiniteSet(DOMAIN sockets[v])
      /\ Cardinality(DOMAIN sockets[v]) \in Nat
  BY SocketTypes, FS_Subset, FS_CardinalityType, ServerAssumption
<1>4. CASE UNCHANGED <<connCnt[v], sockets[v]>>
  BY <1>1, <1>4
<1>5. CASE QuietStep \/ HandleNewConnection \/ \E f \in FdNums : Accept(f)
  <2>1. UNCHANGED <<connCnt, sockets>>
    BY <1>5, QuietUnchanged DEF HandleNewConnection, Accept, loopVars
  <2> QED
    BY <1>4, <2>1
<1>6. ASSUME NEW w \in Loops, RunClose(w) \/ \E f \in FdNums : CloseEvent(w, f)
      PROVE  connCnt'[v] = Cardinality(DOMAIN sockets'[v])
  <2>1. PICK c \in DOMAIN conns :
          /\ HandleClose(w, c) /\ conns[c].loop = w
          /\ conns[c].connected => owner[conns[c].fd] = c /\ conns[c].fd \in watched[w]
    BY <1>6, CloseOfOwn
  <2>2. CASE v # w
    <3>1. HandleClose(w, c)
      BY <2>1
    <3>2. sockets'[v] = sockets[v] /\ connCnt'[v] = connCnt[v]
      BY <2>2, <3>1, HandleCloseMaps
    <3> QED
      BY <1>4, <3>2
  <2>3. CASE v = w /\ ~conns[c].connected
    BY <1>4, <2>1, <2>3, HandleCloseMaps
  <2>4. CASE v = w /\ conns[c].connected
    <3>1. conns[c].fd \in DOMAIN sockets[v]
      BY <1>2, <2>1, <2>4 DEF ConnInv, SocketInv
    <3>2. /\ DOMAIN sockets'[v] = DOMAIN sockets[v] \ {conns[c].fd}
          /\ connCnt'[v] = connCnt[v] - 1
      BY <2>1, <2>4, HandleCloseMaps
    <3>3. Cardinality(DOMAIN sockets[v] \ {conns[c].fd}) = Cardinality(DOMAIN sockets[v]) - 1
      BY <1>3, <3>1, FS_RemoveElement
    <3> QED
      BY <1>1, <3>2, <3>3
  <2> QED
    BY <2>2, <2>3, <2>4
<1>7. ASSUME NEW w \in Loops, RunRegister(w)
      PROVE  connCnt'[v] = Cardinality(DOMAIN sockets'[v])
  <2>1. PICK c \in DOMAIN conns, f \in FdNums : Registers(w, c, f)
    BY <1>7, RegisterOfNew
  <2>2. CASE v # w
    BY <1>4, <2>1, <2>2 DEF Registers
  <2>3. CASE v = w
    <3>1. f \notin DOMAIN sockets[v]
      BY <2>1, <2>3 DEF Registers, ConnInv, SocketInv, EventsReachOwner
    <3>2. /\ DOMAIN sockets'[v] = DOMAIN sockets[v] \cup {f}
          /\ connCnt'[v] = connCnt[v] + 1
      BY <2>1, <2>3 DEF Registers
    <3> QED
      BY <1>1, <1>3, <3>1, <3>2, FS_AddElement
  <2> QED
    BY <2>2, <2>3
<1>8. ASSUME NEW w \in Loops, RunCloseAll(w)
      PROVE  connCnt'[v] = Cardinality(DOMAIN sockets'[v])
  <2>1. v # w
    BY <1>2, <1>8, RunHead
  <2>2. connCnt' = connCnt /\ sockets' = [sockets EXCEPT ![w] = EmptyMap]
    BY <1>8 DEF RunCloseAll
  <2> QED
    BY <1>4, <2>1, <2>2 DEF TypeOK
<1>9. ASSUME NEW c \in DOMAIN conns, CallClose(c) \/ QueueClose(c)
      PROVE  connCnt'[v] = Cardinality(DOMAIN sockets'[v])
  <2>1. UNCHANGED <<connCnt, sockets>>
    BY <1>9 DEF CallClose, QueueClose, loopVars
  <2> QED
    BY <1>4, <2>1
<1>10. CASE StopQueue
  <2>1. stopPC[1] = "queue" /\ sockets' = sockets
    BY <1>10 DEF StopQueue
  <2>2. stopPC[2] # v
    BY <1>10, <2>1, StopQueuedStep
  <2>3. connCnt'[v] = connCnt[v]
    BY <1>10, <2>2, StopQueuedStep DEF TypeOK
  <2> QED
    BY <1>4, <2>1, <2>3
<1> QED
  BY <1>5, <1>6, <1>7, <1>8, <1>9, <1>10, StepCases

(* The process ends only by a Close after Stop, or by a Stop that gets to a *)
(* loop before its goroutine does.                                          *)
LEMMA FatalStep ==
  TypeOK /\ StopInv /\ CloseAllInv /\ ConnInv /\ NoLoopFatal /\ [Next]_vars
    => NoLoopFatal'
<1> SUFFICES ASSUME TypeOK, StopInv, CloseAllInv, ConnInv, NoLoopFatal, [Next]_vars
             PROVE  NoLoopFatal'
  OBVIOUS
<1>1. CASE UNCHANGED vars
  <2>1. UNCHANGED <<fatal, stopPC, mainPC, loopPC>>
    BY <1>1 DEF vars, loopVars, mainVars, srvVars
  <2> QED
    BY <2>1 DEF NoLoopFatal
<1>2. CASE Next
  <2>1. fatal = "no"
    BY <1>2 DEF Next
  <2>2. ASSUME fatal' = fatal PROVE NoLoopFatal'
    BY <2>1, <2>2 DEF NoLoopFatal
  <2>3. CASE SpawnLoops \/ SetRunning \/ MainStep
    BY <2>2, <2>3 DEF SpawnLoops, SetRunning, MainStep, EnterMainPoll, Accept,
                      HandleNewConnection, MainReturns
  <2>4. ASSUME NEW w \in Loops, LoopStep(w) PROVE NoLoopFatal'
    <3>1. CASE EnterPoll(w) \/ SwapTasks(w) \/ EndRound(w)
      BY <2>2, <3>1 DEF EnterPoll, SwapTasks, EndRound
    <3>2. CASE RunClose(w) \/ \E f \in FdNums : CloseEvent(w, f)
      <4>1. PICK c \in DOMAIN conns :
              /\ HandleClose(w, c)
              /\ conns[c].connected => fatal' = fatal
        BY <3>2, CloseOfOwn
      <4>2. ~conns[c].connected => fatal' = fatal
        BY <4>1, HandleCloseMaps
      <4> QED
        BY <2>2, <4>1, <4>2
    <3>3. CASE RunRegister(w)
      BY <2>2, <3>3, RegisterOfNew DEF Registers
    <3>4. CASE RunCloseAll(w)
      <4>1. \A f \in DOMAIN sockets[w] : conns[sockets[w][f]].connected
        BY DEF ConnInv, SocketInv, EventsReachOwner
      <4>2. fatal' = fatal
        BY <3>4, <4>1 DEF RunCloseAll
      <4> QED
        BY <2>2, <4>2
    <3> QED
      BY <2>4, <3>1, <3>2, <3>3, <3>4 DEF LoopStep
  <2>5. ASSUME NEW c \in DOMAIN conns, CallClose(c) \/ QueueClose(c) PROVE NoLoopFatal'
    <3>1. CASE CallClose(c)
      BY <2>2, <3>1 DEF CallClose
    <3>2. CASE QueueClose(c)
      BY <2>1, <3>2 DEF QueueClose, NoLoopFatal
    <3> QED
      BY <2>5, <3>1, <3>2
  <2>6. CASE CallStop \/ StopQueue \/ StopJoin
    BY <2>2, <2>6 DEF CallStop, StopQueue, StopJoin
  <2>7. CASE StopClose
    <3>1. /\ stopPC[2] \in 0 .. NumLoops /\ stopPC[1] = "close"
          /\ stopPC = <<"close", stopPC[2]>>
      BY <2>7, StopPlace DEF StopClose
    <3>2. CASE IF stopPC[2] = 0 THEN mainRunning ELSE pollRunning[stopPC[2]]
      BY <2>2, <2>7, <3>2 DEF StopClose
    <3>3. CASE ~(IF stopPC[2] = 0 THEN mainRunning ELSE pollRunning[stopPC[2]])
      <4>1. fatal' = "not running" /\ UNCHANGED <<stopPC, mainPC, loopPC>>
        BY <2>7, <3>3 DEF StopClose
      <4>2. ~StopStored(stopPC[2])
        BY <3>1 DEF StopStored
      <4>3. (IF stopPC[2] = 0 THEN mainPC ELSE loopPC[stopPC[2]]) = "new"
        <5>1. CASE stopPC[2] = 0
          BY <3>3, <4>2, <5>1 DEF StopInv
        <5>2. CASE stopPC[2] # 0
          <6>1. stopPC[2] \in Loops
            BY <3>1, <5>2, ServerAssumption DEF Loops
          <6> QED
            BY <3>3, <4>2, <5>2, <6>1 DEF StopInv
        <5> QED
          BY <5>1, <5>2
      <4> QED
        BY <4>1, <4>3 DEF NoLoopFatal
    <3> QED
      BY <3>2, <3>3
  <2> QED
    BY <1>2, <2>3, <2>4, <2>5, <2>6, <2>7 DEF Next, StopStep
<1> QED
  BY <1>1, <1>2
-----------------------------------------------------------------------------
(* The theorems *)

(* ServerInv holds of every state the server can be in. *)
THEOREM ServerInvariant == Spec => []ServerInv
<1>1. Init => ServerInv
  BY ServerInit
<1>2. ServerInv /\ [Next]_vars => ServerInv'
  <2> SUFFICES ASSUME ServerInv, [Next]_vars PROVE ServerInv'
    OBVIOUS
  <2>1. /\ TypeOK /\ StopInv /\ CloseAllInv /\ OwnerInv /\ TaskInv /\ SocketInv
        /\ CountIsExact /\ NoLoopFatal /\ ConnInv
    BY DEF ServerInv, ConnInv
  <2>2. TypeOK' /\ StopInv'
    BY <2>1, TypeStep, StopStepInv
  <2>3. CloseAllInv' /\ OwnerInv' /\ TaskInv' /\ SocketInv'
    BY <2>1, CloseAllStep, OwnerStep, TaskStep, SocketStep
  <2>4. CountIsExact' /\ NoLoopFatal'
    BY <2>1, CountStep, FatalStep
  <2> QED
    BY <2>2, <2>3, <2>4 DEF ServerInv
<1> QED
  BY <1>1, <1>2, PTL DEF Spec

(* The variables of the server have their types: the tasks are about        *)
(* connections there are, and a round never has more tasks than its queue.  *)
THEOREM ServerTypes == Spec => []TypeOK
<1>1. ServerInv => TypeOK
  BY DEF ServerInv
<1> QED
  BY <1>1, ServerInvariant, PTL

(* However often a descriptor number is reused, a loop hands its events to  *)
(* the connection that owns it now, and that connection is open             *)
(* (eventloop.go, lines 72-89 and 128-133; connection.go, lines 190-207).   *)
THEOREM EventsReachOwnerAlways == Spec => []EventsReachOwner
<1>1. ServerInv => EventsReachOwner
  BY DEF ServerInv, SocketInv
<1> QED
  BY <1>1, ServerInvariant, PTL

(* OnClose runs once for a connection that has been closed, whatever loop,  *)
(* peer, Close and Stop do, and no open one loses its descriptor            *)
(* (connection.go, lines 123-132 and 190-207).                              *)
THEOREM ClosedExactlyOnceAlways == Spec => []ClosedExactlyOnce
<1>1. ServerInv => ClosedExactlyOnce
  BY DEF ServerInv, OwnerInv
<1> QED
  BY <1>1, ServerInvariant, PTL

(* ConnCnt of a loop is the number of its sockets until Stop resets it      *)
(* (eventloop.go, lines 72-89 and 113).                                     *)
THEOREM CountIsExactAlways == Spec => []CountIsExact
<1>1. ServerInv => CountIsExact
  BY DEF ServerInv
<1> QED
  BY <1>1, ServerInvariant, PTL

(* No order of registrations, closings and Stop's tasks makes a loop end    *)
(* the process (server.go, lines 84-89 and 125-139; eventloop.go, lines     *)
(* 72-115; epoll.go, lines 78-81).                                          *)
THEOREM NoLoopFatalAlways == Spec => []NoLoopFatal
<1>1. ServerInv => NoLoopFatal
  BY DEF ServerInv
<1> QED
  BY <1>1, ServerInvariant, PTL

(* A connection that Stop leaves open still has the task that would have    *)
(* registered or closed it in the queue (eventloop.go, lines 103-115;       *)
(* epoll.go, lines 178-184).                                                *)
THEOREM LeftoversQueuedAlways == Spec => []LeftoversQueued
<1>1. ServerInv => LeftoversQueued
  <2> SUFFICES ASSUME ServerInv, stopPC = <<"done">>, NEW c \in DOMAIN conns,
                      conns[c].connected
               PROVE  \E t \in Range(tasks[conns[c].loop]) :
                        \/ t.op \in {"register", "close"} /\ t.c = c
                        \/ t.op = "closeall" /\ c \in Range(sockets[conns[c].loop])
    BY DEF LeftoversQueued
  <2>0. TypeOK /\ CloseAllInv /\ OwnerInv /\ TaskInv /\ SocketInv
    BY DEF ServerInv
  <2> PICK w \in Loops : w = conns[c].loop
    BY <2>0, TaskTypes DEF Connections
  <2>1. \A u : Queued(w, u) => u \in Range(tasks[w])
    <3>1. DOMAIN tasks[w] = 1 .. Len(tasks[w])
      BY <2>0, TaskTypes, LenProperties
    <3> QED
      BY <3>1 DEF Queued, Range
  <2>2. StopQueued(w)
    BY DEF StopQueued
  <2>3. CASE ~conns[c].announced
    <3>1. Queued(w, RegisterOf(c))
      BY <2>0, <2>3 DEF TaskInv
    <3> QED
      BY <2>1, <3>1, TaskTags
  <2>4. CASE conns[c].announced /\ nilMap[w]
    <3>1. Queued(w, CloseOf(c))
      BY <2>0, <2>4 DEF SocketInv
    <3>2. CloseOf(c).op = "close" /\ CloseOf(c).c = c
      BY DEF CloseOf
    <3> QED
      BY <2>1, <3>1, <3>2
  <2>5. CASE conns[c].announced /\ ~nilMap[w]
    <3>1. Queued(w, CloseAll)
      BY <2>0, <2>2, <2>5 DEF CloseAllInv, CloseAllLast
    <3>2. owner[conns[c].fd] = c /\ conns[c].fd \in DOMAIN sockets[w]
      BY <2>0, <2>5 DEF OwnerInv, ClosedExactlyOnce, SocketInv
    <3>3. sockets[w][conns[c].fd] = c
      BY <2>0, <3>2 DEF SocketInv, EventsReachOwner
    <3>4. c \in Range(sockets[w])
      BY <3>2, <3>3 DEF Range
    <3> QED
      BY <2>1, <3>1, <3>4, TaskTags
  <2> QED
    BY <2>3, <2>4, <2>5
<1> QED
  BY <1>1, ServerInvariant, PTL

(* Once Stop has returned every loop has: no connection is accepted, opened *)
(* or closed any more (server.go, lines 125-139; epoll.go, lines 77-89).    *)
THEOREM QuietAfterStopAlways == Spec => QuietAfterStop
<1>1. ServerInv /\ [Next]_vars => [stopPC = <<"done">> => conns' = conns]_vars
  <2> SUFFICES ASSUME ServerInv, [Next]_vars, stopPC = <<"done">> PROVE conns' = conns
    OBVIOUS
  <2>1. mainPC = "returned" /\ \A w \in Loops : loopPC[w] = "returned"
    BY DEF ServerInv, StopInv, StopJoined
  <2>2. ASSUME NEW w \in Loops, \/ \E f \in FdNums : CloseEvent(w, f)
                                \/ RunRegister(w) \/ RunClose(w) \/ RunCloseAll(w)
        PROVE  FALSE
    BY <2>1, <2>2 DEF CloseEvent, RunRegister, RunClose, RunCloseAll, TaskOf
  <2>3. ~HandleNewConnection
    BY <2>1 DEF HandleNewConnection
  <2>4. CASE QuietStep
    BY <2>4, QuietUnchanged
  <2>5. CASE StopQueue \/ \E f \in FdNums : Accept(f)
    BY <2>5 DEF StopQueue, Accept, connVars
  <2>6. CASE \E c \in DOMAIN conns : CallClose(c) \/ QueueClose(c)
    BY <2>6 DEF CallClose, QueueClose
  <2> QED
    BY <2>2, <2>3, <2>4, <2>5, <2>6, StepCases
<1> QED
  BY <1>1, ServerInvariant, PTL DEF Spec, QuietAfterStop
=============================================================================
