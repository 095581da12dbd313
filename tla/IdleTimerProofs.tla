--------------------------- MODULE IdleTimerProofs ---------------------------
(***************************************************************************)
(* Proofs about IdleTimer, for every idle time, every length of a second,  *)
(* every delay of the callbacks and any number of timers and tasks.        *)
(*                                                                         *)
(* TimerInv holds in every reachable state: the first timer cannot run out *)
(* before the registration is queued unless the accepting goroutine is     *)
(* held up for idleTime (FirstTimerInv), then the registration is ahead of *)
(* every close in the loop's queue (RegisterFirstInv); activeTime is no    *)
(* more than a second older than the last event (AgeInv); one timer or     *)
(* callback at a time keeps watch over the connection (WatchInv); and a    *)
(* close of the timer that is under way has been decided, of a connection  *)
(* that was and, unless an event has come, still is idle (DecisionInv).    *)
(***************************************************************************)
EXTENDS IdleTimer, DataLemmas

(* Nothing is armed before NewConnection has got to line 69. *)
ArmInv ==
  mainPC = "arm" =>
    /\ stall = 0 /\ timer = 0
    /\ \A k \in Timers : rem[k] = NotArmed /\ cb[k].at = "no"

(* Until the registration is queued, the first timer has as much left of    *)
(* idleTime as the accepting goroutine may still be held up.                *)
FirstTimerInv ==
  mainPC # "done" /\ stall < idleTime =>
    /\ tasks = <<>> /\ loopPC = "ready" /\ connected /\ ~registered
    /\ \A k \in Timers : cb[k].at = "no" /\ (k # 1 => rem[k] = NotArmed)
    /\ mainPC # "arm" => rem[1] = idleTime - stall

(* The registration is ahead of every other task. *)
RegisterFirstInv ==
  mainPC = "done" /\ stall < idleTime /\ connected =>
    registered \/ (tasks # <<>> /\ Head(tasks) = "register")

(* activeTime has lost less than a second to truncation. *)
AgeInv == idle < idleTime => activeAge <= idle + Second - 1

(* Timer k is in the wheel, or its callback has yet to decide or to arm. *)
Running(k) == rem[k] # NotArmed \/ cb[k].at \notin {"no", "store"}

(* However handleClose, the callbacks and the wheel interleave, there are   *)
(* never two of them that would each go on to close or to arm (79-92).      *)
WatchInv ==
  /\ \A j, k \in Timers : Running(j) /\ Running(k) => j = k
  /\ \A k \in Timers : rem[k] # NotArmed => cb[k].at = "no"

(* A callback decides before it calls Close, and on an idle connection. *)
DecisionInv ==
  /\ decision = "made" => idle > idleTime - Second
  /\ decision = "none" =>
       /\ \A k \in Timers : cb[k].at \notin {"close", "queue"}
       /\ \A i \in 1 .. Len(tasks) : tasks[i] # "timeout"

(* The inductive invariant. *)
TimerInv ==
  /\ TypeOK /\ ArmInv /\ FirstTimerInv /\ RegisterFirstInv
  /\ FatalOnlyWhenStalled /\ AgeInv /\ WatchInv /\ DecisionInv
-----------------------------------------------------------------------------
(* The smaller and the larger of two numbers. *)
LEMMA MinOfTwo ==
  ASSUME NEW a \in Int, NEW b \in Int
  PROVE  Min({a, b}) = IF a <= b THEN a ELSE b
<1> DEFINE m == IF a <= b THEN a ELSE b
<1>1. m \in {a, b} /\ \A y \in {a, b} : m <= y
  OBVIOUS
<1>2. Min({a, b}) \in {a, b} /\ \A y \in {a, b} : Min({a, b}) <= y
  BY <1>1 DEF Min
<1> QED
  BY <1>2

(* The records of cb. *)
CallbackType ==
  [at : {"no", "load", "close", "queue", "connected", "arm", "store"},
   lag : 0 .. MaxLag, wait : 0 .. idleTime + MaxLag, next : {0} \cup Timers]

(* NewTimer is a timer that is not in use. *)
LEMMA NewTimerUnused ==
  ASSUME NEW j \in Timers, Unused(j)
  PROVE  NewTimer \in Timers /\ Unused(NewTimer)
<1> DEFINE S == {k \in Timers : Unused(k)}
<1>1. S \in SUBSET Nat /\ S # {}
  BY IdleTimerAssumption DEF Timers
<1>2. \E m \in S : \A k \in S : m <= k
  BY <1>1, LeastNumber
<1>3. NewTimer \in S
  BY <1>2 DEF NewTimer, Min
<1> QED
  BY <1>3

(* The constants and the numbers of a state. *)
LEMMA Numbers ==
  ASSUME TypeOK
  PROVE  /\ idleTime \in Nat \ {0} /\ Second \in Nat \ {0} /\ MaxLag \in Nat
         /\ MaxTimers \in Nat \ {0} /\ 1 \in Timers
         /\ phase \in 0 .. Second - 1 /\ activeAge \in Nat
         /\ idle \in 0 .. idleTime /\ stall \in 0 .. idleTime
         /\ idleTime + MaxLag \in Nat
BY IdleTimerAssumption DEF TypeOK, Timers

(* The initial states. *)
LEMMA TimerInit == Init => TimerInv
<1> SUFFICES ASSUME Init PROVE TimerInv
  OBVIOUS
<1>1. /\ idleTime \in Nat \ {0} /\ Second \in Nat \ {0} /\ MaxLag \in Nat
      /\ MaxTimers \in Nat \ {0} /\ phase \in 0 .. Second - 1
  BY IdleTimerAssumption DEF Init
<1>2. TypeOK
  <2>1. activeAge \in 0 .. idleTime + MaxLag + Second
    BY <1>1 DEF Init
  <2>2. rem \in [Timers -> {NotArmed} \cup 0 .. idleTime + MaxLag]
    BY DEF Init
  <2>3. NoCallback \in CallbackType
    BY <1>1 DEF NoCallback, CallbackType
  <2>4. cb = [k \in Timers |-> NoCallback]
    BY DEF Init
  <2>5. cb \in [Timers -> CallbackType]
    BY <2>3, <2>4
  <2>6. tasks \in Seq({"register", "timeout", "close"})
    BY DEF Init
  <2> QED
    <3>1. /\ idleTime \in IdleTimes /\ phase \in 0 .. Second - 1
          /\ idle \in 0 .. idleTime /\ stall \in 0 .. idleTime
      BY <1>1 DEF Init
    <3>2. /\ mainPC \in {"arm", "store", "queue", "done"} /\ loopPC \in {"ready", "stop"}
          /\ {connected, registered, fatal} \subseteq BOOLEAN
          /\ timer \in {0} \cup Timers /\ decision \in {"none", "made", "overtaken"}
      BY DEF Init
    <3> QED
      BY <2>1, <2>2, <2>5, <2>6, <3>1, <3>2 DEF TypeOK, CallbackType
<1>3. \A k \in Timers : rem[k] = NotArmed /\ cb[k].at = "no"
  BY DEF Init, NoCallback
<1>4. ArmInv /\ FirstTimerInv /\ RegisterFirstInv /\ FatalOnlyWhenStalled
  BY <1>3 DEF Init, ArmInv, FirstTimerInv, RegisterFirstInv, FatalOnlyWhenStalled
<1>5. AgeInv
  BY <1>1 DEF Init, AgeInv
<1>6. WatchInv
  BY <1>3 DEF WatchInv, Running
<1>7. DecisionInv
  BY <1>3 DEF Init, DecisionInv
<1> QED
  BY <1>2, <1>4, <1>5, <1>6, <1>7 DEF TimerInv

(* Places and records that a callback moves to. *)
LEMMA CallbackMoves ==
  ASSUME TypeOK, NEW k \in Timers
  PROVE  /\ cb \in [Timers -> CallbackType] /\ NoCallback \in CallbackType
         /\ \A p \in {"load", "close", "queue", "arm"} :
              [cb[k] EXCEPT !.at = p] \in CallbackType
         /\ [NoCallback EXCEPT !.at = "close"] \in CallbackType
         /\ \A w \in 0 .. idleTime + MaxLag :
              [NoCallback EXCEPT !.at = "connected", !.wait = w] \in CallbackType
         /\ \A j \in Timers : [NoCallback EXCEPT !.at = "store", !.next = j] \in CallbackType
<1>1. cb \in [Timers -> CallbackType]
  BY DEF TypeOK, CallbackType
<1>2. NoCallback \in CallbackType
  BY Numbers DEF NoCallback, CallbackType
<1>3. cb[k] \in CallbackType
  BY <1>1
<1>4. \A p \in {"load", "close", "queue", "arm"} : [cb[k] EXCEPT !.at = p] \in CallbackType
  BY <1>3 DEF CallbackType
<1>5. [NoCallback EXCEPT !.at = "close"] \in CallbackType
  BY <1>2 DEF CallbackType
<1>6. \A w \in 0 .. idleTime + MaxLag :
        [NoCallback EXCEPT !.at = "connected", !.wait = w] \in CallbackType
  BY <1>2 DEF CallbackType
<1>7. \A j \in Timers : [NoCallback EXCEPT !.at = "store", !.next = j] \in CallbackType
  BY <1>2 DEF CallbackType
<1> QED
  BY <1>1, <1>2, <1>4, <1>5, <1>6, <1>7

(* What the loads of LoadActive give: the time until the connection has     *)
(* been idle for idleTime, if it has not.                                   *)
LEMMA WaitBound ==
  ASSUME TypeOK, NEW k \in Timers, Interval(k) < idleTime
  PROVE  idleTime - Interval(k) \in 0 .. idleTime + MaxLag
<1>1. cb[k].lag \in 0 .. MaxLag
  BY CallbackMoves DEF CallbackType
<1> QED
  BY <1>1, Numbers DEF Interval

(* The loop's queue. *)
LEMMA QueueMoves ==
  ASSUME TypeOK
  PROVE  /\ tasks # <<>> => Tail(tasks) \in Seq({"register", "timeout", "close"})
         /\ \A t \in {"register", "timeout", "close"} :
              /\ Append(tasks, t) \in Seq({"register", "timeout", "close"}) /\ Append(tasks, t) # <<>>
              /\ Head(Append(tasks, t)) = IF tasks = <<>> THEN t ELSE Head(tasks)
<1>1. tasks \in Seq({"register", "timeout", "close"})
  BY DEF TypeOK
<1>2. tasks # <<>> => Tail(tasks) \in Seq({"register", "timeout", "close"})
  BY <1>1, HeadTailProperties
<1>3. ASSUME NEW t \in {"register", "timeout", "close"}
      PROVE  /\ Append(tasks, t) \in Seq({"register", "timeout", "close"}) /\ Append(tasks, t) # <<>>
             /\ Head(Append(tasks, t)) = IF tasks = <<>> THEN t ELSE Head(tasks)
  BY <1>1, AppendProperties, HeadTailAppend
<1> QED
  BY <1>2, <1>3

(* Every step keeps the types. *)
LEMMA TypeStep == TypeOK /\ [Next]_vars => TypeOK'
<1> SUFFICES ASSUME TypeOK, [Next]_vars PROVE TypeOK'
  OBVIOUS
<1> USE DEF clockVars, loopVars, connVars, timerVars
<1>0. /\ cb \in [Timers -> CallbackType]
      /\ rem \in [Timers -> {NotArmed} \cup 0 .. idleTime + MaxLag]
  BY DEF TypeOK, CallbackType
<1>1. CASE Tick
  <2>1. phase' \in 0 .. Second - 1
    BY <1>1, Numbers DEF Tick
  <2>2. activeAge' \in 0 .. idleTime + MaxLag + Second /\ idle' \in 0 .. idleTime
    <3>1. Min({activeAge + 1, idleTime + MaxLag}) \in 0 .. idleTime + MaxLag
      BY Numbers, MinOfTwo
    <3>2. Min({idle + 1, idleTime}) \in 0 .. idleTime
      BY Numbers, MinOfTwo
    <3> QED
      BY <1>1, <3>1, <3>2, Numbers DEF Tick
  <2>3. stall' \in 0 .. idleTime
    <3>1. Min({stall + 1, idleTime}) \in 0 .. idleTime
      BY Numbers, MinOfTwo
    <3> QED
      BY <1>1, <3>1, Numbers DEF Tick
  <2>4. rem' \in [Timers -> {NotArmed} \cup 0 .. idleTime + MaxLag]
    <3>1. \A k \in Timers : (IF rem[k] > 0 THEN rem[k] - 1 ELSE rem[k])
                              \in {NotArmed} \cup 0 .. idleTime + MaxLag
      BY <1>0, Numbers DEF NotArmed
    <3> QED
      BY <1>1, <3>1 DEF Tick
  <2>5. cb' \in [Timers -> CallbackType]
    <3>1. ASSUME NEW k \in Timers, cb[k].at = "load"
          PROVE  [cb[k] EXCEPT !.lag = @ + 1] \in CallbackType
      <4>1. cb[k].lag + 1 \in 0 .. MaxLag
        BY <1>0, <1>1, <3>1, Numbers DEF Tick, CallbackType
      <4> QED
        BY <1>0, <4>1 DEF CallbackType
    <3> QED
      BY <1>0, <1>1, <3>1 DEF Tick
  <2> QED
    BY <1>1, <2>1, <2>2, <2>3, <2>4, <2>5 DEF Tick, TypeOK, CallbackType
<1>2. CASE MainStep
  <2>1. CASE MainArm
    BY <2>1, Numbers DEF MainArm, TypeOK
  <2>2. CASE MainStore
    BY <2>2, Numbers DEF MainStore, TypeOK
  <2>3. CASE MainQueue
    BY <2>3 DEF MainQueue, TypeOK
  <2> QED
    BY <1>2, <2>1, <2>2, <2>3 DEF MainStep
<1>3. CASE RunRegister \/ RunClose
  <2>1. tasks' \in Seq({"register", "timeout", "close"})
    BY <1>3, QueueMoves DEF RunRegister, RunClose
  <2> QED
    BY <1>3, <2>1 DEF RunRegister, RunClose, HandleClose, TypeOK
<1>4. CASE UserClose
  <2>1. tasks' \in Seq({"register", "timeout", "close"})
    BY <1>4, QueueMoves DEF UserClose
  <2> QED
    BY <1>4, <2>1 DEF UserClose, TypeOK
<1>5. CASE StopTimer
  BY <1>5 DEF StopTimer, TypeOK
<1>6. CASE Event \/ CloseEvent
  <2>1. activeAge' \in 0 .. idleTime + MaxLag + Second /\ idle' \in 0 .. idleTime
    BY <1>6, Numbers DEF Event, CloseEvent, NoteActivity, RecordEvent
  <2>2. decision' \in {"none", "made", "overtaken"}
    BY <1>6 DEF Event, CloseEvent, RecordEvent
  <2> QED
    BY <1>6, <2>1, <2>2 DEF Event, CloseEvent, HandleClose, TypeOK
<1>7. ASSUME NEW k \in Timers, CallbackStep(k) PROVE TypeOK'
  <2>1. CASE Fire(k)
    <3>1. cb' \in [Timers -> CallbackType]
      BY <1>0, <2>1, CallbackMoves DEF Fire
    <3> QED
      BY <2>1, <3>1 DEF Fire, TypeOK, CallbackType
  <2>2. CASE LoadActive(k)
    <3>1. cb' \in [Timers -> CallbackType]
      BY <1>0, <2>2, CallbackMoves, WaitBound DEF LoadActive
    <3> QED
      BY <2>2, <3>1 DEF LoadActive, TypeOK, CallbackType
  <2>3. CASE CheckClose(k) \/ CheckConnected(k)
    <3>1. cb' \in [Timers -> CallbackType]
      BY <1>0, <2>3, CallbackMoves DEF CheckClose, CheckConnected
    <3> QED
      BY <2>3, <3>1 DEF CheckClose, CheckConnected, TypeOK, CallbackType
  <2>4. CASE QueueClose(k)
    <3>1. cb' \in [Timers -> CallbackType]
      BY <1>0, <2>4, CallbackMoves DEF QueueClose
    <3> QED
      BY <2>4, <3>1 DEF QueueClose, TypeOK, CallbackType
  <2>5. CASE Arm(k)
    <3>1. NewTimer \in Timers
      BY <2>5, NewTimerUnused DEF Arm
    <3>2. cb' \in [Timers -> CallbackType]
      BY <1>0, <2>5, <3>1, CallbackMoves DEF Arm
    <3>3. rem' \in [Timers -> {NotArmed} \cup 0 .. idleTime + MaxLag]
      <4>1. cb[k].wait \in 0 .. idleTime + MaxLag
        BY <1>0 DEF CallbackType
      <4> QED
        BY <1>0, <2>5, <4>1 DEF Arm
    <3> QED
      BY <2>5, <3>2, <3>3 DEF Arm, TypeOK, CallbackType
  <2>6. CASE Store(k)
    <3>1. cb' \in [Timers -> CallbackType]
      BY <1>0, <2>6, CallbackMoves DEF Store
    <3>2. timer' \in {0} \cup Timers
      BY <1>0, <2>6 DEF Store, CallbackType
    <3> QED
      BY <2>6, <3>1, <3>2 DEF Store, TypeOK, CallbackType
  <2> QED
    BY <1>7, <2>1, <2>2, <2>3, <2>4, <2>5, <2>6 DEF CallbackStep
<1>8. CASE UNCHANGED vars
  BY <1>8 DEF vars, TypeOK
<1> QED
  BY <1>1, <1>2, <1>3, <1>4, <1>5, <1>6, <1>7, <1>8 DEF Next, LoopStep
-----------------------------------------------------------------------------
(* Time and the delays only go on. *)
LEMMA StallGrows ==
  ASSUME TypeOK, [Next]_vars
  PROVE  idleTime' = idleTime /\ stall' >= stall
<1> USE DEF clockVars, loopVars, connVars, timerVars
<1>1. CASE Tick
  <2>1. stall <= Min({stall + 1, idleTime})
    BY Numbers, MinOfTwo
  <2> QED
    BY <1>1, <2>1, Numbers DEF Tick
<1>2. CASE UNCHANGED <<idleTime, stall>>
  BY <1>2, Numbers
<1> QED
  BY <1>1, <1>2 DEF Next, MainStep, LoopStep, CallbackStep, MainArm, MainStore, MainQueue,
       RunRegister, RunClose, StopTimer, Event, CloseEvent, UserClose, Fire, LoadActive,
       CheckClose, QueueClose, CheckConnected, Arm, Store, vars

(* In "arm" only time passes. *)
LEMMA ArmStep == TypeOK /\ ArmInv /\ FirstTimerInv /\ [Next]_vars => ArmInv'
<1> SUFFICES ASSUME TypeOK, ArmInv, FirstTimerInv, [Next]_vars, mainPC' = "arm" PROVE ArmInv'
  BY DEF ArmInv
<1> USE DEF clockVars, loopVars, connVars, timerVars
<1>1. mainPC = "arm"
  BY DEF Next, MainStep, LoopStep, CallbackStep, Tick, MainArm, MainStore, MainQueue,
       RunRegister, RunClose, StopTimer, Event, CloseEvent, UserClose, Fire, LoadActive,
       CheckClose, QueueClose, CheckConnected, Arm, Store, vars
<1>2. /\ stall = 0 /\ timer = 0 /\ \A k \in Timers : rem[k] = NotArmed /\ cb[k].at = "no"
      /\ tasks = <<>> /\ loopPC = "ready" /\ ~registered
  BY <1>1, Numbers DEF ArmInv, FirstTimerInv
<1>3. CASE Tick
  BY <1>1, <1>2, <1>3 DEF Tick, ArmInv, NotArmed
<1>4. CASE UNCHANGED vars
  BY <1>2, <1>4 DEF vars, ArmInv
<1>5. ~MainStep
  BY <1>1 DEF MainStep, MainArm, MainStore, MainQueue
<1>6. ~LoopStep /\ ~Event /\ ~CloseEvent /\ ~UserClose
  BY <1>2 DEF LoopStep, RunRegister, RunClose, StopTimer, Event, CloseEvent, UserClose
<1>7. \A k \in Timers : ~CallbackStep(k)
  BY <1>2 DEF CallbackStep, Fire, LoadActive, CheckClose, QueueClose, CheckConnected, Arm,
              Store, NotArmed
<1> QED
  BY <1>3, <1>4, <1>5, <1>6, <1>7 DEF Next

(* A tick takes as much from the first timer as it adds to the delay. *)
LEMMA FirstTimerStep ==
  TypeOK /\ ArmInv /\ FirstTimerInv /\ [Next]_vars => FirstTimerInv'
<1> SUFFICES ASSUME TypeOK, ArmInv, FirstTimerInv, [Next]_vars,
                    mainPC' # "done", stall' < idleTime'
             PROVE  FirstTimerInv'
  BY DEF FirstTimerInv
<1> USE DEF clockVars, loopVars, connVars, timerVars
<1>1. mainPC # "done"
  BY DEF Next, MainStep, LoopStep, CallbackStep, Tick, MainArm, MainStore, MainQueue,
       RunRegister, RunClose, StopTimer, Event, CloseEvent, UserClose, Fire, LoadActive,
       CheckClose, QueueClose, CheckConnected, Arm, Store, vars
<1>2. stall < idleTime /\ idleTime' = idleTime
  <2>1. stall \in Nat /\ stall' \in Nat /\ idleTime \in Nat
    BY TypeStep, Numbers DEF TypeOK
  <2> QED
    BY <2>1, StallGrows
<1>3. /\ tasks = <<>> /\ loopPC = "ready" /\ connected /\ ~registered
      /\ \A k \in Timers : cb[k].at = "no" /\ (k # 1 => rem[k] = NotArmed)
      /\ mainPC # "arm" => rem[1] = idleTime - stall
      /\ mainPC = "arm" => stall = 0 /\ rem[1] = NotArmed
  BY <1>1, <1>2, Numbers DEF FirstTimerInv, ArmInv
<1>4. \A k \in Timers : rem[k] # 0
  BY <1>2, <1>3, Numbers DEF NotArmed
<1>5. CASE Tick
  <2>1. \A k \in Timers : cb'[k].at = "no" /\ (k # 1 => rem'[k] = NotArmed)
    BY <1>3, <1>5 DEF Tick, NotArmed
  <2>2. ASSUME mainPC # "arm" PROVE rem'[1] = idleTime' - stall'
    <3>1. mainPC \in {"store", "queue"}
      BY <1>1, <2>2 DEF TypeOK
    <3>2. stall' = stall + 1
      <4>1. Min({stall + 1, idleTime}) = stall + 1
        BY <1>2, Numbers, MinOfTwo
      <4> QED
        BY <1>5, <3>1, <4>1 DEF Tick
    <3>3. rem'[1] = rem[1] - 1
      BY <1>2, <1>3, <1>5, <2>2, Numbers DEF Tick
    <3> QED
      BY <1>2, <1>3, <2>2, <3>2, <3>3, Numbers
  <2> QED
    BY <1>3, <1>5, <2>1, <2>2 DEF Tick, FirstTimerInv
<1>6. CASE MainArm
  BY <1>3, <1>6, Numbers DEF MainArm, FirstTimerInv, TypeOK
<1>7. CASE MainStore
  BY <1>3, <1>7 DEF MainStore, FirstTimerInv
<1>8. CASE UNCHANGED vars
  BY <1>3, <1>8 DEF vars, FirstTimerInv
<1>9. ~MainQueue /\ ~LoopStep /\ ~Event /\ ~CloseEvent /\ ~UserClose
  BY <1>3 DEF MainQueue, LoopStep, RunRegister, RunClose, StopTimer, Event, CloseEvent,
              UserClose
<1>10. \A k \in Timers : ~CallbackStep(k)
  BY <1>3, <1>4 DEF CallbackStep, Fire, LoadActive, CheckClose, QueueClose, CheckConnected,
                    Arm, Store
<1> QED
  BY <1>5, <1>6, <1>7, <1>8, <1>9, <1>10 DEF Next, MainStep

(* The registration is queued first, and only the loop takes it out. *)
LEMMA RegisterFirstStep ==
  TypeOK /\ FirstTimerInv /\ RegisterFirstInv /\ [Next]_vars => RegisterFirstInv'
<1> SUFFICES ASSUME TypeOK, FirstTimerInv, RegisterFirstInv, [Next]_vars,
                    mainPC' = "done", stall' < idleTime', connected'
             PROVE  registered' \/ (tasks' # <<>> /\ Head(tasks') = "register")
  BY DEF RegisterFirstInv
<1> USE DEF clockVars, loopVars, connVars, timerVars
<1>1. stall < idleTime
  <2>1. stall \in Nat /\ stall' \in Nat /\ idleTime \in Nat
    BY TypeStep, Numbers DEF TypeOK
  <2> QED
    BY <2>1, StallGrows
<1>2. connected
  BY DEF Next, MainStep, LoopStep, CallbackStep, Tick, MainArm, MainStore, MainQueue,
       RunRegister, RunClose, StopTimer, Event, CloseEvent, UserClose, HandleClose, Fire,
       LoadActive, CheckClose, QueueClose, CheckConnected, Arm, Store, vars
<1>3. CASE MainQueue
  <2>1. tasks = <<>>
    BY <1>1, <1>3 DEF MainQueue, FirstTimerInv
  <2> QED
    BY <1>3, <2>1, QueueMoves DEF MainQueue
<1>4. CASE ~MainQueue
  <2>1. mainPC = "done"
    BY <1>4 DEF Next, MainStep, LoopStep, CallbackStep, Tick, MainArm, MainStore,
         RunRegister, RunClose, StopTimer, Event, CloseEvent, UserClose, HandleClose, Fire,
         LoadActive, CheckClose, QueueClose, CheckConnected, Arm, Store, vars
  <2>2. registered \/ (tasks # <<>> /\ Head(tasks) = "register")
    BY <1>1, <1>2, <2>1 DEF RegisterFirstInv
  <2>3. CASE RunRegister
    BY <2>3 DEF RunRegister
  <2>4. CASE UserClose \/ \E k \in Timers : QueueClose(k)
    BY <2>2, <2>4, QueueMoves DEF UserClose, QueueClose
  <2>5. CASE RunClose \/ CloseEvent
    BY <1>2, <2>2, <2>5 DEF RunClose, CloseEvent, HandleClose
  <2>6. CASE UNCHANGED <<tasks, registered>>
    BY <2>2, <2>6
  <2> QED
    BY <1>4, <2>3, <2>4, <2>5, <2>6
    DEF Next, MainStep, LoopStep, CallbackStep, Tick, MainArm, MainStore, StopTimer, Event,
        Fire, LoadActive, CheckClose, CheckConnected, Arm, Store, vars
<1> QED
  BY <1>3, <1>4

(* A close that finds no registration finds neither a registered connection *)
(* nor a registration at the head of the queue.                             *)
LEMMA FatalStep ==
  TypeOK /\ FirstTimerInv /\ RegisterFirstInv /\ FatalOnlyWhenStalled /\ [Next]_vars
    => FatalOnlyWhenStalled'
<1> SUFFICES ASSUME TypeOK, FirstTimerInv, RegisterFirstInv, FatalOnlyWhenStalled,
                    [Next]_vars
             PROVE  FatalOnlyWhenStalled'
  OBVIOUS
<1> SUFFICES ASSUME fatal' PROVE stall' >= idleTime'
  BY DEF FatalOnlyWhenStalled
<1> USE DEF clockVars, loopVars, connVars, timerVars
<1>1. /\ idleTime' = idleTime /\ stall' >= stall
      /\ stall \in Nat /\ stall' \in Nat /\ idleTime \in Nat
  <2>1. TypeOK'
    BY TypeStep
  <2>2. stall \in Nat /\ idleTime \in Nat
    BY Numbers
  <2>3. stall' \in Nat
    BY <2>1, <2>2, StallGrows DEF TypeOK
  <2> QED
    BY <2>2, <2>3, StallGrows
<1> SUFFICES stall >= idleTime
  BY <1>1
<1>2. CASE RunClose /\ connected /\ ~registered
  <2>1. tasks # <<>> /\ Head(tasks) # "register"
    BY <1>2 DEF RunClose
  <2>2. ~(stall < idleTime)
    BY <1>2, <2>1 DEF FirstTimerInv, RegisterFirstInv
  <2> QED
    BY <1>1, <2>2
<1>3. CASE ~(RunClose /\ connected /\ ~registered)
  <2>1. fatal
    BY <1>3 DEF Next, MainStep, LoopStep, CallbackStep, Tick, MainArm, MainStore, MainQueue,
         RunRegister, RunClose, StopTimer, Event, CloseEvent, UserClose, HandleClose, Fire,
         LoadActive, CheckClose, QueueClose, CheckConnected, Arm, Store, vars
  <2> QED
    BY <2>1 DEF FatalOnlyWhenStalled
<1> QED
  BY <1>2, <1>3

(* activeTime and the last event grow older together; an event sets the one *)
(* to the second of the other.                                              *)
LEMMA AgeStep == TypeOK /\ AgeInv /\ [Next]_vars => AgeInv'
<1> SUFFICES ASSUME TypeOK, AgeInv, [Next]_vars, idle' < idleTime'
             PROVE  activeAge' <= idle' + Second - 1
  BY DEF AgeInv
<1> USE DEF clockVars, loopVars, connVars, timerVars
<1>1. idleTime' = idleTime
  BY StallGrows
<1>2. CASE Tick
  <2>1. idle' = idle + 1 /\ idle < idleTime
    <3>1. Min({idle + 1, idleTime}) = IF idle + 1 <= idleTime THEN idle + 1 ELSE idleTime
      BY Numbers, MinOfTwo
    <3> QED
      BY <1>1, <1>2, <3>1, Numbers DEF Tick
  <2>2. activeAge' <= activeAge + 1 /\ activeAge' \in Nat
    <3>1. /\ Min({activeAge + 1, idleTime + MaxLag}) <= activeAge + 1
          /\ Min({activeAge + 1, idleTime + MaxLag}) \in Nat
      BY Numbers, MinOfTwo
    <3> QED
      BY <1>2, <3>1 DEF Tick
  <2> QED
    BY <2>1, <2>2, Numbers DEF AgeInv
<1>3. CASE Event \/ CloseEvent
  BY <1>3, Numbers DEF Event, CloseEvent, NoteActivity, RecordEvent
<1>4. CASE UNCHANGED <<activeAge, idle>>
  BY <1>1, <1>4 DEF AgeInv
<1> QED
  BY <1>2, <1>3, <1>4
  DEF Next, MainStep, LoopStep, CallbackStep, MainArm, MainStore, MainQueue, RunRegister,
      RunClose, StopTimer, UserClose, Fire, LoadActive, CheckClose, QueueClose,
      CheckConnected, Arm, Store, vars

(* A watch is handed on: by Fire from the timer to its callback, by Arm     *)
(* from the callback to the next timer.                                     *)
LEMMA WatchStep == TypeOK /\ ArmInv /\ WatchInv /\ [Next]_vars => WatchInv'
<1> SUFFICES ASSUME TypeOK, ArmInv, WatchInv, [Next]_vars PROVE WatchInv'
  OBVIOUS
<1> USE DEF clockVars, loopVars, connVars, timerVars
<1>0. /\ cb \in [Timers -> CallbackType]
      /\ rem \in [Timers -> {NotArmed} \cup 0 .. idleTime + MaxLag]
  BY DEF TypeOK, CallbackType
<1>1. CASE Tick
  <2>1. \A k \in Timers : cb'[k].at = cb[k].at
    BY <1>0, <1>1 DEF Tick, CallbackType
  <2>2. \A k \in Timers : rem'[k] = NotArmed <=> rem[k] = NotArmed
    BY <1>0, <1>1, Numbers DEF Tick, NotArmed
  <2> QED
    BY <2>1, <2>2 DEF WatchInv, Running
<1>2. CASE MainArm
  <2>1. \A k \in Timers : rem[k] = NotArmed /\ cb[k].at = "no" /\ (k # 1 => rem'[k] = NotArmed)
    BY <1>0, <1>2 DEF MainArm, ArmInv
  <2> QED
    BY <1>2, <2>1 DEF MainArm, WatchInv, Running
<1>3. CASE UNCHANGED <<rem, cb>>
  BY <1>3 DEF WatchInv, Running
<1>4. CASE StopTimer
  <2>1. \A k \in Timers : cb'[k] = cb[k] /\ (rem'[k] # NotArmed => rem'[k] = rem[k])
    BY <1>4 DEF StopTimer
  <2> QED
    BY <2>1 DEF WatchInv, Running
<1>5. ASSUME NEW k \in Timers, CallbackStep(k) PROVE WatchInv'
  <2>1. CASE Fire(k)
    <3>1. \A j \in Timers : /\ j # k => rem'[j] = rem[j] /\ cb'[j] = cb[j]
                            /\ j = k => rem[j] # NotArmed /\ rem'[j] = NotArmed
      BY <1>0, <2>1 DEF Fire, NotArmed
    <3> QED
      BY <3>1 DEF WatchInv, Running
  <2>2. CASE LoadActive(k) \/ CheckClose(k) \/ QueueClose(k) \/ CheckConnected(k) \/ Store(k)
    <3>1. /\ rem' = rem /\ cb[k].at # "no"
          /\ cb'[k].at \notin {"no", "store"} => cb[k].at \notin {"no", "store"}
          /\ \A j \in Timers : j # k => cb'[j] = cb[j]
      <4>1. CASE LoadActive(k)
        <5>1. [NoCallback EXCEPT !.at = "close"].at = "close"
              /\ \A w : [NoCallback EXCEPT !.at = "connected", !.wait = w].at = "connected"
          BY DEF NoCallback
        <5> QED
          BY <1>0, <4>1, <5>1 DEF LoadActive
      <4>2. CASE CheckClose(k) \/ CheckConnected(k)
        BY <1>0, <4>2 DEF CheckClose, CheckConnected, NoCallback, CallbackType
      <4>3. CASE QueueClose(k) \/ Store(k)
        BY <1>0, <4>3 DEF QueueClose, Store, NoCallback
      <4> QED
        BY <2>2, <4>1, <4>2, <4>3
    <3> QED
      BY <3>1 DEF WatchInv, Running
  <2>3. CASE Arm(k)
    <3> DEFINE n == NewTimer
    <3>1. n \in Timers /\ Unused(n) /\ cb[k].at = "arm"
      BY <2>3, NewTimerUnused DEF Arm
    <3>2. n # k /\ cb[n].at = "no" /\ rem[k] = NotArmed
      BY <3>1 DEF Unused, WatchInv
    <3>3. \A j \in Timers : /\ j # k => cb'[j] = cb[j]
                            /\ j # n => rem'[j] = rem[j]
      BY <1>0, <2>3 DEF Arm
    <3>4. cb'[k].at = "store"
      BY <1>0, <2>3, CallbackMoves DEF Arm, NoCallback
    <3>5. \A j \in Timers : j # k => ~Running(j)
      BY <3>1 DEF WatchInv, Running
    <3> HIDE DEF n
    <3> QED
      BY <3>1, <3>2, <3>3, <3>4, <3>5 DEF WatchInv, Running
  <2> QED
    BY <1>5, <2>1, <2>2, <2>3 DEF CallbackStep
<1> QED
  BY <1>1, <1>2, <1>3, <1>4, <1>5
  DEF Next, MainStep, LoopStep, MainStore, MainQueue, RunRegister, RunClose, Event,
      CloseEvent, UserClose, vars

(* LoadActive decides to close only a connection without a recent event. *)
LEMMA DecidedIdle ==
  ASSUME TypeOK, AgeInv, NEW k \in Timers, LoadActive(k), Interval(k) >= idleTime
  PROVE  idle > idleTime - Second
<1>1. cb \in [Timers -> CallbackType]
  BY CallbackMoves
<1>2. cb[k].lag \in Nat
  BY <1>1, Numbers DEF CallbackType
<1> QED
  BY <1>2, Numbers DEF Interval, AgeInv

(* Every step but that of LoadActive keeps the decision, and events only    *)
(* overtake it.                                                             *)
LEMMA DecisionStep == TypeOK /\ AgeInv /\ DecisionInv /\ [Next]_vars => DecisionInv'
<1> SUFFICES ASSUME TypeOK, AgeInv, DecisionInv, [Next]_vars PROVE DecisionInv'
  OBVIOUS
<1> USE DEF clockVars, loopVars, connVars, timerVars
<1>0. /\ cb \in [Timers -> CallbackType] /\ idleTime' = idleTime
      /\ tasks \in Seq({"register", "timeout", "close"})
  BY StallGrows DEF TypeOK, CallbackType
<1>1. CASE Tick
  <2>1. idle' >= idle /\ idle' \in Nat
    <3>1. Min({idle + 1, idleTime}) >= idle /\ Min({idle + 1, idleTime}) \in Nat
      BY Numbers, MinOfTwo
    <3> QED
      BY <1>1, <3>1 DEF Tick
  <2>2. \A k \in Timers : cb'[k].at = cb[k].at
    BY <1>0, <1>1 DEF Tick, CallbackType
  <2>3. decision' = decision /\ tasks' = tasks
    BY <1>1 DEF Tick
  <2>0. decision' = "made" => idle' > idleTime' - Second
    BY <1>0, <2>1, <2>3, Numbers DEF DecisionInv
  <2> QED
    BY <2>2, <2>3, <2>0 DEF DecisionInv
<1>2. CASE MainQueue \/ UserClose
  <2>1. PICK t \in {"register", "close"} : tasks' = Append(tasks, t)
    BY <1>2 DEF MainQueue, UserClose
  <2>2. \A i \in 1 .. Len(tasks') : tasks'[i] = t \/ (i \in 1 .. Len(tasks) /\ tasks'[i] = tasks[i])
    BY <1>0, <2>1, AppendProperties
  <2>3. UNCHANGED <<idleTime, idle, decision, cb>>
    BY <1>2 DEF MainQueue, UserClose
  <2> QED
    BY <2>1, <2>2, <2>3 DEF DecisionInv
<1>3. CASE RunRegister \/ RunClose
  <2>1. \A i \in 1 .. Len(tasks') : i + 1 \in 1 .. Len(tasks) /\ tasks'[i] = tasks[i + 1]
    <3>1. tasks' = Tail(tasks) /\ tasks # <<>>
      BY <1>3 DEF RunRegister, RunClose
    <3> QED
      BY <1>0, <3>1, HeadTailProperties
  <2>2. UNCHANGED <<idleTime, idle, decision, cb>>
    BY <1>3 DEF RunRegister, RunClose
  <2> QED
    BY <2>1, <2>2 DEF DecisionInv
<1>4. CASE Event \/ CloseEvent
  <2>1. /\ decision' # "made" /\ (decision' = "none" => decision = "none")
        /\ UNCHANGED <<cb, tasks>>
    BY <1>4 DEF Event, CloseEvent, RecordEvent, TypeOK
  <2> QED
    BY <2>1 DEF DecisionInv
<1>5. ASSUME NEW k \in Timers, CallbackStep(k) PROVE DecisionInv'
  <2>0. Interval(k) \in Int /\ idleTime \in Int
    BY <1>0, Numbers DEF Interval, CallbackType
  <2>1. CASE LoadActive(k) /\ Interval(k) >= idleTime
    <3>1. idle > idleTime - Second
      BY <2>1, DecidedIdle
    <3>2. decision' = "made" /\ UNCHANGED <<idleTime, idle>>
      BY <2>1, <2>0 DEF LoadActive
    <3> QED
      BY <3>1, <3>2 DEF DecisionInv
  <2>2. CASE \/ Fire(k) \/ CheckClose(k) \/ CheckConnected(k) \/ Arm(k) \/ Store(k)
             \/ LoadActive(k) /\ Interval(k) < idleTime
    <3>1. UNCHANGED <<idleTime, idle, decision, tasks>>
      BY <1>0, <2>2, <2>0 DEF Fire, CheckClose, CheckConnected, Arm, Store, LoadActive
    <3>2. /\ \A j \in Timers : j # k => cb'[j] = cb[j]
          /\ cb'[k].at \in {"close", "queue"} => cb[k].at \in {"close", "queue"}
      <4>1. CASE LoadActive(k) /\ Interval(k) < idleTime
        <5>1. \A w : [NoCallback EXCEPT !.at = "connected", !.wait = w].at = "connected"
          BY DEF NoCallback
        <5>2. cb' = [cb EXCEPT ![k] = [NoCallback EXCEPT !.at = "connected",
                                                        !.wait = idleTime - Interval(k)]]
          BY <2>0, <4>1 DEF LoadActive
        <5> QED
          BY <1>0, <5>1, <5>2
      <4>2. CASE Fire(k) \/ CheckClose(k) \/ CheckConnected(k) \/ Arm(k) \/ Store(k)
        <5>1. cb[k] \in CallbackType
          BY <1>0
        <5>2. ASSUME NEW c, cb' = [cb EXCEPT ![k] = c], c.at \in {"no", "load", "store"}
              PROVE  /\ \A j \in Timers : j # k => cb'[j] = cb[j]
                     /\ cb'[k].at \in {"close", "queue"} => cb[k].at \in {"close", "queue"}
          <6>1. cb'[k] = c /\ \A j \in Timers : j # k => cb'[j] = cb[j]
            BY <1>0, <5>2
          <6> QED
            BY <5>2, <6>1
        <5>5. CASE Fire(k)
          <6>1. cb' = [cb EXCEPT ![k] = [cb[k] EXCEPT !.at = "load"]]
            BY <5>5 DEF Fire
          <6>2. [cb[k] EXCEPT !.at = "load"].at = "load"
            BY <5>1 DEF CallbackType
          <6> QED
            BY <5>2, <6>1, <6>2
        <5>6. CASE Arm(k)
          <6>1. cb' = [cb EXCEPT ![k] = [NoCallback EXCEPT !.at = "store", !.next = NewTimer]]
            BY <5>6 DEF Arm
          <6>2. \A j : [NoCallback EXCEPT !.at = "store", !.next = j].at = "store"
            BY DEF NoCallback
          <6> QED
            BY <5>2, <6>1, <6>2
        <5>7. CASE Store(k)
          BY <5>2, <5>7 DEF Store, NoCallback
        <5>3. CASE CheckClose(k)
          BY <1>0, <5>3 DEF CheckClose
        <5>4. CASE CheckConnected(k)
          <6>1. cb'[k] = IF connected THEN [cb[k] EXCEPT !.at = "arm"] ELSE NoCallback
            BY <1>0, <5>4 DEF CheckConnected
          <6>2. [cb[k] EXCEPT !.at = "arm"].at = "arm"
            BY <5>1 DEF CallbackType
          <6> QED
            BY <1>0, <5>4, <6>1, <6>2 DEF CheckConnected, NoCallback
        <5> QED
          BY <4>2, <5>3, <5>4, <5>5, <5>6, <5>7
      <4> QED
        BY <2>2, <4>1, <4>2
    <3> QED
      BY <3>1, <3>2 DEF DecisionInv
  <2>3. CASE QueueClose(k)
    <3>1. cb[k].at = "queue" /\ UNCHANGED <<idleTime, idle, decision>>
      BY <2>3 DEF QueueClose
    <3>2. decision # "none"
      BY <3>1 DEF DecisionInv
    <3> QED
      BY <3>1, <3>2 DEF DecisionInv
  <2> QED
    BY <1>5, <2>1, <2>2, <2>3, <2>0 DEF CallbackStep
<1>6. CASE UNCHANGED <<idleTime, idle, decision, cb, tasks>>
  BY <1>6 DEF DecisionInv
<1> QED
  BY <1>1, <1>2, <1>3, <1>4, <1>5, <1>6
  DEF Next, MainStep, LoopStep, MainArm, MainStore, StopTimer, vars
-----------------------------------------------------------------------------
(* The inductive invariant. *)
THEOREM TimerInvariant == Spec => []TimerInv
<1>1. TimerInv /\ [Next]_vars => TimerInv'
  BY TypeStep, ArmStep, FirstTimerStep, RegisterFirstStep, FatalStep, AgeStep, WatchStep,
     DecisionStep
  DEF TimerInv
<1> QED
  BY TimerInit, <1>1, PTL DEF Spec

(* Every variable keeps its type, and every number its bound. *)
THEOREM TimerTypes == Spec => []TypeOK
BY TimerInvariant, PTL DEF TimerInv

(* The timer that NewConnection arms never makes the loop delete from epoll *)
(* a descriptor that is not there, for any idle time, unless the accepting  *)
(* goroutine is held up for all of it (connection.go, lines 67-71 and       *)
(* 193).                                                                    *)
THEOREM FatalOnlyWhenStalledAlways == Spec => []FatalOnlyWhenStalled
BY TimerInvariant, PTL DEF TimerInv

(* There is one watch over a connection at a time: never two timers in the  *)
(* wheel, or a timer and a callback that has yet to decide (lines 79-92).   *)
THEOREM OneWatch == Spec => []WatchInv
BY TimerInvariant, PTL DEF TimerInv

(* The timer decides to close only a connection that has had no event for   *)
(* idleTime less the truncated second; and when the loop runs that close    *)
(* there has still been none, or the event has come after the decision      *)
(* (connection.go, lines 81-84, 128-130 and 148-150).                       *)
THEOREM ClosedOnlyIdleAlways == Spec => ClosedOnlyIdle
<1> USE DEF clockVars, loopVars, connVars, timerVars
<1>1. ASSUME TypeOK, AgeInv, [Next]_vars, decision' = "made", decision # "made"
      PROVE  idle > idleTime - Second
  <2>1. \E k \in Timers : LoadActive(k) /\ decision' # decision
    BY <1>1
    DEF Next, MainStep, LoopStep, CallbackStep, Tick, MainArm, MainStore, MainQueue,
        RunRegister, RunClose, StopTimer, Event, CloseEvent, RecordEvent, UserClose, Fire,
        CheckClose, QueueClose, CheckConnected, Arm, Store, vars
  <2>2. PICK k \in Timers : LoadActive(k) /\ decision' # decision
    BY <2>1
  <2>3. Interval(k) >= idleTime
    BY <2>2 DEF LoadActive
  <2> QED
    BY <1>1, <2>2, <2>3, DecidedIdle
<1>2. ASSUME TypeOK, DecisionInv, tasks # <<>>, Head(tasks) = "timeout"
      PROVE  decision = "overtaken" \/ (decision = "made" /\ idle > idleTime - Second)
  <2>1. 1 \in 1 .. Len(tasks) /\ tasks[1] = "timeout"
    BY <1>2, HeadTailProperties DEF TypeOK
  <2> QED
    BY <1>2, <2>1 DEF DecisionInv, TypeOK
<1>3. ASSUME [Next]_vars, connected, ~connected', tasks # tasks' PROVE tasks # <<>>
  BY <1>3
  DEF Next, MainStep, LoopStep, CallbackStep, Tick, MainArm, MainStore, MainQueue,
      RunRegister, RunClose, StopTimer, Event, CloseEvent, UserClose, HandleClose, Fire,
      LoadActive, CheckClose, QueueClose, CheckConnected, Arm, Store, vars
<1>4. TimerInv /\ [Next]_vars
        => [/\ decision' = "made" /\ decision # "made" => idle > idleTime - Second
            /\ connected /\ ~connected' /\ tasks # tasks' /\ Head(tasks) = "timeout" =>
                 decision = "overtaken" \/ (decision = "made" /\ idle > idleTime - Second)]_vars
  BY <1>1, <1>2, <1>3 DEF TimerInv
<1> QED
  BY TimerInvariant, <1>4, PTL DEF Spec, ClosedOnlyIdle
=============================================================================
