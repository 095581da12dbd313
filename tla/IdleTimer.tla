------------------------------ MODULE IdleTimer ------------------------------
(***************************************************************************)
(* The idle timer of a connection (connection.go): NewConnection (67-71)   *)
(* arms a timer of the timing wheel before handleNewConnection queues the  *)
(* registration, HandleEvent notes the second of the last activity, and    *)
(* the callback of the timer closes the connection or arms the next timer. *)
(* The goroutine that accepts, the loop and the callbacks move             *)
(* concurrently, and time passes between any two of their steps.           *)
(*                                                                         *)
(* Time is relative, so that it has no end: phase is the time of day       *)
(* modulo a second, activeAge how long ago activeTime is, rem[k] how long  *)
(* timer k still has to run; an age that is past any comparison stops      *)
(* growing.  The loop's queue is the FIFO queue of module TaskQueue.       *)
(*                                                                         *)
(* cb[k] is the goroutine that runs the callback of timer k: at its place  *)
(*   ("no" if there is none), lag the ticks since it has read the time,    *)
(*   wait the duration for AfterFunc, next the timer AfterFunc returned.   *)
(* Two variables only record what has happened: no guard reads idle, the   *)
(* time since the last event, nor decision, which says whether a callback  *)
(* has decided to close and whether an event has come after that.  The     *)
(* tasks of the timer's Close and of the user's are told apart by name.    *)
(***************************************************************************)
EXTENDS Integers, Sequences, FiniteSetsExt

CONSTANTS
  IdleTimes,  \* values of Options.IdleTime, in ticks of the clock
  Second,     \* ticks in a second, the unit of activeTime
  MaxLag,     \* bound on the ticks between time.Now() and activeTime.Load()
  MaxTimers,  \* bound on the timers in use at once
  MaxTasks    \* bound on the tasks queued when the user calls Close

ASSUME IdleTimerAssumption ==
  /\ IdleTimes \subseteq Nat \ {0} /\ IdleTimes # {}
  /\ Second \in Nat \ {0} /\ MaxTimers \in Nat \ {0}
  /\ MaxLag \in Nat /\ MaxTasks \in Nat

Timers == 1 .. MaxTimers
NotArmed == -1

VARIABLES
  idleTime,    \* idleTime of the connection
  phase,       \* ticks since the last full second
  activeAge,   \* ticks since activeTime, which is a full second
  idle,        \* ticks since the last event, or since NewConnection
  decision,    \* to close: "none", "made", or "overtaken" by an event after it
  stall,       \* ticks from the first AfterFunc to the QueueInLoop after it
  mainPC,      \* the accepting goroutine: "arm", "store", "queue" or "done"
  tasks,       \* tasks of the loop, oldest first
  loopPC,      \* "ready", or "stop" in handleClose before the timer is stopped
  connected,   \* connected of the connection
  registered,  \* it is in the loop's epoll set
  fatal,       \* DeleteFdInLoop has ended the process
  timer,       \* what c.timer holds, 0 for nil
  rem,         \* ticks until timer k is due, NotArmed outside the wheel
  cb           \* callbacks, see above

clockVars == <<phase, activeAge, idle, decision, stall>>
loopVars == <<tasks, loopPC, registered>>
connVars == <<connected, fatal>>
timerVars == <<timer, rem, cb>>
vars == <<idleTime, clockVars, mainPC, loopVars, connVars, timerVars>>

NoCallback == [at |-> "no", lag |-> 0, wait |-> 0, next |-> 0]

(* NewConnection has made the connection and set activeTime. *)
Init ==
  /\ idleTime \in IdleTimes
  /\ phase \in 0 .. Second - 1
  /\ activeAge = phase /\ idle = 0 /\ decision = "none" /\ stall = 0
  /\ mainPC = "arm" /\ tasks = <<>> /\ loopPC = "ready"
  /\ connected = TRUE /\ registered = FALSE /\ fatal = FALSE
  /\ timer = 0
  /\ rem = [k \in Timers |-> NotArmed]
  /\ cb = [k \in Timers |-> NoCallback]

(* A goroutine that has read the time gets to its next step within MaxLag.  *)
Tick ==
  /\ \A k \in Timers : cb[k].at = "load" => cb[k].lag < MaxLag
  /\ phase' = (phase + 1) % Second
  /\ activeAge' = Min({activeAge + 1, idleTime + MaxLag})
  /\ idle' = Min({idle + 1, idleTime})
  /\ stall' = IF mainPC \in {"store", "queue"} THEN Min({stall + 1, idleTime})
              ELSE stall
  /\ rem' = [k \in Timers |-> IF rem[k] > 0 THEN rem[k] - 1 ELSE rem[k]]
  /\ cb' = [k \in Timers |-> IF cb[k].at = "load" THEN [cb[k] EXCEPT !.lag = @ + 1]
                             ELSE cb[k]]
  /\ UNCHANGED <<idleTime, decision, mainPC, loopVars, connVars, timer>>
-----------------------------------------------------------------------------
(* The timing wheel: a timer that nobody can refer to any more is garbage,  *)
(* and its number is used again.                                            *)
Unused(k) ==
  /\ rem[k] = NotArmed /\ cb[k].at = "no" /\ timer # k
  /\ mainPC = "store" => k # 1
  /\ \A j \in Timers : cb[j].next # k

NewTimer == Min({k \in Timers : Unused(k)})
-----------------------------------------------------------------------------
(* NewConnection and handleNewConnection, on the accepting goroutine *)

(* Mutant: the timer is to run out idleTime after activeTime, not after now. *)
MainArmFromActive ==
  /\ mainPC = "arm"
  /\ mainPC' = "store"
  /\ rem' = [rem EXCEPT ![1] = Max({idleTime - activeAge, 0})]
  /\ UNCHANGED <<idleTime, clockVars, loopVars, connVars, timer, cb>>

MainArm ==
  /\ mainPC = "arm"
  /\ mainPC' = "store"
  /\ rem' = [rem EXCEPT ![1] = idleTime]
  /\ UNCHANGED <<idleTime, clockVars, loopVars, connVars, timer, cb>>

MainStore ==
  /\ mainPC = "store"
  /\ mainPC' = "queue"
  /\ timer' = 1
  /\ UNCHANGED <<idleTime, clockVars, loopVars, connVars, rem, cb>>

MainQueue ==
  /\ mainPC = "queue"
  /\ mainPC' = "done"
  /\ tasks' = Append(tasks, "register")
  /\ UNCHANGED <<idleTime, clockVars, loopPC, registered, connVars, timerVars>>

MainStep == MainArm \/ MainStore \/ MainQueue
-----------------------------------------------------------------------------
(* The callback of timer k, closeTimeoutConn.  A timer fires when it is due *)
(* or later, and its callback reads the time.                               *)
Fire(k) ==
  /\ rem[k] = 0
  /\ rem' = [rem EXCEPT ![k] = NotArmed]
  /\ cb' = [cb EXCEPT ![k].at = "load"]
  /\ UNCHANGED <<idleTime, clockVars, mainPC, loopVars, connVars, timer>>

(* intervals, for a time read lag ticks ago. *)
Interval(k) == activeAge - cb[k].lag

(* Mutant: the interval is not compared with idleTime. *)
LoadActiveAlwaysArms(k) ==
  /\ cb[k].at = "load"
  /\ cb' = [cb EXCEPT ![k] = [NoCallback EXCEPT !.at = "connected",
                                                !.wait = idleTime - Interval(k)]]
  /\ UNCHANGED <<idleTime, clockVars, mainPC, loopVars, connVars, timer, rem>>

LoadActive(k) ==
  /\ cb[k].at = "load"
  /\ \/ /\ Interval(k) >= idleTime
        /\ cb' = [cb EXCEPT ![k] = [NoCallback EXCEPT !.at = "close"]]
        /\ decision' = "made"
     \/ /\ Interval(k) < idleTime
        /\ cb' = [cb EXCEPT ![k] = [NoCallback EXCEPT !.at = "connected",
                                                      !.wait = idleTime - Interval(k)]]
        /\ UNCHANGED decision
  /\ UNCHANGED <<idleTime, phase, activeAge, idle, stall, mainPC, loopVars, connVars, timer, rem>>

(* Mutant: a Close that finds the connection closed is tried again later. *)
CheckCloseRetries(k) ==
  /\ cb[k].at = "close"
  /\ cb' = [cb EXCEPT ![k] = IF connected THEN [@ EXCEPT !.at = "queue"]
                             ELSE [@ EXCEPT !.at = "arm", !.wait = idleTime]]
  /\ UNCHANGED <<idleTime, clockVars, mainPC, loopVars, connVars, timer, rem>>

(* Close: ErrConnectionClosed, which the callback drops, or a queued task. *)
CheckClose(k) ==
  /\ cb[k].at = "close"
  /\ cb' = [cb EXCEPT ![k] = IF connected THEN [@ EXCEPT !.at = "queue"]
                             ELSE NoCallback]
  /\ UNCHANGED <<idleTime, clockVars, mainPC, loopVars, connVars, timer, rem>>

QueueClose(k) ==
  /\ cb[k].at = "queue"
  /\ cb' = [cb EXCEPT ![k] = NoCallback]
  /\ tasks' = Append(tasks, "timeout")
  /\ UNCHANGED <<idleTime, clockVars, mainPC, loopPC, registered, connVars, timer, rem>>

CheckConnected(k) ==
  /\ cb[k].at = "connected"
  /\ cb' = [cb EXCEPT ![k] = IF connected THEN [@ EXCEPT !.at = "arm"]
                             ELSE NoCallback]
  /\ UNCHANGED <<idleTime, clockVars, mainPC, loopVars, connVars, timer, rem>>

(* Mutant: the next timer is stored but never started. *)
ArmNothing(k) ==
  /\ cb[k].at = "arm" /\ \E j \in Timers : Unused(j)
  /\ cb' = [cb EXCEPT ![k] = [NoCallback EXCEPT !.at = "store", !.next = NewTimer]]
  /\ UNCHANGED <<idleTime, clockVars, mainPC, loopVars, connVars, timer, rem>>

Arm(k) ==
  /\ cb[k].at = "arm" /\ \E j \in Timers : Unused(j)
  /\ rem' = [rem EXCEPT ![NewTimer] = cb[k].wait]
  /\ cb' = [cb EXCEPT ![k] = [NoCallback EXCEPT !.at = "store", !.next = NewTimer]]
  /\ UNCHANGED <<idleTime, clockVars, mainPC, loopVars, connVars, timer>>

Store(k) ==
  /\ cb[k].at = "store"
  /\ timer' = cb[k].next
  /\ cb' = [cb EXCEPT ![k] = NoCallback]
  /\ UNCHANGED <<idleTime, clockVars, mainPC, loopVars, connVars, rem>>

CallbackStep(k) ==
  Fire(k) \/ LoadActive(k) \/ CheckClose(k) \/ QueueClose(k) \/ CheckConnected(k)
    \/ Arm(k) \/ Store(k)
-----------------------------------------------------------------------------
(* The loop *)

RunRegister ==
  /\ loopPC = "ready" /\ tasks # <<>> /\ Head(tasks) = "register"
  /\ tasks' = Tail(tasks)
  /\ registered' = TRUE
  /\ UNCHANGED <<idleTime, clockVars, mainPC, loopPC, connVars, timerVars>>

(* handleClose up to the return of the buffers; DeleteFdInLoop removes the  *)
(* descriptor from epoll, and a descriptor that is not there is log.Fatal.  *)
HandleClose ==
  IF connected
  THEN /\ connected' = FALSE
       /\ fatal' = ~registered
       /\ registered' = FALSE
       /\ loopPC' = "stop"
  ELSE UNCHANGED <<connVars, registered, loopPC>>

(* The task of a Close, the timer's or the user's. *)
RunClose ==
  /\ loopPC = "ready" /\ tasks # <<>> /\ Head(tasks) \in {"timeout", "close"}
  /\ tasks' = Tail(tasks)
  /\ HandleClose
  /\ UNCHANGED <<idleTime, clockVars, mainPC, timerVars>>

(* What an event makes of the two recording variables. *)
RecordEvent ==
  /\ idle' = 0
  /\ decision' = IF decision = "none" THEN "none" ELSE "overtaken"

(* Mutant: an event does not count as activity. *)
NoteActivityNot == UNCHANGED activeAge

(* The first lines of HandleEvent: time.Now().Unix() has no fraction.  The  *)
(* reading of the clock and the Swap are one step.                          *)
NoteActivity == activeAge' = phase

(* HandleEvent, for the many events that leave the connection open. *)
Event ==
  /\ loopPC = "ready" /\ registered
  /\ NoteActivity /\ RecordEvent
  /\ UNCHANGED <<idleTime, phase, stall, mainPC, loopVars, connVars, timerVars>>

(* HandleEvent, for the end of the peer's stream or an error. *)
CloseEvent ==
  /\ loopPC = "ready" /\ registered
  /\ NoteActivity /\ RecordEvent
  /\ HandleClose
  /\ UNCHANGED <<idleTime, phase, stall, mainPC, tasks, timerVars>>

(* The end of handleClose: timer.Load() and Stop of that timer, which takes *)
(* it out of the wheel unless it has fired.                                 *)
StopTimer ==
  /\ loopPC = "stop"
  /\ loopPC' = "ready"
  /\ rem' = [k \in Timers |-> IF k = timer THEN NotArmed ELSE rem[k]]
  /\ UNCHANGED <<idleTime, clockVars, mainPC, tasks, registered, connVars, timer, cb>>

(* Close, from a goroutine that got the connection in OnConnect. *)
UserClose ==
  /\ registered /\ connected /\ Len(tasks) < MaxTasks
  /\ tasks' = Append(tasks, "close")
  /\ UNCHANGED <<idleTime, clockVars, mainPC, loopPC, registered, connVars, timerVars>>

LoopStep == RunRegister \/ RunClose \/ StopTimer

Next ==
  /\ ~fatal
  /\ \/ Tick \/ MainStep \/ LoopStep \/ Event \/ CloseEvent \/ UserClose
     \/ \E k \in Timers : CallbackStep(k)

(* Time passes; the accepting goroutine, the loop and a started callback go *)
(* on, and the wheel fires every timer that is due.  Nothing makes the peer *)
(* send or the user close.                                                  *)
Fairness ==
  /\ WF_vars(~fatal /\ Tick)
  /\ WF_vars(~fatal /\ MainStep)
  /\ WF_vars(~fatal /\ LoopStep)
  /\ \A k \in Timers : WF_vars(~fatal /\ CallbackStep(k))

Spec == Init /\ [][Next]_vars /\ Fairness
-----------------------------------------------------------------------------
TypeOK ==
  /\ idleTime \in IdleTimes /\ phase \in 0 .. Second - 1
  /\ activeAge \in 0 .. idleTime + MaxLag + Second
  /\ idle \in 0 .. idleTime /\ stall \in 0 .. idleTime
  /\ mainPC \in {"arm", "store", "queue", "done"}
  /\ decision \in {"none", "made", "overtaken"}
  /\ tasks \in Seq({"register", "timeout", "close"}) /\ loopPC \in {"ready", "stop"}
  /\ {connected, registered, fatal} \subseteq BOOLEAN
  /\ timer \in {0} \cup Timers
  /\ rem \in [Timers -> {NotArmed} \cup 0 .. idleTime + MaxLag]
  /\ cb \in [Timers -> [at : {"no", "load", "close", "queue", "connected", "arm",
                              "store"},
                        lag : 0 .. MaxLag, wait : 0 .. idleTime + MaxLag,
                        next : {0} \cup Timers]]

(* The timer closes only idle connections, whatever the delays of the wheel *)
(* and of the callback, and although events and the callback run            *)
(* concurrently (connection.go, lines 81-84, 128-130 and 148-150).  Idle is *)
(* more than idleTime less a second without an event, the second activeTime *)
(* loses to truncation.  It is so when a callback decides to close; and it  *)
(* is still so when the loop runs the close, unless an event has come since *)
(* that decision, which the code does not look at again: then the loop      *)
(* closes a connection that has just been active.                           *)
ClosedOnlyIdle ==
  [][/\ decision' = "made" /\ decision # "made" => idle > idleTime - Second
     /\ connected /\ ~connected' /\ tasks # tasks' /\ Head(tasks) = "timeout" =>
          decision = "overtaken" \/ (decision = "made" /\ idle > idleTime - Second)]_vars

(* The close that the timer queues finds the connection registered, unless  *)
(* the accepting goroutine has been held up for the whole idleTime between  *)
(* arming the timer and queueing the registration: then DeleteFdInLoop      *)
(* ends the process (connection.go, lines 67-71 and 193; server.go, lines   *)
(* 82-89).                                                                  *)
FatalOnlyWhenStalled == fatal => stall >= idleTime

(* An idle connection is closed: either events keep coming, or it ends,     *)
(* however late timers fire (lines 79-92).                                  *)
IdleIsClosed == []<><<Event>>_vars \/ <>(~connected \/ fatal)

(* handleClose stops the timer it finds in c.timer while a callback may be  *)
(* about to replace it; still no timer and no callback outlives the         *)
(* connection for ever and keeps its object alive (lines 86-89, 202-205).   *)
TimersEnd ==
  ~connected ~> (fatal \/ \A k \in Timers : rem[k] = NotArmed /\ cb[k].at = "no")
=============================================================================
