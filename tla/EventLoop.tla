----------------------------- MODULE EventLoop -----------------------------
(***************************************************************************)
(* The event loop of eventloop/eventloop.go on top of its poller: tasks    *)
(* queued by any goroutine with QueueInLoop, the loop goroutine that runs  *)
(* them in handlerEvent(-1), and Stop.  The actions of Poller are used as  *)
(* they are; HandleWake becomes the steps of handlerEvent and              *)
(* doPendingFunc.                                                          *)
(*                                                                         *)
(* qpc[t] is the place of thread t in QueueInLoop:                         *)
(*   idle    not in QueueInLoop                                            *)
(*   locked  mu is held and taskQueueW has been read for the append        *)
(*   cas     mu is released, before needWake.CompareAndSwap                *)
(*   wake    the CompareAndSwap succeeded, before poll.Wake                *)
(* loopPC is the place of the loop goroutine in handlerEvent(-1):          *)
(*   entry     before needWake.Store(true), or not in handlerEvent(-1)     *)
(*   swap      in doPendingFunc, before mu.Lock                            *)
(*   swapping  mu is held                                                  *)
(*   run       between two tasks of taskQueueR                             *)
(*   task      inside a task                                               *)
(***************************************************************************)
EXTENDS Poller, Sequences

CONSTANTS
  Callers,   \* goroutines that call QueueInLoop: the main loop, timers, users
  Loop,      \* the goroutine of this loop
  Stopper,   \* the goroutine that calls Stop
  MaxTasks   \* bound on the number of tasks queued

Threads == Callers \cup {Loop, Stopper}

ASSUME EventLoopAssumption ==
  /\ Loop \notin Callers
  /\ Stopper \notin Callers \cup {Loop}
  /\ Closers = {Stopper}
  /\ MaxTasks \in Nat

VARIABLES
  needWake,    \* el.needWake
  lock,        \* el.mu: the word of the spin lock is 1
  taskQueueW,  \* queue QueueInLoop appends to
  taskQueueR,  \* queue doPendingFunc runs
  next,        \* doPendingFunc's index i, from 1
  loopPC,      \* place of the loop in handlerEvent(-1)
  qpc,         \* place of each thread in QueueInLoop
  snap,        \* the slice a thread read for its append
  submitted,   \* number of tasks appended so far
  executed,    \* tasks run, oldest first
  stopCalled,  \* Stop has been called
  fatal        \* log.Fatal has ended the process

queueVars == <<needWake, lock, taskQueueW, taskQueueR, next, loopPC, qpc, snap,
               submitted, executed, stopCalled, fatal>>
vars == <<pollerVars, queueVars>>

Init ==
  /\ PollerInit
  /\ needWake = TRUE
  /\ lock = FALSE
  /\ taskQueueW = <<>>
  /\ taskQueueR = <<>>
  /\ next = 1
  /\ loopPC = "entry"
  /\ qpc = [t \in Threads |-> "idle"]
  /\ snap = [t \in Threads |-> <<>>]
  /\ submitted = 0
  /\ executed = <<>>
  /\ stopCalled = FALSE
  /\ fatal = FALSE
-----------------------------------------------------------------------------
(* QueueInLoop *)

(* The loop calls it from a socket's callback or from a task, Stop once. *)
MayQueue(t) ==
  CASE t = Loop    -> pollPC = "callback" \/ loopPC = "task"
    [] t = Stopper -> ~stopCalled
    [] OTHER       -> TRUE

(* mu.Lock, and the read of taskQueueW that append makes. *)
LockQueue(t) ==
  /\ qpc[t] = "idle"
  /\ MayQueue(t)
  /\ submitted < MaxTasks
  /\ ~lock
  /\ lock' = TRUE
  /\ snap' = [snap EXCEPT ![t] = taskQueueW]
  /\ qpc' = [qpc EXCEPT ![t] = "locked"]
  /\ stopCalled' = (stopCalled \/ t = Stopper)
  /\ UNCHANGED <<pollerVars, needWake, taskQueueW, taskQueueR, next, loopPC,
                 submitted, executed, fatal>>

(* The append is stored and mu released. *)
AppendUnlock(t) ==
  /\ qpc[t] = "locked"
  /\ taskQueueW' = Append(snap[t], submitted + 1)
  /\ submitted' = submitted + 1
  /\ lock' = FALSE
  /\ snap' = [snap EXCEPT ![t] = <<>>]
  /\ qpc' = [qpc EXCEPT ![t] = "cas"]
  /\ UNCHANGED <<pollerVars, needWake, taskQueueR, next, loopPC, executed,
                 stopCalled, fatal>>

(* Mutant: every QueueInLoop wakes the loop. *)
CasAlwaysWakes(t) ==
  /\ qpc[t] = "cas"
  /\ needWake' = FALSE
  /\ qpc' = [qpc EXCEPT ![t] = "wake"]
  /\ UNCHANGED <<pollerVars, lock, taskQueueW, taskQueueR, next, loopPC, snap,
                 submitted, executed, stopCalled, fatal>>

CasNeedWake(t) ==
  /\ qpc[t] = "cas"
  /\ needWake' = FALSE
  /\ qpc' = [qpc EXCEPT ![t] = IF needWake THEN "wake" ELSE "idle"]
  /\ UNCHANGED <<pollerVars, lock, taskQueueW, taskQueueR, next, loopPC, snap,
                 submitted, executed, stopCalled, fatal>>

(* poll.Wake; its error, when the eventfd is closed, is fatal. *)
WakeLoop(t) ==
  /\ qpc[t] = "wake"
  /\ qpc' = [qpc EXCEPT ![t] = "idle"]
  /\ \/ Wake /\ UNCHANGED fatal
     \/ ~fdsOpen /\ fatal' = TRUE /\ UNCHANGED pollerVars
  /\ UNCHANGED <<needWake, lock, taskQueueW, taskQueueR, next, loopPC, snap,
                 submitted, executed, stopCalled>>

QueueStep(t) ==
  LockQueue(t) \/ AppendUnlock(t) \/ CasNeedWake(t) \/ WakeLoop(t)
-----------------------------------------------------------------------------

(* Mutant: needWake.Store(true) is forgotten. *)
NeedWakeNotStored ==
  /\ pollPC = "handle"
  /\ loopPC = "entry"
  /\ loopPC' = "swap"
  /\ UNCHANGED <<pollerVars, needWake, lock, taskQueueW, taskQueueR, next, qpc,
                 snap, submitted, executed, stopCalled, fatal>>

(* handlerEvent(-1, 0) and doPendingFunc *)

StoreNeedWake ==
  /\ pollPC = "handle"
  /\ loopPC = "entry"
  /\ needWake' = TRUE
  /\ loopPC' = "swap"
  /\ UNCHANGED <<pollerVars, lock, taskQueueW, taskQueueR, next, qpc, snap,
                 submitted, executed, stopCalled, fatal>>

(* Mutant: doPendingFunc swaps without waiting for mu. *)
LockSwapNoSpin ==
  /\ loopPC = "swap"
  /\ lock' = TRUE
  /\ loopPC' = "swapping"
  /\ UNCHANGED <<pollerVars, needWake, taskQueueW, taskQueueR, next, qpc, snap,
                 submitted, executed, stopCalled, fatal>>

LockSwap ==
  /\ loopPC = "swap"
  /\ ~lock
  /\ lock' = TRUE
  /\ loopPC' = "swapping"
  /\ UNCHANGED <<pollerVars, needWake, taskQueueW, taskQueueR, next, qpc, snap,
                 submitted, executed, stopCalled, fatal>>

SwapUnlock ==
  /\ loopPC = "swapping"
  /\ taskQueueW' = taskQueueR
  /\ taskQueueR' = taskQueueW
  /\ lock' = FALSE
  /\ next' = 1
  /\ loopPC' = "run"
  /\ UNCHANGED <<pollerVars, needWake, qpc, snap, submitted, executed,
                 stopCalled, fatal>>

RunTask ==
  /\ loopPC = "run"
  /\ next <= Len(taskQueueR)
  /\ executed' = Append(executed, taskQueueR[next])
  /\ next' = next + 1
  /\ loopPC' = "task"
  /\ UNCHANGED <<pollerVars, needWake, lock, taskQueueW, taskQueueR, qpc, snap,
                 submitted, stopCalled, fatal>>

TaskReturns ==
  /\ loopPC = "task"
  /\ qpc[Loop] = "idle"
  /\ loopPC' = "run"
  /\ UNCHANGED <<pollerVars, needWake, lock, taskQueueW, taskQueueR, next, qpc,
                 snap, submitted, executed, stopCalled, fatal>>

(* Mutant: the index survives from one doPendingFunc to the next. *)
ClearTasksKeepIndex ==
  /\ loopPC = "run"
  /\ next > Len(taskQueueR)
  /\ taskQueueR' = <<>>
  /\ loopPC' = "entry"
  /\ HandleWake
  /\ UNCHANGED <<needWake, lock, taskQueueW, next, qpc, snap, submitted,
                 executed, stopCalled, fatal>>

(* taskQueueR[:0], and handle(-1, 0) returns to Poll. *)
ClearTasks ==
  /\ loopPC = "run"
  /\ next > Len(taskQueueR)
  /\ taskQueueR' = <<>>
  /\ next' = 1
  /\ loopPC' = "entry"
  /\ HandleWake
  /\ UNCHANGED <<needWake, lock, taskQueueW, qpc, snap, submitted, executed,
                 stopCalled, fatal>>

HandlerStep ==
  \/ StoreNeedWake
  \/ LockSwap
  \/ SwapUnlock
  \/ RunTask
  \/ TaskReturns
  \/ ClearTasks
-----------------------------------------------------------------------------
(* The poller's own steps.  A callback that is inside QueueInLoop goes on   *)
(* there first; descriptors are registered from callbacks and from tasks.   *)
LoopPollStep ==
  /\ PollStep
  /\ pollPC = "callback" => qpc[Loop] = "idle"
  /\ UNCHANGED queueVars

LoopControlStep ==
  /\ ControlStep
  /\ pollPC = "handle" => loopPC = "task"
  /\ UNCHANGED queueVars

KernelStep == (\E fd \in Fds : BecomesReady(fd)) /\ UNCHANGED queueVars

(* Stop: QueueInLoop(close all sockets), then poll.Close(). *)
StopStep ==
  /\ stopCalled
  /\ qpc[Stopper] = "idle"
  /\ CloseStep(Stopper)
  /\ UNCHANGED queueVars

Next ==
  /\ ~fatal
  /\ \/ \E t \in Threads : QueueStep(t)
     \/ HandlerStep
     \/ LoopPollStep
     \/ LoopControlStep
     \/ KernelStep
     \/ StopStep

SafetySpec == Init /\ [][Next]_vars

(* The Go scheduler runs every goroutine that can go on: the loop once Run  *)
(* has been called, a thread inside QueueInLoop, and Stop.                  *)
Fairness ==
  /\ WF_vars(~fatal /\ pollPC # "new" /\ LoopPollStep)
  /\ WF_vars(~fatal /\ HandlerStep)
  /\ \A t \in Threads : WF_vars(~fatal /\ qpc[t] # "idle" /\ QueueStep(t))
  /\ WF_vars(~fatal /\ StopStep)

Spec == SafetySpec /\ Fairness
-----------------------------------------------------------------------------
TypeOK ==
  /\ PollerTypeOK
  /\ needWake \in BOOLEAN
  /\ lock \in BOOLEAN
  /\ taskQueueW \in Seq(Nat)
  /\ taskQueueR \in Seq(Nat)
  /\ next \in 1 .. Len(taskQueueR) + 1
  /\ loopPC \in {"entry", "swap", "swapping", "run", "task"}
  /\ qpc \in [Threads -> {"idle", "locked", "cas", "wake"}]
  /\ snap \in [Threads -> Seq(Nat)]
  /\ submitted \in Nat
  /\ executed \in Seq(Nat)
  /\ stopCalled \in BOOLEAN
  /\ fatal \in BOOLEAN

(* The spin lock keeps the append of QueueInLoop and the swap of            *)
(* doPendingFunc apart: of all the threads and the loop's own swap, at most *)
(* one is between Lock and Unlock of mu (lines 118-120 and 140-142).        *)
MutualExclusion ==
  /\ \A t, u \in Threads : qpc[t] = "locked" /\ qpc[u] = "locked" => t = u
  /\ loopPC = "swapping" => \A t \in Threads : qpc[t] # "locked"

(* No lost wake-up: whenever the loop is back in EpollWait with a task in   *)
(* taskQueueW, the eventfd is readable or some thread inside QueueInLoop is *)
(* bound to write it.  This is what the order of handlerEvent protects:     *)
(* needWake is set again before the queues are swapped (lines 135-136),     *)
(* while QueueInLoop appends before its CompareAndSwap (lines 118-122).     *)
NoLostWakeup ==
  pollPC = "wait" /\ taskQueueW # <<>> =>
    \/ eventFd > 0
    \/ \E t \in Threads : qpc[t] = "wake" \/ (qpc[t] = "cas" /\ needWake)

(* Wake-ups are coalesced: however many tasks are queued, at most one write *)
(* of the eventfd is pending or unread, besides the one of Close.  needWake *)
(* exists for this (line 122).                                              *)
WakesCoalesced ==
  eventFd + Cardinality({t \in Threads : qpc[t] = "wake"})
    <= IF closePC[Stopper] \in {"woken", "closed"} THEN 2 ELSE 1

(* The loop implements the abstract task queue: the tasks of taskQueueR not *)
(* started yet, followed by those of taskQueueW, are the pending ones.  In  *)
(* particular tasks run in the order of submission, none twice, and none    *)
(* is left behind while the loop runs (lines 117-150).                      *)
Pending == SubSeq(taskQueueR, next, Len(taskQueueR)) \o taskQueueW
TQ == INSTANCE TaskQueue WITH open <- running, pending <- Pending
ImplementsTaskQueue == TQ!Spec
ImplementsTaskQueueSafely == TQ!SafetySpec

(* Tasks run in the order in which mu was taken to append them, and every   *)
(* task is either executed or still in one of the two slices: none is lost  *)
(* by an append that raced the swap of doPendingFunc, and none runs twice.  *)
TasksInOrder == TQ!InOrder

(* No call of QueueInLoop ends the process: the Wake it makes finds the     *)
(* eventfd open (the error branch of lines 123-125 is not taken).           *)
NeverFatal == ~fatal
=============================================================================
