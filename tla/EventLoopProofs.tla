-------------------------- MODULE EventLoopProofs --------------------------
(***************************************************************************)
(* Theorems about Poller, for any set of descriptors and of closers, and   *)
(* about EventLoop, for any set of calling goroutines and any number of    *)
(* tasks: type correctness, descriptors open while they are used, mutual   *)
(* exclusion of mu, no lost wake-up, and the refinement of the abstract    *)
(* TaskQueue.                                                              *)
(***************************************************************************)
EXTENDS EventLoop, SequenceTheorems, FiniteSetTheorems, TLAPS
-----------------------------------------------------------------------------
(* The poller. The lemmas on a single step are stated for                   *)
(* [PollerNext]_pollerVars, to be used for the poller in the event loop.    *)

(* The descriptors are closed only after Poll has returned: CloseFds waits  *)
(* for waitDone, and only the return of Poll closes that channel.           *)
FdsInv ==
  /\ waitDone => pollPC = "returned"
  /\ ~fdsOpen => waitDone

LEMMA PollerInitTyped == PollerInit => PollerTypeOK /\ FdsInv
<1> SUFFICES ASSUME PollerInit PROVE PollerTypeOK /\ FdsInv
  OBVIOUS
<1> USE DEF PollerInit
<1>1. eventsLen \in Nat \ {0}
  BY PollerAssumption
<1>2. closePC \in [Closers -> ClosePlaces]
  BY DEF ClosePlaces
<1>3. FdsInv
  BY DEF FdsInv
<1> QED
  BY <1>1, <1>2, <1>3 DEF PollerTypeOK, PollPlaces

(* Every step of the poller, of its handler and of Close keeps the types. *)
LEMMA PollerTypeStep ==
  PollerTypeOK /\ [PollerNext]_pollerVars => PollerTypeOK'
<1> SUFFICES ASSUME PollerTypeOK, [PollerNext]_pollerVars
             PROVE  PollerTypeOK'
  OBVIOUS
<1> USE DEF PollerTypeOK, PollPlaces, ClosePlaces
<1>1. CASE PollStart
  BY <1>1 DEF PollStart
<1>2. CASE EpollReturns
  <2>1. ReadyEvents \subseteq Fds \cup {EventFd}
    BY DEF ReadyEvents
  <2>2. batch' \subseteq Fds \cup {EventFd} /\ full' \in BOOLEAN
    BY <1>2, <2>1 DEF EpollReturns
  <2> QED
    BY <1>2, <2>2 DEF EpollReturns
<1>3. CASE EpollTimeout
  BY <1>3 DEF EpollTimeout
<1>4. CASE \E fd \in Fds : HandleFd(fd)
  BY <1>4 DEF HandleFd
<1>5. CASE CallbackReturns
  BY <1>5 DEF CallbackReturns
<1>6. CASE WakeHandlerRead
  BY <1>6 DEF WakeHandlerRead
<1>7. CASE EndBatch
  BY <1>7 DEF EndBatch, GrowEvents
<1>8. CASE CheckRunning
  <2>1. pollPC' \in PollPlaces /\ waitDone' \in BOOLEAN /\ wake' \in BOOLEAN
    BY <1>8 DEF CheckRunning
  <2>2. eventsLen' \in Nat \ {0}
    BY <1>8 DEF CheckRunning, GrowEvents
  <2>3. UNCHANGED <<running, eventFd, watched, ready, blocking, batch, full,
                    fdsOpen, closePC>>
    BY <1>8 DEF CheckRunning
  <2> QED
    BY <2>1, <2>2, <2>3
<1>9. CASE HandleWake
  BY <1>9 DEF HandleWake
<1>10. CASE ControlStep
  BY <1>10 DEF ControlStep, AddRead, Remove
<1>11. CASE \E fd \in Fds : BecomesReady(fd)
  BY <1>11 DEF BecomesReady
<1>12. CASE Wake
  BY <1>12 DEF Wake
<1>13. CASE \E c \in Closers : CloseStep(c)
  <2> PICK c \in Closers : CloseStep(c)
    BY <1>13
  <2>1. CASE CloseLoad(c)
    BY <2>1 DEF CloseLoad
  <2>2. CASE CloseStore(c)
    BY <2>2 DEF CloseStore
  <2>3. CASE CloseWake(c)
    BY <2>3 DEF CloseWake
  <2>4. CASE CloseFds(c)
    BY <2>4 DEF CloseFds
  <2> QED
    BY <2>1, <2>2, <2>3, <2>4 DEF CloseStep
<1>14. CASE UNCHANGED pollerVars
  BY <1>14 DEF pollerVars
<1> QED
  BY <1>1, <1>2, <1>3, <1>4, <1>5, <1>6, <1>7, <1>8, <1>9, <1>10, <1>11,
     <1>12, <1>13, <1>14 DEF PollerNext, PollStep

LEMMA FdsStep == FdsInv /\ [PollerNext]_pollerVars => FdsInv'
<1> SUFFICES ASSUME FdsInv, [PollerNext]_pollerVars PROVE FdsInv'
  OBVIOUS
<1> USE DEF FdsInv
<1>1. CASE PollStep
  BY <1>1 DEF PollStep, PollStart, EpollReturns, EpollTimeout, HandleFd,
              CallbackReturns, WakeHandlerRead, EndBatch, CheckRunning
<1>2. CASE HandleWake
  BY <1>2 DEF HandleWake
<1>3. CASE ControlStep
  BY <1>3 DEF ControlStep, AddRead, Remove
<1>4. CASE \E fd \in Fds : BecomesReady(fd)
  BY <1>4 DEF BecomesReady
<1>5. CASE Wake
  BY <1>5 DEF Wake
<1>6. CASE \E c \in Closers : CloseStep(c)
  BY <1>6 DEF CloseStep, CloseLoad, CloseStore, CloseWake, CloseFds
<1>7. CASE UNCHANGED pollerVars
  BY <1>7 DEF pollerVars
<1> QED
  BY <1>1, <1>2, <1>3, <1>4, <1>5, <1>6, <1>7 DEF PollerNext

(* Type correctness of the poller. *)
THEOREM PollerTypeCorrect == PollerSafetySpec => []PollerTypeOK
<1>1. PollerInit => PollerTypeOK
  BY PollerInitTyped
<1>2. PollerTypeOK /\ [PollerNext]_pollerVars => PollerTypeOK'
  BY PollerTypeStep
<1> QED
  BY <1>1, <1>2, PTL DEF PollerSafetySpec

(* Close never takes the descriptors away from a running Poll (epoll.go,    *)
(* lines 77-89 and 129-190), whatever number of goroutines call Close.      *)
THEOREM PollerFdsOpen == PollerSafetySpec => []FdsOpenWhilePolling
<1>1. PollerInit => FdsInv
  BY PollerInitTyped
<1>2. FdsInv /\ [PollerNext]_pollerVars => FdsInv'
  BY FdsStep
<1>3. FdsInv => FdsOpenWhilePolling
  BY DEF FdsInv, FdsOpenWhilePolling
<1> QED
  BY <1>1, <1>2, <1>3, PTL DEF PollerSafetySpec
-----------------------------------------------------------------------------
(* Lemmas about the two halves of the queue. *)

(* Appending to the write slice appends to the pending tasks. *)
LEMMA AppendToConcat ==
  \A s, t \in Seq(Nat) : \A e \in Nat : s \o Append(t, e) = Append(s \o t, e)
  OBVIOUS

(* The head of a concatenation whose first part is not empty. *)
LEMMA HeadTailOfConcat ==
  ASSUME NEW S, NEW s \in Seq(S), NEW t \in Seq(S), s # <<>>
  PROVE  /\ s \o t # <<>>
         /\ Head(s \o t) = Head(s)
         /\ Tail(s \o t) = Tail(s) \o t
<1> DEFINE u == s \o t
<1>1. /\ u \in Seq(S) /\ Len(u) = Len(s) + Len(t)
      /\ \A i \in 1 .. Len(s) + Len(t) :
           u[i] = IF i <= Len(s) THEN s[i] ELSE t[i - Len(s)]
  BY ConcatProperties
<1>2. Len(s) \in Nat \ {0} /\ Len(t) \in Nat
  BY EmptySeq, LenProperties
<1>3. u # <<>>
  BY <1>1, <1>2, EmptySeq
<1>4. Head(u) = u[1] /\ Head(s) = s[1]
  BY <1>1
<1>5. u[1] = s[1]
  BY <1>1, <1>2
<1>6. /\ Tail(u) \in Seq(S) /\ Len(Tail(u)) = Len(u) - 1
      /\ \A i \in 1 .. Len(Tail(u)) : Tail(u)[i] = u[i + 1]
  BY <1>1, <1>3, HeadTailProperties
<1>7. /\ Tail(s) \in Seq(S) /\ Len(Tail(s)) = Len(s) - 1
      /\ \A i \in 1 .. Len(Tail(s)) : Tail(s)[i] = s[i + 1]
  BY HeadTailProperties
<1>8. /\ Tail(s) \o t \in Seq(S)
      /\ Len(Tail(s) \o t) = Len(Tail(s)) + Len(t)
      /\ \A i \in 1 .. Len(Tail(s)) + Len(t) :
           (Tail(s) \o t)[i] = IF i <= Len(Tail(s)) THEN Tail(s)[i]
                               ELSE t[i - Len(Tail(s))]
  BY <1>7, ConcatProperties
<1>9. Tail(u) = Tail(s) \o t
  <2>1. Len(Tail(u)) = Len(Tail(s) \o t)
    BY <1>1, <1>2, <1>6, <1>7, <1>8
  <2>2. ASSUME NEW i \in 1 .. Len(Tail(u))
        PROVE  Tail(u)[i] = (Tail(s) \o t)[i]
    <3>1. Tail(u)[i] = u[i + 1] /\ i + 1 \in 1 .. Len(s) + Len(t)
      BY <1>1, <1>2, <1>6
    <3>2. i \in 1 .. Len(Tail(s)) + Len(t)
      BY <1>1, <1>2, <1>6, <1>7
    <3>3. CASE i <= Len(s) - 1
      <4>1. u[i + 1] = s[i + 1]
        BY <3>1, <3>3, <1>1, <1>2
      <4>2. (Tail(s) \o t)[i] = Tail(s)[i] /\ Tail(s)[i] = s[i + 1]
        BY <3>2, <3>3, <1>2, <1>7, <1>8
      <4> QED
        BY <3>1, <4>1, <4>2
    <3>4. CASE ~(i <= Len(s) - 1)
      <4>1. u[i + 1] = t[i + 1 - Len(s)]
        BY <3>1, <3>4, <1>1, <1>2
      <4>2. (Tail(s) \o t)[i] = t[i - (Len(s) - 1)]
        BY <3>2, <3>4, <1>2, <1>7, <1>8
      <4>3. i + 1 - Len(s) = i - (Len(s) - 1)
        BY <1>2
      <4> QED
        BY <3>1, <4>1, <4>2, <4>3
    <3> QED
      BY <3>3, <3>4
  <2> QED
    BY <2>1, <2>2, <1>6, <1>8, SeqEqual
<1> QED
  BY <1>3, <1>4, <1>5, <1>9

(* A task taken from the read slice is the head of the pending tasks. *)
LEMMA TakeFromConcat ==
  ASSUME NEW S, NEW r \in Seq(S), NEW w \in Seq(S), NEW n \in 1 .. Len(r)
  PROVE  LET p == SubSeq(r, n, Len(r)) \o w
         IN  /\ p # <<>>
             /\ Head(p) = r[n]
             /\ Tail(p) = SubSeq(r, n + 1, Len(r)) \o w
<1> DEFINE rest == SubSeq(r, n, Len(r))
<1>1. Len(r) \in Nat /\ Len(r) \in n .. Len(r)
  BY LenProperties
<1>2. Head(rest) = r[n] /\ Tail(rest) = SubSeq(r, n + 1, Len(r))
  BY <1>1, HeadTailOfSubSeq
<1>3. rest \in Seq(S) /\ Len(rest) = Len(r) - n + 1
  <2>1. \A i \in n .. Len(r) : r[i] \in S
    BY <1>1, ElementOfSeq
  <2> QED
    BY <1>1, <2>1, SubSeqProperties
<1> HIDE DEF rest
<1>4. rest # <<>>
  BY <1>1, <1>3, EmptySeq
<1>5. rest \o w # <<>> /\ Head(rest \o w) = Head(rest)
      /\ Tail(rest \o w) = Tail(rest) \o w
  BY <1>3, <1>4, HeadTailOfConcat
<1> QED
  BY <1>2, <1>5 DEF rest

(* The two ways in which the sequence of all tasks, executed and pending,   *)
(* changes: one more is appended, or the oldest pending one is executed.    *)
LEMMA AppendNext ==
  ASSUME NEW u \in Seq(Nat), NEW n \in Nat, u = [k \in 1 .. n |-> k]
  PROVE  Append(u, n + 1) = [k \in 1 .. n + 1 |-> k]
<1> DEFINE v == [k \in 1 .. n + 1 |-> k]
<1>2. Len(u) = n /\ \A k \in 1 .. n : u[k] = k
  <2>1. DOMAIN u = 1 .. Len(u) /\ Len(u) \in Nat
    BY LenProperties
  <2>2. DOMAIN u = 1 .. n
    OBVIOUS
  <2> QED
    BY <2>1, <2>2
<1>3. v \in Seq(Nat) /\ Len(v) = n + 1
  <2>1. v \in [1 .. n + 1 -> Nat]
    OBVIOUS
  <2>2. v \in Seq(Nat)
    BY <2>1, SeqDef, n + 1 \in Nat
  <2>3. DOMAIN v = 1 .. Len(v) /\ Len(v) \in Nat
    BY <2>2, LenProperties
  <2> QED
    BY <2>1, <2>2, <2>3
<1>4. /\ Append(u, n + 1) \in Seq(Nat)
      /\ Len(Append(u, n + 1)) = n + 1
      /\ \A k \in 1 .. n : Append(u, n + 1)[k] = k
      /\ Append(u, n + 1)[n + 1] = n + 1
  BY <1>2, AppendProperties, n + 1 \in Nat
<1>5. \A k \in 1 .. n + 1 : Append(u, n + 1)[k] = v[k]
  BY <1>4
<1> QED
  BY <1>3, <1>4, <1>5, SeqEqual

LEMMA ExecuteKeepsOrder ==
  ASSUME NEW E \in Seq(Nat), NEW P \in Seq(Nat), P # <<>>
  PROVE  Append(E, Head(P)) \o Tail(P) = E \o P
<1>1. Head(P) \in Nat /\ Tail(P) \in Seq(Nat)
  BY HeadTailProperties
<1>2. Append(E, Head(P)) = E \o <<Head(P)>> /\ <<Head(P)>> \in Seq(Nat)
  BY <1>1, AppendIsConcat
<1>3. (E \o <<Head(P)>>) \o Tail(P) = E \o (<<Head(P)>> \o Tail(P))
  BY <1>1, <1>2, ConcatAssociative
<1>4. <<Head(P)>> \o Tail(P) = P
  <2>1. Len(P) \in Nat \ {0} /\ 1 \in 1 .. Len(P) /\ Len(P) \in 1 .. Len(P)
    BY EmptySeq
  <2>2. SubSeq(P, 1, Len(P)) = <<P[1]>> \o SubSeq(P, 1 + 1, Len(P))
    BY <2>1, SubSeqRecursiveFirst
  <2>3. SubSeq(P, 1, Len(P)) = P /\ Tail(P) = SubSeq(P, 2, Len(P))
    BY SubSeqFull, TailIsSubSeq
  <2> QED
    BY <2>2, <2>3
<1> QED
  BY <1>2, <1>3, <1>4
-----------------------------------------------------------------------------
(* The inductive invariant *)

(* mu is held by whoever is in a critical section, and the slice a thread   *)
(* has read for its append is still the current one.                        *)
LockInv ==
  /\ MutualExclusion
  /\ \A t \in Threads : qpc[t] = "locked" => lock /\ snap[t] = taskQueueW
  /\ loopPC = "swapping" => lock

(* The loop is inside handlerEvent(-1) only while Poll is in handle(-1, 0), *)
(* and taskQueueR is empty except while it is being run.                    *)
PlaceInv ==
  /\ loopPC # "entry" => pollPC = "handle"
  /\ loopPC \notin {"run", "task"} => taskQueueR = <<>>

(* needWake = FALSE promises that handlerEvent(-1) will run: the eventfd is *)
(* readable, or will be written, or has been read and the call is due.      *)
WakeDue ==
  \/ eventFd > 0
  \/ \E t \in Threads : qpc[t] = "wake"
  \/ wake /\ loopPC = "entry" /\ pollPC \in {"events", "callback", "handle"}
  \/ pollPC = "returned"

(* A task in taskQueueW is about to be swapped out, or the promise above    *)
(* has been made, or its caller is about to make it.                        *)
SwapDue ==
  \/ ~needWake
  \/ \E t \in Threads : qpc[t] = "cas"
  \/ loopPC \in {"swap", "swapping"}
  \/ pollPC = "returned"

WakeInv ==
  /\ ~needWake => WakeDue
  /\ taskQueueW # <<>> => SwapDue

LoopInv == TypeOK /\ FdsInv /\ LockInv /\ PlaceInv /\ WakeInv

LEMMA LoopInvInit == Init => LoopInv
<1> SUFFICES ASSUME Init PROVE LoopInv
  OBVIOUS
<1>1. PollerTypeOK /\ FdsInv
  BY PollerInitTyped DEF Init
<1>2. TypeOK
  <2>1. taskQueueR = <<>> /\ next = 1 /\ next \in 1 .. Len(taskQueueR) + 1
    BY DEF Init
  <2>2. qpc \in [Threads -> {"idle", "locked", "cas", "wake"}]
    BY DEF Init
  <2>3. snap \in [Threads -> Seq(Nat)]
    BY DEF Init
  <2>4. taskQueueW \in Seq(Nat) /\ taskQueueR \in Seq(Nat) /\ executed \in Seq(Nat)
    BY DEF Init
  <2>5. /\ needWake \in BOOLEAN /\ lock \in BOOLEAN /\ stopCalled \in BOOLEAN
        /\ fatal \in BOOLEAN /\ submitted \in Nat /\ loopPC = "entry"
    BY DEF Init
  <2> QED
    BY <1>1, <2>1, <2>2, <2>3, <2>4, <2>5 DEF TypeOK
<1>3. LockInv
  BY DEF Init, LockInv, MutualExclusion
<1>4. PlaceInv /\ WakeInv
  BY DEF Init, PlaceInv, WakeInv
<1> QED
  BY <1>1, <1>2, <1>3, <1>4 DEF LoopInv

(* Every step of the event loop is a step of its poller, or leaves it alone. *)
LEMMA LoopStepIsPollerStep == [Next]_vars => [PollerNext]_pollerVars
<1> SUFFICES ASSUME [Next]_vars PROVE [PollerNext]_pollerVars
  OBVIOUS
<1>1. CASE \E t \in Threads : QueueStep(t)
  BY <1>1 DEF QueueStep, LockQueue, AppendUnlock, CasNeedWake, WakeLoop,
              PollerNext
<1>2. CASE HandlerStep
  BY <1>2 DEF HandlerStep, StoreNeedWake, LockSwap, SwapUnlock, RunTask,
              TaskReturns, ClearTasks, PollerNext
<1>3. CASE LoopPollStep \/ LoopControlStep \/ KernelStep
  BY <1>3 DEF LoopPollStep, LoopControlStep, KernelStep, PollerNext
<1>4. CASE StopStep
  BY <1>4, EventLoopAssumption DEF StopStep, PollerNext
<1>5. CASE UNCHANGED vars
  BY <1>5 DEF vars
<1> QED
  BY <1>1, <1>2, <1>3, <1>4, <1>5 DEF Next

LEMMA TypeStep == TypeOK /\ PlaceInv /\ [Next]_vars => TypeOK'
<1> SUFFICES ASSUME TypeOK, PlaceInv, [Next]_vars PROVE TypeOK'
  OBVIOUS
<1>1. PollerTypeOK'
  BY LoopStepIsPollerStep, PollerTypeStep DEF TypeOK
<1>2. CASE UNCHANGED queueVars
  BY <1>1, <1>2 DEF TypeOK, queueVars
<1>3. ASSUME NEW t \in Threads, LockQueue(t) PROVE TypeOK'
  <2>1. qpc' \in [Threads -> {"idle", "locked", "cas", "wake"}]
    BY <1>3 DEF LockQueue, TypeOK
  <2>2. snap' \in [Threads -> Seq(Nat)]
    BY <1>3 DEF LockQueue, TypeOK
  <2>3. lock' \in BOOLEAN /\ stopCalled' \in BOOLEAN
    BY <1>3 DEF LockQueue, TypeOK
  <2> QED
    BY <1>1, <1>3, <2>1, <2>2, <2>3 DEF LockQueue, TypeOK
<1>4. ASSUME NEW t \in Threads, AppendUnlock(t) PROVE TypeOK'
  <2>1. submitted + 1 \in Nat /\ snap[t] \in Seq(Nat)
    BY DEF TypeOK
  <2>2. taskQueueW' \in Seq(Nat) /\ submitted' \in Nat
    BY <1>4, <2>1 DEF AppendUnlock
  <2>3. qpc' \in [Threads -> {"idle", "locked", "cas", "wake"}]
    BY <1>4 DEF AppendUnlock, TypeOK
  <2>4. snap' \in [Threads -> Seq(Nat)]
    BY <1>4 DEF AppendUnlock, TypeOK
  <2> QED
    BY <1>1, <1>4, <2>2, <2>3, <2>4 DEF AppendUnlock, TypeOK
<1>5. ASSUME NEW t \in Threads, CasNeedWake(t) PROVE TypeOK'
  <2>1. qpc' \in [Threads -> {"idle", "locked", "cas", "wake"}]
    BY <1>5 DEF CasNeedWake, TypeOK
  <2> QED
    BY <1>1, <1>5, <2>1 DEF CasNeedWake, TypeOK
<1>6. ASSUME NEW t \in Threads, WakeLoop(t) PROVE TypeOK'
  <2>1. qpc' \in [Threads -> {"idle", "locked", "cas", "wake"}]
    BY <1>6 DEF WakeLoop, TypeOK
  <2>2. fatal' \in BOOLEAN
    BY <1>6 DEF WakeLoop, TypeOK
  <2> QED
    BY <1>1, <1>6, <2>1, <2>2 DEF WakeLoop, TypeOK
<1>7. CASE StoreNeedWake
  BY <1>1, <1>7 DEF StoreNeedWake, TypeOK
<1>8. CASE LockSwap
  BY <1>1, <1>8 DEF LockSwap, TypeOK
<1>9. CASE SwapUnlock
  <2>1. next' = 1 /\ taskQueueR' \in Seq(Nat) /\ next' \in 1 .. Len(taskQueueR') + 1
    BY <1>9 DEF SwapUnlock, TypeOK
  <2> QED
    BY <1>1, <1>9, <2>1 DEF SwapUnlock, TypeOK
<1>10. CASE RunTask
  <2>1. Len(taskQueueR) \in Nat /\ next \in 1 .. Len(taskQueueR)
    BY <1>10 DEF RunTask, TypeOK
  <2>2. taskQueueR[next] \in Nat
    BY <2>1, ElementOfSeq DEF TypeOK
  <2>3. next' \in 1 .. Len(taskQueueR) + 1
    BY <1>10, <2>1 DEF RunTask
  <2>4. executed' \in Seq(Nat)
    BY <1>10, <2>2 DEF RunTask, TypeOK
  <2> QED
    BY <1>1, <1>10, <2>3, <2>4 DEF RunTask, TypeOK
<1>11. CASE TaskReturns
  BY <1>1, <1>11 DEF TaskReturns, TypeOK
<1>12. CASE ClearTasks
  <2>1. taskQueueR' \in Seq(Nat) /\ next' \in 1 .. Len(taskQueueR') + 1
    BY <1>12 DEF ClearTasks
  <2> QED
    BY <1>1, <1>12, <2>1 DEF ClearTasks, TypeOK
<1>13. LoopPollStep \/ LoopControlStep \/ KernelStep \/ StopStep \/ UNCHANGED vars
         => UNCHANGED queueVars
  BY DEF LoopPollStep, LoopControlStep, KernelStep, StopStep, vars
<1> QED
  BY <1>2, <1>3, <1>4, <1>5, <1>6, <1>7, <1>8, <1>9, <1>10, <1>11, <1>12, <1>13
  DEF Next, QueueStep, HandlerStep

(* Mutual exclusion: Lock is the only way into a critical section, and it   *)
(* waits for the word to be clear; while the word is set nobody else stores *)
(* taskQueueW, so the slice read for an append stays current.               *)
LEMMA LockStep == TypeOK /\ LockInv /\ [Next]_vars => LockInv'
<1> SUFFICES ASSUME TypeOK, LockInv, [Next]_vars PROVE LockInv'
  OBVIOUS
<1> USE DEF LockInv, MutualExclusion
<1>0. DOMAIN qpc = Threads /\ DOMAIN snap = Threads
  BY DEF TypeOK
<1>1. CASE UNCHANGED queueVars
  BY <1>1 DEF queueVars
<1>2. ASSUME NEW t \in Threads, LockQueue(t) PROVE LockInv'
  BY <1>0, <1>2 DEF LockQueue
<1>3. ASSUME NEW t \in Threads, AppendUnlock(t) PROVE LockInv'
  BY <1>0, <1>3 DEF AppendUnlock
<1>4. ASSUME NEW t \in Threads, CasNeedWake(t) PROVE LockInv'
  BY <1>0, <1>4 DEF CasNeedWake
<1>5. ASSUME NEW t \in Threads, WakeLoop(t) PROVE LockInv'
  BY <1>0, <1>5 DEF WakeLoop
<1>6. CASE StoreNeedWake
  BY <1>6 DEF StoreNeedWake
<1>7. CASE LockSwap
  BY <1>7 DEF LockSwap
<1>8. CASE SwapUnlock
  BY <1>8 DEF SwapUnlock
<1>9. CASE RunTask \/ TaskReturns \/ ClearTasks
  BY <1>9 DEF RunTask, TaskReturns, ClearTasks
<1>10. LoopPollStep \/ LoopControlStep \/ KernelStep \/ StopStep \/ UNCHANGED vars
         => UNCHANGED queueVars
  BY DEF LoopPollStep, LoopControlStep, KernelStep, StopStep, vars
<1> QED
  BY <1>1, <1>2, <1>3, <1>4, <1>5, <1>6, <1>7, <1>8, <1>9, <1>10
  DEF Next, QueueStep, HandlerStep

(* Poll leaves handle(-1, 0) only through ClearTasks. *)
LEMMA PlaceStep == TypeOK /\ PlaceInv /\ [Next]_vars => PlaceInv'
<1> SUFFICES ASSUME TypeOK, PlaceInv, [Next]_vars PROVE PlaceInv'
  OBVIOUS
<1> USE DEF PlaceInv
<1>1. CASE \E t \in Threads : QueueStep(t)
  BY <1>1 DEF QueueStep, LockQueue, AppendUnlock, CasNeedWake, WakeLoop, Wake,
              pollerVars
<1>2. CASE HandlerStep
  BY <1>2 DEF HandlerStep, StoreNeedWake, LockSwap, SwapUnlock, RunTask,
              TaskReturns, ClearTasks, HandleWake, pollerVars
<1>3. CASE LoopPollStep
  <2>1. UNCHANGED <<loopPC, taskQueueR>>
    BY <1>3 DEF LoopPollStep, queueVars
  <2>2. pollPC # "handle"
    BY <1>3 DEF LoopPollStep, PollStep, PollStart, EpollReturns, EpollTimeout,
                HandleFd, CallbackReturns, WakeHandlerRead, EndBatch, CheckRunning
  <2> QED
    BY <2>1, <2>2
<1>4. CASE LoopControlStep
  BY <1>4 DEF LoopControlStep, ControlStep, AddRead, Remove, queueVars
<1>5. CASE KernelStep
  BY <1>5 DEF KernelStep, BecomesReady, queueVars
<1>6. CASE StopStep
  BY <1>6 DEF StopStep, CloseStep, CloseLoad, CloseStore, CloseWake, CloseFds,
              queueVars
<1>7. CASE UNCHANGED vars
  BY <1>7 DEF vars, pollerVars, queueVars
<1> QED
  BY <1>1, <1>2, <1>3, <1>4, <1>5, <1>6, <1>7 DEF Next

(* The promise of a wake-up is kept from the CompareAndSwap that makes it   *)
(* to the Store that ends it, and every append is covered by a promise or   *)
(* by the swap to come.                                                     *)
LEMMA WakeStep ==
  TypeOK /\ FdsInv /\ PlaceInv /\ WakeInv /\ [Next]_vars => WakeInv'
<1> SUFFICES ASSUME TypeOK, FdsInv, PlaceInv, WakeInv, [Next]_vars
             PROVE  WakeInv'
  OBVIOUS
<1> USE DEF WakeInv, WakeDue, SwapDue
<1>0. DOMAIN qpc = Threads /\ eventFd \in Nat
  BY DEF TypeOK, PollerTypeOK
<1>1. ASSUME NEW t \in Threads, LockQueue(t) PROVE WakeInv'
  <2>1. \A u \in Threads : /\ qpc[u] = "wake" => qpc'[u] = "wake"
                          /\ qpc[u] = "cas" => qpc'[u] = "cas"
    BY <1>0, <1>1 DEF LockQueue
  <2> QED
    BY <1>1, <2>1 DEF LockQueue, pollerVars
<1>2. ASSUME NEW t \in Threads, AppendUnlock(t) PROVE WakeInv'
  <2>1. qpc'[t] = "cas" /\ \A u \in Threads : qpc[u] = "wake" => qpc'[u] = "wake"
    BY <1>0, <1>2 DEF AppendUnlock
  <2> QED
    BY <1>2, <2>1 DEF AppendUnlock, pollerVars
<1>3. ASSUME NEW t \in Threads, CasNeedWake(t) PROVE WakeInv'
  <2>1. /\ needWake => qpc'[t] = "wake"
        /\ \A u \in Threads : qpc[u] = "wake" => qpc'[u] = "wake"
    BY <1>0, <1>3 DEF CasNeedWake
  <2> QED
    BY <1>3, <2>1 DEF CasNeedWake, pollerVars
<1>4. ASSUME NEW t \in Threads, WakeLoop(t) PROVE WakeInv'
  <2>1. \A u \in Threads : qpc[u] = "cas" => qpc'[u] = "cas"
    BY <1>0, <1>4 DEF WakeLoop
  <2>2. UNCHANGED <<needWake, taskQueueW, loopPC, pollPC>>
    BY <1>4 DEF WakeLoop, Wake, pollerVars
  <2>3. eventFd' > 0 \/ pollPC' = "returned"
    BY <1>0, <1>4, <2>2 DEF WakeLoop, Wake, FdsInv
  <2> QED
    BY <2>1, <2>2, <2>3
<1>5. CASE StoreNeedWake
  BY <1>5 DEF StoreNeedWake, pollerVars
<1>6. CASE LockSwap
  BY <1>6 DEF LockSwap, pollerVars
<1>7. CASE SwapUnlock
  <2>1. taskQueueW' = <<>>
    BY <1>7 DEF SwapUnlock, PlaceInv
  <2> QED
    BY <1>7, <2>1 DEF SwapUnlock, pollerVars
<1>8. CASE RunTask
  BY <1>8 DEF RunTask, pollerVars
<1>9. CASE TaskReturns
  BY <1>9 DEF TaskReturns, pollerVars
<1>10. CASE ClearTasks
  BY <1>10 DEF ClearTasks, HandleWake
<1>11. CASE LoopPollStep
  <2>1. UNCHANGED <<needWake, qpc, loopPC, taskQueueW>>
    BY <1>11 DEF LoopPollStep, queueVars
  <2>2. pollPC = "returned" => pollPC' = "returned"
    BY <1>11 DEF LoopPollStep, PollStep, PollStart, EpollReturns, EpollTimeout,
                 HandleFd, CallbackReturns, WakeHandlerRead, EndBatch, CheckRunning
  <2>3. CASE WakeHandlerRead
    BY <2>1, <2>2, <2>3 DEF WakeHandlerRead, PlaceInv
  <2>4. CASE EndBatch
    BY <2>1, <2>2, <2>4 DEF EndBatch
  <2>5. CASE PollStart \/ EpollReturns \/ EpollTimeout \/ CallbackReturns
               \/ CheckRunning \/ \E fd \in Fds : HandleFd(fd)
    BY <2>1, <2>2, <2>5 DEF PollStart, EpollReturns, EpollTimeout, HandleFd,
                            CallbackReturns, CheckRunning
  <2> QED
    BY <1>11, <2>3, <2>4, <2>5 DEF LoopPollStep, PollStep
<1>12. CASE LoopControlStep
  BY <1>12 DEF LoopControlStep, ControlStep, AddRead, Remove, queueVars
<1>13. CASE KernelStep
  BY <1>13 DEF KernelStep, BecomesReady, queueVars
<1>14. CASE StopStep
  <2>1. UNCHANGED <<pollPC, wake, needWake, qpc, loopPC, taskQueueW>>
    BY <1>14 DEF StopStep, CloseStep, CloseLoad, CloseStore, CloseWake, CloseFds,
                 queueVars
  <2>2. eventFd > 0 => eventFd' > 0
    BY <1>0, <1>14 DEF StopStep, CloseStep, CloseLoad, CloseStore, CloseWake,
                       CloseFds
  <2> QED
    BY <2>1, <2>2
<1>15. CASE UNCHANGED vars
  BY <1>15 DEF vars, pollerVars, queueVars
<1> QED
  BY <1>1, <1>2, <1>3, <1>4, <1>5, <1>6, <1>7, <1>8, <1>9, <1>10, <1>11,
     <1>12, <1>13, <1>14, <1>15
  DEF Next, QueueStep, HandlerStep

LEMMA LoopInvStep == LoopInv /\ [Next]_vars => LoopInv'
  BY TypeStep, FdsStep, LockStep, PlaceStep, WakeStep, LoopStepIsPollerStep
  DEF LoopInv

LEMMA LoopInvariant == SafetySpec => []LoopInv
  BY LoopInvInit, LoopInvStep, PTL DEF SafetySpec
-----------------------------------------------------------------------------
(* Type correctness of the event loop. *)
THEOREM TypeCorrect == SafetySpec => []TypeOK
<1>1. LoopInv => TypeOK
  BY DEF LoopInv
<1> QED
  BY <1>1, LoopInvariant, PTL

(* Appends and the swap exclude each other, for any number of threads. *)
THEOREM LockIsExclusive == SafetySpec => []MutualExclusion
<1>1. LoopInv => MutualExclusion
  BY DEF LoopInv, LockInv
<1> QED
  BY <1>1, LoopInvariant, PTL

(* No wake-up is ever lost, for any number of threads and tasks. *)
THEOREM WakeupNeverLost == SafetySpec => []NoLostWakeup
<1>1. LoopInv => NoLostWakeup
  BY DEF LoopInv, WakeInv, WakeDue, SwapDue, PlaceInv, NoLostWakeup
<1> QED
  BY <1>1, LoopInvariant, PTL

(* The poller's descriptors stay open while the loop runs, Stop included. *)
THEOREM LoopFdsOpen == SafetySpec => []FdsOpenWhilePolling
<1>1. LoopInv => FdsOpenWhilePolling
  BY DEF LoopInv, FdsInv, FdsOpenWhilePolling
<1> QED
  BY <1>1, LoopInvariant, PTL
-----------------------------------------------------------------------------
(* The refinement of TaskQueue *)

LEMMA PendingTyped == TypeOK => Pending \in Seq(Nat)
<1> SUFFICES ASSUME TypeOK PROVE Pending \in Seq(Nat)
  OBVIOUS
<1>1. next \in Nat \ {0} /\ Len(taskQueueR) \in Nat
  BY LenProperties DEF TypeOK
<1>2. \A i \in next .. Len(taskQueueR) : taskQueueR[i] \in Nat
  BY <1>1, ElementOfSeq DEF TypeOK
<1>3. SubSeq(taskQueueR, next, Len(taskQueueR)) \in Seq(Nat)
  BY <1>1, <1>2, SubSeqProperties
<1> QED
  BY <1>3, ConcatProperties DEF Pending, TypeOK

LEMMA RefineInit == Init => TQ!Init
  BY DEF Init, PollerInit, TQ!Init, Pending

(* A thread's append is Submit, the start of a task is Execute, the start   *)
(* and the end of Poll.running are Open and Halt; the swap and everything   *)
(* else leave the pending tasks as they are.                                *)
LEMMA RefineStep == LoopInv /\ [Next]_vars => [TQ!Next]_TQ!tqVars
<1> SUFFICES ASSUME LoopInv, [Next]_vars PROVE [TQ!Next]_TQ!tqVars
  OBVIOUS
<1> USE DEF TQ!Next, TQ!tqVars
<1>0. /\ taskQueueR \in Seq(Nat) /\ taskQueueW \in Seq(Nat) /\ submitted \in Nat
      /\ next \in 1 .. Len(taskQueueR) + 1 /\ Len(taskQueueR) \in Nat
      /\ running \in BOOLEAN
  BY LenProperties DEF LoopInv, TypeOK, PollerTypeOK
<1>1. ASSUME NEW t \in Threads, AppendUnlock(t) PROVE TQ!Submit
  <2>1. snap[t] = taskQueueW
    BY <1>1 DEF AppendUnlock, LoopInv, LockInv
  <2>2. taskQueueW' = Append(taskQueueW, submitted + 1)
    BY <1>1, <2>1 DEF AppendUnlock
  <2>3. SubSeq(taskQueueR, next, Len(taskQueueR)) \in Seq(Nat)
    <3>1. \A i \in next .. Len(taskQueueR) : taskQueueR[i] \in Nat
      BY <1>0, ElementOfSeq
    <3> QED
      BY <1>0, <3>1, SubSeqProperties
  <2>4. Pending' = Append(Pending, submitted + 1)
    <3>1. submitted + 1 \in Nat
      BY <1>0
    <3>2. UNCHANGED <<taskQueueR, next>>
      BY <1>1 DEF AppendUnlock
    <3>3. SubSeq(taskQueueR, next, Len(taskQueueR)) \o taskQueueW'
            = Append(SubSeq(taskQueueR, next, Len(taskQueueR)) \o taskQueueW,
                     submitted + 1)
      <4>1. \A e \in Nat :
              SubSeq(taskQueueR, next, Len(taskQueueR)) \o Append(taskQueueW, e)
                = Append(SubSeq(taskQueueR, next, Len(taskQueueR)) \o taskQueueW, e)
        BY <1>0, <2>3, AppendToConcat
      <4> QED
        BY <2>2, <3>1, <4>1
    <3> QED
      BY <3>2, <3>3 DEF Pending
  <2>5. submitted' = submitted + 1 /\ UNCHANGED <<running, executed>>
    BY <1>1 DEF AppendUnlock, pollerVars
  <2> QED
    BY <2>4, <2>5 DEF TQ!Submit
<1>2. CASE RunTask
  <2>1. next \in 1 .. Len(taskQueueR)
    BY <1>0, <1>2 DEF RunTask
  <2>2. /\ Pending # <<>>
        /\ Head(Pending) = taskQueueR[next]
        /\ Tail(Pending) = SubSeq(taskQueueR, next + 1, Len(taskQueueR)) \o taskQueueW
    BY <1>0, <2>1, TakeFromConcat DEF Pending
  <2>3. Pending' = Tail(Pending)
    BY <1>2, <2>2 DEF RunTask, Pending
  <2>4. executed' = Append(executed, Head(Pending))
    BY <1>2, <2>2 DEF RunTask
  <2>5. UNCHANGED <<running, submitted>>
    BY <1>2 DEF RunTask, pollerVars
  <2> QED
    BY <2>2, <2>3, <2>4, <2>5 DEF TQ!Execute
<1>3. CASE SwapUnlock
  <2>1. taskQueueR = <<>> /\ taskQueueW' = <<>> /\ taskQueueR' = taskQueueW
    BY <1>3 DEF SwapUnlock, LoopInv, PlaceInv
  <2>2. next = 1 /\ next' = 1
    BY <1>0, <1>3, <2>1 DEF SwapUnlock
  <2>3. Pending = taskQueueW
    <3>1. SubSeq(taskQueueR, next, Len(taskQueueR)) = <<>>
      BY <2>1, <2>2, SubSeqFull, <1>0
    <3> QED
      BY <3>1, <1>0, ConcatEmptySeq DEF Pending
  <2>4. Pending' = taskQueueW
    <3>1. SubSeq(taskQueueW, 1, Len(taskQueueW)) = taskQueueW
      BY <1>0, SubSeqFull
    <3>2. taskQueueW \o <<>> = taskQueueW
      BY <1>0, ConcatEmptySeq
    <3> QED
      BY <2>1, <2>2, <3>1, <3>2 DEF Pending
  <2>5. UNCHANGED <<running, submitted, executed>>
    BY <1>3 DEF SwapUnlock, pollerVars
  <2> QED
    BY <2>3, <2>4, <2>5
<1>4. CASE ClearTasks
  <2>1. next > Len(taskQueueR) /\ taskQueueR' = <<>> /\ next' = 1
    BY <1>4 DEF ClearTasks
  <2>2. SubSeq(taskQueueR, next, Len(taskQueueR)) = <<>>
    BY <1>0, <2>1, SubSeqEmpty
  <2>3. SubSeq(taskQueueR', next', Len(taskQueueR')) = <<>>
    BY <2>1, SubSeqEmpty
  <2>4. UNCHANGED Pending
    BY <1>4, <2>2, <2>3 DEF Pending, ClearTasks
  <2>5. UNCHANGED <<running, submitted, executed>>
    BY <1>4 DEF ClearTasks, HandleWake
  <2> QED
    BY <2>4, <2>5
<1>5. ASSUME UNCHANGED <<taskQueueR, taskQueueW, next, submitted, executed>>
      PROVE  [TQ!Next]_TQ!tqVars
  <2>1. UNCHANGED Pending
    BY <1>5 DEF Pending
  <2>2. running \in BOOLEAN /\ running' \in BOOLEAN
    BY <1>0, LoopStepIsPollerStep, PollerTypeStep DEF LoopInv, TypeOK, PollerTypeOK
  <2> QED
    BY <1>5, <2>1, <2>2 DEF TQ!Open, TQ!Halt
<1>6. ASSUME NEW t \in Threads, LockQueue(t) \/ CasNeedWake(t) \/ WakeLoop(t)
      PROVE  UNCHANGED <<taskQueueR, taskQueueW, next, submitted, executed>>
  BY <1>6 DEF LockQueue, CasNeedWake, WakeLoop
<1>7. StoreNeedWake \/ LockSwap \/ TaskReturns \/ LoopPollStep \/ LoopControlStep
        \/ KernelStep \/ StopStep \/ UNCHANGED vars
      => UNCHANGED <<taskQueueR, taskQueueW, next, submitted, executed>>
  BY DEF StoreNeedWake, LockSwap, TaskReturns, LoopPollStep, LoopControlStep,
         KernelStep, StopStep, vars, queueVars
<1> QED
  BY <1>1, <1>2, <1>3, <1>4, <1>5, <1>6, <1>7 DEF Next, QueueStep, HandlerStep

(* QueueInLoop and doPendingFunc implement the abstract queue: appended     *)
(* tasks start in the order of their appends, each at most once.            *)
THEOREM Refinement == SafetySpec => ImplementsTaskQueueSafely
  BY RefineInit, RefineStep, LoopInvariant, PTL
  DEF SafetySpec, ImplementsTaskQueueSafely, TQ!SafetySpec

LEMMA OrderStep ==
  LoopInv /\ TasksInOrder /\ [TQ!Next]_TQ!tqVars => TasksInOrder'
<1> SUFFICES ASSUME LoopInv, TasksInOrder, [TQ!Next]_TQ!tqVars
             PROVE  TasksInOrder'
  OBVIOUS
<1> USE DEF TasksInOrder, TQ!InOrder
<1>0. Pending \in Seq(Nat) /\ executed \in Seq(Nat) /\ submitted \in Nat
  BY PendingTyped DEF LoopInv, TypeOK
<1>1. CASE TQ!Submit
  <2>1. executed \o Pending \in Seq(Nat) /\ submitted + 1 \in Nat
    BY <1>0, ConcatProperties
  <2>2. executed \o Append(Pending, submitted + 1)
          = Append(executed \o Pending, submitted + 1)
    <3>1. \A e \in Nat : executed \o Append(Pending, e) = Append(executed \o Pending, e)
      BY <1>0, AppendToConcat
    <3> QED
      BY <2>1, <3>1
  <2>3. Append(executed \o Pending, submitted + 1) = [k \in 1 .. submitted + 1 |-> k]
    BY <1>0, <2>1, AppendNext
  <2> QED
    BY <1>1, <2>2, <2>3 DEF TQ!Submit
<1>2. CASE TQ!Execute
  BY <1>0, <1>2, ExecuteKeepsOrder DEF TQ!Execute
<1>3. CASE TQ!Open \/ TQ!Halt \/ UNCHANGED TQ!tqVars
  BY <1>3 DEF TQ!Open, TQ!Halt, TQ!tqVars
<1> QED
  BY <1>1, <1>2, <1>3 DEF TQ!Next

(* No task is lost, repeated or overtaken, for any number of threads.       *)
THEOREM OrderKept == SafetySpec => []TasksInOrder
<1>1. Init => TasksInOrder
  <2> SUFFICES ASSUME Init PROVE TasksInOrder
    OBVIOUS
  <2>1. Pending = <<>> /\ executed = <<>> /\ submitted = 0
    BY DEF Init, Pending
  <2>2. [k \in 1 .. 0 |-> k] = <<>>
    OBVIOUS
  <2> QED
    BY <2>1, <2>2 DEF TasksInOrder, TQ!InOrder
<1>2. LoopInv /\ TasksInOrder /\ [Next]_vars => TasksInOrder'
  BY OrderStep, RefineStep
<1> QED
  BY <1>1, <1>2, LoopInvariant, PTL DEF SafetySpec
-----------------------------------------------------------------------------
(* Coalesced wake-ups *)

(* The threads that are about to write the eventfd. *)
Wakers == {t \in Threads : qpc[t] = "wake"}

(* handlerEvent(-1) is due to set needWake: the eventfd has been read. *)
StoreDue == wake /\ loopPC = "entry" /\ pollPC \in {"events", "callback", "handle"}

(* Whether needWake is set, as a number. *)
Held == IF needWake THEN 1 ELSE 0
(* Whether the Store is due, as a number. *)
Due == IF StoreDue THEN 1 ELSE 0

(* needWake is a token: it is given to one thread by its CompareAndSwap,    *)
(* goes with its write to the eventfd and with the loop's read of it, and   *)
(* comes back with the Store.  Close writes without it, once.               *)
Tokens == eventFd + Cardinality(Wakers) + Held + Due

(* How many tokens there may be. *)
Allowed == IF closePC[Stopper] \in {"woken", "closed"} THEN 2 ELSE 1

(* What the count of tokens needs: wake is set only while a batch that      *)
(* holds the eventfd is handled, and there are no more tokens than allowed. *)
CoalesceInv ==
  /\ pollPC \in {"new", "wait"} => ~wake
  /\ pollPC = "handle" => wake
  /\ IsFiniteSet(Wakers)
  /\ Tokens <= Allowed

(* Only a CompareAndSwap that succeeds and the write end the wait to write. *)
LEMMA WakersSame ==
  ASSUME TypeOK, NEW t \in Threads, NEW p \in {"idle", "locked", "cas"},
         qpc[t] # "wake", qpc' = [qpc EXCEPT ![t] = p]
  PROVE  Wakers' = Wakers
BY DEF TypeOK, Wakers

(* The two moves of the token between needWake, the thread and the eventfd. *)
LEMMA CasMovesToken ==
  ASSUME TypeOK, CoalesceInv, NEW t \in Threads, CasNeedWake(t)
  PROVE  CoalesceInv'
<1>1. /\ UNCHANGED <<pollPC, wake, eventFd, closePC, loopPC>> /\ needWake' = FALSE
      /\ qpc[t] = "cas" /\ qpc' = [qpc EXCEPT ![t] = IF needWake THEN "wake" ELSE "idle"]
  BY DEF CasNeedWake, pollerVars
<1>2. IsFiniteSet(Wakers) /\ Cardinality(Wakers) \in Nat /\ eventFd \in Nat
      /\ needWake \in BOOLEAN /\ Due \in 0 .. 1
  BY FS_CardinalityType DEF CoalesceInv, TypeOK, PollerTypeOK, Due
<1>3. Due' = Due /\ Allowed' = Allowed
  BY <1>1 DEF StoreDue, Due, Allowed
<1>4. CASE needWake
  <2>1. Wakers' = Wakers \cup {t} /\ t \notin Wakers
    BY <1>1, <1>4 DEF TypeOK, Wakers
  <2>2. IsFiniteSet(Wakers') /\ Cardinality(Wakers') = Cardinality(Wakers) + 1
    BY <1>2, <2>1, FS_AddElement
  <2>3. Tokens' = Tokens
    BY <1>1, <1>2, <1>3, <1>4, <2>2 DEF Tokens, Held
  <2> QED
    BY <1>1, <1>3, <2>2, <2>3 DEF CoalesceInv
<1>5. CASE ~needWake
  <2>1. Wakers' = Wakers
    BY <1>1, <1>5, WakersSame
  <2>2. Tokens' = Tokens
    BY <1>1, <1>3, <1>5, <2>1 DEF Tokens, Held
  <2> QED
    BY <1>1, <1>3, <2>1, <2>2 DEF CoalesceInv
<1> QED
  BY <1>4, <1>5

(* A write of the eventfd takes the token from the thread; at the eventfd's *)
(* limit it is lost.                                                        *)
LEMMA WriteMovesToken ==
  ASSUME TypeOK, CoalesceInv, NEW t \in Threads, WakeLoop(t)
  PROVE  CoalesceInv'
<1>1. /\ UNCHANGED <<pollPC, wake, closePC, loopPC, needWake>>
      /\ qpc[t] = "wake" /\ qpc' = [qpc EXCEPT ![t] = "idle"]
      /\ eventFd' \in {eventFd, eventFd + 1}
  BY DEF WakeLoop, Wake, pollerVars
<1>2. IsFiniteSet(Wakers) /\ Cardinality(Wakers) \in Nat /\ eventFd \in Nat
      /\ Due \in 0 .. 1
  BY FS_CardinalityType DEF CoalesceInv, TypeOK, PollerTypeOK, Due
<1>3. Due' = Due /\ Allowed' = Allowed /\ Allowed \in Nat
  BY <1>1 DEF StoreDue, Due, Allowed
<1>4. Wakers' = Wakers \ {t} /\ t \in Wakers
  BY <1>1 DEF TypeOK, Wakers
<1>5. IsFiniteSet(Wakers') /\ Cardinality(Wakers') = Cardinality(Wakers) - 1
  BY <1>2, <1>4, FS_RemoveElement
<1>6. Tokens' <= Tokens /\ Tokens \in Nat /\ Tokens' \in Int
  BY <1>1, <1>2, <1>3, <1>5 DEF Tokens, Held
<1> QED
  BY <1>1, <1>3, <1>5, <1>6 DEF CoalesceInv

(* Sums of tokens: what is left when the eventfd and the due Store lose some,*)
(* and what the allowance bounds.                                           *)
LEMMA FewerTokens ==
  ASSUME NEW e \in Nat, NEW d \in Nat, NEW a \in Nat,
         NEW e1 \in Nat, NEW d1 \in Nat, NEW a1 \in Nat,
         e1 + a <= e + a1, d1 <= d
  PROVE  e1 + d1 + a <= e + d + a1
OBVIOUS

(* The same, when eventfd and Store are bounded together. *)
LEMMA AddBoth ==
  ASSUME NEW e \in Nat, NEW d \in Nat, NEW a \in Nat,
         NEW e1 \in Nat, NEW d1 \in Nat, NEW a1 \in Nat,
         e1 + d1 <= e + d, a <= a1
  PROVE  e1 + d1 + a <= e + d + a1
OBVIOUS

(* More may be allowed. *)
LEMMA AddNoLess ==
  ASSUME NEW e \in Nat, NEW a \in Nat, NEW a1 \in Nat, a <= a1
  PROVE  e + a <= e + a1
OBVIOUS

(* The read of a written eventfd pays for the Store that it makes due. *)
LEMMA ReadPaysStore ==
  ASSUME NEW e \in Nat, NEW d \in 0 .. 1, NEW d1 \in 0 .. 1, e > 0
  PROVE  0 + d1 <= e + d
OBVIOUS

(* The bound on the tokens, from a bound on what changed. *)
LEMMA TokensAllowed ==
  ASSUME NEW e \in Nat, NEW d \in Nat, NEW a \in Nat,
         NEW e1 \in Nat, NEW d1 \in Nat, NEW a1 \in Nat,
         NEW w \in Nat, NEW h \in Nat,
         e1 + d1 + a <= e + d + a1, e + w + h + d <= a
  PROVE  e1 + w + h + d1 <= a1
OBVIOUS

(* A step that leaves needWake and the threads alone, and of the eventfd    *)
(* and the due Store makes no more tokens than are allowed after it.        *)
LEMMA TokensStep ==
  ASSUME TypeOK, CoalesceInv, needWake' = needWake, Wakers' = Wakers, eventFd' \in Nat,
         eventFd' + Due' + Allowed <= eventFd + Due + Allowed',
         pollPC' \in {"new", "wait"} => ~wake', pollPC' = "handle" => wake'
  PROVE  CoalesceInv'
<1>1. IsFiniteSet(Wakers) /\ Cardinality(Wakers) \in Nat /\ eventFd \in Nat
  BY FS_CardinalityType DEF CoalesceInv, TypeOK, PollerTypeOK
<1>2. Allowed \in Nat /\ Allowed' \in Nat
  BY DEF Allowed
<1>3. Cardinality(Wakers') = Cardinality(Wakers) /\ IsFiniteSet(Wakers')
  BY <1>1
<1>4. Due \in 0 .. 1 /\ Due' \in 0 .. 1 /\ Held \in 0 .. 1 /\ Held' = Held
  BY DEF Due, Held
<1>5. Tokens = eventFd + Cardinality(Wakers) + Held + Due
      /\ Tokens' = eventFd' + Cardinality(Wakers) + Held + Due'
  BY <1>3, <1>4 DEF Tokens
<1>6. Tokens <= Allowed
  BY DEF CoalesceInv
<1>7. /\ eventFd \in Nat /\ Due \in Nat /\ Allowed \in Nat
      /\ eventFd' \in Nat /\ Due' \in Nat /\ Allowed' \in Nat
      /\ Cardinality(Wakers) \in Nat /\ Held \in Nat
      /\ eventFd' + Due' + Allowed <= eventFd + Due + Allowed'
      /\ eventFd + Cardinality(Wakers) + Held + Due <= Allowed
  <2>1. Due \in Nat /\ Due' \in Nat /\ Held \in Nat
    BY <1>4
  <2>2. eventFd + Cardinality(Wakers) + Held + Due <= Allowed
    BY <1>5, <1>6
  <2> QED
    BY <1>1, <1>2, <2>1, <2>2
<1>8. eventFd' + Cardinality(Wakers) + Held + Due' <= Allowed'
  BY <1>7, TokensAllowed
<1>9. Tokens' <= Allowed'
  BY <1>5, <1>8
<1> QED
  BY <1>3, <1>9 DEF CoalesceInv

(* The Store gives the token back to needWake. *)
LEMMA StoreReturnsToken ==
  ASSUME TypeOK, CoalesceInv, StoreNeedWake
  PROVE  CoalesceInv'
<1>1. /\ UNCHANGED <<pollPC, wake, closePC, eventFd, qpc>> /\ needWake' = TRUE
      /\ pollPC = "handle" /\ loopPC = "entry" /\ loopPC' = "swap"
  BY DEF StoreNeedWake, pollerVars
<1>2. Wakers' = Wakers /\ Allowed' = Allowed /\ Due' = 0 /\ Due = 1
  BY <1>1 DEF Wakers, Allowed, StoreDue, Due, CoalesceInv
<1>3. IsFiniteSet(Wakers) /\ Cardinality(Wakers) \in Nat /\ eventFd \in Nat
      /\ Allowed \in Nat
  BY FS_CardinalityType DEF CoalesceInv, TypeOK, PollerTypeOK, Allowed
<1>4. Tokens' <= Tokens /\ Tokens' \in Nat /\ Tokens \in Nat
  BY <1>1, <1>2, <1>3 DEF Tokens, Held
<1> QED
  BY <1>1, <1>2, <1>3, <1>4 DEF CoalesceInv

(* Every step keeps the tokens. *)
LEMMA CoalesceStep ==
  TypeOK /\ PlaceInv /\ CoalesceInv /\ [Next]_vars => CoalesceInv'
<1> SUFFICES ASSUME TypeOK, PlaceInv, CoalesceInv, [Next]_vars PROVE CoalesceInv'
  OBVIOUS
<1>0. eventFd \in Nat /\ Allowed \in Nat /\ Stopper \in Closers
      /\ closePC \in [Closers -> ClosePlaces] /\ Due \in 0 .. 1
  BY EventLoopAssumption DEF TypeOK, PollerTypeOK, Allowed, Due
<1>1. ASSUME NEW t \in Threads, LockQueue(t) \/ AppendUnlock(t) PROVE CoalesceInv'
  <2>1. UNCHANGED <<pollPC, wake, closePC, eventFd, needWake, loopPC>>
    BY <1>1 DEF LockQueue, AppendUnlock, pollerVars
  <2>2. Wakers' = Wakers
    BY <1>1, WakersSame DEF LockQueue, AppendUnlock
  <2>3. Due' = Due /\ Allowed' = Allowed
    BY <2>1 DEF StoreDue, Due, Allowed
  <2> QED
    BY <1>0, <2>1, <2>2, <2>3, TokensStep DEF CoalesceInv
<1>2. CASE LockSwap \/ SwapUnlock \/ RunTask \/ TaskReturns \/ ClearTasks
  <2>1. /\ UNCHANGED <<wake, closePC, eventFd, needWake, qpc>>
        /\ loopPC # "entry"
        /\ (pollPC' = pollPC /\ loopPC' # "entry") \/ pollPC' = "check"
    BY <1>2 DEF LockSwap, SwapUnlock, RunTask, TaskReturns, ClearTasks, HandleWake,
                pollerVars
  <2>2. Due = 0 /\ Due' = 0 /\ Allowed' = Allowed /\ Wakers' = Wakers
    BY <2>1 DEF StoreDue, Due, Allowed, Wakers
  <2>3. (pollPC' \in {"new", "wait"} => ~wake') /\ (pollPC' = "handle" => wake')
    BY <2>1 DEF CoalesceInv
  <2>4. eventFd' \in Nat
        /\ eventFd' + Due' + Allowed <= eventFd + Due + Allowed'
    BY <1>0, <2>1, <2>2
  <2> QED
    BY <2>1, <2>2, <2>3, <2>4, TokensStep
<1>3. CASE LoopPollStep
  <2>0. UNCHANGED <<needWake, qpc, loopPC>> /\ Wakers' = Wakers
    BY <1>3 DEF LoopPollStep, queueVars, Wakers
  <2>1. CASE PollStart \/ EpollReturns \/ EpollTimeout \/ CallbackReturns \/ EndBatch
              \/ \E fd \in Fds : HandleFd(fd)
    <3>1. UNCHANGED <<eventFd, wake, closePC>>
      BY <2>1 DEF PollStart, EpollReturns, EpollTimeout, CallbackReturns, EndBatch, HandleFd
    <3>2. /\ (wake /\ pollPC' \in {"events", "callback", "handle"})
               => pollPC \in {"events", "callback", "handle"}
          /\ pollPC' \in {"new", "wait"} => ~wake'
          /\ pollPC' = "handle" => wake'
      BY <2>1 DEF PollStart, EpollReturns, EpollTimeout, CallbackReturns, EndBatch,
                  HandleFd, CoalesceInv
    <3>3. Due' <= Due /\ Due \in 0 .. 1 /\ Due' \in 0 .. 1 /\ Allowed' = Allowed
      BY <2>0, <3>1, <3>2 DEF StoreDue, Due, Allowed
    <3>4. eventFd' \in Nat
          /\ eventFd' + Due' + Allowed <= eventFd + Due + Allowed'
      <4>1. /\ eventFd \in Nat /\ Due \in Nat /\ Allowed \in Nat
            /\ eventFd' \in Nat /\ Due' \in Nat /\ Allowed' \in Nat
            /\ eventFd' + Allowed <= eventFd + Allowed' /\ Due' <= Due
        BY <1>0, <3>1, <3>3
      <4> QED
        BY <4>1, FewerTokens
    <3> QED
      BY <2>0, <3>2, <3>4, TokensStep
  <2>2. CASE WakeHandlerRead
    <3>1. /\ eventFd > 0 /\ eventFd' = 0 /\ pollPC = "events" /\ pollPC' = "events"
          /\ closePC' = closePC
      BY <2>2 DEF WakeHandlerRead
    <3>2. Allowed' = Allowed
      BY <3>1 DEF Allowed
    <3>3. eventFd' \in Nat
          /\ eventFd' + Due' + Allowed <= eventFd + Due + Allowed'
      <4>1. Due' \in 0 .. 1
        BY DEF Due
      <4>2. eventFd' + Due' <= eventFd + Due
        <5>1. eventFd \in Nat /\ Due \in 0 .. 1 /\ eventFd > 0 /\ eventFd' = 0
          BY <1>0, <3>1
        <5> QED
          BY <4>1, <5>1, ReadPaysStore
      <4>3. /\ eventFd \in Nat /\ Due \in Nat /\ Allowed \in Nat
            /\ eventFd' \in Nat /\ Due' \in Nat /\ Allowed' \in Nat
            /\ Allowed <= Allowed'
        BY <1>0, <3>1, <3>2, <4>1
      <4> QED
        BY <4>2, <4>3, AddBoth
    <3> QED
      BY <2>0, <3>1, <3>3, TokensStep
  <2>3. CASE CheckRunning
    <3>1. /\ UNCHANGED <<eventFd, closePC>> /\ wake' = FALSE /\ pollPC' # "handle"
      BY <2>3 DEF CheckRunning
    <3>2. Allowed' = Allowed /\ Due' = 0
      BY <3>1 DEF Allowed, StoreDue, Due
    <3>3. eventFd' \in Nat
          /\ eventFd' + Due' + Allowed <= eventFd + Due + Allowed'
      <4>1. /\ eventFd \in Nat /\ Due \in Nat /\ Allowed \in Nat
            /\ eventFd' \in Nat /\ Due' \in Nat /\ Allowed' \in Nat
            /\ eventFd' + Allowed <= eventFd + Allowed' /\ Due' <= Due
        BY <1>0, <3>1, <3>2
      <4> QED
        BY <4>1, FewerTokens
    <3> QED
      BY <2>0, <3>1, <3>3, TokensStep
  <2> QED
    BY <1>3, <2>1, <2>2, <2>3 DEF LoopPollStep, PollStep
<1>4. CASE LoopControlStep \/ KernelStep \/ UNCHANGED vars
  <2>1. UNCHANGED <<pollPC, wake, closePC, eventFd, needWake, loopPC, qpc>>
    BY <1>4 DEF LoopControlStep, ControlStep, AddRead, Remove, KernelStep, BecomesReady,
                vars, pollerVars, queueVars
  <2>2. Wakers' = Wakers /\ Due' = Due /\ Allowed' = Allowed
    BY <2>1 DEF Wakers, StoreDue, Due, Allowed
  <2> QED
    BY <1>0, <2>1, <2>2, TokensStep DEF CoalesceInv
<1>5. CASE StopStep
  <2>1. /\ UNCHANGED <<pollPC, wake, needWake, loopPC, qpc>>
        /\ \/ eventFd' = eventFd /\ Allowed' >= Allowed
           \/ eventFd' = eventFd + 1 /\ closePC[Stopper] = "stored" /\ closePC'[Stopper] = "woken"
    <3>1. UNCHANGED <<needWake, loopPC, qpc>> /\ CloseStep(Stopper)
      BY <1>5 DEF StopStep, queueVars
    <3>2. CASE CloseLoad(Stopper)
      BY <1>0, <3>1, <3>2 DEF CloseLoad, Allowed, ClosePlaces
    <3>3. CASE CloseStore(Stopper)
      BY <1>0, <3>1, <3>3 DEF CloseStore, Allowed, ClosePlaces
    <3>4. CASE CloseWake(Stopper)
      BY <1>0, <3>1, <3>4 DEF CloseWake, Allowed, ClosePlaces
    <3>5. CASE CloseFds(Stopper)
      BY <1>0, <3>1, <3>5 DEF CloseFds, Allowed, ClosePlaces
    <3> QED
      BY <3>1, <3>2, <3>3, <3>4, <3>5 DEF CloseStep
  <2>2. Wakers' = Wakers /\ Due' = Due
    BY <2>1 DEF Wakers, StoreDue, Due
  <2>3. Allowed' \in Nat
    BY DEF Allowed
  <2>4. eventFd' \in Nat
        /\ eventFd' + Due' + Allowed <= eventFd + Due + Allowed'
    <3>1. CASE eventFd' = eventFd /\ Allowed' >= Allowed
      <4>1. /\ eventFd \in Nat /\ Due \in Nat /\ Allowed \in Nat
            /\ eventFd' \in Nat /\ Due' \in Nat /\ Allowed' \in Nat
            /\ eventFd' + Allowed <= eventFd + Allowed' /\ Due' <= Due
        <5>1. Due \in Nat /\ Due' \in Nat /\ Due' <= Due
          BY <1>0, <2>2
        <5>2. eventFd' \in Nat /\ eventFd' + Allowed <= eventFd + Allowed'
          <6>1. eventFd \in Nat /\ Allowed \in Nat /\ Allowed' \in Nat
            BY <1>0, <2>3
          <6>2. eventFd' = eventFd /\ Allowed <= Allowed'
            BY <3>1, <6>1
          <6> QED
            BY <6>1, <6>2, AddNoLess
        <5> QED
          BY <1>0, <2>3, <5>1, <5>2
      <4> QED
        BY <4>1, FewerTokens
    <3>2. CASE eventFd' = eventFd + 1 /\ closePC[Stopper] = "stored" /\ closePC'[Stopper] = "woken"
      <4>1. Allowed = 1 /\ Allowed' = 2
        BY <3>2 DEF Allowed
      <4> QED
        BY <1>0, <2>2, <3>2, <4>1
    <3> QED
      BY <2>1, <3>1, <3>2
  <2> QED
    BY <2>1, <2>2, <2>4, TokensStep DEF CoalesceInv
<1> QED
  BY <1>1, <1>2, <1>3, <1>4, <1>5, CasMovesToken, WriteMovesToken, StoreReturnsToken
  DEF Next, QueueStep, HandlerStep

(* Wake-ups are coalesced, for any number of threads and tasks: at most one *)
(* write of the eventfd is pending or unread, besides the one of Close.     *)
THEOREM WakesCoalescedAlways == SafetySpec => []WakesCoalesced
<1>1. Init => CoalesceInv
  <2> SUFFICES ASSUME Init PROVE CoalesceInv
    OBVIOUS
  <2>1. Wakers = {}
    BY DEF Init, Wakers
  <2>2. /\ pollPC = "new" /\ wake = FALSE /\ eventFd = 0 /\ needWake = TRUE
        /\ closePC[Stopper] = "idle"
    BY EventLoopAssumption DEF Init, PollerInit
  <2>3. IsFiniteSet(Wakers) /\ Cardinality(Wakers) = 0
    BY <2>1, FS_EmptySet
  <2>4. Tokens = 1 /\ Allowed = 1
    BY <2>2, <2>3 DEF Tokens, Allowed, StoreDue, Due, Held
  <2> QED
    BY <2>2, <2>3, <2>4 DEF CoalesceInv
<1>2. LoopInv => TypeOK /\ PlaceInv
  BY DEF LoopInv
<1>3. TypeOK /\ CoalesceInv => WakesCoalesced
  <2> SUFFICES ASSUME TypeOK, CoalesceInv PROVE WakesCoalesced
    OBVIOUS
  <2>1. /\ Cardinality(Wakers) \in Nat /\ eventFd \in Nat /\ Tokens <= Allowed
        /\ Held \in 0 .. 1 /\ Due \in 0 .. 1
    BY FS_CardinalityType DEF CoalesceInv, TypeOK, PollerTypeOK, Held, Due
  <2>2. eventFd + Cardinality(Wakers) <= Allowed
    BY <2>1 DEF Tokens, Allowed
  <2> QED
    BY <2>2 DEF WakesCoalesced, Wakers, Allowed
<1> QED
  BY <1>1, <1>2, <1>3, CoalesceStep, LoopInvariant, PTL DEF SafetySpec
=============================================================================
