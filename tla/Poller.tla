------------------------------- MODULE Poller -------------------------------
(***************************************************************************)
(* The epoll poller of poller/epoll.go: the goroutine that runs Poll, the  *)
(* eventfd through which other goroutines wake it, and Close, which stops  *)
(* it.  The handler Poll calls is left open here: a callback for a socket  *)
(* may add and remove descriptors, and the call handle(-1, 0) that follows *)
(* a wake-up is the single step HandleWake.  EventLoop refines these two   *)
(* into what the event loop does in them.                                  *)
(*                                                                         *)
(* pollPC is the place of the Poll goroutine:                              *)
(*   new       Poll has not been called                                    *)
(*   wait      at EpollWait                                                *)
(*   events    in the loop over the events EpollWait returned              *)
(*   callback  in handle(fd, event) for a socket                           *)
(*   handle    in handle(-1, 0)                                            *)
(*   check     after handle(-1, 0), before running is read                 *)
(*   returned  Poll has returned, waitDone is closed                       *)
(* closePC[c] is the place of closer c in Close:                           *)
(*   idle -> loaded -> stored -> woken -> closed, or failed                *)
(***************************************************************************)
EXTENDS Naturals, FiniteSets

CONSTANTS
  Fds,          \* descriptors that can be registered with the poller
  EventFd,      \* the poller's own eventfd
  EventsBegin,  \* waitEventsBegin, the initial length of the events slice
  Closers,      \* goroutines that call Close
  MaxWakes      \* bound on the eventfd counter in this module's own runs

ASSUME PollerAssumption ==
  /\ EventFd \notin Fds
  /\ EventsBegin \in Nat \ {0}
  /\ MaxWakes \in Nat \ {0}

VARIABLES
  pollPC,     \* place of the Poll goroutine
  running,    \* Poller.running
  eventFd,    \* counter of the eventfd
  watched,    \* descriptors registered with epoll
  ready,      \* descriptors the kernel has an event for
  blocking,   \* msec = -1: EpollWait blocks; FALSE: msec = 0, it polls
  eventsLen,  \* len(events)
  batch,      \* events of the current EpollWait still to be handled
  full,       \* EpollWait filled the events slice (n = len(events))
  wake,       \* Poll's local variable wake
  waitDone,   \* channel waitDone is closed
  fdsOpen,    \* the epoll descriptor and the eventfd are open
  closePC     \* place of each closer

pollerVars == <<pollPC, running, eventFd, watched, ready, blocking, eventsLen,
                batch, full, wake, waitDone, fdsOpen, closePC>>

PollPlaces == {"new", "wait", "events", "callback", "handle", "check", "returned"}
ClosePlaces == {"idle", "loaded", "stored", "woken", "closed", "failed"}

PollerInit ==
  /\ pollPC = "new"
  /\ running = FALSE
  /\ eventFd = 0
  /\ watched = {}
  /\ ready = {}
  /\ blocking = FALSE
  /\ eventsLen = EventsBegin
  /\ batch = {}
  /\ full = FALSE
  /\ wake = FALSE
  /\ waitDone = FALSE
  /\ fdsOpen = TRUE
  /\ closePC = [c \in Closers |-> "idle"]
-----------------------------------------------------------------------------
(* Poll *)

PollStart ==
  /\ pollPC = "new"
  /\ running' = TRUE
  /\ pollPC' = "wait"
  /\ UNCHANGED <<eventFd, watched, ready, blocking, eventsLen, batch, full,
                 wake, waitDone, fdsOpen, closePC>>

(* What epoll has to report: level-triggered readiness of the registered   *)
(* descriptors, and the eventfd while its counter is positive.             *)
ReadyEvents ==
  (ready \cap watched) \cup (IF eventFd > 0 THEN {EventFd} ELSE {})

(* EpollWait returns n > 0 events, as many as there are and fit in the     *)
(* slice; which ones, when they do not all fit, is the kernel's choice.    *)
EpollReturns ==
  /\ pollPC = "wait"
  /\ \E B \in SUBSET ReadyEvents :
       /\ B # {}
       /\ \/ B = ReadyEvents /\ Cardinality(B) <= eventsLen
          \/ Cardinality(B) = eventsLen
       /\ batch' = B
       /\ full' = (Cardinality(B) = eventsLen)
  /\ blocking' = FALSE
  /\ pollPC' = "events"
  /\ UNCHANGED <<running, eventFd, watched, ready, eventsLen, wake, waitDone,
                 fdsOpen, closePC>>

(* EpollWait with msec = 0 finds nothing: the next call blocks. *)
EpollTimeout ==
  /\ pollPC = "wait"
  /\ ~blocking
  /\ ReadyEvents = {}
  /\ blocking' = TRUE
  /\ UNCHANGED <<pollPC, running, eventFd, watched, ready, eventsLen, batch,
                 full, wake, waitDone, fdsOpen, closePC>>

(* handle(fd, event); the callback may or may not consume the readiness. *)
HandleFd(fd) ==
  /\ pollPC = "events"
  /\ fd \in batch \ {EventFd}
  /\ batch' = batch \ {fd}
  /\ ready' \in {ready, ready \ {fd}}
  /\ pollPC' = "callback"
  /\ UNCHANGED <<running, eventFd, watched, blocking, eventsLen, full, wake,
                 waitDone, fdsOpen, closePC>>

CallbackReturns ==
  /\ pollPC = "callback"
  /\ pollPC' = "events"
  /\ UNCHANGED <<running, eventFd, watched, ready, blocking, eventsLen, batch,
                 full, wake, waitDone, fdsOpen, closePC>>

(* The read of the eventfd resets its counter; it would block at zero. *)
WakeHandlerRead ==
  /\ pollPC = "events"
  /\ EventFd \in batch
  /\ eventFd > 0
  /\ eventFd' = 0
  /\ wake' = TRUE
  /\ batch' = batch \ {EventFd}
  /\ UNCHANGED <<pollPC, running, watched, ready, blocking, eventsLen, full,
                 waitDone, fdsOpen, closePC>>

(* Mutant: the slice shrinks to the events that are left to handle. *)
GrowEventsShrinks == eventsLen' = IF full THEN 2 * eventsLen ELSE Cardinality(batch)

(* Mutant: a filled slice stays as long as it is. *)
GrowEventsNever == eventsLen' = eventsLen

(* The end of an iteration: a filled slice is replaced by one twice as long. *)
GrowEvents == eventsLen' = IF full THEN 2 * eventsLen ELSE eventsLen

EndBatch ==
  /\ pollPC = "events"
  /\ batch = {}
  /\ IF wake
     THEN pollPC' = "handle" /\ UNCHANGED eventsLen
     ELSE pollPC' = "wait" /\ GrowEvents
  /\ UNCHANGED <<running, eventFd, watched, ready, blocking, batch, full, wake,
                 waitDone, fdsOpen, closePC>>

HandleWake ==
  /\ pollPC = "handle"
  /\ pollPC' = "check"
  /\ UNCHANGED <<running, eventFd, watched, ready, blocking, eventsLen, batch,
                 full, wake, waitDone, fdsOpen, closePC>>

(* wake = false; Poll returns, closing waitDone, once running is false. *)
CheckRunning ==
  /\ pollPC = "check"
  /\ wake' = FALSE
  /\ IF running
     THEN pollPC' = "wait" /\ GrowEvents /\ UNCHANGED waitDone
     ELSE pollPC' = "returned" /\ waitDone' = TRUE /\ UNCHANGED eventsLen
  /\ UNCHANGED <<running, eventFd, watched, ready, blocking, batch, full,
                 fdsOpen, closePC>>
-----------------------------------------------------------------------------
(* Registration: from the handler, or by the listener before Poll runs. *)

MayControl == pollPC \in {"new", "callback", "handle"}

AddRead(fd) ==
  /\ MayControl
  /\ fd \notin watched
  /\ watched' = watched \cup {fd}
  /\ UNCHANGED <<pollPC, running, eventFd, ready, blocking, eventsLen, batch,
                 full, wake, waitDone, fdsOpen, closePC>>

Remove(fd) ==
  /\ MayControl
  /\ fd \in watched
  /\ watched' = watched \ {fd}
  /\ UNCHANGED <<pollPC, running, eventFd, ready, blocking, eventsLen, batch,
                 full, wake, waitDone, fdsOpen, closePC>>

(* The environment: the kernel gets an event for a descriptor. *)
BecomesReady(fd) ==
  /\ fd \notin ready
  /\ ready' = ready \cup {fd}
  /\ UNCHANGED <<pollPC, running, eventFd, watched, blocking, eventsLen, batch,
                 full, wake, waitDone, fdsOpen, closePC>>
-----------------------------------------------------------------------------
(* Wake and Close, called from other goroutines *)

Wake ==
  /\ fdsOpen
  /\ eventFd' = eventFd + 1
  /\ UNCHANGED <<pollPC, running, watched, ready, blocking, eventsLen, batch,
                 full, wake, waitDone, fdsOpen, closePC>>

CloseLoad(c) ==
  /\ closePC[c] = "idle"
  /\ closePC' = [closePC EXCEPT ![c] = IF running THEN "loaded" ELSE "failed"]
  /\ UNCHANGED <<pollPC, running, eventFd, watched, ready, blocking, eventsLen,
                 batch, full, wake, waitDone, fdsOpen>>

CloseStore(c) ==
  /\ closePC[c] = "loaded"
  /\ running' = FALSE
  /\ closePC' = [closePC EXCEPT ![c] = "stored"]
  /\ UNCHANGED <<pollPC, eventFd, watched, ready, blocking, eventsLen, batch,
                 full, wake, waitDone, fdsOpen>>

(* Mutant: Close does not wake Poll. *)
CloseWakeNothing(c) ==
  /\ closePC[c] = "stored"
  /\ closePC' = [closePC EXCEPT ![c] = "woken"]
  /\ UNCHANGED <<pollPC, running, eventFd, watched, ready, blocking, eventsLen,
                 batch, full, wake, waitDone, fdsOpen>>

(* The wake-up in Close; its write fails when the eventfd is closed already, *)
(* and Close then returns the error.                                         *)
CloseWake(c) ==
  /\ closePC[c] = "stored"
  /\ IF fdsOpen
     THEN /\ eventFd' = eventFd + 1
          /\ closePC' = [closePC EXCEPT ![c] = "woken"]
     ELSE /\ closePC' = [closePC EXCEPT ![c] = "failed"]
          /\ UNCHANGED eventFd
  /\ UNCHANGED <<pollPC, running, watched, ready, blocking, eventsLen, batch,
                 full, wake, waitDone, fdsOpen>>

(* Mutant: Close does not wait for Poll to return. *)
CloseFdsNoJoin(c) ==
  /\ closePC[c] = "woken"
  /\ fdsOpen' = FALSE
  /\ closePC' = [closePC EXCEPT ![c] = "closed"]
  /\ UNCHANGED <<pollPC, running, eventFd, watched, ready, blocking, eventsLen,
                 batch, full, wake, waitDone>>

(* <-waitDone, then both descriptors are closed. *)
CloseFds(c) ==
  /\ closePC[c] = "woken"
  /\ waitDone
  /\ fdsOpen' = FALSE
  /\ closePC' = [closePC EXCEPT ![c] = "closed"]
  /\ UNCHANGED <<pollPC, running, eventFd, watched, ready, blocking, eventsLen,
                 batch, full, wake, waitDone>>
-----------------------------------------------------------------------------
(* Everything the Poll goroutine does, the calls of its handler apart. *)
PollStep ==
  \/ PollStart
  \/ EpollReturns
  \/ EpollTimeout
  \/ \E fd \in Fds : HandleFd(fd)
  \/ CallbackReturns
  \/ WakeHandlerRead
  \/ EndBatch
  \/ CheckRunning

ControlStep == \E fd \in Fds : AddRead(fd) \/ Remove(fd)

CloseStep(c) == CloseLoad(c) \/ CloseStore(c) \/ CloseWake(c) \/ CloseFds(c)

PollerNext ==
  \/ PollStep
  \/ HandleWake
  \/ ControlStep
  \/ \E fd \in Fds : BecomesReady(fd)
  \/ Wake
  \/ \E c \in Closers : CloseStep(c)

PollerSafetySpec == PollerInit /\ [][PollerNext]_pollerVars

(* The runs of this module bound the eventfd counter. *)
BoundedNext == PollerNext /\ eventFd' <= MaxWakes

(* The runtime keeps scheduling the Poll goroutine once it has started, its *)
(* handler returns, and a goroutine inside Close goes on.                   *)
PollerFairness ==
  /\ WF_pollerVars((PollStep /\ pollPC # "new") \/ HandleWake)
  /\ \A c \in Closers : WF_pollerVars(closePC[c] # "idle" /\ CloseStep(c))

PollerSpec == PollerInit /\ [][BoundedNext]_pollerVars /\ PollerFairness
-----------------------------------------------------------------------------
PollerTypeOK ==
  /\ pollPC \in PollPlaces
  /\ running \in BOOLEAN
  /\ eventFd \in Nat
  /\ watched \subseteq Fds
  /\ ready \subseteq Fds
  /\ blocking \in BOOLEAN
  /\ eventsLen \in Nat \ {0}
  /\ batch \subseteq Fds \cup {EventFd}
  /\ full \in BOOLEAN
  /\ wake \in BOOLEAN
  /\ waitDone \in BOOLEAN
  /\ fdsOpen \in BOOLEAN
  /\ closePC \in [Closers -> ClosePlaces]

(* Close (lines 77-89) closes the epoll descriptor and the eventfd while    *)
(* Poll uses them on another goroutine: no step of Poll between its start   *)
(* and its return may see them closed, whatever number of Close calls race. *)
FdsOpenWhilePolling == pollPC \notin {"new", "returned"} => fdsOpen

(* No wake-up is lost: a positive eventfd counter is followed by the call   *)
(* handle(-1, 0) or by the return of Poll, even when other descriptors are  *)
(* ready all the time and fill the events slice (lines 178-188).            *)
WakeIsHandled ==
  (eventFd > 0 /\ pollPC # "new") ~> (pollPC \in {"handle", "returned"})

(* A Close that has found the poller running returns: Poll sees running     *)
(* false after the wake-up and closes waitDone (lines 77-89, 178-184).      *)
CloseReturns ==
  \A c \in Closers : (closePC[c] = "loaded") ~> (closePC[c] \in {"closed", "failed"})
=============================================================================
