# Verification of goreactor

TLA+ specifications of goreactor, a Go TCP framework with one accepting loop
and several work loops on epoll, with the TLC configurations that check them
and TLAPS proofs about every modelled component. Line
numbers refer to the files under `src/`. `PROJECT.json` maps every definition to
the lines it stands for.

## 1. The system

| Component | State | Operations | Talks to |
|---|---|---|---|
| **Poller** `poller/epoll.go` | epoll set, eventfd, `running`, `waitDone`, the `events` slice | `Poll`, `Wake`, `Close`, `AddRead`, `EnableRead(Write)`, `Remove` | calls its handler, `handle(fd, ev)` for a socket and `handle(-1, 0)` after a wake-up |
| **Event loop** `eventloop/eventloop.go`, `utils/spinlock.go` | `taskQueueW`/`taskQueueR`, spin lock `mu`, `needWake`, `sockets`, `ConnCnt` | `Run`, `QueueInLoop`, `handlerEvent`, `doPendingFunc`, `AddSocketAndEnableRead`, `DeleteFdInLoop`, `Stop` | owns a poller, calls `HandleEvent` of sockets, runs tasks of anyone |
| **Connection** `connection.go`, `protocol.go` | `connected`, `outBuf`, `inBuf`, published lengths, epoll interest | `HandleEvent` (`handleRead`, `handleWrite`, `handleClose`), `Send`, `Close`, `ShutdownWrite`, `WriteBufLen` | its loop (queue, interest), protocol, user callbacks |
| **Idle timer** `connection.go`, lines 63-92 | `activeTime`, `timer` | `closeTimeoutConn`, arming, stopping in `handleClose` | timing wheel (its own goroutines), `Close` |
| **Server, listener** `server.go`, `listener.go` | `running`, work loops, the balancer | `Start`, `Stop`, `handleNewConnection`, `RunAfter`, `RunEvery` | spawns one goroutine per loop, accepts on the main one |
| **Ring buffer** `ringbuffer/ringbuffer.go` | `buf`, `size`, `r`, `w`, `vr`, `isEmpty` | `Write`, `Read`, `Peek*`, `Retrieve*`, `VirtualRead/Flush/Revert`, `WithData` | used by a connection and by protocols |
| **Buffer pool** `ringbuffer/pool.go` | `sync.Pool`, call statistics, default and maximum size | `Get`, `Put`, `calibrate` | connections |
| **Websocket** `plugins/websocket` | upgraded flag, header buffer | upgrade, `UnPacket`, `VirtualReadHeader`, `Cipher`, `FrameToBytes`, `OnMessage` | a protocol and a handler around the user's |
| Key-value context, options, port reuse, timing-wheel alias | values | get/set | users |

### What is hard here

* **Concurrency.** Each loop is one goroutine, and so is each timer callback. `QueueInLoop`, `Send`, `Close`
  and `Stop` come from any other, and meet the loop in the spin lock, in
  `needWake`, in the eventfd and in `waitDone`. The connection is checked for
  `connected` on the caller's goroutine and used later, in a task.
* **Ordering.** The no-lost-wakeup argument depends on the order of two stores
  in two functions. Output of a connection comes from replies, from queued
  Sends and from a buffer that is being drained.
* **Descriptor reuse.** A closed descriptor's number is given to the next
  connection while tasks of its former owner are still queued.
* **Failure.** Partial writes, EAGAIN, resets, half-closed peers; and errors the
  library takes for impossible and answers with `log.Fatal`.
* **Time.** The timer is armed before its connection is registered, works with
  activity in whole seconds, and re-arms itself while the connection may close.
* **Lock-free counting.** The buffer pool takes its counters one by one while
  others count, and stores two sizes that belong together one after the other.
* **Shutdown.** `Stop` goes through the loops one by one while everything runs.
* **Boundaries.** A ring buffer that is exactly full, wraps, or grows in the
  middle of a tentative read; frames cut anywhere by reads.

### What makes each component correct

* Poller: no wake-up is starved; `Close` returns; the descriptors outlive `Poll`.
* Event loop: it is a FIFO queue of tasks, each run once, none stranded.
* Connection: bytes in and out are neither lost nor reordered; epoll is asked for
  writability exactly when it is needed; closed once, then untouched.
* Server: events reach the owner of a descriptor; the count is exact; `Stop`
  ends and is final; no schedule ends the process.
* Ring buffer: it is a queue of bytes with a tentative cursor.
* Idle timer: an idle connection is closed, no timer decides to close an active
  one, and no timer outlives its connection.
* Buffer pool: every returned buffer is counted once; the two sizes fit.
* Websocket: the acceptable requests and no others are upgraded, with the right
  response; the frames of the client arrive as sent, and so do the replies.

`PROJECT.json` lists the hazards one by one, each at its line, with the
properties aimed at it.

## 2. The modules

```
 TaskQueue   <--refines--  EventLoop  --EXTENDS-->  Poller
 ByteQueue   <--refines--  RingBuffer  <--INSTANCE--  Websocket  --EXTENDS-->  Handshake
 Connection     Server     IdleTimer     BufferPool
 EventLoopProofs (Poller, EventLoop)   ServerProofs (Server)
 DataLemmas  <--EXTENDS--  ConnectionProofs (Connection)   RingBufferProofs (RingBuffer)
                           IdleTimerProofs (IdleTimer)     BufferPoolProofs (BufferPool)
                           WebsocketProofs (Websocket, Handshake)
 RingBufferProofs  <--INSTANCE--  WebsocketProofs
```

Each `MC*` module only extends the module it instantiates; constants are in
the `.cfg` files. Definitions marked "Mutant" in a comment are variants with
a plausible bug. No specification uses them: substituted for the original
they must break the property that is paired with them in `PROJECT.json`.

### Poller
The goroutine in `Poll` (`pollPC`), the kernel (`ready`, the counter `eventFd`)
and any number of goroutines in `Close` (`closePC`). An `EpollWait` returns as
many events as fit in the slice and picks them freely when they do not fit; the
slice grows as in lines 186-188. `blocking` is the adaptive timeout. Reading
the eventfd, the handler of the wake-up and the test of `running` are separate
steps, and so are the load, the store, the wake-up and the join of `Close`.

### EventLoop
Adds the threads inside `QueueInLoop` (`qpc`: between lock and unlock, before
the compare-and-swap, before `Wake`), `handlerEvent(-1)` and `doPendingFunc`
(`loopPC`) and `Stop`. The append is a read and a later write of `taskQueueW`
(`snap`): the lock is what makes it one, so dropping the lock shows. Tasks are
numbered in the order of their appends.
`TaskQueue` is what users rely on: FIFO, at most once, and every task run while
the loop is open. The refinement takes as pending tasks the rest of `taskQueueR`
followed by `taskQueueW`.

### Connection
One connection, its loop and its peer. The object `conn` is changed only by loop
steps; `tasks` is the loop's queue reduced to what `TaskQueue` promises. Bytes
are their own positions in the stream, so loss, repetition and reordering are
visible in equalities. The mask the kernel reports goes through the translation
of `Poll` and the branches of `HandleEvent` in their order; writes return an
error, 0 (EAGAIN) or any length that fits. `CallShutdownWrite` acts on the
socket at once, on the caller's goroutine: later writes fail, and a peer that
has finished too makes the socket hung up. The protocol is `DefaultProtocol` or
one that cuts frames of a fixed length and leaves the rest.

### Server
All goroutines at once: `Start`, the accepting loop, the work loops, users that
call `Close`, and `Stop`. Descriptor numbers come from a small set and are free
once closed. A registration, a close and the close-all of `Stop` are tasks in a
queue; a loop runs those queued when its round began. Every way to end the
process (`log.Fatal`, a store into a nil map, closing a descriptor of another
connection) sets `fatal` to a name for it. `RoundRobin` is 1 because the code
makes a new closure for every connection.

What `Stop` leaves behind is stated by `LeftoversQueued`: connections may stay
open, each with a task still in the queue of its loop.

### IdleTimer
One connection from `NewConnection` on. The accepting goroutine arms the timer,
stores it and queues the registration (`mainPC`); the loop runs tasks, handles
events and, at the end of `handleClose`, stops the timer it finds (`loopPC`);
each callback is a goroutine of its own (`cb[k]`), which reads the clock, loads
`activeTime`, and then goes through `Close`, or through `connected`,
`AfterFunc` and the store. `Tick` is possible between any two of these steps.
The clock is relative (phase within a second, ages, times to go) and ages that
are past every comparison stop growing, so the state space is finite although
time has no end. The timing wheel is external: it fires a timer when it is due
or later. In `HandleEvent` reading the clock and storing `activeTime` are one
step.

`ClosedOnlyIdle` speaks of two moments. A callback decides to close only a
connection that is idle. When the loop runs that close it is idle still, unless
an event has come in between: the code does not look again, so the
loop then closes a connection that has just been active. `decision` records which
of the two it is.

### BufferPool
`Put` and `calibrate` with one step per atomic operation (`pc`), `Get`, growing
by the user, and garbage collections that empty the pool. Lengths are the size
classes of `index`, plus one for what is longer than the last class. `sort.Sort`
is not stable, so equal counts come in any order. `puts`, `settled` and `last`
are history variables.

### RingBuffer
The methods as operators on a record with the fields of the Go struct, including
the size changes of `makeSpace`. `ByteQueue` is the abstract queue. Two calls damage
a buffer that holds data, and the passing run leaves them out (`AnyCall = FALSE`).
A tentative read that reaches the end of the data breaks the representation; what
that does to a user is shown by the run `split_frame`. And `VirtualFlush` takes a
full buffer of which nothing has been read tentatively for an empty one (lines
45-50), because `vr = w` means both; the library flushes only after it has read a
header.

### Websocket
`handleRead` with its two buffers (`c.buf` around the packet, `inBuf` with the
leftover), `UnPacket` on the operators of `RingBuffer`, the header read into a
buffer that keeps its old bytes, masks, three length forms, replies and the
early `ShutdownWrite`. Bytes are numbers, and the xor of two of them is the sum
of eight sums of bits; a length of eight bytes counts up to `Huge` (2^24), from
where on lengths are not told apart, since no frame of the model is as long. In
the stream the upgrade request is one byte and the empty line; what it says is
a record of `Handshake`. `Sends[k]` has the frames, with their masks, that the
client may choose from as its k-th, final or not: `UnPacket` passes fragments on as
they come, so nothing the server does depends on the FIN bit. The handler answers
a data frame with one of `Replies`, as text or binary, or not at all. The body
of a reply to a close frame follows the checks of the code and the reason, among
them whether the reason is UTF-8 (`NotText`), and the crop to `MaxControl` bytes.
`Len7`, `Len16` and `MaxControl` are constants: 125, 65535 and 125 in the code,
small in the run, so that all forms occur.

`CleanCut` is the restriction on reads that the properties about frames need, and
the only one: no read ends inside a frame's header behind its sixth byte, or just
behind a header. Without it (`AnyCut`) reads end anywhere, and `split_frame` shows
what then goes wrong. The request is cut anywhere in every run; `HandshakeExact` is
proved for any cut, of the frames too.

### Handshake
`Upgrade` as operators: version and method, then the header lines folded in their
order, each with what it sets, selects or refuses, and the final checks. Values
are abstracted to what the code tells apart; the version is its characters, since
the code reads it digit by digit. The second half is the requirement, stated
without the functions of the first: which requests are acceptable (`Acceptable`) and
what their response says (`IsRight`). `IsHttp11` asks for a text of decimal digits
and a dot, whatever `httpParseVersion` makes of it. `HandshakeExact` compares the two
and names the two exceptions that the code makes, a version with one of the characters
: to ? in it (`Misread`) and a request of which only a part has been read (`RequestCut`).
`RefusedRightly`, in the run `refused_request`, says what the code promises where the
second is made, and is violated.

## 3. The runs

| Run | Asks | Distinct states |
|---|---|---|
| `poller` | descriptors, wake-ups, two racing closes | 77,106 |
| `event_loop` | wake-up protocol, coalescing, order, refinement of `TaskQueue` with liveness | 82,860 |
| `connection` | output, input, interest, close, draining, noticing the peer's end, with `ShutdownWrite` | 555,507 |
| `server` | descriptor reuse, close once, count, no fatal, `Stop` and what it leaves | 940,447 |
| `ring_buffer` | refinement of `ByteQueue` | 3,969 |
| `websocket` | which upgrade requests are let in, and with what response; frames in, replies out | 268,986 |
| `idle_timer` | closed when idle, decided only when idle, registration, end of all timers | 257,649 |
| `buffer_pool` | counting and calibration | 2,770,958, up to symmetry |
| `late_queue`, `split_frame`, `close_reply`, `refused_request` | one disagreement each, see section 6 | counterexamples |

`NoLoopFatal` in `server` excepts the two ends of the process that the code does
allow: a `Stop` that gets to a loop before the goroutine `Start` has spawned for
it (and only that; a loop that has been running is always found), and a `Close`
after `Stop`, which the run `late_queue` shows. `FatalOnlyWhenStalled` excepts
an accepting goroutine that is held up for a whole `IdleTime` between arming the
timer and queueing the registration.

`CountIsExact` ends, for each loop, where `Stop` resets its `ConnCnt`. The loop goes on
closing connections after that, so the count falls below zero; nothing in the
repository says what it is to be then, and no property covers it.

### Bounds, and why they are enough
* `poller`: two sockets and a slice that starts with length 1, so that events do
  not fit until it has grown; two closers; the eventfd counter up to 3.
* `event_loop`: two callers, the loop itself and `Stop`, three tasks. Two callers
  are needed to interleave an append, a compare-and-swap and a wake-up with the
  swap; the proofs remove both bounds.
* `connection`: a send buffer of one byte against replies of two, so nearly every
  write is partial; a packet of three bytes against frames of two, so frames are
  cut; four bytes in, two calls from outside.
* `server`: two work loops, two descriptor numbers, three connections: a third
  connection always reuses a number. `MaxTasks` limits what user Closes add to
  a queue, not what the loops add.
* `ring_buffer`: writes up to 2 and content up to 4 bytes, all cursor positions,
  full, empty, wrapped and growing. A buffer grows only when it must, so its size
  stays finite.
* `websocket`: two frames after the upgrade with payloads of 0, 2 and 9 bytes:
  no, less than one, and more than one word of the mask, and the three forms; and
  two of a valid status code with a reason that is UTF-8 or not, as a close frame or
  as a fragment. `MaxControl = 3`, so the reply's reason is cropped. Replies of 1, 2
  and 9 bytes, one for each form. Reads end anywhere but where `CleanCut` excludes it
  (`AnyCut = FALSE`).
* `websocket`, requests: the usual one with a line taken out, one of seventeen
  others put in anywhere, two of them put in side by side, and the mandatory
  lines in any order, against upgraders that select, or reject by each callback;
  ten versions and another method. Two extra lines are enough for one header
  to hide or repeat the other. The versions have up to five characters;
  `MaxRest = 19` bounds them in the proofs, where a longer number could
  exceed an int of Go. The request is cut anywhere; frames follow the
  usual one only (`Followed`).
* `idle_timer`: an idle time shorter and one longer than the second that
  `activeTime` loses, with two ticks in a second; `MaxTimers = 3` timers, enough
  for one in the wheel, one whose callback runs and one it is about to store;
  `MaxTasks` bounds user Closes only; at most `MaxLag` ticks pass between the
  callback's reading of the clock and its load of `activeTime`, while every
  other delay is unbounded.
* `buffer_pool`: a threshold of one, so calibrations begin early and overlap; six
  Puts make several of them; three classes and a percentile of two thirds, so
  that `maxSize` is sometimes the default and sometimes above it. Goroutines
  and buffers are interchangeable (symmetry; all properties are invariants).
* Deadlock is not checked where the system may stop: after `Stop`, after
  `log.Fatal`, after the last byte of a bounded peer. It is checked for
  `ring_buffer`.

### Fairness
Only weak fairness, and only of steps that the Go scheduler or the kernel cannot
withhold: a started loop goroutine goes on, a goroutine inside `QueueInLoop`,
`Send`, `Close` or `Stop` goes on, callbacks and tasks return. No fairness is
assumed of callers, of `Start`, of arriving data or of `Accept`. In `Connection`
the peer keeps reading: without it `outBuf` can never drain, and in the code
nothing limits that wait. In `IdleTimer` time passes, the wheel fires every timer
that is due, and a started callback goes on; nothing is assumed about events.
Spin locks are not fair in general; in the runs the
number of tasks is finite, so each waiting thread gets the lock in the end.

## 4. What is proved

Every safety property that a run checks is a theorem of its specification, for
every value of the constants. TLC checked
each inductive invariant on the constants of the `.cfg` files before it was
proved, and evaluates the `CONSTANT` assumptions in the runs.

| Module | Theorems | For every |
|---|---|---|
| `EventLoopProofs`, `Poller` | type, descriptors open | set of descriptors, length of the slice, goroutines in `Close` |
| `EventLoopProofs` | type, lock, no lost wake-up, coalescing, refinement of `TaskQueue`, order | set of callers, number of tasks |
| `ServerProofs` | type, owner, close once, count, no fatal, leftovers, quiet after `Stop` | number of loops, connections, descriptor numbers |
| `ConnectionProofs` | type, output, input, interest, close once, closed is final, never fatal | protocol, lengths, send buffer, callers |
| `IdleTimerProofs` | type, fatal only when stalled, one watch, closed only when idle | idle times, clock, timers |
| `RingBufferProofs` | type, refinement of `ByteQueue` | bytes, length of a call, size |
| `BufferPoolProofs` | type, every Put counted, calibrated right | goroutines, buffers, classes, threshold, percentile |
| `WebsocketProofs` | type, messages intact, replies intact | frames, masks, payloads below `Huge`, length of the packet, cut of the reads outside headers |
| `WebsocketProofs`, `Handshake` | `HandshakeCorrect`, handshake exact | request line, number, order and values of the header lines, Upgrader, any cut of the reads |

The assumptions are those named in the modules: sizes are positive, the
eventfd is not a socket, goroutines are distinct, descriptor numbers and the
goroutines that use the pool are finitely many, `Stop` is the only caller of
`Poller.Close`.
`RingBufferProofs` has one more, in the theorems themselves: `~AnyCall`, a
caller that makes no tentative read up to the end of the data and flushes no full
buffer of which it has read nothing tentatively. Without it they are false: the
first is the error of section 6 that `split_frame` shows, the second is `VirtualFlush`,
lines 45-50, for which a full buffer with `vr = w` is empty.
The theorems of `WebsocketProofs` about frames assume `~AnyCut`: no read ends in
a frame's header from its sixth byte on or just behind it. `HandshakeCorrect`
and `HandshakeExactAlways` have no such hypothesis; their statements name the two
exceptions, the misread version and the request that has arrived in part.

### The inductive invariants

Few of the properties are inductive. What had to be added, and why:

* **Poller**, `FdsInv`: closed descriptors imply `waitDone`, and `waitDone`
  implies that `Poll` has returned.
* **Event loop**, `LoopInv`. `NoLostWakeup` speaks of the loop at `EpollWait`
  only. `WakeInv` says what holds elsewhere: `needWake = FALSE` promises a wake-up
  that is written, about to be written, or read and still to be handled, and a
  non-empty `taskQueueW` either is about to be swapped or is covered by such a
  promise. `PlaceInv` ties the loop's place to the poller's; `LockInv` says that
  the thread between lock and unlock has read the current queue.
* **Coalescing**, `CoalesceInv`: `needWake` is a token. It is in the variable, with
  one thread that is about to write, in the eventfd, or with the loop that has
  read it and not yet stored it back. Their number never exceeds one, or two
  once `Close`, which writes without a token, has done so.
* **Refinement** of `TaskQueue`: an append is `Submit`, `RunTask` is `Execute`,
  `PollStart` and the store in `Close` are `Open` and `Halt`; the swap and the
  truncation leave the pending sequence as it is. `OrderKept` follows.
* **Server**, `ServerInv`. `EventsReachOwner` needs to know who has each descriptor
  number (`OwnerInv`), and that a queued task is about a connection of that
  loop (`TaskInv`): a registration until `OnConnect`, closes only afterwards.
  That no event comes after `Stop`'s task has set the map to nil rests on
  `CloseAllInv`: the listener has returned before that task is queued, so no
  registration follows it; and every connection still open has its close queued.
  `StopInv` says how far `Stop` has come with each loop.
* **Connection**, `ConnectionInv`. `Sound` is what holds of the object between two
  steps of its loop; each method is shown to keep it. `PlaceInv` says that a
  connection that is not registered has its registration as its only task,
  so `Send` and `Close` never come before it.
* **Idle timer**, `TimerInv`. `WatchInv` says that at most one timer or callback will
  still close or re-arm; `AgeInv` that `activeTime` is behind the last event by
  less than a second; `FirstTimerInv` that until the registration is queued
  the first timer has as much to go as the accepting goroutine may still be held
  up, and `RegisterFirstInv` that from then on the registration is ahead of every Close.
* **Ring buffer**, `RingOK`: cursors in the array, `vr` between `r` and `w` around the
  ring, and `isEmpty` when and only when nothing is left, which tells an
  empty buffer from a full one. The content is `Slice`, the bytes from `r` on; a write
  is shown to append to it in each of its three shapes (one piece, two pieces,
  after `makeSpace`), and a read to drop from its front.
* **Buffer pool**, `PoolInv`. `calibrating` lets one goroutine in (`Alone`), so
  the counts that all goroutines hold are those of that one; counters it has not come to are
  still 0 in what it holds (`Swapping`). `Worked` and `Stored` follow the two sizes
  from the sort to the second store. `SortedRight` is about the loop of lines
  101-111 alone: for any order that sorting may leave it finds a default and a
  maximum that belong to the counts.
* **Websocket**, `WebsocketInv`. `MessagesIntact` compares two lists of frames; what
  makes it inductive is where the bytes are. `InputInv` says that what is in the
  two buffers, followed by what has not been read, is the bytes of exactly the
  frames that OnMessage has not been given, and that between two reads the next
  frame is not there as a whole, or it would be stuck. `BufferInv` has `RingOK`
  for both buffers, with no tentative read pending, from `RingBufferProofs`; that
  `VirtualReadHeader` never comes to the end of the data, where it would be lost,
  rests on `CutInv`: no read has ended in a header. `OutputInv` says that what is
  written, with what is collected in this read, is the response and the answers.
  A step of `UnPacket` is then about one frame between other bytes: the header is
  read back field by field (`HeaderRead`), in each of the three forms, and `Cipher`
  with the mask undoes the client's, although it works in words of eight from a
  shifted place (`CipherUnmasks`). The last lemmas read the server's frames back the
  way a client does.
* **Handshake**. `UpgradeInv` fixes the response to what `Upgraded` makes of the
  request, and says why the process may have ended before there was one; it needs
  nothing about frames, so it holds for any cut of the reads. The theorem behind it,
  `HandshakeCorrect`, has no state. `VersionExact` compares
  `httpParseVersion` with `IsHttp11`: what `asciiToInt` computes is found by induction along the
  digits (`Valued`), is 0 only for zeros, and is 1 for zeros and a final 1 only
  (`NumberRead`), and the characters it should not take are those of `Misread`. `Known` says
  what the loop knows behind the k-th line, in terms of the lines and not of the
  loop: whether all of them are fine, which headers have been seen, the last key,
  the first accepted protocol, all accepted extensions. It is shown for each kind
  of line (`LineRead`) and carried along the lines by induction.

### Data

The induction theorems of the library have a predicate as their parameter, which
no installed prover can instantiate. `DataLemmas` derives induction with a set in
its place (`InductionUpTo`) from the well-foundedness of the numbers, and with it
what the recursive functions of the community modules compute: `FlattenSeq` of an
appended or concatenated sequence (used for the frames of a connection and of the
websocket), that a recursion on the numbers has a solution (`RecursionExists`, used for
`Start`, for the decoding of `Decodes` and for `ReadHeaders`), and, in `BufferPoolProofs`, `SumFunction`: that a sum does not depend on the order in
which elements are chosen, grows with its set, and is one more when a count is.

### Only model-checked

* Liveness: `WakeIsHandled`, `CloseReturns`, the liveness part of
  `ImplementsTaskQueue`, `OutputDrains`, `PeerEndNoticed`, `WriteBufLenCatchesUp`,
  `StopEnds`, `IdleIsClosed` and `TimersEnd`. Fairness and ENABLED are out of the prover's
  reach.

## 5. Not modelled, and why

* The timing wheel itself, a library; `RunAfter` and `RunEvery` hand the user's
  function to it.
* The bytes of a pooled buffer: `Put` resets it before it is given back.
* Failures of `epoll_ctl`, `eventfd` and `EpollWait` other than use of a closed
  descriptor; EINTR, which repeats the call. `AddWrite` and `EnableWrite` have no
  caller.
* Splitting HTTP text into lines and header lists into tokens (a library), writing
  the response, SHA-1; `ProtocolCustom` and `ExtensionCustom`, with which the user
  parses; the text of error responses, which are never sent, since the error ends
  the process first (`refused_request`); and the return of the header buffer to its pool.
* Key-value context: a map behind a lock with no protocol between operations.
* Options, port reuse, the alias of the timing wheel, examples, benchmark,
  `server_old.go` and `listener_old.go` (commented out in full).
* Errors of `NewServer` and `newListener`, before anything runs, and of `accept`,
  which ends the process on the spot.
* Unused code: `recv`, and the accessors of a connection.
* The Go memory model: the shared fields are atomics or guarded by `mu`, so
  sequential consistency is what the language gives. `SetContext` and `Context`
  are left to the user by the code and are not modelled.

## 6. Where the code disagrees with what it says

* `late_queue`: a `Send` or `Close` that overlaps `Stop` may wake a loop whose
  eventfd is closed; `log.Fatal` then ends the process.
* `split_frame`: a frame whose payload is not in the read that ends its header is
  delivered as the mask (zeros, unmasked once more), or dropped, because a tentative
  read that reaches the end of the data spoils the ring buffer.
* `close_reply`: the reply to a close frame is written after the write side has
  been shut down, so the client never gets it.
* `refused_request`: a good upgrade request that arrives in two reads ends the
  process, and nothing is sent. By the comment of `Upgrade` (`ws.go`, lines 156-159) an
  error means a bad request, and the client gets a response even then. A request that
  is bad ends the process in the same lines (`protocol.go`, lines 26-29), and is not
  answered either.
* `asciiToInt` takes the six characters after 9 for digits, although its comment
  speaks of 0-9 (`ws/utils.go`, lines 11-13): HTTP/1.: is accepted. This has no run
  that fails: the exception is written into `HandshakeExact` (`Misread`), which
  would otherwise be violated by the requests of `websocket`.

Observed on the way, without a run of their own:

* `RoundRobin()` is called anew for every connection (`server.go`, line 80), so its
  index always starts at 0 and only the first work loop is ever used. No order of
  events decides this; the model says what the code does (`RoundRobin`).
* `Stop` right after `Start` may find a poller that does not run yet (the test,
  `server_test.go`, lines 111-112, waits in between); the error, taken for impossible (`server.go`, line 130),
  ends the process. This is the exception in `NoLoopFatal`.
* `Stop` does not call `OnClose` for the connections it leaves open
  (`LeftoversQueued`).
* `VirtualFlush` without a tentative read empties a full ring buffer. The library
  does not call it so.
* `ConnCnt` of a loop falls below zero when connections close after `Stop` has reset it.
* An event that comes after a timer has decided to close does not save the connection
  (`ClosedOnlyIdle`).
* `activeTime` is refreshed by events only: a connection that is only sent to may
  be closed as idle if the peer never answers.
* Several Puts can pass the threshold at once; one that comes to `calibrate`
  when the first has finished works from the few counts made since.

## 7. Plan

Done, in this order: `Poller`, `TaskQueue`, `EventLoop` and their proofs;
`Connection`; `Server`; `ByteQueue`, `RingBuffer`; `Websocket`; `IdleTimer`;
`BufferPool`; `Handshake`; the proofs about `Server`, `Connection`, the coalescing
of `EventLoop`, `IdleTimer`, `RingBuffer`, `BufferPool`, `Websocket` and `Handshake`.
Still to do:

1. `Poller`: more theorems about racing closes, such as which of them closes the
   descriptors.
2. `RingBuffer`: what still holds for callers that exhaust the data.
