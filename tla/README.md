# A verification of the reactor library in src/log

The library is a small event-driven TCP server library in the style of muduo:
one `EventLoop` per thread, a `Poller` around `poll(2)`, timers on a `timerfd`,
a pool of loop threads, an acceptor, connections and a byte buffer. This
directory holds TLA+ modules translated from that code, TLC configurations
that check them on small instances, and proofs of the properties that matter
most for every value of the constants.

Line numbers below are of the files in `src/log`. `PROJECT.json` names, for
every definition that models code, the file, the lines and the symbol.

## 1. The system

| Component | State | Operations | Talks to |
|---|---|---|---|
| EventLoop (`EventLoop.cc`) | `quit_`, `looping_`, `callingPendingFunctors_`, `pendingFunctors_` under `mutex_`, `activeChannels_`, the eventfd `wakeupFd_` | `loop`, `quit`, `runInLoop`, `queueInLoop`, `wakeup`, `handleRead`, `doPendingFunctors` | every other component; other threads through `runInLoop`, `queueInLoop`, `quit` |
| Poller and Channel (`Poller.cc`, `Channel.cc`) | `pollfds_`, `channels_`; per channel `events_`, `revents_`, `index_` | `poll`, `updateChannel`, `removeChannel`, `handleEvent`, enable and disable | the loop calls `poll` and dispatches; handlers call back into both |
| TimerQueue (`TimerQueue.cc`, `Timer.*`) | `timers_`, `activeTimers_`, `cancelingTimers_`, `callingExpiredTimers_`, the timerfd | `addTimer`, `cancel`, `handleRead`, `getExpired`, `reset` | other threads through `runInLoop`; the timerfd channel |
| EventLoopThread and Thread | `loop_` under `mutex_` and `cond_` | `startLoop`, `threadFunc`, the destructor | makes an EventLoop in a new thread, publishes it, stops it |
| TcpConnection (`TcpConnection.cc`) | `state_`, `channel_`, `inputBuffer_`, `outputBuffer_` | `send`, `shutdown`, `handleRead/Write/Close/Error`, `connectEstablished`, `connectDestroyed` | its loop, by functors; the socket; any thread that holds it |
| Buffer (`Buffer.h`, `Buffer.cc`) | `buffer_`, `readerIndex_`, `writerIndex_` | `retrieve*`, `append`, `makeSpace`, `prepend`, `swap`, `shrink`, `readFd` | used by TcpConnection |
| TcpServer, Acceptor, EventLoopThreadPool | `started_`, `connections_`, `nextConnId_`; `listenning_`; `loops_`, `next_` | `start`, `listen`, `handleRead`, `newConnection`, `getNextLoop`, `removeConnection` | the base loop accepts; connections go to pool loops |
| Sockets (`Socket*.cc`, `InetAddress.*`) | descriptors | wrappers of system calls | the kernel |
| Logging (`Logging.*`, `LogStream.*`) | `g_logLevel`, `t_time`, `t_errnobuf`, the stdout stream; a fixed buffer per line | the macros, `formatTime`, `append`, `convert`, `finish`, `~Logger`, `setLogLevel` | called by all, from every thread |

`error/` and the `*.bak_` files are old copies the build does not compile;
`test/test1.cc` is a program that prints and checks nothing.

What is hard to test:

- *The sleep of the loop.* A functor or `quit()` that arrives between the
  loop's last look and its `poll()` must still wake it; push and eventfd write
  are two steps; a functor queued by a functor needs a wakeup too.
- *Vector indexes.* `index_` of a channel, its slot in `pollfds_` and the map
  `channels_` must agree through removal by swapping with the last slot, muted
  (negative) descriptors included.
- *Timers that cancel timers.* A callback may cancel itself, a timer of the
  same batch or a finished one; freed addresses are used again; another thread
  may add or cancel.
- *Hand-over.* `send()` and `shutdown()` test an unlocked `state_` and go on
  in the loop later; `startLoop()` waits for another thread's stack object;
  `start()` fills the pool in one thread while the base loop may accept.
- *Logging.* Every thread writes the same `t_time` without a lock; the buffer
  of a line drops whole pieces that do not fit; a FATAL line must be out before
  the process aborts.
- *Errors.* A short write, a peer that closes while output is pending,
  `accept()` without a free descriptor.

What makes each component correct, in short:

- EventLoop: what is handed over runs at most once, in order, and promptly;
  `quit()` ends the loop; no batch is left half done.
- Poller: the kernel is given what each channel asks for, or a muted descriptor
  once it has asked for nothing, and only registered channels are called.
- TimerQueue: the two sets agree, nothing freed is touched, the timerfd is
  armed whenever a timer waits, no timer is lost, `cancel` is final.
- EventLoopThread: `startLoop()` returns, and only with a live loop.
- TcpConnection: bytes reach the socket in the order sent; `shutdown()` comes
  after what was sent and does happen; a closed channel is silent.
- Buffer: once its indexes have a value, they stay in bounds and the readable
  bytes are a queue, for as long as nobody calls `shrink` at the wrong time.
- TcpServer: the pool is complete before a connection needs a loop, loops get
  equal shares, each connection is established once and in its own loop.
- Logging: no buffer is overrun, lines end, numbers read as they were given,
  and a FATAL line is not lost.

`PROJECT.json`, "hazards", lists what is hard to test at its line, with the
properties that would catch it.

## 2. Modules

| Module | Models | Abstract specification | Proofs |
|---|---|---|---|
| `EventLoop` | EventLoop, with any number of threads | `TaskQueue` (a FIFO of tasks run at most once) | `EventLoopProofs` |
| `Poller` | Poller and Channel | `InterestMap` (a map from descriptors to wanted events) | `PollerProofs` |
| `TimerQueue` | TimerQueue and Timer, with a heap whose addresses are reused | `Schedule` (timers that wait, fire in batches and repeat, by number) | `TimerQueueProofs` |
| `EventLoopThread` | EventLoopThread, with mutex and condition; composed with `EventLoop` (INSTANCE) | `EventLoop` | `EventLoopThreadProofs` |
| `TcpConnection` | one connection, its socket and peer, and the threads that use it | - | `TcpConnectionProofs` |
| `Buffer` | Buffer | `ByteQueue` (a queue of bytes) | `BufferProofs` |
| `TcpServer` | TcpServer, Acceptor, EventLoopThreadPool | - | `TcpServerProofs` |
| `Logging` | Logging and LogStream: macros, lines, their buffers, the end of the process | - | `LoggingProofs` |

`MC*` modules give constants their values for TLC. Definitions whose comment
begins with "Fault in X" are wrong variants of X: replacing X by one of them
must break a property, which shows that the property depends on that code.
They take no part in any specification.

### How state and actions correspond to the code

*EventLoop.* The owner's `pc` says where in `loop()` it is. Code under `mutex_`
is one step; the eventfd write after a push or after `quit_ = true` is a step
of its own (`owing` holds the threads that owe one). The turn is `TestQuit`,
`PollReturns` or `PollNothing`, `HandleWakeup` and `HandleChannel` (in any
order), `TakePending` (the swap), `StartFunctor`/`FunctorReturns`,
`PendingDone`. Handlers and functors may call `QueueInLoop`, `RunInLoop` and
`Quit` any number of times. The eventfd counter is kept as "not zero".

*Poller.* A step per operation, all in the loop thread. Between the callbacks
of a dispatch any channel may be updated, constructed or destroyed;
`removeChannel` is only called by functors, as `TcpServer` does, and never
followed by an update. Two channel objects may take turns on one descriptor.
`AddSlot`, `ChangeSlot`, `RemoveLast` and `RemoveBySwap` are the branches of
the code; a muted slot holds `-fd - 1` and stays muted, also when the channel is
enabled again. The history variable `silenced` has the registered channels that
asked for nothing in an update after their first; `PolledAsAsked` compares both
fields of every slot with it, so it says that such a channel is not polled.

*TimerQueue.* `heap` is what `new Timer` and `delete` work on; a `TimerId` is
an address and a sequence and may outlive its timer. `inbox` is the part of
the loop's functor queue that concerns timers: first in, first out, which is
what `EventLoop` is proved to do. The clock only moves forward; a read of
freed memory finds the old content or zero. In terms of `Schedule`, a timer is
known by its sequence and is where its address is: queued for insertion
(handed over), in the two sets (waiting) or in the batch (firing). A mark in
`cancelingTimers_` counts only while its address still holds that timer.
`Schedule` drops or stops a timer only in a step that carries out the
cancellation meant for that timer (`revoked`, the history `cancelled` here), and
a cancellation that does nothing must have missed (`Miss`). From the first
sequence read too late (`garbled`, here `Misread`) it leaves open which timer a
cancellation hits.

*EventLoopThread.* The creator and the new thread; the loop inside is a real
`EventLoop` with the new thread as owner, so functors handed over before
`loop()` is entered and a `quit()` that comes too early are behaviours. The
creator may give the loop to `Others`, threads that hand it functors and ask it
to quit at the same time; it sees to it that none of them is in a call when it
destroys the EventLoopThread.

*TcpConnection.* `send()` and `shutdown()` in other threads are test, set and
hand-over, a step each; what the loop thread runs is one step. `::write` takes
any prefix. `Buffer::append(const char*, size_t)` has an empty body
(`Buffer.h:64`), and `Appended` says so. The output buffer starts with what
uninitialised indexes make of it (`StaleBytes`).

*Buffer.* Vector and indexes as in the code, the indexes with the arithmetic of
`size_t` and, as the constructor gives them none, any of the values `Garbage` at
birth. Callers keep the contract as far as the buffer lets them see it: no more
retrieved than it says is readable, no more written than it says is writable, no
more prepended than it says fits. `shrink` may be called at any time and leaves
the indexes alone, wherever it puts the bytes. The history variable `intact` has
the buffers in order: equal indexes inside the vector at birth, or a
`retrieveAll()`, and no `shrink` since that moved the bytes away from the
indexes. An access outside the vector is the step `Stray`, after which that
buffer is not followed; `StaysInside` says that it never is a buffer in order.
In terms of `ByteQueue`, `Lose` is such a `shrink`.

*TcpServer.* `start()` runs in the base loop's thread or in another, where it
interleaves with the base loop; the pool is filled one loop at a time; each
accepted connection gets the next loop and is established there. A connection
is never taken out again: `handleClose` does not call `closeCallback_`, so
`removeConnection`, `removeConnectionInLoop` and `connectDestroyed` are
unreachable and have no actions. `AcceptFails`: `sockets::accept` looks at
`errno` only after `setNonBlockAndCloseOnExec(-1)` has set it to EBADF, so that
every failure ends in LOG_FATAL.

*Logging.* A thread logs a line in steps: the macro's test of the level and the
`snprintf` into `t_time` (`Begin`, `EndFormat`), the stream of it with the rest
of the header (`Stamp`), the pieces of the statement, `~Logger` with `finish`
and the output (`Destroy`), and for FATAL the flush and `abort()`. A piece keeps
its length and, for a number, its digits; `DigitsOf` is `convert` with the
quotient and remainder of C++. `flushed` counts the lines that have left the
process; stdio may write some out earlier (`StdioWrites`).

## 3. Runs

Twelve runs; the properties are defined, with the behaviour they are about, at
the end of each module. The type invariants of `EventLoop`, `Poller`,
`Buffer`, `TimerQueue` and `TcpServer` are proved and no longer part of a run;
the others are both.

| Run | Instance | What it shows |
|---|---|---|
| `loop_calls` | 2 threads, 3 functors, 1 channel | `NoLostWakeup`, `NoLostQuit`, `BatchFinished`, `FifoAtMostOnce`: nothing handed over is slept on, no batch is abandoned, functors run at most once and in order; `QuitHonoured` without the 10 s poll timeout, `EventuallyRun` with it (44,584 states) |
| `poller_safety` | 3 descriptors, 4 channel objects | `IndexCoherent`, `DispatchValid`, and `ActsAsMap`; `PolledAsAsked`: events and descriptor of each slot, muted ones included (555,046 states) |
| `timers_safety` | 3 timers on 2 addresses, 1 other thread that cancels | `InSync`, `BatchAllocated`, `Armed`, `CancelSticks`, `OneShotOnce` (6.3 million states) |
| `timers_foreign` | 2 timers, 1 other thread that adds and cancels | `ActsAsSchedule`: a cancel hits the timer it was meant for or none, unless a TimerId was misread; `NotLost`: nor does a timer vanish otherwise; `Served`: a one-shot timer runs in the end (1,036,590 states) |
| `timers_race` | the same, one address | finding: `ReadBeforeFree` is violated |
| `connection_calls` | loop thread and 2 others, 2 messages, 0 or 2 stale bytes | `WireInOrder`, `GracefulShutdown`, `ClosedIsSilent`, `ShutdownCompletes` (951,680 states) |
| `connection_scrambled` | 1 other thread | finding: `NotScrambled` is violated |
| `buffer_queue` | 2 buffers, vectors of up to 4 bytes, `size_t` of 10 values | `StaysInside`, `RoomAsAsked`, and `ActsAsByteQueue` (370,230 states) |
| `thread_start` | creator, owner, 1 other thread, 3 functors | `Handshake`, `StartCompletes`, `FirstFunctorsRun`, `DestructorCompletes` (15,480 states) |
| `server_start` | 0 or 2 pool loops, 4 clients, 3 descriptors, 2 calls of `start()` | `PoolBeforeListen`, `Balanced`, `EstablishedInOwnLoop`, `StartListens`, `Reached` |
| `log_lines` | 2 threads, 2 lines of up to 2 pieces, 4 macros, 2 levels | `Terminated`, `LocationKept`, `NumbersRead`, `FatalFlushed` (782,332 states) |
| `log_race` | the same, 3 lines | finding: `StampWhole` is violated |

### Bounds

- *Loop.* A lost wakeup needs one thread between push and write while another
  push or quit happens: two threads. Order across batches needs a functor
  running, one in its batch and one pushed meanwhile: three functors.
- *Poller.* A swap moves the last slot; three slots are the fewest with one
  slot neither removed nor moved. The second object on descriptor 2 covers the
  reuse of a descriptor while an old index is about.
- *Timers.* `Addr`, `MaxSeq`, `MaxTime`, `MaxInbox`. Three timers on two
  addresses force the reuse of one while another timer is pending; two ticks
  give a batch, a restart and a later batch. Past `MaxTime` the clock goes on
  while one-shot timers wait, so the bound never makes `Served` fail or hold.
  With another thread that adds, two timers are enough for a misread sequence
  and for a cancel that overtakes an insertion; both instances were also checked
  against `Schedule`.
- *Connection.* Two messages, one of two units, are enough for a gap before a
  later message; two other threads and the owner cover every pair of callers.
- *Buffer.* `MaxSize` is the memory there is: a longer vector is not to be had.
  Vectors of one to four bytes with one kept for prepend make room both by
  moving and by growing, with data in place; a chunk of six bytes overflows the
  vector in `readFd`. Of `Garbage`, 0 and 3 lie inside the first vector and 9 is
  the largest `size_t`; a retrieve from 9 wraps around. The two buffers are
  interchangeable (symmetry).
- *Logging.* `MaxLines`, `MaxPieces`. The buffer has its real 4000 bytes; the
  lengths are chosen so that a body leaves exactly the room `LocationKept` asks
  for (3923 bytes behind the header of an INFO line are 3955, and 3955 + 3 + 9 +
  1 + 32 = 4000), leaves one byte less (with a zero behind them), and that a line
  ends in its newline with the buffer full to the last byte, or loses it there. A FATAL
  line that another thread's abort overtakes needs two lines; a torn time needs
  a thread in `snprintf` while another streams: two threads. The ints are zero,
  a negative one that ends in zero, and the least.
- *Server.* Three accepted connections over two loops wrap the rotation; the
  fourth finds no descriptor. `MaxStarts` 2 covers `start()` called again
  before the first request to listen was carried out.

### Deadlock

TLC checks for it except where the modelled system may stop: a connection whose
peer has reset it and whose messages are all sent (`connection_*`); a thread
whose destructor has joined it, or whose destructor came before `loop()` and
waits for ever (`thread_start`); a server that has aborted or has met all its
clients (`server_start`); a process that has aborted, or has logged all its
lines (`log_lines`, `log_race`).

### Fairness

Weak fairness of what a scheduled thread does next: the turn of the loop, the
eventfd write a thread owes, a call under way, `start()` in progress. No one is
assumed to call anything, and no client to connect. Three cases need a word:

- The poll timeout is never assumed, except in the premise of `EventuallyRun`.
- `TimerQueue`: the timer handlers, the functors and `poll` are parts of a
  turn, each weakly fair; time passes.
- `TcpConnection`: strong fairness for functors of the connection, because
  events of the same channel may come for ever; `doPendingFunctors` is part of
  every turn, which is what `FirstFunctorsRun` checks of the loop in
  `EventLoopThread`. That output drains is not assumed: `ShutdownCompletes`
  exempts a channel that keeps writing.

## 4. Findings

- `timers_race`: in another thread `addTimer` reads `timer->sequence()` after
  the functor was queued (`TimerQueue.cc:172`); the timer may have run and been
  deleted. The TimerId may then name another timer, and cancelling it stops
  that one; `NotLost`, `Served` and the clause of `ActsAsSchedule` about cancels
  need the exemption `Misread` for this reason.
- `connection_scrambled`: what a short write leaves is given to a function with
  an empty body; after the peer's half-close the next message goes directly
  behind the gap (`TcpConnection.cc:129-152`).
- `log_race`: `formatTime` writes the process-wide `t_time` and streams it
  without a lock; while another thread is in `snprintf` its length is anything,
  and the assertion `strlen(str) == len_` of `LogStream.h:53` may fail.

Behaviours that are in the models but contradict no document, and are no
findings: `quit()` before `loop()` is forgotten; functors pending when the loop
returns never run; a disabled channel stays muted, even when it is enabled
again; connections are never removed; any failure of `accept()` aborts; the marks `cancelInLoop` sets for
timers that ended long ago are never cleared (`TimerQueue.cc:204-209`);
uninitialised buffer indexes make a connection send what it finds there, or
lead outside the vector; `shrink` after a `retrieve()` or `prepend()` leaves the
indexes of the old vector over the new one, so that other bytes are read or none
that belong to it (`Buffer.h:109-114`; nothing in the repository calls it).

## 5. Proofs

Checked by TLAPS for every value of the constants, from the named assumptions
in each module (the owner is not among the other threads; the wakeup channel is
not an ordinary one; descriptors are naturals; reported flag sets are not
empty; buffer sizes are naturals and what is written are bytes; messages are not
empty; heap addresses, delays and intervals are naturals; the ints that are
logged have 32 bits).

*EventLoopProofs.* The inductive invariant is `TypeOK`, `BatchFinished`,
`NoLostQuit`, `LoopInv` (the owner owes a write only inside a functor) and
`WakeupInv`. `NoLostWakeup` alone is not inductive: it speaks of `pc = "poll"`,
and a functor may be pushed before the owner gets there; `WakeupInv` states the
same of every point from which `poll` is reached without another swap.
`LoopInv` excludes that the owner sleeps while it is itself the one that owes
the write. Theorems: `TypeCorrect`, `WakeupNotLost`, `QuitNotLost`,
`BatchIsFinished`, and `ImplementsTaskQueue`, where the abstract queue is
`functors \o pendingFunctors`, so that the swap is a stutter.

*PollerProofs.* The inductive invariant is `TypeOK`, `IndexCoherent`,
`PolledAsAsked` (events and muting of every slot), `DispatchValid` and `OneLivePerFd` (two live objects never
share a descriptor, without which an added channel could displace another in
`channels_`). The case that matters is removal by swap: `RemovedSlots` says
where each remaining slot is afterwards. Theorems: `TypeCorrect`,
`IndexStaysCoherent`, `PollsAsAsked`, `DispatchIsValid`,
`ImplementsInterestMap`.

*BufferProofs.* The inductive invariant is `TypeOK`, `StaysInside` and `Roomy` (a
vector, in order or not, is never shorter than `kCheapPrepend`, on which
`retrieveAll` relies when it puts a buffer in order). Each operation has a lemma
with its effect on the readable bytes of its buffer, which for moving and
growing is none and for `shrink` depends on where they begin; `IntactIsInside`
shows that none of the accesses of `Stray` is possible in a buffer in order. Of
the other buffers nothing is promised, and nothing of what is done to them is
seen in the abstract queues (`UnseenStep`). Theorems: `TypeCorrect`,
`IntactStaysInside`, `ImplementsByteQueue`, `RoomIsMade`.

*LoggingProofs.* The inductive invariant is `TypeOK`, `FatalFlushed` and, of
every line given out, how it ends (`AllWellEnded`). The lemmas say what `append`
and `formatInteger` do to a buffer that has, or lacks, the room; with them the
five pieces of `finish` are followed one by one. What the recursive functions
`DigitsOf` and `Reads` compute is proved without an induction rule: a set of
naturals has a least element, so of the ints for which a statement failed there
would be one nearest to zero, and its quotient by ten is nearer still. In this
way a function that satisfies the recursive equation exists (`DigitsOfIs`,
`ReadsIs`), `convert` never writes more than eleven characters for an int of
the type (`ConvertLength`, so that `kMaxNumericSize` is room enough), and what
it writes reads as the int, the least one included (`ConvertReads`). Theorems:
`TypeCorrect`, `LinesTerminated`, `LocationIsKept`, `FatalIsFlushed`,
`NumbersReadBack`; and `AloneStampsWhole`: where only one thread logs the
assertion that `log_race` violates always holds, so the finding is about
threads and nothing else.

*TcpServerProofs.* The inductive invariant says, besides the types, how far
`start()` is when the base loop listens (`PoolInv`, `Quiet`), that no
connection has two names (`Named`), that functors name connections of their own
loop, once (`Pending`), that each accepted connection is established or named by
a functor (`Handed`), and that after q whole rounds the loops before `next_`
have one connection more (`Rotation`), without which `Balanced` is not
inductive. Theorems: `TypeCorrect`, `PoolIsComplete`, `RotationIsFair`,
`EstablishedOnce`.

*TimerQueueProofs.* `InSync`, `BatchAllocated` and `Armed` are inductive only
together with: every address is in one place only (`BatchOnce`,
`QueuedApart`), a sequence is given out once (`Numbered`), and what has run is
in the front of the batch (`RanInBatch`): `IInv`. To it `JInv` adds that every
timer that exists is in one of these places (`NoLeak`), that no TimerId or mark
names a timer not yet made (`NumbersKnown`), and that cancels in callbacks come
after the first callback was started (`CallbackRuns`). Both hold whoever adds
timers and whatever sequence `addTimer` reads, and carry the refinement
`ImplementsSchedule`: `NoLeak` and `InSync` make the three places one-to-one
with the abstract sets, `NumbersKnown` keeps an old mark from stopping a timer
that gets its address later, and `RightUntilMisread` (below) shows that until a
sequence is misread the timer a cancel finds is the one it was meant for, and
that one that finds none has missed.

`NotLost` speaks of which timer a cancel was meant for, and a sequence read too
late may name another one. Until then TimerIds are right, only cancelled timers
are marked and the others survive (`Right`, kept until `Misread`). `Held` is
the part that makes it inductive: while an `addTimer` has not read its sequence,
no other address holds a timer of that number. `CancelSticks` is proved for
`Adders = {}` from `SoloInv`, which adds that a cancelled timer that still
exists is in the batch and marked; with foreign adders it is false. Theorems:
`TypeCorrect`, `SetsInSync`, `BatchStaysAllocated`, `StaysArmed`,
`OneShotRunsOnce`, `NoTimerLeaks`, `ImplementsSchedule`, `RightUntilMisread`,
`NoneIsLost`, `CancelIsFinal`.

*TcpConnectionProofs.* Two halves. The order: `InOrder` adds to `WireInOrder`
that without a write under way everything sent is on the wire, and
`OutputStale` that the output buffer only ever holds what it was born with,
`append` being empty. The half-close: `Tracked` says where an accepted message
is (sent, queued, or with its thread), `Ahead` that one promised is in the queue
before every half-close, `Ended` that nothing of a half-close exists while
`state_` is kConnected, and `Closing` who shuts down. `GracefulShutdown`
follows at each half-close, because it waits for `~writing`, and there
`InOrder` makes what was sent what is on the wire. It is promised of a
connection with a clean buffer that is not closed, and of the loop thread only
when no other thread shuts down: that thread makes its half-close at once, past
what the others have queued (`TcpConnection.cc:99`). Theorems: `TypeCorrect`,
`WireKeepsOrder`, `ShutdownIsGraceful`, `ClosedStaysSilent`.

*EventLoopThreadProofs.* `Handshake` is inductive with `Created`, that the
thread is created once. `IsAnEventLoop`: what the threads do to the loop is
always a step of `EventLoop`, so the theorems of `EventLoopProofs` hold of the
loop on the thread's stack: no functor is slept on, also one handed over before
`loop()` is entered, and no batch is abandoned (`LoopKeepsItsPromises`), and the
functors are those of a `TaskQueue` (`LoopKeepsOrder`). A `quit()` before
`loop()` is cleared by it (`EventLoop.cc:90`), so of `quit()` less is true:
once the destructor has called it in a loop already entered it stays set and is
not slept on (`DestructorIsHeard`, with `Asked` as the inductive part). Theorems:
`HandshakeHolds`, `IsAnEventLoop`, `LoopKeepsItsPromises`, `DestructorIsHeard`,
`LoopKeepsOrder`.

Only model-checked: all liveness (`EventuallyRun`, `QuitHonoured`, `Served`,
`ShutdownCompletes`, `StartCompletes`, `FirstFunctorsRun`,
`DestructorCompletes`, `StartListens`, `Reached`), which rests on fairness and
is outside the prover's reach. Every invariant and every refinement that a
passing run checks is also a theorem.

## 6. Not modelled

- Of logging: `setOutput` and `setFlush`, which nothing calls, the buffer
  behind `strerror_tl`, and what texts say; of the numbers only `int`, the type
  the code streams.
- The destructors of TcpServer, EventLoopThreadPool, Poller and TimerQueue, and
  so use after destruction; of EventLoopThread only after `startLoop`.
- Steps of the wall clock, with which timers compare a monotonic timerfd.
- Thread ids and names, address formatting, socket options, the user's
  connection and message callbacks beyond the calls they may make.
- Two threads that call `TcpServer::start()` or `setThreadNum` at the same
  time, which nothing in the code is made for.

## 7. Plan

Done, in the order of importance: `EventLoop` with `TaskQueue`, `Poller` with
`InterestMap`, `TimerQueue` with `Schedule`, `TcpConnection`, `Buffer` with
`ByteQueue`, `EventLoopThread` composed with `EventLoop`, `TcpServer`,
`Logging`, and proofs about each of them. Left:

1. The lifetime of the loop object and of connections: the destructors of
   TcpServer, EventLoopThreadPool and TimerQueue against functors and channels
   that still refer to them. No document says when they may run, so this needs
   the contract the callers are to keep before it needs a model.
2. `TcpServer` composed with one `TcpConnection` per accepted peer.
3. That the inbox of `TimerQueue` and the functors of `TcpConnection` are
   instances of `TaskQueue`, as `EventLoop` is proved to be.
