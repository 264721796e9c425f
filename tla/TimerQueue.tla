------------------------------ MODULE TimerQueue ------------------------------
(***************************************************************************)
(* log/TimerQueue.cc with log/Timer.h and log/Timer.cc: the timers of one  *)
(* loop, the two sets they are kept in, the timerfd armed for the earliest *)
(* and the batch of expired timers whose callbacks are being run.          *)
(*                                                                         *)
(* Threads.  timers_, activeTimers_ and cancelingTimers_ are touched by    *)
(* the loop thread only.  addTimer and cancel reach it through runInLoop:  *)
(* inline when the loop thread calls them, through the functor queue when  *)
(* another thread does; inbox is that queue, run first-in first-out (what  *)
(* EventLoop is shown to do), after the active channels were dispatched.   *)
(* In another thread addTimer goes on to read timer->sequence() after the  *)
(* functor was queued: a step of its own, which the loop may come before.  *)
(*                                                                         *)
(* Memory.  A Timer is an address in heap; delete frees the address, new   *)
(* takes any free one, so a TimerId may outlive its timer and its address  *)
(* may come to hold another timer.  A read of freed memory finds the old   *)
(* sequence, or garbage (0).                                               *)
(*                                                                         *)
(* Time.  now is Timestamp::now() in ticks of the shortest delay the code  *)
(* arms (100 microseconds, 1 tick); the clock only moves forward, and the  *)
(* timerfd counts the same ticks.                                          *)
(***************************************************************************)
EXTENDS Integers, Sequences, FiniteSets

CONSTANTS
  Addr,        \* the addresses new Timer may return
  Threads,     \* the other threads that call cancel
  Adders,      \* those of them that call addTimer too
  Delays,      \* when - now in calls of addTimer
  Intervals,   \* 0 for runAt and runAfter, the period for runEvery
  MaxSeq,      \* bound: timers created
  MaxTime,     \* bound: the clock
  MaxInbox     \* bound: functors queued at a time

ASSUME TimerQueueAssumption ==
  /\ Addr \subseteq Nat \ {0}
  /\ Adders \subseteq Threads
  /\ Delays \subseteq Nat /\ Intervals \subseteq Nat
  /\ MaxSeq \in Nat /\ MaxTime \in Nat /\ MaxInbox \in Nat

VARIABLES
  pc,                      \* "user", "run" or "callback", see below
  now,                     \* Timestamp::now()
  created,                 \* Timer::s_numCreated_
  heap,                    \* address -> the Timer there, or Free
  timers,                  \* timers_: pairs <<expiration, address>>
  activeTimers,            \* activeTimers_: pairs <<address, sequence>>
  cancelingTimers,         \* cancelingTimers_: the same
  callingExpiredTimers,    \* callingExpiredTimers_
  deadline,                \* when timerfd_ becomes readable, or Never
  polled,                  \* the timerfd channel is in activeChannels_
  batch,                   \* expired, the vector getExpired returned
  next,                    \* the position in it handleRead has come to
  since,                   \* now, as handleRead read it; 0 outside
  inbox,                   \* functors other threads queued, oldest first
  adding,                  \* thread -> the timer whose sequence it must read
  ids,                     \* the TimerIds handed out, and whose they are
  ran,                     \* history: sequences whose callback was started
  every,                   \* history: sequences of repeating timers
  cancelled                \* history: sequences whose cancelInLoop was run

vars == <<pc, now, created, heap, timers, activeTimers, cancelingTimers,
          callingExpiredTimers, deadline, polled, batch, next, since, inbox,
          adding, ids, ran, every, cancelled>>

(***************************************************************************)
(* pc.  "user": the loop thread is outside handleRead, anywhere in its     *)
(* turn; "run": in handleRead, between two callbacks; "callback": in one.  *)
(***************************************************************************)
InUserCode == pc \in {"user", "callback"}

Never == -1
Free == [seq |-> 0, exp |-> 0, interval |-> 0]
Allocated(a) == heap[a] # Free
NoTimer == [addr |-> 0, seq |-> 0]

Later(m, n) == IF m < n THEN n ELSE m

Init ==
  /\ pc = "user"
  /\ now = 0
  /\ created = 0
  /\ heap = [a \in Addr |-> Free]
  /\ timers = {} /\ activeTimers = {} /\ cancelingTimers = {}
  /\ callingExpiredTimers = FALSE
  /\ deadline = Never
  /\ polled = FALSE
  /\ batch = <<>> /\ next = 1 /\ since = 0
  /\ inbox = <<>>
  /\ adding = [t \in Adders |-> NoTimer]
  /\ ids = {[addr |-> 0, seq |-> 0, of |-> 0]}      \* TimerId()
  /\ ran = {} /\ every = {} /\ cancelled = {}

------------------------------------------------------------------------------
(* insert, addTimer and addTimerInLoop.                                    *)

(* resetTimerfd: never sooner than the shortest delay from now. *)
Arm(exp) == Later(exp, now + 1)

(* Whether inserting a timer that expires at exp changes the earliest one. *)
Earliest(exp) == \A e \in timers : exp < e[1]

(* Fault in AddTimerInLoop: a set ordered by expiration alone holds one     *)
(* timer for each. *)
AddTimerInLoopAlone(a, tm) ==
  IF \E e \in timers : e[1] = tm.exp
    THEN UNCHANGED <<timers, activeTimers, deadline>>
    ELSE /\ timers' = timers \cup {<<tm.exp, a>>}
         /\ activeTimers' = activeTimers \cup {<<a, tm.seq>>}
         /\ deadline' = IF Earliest(tm.exp) THEN Arm(tm.exp) ELSE deadline

AddTimerInLoop(a, tm) ==
  /\ timers' = timers \cup {<<tm.exp, a>>}
  /\ activeTimers' = activeTimers \cup {<<a, tm.seq>>}
  /\ deadline' = IF Earliest(tm.exp) THEN Arm(tm.exp) ELSE deadline

(* new Timer(cb, now + d, i) at the free address a. *)
NewTimer(d, i) == [seq |-> created + 1, exp |-> now + d, interval |-> i]

Allocate(a, d, i) ==
  /\ created < MaxSeq
  /\ ~Allocated(a)
  /\ created' = created + 1
  /\ heap' = [heap EXCEPT ![a] = NewTimer(d, i)]
  /\ every' = IF i > 0 THEN every \cup {created + 1} ELSE every

(* runAt, runAfter and runEvery in the loop thread. *)
AddTimer(a, d, i) ==
  /\ InUserCode
  /\ Allocate(a, d, i)
  /\ AddTimerInLoop(a, NewTimer(d, i))
  /\ ids' = ids \cup {[addr |-> a, seq |-> created + 1, of |-> created + 1]}
  /\ UNCHANGED <<pc, now, cancelingTimers, callingExpiredTimers, polled, batch,
                 next, since, inbox, adding, ran, cancelled>>

(* The same in another thread, as far as runInLoop. *)
QueueAddTimer(t, a, d, i) ==
  /\ adding[t] = NoTimer
  /\ Len(inbox) < MaxInbox
  /\ Allocate(a, d, i)
  /\ inbox' = Append(inbox, [op |-> "add", addr |-> a, seq |-> created + 1,
                             of |-> created + 1])
  /\ adding' = [adding EXCEPT ![t] = [addr |-> a, seq |-> created + 1]]
  /\ UNCHANGED <<pc, now, timers, activeTimers, cancelingTimers,
                 callingExpiredTimers, deadline, polled, batch, next, since,
                 ids, ran, cancelled>>

(* return TimerId(timer, timer->sequence()), whatever is there by now. *)
ReadSequence(t) ==
  /\ adding[t] # NoTimer
  /\ LET tm == adding[t]
         found == IF Allocated(tm.addr) THEN {heap[tm.addr].seq}
                                        ELSE {tm.seq, 0}
     IN \E s \in found :
          ids' = ids \cup {[addr |-> tm.addr, seq |-> s, of |-> tm.seq]}
  /\ adding' = [adding EXCEPT ![t] = NoTimer]
  /\ UNCHANGED <<pc, now, created, heap, timers, activeTimers, cancelingTimers,
                 callingExpiredTimers, deadline, polled, batch, next, since,
                 inbox, ran, every, cancelled>>

------------------------------------------------------------------------------
(* cancel and cancelInLoop; id.of says which timer the caller means.       *)

(* Fault in Erase: a stale TimerId takes whatever timer its address holds. *)
EraseByAddress(id) ==
  /\ \E t \in activeTimers : t[1] = id.addr
  /\ timers' = timers \ {<<heap[id.addr].exp, id.addr>>}
  /\ activeTimers' = {t \in activeTimers : t[1] # id.addr}
  /\ heap' = [heap EXCEPT ![id.addr] = Free]
  /\ UNCHANGED cancelingTimers

(* The timer waits: it leaves both sets and is deleted. *)
Erase(id) ==
  /\ <<id.addr, id.seq>> \in activeTimers
  /\ timers' = timers \ {<<heap[id.addr].exp, id.addr>>}
  /\ activeTimers' = activeTimers \ {<<id.addr, id.seq>>}
  /\ heap' = [heap EXCEPT ![id.addr] = Free]
  /\ UNCHANGED cancelingTimers

(* Fault in Mark: a timer whose callback may be running is deleted. *)
MarkDeletes(id) ==
  /\ <<id.addr, id.seq>> \notin activeTimers
  /\ heap' = [a \in Addr |->
       IF a = id.addr /\ heap[a].seq = id.seq THEN Free ELSE heap[a]]
  /\ UNCHANGED <<timers, activeTimers, cancelingTimers>>

(* It does not: during the callbacks it is marked for reset. *)
Mark(id) ==
  /\ <<id.addr, id.seq>> \notin activeTimers
  /\ cancelingTimers' = IF callingExpiredTimers
                          THEN cancelingTimers \cup {<<id.addr, id.seq>>}
                          ELSE cancelingTimers
  /\ UNCHANGED <<timers, activeTimers, heap>>

CancelInLoop(id) ==
  /\ Erase(id) \/ Mark(id)
  /\ cancelled' = cancelled \cup {id.of}

Cancel(id) ==
  /\ InUserCode
  /\ CancelInLoop(id)
  /\ UNCHANGED <<pc, now, created, callingExpiredTimers, deadline, polled,
                 batch, next, since, inbox, adding, ids, ran, every>>

QueueCancel(t, id) ==
  /\ t \in Adders => adding[t] = NoTimer
  /\ Len(inbox) < MaxInbox
  /\ inbox' = Append(inbox, [op |-> "cancel", addr |-> id.addr,
                             seq |-> id.seq, of |-> id.of])
  /\ UNCHANGED <<pc, now, created, heap, timers, activeTimers, cancelingTimers,
                 callingExpiredTimers, deadline, polled, batch, next, since,
                 adding, ids, ran, every, cancelled>>

(* doPendingFunctors runs the oldest functor other threads queued. *)
RunFunctor ==
  /\ pc = "user" /\ ~polled
  /\ inbox # <<>>
  /\ inbox' = Tail(inbox)
  /\ LET f == Head(inbox)
     IN \/ /\ f.op = "add"
           /\ AddTimerInLoop(f.addr, heap[f.addr])
           /\ UNCHANGED <<heap, cancelingTimers, cancelled>>
        \/ /\ f.op = "cancel"
           /\ CancelInLoop(f)
           /\ UNCHANGED deadline
  /\ UNCHANGED <<pc, now, created, callingExpiredTimers, polled, batch, next,
                 since, adding, ids, ran, every>>

------------------------------------------------------------------------------
(* handleRead.                                                             *)

Readable == deadline # Never /\ deadline <= now

(* Poller::poll finds the timerfd readable. *)
Poll ==
  /\ pc = "user" /\ ~polled
  /\ Readable
  /\ polled' = TRUE
  /\ UNCHANGED <<pc, now, created, heap, timers, activeTimers, cancelingTimers,
                 callingExpiredTimers, deadline, batch, next, since, inbox,
                 adding, ids, ran, every, cancelled>>

(* The order of timers_: by expiration, then by address. *)
Before(d, e) == d[1] < e[1] \/ (d[1] = e[1] /\ d[2] < e[2])

(* The elements of S as a vector in that order. *)
Vectors(S) ==
  {q \in UNION {[1 .. n -> S] : n \in 0 .. Cardinality(S)} :
     /\ \A e \in S : \E k \in DOMAIN q : q[k] = e
     /\ \A j, k \in DOMAIN q : j < k => Before(q[j], q[k])}

(* Fault in GetExpired: activeTimers_ is left alone. *)
GetExpiredTimersOnly(due) ==
  /\ batch' \in Vectors(due)
  /\ timers' = timers \ due
  /\ UNCHANGED activeTimers

GetExpired(due) ==
  /\ batch' \in Vectors(due)
  /\ timers' = timers \ due
  /\ activeTimers' = activeTimers \ {<<e[2], heap[e[2]].seq>> : e \in due}

(* An earlier handler of the same turn may have re-armed the timerfd: then *)
(* there is nothing to read, and perhaps no timer is due. *)
HandleRead ==
  /\ pc = "user" /\ polled
  /\ polled' = FALSE
  /\ deadline' = IF Readable THEN Never ELSE deadline
  /\ since' = now
  /\ GetExpired({e \in timers : e[1] <= now})
  /\ next' = 1
  /\ callingExpiredTimers' = TRUE
  /\ pc' = "run"
  /\ UNCHANGED <<now, created, heap, cancelingTimers, inbox, adding, ids, ran,
                 every, cancelled>>

(* it->second->run() *)
RunTimer ==
  /\ pc = "run"
  /\ next <= Len(batch)
  /\ ran' = ran \cup {heap[batch[next][2]].seq}
  /\ next' = next + 1
  /\ pc' = "callback"
  /\ UNCHANGED <<now, created, heap, timers, activeTimers, cancelingTimers,
                 callingExpiredTimers, deadline, polled, batch, since, inbox,
                 adding, ids, every, cancelled>>

CallbackReturns ==
  /\ pc = "callback"
  /\ pc' = "run"
  /\ UNCHANGED <<now, created, heap, timers, activeTimers, cancelingTimers,
                 callingExpiredTimers, deadline, polled, batch, next, since,
                 inbox, adding, ids, ran, every, cancelled>>

BatchAddrs == {batch[k][2] : k \in DOMAIN batch}

(* Faults in Restarts: cancelingTimers_, or repeat_, is not looked at, or   *)
(* any mark stops every timer. *)
RestartsCancelled(a) == heap[a].interval > 0
RestartsUnlessMarks(a) == heap[a].interval > 0 /\ cancelingTimers = {}
RestartsOneShot(a) == <<a, heap[a].seq>> \notin cancelingTimers

(* The timers of the batch that reset restarts; it deletes the others. *)
Restarts(a) ==
  heap[a].interval > 0 /\ <<a, heap[a].seq>> \notin cancelingTimers

(* Fault in Rearmed: the timerfd is not armed again. *)
RearmedNot(times) == deadline

(* The timerfd is armed for the earliest of these expirations, if any. *)
Rearmed(times) ==
  IF times = {} THEN deadline
  ELSE Arm(CHOOSE m \in times : \A n \in times : m <= n)

(* callingExpiredTimers_ = false; reset(expired, now). *)
Reset ==
  /\ pc = "run"
  /\ next > Len(batch)
  /\ callingExpiredTimers' = FALSE
  /\ LET again == {a \in BatchAddrs : Restarts(a)}
     IN /\ heap' = [a \in Addr |->
             IF a \in again
               THEN [heap[a] EXCEPT !.exp = since + heap[a].interval]
             ELSE IF a \in BatchAddrs THEN Free ELSE heap[a]]
        /\ timers' = timers \cup {<<since + heap[a].interval, a>> : a \in again}
        /\ activeTimers' = activeTimers \cup {<<a, heap[a].seq>> : a \in again}
  /\ deadline' = Rearmed({e[1] : e \in timers'})
  /\ batch' = <<>>
  /\ next' = 1
  /\ since' = 0
  /\ pc' = "user"
  /\ UNCHANGED <<now, created, cancelingTimers, polled, inbox, adding, ids,
                 ran, every, cancelled>>

------------------------------------------------------------------------------
(* The clock.  Past MaxTime it runs only as long as timers that do not      *)
(* repeat are waiting. *)
Tick ==
  /\ now < MaxTime \/ (now < deadline /\ \E t \in activeTimers : t[2] \notin every)
  /\ now' = now + 1
  /\ UNCHANGED <<pc, created, heap, timers, activeTimers, cancelingTimers,
                 callingExpiredTimers, deadline, polled, batch, next, since,
                 inbox, adding, ids, ran, every, cancelled>>

LoopStep ==
  RunFunctor \/ Poll \/ HandleRead \/ RunTimer \/ CallbackReturns \/ Reset

Next ==
  \/ LoopStep
  \/ Tick
  \/ \E a \in Addr, d \in Delays, i \in Intervals :
       AddTimer(a, d, i) \/ \E t \in Adders : QueueAddTimer(t, a, d, i)
  \/ \E t \in Adders : ReadSequence(t)
  \/ \E id \in ids : Cancel(id) \/ \E t \in Threads : QueueCancel(t, id)

Spec == Init /\ [][Next]_vars

(* The loop thread is scheduled, callbacks return, every turn of loop()    *)
(* polls and runs a finite batch of functors, and time passes.  Not        *)
(* assumed: that anyone adds or cancels a timer. *)
FairSpec ==
  /\ Spec
  /\ WF_vars(RunFunctor) /\ WF_vars(Poll)
  /\ WF_vars(HandleRead \/ RunTimer \/ CallbackReturns \/ Reset)
  /\ WF_vars(Tick)

------------------------------------------------------------------------------
Seqs == 1 .. MaxSeq

(* Types; callingExpiredTimers_ covers the callbacks and nothing else, and *)
(* reset leaves no batch behind. *)
TypeOK ==
  /\ pc \in {"user", "run", "callback"}
  /\ now \in Nat /\ since \in 0 .. now
  /\ created \in 0 .. MaxSeq
  /\ heap \in [Addr -> [seq : 0 .. MaxSeq, exp : Nat, interval : Intervals \cup {0}]]
  /\ timers \subseteq Nat \X Addr
  /\ activeTimers \subseteq Addr \X Seqs
  /\ cancelingTimers \subseteq (Addr \cup {0}) \X (Seqs \cup {0})
  /\ callingExpiredTimers \in BOOLEAN
  /\ callingExpiredTimers <=> pc # "user"
  /\ deadline \in Nat \cup {Never}
  /\ polled \in BOOLEAN /\ (polled => pc = "user")
  /\ batch \in Seq(Nat \X Addr) /\ (pc = "user" => batch = <<>>)
  /\ next \in 1 .. Len(batch) + 1
  /\ ran \subseteq Seqs /\ every \subseteq Seqs

(* timers_ and activeTimers_ hold the same timers, under the expiration    *)
(* and the sequence the timer has now, and each of them is allocated: the  *)
(* erase in cancelInLoop finds its entry, and no entry dangles.            *)
InSync ==
  /\ timers = {<<heap[t[1]].exp, t[1]>> : t \in activeTimers}
  /\ \A t \in activeTimers : heap[t[1]].seq = t[2]

(* No callback, whatever it cancels or adds, frees a timer of the batch    *)
(* being run: run() and reset() never touch freed memory, and a timer of   *)
(* the batch is in neither set, so nothing deletes it twice.               *)
BatchAllocated ==
  \A k \in DOMAIN batch :
    /\ Allocated(batch[k][2])
    /\ heap[batch[k][2]].exp = batch[k][1]
    /\ \A t \in activeTimers : t[1] # batch[k][2]

(* Outside handleRead a timer that waits is never forgotten by the kernel: *)
(* the timerfd is armed, for the earliest expiration at the latest or for  *)
(* the shortest delay.                                                     *)
Armed ==
  pc = "user" =>
    \A e \in timers : deadline # Never /\ deadline <= Later(e[1], now + 1)

(* Where timer s is, if it may still run. *)
Waits(s) == \E t \in activeTimers : t[2] = s
Queued(s) == \E k \in DOMAIN inbox : inbox[k].op = "add" /\ inbox[k].seq = s
InBatch(s, from) ==
  \E k \in from .. Len(batch) : heap[batch[k][2]].seq = s

(* Some addTimer read the sequence too late: to cancel what it returned may *)
(* hit any timer. *)
Misread == \E id \in ids : id.seq # id.of

(* A timer nobody cancelled is never lost: until its callback ran it waits, *)
(* and a repeating one waits again after its callback ran; whoever adds and *)
(* cancels timers, in whatever order, as long as no TimerId was misread.    *)
NotLost ==
  Misread \/ \A s \in (1 .. created) \ cancelled :
    \/ Waits(s) \/ Queued(s) \/ InBatch(s, next)
    \/ s \in every /\ InBatch(s, 1)
    \/ s \notin every /\ s \in ran

(* cancel is final, also for a timer whose callback is running and which   *)
(* reset would restart: it never waits again.                              *)
CancelSticks == \A s \in cancelled : ~Waits(s) /\ ~Queued(s)

(* The callback of runAt and runAfter is run once: after it ran its timer  *)
(* is in no place from which it could be run again.                        *)
OneShotOnce ==
  \A s \in ran \ every : ~Waits(s) /\ ~Queued(s) /\ ~InBatch(s, next)

(* A timer that does not repeat runs in the end, unless it is cancelled,    *)
(* whatever other timers come, run and are cancelled; or unless a TimerId   *)
(* was misread.                                                            *)
Served ==
  \A s \in Seqs :
    s \in (1 .. created) \ every ~> s \in ran \cup cancelled \/ Misread

(* The queue as the schedule its callers see.  A timer is known by its      *)
(* sequence and is where its address is: queued, in the two sets, or in    *)
(* the batch.  A mark counts while its address holds that timer.           *)
TimerAt(a) ==
  [id |-> heap[a].seq, due |-> heap[a].exp, period |-> heap[a].interval]
QueuedAddrs == {inbox[k].addr : k \in {j \in DOMAIN inbox : inbox[j].op = "add"}}
WaitingAddrs == {t[1] : t \in activeTimers}
LiveMarks ==
  {m \in cancelingTimers : m[1] \in Addr /\ Allocated(m[1]) /\ heap[m[1]].seq = m[2]}

HandedTimers == {TimerAt(a) : a \in QueuedAddrs}
WaitingTimers == {TimerAt(a) : a \in WaitingAddrs}
FiringTimers == [k \in DOMAIN batch |-> TimerAt(batch[k][2])]
FoundDue == IF batch = <<>> THEN 0 ELSE since
StoppedIds == {m[2] : m \in LiveMarks}

Sched == INSTANCE Schedule WITH
  Periods <- Intervals,
  clock   <- now,
  known   <- created,
  handed  <- HandedTimers,
  waiting <- WaitingTimers,
  firing  <- FiringTimers,
  fired   <- next - 1,
  at      <- FoundDue,
  stopped <- StoppedIds,
  revoked <- cancelled,
  garbled <- Misread

(* Sets, addresses that are reused, marks, functors and the timerfd add up *)
(* to that schedule, whoever adds and cancels timers: none runs before its *)
(* time, out of order or in two batches, a repeating one is restarted with *)
(* its batch, and cancelInLoop drops or stops the timer its caller meant   *)
(* and no other, be its address reused or not; what it does is left open   *)
(* only from the first sequence misread on.                                *)
ActsAsSchedule == Sched!SchedSpec

(* The comment on cancelInLoop, TimerQueue.cc:194: timers are handled in    *)
(* sequence, in one thread.  Were it so, the timer whose sequence addTimer *)
(* is about to read would still be the one it created.                     *)
ReadBeforeFree ==
  \A t \in Adders :
    adding[t] # NoTimer => heap[adding[t].addr].seq = adding[t].seq
==============================================================================
