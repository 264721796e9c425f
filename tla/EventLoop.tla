------------------------------ MODULE EventLoop ------------------------------
(***************************************************************************)
(* The reactor loop of log/EventLoop.cc: one owner thread runs loop(),     *)
(* other threads hand it functors (queueInLoop, runInLoop) and ask it to   *)
(* stop (quit).                                                            *)
(*                                                                         *)
(* What is atomic.  pendingFunctors_ is touched only under mutex_, so each *)
(* critical section (the push_back of queueInLoop, the swap of             *)
(* doPendingFunctors) is one step.  The eventfd write that follows a push, *)
(* or follows quit_ = true, is a step of its own: any thread may run in    *)
(* between.  The loop thread's own statements are cut where another thread *)
(* can observe or change something: at the test of quit_, at poll, at each *)
(* handler, at the swap and at each functor.                               *)
(*                                                                         *)
(* What is abstract.  The eventfd counter is kept as "not zero"; a write   *)
(* that fails because the counter is full leaves it not zero as well.  The *)
(* channels in the active list are dispatched in any order.  A handler or  *)
(* a functor is user code: it calls queueInLoop, runInLoop and quit any    *)
(* number of times and returns.                                            *)
(***************************************************************************)
EXTENDS Sequences

CONSTANTS
  Owner,       \* the thread that constructed the loop: threadId_
  Threads,     \* the other threads that hold a pointer to the loop
  Functors,    \* the functors handed over, each at most once
  Channels,    \* channels other than the wakeup channel: timers, sockets
  Wakeup       \* the wakeup channel, watching wakeupFd_

ASSUME EventLoopAssumption ==
  /\ Owner \notin Threads
  /\ Wakeup \notin Channels

VARIABLES
  pc,                      \* where the owner thread is, see OwnerPoints
  quit,                    \* quit_
  pendingFunctors,         \* pendingFunctors_
  callingPendingFunctors,  \* callingPendingFunctors_
  functors,                \* what is left of the vector swapped out
  activeChannels,          \* what is left of activeChannels_
  wakeupFd,                \* whether the counter behind wakeupFd_ is not zero
  owing,                   \* threads between a push or quit_ = true and write()
  ran,                     \* history: functors started, in order
  silent                   \* history: functors queued by the owner outside loop()

vars == <<pc, quit, pendingFunctors, callingPendingFunctors, functors,
          activeChannels, wakeupFd, owing, ran, silent>>

Elements(s) == {s[i] : i \in DOMAIN s}

(***************************************************************************)
(* "outside": before loop() or after it returned (looping_ is false);      *)
(* "test": at while(!quit_); "poll": in Poller::poll; "dispatch": in the   *)
(* for over activeChannels_; "handler": in a channel's callback; "take":   *)
(* entering doPendingFunctors; "run": in its for; "functor": in a functor. *)
(***************************************************************************)
OwnerPoints ==
  {"outside", "test", "poll", "dispatch", "handler", "take", "run", "functor"}

InUserCode == pc \in {"outside", "handler", "functor"}

Init ==
  /\ pc = "outside"
  /\ quit = FALSE
  /\ pendingFunctors = <<>>
  /\ callingPendingFunctors = FALSE
  /\ functors = <<>>
  /\ activeChannels = {}
  /\ wakeupFd = FALSE
  /\ owing = {}
  /\ ran = <<>>
  /\ silent = {}

------------------------------------------------------------------------------
(* Calls any thread may make.                                              *)

(* Thread t is between two statements of its own code: the owner in user   *)
(* code, any other thread unless it still has to finish a wakeup().        *)
CanCall(t) ==
  /\ t \notin owing
  /\ t = Owner => InUserCode

Fresh(f) ==
  f \notin Elements(ran) \cup Elements(functors) \cup Elements(pendingFunctors)

(* Faults in MustWake: one disjunct of the condition is missing. *)
MustWakeForeignOnly(t) == t # Owner
MustWakeInFunctorOnly(t) == callingPendingFunctors

(* EventLoop::queueInLoop: !isInLoopThread() || callingPendingFunctors_ *)
MustWake(t) == t # Owner \/ callingPendingFunctors

QueueInLoop(t, f) ==
  /\ CanCall(t)
  /\ Fresh(f)
  /\ pendingFunctors' = Append(pendingFunctors, f)
  /\ owing' = IF MustWake(t) THEN owing \cup {t} ELSE owing
  /\ silent' = IF t = Owner /\ pc = "outside" THEN silent \cup {f} ELSE silent
  /\ UNCHANGED <<pc, quit, callingPendingFunctors, functors, activeChannels,
                 wakeupFd, ran>>

(* runInLoop in the owner thread: the functor runs inside the call. *)
RunInline(f) ==
  /\ CanCall(Owner)
  /\ Fresh(f)
  /\ ran' = Append(ran, f)
  /\ UNCHANGED <<pc, quit, pendingFunctors, callingPendingFunctors, functors,
                 activeChannels, wakeupFd, owing, silent>>

RunInLoop(t, f) == IF t = Owner THEN RunInline(f) ELSE QueueInLoop(t, f)

(* Fault in Quit: the loop is not woken up. *)
QuitNoWakeup(t) ==
  /\ CanCall(t)
  /\ quit' = TRUE
  /\ UNCHANGED <<pc, pendingFunctors, callingPendingFunctors, functors,
                 activeChannels, wakeupFd, owing, ran, silent>>

Quit(t) ==
  /\ CanCall(t)
  /\ quit' = TRUE
  /\ owing' = IF t # Owner THEN owing \cup {t} ELSE owing
  /\ UNCHANGED <<pc, pendingFunctors, callingPendingFunctors, functors,
                 activeChannels, wakeupFd, ran, silent>>

(* EventLoop::wakeup, the last statement of queueInLoop and of quit. *)
WriteWakeup(t) ==
  /\ t \in owing
  /\ wakeupFd' = TRUE
  /\ owing' = owing \ {t}
  /\ UNCHANGED <<pc, quit, pendingFunctors, callingPendingFunctors, functors,
                 activeChannels, ran, silent>>

------------------------------------------------------------------------------
(* The owner thread in loop().                                             *)

(* At point p, with no call of its own unfinished. *)
OwnerAt(p) == pc = p /\ Owner \notin owing

(* loop() is entered: looping_ = true; quit_ = false. *)
EnterLoop ==
  /\ OwnerAt("outside")
  /\ pc' = "test"
  /\ quit' = FALSE
  /\ UNCHANGED <<pendingFunctors, callingPendingFunctors, functors,
                 activeChannels, wakeupFd, owing, ran, silent>>

(* Fault in TestQuit: quit_ = false is inside the while. *)
TestQuitForgets ==
  /\ OwnerAt("test")
  /\ pc' = "poll"
  /\ quit' = FALSE
  /\ UNCHANGED <<pendingFunctors, callingPendingFunctors, functors,
                 activeChannels, wakeupFd, owing, ran, silent>>

(* while (!quit_) *)
TestQuit ==
  /\ OwnerAt("test")
  /\ pc' = IF quit THEN "outside" ELSE "poll"
  /\ UNCHANGED <<quit, pendingFunctors, callingPendingFunctors, functors,
                 activeChannels, wakeupFd, owing, ran, silent>>

(* poll() returns because of events: those of any channels, and of the     *)
(* wakeup channel when its counter is not zero.                            *)
PollReturns ==
  /\ OwnerAt("poll")
  /\ \E S \in SUBSET Channels :
       activeChannels' = S \cup (IF wakeupFd THEN {Wakeup} ELSE {})
  /\ activeChannels' # {}
  /\ pc' = "dispatch"
  /\ UNCHANGED <<quit, pendingFunctors, callingPendingFunctors, functors,
                 wakeupFd, owing, ran, silent>>

(* Fault in PollNothing: without an event the rest of the turn is skipped. *)
PollNothingSkipsTurn ==
  /\ OwnerAt("poll")
  /\ ~wakeupFd
  /\ pc' = "test"
  /\ UNCHANGED <<quit, pendingFunctors, callingPendingFunctors, functors,
                 activeChannels, wakeupFd, owing, ran, silent>>

(* poll() returns after kPollTimeMs, or interrupted, with no event. *)
PollNothing ==
  /\ OwnerAt("poll")
  /\ ~wakeupFd
  /\ pc' = "dispatch"
  /\ UNCHANGED <<quit, pendingFunctors, callingPendingFunctors, functors,
                 activeChannels, wakeupFd, owing, ran, silent>>

(* The wakeup channel's turn: EventLoop::handleRead empties the eventfd. *)
HandleWakeup ==
  /\ OwnerAt("dispatch")
  /\ Wakeup \in activeChannels
  /\ activeChannels' = activeChannels \ {Wakeup}
  /\ wakeupFd' = FALSE
  /\ UNCHANGED <<pc, quit, pendingFunctors, callingPendingFunctors, functors,
                 owing, ran, silent>>

HandleChannel(c) ==
  /\ OwnerAt("dispatch")
  /\ c \in activeChannels
  /\ activeChannels' = activeChannels \ {c}
  /\ pc' = "handler"
  /\ UNCHANGED <<quit, pendingFunctors, callingPendingFunctors, functors,
                 wakeupFd, owing, ran, silent>>

HandlerReturns ==
  /\ OwnerAt("handler")
  /\ pc' = "dispatch"
  /\ UNCHANGED <<quit, pendingFunctors, callingPendingFunctors, functors,
                 activeChannels, wakeupFd, owing, ran, silent>>

DispatchDone ==
  /\ OwnerAt("dispatch")
  /\ activeChannels = {}
  /\ pc' = "take"
  /\ UNCHANGED <<quit, pendingFunctors, callingPendingFunctors, functors,
                 activeChannels, wakeupFd, owing, ran, silent>>

(* Fault in TakePending: the vector is copied and not emptied. *)
TakePendingCopy ==
  /\ OwnerAt("take")
  /\ callingPendingFunctors' = TRUE
  /\ functors' = pendingFunctors
  /\ pc' = "run"
  /\ UNCHANGED <<quit, pendingFunctors, activeChannels, wakeupFd, owing, ran,
                 silent>>

(* doPendingFunctors: callingPendingFunctors_ = true; swap under mutex_. *)
TakePending ==
  /\ OwnerAt("take")
  /\ callingPendingFunctors' = TRUE
  /\ functors' = pendingFunctors
  /\ pendingFunctors' = <<>>
  /\ pc' = "run"
  /\ UNCHANGED <<quit, activeChannels, wakeupFd, owing, ran, silent>>

(* functors[i]() *)
StartFunctor ==
  /\ OwnerAt("run")
  /\ functors # <<>>
  /\ ran' = Append(ran, Head(functors))
  /\ functors' = Tail(functors)
  /\ pc' = "functor"
  /\ UNCHANGED <<quit, pendingFunctors, callingPendingFunctors,
                 activeChannels, wakeupFd, owing, silent>>

(* Fault in FunctorReturns: quit_ ends the batch early. *)
FunctorReturnsToTest ==
  /\ OwnerAt("functor")
  /\ pc' = IF quit THEN "test" ELSE "run"
  /\ UNCHANGED <<quit, pendingFunctors, callingPendingFunctors, functors,
                 activeChannels, wakeupFd, owing, ran, silent>>

FunctorReturns ==
  /\ OwnerAt("functor")
  /\ pc' = "run"
  /\ UNCHANGED <<quit, pendingFunctors, callingPendingFunctors, functors,
                 activeChannels, wakeupFd, owing, ran, silent>>

(* The batch is done: callingPendingFunctors_ = false. *)
PendingDone ==
  /\ OwnerAt("run")
  /\ functors = <<>>
  /\ callingPendingFunctors' = FALSE
  /\ pc' = "test"
  /\ UNCHANGED <<quit, pendingFunctors, functors, activeChannels, wakeupFd,
                 owing, ran, silent>>

------------------------------------------------------------------------------
LoopStep ==
  \/ TestQuit
  \/ PollReturns \/ PollNothing
  \/ HandleWakeup
  \/ \E c \in Channels : HandleChannel(c)
  \/ HandlerReturns \/ DispatchDone
  \/ TakePending \/ StartFunctor \/ FunctorReturns \/ PendingDone

Call(t) ==
  \/ \E f \in Functors : QueueInLoop(t, f) \/ RunInLoop(t, f)
  \/ Quit(t)
  \/ WriteWakeup(t)

Next ==
  \/ EnterLoop
  \/ LoopStep
  \/ \E t \in Threads \cup {Owner} : Call(t)

Spec == Init /\ [][Next]_vars

(***************************************************************************)
(* The threads are scheduled, and user code returns: a step that is        *)
(* enabled for ever is taken.  Not assumed: that another thread calls      *)
(* anything, that loop() is entered, that a channel other than the wakeup  *)
(* channel gets an event, or that poll times out.                          *)
(***************************************************************************)
PollSeesWakeup == wakeupFd /\ PollReturns

PromptStep ==
  \/ TestQuit
  \/ PollSeesWakeup
  \/ HandleWakeup
  \/ \E c \in Channels : HandleChannel(c)
  \/ HandlerReturns \/ DispatchDone
  \/ TakePending \/ StartFunctor \/ FunctorReturns \/ PendingDone

Fairness ==
  /\ WF_vars(PromptStep)
  /\ \A t \in Threads \cup {Owner} : WF_vars(WriteWakeup(t))

FairSpec == Spec /\ Fairness

------------------------------------------------------------------------------
(* Types, and the two flags that follow the control point: doPendingFunctors *)
(* sets and clears callingPendingFunctors_, and leaves no functor behind.  *)
TypeOK ==
  /\ pc \in OwnerPoints
  /\ quit \in BOOLEAN
  /\ pendingFunctors \in Seq(Functors)
  /\ callingPendingFunctors \in BOOLEAN
  /\ callingPendingFunctors <=> pc \in {"run", "functor"}
  /\ functors \in Seq(Functors)
  /\ activeChannels \subseteq Channels \cup {Wakeup}
  /\ wakeupFd \in BOOLEAN
  /\ owing \subseteq Threads \cup {Owner}
  /\ ran \in Seq(Functors)
  /\ silent \subseteq Functors

(* A functor handed over while the loop is blocked in poll() gets poll()   *)
(* to return: the eventfd is not zero, or the thread that pushed has not   *)
(* yet executed wakeup().  The exception the code has: a functor the owner *)
(* queued before loop() waits for the next event or for kPollTimeMs.       *)
NoLostWakeup ==
  pc = "poll" /\ ~(Elements(pendingFunctors) \subseteq silent)
    => wakeupFd \/ owing # {}

(* A request to stop is not slept on: while quit_ is set, poll() is        *)
(* about to be interrupted by the eventfd write that quit() makes.  (One   *)
(* made before loop() is entered is cleared there, EventLoop.cc:90.)       *)
NoLostQuit == pc = "poll" /\ quit => wakeupFd \/ owing # {}

(* quit(), even called by a functor, never abandons a batch: the functors  *)
(* swapped out of pendingFunctors_ have all been started before quit_ is   *)
(* looked at again.                                                        *)
BatchFinished == pc \notin {"run", "functor"} => functors = <<>>

(* Functors are run at most once, in the order of the push_backs across    *)
(* all threads and batches, and only runInLoop in the loop thread overtakes.*)
TQ == INSTANCE TaskQueue WITH queue <- functors \o pendingFunctors
FifoAtMostOnce == TQ!TQSpec

(* quit() called while loop() runs makes loop() return, whichever     *)
(* thread called it, without the help of the poll timeout.                 *)
QuitHonoured == quit /\ pc # "outside" ~> pc = "outside"

(* With the poll timeout - when poll() does return after kPollTimeMs, if   *)
(* nothing happens - every functor is run, those the owner queued before   *)
(* loop() included, unless loop() ends first.                              *)
EventuallyRun ==
  WF_vars(PollNothing) =>
    \A f \in Functors :
      f \in Elements(pendingFunctors) /\ pc # "outside"
        ~> f \in Elements(ran) \/ pc = "outside"
==============================================================================
