--------------------------- MODULE EventLoopThread ---------------------------
(***************************************************************************)
(* A thread with a loop of its own (log/EventLoopThread.cc): startLoop()   *)
(* creates the thread and waits until it has published the EventLoop that  *)
(* lives on its stack; the destructor asks the loop to quit and joins.     *)
(* The loop itself is the module EventLoop, whose owner is the new thread. *)
(*                                                                         *)
(* mutex_ is held only for the test and for the publication of loop_, so   *)
(* each critical section is one step; cond_.wait() releases the mutex and  *)
(* sleeps in one step, and may wake up for no reason.                      *)
(***************************************************************************)
EXTENDS Sequences

CONSTANTS
  Owner,      \* the thread that EventLoopThread starts
  Creator,    \* the thread that holds the EventLoopThread
  Others,     \* threads to which Creator gives the loop startLoop returned
  Functors, Channels, Wakeup   \* see EventLoop

ASSUME EventLoopThreadAssumption ==
  /\ Owner # Creator /\ Others \cap {Owner, Creator} = {}
  /\ Wakeup \notin Channels

VARIABLES
  creator,    \* where Creator is, see CreatorPoints
  thread,     \* where Owner is, see ThreadPoints
  loop_,      \* whether loop_ is not NULL
  inTime,     \* history: the destructor began after loop() was entered
  pc, quit, pendingFunctors, callingPendingFunctors, functors,
  activeChannels, wakeupFd, owing, ran, silent   \* the loop, see EventLoop

loopVars == <<pc, quit, pendingFunctors, callingPendingFunctors, functors,
              activeChannels, wakeupFd, owing, ran, silent>>

vars == <<creator, thread, loop_, inTime, loopVars>>

Loop == INSTANCE EventLoop WITH Threads <- {Creator} \cup Others

(***************************************************************************)
(* "new": constructed; "locking": in startLoop, before the test of loop_;  *)
(* "waiting": in cond_.wait(); "using": startLoop has returned; "leaving": *)
(* in the destructor, past quit_ = true; "joined": the destructor is done. *)
(***************************************************************************)
CreatorPoints == {"new", "locking", "waiting", "using", "leaving", "joined"}

(***************************************************************************)
(* "none": not created; "created": in startThread; "started": in           *)
(* threadFunc; "built": its EventLoop is constructed; "published": before  *)
(* loop.loop(); "looping": in it; "returned": behind it; "gone": ended.    *)
(***************************************************************************)
ThreadPoints == {"none", "created", "started", "built", "published", "looping",
                 "returned", "gone"}

Init ==
  /\ creator = "new" /\ thread = "none"
  /\ loop_ = FALSE /\ inTime = FALSE
  /\ Loop!Init

------------------------------------------------------------------------------
(* startLoop: thread_.start(), pthread_create. *)
StartThread ==
  /\ creator = "new"
  /\ creator' = "locking"
  /\ thread' = "created"
  /\ UNCHANGED <<loop_, inTime, loopVars>>

(* while (loop_ == NULL) cond_.wait(), with mutex_ held. *)
TestLoop ==
  /\ creator = "locking"
  /\ creator' = IF loop_ THEN "using" ELSE "waiting"
  /\ UNCHANGED <<thread, loop_, inTime, loopVars>>

(* Fault in WakeSpuriously: if instead of while, any wakeup is believed. *)
BelieveWakeup ==
  /\ creator = "waiting"
  /\ creator' = "using"
  /\ UNCHANGED <<thread, loop_, inTime, loopVars>>

(* pthread_cond_wait may return without a signal; the test is repeated. *)
WakeSpuriously ==
  /\ creator = "waiting"
  /\ creator' = "locking"
  /\ UNCHANGED <<thread, loop_, inTime, loopVars>>

(* ThreadData::runInThread stores the thread's id and calls threadFunc. *)
RunInThread ==
  /\ thread = "created"
  /\ thread' = "started"
  /\ UNCHANGED <<creator, loop_, inTime, loopVars>>

(* threadFunc: EventLoop loop; *)
BuildLoop ==
  /\ thread = "started"
  /\ thread' = "built"
  /\ UNCHANGED <<creator, loop_, inTime, loopVars>>

(* Fault in Publish: cond_ is not notified. *)
PublishSilently ==
  /\ thread = "built"
  /\ thread' = "published"
  /\ loop_' = TRUE
  /\ UNCHANGED <<creator, inTime, loopVars>>

(* loop_ = &loop; cond_.notify(); with mutex_ held. *)
Publish ==
  /\ thread = "built"
  /\ thread' = "published"
  /\ loop_' = TRUE
  /\ creator' = IF creator = "waiting" THEN "locking" ELSE creator
  /\ UNCHANGED <<inTime, loopVars>>

EnterLoop ==
  /\ thread = "published"
  /\ thread' = "looping"
  /\ Loop!EnterLoop
  /\ UNCHANGED <<creator, loop_, inTime>>

(* A turn of the loop, or a call its handlers and functors make. *)
InLoop ==
  /\ thread = "looping" /\ pc # "outside"
  /\ Loop!LoopStep \/ Loop!Call(Owner)
  /\ UNCHANGED <<creator, thread, loop_, inTime>>

LoopReturns ==
  /\ thread = "looping" /\ pc = "outside"
  /\ thread' = "returned"
  /\ UNCHANGED <<creator, loop_, inTime, loopVars>>

(* threadFunc returns: the EventLoop is destroyed, loop_ still points there. *)
EndThread ==
  /\ thread = "returned"
  /\ thread' = "gone"
  /\ UNCHANGED <<creator, loop_, inTime, loopVars>>

(* The loop startLoop returned is handed functors and asked to quit. *)
UseLoop ==
  /\ creator = "using"
  /\ \E t \in {Creator} \cup Others :
       \/ \E f \in Functors : Loop!QueueInLoop(t, f)
       \/ Loop!Quit(t)
  /\ UNCHANGED <<creator, thread, loop_, inTime>>

FinishWakeup(t) ==
  /\ Loop!WriteWakeup(t)
  /\ UNCHANGED <<creator, thread, loop_, inTime>>

(* The destructor: exiting_ = true; loop_->quit().  Whoever calls it sees  *)
(* to it that no other thread is in a call of the loop.                    *)
Destruct ==
  /\ creator = "using"
  /\ owing \cap Others = {}
  /\ creator' = "leaving"
  /\ inTime' = (thread \in {"looping", "returned", "gone"})
  /\ Loop!Quit(Creator)
  /\ UNCHANGED <<thread, loop_>>

(* thread_.join() *)
Join ==
  /\ creator = "leaving" /\ Creator \notin owing
  /\ thread = "gone"
  /\ creator' = "joined"
  /\ UNCHANGED <<thread, loop_, inTime, loopVars>>

------------------------------------------------------------------------------
CreatorStep == StartThread \/ TestLoop \/ Join

ThreadStep ==
  RunInThread \/ BuildLoop \/ Publish \/ EnterLoop \/ LoopReturns \/ EndThread

Next ==
  \/ CreatorStep \/ WakeSpuriously \/ Destruct
  \/ UseLoop \/ (\E t \in {Creator} \cup Others : FinishWakeup(t))
  \/ ThreadStep \/ InLoop

Spec == Init /\ [][Next]_vars

(* Both threads are scheduled.  In the loop that is EventLoop's Fairness,  *)
(* without the poll timeout; the destructor need not be called.            *)
Fairness ==
  /\ WF_vars(TestLoop) /\ WF_vars(Join)
  /\ \A t \in {Creator} \cup Others : WF_vars(FinishWakeup(t))
  /\ WF_vars(ThreadStep)
  /\ WF_vars(InLoop /\ Loop!PromptStep)
  /\ WF_vars(InLoop /\ Loop!WriteWakeup(Owner))

FairSpec == Spec /\ Fairness

------------------------------------------------------------------------------
(* Properties.                                                             *)

(* Both threads are where the other's progress allows: startLoop returns   *)
(* only a published loop, and the destructor is done only when the thread  *)
(* is.                                                                     *)
Handshake ==
  /\ creator \in CreatorPoints /\ thread \in ThreadPoints
  /\ creator \in {"using", "leaving", "joined"} => loop_
  /\ loop_ <=> thread \in {"published", "looping", "returned", "gone"}
  /\ creator = "joined" => thread = "gone"

(* startLoop always returns. *)
StartCompletes == creator = "locking" ~> creator = "using"

(* A functor handed over as soon as startLoop has returned, even before    *)
(* the new thread has entered loop(), is run without the poll timeout,     *)
(* unless the loop ends.                                                   *)
FirstFunctorsRun ==
  \A f \in Functors :
    f \in Loop!Elements(pendingFunctors)
      ~> f \in Loop!Elements(ran) \/ thread \in {"returned", "gone"}

(* The destructor returns, if loop() was entered before it was called.     *)
(* If not, loop() resets quit_ and the request is lost.                    *)
DestructorCompletes == creator = "leaving" /\ inTime ~> creator = "joined"
==============================================================================
