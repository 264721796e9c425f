------------------------ MODULE EventLoopThreadProofs ------------------------
(***************************************************************************)
(* Proofs about EventLoopThread, for any functors, channels and threads:   *)
(* the handshake of startLoop() with the new thread, and that the loop in  *)
(* that thread is an EventLoop in every step, so that what is proved of    *)
(* EventLoop holds of it.                                                  *)
(***************************************************************************)
EXTENDS EventLoopThread, TLAPS

P == INSTANCE EventLoopProofs WITH Threads <- {Creator} \cup Others

(* The thread is created by startLoop, once. *)
Created == creator = "new" <=> thread = "none"

IInv == Handshake /\ Created

LEMMA InitIInv == Init => IInv
BY DEF Init, IInv, Handshake, Created, CreatorPoints, ThreadPoints

LEMMA Inductive ==
  ASSUME IInv, [Next]_vars
  PROVE  IInv'
<1> USE DEF IInv, Handshake, Created, CreatorPoints, ThreadPoints
<1>1. CASE CreatorStep \/ WakeSpuriously
  BY <1>1 DEF CreatorStep, StartThread, TestLoop, Join, WakeSpuriously
<1>2. CASE ThreadStep
  BY <1>2 DEF ThreadStep, RunInThread, BuildLoop, Publish, EnterLoop, LoopReturns, EndThread
<1>3. CASE Destruct
  BY <1>3 DEF Destruct
<1>4. CASE UNCHANGED <<creator, thread, loop_>>
  BY <1>4
<1>5. CASE UseLoop \/ InLoop \/ \E t \in {Creator} \cup Others : FinishWakeup(t)
  BY <1>4, <1>5 DEF UseLoop, InLoop, FinishWakeup
<1>6. CASE UNCHANGED vars
  BY <1>4, <1>6 DEF vars
<1> QED
  BY <1>1, <1>2, <1>3, <1>5, <1>6 DEF Next

(* startLoop() returns only a loop that threadFunc has published           *)
(* (EventLoopThread.cc:44), whatever wakes it up, and the destructor is    *)
(* done only when the thread has ended.                                    *)
THEOREM HandshakeHolds == Spec => []Handshake
<1>1. IInv => Handshake
  BY DEF IInv
<1> QED
  BY InitIInv, Inductive, <1>1, PTL DEF Spec

------------------------------------------------------------------------------
(* The loop inside.                                                        *)

LEMMA LoopAssumptions == P!EventLoopAssumption
BY EventLoopThreadAssumption DEF P!EventLoopAssumption

(* Both instances of EventLoop are the same loop. *)
LEMMA SameTurn == Loop!LoopStep <=> P!LoopStep
<1>0. \A p : Loop!OwnerAt(p) <=> P!OwnerAt(p)
  BY DEF Loop!OwnerAt, P!OwnerAt
<1>1. Loop!TestQuit <=> P!TestQuit
  BY <1>0 DEF Loop!TestQuit, P!TestQuit
<1>2. Loop!PollReturns <=> P!PollReturns
  BY <1>0 DEF Loop!PollReturns, P!PollReturns
<1>3. Loop!PollNothing <=> P!PollNothing
  BY <1>0 DEF Loop!PollNothing, P!PollNothing
<1>4. Loop!HandleWakeup <=> P!HandleWakeup
  BY <1>0 DEF Loop!HandleWakeup, P!HandleWakeup
<1>5. Loop!HandlerReturns <=> P!HandlerReturns
  BY <1>0 DEF Loop!HandlerReturns, P!HandlerReturns
<1>6. Loop!DispatchDone <=> P!DispatchDone
  BY <1>0 DEF Loop!DispatchDone, P!DispatchDone
<1>7. Loop!TakePending <=> P!TakePending
  BY <1>0 DEF Loop!TakePending, P!TakePending
<1>8. Loop!StartFunctor <=> P!StartFunctor
  BY <1>0 DEF Loop!StartFunctor, P!StartFunctor
<1>9. Loop!FunctorReturns <=> P!FunctorReturns
  BY <1>0 DEF Loop!FunctorReturns, P!FunctorReturns
<1>10. Loop!PendingDone <=> P!PendingDone
  BY <1>0 DEF Loop!PendingDone, P!PendingDone
<1>11. \A c \in Channels : Loop!HandleChannel(c) <=> P!HandleChannel(c)
  BY <1>0 DEF Loop!HandleChannel, P!HandleChannel
<1> QED
  BY <1>1, <1>2, <1>3, <1>4, <1>5, <1>6, <1>7, <1>8, <1>9, <1>10, <1>11
     DEF Loop!LoopStep, P!LoopStep

LEMMA SameCalls ==
  ASSUME NEW t
  PROVE  /\ \A f : Loop!QueueInLoop(t, f) <=> P!QueueInLoop(t, f)
         /\ Loop!Quit(t) <=> P!Quit(t)
         /\ Loop!WriteWakeup(t) <=> P!WriteWakeup(t)
         /\ Loop!Call(t) <=> P!Call(t)
<1>1. \A s : Loop!CanCall(s) <=> P!CanCall(s)
  BY DEF Loop!CanCall, P!CanCall, Loop!InUserCode, P!InUserCode
<1>2. \A f : Loop!Fresh(f) <=> P!Fresh(f)
  BY DEF Loop!Fresh, P!Fresh, Loop!Elements, P!Elements
<1>3. ASSUME NEW f
      PROVE  Loop!QueueInLoop(t, f) <=> P!QueueInLoop(t, f)
  BY <1>1, <1>2 DEF Loop!QueueInLoop, P!QueueInLoop, Loop!MustWake, P!MustWake
<1>4. ASSUME NEW f
      PROVE  Loop!RunInLoop(t, f) <=> P!RunInLoop(t, f)
  BY <1>1, <1>2, <1>3 DEF Loop!RunInLoop, P!RunInLoop, Loop!RunInline, P!RunInline
<1>5. Loop!Quit(t) <=> P!Quit(t)
  BY <1>1 DEF Loop!Quit, P!Quit
<1>6. Loop!WriteWakeup(t) <=> P!WriteWakeup(t)
  BY DEF Loop!WriteWakeup, P!WriteWakeup
<1> QED
  BY <1>3, <1>4, <1>5, <1>6 DEF Loop!Call, P!Call

(* What the threads do is a step of the loop, or none of it. *)
LEMMA StepsOfLoop ==
  ASSUME [Next]_vars
  PROVE  [P!Next]_(P!vars)
<1>1. CASE UNCHANGED loopVars
  BY <1>1 DEF loopVars, P!vars
<1>2. CASE EnterLoop
  <2>1. Loop!EnterLoop <=> P!EnterLoop
    BY DEF Loop!EnterLoop, P!EnterLoop, Loop!OwnerAt, P!OwnerAt
  <2> QED
    BY <1>2, <2>1 DEF EnterLoop, P!Next
<1>3. CASE InLoop
  BY <1>3, SameTurn, SameCalls DEF InLoop, P!Next
<1>4. ASSUME NEW t \in {Creator} \cup Others, P!Call(t)
      PROVE  P!Next
  BY <1>4 DEF P!Next
<1>5. CASE UseLoop
  BY <1>4, <1>5, SameCalls DEF UseLoop, P!Call
<1>6. CASE Destruct
  BY <1>4, <1>6, SameCalls DEF Destruct, P!Call
<1>7. ASSUME NEW t \in {Creator} \cup Others, FinishWakeup(t)
      PROVE  P!Next
  BY <1>4, <1>7, SameCalls DEF FinishWakeup, P!Call
<1>8. CASE CreatorStep \/ WakeSpuriously
  BY <1>1, <1>8 DEF CreatorStep, StartThread, TestLoop, Join, WakeSpuriously
<1>9. CASE RunInThread \/ BuildLoop \/ Publish \/ LoopReturns \/ EndThread
  BY <1>1, <1>9 DEF RunInThread, BuildLoop, Publish, LoopReturns, EndThread
<1>10. CASE UNCHANGED vars
  BY <1>1, <1>10 DEF vars
<1> QED
  BY <1>2, <1>3, <1>5, <1>6, <1>7, <1>8, <1>9, <1>10 DEF Next, ThreadStep

LEMMA StartsAsLoop == Init => P!Init
BY DEF Init, Loop!Init, P!Init

(* The loop on the thread's stack behaves as an EventLoop with the creator *)
(* and the others as the threads that hold a pointer to it.                *)
THEOREM IsAnEventLoop == Spec => P!Spec
BY StepsOfLoop, StartsAsLoop, PTL DEF Spec, P!Spec

(* Functors handed to the new loop, from startLoop() on and also before it  *)
(* is entered, are not slept on, and no batch is abandoned (EventLoop.cc:  *)
(* 159 and 113).                                                           *)
THEOREM LoopKeepsItsPromises == Spec => [](Loop!NoLostWakeup /\ Loop!BatchFinished)
<1>1. P!Spec => [](P!NoLostWakeup /\ P!BatchFinished)
  BY LoopAssumptions, P!WakeupNotLost, P!BatchIsFinished, PTL
<1>2. P!NoLostWakeup /\ P!BatchFinished => Loop!NoLostWakeup /\ Loop!BatchFinished
  BY DEF P!NoLostWakeup, P!BatchFinished, P!Elements,
         Loop!NoLostWakeup, Loop!BatchFinished, Loop!Elements
<1> QED
  BY <1>1, <1>2, IsAnEventLoop, PTL

(* A quit_ set before loop() is entered is cleared there (EventLoop.cc:90); *)
(* one set by the destructor later than that stays set.                    *)
Asked ==
  inTime => /\ creator \in {"leaving", "joined"}
            /\ thread \in {"looping", "returned", "gone"}
            /\ quit

LEMMA AskedStep ==
  ASSUME Asked, [Next]_vars
  PROVE  Asked'
<1>1. \A t : Loop!Call(t) => quit' = quit \/ quit' = TRUE
  BY DEF Loop!Call, Loop!QueueInLoop, Loop!RunInLoop, Loop!RunInline, Loop!Quit,
         Loop!WriteWakeup
<1>2. Loop!LoopStep => quit' = quit
  BY DEF Loop!LoopStep, Loop!TestQuit, Loop!PollReturns, Loop!PollNothing,
         Loop!HandleWakeup, Loop!HandleChannel, Loop!HandlerReturns,
         Loop!DispatchDone, Loop!TakePending, Loop!StartFunctor,
         Loop!FunctorReturns, Loop!PendingDone
<1>3. CASE InLoop \/ UseLoop \/ \E t \in {Creator} \cup Others : FinishWakeup(t)
  <2>1. UNCHANGED <<creator, thread, inTime>> /\ (quit' = quit \/ quit' = TRUE)
    BY <1>1, <1>2, <1>3 DEF InLoop, UseLoop, FinishWakeup, Loop!Call
  <2> QED
    BY <2>1 DEF Asked
<1>4. CASE Destruct
  BY <1>4 DEF Asked, Destruct, Loop!Quit
<1>5. CASE CreatorStep \/ WakeSpuriously
  BY <1>5 DEF Asked, CreatorStep, StartThread, TestLoop, Join, WakeSpuriously,
              loopVars
<1>6. CASE ThreadStep
  BY <1>6 DEF Asked, ThreadStep, RunInThread, BuildLoop, Publish, EnterLoop,
              LoopReturns, EndThread, loopVars
<1>7. CASE UNCHANGED vars
  BY <1>7 DEF Asked, vars, loopVars
<1> QED
  BY <1>3, <1>4, <1>5, <1>6, <1>7 DEF Next

(* Once the destructor has called quit() in a loop already entered, quit_  *)
(* is not forgotten, and the loop does not sleep on it (EventLoop.cc:74):  *)
(* what the join waits for, once the steps of the loop are taken.          *)
THEOREM DestructorIsHeard ==
  Spec => [](inTime => quit /\ (pc = "poll" => wakeupFd \/ owing # {}))
<1>1. Init => Asked
  BY DEF Init, Asked
<1>2. P!Spec => []P!NoLostQuit
  BY LoopAssumptions, P!QuitNotLost, PTL
<1>3. Asked /\ P!NoLostQuit => (inTime => quit /\ (pc = "poll" => wakeupFd \/ owing # {}))
  BY DEF Asked, P!NoLostQuit
<1> QED
  BY <1>1, <1>2, <1>3, AskedStep, IsAnEventLoop, PTL DEF Spec

(* The functors handed to that loop, by the creator between startLoop() and *)
(* the destructor and by others at any time, are run at most once and in   *)
(* the order they were handed over (EventLoop.cc:115 and 155).             *)
THEOREM LoopKeepsOrder == Spec => Loop!FifoAtMostOnce
<1>1. P!Spec => P!FifoAtMostOnce
  BY LoopAssumptions, P!ImplementsTaskQueue
<1>2. P!TQ!TQInit <=> Loop!TQ!TQInit
  BY DEF P!TQ!TQInit, Loop!TQ!TQInit
<1>3. [P!TQ!TQNext]_(P!TQ!tqVars) <=> [Loop!TQ!TQNext]_(Loop!TQ!tqVars)
  BY DEF P!TQ!TQNext, Loop!TQ!TQNext, P!TQ!tqVars, Loop!TQ!tqVars,
     P!TQ!Submit, Loop!TQ!Submit, P!TQ!StartNow, Loop!TQ!StartNow,
     P!TQ!StartOldest, Loop!TQ!StartOldest, P!TQ!Elements, Loop!TQ!Elements
<1>4. P!TQ!TQSpec <=> Loop!TQ!TQSpec
  BY <1>2, <1>3, PTL DEF P!TQ!TQSpec, Loop!TQ!TQSpec
<1> QED
  BY <1>1, <1>4, IsAnEventLoop DEF P!FifoAtMostOnce, Loop!FifoAtMostOnce
==============================================================================
