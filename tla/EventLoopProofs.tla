--------------------------- MODULE EventLoopProofs ---------------------------
(***************************************************************************)
(* What EventLoop.tla promises, for any number of threads, functors and    *)
(* channels.  TypeOK, BatchFinished and NoLostQuit are inductive once      *)
(* joined with LoopInv; NoLostWakeup is not, because what is true at       *)
(* poll() has to be carried round the turn: WakeupInv says it wherever the *)
(* loop is not between emptying the eventfd and swapping the functors.     *)
(***************************************************************************)
EXTENDS EventLoop, SequenceTheorems, TLAPS

(* The owner owes a wakeup only for a queueInLoop made by a functor. *)
LoopInv == Owner \in owing => pc = "functor"

(* Outside the window in which the eventfd may be empty and the swap is    *)
(* still to come, a functor not known to be silent has a wakeup under way. *)
WakeupInv ==
  pc \notin {"dispatch", "handler", "take"}
    /\ ~(Elements(pendingFunctors) \subseteq silent)
      => wakeupFd \/ owing # {}

IInv ==
  /\ TypeOK
  /\ LoopInv
  /\ BatchFinished
  /\ NoLostQuit
  /\ WakeupInv

------------------------------------------------------------------------------
(* Lemmas on the set of elements of a sequence.                            *)

(* An empty vector holds no functor. *)
LEMMA ElementsEmpty == Elements(<<>>) = {}
  BY DEF Elements

(* push_back adds one element. *)
LEMMA ElementsAppend ==
  ASSUME NEW S, NEW s \in Seq(S), NEW e \in S
  PROVE  Elements(Append(s, e)) = Elements(s) \cup {e}
<1>1. /\ DOMAIN Append(s, e) = DOMAIN s \cup {Len(s) + 1}
      /\ Append(s, e)[Len(s) + 1] = e
      /\ \A i \in DOMAIN s : Append(s, e)[i] = s[i]
  OBVIOUS
<1> QED BY <1>1 DEF Elements

(* The elements of a concatenation are those of its parts. *)
LEMMA ElementsConcat ==
  ASSUME NEW S, NEW s \in Seq(S), NEW t \in Seq(S)
  PROVE  Elements(s \o t) = Elements(s) \cup Elements(t)
<1>1. Elements(s \o t) \subseteq Elements(s) \cup Elements(t)
  BY DEF Elements
<1>2. Elements(s) \subseteq Elements(s \o t)
  BY DEF Elements
<1>3. ASSUME NEW j \in DOMAIN t
      PROVE  t[j] \in Elements(s \o t)
  <2>1. Len(s) + j \in DOMAIN (s \o t) /\ (s \o t)[Len(s) + j] = t[j]
    OBVIOUS
  <2> QED BY <2>1 DEF Elements
<1>4. Elements(t) \subseteq Elements(s \o t)
  BY <1>3 DEF Elements
<1> QED BY <1>1, <1>2, <1>4

(* A push_back on the second part is a push_back on the whole. *)
LEMMA AppendConcat ==
  ASSUME NEW S, NEW s \in Seq(S), NEW t \in Seq(S), NEW e \in S
  PROVE  s \o Append(t, e) = Append(s \o t, e)
<1>1. /\ s \o Append(t, e) \in Seq(S)
      /\ Append(s \o t, e) \in Seq(S)
      /\ Len(s \o Append(t, e)) = Len(Append(s \o t, e))
  OBVIOUS
<1>2. ASSUME NEW i \in 1 .. Len(s \o Append(t, e))
      PROVE  (s \o Append(t, e))[i] = Append(s \o t, e)[i]
  OBVIOUS
<1> QED BY <1>1, <1>2, SeqEqual

(* Taking the head of the first part takes the head of the whole. *)
LEMMA HeadTailConcat ==
  ASSUME NEW S, NEW s \in Seq(S), s # <<>>, NEW t \in Seq(S)
  PROVE  /\ s \o t # <<>>
         /\ Head(s \o t) = Head(s)
         /\ Tail(s \o t) = Tail(s) \o t
<1>1. Len(s) \in Nat \ {0} /\ Len(s \o t) = Len(s) + Len(t)
  BY EmptySeq
<1>2. s \o t # <<>> /\ Head(s \o t) = Head(s)
  BY <1>1
<1>3. /\ Tail(s \o t) \in Seq(S)
      /\ Tail(s) \o t \in Seq(S)
      /\ Len(Tail(s \o t)) = Len(Tail(s) \o t)
  BY <1>1, <1>2
<1>4. ASSUME NEW i \in 1 .. Len(Tail(s \o t))
      PROVE  Tail(s \o t)[i] = (Tail(s) \o t)[i]
  BY <1>1, <1>2
<1> QED BY <1>2, <1>3, <1>4, SeqEqual

------------------------------------------------------------------------------
(* The inductive invariant.                                                *)

(* The constructor establishes it. *)
LEMMA InitIInv == Init => IInv
<1> SUFFICES ASSUME Init
             PROVE  IInv
  OBVIOUS
<1> USE DEF Init
<1>1. TypeOK
  <2>1. <<>> \in Seq(Functors)
    OBVIOUS
  <2>2. pc \in OwnerPoints /\ pc \notin {"run", "functor"}
    BY DEF OwnerPoints
  <2> QED BY <2>1, <2>2, Zenon DEF TypeOK
<1>2. LoopInv /\ BatchFinished /\ NoLostQuit
  BY DEF LoopInv, BatchFinished, NoLostQuit
<1>3. WakeupInv
  <2>1. Elements(pendingFunctors) \subseteq silent
    BY ElementsEmpty
  <2> QED BY <2>1 DEF WakeupInv
<1> QED BY <1>1, <1>2, <1>3 DEF IInv

(* The critical section of queueInLoop preserves it: whoever pushes owes a *)
(* wakeup, unless it is the owner outside loop() or before the swap.       *)
LEMMA QueueInLoopIInv ==
  ASSUME IInv, NEW t \in Threads \cup {Owner}, NEW f \in Functors,
         QueueInLoop(t, f)
  PROVE  IInv'
<1> USE DEF IInv, QueueInLoop, CanCall, InUserCode, MustWake
<1>1. TypeOK'
  BY DEF TypeOK
<1>2. LoopInv'
  BY DEF TypeOK, LoopInv
<1>3. BatchFinished'
  BY DEF BatchFinished
<1>4. NoLostQuit'
  BY DEF NoLostQuit
<1>5. WakeupInv'
  <2>1. Elements(pendingFunctors') = Elements(pendingFunctors) \cup {f}
    BY ElementsAppend DEF TypeOK
  <2>2. CASE t # Owner
    BY <2>2 DEF WakeupInv
  <2>3. CASE t = Owner /\ pc = "outside"
    BY <2>1, <2>3 DEF WakeupInv, TypeOK
  <2>4. CASE t = Owner /\ pc = "handler"
    BY <2>4 DEF WakeupInv
  <2>5. CASE t = Owner /\ pc = "functor"
    BY <2>5 DEF WakeupInv, TypeOK
  <2> QED BY <2>2, <2>3, <2>4, <2>5
<1> QED BY <1>1, <1>2, <1>3, <1>4, <1>5

(* Every other call preserves it. *)
LEMMA CallIInv ==
  ASSUME IInv, NEW t \in Threads \cup {Owner}, Call(t)
  PROVE  IInv'
<1>1. ASSUME NEW f \in Functors, QueueInLoop(t, f)
      PROVE  IInv'
  BY <1>1, QueueInLoopIInv
<1>2. ASSUME NEW f \in Functors, RunInLoop(t, f)
      PROVE  IInv'
  <2>1. CASE t # Owner
    BY <1>2, <2>1, QueueInLoopIInv DEF RunInLoop
  <2>2. CASE t = Owner
    <3>1. RunInline(f)
      BY <1>2, <2>2 DEF RunInLoop
    <3>2. TypeOK'
      BY <3>1 DEF RunInline, IInv, TypeOK
    <3>3. LoopInv' /\ BatchFinished' /\ NoLostQuit' /\ WakeupInv'
      BY <3>1
         DEF RunInline, IInv, LoopInv, BatchFinished, NoLostQuit, WakeupInv
    <3> QED BY <3>2, <3>3 DEF IInv
  <2> QED BY <2>1, <2>2
<1>3. CASE Quit(t)
  <2> USE <1>3 DEF Quit, CanCall, InUserCode, IInv
  <2>1. TypeOK' /\ BatchFinished'
    BY DEF TypeOK, BatchFinished
  <2>2. LoopInv'
    BY DEF LoopInv
  <2>3. NoLostQuit'
    BY DEF NoLostQuit
  <2>4. WakeupInv'
    BY DEF WakeupInv
  <2> QED BY <2>1, <2>2, <2>3, <2>4
<1>4. CASE WriteWakeup(t)
  BY <1>4
     DEF WriteWakeup, IInv, TypeOK, LoopInv, BatchFinished, NoLostQuit,
         WakeupInv
<1> QED BY <1>1, <1>2, <1>3, <1>4 DEF Call

(* So does every step of the owner in loop(). *)
LEMMA LoopStepIInv == IInv /\ (EnterLoop \/ LoopStep) => IInv'
<1> SUFFICES ASSUME IInv, EnterLoop \/ LoopStep
             PROVE  IInv'
  OBVIOUS
<1> USE DEF IInv, TypeOK, LoopInv, BatchFinished, NoLostQuit, WakeupInv,
            OwnerAt, OwnerPoints
<1>1. CASE EnterLoop
  BY <1>1 DEF EnterLoop
<1>2. CASE TestQuit
  BY <1>2 DEF TestQuit
<1>3. CASE PollReturns
  BY <1>3 DEF PollReturns
<1>4. CASE PollNothing
  BY <1>4 DEF PollNothing
<1>5. CASE HandleWakeup
  BY <1>5 DEF HandleWakeup
<1>6. ASSUME NEW c \in Channels, HandleChannel(c)
      PROVE  IInv'
  BY <1>6 DEF HandleChannel
<1>7. CASE HandlerReturns
  BY <1>7 DEF HandlerReturns
<1>8. CASE DispatchDone
  BY <1>8 DEF DispatchDone
<1>9. CASE TakePending
  BY <1>9, ElementsEmpty DEF TakePending
<1>10. CASE StartFunctor
  BY <1>10 DEF StartFunctor
<1>11. CASE FunctorReturns
  BY <1>11 DEF FunctorReturns
<1>12. CASE PendingDone
  BY <1>12 DEF PendingDone
<1> QED BY <1>1, <1>2, <1>3, <1>4, <1>5, <1>6, <1>7, <1>8, <1>9, <1>10,
           <1>11, <1>12 DEF LoopStep

(* IInv is an invariant of every execution. *)
LEMMA Invariance == Spec => []IInv
<1>1. ASSUME IInv, [Next]_vars
      PROVE  IInv'
  <2>1. CASE UNCHANGED vars
    BY <1>1, <2>1
       DEF vars, IInv, TypeOK, LoopInv, BatchFinished, NoLostQuit, WakeupInv
  <2> QED BY <1>1, <2>1, CallIInv, LoopStepIInv DEF Next
<1> QED BY InitIInv, <1>1, PTL DEF Spec

(* doPendingFunctors and the control point agree, and the variables keep   *)
(* their types. *)
THEOREM TypeCorrect == Spec => []TypeOK
<1>1. IInv => TypeOK
  BY DEF IInv
<1> QED BY Invariance, <1>1, PTL

(* A functor handed over while the loop sleeps in poll() wakes it up. *)
THEOREM WakeupNotLost == Spec => []NoLostWakeup
<1>1. IInv => NoLostWakeup
  BY DEF IInv, WakeupInv, NoLostWakeup
<1> QED BY Invariance, <1>1, PTL

(* A request to stop made while the loop sleeps in poll() wakes it up. *)
THEOREM QuitNotLost == Spec => []NoLostQuit
<1>1. IInv => NoLostQuit
  BY DEF IInv
<1> QED BY Invariance, <1>1, PTL

(* quit() never abandons functors already swapped out. *)
THEOREM BatchIsFinished == Spec => []BatchFinished
<1>1. IInv => BatchFinished
  BY DEF IInv
<1> QED BY Invariance, <1>1, PTL

------------------------------------------------------------------------------
(* EventLoop implements TaskQueue.                                         *)

(* What the loop still has to run, oldest first. *)
Waiting == functors \o pendingFunctors

(* A functor is new to TaskQueue exactly when it is new to the loop. *)
LEMMA FreshIsFresh ==
  ASSUME TypeOK, NEW f, Fresh(f)
  PROVE  f \notin TQ!Elements(Waiting) \cup TQ!Elements(ran)
<1>1. Elements(Waiting) = Elements(functors) \cup Elements(pendingFunctors)
  BY ElementsConcat DEF TypeOK, Waiting
<1>2. \A s : TQ!Elements(s) = Elements(s)
  BY DEF Elements, TQ!Elements
<1> QED BY <1>1, <1>2 DEF Fresh

(* The constructor leaves both queues empty. *)
LEMMA InitTQ == Init => TQ!TQInit
<1>1. <<>> \o <<>> = <<>>
  BY ConcatEmptySeq, EmptySeq
<1> QED BY <1>1 DEF Init, TQ!TQInit

(* The push_back of queueInLoop is a Submit. *)
LEMMA QueueInLoopTQ ==
  ASSUME TypeOK, NEW t, NEW f \in Functors, QueueInLoop(t, f)
  PROVE  TQ!Submit(f)
<1>1. Waiting' = Append(Waiting, f)
  BY AppendConcat DEF QueueInLoop, TypeOK, Waiting
<1> QED BY <1>1, FreshIsFresh DEF QueueInLoop, TQ!Submit, Waiting

(* runInLoop in the loop thread is a StartNow. *)
LEMMA RunInlineTQ ==
  ASSUME TypeOK, NEW f \in Functors, RunInline(f)
  PROVE  TQ!StartNow(f)
<1>1. Waiting' = Waiting
  BY DEF RunInline, Waiting
<1> QED BY <1>1, FreshIsFresh DEF RunInline, TQ!StartNow, Waiting

(* The swap of doPendingFunctors moves the queue from one vector to the    *)
(* other, which is empty: no change to TaskQueue. *)
LEMMA TakePendingTQ ==
  ASSUME TypeOK, BatchFinished, TakePending
  PROVE  UNCHANGED TQ!tqVars
<1>1. pendingFunctors \o <<>> = <<>> \o pendingFunctors
  BY ConcatEmptySeq DEF TypeOK
<1>2. functors = <<>>
  BY DEF TakePending, OwnerAt, BatchFinished
<1> QED BY <1>1, <1>2 DEF TakePending, TQ!tqVars

(* functors[i]() starts the oldest task. *)
LEMMA StartFunctorTQ ==
  ASSUME TypeOK, StartFunctor
  PROVE  TQ!StartOldest
<1>1. /\ Waiting # <<>>
      /\ Head(Waiting) = Head(functors)
      /\ Tail(Waiting) = Tail(functors) \o pendingFunctors
  BY HeadTailConcat DEF StartFunctor, TypeOK, Waiting
<1> QED BY <1>1 DEF StartFunctor, TQ!StartOldest, Waiting

(* Functors handed over by any threads, in any interleaving with the loop, *)
(* are run at most once and in the order they were handed over. *)
THEOREM ImplementsTaskQueue == Spec => FifoAtMostOnce
<1>1. ASSUME IInv, [Next]_vars
      PROVE  [TQ!TQNext]_(TQ!tqVars)
  <2> USE <1>1 DEF IInv
  <2>1. ASSUME NEW t \in Threads \cup {Owner}, Call(t)
        PROVE  [TQ!TQNext]_(TQ!tqVars)
    <3>1. ASSUME NEW f \in Functors, QueueInLoop(t, f)
          PROVE  TQ!TQNext
      BY <3>1, QueueInLoopTQ DEF TQ!TQNext
    <3>2. ASSUME NEW f \in Functors, RunInLoop(t, f)
          PROVE  TQ!TQNext
      BY <3>2, QueueInLoopTQ, RunInlineTQ DEF RunInLoop, TQ!TQNext
    <3>3. CASE Quit(t) \/ WriteWakeup(t)
      BY <3>3 DEF Quit, WriteWakeup, TQ!tqVars
    <3> QED BY <2>1, <3>1, <3>2, <3>3 DEF Call
  <2>2. CASE EnterLoop \/ LoopStep
    <3>1. CASE TakePending
      BY <3>1, TakePendingTQ
    <3>2. CASE StartFunctor
      BY <3>2, StartFunctorTQ DEF TQ!TQNext
    <3>3. CASE EnterLoop \/ TestQuit \/ PollReturns \/ PollNothing
      BY <3>3 DEF EnterLoop, TestQuit, PollReturns, PollNothing, TQ!tqVars
    <3>4. CASE HandleWakeup \/ HandlerReturns \/ DispatchDone
      BY <3>4 DEF HandleWakeup, HandlerReturns, DispatchDone, TQ!tqVars
    <3>5. ASSUME NEW c \in Channels, HandleChannel(c)
          PROVE  UNCHANGED TQ!tqVars
      BY <3>5 DEF HandleChannel, TQ!tqVars
    <3>6. CASE FunctorReturns \/ PendingDone
      BY <3>6 DEF FunctorReturns, PendingDone, TQ!tqVars
    <3> QED BY <2>2, <3>1, <3>2, <3>3, <3>4, <3>5, <3>6 DEF LoopStep
  <2>3. CASE UNCHANGED vars
    BY <2>3 DEF vars, TQ!tqVars
  <2> QED BY <2>1, <2>2, <2>3 DEF Next
<1> QED BY Invariance, InitTQ, <1>1, PTL DEF Spec, FifoAtMostOnce, TQ!TQSpec
==============================================================================
