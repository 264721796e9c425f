---------------------------- MODULE TcpConnection ----------------------------
(***************************************************************************)
(* One connection of log/TcpConnection.cc: send() and shutdown() from any  *)
(* thread, the functors they hand to the connection's loop, the channel's  *)
(* handlers, and the socket behind them.                                   *)
(*                                                                         *)
(* What is atomic.  state_ is a plain field: every thread reads it, and    *)
(* writes it in shutdown(), without a lock, so the test, the assignment    *)
(* and the hand-over to the loop are steps of their own.  What runs in the *)
(* loop thread - sendInLoop, shutdownInLoop, handleEvent - touches nothing *)
(* else that other threads see, and is one step each.  Between poll() and  *)
(* the channel's turn, handlers of other channels run: they may call       *)
(* send() and shutdown().                                                  *)
(*                                                                         *)
(* What is abstract.  A message is Size[m] units.  The functor queue is    *)
(* first-in first-out (TaskQueue).  What the peer sends is not looked at:  *)
(* handleRead only stores it.  ::write takes any prefix, nothing when the  *)
(* socket is full or broken.                                               *)
(***************************************************************************)
EXTENDS Naturals, Sequences, SequencesExt

CONSTANTS
  Owner,       \* the thread of loop_
  Threads,     \* other threads that hold the connection
  Messages,    \* what send() is called with, each at most once
  Size,        \* Size[m]: message.size()
  StaleBytes   \* values of readableBytes() in a buffer just constructed

ASSUME TcpConnectionAssumption ==
  /\ Owner \notin Threads
  /\ Size \in [Messages -> Nat \ {0}]
  /\ StaleBytes \subseteq Nat

VARIABLES
  state,         \* state_
  reading,       \* channel_ is in its loop's poller and asks for POLLIN
  writing,       \* channel_->isWriting()
  muted,         \* the poller's slot has a negative descriptor
  outputBuffer,  \* the readable units of outputBuffer_
  functors,      \* functors of this connection pending in loop_
  calls,         \* calls[t]: what thread t still has to do of its call
  revents,       \* events poll() has reported and handleEvent not yet seen
  peer,          \* what the peer has done to the socket
  wire,          \* units the socket has taken, in order
  finSent,       \* whether shutdownWrite() was called
  sent,          \* history: units of the messages sendInLoop was given
  origin,        \* history: origin[m], the thread whose send() accepted m
  promised,      \* history: messages whose sender then shut down first
  closers,       \* history: threads that called shutdown()
  closed         \* history: whether handleClose has run

vars == <<state, reading, writing, muted, outputBuffer, functors, calls,
          revents, peer, wire, finSent, sent, origin, promised, closers, closed>>

channel == <<reading, writing, muted>>
history == <<origin, promised, closers>>
socket == <<wire, finSent>>

StateE == {"kConnecting", "kConnected", "kDisconnecting", "kDisconnected"}

Units(m) == [i \in 1..Size[m] |-> <<m, i>>]

Garbage(n) == [i \in 1..n |-> <<"garbage", i>>]

Idle == [op |-> "none"]

(* newConnection has queued connectEstablished; neither state_ nor the     *)
(* indexes of outputBuffer_ have been given a value.                       *)
Init ==
  /\ state \in StateE
  /\ reading = FALSE /\ writing = FALSE /\ muted = FALSE
  /\ outputBuffer \in {Garbage(n) : n \in StaleBytes}
  /\ functors = <<[op |-> "connectEstablished"]>>
  /\ calls = [t \in Threads \cup {Owner} |-> Idle]
  /\ revents = {}
  /\ peer = "open"
  /\ wire = <<>> /\ finSent = FALSE
  /\ sent = <<>>
  /\ origin = [m \in {} |-> Owner]
  /\ promised = {} /\ closers = {} /\ closed = FALSE

------------------------------------------------------------------------------
(* What the loop thread does to the channel and the socket.                *)

(* Fault in EnableWriting: a muted channel is polled again. *)
EnableWritingUnmutes == writing' = TRUE /\ muted' = FALSE /\ UNCHANGED reading

(* channel_->enableWriting(): a muted slot keeps its negative descriptor. *)
EnableWriting == writing' = TRUE /\ UNCHANGED <<reading, muted>>

(* channel_->disableAll(): Poller::updateChannel mutes the slot. *)
DisableAll == reading' = FALSE /\ writing' = FALSE /\ muted' = TRUE

(* ::write of the units u takes k of them. *)
Takes(u, k) == k \in 0..Len(u) /\ (k > 0 => ~finSent /\ peer # "reset")

(* Buffer::append(const char*, size_t) has an empty body. *)
Appended(buffer, u) == buffer

MayWriteNow == ~writing /\ outputBuffer = <<>>

(* Fault in SendInLoop: written at once, whatever is still pending. *)
SendInLoopAlways(m) ==
  \E k \in 0..Size[m] :
    /\ Takes(Units(m), k)
    /\ wire' = wire \o SubSeq(Units(m), 1, k)
    /\ IF k < Size[m] THEN EnableWriting ELSE UNCHANGED channel
    /\ sent' = sent \o Units(m)
    /\ UNCHANGED <<outputBuffer, finSent>>

SendInLoop(m) ==
  \E k \in 0..Size[m] :
    /\ Takes(Units(m), k)
    /\ k > 0 => MayWriteNow
    /\ wire' = wire \o SubSeq(Units(m), 1, k)
    /\ outputBuffer' =
         Appended(outputBuffer, SubSeq(Units(m), k + 1, Size[m]))
    /\ IF k < Size[m] THEN EnableWriting ELSE UNCHANGED channel
    /\ sent' = sent \o Units(m)
    /\ UNCHANGED finSent

ShutdownInLoop == finSent' = (finSent \/ ~writing) /\ UNCHANGED wire

(* Fault in HandleWrite: the half-close that had to wait is forgotten. *)
HandleWriteOnly ==
  \E k \in 0..Len(outputBuffer) :
    /\ Takes(outputBuffer, k)
    /\ wire' = wire \o SubSeq(outputBuffer, 1, k)
    /\ outputBuffer' = SubSeq(outputBuffer, k + 1, Len(outputBuffer))
    /\ writing' = ~(k > 0 /\ outputBuffer' = <<>>)
    /\ UNCHANGED <<reading, muted, finSent>>

(* handleWrite while the channel is writing: k units go out.  When nothing *)
(* is left, disableWriting, and the half-close that had to wait.           *)
HandleWrite ==
  \E k \in 0..Len(outputBuffer) :
    /\ Takes(outputBuffer, k)
    /\ wire' = wire \o SubSeq(outputBuffer, 1, k)
    /\ outputBuffer' = SubSeq(outputBuffer, k + 1, Len(outputBuffer))
    /\ LET drained == k > 0 /\ outputBuffer' = <<>> IN
         /\ writing' = ~drained
         /\ finSent' = (finSent \/ (drained /\ state = "kDisconnecting"))
    /\ UNCHANGED <<reading, muted>>

------------------------------------------------------------------------------
(* send() and shutdown(), in any thread that holds the connection: the     *)
(* connection callback, called by connectEstablished, has handed it out.   *)

Established == reading \/ closed

Ready(t) == Established /\ calls[t] = Idle

Goes(t, call) == calls' = [calls EXCEPT ![t] = call]

Accept(t, m) ==
  /\ origin' = [n \in DOMAIN origin \cup {m} |-> IF n = m THEN t ELSE origin[n]]
  /\ UNCHANGED <<promised, closers>>

(* send() in the loop thread: sendInLoop inside the call. *)
SendInOwner(m) ==
  /\ Ready(Owner)
  /\ m \notin DOMAIN origin
  /\ state = "kConnected"
  /\ Accept(Owner, m)
  /\ SendInLoop(m)
  /\ UNCHANGED <<state, functors, calls, revents, peer, closed>>

(* send() in another thread tests state_ ... *)
TestSend(t, m) ==
  /\ Ready(t)
  /\ m \notin DOMAIN origin
  /\ state = "kConnected"
  /\ Accept(t, m)
  /\ Goes(t, [op |-> "sendInLoop", message |-> m])
  /\ UNCHANGED <<state, channel, outputBuffer, functors, revents, peer, socket,
                 sent, closed>>

(* ... and queues sendInLoop. *)
QueueSend(t) ==
  /\ calls[t].op = "sendInLoop"
  /\ functors' = Append(functors, calls[t])
  /\ Goes(t, Idle)
  /\ UNCHANGED <<state, channel, outputBuffer, revents, peer, socket, sent,
                 history, closed>>

TestShutdown(t) ==
  /\ Ready(t)
  /\ state = "kConnected"
  /\ Goes(t, [op |-> "setState"])
  /\ closers' = closers \cup {t}
  /\ UNCHANGED <<state, channel, outputBuffer, functors, revents, peer, socket,
                 sent, origin, promised, closed>>

(* The thread that ends kConnected is promised what it has sent. *)
Promise(t) ==
  IF state = "kConnected"
    THEN {m \in DOMAIN origin : origin[m] = t}
    ELSE promised

SetDisconnecting(t) ==
  /\ calls[t].op = "setState"
  /\ state' = "kDisconnecting"
  /\ promised' = Promise(t)
  /\ Goes(t, [op |-> "shutdownInLoop"])
  /\ UNCHANGED <<channel, outputBuffer, functors, revents, peer, socket, sent,
                 origin, closers, closed>>

(* Fault in RunShutdown: run in the calling thread, whichever it is. *)
RunShutdownHere(t) ==
  /\ calls[t].op = "shutdownInLoop"
  /\ Goes(t, Idle)
  /\ ShutdownInLoop
  /\ UNCHANGED <<state, channel, outputBuffer, functors, revents, peer, sent,
                 history, closed>>

(* runInLoop(shutdownInLoop): inside the call in the loop thread. *)
RunShutdown(t) ==
  /\ calls[t].op = "shutdownInLoop"
  /\ Goes(t, Idle)
  /\ IF t = Owner
       THEN ShutdownInLoop /\ UNCHANGED functors
       ELSE functors' = Append(functors, calls[t]) /\ UNCHANGED socket
  /\ UNCHANGED <<state, channel, outputBuffer, revents, peer, sent, history,
                 closed>>

------------------------------------------------------------------------------
(* The loop thread: functors and handlers, while no call of its own is     *)
(* under way.                                                              *)

LoopFree == calls[Owner] = Idle

TakeFunctor(op) ==
  /\ LoopFree
  /\ revents = {}
  /\ functors # <<>>
  /\ Head(functors).op = op
  /\ functors' = Tail(functors)
  /\ UNCHANGED <<calls, revents, peer, history, closed>>

(* Fault in ConnectEstablished: the channel is not enabled. *)
ConnectEstablishedDeaf ==
  /\ TakeFunctor("connectEstablished")
  /\ state' = "kConnected"
  /\ UNCHANGED <<channel, outputBuffer, socket, sent>>

ConnectEstablished ==
  /\ TakeFunctor("connectEstablished")
  /\ state' = "kConnected"
  /\ reading' = TRUE
  /\ UNCHANGED <<writing, muted, outputBuffer, socket, sent>>

RunSend ==
  /\ TakeFunctor("sendInLoop")
  /\ SendInLoop(Head(functors).message)
  /\ UNCHANGED state

RunShutdownInLoop ==
  /\ TakeFunctor("shutdownInLoop")
  /\ ShutdownInLoop
  /\ UNCHANGED <<state, channel, outputBuffer, sent>>

(* What ::poll may report of this socket: what was asked for, and HUP and  *)
(* ERR, which are always reported, when the peer has reset it.             *)
MayReport ==
  (IF reading THEN {"IN"} ELSE {}) \cup (IF writing THEN {"OUT"} ELSE {})
    \cup (IF peer = "reset" THEN {"HUP", "ERR"} ELSE {})

Poll ==
  /\ LoopFree
  /\ revents = {}
  /\ Established /\ ~muted
  /\ revents' \in SUBSET MayReport
  /\ revents' # {}
  /\ UNCHANGED <<state, channel, outputBuffer, functors, calls, peer, socket,
                 sent, history, closed>>

(* readv returns 0 only after the peer has closed its side. *)
ReadsZero == "IN" \in revents /\ peer # "open"

HangsUp == "HUP" \in revents /\ "IN" \notin revents

(* handleClose, called for a hang-up or by handleRead at the end of the    *)
(* input.  Whatever else was reported finds the channel disabled.          *)
HandleClose ==
  /\ ReadsZero \/ HangsUp
  /\ DisableAll
  /\ closed' = TRUE
  /\ UNCHANGED <<outputBuffer, socket>>

(* handleRead with input or an error, handleError, and handleWrite. *)
HandleOther ==
  /\ ~HangsUp
  /\ IF "OUT" \in revents /\ writing
       THEN HandleWrite
       ELSE UNCHANGED <<channel, outputBuffer, socket>>
  /\ UNCHANGED closed

(* Channel::handleEvent for the events reported. *)
HandleEvent ==
  /\ LoopFree
  /\ revents # {}
  /\ revents' = {}
  /\ HandleClose \/ HandleOther
  /\ UNCHANGED <<state, functors, calls, peer, sent, history>>

------------------------------------------------------------------------------
(* The peer half-closes, or resets, the connection. *)
PeerCloses ==
  /\ peer' \in {"eof", "reset"}
  /\ peer = "open" \/ (peer = "eof" /\ peer' = "reset")
  /\ UNCHANGED <<state, channel, outputBuffer, functors, calls, revents, socket,
                 sent, history, closed>>

Loop ==
  \/ ConnectEstablished \/ RunSend \/ RunShutdownInLoop \/ Poll \/ HandleEvent

Continue(t) == QueueSend(t) \/ SetDisconnecting(t) \/ RunShutdown(t)

Next ==
  \/ Loop
  \/ PeerCloses
  \/ \E m \in Messages : SendInOwner(m)
  \/ \E t \in Threads, m \in Messages : TestSend(t, m)
  \/ \E t \in Threads \cup {Owner} : TestShutdown(t) \/ Continue(t)

(* Threads go on with their calls.  However often poll() reports this      *)
(* channel, doPendingFunctors has its part in every turn of the loop       *)
(* (EventLoopThread, FirstFunctorsRun): strong fairness for the functors.  *)
Fairness ==
  /\ \A t \in Threads \cup {Owner} : WF_vars(Continue(t))
  /\ SF_vars(ConnectEstablished \/ RunSend \/ RunShutdownInLoop)
  /\ WF_vars(HandleEvent)

Spec == Init /\ [][Next]_vars

FairSpec == Spec /\ Fairness

------------------------------------------------------------------------------
(* Properties.                                                             *)

(* The fields have their types; the channel is muted only after            *)
(* handleClose, and is asked about nothing but output since; it is not     *)
(* asked about anything before connectEstablished.                         *)
TypeOK ==
  /\ state \in StateE
  /\ reading \in BOOLEAN /\ writing \in BOOLEAN /\ finSent \in BOOLEAN
  /\ muted \in BOOLEAN /\ closed \in BOOLEAN /\ (muted => closed)
  /\ muted => ~reading
  /\ writing => Established
  /\ revents \subseteq {"IN", "OUT", "HUP", "ERR"}
  /\ peer \in {"open", "eof", "reset"}
  /\ DOMAIN origin \subseteq Messages /\ promised \subseteq DOMAIN origin
  /\ closers \subseteq Threads \cup {Owner}
  /\ (functors # <<>> /\ Head(functors).op = "connectEstablished") <=> ~Established

(* The output buffer was empty to begin with, as its uninitialised indexes *)
(* had it: what is in it then leaves it only for the wire.                 *)
Clean ==
  \A k \in DOMAIN (wire \o outputBuffer) : (wire \o outputBuffer)[k][1] # "garbage"

(* The condition of sendInLoop (no write under way, nothing left to write) *)
(* keeps the bytes in order: until the peer closes, what the socket has    *)
(* taken is a prefix of the messages in the order the loop sent them.      *)
WireInOrder == Clean /\ ~closed => IsPrefix(wire, sent)

(* The same without the exception, as the comment in sendInLoop has it.    *)
NotScrambled == Clean => IsPrefix(wire, sent)

(* shutdown() after send(), in one thread, is graceful: when the side is   *)
(* closed for writing, what the thread that shut down had sent before is   *)
(* on the wire, whole.  Queueing in the order of the calls, state_ set     *)
(* before the hand-over, and a half-close that waits for the channel to    *)
(* stop writing make it so; not when the loop thread calls shutdown() at   *)
(* the same time as another thread, for it overtakes the queue.            *)
GracefulShutdown ==
  Clean /\ finSent /\ ~closed /\ (Owner \in closers => closers = {Owner}) =>
    \A m \in promised : \A i \in 1..Size[m] : \E k \in DOMAIN wire : wire[k] = <<m, i>>

(* After handleClose no event of the channel is dispatched any more, even  *)
(* if a later send() enables writing.                                      *)
ClosedIsSilent == closed => revents = {}

(* A shutdown() accepted by the test of state_ ends with the half-close,   *)
(* unless output stays stuck for ever or the peer has closed.              *)
ShutdownCompletes ==
  state = "kDisconnecting" /\ Established ~> (finSent \/ closed \/ []writing)
==============================================================================
