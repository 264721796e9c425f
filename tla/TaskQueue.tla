------------------------------ MODULE TaskQueue ------------------------------
(***************************************************************************)
(* What EventLoop::queueInLoop and EventLoop::runInLoop promise to their   *)
(* callers, without threads, locks, batches or wakeups: a task handed to   *)
(* the loop waits in one first-in first-out queue, is run at most once,    *)
(* and only a task the loop thread hands to itself with runInLoop may      *)
(* overtake the queue.  EventLoop is shown to implement this module.       *)
(***************************************************************************)
EXTENDS Sequences

CONSTANT Functors          \* the tasks; each is handed over at most once

VARIABLES
  queue,                   \* tasks handed over and not started, oldest first
  ran                      \* tasks started, in the order they were started

tqVars == <<queue, ran>>

Elements(s) == {s[i] : i \in DOMAIN s}

TQInit ==
  /\ queue = <<>>
  /\ ran = <<>>

(* A task is handed over for later. *)
Submit(f) ==
  /\ f \notin Elements(queue) \cup Elements(ran)
  /\ queue' = Append(queue, f)
  /\ UNCHANGED ran

(* The oldest waiting task is started. *)
StartOldest ==
  /\ queue # <<>>
  /\ ran' = Append(ran, Head(queue))
  /\ queue' = Tail(queue)

(* A task the loop thread hands to itself is started at once. *)
StartNow(f) ==
  /\ f \notin Elements(queue) \cup Elements(ran)
  /\ ran' = Append(ran, f)
  /\ UNCHANGED queue

TQNext ==
  \/ StartOldest
  \/ \E f \in Functors : Submit(f) \/ StartNow(f)

TQSpec == TQInit /\ [][TQNext]_tqVars
==============================================================================
