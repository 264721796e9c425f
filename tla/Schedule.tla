------------------------------- MODULE Schedule -------------------------------
(***************************************************************************)
(* What runAt, runAfter, runEvery and cancel promise, without addresses,   *)
(* ordered sets, functors or a timerfd: a timer waits until its time has   *)
(* come and is then started, together with all others whose time has come, *)
(* in the order of these times; one that repeats waits again, counted from *)
(* the time the batch was found due, unless it was stopped meanwhile.  A   *)
(* timer is dropped or stopped only when the cancellation of that timer,   *)
(* by its id, is carried out: until a handle came back garbled, which is   *)
(* all this module knows of addTimer reading its timer too late.  From     *)
(* then on a cancellation may hit any timer.                               *)
(* TimerQueue is shown to implement this module.                           *)
(***************************************************************************)
EXTENDS Integers, Sequences

CONSTANTS
  Delays,    \* how far ahead a timer may be set
  Periods    \* 0 for a timer that does not repeat, and periods

VARIABLES
  clock,     \* the time
  known,     \* how many timers were made: the n-th has the id n
  handed,    \* timers another thread made, not yet accepted by the loop
  waiting,   \* timers whose time is to come
  firing,    \* those whose time has come, in the order they are started
  fired,     \* how many of them were started
  at,        \* the time at which they were found due; 0 when there are none
  stopped,   \* ids of timers that are not to wait again
  revoked,   \* ids whose cancellation was carried out
  garbled    \* whether some handle says another timer than was meant

schedVars == <<clock, known, handed, waiting, firing, fired, at, stopped,
               revoked, garbled>>

NewTimer(d, p) == [id |-> known + 1, due |-> clock + d, period |-> p]
Ids(S) == {tm.id : tm \in S}
Batch == {firing[k] : k \in DOMAIN firing}

SchedInit ==
  /\ clock = 0 /\ known = 0
  /\ handed = {} /\ waiting = {}
  /\ firing = <<>> /\ fired = 0 /\ at = 0
  /\ stopped = {} /\ revoked = {} /\ garbled = FALSE

(* The loop thread sets a timer. *)
Set(d, p) ==
  /\ known' = known + 1
  /\ waiting' = waiting \cup {NewTimer(d, p)}
  /\ UNCHANGED <<clock, handed, firing, fired, at, stopped, revoked, garbled>>

(* Another thread sets one; the loop accepts it between two batches. *)
Hand(d, p) ==
  /\ known' = known + 1
  /\ handed' = handed \cup {NewTimer(d, p)}
  /\ UNCHANGED <<clock, waiting, firing, fired, at, stopped, revoked, garbled>>

Accept(tm) ==
  /\ firing = <<>>
  /\ handed' = handed \ {tm}
  /\ waiting' = waiting \cup {tm}
  /\ UNCHANGED <<clock, known, firing, fired, at, stopped, revoked, garbled>>

(* Whether a cancellation meant for the timer s may concern timer i. *)
Means(s, i) == s = i \/ garbled

(* A timer that waits is cancelled and is gone. *)
Cancel(s, tm) ==
  /\ Means(s, tm.id)
  /\ revoked' = revoked \cup {s}
  /\ waiting' = waiting \ {tm}
  /\ stopped' = stopped \ {tm.id}
  /\ UNCHANGED <<clock, known, handed, firing, fired, at, garbled>>

(* A callback cancels one of its own batch, or one not yet accepted: that  *)
(* one will still be started, but not wait again.                          *)
Stop(s, i) ==
  /\ fired > 0
  /\ Means(s, i)
  /\ revoked' = revoked \cup {s}
  /\ stopped' = stopped \cup {i}
  /\ UNCHANGED <<clock, known, handed, waiting, firing, fired, at, garbled>>

(* The timer meant is neither, and nothing happens: it is gone, or it was  *)
(* not accepted yet and no callback runs.                                  *)
Miss(s) ==
  /\ garbled \/ /\ s \notin Ids(waiting)
                /\ fired > 0 => s \notin Ids(Batch) \cup Ids(handed)
  /\ revoked' = revoked \cup {s}
  /\ UNCHANGED <<clock, known, handed, waiting, firing, fired, at, stopped,
                 garbled>>

(* A handle is given out that does not say which timer it is for. *)
Garble ==
  /\ garbled' = TRUE
  /\ UNCHANGED <<clock, known, handed, waiting, firing, fired, at, stopped,
                 revoked>>

(* The elements of S, each once, in the order of their times. *)
InOrder(q, S) ==
  /\ q \in Seq(S)
  /\ \A tm \in S : \E k \in DOMAIN q : q[k] = tm
  /\ \A j, k \in DOMAIN q : j < k => q[j].due <= q[k].due /\ q[j] # q[k]

(* All timers whose time has come, and no others, form a batch. *)
Expire ==
  LET due == {tm \in waiting : tm.due <= clock}
  IN  /\ firing = <<>> /\ due # {}
      /\ InOrder(firing', due)
      /\ waiting' = waiting \ due
      /\ at' = clock
      /\ UNCHANGED <<clock, known, handed, fired, stopped, revoked, garbled>>

(* The next callback of the batch is started. *)
Fire ==
  /\ fired < Len(firing)
  /\ fired' = fired + 1
  /\ UNCHANGED <<clock, known, handed, waiting, firing, at, stopped, revoked,
                 garbled>>

Again == {tm \in Batch : tm.period > 0 /\ tm.id \notin stopped}

(* The whole batch has run: of its timers some wait again, the others end. *)
Finish ==
  /\ firing # <<>> /\ fired = Len(firing)
  /\ waiting' =
       waiting \cup {[tm EXCEPT !.due = at + tm.period] : tm \in Again}
  /\ stopped' = stopped \ Ids(Batch)
  /\ firing' = <<>> /\ fired' = 0 /\ at' = 0
  /\ UNCHANGED <<clock, known, handed, revoked, garbled>>

Tick ==
  /\ clock' = clock + 1
  /\ UNCHANGED <<known, handed, waiting, firing, fired, at, stopped, revoked,
                 garbled>>

SchedNext ==
  \/ \E d \in Delays, p \in Periods : Set(d, p) \/ Hand(d, p)
  \/ \E tm \in handed : Accept(tm)
  \/ \E s \in revoked' :
       \/ \E tm \in waiting : Cancel(s, tm)
       \/ \E i \in Ids(Batch) \cup Ids(handed) : Stop(s, i)
       \/ Miss(s)
  \/ Garble
  \/ Expire \/ Fire \/ Finish \/ Tick

SchedSpec == SchedInit /\ [][SchedNext]_schedVars
==============================================================================
