-------------------------- MODULE TimerQueueProofs --------------------------
(***************************************************************************)
(* Proofs about TimerQueue, for any addresses, threads, delays, intervals  *)
(* and bounds.  Whoever adds and cancels timers: the two sets agree, the   *)
(* batch stays allocated, the timerfd is armed, a one-shot runs once; no   *)
(* timer leaks; and as long as no sequence is misread no timer is lost.    *)
(* When only the loop thread adds timers a cancelled one does not come     *)
(* back.  The queue implements Schedule.                                   *)
(***************************************************************************)
EXTENDS TimerQueue, FiniteSetTheorems, WellFoundedInduction, TLAPS

Timers == [seq : 0..MaxSeq, exp : Nat, interval : Intervals \cup {0}]
Handles == [addr : Addr \cup {0}, seq : 0..MaxSeq, of : 0..MaxSeq]
Functors == [op : {"add", "cancel"}, addr : Addr \cup {0}, seq : 0..MaxSeq,
             of : 0..MaxSeq]

(* The types of what crosses threads. *)
CallsTyped ==
  /\ ids \subseteq Handles
  /\ inbox \in Seq(Functors)
  /\ adding \in [Adders -> [addr : Addr \cup {0}, seq : 0..MaxSeq]]
  /\ \A t \in Adders : adding[t] # NoTimer => adding[t].addr \in Addr
  /\ cancelled \subseteq 0..MaxSeq

(* A sequence is given out once, and tells whether its timer repeats. *)
Numbered ==
  /\ \A a \in Addr : Allocated(a) =>
       /\ heap[a].seq \in 1..created
       /\ heap[a].seq \in every <=> heap[a].interval > 0
  /\ \A a, b \in Addr : Allocated(a) /\ heap[a].seq = heap[b].seq => a = b
  /\ ran \subseteq 1..created /\ every \subseteq 1..created

(* No timer is in the batch twice. *)
BatchOnce == \A j, k \in DOMAIN batch : batch[j][2] = batch[k][2] => j = k

Adds(k) == k \in DOMAIN inbox /\ inbox[k].op = "add"

(* A timer yet to be inserted is allocated, and nowhere else. *)
QueuedApart ==
  \A k \in DOMAIN inbox : Adds(k) =>
    /\ inbox[k].addr \in Addr
    /\ Allocated(inbox[k].addr)
    /\ heap[inbox[k].addr].seq = inbox[k].seq
    /\ \A t \in activeTimers : t[1] # inbox[k].addr
    /\ \A j \in DOMAIN batch : batch[j][2] # inbox[k].addr
    /\ \A l \in DOMAIN inbox : Adds(l) /\ inbox[l].addr = inbox[k].addr => l = k

(* Callbacks have run for the batch up to next; a one-shot that has run and *)
(* still exists is among them.                                             *)
RanInBatch ==
  /\ \A k \in 1..next - 1 : heap[batch[k][2]].seq \in ran
  /\ \A a \in Addr : Allocated(a) /\ heap[a].seq \in ran \ every =>
       \E k \in 1..next - 1 : batch[k][2] = a

IInv ==
  /\ TypeOK /\ CallsTyped /\ Numbered
  /\ InSync /\ BatchAllocated /\ BatchOnce /\ QueuedApart
  /\ RanInBatch /\ Armed

------------------------------------------------------------------------------
(* A set of naturals has a least element: what Rearmed chooses exists. *)
LEMMA LeastExists ==
  ASSUME NEW T, T \subseteq Nat, T # {}
  PROVE  \E m \in T : \A n \in T : m <= n
<1> DEFINE R == OpToRel(<, Nat)
<1>1. IsWellFoundedOn(R, Nat)
  BY NatLessThanWellFounded
<1>2. PICK m \in T : \A n \in T : ~(<<n, m>> \in R)
  <2> HIDE DEF R
  <2> QED
    BY <1>1, WFMin
<1>3. ASSUME NEW n \in T PROVE m <= n
  <2>1. ~(<<n, m>> \in R)
    BY <1>2
  <2>2. ~(n < m)
    BY <2>1 DEF OpToRel
  <2> QED
    BY <2>2
<1> QED
  BY <1>3

(* The vector getExpired returns: the elements of S in order. *)
LEMMA VectorsAre ==
  ASSUME NEW S, NEW q \in Vectors(S)
  PROVE  /\ \E n \in Nat : q \in [1..n -> S]
         /\ \A e \in S : \E k \in DOMAIN q : q[k] = e
         /\ \A j, k \in DOMAIN q : j < k => Before(q[j], q[k])
<1>1. PICK n \in 0..Cardinality(S) : q \in [1..n -> S]
  BY DEF Vectors
<1>2. n \in Nat
  BY <1>1
<1> QED
  BY <1>1, <1>2 DEF Vectors

(* The batch and the position in it. *)
LEMMA BatchIs ==
  ASSUME IInv
  PROVE  /\ Len(batch) \in Nat /\ DOMAIN batch = 1..Len(batch)
         /\ next \in Nat /\ 1 <= next /\ next <= Len(batch) + 1
         /\ \A k \in DOMAIN batch :
              /\ batch[k][1] \in Nat /\ batch[k][2] \in Addr
              /\ Allocated(batch[k][2])
<1>1. batch \in Seq(Nat \X Addr) /\ next \in 1..Len(batch) + 1
  BY DEF IInv, TypeOK
<1>2. \A k \in DOMAIN batch : Allocated(batch[k][2])
  BY DEF IInv, BatchAllocated
<1>3. Len(batch) \in Nat /\ DOMAIN batch = 1..Len(batch)
  BY <1>1
<1>4. \A k \in DOMAIN batch : batch[k][1] \in Nat /\ batch[k][2] \in Addr
  BY <1>1
<1> QED
  BY <1>1, <1>2, <1>3, <1>4

(* new Timer *)
LEMMA NewTimerTyped ==
  ASSUME IInv, NEW a \in Addr, NEW d \in Delays, NEW i \in Intervals,
         Allocate(a, d, i)
  PROVE  /\ ~Allocated(a) /\ heap[a].seq = 0
         /\ created \in Nat /\ created' = created + 1 /\ created + 1 \in Seqs
         /\ heap' \in [Addr -> Timers]
         /\ heap'[a] = NewTimer(d, i) /\ NewTimer(d, i) \in Timers
         /\ NewTimer(d, i).seq = created + 1 /\ NewTimer(d, i).exp = now + d
         /\ NewTimer(d, i).interval = i /\ i \in Nat /\ now + d \in Nat
         /\ \A b \in Addr \ {a} : heap'[b] = heap[b]
         /\ every' = IF i > 0 THEN every \cup {created + 1} ELSE every
         /\ every' \subseteq Seqs
<1>1. created < MaxSeq /\ ~Allocated(a) /\ created' = created + 1
      /\ heap' = [heap EXCEPT ![a] = NewTimer(d, i)]
      /\ every' = IF i > 0 THEN every \cup {created + 1} ELSE every
  BY DEF Allocate
<1>2. created \in 0..MaxSeq /\ heap \in [Addr -> Timers] /\ now \in Nat
      /\ every \subseteq Seqs
  BY DEF IInv, TypeOK, Timers
<1>3. MaxSeq \in Nat /\ d \in Nat /\ i \in Nat
  BY TimerQueueAssumption
<1>4. created \in Nat /\ created + 1 \in Seqs /\ now + d \in Nat
  BY <1>1, <1>2, <1>3 DEF Seqs
<1>5. NewTimer(d, i) \in Timers
  BY <1>3, <1>4 DEF NewTimer, Timers, Seqs
<1>6. NewTimer(d, i).seq = created + 1 /\ NewTimer(d, i).exp = now + d
      /\ NewTimer(d, i).interval = i
  BY DEF NewTimer
<1>7. heap[a].seq = 0
  BY <1>1 DEF Allocated, Free
<1>8. every' \subseteq Seqs
  BY <1>1, <1>2, <1>4
<1> QED
  BY <1>1, <1>2, <1>3, <1>4, <1>5, <1>6, <1>7, <1>8

(* cancelInLoop leaves the types. *)
LEMMA CancelTyped ==
  ASSUME IInv, NEW id, CancelInLoop(id), id.addr \in Addr \cup {0},
         id.seq \in 0..MaxSeq, id.of \in 0..MaxSeq
  PROVE  /\ heap' \in [Addr -> Timers]
         /\ timers' \subseteq Nat \X Addr /\ activeTimers' \subseteq Addr \X Seqs
         /\ cancelingTimers' \subseteq (Addr \cup {0}) \X (Seqs \cup {0})
         /\ cancelled' \subseteq 0..MaxSeq
<1>1. /\ heap \in [Addr -> Timers]
      /\ timers \subseteq Nat \X Addr /\ activeTimers \subseteq Addr \X Seqs
      /\ cancelingTimers \subseteq (Addr \cup {0}) \X (Seqs \cup {0})
      /\ cancelled \subseteq 0..MaxSeq
  BY DEF IInv, TypeOK, CallsTyped, Timers
<1>2. Free \in Timers
  BY TimerQueueAssumption DEF Free, Timers
<1>3. cancelled' \subseteq 0..MaxSeq
  BY <1>1 DEF CancelInLoop
<1>4. CASE Erase(id)
  <2>1. heap' = [heap EXCEPT ![id.addr] = Free]
    BY <1>4 DEF Erase
  <2>2. heap' \in [Addr -> Timers]
    BY <1>1, <1>2, <2>1
  <2> QED
    BY <1>1, <1>3, <1>4, <2>2 DEF Erase
<1>5. CASE Mark(id)
  <2>1. <<id.addr, id.seq>> \in (Addr \cup {0}) \X (Seqs \cup {0})
    BY TimerQueueAssumption DEF Seqs
  <2>2. cancelingTimers' \subseteq cancelingTimers \cup {<<id.addr, id.seq>>}
    BY <1>5 DEF Mark
  <2>3. heap' = heap /\ timers' = timers /\ activeTimers' = activeTimers
    BY <1>5 DEF Mark
  <2> QED
    BY <1>1, <1>3, <2>1, <2>2, <2>3
<1> QED
  BY <1>4, <1>5 DEF CancelInLoop

------------------------------------------------------------------------------
(* Types *)

LEMMA AddTimerTyped ==
  ASSUME IInv, NEW a \in Addr, NEW d \in Delays, NEW i \in Intervals,
         AddTimer(a, d, i)
  PROVE  TypeOK' /\ CallsTyped'
<1> DEFINE tm == NewTimer(d, i)
<1>1. Allocate(a, d, i) /\ AddTimerInLoop(a, tm)
  BY DEF AddTimer
<1>2. /\ heap' \in [Addr -> Timers] /\ every' \subseteq Seqs
      /\ created' \in Nat /\ created' \in Seqs /\ created' = created + 1
      /\ tm.seq = created + 1 /\ tm.exp \in Nat
  BY <1>1, NewTimerTyped DEF Timers
<1>3. /\ UNCHANGED <<pc, now, cancelingTimers, callingExpiredTimers, polled, batch,
                    next, since, inbox, adding, ran, cancelled>>
      /\ ids' = ids \cup {[addr |-> a, seq |-> created + 1, of |-> created + 1]}
  BY DEF AddTimer
<1>4. deadline' \in Nat \cup {Never}
  <2>1. now \in Nat /\ deadline \in Nat \cup {Never}
    BY DEF IInv, TypeOK
  <2>2. Arm(tm.exp) \in Nat
    BY <1>2, <2>1 DEF Arm, Later
  <2> QED
    BY <1>1, <2>1, <2>2 DEF AddTimerInLoop
<1>5. timers' \subseteq Nat \X Addr /\ activeTimers' \subseteq Addr \X Seqs
  <2>1. timers' = timers \cup {<<tm.exp, a>>}
        /\ activeTimers' = activeTimers \cup {<<a, tm.seq>>}
    BY <1>1 DEF AddTimerInLoop
  <2> QED
    BY <1>2, <2>1 DEF IInv, TypeOK
<1>6. TypeOK'
  <2>1. created' \in 0..MaxSeq
    BY <1>2 DEF Seqs
  <2>2. heap' \in [Addr -> [seq : 0..MaxSeq, exp : Nat, interval : Intervals \cup {0}]]
    BY <1>2 DEF Timers
  <2> HIDE DEF tm
  <2> QED
    BY <1>2, <1>3, <1>4, <1>5, <2>1, <2>2 DEF IInv, TypeOK
<1>7. CallsTyped'
  <2>1. [addr |-> a, seq |-> created + 1, of |-> created + 1] \in Handles
    BY <1>2 DEF Handles, Seqs
  <2> QED
    BY <1>3, <2>1 DEF IInv, CallsTyped
<1> QED
  BY <1>6, <1>7

LEMMA QueueAddTimerTyped ==
  ASSUME IInv, NEW t \in Adders, NEW a \in Addr, NEW d \in Delays,
         NEW i \in Intervals, QueueAddTimer(t, a, d, i)
  PROVE  TypeOK' /\ CallsTyped'
<1>1. Allocate(a, d, i)
  BY DEF QueueAddTimer
<1>2. /\ heap' \in [Addr -> Timers] /\ every' \subseteq Seqs
      /\ created' \in Seqs /\ created' = created + 1
  BY <1>1, NewTimerTyped
<1>3. /\ UNCHANGED <<pc, now, timers, activeTimers, cancelingTimers,
                    callingExpiredTimers, deadline, polled, batch, next, since,
                    ids, ran, cancelled>>
      /\ inbox' = Append(inbox, [op |-> "add", addr |-> a, seq |-> created + 1,
                                 of |-> created + 1])
      /\ adding' = [adding EXCEPT ![t] = [addr |-> a, seq |-> created + 1]]
  BY DEF QueueAddTimer
<1>4. TypeOK'
  <2>1. created' \in 0..MaxSeq
    BY <1>2 DEF Seqs
  <2>2. heap' \in [Addr -> [seq : 0..MaxSeq, exp : Nat, interval : Intervals \cup {0}]]
    BY <1>2 DEF Timers
  <2> QED
    BY <1>2, <1>3, <2>1, <2>2 DEF IInv, TypeOK
<1>5. CallsTyped'
  <2>1. created + 1 \in 0..MaxSeq
    BY <1>2 DEF Seqs
  <2>2. [op |-> "add", addr |-> a, seq |-> created + 1, of |-> created + 1] \in Functors
    BY <2>1 DEF Functors
  <2>3. inbox' \in Seq(Functors)
    BY <1>3, <2>2 DEF IInv, CallsTyped
  <2>4. [addr |-> a, seq |-> created + 1] \in [addr : Addr \cup {0}, seq : 0..MaxSeq]
    BY <2>1
  <2>5. adding \in [Adders -> [addr : Addr \cup {0}, seq : 0..MaxSeq]]
    BY DEF IInv, CallsTyped
  <2>6. adding' \in [Adders -> [addr : Addr \cup {0}, seq : 0..MaxSeq]]
    BY <1>3, <2>4, <2>5
  <2>7. \A u \in Adders : adding'[u] # NoTimer => adding'[u].addr \in Addr
    <3> SUFFICES ASSUME NEW u \in Adders, adding'[u] # NoTimer
                 PROVE  adding'[u].addr \in Addr
      OBVIOUS
    <3>1. CASE u = t
      BY <1>3, <2>5, <3>1
    <3>2. CASE u # t
      BY <1>3, <2>5, <3>2 DEF IInv, CallsTyped
    <3> QED
      BY <3>1, <3>2
  <2> QED
    BY <1>3, <2>3, <2>6, <2>7 DEF IInv, CallsTyped
<1> QED
  BY <1>4, <1>5

LEMMA ReadSequenceTyped ==
  ASSUME IInv, NEW t \in Adders, ReadSequence(t)
  PROVE  TypeOK' /\ CallsTyped'
<1>1. UNCHANGED <<pc, now, created, heap, timers, activeTimers, cancelingTimers,
                 callingExpiredTimers, deadline, polled, batch, next, since,
                 inbox, ran, every, cancelled>>
  BY DEF ReadSequence
<1>2. TypeOK'
  BY <1>1 DEF IInv, TypeOK
<1> DEFINE tm == adding[t]
<1>3. tm.addr \in Addr /\ tm.seq \in 0..MaxSeq
  BY DEF ReadSequence, IInv, CallsTyped
<1>4. heap[tm.addr].seq \in 0..MaxSeq /\ 0 \in 0..MaxSeq
  <2>1. heap \in [Addr -> Timers] /\ MaxSeq \in Nat
    BY TimerQueueAssumption DEF IInv, TypeOK, Timers
  <2>2. heap[tm.addr] \in Timers
    BY <1>3, <2>1
  <2> HIDE DEF tm
  <2> QED
    BY <2>1, <2>2 DEF Timers
<1>5. PICK s \in (IF Allocated(tm.addr) THEN {heap[tm.addr].seq} ELSE {tm.seq, 0}) :
        ids' = ids \cup {[addr |-> tm.addr, seq |-> s, of |-> tm.seq]}
  BY DEF ReadSequence
<1>6. s \in 0..MaxSeq
  BY <1>3, <1>4, <1>5
<1>7. ids' \subseteq Handles
  <2>1. [addr |-> tm.addr, seq |-> s, of |-> tm.seq] \in Handles
    BY <1>3, <1>6 DEF Handles
  <2>2. ids \subseteq Handles
    BY DEF IInv, CallsTyped
  <2> HIDE DEF tm
  <2> QED
    BY <1>5, <2>1, <2>2
<1>8. adding' = [adding EXCEPT ![t] = NoTimer]
  BY DEF ReadSequence
<1>9. adding' \in [Adders -> [addr : Addr \cup {0}, seq : 0..MaxSeq]]
  <2>1. NoTimer \in [addr : Addr \cup {0}, seq : 0..MaxSeq]
    BY <1>4 DEF NoTimer
  <2> QED
    BY <1>8, <2>1 DEF IInv, CallsTyped
<1>10. \A u \in Adders : adding'[u] # NoTimer => adding'[u].addr \in Addr
  <2>1. adding'[t] = NoTimer /\ \A u \in Adders \ {t} : adding'[u] = adding[u]
    BY <1>8 DEF IInv, CallsTyped
  <2> QED
    BY <2>1 DEF IInv, CallsTyped
<1>11. CallsTyped'
  BY <1>1, <1>7, <1>9, <1>10 DEF IInv, CallsTyped
<1> QED
  BY <1>2, <1>11

LEMMA CancelStepTyped ==
  ASSUME IInv, NEW id \in ids, Cancel(id)
  PROVE  TypeOK' /\ CallsTyped'
<1>1. id.addr \in Addr \cup {0} /\ id.seq \in 0..MaxSeq /\ id.of \in 0..MaxSeq
  BY DEF IInv, CallsTyped, Handles
<1>2. CancelInLoop(id)
  BY DEF Cancel
<1>3. /\ heap' \in [Addr -> Timers]
      /\ timers' \subseteq Nat \X Addr /\ activeTimers' \subseteq Addr \X Seqs
      /\ cancelingTimers' \subseteq (Addr \cup {0}) \X (Seqs \cup {0})
      /\ cancelled' \subseteq 0..MaxSeq
  BY <1>1, <1>2, CancelTyped
<1>4. UNCHANGED <<pc, now, created, callingExpiredTimers, deadline, polled,
                 batch, next, since, inbox, adding, ids, ran, every>>
  BY DEF Cancel
<1>5. TypeOK'
  BY <1>3, <1>4 DEF IInv, TypeOK, Timers
<1>6. CallsTyped'
  BY <1>3, <1>4 DEF IInv, CallsTyped
<1> QED
  BY <1>5, <1>6

LEMMA QueueCancelTyped ==
  ASSUME IInv, NEW t \in Threads, NEW id \in ids, QueueCancel(t, id)
  PROVE  TypeOK' /\ CallsTyped'
<1>1. /\ inbox' = Append(inbox, [op |-> "cancel", addr |-> id.addr,
                                 seq |-> id.seq, of |-> id.of])
      /\ UNCHANGED <<pc, now, created, heap, timers, activeTimers, cancelingTimers,
                    callingExpiredTimers, deadline, polled, batch, next, since,
                    adding, ids, ran, every, cancelled>>
  BY DEF QueueCancel
<1>2. TypeOK'
  BY <1>1 DEF IInv, TypeOK
<1>3. [op |-> "cancel", addr |-> id.addr, seq |-> id.seq, of |-> id.of] \in Functors
  BY DEF IInv, CallsTyped, Handles, Functors
<1>4. inbox' \in Seq(Functors)
  BY <1>1, <1>3 DEF IInv, CallsTyped
<1>5. CallsTyped'
  BY <1>1, <1>4 DEF IInv, CallsTyped
<1> QED
  BY <1>2, <1>5

LEMMA RunFunctorTyped ==
  ASSUME IInv, RunFunctor
  PROVE  TypeOK' /\ CallsTyped'
<1> DEFINE f == Head(inbox)
<1>1. /\ inbox' = Tail(inbox) /\ inbox # <<>>
      /\ UNCHANGED <<pc, now, created, callingExpiredTimers, polled, batch, next,
                    since, adding, ids, ran, every>>
  BY DEF RunFunctor
<1>2. f \in Functors /\ inbox' \in Seq(Functors) /\ 1 \in DOMAIN inbox /\ f = inbox[1]
  BY <1>1 DEF IInv, CallsTyped
<1>3. CASE /\ f.op = "add"
           /\ AddTimerInLoop(f.addr, heap[f.addr])
           /\ UNCHANGED <<heap, cancelingTimers, cancelled>>
  <2>1. /\ f.addr \in Addr /\ Allocated(f.addr)
    BY <1>2, <1>3 DEF IInv, QueuedApart, Adds
  <2>2. heap[f.addr].seq \in 1..created
    BY <2>1 DEF IInv, Numbered
  <2>3. heap[f.addr].seq \in Seqs
    BY <2>2, TimerQueueAssumption DEF IInv, TypeOK, Seqs
  <2>4. heap[f.addr].exp \in Nat
    <3>1. heap \in [Addr -> Timers]
      BY DEF IInv, TypeOK, Timers
    <3>2. heap[f.addr] \in Timers
      BY <2>1, <3>1
    <3> HIDE DEF f
    <3> QED
      BY <3>2 DEF Timers
  <2>5. deadline' \in Nat \cup {Never}
    <3>1. now \in Nat /\ deadline \in Nat \cup {Never}
      BY DEF IInv, TypeOK
    <3>2. Arm(heap[f.addr].exp) \in Nat
      BY <2>4, <3>1 DEF Arm, Later
    <3> QED
      BY <1>3, <3>1, <3>2 DEF AddTimerInLoop
  <2>6. timers' \subseteq Nat \X Addr /\ activeTimers' \subseteq Addr \X Seqs
    <3>1. timers' = timers \cup {<<heap[f.addr].exp, f.addr>>}
          /\ activeTimers' = activeTimers \cup {<<f.addr, heap[f.addr].seq>>}
      BY <1>3 DEF AddTimerInLoop
    <3> HIDE DEF f
    <3> QED
      BY <2>1, <2>3, <2>4, <3>1 DEF IInv, TypeOK
  <2>7. TypeOK'
    BY <1>1, <1>3, <2>5, <2>6 DEF IInv, TypeOK
  <2>8. CallsTyped'
    BY <1>1, <1>2, <1>3 DEF IInv, CallsTyped
  <2> QED
    BY <2>7, <2>8
<1>4. CASE f.op = "cancel" /\ CancelInLoop(f) /\ UNCHANGED deadline
  <2>1. f.addr \in Addr \cup {0} /\ f.seq \in 0..MaxSeq /\ f.of \in 0..MaxSeq
    BY <1>2 DEF Functors
  <2>2. /\ heap' \in [Addr -> Timers]
        /\ timers' \subseteq Nat \X Addr /\ activeTimers' \subseteq Addr \X Seqs
        /\ cancelingTimers' \subseteq (Addr \cup {0}) \X (Seqs \cup {0})
        /\ cancelled' \subseteq 0..MaxSeq
    <3> HIDE DEF f
    <3> QED
      BY <1>4, <2>1, CancelTyped
  <2>3. TypeOK'
    BY <1>1, <1>4, <2>2 DEF IInv, TypeOK, Timers
  <2>4. CallsTyped'
    BY <1>1, <1>2, <2>2 DEF IInv, CallsTyped
  <2> QED
    BY <2>3, <2>4
<1> QED
  BY <1>3, <1>4 DEF RunFunctor

LEMMA HandleReadTyped ==
  ASSUME IInv, HandleRead
  PROVE  TypeOK' /\ CallsTyped'
<1> DEFINE due == {e \in timers : e[1] <= now}
<1>1. /\ polled' = FALSE /\ since' = now /\ next' = 1
      /\ callingExpiredTimers' = TRUE /\ pc' = "run"
      /\ deadline' = IF Readable THEN Never ELSE deadline
      /\ GetExpired(due)
      /\ UNCHANGED <<now, created, heap, cancelingTimers, inbox, adding, ids, ran,
                    every, cancelled>>
  BY DEF HandleRead
<1>2. batch' \in Seq(Nat \X Addr)
  <2>1. batch' \in Vectors(due) /\ due \subseteq Nat \X Addr
    BY <1>1 DEF GetExpired, IInv, TypeOK
  <2>2. PICK n \in Nat : batch' \in [1..n -> due]
    <3> HIDE DEF due
    <3> QED
      BY <2>1, VectorsAre
  <2>3. batch' \in [1..n -> Nat \X Addr]
    BY <2>1, <2>2
  <2> QED
    BY <2>3
<1>3. 1 \in 1..Len(batch') + 1
  BY <1>2
<1>4. timers' \subseteq Nat \X Addr /\ activeTimers' \subseteq Addr \X Seqs
  BY <1>1 DEF GetExpired, IInv, TypeOK
<1>5. deadline' \in Nat \cup {Never} /\ since' \in 0..now
  BY <1>1 DEF IInv, TypeOK
<1>6. TypeOK'
  BY <1>1, <1>2, <1>3, <1>4, <1>5 DEF IInv, TypeOK
<1>7. CallsTyped'
  BY <1>1 DEF IInv, CallsTyped
<1> QED
  BY <1>6, <1>7

LEMMA TurnTyped ==
  ASSUME IInv, Poll \/ RunTimer \/ CallbackReturns \/ Tick \/ UNCHANGED vars
  PROVE  TypeOK' /\ CallsTyped'
<1>1. CallsTyped'
  BY DEF IInv, CallsTyped, Poll, RunTimer, CallbackReturns, Tick, vars
<1>2. CASE Poll
  BY <1>1, <1>2 DEF IInv, TypeOK, Poll
<1>3. CASE RunTimer
  <2>1. /\ pc = "run" /\ pc' = "callback" /\ next' = next + 1 /\ next <= Len(batch)
        /\ ran' = ran \cup {heap[batch[next][2]].seq}
        /\ UNCHANGED <<now, created, heap, timers, activeTimers, cancelingTimers,
                 callingExpiredTimers, deadline, polled, batch, since, inbox,
                 adding, ids, every, cancelled>>
    BY <1>3 DEF RunTimer
  <2>2. next \in DOMAIN batch /\ next' \in 1..Len(batch) + 1
    BY <2>1, BatchIs
  <2>3. batch[next][2] \in Addr /\ Allocated(batch[next][2])
    BY <2>2, BatchIs
  <2>4. heap[batch[next][2]].seq \in 1..created /\ created \in 0..MaxSeq
    BY <2>3 DEF IInv, TypeOK, Numbered
  <2>5. ran' \subseteq Seqs
    <3>1. heap[batch[next][2]].seq \in Seqs
      BY <2>4, TimerQueueAssumption DEF Seqs
    <3>2. ran \subseteq Seqs
      BY DEF IInv, TypeOK
    <3> QED
      BY <2>1, <3>1, <3>2
  <2> QED
    BY <1>1, <2>1, <2>2, <2>5 DEF IInv, TypeOK
<1>4. CASE CallbackReturns
  BY <1>1, <1>4 DEF IInv, TypeOK, CallbackReturns
<1>5. CASE Tick
  <2>1. now' = now + 1 /\ now \in Nat /\ since \in 0..now
    BY <1>5 DEF Tick, IInv, TypeOK
  <2>2. now' \in Nat /\ since \in 0..now'
    BY <2>1
  <2> QED
    BY <1>1, <1>5, <2>2 DEF IInv, TypeOK, Tick
<1>6. CASE UNCHANGED vars
  BY <1>1, <1>6 DEF IInv, TypeOK, vars
<1> QED
  BY <1>1, <1>2, <1>3, <1>4, <1>5, <1>6

LEMMA ResetTyped ==
  ASSUME IInv, Reset
  PROVE  TypeOK' /\ CallsTyped'
<1> DEFINE again == {a \in BatchAddrs : Restarts(a)}
<1>1. /\ callingExpiredTimers' = FALSE
      /\ heap' = [a \in Addr |->
             IF a \in again
               THEN [heap[a] EXCEPT !.exp = since + heap[a].interval]
             ELSE IF a \in BatchAddrs THEN Free ELSE heap[a]]
      /\ timers' = timers \cup {<<since + heap[a].interval, a>> : a \in again}
      /\ activeTimers' = activeTimers \cup {<<a, heap[a].seq>> : a \in again}
      /\ deadline' = Rearmed({e[1] : e \in timers'})
      /\ batch' = <<>> /\ next' = 1 /\ since' = 0 /\ pc' = "user" /\ pc = "run"
      /\ UNCHANGED <<now, created, cancelingTimers, polled, inbox, adding, ids,
                    ran, every, cancelled>>
  BY DEF Reset
<1>2. /\ heap \in [Addr -> Timers] /\ since \in Nat /\ Intervals \subseteq Nat
      /\ now \in Nat
  BY TimerQueueAssumption DEF IInv, TypeOK, Timers
<1>3. BatchAddrs \subseteq Addr /\ \A a \in BatchAddrs : Allocated(a)
  BY BatchIs DEF BatchAddrs
<1>4. ASSUME NEW a \in again
      PROVE  /\ a \in Addr /\ heap[a].seq \in Seqs
             /\ since + heap[a].interval \in Nat
             /\ [heap[a] EXCEPT !.exp = since + heap[a].interval] \in Timers
  <2>1. a \in Addr /\ heap[a] \in Timers
    BY <1>2, <1>3
  <2>2. heap[a].interval \in Nat
    <3> HIDE DEF again
    <3>1. heap[a].interval \in Intervals \cup {0}
      BY <2>1 DEF Timers
    <3>2. \A x \in Intervals \cup {0} : x \in Nat
      BY TimerQueueAssumption
    <3> QED
      BY <3>1, <3>2
  <2>3. since + heap[a].interval \in Nat
    BY <1>2, <2>2
  <2>4. [heap[a] EXCEPT !.exp = since + heap[a].interval] \in Timers
    BY <2>1, <2>3 DEF Timers
  <2>5. heap[a].seq \in 1..created
    BY <1>3 DEF IInv, Numbered
  <2>6. heap[a].seq \in Seqs
    BY <2>5, TimerQueueAssumption DEF IInv, TypeOK, Seqs
  <2> QED
    BY <2>1, <2>3, <2>4, <2>6
<1>5. Free \in Timers
  BY TimerQueueAssumption DEF Free, Timers
<1>6. heap' \in [Addr -> Timers]
  <2> HIDE DEF again
  <2> QED
    BY <1>1, <1>2, <1>4, <1>5
<1>7. timers' \subseteq Nat \X Addr
  <2> HIDE DEF again
  <2>1. {<<since + heap[a].interval, a>> : a \in again} \subseteq Nat \X Addr
    <3>1. \A a \in again : <<since + heap[a].interval, a>> \in Nat \X Addr
      BY <1>4
    <3> QED
      BY <3>1
  <2>2. timers \subseteq Nat \X Addr
    BY DEF IInv, TypeOK
  <2> QED
    BY <1>1, <2>1, <2>2
<1>8. activeTimers' \subseteq Addr \X Seqs
  <2> HIDE DEF again
  <2>1. {<<a, heap[a].seq>> : a \in again} \subseteq Addr \X Seqs
    <3>1. \A a \in again : <<a, heap[a].seq>> \in Addr \X Seqs
      BY <1>4
    <3> QED
      BY <3>1
  <2>2. activeTimers \subseteq Addr \X Seqs
    BY DEF IInv, TypeOK
  <2> QED
    BY <1>1, <2>1, <2>2
<1>9. deadline' \in Nat \cup {Never}
  <2> DEFINE T == {e[1] : e \in timers'}
  <2>1. T \subseteq Nat
    BY <1>7
  <2>2. CASE T = {}
    BY <1>1, <2>2 DEF Rearmed, IInv, TypeOK
  <2>3. CASE T # {}
    <3> DEFINE m == CHOOSE m \in T : \A n \in T : m <= n
    <3>1. m \in T
      <4> HIDE DEF T
      <4> QED
        BY <2>1, <2>3, LeastExists
    <3>2. deadline' = Later(m, now' + 1) \/ deadline' = Later(m, now + 1)
      BY <1>1, <2>3 DEF Rearmed, Arm
    <3>3. m \in Nat
      BY <2>1, <3>1
    <3> HIDE DEF m
    <3> QED
      BY <1>1, <1>2, <3>2, <3>3 DEF Later
  <2> QED
    BY <2>2, <2>3
<1>10. TypeOK'
  <2> HIDE DEF again
  <2>1. since' \in 0..now' /\ batch' \in Seq(Nat \X Addr) /\ next' \in 1..Len(batch') + 1
    BY <1>1, <1>2
  <2>2. heap' \in [Addr -> [seq : 0..MaxSeq, exp : Nat, interval : Intervals \cup {0}]]
    BY <1>6 DEF Timers
  <2>3. /\ pc' = "user" /\ batch' = <<>> /\ callingExpiredTimers' = FALSE
        /\ UNCHANGED <<now, created, cancelingTimers, polled, ran, every>>
    BY <1>1
  <2> QED
    BY <1>7, <1>8, <1>9, <2>1, <2>2, <2>3 DEF IInv, TypeOK
<1>11. CallsTyped'
  BY <1>1 DEF IInv, CallsTyped
<1> QED
  BY <1>10, <1>11

LEMMA TypesStep ==
  ASSUME IInv, [Next]_vars
  PROVE  TypeOK' /\ CallsTyped'
<1>1. CASE \E a \in Addr, d \in Delays, i \in Intervals :
             AddTimer(a, d, i) \/ \E t \in Adders : QueueAddTimer(t, a, d, i)
  BY <1>1, AddTimerTyped, QueueAddTimerTyped
<1>2. CASE \E t \in Adders : ReadSequence(t)
  BY <1>2, ReadSequenceTyped
<1>3. CASE \E id \in ids : Cancel(id) \/ \E t \in Threads : QueueCancel(t, id)
  BY <1>3, CancelStepTyped, QueueCancelTyped
<1>4. CASE RunFunctor
  BY <1>4, RunFunctorTyped
<1>5. CASE HandleRead
  BY <1>5, HandleReadTyped
<1>6. CASE Reset
  BY <1>6, ResetTyped
<1>7. CASE Poll \/ RunTimer \/ CallbackReturns \/ Tick \/ UNCHANGED vars
  BY <1>7, TurnTyped
<1> QED
  BY <1>1, <1>2, <1>3, <1>4, <1>5, <1>6, <1>7 DEF Next, LoopStep

------------------------------------------------------------------------------
(* What the steps do to the heap. *)

(* reset: the timers of the batch are restarted or freed. *)
LEMMA ResetHeap ==
  ASSUME IInv, Reset
  PROVE  /\ BatchAddrs \subseteq Addr
         /\ \A a \in Addr \ BatchAddrs : heap'[a] = heap[a]
         /\ \A a \in BatchAddrs :
              IF Restarts(a)
                THEN /\ heap'[a].seq = heap[a].seq
                     /\ heap'[a].interval = heap[a].interval
                     /\ heap'[a].exp = since + heap[a].interval
                     /\ heap[a].interval > 0
                ELSE heap'[a] = Free
<1>1. BatchAddrs \subseteq Addr
  BY BatchIs DEF BatchAddrs
<1>2. heap \in [Addr -> Timers]
  BY DEF IInv, TypeOK, Timers
<1>3. heap' = [a \in Addr |->
             IF a \in {b \in BatchAddrs : Restarts(b)}
               THEN [heap[a] EXCEPT !.exp = since + heap[a].interval]
             ELSE IF a \in BatchAddrs THEN Free ELSE heap[a]]
  BY DEF Reset
<1>4. \A a \in Addr \ BatchAddrs : heap'[a] = heap[a]
  BY <1>3
<1>5. ASSUME NEW a \in BatchAddrs, Restarts(a)
      PROVE  /\ heap'[a].seq = heap[a].seq
             /\ heap'[a].interval = heap[a].interval
             /\ heap'[a].exp = since + heap[a].interval
             /\ heap[a].interval > 0
  <2>1. heap'[a] = [heap[a] EXCEPT !.exp = since + heap[a].interval]
    BY <1>1, <1>3, <1>5
  <2>2. heap[a] \in Timers
    BY <1>1, <1>2
  <2>3. heap[a].interval > 0
    BY <1>5 DEF Restarts
  <2> QED
    BY <2>1, <2>2, <2>3 DEF Timers
<1>6. ASSUME NEW a \in BatchAddrs, ~Restarts(a)
      PROVE  heap'[a] = Free
  BY <1>1, <1>3, <1>6
<1> QED
  BY <1>1, <1>4, <1>5, <1>6

(* cancelInLoop frees at most one timer, which was waiting. *)
LEMMA CancelHeap ==
  ASSUME IInv, NEW id, CancelInLoop(id)
  PROVE  \/ /\ UNCHANGED <<heap, timers, activeTimers>>
         \/ /\ <<id.addr, id.seq>> \in activeTimers /\ id.addr \in Addr
            /\ heap[id.addr].seq = id.seq /\ Allocated(id.addr)
            /\ heap'[id.addr] = Free
            /\ \A a \in Addr \ {id.addr} : heap'[a] = heap[a]
            /\ timers' = timers \ {<<heap[id.addr].exp, id.addr>>}
            /\ activeTimers' = activeTimers \ {<<id.addr, id.seq>>}
<1>1. CASE Mark(id)
  BY <1>1 DEF Mark
<1>2. CASE Erase(id)
  <2>1. <<id.addr, id.seq>> \in activeTimers
    BY <1>2 DEF Erase
  <2>2. id.addr \in Addr /\ id.seq \in Seqs
    BY <2>1 DEF IInv, TypeOK
  <2>3. heap[id.addr].seq = id.seq
    BY <2>1 DEF IInv, InSync
  <2>4. Allocated(id.addr)
    <3>1. id.seq # 0
      BY <2>2 DEF Seqs
    <3> QED
      BY <2>3, <3>1 DEF Allocated, Free
  <2>5. heap' = [heap EXCEPT ![id.addr] = Free]
    BY <1>2 DEF Erase
  <2>6. heap'[id.addr] = Free /\ \A a \in Addr \ {id.addr} : heap'[a] = heap[a]
    BY <2>2, <2>5 DEF IInv, TypeOK
  <2>7. /\ timers' = timers \ {<<heap[id.addr].exp, id.addr>>}
        /\ activeTimers' = activeTimers \ {<<id.addr, id.seq>>}
    BY <1>2 DEF Erase
  <2> QED
    BY <2>1, <2>2, <2>3, <2>4, <2>6, <2>7
<1> QED
  BY <1>1, <1>2 DEF CancelInLoop

(* Numbered is kept when timers are only freed or keep seq and interval. *)
LEMMA NumberedKept ==
  ASSUME IInv, UNCHANGED <<created, every>>, ran' \subseteq 1..created,
         \A a \in Addr : \/ heap'[a] = Free
                        \/ /\ heap'[a].seq = heap[a].seq
                           /\ heap'[a].interval = heap[a].interval
                           /\ Allocated(a)
  PROVE  Numbered'
<1>1. \A a \in Addr : Allocated(a)' =>
        /\ Allocated(a) /\ heap'[a].seq = heap[a].seq
        /\ heap'[a].interval = heap[a].interval
  BY DEF Allocated
<1>2. \A a \in Addr : Allocated(a)' =>
        /\ heap'[a].seq \in 1..created'
        /\ heap'[a].seq \in every' <=> heap'[a].interval > 0
  BY <1>1 DEF IInv, Numbered
<1>3. ASSUME NEW a \in Addr, NEW b \in Addr, Allocated(a)', heap'[a].seq = heap'[b].seq
      PROVE  a = b
  <2>1. heap[a].seq \in 1..created /\ created \in Nat
    BY <1>1, <1>3 DEF IInv, Numbered, TypeOK
  <2>2. heap'[b] # Free
    BY <1>1, <1>3, <2>1 DEF Free
  <2>3. heap[a].seq = heap[b].seq
    BY <1>1, <1>3, <2>2
  <2> QED
    BY <1>1, <1>3, <2>3 DEF IInv, Numbered
<1>4. ran' \subseteq 1..created' /\ every' \subseteq 1..created'
  BY DEF IInv, Numbered
<1> QED
  BY <1>2, <1>3, <1>4 DEF Numbered

(* new Timer gives it a number of its own. *)
LEMMA NumberedGrows ==
  ASSUME IInv, NEW a \in Addr, NEW d \in Delays, NEW i \in Intervals,
         Allocate(a, d, i), UNCHANGED ran
  PROVE  Numbered'
<1>1. /\ ~Allocated(a) /\ heap[a].seq = 0
      /\ created \in Nat /\ created' = created + 1
      /\ heap'[a].seq = created + 1 /\ heap'[a].interval = i /\ i \in Nat
      /\ \A b \in Addr \ {a} : heap'[b] = heap[b]
      /\ every' = IF i > 0 THEN every \cup {created + 1} ELSE every
  BY NewTimerTyped
<1>2. ran \subseteq 1..created /\ every \subseteq 1..created
  BY DEF IInv, Numbered
<1>3. ran' \subseteq 1..created' /\ every' \subseteq 1..created'
  BY <1>1, <1>2
<1>4. \A b \in Addr : b # a =>
        /\ heap'[b] = heap[b] /\ (Allocated(b)' <=> Allocated(b))
        /\ heap[b].seq # created + 1
  <2> SUFFICES ASSUME NEW b \in Addr, b # a
               PROVE  /\ heap'[b] = heap[b] /\ (Allocated(b)' <=> Allocated(b))
                      /\ heap[b].seq # created + 1
    OBVIOUS
  <2>1. heap'[b] = heap[b]
    BY <1>1
  <2>2. CASE Allocated(b)
    BY <1>1, <2>1, <2>2 DEF Allocated, IInv, Numbered
  <2>3. CASE ~Allocated(b)
    BY <1>1, <2>1, <2>3 DEF Allocated, Free
  <2> QED
    BY <2>2, <2>3
<1>5. ASSUME NEW b \in Addr, Allocated(b)'
      PROVE  /\ heap'[b].seq \in 1..created'
             /\ heap'[b].seq \in every' <=> heap'[b].interval > 0
  <2>1. CASE b = a
    BY <1>1, <1>2, <2>1
  <2>2. CASE b # a
    <3>1. /\ heap[b].seq \in 1..created
          /\ heap[b].seq \in every <=> heap[b].interval > 0
      BY <1>4, <1>5, <2>2 DEF IInv, Numbered
    <3>2. heap[b].seq \in every' <=> heap[b].seq \in every
      BY <1>1, <1>4, <2>2
    <3> QED
      BY <1>1, <1>4, <2>2, <3>1, <3>2
  <2> QED
    BY <2>1, <2>2
<1>6. ASSUME NEW b \in Addr, NEW c \in Addr, Allocated(b)', heap'[b].seq = heap'[c].seq
      PROVE  b = c
  <2>1. CASE b = a
    BY <1>1, <1>4, <1>6, <2>1
  <2>2. CASE b # a /\ c = a
    BY <1>1, <1>4, <1>6, <2>2
  <2>3. CASE b # a /\ c # a
    BY <1>4, <1>6, <2>3 DEF IInv, Numbered
  <2> QED
    BY <2>1, <2>2, <2>3
<1> QED
  BY <1>3, <1>5, <1>6 DEF Numbered

(* What the two sets hold, entry by entry. *)
LEMMA Entries ==
  ASSUME IInv
  PROVE  /\ \A t \in activeTimers :
              /\ t = <<t[1], t[2]>> /\ t[1] \in Addr /\ t[2] \in Seqs
              /\ Allocated(t[1]) /\ heap[t[1]].seq = t[2]
              /\ <<heap[t[1]].exp, t[1]>> \in timers
         /\ \A e \in timers :
              /\ e = <<e[1], e[2]>> /\ e[1] \in Nat /\ e[2] \in Addr
              /\ Allocated(e[2]) /\ heap[e[2]].exp = e[1]
              /\ <<e[2], heap[e[2]].seq>> \in activeTimers
<1>1. ASSUME NEW t \in activeTimers
      PROVE  /\ t = <<t[1], t[2]>> /\ t[1] \in Addr /\ t[2] \in Seqs
             /\ Allocated(t[1]) /\ heap[t[1]].seq = t[2]
             /\ <<heap[t[1]].exp, t[1]>> \in timers
  <2>1. t = <<t[1], t[2]>> /\ t[1] \in Addr /\ t[2] \in Seqs
    BY DEF IInv, TypeOK
  <2>2. heap[t[1]].seq = t[2] /\ <<heap[t[1]].exp, t[1]>> \in timers
    BY DEF IInv, InSync
  <2>3. t[2] # 0
    BY <2>1 DEF Seqs
  <2>4. Allocated(t[1])
    BY <2>2, <2>3 DEF Allocated, Free
  <2> QED
    BY <2>1, <2>2, <2>4
<1>2. ASSUME NEW e \in timers
      PROVE  /\ e = <<e[1], e[2]>> /\ e[1] \in Nat /\ e[2] \in Addr
             /\ Allocated(e[2]) /\ heap[e[2]].exp = e[1]
             /\ <<e[2], heap[e[2]].seq>> \in activeTimers
  <2>1. e = <<e[1], e[2]>> /\ e[1] \in Nat /\ e[2] \in Addr
    BY DEF IInv, TypeOK
  <2>2. PICK t \in activeTimers : e = <<heap[t[1]].exp, t[1]>>
    BY DEF IInv, InSync
  <2>3. e[2] = t[1] /\ e[1] = heap[t[1]].exp
    BY <2>2
  <2>4. <<t[1], heap[t[1]].seq>> = t
    BY <1>1
  <2> QED
    BY <1>1, <2>1, <2>3, <2>4
<1> QED
  BY <1>1, <1>2

LEMMA SyncAfter ==
  ASSUME \A t \in activeTimers' :
           heap'[t[1]].seq = t[2] /\ <<heap'[t[1]].exp, t[1]>> \in timers',
         \A e \in timers' : \E t \in activeTimers' : e = <<heap'[t[1]].exp, t[1]>>
  PROVE  InSync'
<1>1. timers' = {<<heap'[t[1]].exp, t[1]>> : t \in activeTimers'}
  OBVIOUS
<1> QED
  BY <1>1 DEF InSync

------------------------------------------------------------------------------
(* Numbered *)

LEMMA CancelNumbered ==
  ASSUME IInv, NEW id, CancelInLoop(id), UNCHANGED <<created, every, ran>>
  PROVE  Numbered'
<1>1. CASE UNCHANGED heap
  BY <1>1 DEF IInv, Numbered, Allocated
<1>2. CASE ~UNCHANGED heap
  <2>1. /\ id.addr \in Addr /\ heap'[id.addr] = Free
        /\ \A a \in Addr \ {id.addr} : heap'[a] = heap[a]
    BY <1>2, CancelHeap
  <2>2. ran' \subseteq 1..created
    BY DEF IInv, Numbered
  <2>3. ASSUME NEW a \in Addr
        PROVE  \/ heap'[a] = Free
               \/ /\ heap'[a].seq = heap[a].seq
                  /\ heap'[a].interval = heap[a].interval
                  /\ Allocated(a)
    BY <2>1 DEF Allocated
  <2> QED
    BY <2>2, <2>3, NumberedKept
<1> QED
  BY <1>1, <1>2

LEMMA NumberedStep ==
  ASSUME IInv, [Next]_vars
  PROVE  Numbered'
<1>1. CASE \E a \in Addr, d \in Delays, i \in Intervals :
             AddTimer(a, d, i) \/ \E t \in Adders : QueueAddTimer(t, a, d, i)
  BY <1>1, NumberedGrows DEF AddTimer, QueueAddTimer
<1>2. CASE \E id \in ids : Cancel(id)
  BY <1>2, CancelNumbered DEF Cancel
<1>3. CASE RunFunctor
  <2>1. CASE UNCHANGED heap
    BY <1>3, <2>1 DEF IInv, Numbered, Allocated, RunFunctor
  <2>2. CASE CancelInLoop(Head(inbox))
    <3>1. UNCHANGED <<created, every, ran>>
      BY <1>3 DEF RunFunctor
    <3> QED
      BY <2>2, <3>1, CancelNumbered
  <2> QED
    BY <1>3, <2>1, <2>2 DEF RunFunctor
<1>4. CASE RunTimer
  <2>1. next \in DOMAIN batch
    BY <1>4, BatchIs DEF RunTimer
  <2>2. batch[next][2] \in Addr /\ Allocated(batch[next][2])
    BY <2>1, BatchIs
  <2>3. heap[batch[next][2]].seq \in 1..created
    BY <2>2 DEF IInv, Numbered
  <2>4. ran' \subseteq 1..created'
    BY <1>4, <2>3 DEF RunTimer, IInv, Numbered
  <2> QED
    BY <1>4, <2>4 DEF RunTimer, IInv, Numbered, Allocated
<1>5. CASE Reset
  <2>1. UNCHANGED <<created, every>> /\ ran' \subseteq 1..created
    BY <1>5 DEF Reset, IInv, Numbered
  <2>2. ASSUME NEW a \in Addr
        PROVE  \/ heap'[a] = Free
               \/ /\ heap'[a].seq = heap[a].seq
                  /\ heap'[a].interval = heap[a].interval
                  /\ Allocated(a)
    <3>1. CASE a \notin BatchAddrs
      BY <1>5, <3>1, ResetHeap DEF Allocated
    <3>2. CASE a \in BatchAddrs
      <4>1. Allocated(a)
        BY <3>2 DEF BatchAddrs, IInv, BatchAllocated
      <4> QED
        BY <1>5, <3>2, <4>1, ResetHeap
    <3> QED
      BY <3>1, <3>2
  <2> QED
    BY <2>1, <2>2, NumberedKept
<1>6. CASE UNCHANGED <<heap, created, every, ran>>
  BY <1>6 DEF IInv, Numbered, Allocated
<1> QED
  BY <1>1, <1>2, <1>3, <1>4, <1>5, <1>6 DEF Next, LoopStep, ReadSequence,
     QueueCancel, Poll, HandleRead, CallbackReturns, Tick, vars

------------------------------------------------------------------------------
(* Where timers are: the sets, the batch, the queue. *)

Placed == InSync /\ BatchAllocated /\ BatchOnce /\ QueuedApart

(* The queue after a step that queues no timer. *)
LEMMA QueuedKept ==
  ASSUME IInv, NEW s \in {0, 1},
         \A k \in DOMAIN inbox' :
           k \in Int /\ k + s \in DOMAIN inbox /\ inbox'[k] = inbox[k + s],
         \A k \in DOMAIN inbox' : Adds(k + s) =>
           /\ heap'[inbox[k + s].addr].seq = inbox[k + s].seq
           /\ \A t \in activeTimers' : t[1] # inbox[k + s].addr
           /\ \A j \in DOMAIN batch' : batch'[j][2] # inbox[k + s].addr
  PROVE  QueuedApart'
<1> SUFFICES ASSUME NEW k \in DOMAIN inbox', Adds(k)'
             PROVE  /\ inbox'[k].addr \in Addr
                    /\ heap'[inbox'[k].addr] # Free
                    /\ heap'[inbox'[k].addr].seq = inbox'[k].seq
                    /\ \A t \in activeTimers' : t[1] # inbox'[k].addr
                    /\ \A j \in DOMAIN batch' : batch'[j][2] # inbox'[k].addr
                    /\ \A l \in DOMAIN inbox' :
                         Adds(l)' /\ inbox'[l].addr = inbox'[k].addr => l = k
  BY DEF QueuedApart, Allocated
<1>1. Adds(k + s) /\ inbox'[k] = inbox[k + s]
  BY DEF Adds
<1>2. /\ inbox[k + s].addr \in Addr /\ Allocated(inbox[k + s].addr)
      /\ heap[inbox[k + s].addr].seq = inbox[k + s].seq
  BY <1>1 DEF IInv, QueuedApart, Adds
<1>3. heap[inbox[k + s].addr].seq \in 1..created /\ created \in Nat
  BY <1>2 DEF IInv, Numbered, TypeOK
<1>4. heap'[inbox[k + s].addr] # Free
  BY <1>1, <1>2, <1>3 DEF Free
<1>5. ASSUME NEW l \in DOMAIN inbox', Adds(l)', inbox'[l].addr = inbox'[k].addr
      PROVE  l = k
  <2>1. Adds(l + s) /\ inbox[l + s].addr = inbox[k + s].addr
    BY <1>1, <1>5 DEF Adds
  <2>2. l + s = k + s /\ l \in Int /\ k \in Int
    BY <1>1, <2>1 DEF Adds, IInv, QueuedApart
  <2>3. s \in Int
    OBVIOUS
  <2>4. \A x, y, z \in Int : x + z = y + z => x = y
    OBVIOUS
  <2> QED
    BY <2>2, <2>3, <2>4, Zenon
<1> QED
  BY <1>1, <1>2, <1>4, <1>5

(* A timer that is in neither set nor in the batch is inserted. *)
LEMMA InsertPlaced ==
  ASSUME IInv, NEW a \in Addr, NEW tm, tm.seq \in Nat, tm.exp \in Nat,
         AddTimerInLoop(a, tm), UNCHANGED batch,
         heap'[a].seq = tm.seq, heap'[a].exp = tm.exp,
         \A b \in Addr \ {a} : heap'[b] = heap[b],
         \A t \in activeTimers : t[1] # a,
         \A k \in DOMAIN batch : batch[k][2] # a
  PROVE  InSync' /\ BatchAllocated'
<1>1. timers' = timers \cup {<<tm.exp, a>>}
      /\ activeTimers' = activeTimers \cup {<<a, tm.seq>>}
  BY DEF AddTimerInLoop
<1>2. \A t \in activeTimers :
        /\ t[1] \in Addr \ {a} /\ heap[t[1]].seq = t[2]
        /\ <<heap[t[1]].exp, t[1]>> \in timers
  BY Entries
<1>3. ASSUME NEW t \in activeTimers'
      PROVE  heap'[t[1]].seq = t[2] /\ <<heap'[t[1]].exp, t[1]>> \in timers'
  <2>1. CASE t \in activeTimers
    BY <1>1, <1>2, <2>1
  <2>2. CASE t = <<a, tm.seq>>
    BY <1>1, <2>2
  <2> QED
    BY <1>1, <2>1, <2>2
<1>4. ASSUME NEW e \in timers'
      PROVE  \E t \in activeTimers' : e = <<heap'[t[1]].exp, t[1]>>
  <2>1. CASE e = <<tm.exp, a>>
    <3>1. <<a, tm.seq>> \in activeTimers' /\ e = <<heap'[a].exp, a>>
      BY <1>1, <2>1
    <3> QED
      BY <3>1
  <2>2. CASE e \in timers
    <3> DEFINE t == <<e[2], heap[e[2]].seq>>
    <3>1. e = <<heap[e[2]].exp, e[2]>> /\ t \in activeTimers
      BY <2>2, Entries
    <3>2. t[1] = e[2] /\ heap'[e[2]] = heap[e[2]] /\ t \in activeTimers'
      BY <1>1, <1>2, <3>1
    <3> QED
      BY <3>1, <3>2
  <2> QED
    BY <1>1, <2>1, <2>2
<1>5. InSync'
  BY <1>3, <1>4, SyncAfter
<1>6. ASSUME NEW k \in DOMAIN batch
      PROVE  /\ Allocated(batch[k][2])' /\ heap'[batch[k][2]].exp = batch[k][1]
             /\ \A t \in activeTimers' : t[1] # batch[k][2]
  <2>1. batch[k][2] \in Addr \ {a}
    BY DEF IInv, TypeOK
  <2>2. heap'[batch[k][2]] = heap[batch[k][2]]
    BY <2>1
  <2>3. /\ Allocated(batch[k][2]) /\ heap[batch[k][2]].exp = batch[k][1]
        /\ \A t \in activeTimers : t[1] # batch[k][2]
    BY DEF IInv, BatchAllocated
  <2> QED
    BY <1>1, <2>1, <2>2, <2>3 DEF Allocated
<1>7. BatchAllocated'
  BY <1>6 DEF BatchAllocated, Allocated
<1> QED
  BY <1>5, <1>7

LEMMA CancelPlaced ==
  ASSUME IInv, NEW id, CancelInLoop(id), UNCHANGED batch
  PROVE  InSync' /\ BatchAllocated'
<1>1. CASE UNCHANGED <<heap, timers, activeTimers>>
  BY <1>1 DEF IInv, InSync, BatchAllocated, Allocated
<1>2. CASE ~UNCHANGED <<heap, timers, activeTimers>>
  <2>1. /\ <<id.addr, id.seq>> \in activeTimers /\ id.addr \in Addr
        /\ heap[id.addr].seq = id.seq
        /\ \A a \in Addr \ {id.addr} : heap'[a] = heap[a]
        /\ timers' = timers \ {<<heap[id.addr].exp, id.addr>>}
        /\ activeTimers' = activeTimers \ {<<id.addr, id.seq>>}
    BY <1>2, CancelHeap
  <2>2. ASSUME NEW t \in activeTimers'
        PROVE  heap'[t[1]].seq = t[2] /\ <<heap'[t[1]].exp, t[1]>> \in timers'
    <3>1. /\ t \in activeTimers /\ t = <<t[1], t[2]>> /\ t[1] \in Addr
          /\ heap[t[1]].seq = t[2] /\ <<heap[t[1]].exp, t[1]>> \in timers
      BY <2>1, Entries
    <3>2. t[1] # id.addr
      BY <2>1, <3>1
    <3> QED
      BY <2>1, <3>1, <3>2
  <2>3. ASSUME NEW e \in timers'
        PROVE  \E t \in activeTimers' : e = <<heap'[t[1]].exp, t[1]>>
    <3> DEFINE t == <<e[2], heap[e[2]].seq>>
    <3>1. e = <<heap[e[2]].exp, e[2]>> /\ t \in activeTimers /\ e[2] \in Addr
      BY <2>1, Entries
    <3>2. e[2] # id.addr
      BY <2>1, <3>1
    <3>3. t[1] = e[2] /\ heap'[e[2]] = heap[e[2]] /\ t \in activeTimers'
      BY <2>1, <3>1, <3>2
    <3> QED
      BY <3>1, <3>3
  <2>4. InSync'
    BY <2>2, <2>3, SyncAfter
  <2>5. ASSUME NEW k \in DOMAIN batch
        PROVE  /\ Allocated(batch[k][2])' /\ heap'[batch[k][2]].exp = batch[k][1]
               /\ \A t \in activeTimers' : t[1] # batch[k][2]
    <3>1. /\ Allocated(batch[k][2]) /\ heap[batch[k][2]].exp = batch[k][1]
          /\ \A t \in activeTimers : t[1] # batch[k][2]
          /\ batch[k][2] \in Addr
      BY DEF IInv, BatchAllocated, TypeOK
    <3>2. batch[k][2] # id.addr
      BY <2>1, <3>1
    <3> QED
      BY <2>1, <3>1, <3>2 DEF Allocated
  <2>6. BatchAllocated'
    BY <2>5 DEF BatchAllocated, Allocated
  <2> QED
    BY <2>4, <2>6
<1> QED
  BY <1>1, <1>2

(* Timers yet to be inserted are not what cancelInLoop takes away. *)
LEMMA CancelQueued ==
  ASSUME IInv, NEW id, CancelInLoop(id), UNCHANGED batch, NEW k, Adds(k)
  PROVE  /\ heap'[inbox[k].addr].seq = inbox[k].seq
         /\ \A t \in activeTimers' : t[1] # inbox[k].addr
         /\ \A j \in DOMAIN batch' : batch'[j][2] # inbox[k].addr
<1>1. /\ inbox[k].addr \in Addr /\ heap[inbox[k].addr].seq = inbox[k].seq
      /\ \A t \in activeTimers : t[1] # inbox[k].addr
      /\ \A j \in DOMAIN batch : batch[j][2] # inbox[k].addr
  BY DEF IInv, QueuedApart, Adds
<1>2. heap'[inbox[k].addr] = heap[inbox[k].addr] /\ activeTimers' \subseteq activeTimers
  <2>1. CASE UNCHANGED <<heap, timers, activeTimers>>
    BY <2>1
  <2>2. CASE ~UNCHANGED <<heap, timers, activeTimers>>
    <3>1. /\ <<id.addr, id.seq>> \in activeTimers
          /\ \A a \in Addr \ {id.addr} : heap'[a] = heap[a]
          /\ activeTimers' = activeTimers \ {<<id.addr, id.seq>>}
      BY <2>2, CancelHeap
    <3>2. id.addr # inbox[k].addr
      BY <1>1, <3>1
    <3> QED
      BY <1>1, <3>1, <3>2
  <2> QED
    BY <2>1, <2>2
<1> QED
  BY <1>1, <1>2

LEMMA HandleReadPlaced ==
  ASSUME IInv, HandleRead
  PROVE  Placed'
<1> DEFINE due == {e \in timers : e[1] <= now}
<1>1. /\ batch' \in Vectors(due) /\ timers' = timers \ due
      /\ activeTimers' = activeTimers \ {<<e[2], heap[e[2]].seq>> : e \in due}
      /\ UNCHANGED <<heap, inbox>>
  BY DEF HandleRead, GetExpired
<1>2. /\ \E n \in Nat : batch' \in [1..n -> due]
      /\ \A j, k \in DOMAIN batch' : j < k => Before(batch'[j], batch'[k])
  <2> HIDE DEF due
  <2> QED
    BY <1>1, VectorsAre
<1>3. ASSUME NEW k \in DOMAIN batch'
      PROVE  batch'[k] \in due /\ k \in Nat
  BY <1>2
<1>4. ASSUME NEW e \in due
      PROVE  /\ e \in timers /\ e = <<e[1], e[2]>> /\ e[2] \in Addr
             /\ Allocated(e[2]) /\ heap[e[2]].exp = e[1]
             /\ <<e[2], heap[e[2]].seq>> \in activeTimers
  BY Entries
<1>5. ASSUME NEW d \in due, NEW e \in timers, d[2] = e[2]
      PROVE  d = e
  <2>1. e = <<e[1], e[2]>> /\ heap[e[2]].exp = e[1]
    BY Entries
  <2>2. d = <<d[1], d[2]>> /\ heap[d[2]].exp = d[1]
    BY <1>4
  <2>3. d[1] = e[1]
    BY <1>5, <2>1, <2>2
  <2> QED
    BY <1>5, <2>1, <2>2, <2>3
<1> HIDE DEF due
<1>6. ASSUME NEW t \in activeTimers'
      PROVE  heap'[t[1]].seq = t[2] /\ <<heap'[t[1]].exp, t[1]>> \in timers'
  <2>1. /\ t \in activeTimers /\ t = <<t[1], t[2]>> /\ heap[t[1]].seq = t[2]
        /\ <<heap[t[1]].exp, t[1]>> \in timers
    BY <1>1, Entries
  <2>2. ASSUME <<heap[t[1]].exp, t[1]>> \in due
        PROVE  FALSE
    <3> DEFINE e == <<heap[t[1]].exp, t[1]>>
    <3>1. e[2] = t[1] /\ <<e[2], heap[e[2]].seq>> = t
      BY <2>1
    <3> HIDE DEF e
    <3>2. e \in due
      BY <2>2 DEF e
    <3> QED
      BY <1>1, <3>1, <3>2
  <2> QED
    BY <1>1, <2>1, <2>2
<1>7. ASSUME NEW e \in timers'
      PROVE  \E t \in activeTimers' : e = <<heap'[t[1]].exp, t[1]>>
  <2> DEFINE t == <<e[2], heap[e[2]].seq>>
  <2>1. e \in timers /\ e \notin due /\ e = <<heap[e[2]].exp, e[2]>> /\ t \in activeTimers
    BY <1>1, Entries
  <2>2. ASSUME NEW d \in due, t = <<d[2], heap[d[2]].seq>>
        PROVE  FALSE
    BY <1>5, <2>1, <2>2
  <2>3. t \in activeTimers' /\ t[1] = e[2]
    <3>1. t[1] = e[2]
      OBVIOUS
    <3> HIDE DEF t
    <3> QED
      BY <1>1, <2>1, <2>2, <3>1
  <2> QED
    BY <1>1, <2>1, <2>3
<1>8. InSync'
  BY <1>6, <1>7, SyncAfter
<1>9. ASSUME NEW k \in DOMAIN batch'
      PROVE  /\ heap'[batch'[k][2]] # Free /\ heap'[batch'[k][2]].exp = batch'[k][1]
             /\ \A t \in activeTimers' : t[1] # batch'[k][2]
  <2> DEFINE e == batch'[k]
  <2>1. e \in due
    BY <1>3
  <2> HIDE DEF e
  <2>2. ASSUME NEW t \in activeTimers', t[1] = e[2]
        PROVE  FALSE
    <3>1. t \in activeTimers
      BY <1>1
    <3>2. t = <<t[1], t[2]>> /\ heap[t[1]].seq = t[2]
      BY <3>1, Entries
    <3>3. t = <<e[2], heap[e[2]].seq>>
      BY <2>2, <3>2
    <3> QED
      BY <1>1, <2>1, <3>3
  <2>3. heap'[e[2]] # Free /\ heap'[e[2]].exp = e[1]
    BY <1>1, <1>4, <2>1 DEF Allocated
  <2> QED
    BY <2>2, <2>3 DEF e
<1>10. BatchAllocated'
  BY <1>9 DEF BatchAllocated, Allocated
<1>11. ASSUME NEW j \in DOMAIN batch', NEW k \in DOMAIN batch',
              batch'[j][2] = batch'[k][2]
       PROVE  j = k
  <2>1. batch'[j] = batch'[k] /\ batch'[j][1] \in Nat /\ batch'[j][2] \in Nat
    <3>1. batch'[j] \in due /\ batch'[k] \in due
      BY <1>3
    <3>2. batch'[j] \in timers /\ batch'[k] \in timers
      BY <1>4, <3>1
    <3>3. batch'[j][1] \in Nat /\ batch'[j][2] \in Addr
      BY <3>2 DEF IInv, TypeOK
    <3> QED
      BY <1>5, <1>11, <3>1, <3>2, <3>3, TimerQueueAssumption
  <2>2. ~Before(batch'[j], batch'[k]) /\ ~Before(batch'[k], batch'[j])
    <3>1. ~(batch'[j][1] < batch'[j][1]) /\ ~(batch'[j][2] < batch'[j][2])
      BY <2>1
    <3> QED
      BY <2>1, <3>1 DEF Before
  <2>3. ~(j < k) /\ ~(k < j) /\ j \in Nat /\ k \in Nat
    BY <1>2, <1>3, <2>2
  <2> QED
    BY <2>3
<1>12. BatchOnce'
  BY <1>11 DEF BatchOnce
<1>13. QueuedApart'
  <2>1. inbox \in Seq(Functors)
    BY DEF IInv, CallsTyped
  <2>2. \A k \in DOMAIN inbox' :
          k \in Int /\ k + 0 \in DOMAIN inbox /\ inbox'[k] = inbox[k + 0]
    BY <1>1, <2>1
  <2>3. ASSUME NEW k \in DOMAIN inbox', Adds(k + 0)
        PROVE  /\ heap'[inbox[k + 0].addr].seq = inbox[k + 0].seq
               /\ \A t \in activeTimers' : t[1] # inbox[k + 0].addr
               /\ \A j \in DOMAIN batch' : batch'[j][2] # inbox[k + 0].addr
    <3>1. /\ heap[inbox[k + 0].addr].seq = inbox[k + 0].seq
          /\ \A t \in activeTimers : t[1] # inbox[k + 0].addr
      BY <2>3 DEF IInv, QueuedApart, Adds
    <3>2. ASSUME NEW j \in DOMAIN batch', batch'[j][2] = inbox[k + 0].addr
          PROVE  FALSE
      <4> DEFINE e == batch'[j]
                 t == <<e[2], heap[e[2]].seq>>
      <4>1. e \in due
        BY <1>3
      <4>2. t \in activeTimers
        <5> HIDE DEF e
        <5> QED
          BY <1>4, <4>1
      <4>3. t[1] = inbox[k + 0].addr
        BY <3>2
      <4> HIDE DEF t
      <4> QED
        BY <3>1, <4>2, <4>3
    <3> QED
      BY <1>1, <3>1, <3>2
  <2> QED
    BY <2>2, <2>3, QueuedKept
<1> QED
  BY <1>8, <1>10, <1>12, <1>13 DEF Placed

LEMMA ResetPlaced ==
  ASSUME IInv, Reset
  PROVE  Placed'
<1> DEFINE again == {a \in BatchAddrs : Restarts(a)}
<1>1. /\ timers' = timers \cup {<<since + heap[a].interval, a>> : a \in again}
      /\ activeTimers' = activeTimers \cup {<<a, heap[a].seq>> : a \in again}
      /\ batch' = <<>> /\ UNCHANGED inbox
  BY DEF Reset
<1>2. /\ \A a \in Addr \ BatchAddrs : heap'[a] = heap[a]
      /\ \A a \in again : /\ heap'[a].seq = heap[a].seq
                          /\ heap'[a].exp = since + heap[a].interval
  BY ResetHeap
<1>3. \A t \in activeTimers : t[1] \in Addr \ BatchAddrs
  <2>1. \A k \in DOMAIN batch, t \in activeTimers : t[1] # batch[k][2]
    BY DEF IInv, BatchAllocated
  <2> QED
    BY <2>1, Entries DEF BatchAddrs
<1> HIDE DEF again
<1>4. ASSUME NEW t \in activeTimers'
      PROVE  heap'[t[1]].seq = t[2] /\ <<heap'[t[1]].exp, t[1]>> \in timers'
  <2>1. CASE t \in activeTimers
    <3>1. heap[t[1]].seq = t[2] /\ <<heap[t[1]].exp, t[1]>> \in timers
      BY <2>1, Entries
    <3>2. heap'[t[1]] = heap[t[1]]
      BY <1>2, <1>3, <2>1
    <3> QED
      BY <1>1, <3>1, <3>2
  <2>2. CASE t \notin activeTimers
    <3>1. PICK a \in again : t = <<a, heap[a].seq>>
      BY <1>1, <2>2
    <3>2. t[1] = a /\ t[2] = heap[a].seq
      BY <3>1
    <3>3. <<since + heap[a].interval, a>> \in timers'
      BY <1>1
    <3> QED
      BY <1>2, <3>2, <3>3
  <2> QED
    BY <2>1, <2>2
<1>5. ASSUME NEW e \in timers'
      PROVE  \E t \in activeTimers' : e = <<heap'[t[1]].exp, t[1]>>
  <2>1. CASE e \in timers
    <3> DEFINE t == <<e[2], heap[e[2]].seq>>
    <3>1. e = <<heap[e[2]].exp, e[2]>> /\ t \in activeTimers /\ t[1] = e[2]
      BY <2>1, Entries
    <3> HIDE DEF t
    <3>2. heap'[t[1]] = heap[t[1]]
      BY <1>2, <1>3, <3>1
    <3> QED
      BY <1>1, <3>1, <3>2
  <2>2. CASE e \notin timers
    <3>1. PICK a \in again : e = <<since + heap[a].interval, a>>
      BY <1>1, <2>2
    <3> DEFINE t == <<a, heap[a].seq>>
    <3>2. t \in activeTimers' /\ t[1] = a
      BY <1>1
    <3> HIDE DEF t
    <3>3. e = <<heap'[t[1]].exp, t[1]>>
      BY <1>2, <3>1, <3>2
    <3> QED
      BY <3>2, <3>3
  <2> QED
    BY <2>1, <2>2
<1>6. InSync'
  BY <1>4, <1>5, SyncAfter
<1>7. BatchAllocated' /\ BatchOnce'
  <2>1. DOMAIN batch' = {}
    BY <1>1
  <2> QED
    BY <2>1 DEF BatchAllocated, BatchOnce
<1>8. QueuedApart'
  <2>1. inbox \in Seq(Functors)
    BY DEF IInv, CallsTyped
  <2>2. \A k \in DOMAIN inbox' :
          k \in Int /\ k + 0 \in DOMAIN inbox /\ inbox'[k] = inbox[k + 0]
    BY <1>1, <2>1
  <2>3. ASSUME NEW k \in DOMAIN inbox', Adds(k + 0)
        PROVE  /\ heap'[inbox[k + 0].addr].seq = inbox[k + 0].seq
               /\ \A t \in activeTimers' : t[1] # inbox[k + 0].addr
               /\ \A j \in DOMAIN batch' : batch'[j][2] # inbox[k + 0].addr
    <3>1. /\ heap[inbox[k + 0].addr].seq = inbox[k + 0].seq
          /\ inbox[k + 0].addr \in Addr
          /\ \A t \in activeTimers : t[1] # inbox[k + 0].addr
          /\ \A j \in DOMAIN batch : batch[j][2] # inbox[k + 0].addr
      BY <2>3 DEF IInv, QueuedApart, Adds
    <3>2. inbox[k + 0].addr \notin BatchAddrs
      BY <3>1 DEF BatchAddrs
    <3>3. again \subseteq BatchAddrs
      BY DEF again
    <3>4. ASSUME NEW t \in activeTimers', t[1] = inbox[k + 0].addr
          PROVE  FALSE
      <4>1. PICK a \in again : t = <<a, heap[a].seq>>
        BY <1>1, <3>1, <3>4
      <4> QED
        BY <3>2, <3>3, <3>4, <4>1
    <3> QED
      BY <1>1, <1>2, <3>1, <3>2, <3>4
  <2> QED
    BY <2>2, <2>3, QueuedKept
<1> QED
  BY <1>6, <1>7, <1>8 DEF Placed

(* A free address is in none of the places a timer can be. *)
LEMMA FreeNowhere ==
  ASSUME IInv, NEW a \in Addr, ~Allocated(a)
  PROVE  /\ \A t \in activeTimers : t[1] # a
         /\ \A k \in DOMAIN batch : batch[k][2] # a
         /\ \A k \in DOMAIN inbox : Adds(k) => inbox[k].addr # a
<1>1. \A t \in activeTimers : t[1] # a
  BY Entries
<1>2. \A k \in DOMAIN batch : batch[k][2] # a
  BY DEF IInv, BatchAllocated
<1>3. \A k \in DOMAIN inbox : Adds(k) => inbox[k].addr # a
  BY DEF IInv, QueuedApart
<1> QED
  BY <1>1, <1>2, <1>3

(* The queue after a step that leaves it. *)
LEMMA QueueStays ==
  ASSUME IInv, UNCHANGED <<inbox, batch>>,
         \A k : Adds(k) => /\ heap'[inbox[k].addr].seq = inbox[k].seq
                           /\ \A t \in activeTimers' : t[1] # inbox[k].addr
  PROVE  QueuedApart'
<1>1. inbox \in Seq(Functors)
  BY DEF IInv, CallsTyped
<1>2. \A k \in DOMAIN inbox' :
        k \in Int /\ k + 0 = k /\ k + 0 \in DOMAIN inbox /\ inbox'[k] = inbox[k + 0]
  BY <1>1
<1>3. ASSUME NEW k \in DOMAIN inbox', Adds(k + 0)
      PROVE  /\ heap'[inbox[k + 0].addr].seq = inbox[k + 0].seq
             /\ \A t \in activeTimers' : t[1] # inbox[k + 0].addr
             /\ \A j \in DOMAIN batch' : batch'[j][2] # inbox[k + 0].addr
  <2>1. \A j \in DOMAIN batch : batch[j][2] # inbox[k + 0].addr
    BY <1>3 DEF IInv, QueuedApart, Adds
  <2> QED
    BY <1>3, <2>1
<1> QED
  BY <1>2, <1>3, QueuedKept

LEMMA AddTimerPlaced ==
  ASSUME IInv, NEW a \in Addr, NEW d \in Delays, NEW i \in Intervals,
         AddTimer(a, d, i)
  PROVE  Placed'
<1> DEFINE tm == NewTimer(d, i)
<1>1. Allocate(a, d, i) /\ AddTimerInLoop(a, tm) /\ UNCHANGED <<inbox, batch>>
  BY DEF AddTimer
<1>2. /\ ~Allocated(a) /\ heap'[a] = tm /\ tm.seq = created + 1 /\ tm.exp \in Nat
      /\ created \in Nat
      /\ \A b \in Addr \ {a} : heap'[b] = heap[b]
  BY <1>1, NewTimerTyped
<1>3. /\ \A t \in activeTimers : t[1] # a
      /\ \A k \in DOMAIN batch : batch[k][2] # a
      /\ \A k \in DOMAIN inbox : Adds(k) => inbox[k].addr # a
  BY <1>2, FreeNowhere
<1>4. activeTimers' = activeTimers \cup {<<a, tm.seq>>}
  BY <1>1 DEF AddTimerInLoop
<1> HIDE DEF tm
<1>5. InSync' /\ BatchAllocated'
  <2>1. tm.seq \in Nat /\ heap'[a].seq = tm.seq /\ heap'[a].exp = tm.exp
    BY <1>2
  <2> QED
    BY <1>1, <1>2, <1>3, <2>1, InsertPlaced
<1>6. BatchOnce'
  BY <1>1 DEF IInv, BatchOnce
<1>7. QueuedApart'
  <2>1. ASSUME NEW k, Adds(k)
        PROVE  /\ heap'[inbox[k].addr].seq = inbox[k].seq
               /\ \A t \in activeTimers' : t[1] # inbox[k].addr
    <3>1. /\ inbox[k].addr \in Addr /\ heap[inbox[k].addr].seq = inbox[k].seq
          /\ \A t \in activeTimers : t[1] # inbox[k].addr
      BY <2>1 DEF IInv, QueuedApart, Adds
    <3>2. inbox[k].addr # a
      BY <1>3, <2>1 DEF Adds
    <3> QED
      BY <1>2, <1>4, <3>1, <3>2
  <2> QED
    BY <1>1, <2>1, QueueStays
<1> QED
  BY <1>5, <1>6, <1>7 DEF Placed

LEMMA QueueAddTimerPlaced ==
  ASSUME IInv, NEW t \in Adders, NEW a \in Addr, NEW d \in Delays,
         NEW i \in Intervals, QueueAddTimer(t, a, d, i)
  PROVE  Placed'
<1> DEFINE n == Len(inbox)
           f == [op |-> "add", addr |-> a, seq |-> created + 1, of |-> created + 1]
<1>1. /\ Allocate(a, d, i) /\ inbox' = Append(inbox, f)
      /\ UNCHANGED <<timers, activeTimers, batch>>
  BY DEF QueueAddTimer
<1>2. /\ ~Allocated(a) /\ heap'[a].seq = created + 1 /\ created \in Nat
      /\ \A b \in Addr \ {a} : heap'[b] = heap[b]
  BY <1>1, NewTimerTyped
<1>3. /\ \A e \in activeTimers : e[1] # a
      /\ \A k \in DOMAIN batch : batch[k][2] # a
      /\ \A k \in DOMAIN inbox : Adds(k) => inbox[k].addr # a
  BY <1>2, FreeNowhere
<1>4. InSync'
  <2>1. \A e \in activeTimers : heap'[e[1]] = heap[e[1]]
    BY <1>2, <1>3, Entries
  <2>2. ASSUME NEW e \in activeTimers'
        PROVE  heap'[e[1]].seq = e[2] /\ <<heap'[e[1]].exp, e[1]>> \in timers'
    BY <1>1, <2>1, Entries
  <2>3. ASSUME NEW e \in timers'
        PROVE  \E u \in activeTimers' : e = <<heap'[u[1]].exp, u[1]>>
    <3> DEFINE u == <<e[2], heap[e[2]].seq>>
    <3>1. e = <<heap[e[2]].exp, e[2]>> /\ u \in activeTimers /\ u[1] = e[2]
      BY <1>1, Entries
    <3> HIDE DEF u
    <3>2. e = <<heap'[u[1]].exp, u[1]>>
      BY <2>1, <3>1
    <3> QED
      BY <1>1, <3>1, <3>2
  <2> QED
    BY <2>2, <2>3, SyncAfter
<1>5. BatchAllocated'
  <2>1. ASSUME NEW k \in DOMAIN batch
        PROVE  heap'[batch[k][2]] = heap[batch[k][2]]
    BY <1>2, <1>3 DEF IInv, TypeOK
  <2> QED
    BY <1>1, <2>1 DEF IInv, BatchAllocated, Allocated
<1>6. BatchOnce'
  BY <1>1 DEF IInv, BatchOnce
<1>7. /\ n \in Nat /\ DOMAIN inbox = 1..n /\ DOMAIN inbox' = 1..n + 1
      /\ \A k \in 1..n : inbox'[k] = inbox[k]
      /\ inbox'[n + 1] = f
  BY <1>1 DEF IInv, CallsTyped
<1>8. \A k \in DOMAIN inbox' : k \in DOMAIN inbox \/ k = n + 1
  BY <1>7
<1> HIDE DEF n
<1>9. ASSUME NEW k \in DOMAIN inbox', Adds(k)'
      PROVE  /\ inbox'[k].addr \in Addr
             /\ heap'[inbox'[k].addr] # Free
             /\ heap'[inbox'[k].addr].seq = inbox'[k].seq
             /\ \A e \in activeTimers' : e[1] # inbox'[k].addr
             /\ \A j \in DOMAIN batch' : batch'[j][2] # inbox'[k].addr
             /\ \A l \in DOMAIN inbox' :
                  Adds(l)' /\ inbox'[l].addr = inbox'[k].addr => l = k
  <2>1. CASE k = n + 1
    <3>1. inbox'[k].addr = a /\ inbox'[k].seq = created + 1
      BY <1>7, <2>1
    <3>2. heap'[a] # Free
      BY <1>2 DEF Free
    <3>3. ASSUME NEW l \in DOMAIN inbox', Adds(l)', inbox'[l].addr = a
          PROVE  l = k
      <4>1. ASSUME l \in DOMAIN inbox
            PROVE  FALSE
        <5>1. inbox'[l] = inbox[l] /\ Adds(l)
          BY <1>7, <3>3, <4>1 DEF Adds
        <5> QED
          BY <1>3, <3>3, <4>1, <5>1
      <4> QED
        BY <1>8, <2>1, <4>1
    <3> QED
      BY <1>1, <1>2, <1>3, <3>1, <3>2, <3>3
  <2>2. CASE k \in DOMAIN inbox
    <3>1. inbox'[k] = inbox[k] /\ Adds(k)
      BY <1>7, <1>9, <2>2 DEF Adds
    <3>2. /\ inbox[k].addr \in Addr /\ inbox[k].addr # a
          /\ heap[inbox[k].addr] # Free
          /\ heap[inbox[k].addr].seq = inbox[k].seq
          /\ \A e \in activeTimers : e[1] # inbox[k].addr
          /\ \A j \in DOMAIN batch : batch[j][2] # inbox[k].addr
      BY <1>3, <2>2, <3>1 DEF IInv, QueuedApart, Allocated
    <3>3. ASSUME NEW l \in DOMAIN inbox', Adds(l)', inbox'[l].addr = inbox[k].addr
          PROVE  l = k
      <4>1. l \in DOMAIN inbox
        BY <1>7, <1>8, <3>2, <3>3
      <4>2. inbox'[l] = inbox[l] /\ Adds(l)
        BY <1>7, <3>3, <4>1 DEF Adds
      <4> QED
        BY <2>2, <3>1, <3>3, <4>1, <4>2 DEF IInv, QueuedApart
    <3>4. heap'[inbox[k].addr] = heap[inbox[k].addr]
      BY <1>2, <3>2
    <3> QED
      BY <1>1, <3>1, <3>2, <3>3, <3>4
  <2> QED
    BY <1>8, <2>1, <2>2
<1>10. QueuedApart'
  BY <1>9 DEF QueuedApart, Allocated
<1> QED
  BY <1>4, <1>5, <1>6, <1>10 DEF Placed

LEMMA QueueCancelPlaced ==
  ASSUME IInv, NEW t \in Threads, NEW id \in ids, QueueCancel(t, id)
  PROVE  Placed'
<1> DEFINE n == Len(inbox)
           f == [op |-> "cancel", addr |-> id.addr, seq |-> id.seq, of |-> id.of]
<1>1. /\ inbox' = Append(inbox, f)
      /\ UNCHANGED <<heap, timers, activeTimers, batch>>
  BY DEF QueueCancel
<1>2. InSync' /\ BatchAllocated' /\ BatchOnce'
  BY <1>1 DEF IInv, InSync, BatchAllocated, BatchOnce, Allocated
<1>3. /\ n \in Nat /\ DOMAIN inbox = 1..n /\ DOMAIN inbox' = 1..n + 1
      /\ \A k \in 1..n : inbox'[k] = inbox[k]
      /\ inbox'[n + 1] = f
  BY <1>1 DEF IInv, CallsTyped
<1>4. ASSUME NEW k, Adds(k)'
      PROVE  Adds(k) /\ k \in DOMAIN inbox /\ inbox'[k] = inbox[k]
  <2>1. k # n + 1
    BY <1>3, <1>4 DEF Adds
  <2>2. k \in 1..n
    BY <1>3, <1>4, <2>1 DEF Adds
  <2> QED
    BY <1>3, <1>4, <2>2 DEF Adds
<1> HIDE DEF n, f
<1>5. ASSUME NEW k \in DOMAIN inbox', Adds(k)'
      PROVE  /\ inbox'[k].addr \in Addr
             /\ heap'[inbox'[k].addr] # Free
             /\ heap'[inbox'[k].addr].seq = inbox'[k].seq
             /\ \A e \in activeTimers' : e[1] # inbox'[k].addr
             /\ \A j \in DOMAIN batch' : batch'[j][2] # inbox'[k].addr
             /\ \A l \in DOMAIN inbox' :
                  Adds(l)' /\ inbox'[l].addr = inbox'[k].addr => l = k
  BY <1>1, <1>4, <1>5 DEF IInv, QueuedApart, Allocated
<1>6. QueuedApart'
  BY <1>5 DEF QueuedApart, Allocated
<1> QED
  BY <1>2, <1>6 DEF Placed

LEMMA CancelStepPlaced ==
  ASSUME IInv, NEW id \in ids, Cancel(id)
  PROVE  Placed'
<1>1. CancelInLoop(id) /\ UNCHANGED <<inbox, batch>>
  BY DEF Cancel
<1>2. InSync' /\ BatchAllocated'
  BY <1>1, CancelPlaced
<1>3. BatchOnce'
  BY <1>1 DEF IInv, BatchOnce
<1>4. QueuedApart'
  BY <1>1, CancelQueued, QueueStays
<1> QED
  BY <1>2, <1>3, <1>4 DEF Placed

LEMMA RunFunctorPlaced ==
  ASSUME IInv, RunFunctor
  PROVE  Placed'
<1> DEFINE f == inbox[1]
<1>1. /\ inbox # <<>> /\ inbox' = Tail(inbox) /\ UNCHANGED batch
      /\ Head(inbox) = f
  BY DEF RunFunctor, IInv, CallsTyped
<1>2. /\ 1 \in DOMAIN inbox /\ f \in Functors
      /\ \A k \in DOMAIN inbox' :
           k \in Int /\ k + 1 \in DOMAIN inbox /\ inbox'[k] = inbox[k + 1] /\ k + 1 # 1
  BY <1>1 DEF IInv, CallsTyped
<1>3. BatchOnce'
  BY <1>1 DEF IInv, BatchOnce
<1>4. CASE /\ f.op = "add"
           /\ AddTimerInLoop(f.addr, heap[f.addr])
           /\ UNCHANGED <<heap, cancelingTimers, cancelled>>
  <2> DEFINE a == f.addr
  <2>1. Adds(1)
    BY <1>2, <1>4 DEF Adds
  <2>2. /\ a \in Addr /\ Allocated(a) /\ heap[a].seq = f.seq
        /\ \A t \in activeTimers : t[1] # a
        /\ \A j \in DOMAIN batch : batch[j][2] # a
        /\ \A l \in DOMAIN inbox : Adds(l) /\ inbox[l].addr = a => l = 1
    BY <1>2, <2>1 DEF IInv, QueuedApart
  <2>3. heap[a].seq \in Nat /\ heap[a].exp \in Nat
    <3> HIDE DEF f
    <3>1. heap[a] \in Timers
      BY <2>2 DEF IInv, TypeOK, Timers
    <3> QED
      BY <3>1 DEF Timers
  <2>4. activeTimers' = activeTimers \cup {<<a, heap[a].seq>>} /\ heap' = heap
        /\ AddTimerInLoop(a, heap[a])
    BY <1>4 DEF AddTimerInLoop
  <2> HIDE DEF a
  <2>5. InSync' /\ BatchAllocated'
    <3>1. /\ heap'[a].seq = heap[a].seq /\ heap'[a].exp = heap[a].exp
          /\ \A b \in Addr \ {a} : heap'[b] = heap[b]
      BY <2>4
    <3> QED
      BY <1>1, <2>2, <2>3, <2>4, <3>1, InsertPlaced
  <2>6. ASSUME NEW k \in DOMAIN inbox', Adds(k + 1)
        PROVE  /\ heap'[inbox[k + 1].addr].seq = inbox[k + 1].seq
               /\ \A t \in activeTimers' : t[1] # inbox[k + 1].addr
               /\ \A j \in DOMAIN batch' : batch'[j][2] # inbox[k + 1].addr
    <3>1. /\ heap[inbox[k + 1].addr].seq = inbox[k + 1].seq
          /\ \A t \in activeTimers : t[1] # inbox[k + 1].addr
          /\ \A j \in DOMAIN batch : batch[j][2] # inbox[k + 1].addr
      BY <2>6 DEF IInv, QueuedApart, Adds
    <3>2. inbox[k + 1].addr # a
      BY <1>2, <2>2, <2>6
    <3> QED
      BY <1>1, <2>4, <3>1, <3>2
  <2>7. QueuedApart'
    BY <1>2, <2>6, QueuedKept
  <2> QED
    BY <1>3, <2>5, <2>7 DEF Placed
<1>5. CASE CancelInLoop(f)
  <2> HIDE DEF f
  <2>1. InSync' /\ BatchAllocated'
    BY <1>1, <1>5, CancelPlaced
  <2>2. ASSUME NEW k \in DOMAIN inbox', Adds(k + 1)
        PROVE  /\ heap'[inbox[k + 1].addr].seq = inbox[k + 1].seq
               /\ \A t \in activeTimers' : t[1] # inbox[k + 1].addr
               /\ \A j \in DOMAIN batch' : batch'[j][2] # inbox[k + 1].addr
    <3> DEFINE j == k + 1
    <3>1. Adds(j)
      BY <2>2
    <3> HIDE DEF j
    <3>2. /\ heap'[inbox[j].addr].seq = inbox[j].seq
          /\ \A t \in activeTimers' : t[1] # inbox[j].addr
          /\ \A l \in DOMAIN batch' : batch'[l][2] # inbox[j].addr
      BY <1>1, <1>5, <3>1, CancelQueued
    <3> QED
      BY <3>2 DEF j
  <2>3. QueuedApart'
    BY <1>2, <2>2, QueuedKept
  <2> QED
    BY <1>3, <2>1, <2>3 DEF Placed
<1> QED
  BY <1>1, <1>4, <1>5 DEF RunFunctor

LEMMA PlacedStep ==
  ASSUME IInv, [Next]_vars
  PROVE  Placed'
<1>1. CASE \E a \in Addr, d \in Delays, i \in Intervals :
             AddTimer(a, d, i) \/ \E t \in Adders : QueueAddTimer(t, a, d, i)
  BY <1>1, AddTimerPlaced, QueueAddTimerPlaced
<1>2. CASE \E id \in ids : Cancel(id) \/ \E t \in Threads : QueueCancel(t, id)
  BY <1>2, CancelStepPlaced, QueueCancelPlaced
<1>3. CASE RunFunctor
  BY <1>3, RunFunctorPlaced
<1>4. CASE HandleRead
  BY <1>4, HandleReadPlaced
<1>5. CASE Reset
  BY <1>5, ResetPlaced
<1>6. CASE UNCHANGED <<heap, timers, activeTimers, batch, inbox>>
  BY <1>6 DEF IInv, Placed, InSync, BatchAllocated, BatchOnce, QueuedApart, Adds,
     Allocated
<1> QED
  BY <1>1, <1>2, <1>3, <1>4, <1>5, <1>6 DEF Next, LoopStep, ReadSequence, Poll,
     RunTimer, CallbackReturns, Tick, vars

------------------------------------------------------------------------------
(* Which callbacks have run. *)

LEMMA RanKept ==
  ASSUME IInv, UNCHANGED <<batch, next, ran>>, every \subseteq every',
         \A k \in DOMAIN batch : heap'[batch[k][2]] = heap[batch[k][2]],
         \A a \in Addr : heap'[a] \in {Free, heap[a]} \/ heap'[a].seq \notin ran
  PROVE  RanInBatch'
<1>1. 1..next - 1 \subseteq DOMAIN batch
  BY DEF IInv, TypeOK
<1>2. \A k \in 1..next' - 1 : heap'[batch'[k][2]].seq \in ran'
  BY <1>1 DEF IInv, RanInBatch
<1>3. ASSUME NEW a \in Addr, heap'[a] # Free, heap'[a].seq \in ran' \ every'
      PROVE  \E k \in 1..next' - 1 : batch'[k][2] = a
  <2>1. heap'[a] = heap[a] /\ heap[a].seq \in ran \ every
    BY <1>3
  <2> QED
    BY <1>3, <2>1 DEF IInv, RanInBatch, Allocated
<1> QED
  BY <1>2, <1>3 DEF RanInBatch, Allocated

LEMMA AllocateRan ==
  ASSUME IInv, NEW a \in Addr, NEW d \in Delays, NEW i \in Intervals,
         Allocate(a, d, i), UNCHANGED <<batch, next, ran>>
  PROVE  RanInBatch'
<1>1. /\ ~Allocated(a) /\ created \in Nat
      /\ heap'[a].seq = created + 1
      /\ \A b \in Addr \ {a} : heap'[b] = heap[b]
      /\ every \subseteq every'
  BY NewTimerTyped
<1>2. \A k \in DOMAIN batch : heap'[batch[k][2]] = heap[batch[k][2]]
  <2>1. \A k \in DOMAIN batch : batch[k][2] # a
    BY <1>1, FreeNowhere
  <2>2. \A k \in DOMAIN batch : batch[k][2] \in Addr
    BY DEF IInv, TypeOK
  <2> QED
    BY <1>1, <2>1, <2>2
<1>3. created + 1 \notin ran
  BY <1>1 DEF IInv, Numbered
<1>4. \A b \in Addr : heap'[b] \in {Free, heap[b]} \/ heap'[b].seq \notin ran
  BY <1>1, <1>3
<1> QED
  BY <1>1, <1>2, <1>4, RanKept

LEMMA CancelRan ==
  ASSUME IInv, NEW id, CancelInLoop(id), UNCHANGED <<batch, next, ran, every>>
  PROVE  RanInBatch'
<1>1. CASE UNCHANGED <<heap, timers, activeTimers>>
  BY <1>1, RanKept
<1>2. CASE ~UNCHANGED <<heap, timers, activeTimers>>
  <2>1. /\ <<id.addr, id.seq>> \in activeTimers /\ id.addr \in Addr
        /\ heap'[id.addr] = Free
        /\ \A a \in Addr \ {id.addr} : heap'[a] = heap[a]
    BY <1>2, CancelHeap
  <2>2. \A k \in DOMAIN batch : batch[k][2] \in Addr /\ batch[k][2] # id.addr
    BY <2>1 DEF IInv, TypeOK, BatchAllocated
  <2>3. \A k \in DOMAIN batch : heap'[batch[k][2]] = heap[batch[k][2]]
    BY <2>1, <2>2
  <2>4. \A a \in Addr : heap'[a] \in {Free, heap[a]} \/ heap'[a].seq \notin ran
    BY <2>1
  <2> QED
    BY <2>3, <2>4, RanKept
<1> QED
  BY <1>1, <1>2

LEMMA RanStep ==
  ASSUME IInv, [Next]_vars
  PROVE  RanInBatch'
<1>1. CASE \E a \in Addr, d \in Delays, i \in Intervals :
             AddTimer(a, d, i) \/ \E t \in Adders : QueueAddTimer(t, a, d, i)
  BY <1>1, AllocateRan DEF AddTimer, QueueAddTimer
<1>2. CASE \E id \in ids : Cancel(id)
  BY <1>2, CancelRan DEF Cancel
<1>3. CASE RunFunctor
  <2>1. CASE UNCHANGED heap
    BY <1>3, <2>1, RanKept DEF RunFunctor
  <2>2. CASE CancelInLoop(Head(inbox))
    BY <1>3, <2>2, CancelRan DEF RunFunctor
  <2> QED
    BY <1>3, <2>1, <2>2 DEF RunFunctor
<1>4. CASE RunTimer
  <2>1. /\ next' = next + 1 /\ ran' = ran \cup {heap[batch[next][2]].seq}
        /\ UNCHANGED <<heap, batch, every>>
    BY <1>4 DEF RunTimer
  <2>2. next \in DOMAIN batch /\ next \in Nat
    BY <1>4, BatchIs DEF RunTimer
  <2>3. \A k : k \in 1..next' - 1 <=> k \in 1..next - 1 \/ k = next
    <3>1. next' - 1 = next /\ 1 <= next
      BY <2>1, BatchIs
    <3>2. \A k : k \in 1..next <=> k \in 1..next - 1 \/ k = next
      BY ONLY <2>2, <3>1
    <3> QED
      BY <3>1, <3>2
  <2>4. \A k \in 1..next' - 1 : heap'[batch'[k][2]].seq \in ran'
    BY <2>1, <2>3 DEF IInv, RanInBatch
  <2>5. ASSUME NEW a \in Addr, heap'[a] # Free, heap'[a].seq \in ran' \ every'
        PROVE  \E k \in 1..next' - 1 : batch'[k][2] = a
    <3>1. CASE heap[a].seq \in ran
      BY <2>1, <2>3, <2>5, <3>1 DEF IInv, RanInBatch, Allocated
    <3>2. CASE heap[a].seq \notin ran
      <4>1. heap[a].seq = heap[batch[next][2]].seq /\ batch[next][2] \in Addr
        BY <2>1, <2>2, <2>5, <3>2, BatchIs
      <4>2. batch[next][2] = a
        BY <2>1, <2>5, <4>1 DEF IInv, Numbered, Allocated
      <4> QED
        BY <2>1, <2>3, <4>2
    <3> QED
      BY <3>1, <3>2
  <2> QED
    BY <2>4, <2>5 DEF RanInBatch, Allocated
<1>5. CASE HandleRead
  <2>1. next' = 1 /\ UNCHANGED <<heap, ran, every>>
    BY <1>5 DEF HandleRead
  <2>2. next = 1 /\ 1..next - 1 = {}
    BY <1>5 DEF HandleRead, IInv, TypeOK
  <2>3. 1..next' - 1 = {}
    BY <2>1
  <2> QED
    BY <2>1, <2>2, <2>3 DEF IInv, RanInBatch, Allocated
<1>6. CASE Reset
  <2>1. next' = 1 /\ UNCHANGED <<ran, every>>
    BY <1>6 DEF Reset
  <2>2. 1..next' - 1 = {} /\ 1..next - 1 \subseteq DOMAIN batch
    BY <2>1 DEF IInv, TypeOK
  <2>3. ASSUME NEW a \in Addr, heap'[a] # Free, heap'[a].seq \in ran \ every
        PROVE  FALSE
    <3>1. CASE a \notin BatchAddrs
      <4>1. heap'[a] = heap[a]
        BY <1>6, <3>1, ResetHeap
      <4> QED
        BY <2>2, <2>3, <3>1, <4>1 DEF IInv, RanInBatch, Allocated, BatchAddrs
    <3>2. CASE a \in BatchAddrs
      <4>1. heap'[a].seq = heap[a].seq /\ heap[a].interval > 0
        BY <1>6, <2>3, <3>2, ResetHeap
      <4>2. Allocated(a)
        BY <3>2 DEF BatchAddrs, IInv, BatchAllocated
      <4> QED
        BY <2>3, <4>1, <4>2 DEF IInv, Numbered
    <3> QED
      BY <3>1, <3>2
  <2> QED
    BY <2>1, <2>2, <2>3 DEF RanInBatch, Allocated
<1>7. CASE UNCHANGED <<heap, batch, next, ran, every>>
  BY <1>7 DEF IInv, RanInBatch, Allocated
<1> QED
  BY <1>1, <1>2, <1>3, <1>4, <1>5, <1>6, <1>7 DEF Next, LoopStep, ReadSequence,
     QueueCancel, Poll, CallbackReturns, Tick, vars

------------------------------------------------------------------------------
(* The timerfd *)

(* addTimerInLoop arms it anew only for an earlier timer. *)
LEMMA InsertArmed ==
  ASSUME IInv, NEW a \in Addr, NEW tm, tm.exp \in Nat, AddTimerInLoop(a, tm),
         UNCHANGED <<pc, now>>
  PROVE  Armed'
<1> SUFFICES ASSUME pc = "user", NEW e \in timers'
             PROVE  deadline' # Never /\ deadline' <= Later(e[1], now + 1)
  BY DEF Armed
<1>1. /\ timers' = timers \cup {<<tm.exp, a>>}
      /\ deadline' = IF Earliest(tm.exp) THEN Arm(tm.exp) ELSE deadline
  BY DEF AddTimerInLoop
<1>2. now \in Nat /\ deadline \in Nat \cup {Never}
      /\ \A f \in timers : /\ f[1] \in Nat /\ deadline # Never
                           /\ deadline <= Later(f[1], now + 1)
  BY DEF IInv, TypeOK, Armed
<1>3. e[1] \in Nat /\ (e \in timers \/ e[1] = tm.exp)
  BY <1>1, <1>2
<1>4. CASE Earliest(tm.exp)
  <2>1. tm.exp <= e[1]
    BY <1>3, <1>4 DEF Earliest
  <2>2. deadline' = Later(tm.exp, now + 1)
    BY <1>1, <1>4 DEF Arm
  <2> QED
    BY <1>2, <1>3, <2>1, <2>2 DEF Later, Never
<1>5. CASE ~Earliest(tm.exp)
  <2>1. PICK f \in timers : f[1] <= tm.exp
    BY <1>2, <1>5 DEF Earliest
  <2>2. deadline' = deadline /\ deadline # Never /\ deadline <= Later(f[1], now + 1)
    BY <1>1, <1>2, <1>5
  <2>3. CASE e \in timers
    BY <1>2, <2>2, <2>3
  <2>4. CASE e[1] = tm.exp
    BY <1>2, <1>3, <2>1, <2>2, <2>4 DEF Later, Never
  <2> QED
    BY <1>3, <2>3, <2>4
<1> QED
  BY <1>4, <1>5

(* reset arms it for the earliest timer there is. *)
LEMMA ResetArmed ==
  ASSUME IInv, TypeOK', Reset
  PROVE  Armed'
<1> DEFINE T == {e[1] : e \in timers'}
<1>1. deadline' = Rearmed(T) /\ now' = now
  BY DEF Reset
<1>2. T \subseteq Nat /\ now \in Nat
  <2>1. timers' \subseteq Nat \X Addr
    BY DEF TypeOK
  <2>2. \A e \in timers' : e[1] \in Nat
    BY <2>1
  <2>3. now \in Nat
    BY DEF IInv, TypeOK
  <2> QED
    BY <2>2, <2>3
<1> SUFFICES ASSUME NEW e \in timers'
             PROVE  deadline' # Never /\ deadline' <= Later(e[1], now + 1)
  BY <1>1 DEF Armed
<1>3. e[1] \in T
  OBVIOUS
<1> DEFINE m == CHOOSE m \in T : \A n \in T : m <= n
<1> HIDE DEF T
<1>4. m \in T /\ \A n \in T : m <= n
  BY <1>2, <1>3, LeastExists
<1>5. deadline' = Later(m, now + 1)
  BY <1>1, <1>3 DEF Rearmed, Arm
<1>6. m \in Nat /\ e[1] \in Nat /\ m <= e[1]
  BY <1>2, <1>3, <1>4
<1> HIDE DEF m
<1> QED
  BY <1>2, <1>5, <1>6 DEF Later, Never

LEMMA CancelArmed ==
  ASSUME IInv, NEW id, CancelInLoop(id), UNCHANGED <<pc, now, deadline>>
  PROVE  Armed'
<1>1. timers' \subseteq timers
  BY CancelHeap
<1> QED
  BY <1>1 DEF IInv, Armed

LEMMA ArmedStep ==
  ASSUME IInv, [Next]_vars
  PROVE  Armed'
<1>1. ASSUME NEW a \in Addr, NEW d \in Delays, NEW i \in Intervals, AddTimer(a, d, i)
      PROVE  Armed'
  <2> DEFINE tm == NewTimer(d, i)
  <2>1. Allocate(a, d, i) /\ AddTimerInLoop(a, tm) /\ UNCHANGED <<pc, now>>
    BY <1>1 DEF AddTimer
  <2>2. tm.exp \in Nat
    BY <2>1, NewTimerTyped
  <2> HIDE DEF tm
  <2> QED
    BY <2>1, <2>2, InsertArmed
<1>2. CASE \E id \in ids : Cancel(id)
  BY <1>2, CancelArmed DEF Cancel
<1>3. CASE RunFunctor
  <2> DEFINE f == Head(inbox)
  <2>1. UNCHANGED <<pc, now>> /\ 1 \in DOMAIN inbox /\ f = inbox[1]
    BY <1>3 DEF RunFunctor, IInv, CallsTyped
  <2>2. CASE f.op = "add" /\ AddTimerInLoop(f.addr, heap[f.addr])
    <3> DEFINE a == f.addr
    <3>1. a \in Addr
      BY <2>1, <2>2 DEF IInv, QueuedApart, Adds
    <3>2. AddTimerInLoop(a, heap[a])
      BY <2>2
    <3> HIDE DEF a
    <3>3. heap[a] \in Timers
      BY <3>1 DEF IInv, TypeOK, Timers
    <3>4. heap[a].exp \in Nat
      BY <3>3 DEF Timers
    <3> QED
      BY <2>1, <3>1, <3>2, <3>4, InsertArmed
  <2>3. CASE CancelInLoop(f) /\ UNCHANGED deadline
    <3> HIDE DEF f
    <3> QED
      BY <2>1, <2>3, CancelArmed
  <2> QED
    BY <1>3, <2>2, <2>3 DEF RunFunctor
<1>4. CASE HandleRead \/ RunTimer \/ CallbackReturns
  BY <1>4 DEF HandleRead, RunTimer, CallbackReturns, Armed
<1>5. CASE Reset
  BY <1>5, TypesStep, ResetArmed
<1>6. CASE Tick
  <2>1. now' = now + 1 /\ now \in Nat /\ UNCHANGED <<pc, timers, deadline>>
    BY <1>6 DEF Tick, IInv, TypeOK
  <2>2. \A e \in timers : e[1] \in Nat
    BY DEF IInv, TypeOK
  <2>3. deadline \in Nat \cup {Never} /\ Never = -1
    BY DEF IInv, TypeOK, Never
  <2> SUFFICES ASSUME pc = "user", NEW e \in timers
               PROVE  deadline # Never /\ deadline <= Later(e[1], now + 2)
    BY <2>1 DEF Armed
  <2>4. deadline # Never /\ deadline <= Later(e[1], now + 1)
    BY DEF IInv, Armed
  <2> QED
    BY <2>1, <2>2, <2>3, <2>4 DEF Later
<1>7. CASE UNCHANGED <<pc, now, timers, deadline>>
  BY <1>7 DEF IInv, Armed
<1> QED
  BY <1>1, <1>2, <1>3, <1>4, <1>5, <1>6, <1>7 DEF Next, LoopStep, QueueAddTimer,
     ReadSequence, QueueCancel, Poll, vars

------------------------------------------------------------------------------
LEMMA InitIInv == Init => IInv
<1> SUFFICES ASSUME Init
             PROVE  IInv
  OBVIOUS
<1> USE TimerQueueAssumption
<1>1. TypeOK
  <2>1. heap \in [Addr -> [seq : 0..MaxSeq, exp : Nat, interval : Intervals \cup {0}]]
    BY DEF Init, Free
  <2>2. batch \in Seq(Nat \X Addr) /\ next \in 1..Len(batch) + 1
    BY DEF Init
  <2>3. /\ pc = "user" /\ now = 0 /\ created = 0 /\ since = 0 /\ deadline = -1
        /\ timers = {} /\ activeTimers = {} /\ cancelingTimers = {}
        /\ callingExpiredTimers = FALSE /\ polled = FALSE /\ batch = <<>>
        /\ ran = {} /\ every = {}
    BY DEF Init, Never
  <2>4. now \in Nat /\ since \in 0..now /\ created \in 0..MaxSeq
    BY <2>3
  <2> QED
    BY <2>1, <2>2, <2>3, <2>4 DEF TypeOK, Never
<1>2. CallsTyped
  <2>1. ids \subseteq Handles
    BY DEF Init, Handles
  <2>2. adding \in [Adders -> [addr : Addr \cup {0}, seq : 0..MaxSeq]]
    BY DEF Init, NoTimer
  <2>3. inbox \in Seq(Functors) /\ cancelled \subseteq 0..MaxSeq
    BY DEF Init
  <2>4. \A t \in Adders : adding[t] # NoTimer => adding[t].addr \in Addr
    BY DEF Init
  <2> QED
    BY <2>1, <2>2, <2>3, <2>4 DEF CallsTyped
<1>3. \A a \in Addr : heap[a] = Free
  BY DEF Init
<1>4. Numbered /\ InSync /\ Armed
  BY <1>3 DEF Init, Numbered, InSync, Armed, Allocated
<1>5. DOMAIN batch = {} /\ DOMAIN inbox = {} /\ next = 1
  BY DEF Init
<1>6. BatchAllocated /\ BatchOnce /\ QueuedApart
  BY <1>5 DEF BatchAllocated, BatchOnce, QueuedApart
<1>7. RanInBatch
  BY <1>3, <1>5 DEF RanInBatch, Allocated
<1> QED
  BY <1>1, <1>2, <1>4, <1>6, <1>7 DEF IInv

LEMMA Inductive == IInv /\ [Next]_vars => IInv'
<1> SUFFICES ASSUME IInv, [Next]_vars
             PROVE  IInv'
  OBVIOUS
<1>1. TypeOK' /\ CallsTyped' /\ Numbered' /\ RanInBatch' /\ Armed'
  BY TypesStep, NumberedStep, RanStep, ArmedStep
<1>2. InSync' /\ BatchAllocated' /\ BatchOnce' /\ QueuedApart'
  BY PlacedStep DEF Placed
<1> QED
  BY <1>1, <1>2 DEF IInv

(* What the theorems below follow from, for every value of the constants   *)
(* and whoever adds and cancels timers.                                    *)
THEOREM Invariance == Spec => []IInv
  BY InitIInv, Inductive, PTL DEF Spec

(* Types; callingExpiredTimers_ is set during the callbacks and only then. *)
THEOREM TypeCorrect == Spec => []TypeOK
<1>1. IInv => TypeOK
  BY DEF IInv
<1> QED
  BY Invariance, <1>1, PTL

(* timers_ and activeTimers_ hold the same timers, all of them allocated,  *)
(* under their present expiration and sequence: no pointer in them dangles *)
(* and cancelInLoop always finds the entry it erases.                      *)
THEOREM SetsInSync == Spec => []InSync
<1>1. IInv => InSync
  BY DEF IInv
<1> QED
  BY Invariance, <1>1, PTL

(* Whatever the callbacks add or cancel, no timer of the batch handleRead  *)
(* is working on is freed before reset has seen it.                        *)
THEOREM BatchStaysAllocated == Spec => []BatchAllocated
<1>1. IInv => BatchAllocated
  BY DEF IInv
<1> QED
  BY Invariance, <1>1, PTL

(* While the loop waits for events the timerfd is armed if a timer waits,  *)
(* and no later than for the earliest one.                                 *)
THEOREM StaysArmed == Spec => []Armed
<1>1. IInv => Armed
  BY DEF IInv
<1> QED
  BY Invariance, <1>1, PTL

(* The callback of runAt and runAfter does not run a second time: a        *)
(* one-shot that ran and is not deleted yet is in the part of the batch    *)
(* that was run, hence nowhere else.                                       *)
THEOREM OneShotRunsOnce == Spec => []OneShotOnce
<1>1. IInv => OneShotOnce
  <2> SUFFICES ASSUME IInv, NEW s \in ran \ every
               PROVE  ~Waits(s) /\ ~Queued(s) /\ ~InBatch(s, next)
    BY DEF OneShotOnce
  <2>1. \A a \in Addr : Allocated(a) /\ heap[a].seq = s =>
          \E j \in 1..next - 1 : j \in DOMAIN batch /\ j < next /\ batch[j][2] = a
    <3>1. \A j \in 1..next - 1 : j \in DOMAIN batch /\ j < next
      BY BatchIs
    <3> QED
      BY <3>1 DEF IInv, RanInBatch
  <2>2. ~Waits(s)
    <3>1. \A t \in activeTimers : t[1] \in Addr /\ Allocated(t[1]) /\ heap[t[1]].seq = t[2]
      BY Entries
    <3>2. \A k \in DOMAIN batch, t \in activeTimers : t[1] # batch[k][2]
      BY DEF IInv, BatchAllocated
    <3> QED
      BY <2>1, <3>1, <3>2 DEF Waits
  <2>3. ~Queued(s)
    BY <2>1 DEF Queued, IInv, QueuedApart, Adds
  <2>4. ASSUME NEW k \in next..Len(batch), heap[batch[k][2]].seq = s
        PROVE  FALSE
    <3>1. k \in DOMAIN batch /\ ~(k < next)
      BY DEF IInv, TypeOK
    <3>2. batch[k][2] \in Addr /\ Allocated(batch[k][2])
      BY <3>1 DEF IInv, TypeOK, BatchAllocated
    <3> QED
      BY <2>1, <2>4, <3>1, <3>2 DEF IInv, BatchOnce
  <2> QED
    BY <2>2, <2>3, <2>4 DEF InBatch
<1> QED
  BY Invariance, <1>1, PTL

------------------------------------------------------------------------------
(* Where timers are: which addresses are queued, in the two sets, and in    *)
(* the batch, and how each step moves them.                                *)

LEMMA Places ==
  ASSUME IInv
  PROVE  /\ \A a \in QueuedAddrs \cup WaitingAddrs \cup BatchAddrs :
              a \in Addr /\ Allocated(a)
         /\ \A a \in QueuedAddrs : a \notin WaitingAddrs /\ a \notin BatchAddrs
         /\ \A a \in WaitingAddrs : a \notin BatchAddrs
<1>1. \A t \in activeTimers : t[1] \in Addr /\ Allocated(t[1])
  BY Entries
<1>2. \A k \in DOMAIN inbox : inbox[k].op = "add" =>
        /\ inbox[k].addr \in Addr /\ Allocated(inbox[k].addr)
        /\ \A t \in activeTimers : t[1] # inbox[k].addr
        /\ \A j \in DOMAIN batch : batch[j][2] # inbox[k].addr
  BY DEF IInv, QueuedApart, Adds
<1>3. \A k \in DOMAIN batch :
        /\ batch[k][2] \in Addr /\ Allocated(batch[k][2])
        /\ \A t \in activeTimers : t[1] # batch[k][2]
  BY BatchIs DEF IInv, BatchAllocated
<1>4. \A a \in WaitingAddrs : a \in Addr /\ Allocated(a) /\ a \notin BatchAddrs
  BY <1>1, <1>3 DEF WaitingAddrs, BatchAddrs
<1>5. \A a \in BatchAddrs : a \in Addr /\ Allocated(a)
  BY <1>3 DEF BatchAddrs
<1>6. \A a \in QueuedAddrs : /\ a \in Addr /\ Allocated(a)
                             /\ a \notin WaitingAddrs /\ a \notin BatchAddrs
  BY <1>2 DEF QueuedAddrs, WaitingAddrs, BatchAddrs
<1> QED
  BY <1>4, <1>5, <1>6

LEMMA QueuedIs ==
  \A a : a \in QueuedAddrs <=>
           \E k \in DOMAIN inbox : inbox[k].op = "add" /\ inbox[k].addr = a
BY DEF QueuedAddrs

LEMMA QueuedNextIs ==
  \A a : a \in QueuedAddrs' <=>
           \E k \in DOMAIN inbox' : inbox'[k].op = "add" /\ inbox'[k].addr = a
BY DEF QueuedAddrs

LEMMA FunctorQueued ==
  ASSUME IInv, NEW f \in Functors, inbox' = Append(inbox, f)
  PROVE  QueuedAddrs' = IF f.op = "add" THEN QueuedAddrs \cup {f.addr}
                                        ELSE QueuedAddrs
<1>1. inbox \in Seq(Functors)
  BY DEF IInv, CallsTyped
<1> DEFINE n == Len(inbox) + 1
<1>2. /\ \A k \in DOMAIN inbox' :
           (k \in DOMAIN inbox /\ inbox'[k] = inbox[k]) \/ inbox'[k] = f
      /\ \A k \in DOMAIN inbox : k \in DOMAIN inbox' /\ inbox'[k] = inbox[k]
      /\ n \in DOMAIN inbox' /\ inbox'[n] = f
  BY <1>1
<1> HIDE DEF n
<1>3. ASSUME NEW a
      PROVE  a \in QueuedAddrs' <=> (a \in QueuedAddrs \/ (f.op = "add" /\ f.addr = a))
  <2>1. ASSUME a \in QueuedAddrs'
        PROVE  a \in QueuedAddrs \/ (f.op = "add" /\ f.addr = a)
    BY <1>2, <2>1, QueuedIs, QueuedNextIs
  <2>2. a \in QueuedAddrs => a \in QueuedAddrs'
    BY <1>2, QueuedIs, QueuedNextIs
  <2>3. (f.op = "add" /\ f.addr = a) => a \in QueuedAddrs'
    BY <1>2, QueuedNextIs
  <2> QED
    BY <2>1, <2>2, <2>3
<1> QED
  BY <1>3

LEMMA FunctorTaken ==
  ASSUME IInv, inbox # <<>>, inbox' = Tail(inbox)
  PROVE  LET f == Head(inbox)
         IN  IF f.op = "add"
               THEN f.addr \in QueuedAddrs /\ QueuedAddrs' = QueuedAddrs \ {f.addr}
               ELSE QueuedAddrs' = QueuedAddrs
<1> DEFINE f == Head(inbox)
<1>1. inbox \in Seq(Functors)
  BY DEF IInv, CallsTyped
<1>2. /\ 1 \in DOMAIN inbox /\ f = inbox[1]
      /\ \A k \in DOMAIN inbox' :
           k + 1 \in DOMAIN inbox /\ inbox'[k] = inbox[k + 1] /\ k + 1 # 1
      /\ \A k \in DOMAIN inbox : k = 1 \/ (k - 1 \in DOMAIN inbox' /\ inbox'[k - 1] = inbox[k])
  BY <1>1
<1> HIDE DEF f
<1>3. \A k, l \in DOMAIN inbox :
        inbox[k].op = "add" /\ inbox[l].op = "add" /\ inbox[l].addr = inbox[k].addr
          => l = k
  BY DEF IInv, QueuedApart, Adds
<1>4. ASSUME NEW a
      PROVE  a \in QueuedAddrs' <=> (a \in QueuedAddrs /\ ~(f.op = "add" /\ f.addr = a))
  <2>1. ASSUME a \in QueuedAddrs'
        PROVE  a \in QueuedAddrs /\ ~(f.op = "add" /\ f.addr = a)
    BY <1>2, <1>3, <2>1, QueuedIs, QueuedNextIs
  <2>2. ASSUME a \in QueuedAddrs, ~(f.op = "add" /\ f.addr = a)
        PROVE  a \in QueuedAddrs'
    BY <1>2, <2>2, QueuedIs, QueuedNextIs
  <2> QED
    BY <2>1, <2>2
<1>5. f.op = "add" => f.addr \in QueuedAddrs
  BY <1>2, QueuedIs
<1>6. IF f.op = "add"
        THEN f.addr \in QueuedAddrs /\ QueuedAddrs' = QueuedAddrs \ {f.addr}
        ELSE QueuedAddrs' = QueuedAddrs
  <2>1. CASE f.op = "add"
    <3>1. ASSUME NEW a
          PROVE  a \in QueuedAddrs' <=> a \in QueuedAddrs \ {f.addr}
      BY <1>4, <2>1
    <3>2. QueuedAddrs' = QueuedAddrs \ {f.addr}
      BY <3>1
    <3> QED
      BY <1>5, <2>1, <3>2
  <2>2. CASE f.op # "add"
    <3>1. ASSUME NEW a
          PROVE  a \in QueuedAddrs' <=> a \in QueuedAddrs
      BY <1>4, <2>2
    <3>2. QueuedAddrs' = QueuedAddrs
      BY <3>1
    <3> QED
      BY <2>2, <3>2
  <2> QED
    BY <2>1, <2>2
<1> QED
  BY <1>6 DEF f

(* addTimerInLoop *)
LEMMA InsertMoves ==
  ASSUME NEW a, NEW tm, AddTimerInLoop(a, tm)
  PROVE  WaitingAddrs' = WaitingAddrs \cup {a}
<1>1. activeTimers' = activeTimers \cup {<<a, tm.seq>>} /\ <<a, tm.seq>>[1] = a
  BY DEF AddTimerInLoop
<1>2. ASSUME NEW b
      PROVE  b \in WaitingAddrs' <=> b \in WaitingAddrs \/ b = a
  BY <1>1 DEF WaitingAddrs
<1> QED
  BY <1>2

(* cancelInLoop: a timer that waits is gone, or none has moved. *)
LEMMA CancelMoves ==
  ASSUME IInv, NEW id, CancelInLoop(id)
  PROVE  \/ /\ Mark(id)
            /\ UNCHANGED <<heap, timers, activeTimers, WaitingAddrs>>
         \/ /\ UNCHANGED cancelingTimers
            /\ id.addr \in WaitingAddrs /\ heap[id.addr].seq = id.seq
            /\ WaitingAddrs' = WaitingAddrs \ {id.addr}
            /\ heap'[id.addr] = Free
            /\ \A a \in Addr \ {id.addr} : heap'[a] = heap[a]
<1>1. CASE Mark(id)
  BY <1>1 DEF Mark, WaitingAddrs
<1>2. CASE Erase(id)
  <2>1. /\ activeTimers' = activeTimers \ {<<id.addr, id.seq>>}
        /\ UNCHANGED cancelingTimers /\ <<id.addr, id.seq>> \in activeTimers
        /\ heap' = [heap EXCEPT ![id.addr] = Free]
    BY <1>2 DEF Erase
  <2>2. \A t \in activeTimers : t = <<t[1], t[2]>> /\ heap[t[1]].seq = t[2]
    BY Entries
  <2>3. id.addr \in Addr /\ heap[id.addr].seq = id.seq
    BY <2>1 DEF IInv, TypeOK, InSync
  <2>4. heap'[id.addr] = Free /\ \A a \in Addr \ {id.addr} : heap'[a] = heap[a]
    BY <2>1, <2>3 DEF IInv, TypeOK
  <2>5. id.addr \in WaitingAddrs
    BY <2>1 DEF WaitingAddrs
  <2>6. ASSUME NEW b
        PROVE  b \in WaitingAddrs' <=> b \in WaitingAddrs /\ b # id.addr
    <3>1. ASSUME NEW t \in activeTimers
          PROVE  t \in activeTimers' <=> t[1] # id.addr
      BY <2>1, <2>2, <2>3
    <3>2. activeTimers' \subseteq activeTimers
      BY <2>1
    <3> QED
      BY <3>1, <3>2 DEF WaitingAddrs
  <2> QED
    BY <2>1, <2>3, <2>4, <2>5, <2>6
<1> QED
  BY <1>1, <1>2 DEF CancelInLoop

(* getExpired moves the timers that are due. *)
LEMMA ExpiredMove ==
  ASSUME IInv, HandleRead
  PROVE  LET due == {a \in WaitingAddrs : heap[a].exp <= now}
         IN  /\ BatchAddrs' = due /\ WaitingAddrs' = WaitingAddrs \ due
             /\ batch' \in Vectors({e \in timers : e[1] <= now})
             /\ batch = <<>> /\ UNCHANGED heap
<1> DEFINE old == {e \in timers : e[1] <= now}
           due == {a \in WaitingAddrs : heap[a].exp <= now}
<1>1. /\ batch' \in Vectors(old) /\ UNCHANGED heap
      /\ activeTimers' = activeTimers \ {<<e[2], heap[e[2]].seq>> : e \in old}
  BY DEF HandleRead, GetExpired
<1>2. batch = <<>>
  BY DEF HandleRead, IInv, TypeOK
<1>3. /\ \A e \in old : \E k \in DOMAIN batch' : batch'[k] = e
      /\ \A k \in DOMAIN batch' : batch'[k] \in old
  BY <1>1, VectorsAre
<1>4. \A a : a \in due <=> \E e \in old : e[2] = a
  <2>1. ASSUME NEW a \in due
        PROVE  \E e \in old : e[2] = a
    <3>1. PICK t \in activeTimers : t[1] = a
      BY DEF WaitingAddrs
    <3>2. <<heap[a].exp, a>> \in timers
      BY <3>1, Entries
    <3> QED
      BY <3>2
  <2>2. ASSUME NEW e \in old
        PROVE  e[2] \in due
    <3>1. /\ heap[e[2]].exp = e[1] /\ e[1] <= now
          /\ <<e[2], heap[e[2]].seq>> \in activeTimers
      BY Entries
    <3> QED
      BY <3>1 DEF WaitingAddrs
  <2> QED
    BY <2>1, <2>2
<1>5. BatchAddrs' = due
  <2>1. ASSUME NEW a
        PROVE  a \in BatchAddrs' <=> \E e \in old : e[2] = a
    <3> HIDE DEF old
    <3> QED
      BY <1>3 DEF BatchAddrs
  <2> QED
    BY <1>4, <2>1
<1>6. WaitingAddrs' = WaitingAddrs \ due
  <2>1. ASSUME NEW t \in activeTimers
        PROVE  t \in activeTimers' <=> t[1] \notin due
    <3>1. t = <<t[1], t[2]>> /\ heap[t[1]].seq = t[2]
      BY Entries
    <3>2. t \in {<<e[2], heap[e[2]].seq>> : e \in old} <=> \E e \in old : e[2] = t[1]
      <4> HIDE DEF old
      <4>1. ASSUME NEW e \in old, e[2] = t[1]
            PROVE  t = <<e[2], heap[e[2]].seq>>
        BY <3>1, <4>1
      <4>2. ASSUME NEW e \in old, t = <<e[2], heap[e[2]].seq>>
            PROVE  e[2] = t[1]
        BY <4>2
      <4> QED
        BY <4>1, <4>2
    <3> QED
      BY <1>1, <1>4, <3>2
  <2>2. activeTimers' \subseteq activeTimers
    BY <1>1
  <2>3. ASSUME NEW a
        PROVE  a \in WaitingAddrs' <=> a \in WaitingAddrs /\ a \notin due
    <3> HIDE DEF due
    <3> QED
      BY <2>1, <2>2 DEF WaitingAddrs
  <2> QED
    BY <2>3
<1> QED
  BY <1>1, <1>2, <1>5, <1>6

(* reset: timers that restart wait again. *)
LEMMA ResetMoves ==
  ASSUME IInv, Reset
  PROVE  /\ WaitingAddrs' = WaitingAddrs \cup {a \in BatchAddrs : Restarts(a)}
         /\ batch' = <<>> /\ BatchAddrs' = {}
<1> DEFINE again == {a \in BatchAddrs : Restarts(a)}
<1>1. activeTimers' = activeTimers \cup {<<a, heap[a].seq>> : a \in again}
      /\ batch' = <<>>
  BY DEF Reset
<1> HIDE DEF again
<1>2. ASSUME NEW b
      PROVE  b \in WaitingAddrs' <=> b \in WaitingAddrs \/ b \in again
  <2>1. ASSUME NEW a PROVE <<a, heap[a].seq>>[1] = a
    OBVIOUS
  <2>2. b \in again => b \in WaitingAddrs'
    <3> SUFFICES ASSUME b \in again PROVE \E t \in activeTimers' : t[1] = b
      BY DEF WaitingAddrs
    <3>1. <<b, heap[b].seq>> \in activeTimers'
      BY <1>1
    <3> QED
      BY <2>1, <3>1
  <2>3. b \in WaitingAddrs => b \in WaitingAddrs'
    BY <1>1 DEF WaitingAddrs
  <2>4. ASSUME NEW t \in activeTimers', t[1] = b
        PROVE  b \in WaitingAddrs \/ b \in again
    <3>1. CASE t \in activeTimers
      BY <2>4, <3>1 DEF WaitingAddrs
    <3>2. CASE t \notin activeTimers
      <4>1. PICK a \in again : t = <<a, heap[a].seq>>
        BY <1>1, <2>4, <3>2
      <4> QED
        BY <2>1, <2>4, <4>1
    <3> QED
      BY <3>1, <3>2
  <2> QED
    BY <2>2, <2>3, <2>4 DEF WaitingAddrs
<1> QED
  BY <1>1, <1>2 DEF again, BatchAddrs

------------------------------------------------------------------------------
(* Whoever adds timers: none leaks, and no number is in use before its      *)
(* timer is made.                                                          *)

(* A timer that exists is queued, waits or is in the batch. *)
NoLeak ==
  \A a \in Addr : Allocated(a) => a \in QueuedAddrs \cup WaitingAddrs \cup BatchAddrs

(* TimerIds, queued calls and marks name timers that were made, or none. *)
NumbersKnown ==
  /\ \A id \in ids : id.seq \in 0..created
  /\ \A k \in DOMAIN inbox : inbox[k].seq \in 0..created
  /\ \A t \in Adders : adding[t].seq \in 0..created
  /\ \A m \in cancelingTimers : m[2] \in 0..created

CallbackRuns == pc = "callback" => next > 1

JInv == NoLeak /\ NumbersKnown /\ CallbackRuns

LEMMA NoLeakStep ==
  ASSUME IInv, NoLeak, [Next]_vars
  PROVE  NoLeak'
<1>1. \A a \in Addr :
        Allocated(a) => a \in QueuedAddrs \/ a \in WaitingAddrs \/ a \in BatchAddrs
  BY DEF NoLeak
<1>2. SUFFICES ASSUME NEW a \in Addr, heap'[a] # Free
               PROVE  a \in QueuedAddrs' \/ a \in WaitingAddrs' \/ a \in BatchAddrs'
  BY DEF NoLeak, Allocated
<1>3. ASSUME NEW b \in Addr, NEW d \in Delays, NEW i \in Intervals, AddTimer(b, d, i)
      PROVE  a \in QueuedAddrs' \/ a \in WaitingAddrs' \/ a \in BatchAddrs'
  <2>1. /\ Allocate(b, d, i) /\ UNCHANGED <<batch, inbox>>
        /\ AddTimerInLoop(b, NewTimer(d, i))
    BY <1>3 DEF AddTimer
  <2>2. \A c \in Addr \ {b} : heap'[c] = heap[c]
    BY <2>1, NewTimerTyped
  <2>3. WaitingAddrs' = WaitingAddrs \cup {b}
    BY <2>1, InsertMoves
  <2>4. QueuedAddrs' = QueuedAddrs /\ BatchAddrs' = BatchAddrs
    BY <2>1 DEF QueuedAddrs, BatchAddrs
  <2> QED
    BY <1>1, <1>2, <2>2, <2>3, <2>4 DEF Allocated
<1>4. ASSUME NEW t \in Adders, NEW b \in Addr, NEW d \in Delays, NEW i \in Intervals,
             QueueAddTimer(t, b, d, i)
      PROVE  a \in QueuedAddrs' \/ a \in WaitingAddrs' \/ a \in BatchAddrs'
  <2> DEFINE f == [op |-> "add", addr |-> b, seq |-> created + 1, of |-> created + 1]
  <2>1. /\ Allocate(b, d, i) /\ UNCHANGED <<batch, activeTimers>>
        /\ inbox' = Append(inbox, f)
    BY <1>4 DEF QueueAddTimer
  <2>2. created + 1 \in 0..MaxSeq /\ \A c \in Addr \ {b} : heap'[c] = heap[c]
    BY <2>1, NewTimerTyped DEF Seqs
  <2>3. f \in Functors /\ f.op = "add" /\ f.addr = b
    BY <2>2 DEF Functors
  <2> HIDE DEF f
  <2>4. QueuedAddrs' = QueuedAddrs \cup {b}
    BY <2>1, <2>3, FunctorQueued
  <2>5. WaitingAddrs' = WaitingAddrs /\ BatchAddrs' = BatchAddrs
    BY <2>1 DEF WaitingAddrs, BatchAddrs
  <2> QED
    BY <1>1, <1>2, <2>2, <2>4, <2>5 DEF Allocated
<1>5. ASSUME NEW id, CancelInLoop(id), UNCHANGED batch, QueuedAddrs' = QueuedAddrs
      PROVE  a \in QueuedAddrs' \/ a \in WaitingAddrs' \/ a \in BatchAddrs'
  <2>1. BatchAddrs' = BatchAddrs
    BY <1>5 DEF BatchAddrs
  <2>2. CASE UNCHANGED <<heap, WaitingAddrs>>
    BY <1>1, <1>2, <1>5, <2>1, <2>2 DEF Allocated
  <2>3. CASE ~UNCHANGED <<heap, WaitingAddrs>>
    <3>1. /\ WaitingAddrs' = WaitingAddrs \ {id.addr} /\ heap'[id.addr] = Free
          /\ \A c \in Addr \ {id.addr} : heap'[c] = heap[c]
      BY <1>5, <2>3, CancelMoves
    <3> QED
      BY <1>1, <1>2, <1>5, <2>1, <3>1 DEF Allocated
  <2> QED
    BY <2>2, <2>3
<1>6. CASE \E id \in ids : Cancel(id)
  <2>1. PICK id \in ids : Cancel(id)
    BY <1>6
  <2>2. CancelInLoop(id) /\ UNCHANGED batch /\ QueuedAddrs' = QueuedAddrs
    BY <2>1 DEF Cancel, QueuedAddrs
  <2> QED
    BY <1>5, <2>2
<1>7. CASE \E t \in Threads, id \in ids : QueueCancel(t, id)
  <2>1. PICK t \in Threads, id \in ids : QueueCancel(t, id)
    BY <1>7
  <2> DEFINE f == [op |-> "cancel", addr |-> id.addr, seq |-> id.seq, of |-> id.of]
  <2>2. inbox' = Append(inbox, f) /\ UNCHANGED <<heap, activeTimers, batch>>
    BY <2>1 DEF QueueCancel
  <2>3. f \in Functors /\ f.op # "add"
    BY DEF Functors, IInv, CallsTyped, Handles
  <2> HIDE DEF f
  <2>4. QueuedAddrs' = QueuedAddrs
    BY <2>2, <2>3, FunctorQueued
  <2>5. WaitingAddrs' = WaitingAddrs /\ BatchAddrs' = BatchAddrs
    BY <2>2 DEF WaitingAddrs, BatchAddrs
  <2> QED
    BY <1>1, <1>2, <2>2, <2>4, <2>5 DEF Allocated
<1>8. CASE RunFunctor
  <2> DEFINE f == Head(inbox)
  <2>1. inbox # <<>> /\ inbox' = Tail(inbox) /\ UNCHANGED batch
    BY <1>8 DEF RunFunctor
  <2>2. BatchAddrs' = BatchAddrs
    BY <2>1 DEF BatchAddrs
  <2>3. IF f.op = "add"
          THEN f.addr \in QueuedAddrs /\ QueuedAddrs' = QueuedAddrs \ {f.addr}
          ELSE QueuedAddrs' = QueuedAddrs
    BY <2>1, FunctorTaken
  <2>4. CASE f.op = "add"
    <3>1. AddTimerInLoop(f.addr, heap[f.addr]) /\ UNCHANGED heap
      BY <1>8, <2>4 DEF RunFunctor
    <3>2. WaitingAddrs' = WaitingAddrs \cup {f.addr}
      BY <3>1, InsertMoves
    <3> HIDE DEF f
    <3> QED
      BY <1>1, <1>2, <2>2, <2>3, <2>4, <3>1, <3>2 DEF Allocated
  <2>5. CASE f.op # "add"
    <3>1. CancelInLoop(f)
      BY <1>8, <2>5 DEF RunFunctor
    <3> HIDE DEF f
    <3> QED
      BY <1>5, <2>1, <2>3, <2>5, <3>1
  <2> QED
    BY <2>4, <2>5
<1>9. CASE HandleRead
  <2>1. /\ BatchAddrs' = {c \in WaitingAddrs : heap[c].exp <= now}
        /\ WaitingAddrs' = WaitingAddrs \ {c \in WaitingAddrs : heap[c].exp <= now}
        /\ batch = <<>> /\ UNCHANGED heap
    BY <1>9, ExpiredMove
  <2>2. QueuedAddrs' = QueuedAddrs
    BY <1>9 DEF HandleRead, QueuedAddrs
  <2>3. BatchAddrs = {}
    BY <2>1 DEF BatchAddrs
  <2> QED
    BY <1>1, <1>2, <2>1, <2>2, <2>3 DEF Allocated
<1>10. CASE Reset
  <2>1. WaitingAddrs' = WaitingAddrs \cup {c \in BatchAddrs : Restarts(c)}
    BY <1>10, ResetMoves
  <2>2. QueuedAddrs' = QueuedAddrs
    BY <1>10 DEF Reset, QueuedAddrs
  <2>3. a \in BatchAddrs => Restarts(a)
    BY <1>2, <1>10, ResetHeap
  <2>4. a \notin BatchAddrs => Allocated(a)
    BY <1>2, <1>10, ResetHeap DEF Allocated
  <2> QED
    BY <1>1, <2>1, <2>2, <2>3, <2>4
<1>11. CASE UNCHANGED <<heap, activeTimers, batch, inbox>>
  <2>1. QueuedAddrs' = QueuedAddrs /\ WaitingAddrs' = WaitingAddrs
        /\ BatchAddrs' = BatchAddrs
    BY <1>11 DEF QueuedAddrs, WaitingAddrs, BatchAddrs
  <2> QED
    BY <1>1, <1>2, <1>11, <2>1 DEF Allocated
<1> QED
  BY <1>3, <1>4, <1>6, <1>7, <1>8, <1>9, <1>10, <1>11 DEF Next, LoopStep, Poll,
     RunTimer, CallbackReturns, Tick, ReadSequence, vars

LEMMA NumbersKnownStep ==
  ASSUME IInv, NumbersKnown, [Next]_vars
  PROVE  NumbersKnown'
<1>1. /\ \A id \in ids : id.seq \in 0..created
      /\ \A k \in DOMAIN inbox : inbox[k].seq \in 0..created
      /\ \A t \in Adders : adding[t].seq \in 0..created
      /\ \A m \in cancelingTimers : m[2] \in 0..created
      /\ created \in Nat /\ inbox \in Seq(Functors)
      /\ adding \in [Adders -> [addr : Addr \cup {0}, seq : 0..MaxSeq]]
  BY DEF NumbersKnown, IInv, TypeOK, CallsTyped
<1>2. ASSUME NEW b \in Addr, NEW d \in Delays, NEW i \in Intervals, AddTimer(b, d, i)
      PROVE  NumbersKnown'
  <2> DEFINE id == [addr |-> b, seq |-> created + 1, of |-> created + 1]
  <2>1. /\ created' = created + 1 /\ ids' = ids \cup {id} /\ id.seq = created + 1
        /\ UNCHANGED <<inbox, adding, cancelingTimers>>
    BY <1>2 DEF AddTimer, Allocate
  <2> HIDE DEF id
  <2>2. \A s : s \in 0..created => s \in 0..created'
    BY <1>1, <2>1
  <2>3. created + 1 \in 0..created'
    BY <1>1, <2>1
  <2>4. \A j \in ids' : j.seq \in 0..created'
    BY <1>1, <2>1, <2>2, <2>3
  <2> QED
    BY <1>1, <2>1, <2>2, <2>4 DEF NumbersKnown
<1>3. ASSUME NEW t \in Adders, NEW b \in Addr, NEW d \in Delays, NEW i \in Intervals,
             QueueAddTimer(t, b, d, i)
      PROVE  NumbersKnown'
  <2> DEFINE f == [op |-> "add", addr |-> b, seq |-> created + 1, of |-> created + 1]
             tm == [addr |-> b, seq |-> created + 1]
  <2>1. /\ created' = created + 1 /\ inbox' = Append(inbox, f) /\ f.seq = created + 1
        /\ adding' = [adding EXCEPT ![t] = tm] /\ tm.seq = created + 1
        /\ UNCHANGED <<ids, cancelingTimers>>
    BY <1>3 DEF QueueAddTimer, Allocate
  <2> HIDE DEF f, tm
  <2>2. \A s : s \in 0..created => s \in 0..created'
    BY <1>1, <2>1
  <2>3. created + 1 \in 0..created'
    BY <1>1, <2>1
  <2>4. \A k \in DOMAIN inbox' :
          (k \in DOMAIN inbox /\ inbox'[k] = inbox[k]) \/ inbox'[k] = f
    BY <1>1, <2>1
  <2>5. ASSUME NEW k \in DOMAIN inbox'
        PROVE  inbox'[k].seq \in 0..created'
    <3>1. CASE inbox'[k] = f
      BY <2>1, <2>3, <3>1
    <3>2. CASE k \in DOMAIN inbox /\ inbox'[k] = inbox[k]
      BY <1>1, <2>2, <3>2
    <3> QED
      BY <2>4, <3>1, <3>2
  <2>6. \A u \in Adders : adding'[u] = tm \/ adding'[u] = adding[u]
    BY <1>1, <2>1
  <2>7. \A u \in Adders : adding'[u].seq \in 0..created'
    BY <1>1, <2>1, <2>2, <2>3, <2>6
  <2> QED
    BY <1>1, <2>1, <2>2, <2>5, <2>7 DEF NumbersKnown
<1>4. ASSUME NEW t \in Adders, ReadSequence(t)
      PROVE  NumbersKnown'
  <2> DEFINE tm == adding[t]
  <2>1. PICK s \in (IF Allocated(tm.addr) THEN {heap[tm.addr].seq} ELSE {tm.seq, 0}) :
          ids' = ids \cup {[addr |-> tm.addr, seq |-> s, of |-> tm.seq]}
    BY <1>4 DEF ReadSequence
  <2>2. /\ UNCHANGED <<created, inbox, cancelingTimers>>
        /\ adding' = [adding EXCEPT ![t] = NoTimer] /\ tm # NoTimer
    BY <1>4 DEF ReadSequence
  <2>3. tm.addr \in Addr /\ tm.seq \in 0..created
    BY <1>1, <2>2 DEF IInv, CallsTyped
  <2>4. Allocated(tm.addr) => heap[tm.addr].seq \in 1..created
    BY <2>3 DEF IInv, Numbered
  <2>5. s \in 0..created
    BY <1>1, <2>1, <2>3, <2>4
  <2>6. \A u \in Adders : adding'[u] = NoTimer \/ adding'[u] = adding[u]
    BY <1>1, <2>2
  <2>7. \A u \in Adders : adding'[u].seq \in 0..created
    BY <1>1, <2>6 DEF NoTimer
  <2> HIDE DEF tm
  <2> QED
    BY <1>1, <2>1, <2>2, <2>5, <2>7 DEF NumbersKnown
<1>5. ASSUME NEW id, id.seq \in 0..created, CancelInLoop(id)
      PROVE  \A m \in cancelingTimers' : m[2] \in 0..created
  BY <1>1, <1>5 DEF CancelInLoop, Erase, Mark
<1>6. CASE \E id \in ids : Cancel(id)
  BY <1>1, <1>5, <1>6 DEF Cancel, NumbersKnown
<1>7. CASE \E t \in Threads, id \in ids : QueueCancel(t, id)
  <2>1. PICK t \in Threads, id \in ids : QueueCancel(t, id)
    BY <1>7
  <2> DEFINE f == [op |-> "cancel", addr |-> id.addr, seq |-> id.seq, of |-> id.of]
  <2>2. inbox' = Append(inbox, f) /\ UNCHANGED <<created, ids, adding, cancelingTimers>>
    BY <2>1 DEF QueueCancel
  <2>3. f.seq \in 0..created
    BY <1>1
  <2> HIDE DEF f
  <2>4. \A k \in DOMAIN inbox' :
          (k \in DOMAIN inbox /\ inbox'[k] = inbox[k]) \/ inbox'[k] = f
    BY <1>1, <2>2
  <2>5. \A k \in DOMAIN inbox' : inbox'[k].seq \in 0..created
    BY <1>1, <2>3, <2>4
  <2> QED
    BY <1>1, <2>2, <2>5 DEF NumbersKnown
<1>8. CASE RunFunctor
  <2> DEFINE f == Head(inbox)
  <2>1. inbox # <<>> /\ inbox' = Tail(inbox) /\ UNCHANGED <<created, ids, adding>>
    BY <1>8 DEF RunFunctor
  <2>2. /\ 1 \in DOMAIN inbox /\ f = inbox[1]
        /\ \A k \in DOMAIN inbox' : k + 1 \in DOMAIN inbox /\ inbox'[k] = inbox[k + 1]
    BY <1>1, <2>1
  <2>3. CancelInLoop(f) \/ UNCHANGED cancelingTimers
    BY <1>8 DEF RunFunctor
  <2>4. f.seq \in 0..created
    BY <1>1, <2>2
  <2> HIDE DEF f
  <2>5. \A k \in DOMAIN inbox' : inbox'[k].seq \in 0..created
    BY <1>1, <2>2
  <2>6. \A m \in cancelingTimers' : m[2] \in 0..created
    BY <1>1, <1>5, <2>3, <2>4
  <2> QED
    BY <1>1, <2>1, <2>5, <2>6 DEF NumbersKnown
<1>9. CASE UNCHANGED <<created, ids, inbox, adding, cancelingTimers>>
  BY <1>1, <1>9 DEF NumbersKnown
<1> QED
  BY <1>2, <1>3, <1>4, <1>6, <1>7, <1>8, <1>9 DEF Next, LoopStep, Poll, HandleRead,
     RunTimer, CallbackReturns, Reset, Tick, vars

LEMMA CallbackRunsStep ==
  ASSUME IInv, CallbackRuns, [Next]_vars
  PROVE  CallbackRuns'
<1>1. next \in Nat /\ next >= 1
  BY BatchIs
<1>2. CASE UNCHANGED <<pc, next>>
  BY <1>2 DEF CallbackRuns
<1>3. CASE RunTimer
  BY <1>1, <1>3 DEF RunTimer, CallbackRuns
<1>4. CASE HandleRead \/ CallbackReturns \/ Reset
  BY <1>4 DEF HandleRead, CallbackReturns, Reset, CallbackRuns
<1> QED
  BY <1>2, <1>3, <1>4 DEF Next, LoopStep, AddTimer, QueueAddTimer, ReadSequence,
     Cancel, QueueCancel, RunFunctor, Poll, Tick, vars

LEMMA InitJInv == Init => JInv
<1> SUFFICES ASSUME Init
             PROVE  JInv
  OBVIOUS
<1>1. /\ \A a \in Addr : heap[a] = Free
      /\ created = 0 /\ cancelingTimers = {} /\ pc = "user"
      /\ ids = {[addr |-> 0, seq |-> 0, of |-> 0]} /\ DOMAIN inbox = {}
      /\ \A t \in Adders : adding[t] = NoTimer
  BY DEF Init
<1> QED
  BY <1>1 DEF JInv, NoLeak, NumbersKnown, CallbackRuns, Allocated, NoTimer

(* No timer leaks, whoever adds and cancels timers: one that exists will   *)
(* still be inserted, waits, or is in the batch that reset goes through.   *)
THEOREM NoTimerLeaks == Spec => [](IInv /\ JInv)
<1>1. IInv /\ JInv /\ [Next]_vars => JInv'
  BY NoLeakStep, NumbersKnownStep, CallbackRunsStep DEF JInv
<1> QED
  BY InitIInv, Inductive, InitJInv, <1>1, PTL DEF Spec

------------------------------------------------------------------------------
(* As long as no sequence is misread, TimerIds are right, and so is what    *)
(* cancel does with them.                                                  *)

Holds(a, s) == Allocated(a) /\ heap[a].seq = s

(* No timer but the one at id.addr has id's sequence, nor will have. *)
Held(id) ==
  /\ id.seq \in 0..created
  /\ \A a \in Addr : Holds(a, id.seq) => a = id.addr

(* id means the timer it was handed out for, and no other. *)
Names(id) == id.of = id.seq /\ Held(id)

(* TimerIds are right, also those in queued calls of cancel, and an         *)
(* addTimer that did not read its sequence yet can still get it right.     *)
Faithful ==
  /\ \A id \in ids : Names(id)
  /\ \A k \in DOMAIN inbox : inbox[k].op = "cancel" => Names(inbox[k])
  /\ \A t \in Adders : adding[t] # NoTimer => Held(adding[t])

(* Only timers that are to be cancelled are marked. *)
MarksCancelled == \A m \in cancelingTimers : m[2] \in cancelled

(* The others exist, but for one-shots that have run. *)
Surviving ==
  \A s \in (1..created) \ cancelled : (\E a \in Addr : Holds(a, s)) \/ s \in ran \ every

Right == Faithful /\ MarksCancelled /\ Surviving

(* The same after the step. *)
StillHeld(id) ==
  /\ id.seq \in 0..created'
  /\ \A a \in Addr : heap'[a] # Free /\ heap'[a].seq = id.seq => a = id.addr

LEMMA FaithfulAfter ==
  ASSUME \A id \in ids' : id.of = id.seq /\ StillHeld(id),
         \A k \in DOMAIN inbox' : inbox'[k].op = "cancel" =>
           inbox'[k].of = inbox'[k].seq /\ StillHeld(inbox'[k]),
         \A t \in Adders : adding'[t] # NoTimer => StillHeld(adding'[t])
  PROVE  Faithful'
BY DEF Faithful, StillHeld, Names, Held, Holds, Allocated

(* The step frees timers, keeps their numbers or gives the next one. *)
Renumbers ==
  \A a \in Addr : \/ heap'[a] = Free
                  \/ Allocated(a) /\ heap'[a].seq = heap[a].seq
                  \/ heap'[a].seq = created + 1

LEMMA HeapShrinks ==
  ASSUME IInv, NEW a \in Addr,
         \/ UNCHANGED heap
         \/ \E id : CancelInLoop(id)
         \/ Reset
  PROVE  heap'[a] = Free \/ (Allocated(a) /\ heap'[a].seq = heap[a].seq)
<1>1. CASE UNCHANGED heap
  BY <1>1 DEF Allocated
<1>2. CASE \E id : CancelInLoop(id)
  <2>1. PICK id : CancelInLoop(id)
    BY <1>2
  <2>2. CASE UNCHANGED <<heap, timers, activeTimers>>
    BY <2>2 DEF Allocated
  <2>3. CASE ~UNCHANGED <<heap, timers, activeTimers>>
    <3>1. /\ heap'[id.addr] = Free
          /\ \A b \in Addr \ {id.addr} : heap'[b] = heap[b]
      BY <2>1, <2>3, CancelHeap
    <3> QED
      BY <3>1 DEF Allocated
  <2> QED
    BY <2>2, <2>3
<1>3. CASE Reset
  <2>1. CASE a \notin BatchAddrs
    BY <1>3, <2>1, ResetHeap DEF Allocated
  <2>2. CASE a \in BatchAddrs
    <3>1. Allocated(a)
      BY <2>2 DEF BatchAddrs, IInv, BatchAllocated
    <3>2. heap'[a] = Free \/ heap'[a].seq = heap[a].seq
      BY <1>3, <2>2, ResetHeap
    <3> QED
      BY <3>1, <3>2
  <2> QED
    BY <2>1, <2>2
<1> QED
  BY <1>1, <1>2, <1>3

LEMMA HeldKept ==
  ASSUME IInv, [Next]_vars, NEW id, Held(id)
  PROVE  StillHeld(id)
<1>1. created \in Nat /\ id.seq \in 0..created
      /\ \A a \in Addr : Allocated(a) /\ heap[a].seq = id.seq => a = id.addr
  BY DEF IInv, TypeOK, Held, Holds
<1>2. Renumbers /\ created' \in Nat /\ created <= created'
  <2>1. ASSUME NEW a \in Addr, NEW d \in Delays, NEW i \in Intervals, Allocate(a, d, i)
        PROVE  Renumbers /\ created' \in Nat /\ created <= created'
    <3>1. /\ created' = created + 1 /\ heap'[a].seq = created + 1
          /\ \A b \in Addr \ {a} : heap'[b] = heap[b]
      BY <2>1, NewTimerTyped
    <3> QED
      BY <1>1, <3>1 DEF Renumbers, Allocated
  <2>2. CASE UNCHANGED created /\ (UNCHANGED heap \/ (\E j : CancelInLoop(j)) \/ Reset)
    <3>1. Renumbers
      BY <2>2, HeapShrinks DEF Renumbers
    <3> QED
      BY <1>1, <2>2, <3>1
  <2>3. CASE RunFunctor
    BY <2>2, <2>3 DEF RunFunctor
  <2>4. CASE \E j \in ids : Cancel(j)
    BY <2>2, <2>4 DEF Cancel
  <2>5. CASE Reset
    BY <2>2, <2>5 DEF Reset
  <2>6. CASE UNCHANGED <<created, heap>>
    BY <2>2, <2>6
  <2> QED
    BY <2>1, <2>3, <2>4, <2>5, <2>6 DEF Next, LoopStep, AddTimer, QueueAddTimer,
       ReadSequence, QueueCancel, Poll, HandleRead, RunTimer, CallbackReturns, Tick, vars
<1>3. id.seq \in 0..created' /\ id.seq # created + 1
  BY <1>1, <1>2
<1> QED
  BY <1>1, <1>2, <1>3 DEF StillHeld, Renumbers

(* What new Timer numbers. *)
LEMMA AllocatedHeld ==
  ASSUME IInv, NEW a \in Addr, NEW d \in Delays, NEW i \in Intervals,
         Allocate(a, d, i), NEW id, id.addr = a, id.seq = created + 1
  PROVE  StillHeld(id)
<1>1. /\ created \in Nat /\ created' = created + 1 /\ heap'[a].seq = created + 1
      /\ \A b \in Addr \ {a} : heap'[b] = heap[b]
  BY NewTimerTyped
<1>2. ASSUME NEW b \in Addr, b # a
      PROVE  ~(heap'[b] # Free /\ heap'[b].seq = created + 1)
  <2>1. CASE Allocated(b)
    BY <1>1, <1>2, <2>1 DEF IInv, Numbered
  <2>2. CASE ~Allocated(b)
    BY <1>1, <1>2, <2>2 DEF Allocated
  <2> QED
    BY <2>1, <2>2
<1> QED
  BY <1>1, <1>2 DEF StillHeld

LEMMA FaithfulStep ==
  ASSUME IInv, Faithful, [Next]_vars, ~Misread'
  PROVE  Faithful'
<1>1. /\ \A id \in ids : Names(id)
      /\ \A k \in DOMAIN inbox : inbox[k].op = "cancel" => Names(inbox[k])
      /\ \A t \in Adders : adding[t] # NoTimer => Held(adding[t])
      /\ inbox \in Seq(Functors)
      /\ adding \in [Adders -> [addr : Addr \cup {0}, seq : 0..MaxSeq]]
  BY DEF Faithful, IInv, CallsTyped
<1>2. ASSUME NEW id, Names(id)
      PROVE  id.of = id.seq /\ StillHeld(id)
  BY <1>2, HeldKept DEF Names
<1>3. \A id \in ids' : id.of = id.seq
  BY DEF Misread
<1>4. ASSUME NEW id \in ids
      PROVE  StillHeld(id)
  BY <1>1, <1>2
<1>5. ASSUME NEW k \in DOMAIN inbox, inbox[k].op = "cancel"
      PROVE  inbox[k].of = inbox[k].seq /\ StillHeld(inbox[k])
  <2> DEFINE f == inbox[k]
  <2>1. Names(f)
    BY <1>1, <1>5
  <2> HIDE DEF f
  <2>2. f.of = f.seq /\ StillHeld(f)
    BY <1>2, <2>1
  <2> QED
    BY <2>2 DEF f
<1>6. ASSUME NEW t \in Adders, adding[t] # NoTimer
      PROVE  StillHeld(adding[t])
  <2> DEFINE tm == adding[t]
  <2>1. Held(tm)
    BY <1>1, <1>6
  <2> HIDE DEF tm
  <2>2. StillHeld(tm)
    BY <2>1, HeldKept
  <2> QED
    BY <2>2 DEF tm
<1>7. ASSUME NEW a \in Addr, NEW d \in Delays, NEW i \in Intervals, AddTimer(a, d, i)
      PROVE  Faithful'
  <2> DEFINE id == [addr |-> a, seq |-> created + 1, of |-> created + 1]
  <2>1. Allocate(a, d, i) /\ ids' = ids \cup {id} /\ UNCHANGED <<inbox, adding>>
    BY <1>7 DEF AddTimer
  <2>2. id.addr = a /\ id.seq = created + 1
    OBVIOUS
  <2> HIDE DEF id
  <2>3. StillHeld(id)
    BY <2>1, <2>2, AllocatedHeld
  <2>4. \A j \in ids' : j.of = j.seq /\ StillHeld(j)
    BY <1>3, <1>4, <2>1, <2>3
  <2> QED
    BY <1>5, <1>6, <2>1, <2>4, FaithfulAfter
<1>8. ASSUME NEW t \in Adders, NEW a \in Addr, NEW d \in Delays, NEW i \in Intervals,
             QueueAddTimer(t, a, d, i)
      PROVE  Faithful'
  <2> DEFINE f == [op |-> "add", addr |-> a, seq |-> created + 1, of |-> created + 1]
             tm == [addr |-> a, seq |-> created + 1]
  <2>1. /\ Allocate(a, d, i) /\ inbox' = Append(inbox, f) /\ UNCHANGED ids
        /\ adding' = [adding EXCEPT ![t] = tm]
    BY <1>8 DEF QueueAddTimer
  <2>2. f.op # "cancel" /\ tm.addr = a /\ tm.seq = created + 1
    OBVIOUS
  <2> HIDE DEF f, tm
  <2>3. StillHeld(tm)
    BY <2>1, <2>2, AllocatedHeld
  <2>4. \A u \in Adders : adding'[u] = tm \/ adding'[u] = adding[u]
    BY <1>1, <2>1
  <2>5. ASSUME NEW u \in Adders, adding'[u] # NoTimer
        PROVE  StillHeld(adding'[u])
    <3>1. CASE adding'[u] = tm
      BY <2>3, <3>1
    <3>2. CASE adding'[u] = adding[u]
      BY <1>6, <2>5, <3>2
    <3> QED
      BY <2>4, <3>1, <3>2
  <2>6. \A k \in DOMAIN inbox' :
          (k \in DOMAIN inbox /\ inbox'[k] = inbox[k]) \/ inbox'[k] = f
    BY <1>1, <2>1
  <2>7. ASSUME NEW k \in DOMAIN inbox', inbox'[k].op = "cancel"
        PROVE  inbox'[k].of = inbox'[k].seq /\ StillHeld(inbox'[k])
    <3>1. k \in DOMAIN inbox /\ inbox'[k] = inbox[k]
      BY <2>2, <2>6, <2>7
    <3> QED
      BY <1>5, <2>7, <3>1
  <2>8. \A j \in ids' : j.of = j.seq /\ StillHeld(j)
    BY <1>3, <1>4, <2>1
  <2> QED
    BY <2>5, <2>7, <2>8, FaithfulAfter
<1>9. ASSUME NEW t \in Adders, ReadSequence(t)
      PROVE  Faithful'
  <2> DEFINE tm == adding[t]
  <2>1. PICK s : ids' = ids \cup {[addr |-> tm.addr, seq |-> s, of |-> tm.seq]}
    BY <1>9 DEF ReadSequence
  <2> DEFINE id == [addr |-> tm.addr, seq |-> s, of |-> tm.seq]
  <2>2. /\ UNCHANGED inbox /\ tm # NoTimer
        /\ adding' = [adding EXCEPT ![t] = NoTimer]
    BY <1>9 DEF ReadSequence
  <2>3. StillHeld(tm)
    BY <1>6, <2>2
  <2>4. id.addr = tm.addr /\ id.seq = tm.seq
    <3>1. id.of = id.seq
      BY <1>3, <2>1
    <3> QED
      BY <3>1
  <2> HIDE DEF id
  <2>5. StillHeld(id)
    BY <2>3, <2>4 DEF StillHeld
  <2>6. \A j \in ids' : j.of = j.seq /\ StillHeld(j)
    BY <1>3, <1>4, <2>1, <2>5 DEF id
  <2>7. \A u \in Adders : adding'[u] = NoTimer \/ adding'[u] = adding[u]
    BY <1>1, <2>2
  <2>8. ASSUME NEW u \in Adders, adding'[u] # NoTimer
        PROVE  StillHeld(adding'[u])
    <3>1. adding'[u] = adding[u]
      BY <2>7, <2>8
    <3> QED
      BY <1>6, <2>8, <3>1
  <2> QED
    BY <1>5, <2>2, <2>6, <2>8, FaithfulAfter
<1>10. ASSUME NEW t \in Threads, NEW id \in ids, QueueCancel(t, id)
       PROVE  Faithful'
  <2> DEFINE f == [op |-> "cancel", addr |-> id.addr, seq |-> id.seq, of |-> id.of]
  <2>1. inbox' = Append(inbox, f) /\ UNCHANGED <<ids, adding>>
    BY <1>10 DEF QueueCancel
  <2>2. Names(f)
    BY <1>1 DEF Names, Held
  <2> HIDE DEF f
  <2>3. f.of = f.seq /\ StillHeld(f)
    BY <1>2, <2>2
  <2>4. \A k \in DOMAIN inbox' :
          (k \in DOMAIN inbox /\ inbox'[k] = inbox[k]) \/ inbox'[k] = f
    BY <1>1, <2>1
  <2>5. ASSUME NEW k \in DOMAIN inbox', inbox'[k].op = "cancel"
        PROVE  inbox'[k].of = inbox'[k].seq /\ StillHeld(inbox'[k])
    <3>1. CASE inbox'[k] = f
      BY <2>3, <3>1
    <3>2. CASE k \in DOMAIN inbox /\ inbox'[k] = inbox[k]
      BY <1>5, <2>5, <3>2
    <3> QED
      BY <2>4, <3>1, <3>2
  <2>6. \A j \in ids' : j.of = j.seq /\ StillHeld(j)
    BY <1>3, <1>4, <2>1
  <2> QED
    BY <1>6, <2>1, <2>5, <2>6, FaithfulAfter
<1>11. CASE RunFunctor
  <2>1. UNCHANGED <<ids, adding>> /\ inbox # <<>> /\ inbox' = Tail(inbox)
    BY <1>11 DEF RunFunctor
  <2>2. \A k \in DOMAIN inbox' : k + 1 \in DOMAIN inbox /\ inbox'[k] = inbox[k + 1]
    BY <1>1, <2>1
  <2>3. ASSUME NEW k \in DOMAIN inbox', inbox'[k].op = "cancel"
        PROVE  inbox'[k].of = inbox'[k].seq /\ StillHeld(inbox'[k])
    <3>1. inbox[k + 1].of = inbox[k + 1].seq /\ StillHeld(inbox[k + 1])
      BY <1>5, <2>2, <2>3
    <3> QED
      BY <2>2, <3>1
  <2>4. \A j \in ids' : j.of = j.seq /\ StillHeld(j)
    BY <1>3, <1>4, <2>1
  <2> QED
    BY <1>6, <2>1, <2>3, <2>4, FaithfulAfter
<1>12. CASE UNCHANGED <<ids, inbox, adding>>
  <2>1. \A j \in ids' : j.of = j.seq /\ StillHeld(j)
    BY <1>3, <1>4, <1>12
  <2> QED
    BY <1>5, <1>6, <1>12, <2>1, FaithfulAfter
<1> QED
  BY <1>7, <1>8, <1>9, <1>10, <1>11, <1>12 DEF Next, LoopStep, Cancel, HandleRead, Poll,
     RunTimer, CallbackReturns, Reset, Tick, vars

LEMMA MarksCancelledStep ==
  ASSUME IInv, Right, [Next]_vars
  PROVE  MarksCancelled'
<1>1. /\ \A m \in cancelingTimers : m[2] \in cancelled
      /\ \A id \in ids : Names(id)
      /\ \A k \in DOMAIN inbox : inbox[k].op = "cancel" => Names(inbox[k])
      /\ inbox \in Seq(Functors)
  BY DEF Right, MarksCancelled, Faithful, IInv, CallsTyped
<1>2. ASSUME NEW id, Names(id), CancelInLoop(id)
      PROVE  MarksCancelled'
  <2>1. /\ cancelled' = cancelled \cup {id.seq}
        /\ cancelingTimers' \subseteq cancelingTimers \cup {<<id.addr, id.seq>>}
    BY <1>2 DEF Names, CancelInLoop, Erase, Mark
  <2>2. <<id.addr, id.seq>>[2] = id.seq
    OBVIOUS
  <2> QED
    BY <1>1, <2>1, <2>2 DEF MarksCancelled
<1>3. CASE \E id \in ids : Cancel(id)
  BY <1>1, <1>2, <1>3 DEF Cancel
<1>4. CASE RunFunctor
  <2> DEFINE f == Head(inbox)
  <2>1. /\ 1 \in DOMAIN inbox /\ f = inbox[1]
        /\ (f.op = "cancel" /\ CancelInLoop(f)) \/ UNCHANGED <<cancelingTimers, cancelled>>
    BY <1>1, <1>4 DEF RunFunctor
  <2>2. f.op = "cancel" => Names(f)
    BY <1>1, <2>1
  <2> HIDE DEF f
  <2> QED
    BY <1>1, <1>2, <2>1, <2>2 DEF MarksCancelled
<1>5. CASE UNCHANGED <<cancelingTimers, cancelled>>
  BY <1>1, <1>5 DEF MarksCancelled
<1> QED
  BY <1>3, <1>4, <1>5 DEF Next, LoopStep, AddTimer, QueueAddTimer, ReadSequence,
     QueueCancel, Poll, HandleRead, RunTimer, CallbackReturns, Reset, Tick, vars

LEMMA CancelSurvivors ==
  ASSUME IInv, Right, NEW id, Names(id), CancelInLoop(id),
         UNCHANGED <<created, ran, every>>
  PROVE  Surviving'
<1>1. cancelled' = cancelled \cup {id.seq}
  BY DEF Names, CancelInLoop
<1> SUFFICES ASSUME NEW s \in (1..created) \ cancelled', ~(s \in ran \ every)
             PROVE  \E a \in Addr : heap'[a] # Free /\ heap'[a].seq = s
  BY DEF Surviving, Holds, Allocated
<1>2. s \in (1..created) \ cancelled /\ s # id.seq
  BY <1>1
<1>3. PICK a \in Addr : heap[a] # Free /\ heap[a].seq = s
  BY <1>2 DEF Right, Surviving, Holds, Allocated
<1>4. heap'[a] = heap[a]
  <2>1. CASE UNCHANGED <<heap, timers, activeTimers>>
    BY <2>1
  <2>2. CASE ~UNCHANGED <<heap, timers, activeTimers>>
    <3>1. /\ heap[id.addr].seq = id.seq
          /\ \A c \in Addr \ {id.addr} : heap'[c] = heap[c]
      BY <2>2, CancelHeap
    <3> QED
      BY <1>2, <1>3, <3>1
  <2> QED
    BY <2>1, <2>2
<1> QED
  BY <1>3, <1>4

LEMMA SurvivingStep ==
  ASSUME IInv, Right, [Next]_vars
  PROVE  Surviving'
<1>1. /\ \A s \in (1..created) \ cancelled :
           (\E a \in Addr : heap[a] # Free /\ heap[a].seq = s) \/ s \in ran \ every
      /\ created \in Nat
  BY DEF Right, Surviving, Holds, Allocated, IInv, TypeOK
<1>2. ASSUME NEW b \in Addr, NEW d \in Delays, NEW i \in Intervals,
             Allocate(b, d, i), UNCHANGED <<ran, cancelled>>
      PROVE  Surviving'
  <2>2. /\ created' = created + 1 /\ heap'[b].seq = created + 1 /\ ~Allocated(b)
        /\ \A c \in Addr \ {b} : heap'[c] = heap[c]
        /\ every' \subseteq every \cup {created + 1}
    BY <1>2, NewTimerTyped
  <2>3. ASSUME NEW s \in (1..created') \ cancelled'
        PROVE  \/ \E a \in Addr : heap'[a] # Free /\ heap'[a].seq = s
               \/ s \in ran' \ every'
    <3>1. CASE s = created + 1
      <4>1. heap'[b] # Free
        BY <1>1, <2>2 DEF Free
      <4> QED
        BY <2>2, <3>1, <4>1
    <3>2. CASE s # created + 1
      <4>1. s \in (1..created) \ cancelled
        BY <1>1, <1>2, <2>2, <3>2
      <4>2. CASE s \in ran \ every
        BY <1>2, <2>2, <3>2, <4>2
      <4>3. CASE \E a \in Addr : heap[a] # Free /\ heap[a].seq = s
        BY <2>2, <4>3 DEF Allocated
      <4> QED
        BY <1>1, <4>1, <4>2, <4>3
    <3> QED
      BY <3>1, <3>2
  <2> QED
    BY <2>3 DEF Surviving, Holds, Allocated
<1>3. CASE \E a \in Addr, d \in Delays, i \in Intervals :
             AddTimer(a, d, i) \/ \E t \in Adders : QueueAddTimer(t, a, d, i)
  BY <1>2, <1>3 DEF AddTimer, QueueAddTimer
<1>4. CASE \E id \in ids : Cancel(id)
  <2>1. PICK id \in ids : Cancel(id)
    BY <1>4
  <2>2. Names(id)
    BY DEF Right, Faithful
  <2> QED
    BY <2>1, <2>2, CancelSurvivors DEF Cancel
<1>5. CASE RunFunctor
  <2> DEFINE f == Head(inbox)
  <2>1. /\ 1 \in DOMAIN inbox /\ f = inbox[1] /\ UNCHANGED <<created, ran, every>>
        /\ (f.op = "cancel" /\ CancelInLoop(f)) \/ UNCHANGED <<heap, cancelled>>
    BY <1>5 DEF RunFunctor, IInv, CallsTyped
  <2>2. f.op = "cancel" => Names(f)
    BY <2>1 DEF Right, Faithful
  <2> HIDE DEF f
  <2>3. CASE UNCHANGED <<heap, cancelled>>
    BY <1>1, <2>1, <2>3 DEF Surviving, Holds, Allocated
  <2> QED
    BY <2>1, <2>2, <2>3, CancelSurvivors
<1>6. CASE Reset
  <2>1. UNCHANGED <<created, ran, every, cancelled>> /\ next > Len(batch)
    BY <1>6 DEF Reset
  <2>2. ASSUME NEW s \in (1..created') \ cancelled', ~(s \in ran' \ every')
        PROVE  \E a \in Addr : heap'[a] # Free /\ heap'[a].seq = s
    <3>1. PICK a \in Addr : heap[a] # Free /\ heap[a].seq = s
      BY <1>1, <2>1, <2>2
    <3>2. CASE a \notin BatchAddrs
      BY <1>6, <3>1, <3>2, ResetHeap
    <3>3. CASE a \in BatchAddrs
      <4>1. PICK k \in DOMAIN batch : batch[k][2] = a
        BY <3>3 DEF BatchAddrs
      <4>2. k \in 1..next - 1
        <5>1. k \in 1..Len(batch) /\ Len(batch) \in Nat /\ next \in Nat
          BY BatchIs
        <5> QED
          BY <2>1, <5>1
      <4>3. s \in ran
        BY <3>1, <4>1, <4>2 DEF IInv, RanInBatch
      <4>4. heap[a].interval > 0
        BY <2>1, <2>2, <3>1, <4>3 DEF IInv, Numbered, Allocated
      <4>5. <<a, heap[a].seq>> \notin cancelingTimers
        <5>1. <<a, heap[a].seq>>[2] = s
          BY <3>1
        <5>2. s \notin cancelled
          BY <2>1, <2>2
        <5> QED
          BY <5>1, <5>2 DEF Right, MarksCancelled
      <4>6. Restarts(a)
        BY <4>4, <4>5 DEF Restarts
      <4>7. heap'[a].seq = s
        BY <1>6, <3>1, <3>3, <4>6, ResetHeap
      <4>8. heap'[a] # Free
        BY <2>2, <4>7, <1>1, <2>1 DEF Free
      <4> QED
        BY <4>7, <4>8
    <3> QED
      BY <3>2, <3>3
  <2> QED
    BY <2>2 DEF Surviving, Holds, Allocated
<1>7. CASE RunTimer
  <2>1. UNCHANGED <<heap, created, every, cancelled>> /\ ran \subseteq ran'
    BY <1>7 DEF RunTimer
  <2> QED
    BY <1>1, <2>1 DEF Surviving, Holds, Allocated
<1>8. CASE UNCHANGED <<heap, created, ran, every, cancelled>>
  BY <1>1, <1>8 DEF Surviving, Holds, Allocated
<1> QED
  BY <1>3, <1>4, <1>5, <1>6, <1>7, <1>8 DEF Next, LoopStep, ReadSequence, HandleRead,
     QueueCancel, Poll, CallbackReturns, Tick, vars

LEMMA InitRight == Init => Right
<1> SUFFICES ASSUME Init
             PROVE  Right
  OBVIOUS
<1>1. /\ \A a \in Addr : heap[a] = Free
      /\ created = 0 /\ cancelled = {} /\ cancelingTimers = {}
      /\ ids = {[addr |-> 0, seq |-> 0, of |-> 0]} /\ DOMAIN inbox = {}
      /\ \A t \in Adders : adding[t] = NoTimer
  BY DEF Init
<1>2. MarksCancelled /\ Surviving
  BY <1>1 DEF MarksCancelled, Surviving
<1>3. Faithful
  BY <1>1 DEF Faithful, Names, Held, Holds, Allocated
<1> QED
  BY <1>2, <1>3 DEF Right

(* Until a sequence is misread, TimerIds mean the timers they were handed   *)
(* out for, and no timer vanishes.                                         *)
THEOREM RightUntilMisread == Spec => [](Misread \/ Right)
<1>1. IInv /\ (Misread \/ Right) /\ [Next]_vars => (Misread \/ Right)'
  <2> SUFFICES ASSUME IInv, Misread \/ Right, [Next]_vars, ~Misread'
               PROVE  Right'
    OBVIOUS
  <2>1. ids \subseteq ids'
    BY DEF Next, LoopStep, AddTimer, QueueAddTimer, ReadSequence, Cancel, QueueCancel,
       RunFunctor, Poll, HandleRead, RunTimer, CallbackReturns, Reset, Tick, vars
  <2>2. Right
    BY <2>1 DEF Misread
  <2>3. Faithful
    BY <2>2 DEF Right
  <2> QED
    BY <2>2, <2>3, FaithfulStep, MarksCancelledStep, SurvivingStep DEF Right
<1> QED
  BY Invariance, InitRight, <1>1, PTL DEF Spec

(* No timer that is not cancelled is lost before its callback ran, and no  *)
(* repeating one afterwards, whoever adds and cancels timers: the timer    *)
(* exists, for what was cancelled was another one, and one that exists is  *)
(* queued, waits or is in the batch.                                       *)
THEOREM NoneIsLost == Spec => []NotLost
<1>1. IInv /\ JInv /\ (Misread \/ Right) => NotLost
  <2> SUFFICES ASSUME IInv, JInv, Right, NEW s \in (1..created) \ cancelled,
                      ~(s \in ran \ every)
               PROVE  \/ Waits(s) \/ Queued(s) \/ InBatch(s, next)
                      \/ s \in every /\ InBatch(s, 1)
    BY DEF NotLost
  <2>1. PICK a \in Addr : Allocated(a) /\ heap[a].seq = s
    BY DEF Right, Surviving, Holds
  <2>2. CASE a \in WaitingAddrs
    BY <2>1, <2>2, Entries DEF Waits, WaitingAddrs
  <2>3. CASE a \in QueuedAddrs
    BY <2>1, <2>3, QueuedIs DEF Queued, IInv, QueuedApart, Adds
  <2>4. CASE a \in BatchAddrs
    <3>1. PICK k \in DOMAIN batch : batch[k][2] = a
      BY <2>4 DEF BatchAddrs
    <3>2. k \in 1..Len(batch) /\ next \in Nat /\ Len(batch) \in Nat
      BY BatchIs
    <3>3. k \in next..Len(batch) \/ k \in 1..next - 1
      BY <3>2
    <3>4. CASE k \in next..Len(batch)
      BY <2>1, <3>1, <3>4 DEF InBatch
    <3>5. CASE k \in 1..next - 1
      <4>1. s \in ran
        BY <2>1, <3>1, <3>5 DEF IInv, RanInBatch
      <4> QED
        BY <2>1, <3>1, <3>2, <4>1 DEF InBatch
    <3> QED
      BY <3>3, <3>4, <3>5
  <2> QED
    BY <2>1, <2>2, <2>3, <2>4 DEF JInv, NoLeak
<1> QED
  BY NoTimerLeaks, RightUntilMisread, <1>1, PTL

------------------------------------------------------------------------------
(* Only the loop thread adds timers: no sequence is misread, and a timer    *)
(* that can be cancelled was inserted.                                     *)

OnlyCancels == \A k \in DOMAIN inbox : inbox[k].op = "cancel"

(* A cancelled timer that still exists is in the batch and will be deleted. *)
Stopped ==
  /\ \A a \in Addr : Allocated(a) /\ heap[a].seq \in cancelled =>
       a \in BatchAddrs /\ <<a, heap[a].seq>> \in cancelingTimers
  /\ cancelled \subseteq 0..created

SoloInv == Right /\ OnlyCancels /\ Stopped

LEMMA SoloMisreadsNone ==
  ASSUME Adders = {}, Right, [Next]_vars
  PROVE  ~Misread'
<1>1. \A id \in ids : id.of = id.seq
  BY DEF Right, Faithful, Names
<1>2. \A id \in ids' : id.of = id.seq
  <2>1. ASSUME NEW a \in Addr, NEW d \in Delays, NEW i \in Intervals, AddTimer(a, d, i)
        PROVE  \A id \in ids' : id.of = id.seq
    BY <1>1, <2>1 DEF AddTimer
  <2>2. CASE UNCHANGED ids
    BY <1>1, <2>2
  <2> QED
    BY <2>1, <2>2 DEF Next, LoopStep, Cancel, QueueCancel, RunFunctor, Poll, HandleRead,
       RunTimer, CallbackReturns, Reset, Tick, vars
<1> QED
  BY <1>2 DEF Misread

LEMMA OnlyCancelsStep ==
  ASSUME Adders = {}, IInv, OnlyCancels, [Next]_vars
  PROVE  OnlyCancels'
<1>1. inbox \in Seq(Functors) /\ \A k \in DOMAIN inbox : inbox[k].op = "cancel"
  BY DEF IInv, CallsTyped, OnlyCancels
<1>2. ASSUME NEW t \in Threads, NEW id \in ids, QueueCancel(t, id)
      PROVE  OnlyCancels'
  <2> DEFINE f == [op |-> "cancel", addr |-> id.addr, seq |-> id.seq, of |-> id.of]
  <2>1. inbox' = Append(inbox, f) /\ f.op = "cancel"
    BY <1>2 DEF QueueCancel
  <2> HIDE DEF f
  <2>2. \A k \in DOMAIN inbox' :
          (k \in DOMAIN inbox /\ inbox'[k] = inbox[k]) \/ inbox'[k] = f
    BY <1>1, <2>1
  <2> QED
    BY <1>1, <2>1, <2>2 DEF OnlyCancels
<1>3. CASE RunFunctor
  <2>1. inbox # <<>> /\ inbox' = Tail(inbox)
    BY <1>3 DEF RunFunctor
  <2>2. \A k \in DOMAIN inbox' : k + 1 \in DOMAIN inbox /\ inbox'[k] = inbox[k + 1]
    BY <1>1, <2>1
  <2> QED
    BY <1>1, <2>2 DEF OnlyCancels
<1>4. CASE UNCHANGED inbox
  BY <1>1, <1>4 DEF OnlyCancels
<1> QED
  BY <1>2, <1>3, <1>4 DEF Next, LoopStep, AddTimer, Cancel, Poll, HandleRead, RunTimer,
     CallbackReturns, Reset, Tick, vars

(* cancelInLoop deletes the timer, or marks it: then it is in the batch.    *)
LEMMA CancelStops ==
  ASSUME IInv, JInv, SoloInv, NEW id, Names(id), CancelInLoop(id),
         UNCHANGED <<batch, created, callingExpiredTimers>>
  PROVE  Stopped'
<1>1. /\ id.of = id.seq /\ id.seq \in 0..created
      /\ \A a \in Addr : Allocated(a) /\ heap[a].seq = id.seq => a = id.addr
      /\ cancelled' = cancelled \cup {id.seq}
  BY DEF Names, Held, Holds, CancelInLoop
<1>2. /\ \A a \in Addr : Allocated(a) /\ heap[a].seq \in cancelled =>
           a \in BatchAddrs /\ <<a, heap[a].seq>> \in cancelingTimers
      /\ cancelled \subseteq 0..created
  BY DEF SoloInv, Stopped
<1>3. cancelled' \subseteq 0..created'
  BY <1>1, <1>2
<1>4. cancelingTimers \subseteq cancelingTimers'
  BY DEF CancelInLoop, Erase, Mark
<1>5. ASSUME NEW a \in Addr, heap'[a] # Free, heap'[a].seq \in cancelled'
      PROVE  a \in BatchAddrs /\ <<a, heap'[a].seq>> \in cancelingTimers'
  <2>1. Allocated(a) /\ heap'[a].seq = heap[a].seq
    BY <1>5, HeapShrinks
  <2>2. CASE heap[a].seq \in cancelled
    BY <1>2, <1>4, <2>1, <2>2
  <2>3. CASE heap[a].seq \notin cancelled
    <3>1. heap[a].seq = id.seq /\ a = id.addr
      BY <1>1, <1>5, <2>1, <2>3
    <3>2. CASE Erase(id)
      <4>1. heap'[a] = Free
        BY <3>1, <3>2 DEF Erase, IInv, TypeOK
      <4> QED
        BY <1>5, <4>1
    <3>3. CASE Mark(id)
      <4>1. a \notin WaitingAddrs
        <5>1. \A t \in activeTimers : t = <<t[1], t[2]>> /\ heap[t[1]].seq = t[2]
          BY Entries
        <5>2. <<a, heap[a].seq>> \notin activeTimers
          BY <3>1, <3>3 DEF Mark
        <5> QED
          BY <5>1, <5>2 DEF WaitingAddrs
      <4>2. a \notin QueuedAddrs
        BY QueuedIs DEF SoloInv, OnlyCancels
      <4>3. a \in BatchAddrs
        BY <2>1, <4>1, <4>2 DEF JInv, NoLeak
      <4>4. callingExpiredTimers
        BY <4>3 DEF BatchAddrs, IInv, TypeOK
      <4>5. <<a, heap'[a].seq>> \in cancelingTimers'
        BY <2>1, <3>1, <3>3, <4>4 DEF Mark
      <4> QED
        BY <4>3, <4>5
    <3> QED
      BY <3>2, <3>3 DEF CancelInLoop
  <2> QED
    BY <2>2, <2>3
<1>6. BatchAddrs' = BatchAddrs
  BY DEF BatchAddrs
<1> QED
  BY <1>3, <1>5, <1>6 DEF Stopped, Allocated

LEMMA StoppedStep ==
  ASSUME Adders = {}, IInv, JInv, SoloInv, [Next]_vars
  PROVE  Stopped'
<1>1. /\ \A a \in Addr : Allocated(a) /\ heap[a].seq \in cancelled =>
           a \in BatchAddrs /\ <<a, heap[a].seq>> \in cancelingTimers
      /\ cancelled \subseteq 0..created /\ created \in Nat
  BY DEF SoloInv, Stopped, IInv, TypeOK
<1>2. ASSUME NEW b \in Addr, NEW d \in Delays, NEW i \in Intervals, AddTimer(b, d, i)
      PROVE  Stopped'
  <2>1. /\ Allocate(b, d, i)
        /\ UNCHANGED <<batch, cancelingTimers, cancelled>>
    BY <1>2 DEF AddTimer
  <2>2. /\ created' = created + 1 /\ heap'[b].seq = created + 1
        /\ \A c \in Addr \ {b} : heap'[c] = heap[c]
    BY <2>1, NewTimerTyped
  <2>3. created + 1 \notin cancelled /\ cancelled \subseteq 0..created'
    BY <1>1, <2>2
  <2>4. ASSUME NEW a \in Addr, heap'[a] # Free, heap'[a].seq \in cancelled'
        PROVE  a \in BatchAddrs /\ <<a, heap'[a].seq>> \in cancelingTimers'
    <3>1. a # b
      BY <2>1, <2>2, <2>3, <2>4
    <3>2. heap'[a] = heap[a]
      BY <2>2, <3>1
    <3> QED
      BY <1>1, <2>1, <2>4, <3>2 DEF Allocated
  <2>5. BatchAddrs' = BatchAddrs
    BY <2>1 DEF BatchAddrs
  <2> QED
    BY <2>1, <2>3, <2>4, <2>5 DEF Stopped, Allocated
<1>3. CASE \E id \in ids : Cancel(id)
  <2>1. PICK id \in ids : Cancel(id)
    BY <1>3
  <2>2. Names(id)
    BY DEF SoloInv, Right, Faithful
  <2> QED
    BY <2>1, <2>2, CancelStops DEF Cancel
<1>4. CASE RunFunctor
  <2> DEFINE f == Head(inbox)
  <2>1. /\ 1 \in DOMAIN inbox /\ f = inbox[1]
        /\ UNCHANGED <<batch, created, callingExpiredTimers>>
    BY <1>4 DEF RunFunctor, IInv, CallsTyped
  <2>2. f.op = "cancel" /\ Names(f)
    BY <2>1 DEF SoloInv, OnlyCancels, Right, Faithful
  <2>3. CancelInLoop(f)
    BY <1>4, <2>2 DEF RunFunctor
  <2> HIDE DEF f
  <2> QED
    BY <2>1, <2>2, <2>3, CancelStops
<1>5. CASE HandleRead
  <2>1. batch = <<>> /\ UNCHANGED <<heap, created, cancelled, cancelingTimers>>
    BY <1>5 DEF HandleRead, IInv, TypeOK
  <2>2. BatchAddrs = {}
    BY <2>1 DEF BatchAddrs
  <2> QED
    BY <1>1, <2>1, <2>2 DEF Stopped, Allocated
<1>6. CASE Reset
  <2>1. UNCHANGED <<created, cancelled, cancelingTimers>>
    BY <1>6 DEF Reset
  <2>2. ASSUME NEW a \in Addr, heap'[a] # Free, heap'[a].seq \in cancelled'
        PROVE  FALSE
    <3>1. Allocated(a) /\ heap'[a].seq = heap[a].seq
      BY <1>6, <2>2, HeapShrinks
    <3>2. a \in BatchAddrs /\ <<a, heap[a].seq>> \in cancelingTimers
      BY <1>1, <2>1, <2>2, <3>1
    <3>3. ~Restarts(a)
      BY <3>2 DEF Restarts
    <3> QED
      BY <1>6, <2>2, <3>2, <3>3, ResetHeap
  <2> QED
    BY <1>1, <2>1, <2>2 DEF Stopped, Allocated
<1>7. CASE UNCHANGED <<heap, batch, created, cancelled, cancelingTimers>>
  BY <1>1, <1>7 DEF Stopped, BatchAddrs, Allocated
<1> QED
  BY <1>2, <1>3, <1>4, <1>5, <1>6, <1>7 DEF Next, LoopStep, QueueCancel, Poll,
     RunTimer, CallbackReturns, Tick, vars

(* cancel is final, even when it is called by the callback of the timer     *)
(* itself, which handleRead is about to restart; provided no other thread  *)
(* adds timers: a TimerId from another thread may be wrong, or be cancelled *)
(* before the loop has inserted its timer.                                 *)
THEOREM CancelIsFinal ==
  ASSUME Adders = {}
  PROVE  Spec => []CancelSticks
<1>1. IInv /\ JInv /\ SoloInv /\ [Next]_vars => SoloInv'
  <2> SUFFICES ASSUME IInv, JInv, SoloInv, [Next]_vars
               PROVE  SoloInv'
    OBVIOUS
  <2>1. Right /\ OnlyCancels /\ Faithful
    BY DEF SoloInv, Right
  <2>2. ~Misread'
    BY <2>1, SoloMisreadsNone
  <2>3. Right'
    BY <2>1, <2>2, FaithfulStep, MarksCancelledStep, SurvivingStep DEF Right
  <2>4. OnlyCancels' /\ Stopped'
    BY <2>1, OnlyCancelsStep, StoppedStep
  <2> QED
    BY <2>3, <2>4 DEF SoloInv
<1>2. Init => SoloInv
  <2> SUFFICES ASSUME Init
               PROVE  OnlyCancels /\ Stopped
    BY InitRight DEF SoloInv
  <2>1. /\ \A a \in Addr : heap[a] = Free
        /\ cancelled = {} /\ DOMAIN inbox = {}
    BY DEF Init
  <2> QED
    BY <2>1 DEF OnlyCancels, Stopped, Allocated
<1>3. IInv /\ SoloInv => CancelSticks
  <2> SUFFICES ASSUME IInv, SoloInv, NEW s \in cancelled
               PROVE  ~Waits(s) /\ ~Queued(s)
    BY DEF CancelSticks
  <2>1. ~Queued(s)
    BY DEF SoloInv, OnlyCancels, Queued
  <2>2. ASSUME NEW t \in activeTimers, t[2] = s
        PROVE  FALSE
    <3>1. t[1] \in Addr /\ Allocated(t[1]) /\ heap[t[1]].seq = s
      BY <2>2, Entries
    <3>2. t[1] \in BatchAddrs
      BY <3>1 DEF SoloInv, Stopped
    <3> QED
      BY <3>2 DEF BatchAddrs, IInv, BatchAllocated
  <2> QED
    BY <2>1, <2>2 DEF Waits
<1> QED
  BY NoTimerLeaks, <1>1, <1>2, <1>3, PTL DEF Spec

------------------------------------------------------------------------------
(* TimerQueue implements Schedule.                                         *)

(* The timer at the address a, and those at the addresses A, of a heap h. *)
TimerIn(h, a) == [id |-> h[a].seq, due |-> h[a].exp, period |-> h[a].interval]
TimersIn(h, A) == {TimerIn(h, a) : a \in A}

LEMMA TimerIs == \A a : TimerAt(a) = TimerIn(heap, a) /\ TimerAt(a)' = TimerIn(heap', a)
BY DEF TimerAt, TimerIn

LEMMA MappedTimers ==
  /\ HandedTimers = TimersIn(heap, QueuedAddrs)
  /\ WaitingTimers = TimersIn(heap, WaitingAddrs)
  /\ HandedTimers' = TimersIn(heap', QueuedAddrs')
  /\ WaitingTimers' = TimersIn(heap', WaitingAddrs')
<1>1. HandedTimers = TimersIn(heap, QueuedAddrs)
  BY DEF HandedTimers, TimersIn, TimerIn, TimerAt
<1>2. WaitingTimers = TimersIn(heap, WaitingAddrs)
  BY DEF WaitingTimers, TimersIn, TimerIn, TimerAt
<1>3. HandedTimers' = TimersIn(heap', QueuedAddrs')
  BY DEF HandedTimers, TimersIn, TimerIn, TimerAt
<1>4. WaitingTimers' = TimersIn(heap', WaitingAddrs')
  BY DEF WaitingTimers, TimersIn, TimerIn, TimerAt
<1> QED
  BY <1>1, <1>2, <1>3, <1>4

(* Timers that are not touched stay what they are. *)
LEMMA SameTimers ==
  ASSUME NEW g, NEW h, NEW A, \A a \in A : g[a] = h[a]
  PROVE  TimersIn(g, A) = TimersIn(h, A)
BY DEF TimersIn, TimerIn

LEMMA OneMoreTimer ==
  ASSUME NEW g, NEW h, NEW A, NEW b, NEW B, B = A \cup {b}, \A a \in A : g[a] = h[a]
  PROVE  TimersIn(g, B) = TimersIn(h, A) \cup {TimerIn(g, b)}
<1>1. TimersIn(g, B) = TimersIn(g, A) \cup {TimerIn(g, b)}
  BY DEF TimersIn
<1>2. TimersIn(g, A) = TimersIn(h, A)
  BY SameTimers
<1> QED
  BY <1>1, <1>2

(* Sequences tell timers apart. *)
LEMMA TimersApart ==
  ASSUME IInv, NEW a \in Addr, NEW b \in Addr, Allocated(a),
         TimerAt(a).id = TimerAt(b).id
  PROVE  a = b
<1>1. heap[a].seq = heap[b].seq
  BY DEF TimerAt
<1> QED
  BY <1>1 DEF IInv, Numbered

LEMMA FewerTimers ==
  ASSUME IInv, NEW g, NEW A, NEW B, NEW C, A \subseteq Addr,
         \A a \in A : Allocated(a), B \subseteq A, C = A \ B,
         \A a \in C : g[a] = heap[a]
  PROVE  TimersIn(g, C) = TimersIn(heap, A) \ TimersIn(heap, B)
<1>1. TimersIn(g, C) = TimersIn(heap, C)
  BY SameTimers
<1>2. \A a \in A, b \in B : TimerAt(a) = TimerAt(b) => a = b
  BY TimersApart
<1>3. ASSUME NEW tm
      PROVE  tm \in TimersIn(heap, C) <=>
               tm \in TimersIn(heap, A) /\ tm \notin TimersIn(heap, B)
  <2>1. \A D : tm \in TimersIn(heap, D) <=> \E c \in D : tm = TimerAt(c)
    BY TimerIs DEF TimersIn
  <2> QED
    BY <1>2, <2>1
<1> QED
  BY <1>1, <1>3

(* The batch as Schedule sees it. *)
LEMMA FiringIs ==
  ASSUME IInv
  PROVE  /\ FiringTimers = <<>> <=> batch = <<>>
         /\ FiringTimers \in Seq(TimersIn(heap, BatchAddrs))
         /\ Len(FiringTimers) = Len(batch)
         /\ Sched!Batch = TimersIn(heap, BatchAddrs)
<1>1. Len(batch) \in Nat /\ DOMAIN batch = 1..Len(batch)
  BY BatchIs
<1>2. batch \in Seq(Nat \X Addr)
  BY DEF IInv, TypeOK
<1>3. /\ DOMAIN FiringTimers = 1..Len(batch)
      /\ \A k \in 1..Len(batch) : FiringTimers[k] = TimerAt(batch[k][2])
      /\ FiringTimers = [k \in 1..Len(batch) |-> FiringTimers[k]]
  BY <1>1 DEF FiringTimers
<1>4. \A k \in 1..Len(batch) : FiringTimers[k] \in TimersIn(heap, BatchAddrs)
  BY <1>1, <1>3, TimerIs DEF TimersIn, BatchAddrs
<1>5. FiringTimers \in [1..Len(batch) -> TimersIn(heap, BatchAddrs)]
  BY <1>3, <1>4
<1>6. /\ FiringTimers \in Seq(TimersIn(heap, BatchAddrs))
      /\ Len(FiringTimers) = Len(batch)
  BY <1>1, <1>5
<1>7. FiringTimers = <<>> <=> batch = <<>>
  BY <1>2, <1>6
<1>8. ASSUME NEW tm
      PROVE  tm \in Sched!Batch <=> tm \in TimersIn(heap, BatchAddrs)
  <2>1. tm \in Sched!Batch <=> \E k \in 1..Len(batch) : tm = TimerAt(batch[k][2])
    BY <1>3 DEF Sched!Batch
  <2>2. tm \in TimersIn(heap, BatchAddrs) <=> \E a \in BatchAddrs : tm = TimerAt(a)
    BY TimerIs DEF TimersIn
  <2> QED
    BY <1>1, <2>1, <2>2 DEF BatchAddrs
<1> QED
  BY <1>6, <1>7, <1>8

(* Whether a sequence was misread, when no TimerId is given out, a right   *)
(* one, or any. *)
LEMMA MisreadKept ==
  ASSUME UNCHANGED ids
  PROVE  UNCHANGED Misread
BY Zenon DEF Misread

LEMMA MisreadAfterRight ==
  ASSUME NEW id, id.seq = id.of, ids' = ids \cup {id}
  PROVE  UNCHANGED Misread
<1>1. Misread' <=> Misread
  BY DEF Misread
<1> QED
  BY <1>1, Zenon DEF Misread

LEMMA MisreadStays ==
  ASSUME ids \subseteq ids', Misread
  PROVE  Misread'
BY DEF Misread

LEMMA IdsIn ==
  ASSUME NEW h, NEW A, NEW s
  PROVE  s \in Sched!Ids(TimersIn(h, A)) <=> \E a \in A : h[a].seq = s
<1>1. \A a : TimerIn(h, a).id = h[a].seq
  BY DEF TimerIn
<1>2. s \in Sched!Ids(TimersIn(h, A)) <=> \E a \in A : TimerIn(h, a).id = s
  BY DEF Sched!Ids, TimersIn
<1> QED
  BY <1>1, <1>2

(* A sequence is stopped while its timer exists and is marked. *)
LEMMA StoppedIs ==
  ASSUME IInv, NEW s
  PROVE  s \in StoppedIds <=>
           \E a \in Addr : Allocated(a) /\ heap[a].seq = s /\ <<a, s>> \in cancelingTimers
<1>1. ASSUME NEW m \in LiveMarks, m[2] = s
      PROVE  \E a \in Addr : Allocated(a) /\ heap[a].seq = s /\ <<a, s>> \in cancelingTimers
  <2>1. /\ m \in cancelingTimers /\ m[1] \in Addr
        /\ Allocated(m[1]) /\ heap[m[1]].seq = s
    BY <1>1 DEF LiveMarks
  <2>2. m = <<m[1], s>>
    BY <1>1, <2>1 DEF IInv, TypeOK
  <2> QED
    BY <2>1, <2>2
<1>2. ASSUME NEW a \in Addr, Allocated(a), heap[a].seq = s, <<a, s>> \in cancelingTimers
      PROVE  s \in StoppedIds
  <2>1. <<a, s>>[1] = a /\ <<a, s>>[2] = s
    OBVIOUS
  <2>2. <<a, s>> \in LiveMarks
    BY <1>2, <2>1 DEF LiveMarks
  <2> QED
    BY <2>1, <2>2 DEF StoppedIds
<1> QED
  BY <1>1, <1>2 DEF StoppedIds

LEMMA StoppedNextIs ==
  ASSUME IInv', NEW s
  PROVE  s \in StoppedIds' <=>
           \E a \in Addr : /\ heap'[a] # Free /\ heap'[a].seq = s
                           /\ <<a, s>> \in cancelingTimers'
<1>1. ASSUME NEW m \in LiveMarks', m[2] = s
      PROVE  \E a \in Addr : /\ heap'[a] # Free /\ heap'[a].seq = s
                             /\ <<a, s>> \in cancelingTimers'
  <2>1. /\ m \in cancelingTimers' /\ m[1] \in Addr
        /\ heap'[m[1]] # Free /\ heap'[m[1]].seq = s
    BY <1>1 DEF LiveMarks, Allocated
  <2>2. m = <<m[1], s>>
    BY <1>1, <2>1 DEF IInv, TypeOK
  <2> QED
    BY <2>1, <2>2
<1>2. ASSUME NEW a \in Addr, heap'[a] # Free, heap'[a].seq = s,
             <<a, s>> \in cancelingTimers'
      PROVE  s \in StoppedIds'
  <2>1. <<a, s>>[1] = a /\ <<a, s>>[2] = s
    OBVIOUS
  <2>2. <<a, s>> \in LiveMarks'
    BY <1>2, <2>1 DEF LiveMarks, Allocated
  <2> QED
    BY <2>1, <2>2 DEF StoppedIds
<1> QED
  BY <1>1, <1>2 DEF StoppedIds

(* What a step that leaves the batch and its timers leaves in Schedule. *)
LEMMA FiringKept ==
  ASSUME IInv, UNCHANGED batch, \A a \in BatchAddrs : heap'[a] = heap[a]
  PROVE  UNCHANGED FiringTimers
<1>1. \A k \in DOMAIN batch : heap'[batch[k][2]] = heap[batch[k][2]]
  BY DEF BatchAddrs
<1> QED
  BY <1>1 DEF FiringTimers, TimerAt

(* No mark is about a timer that is being made. *)
LEMMA AllocateStopped ==
  ASSUME IInv, JInv, IInv', UNCHANGED cancelingTimers,
         NEW b \in Addr, NEW d \in Delays, NEW i \in Intervals, Allocate(b, d, i)
  PROVE  UNCHANGED StoppedIds
<1>1. /\ ~Allocated(b) /\ heap'[b].seq = created + 1 /\ created \in Nat
      /\ \A a \in Addr \ {b} : heap'[a] = heap[a]
  BY NewTimerTyped
<1>2. ASSUME NEW s
      PROVE  s \in StoppedIds' <=> s \in StoppedIds
  <2>1. \A m \in cancelingTimers : m[2] # created + 1
    BY <1>1 DEF JInv, NumbersKnown
  <2>2. <<b, s>> \in cancelingTimers => s # created + 1
    <3>1. <<b, s>>[2] = s
      OBVIOUS
    <3> QED
      BY <2>1, <3>1
  <2>3. s \in StoppedIds <=>
          \E a \in Addr : Allocated(a) /\ heap[a].seq = s /\ <<a, s>> \in cancelingTimers
    BY StoppedIs
  <2>4. s \in StoppedIds' <=>
          \E a \in Addr : /\ heap'[a] # Free /\ heap'[a].seq = s
                          /\ <<a, s>> \in cancelingTimers
    BY StoppedNextIs
  <2> QED
    BY <1>1, <2>2, <2>3, <2>4 DEF Allocated
<1> QED
  BY <1>2

(* The timers at addresses that are not being given out. *)
LEMMA AllocateKeeps ==
  ASSUME IInv, NEW b \in Addr, NEW d \in Delays, NEW i \in Intervals,
         Allocate(b, d, i)
  PROVE  /\ \A a \in QueuedAddrs \cup WaitingAddrs \cup BatchAddrs : heap'[a] = heap[a]
         /\ TimerIn(heap', b) = Sched!NewTimer(d, i)
<1>1. /\ ~Allocated(b) /\ heap'[b] = NewTimer(d, i)
      /\ \A a \in Addr \ {b} : heap'[a] = heap[a]
  BY NewTimerTyped
<1>2. \A a \in QueuedAddrs \cup WaitingAddrs \cup BatchAddrs : a \in Addr \ {b}
  BY <1>1, Places
<1>3. TimerIn(heap', b) = Sched!NewTimer(d, i)
  BY <1>1 DEF TimerIn, NewTimer, Sched!NewTimer
<1> QED
  BY <1>1, <1>2, <1>3

(* runAt, runAfter and runEvery in the loop thread. *)
LEMMA AddTimerIsSet ==
  ASSUME IInv, JInv, IInv', NEW b \in Addr, NEW d \in Delays, NEW i \in Intervals,
         AddTimer(b, d, i)
  PROVE  Sched!Set(d, i)
<1>1. /\ Allocate(b, d, i) /\ AddTimerInLoop(b, NewTimer(d, i))
      /\ UNCHANGED <<now, cancelingTimers, batch, next, since, inbox, cancelled>>
  BY DEF AddTimer
<1>2. /\ \A a \in QueuedAddrs \cup WaitingAddrs \cup BatchAddrs : heap'[a] = heap[a]
      /\ TimerIn(heap', b) = Sched!NewTimer(d, i)
  BY <1>1, AllocateKeeps
<1>3. created' = created + 1
  BY <1>1, NewTimerTyped
<1>4. WaitingAddrs' = WaitingAddrs \cup {b} /\ QueuedAddrs' = QueuedAddrs
  BY <1>1, InsertMoves DEF QueuedAddrs
<1>5. TimersIn(heap', WaitingAddrs') = TimersIn(heap, WaitingAddrs) \cup {TimerIn(heap', b)}
  BY <1>2, <1>4, OneMoreTimer
<1>6. WaitingTimers' = WaitingTimers \cup {Sched!NewTimer(d, i)}
  BY <1>2, <1>5, MappedTimers
<1>7. UNCHANGED HandedTimers
  BY <1>2, <1>4, MappedTimers, SameTimers
<1>8. UNCHANGED FiringTimers
  BY <1>1, <1>2, FiringKept
<1>9. UNCHANGED StoppedIds
  BY <1>1, AllocateStopped
<1>10. UNCHANGED Misread
  <2> DEFINE id == [addr |-> b, seq |-> created + 1, of |-> created + 1]
  <2>1. id.seq = id.of /\ ids' = ids \cup {id}
    BY DEF AddTimer
  <2> HIDE DEF id
  <2> QED
    BY <2>1, MisreadAfterRight
<1> QED
  BY <1>1, <1>3, <1>6, <1>7, <1>8, <1>9, <1>10 DEF Sched!Set, FoundDue

(* The same in another thread. *)
LEMMA QueueAddTimerIsHand ==
  ASSUME IInv, JInv, IInv', NEW t \in Adders, NEW b \in Addr, NEW d \in Delays,
         NEW i \in Intervals, QueueAddTimer(t, b, d, i)
  PROVE  Sched!Hand(d, i)
<1> DEFINE f == [op |-> "add", addr |-> b, seq |-> created + 1, of |-> created + 1]
<1>1. /\ Allocate(b, d, i) /\ inbox' = Append(inbox, f)
      /\ UNCHANGED <<now, cancelingTimers, batch, next, since, activeTimers,
                     cancelled, ids>>
  BY DEF QueueAddTimer
<1>2. /\ \A a \in QueuedAddrs \cup WaitingAddrs \cup BatchAddrs : heap'[a] = heap[a]
      /\ TimerIn(heap', b) = Sched!NewTimer(d, i)
  BY <1>1, AllocateKeeps
<1>3. created' = created + 1 /\ created + 1 \in 0..MaxSeq
  BY <1>1, NewTimerTyped DEF Seqs
<1>4. f \in Functors /\ f.op = "add" /\ f.addr = b
  BY <1>3 DEF Functors
<1> HIDE DEF f
<1>5. QueuedAddrs' = QueuedAddrs \cup {b} /\ WaitingAddrs' = WaitingAddrs
  BY <1>1, <1>4, FunctorQueued DEF WaitingAddrs
<1>6. TimersIn(heap', QueuedAddrs') = TimersIn(heap, QueuedAddrs) \cup {TimerIn(heap', b)}
  BY <1>2, <1>5, OneMoreTimer
<1>7. HandedTimers' = HandedTimers \cup {Sched!NewTimer(d, i)}
  BY <1>2, <1>6, MappedTimers
<1>8. UNCHANGED WaitingTimers
  BY <1>2, <1>5, MappedTimers, SameTimers
<1>9. UNCHANGED FiringTimers
  BY <1>1, <1>2, FiringKept
<1>10. UNCHANGED StoppedIds
  BY <1>1, AllocateStopped
<1>11. UNCHANGED Misread
  BY <1>1, MisreadKept
<1> QED
  BY <1>1, <1>3, <1>7, <1>8, <1>9, <1>10, <1>11 DEF Sched!Hand, FoundDue

(* cancelInLoop: it cancels the timer meant if that one waits, and stops it *)
(* if it is of the batch, or still queued, and a callback calls; else it   *)
(* does nothing.  After a misread it may be another timer.                 *)
LEMMA CancelCancels ==
  ASSUME IInv, JInv, IInv', NEW id, CancelInLoop(id), id.addr \in Addr \cup {0},
         id.seq \in 0..MaxSeq, Misread \/ Names(id),
         UNCHANGED <<now, created, batch, next, since, QueuedAddrs, ids>>,
         pc = "user" \/ pc = "callback"
  PROVE  Sched!SchedNext
<1> DEFINE s == id.seq
           a == id.addr
<1>3. /\ cancelled' = cancelled \cup {id.of}
      /\ UNCHANGED Misread
      /\ Sched!Means(id.of, s)
  <2>1. cancelled' = cancelled \cup {id.of}
    BY DEF CancelInLoop
  <2>2. UNCHANGED Misread
    BY MisreadKept
  <2>3. id.of = s \/ Misread
    BY DEF Names
  <2> QED
    BY <2>1, <2>2, <2>3 DEF Sched!Means
<1>1. CASE Mark(id) /\ UNCHANGED <<heap, activeTimers, WaitingAddrs>>
  <2>1. UNCHANGED <<HandedTimers, WaitingTimers, FiringTimers, FoundDue>>
    <3>1. UNCHANGED HandedTimers /\ UNCHANGED WaitingTimers
      BY <1>1, MappedTimers
    <3> QED
      BY <1>1, <3>1 DEF FiringTimers, FoundDue, TimerAt
  <2>2. /\ <<a, s>> \notin activeTimers
        /\ cancelingTimers' = IF callingExpiredTimers
                                THEN cancelingTimers \cup {<<a, s>>}
                                ELSE cancelingTimers
    BY <1>1 DEF Mark
  <2>3. CASE callingExpiredTimers /\ a \in Addr /\ Allocated(a) /\ heap[a].seq = s
    <3>1. a \notin WaitingAddrs
      <4>1. ASSUME NEW t \in activeTimers, t[1] = a
            PROVE  FALSE
        <5>1. t = <<t[1], t[2]>> /\ heap[t[1]].seq = t[2]
          BY Entries
        <5> QED
          BY <2>2, <2>3, <4>1, <5>1
      <4> QED
        BY <4>1 DEF WaitingAddrs
    <3>2. a \in QueuedAddrs \/ a \in BatchAddrs
      BY <2>3, <3>1 DEF JInv, NoLeak
    <3>3. s \in Sched!Ids(Sched!Batch) \cup Sched!Ids(HandedTimers)
      <4>1. a \in QueuedAddrs => s \in Sched!Ids(HandedTimers)
        BY <2>3, IdsIn, MappedTimers
      <4>2. a \in BatchAddrs => s \in Sched!Ids(Sched!Batch)
        BY <2>3, IdsIn, FiringIs
      <4> QED
        BY <3>2, <4>1, <4>2
    <3>4. ASSUME NEW r
          PROVE  r \in StoppedIds' <=> r \in StoppedIds \/ r = s
      <4>1. r = s => r \in StoppedIds'
        BY <1>1, <2>2, <2>3, StoppedNextIs DEF Allocated
      <4>2. r \in StoppedIds => r \in StoppedIds'
        BY <1>1, <2>2, <2>3, StoppedIs, StoppedNextIs DEF Allocated
      <4>3. \A b : <<b, r>> = <<a, s>> => r = s
        OBVIOUS
      <4>4. r \in StoppedIds' => r \in StoppedIds \/ r = s
        BY <1>1, <2>2, <2>3, <4>3, StoppedIs, StoppedNextIs DEF Allocated
      <4> QED
        BY <4>1, <4>2, <4>4
    <3>5. StoppedIds' = StoppedIds \cup {s}
      BY <3>4
    <3>6. next - 1 > 0
      <4>1. pc = "callback"
        BY <2>3 DEF IInv, TypeOK
      <4>2. next \in Nat
        BY BatchIs
      <4> QED
        BY <4>1, <4>2 DEF JInv, CallbackRuns
    <3>7. Sched!Stop(id.of, s)
      BY <1>3, <2>1, <3>5, <3>6 DEF Sched!Stop
    <3> QED
      BY <1>3, <3>3, <3>7 DEF Sched!SchedNext
  <2>4. CASE ~(callingExpiredTimers /\ a \in Addr /\ Allocated(a) /\ heap[a].seq = s)
    <3>1. ASSUME NEW r
          PROVE  r \in StoppedIds' <=> r \in StoppedIds
      <4>1. r \in StoppedIds => r \in StoppedIds'
        BY <1>1, <2>2, StoppedIs, StoppedNextIs DEF Allocated
      <4>2. \A b : <<b, r>> = <<a, s>> => r = s /\ b = a
        OBVIOUS
      <4>3. r \in StoppedIds' => r \in StoppedIds
        BY <1>1, <2>2, <2>4, <4>2, StoppedIs, StoppedNextIs DEF Allocated
      <4> QED
        BY <4>1, <4>3
    <3>2. UNCHANGED StoppedIds
      BY <3>1
    <3>3. ASSUME ~Misread
          PROVE  /\ id.of = s
                 /\ \A b \in Addr : Allocated(b) /\ heap[b].seq = s => b = a
      BY <3>3 DEF Names, Held, Holds
    <3>4. ASSUME ~Misread
          PROVE  id.of \notin Sched!Ids(WaitingTimers)
      <4> SUFFICES ASSUME s \in Sched!Ids(WaitingTimers)
                   PROVE  FALSE
        BY <3>3, <3>4
      <4>1. PICK b \in WaitingAddrs : heap[b].seq = s
        BY IdsIn, MappedTimers
      <4>2. b \in Addr /\ Allocated(b)
        BY Places
      <4>3. b = a
        BY <3>3, <3>4, <4>1, <4>2
      <4>4. PICK t \in activeTimers : t[1] = a
        BY <4>3 DEF WaitingAddrs
      <4>5. t = <<t[1], t[2]>> /\ heap[t[1]].seq = t[2]
        BY Entries
      <4> QED
        BY <2>2, <4>1, <4>3, <4>4, <4>5
    <3>5. ASSUME ~Misread, next - 1 > 0
          PROVE  id.of \notin Sched!Ids(Sched!Batch) \cup Sched!Ids(HandedTimers)
      <4>1. callingExpiredTimers
        <5>1. pc = "user" => next = 1
          BY DEF IInv, TypeOK
        <5> QED
          BY <3>5, <5>1 DEF IInv, TypeOK
      <4>2. \A b \in BatchAddrs \cup QueuedAddrs : heap[b].seq # s
        <5> SUFFICES ASSUME NEW b \in BatchAddrs \cup QueuedAddrs, heap[b].seq = s
                     PROVE  FALSE
          OBVIOUS
        <5>1. b \in Addr /\ Allocated(b)
          BY Places
        <5>2. b = a
          BY <3>3, <3>5, <5>1
        <5> QED
          BY <2>4, <4>1, <5>1, <5>2
      <4>3. s \notin Sched!Ids(Sched!Batch)
        BY <4>2, IdsIn, FiringIs
      <4>4. s \notin Sched!Ids(HandedTimers)
        BY <4>2, IdsIn, MappedTimers
      <4> QED
        BY <3>3, <3>5, <4>3, <4>4
    <3>6. Sched!Miss(id.of)
      <4>1. \/ Misread
            \/ /\ id.of \notin Sched!Ids(WaitingTimers)
               /\ next - 1 > 0 =>
                    id.of \notin Sched!Ids(Sched!Batch) \cup Sched!Ids(HandedTimers)
        BY <3>4, <3>5
      <4> QED
        BY <1>3, <2>1, <3>2, <4>1 DEF Sched!Miss
    <3> QED
      BY <1>3, <3>6 DEF Sched!SchedNext
  <2> QED
    BY <2>3, <2>4
<1>2. CASE /\ UNCHANGED cancelingTimers
           /\ a \in WaitingAddrs /\ heap[a].seq = s
           /\ WaitingAddrs' = WaitingAddrs \ {a}
           /\ heap'[a] = Free
           /\ \A b \in Addr \ {a} : heap'[b] = heap[b]
  <2>1. /\ a \in Addr /\ Allocated(a) /\ a \notin QueuedAddrs /\ a \notin BatchAddrs
        /\ \A b \in QueuedAddrs \cup WaitingAddrs \cup BatchAddrs :
             b \in Addr /\ Allocated(b)
    BY <1>2, Places
  <2>2. UNCHANGED HandedTimers
    BY <1>2, <2>1, MappedTimers, SameTimers
  <2>3. UNCHANGED FiringTimers
    BY <1>2, <2>1, FiringKept
  <2>4. TimersIn(heap', WaitingAddrs') =
          TimersIn(heap, WaitingAddrs) \ TimersIn(heap, {a})
    <3>1. /\ WaitingAddrs \subseteq Addr /\ \A b \in WaitingAddrs : Allocated(b)
          /\ {a} \subseteq WaitingAddrs
          /\ WaitingAddrs' = WaitingAddrs \ {a}
          /\ \A b \in WaitingAddrs' : heap'[b] = heap[b]
      BY <1>2, <2>1
    <3>2. IInv
      OBVIOUS
    <3> HIDE DEF a, s
    <3> QED
      BY ONLY <3>1, <3>2, FewerTimers
  <2>5. TimersIn(heap, {a}) = {TimerAt(a)} /\ TimerAt(a) \in WaitingTimers
    BY <1>2, TimerIs DEF TimersIn, WaitingTimers
  <2>6. WaitingTimers' = WaitingTimers \ {TimerAt(a)}
    BY <2>4, <2>5, MappedTimers
  <2>7. ASSUME NEW r
        PROVE  r \in StoppedIds' <=> r \in StoppedIds /\ r # s
    <3>1. \A b \in Addr : heap[b].seq = s => b = a
      BY <1>2, <2>1 DEF IInv, Numbered
    <3>2. r \in StoppedIds <=>
            \E b \in Addr : Allocated(b) /\ heap[b].seq = r /\ <<b, r>> \in cancelingTimers
      BY StoppedIs
    <3>3. r \in StoppedIds' <=>
            \E b \in Addr : /\ heap'[b] # Free /\ heap'[b].seq = r
                            /\ <<b, r>> \in cancelingTimers
      BY <1>2, StoppedNextIs
    <3> HIDE DEF a, s
    <3> QED
      BY <1>2, <2>1, <3>1, <3>2, <3>3 DEF Allocated
  <2>8. StoppedIds' = StoppedIds \ {TimerAt(a).id}
    <3>1. TimerAt(a).id = s
      BY <1>2 DEF TimerAt
    <3> HIDE DEF s, a
    <3> QED
      BY <2>7, <3>1
  <2>9. Sched!Cancel(id.of, TimerAt(a))
    <3>1. TimerAt(a).id = s
      BY <1>2 DEF TimerAt
    <3>2. Sched!Means(id.of, TimerAt(a).id) /\ UNCHANGED FoundDue
      BY <1>3, <3>1 DEF FoundDue
    <3> QED
      BY <1>3, <2>2, <2>3, <2>6, <2>8, <3>2 DEF Sched!Cancel
  <2> QED
    BY <1>3, <2>5, <2>9 DEF Sched!SchedNext
<1> QED
  BY <1>1, <1>2, CancelMoves

(* A functor: addTimerInLoop accepts the timer another thread made. *)
LEMMA RunFunctorRuns ==
  ASSUME IInv, JInv, IInv', Misread \/ Right, RunFunctor
  PROVE  Sched!SchedNext
<1> DEFINE f == Head(inbox)
<1>1. /\ pc = "user" /\ inbox # <<>> /\ inbox' = Tail(inbox)
      /\ UNCHANGED <<now, created, batch, next, since, ids>>
  BY DEF RunFunctor
<1>2. IF f.op = "add"
        THEN f.addr \in QueuedAddrs /\ QueuedAddrs' = QueuedAddrs \ {f.addr}
        ELSE QueuedAddrs' = QueuedAddrs
  BY <1>1, FunctorTaken
<1>3. f \in Functors
  BY <1>1 DEF IInv, CallsTyped
<1>4. CASE f.op = "add"
  <2> DEFINE a == f.addr
  <2>1. /\ AddTimerInLoop(a, heap[a])
        /\ UNCHANGED <<heap, cancelingTimers, cancelled>>
    BY <1>1, <1>4 DEF RunFunctor
  <2>2. WaitingAddrs' = WaitingAddrs \cup {a}
    BY <2>1, InsertMoves
  <2>3. a \in QueuedAddrs /\ QueuedAddrs' = QueuedAddrs \ {a}
    BY <1>2, <1>4
  <2> HIDE DEF f, a
  <2>4. TimersIn(heap', WaitingAddrs') = TimersIn(heap, WaitingAddrs) \cup {TimerIn(heap', a)}
    <3>1. \A b \in WaitingAddrs : heap'[b] = heap[b]
      BY <2>1
    <3> QED
      BY <2>2, <3>1, OneMoreTimer
  <2>5. WaitingTimers' = WaitingTimers \cup {TimerIn(heap, a)}
    BY <2>1, <2>4, MappedTimers
  <2>6. TimersIn(heap', QueuedAddrs') = TimersIn(heap, QueuedAddrs) \ TimersIn(heap, {a})
    <3>1. /\ QueuedAddrs \subseteq Addr /\ \A b \in QueuedAddrs : Allocated(b)
          /\ {a} \subseteq QueuedAddrs /\ \A b \in QueuedAddrs' : heap'[b] = heap[b]
      BY <2>1, <2>3, Places
    <3> QED
      BY <2>3, <3>1, FewerTimers
  <2>7. TimersIn(heap, {a}) = {TimerIn(heap, a)} /\ TimerIn(heap, a) \in HandedTimers
    BY <2>3, TimerIs DEF TimersIn, HandedTimers
  <2>8. HandedTimers' = HandedTimers \ {TimerIn(heap, a)}
    BY <2>6, <2>7, MappedTimers
  <2>9. batch = <<>> /\ FiringTimers = <<>> /\ UNCHANGED FiringTimers
    <3>1. batch = <<>>
      BY <1>1 DEF IInv, TypeOK
    <3>2. UNCHANGED FiringTimers
      BY <1>1, <2>1 DEF FiringTimers, TimerAt
    <3> QED
      BY <3>1, <3>2, FiringIs
  <2>10. UNCHANGED StoppedIds
    BY <2>1 DEF StoppedIds, LiveMarks, Allocated
  <2>11. Sched!Accept(TimerIn(heap, a))
    <3>1. UNCHANGED Misread
      BY <1>1, MisreadKept
    <3> QED
      BY <1>1, <2>1, <2>5, <2>8, <2>9, <2>10, <3>1 DEF Sched!Accept, FoundDue
  <2> QED
    BY <2>7, <2>11 DEF Sched!SchedNext
<1>5. CASE f.op # "add"
  <2>1. CancelInLoop(f)
    BY <1>1, <1>5 DEF RunFunctor
  <2>2. f.addr \in Addr \cup {0} /\ f.seq \in 0..MaxSeq
    BY <1>3 DEF Functors
  <2>3. Right => Names(f)
    <3>1. 1 \in DOMAIN inbox /\ f = inbox[1] /\ f.op = "cancel"
      BY <1>1, <1>3, <1>5 DEF Functors, IInv, CallsTyped
    <3> QED
      BY <3>1 DEF Right, Faithful
  <2> HIDE DEF f
  <2> QED
    BY <1>1, <1>2, <1>5, <2>1, <2>2, <2>3, CancelCancels
<1> QED
  BY <1>4, <1>5

LEMMA SeqOf ==
  ASSUME NEW S, NEW n \in Nat, NEW q \in [1..n -> S]
  PROVE  q \in Seq(S)
OBVIOUS

(* getExpired finds the timers whose time has come, if there are any. *)
LEMMA HandleReadExpires ==
  ASSUME IInv, JInv, IInv', HandleRead
  PROVE  Sched!Expire \/ UNCHANGED Sched!schedVars
<1> DEFINE due == {a \in WaitingAddrs : heap[a].exp <= now}
           came == {tm \in WaitingTimers : tm.due <= now}
           old == {e \in timers : e[1] <= now}
<1>1. /\ BatchAddrs' = due /\ WaitingAddrs' = WaitingAddrs \ due
      /\ batch' \in Vectors(old)
      /\ batch = <<>> /\ UNCHANGED heap
  BY ExpiredMove
<1>2. /\ since' = now /\ next' = 1
      /\ UNCHANGED <<now, created, cancelingTimers, inbox, cancelled, Misread>>
  BY MisreadKept DEF HandleRead
<1>3. next = 1
  BY <1>1 DEF IInv, TypeOK
<1>4. came = TimersIn(heap, due)
  <2>1. ASSUME NEW a
        PROVE  TimerAt(a).due = heap[a].exp
    BY DEF TimerAt
  <2>2. ASSUME NEW tm
        PROVE  tm \in came <=> tm \in TimersIn(heap, due)
    BY <2>1, TimerIs DEF WaitingTimers, TimersIn
  <2> QED
    BY <2>2
<1>5. TimersIn(heap', WaitingAddrs') = TimersIn(heap, WaitingAddrs) \ TimersIn(heap, due)
  <2>1. /\ WaitingAddrs \subseteq Addr /\ \A b \in WaitingAddrs : Allocated(b)
        /\ due \subseteq WaitingAddrs /\ \A b \in WaitingAddrs' : heap'[b] = heap[b]
        /\ WaitingAddrs' = WaitingAddrs \ due
    BY <1>1, Places
  <2> HIDE DEF due
  <2> QED
    BY <2>1, FewerTimers
<1>6. WaitingTimers' = WaitingTimers \ came
  <2> HIDE DEF came, due
  <2> QED
    BY <1>4, <1>5, MappedTimers
<1>7. UNCHANGED HandedTimers
  <2>1. UNCHANGED QueuedAddrs
    BY <1>2 DEF QueuedAddrs
  <2> QED
    BY <1>1, <2>1, MappedTimers
<1>8. UNCHANGED StoppedIds
  BY <1>1, <1>2 DEF StoppedIds, LiveMarks, Allocated
<1>9. FiringTimers = <<>>
  BY <1>1, FiringIs
<1>10. /\ DOMAIN batch' = 1..Len(batch') /\ Len(batch') \in Nat
       /\ batch' \in Seq(Nat \X Addr)
  <2>1. batch' \in Seq(Nat \X Addr)
    BY DEF IInv, TypeOK
  <2> QED
    BY <2>1
<1>11. CASE due = {}
  <2>1. batch' = <<>>
    <3>1. DOMAIN batch' = {}
      BY <1>1, <1>11 DEF BatchAddrs
    <3> QED
      BY <1>10, <3>1
  <2>2. UNCHANGED <<FiringTimers, FoundDue>>
    BY <1>1, <2>1 DEF FiringTimers, FoundDue
  <2>3. came = {}
    <3> HIDE DEF came, due
    <3> QED
      BY <1>4, <1>11 DEF TimersIn
  <2>4. UNCHANGED WaitingTimers
    BY <1>6, <2>3
  <2> QED
    BY <1>2, <1>3, <1>7, <1>8, <2>2, <2>4 DEF Sched!schedVars
<1>12. CASE due # {}
  <2>1. /\ DOMAIN FiringTimers' = 1..Len(batch')
        /\ \A k \in 1..Len(batch') : FiringTimers'[k] = TimerIn(heap, batch'[k][2])
        /\ FiringTimers' = [k \in 1..Len(batch') |-> FiringTimers'[k]]
    BY <1>1, <1>10, TimerIs DEF FiringTimers
  <2>2. \A k \in 1..Len(batch') : batch'[k][2] \in due /\ batch'[k] \in old
    <3>1. \A k \in DOMAIN batch' : batch'[k][2] \in due
      BY <1>1 DEF BatchAddrs
    <3>2. \A k \in DOMAIN batch' : batch'[k] \in old
      BY <1>1, VectorsAre
    <3> QED
      BY <1>10, <3>1, <3>2
  <2>3. FiringTimers' \in Seq(came)
    <3>1. \A k \in 1..Len(batch') : FiringTimers'[k] \in came
      <4> HIDE DEF came, due, old
      <4> QED
        BY <1>4, <2>1, <2>2 DEF TimersIn
    <3> HIDE DEF came
    <3>2. FiringTimers' \in [1..Len(batch') -> came]
      BY <2>1, <3>1
    <3> QED
      BY <1>10, <3>2, SeqOf
  <2>4. ASSUME NEW tm \in came
        PROVE  \E k \in DOMAIN FiringTimers' : FiringTimers'[k] = tm
    <3> HIDE DEF came, due
    <3>1. PICK a \in due : tm = TimerIn(heap, a)
      BY <1>4 DEF TimersIn
    <3>2. PICK k \in DOMAIN batch' : batch'[k][2] = a
      BY <1>1 DEF BatchAddrs
    <3> QED
      BY <1>10, <2>1, <3>1, <3>2
  <2>5. ASSUME NEW j \in DOMAIN FiringTimers', NEW k \in DOMAIN FiringTimers', j < k
        PROVE  /\ FiringTimers'[j].due <= FiringTimers'[k].due
               /\ FiringTimers'[j] # FiringTimers'[k]
    <3> DEFINE x == batch'[j][2]
               y == batch'[k][2]
    <3>1. Before(batch'[j], batch'[k])
      BY <1>1, <1>10, <2>1, <2>5, VectorsAre
    <3>2. /\ x \in Addr /\ y \in Addr /\ Allocated(x)
          /\ heap[x].exp = batch'[j][1] /\ heap[y].exp = batch'[k][1]
          /\ batch'[j][1] \in Nat /\ batch'[k][1] \in Nat
      BY <2>1, <2>2, Entries
    <3>3. x \in Nat /\ y \in Nat
      BY <3>2, TimerQueueAssumption
    <3>4. x # y /\ heap[x].exp <= heap[y].exp
      BY <3>1, <3>2, <3>3 DEF Before
    <3>5. /\ FiringTimers'[j] = TimerIn(heap, x) /\ FiringTimers'[k] = TimerIn(heap, y)
      BY <2>1
    <3> HIDE DEF x, y
    <3>6. TimerIn(heap, x) # TimerIn(heap, y)
      BY <3>2, <3>4, TimersApart, TimerIs
    <3>7. TimerIn(heap, x).due = heap[x].exp /\ TimerIn(heap, y).due = heap[y].exp
      BY DEF TimerIn
    <3> QED
      BY <3>4, <3>5, <3>6, <3>7
  <2>6. Sched!InOrder(FiringTimers', came)
    <3> HIDE DEF came
    <3> QED
      BY <2>3, <2>4, <2>5 DEF Sched!InOrder
  <2>7. came # {}
    <3> HIDE DEF came, due
    <3> QED
      BY <1>4, <1>12 DEF TimersIn
  <2>8. FoundDue' = now
    <3>1. PICK k \in DOMAIN batch' : TRUE
      BY <1>1, <1>12 DEF BatchAddrs
    <3>2. batch' # <<>>
      BY <3>1
    <3> QED
      BY <1>2, <3>2 DEF FoundDue
  <2> QED
    BY <1>2, <1>3, <1>6, <1>7, <1>8, <1>9, <2>6, <2>7, <2>8 DEF Sched!Expire
<1> QED
  BY <1>11, <1>12

(* it->second->run() *)
LEMMA RunTimerFires ==
  ASSUME IInv, RunTimer
  PROVE  Sched!Fire
<1>1. /\ next <= Len(batch) /\ next' = next + 1
      /\ UNCHANGED <<now, created, heap, activeTimers, cancelingTimers, batch,
                     since, inbox, cancelled, Misread>>
  BY MisreadKept DEF RunTimer
<1>2. Len(FiringTimers) = Len(batch) /\ Len(batch) \in Nat /\ next \in Nat
  BY BatchIs, FiringIs
<1>3. UNCHANGED <<HandedTimers, WaitingTimers, FiringTimers, FoundDue, StoppedIds>>
  BY <1>1 DEF HandedTimers, WaitingTimers, FiringTimers, FoundDue, StoppedIds,
     QueuedAddrs, WaitingAddrs, LiveMarks, TimerAt, Allocated
<1> QED
  BY <1>1, <1>2, <1>3 DEF Sched!Fire

(* reset: what repeats and is not marked waits again, the rest is deleted.  *)
LEMMA ResetFinishes ==
  ASSUME IInv, JInv, IInv', Reset
  PROVE  Sched!Finish \/ UNCHANGED Sched!schedVars
<1> DEFINE again == {a \in BatchAddrs : Restarts(a)}
           restarted == {[tm EXCEPT !.due = FoundDue + tm.period] : tm \in Sched!Again}
<1>1. /\ WaitingAddrs' = WaitingAddrs \cup again
      /\ batch' = <<>> /\ BatchAddrs' = {}
  BY ResetMoves
<1>2. /\ BatchAddrs \subseteq Addr
      /\ \A a \in Addr \ BatchAddrs : heap'[a] = heap[a]
      /\ \A a \in again : /\ heap'[a].seq = heap[a].seq
                          /\ heap'[a].interval = heap[a].interval
                          /\ heap'[a].exp = since + heap[a].interval
      /\ \A a \in BatchAddrs \ again : heap'[a] = Free
  BY ResetHeap
<1>3. /\ next > Len(batch) /\ next' = 1
      /\ UNCHANGED <<now, created, cancelingTimers, inbox, cancelled, Misread>>
  BY MisreadKept DEF Reset
<1>4. next = Len(batch) + 1 /\ Len(batch) \in Nat
  BY <1>3, BatchIs
<1>5. \A a \in Addr, b \in Addr :
        Allocated(a) /\ heap[a].seq = heap[b].seq => a = b
  BY DEF IInv, Numbered
<1>6. UNCHANGED HandedTimers
  <2>1. UNCHANGED QueuedAddrs
    BY <1>3 DEF QueuedAddrs
  <2>2. \A a \in QueuedAddrs : heap'[a] = heap[a]
    BY <1>2, Places
  <2> QED
    BY <2>1, <2>2, MappedTimers, SameTimers
<1>7. ASSUME NEW s
      PROVE  s \in StoppedIds' <=> s \in StoppedIds \ Sched!Ids(Sched!Batch)
  <2>1. s \in StoppedIds <=>
          \E a \in Addr : Allocated(a) /\ heap[a].seq = s /\ <<a, s>> \in cancelingTimers
    BY StoppedIs
  <2>2. s \in StoppedIds' <=>
          \E a \in Addr : /\ heap'[a] # Free /\ heap'[a].seq = s
                          /\ <<a, s>> \in cancelingTimers
    BY <1>3, StoppedNextIs
  <2>3. s \in Sched!Ids(Sched!Batch) <=> \E a \in BatchAddrs : heap[a].seq = s
    BY FiringIs, IdsIn
  <2>4. ASSUME NEW a \in BatchAddrs, heap'[a] # Free, heap'[a].seq = s,
               <<a, s>> \in cancelingTimers
        PROVE  FALSE
    <3>1. a \in again
      BY <1>2, <2>4
    <3>2. heap[a].seq = s
      BY <1>2, <2>4, <3>1
    <3> QED
      BY <2>4, <3>1, <3>2 DEF Restarts
  <2>5. s \in StoppedIds' => s \in StoppedIds /\ s \notin Sched!Ids(Sched!Batch)
    <3> SUFFICES ASSUME NEW a \in Addr \ BatchAddrs, heap'[a] # Free, heap'[a].seq = s,
                        <<a, s>> \in cancelingTimers
                 PROVE  s \in StoppedIds /\ s \notin Sched!Ids(Sched!Batch)
      BY <2>2, <2>4
    <3>1. heap'[a] = heap[a]
      BY <1>2
    <3>2. s \in StoppedIds
      BY <2>1, <3>1 DEF Allocated
    <3>3. \A b \in BatchAddrs : heap[b].seq # s
      BY <1>2, <1>5, <3>1 DEF Allocated
    <3> QED
      BY <2>3, <3>2, <3>3
  <2>6. s \in StoppedIds /\ s \notin Sched!Ids(Sched!Batch) => s \in StoppedIds'
    BY <1>2, <2>1, <2>2, <2>3 DEF Allocated
  <2> QED
    BY <2>5, <2>6
<1>8. StoppedIds' = StoppedIds \ Sched!Ids(Sched!Batch)
  BY <1>7
<1>9. CASE batch = <<>>
  <2>1. BatchAddrs = {} /\ next = 1
    BY <1>4, <1>9 DEF BatchAddrs
  <2>2. UNCHANGED <<FiringTimers, FoundDue>>
    BY <1>1, <1>9 DEF FiringTimers, FoundDue
  <2>3. UNCHANGED WaitingAddrs
    BY <1>1, <2>1
  <2>4. \A a \in WaitingAddrs : heap'[a] = heap[a]
    BY <1>2, Places
  <2>5. UNCHANGED WaitingTimers
    BY <2>3, <2>4, MappedTimers, SameTimers
  <2>6. Sched!Ids(Sched!Batch) = {}
    <3>1. \A s : s \notin Sched!Ids(Sched!Batch)
      BY <2>1, FiringIs, IdsIn
    <3> QED
      BY <3>1
  <2>7. UNCHANGED StoppedIds
    BY <1>8, <2>6
  <2> QED
    BY <1>3, <1>6, <2>1, <2>2, <2>5, <2>7 DEF Sched!schedVars
<1>10. CASE batch # <<>>
  <2>1. FiringTimers # <<>> /\ next - 1 = Len(FiringTimers) /\ next' - 1 = 0
    BY <1>3, <1>4, <1>10, FiringIs
  <2>2. FoundDue = since /\ FoundDue' = 0
    BY <1>1, <1>10 DEF FoundDue
  <2>3. FiringTimers' = <<>>
    <3>1. IInv' => (FiringTimers = <<>> <=> batch = <<>>)'
      BY FiringIs, PTL
    <3> QED
      BY <1>1, <3>1
  <2>4. ASSUME NEW a \in BatchAddrs
        PROVE  TimerIn(heap, a) \in Sched!Again <=> a \in again
    <3>1. /\ TimerIn(heap, a) \in Sched!Batch
          /\ TimerIn(heap, a).period = heap[a].interval
          /\ TimerIn(heap, a).id = heap[a].seq
      BY FiringIs DEF TimersIn, TimerIn
    <3>2. heap[a].seq \in StoppedIds <=> <<a, heap[a].seq>> \in cancelingTimers
      <4>1. a \in Addr /\ Allocated(a)
        BY Places
      <4>2. heap[a].seq \in StoppedIds <=>
              \E b \in Addr : /\ Allocated(b) /\ heap[b].seq = heap[a].seq
                              /\ <<b, heap[a].seq>> \in cancelingTimers
        BY StoppedIs
      <4> QED
        BY <1>5, <4>1, <4>2
    <3> QED
      BY <3>1, <3>2 DEF Sched!Again, Restarts
  <2>5. ASSUME NEW a \in again
        PROVE  TimerIn(heap', a) =
                 [TimerIn(heap, a) EXCEPT !.due = FoundDue + TimerIn(heap, a).period]
    BY <1>2, <2>2 DEF TimerIn
  <2>6. restarted = TimersIn(heap', again)
    <3>1. ASSUME NEW tm
          PROVE  tm \in Sched!Again <=> \E a \in again : tm = TimerIn(heap, a)
      <4>1. Sched!Again \subseteq Sched!Batch
        BY DEF Sched!Again
      <4>2. tm \in Sched!Batch <=> \E a \in BatchAddrs : tm = TimerIn(heap, a)
        BY FiringIs DEF TimersIn
      <4> QED
        BY <2>4, <4>1, <4>2
    <3>2. ASSUME NEW x
          PROVE  x \in restarted <=> x \in TimersIn(heap', again)
      <4>1. x \in restarted <=>
              \E tm \in Sched!Again : x = [tm EXCEPT !.due = FoundDue + tm.period]
        OBVIOUS
      <4>2. x \in TimersIn(heap', again) <=> \E a \in again : x = TimerIn(heap', a)
        BY DEF TimersIn
      <4> HIDE DEF restarted, again
      <4> QED
        BY <2>5, <3>1, <4>1, <4>2
    <3> HIDE DEF restarted, again
    <3> QED
      BY <3>2
  <2>7. TimersIn(heap', WaitingAddrs') = TimersIn(heap', WaitingAddrs) \cup restarted
    <3> HIDE DEF restarted, again
    <3> QED
      BY <1>1, <2>6 DEF TimersIn
  <2>8. WaitingTimers' = WaitingTimers \cup restarted
    <3>1. \A a \in WaitingAddrs : heap'[a] = heap[a]
      BY <1>2, Places
    <3>2. TimersIn(heap', WaitingAddrs) = TimersIn(heap, WaitingAddrs)
      BY <3>1, SameTimers
    <3> HIDE DEF restarted
    <3> QED
      BY <2>7, <3>2, MappedTimers
  <2> QED
    BY <1>3, <1>6, <1>8, <2>1, <2>2, <2>3, <2>8 DEF Sched!Finish
<1> QED
  BY <1>9, <1>10

(* What Schedule does not see: it knows the clock, and whether a sequence  *)
(* was misread. *)
LEMMA Unseen ==
  ASSUME UNCHANGED <<created, heap, activeTimers, cancelingTimers, batch, next,
                     since, QueuedAddrs, cancelled>>
  PROVE  /\ UNCHANGED <<now, Misread>> => UNCHANGED Sched!schedVars
         /\ now' = now + 1 /\ UNCHANGED Misread => Sched!Tick
         /\ UNCHANGED now /\ Misread' = TRUE => Sched!Garble
<1>1. UNCHANGED <<HandedTimers, WaitingTimers, FiringTimers, FoundDue, StoppedIds>>
  BY DEF HandedTimers, WaitingTimers, FiringTimers, FoundDue, StoppedIds,
     WaitingAddrs, LiveMarks, TimerAt, Allocated
<1> QED
  BY <1>1 DEF Sched!schedVars, Sched!Tick, Sched!Garble

LEMMA InitSchedule == Init => Sched!SchedInit
<1> SUFFICES ASSUME Init
             PROVE  Sched!SchedInit
  OBVIOUS
<1>1. /\ created = 0 /\ now = 0 /\ next = 1 /\ batch = <<>>
      /\ activeTimers = {} /\ cancelingTimers = {} /\ DOMAIN inbox = {}
  BY DEF Init
<1>2. FiringTimers = <<>>
  BY InitIInv, <1>1, FiringIs
<1>3. QueuedAddrs = {} /\ WaitingAddrs = {} /\ StoppedIds = {} /\ FoundDue = 0
  BY <1>1 DEF QueuedAddrs, WaitingAddrs, StoppedIds, LiveMarks, FoundDue
<1>4. HandedTimers = {} /\ WaitingTimers = {}
  BY <1>3 DEF HandedTimers, WaitingTimers
<1>5. cancelled = {} /\ Misread = FALSE
  BY DEF Init, Misread
<1> QED
  BY <1>1, <1>2, <1>3, <1>4, <1>5 DEF Sched!SchedInit

LEMMA StepSchedule ==
  ASSUME IInv, JInv, IInv', Misread \/ Right, [Next]_vars
  PROVE  [Sched!SchedNext]_(Sched!schedVars)
<1>1. ASSUME NEW b \in Addr, NEW d \in Delays, NEW i \in Intervals, AddTimer(b, d, i)
      PROVE  Sched!SchedNext
  BY <1>1, AddTimerIsSet DEF Sched!SchedNext
<1>2. ASSUME NEW t \in Adders, NEW b \in Addr, NEW d \in Delays, NEW i \in Intervals,
             QueueAddTimer(t, b, d, i)
      PROVE  Sched!SchedNext
  BY <1>2, QueueAddTimerIsHand DEF Sched!SchedNext
<1>3. ASSUME NEW id \in ids, Cancel(id)
      PROVE  Sched!SchedNext
  <2>1. /\ CancelInLoop(id) /\ (pc = "user" \/ pc = "callback")
        /\ UNCHANGED <<now, created, batch, next, since, QueuedAddrs, ids>>
    BY <1>3 DEF Cancel, InUserCode, QueuedAddrs
  <2>2. id.addr \in Addr \cup {0} /\ id.seq \in 0..MaxSeq
    BY DEF IInv, CallsTyped, Handles
  <2>3. Misread \/ Names(id)
    BY DEF Right, Faithful
  <2> QED
    BY <2>1, <2>2, <2>3, CancelCancels
<1>4. ASSUME NEW t \in Threads, NEW id \in ids, QueueCancel(t, id)
      PROVE  UNCHANGED Sched!schedVars
  <2> DEFINE f == [op |-> "cancel", addr |-> id.addr, seq |-> id.seq, of |-> id.of]
  <2>1. /\ inbox' = Append(inbox, f)
        /\ UNCHANGED <<now, created, heap, activeTimers, cancelingTimers, batch, next,
                       since, cancelled, Misread>>
    BY <1>4, MisreadKept DEF QueueCancel
  <2>2. f \in Functors /\ f.op # "add"
    BY DEF Functors, IInv, CallsTyped, Handles
  <2> HIDE DEF f
  <2>3. QueuedAddrs' = QueuedAddrs
    BY <2>1, <2>2, FunctorQueued
  <2> QED
    BY <2>1, <2>3, Unseen
<1>5. CASE RunFunctor
  BY <1>5, RunFunctorRuns
<1>6. CASE HandleRead
  BY <1>6, HandleReadExpires DEF Sched!SchedNext
<1>7. CASE RunTimer
  BY <1>7, RunTimerFires DEF Sched!SchedNext
<1>8. CASE Reset
  BY <1>8, ResetFinishes DEF Sched!SchedNext
<1>9. CASE Tick
  <2>1. /\ now' = now + 1
        /\ UNCHANGED <<created, heap, activeTimers, cancelingTimers, batch, next,
                       since, QueuedAddrs, cancelled, Misread>>
    BY <1>9, MisreadKept DEF Tick, QueuedAddrs
  <2> QED
    BY <2>1, Unseen DEF Sched!SchedNext
<1>10. CASE Poll \/ CallbackReturns \/ UNCHANGED vars
  <2>1. UNCHANGED <<now, created, heap, activeTimers, cancelingTimers, batch, next,
                    since, QueuedAddrs, cancelled, Misread>>
    BY <1>10, MisreadKept DEF Poll, CallbackReturns, vars, QueuedAddrs
  <2> QED
    BY <2>1, Unseen
<1>11. ASSUME NEW t \in Adders, ReadSequence(t)
       PROVE  Sched!SchedNext \/ UNCHANGED Sched!schedVars
  <2>1. /\ UNCHANGED <<now, created, heap, activeTimers, cancelingTimers, batch,
                       next, since, QueuedAddrs, cancelled>>
        /\ ids \subseteq ids'
    BY <1>11 DEF ReadSequence, QueuedAddrs
  <2>2. CASE Misread'
    <3>1. Misread' = TRUE
      BY <2>2 DEF Misread
    <3> QED
      BY <2>1, <3>1, Unseen DEF Sched!SchedNext
  <2>3. CASE ~Misread'
    <3>1. ~Misread
      BY <2>1, <2>3, MisreadStays
    <3>2. UNCHANGED Misread
      BY <2>3, <3>1 DEF Misread
    <3> QED
      BY <2>1, <3>2, Unseen
  <2> QED
    BY <2>2, <2>3
<1> QED
  BY <1>1, <1>2, <1>3, <1>4, <1>5, <1>6, <1>7, <1>8, <1>9, <1>10, <1>11
     DEF Next, LoopStep

(* TimerQueue implements Schedule: addresses that are reused, two sets, a   *)
(* set of marks, functors and a timerfd, in whatever interleaving of       *)
(* threads and callbacks, run timers when and in the order their users     *)
(* were promised; and until a sequence is misread, a timer is dropped or   *)
(* kept from waiting again only by a cancelInLoop meant for that timer.    *)
THEOREM ImplementsSchedule == Spec => ActsAsSchedule
<1>1. /\ IInv /\ JInv /\ IInv' /\ (Misread \/ Right) /\ [Next]_vars
      => [Sched!SchedNext]_(Sched!schedVars)
  BY StepSchedule
<1>2. Spec => Sched!SchedInit /\ [][Sched!SchedNext]_(Sched!schedVars)
  BY NoTimerLeaks, RightUntilMisread, InitSchedule, <1>1, PTL DEF Spec
<1> QED
  BY <1>2 DEF ActsAsSchedule, Sched!SchedSpec
==============================================================================
