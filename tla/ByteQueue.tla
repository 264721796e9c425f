------------------------------ MODULE ByteQueue ------------------------------
(***************************************************************************)
(* What Buffer promises its users: each buffer in order is a queue of      *)
(* bytes.  Bytes come in at the back, some may be put back in front, they  *)
(* leave from the front, and two queues may change places.  Making room is *)
(* invisible.  Nothing is promised of a buffer whose indexes were never    *)
(* set, until it is cleared, nor of one that is shrunk while its first     *)
(* byte is away from home, the place where shrink puts it.                 *)
(***************************************************************************)
EXTENDS Naturals, Sequences

CONSTANTS
  Buffers,   \* the buffers
  Bytes      \* what they hold

VARIABLES
  content,   \* content[b]: the readable bytes of b, <<>> when not in order
  ordered,   \* the buffers in order
  home       \* those of them whose first byte is where shrink puts it

bqVars == <<content, ordered, home>>

BQInit ==
  /\ content = [b \in Buffers |-> <<>>]
  /\ ordered \in SUBSET Buffers
  /\ home \in SUBSET ordered

(* Only the queues of S change. *)
Untouched(S) ==
  /\ content' \in [Buffers -> Seq(Bytes)]
  /\ \A d \in Buffers \ S : content'[d] = content[d]
  /\ ordered' \ S = ordered \ S
  /\ home' \ S = home \ S
  /\ home' \subseteq ordered'

Enqueue(b) ==
  /\ b \in ordered
  /\ Untouched({b})
  /\ Len(content[b]) <= Len(content'[b])
  /\ \A i \in 1..Len(content[b]) : content'[b][i] = content[b][i]
  /\ UNCHANGED <<ordered, home>>

(* The bytes of s without the first n. *)
Without(s, n) == [i \in 1..(Len(s) - n) |-> s[n + i]]

PutBack(b) ==
  /\ b \in ordered
  /\ Untouched({b})
  /\ Len(content[b]) <= Len(content'[b])
  /\ content[b] = Without(content'[b], Len(content'[b]) - Len(content[b]))
  /\ UNCHANGED ordered

Dequeue(b) ==
  /\ b \in ordered
  /\ Untouched({b})
  /\ Len(content'[b]) <= Len(content[b])
  /\ content'[b] = Without(content[b], Len(content[b]) - Len(content'[b]))
  /\ UNCHANGED ordered

(* Everything leaves, and the queue is in order whatever it was before. *)
Clear(b) ==
  /\ Untouched({b})
  /\ content'[b] = <<>>
  /\ b \in home'

(* The bytes move home. *)
Tidy(b) ==
  /\ b \in ordered
  /\ home' = home \union {b}
  /\ UNCHANGED <<content, ordered>>

Exchange(b, d) ==
  /\ Untouched({b, d})
  /\ content'[b] = content[d] /\ content'[d] = content[b]
  /\ b \in ordered' <=> d \in ordered
  /\ d \in ordered' <=> b \in ordered
  /\ b \in home' <=> d \in home
  /\ d \in home' <=> b \in home

(* A queue is shrunk while its bytes are not at home. *)
Lose(b) ==
  /\ b \in ordered \ home
  /\ Untouched({b})
  /\ b \notin ordered'
  /\ content'[b] = <<>>

BQNext ==
  \/ \E b \in Buffers :
       Enqueue(b) \/ PutBack(b) \/ Dequeue(b) \/ Clear(b) \/ Tidy(b) \/ Lose(b)
  \/ \E b, d \in Buffers : Exchange(b, d)

BQSpec == BQInit /\ [][BQNext]_bqVars
==============================================================================
