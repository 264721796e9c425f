------------------------------- MODULE Buffer --------------------------------
(***************************************************************************)
(* The byte buffer of log/Buffer.h and Buffer.cc: a vector, of which the   *)
(* bytes from readerIndex to writerIndex are readable, those behind are    *)
(* writable and those in front are free for prepend.                       *)
(*                                                                         *)
(* The constructor gives the indexes no value: they start with any of      *)
(* Garbage.  shrink moves the readable bytes to kCheapPrepend and leaves   *)
(* the indexes alone.  Callers keep the contract the code leaves to them,  *)
(* as far as the buffer lets them see it: they retrieve at most            *)
(* readableBytes(), declare written at most writableBytes() and prepend at *)
(* most prependableBytes(), which wrap around like any size_t.             *)
(*                                                                         *)
(* An access outside the vector is undefined behaviour: stray says in      *)
(* which buffer it happened, and that buffer is not followed any further.  *)
(***************************************************************************)
EXTENDS Naturals, Sequences

CONSTANTS
  Buffers,        \* the buffers
  Bytes,          \* the values of a byte that matter
  Zero,           \* the byte resize() and vector(n) fill with
  kCheapPrepend,
  kInitialSize,
  Word,           \* one more than the largest size_t
  Garbage,        \* what an index without a value may hold
  Chunks,         \* what one call writes, prepends or reads: sequences of bytes
  Reserves,       \* the arguments of ensureWritableBytes and shrink
  MaxSize         \* the longest vector there is memory for

ASSUME BufferAssumption ==
  /\ Zero \in Bytes
  /\ kCheapPrepend \in Nat
  /\ kInitialSize \in Nat
  /\ MaxSize \in Nat
  /\ Word \in Nat
  /\ kCheapPrepend + kInitialSize <= MaxSize
  /\ kCheapPrepend + MaxSize + MaxSize < Word
  /\ Garbage \subseteq 0 .. Word - 1
  /\ Chunks \subseteq Seq(Bytes)
  /\ Reserves \subseteq 0..MaxSize

VARIABLES
  buffer,        \* buffer[b]: buffer_, a sequence
  readerIndex,   \* readerIndex_, counted from zero as in the code
  writerIndex,   \* writerIndex_
  intact,        \* history: the buffers whose indexes were equal and inside
                 \* the vector at birth or were set by retrieveAll(), and
                 \* whose bytes no shrink() has moved under them since
  stray          \* the buffers in which an access went outside the vector

vars == <<buffer, readerIndex, writerIndex, intact, stray>>

Zeros(n) == [i \in 1..n |-> Zero]

Init ==
  /\ buffer = [b \in Buffers |-> Zeros(kCheapPrepend + kInitialSize)]
  /\ readerIndex \in [Buffers -> Garbage]
  /\ writerIndex \in [Buffers -> Garbage]
  /\ intact = {b \in Buffers : /\ readerIndex[b] = writerIndex[b]
                               /\ writerIndex[b] <= Len(buffer[b])}
  /\ stray = {}

(* The sum or difference i of two of size_t, as size_t. *)
Wrap(i) == IF i < 0 THEN i + Word ELSE IF i >= Word THEN i - Word ELSE i

readableBytes(b) == Wrap(writerIndex[b] - readerIndex[b])
writableBytes(b) == Wrap(Len(buffer[b]) - writerIndex[b])
prependableBytes(b) == readerIndex[b]

(* The n bytes from offset at lie in the vector of b. *)
Inside(b, at, n) == n = 0 \/ at + n <= Len(buffer[b])

ReadableInside(b) == Inside(b, readerIndex[b], readableBytes(b))

(* std::copy of data into the vector v, from offset at. *)
Overwrite(v, at, data) ==
  [i \in 1..Len(v) |->
     IF i \in at + 1 .. at + Len(data) THEN data[i - at] ELSE v[i]]

(* The bytes of v from offset r up to offset w. *)
Slice(v, r, w) == [i \in 1..(w - r) |-> v[r + i]]

readable(b) == Slice(buffer[b], readerIndex[b], readerIndex[b] + readableBytes(b))

(* vector::resize *)
Resized(v, n) == [i \in 1..n |-> IF i <= Len(v) THEN v[i] ELSE Zero]

------------------------------------------------------------------------------
(* retrieve(len); retrieveUntil comes down to it. *)
Retrieve(b) ==
  \E len \in 1..readableBytes(b) :
    /\ readerIndex' = [readerIndex EXCEPT ![b] = Wrap(@ + len)]
    /\ UNCHANGED <<buffer, writerIndex, intact, stray>>

(* retrieveAll, and retrieveAsString after copying the bytes out. *)
RetrieveAll(b) ==
  /\ readerIndex' = [readerIndex EXCEPT ![b] = kCheapPrepend]
  /\ writerIndex' = [writerIndex EXCEPT ![b] = kCheapPrepend]
  /\ intact' = intact \union {b}
  /\ UNCHANGED <<buffer, stray>>

(* Fault in GrowSpace: the vector gets the size asked for. *)
GrowSpaceToLen(b, len) ==
  /\ buffer' = [buffer EXCEPT ![b] = Resized(@, kCheapPrepend + len)]
  /\ UNCHANGED <<readerIndex, writerIndex>>

(* makeSpace when the free bytes together do not suffice.  A vector longer *)
(* than MaxSize is not to be had: resize throws and changes nothing.       *)
GrowSpace(b, len) ==
  /\ Wrap(writerIndex[b] + len) <= MaxSize
  /\ buffer' = [buffer EXCEPT ![b] = Resized(@, Wrap(writerIndex[b] + len))]
  /\ UNCHANGED <<readerIndex, writerIndex>>

(* Fault in MoveToFront: the bytes go to the very front of the vector. *)
MoveToFrontAtZero(b) ==
  /\ buffer' = [buffer EXCEPT ![b] = Overwrite(@, 0, readable(b))]
  /\ readerIndex' = [readerIndex EXCEPT ![b] = kCheapPrepend]
  /\ writerIndex' = [writerIndex EXCEPT ![b] = kCheapPrepend + readableBytes(b)]

(* makeSpace when they do: the readable bytes move to the front. *)
MoveToFront(b) ==
  /\ buffer' = [buffer EXCEPT ![b] = Overwrite(@, kCheapPrepend, readable(b))]
  /\ readerIndex' = [readerIndex EXCEPT ![b] = kCheapPrepend]
  /\ writerIndex' = [writerIndex EXCEPT ![b] = kCheapPrepend + readableBytes(b)]

(* Fault in MustGrow: the bytes kept free for prepend are counted as free. *)
MustGrowTooLate(b, len) == Wrap(writableBytes(b) + prependableBytes(b)) < len

MustGrow(b, len) ==
  Wrap(writableBytes(b) + prependableBytes(b)) < len + kCheapPrepend

(* makeSpace may move the readable bytes: all it reads and writes lies in  *)
(* the vector.                                                             *)
MayMove(b) == ReadableInside(b) /\ Inside(b, kCheapPrepend, readableBytes(b))

(* ensureWritableBytes, with makeSpace *)
EnsureWritableBytes(b, len) ==
  /\ writableBytes(b) < len
  /\ IF MustGrow(b, len) THEN GrowSpace(b, len) ELSE MayMove(b) /\ MoveToFront(b)
  /\ UNCHANGED <<intact, stray>>

(* A caller copies data to beginWrite() and calls hasWritten. *)
HasWritten(b, data) ==
  /\ Len(data) <= writableBytes(b)
  /\ Inside(b, writerIndex[b], Len(data))
  /\ buffer' = [buffer EXCEPT ![b] = Overwrite(@, writerIndex[b], data)]
  /\ writerIndex' = [writerIndex EXCEPT ![b] = @ + Len(data)]
  /\ UNCHANGED <<readerIndex, intact, stray>>

Prepend(b, data) ==
  /\ Len(data) <= prependableBytes(b)
  /\ readerIndex' = [readerIndex EXCEPT ![b] = @ - Len(data)]
  /\ Inside(b, readerIndex'[b], Len(data))
  /\ buffer' = [buffer EXCEPT ![b] = Overwrite(@, readerIndex'[b], data)]
  /\ UNCHANGED <<writerIndex, intact, stray>>

Swap(b, d) ==
  /\ b # d
  /\ buffer' = [buffer EXCEPT ![b] = buffer[d], ![d] = buffer[b]]
  /\ readerIndex' = [readerIndex EXCEPT ![b] = readerIndex[d], ![d] = readerIndex[b]]
  /\ writerIndex' = [writerIndex EXCEPT ![b] = writerIndex[d], ![d] = writerIndex[b]]
  /\ intact' = {e \in Buffers : CASE e = b -> d \in intact
                                  [] e = d -> b \in intact
                                  [] OTHER -> e \in intact}
  /\ UNCHANGED stray

(* The indexes stay as they are, wherever the readable bytes go. *)
Shrink(b, reserve) ==
  /\ ReadableInside(b)
  /\ kCheapPrepend + readableBytes(b) + reserve <= MaxSize
  /\ buffer' = [buffer EXCEPT ![b] =
       Overwrite(Zeros(kCheapPrepend + readableBytes(b) + reserve),
                 kCheapPrepend, readable(b))]
  /\ intact' = IF readerIndex[b] = kCheapPrepend THEN intact ELSE intact \ {b}
  /\ UNCHANGED <<readerIndex, writerIndex, stray>>

Least(m, n) == IF m < n THEN m ELSE n

(* How many of the n bytes read into the vector and extrabuf are kept:     *)
(* the append() that should take the rest has an empty body.               *)
Stored(b, n) == Least(n, writableBytes(b))

(* readFd, when readv returns data. *)
ReadFd(b, data) ==
  LET n == Stored(b, Len(data)) IN
    /\ Inside(b, writerIndex[b], n)
    /\ buffer' = [buffer EXCEPT ![b] =
                    Overwrite(@, writerIndex[b], Slice(data, 0, n))]
    /\ writerIndex' = [writerIndex EXCEPT ![b] = @ + n]
    /\ UNCHANGED <<readerIndex, intact, stray>>

(* A call that keeps the contract reads or writes outside the vector: one  *)
(* that copies the readable bytes (retrieveAsString, shrink, makeSpace),   *)
(* makeSpace as it puts them down, or one that writes new bytes.           *)
Stray(b) ==
  /\ \/ readableBytes(b) <= MaxSize /\ ~ReadableInside(b)
     \/ \E len \in Reserves :
          writableBytes(b) < len /\ ~MustGrow(b, len) /\ ~MayMove(b)
     \/ \E data \in Chunks :
          \/ /\ Len(data) <= writableBytes(b)
             /\ ~Inside(b, writerIndex[b], Len(data))
          \/ /\ Len(data) <= prependableBytes(b)
             /\ ~Inside(b, readerIndex[b] - Len(data), Len(data))
          \/ ~Inside(b, writerIndex[b], Stored(b, Len(data)))
  /\ stray' = stray \union {b}
  /\ UNCHANGED <<buffer, readerIndex, writerIndex, intact>>

Next ==
  \/ \E b \in Buffers \ stray :
       \/ Retrieve(b)
       \/ RetrieveAll(b)
       \/ \E n \in Reserves : EnsureWritableBytes(b, n) \/ Shrink(b, n)
       \/ \E data \in Chunks :
            HasWritten(b, data) \/ Prepend(b, data) \/ ReadFd(b, data)
       \/ Stray(b)
  \/ \E b, d \in Buffers \ stray : Swap(b, d)

Spec == Init /\ [][Next]_vars

------------------------------------------------------------------------------
(* Properties.                                                             *)

(* The vectors hold bytes and the indexes are of size_t; in an intact      *)
(* buffer they bound each other and lie in the vector.                     *)
TypeOK ==
  /\ buffer \in [Buffers -> Seq(Bytes)]
  /\ readerIndex \in [Buffers -> 0 .. Word - 1]
  /\ writerIndex \in [Buffers -> 0 .. Word - 1]
  /\ intact \subseteq Buffers
  /\ stray \subseteq Buffers
  /\ \A b \in intact :
       readerIndex[b] <= writerIndex[b] /\ writerIndex[b] <= Len(buffer[b])

(* No call that keeps the contract reads or writes outside the vector of a *)
(* buffer that was born in order or has seen a retrieveAll(), and was not  *)
(* shrunk since with its bytes away from kCheapPrepend, whatever moves,    *)
(* grows or changes places in between.                                     *)
StaysInside == stray \intersect intact = {}

(* After ensureWritableBytes(len) a caller may write len bytes, whichever  *)
(* way makeSpace took, even if the indexes were out of bounds.             *)
RoomAsAsked ==
  [][\A b \in Buffers, len \in Reserves :
       EnsureWritableBytes(b, len) => writableBytes(b)' >= len]_vars

contents == [b \in Buffers |-> IF b \in intact THEN readable(b) ELSE <<>>]

atHome == {b \in intact : readerIndex[b] = kCheapPrepend}

Queue == INSTANCE ByteQueue
           WITH content <- contents, ordered <- intact, home <- atHome

(* An intact buffer behaves as a queue of bytes: makeSpace and resize      *)
(* never change, lose or duplicate a readable byte, and a caller's bytes   *)
(* come out in the order they went in.  shrink keeps them only when the    *)
(* readable bytes begin at kCheapPrepend; otherwise all is lost.           *)
ActsAsByteQueue == Queue!BQSpec
==============================================================================
