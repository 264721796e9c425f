----------------------------- MODULE BufferProofs -----------------------------
(***************************************************************************)
(* Proofs about Buffer, for every size, prepend area, chunk and whatever   *)
(* memory held at birth: no call leaves the vector of an intact buffer     *)
(* (IntactStaysInside), which is a queue of bytes (ImplementsByteQueue).   *)
(* TypeOK is not inductive: retrieveAll puts the indexes at kCheapPrepend, *)
(* so no vector may become shorter, intact or not, and a buffer that went  *)
(* astray must not be called intact again (IInv).                          *)
(***************************************************************************)
EXTENDS Buffer, TLAPS

(* A function from 1..n to bytes is a sequence of length n. *)
LEMMA IsSeq ==
  ASSUME NEW n \in Nat, NEW f, f = [i \in 1..n |-> f[i]],
         \A i \in 1..n : f[i] \in Bytes
  PROVE  f \in Seq(Bytes) /\ Len(f) = n /\ DOMAIN f = 1..n
<1>1. f \in [1..n -> Bytes]
  OBVIOUS
<1> QED BY <1>1

(* Elements of a sequence of bytes are bytes. *)
LEMMA IsByte ==
  ASSUME NEW s \in Seq(Bytes), NEW i \in 1..Len(s)
  PROVE  s[i] \in Bytes
OBVIOUS

LEMMA ZerosType ==
  ASSUME NEW n \in Nat
  PROVE  Zeros(n) \in Seq(Bytes) /\ Len(Zeros(n)) = n
<1>1. \A i \in 1..n : Zeros(n)[i] \in Bytes
  BY BufferAssumption DEF Zeros
<1>2. Zeros(n) = [i \in 1..n |-> Zeros(n)[i]]
  BY DEF Zeros
<1> QED BY <1>1, <1>2, IsSeq

LEMMA OverwriteType ==
  ASSUME NEW v \in Seq(Bytes), NEW at \in Nat, NEW data \in Seq(Bytes)
  PROVE  /\ Overwrite(v, at, data) \in Seq(Bytes)
         /\ Len(Overwrite(v, at, data)) = Len(v)
         /\ \A i \in 1..Len(v) :
              Overwrite(v, at, data)[i] =
                IF i \in at + 1 .. at + Len(data) THEN data[i - at] ELSE v[i]
<1> DEFINE o == Overwrite(v, at, data)
<1>1. \A i \in 1..Len(v) :
        o[i] = IF i \in at + 1 .. at + Len(data) THEN data[i - at] ELSE v[i]
  BY DEF Overwrite
<1>2. \A i \in 1..Len(v) : o[i] \in Bytes
  <2> TAKE i \in 1..Len(v)
  <2>1. CASE i \in at + 1 .. at + Len(data)
    <3>1. i - at \in 1..Len(data)
      BY <2>1
    <3> QED BY <1>1, <2>1, <3>1, IsByte
  <2>2. CASE i \notin at + 1 .. at + Len(data)
    BY <1>1, <2>2, IsByte
  <2> QED BY <2>1, <2>2
<1>3. o = [i \in 1..Len(v) |-> o[i]]
  BY DEF Overwrite
<1>4. Len(v) \in Nat
  OBVIOUS
<1>5. o \in Seq(Bytes) /\ Len(o) = Len(v)
  <2> HIDE DEF o
  <2> QED BY <1>2, <1>3, <1>4, IsSeq
<1> QED BY <1>1, <1>5

LEMMA ResizedType ==
  ASSUME NEW v \in Seq(Bytes), NEW n \in Nat
  PROVE  /\ Resized(v, n) \in Seq(Bytes)
         /\ Len(Resized(v, n)) = n
         /\ \A i \in 1..n : i <= Len(v) => Resized(v, n)[i] = v[i]
<1> DEFINE o == Resized(v, n)
<1>1. \A i \in 1..n : o[i] = IF i <= Len(v) THEN v[i] ELSE Zero
  BY DEF Resized
<1>2. \A i \in 1..n : o[i] \in Bytes
  BY <1>1, IsByte, BufferAssumption
<1>3. o = [i \in 1..n |-> o[i]]
  BY DEF Resized
<1>4. o \in Seq(Bytes) /\ Len(o) = n
  <2> HIDE DEF o
  <2> QED BY <1>2, <1>3, IsSeq
<1> QED BY <1>1, <1>4

LEMMA SliceType ==
  ASSUME NEW v \in Seq(Bytes), NEW r \in Nat, NEW w \in Nat,
         r <= w, w <= Len(v)
  PROVE  /\ Slice(v, r, w) \in Seq(Bytes)
         /\ Len(Slice(v, r, w)) = w - r
         /\ \A i \in 1..(w - r) : Slice(v, r, w)[i] = v[r + i]
<1> DEFINE o == Slice(v, r, w)
<1>1. \A i \in 1..(w - r) : o[i] = v[r + i]
  BY DEF Slice
<1>2. \A i \in 1..(w - r) : o[i] \in Bytes
  <2> TAKE i \in 1..(w - r)
  <2>1. r + i \in 1..Len(v)
    OBVIOUS
  <2> QED BY <1>1, <2>1, IsByte
<1>3. o = [i \in 1..(w - r) |-> o[i]]
  BY DEF Slice
<1>4. w - r \in Nat
  OBVIOUS
<1>5. o \in Seq(Bytes) /\ Len(o) = w - r
  <2> HIDE DEF o
  <2> QED BY <1>2, <1>3, <1>4, IsSeq
<1> QED BY <1>1, <1>5

(* The same of a sequence known to be such a slice. *)
LEMMA IsSlice ==
  ASSUME NEW v \in Seq(Bytes), NEW r \in Nat, NEW w \in Nat,
         r <= w, w <= Len(v), NEW o, o = Slice(v, r, w)
  PROVE  /\ o \in Seq(Bytes) /\ Len(o) = w - r
         /\ \A i \in 1..(w - r) : o[i] = v[r + i]
BY SliceType

(* Two sequences with equal elements are equal. *)
LEMMA SameSeq ==
  ASSUME NEW s \in Seq(Bytes), NEW u \in Seq(Bytes), Len(s) = Len(u),
         \A i \in 1..Len(s) : s[i] = u[i]
  PROVE  s = u
OBVIOUS

(* Sums and differences of two of size_t are of size_t, and exact when     *)
(* they fit.                                                               *)
LEMMA WrapType ==
  ASSUME NEW i \in 0 .. Word - 1, NEW j \in 0 .. Word - 1
  PROVE  /\ Wrap(i - j) \in 0 .. Word - 1
         /\ j <= i => Wrap(i - j) = i - j
         /\ Wrap(i + j) \in 0 .. Word - 1
         /\ i + j < Word => Wrap(i + j) = i + j
BY BufferAssumption DEF Wrap

(* Every vector has room for the prepend area, and memory. *)
Roomy ==
  \A b \in Buffers : kCheapPrepend <= Len(buffer[b]) /\ Len(buffer[b]) <= MaxSize

IInv == TypeOK /\ Roomy /\ StaysInside

(* What IInv says of any buffer. *)
LEMMA OfAny ==
  ASSUME IInv, NEW b \in Buffers
  PROVE  /\ buffer[b] \in Seq(Bytes) /\ Len(buffer[b]) \in Nat
         /\ readerIndex[b] \in Nat /\ readerIndex[b] < Word
         /\ writerIndex[b] \in Nat /\ writerIndex[b] < Word
         /\ kCheapPrepend <= Len(buffer[b]) /\ Len(buffer[b]) <= MaxSize
         /\ readableBytes(b) \in Nat /\ writableBytes(b) \in Nat
<1>1. /\ buffer[b] \in Seq(Bytes)
      /\ readerIndex[b] \in 0 .. Word - 1 /\ writerIndex[b] \in 0 .. Word - 1
  BY DEF IInv, TypeOK
<1>2. Len(buffer[b]) \in Nat
  BY <1>1
<1>3. /\ readerIndex[b] \in Nat /\ readerIndex[b] < Word
      /\ writerIndex[b] \in Nat /\ writerIndex[b] < Word
  BY <1>1, BufferAssumption
<1>4. kCheapPrepend <= Len(buffer[b]) /\ Len(buffer[b]) <= MaxSize
  BY DEF IInv, Roomy
<1>5. readableBytes(b) \in Nat /\ writableBytes(b) \in Nat
  <2>1. Len(buffer[b]) \in 0 .. Word - 1
    BY <1>2, <1>4, BufferAssumption
  <2>2. readableBytes(b) \in 0 .. Word - 1
    BY <1>1, WrapType DEF readableBytes
  <2>3. writableBytes(b) \in 0 .. Word - 1
    BY <1>1, <2>1, WrapType DEF writableBytes
  <2> QED BY <2>2, <2>3, BufferAssumption
<1> QED BY <1>1, <1>2, <1>3, <1>4, <1>5

(* What IInv says of an intact buffer. *)
LEMMA OfOne ==
  ASSUME IInv, NEW b \in intact
  PROVE  /\ b \in Buffers /\ b \notin stray
         /\ buffer[b] \in Seq(Bytes) /\ Len(buffer[b]) \in Nat
         /\ kCheapPrepend <= Len(buffer[b]) /\ Len(buffer[b]) <= MaxSize
         /\ readerIndex[b] \in Nat /\ writerIndex[b] \in Nat
         /\ readerIndex[b] <= writerIndex[b]
         /\ writerIndex[b] <= Len(buffer[b])
         /\ readableBytes(b) \in Nat /\ writableBytes(b) \in Nat
         /\ readableBytes(b) = writerIndex[b] - readerIndex[b]
         /\ writableBytes(b) = Len(buffer[b]) - writerIndex[b]
         /\ readable(b) \in Seq(Bytes) /\ Len(readable(b)) = readableBytes(b)
         /\ \A i \in 1..readableBytes(b) :
              readable(b)[i] = buffer[b][readerIndex[b] + i]
<1>1. b \in Buffers /\ b \notin stray
  BY DEF IInv, TypeOK, StaysInside
<1>2. readerIndex[b] <= writerIndex[b] /\ writerIndex[b] <= Len(buffer[b])
  BY DEF IInv, TypeOK
<1>3. /\ buffer[b] \in Seq(Bytes) /\ Len(buffer[b]) \in Nat
      /\ readerIndex[b] \in Nat /\ writerIndex[b] \in Nat
      /\ kCheapPrepend <= Len(buffer[b]) /\ Len(buffer[b]) <= MaxSize
      /\ MaxSize < Word
  BY <1>1, OfAny, BufferAssumption
<1>4. /\ readableBytes(b) = writerIndex[b] - readerIndex[b]
      /\ writableBytes(b) = Len(buffer[b]) - writerIndex[b]
  BY <1>2, <1>3, BufferAssumption DEF readableBytes, writableBytes, Wrap
<1>5. readerIndex[b] + readableBytes(b) = writerIndex[b]
  BY <1>3, <1>4
<1>6. /\ readable(b) \in Seq(Bytes) /\ Len(readable(b)) = readableBytes(b)
      /\ \A i \in 1..readableBytes(b) :
           readable(b)[i] = buffer[b][readerIndex[b] + i]
  <2>1. readable(b) = Slice(buffer[b], readerIndex[b], writerIndex[b])
    BY <1>5 DEF readable
  <2> DEFINE o == readable(b)
             v == buffer[b]
             r == readerIndex[b]
             w == writerIndex[b]
  <2>2. /\ v \in Seq(Bytes) /\ r \in Nat /\ w \in Nat
        /\ r <= w /\ w <= Len(v) /\ o = Slice(v, r, w)
    BY <1>2, <1>3, <2>1
  <2>3. /\ o \in Seq(Bytes) /\ Len(o) = w - r
        /\ \A i \in 1..(w - r) : o[i] = v[r + i]
    <3> HIDE DEF o, v, r, w
    <3> QED BY <2>2, IsSlice
  <2> QED BY <1>4, <2>3
<1> QED BY <1>1, <1>2, <1>3, <1>4, <1>6

(* How a step that changes the fields of one buffer and leaves it intact   *)
(* keeps IInv.                                                             *)
LEMMA OneChanges ==
  ASSUME IInv, NEW b \in Buffers, NEW v \in Seq(Bytes),
         NEW r \in Nat, NEW w \in Nat, r <= w, w <= Len(v),
         kCheapPrepend <= Len(v), Len(v) <= MaxSize,
         buffer' = [buffer EXCEPT ![b] = v],
         readerIndex' = [readerIndex EXCEPT ![b] = r],
         writerIndex' = [writerIndex EXCEPT ![b] = w],
         b \notin stray, intact' = intact \union {b}, stray' = stray
  PROVE  /\ IInv'
         /\ buffer'[b] = v /\ readerIndex'[b] = r /\ writerIndex'[b] = w
         /\ \A d \in Buffers \ {b} : readable(d)' = readable(d)
         /\ atHome' \ {b} = atHome \ {b}
<1>1. /\ buffer'[b] = v /\ readerIndex'[b] = r /\ writerIndex'[b] = w
      /\ \A d \in Buffers \ {b} : /\ buffer'[d] = buffer[d]
                                  /\ readerIndex'[d] = readerIndex[d]
                                  /\ writerIndex'[d] = writerIndex[d]
  BY DEF IInv, TypeOK
<1>2. r \in 0 .. Word - 1 /\ w \in 0 .. Word - 1
  <2>1. Len(v) \in Nat /\ MaxSize \in Nat /\ Word \in Nat /\ MaxSize < Word
    BY BufferAssumption
  <2> QED BY <2>1
<1>3. TypeOK'
  <2>1. /\ buffer' \in [Buffers -> Seq(Bytes)]
        /\ readerIndex' \in [Buffers -> 0 .. Word - 1]
        /\ writerIndex' \in [Buffers -> 0 .. Word - 1]
        /\ intact' \subseteq Buffers /\ stray' \subseteq Buffers
    BY <1>2 DEF IInv, TypeOK
  <2>2. ASSUME NEW d \in intact'
        PROVE  readerIndex'[d] <= writerIndex'[d] /\ writerIndex'[d] <= Len(buffer'[d])
    <3>1. CASE d = b
      BY <1>1, <3>1
    <3>2. CASE d # b
      <4>1. d \in intact /\ d \in Buffers \ {b}
        BY <3>2 DEF IInv, TypeOK
      <4> QED BY <1>1, <4>1 DEF IInv, TypeOK
    <3> QED BY <3>1, <3>2
  <2> QED BY <2>1, <2>2 DEF TypeOK
<1>4. ASSUME NEW d \in Buffers \ {b} PROVE readable(d)' = readable(d)
  BY <1>1 DEF readable, readableBytes
<1>5. Roomy' /\ StaysInside'
  <2>1. Roomy'
    BY <1>1 DEF IInv, Roomy
  <2>2. StaysInside'
    BY DEF IInv, StaysInside
  <2> QED BY <2>1, <2>2
<1>6. atHome' \ {b} = atHome \ {b}
  BY <1>1 DEF atHome, IInv, TypeOK
<1> QED BY <1>1, <1>3, <1>4, <1>5, <1>6 DEF IInv

(* How a step that changes the fields of one buffer and leaves it not      *)
(* intact keeps IInv.                                                      *)
LEMMA OneIsLost ==
  ASSUME IInv, NEW b \in Buffers, NEW v \in Seq(Bytes),
         NEW r \in 0 .. Word - 1, NEW w \in 0 .. Word - 1,
         kCheapPrepend <= Len(v), Len(v) <= MaxSize,
         buffer' = [buffer EXCEPT ![b] = v],
         readerIndex' = [readerIndex EXCEPT ![b] = r],
         writerIndex' = [writerIndex EXCEPT ![b] = w],
         intact' = intact \ {b}, stray' = stray
  PROVE  /\ IInv'
         /\ \A d \in Buffers \ {b} : readable(d)' = readable(d)
         /\ atHome' = atHome \ {b}
<1>1. \A d \in Buffers \ {b} : /\ buffer'[d] = buffer[d]
                               /\ readerIndex'[d] = readerIndex[d]
                               /\ writerIndex'[d] = writerIndex[d]
  BY DEF IInv, TypeOK
<1>2. TypeOK'
  <2>1. /\ buffer' \in [Buffers -> Seq(Bytes)]
        /\ readerIndex' \in [Buffers -> 0 .. Word - 1]
        /\ writerIndex' \in [Buffers -> 0 .. Word - 1]
        /\ intact' \subseteq Buffers /\ stray' \subseteq Buffers
    BY DEF IInv, TypeOK
  <2>2. ASSUME NEW d \in intact'
        PROVE  readerIndex'[d] <= writerIndex'[d] /\ writerIndex'[d] <= Len(buffer'[d])
    BY <1>1 DEF IInv, TypeOK
  <2> QED BY <2>1, <2>2 DEF TypeOK
<1>3. ASSUME NEW d \in Buffers \ {b} PROVE readable(d)' = readable(d)
  BY <1>1 DEF readable, readableBytes
<1>4. buffer'[b] = v
  BY DEF IInv, TypeOK
<1>5. Roomy'
  BY <1>1, <1>4 DEF IInv, Roomy
<1>6. StaysInside'
  BY DEF IInv, StaysInside
<1>7. atHome' = atHome \ {b}
  BY <1>1 DEF atHome, IInv, TypeOK
<1> QED BY <1>2, <1>3, <1>5, <1>6, <1>7 DEF IInv

------------------------------------------------------------------------------
(* What the new fields say of readable(b) in the next state. *)
LEMMA OfOneNext ==
  ASSUME IInv', NEW b \in intact'
  PROVE  /\ readable(b)' \in Seq(Bytes)
         /\ Len(readable(b)') = writerIndex'[b] - readerIndex'[b]
         /\ \A i \in 1..(writerIndex'[b] - readerIndex'[b]) :
              readable(b)'[i] = buffer'[b][readerIndex'[b] + i]
<1>1. b \in Buffers
  BY DEF IInv, TypeOK
<1>2. /\ buffer'[b] \in Seq(Bytes)
      /\ readerIndex'[b] \in 0 .. Word - 1 /\ writerIndex'[b] \in 0 .. Word - 1
      /\ readerIndex'[b] <= writerIndex'[b] /\ writerIndex'[b] <= Len(buffer'[b])
  BY <1>1 DEF IInv, TypeOK
<1>3. readerIndex'[b] + readableBytes(b)' = writerIndex'[b]
  BY <1>2, BufferAssumption DEF readableBytes, Wrap
<1>4. readable(b)' = Slice(buffer'[b], readerIndex'[b], writerIndex'[b])
  BY <1>3 DEF readable
<1>5. readerIndex'[b] \in Nat /\ writerIndex'[b] \in Nat
  BY <1>2, BufferAssumption
<1> DEFINE o == readable(b)'
           v == buffer'[b]
           r == readerIndex'[b]
           w == writerIndex'[b]
<1>6. /\ v \in Seq(Bytes) /\ r \in Nat /\ w \in Nat
      /\ r <= w /\ w <= Len(v) /\ o = Slice(v, r, w)
  BY <1>2, <1>4, <1>5
<1>7. /\ o \in Seq(Bytes) /\ Len(o) = w - r
      /\ \A i \in 1..(w - r) : o[i] = v[r + i]
  <2> HIDE DEF o, v, r, w
  <2> QED BY <1>6, IsSlice
<1> QED BY <1>7

(* The queues of the buffers outside S are left alone. *)
LEMMA AreUntouched ==
  ASSUME IInv, IInv', NEW S \in SUBSET Buffers,
         \A d \in Buffers \ S : readable(d)' = readable(d),
         intact' \ S = intact \ S, atHome' \ S = atHome \ S
  PROVE  Queue!Untouched(S)
<1>1. contents' \in [Buffers -> Seq(Bytes)]
  <2>1. \A d \in intact' : readable(d)' \in Seq(Bytes)
    BY OfOneNext
  <2>2. <<>> \in Seq(Bytes)
    OBVIOUS
  <2> QED BY <2>1, <2>2 DEF contents
<1>2. \A d \in Buffers \ S : d \in intact' <=> d \in intact
  OBVIOUS
<1>3. \A d \in Buffers \ S : contents'[d] = contents[d]
  BY <1>2 DEF contents
<1>4. atHome' \subseteq intact'
  BY DEF atHome
<1> QED BY <1>1, <1>3, <1>4 DEF Queue!Untouched

(* A step that leaves every readable byte where a reader finds it, and at  *)
(* most moves those of b home.                                             *)
LEMMA NothingSeen ==
  ASSUME IInv', NEW b \in intact, intact' = intact,
         \A d \in Buffers \ {b} : readable(d)' = readable(d),
         readable(b)' = readable(b),
         atHome' \ {b} = atHome \ {b},
         b \in atHome' \/ (b \in atHome' <=> b \in atHome)
  PROVE  [Queue!BQNext]_(Queue!bqVars)
<1>1. b \in Buffers
  BY DEF IInv, TypeOK
<1>2. contents' = contents
  <2>1. \A d \in Buffers : readable(d)' = readable(d)
    OBVIOUS
  <2> QED BY <2>1 DEF contents
<1>3. CASE b \in atHome'
  <2>1. atHome' = atHome \union {b}
    BY <1>3
  <2>2. Queue!Tidy(b)
    BY <1>2, <2>1 DEF Queue!Tidy
  <2> QED BY <1>1, <2>2 DEF Queue!BQNext
<1>4. CASE b \in atHome' <=> b \in atHome
  <2>1. atHome' = atHome
    BY <1>4
  <2> QED BY <1>2, <2>1 DEF Queue!bqVars
<1> QED BY <1>3, <1>4

(* A step on a buffer that is not intact changes no queue. *)
LEMMA NotSeen ==
  ASSUME IInv, NEW b \in Buffers \ intact, NEW v \in Seq(Bytes),
         NEW r \in 0 .. Word - 1, NEW w \in 0 .. Word - 1,
         kCheapPrepend <= Len(v), Len(v) <= MaxSize,
         buffer' = [buffer EXCEPT ![b] = v],
         readerIndex' = [readerIndex EXCEPT ![b] = r],
         writerIndex' = [writerIndex EXCEPT ![b] = w],
         intact' = intact, stray' = stray
  PROVE  IInv' /\ [Queue!BQNext]_(Queue!bqVars)
<1>1. intact' = intact \ {b} /\ b \notin atHome
  BY DEF atHome
<1>2. /\ IInv' /\ \A d \in Buffers \ {b} : readable(d)' = readable(d)
      /\ atHome' = atHome \ {b}
  BY <1>1, OneIsLost
<1>3. contents' = contents
  BY <1>2 DEF contents
<1>4. atHome' = atHome
  BY <1>1, <1>2
<1> QED BY <1>2, <1>3, <1>4 DEF Queue!bqVars

LEMMA RetrieveStep ==
  ASSUME IInv, NEW b \in intact, Retrieve(b)
  PROVE  IInv' /\ [Queue!BQNext]_(Queue!bqVars)
<1>1. PICK len \in 1..readableBytes(b) :
        /\ readerIndex' = [readerIndex EXCEPT ![b] = Wrap(@ + len)]
        /\ UNCHANGED <<buffer, writerIndex, intact, stray>>
  BY DEF Retrieve
<1> DEFINE r == readerIndex[b] + len
<1>2. r \in Nat /\ r <= writerIndex[b] /\ Wrap(r) = r
  <2>1. /\ readerIndex[b] \in Nat /\ writerIndex[b] \in Nat
        /\ readerIndex[b] + readableBytes(b) = writerIndex[b]
        /\ writerIndex[b] < Word
    <3>1. /\ b \in Buffers /\ readerIndex[b] \in Nat /\ writerIndex[b] \in Nat
          /\ readableBytes(b) = writerIndex[b] - readerIndex[b]
      BY OfOne
    <3>2. writerIndex[b] < Word
      BY <3>1, OfAny
    <3> QED BY <3>1, <3>2
  <2>2. r \in Nat /\ r <= writerIndex[b]
    <3>1. readableBytes(b) \in Nat
      BY OfOne
    <3> QED BY <2>1, <3>1
  <2> QED BY <2>1, <2>2, BufferAssumption DEF Wrap
<1>3. /\ buffer' = [buffer EXCEPT ![b] = buffer[b]]
      /\ readerIndex' = [readerIndex EXCEPT ![b] = r]
      /\ writerIndex' = [writerIndex EXCEPT ![b] = writerIndex[b]]
      /\ intact' = intact \union {b} /\ intact' = intact /\ stray' = stray
  BY <1>1, <1>2 DEF IInv, TypeOK
<1>4. /\ IInv' /\ buffer'[b] = buffer[b]
      /\ readerIndex'[b] = r /\ writerIndex'[b] = writerIndex[b]
      /\ \A d \in Buffers \ {b} : readable(d)' = readable(d)
      /\ atHome' \ {b} = atHome \ {b}
  <2> HIDE DEF r
  <2>1. /\ b \in Buffers /\ b \notin stray /\ buffer[b] \in Seq(Bytes)
        /\ writerIndex[b] \in Nat /\ writerIndex[b] <= Len(buffer[b])
        /\ kCheapPrepend <= Len(buffer[b]) /\ Len(buffer[b]) <= MaxSize
    BY OfOne
  <2> QED BY <1>2, <1>3, <2>1, OneChanges
<1>5. b \in intact'
  BY <1>3
<1>6. Len(readable(b)) - len = Len(readable(b)')
  BY <1>4, <1>5, OfOne, OfOneNext
<1>7. ASSUME NEW i \in 1..Len(readable(b)')
      PROVE  readable(b)'[i] = readable(b)[len + i]
  <2>1. /\ i \in 1..(writerIndex[b] - r)
        /\ len + i \in 1..readableBytes(b)
        /\ r + i = readerIndex[b] + (len + i)
    <3>1. /\ readerIndex[b] \in Nat /\ writerIndex[b] \in Nat
          /\ readableBytes(b) = writerIndex[b] - readerIndex[b]
          /\ Len(readable(b)) = readableBytes(b)
      BY OfOne
    <3>2. i \in 1..(readableBytes(b) - len)
      BY <1>6, <3>1
    <3> QED BY <3>1, <3>2
  <2>2. readable(b)'[i] = buffer[b][r + i]
    <3> HIDE DEF r
    <3> QED BY <1>4, <1>5, <2>1, OfOneNext
  <2>3. readable(b)[len + i] = buffer[b][readerIndex[b] + (len + i)]
    BY <2>1, OfOne
  <2> QED BY <2>1, <2>2, <2>3
<1>8. readable(b)' =
        [i \in 1..(Len(readable(b)) - len) |-> readable(b)[len + i]]
  BY <1>4, <1>5, <1>6, <1>7, OfOneNext
<1>9. Queue!Dequeue(b)
  <2>1. Queue!Untouched({b})
    BY <1>3, <1>4, OfOne, AreUntouched
  <2>2. Len(readable(b)') <= Len(readable(b))
        /\ Len(readable(b)) - Len(readable(b)') = len
    BY <1>4, <1>5, <1>6, OfOne, OfOneNext
  <2>3. contents[b] = readable(b) /\ contents'[b] = readable(b)'
    BY <1>5, OfOne DEF contents
  <2> QED BY <1>3, <1>8, <2>1, <2>2, <2>3 DEF Queue!Dequeue, Queue!Without
<1> QED BY <1>4, <1>9, OfOne DEF Queue!BQNext

LEMMA RetrieveAllStep ==
  ASSUME IInv, NEW b \in Buffers \ stray, RetrieveAll(b)
  PROVE  IInv' /\ [Queue!BQNext]_(Queue!bqVars)
<1>1. /\ buffer' = [buffer EXCEPT ![b] = buffer[b]]
      /\ readerIndex' = [readerIndex EXCEPT ![b] = kCheapPrepend]
      /\ writerIndex' = [writerIndex EXCEPT ![b] = kCheapPrepend]
      /\ intact' = intact \union {b} /\ stray' = stray
  BY DEF RetrieveAll, IInv, TypeOK
<1>2. /\ IInv' /\ readerIndex'[b] = kCheapPrepend
      /\ writerIndex'[b] = kCheapPrepend
      /\ \A d \in Buffers \ {b} : readable(d)' = readable(d)
      /\ atHome' \ {b} = atHome \ {b}
  <2>1. /\ buffer[b] \in Seq(Bytes) /\ Len(buffer[b]) <= MaxSize
        /\ kCheapPrepend \in Nat /\ kCheapPrepend <= Len(buffer[b])
        /\ kCheapPrepend <= kCheapPrepend
    BY OfAny, BufferAssumption
  <2> QED BY <1>1, <2>1, OneChanges
<1>3. b \in intact' /\ b \in atHome'
  BY <1>1, <1>2 DEF atHome
<1>4. readable(b)' = <<>>
  <2>1. Len(readable(b)') = 0 /\ readable(b)' \in Seq(Bytes)
    BY <1>2, <1>3, OfOneNext, BufferAssumption
  <2> QED BY <2>1
<1>5. Queue!Clear(b)
  <2>1. Queue!Untouched({b})
    <3>1. intact' \ {b} = intact \ {b}
      BY <1>1
    <3> QED BY <1>2, <3>1, AreUntouched
  <2>2. contents'[b] = <<>>
    BY <1>3, <1>4 DEF contents
  <2> QED BY <1>3, <2>1, <2>2 DEF Queue!Clear
<1> QED BY <1>2, <1>5 DEF Queue!BQNext

(* makeSpace, both ways. *)
LEMMA GrowStep ==
  ASSUME IInv, NEW b \in intact, NEW len \in 0..MaxSize,
         writableBytes(b) < len, GrowSpace(b, len), UNCHANGED <<intact, stray>>
  PROVE  IInv' /\ [Queue!BQNext]_(Queue!bqVars)
<1> DEFINE n == writerIndex[b] + len
           v == Resized(buffer[b], n)
<1>1. n \in Nat /\ n >= Len(buffer[b]) /\ n <= MaxSize /\ Wrap(n) = n
  <2>1. n \in Nat /\ n >= Len(buffer[b]) /\ n < Word
    BY OfOne, BufferAssumption
  <2>2. Wrap(n) = n
    BY <2>1, BufferAssumption DEF Wrap
  <2> QED BY <2>1, <2>2 DEF GrowSpace
<1>2. /\ v \in Seq(Bytes) /\ Len(v) = n
      /\ \A i \in 1..n : i <= Len(buffer[b]) => v[i] = buffer[b][i]
  <2> HIDE DEF n
  <2> QED BY <1>1, OfOne, ResizedType
<1>3. /\ buffer' = [buffer EXCEPT ![b] = v]
      /\ readerIndex' = [readerIndex EXCEPT ![b] = readerIndex[b]]
      /\ writerIndex' = [writerIndex EXCEPT ![b] = writerIndex[b]]
      /\ intact' = intact \union {b} /\ intact' = intact /\ stray' = stray
  BY <1>1 DEF GrowSpace, IInv, TypeOK
<1> HIDE DEF v
<1>4. /\ writerIndex[b] <= Len(v) /\ kCheapPrepend <= Len(v)
      /\ Len(v) <= MaxSize
  BY <1>1, <1>2, OfOne, BufferAssumption
<1>5. /\ IInv' /\ buffer'[b] = v
      /\ readerIndex'[b] = readerIndex[b] /\ writerIndex'[b] = writerIndex[b]
      /\ \A d \in Buffers \ {b} : readable(d)' = readable(d)
      /\ atHome' \ {b} = atHome \ {b} /\ b \in intact'
  <2>1. /\ v \in Seq(Bytes) /\ b \in Buffers /\ b \notin stray
        /\ readerIndex[b] \in Nat /\ writerIndex[b] \in Nat
        /\ readerIndex[b] <= writerIndex[b]
    BY <1>2, OfOne
  <2> QED BY <1>3, <1>4, <2>1, OneChanges
<1>6. readable(b)' = readable(b)
  <2>1. Len(readable(b)') = Len(readable(b))
    BY <1>5, OfOne, OfOneNext
  <2>2. ASSUME NEW i \in 1..Len(readable(b)')
        PROVE  readable(b)'[i] = readable(b)[i]
    <3>1. /\ i \in 1..readableBytes(b)
          /\ i \in 1..(writerIndex[b] - readerIndex[b])
      BY <2>1, OfOne
    <3>2. readerIndex[b] + i \in 1..n /\ readerIndex[b] + i <= Len(buffer[b])
      <4>1. /\ readerIndex[b] \in Nat /\ writerIndex[b] \in Nat
            /\ Len(buffer[b]) \in Nat /\ writerIndex[b] <= Len(buffer[b])
        BY OfOne
      <4> HIDE DEF n
      <4> QED BY <1>1, <3>1, <4>1
    <3>3. readable(b)'[i] = v[readerIndex[b] + i]
      BY <1>5, <3>1, OfOneNext
    <3>4. readable(b)[i] = buffer[b][readerIndex[b] + i]
      BY <3>1, OfOne
    <3> HIDE DEF n
    <3> QED BY <1>2, <3>2, <3>3, <3>4
  <2> QED BY <1>5, <2>1, <2>2, OfOne, OfOneNext, SameSeq
<1>7. b \in atHome' <=> b \in atHome
  BY <1>3, <1>5 DEF atHome
<1> QED BY <1>3, <1>5, <1>6, <1>7, NothingSeen

LEMMA MoveStep ==
  ASSUME IInv, NEW b \in intact,
         MayMove(b), MoveToFront(b), UNCHANGED <<intact, stray>>
  PROVE  IInv' /\ [Queue!BQNext]_(Queue!bqVars)
<1> DEFINE v == Overwrite(buffer[b], kCheapPrepend, readable(b))
           w == kCheapPrepend + readableBytes(b)
<1>1. w \in Nat /\ kCheapPrepend <= w /\ w <= Len(buffer[b])
  BY OfOne, BufferAssumption DEF MayMove, Inside
<1>2. /\ v \in Seq(Bytes) /\ Len(v) = Len(buffer[b])
      /\ \A i \in 1..readableBytes(b) : v[kCheapPrepend + i] = readable(b)[i]
  <2>1. /\ v \in Seq(Bytes) /\ Len(v) = Len(buffer[b])
        /\ \A i \in 1..Len(buffer[b]) :
             v[i] = IF i \in kCheapPrepend + 1 .. kCheapPrepend + Len(readable(b))
                      THEN readable(b)[i - kCheapPrepend] ELSE buffer[b][i]
    BY OfOne, OverwriteType, BufferAssumption
  <2>2. ASSUME NEW i \in 1..readableBytes(b)
        PROVE  v[kCheapPrepend + i] = readable(b)[i]
    <3> HIDE DEF v
    <3>1. /\ kCheapPrepend + i \in 1..Len(buffer[b])
          /\ kCheapPrepend + i \in kCheapPrepend + 1 .. kCheapPrepend + Len(readable(b))
          /\ (kCheapPrepend + i) - kCheapPrepend = i
      BY <1>1, OfOne, BufferAssumption
    <3> QED BY <2>1, <3>1
  <2> QED BY <2>1, <2>2
<1>3. /\ buffer' = [buffer EXCEPT ![b] = v]
      /\ readerIndex' = [readerIndex EXCEPT ![b] = kCheapPrepend]
      /\ writerIndex' = [writerIndex EXCEPT ![b] = w]
      /\ intact' = intact \union {b} /\ intact' = intact /\ stray' = stray
  BY DEF MoveToFront
<1>4. /\ IInv' /\ buffer'[b] = v
      /\ readerIndex'[b] = kCheapPrepend /\ writerIndex'[b] = w
      /\ \A d \in Buffers \ {b} : readable(d)' = readable(d)
      /\ atHome' \ {b} = atHome \ {b} /\ b \in intact'
  <2> HIDE DEF v, w
  <2>1. /\ kCheapPrepend \in Nat /\ kCheapPrepend <= Len(v)
        /\ Len(v) <= MaxSize /\ b \in Buffers /\ b \notin stray
    BY <1>1, <1>2, OfOne, BufferAssumption
  <2> QED BY <1>1, <1>2, <1>3, <2>1, OneChanges
<1>5. readable(b)' = readable(b)
  <2> HIDE DEF v
  <2>1. Len(readable(b)') = readableBytes(b)
    BY <1>4, OfOne, OfOneNext, BufferAssumption
  <2>2. \A i \in 1..Len(readable(b)') : readable(b)'[i] = readable(b)[i]
    BY <1>2, <1>4, <2>1, OfOneNext
  <2> QED BY <1>4, <2>1, <2>2, OfOne, OfOneNext, SameSeq
<1>6. b \in atHome'
  BY <1>4 DEF atHome
<1> QED BY <1>3, <1>4, <1>5, <1>6, NothingSeen

(* Bytes written behind the readable ones, by hasWritten or readFd. *)
LEMMA WriteStep ==
  ASSUME IInv, NEW b \in intact, NEW data \in Seq(Bytes),
         Len(data) <= writableBytes(b),
         buffer' = [buffer EXCEPT ![b] = Overwrite(@, writerIndex[b], data)],
         writerIndex' = [writerIndex EXCEPT ![b] = @ + Len(data)],
         UNCHANGED <<readerIndex, intact, stray>>
  PROVE  IInv' /\ [Queue!BQNext]_(Queue!bqVars)
<1> DEFINE v == Overwrite(buffer[b], writerIndex[b], data)
           w == writerIndex[b] + Len(data)
<1>1. w \in Nat /\ readerIndex[b] <= w /\ w <= Len(buffer[b])
  BY OfOne
<1>2. /\ v \in Seq(Bytes) /\ Len(v) = Len(buffer[b])
      /\ \A i \in 1..writerIndex[b] : v[i] = buffer[b][i]
  <2>1. /\ v \in Seq(Bytes) /\ Len(v) = Len(buffer[b])
        /\ \A i \in 1..Len(buffer[b]) :
             v[i] = IF i \in writerIndex[b] + 1 .. writerIndex[b] + Len(data)
                      THEN data[i - writerIndex[b]] ELSE buffer[b][i]
    <3>1. buffer[b] \in Seq(Bytes) /\ writerIndex[b] \in Nat
      BY OfOne
    <3> QED BY <3>1, OverwriteType
  <2>2. \A i \in 1..writerIndex[b] :
          i \in 1..Len(buffer[b]) /\ i \notin writerIndex[b] + 1 .. w
    BY OfOne
  <2> HIDE DEF v
  <2> QED BY <2>1, <2>2
<1>3. /\ buffer' = [buffer EXCEPT ![b] = v]
      /\ readerIndex' = [readerIndex EXCEPT ![b] = readerIndex[b]]
      /\ writerIndex' = [writerIndex EXCEPT ![b] = w]
      /\ intact' = intact \union {b} /\ intact' = intact /\ stray' = stray
  BY DEF IInv, TypeOK
<1> HIDE DEF v
<1>4. /\ IInv' /\ buffer'[b] = v
      /\ readerIndex'[b] = readerIndex[b] /\ writerIndex'[b] = w
      /\ \A d \in Buffers \ {b} : readable(d)' = readable(d)
      /\ atHome' \ {b} = atHome \ {b} /\ b \in intact'
  <2> HIDE DEF w
  <2>1. /\ kCheapPrepend <= Len(v) /\ w <= Len(v) /\ v \in Seq(Bytes)
        /\ Len(v) <= MaxSize /\ b \in Buffers /\ b \notin stray
    BY <1>1, <1>2, OfOne
  <2>2. readerIndex[b] \in Nat
    BY OfOne
  <2> QED BY <1>1, <1>3, <2>1, <2>2, OneChanges
<1>5. Len(readable(b)) <= Len(readable(b)')
  BY <1>4, OfOne, OfOneNext
<1>6. ASSUME NEW i \in 1..Len(readable(b))
      PROVE  readable(b)'[i] = readable(b)[i]
  <2>1. readerIndex[b] + i \in 1..writerIndex[b]
    BY OfOne
  <2>2. readable(b)'[i] = v[readerIndex[b] + i]
    <3>1. i \in 1..(w - readerIndex[b])
      BY <1>1, OfOne
    <3> HIDE DEF w
    <3> QED BY <1>4, <3>1, OfOneNext
  <2> QED BY <1>2, <2>1, <2>2, OfOne
<1>7. Queue!Enqueue(b)
  <2>1. Queue!Untouched({b})
    BY <1>3, <1>4, OfOne, AreUntouched
  <2>2. contents[b] = readable(b) /\ contents'[b] = readable(b)'
    BY <1>4, OfOne DEF contents
  <2>3. atHome' = atHome
    BY <1>3, <1>4 DEF atHome
  <2> QED BY <1>3, <1>5, <1>6, <2>1, <2>2, <2>3 DEF Queue!Enqueue
<1> QED BY <1>4, <1>7, OfOne DEF Queue!BQNext

LEMMA HasWrittenStep ==
  ASSUME IInv, NEW b \in intact, NEW data \in Chunks, HasWritten(b, data)
  PROVE  IInv' /\ [Queue!BQNext]_(Queue!bqVars)
<1>1. data \in Seq(Bytes)
  BY BufferAssumption
<1> QED BY <1>1, WriteStep DEF HasWritten

LEMMA ReadFdStep ==
  ASSUME IInv, NEW b \in intact, NEW data \in Chunks, ReadFd(b, data)
  PROVE  IInv' /\ [Queue!BQNext]_(Queue!bqVars)
<1> DEFINE n == Least(Len(data), writableBytes(b))
           kept == Slice(data, 0, n)
<1>1. data \in Seq(Bytes) /\ Len(data) \in Nat
  BY BufferAssumption
<1>2. n \in Nat /\ n <= Len(data) /\ n <= writableBytes(b)
  BY <1>1, OfOne DEF IInv, Least
<1>3. kept \in Seq(Bytes) /\ Len(kept) = n
  <2> HIDE DEF n
  <2> QED BY <1>1, <1>2, SliceType
<1>4. /\ buffer' = [buffer EXCEPT ![b] = Overwrite(@, writerIndex[b], kept)]
      /\ writerIndex' = [writerIndex EXCEPT ![b] = @ + n]
      /\ UNCHANGED <<readerIndex, intact, stray>>
  BY DEF ReadFd, Stored
<1> HIDE DEF n, kept
<1> QED BY <1>2, <1>3, <1>4, WriteStep

LEMMA PrependStep ==
  ASSUME IInv, NEW b \in intact, NEW data \in Chunks, Prepend(b, data)
  PROVE  IInv' /\ [Queue!BQNext]_(Queue!bqVars)
<1> DEFINE r == readerIndex[b] - Len(data)
           v == Overwrite(buffer[b], r, data)
<1>1. data \in Seq(Bytes) /\ Len(data) \in Nat
  BY BufferAssumption
<1>2. r \in Nat /\ r <= writerIndex[b] /\ r + Len(data) = readerIndex[b]
  BY <1>1, OfOne DEF IInv, Prepend, prependableBytes
<1>3. /\ v \in Seq(Bytes) /\ Len(v) = Len(buffer[b])
      /\ \A i \in readerIndex[b] + 1 .. Len(buffer[b]) : v[i] = buffer[b][i]
  <2> HIDE DEF r
  <2>1. /\ v \in Seq(Bytes) /\ Len(v) = Len(buffer[b])
        /\ \A i \in 1..Len(buffer[b]) :
             v[i] = IF i \in r + 1 .. r + Len(data)
                      THEN data[i - r] ELSE buffer[b][i]
    BY <1>1, <1>2, OfOne, OverwriteType
  <2>2. \A i \in readerIndex[b] + 1 .. Len(buffer[b]) :
          i \in 1..Len(buffer[b]) /\ i \notin r + 1 .. r + Len(data)
    BY <1>2, OfOne
  <2> HIDE DEF v
  <2> QED BY <2>1, <2>2
<1>4. /\ buffer' = [buffer EXCEPT ![b] = v]
      /\ readerIndex' = [readerIndex EXCEPT ![b] = r]
      /\ writerIndex' = [writerIndex EXCEPT ![b] = writerIndex[b]]
      /\ intact' = intact \union {b} /\ intact' = intact /\ stray' = stray
  BY DEF Prepend, IInv, TypeOK
<1> HIDE DEF v
<1>5. /\ IInv' /\ buffer'[b] = v
      /\ readerIndex'[b] = r /\ writerIndex'[b] = writerIndex[b]
      /\ \A d \in Buffers \ {b} : readable(d)' = readable(d)
      /\ atHome' \ {b} = atHome \ {b} /\ b \in intact'
  <2> HIDE DEF r
  <2>1. /\ v \in Seq(Bytes) /\ writerIndex[b] \in Nat
        /\ kCheapPrepend <= Len(v) /\ writerIndex[b] <= Len(v)
        /\ Len(v) <= MaxSize /\ b \in Buffers /\ b \notin stray
    BY <1>3, OfOne
  <2>2. r \in Nat /\ r <= writerIndex[b]
    BY <1>2
  <2> QED BY <1>4, <2>1, <2>2, OneChanges
<1>6. Len(readable(b)') - Len(readable(b)) = Len(data)
  BY <1>1, <1>2, <1>5, OfOne, OfOneNext
<1>7. ASSUME NEW i \in 1..Len(readable(b))
      PROVE  readable(b)'[Len(data) + i] = readable(b)[i]
  <2>1. readerIndex[b] + i \in readerIndex[b] + 1 .. Len(buffer[b])
    <3>1. /\ readerIndex[b] \in Nat /\ writerIndex[b] \in Nat
          /\ Len(buffer[b]) \in Nat /\ writerIndex[b] <= Len(buffer[b])
          /\ Len(readable(b)) = writerIndex[b] - readerIndex[b]
      BY OfOne
    <3> QED BY <3>1
  <2>2. /\ Len(data) + i \in 1..(writerIndex[b] - r)
        /\ r + (Len(data) + i) = readerIndex[b] + i
    <3>1. /\ readerIndex[b] \in Nat /\ writerIndex[b] \in Nat
          /\ i \in 1..(writerIndex[b] - readerIndex[b])
      BY OfOne
    <3> HIDE DEF r
    <3> QED BY <1>1, <1>2, <3>1
  <2>3. readable(b)'[Len(data) + i] = v[readerIndex[b] + i]
    <3> HIDE DEF r
    <3> QED BY <1>5, <2>2, OfOneNext
  <2> QED BY <1>3, <2>1, <2>3, OfOne
<1>8. Queue!PutBack(b)
  <2>1. Queue!Untouched({b})
    BY <1>4, <1>5, OfOne, AreUntouched
  <2>2. Len(readable(b)) <= Len(readable(b)')
        /\ Len(readable(b)') - Len(data) = Len(readable(b))
    BY <1>1, <1>5, <1>6, OfOne, OfOneNext
  <2>3. readable(b) = [i \in 1..(Len(readable(b)') - Len(data)) |->
                         readable(b)'[Len(data) + i]]
    BY <1>7, <2>2, OfOne
  <2>4. contents[b] = readable(b) /\ contents'[b] = readable(b)'
    BY <1>5, OfOne DEF contents
  <2> QED BY <1>4, <1>6, <2>1, <2>2, <2>3, <2>4 DEF Queue!PutBack, Queue!Without
<1> QED BY <1>5, <1>8, OfOne DEF Queue!BQNext

(* The readable bytes of any buffer, when they lie in its vector. *)
LEMMA ReadableType ==
  ASSUME IInv, NEW b \in Buffers, ReadableInside(b)
  PROVE  /\ readable(b) \in Seq(Bytes) /\ Len(readable(b)) = readableBytes(b)
         /\ readableBytes(b) \in Nat /\ readableBytes(b) <= MaxSize
<1> DEFINE n == readableBytes(b)
           r == readerIndex[b]
<1>1. /\ buffer[b] \in Seq(Bytes) /\ Len(buffer[b]) \in Nat /\ r \in Nat /\ n \in Nat
      /\ Len(buffer[b]) <= MaxSize /\ MaxSize \in Nat
      /\ readable(b) = Slice(buffer[b], r, r + n)
  BY OfAny, BufferAssumption DEF readable
<1> HIDE DEF n, r
<1>2. CASE n = 0
  <2>1. 1..((r + n) - r) = 1..0
    BY <1>1, <1>2
  <2>2. readable(b) = [i \in 1..0 |-> readable(b)[i]]
    BY <1>1, <2>1 DEF Slice
  <2>3. readable(b) \in Seq(Bytes) /\ Len(readable(b)) = 0
    BY <2>2, IsSeq
  <2> QED BY <1>1, <1>2, <2>3 DEF n
<1>3. CASE r + n <= Len(buffer[b])
  <2>1. readable(b) \in Seq(Bytes) /\ Len(readable(b)) = (r + n) - r
    <3>1. r + n \in Nat /\ r <= r + n
      BY <1>1
    <3> QED BY <1>1, <1>3, <3>1, IsSlice
  <2>2. n <= MaxSize /\ (r + n) - r = n
    BY <1>1, <1>3
  <2> QED BY <1>1, <2>1, <2>2 DEF n
<1> QED BY <1>2, <1>3 DEF ReadableInside, Inside, n, r

LEMMA ShrinkStep ==
  ASSUME IInv, NEW b \in Buffers, NEW reserve \in Nat, Shrink(b, reserve)
  PROVE  IInv' /\ [Queue!BQNext]_(Queue!bqVars)
<1> DEFINE n == kCheapPrepend + readableBytes(b) + reserve
           v == Overwrite(Zeros(n), kCheapPrepend, readable(b))
<1>1. /\ n \in Nat /\ kCheapPrepend <= n /\ n <= MaxSize
      /\ kCheapPrepend + readableBytes(b) <= n
      /\ readable(b) \in Seq(Bytes) /\ Len(readable(b)) = readableBytes(b)
      /\ readableBytes(b) \in Nat
  BY ReadableType, BufferAssumption DEF Shrink
<1>2. /\ v \in Seq(Bytes) /\ Len(v) = n
      /\ \A i \in 1..readableBytes(b) : v[kCheapPrepend + i] = readable(b)[i]
  <2>1. Zeros(n) \in Seq(Bytes) /\ Len(Zeros(n)) = n
    <3> HIDE DEF n
    <3> QED BY <1>1, ZerosType
  <2>2. /\ v \in Seq(Bytes) /\ Len(v) = n
        /\ \A i \in 1..n :
             v[i] = IF i \in kCheapPrepend + 1 .. kCheapPrepend + Len(readable(b))
                      THEN readable(b)[i - kCheapPrepend] ELSE Zeros(n)[i]
    <3> HIDE DEF n
    <3>1. kCheapPrepend \in Nat
      BY BufferAssumption
    <3> QED BY <1>1, <2>1, <3>1, OverwriteType
  <2>3. ASSUME NEW i \in 1..readableBytes(b)
        PROVE  v[kCheapPrepend + i] = readable(b)[i]
    <3> HIDE DEF n, v
    <3>1. /\ kCheapPrepend + i \in 1..n
          /\ kCheapPrepend + i \in kCheapPrepend + 1 .. kCheapPrepend + Len(readable(b))
          /\ (kCheapPrepend + i) - kCheapPrepend = i
      BY <1>1, BufferAssumption
    <3> QED BY <2>2, <3>1
  <2> QED BY <2>2, <2>3
<1>3. /\ buffer' = [buffer EXCEPT ![b] = v]
      /\ readerIndex' = [readerIndex EXCEPT ![b] = readerIndex[b]]
      /\ writerIndex' = [writerIndex EXCEPT ![b] = writerIndex[b]]
      /\ stray' = stray
  BY DEF Shrink, IInv, TypeOK
<1>4. kCheapPrepend <= Len(v) /\ Len(v) <= MaxSize
  BY <1>1, <1>2
<1>5. readerIndex[b] \in 0 .. Word - 1 /\ writerIndex[b] \in 0 .. Word - 1
  BY DEF IInv, TypeOK
<1> HIDE DEF v
<1>6. CASE b \notin intact
  <2>1. intact' = intact
    BY <1>6 DEF Shrink
  <2> QED BY <1>2, <1>3, <1>4, <1>5, <1>6, <2>1, NotSeen
<1>7. CASE b \in intact /\ readerIndex[b] # kCheapPrepend
  <2>1. intact' = intact \ {b}
    BY <1>7 DEF Shrink
  <2>2. /\ IInv' /\ \A d \in Buffers \ {b} : readable(d)' = readable(d)
        /\ atHome' = atHome \ {b}
    BY <1>2, <1>3, <1>4, <1>5, <2>1, OneIsLost
  <2>3. Queue!Untouched({b})
    <3>1. intact' \ {b} = intact \ {b} /\ atHome' \ {b} = atHome \ {b}
      BY <2>1, <2>2
    <3> QED BY <2>2, <3>1, AreUntouched
  <2>4. b \in intact \ atHome /\ b \notin intact' /\ contents'[b] = <<>>
    BY <1>7, <2>1 DEF atHome, contents
  <2> QED BY <2>2, <2>3, <2>4 DEF Queue!Lose, Queue!BQNext
<1>8. CASE b \in intact /\ readerIndex[b] = kCheapPrepend
  <2>1. intact' = intact \union {b} /\ intact' = intact
    BY <1>8 DEF Shrink
  <2>2. /\ readerIndex[b] \in Nat /\ writerIndex[b] \in Nat /\ b \notin stray
        /\ readerIndex[b] <= writerIndex[b] /\ writerIndex[b] <= n
    <3>1. /\ readerIndex[b] \in Nat /\ writerIndex[b] \in Nat /\ b \notin stray
          /\ readerIndex[b] <= writerIndex[b]
          /\ readableBytes(b) = writerIndex[b] - readerIndex[b]
      BY <1>8, OfOne
    <3>2. kCheapPrepend + readableBytes(b) = writerIndex[b]
      BY <1>8, <3>1
    <3> HIDE DEF n
    <3> QED BY <1>1, <3>1, <3>2
  <2>3. /\ IInv' /\ buffer'[b] = v
        /\ readerIndex'[b] = readerIndex[b] /\ writerIndex'[b] = writerIndex[b]
        /\ \A d \in Buffers \ {b} : readable(d)' = readable(d)
        /\ atHome' \ {b} = atHome \ {b}
    <3> HIDE DEF n
    <3> QED BY <1>2, <1>3, <1>4, <2>1, <2>2, OneChanges
  <2>4. b \in intact' /\ b \in atHome'
    BY <1>8, <2>1, <2>3 DEF atHome
  <2>5. readable(b)' = readable(b)
    <3> HIDE DEF n
    <3>1. Len(readable(b)') = readableBytes(b)
      BY <1>8, <2>3, <2>4, OfOne, OfOneNext
    <3>2. ASSUME NEW i \in 1..Len(readable(b)')
          PROVE  readable(b)'[i] = readable(b)[i]
      <4>1. i \in 1..(writerIndex'[b] - readerIndex'[b])
        BY <2>3, <2>4, OfOneNext
      <4>2. readable(b)'[i] = buffer'[b][readerIndex'[b] + i]
        BY <2>3, <2>4, <4>1, OfOneNext
      <4>3. readable(b)'[i] = v[kCheapPrepend + i]
        BY <1>8, <2>3, <4>2
      <4> QED BY <1>2, <3>1, <4>3
    <3> QED BY <1>8, <2>3, <2>4, <3>1, <3>2, OfOne, OfOneNext, SameSeq
  <2> QED BY <1>8, <2>1, <2>3, <2>4, <2>5, NothingSeen
<1> QED BY <1>6, <1>7, <1>8

LEMMA SwapStep ==
  ASSUME IInv, NEW b \in Buffers \ stray, NEW d \in Buffers \ stray, Swap(b, d)
  PROVE  IInv' /\ [Queue!BQNext]_(Queue!bqVars)
<1>1. /\ buffer' \in [Buffers -> Seq(Bytes)]
      /\ readerIndex' \in [Buffers -> 0 .. Word - 1]
      /\ writerIndex' \in [Buffers -> 0 .. Word - 1]
      /\ intact' \subseteq Buffers /\ stray' = stray /\ b # d
  BY DEF Swap, IInv, TypeOK
<1>2. /\ buffer'[b] = buffer[d] /\ buffer'[d] = buffer[b]
      /\ readerIndex'[b] = readerIndex[d] /\ readerIndex'[d] = readerIndex[b]
      /\ writerIndex'[b] = writerIndex[d] /\ writerIndex'[d] = writerIndex[b]
  BY DEF Swap, IInv, TypeOK
<1>3. \A e \in Buffers \ {b, d} :
        /\ buffer'[e] = buffer[e]
        /\ readerIndex'[e] = readerIndex[e] /\ writerIndex'[e] = writerIndex[e]
  BY DEF Swap, IInv, TypeOK
<1>4. /\ b \in intact' <=> d \in intact
      /\ d \in intact' <=> b \in intact
      /\ \A e \in Buffers \ {b, d} : e \in intact' <=> e \in intact
  BY DEF Swap
<1>5. IInv'
  <2>1. ASSUME NEW e \in intact'
        PROVE  readerIndex'[e] <= writerIndex'[e] /\ writerIndex'[e] <= Len(buffer'[e])
    BY <1>1, <1>2, <1>3, <1>4 DEF IInv, TypeOK
  <2>2. TypeOK'
    BY <1>1, <2>1 DEF IInv, TypeOK
  <2>3. Roomy'
    BY <1>2, <1>3 DEF IInv, Roomy
  <2>4. StaysInside'
    <3>1. \A e \in intact' : e \notin stray
      BY <1>1, <1>4 DEF IInv, StaysInside
    <3> QED BY <1>1, <3>1 DEF StaysInside
  <2> QED BY <2>2, <2>3, <2>4 DEF IInv
<1>6. /\ readable(b)' = readable(d) /\ readable(d)' = readable(b)
      /\ \A e \in Buffers \ {b, d} : readable(e)' = readable(e)
  BY <1>2, <1>3 DEF readable, readableBytes
<1>7. /\ b \in atHome' <=> d \in atHome
      /\ d \in atHome' <=> b \in atHome
      /\ atHome' \ {b, d} = atHome \ {b, d}
  <2>1. \A e \in Buffers \ {b, d} : e \in atHome' <=> e \in atHome
    BY <1>3, <1>4 DEF atHome
  <2>2. atHome \subseteq Buffers /\ atHome' \subseteq Buffers
    BY <1>1 DEF atHome, IInv, TypeOK
  <2>3. atHome' \ {b, d} = atHome \ {b, d}
    BY <2>1, <2>2
  <2> QED BY <1>2, <1>4, <2>3 DEF atHome
<1>8. Queue!Exchange(b, d)
  <2>1. Queue!Untouched({b, d})
    <3>1. intact' \ {b, d} = intact \ {b, d}
      BY <1>1, <1>4 DEF IInv, TypeOK
    <3>2. {b, d} \in SUBSET Buffers
      OBVIOUS
    <3> QED BY <1>5, <1>6, <1>7, <3>1, <3>2, AreUntouched
  <2>2. contents'[b] = contents[d] /\ contents'[d] = contents[b]
    BY <1>4, <1>6 DEF contents
  <2> QED BY <1>4, <1>7, <2>1, <2>2 DEF Queue!Exchange
<1> QED BY <1>5, <1>8 DEF Queue!BQNext

------------------------------------------------------------------------------
(* Buffers that are not intact: the vector stays a vector. *)

(* The new length of makeSpace is never below the old one, wherever the    *)
(* write index points.                                                     *)
LEMMA GrowsOnly ==
  ASSUME IInv, NEW b \in Buffers, NEW len \in 0..MaxSize, writableBytes(b) < len
  PROVE  /\ Wrap(writerIndex[b] + len) \in Nat
         /\ Len(buffer[b]) <= Wrap(writerIndex[b] + len)
         /\ Wrap(Wrap(writerIndex[b] + len) - writerIndex[b]) = len
<1>1. /\ Len(buffer[b]) \in Nat /\ Len(buffer[b]) <= MaxSize
      /\ writerIndex[b] \in Nat /\ writerIndex[b] < Word
      /\ len \in Nat /\ len <= MaxSize
      /\ MaxSize \in Nat /\ Word \in Nat /\ MaxSize < Word
  BY OfAny, BufferAssumption
<1>2. Wrap(Len(buffer[b]) - writerIndex[b]) < len
  BY DEF writableBytes
<1>3. CASE writerIndex[b] <= Len(buffer[b])
  <2>1. Len(buffer[b]) - writerIndex[b] < len
    BY <1>1, <1>2, <1>3 DEF Wrap
  <2> QED BY <1>1, <1>3, <2>1, BufferAssumption DEF Wrap
<1>4. CASE Len(buffer[b]) < writerIndex[b]
  <2>1. Len(buffer[b]) - writerIndex[b] + Word < len
    BY <1>1, <1>2, <1>4 DEF Wrap
  <2> QED BY <1>1, <1>4, <2>1, BufferAssumption DEF Wrap
<1> QED BY <1>1, <1>3, <1>4

LEMMA UnseenStep ==
  ASSUME IInv, NEW b \in Buffers \ intact,
         \/ Retrieve(b)
         \/ \E len \in Reserves : EnsureWritableBytes(b, len)
         \/ \E data \in Chunks : HasWritten(b, data) \/ Prepend(b, data) \/ ReadFd(b, data)
  PROVE  IInv' /\ [Queue!BQNext]_(Queue!bqVars)
<1>1. /\ buffer[b] \in Seq(Bytes) /\ Len(buffer[b]) \in Nat
      /\ kCheapPrepend <= Len(buffer[b]) /\ Len(buffer[b]) <= MaxSize
      /\ readerIndex[b] \in 0 .. Word - 1 /\ writerIndex[b] \in 0 .. Word - 1
      /\ readerIndex[b] \in Nat /\ writerIndex[b] \in Nat
      /\ readableBytes(b) \in Nat /\ writableBytes(b) \in Nat
  BY OfAny DEF IInv, TypeOK
<1>2. /\ buffer = [buffer EXCEPT ![b] = buffer[b]]
      /\ readerIndex = [readerIndex EXCEPT ![b] = readerIndex[b]]
      /\ writerIndex = [writerIndex EXCEPT ![b] = writerIndex[b]]
  BY DEF IInv, TypeOK
<1>3. CASE Retrieve(b)
  <2>1. PICK len \in 1..readableBytes(b) :
          /\ readerIndex' = [readerIndex EXCEPT ![b] = Wrap(@ + len)]
          /\ UNCHANGED <<buffer, writerIndex, intact, stray>>
    BY <1>3 DEF Retrieve
  <2>2. Wrap(readerIndex[b] + len) \in 0 .. Word - 1
    <3>1. readableBytes(b) \in 0 .. Word - 1
      BY <1>1, WrapType DEF readableBytes
    <3>2. len \in 0 .. Word - 1
      BY <2>1, <3>1, BufferAssumption
    <3> QED BY <1>1, <3>2, WrapType
  <2> QED BY <1>1, <1>2, <2>1, <2>2, NotSeen
<1>4. ASSUME NEW len \in Reserves, EnsureWritableBytes(b, len)
      PROVE  IInv' /\ [Queue!BQNext]_(Queue!bqVars)
  <2>1. CASE MustGrow(b, len)
    <3> DEFINE n == Wrap(writerIndex[b] + len)
               v == Resized(buffer[b], n)
    <3>1. n \in Nat /\ Len(buffer[b]) <= n /\ n <= MaxSize
      BY <1>4, <2>1, GrowsOnly, BufferAssumption DEF EnsureWritableBytes, GrowSpace
    <3>2. v \in Seq(Bytes) /\ Len(v) = n
      <4> HIDE DEF n
      <4> QED BY <1>1, <3>1, ResizedType
    <3>3. /\ buffer' = [buffer EXCEPT ![b] = v]
          /\ UNCHANGED <<readerIndex, writerIndex, intact, stray>>
      BY <1>4, <2>1 DEF EnsureWritableBytes, GrowSpace
    <3> HIDE DEF n, v
    <3>4. kCheapPrepend <= Len(v) /\ Len(v) <= MaxSize
      BY <1>1, <3>1, <3>2, BufferAssumption
    <3> QED BY <1>1, <1>2, <3>2, <3>3, <3>4, NotSeen
  <2>2. CASE ~MustGrow(b, len)
    <3> DEFINE v == Overwrite(buffer[b], kCheapPrepend, readable(b))
               w == kCheapPrepend + readableBytes(b)
    <3>1. /\ MayMove(b)
          /\ buffer' = [buffer EXCEPT ![b] = v]
          /\ readerIndex' = [readerIndex EXCEPT ![b] = kCheapPrepend]
          /\ writerIndex' = [writerIndex EXCEPT ![b] = w]
          /\ UNCHANGED <<intact, stray>>
      BY <1>4, <2>2 DEF EnsureWritableBytes, MoveToFront
    <3>2. readable(b) \in Seq(Bytes) /\ readableBytes(b) <= MaxSize
      BY <3>1, ReadableType DEF MayMove
    <3>3. v \in Seq(Bytes) /\ Len(v) = Len(buffer[b])
      <4>1. buffer[b] \in Seq(Bytes) /\ kCheapPrepend \in Nat
        BY <1>1, BufferAssumption
      <4> QED BY <3>2, <4>1, OverwriteType
    <3>4. w \in 0 .. Word - 1 /\ kCheapPrepend \in 0 .. Word - 1
      <4>1. /\ kCheapPrepend \in Nat /\ MaxSize \in Nat /\ Word \in Nat
            /\ kCheapPrepend + MaxSize + MaxSize < Word
        BY BufferAssumption
      <4>2. readableBytes(b) \in Nat
        BY <1>1
      <4> QED BY <3>2, <4>1, <4>2
    <3> HIDE DEF v, w
    <3> QED BY <1>1, <3>1, <3>3, <3>4, NotSeen
  <2> QED BY <2>1, <2>2
<1>5. ASSUME NEW data \in Seq(Bytes), Len(data) <= writableBytes(b),
             Inside(b, writerIndex[b], Len(data)),
             buffer' = [buffer EXCEPT ![b] = Overwrite(@, writerIndex[b], data)],
             writerIndex' = [writerIndex EXCEPT ![b] = @ + Len(data)],
             UNCHANGED <<readerIndex, intact, stray>>
      PROVE  IInv' /\ [Queue!BQNext]_(Queue!bqVars)
  <2> DEFINE v == Overwrite(buffer[b], writerIndex[b], data)
             w == writerIndex[b] + Len(data)
  <2>1. v \in Seq(Bytes) /\ Len(v) = Len(buffer[b])
    BY <1>1, OverwriteType
  <2>2. w \in 0 .. Word - 1
    <3>1. /\ Len(data) \in Nat /\ writerIndex[b] \in Nat /\ writerIndex[b] < Word
          /\ Len(buffer[b]) \in Nat /\ Len(buffer[b]) < Word
          /\ Len(data) = 0 \/ w <= Len(buffer[b])
      BY <1>5, OfAny, BufferAssumption DEF Inside
    <3> QED BY <3>1, BufferAssumption
  <2>3. /\ buffer' = [buffer EXCEPT ![b] = v]
        /\ writerIndex' = [writerIndex EXCEPT ![b] = w]
    BY <1>5
  <2> HIDE DEF v, w
  <2>4. /\ readerIndex' = [readerIndex EXCEPT ![b] = readerIndex[b]]
        /\ intact' = intact /\ stray' = stray
    BY <1>2, <1>5
  <2>5. kCheapPrepend <= Len(v) /\ Len(v) <= MaxSize
    BY <1>1, <2>1
  <2>6. readerIndex[b] \in 0 .. Word - 1
    BY <1>1
  <2> QED BY <2>1, <2>2, <2>3, <2>4, <2>5, <2>6, NotSeen
<1>6. ASSUME NEW data \in Chunks, HasWritten(b, data)
      PROVE  IInv' /\ [Queue!BQNext]_(Queue!bqVars)
  BY <1>5, <1>6, BufferAssumption DEF HasWritten
<1>7. ASSUME NEW data \in Chunks, ReadFd(b, data)
      PROVE  IInv' /\ [Queue!BQNext]_(Queue!bqVars)
  <2> DEFINE n == Stored(b, Len(data))
             kept == Slice(data, 0, n)
  <2>1. data \in Seq(Bytes) /\ Len(data) \in Nat
    BY BufferAssumption
  <2>2. n \in Nat /\ n <= Len(data) /\ n <= writableBytes(b)
    <3>1. writableBytes(b) \in Nat
      BY <1>1
    <3> QED BY <2>1, <3>1 DEF Stored, Least
  <2>3. kept \in Seq(Bytes) /\ Len(kept) = n
    <3> HIDE DEF n
    <3>1. /\ 0 \in Nat /\ 0 <= n /\ n - 0 = n
      BY <2>2
    <3>2. /\ Slice(data, 0, n) \in Seq(Bytes)
          /\ Len(Slice(data, 0, n)) = n - 0
      BY <2>1, <2>2, <3>1, SliceType
    <3> QED BY <3>1, <3>2
  <2>4. /\ Inside(b, writerIndex[b], n)
        /\ buffer' = [buffer EXCEPT ![b] = Overwrite(@, writerIndex[b], kept)]
        /\ writerIndex' = [writerIndex EXCEPT ![b] = @ + n]
        /\ UNCHANGED <<readerIndex, intact, stray>>
    BY <1>7 DEF ReadFd
  <2> HIDE DEF n, kept
  <2> QED BY <1>5, <2>2, <2>3, <2>4
<1>8. ASSUME NEW data \in Chunks, Prepend(b, data)
      PROVE  IInv' /\ [Queue!BQNext]_(Queue!bqVars)
  <2> DEFINE r == readerIndex[b] - Len(data)
             v == Overwrite(buffer[b], r, data)
  <2>1. data \in Seq(Bytes) /\ Len(data) \in Nat
    BY BufferAssumption
  <2>2. r \in 0 .. Word - 1 /\ r \in Nat
    BY <1>1, <1>8, <2>1, BufferAssumption DEF Prepend, prependableBytes
  <2>3. /\ buffer' = [buffer EXCEPT ![b] = v]
        /\ readerIndex' = [readerIndex EXCEPT ![b] = r]
        /\ UNCHANGED <<writerIndex, intact, stray>>
    BY <1>8 DEF Prepend, IInv, TypeOK
  <2>4. v \in Seq(Bytes) /\ Len(v) = Len(buffer[b])
    <3> HIDE DEF r
    <3> QED BY <1>1, <2>1, <2>2, OverwriteType
  <2> HIDE DEF v, r
  <2> QED BY <1>1, <1>2, <2>2, <2>3, <2>4, NotSeen
<1> QED BY <1>3, <1>4, <1>6, <1>7, <1>8

(* No call on an intact buffer goes astray. *)
LEMMA IntactIsInside ==
  ASSUME IInv, NEW b \in intact
  PROVE  ~Stray(b)
<1>1. /\ readerIndex[b] \in Nat /\ writerIndex[b] \in Nat /\ Len(buffer[b]) \in Nat
      /\ readerIndex[b] <= writerIndex[b] /\ writerIndex[b] <= Len(buffer[b])
      /\ readableBytes(b) = writerIndex[b] - readerIndex[b]
      /\ writableBytes(b) = Len(buffer[b]) - writerIndex[b]
  BY OfOne
<1>2. ReadableInside(b)
  BY <1>1 DEF ReadableInside, Inside
<1>3. ASSUME NEW len \in Reserves, ~MustGrow(b, len)
      PROVE  MayMove(b)
  <2>1. len \in Nat /\ len + kCheapPrepend \in Nat
    BY BufferAssumption
  <2>2. writableBytes(b) + prependableBytes(b) \in Nat
        /\ writableBytes(b) + prependableBytes(b) < Word
    BY <1>1, OfOne, BufferAssumption DEF prependableBytes
  <2>3. Wrap(writableBytes(b) + prependableBytes(b))
          = writableBytes(b) + prependableBytes(b)
    BY <2>2, BufferAssumption DEF Wrap
  <2>4. kCheapPrepend + readableBytes(b) <= Len(buffer[b])
    BY <1>1, <1>3, <2>1, <2>3, BufferAssumption DEF MustGrow, prependableBytes
  <2> QED BY <1>2, <2>4 DEF MayMove, Inside
<1>4. ASSUME NEW data \in Chunks
      PROVE  /\ Len(data) <= writableBytes(b) => Inside(b, writerIndex[b], Len(data))
             /\ Len(data) <= prependableBytes(b) =>
                  Inside(b, readerIndex[b] - Len(data), Len(data))
             /\ Inside(b, writerIndex[b], Stored(b, Len(data)))
  <2>1. Len(data) \in Nat
    BY BufferAssumption
  <2> QED BY <1>1, <2>1 DEF Inside, Stored, Least, prependableBytes
<1> QED BY <1>2, <1>3, <1>4 DEF Stray

LEMMA StrayStep ==
  ASSUME IInv, NEW b \in Buffers, Stray(b)
  PROVE  IInv' /\ [Queue!BQNext]_(Queue!bqVars)
<1>1. /\ UNCHANGED <<buffer, readerIndex, writerIndex, intact>>
      /\ stray' = stray \union {b} /\ b \notin intact
  BY IntactIsInside DEF Stray
<1>2. IInv'
  BY <1>1 DEF IInv, TypeOK, Roomy, StaysInside
<1>3. contents' = contents /\ atHome' = atHome
  BY <1>1 DEF contents, atHome, readable, readableBytes
<1> QED BY <1>1, <1>2, <1>3 DEF Queue!bqVars

------------------------------------------------------------------------------
LEMMA InitIInv == Init => IInv /\ Queue!BQInit
<1> SUFFICES ASSUME Init PROVE IInv /\ Queue!BQInit
  OBVIOUS
<1>1. /\ kCheapPrepend + kInitialSize \in Nat
      /\ Zeros(kCheapPrepend + kInitialSize) \in Seq(Bytes)
      /\ Len(Zeros(kCheapPrepend + kInitialSize)) = kCheapPrepend + kInitialSize
  BY BufferAssumption, ZerosType
<1>2. \A b \in Buffers : buffer[b] = Zeros(kCheapPrepend + kInitialSize)
  BY DEF Init
<1>3. TypeOK
  <2>1. /\ readerIndex \in [Buffers -> 0 .. Word - 1]
        /\ writerIndex \in [Buffers -> 0 .. Word - 1]
    BY BufferAssumption DEF Init
  <2>2. ASSUME NEW b \in intact
        PROVE  readerIndex[b] <= writerIndex[b] /\ writerIndex[b] <= Len(buffer[b])
    <3>1. b \in Buffers /\ readerIndex[b] = writerIndex[b]
          /\ writerIndex[b] <= Len(buffer[b])
      BY DEF Init
    <3>2. writerIndex[b] \in 0 .. Word - 1
      BY <2>1, <3>1
    <3> QED BY <3>1, <3>2, BufferAssumption
  <2> QED BY <1>1, <2>1, <2>2 DEF Init, TypeOK
<1>4. Roomy /\ StaysInside
  BY <1>1, <1>2, BufferAssumption DEF Init, Roomy, StaysInside
<1>5. IInv
  BY <1>3, <1>4 DEF IInv
<1>6. \A b \in intact : readable(b) = <<>>
  <2> TAKE b \in intact
  <2>1. readerIndex[b] = writerIndex[b]
    BY DEF Init
  <2>2. Len(readable(b)) = 0 /\ readable(b) \in Seq(Bytes)
    BY <1>5, <2>1, OfOne
  <2> QED BY <2>2
<1>7. contents = [b \in Buffers |-> <<>>]
  BY <1>6 DEF contents
<1>8. intact \in SUBSET Buffers /\ atHome \in SUBSET intact
  BY DEF Init, atHome
<1> QED BY <1>5, <1>7, <1>8 DEF Queue!BQInit

LEMMA NextStep ==
  ASSUME IInv, [Next]_vars
  PROVE  IInv' /\ [Queue!BQNext]_(Queue!bqVars)
<1>1. CASE UNCHANGED vars
  <2>1. IInv'
    BY <1>1 DEF vars, IInv, TypeOK, Roomy, StaysInside
  <2>2. contents' = contents /\ atHome' = atHome /\ intact' = intact
    BY <1>1 DEF vars, contents, atHome, readable, readableBytes
  <2> QED BY <2>1, <2>2 DEF Queue!bqVars
<1>2. ASSUME NEW b \in intact, NEW n \in Reserves, EnsureWritableBytes(b, n)
      PROVE  IInv' /\ [Queue!BQNext]_(Queue!bqVars)
  <2>1. n \in 0..MaxSize
    BY BufferAssumption
  <2>2. CASE MustGrow(b, n)
    BY <1>2, <2>1, <2>2, GrowStep DEF EnsureWritableBytes
  <2>3. CASE ~MustGrow(b, n)
    BY <1>2, <2>3, MoveStep DEF EnsureWritableBytes
  <2> QED BY <2>2, <2>3
<1>3. ASSUME NEW b \in Buffers, NEW n \in Reserves, Shrink(b, n)
      PROVE  IInv' /\ [Queue!BQNext]_(Queue!bqVars)
  <2>1. n \in Nat
    BY BufferAssumption
  <2> QED BY <1>3, <2>1, ShrinkStep
<1>4. ASSUME NEW b \in Buffers,
             \/ Retrieve(b)
             \/ \E len \in Reserves : EnsureWritableBytes(b, len)
             \/ \E data \in Chunks : HasWritten(b, data) \/ Prepend(b, data) \/ ReadFd(b, data)
      PROVE  IInv' /\ [Queue!BQNext]_(Queue!bqVars)
  <2>1. CASE b \in intact
    BY <1>2, <1>4, <2>1, RetrieveStep, HasWrittenStep, PrependStep, ReadFdStep
  <2>2. CASE b \notin intact
    BY <1>4, <2>2, UnseenStep
  <2> QED BY <2>1, <2>2
<1> QED BY <1>1, <1>3, <1>4, RetrieveAllStep, SwapStep, StrayStep DEF Next

(* The vectors and indexes have their types, and those of an intact buffer *)
(* bound each other and stay in the vector.                                *)
THEOREM TypeCorrect == Spec => []TypeOK
<1>1. IInv => TypeOK
  BY DEF IInv
<1>2. IInv /\ [Next]_vars => IInv'
  BY NextStep
<1> QED BY InitIInv, <1>1, <1>2, PTL DEF Spec

(* No call that keeps the contract leaves the vector of an intact buffer,  *)
(* whatever values memory held when the buffers were born.                 *)
THEOREM IntactStaysInside == Spec => []StaysInside
<1>1. IInv => StaysInside
  BY DEF IInv
<1>2. IInv /\ [Next]_vars => IInv'
  BY NextStep
<1> QED BY InitIInv, <1>1, <1>2, PTL DEF Spec

(* Intact buffers of any size, whatever is moved, grown, swapped or shrunk *)
(* at home, implement queues of bytes; a shrink away from home loses one.  *)
THEOREM ImplementsByteQueue == Spec => ActsAsByteQueue
<1>1. IInv /\ [Next]_vars => IInv'
  BY NextStep
<1>2. IInv /\ [Next]_vars => [Queue!BQNext]_(Queue!bqVars)
  BY NextStep
<1>3. Init => IInv /\ Queue!BQInit
  BY InitIInv
<1> QED BY <1>1, <1>2, <1>3, PTL DEF Spec, ActsAsByteQueue, Queue!BQSpec

(* After ensureWritableBytes(len), len bytes may be written, intact or not. *)
THEOREM RoomIsMade == Spec => RoomAsAsked
<1>1. ASSUME IInv, [Next]_vars, NEW b \in Buffers, NEW len \in Reserves,
             EnsureWritableBytes(b, len)
      PROVE  writableBytes(b)' >= len
  <2>1. len \in 0..MaxSize /\ len \in Nat
    BY BufferAssumption
  <2>2. writableBytes(b)' = Wrap(Len(buffer'[b]) - writerIndex'[b])
    BY DEF writableBytes, Wrap
  <2>3. /\ buffer[b] \in Seq(Bytes) /\ Len(buffer[b]) \in Nat
        /\ readerIndex[b] \in Nat /\ writerIndex[b] \in Nat
        /\ readerIndex[b] < Word /\ writerIndex[b] < Word
        /\ Len(buffer[b]) <= MaxSize
    BY <1>1, OfAny
  <2>4. CASE MustGrow(b, len)
    <3> DEFINE n == Wrap(writerIndex[b] + len)
    <3>1. buffer'[b] = Resized(buffer[b], n) /\ writerIndex'[b] = writerIndex[b]
      BY <1>1, <2>4 DEF EnsureWritableBytes, GrowSpace, IInv, TypeOK
    <3>2. n \in Nat /\ Wrap(n - writerIndex[b]) = len
      BY <1>1, <2>1, GrowsOnly DEF EnsureWritableBytes
    <3>3. Len(buffer'[b]) = n
      <4> HIDE DEF n
      <4> QED BY <2>3, <3>1, <3>2, ResizedType
    <3> HIDE DEF n
    <3> QED BY <2>1, <2>2, <3>1, <3>2, <3>3
  <2>5. CASE ~MustGrow(b, len)
    <3>1. /\ MayMove(b)
          /\ buffer'[b] = Overwrite(buffer[b], kCheapPrepend, readable(b))
          /\ writerIndex'[b] = kCheapPrepend + readableBytes(b)
      BY <1>1, <2>5 DEF EnsureWritableBytes, MoveToFront, IInv, TypeOK
    <3>2. readable(b) \in Seq(Bytes) /\ readableBytes(b) \in Nat
      BY <1>1, <3>1, ReadableType DEF MayMove
    <3>3. Len(buffer'[b]) = Len(buffer[b])
      <4>1. buffer[b] \in Seq(Bytes) /\ kCheapPrepend \in Nat
        BY <2>3, BufferAssumption
      <4>2. Len(Overwrite(buffer[b], kCheapPrepend, readable(b))) = Len(buffer[b])
        BY <3>2, <4>1, OverwriteType
      <4> QED BY <3>1, <4>2
    <3>4. ~(Wrap(Wrap(Len(buffer[b]) - writerIndex[b]) + readerIndex[b]) < len + kCheapPrepend)
      BY <2>5 DEF MustGrow, writableBytes, prependableBytes
    <3>5. /\ readableBytes(b) = Wrap(writerIndex[b] - readerIndex[b])
          /\ \/ readableBytes(b) = 0
             \/ readerIndex[b] + readableBytes(b) <= Len(buffer[b])
      BY <3>1 DEF MayMove, ReadableInside, Inside, readableBytes
    <3>6. kCheapPrepend \in Nat /\ Word \in Nat /\ MaxSize \in Nat
          /\ kCheapPrepend + MaxSize + MaxSize < Word
      BY BufferAssumption
    <3>7. CASE readableBytes(b) = 0
      <4>1. writerIndex[b] = readerIndex[b]
        BY <2>3, <3>5, <3>6, <3>7 DEF Wrap
      <4>2. Wrap(Wrap(Len(buffer[b]) - writerIndex[b]) + readerIndex[b]) = Len(buffer[b])
        BY <2>3, <3>6, <4>1 DEF Wrap
      <4>3. Len(buffer[b]) - kCheapPrepend >= len
        BY <2>1, <2>3, <3>4, <3>6, <4>2
      <4> QED BY <2>1, <2>2, <2>3, <3>1, <3>3, <3>6, <3>7, <4>3 DEF Wrap
    <3>8. CASE readableBytes(b) # 0
      <4>1. readerIndex[b] <= writerIndex[b] /\ writerIndex[b] <= Len(buffer[b])
            /\ readableBytes(b) = writerIndex[b] - readerIndex[b]
        BY <2>3, <3>2, <3>5, <3>6, <3>8 DEF Wrap
      <4>2. Wrap(Wrap(Len(buffer[b]) - writerIndex[b]) + readerIndex[b])
              = Len(buffer[b]) - readableBytes(b)
        BY <2>3, <3>6, <4>1 DEF Wrap
      <4>3. Len(buffer[b]) - (kCheapPrepend + readableBytes(b)) >= len
        BY <2>1, <2>3, <3>2, <3>4, <3>6, <4>2
      <4> QED BY <2>1, <2>2, <2>3, <3>1, <3>2, <3>3, <3>6, <4>3 DEF Wrap
    <3> QED BY <3>7, <3>8
  <2> QED BY <2>4, <2>5
<1>2. IInv /\ [Next]_vars => IInv'
  BY NextStep
<1>3. IInv /\ [Next]_vars =>
        [\A b \in Buffers, len \in Reserves :
           EnsureWritableBytes(b, len) => writableBytes(b)' >= len]_vars
  BY <1>1
<1> QED BY InitIInv, <1>2, <1>3, PTL DEF Spec, RoomAsAsked
==============================================================================
