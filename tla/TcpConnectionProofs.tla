------------------------- MODULE TcpConnectionProofs -------------------------
(***************************************************************************)
(* Proofs about TcpConnection, for any threads, messages and sizes: the    *)
(* channel is silent after handleClose, what the socket takes is in the    *)
(* order of sending, and shutdown() after send() is graceful.              *)
(***************************************************************************)
EXTENDS TcpConnection, SequenceTheorems, TLAPS

Everyone == Threads \cup {Owner}
UnitSet == (Messages \cup {"garbage"}) \X Nat
Send(m) == [op |-> "sendInLoop", message |-> m]
Shutdown == [op |-> "shutdownInLoop"]
Connect == [op |-> "connectEstablished"]
SetState == [op |-> "setState"]
Functors == {Connect, Shutdown} \cup {Send(m) : m \in Messages}
Calls == {Idle, SetState, Shutdown} \cup {Send(m) : m \in Messages}

(* The types of queues, calls and units. *)
Typed ==
  /\ functors \in Seq(Functors)
  /\ calls \in [Everyone -> Calls] /\ calls[Owner].op # "sendInLoop"
  /\ wire \in Seq(UnitSet) /\ sent \in Seq(UnitSet) /\ outputBuffer \in Seq(UnitSet)
  /\ origin \in [DOMAIN origin -> Everyone]

(* Nothing happens before connectEstablished, which is queued once. *)
Setup ==
  IF Established
    THEN /\ state \in {"kConnected", "kDisconnecting"}
         /\ \A k \in DOMAIN functors : functors[k] # Connect
    ELSE /\ functors = <<Connect>> /\ calls = [t \in Everyone |-> Idle]
         /\ revents = {} /\ DOMAIN origin = {} /\ closers = {} /\ promised = {}
         /\ wire = <<>> /\ sent = <<>> /\ ~finSent /\ ~writing

(* handleClose mutes the channel, and no event is under way then. *)
Silent == closed => muted /\ revents = {}

(* append() being empty, the output buffer holds what it was born with. *)
OutputStale == \A k \in DOMAIN outputBuffer : outputBuffer[k][1] = "garbage"

(* Without a write under way everything sent is on the wire. *)
InOrder ==
  Clean /\ ~closed => IsPrefix(wire, sent) /\ (~writing => wire = sent)

(* A half-close comes of a shutdown(), which ended kConnected. *)
Ended ==
  Established /\ state = "kConnected" =>
    /\ ~finSent /\ promised = {}
    /\ \A k \in DOMAIN functors : functors[k] # Shutdown
    /\ \A t \in Everyone : calls[t] # Shutdown

AllIn(m, q) == \A i \in 1..Size[m] : \E k \in DOMAIN q : q[k] = <<m, i>>

Pending(m) == \E k \in DOMAIN functors : functors[k] = Send(m)

(* Where the messages are that send() accepted. *)
Tracked ==
  \A m \in DOMAIN origin :
    AllIn(m, sent) \/ (origin[m] # Owner /\ (Pending(m) \/ calls[origin[m]] = Send(m)))

(* Those promised are ahead of every half-close in the queue. *)
Ahead ==
  \A m \in promised :
    \/ AllIn(m, sent)
    \/ \E j \in DOMAIN functors :
         functors[j] = Send(m) /\ \A k \in DOMAIN functors : functors[k] = Shutdown => j < k

(* Who shuts down, and who was promised. *)
Closing ==
  /\ \A t \in Everyone : calls[t] \in {SetState, Shutdown} => t \in closers
  /\ \A m \in promised : origin[m] \in closers

IInv ==
  /\ TypeOK /\ Typed /\ Setup /\ Silent
  /\ OutputStale /\ InOrder
  /\ Ended /\ Tracked /\ Ahead /\ Closing /\ GracefulShutdown

------------------------------------------------------------------------------
(* A call or functor is known by its op. *)
LEMMA Kinds ==
  /\ \A c \in Calls \cup Functors :
       /\ c.op = "sendInLoop" => \E m \in Messages : c = Send(m)
       /\ c.op = "setState" => c = SetState
       /\ c.op = "shutdownInLoop" => c = Shutdown
       /\ c.op = "connectEstablished" => c = Connect
       /\ c.op = "none" => c = Idle
  /\ \A m : Send(m).op = "sendInLoop" /\ Send(m).message = m
  /\ Idle.op = "none" /\ SetState.op = "setState"
  /\ Shutdown.op = "shutdownInLoop" /\ Connect.op = "connectEstablished"
BY DEF Calls, Functors, Send, SetState, Shutdown, Connect, Idle

LEMMA UnitsAre ==
  ASSUME NEW m \in Messages
  PROVE  /\ Units(m) \in Seq(UnitSet) /\ Len(Units(m)) = Size[m]
         /\ Size[m] \in Nat \ {0} /\ DOMAIN Units(m) = 1..Size[m]
         /\ \A i \in 1..Size[m] : Units(m)[i] = <<m, i>>
<1>1. Size[m] \in Nat \ {0}
  BY TcpConnectionAssumption
<1>2. \A i \in 1..Size[m] : <<m, i>> \in UnitSet
  BY <1>1 DEF UnitSet
<1>3. Units(m) \in [1..Size[m] -> UnitSet]
  BY <1>2 DEF Units
<1>4. Units(m) \in Seq(UnitSet)
  BY <1>1, <1>3
<1> QED
  BY <1>1, <1>3, <1>4 DEF Units

(* The first units of a sequence. *)
LEMMA FirstOf ==
  ASSUME NEW S, NEW q \in Seq(S), NEW k \in 0..Len(q)
  PROVE  /\ SubSeq(q, 1, k) \in Seq(S) /\ Len(SubSeq(q, 1, k)) = k
         /\ SubSeq(q, k + 1, Len(q)) \in Seq(S)
         /\ \A i \in 1..k : SubSeq(q, 1, k)[i] = q[i]
         /\ k = 0 => SubSeq(q, 1, k) = <<>> /\ SubSeq(q, k + 1, Len(q)) = q
         /\ k = Len(q) => SubSeq(q, 1, k) = q
         /\ \A i \in DOMAIN SubSeq(q, k + 1, Len(q)) :
              \E j \in DOMAIN q : SubSeq(q, k + 1, Len(q))[i] = q[j]
<1>1. Len(q) \in Nat /\ DOMAIN q = 1..Len(q) /\ k \in Nat /\ k <= Len(q)
  OBVIOUS
<1>2. SubSeq(q, 1, k) \in Seq(S) /\ Len(SubSeq(q, 1, k)) = k
      /\ \A i \in 1..k : SubSeq(q, 1, k)[i] = q[i]
  BY <1>1
<1>3. SubSeq(q, k + 1, Len(q)) \in Seq(S)
  BY <1>1
<1>4. k = 0 => SubSeq(q, 1, k) = <<>> /\ SubSeq(q, k + 1, Len(q)) = q
  BY <1>1
<1>5. k = Len(q) => SubSeq(q, 1, k) = q
  BY <1>1
<1>6. ASSUME NEW i \in DOMAIN SubSeq(q, k + 1, Len(q))
      PROVE  \E j \in DOMAIN q : SubSeq(q, k + 1, Len(q))[i] = q[j]
  <2>1. SubSeq(q, k + 1, Len(q))[i] = q[i + k] /\ i + k \in 1..Len(q)
    BY <1>1
  <2> QED
    BY <1>1, <2>1
<1> QED
  BY <1>2, <1>3, <1>4, <1>5, <1>6

(* What is in a sequence stays in it when something is appended. *)
LEMMA Appending ==
  ASSUME NEW S, NEW q \in Seq(S), NEW r \in Seq(S)
  PROVE  /\ q \o r \in Seq(S) /\ Len(q \o r) = Len(q) + Len(r)
         /\ \A i \in DOMAIN q : i \in DOMAIN (q \o r) /\ (q \o r)[i] = q[i]
         /\ \A i \in DOMAIN r :
              Len(q) + i \in DOMAIN (q \o r) /\ (q \o r)[Len(q) + i] = r[i]
         /\ \A m : AllIn(m, q) => AllIn(m, q \o r)
<1>1. /\ q \o r \in Seq(S) /\ Len(q \o r) = Len(q) + Len(r)
      /\ \A i \in DOMAIN q : i \in DOMAIN (q \o r) /\ (q \o r)[i] = q[i]
      /\ \A i \in DOMAIN r :
           Len(q) + i \in DOMAIN (q \o r) /\ (q \o r)[Len(q) + i] = r[i]
  OBVIOUS
<1>2. ASSUME NEW m, AllIn(m, q)
      PROVE  AllIn(m, q \o r)
  BY <1>1, <1>2 DEF AllIn
<1> QED
  BY <1>1, <1>2

(* The buffers hold units. *)
LEMMA Buffers ==
  ASSUME IInv
  PROVE  /\ wire \in Seq(UnitSet) /\ sent \in Seq(UnitSet)
         /\ outputBuffer \in Seq(UnitSet)
BY DEF IInv, Typed

------------------------------------------------------------------------------
(* What sendInLoop and handleWrite do. *)

LEMMA SendEffect ==
  ASSUME IInv, NEW m \in Messages, SendInLoop(m)
  PROVE  /\ sent' = sent \o Units(m) /\ sent' \in Seq(UnitSet)
         /\ wire' \in Seq(UnitSet)
         /\ UNCHANGED <<outputBuffer, finSent, reading, muted>>
         /\ writing' \in {writing, TRUE}
         /\ AllIn(m, sent')
         /\ \A n : AllIn(n, sent) => AllIn(n, sent')
         /\ \A n : AllIn(n, wire) => AllIn(n, wire')
<1>1. PICK k \in 0..Size[m] :
        /\ wire' = wire \o SubSeq(Units(m), 1, k)
        /\ outputBuffer' = outputBuffer
        /\ IF k < Size[m] THEN EnableWriting ELSE UNCHANGED channel
        /\ sent' = sent \o Units(m)
        /\ UNCHANGED finSent
  BY DEF SendInLoop, Appended
<1>2. UNCHANGED <<reading, muted>> /\ writing' \in {writing, TRUE}
  BY <1>1 DEF EnableWriting, channel
<1>3. sent' \in Seq(UnitSet) /\ \A n : AllIn(n, sent) => AllIn(n, sent')
  BY <1>1, UnitsAre, Buffers, Appending
<1>4. AllIn(m, sent')
  <2>1. DOMAIN Units(m) = 1..Size[m] /\ \A i \in 1..Size[m] : Units(m)[i] = <<m, i>>
    BY UnitsAre
  <2>2. \A i \in DOMAIN Units(m) :
          Len(sent) + i \in DOMAIN sent' /\ sent'[Len(sent) + i] = Units(m)[i]
    BY <1>1, UnitsAre, Buffers, Appending
  <2>3. ASSUME NEW i \in 1..Size[m]
        PROVE  \E j \in DOMAIN sent' : sent'[j] = <<m, i>>
    <3> DEFINE j == Len(sent) + i
    <3>1. j \in DOMAIN sent' /\ sent'[j] = <<m, i>>
      BY <2>1, <2>2
    <3> HIDE DEF j
    <3> QED
      BY <3>1
  <2> QED
    BY <2>3 DEF AllIn
<1>5. SubSeq(Units(m), 1, k) \in Seq(UnitSet)
  BY UnitsAre, FirstOf
<1>6. wire' \in Seq(UnitSet) /\ \A n : AllIn(n, wire) => AllIn(n, wire')
  BY <1>1, <1>5, Buffers, Appending
<1> QED
  BY <1>1, <1>2, <1>3, <1>4, <1>6

LEMMA HandleWriteEffect ==
  ASSUME IInv, HandleWrite
  PROVE  /\ wire' \in Seq(UnitSet) /\ outputBuffer' \in Seq(UnitSet)
         /\ UNCHANGED <<reading, muted>> /\ writing' \in BOOLEAN
         /\ finSent' \in BOOLEAN
         /\ finSent' # finSent => state = "kDisconnecting" /\ outputBuffer # <<>>
         /\ outputBuffer = <<>> => UNCHANGED <<wire, outputBuffer, finSent>> /\ writing'
         /\ \A n : AllIn(n, wire) => AllIn(n, wire')
         /\ OutputStale'
<1>1. PICK k \in 0..Len(outputBuffer) :
        /\ wire' = wire \o SubSeq(outputBuffer, 1, k)
        /\ outputBuffer' = SubSeq(outputBuffer, k + 1, Len(outputBuffer))
        /\ writing' = ~(k > 0 /\ outputBuffer' = <<>>)
        /\ finSent' = (finSent \/ ((k > 0 /\ outputBuffer' = <<>>) /\ state = "kDisconnecting"))
        /\ UNCHANGED <<reading, muted>>
  BY DEF HandleWrite
<1>2. /\ SubSeq(outputBuffer, 1, k) \in Seq(UnitSet) /\ outputBuffer' \in Seq(UnitSet)
      /\ \A i \in DOMAIN outputBuffer' : \E j \in DOMAIN outputBuffer : outputBuffer'[i] = outputBuffer[j]
      /\ k = 0 => SubSeq(outputBuffer, 1, k) = <<>> /\ outputBuffer' = outputBuffer
  BY <1>1, Buffers, FirstOf
<1>3. wire' \in Seq(UnitSet) /\ \A n : AllIn(n, wire) => AllIn(n, wire')
  BY <1>1, <1>2, Buffers, Appending
<1>4. OutputStale'
  BY <1>2 DEF OutputStale, IInv
<1>5. finSent \in BOOLEAN
  BY DEF IInv, TypeOK
<1>6. finSent' # finSent => state = "kDisconnecting" /\ k > 0
  BY <1>1, <1>5
<1>7. outputBuffer = <<>> => k = 0
  BY <1>1
<1>8. ASSUME k = 0
      PROVE  UNCHANGED <<wire, outputBuffer, finSent>> /\ writing'
  <2>1. wire \o <<>> = wire
    BY Buffers
  <2>2. wire' = wire /\ outputBuffer' = outputBuffer
    BY <1>1, <1>2, <1>8, <2>1
  <2>3. ~(k > 0)
    BY <1>8
  <2>4. writing' /\ (finSent' <=> finSent)
    BY <1>1, <2>3
  <2>5. finSent' \in BOOLEAN
    BY <1>1, <1>5
  <2> QED
    BY <1>5, <2>2, <2>4, <2>5
<1> QED
  BY <1>1, <1>2, <1>3, <1>4, <1>5, <1>6, <1>7, <1>8

------------------------------------------------------------------------------
(* The order of the wire. *)

LEMMA PrefixKept ==
  ASSUME NEW S, NEW q \in Seq(S), NEW r \in Seq(S), NEW k \in 0..Len(r)
  PROVE  /\ IsPrefix(q, q) /\ IsPrefix(q \o SubSeq(r, 1, k), q \o r)
         /\ \A p \in Seq(S) : IsPrefix(p, q) => IsPrefix(p, q \o r)
<1>1. IsPrefix(q, q)
  BY DEF IsPrefix
<1>2. ASSUME NEW p \in Seq(S), IsPrefix(p, q)
      PROVE  IsPrefix(p, q \o r)
  BY <1>2 DEF IsPrefix
<1>3. IsPrefix(q \o SubSeq(r, 1, k), q \o r)
  <2> DEFINE s == SubSeq(r, 1, k)
             u == q \o s
             v == q \o r
  <2>1. s \in Seq(S) /\ Len(s) = k /\ \A i \in 1..k : s[i] = r[i]
    BY FirstOf
  <2>2. /\ Len(q) \in Nat /\ Len(r) \in Nat /\ k \in Nat /\ k <= Len(r)
    OBVIOUS
  <2> HIDE DEF s
  <2>3. u \in Seq(S) /\ v \in Seq(S) /\ Len(u) = Len(q) + k /\ Len(v) = Len(q) + Len(r)
    BY <2>1
  <2>4. \A i \in 1..Len(u) : u[i] = v[i]
    BY <2>1, <2>2
  <2>5. Len(u) <= Len(v)
    BY <2>2, <2>3
  <2> HIDE DEF u, v
  <2>6. SubSeq(u, 1, Len(u)) = SubSeq(v, 1, Len(u))
    BY <2>3, <2>4, <2>5
  <2>7. IsPrefix(u, v)
    BY <2>5, <2>6 DEF IsPrefix
  <2> QED
    BY <2>7 DEF u, v, s
<1> QED
  BY <1>1, <1>2, <1>3

(* Nothing of the buffer it was born with can come out and be clean. *)
CleanWhenEmpty ==
  wire \in Seq(UnitSet) /\ outputBuffer \in Seq(UnitSet) /\ OutputStale =>
    (Clean <=> outputBuffer = <<>> /\ \A k \in DOMAIN wire : wire[k][1] # "garbage")

LEMMA CleanIs == CleanWhenEmpty
<1> SUFFICES ASSUME wire \in Seq(UnitSet), outputBuffer \in Seq(UnitSet), OutputStale
             PROVE  Clean <=> outputBuffer = <<>> /\ \A k \in DOMAIN wire : wire[k][1] # "garbage"
  BY DEF CleanWhenEmpty
<1>1. CASE outputBuffer = <<>>
  <2>1. wire \o outputBuffer = wire
    BY <1>1
  <2> QED
    BY <1>1, <2>1 DEF Clean
<1>2. CASE outputBuffer # <<>>
  <2>1. 1 \in DOMAIN outputBuffer /\ outputBuffer[1][1] = "garbage"
    BY <1>2 DEF OutputStale
  <2>2. Len(wire) + 1 \in DOMAIN (wire \o outputBuffer)
        /\ (wire \o outputBuffer)[Len(wire) + 1] = outputBuffer[1]
    BY <2>1
  <2>3. ~Clean
    BY <2>1, <2>2 DEF Clean
  <2> QED
    BY <1>2, <2>3
<1> QED
  BY <1>1, <1>2

LEMMA CleanStaysSo == CleanWhenEmpty'
  BY CleanIs, PTL

LEMMA SendInOrder ==
  ASSUME IInv, NEW m \in Messages, SendInLoop(m), UNCHANGED closed
  PROVE  OutputStale' /\ InOrder'
<1>1. PICK k \in 0..Size[m] :
        /\ k > 0 => MayWriteNow
        /\ wire' = wire \o SubSeq(Units(m), 1, k)
        /\ outputBuffer' = outputBuffer
        /\ IF k < Size[m] THEN EnableWriting ELSE UNCHANGED channel
        /\ sent' = sent \o Units(m)
  BY DEF SendInLoop, Appended
<1>2. OutputStale /\ OutputStale'
  BY <1>1 DEF IInv, OutputStale
<1>3. wire' \in Seq(UnitSet) /\ sent' \in Seq(UnitSet) /\ outputBuffer' \in Seq(UnitSet)
  BY <1>1, SendEffect, Buffers
<1> DEFINE u == Units(m)
           p == SubSeq(Units(m), 1, k)
<1>4. /\ u \in Seq(UnitSet) /\ Len(u) = Size[m] /\ Size[m] \in Nat /\ k \in 0..Len(u)
      /\ p \in Seq(UnitSet) /\ (k = Len(u) => p = u) /\ (k = 0 => p = <<>>)
  BY UnitsAre, FirstOf
<1> SUFFICES ASSUME Clean', ~closed
             PROVE  IsPrefix(wire', sent') /\ (~writing' => wire' = sent')
  BY <1>2 DEF InOrder
<1>5. Clean
  <2>1. outputBuffer' = <<>> /\ \A i \in DOMAIN wire' : wire'[i][1] # "garbage"
    BY <1>2, <1>3, CleanStaysSo DEF CleanWhenEmpty
  <2>2. \A i \in DOMAIN wire : i \in DOMAIN wire' /\ wire'[i] = wire[i]
    BY <1>1, <1>4, Buffers, Appending
  <2>3. outputBuffer = <<>> /\ \A i \in DOMAIN wire : wire[i][1] # "garbage"
    BY <1>1, <2>1, <2>2
  <2> QED
    BY <1>2, <2>3, Buffers, CleanIs DEF CleanWhenEmpty
<1>6. IsPrefix(wire, sent) /\ (~writing => wire = sent)
  BY <1>5 DEF IInv, InOrder
<1>7. wire' = wire \o p /\ sent' = sent \o u
  BY <1>1
<1>8. k < Len(u) => writing'
  BY <1>1, <1>4 DEF EnableWriting
<1> HIDE DEF u, p
<1>9. CASE ~writing
  <2>1. wire' = sent \o p
    BY <1>6, <1>7, <1>9
  <2>2. IsPrefix(sent \o p, sent \o u)
    BY <1>4, Buffers, PrefixKept DEF p, u
  <2>3. k = Len(u) \/ k < Len(u)
    BY <1>4
  <2> QED
    BY <1>4, <1>7, <1>8, <2>1, <2>2, <2>3
<1>10. CASE writing
  <2>1. k = 0
    BY <1>1, <1>4, <1>10 DEF MayWriteNow
  <2>2. wire' = wire
    BY <1>4, <1>7, <2>1, Buffers
  <2>3. IsPrefix(wire, sent \o u)
    BY <1>4, <1>6, Buffers, PrefixKept
  <2>4. writing'
    BY <1>4, <1>8, <2>1, UnitsAre
  <2> QED
    BY <1>7, <2>2, <2>3, <2>4
<1> QED
  BY <1>9, <1>10

LEMMA HandleWriteInOrder ==
  ASSUME IInv, HandleWrite, UNCHANGED <<sent, closed>>
  PROVE  InOrder' /\ (Clean' => outputBuffer = <<>>)
<1>1. OutputStale' /\ wire' \in Seq(UnitSet) /\ outputBuffer' \in Seq(UnitSet)
  BY HandleWriteEffect
<1>2. OutputStale
  BY DEF IInv
<1>3. CleanWhenEmpty'
  BY CleanStaysSo
<1>4. Clean' => outputBuffer' = <<>> /\ \A i \in DOMAIN wire' : wire'[i][1] # "garbage"
  BY <1>1, <1>3 DEF CleanWhenEmpty
<1>5. ASSUME Clean'
      PROVE  outputBuffer = <<>>
  <2>1. PICK k \in 0..Len(outputBuffer) :
          /\ wire' = wire \o SubSeq(outputBuffer, 1, k)
          /\ outputBuffer' = SubSeq(outputBuffer, k + 1, Len(outputBuffer))
    BY DEF HandleWrite
  <2>2. CASE k = 0
    BY <1>4, <1>5, <2>1, <2>2, Buffers, FirstOf
  <2>3. CASE k # 0
    <3> DEFINE p == SubSeq(outputBuffer, 1, k)
    <3>1. p \in Seq(UnitSet) /\ Len(p) = k /\ p[1] = outputBuffer[1]
      BY <2>3, Buffers, FirstOf
    <3>2. 1 \in DOMAIN p /\ 1 \in DOMAIN outputBuffer
      BY <2>3, <3>1, Buffers
    <3>3. outputBuffer[1][1] = "garbage"
      BY <1>2, <3>2 DEF OutputStale
    <3>4. wire' = wire \o p
      BY <2>1
    <3> HIDE DEF p
    <3>5. Len(wire) + 1 \in DOMAIN wire' /\ wire'[Len(wire) + 1] = p[1]
      BY <3>1, <3>2, <3>4, Buffers, Appending
    <3> QED
      BY <1>4, <1>5, <3>1, <3>3, <3>5
  <2> QED
    BY <2>2, <2>3
<1>6. ASSUME Clean', ~closed
      PROVE  IsPrefix(wire', sent') /\ writing'
  <2>1. UNCHANGED <<wire, outputBuffer>> /\ writing'
    BY <1>5, <1>6, HandleWriteEffect
  <2>2. Clean
    BY <1>6, <2>1 DEF Clean
  <2> QED
    BY <1>6, <2>1, <2>2 DEF IInv, InOrder
<1> QED
  BY <1>5, <1>6 DEF InOrder

LEMMA OrderStep ==
  ASSUME IInv, [Next]_vars
  PROVE  OutputStale' /\ InOrder'
<1>1. ASSUME NEW m \in Messages, SendInOwner(m)
      PROVE  OutputStale' /\ InOrder'
  BY <1>1, SendInOrder DEF SendInOwner
<1>2. CASE RunSend
  <2>1. functors # <<>> /\ Head(functors).op = "sendInLoop" /\ UNCHANGED closed
    BY <1>2 DEF RunSend, TakeFunctor
  <2>2. Head(functors) \in Functors
    BY <2>1 DEF IInv, Typed
  <2>3. PICK m \in Messages : Head(functors) = Send(m)
    BY <2>1, <2>2, Kinds
  <2>4. SendInLoop(m)
    BY <1>2, <2>3, Kinds DEF RunSend
  <2> QED
    BY <2>1, <2>4, SendInOrder
<1>3. CASE HandleEvent
  <2>1. CASE HandleClose
    BY <2>1 DEF HandleClose, IInv, OutputStale, InOrder
  <2>2. CASE HandleOther
    <3>1. CASE HandleWrite
      <4>1. UNCHANGED <<sent, closed>>
        BY <1>3, <2>2 DEF HandleEvent, HandleOther
      <4> QED
        BY <3>1, <4>1, HandleWriteEffect, HandleWriteInOrder
    <3>2. CASE UNCHANGED <<channel, outputBuffer, socket>>
      BY <1>3, <2>2, <3>2 DEF HandleEvent, HandleOther, channel, socket, IInv,
         OutputStale, InOrder, Clean
    <3> QED
      BY <2>2, <3>1, <3>2 DEF HandleOther
  <2> QED
    BY <1>3, <2>1, <2>2 DEF HandleEvent
<1>4. CASE UNCHANGED <<wire, outputBuffer, sent, writing, closed>>
  BY <1>4 DEF IInv, OutputStale, InOrder, Clean
<1>5. CASE \E t \in Threads \cup {Owner} : TestShutdown(t) \/ Continue(t)
  <2>1. UNCHANGED <<wire, outputBuffer, sent, writing, closed>>
    BY <1>5 DEF TestShutdown, Continue, QueueSend, SetDisconnecting, RunShutdown,
       ShutdownInLoop, channel, socket
  <2> QED
    BY <1>4, <2>1
<1>6. CASE ConnectEstablished \/ RunShutdownInLoop
  BY <1>4, <1>6 DEF ConnectEstablished, RunShutdownInLoop, TakeFunctor,
     ShutdownInLoop, channel, socket
<1>7. CASE Poll \/ PeerCloses \/ \E t \in Threads, m \in Messages : TestSend(t, m)
  BY <1>4, <1>7 DEF Poll, PeerCloses, TestSend, channel, socket
<1>8. CASE UNCHANGED vars
  BY <1>4, <1>8 DEF vars
<1> QED
  BY <1>1, <1>2, <1>3, <1>5, <1>6, <1>7, <1>8 DEF Next, Loop

------------------------------------------------------------------------------
(* Types, and what comes first and last. *)

Shape == TypeOK /\ Typed /\ Setup /\ Silent

(* The only functor that can be connectEstablished is the first. *)
HeadConnects ==
  Typed /\ Setup =>
    ((functors # <<>> /\ Head(functors).op = "connectEstablished") <=> ~Established)

LEMMA HeadIs == HeadConnects
<1> SUFFICES ASSUME Typed, Setup
             PROVE  (functors # <<>> /\ Head(functors).op = "connectEstablished") <=> ~Established
  BY DEF HeadConnects
<1>1. CASE ~Established
  <2>1. functors = <<Connect>>
    BY <1>1 DEF Setup
  <2>2. functors # <<>> /\ Head(functors) = Connect
    BY <2>1
  <2> QED
    BY <1>1, <2>2, Kinds
<1>2. CASE Established
  <2>1. ASSUME functors # <<>>
        PROVE  Head(functors) # Connect /\ Head(functors) \in Functors
    BY <1>2, <2>1 DEF Setup, Typed
  <2> QED
    BY <1>2, <2>1, Kinds
<1> QED
  BY <1>1, <1>2

LEMMA HeadStaysSo == HeadConnects'
  BY HeadIs, PTL

(* Appending a call to the functors. *)
LEMMA QueueTyped ==
  ASSUME IInv, Established, NEW f \in {Shutdown} \cup {Send(m) : m \in Messages},
         functors' = Append(functors, f)
  PROVE  functors' \in Seq(Functors) /\ \A k \in DOMAIN functors' : functors'[k] # Connect
<1>1. f \in Functors /\ f # Connect
  BY Kinds DEF Functors
<1>2. functors \in Seq(Functors) /\ \A k \in DOMAIN functors : functors[k] # Connect
  BY DEF IInv, Typed, Setup
<1>3. functors' \in Seq(Functors)
  BY <1>1, <1>2
<1>4. \A k \in DOMAIN functors' : (k \in DOMAIN functors /\ functors'[k] = functors[k]) \/ functors'[k] = f
  BY <1>2
<1> QED
  BY <1>1, <1>2, <1>3, <1>4

LEMMA TakeTyped ==
  ASSUME IInv, NEW op, TakeFunctor(op)
  PROVE  /\ functors # <<>> /\ Head(functors).op = op /\ Head(functors) \in Functors
         /\ Head(functors) = functors[1] /\ 1 \in DOMAIN functors
         /\ functors' = Tail(functors) /\ functors' \in Seq(Functors)
         /\ \A k \in DOMAIN functors' :
              k \in Nat /\ k + 1 \in DOMAIN functors /\ functors'[k] = functors[k + 1]
         /\ \A k \in DOMAIN functors : k = 1 \/ (k - 1 \in DOMAIN functors' /\ (k - 1) + 1 = k)
         /\ revents = {} /\ UNCHANGED <<calls, revents, peer, history, closed>>
         /\ Established => \A k \in DOMAIN functors' : functors'[k] # Connect
<1>1. /\ functors # <<>> /\ Head(functors).op = op /\ functors' = Tail(functors)
      /\ revents = {} /\ UNCHANGED <<calls, revents, peer, history, closed>>
      /\ functors \in Seq(Functors)
  BY DEF TakeFunctor, IInv, Typed
<1>2. /\ Head(functors) \in Functors /\ functors' \in Seq(Functors)
      /\ Head(functors) = functors[1] /\ 1 \in DOMAIN functors
      /\ \A k \in DOMAIN functors' :
           k \in Nat /\ k + 1 \in DOMAIN functors /\ functors'[k] = functors[k + 1]
      /\ \A k \in DOMAIN functors : k = 1 \/ (k - 1 \in DOMAIN functors' /\ (k - 1) + 1 = k)
  BY <1>1
<1>3. Established => \A k \in DOMAIN functors' : functors'[k] # Connect
  BY <1>2 DEF IInv, Setup
<1> QED
  BY <1>1, <1>2, <1>3

(* accept of a message by send() *)
LEMMA AcceptTyped ==
  ASSUME IInv, NEW t \in Everyone, NEW m \in Messages, m \notin DOMAIN origin, Accept(t, m)
  PROVE  /\ origin' \in [DOMAIN origin' -> Everyone]
         /\ DOMAIN origin' = DOMAIN origin \cup {m} /\ DOMAIN origin' \subseteq Messages
         /\ origin'[m] = t /\ \A n \in DOMAIN origin : origin'[n] = origin[n]
         /\ UNCHANGED <<promised, closers>> /\ promised \subseteq DOMAIN origin'
<1>1. /\ origin' = [n \in DOMAIN origin \cup {m} |-> IF n = m THEN t ELSE origin[n]]
      /\ UNCHANGED <<promised, closers>>
  BY DEF Accept
<1>2. origin \in [DOMAIN origin -> Everyone] /\ DOMAIN origin \subseteq Messages
      /\ promised \subseteq DOMAIN origin
  BY DEF IInv, Typed, TypeOK
<1> QED
  BY <1>1, <1>2

(* Steps that leave the setting as it is: once established, always so. *)
LEMMA CallShape ==
  ASSUME IInv, Established, UNCHANGED <<state, reading, closed>>,
         functors' \in Seq(Functors), \A k \in DOMAIN functors' : functors'[k] # Connect
  PROVE  Established' /\ Setup' /\ ~(functors' # <<>> /\ Head(functors').op = "connectEstablished")
<1>1. Established'
  BY DEF Established
<1>2. Setup'
  BY <1>1 DEF IInv, Setup
<1>3. ASSUME functors' # <<>>
      PROVE  Head(functors') # Connect /\ Head(functors') \in Functors
  BY <1>3
<1> QED
  BY <1>1, <1>2, <1>3, Kinds

(* A step of a thread's call: what is not the loop's stays. *)
LEMMA ThreadShape ==
  ASSUME IInv, Established, NEW t \in Everyone, NEW c \in Calls, Goes(t, c),
         t = Owner => c.op # "sendInLoop",
         state' \in {"kConnected", "kDisconnecting"},
         UNCHANGED <<channel, outputBuffer, wire, sent, revents, peer, closed>>,
         finSent' \in BOOLEAN,
         \/ UNCHANGED functors
         \/ \E f \in {Shutdown} \cup {Send(m) : m \in Messages} : functors' = Append(functors, f),
         origin' \in [DOMAIN origin' -> Everyone], DOMAIN origin' \subseteq Messages,
         promised' \subseteq DOMAIN origin', closers' \subseteq Everyone
  PROVE  Shape'
<1>1. functors' \in Seq(Functors) /\ \A k \in DOMAIN functors' : functors'[k] # Connect
  <2>1. CASE UNCHANGED functors
    BY <2>1 DEF IInv, Typed, Setup
  <2>2. ASSUME NEW f \in {Shutdown} \cup {Send(m) : m \in Messages}, functors' = Append(functors, f)
        PROVE  functors' \in Seq(Functors) /\ \A k \in DOMAIN functors' : functors'[k] # Connect
    BY <2>2, QueueTyped
  <2> QED
    BY <2>1, <2>2
<1>2. UNCHANGED <<reading, writing, muted>>
  BY DEF channel
<1>3. Established' /\ Setup'
  <2>1. Established'
    BY <1>2 DEF Established
  <2> QED
    BY <1>1, <2>1 DEF Setup
<1>4. Typed'
  <2>1. calls' \in [Everyone -> Calls] /\ calls'[Owner].op # "sendInLoop"
    BY DEF Goes, IInv, Typed, Everyone
  <2> QED
    BY <1>1, <2>1 DEF IInv, Typed
<1>5. Silent'
  BY <1>2 DEF IInv, Silent
<1>6. HeadConnects'
  BY HeadStaysSo
<1>7. TypeOK'
  BY <1>2, <1>3, <1>4, <1>6 DEF HeadConnects, IInv, TypeOK, StateE, Everyone
<1> QED
  BY <1>3, <1>4, <1>5, <1>7 DEF Shape

(* A step of the loop thread. *)
LEMMA LoopShape ==
  ASSUME IInv, Established',
         state' \in {"kConnected", "kDisconnecting"}, reading' \in BOOLEAN,
         writing' \in BOOLEAN, muted' \in BOOLEAN, finSent' \in BOOLEAN, closed' \in BOOLEAN,
         muted' => closed', muted' => ~reading', closed' => muted' /\ revents' = {},
         revents' \subseteq {"IN", "OUT", "HUP", "ERR"},
         wire' \in Seq(UnitSet), sent' \in Seq(UnitSet), outputBuffer' \in Seq(UnitSet),
         functors' \in Seq(Functors), \A k \in DOMAIN functors' : functors'[k] # Connect,
         UNCHANGED <<calls, history>>, peer' \in {"open", "eof", "reset"}
  PROVE  Shape'
<1>1. Setup'
  BY DEF Setup
<1>2. Typed'
  BY DEF IInv, Typed, history
<1>3. Silent'
  BY DEF Silent
<1>4. HeadConnects'
  BY HeadStaysSo
<1>5. TypeOK'
  BY <1>1, <1>2, <1>4 DEF HeadConnects, IInv, TypeOK, StateE, history
<1> QED
  BY <1>1, <1>2, <1>3, <1>5 DEF Shape

(* Whoever is in a call has an established connection. *)
LEMMA InCall ==
  ASSUME IInv, NEW t \in Everyone
  PROVE  /\ calls[t] \in Calls
         /\ calls[t].op # "none" => Established
         /\ calls[t].op = "sendInLoop" => \E m \in Messages : calls[t] = Send(m)
         /\ calls[t].op = "setState" => calls[t] = SetState
         /\ calls[t].op = "shutdownInLoop" => calls[t] = Shutdown
<1>1. calls[t] \in Calls
  BY DEF IInv, Typed
<1>2. ~Established => calls[t] = Idle
  BY DEF IInv, Setup
<1> QED
  BY <1>1, <1>2, Kinds

LEMMA SendInOwnerShape ==
  ASSUME IInv, NEW m \in Messages, SendInOwner(m)
  PROVE  Shape'
<1>1. /\ Established /\ m \notin DOMAIN origin /\ Accept(Owner, m) /\ SendInLoop(m)
      /\ UNCHANGED <<state, functors, calls, revents, peer, closed>>
  BY DEF SendInOwner, Ready
<1>2. Owner \in Everyone
  BY DEF Everyone
<1>3. /\ origin' \in [DOMAIN origin' -> Everyone] /\ DOMAIN origin' \subseteq Messages
      /\ UNCHANGED <<promised, closers>> /\ promised \subseteq DOMAIN origin'
  BY <1>1, <1>2, AcceptTyped
<1>4. /\ sent' \in Seq(UnitSet) /\ wire' \in Seq(UnitSet)
      /\ UNCHANGED <<outputBuffer, finSent, reading, muted>> /\ writing' \in {writing, TRUE}
  BY <1>1, SendEffect
<1>5. Established' /\ Setup'
  <2>1. functors' \in Seq(Functors) /\ \A k \in DOMAIN functors' : functors'[k] # Connect
    BY <1>1 DEF IInv, Typed, Setup
  <2> QED
    BY <1>1, <1>4, <2>1, CallShape
<1>6. Typed'
  BY <1>1, <1>3, <1>4 DEF IInv, Typed
<1>7. Silent'
  BY <1>1, <1>4 DEF IInv, Silent
<1>8. HeadConnects'
  BY HeadStaysSo
<1>9. TypeOK'
  BY <1>1, <1>3, <1>4, <1>5, <1>6, <1>8 DEF HeadConnects, IInv, TypeOK
<1> QED
  BY <1>5, <1>6, <1>7, <1>9 DEF Shape

LEMMA ThreadsShape ==
  ASSUME IInv,
         \/ \E t \in Threads, m \in Messages : TestSend(t, m)
         \/ \E t \in Threads \cup {Owner} : TestShutdown(t) \/ Continue(t)
  PROVE  Shape'
<1>1. /\ origin \in [DOMAIN origin -> Everyone] /\ DOMAIN origin \subseteq Messages
      /\ promised \subseteq DOMAIN origin /\ closers \subseteq Everyone /\ finSent \in BOOLEAN
      /\ Established => state \in {"kConnected", "kDisconnecting"}
  BY DEF IInv, TypeOK, Typed, Setup, Everyone
<1>2. ASSUME NEW t \in Threads, NEW m \in Messages, TestSend(t, m)
      PROVE  Shape'
  <2>1. /\ Established /\ m \notin DOMAIN origin /\ Accept(t, m) /\ Goes(t, Send(m))
        /\ UNCHANGED <<state, channel, outputBuffer, functors, revents, peer, wire, finSent, sent, closed>>
    BY <1>2 DEF TestSend, Ready, Send, socket
  <2>2. t \in Everyone /\ t # Owner
    BY TcpConnectionAssumption DEF Everyone
  <2>3. /\ origin' \in [DOMAIN origin' -> Everyone] /\ DOMAIN origin' \subseteq Messages
        /\ UNCHANGED <<promised, closers>> /\ promised \subseteq DOMAIN origin'
    BY <2>1, <2>2, AcceptTyped
  <2>4. Send(m) \in Calls
    BY DEF Calls
  <2> QED
    BY <1>1, <2>1, <2>2, <2>3, <2>4, ThreadShape
<1>3. ASSUME NEW t \in Everyone, TestShutdown(t)
      PROVE  Shape'
  <2>1. /\ Established /\ Goes(t, SetState) /\ closers' = closers \cup {t}
        /\ UNCHANGED <<state, channel, outputBuffer, functors, revents, peer, wire, finSent, sent, origin, promised, closed>>
    BY <1>3 DEF TestShutdown, Ready, SetState, socket
  <2>2. SetState \in Calls /\ SetState.op # "sendInLoop" /\ closers' \subseteq Everyone
    BY <1>1, <2>1, Kinds DEF Calls
  <2> QED
    BY <1>1, <2>1, <2>2, ThreadShape
<1>4. Idle \in Calls /\ Idle.op # "sendInLoop" /\ Shutdown \in Calls /\ Shutdown.op # "sendInLoop"
  BY Kinds DEF Calls
<1>5. ASSUME NEW t \in Everyone, QueueSend(t)
      PROVE  Shape'
  <2>1. PICK m \in Messages : calls[t] = Send(m)
    BY <1>5, InCall DEF QueueSend
  <2>2. Established
    BY <1>5, InCall DEF QueueSend
  <2>3. /\ functors' = Append(functors, Send(m)) /\ Goes(t, Idle)
        /\ UNCHANGED <<state, channel, outputBuffer, revents, peer, wire, finSent, sent, origin, promised, closers, closed>>
    BY <1>5, <2>1 DEF QueueSend, socket, history
  <2> QED
    BY <1>1, <1>4, <2>2, <2>3, ThreadShape
<1>6. ASSUME NEW t \in Everyone, SetDisconnecting(t)
      PROVE  Shape'
  <2>1. Established
    BY <1>6, InCall DEF SetDisconnecting
  <2>2. /\ state' = "kDisconnecting" /\ promised' = Promise(t) /\ Goes(t, Shutdown)
        /\ UNCHANGED <<channel, outputBuffer, functors, revents, peer, wire, finSent, sent, origin, closers, closed>>
    BY <1>6 DEF SetDisconnecting, Shutdown, socket
  <2>3. promised' \subseteq DOMAIN origin'
    BY <1>1, <2>2 DEF Promise
  <2> QED
    BY <1>1, <1>4, <2>1, <2>2, <2>3, ThreadShape
<1>7. ASSUME NEW t \in Everyone, RunShutdown(t)
      PROVE  Shape'
  <2>1. Established /\ calls[t] = Shutdown
    BY <1>7, InCall DEF RunShutdown
  <2>2. /\ Goes(t, Idle)
        /\ UNCHANGED <<state, channel, outputBuffer, revents, peer, sent, origin, promised, closers, closed>>
        /\ IF t = Owner THEN ShutdownInLoop /\ UNCHANGED functors
             ELSE functors' = Append(functors, Shutdown) /\ UNCHANGED <<wire, finSent>>
    BY <1>7, <2>1 DEF RunShutdown, socket, history
  <2>3. /\ UNCHANGED wire /\ finSent' \in BOOLEAN
        /\ UNCHANGED functors \/ functors' = Append(functors, Shutdown)
    BY <1>1, <2>2 DEF ShutdownInLoop, IInv, TypeOK
  <2> QED
    BY <1>1, <1>4, <2>1, <2>2, <2>3, ThreadShape
<1> QED
  BY <1>2, <1>3, <1>5, <1>6, <1>7 DEF Continue, Everyone

(* A functor other than connectEstablished runs in an established          *)
(* connection, and connectEstablished is the only one before.              *)
LEMMA Taken ==
  ASSUME IInv, NEW op, TakeFunctor(op)
  PROVE  /\ op # "connectEstablished" <=> Established
         /\ op = "connectEstablished" => functors' = <<>> /\ ~Established
         /\ op = "sendInLoop" => \E m \in Messages : functors[1] = Send(m) /\ Head(functors) = Send(m)
         /\ op = "shutdownInLoop" => functors[1] = Shutdown
<1>1. /\ functors # <<>> /\ Head(functors).op = op /\ Head(functors) \in Functors
      /\ Head(functors) = functors[1] /\ functors' = Tail(functors)
  BY TakeTyped
<1>2. op = "connectEstablished" <=> ~Established
  BY <1>1, HeadIs DEF HeadConnects, IInv
<1>3. ~Established => functors = <<Connect>>
  BY DEF IInv, Setup
<1>4. ~Established => functors' = <<>>
  <2>1. functors' = Tail(functors)
    BY <1>1
  <2>2. \A x : Tail(<<x>>) = <<>>
    OBVIOUS
  <2> QED
    BY <1>3, <2>1, <2>2
<1>5. op = "sendInLoop" => \E m \in Messages : Head(functors) = Send(m)
  BY <1>1, Kinds
<1>6. op = "shutdownInLoop" => Head(functors) = Shutdown
  BY <1>1, Kinds
<1> QED
  BY <1>1, <1>2, <1>4, <1>5, <1>6

LEMMA LoopsShape ==
  ASSUME IInv, Loop
  PROVE  Shape'
<1>1. /\ reading \in BOOLEAN /\ writing \in BOOLEAN /\ muted \in BOOLEAN /\ finSent \in BOOLEAN
      /\ closed \in BOOLEAN /\ (muted => closed) /\ (muted => ~reading)
      /\ (closed => muted /\ revents = {})
      /\ revents \subseteq {"IN", "OUT", "HUP", "ERR"} /\ peer \in {"open", "eof", "reset"}
      /\ wire \in Seq(UnitSet) /\ sent \in Seq(UnitSet) /\ outputBuffer \in Seq(UnitSet)
      /\ functors \in Seq(Functors)
      /\ Established => state \in {"kConnected", "kDisconnecting"}
      /\ Established => \A k \in DOMAIN functors : functors[k] # Connect
  BY DEF IInv, TypeOK, Typed, Setup, Silent
<1>2. CASE ConnectEstablished
  <2>1. /\ TakeFunctor("connectEstablished") /\ state' = "kConnected" /\ reading' = TRUE
        /\ UNCHANGED <<writing, muted, outputBuffer, wire, finSent, sent>>
    BY <1>2 DEF ConnectEstablished, socket
  <2>2. functors' = <<>> /\ ~Established
    BY <2>1, Taken
  <2>3. UNCHANGED <<calls, revents, peer, history, closed>>
    BY <2>1, TakeTyped
  <2>4. ~closed /\ ~muted
    BY <1>1, <2>2 DEF Established
  <2>5. Established'
    BY <2>1 DEF Established
  <2>6. functors' \in Seq(Functors) /\ \A k \in DOMAIN functors' : functors'[k] # Connect
    BY <2>2
  <2>7. closed' => muted' /\ revents' = {}
    BY <2>3, <2>4
  <2>8. muted' => closed' /\ ~reading'
    BY <2>1, <2>4
  <2> QED
    BY <1>1, <2>1, <2>3, <2>5, <2>6, <2>7, <2>8, LoopShape
<1>3. CASE RunSend
  <2>1. TakeFunctor("sendInLoop") /\ SendInLoop(Head(functors).message) /\ UNCHANGED state
    BY <1>3 DEF RunSend
  <2>2. Established /\ \E m \in Messages : Head(functors) = Send(m)
    BY <2>1, Taken
  <2>3. PICK m \in Messages : SendInLoop(m)
    BY <2>1, <2>2, Kinds
  <2>4. /\ sent' \in Seq(UnitSet) /\ wire' \in Seq(UnitSet)
        /\ UNCHANGED <<outputBuffer, finSent, reading, muted>> /\ writing' \in {writing, TRUE}
    BY <2>3, SendEffect
  <2>5. /\ UNCHANGED <<calls, revents, peer, history, closed>> /\ functors' \in Seq(Functors)
        /\ \A k \in DOMAIN functors' : functors'[k] # Connect
    BY <2>1, <2>2, TakeTyped
  <2>6. Established'
    BY <2>2, <2>4, <2>5 DEF Established
  <2> QED
    BY <1>1, <2>1, <2>2, <2>4, <2>5, <2>6, LoopShape
<1>4. CASE RunShutdownInLoop
  <2>1. /\ TakeFunctor("shutdownInLoop") /\ ShutdownInLoop
        /\ UNCHANGED <<state, reading, writing, muted, outputBuffer, sent>>
    BY <1>4 DEF RunShutdownInLoop, channel
  <2>2. Established
    BY <2>1, Taken
  <2>3. UNCHANGED wire /\ finSent' \in BOOLEAN
    BY <1>1, <2>1 DEF ShutdownInLoop
  <2>4. /\ UNCHANGED <<calls, revents, peer, history, closed>> /\ functors' \in Seq(Functors)
        /\ \A k \in DOMAIN functors' : functors'[k] # Connect
    BY <2>1, <2>2, TakeTyped
  <2>5. Established'
    BY <2>1, <2>2, <2>4 DEF Established
  <2> QED
    BY <1>1, <2>1, <2>2, <2>3, <2>4, <2>5, LoopShape
<1>5. CASE Poll
  <2>1. /\ Established /\ ~muted /\ revents' \in SUBSET MayReport
        /\ UNCHANGED <<state, reading, writing, muted, outputBuffer, functors, calls, peer,
                       wire, finSent, sent, history, closed>>
    BY <1>5 DEF Poll, channel, socket
  <2>2. revents' \subseteq {"IN", "OUT", "HUP", "ERR"}
    BY <2>1 DEF MayReport
  <2>3. Established'
    BY <2>1 DEF Established
  <2> QED
    BY <1>1, <2>1, <2>2, <2>3, LoopShape
<1>6. CASE HandleEvent
  <2>1. /\ revents # {} /\ revents' = {} /\ UNCHANGED <<state, functors, calls, peer, sent, history>>
    BY <1>6 DEF HandleEvent
  <2>2. Established /\ ~closed
    BY <2>1 DEF IInv, Setup, Silent
  <2>3. CASE HandleClose
    <3>1. /\ ~reading' /\ ~writing' /\ muted' /\ closed'
          /\ reading' \in BOOLEAN /\ writing' \in BOOLEAN /\ muted' \in BOOLEAN /\ closed' \in BOOLEAN
          /\ UNCHANGED <<outputBuffer, wire, finSent>>
      BY <2>3 DEF HandleClose, DisableAll, socket
    <3>2. Established'
      BY <3>1 DEF Established
    <3> QED
      BY <1>1, <2>1, <2>2, <3>1, <3>2, LoopShape
  <2>4. CASE HandleOther
    <3>1. /\ UNCHANGED <<closed, reading, muted>> /\ writing' \in BOOLEAN /\ finSent' \in BOOLEAN
          /\ wire' \in Seq(UnitSet) /\ outputBuffer' \in Seq(UnitSet)
      BY <1>1, <2>4, HandleWriteEffect DEF HandleOther, channel, socket
    <3>2. Established'
      BY <2>2, <3>1 DEF Established
    <3> QED
      BY <1>1, <2>1, <2>2, <3>1, <3>2, LoopShape
  <2> QED
    BY <1>6, <2>3, <2>4 DEF HandleEvent
<1> QED
  BY <1>2, <1>3, <1>4, <1>5, <1>6 DEF Loop

LEMMA ShapeStep ==
  ASSUME IInv, [Next]_vars
  PROVE  Shape'
<1>1. CASE UNCHANGED <<state, channel, outputBuffer, functors, calls, revents, socket,
                       sent, history, closed>> /\ peer' \in {"open", "eof", "reset"}
  <2>1. Established' <=> Established
    BY <1>1 DEF Established, channel
  <2>2. UNCHANGED <<state, reading, writing, muted, outputBuffer, functors, calls, revents,
                    wire, finSent, sent, origin, promised, closers, closed>>
    BY <1>1 DEF channel, socket, history
  <2>3. Setup' /\ Typed' /\ Silent'
    BY <2>1, <2>2 DEF IInv, Setup, Typed, Silent
  <2>4. HeadConnects'
    BY HeadStaysSo
  <2>5. TypeOK'
    BY <1>1, <2>1, <2>2, <2>3, <2>4 DEF IInv, TypeOK, HeadConnects
  <2> QED
    BY <2>3, <2>5 DEF Shape
<1>2. CASE PeerCloses
  BY <1>1, <1>2 DEF PeerCloses
<1>3. CASE UNCHANGED vars
  BY <1>1, <1>3 DEF vars, channel, socket, history, IInv, TypeOK
<1> QED
  BY <1>2, <1>3, SendInOwnerShape, ThreadsShape, LoopsShape DEF Next

------------------------------------------------------------------------------
(* Where messages and half-closes are in the queue. *)

Queued == Ended /\ Tracked /\ Ahead /\ Closing

(* A step that changes none of what the queue is about. *)
LEMMA QueuedKept ==
  ASSUME IInv, Established' <=> Established, finSent' # finSent => state # "kConnected",
         UNCHANGED <<state, functors, calls, origin, promised, closers>>,
         \A m : AllIn(m, sent) => AllIn(m, sent')
  PROVE  Queued'
<1>1. finSent \in BOOLEAN
  BY DEF IInv, TypeOK
<1>2. Ended'
  BY <1>1 DEF IInv, Ended
<1>3. Tracked' /\ Ahead'
  BY DEF IInv, Tracked, Ahead, Pending
<1>4. Closing'
  BY DEF IInv, Closing
<1> QED
  BY <1>2, <1>3, <1>4 DEF Queued

(* Whose calls they are. *)
LEMMA CallIs ==
  ASSUME IInv, NEW t \in Everyone, NEW c, Goes(t, c)
  PROVE  calls'[t] = c /\ \A s \in Everyone : s # t => calls'[s] = calls[s]
BY DEF Goes, IInv, Typed

LEMMA KindsDiffer ==
  /\ Shutdown # SetState /\ Shutdown # Idle /\ SetState # Idle
  /\ \A m : Send(m) # Shutdown /\ Send(m) # SetState /\ Send(m) # Idle /\ Send(m) # Connect
  /\ \A m, n : Send(m) = Send(n) => m = n
<1>1. "sendInLoop" # "setState" /\ "sendInLoop" # "shutdownInLoop" /\ "sendInLoop" # "none"
      /\ "sendInLoop" # "connectEstablished"
      /\ "setState" # "shutdownInLoop" /\ "setState" # "none" /\ "shutdownInLoop" # "none"
  OBVIOUS
<1>2. Shutdown # SetState /\ Shutdown # Idle /\ SetState # Idle
  BY <1>1, Kinds
<1>3. ASSUME NEW m
      PROVE  Send(m) # Shutdown /\ Send(m) # SetState /\ Send(m) # Idle /\ Send(m) # Connect
  BY <1>1, Kinds
<1>4. ASSUME NEW m, NEW n, Send(m) = Send(n)
      PROVE  m = n
  BY <1>4, Kinds
<1> QED
  BY <1>2, <1>3, <1>4

LEMMA SendInOwnerQueued ==
  ASSUME IInv, NEW m \in Messages, SendInOwner(m)
  PROVE  Queued'
<1>1. /\ m \notin DOMAIN origin /\ Accept(Owner, m) /\ SendInLoop(m)
      /\ UNCHANGED <<state, functors, calls, closed>>
  BY DEF SendInOwner
<1>2. Owner \in Everyone
  BY DEF Everyone
<1>3. /\ DOMAIN origin' = DOMAIN origin \cup {m} /\ origin'[m] = Owner
      /\ \A n \in DOMAIN origin : origin'[n] = origin[n]
      /\ UNCHANGED <<promised, closers>>
  BY <1>1, <1>2, AcceptTyped
<1>4. /\ UNCHANGED <<finSent, reading>> /\ AllIn(m, sent')
      /\ \A n : AllIn(n, sent) => AllIn(n, sent')
  BY <1>1, SendEffect
<1>5. Ended'
  BY <1>1, <1>3, <1>4 DEF IInv, Ended, Established
<1>6. Tracked'
  BY <1>1, <1>3, <1>4 DEF IInv, Tracked, Pending
<1>7. Ahead'
  BY <1>1, <1>3, <1>4 DEF IInv, Ahead
<1>8. promised \subseteq DOMAIN origin
  BY DEF IInv, TypeOK
<1>9. Closing'
  BY <1>1, <1>3, <1>8 DEF IInv, Closing
<1> QED
  BY <1>5, <1>6, <1>7, <1>9 DEF Queued

LEMMA TestSendQueued ==
  ASSUME IInv, NEW t \in Threads, NEW m \in Messages, TestSend(t, m)
  PROVE  Queued'
<1>1. /\ Established /\ m \notin DOMAIN origin /\ Accept(t, m) /\ Goes(t, Send(m)) /\ calls[t] = Idle
      /\ UNCHANGED <<state, reading, functors, finSent, sent, closed>>
  BY DEF TestSend, Ready, Send, socket, channel
<1>2. t \in Everyone /\ t # Owner
  BY TcpConnectionAssumption DEF Everyone
<1>3. /\ DOMAIN origin' = DOMAIN origin \cup {m} /\ origin'[m] = t
      /\ \A n \in DOMAIN origin : origin'[n] = origin[n]
      /\ UNCHANGED <<promised, closers>>
  BY <1>1, <1>2, AcceptTyped
<1>4. calls'[t] = Send(m) /\ \A s \in Everyone : s # t => calls'[s] = calls[s]
  BY <1>1, <1>2, CallIs
<1>5. Ended'
  BY <1>1, <1>3, <1>4, KindsDiffer DEF IInv, Ended, Established
<1>6. Tracked'
  <2> SUFFICES ASSUME NEW n \in DOMAIN origin'
               PROVE  AllIn(n, sent') \/ (origin'[n] # Owner /\ (Pending(n)' \/ calls'[origin'[n]] = Send(n)))
    BY DEF Tracked
  <2>1. CASE n = m
    BY <1>2, <1>3, <1>4, <2>1
  <2>2. CASE n # m
    <3>1. n \in DOMAIN origin /\ origin'[n] = origin[n] /\ origin[n] \in Everyone
      BY <1>3, <2>2 DEF IInv, Typed
    <3>2. AllIn(n, sent) \/ (origin[n] # Owner /\ (Pending(n) \/ calls[origin[n]] = Send(n)))
      BY <3>1 DEF IInv, Tracked
    <3>3. calls[origin[n]] = Send(n) => origin[n] # t
      BY <1>1, KindsDiffer
    <3> QED
      BY <1>1, <1>4, <3>1, <3>2, <3>3 DEF Pending
  <2> QED
    BY <2>1, <2>2
<1>7. Ahead'
  BY <1>1, <1>3 DEF IInv, Ahead
<1>8. promised \subseteq DOMAIN origin
  BY DEF IInv, TypeOK
<1>9. Closing'
  BY <1>1, <1>3, <1>4, <1>8, KindsDiffer DEF IInv, Closing
<1> QED
  BY <1>5, <1>6, <1>7, <1>9 DEF Queued

(* What the queue holds after one more functor. *)
LEMMA Appended1 ==
  ASSUME IInv, NEW f, functors' = Append(functors, f)
  PROVE  /\ \A k \in DOMAIN functors : k \in DOMAIN functors' /\ functors'[k] = functors[k]
         /\ \A k \in DOMAIN functors' :
              \/ k \in DOMAIN functors /\ functors'[k] = functors[k]
              \/ functors'[k] = f /\ \A j \in DOMAIN functors : j < k
         /\ \E k \in DOMAIN functors' : functors'[k] = f
         /\ \A m : Pending(m) => Pending(m)'
<1>1. functors \in Seq(Functors)
  BY DEF IInv, Typed
<1> DEFINE l == Len(functors) + 1
<1>2. /\ DOMAIN functors = 1..Len(functors) /\ DOMAIN functors' = 1..l /\ Len(functors) \in Nat
      /\ \A k \in 1..Len(functors) : functors'[k] = functors[k]
      /\ functors'[l] = f
  BY <1>1
<1>3. \A k \in DOMAIN functors : k \in DOMAIN functors' /\ functors'[k] = functors[k]
  BY <1>2
<1>4. \A k \in DOMAIN functors' : k \in DOMAIN functors \/ k = l
  BY <1>2
<1>5. \A j \in DOMAIN functors : j < l
  BY <1>2
<1>6. l \in DOMAIN functors'
  BY <1>2
<1> HIDE DEF l
<1>7. \A m : Pending(m) => Pending(m)'
  BY <1>3 DEF Pending
<1> QED
  BY <1>2, <1>3, <1>4, <1>5, <1>6, <1>7

(* Those who were promised stay ahead whatever is appended. *)
LEMMA AheadAppend ==
  ASSUME IInv, NEW f, functors' = Append(functors, f),
         UNCHANGED <<promised, sent>>
  PROVE  Ahead'
<1> SUFFICES ASSUME NEW m \in promised, ~AllIn(m, sent)
             PROVE  \E j \in DOMAIN functors' :
                      functors'[j] = Send(m) /\ \A k \in DOMAIN functors' : functors'[k] = Shutdown => j < k
  BY DEF Ahead
<1>1. PICK j \in DOMAIN functors :
        functors[j] = Send(m) /\ \A k \in DOMAIN functors : functors[k] = Shutdown => j < k
  BY DEF IInv, Ahead
<1>2. j \in DOMAIN functors' /\ functors'[j] = Send(m)
  BY <1>1, Appended1
<1>3. ASSUME NEW k \in DOMAIN functors', functors'[k] = Shutdown
      PROVE  j < k
  <2>1. \/ k \in DOMAIN functors /\ functors'[k] = functors[k]
        \/ \A i \in DOMAIN functors : i < k
    BY Appended1
  <2> QED
    BY <1>1, <1>3, <2>1
<1> QED
  BY <1>2, <1>3

LEMMA QueueSendQueued ==
  ASSUME IInv, NEW t \in Everyone, QueueSend(t)
  PROVE  Queued'
<1>1. PICK m \in Messages : calls[t] = Send(m)
  BY InCall DEF QueueSend
<1>2. /\ functors' = Append(functors, Send(m)) /\ Goes(t, Idle)
      /\ UNCHANGED <<state, reading, finSent, sent, origin, promised, closers, closed>>
  BY <1>1 DEF QueueSend, socket, history, channel
<1>3. calls'[t] = Idle /\ \A s \in Everyone : s # t => calls'[s] = calls[s]
  BY <1>2, CallIs
<1>4. \A k \in DOMAIN functors' :
        (k \in DOMAIN functors /\ functors'[k] = functors[k]) \/ functors'[k] = Send(m)
  BY <1>2, Appended1
<1>5. (\A n : Pending(n) => Pending(n)') /\ Pending(m)'
  <2>1. \E k \in DOMAIN functors' : functors'[k] = Send(m)
    BY <1>2, Appended1
  <2> QED
    BY <1>2, <2>1, Appended1 DEF Pending
<1>6. Ended'
  BY <1>2, <1>3, <1>4, KindsDiffer DEF IInv, Ended, Established
<1>7. Tracked'
  <2> SUFFICES ASSUME NEW n \in DOMAIN origin, ~AllIn(n, sent)
               PROVE  origin[n] # Owner /\ (Pending(n)' \/ calls'[origin[n]] = Send(n))
    BY <1>2 DEF Tracked
  <2>1. origin[n] \in Everyone
    BY DEF IInv, Typed
  <2>2. origin[n] # Owner /\ (Pending(n) \/ calls[origin[n]] = Send(n))
    BY DEF IInv, Tracked
  <2>3. CASE origin[n] = t /\ ~Pending(n)
    <3>1. n = m
      BY <1>1, <2>2, <2>3, KindsDiffer
    <3> QED
      BY <1>5, <2>2, <3>1
  <2>4. CASE origin[n] # t \/ Pending(n)
    BY <1>3, <1>5, <2>1, <2>2, <2>4
  <2> QED
    BY <2>3, <2>4
<1>8. Ahead'
  BY <1>2, AheadAppend
<1>9. Closing'
  BY <1>2, <1>3, KindsDiffer DEF IInv, Closing
<1> QED
  BY <1>6, <1>7, <1>8, <1>9 DEF Queued

LEMMA TestShutdownQueued ==
  ASSUME IInv, NEW t \in Everyone, TestShutdown(t)
  PROVE  Queued'
<1>1. /\ calls[t] = Idle /\ Goes(t, SetState) /\ closers' = closers \cup {t}
      /\ UNCHANGED <<state, reading, functors, finSent, sent, origin, promised, closed>>
  BY DEF TestShutdown, Ready, SetState, socket, channel
<1>2. calls'[t] = SetState /\ \A s \in Everyone : s # t => calls'[s] = calls[s]
  BY <1>1, CallIs
<1>3. Ended'
  BY <1>1, <1>2, KindsDiffer DEF IInv, Ended, Established
<1>4. Tracked'
  <2>1. \A n \in DOMAIN origin : origin[n] \in Everyone
    BY DEF IInv, Typed
  <2>2. \A n : calls[t] # Send(n)
    BY <1>1, KindsDiffer
  <2> QED
    BY <1>1, <1>2, <2>1, <2>2 DEF IInv, Tracked, Pending
<1>5. Ahead'
  BY <1>1 DEF IInv, Ahead
<1>6. Closing'
  BY <1>1, <1>2 DEF IInv, Closing
<1> QED
  BY <1>3, <1>4, <1>5, <1>6 DEF Queued

LEMMA SetDisconnectingQueued ==
  ASSUME IInv, NEW t \in Everyone, SetDisconnecting(t)
  PROVE  Queued'
<1>1. Established /\ calls[t] = SetState
  BY InCall DEF SetDisconnecting
<1>2. /\ state' = "kDisconnecting" /\ promised' = Promise(t) /\ Goes(t, Shutdown)
      /\ UNCHANGED <<functors, sent, origin, closers>>
  BY DEF SetDisconnecting, Shutdown
<1>3. calls'[t] = Shutdown /\ \A s \in Everyone : s # t => calls'[s] = calls[s]
  BY <1>2, CallIs
<1>4. Ended'
  BY <1>2 DEF Ended
<1>5. \A n : calls[t] # Send(n)
  BY <1>1, KindsDiffer
<1>6. Tracked'
  <2>1. \A n \in DOMAIN origin : origin[n] \in Everyone
    BY DEF IInv, Typed
  <2> QED
    BY <1>2, <1>3, <1>5, <2>1 DEF IInv, Tracked, Pending
<1>7. t \in closers
  BY <1>1 DEF IInv, Closing
<1>8. Closing'
  BY <1>2, <1>3, <1>7 DEF IInv, Closing, Promise
<1>9. Ahead'
  <2>1. CASE state = "kConnected"
    <3> SUFFICES ASSUME NEW m \in DOMAIN origin, origin[m] = t, ~AllIn(m, sent)
                 PROVE  \E j \in DOMAIN functors :
                          functors[j] = Send(m) /\ \A k \in DOMAIN functors : functors[k] = Shutdown => j < k
      BY <1>2, <2>1 DEF Ahead, Promise
    <3>1. Pending(m)
      BY <1>5 DEF IInv, Tracked
    <3>2. \A k \in DOMAIN functors : functors[k] # Shutdown
      BY <1>1, <2>1 DEF IInv, Ended
    <3> QED
      BY <3>1, <3>2 DEF Pending
  <2>2. CASE state # "kConnected"
    BY <1>2, <2>2 DEF IInv, Ahead, Promise
  <2> QED
    BY <2>1, <2>2
<1> QED
  BY <1>4, <1>6, <1>8, <1>9 DEF Queued

LEMMA RunShutdownQueued ==
  ASSUME IInv, NEW t \in Everyone, RunShutdown(t)
  PROVE  Queued'
<1>1. Established /\ calls[t] = Shutdown
  BY InCall DEF RunShutdown
<1>2. /\ Goes(t, Idle)
      /\ UNCHANGED <<state, sent, origin, promised, closers>>
      /\ UNCHANGED functors \/ functors' = Append(functors, Shutdown)
  BY <1>1 DEF RunShutdown, history
<1>3. calls'[t] = Idle /\ \A s \in Everyone : s # t => calls'[s] = calls[s]
  BY <1>2, CallIs
<1>4. state # "kConnected"
  BY <1>1 DEF IInv, Ended
<1>5. Ended'
  BY <1>2, <1>4 DEF Ended
<1>6. \A n : Pending(n) => Pending(n)'
  BY <1>2, Appended1 DEF Pending
<1>7. Tracked'
  <2>1. \A n \in DOMAIN origin : origin[n] \in Everyone
    BY DEF IInv, Typed
  <2>2. \A n : calls[t] # Send(n)
    BY <1>1, KindsDiffer
  <2> QED
    BY <1>2, <1>3, <1>6, <2>1, <2>2 DEF IInv, Tracked
<1>8. Ahead'
  <2>1. CASE UNCHANGED functors
    BY <1>2, <2>1 DEF IInv, Ahead
  <2>2. CASE functors' = Append(functors, Shutdown)
    BY <1>2, <2>2, AheadAppend
  <2> QED
    BY <1>2, <2>1, <2>2
<1>9. Closing'
  BY <1>2, <1>3, KindsDiffer DEF IInv, Closing
<1> QED
  BY <1>5, <1>7, <1>8, <1>9 DEF Queued

(* What is left in the queue when its first functor has run. *)
LEMMA TakenQueued ==
  ASSUME IInv, NEW op, TakeFunctor(op), Established, UNCHANGED state,
         finSent' # finSent => state # "kConnected",
         \A n : AllIn(n, sent) => AllIn(n, sent'),
         \A n : functors[1] = Send(n) => AllIn(n, sent')
  PROVE  Queued'
<1>1. /\ \A k \in DOMAIN functors' :
           k \in Nat /\ k + 1 \in DOMAIN functors /\ functors'[k] = functors[k + 1]
      /\ \A k \in DOMAIN functors : k = 1 \/ (k - 1 \in DOMAIN functors' /\ (k - 1) + 1 = k)
      /\ UNCHANGED <<calls, origin, promised, closers>>
  BY TakeTyped DEF history
<1>2. DOMAIN functors \subseteq Nat
  BY DEF IInv, Typed
<1>3. Ended'
  <2> SUFFICES ASSUME state = "kConnected"
               PROVE  /\ ~finSent' /\ promised' = {}
                      /\ \A k \in DOMAIN functors' : functors'[k] # Shutdown
                      /\ \A t \in Everyone : calls'[t] # Shutdown
    BY DEF Ended
  <2>1. /\ ~finSent /\ promised = {}
        /\ \A k \in DOMAIN functors : functors[k] # Shutdown
        /\ \A t \in Everyone : calls[t] # Shutdown
    BY DEF IInv, Ended
  <2> QED
    BY <1>1, <2>1
<1>4. \A n : Pending(n) => Pending(n)' \/ AllIn(n, sent')
  <2> SUFFICES ASSUME NEW n, NEW k \in DOMAIN functors, functors[k] = Send(n)
               PROVE  (\E j \in DOMAIN functors' : functors'[j] = Send(n)) \/ AllIn(n, sent')
    BY DEF Pending
  <2>1. CASE k = 1
    BY <2>1
  <2>2. CASE k # 1
    <3>1. k - 1 \in DOMAIN functors' /\ (k - 1) + 1 = k
      BY <1>1, <2>2
    <3>2. functors'[k - 1] = functors[k]
      BY <1>1, <3>1
    <3> QED
      BY <3>1, <3>2
  <2> QED
    BY <2>1, <2>2
<1>5. Tracked'
  BY <1>1, <1>4 DEF IInv, Tracked
<1>6. Ahead'
  <2> SUFFICES ASSUME NEW m \in promised, ~AllIn(m, sent')
               PROVE  \E j \in DOMAIN functors' :
                        functors'[j] = Send(m) /\ \A k \in DOMAIN functors' : functors'[k] = Shutdown => j < k
    BY <1>1 DEF Ahead
  <2>1. PICK j \in DOMAIN functors :
          functors[j] = Send(m) /\ \A k \in DOMAIN functors : functors[k] = Shutdown => j < k
    BY DEF IInv, Ahead
  <2>2. j # 1
    BY <2>1
  <2>3. j - 1 \in DOMAIN functors' /\ (j - 1) + 1 = j
    BY <1>1, <2>2
  <2>4. functors'[j - 1] = Send(m)
    BY <1>1, <2>1, <2>3
  <2>5. ASSUME NEW k \in DOMAIN functors', functors'[k] = Shutdown
        PROVE  j - 1 < k
    <3>1. k \in Nat /\ k + 1 \in DOMAIN functors /\ functors[k + 1] = Shutdown
      BY <1>1, <2>5
    <3>2. j < k + 1
      BY <2>1, <3>1
    <3>3. j \in Nat
      BY <1>2
    <3> QED
      BY <3>1, <3>2, <3>3
  <2> QED
    BY <2>3, <2>4, <2>5
<1>7. Closing'
  BY <1>1 DEF IInv, Closing
<1> QED
  BY <1>3, <1>5, <1>6, <1>7 DEF Queued

LEMMA LoopsQueued ==
  ASSUME IInv, Loop
  PROVE  Queued'
<1>1. CASE ConnectEstablished
  <2>1. /\ TakeFunctor("connectEstablished") /\ UNCHANGED <<finSent, sent>>
    BY <1>1 DEF ConnectEstablished, socket
  <2>2. functors' = <<>> /\ ~Established /\ UNCHANGED <<calls, origin, promised, closers>>
    BY <2>1, Taken, TakeTyped DEF history
  <2>3. /\ calls = [t \in Everyone |-> Idle] /\ DOMAIN origin = {} /\ promised = {} /\ ~finSent
    BY <2>2 DEF IInv, Setup
  <2>4. Ended'
    BY <2>1, <2>2, <2>3, KindsDiffer DEF Ended
  <2>5. Tracked' /\ Ahead'
    BY <2>2, <2>3 DEF Tracked, Ahead
  <2>6. Closing'
    BY <2>2, <2>3, KindsDiffer DEF Closing
  <2> QED
    BY <2>4, <2>5, <2>6 DEF Queued
<1>2. CASE RunSend
  <2>1. TakeFunctor("sendInLoop") /\ SendInLoop(Head(functors).message) /\ UNCHANGED state
    BY <1>2 DEF RunSend
  <2>2. PICK m \in Messages : functors[1] = Send(m) /\ Head(functors) = Send(m)
    BY <2>1, Taken
  <2>3. Established
    BY <2>1, Taken
  <2>4. SendInLoop(m)
    BY <2>1, <2>2, Kinds
  <2>5. AllIn(m, sent') /\ UNCHANGED finSent /\ \A n : AllIn(n, sent) => AllIn(n, sent')
    BY <2>4, SendEffect
  <2>6. \A n : functors[1] = Send(n) => AllIn(n, sent')
    BY <2>2, <2>5, KindsDiffer
  <2> QED
    BY <2>1, <2>3, <2>5, <2>6, TakenQueued
<1>3. CASE RunShutdownInLoop
  <2>1. TakeFunctor("shutdownInLoop") /\ UNCHANGED <<state, sent>>
    BY <1>3 DEF RunShutdownInLoop
  <2>2. Established /\ functors[1] = Shutdown /\ 1 \in DOMAIN functors
    BY <2>1, Taken, TakeTyped
  <2>3. state # "kConnected"
    BY <2>2 DEF IInv, Ended
  <2>4. \A n : functors[1] # Send(n)
    BY <2>2, KindsDiffer
  <2> QED
    BY <2>1, <2>2, <2>3, <2>4, TakenQueued
<1>4. CASE Poll
  <2>1. UNCHANGED <<state, reading, functors, calls, finSent, sent, origin, promised, closers, closed>>
    BY <1>4 DEF Poll, channel, socket, history
  <2> QED
    BY <2>1, QueuedKept DEF Established
<1>5. CASE HandleEvent
  <2>1. /\ revents # {}
        /\ HandleClose \/ HandleOther
        /\ UNCHANGED <<state, functors, calls, sent, origin, promised, closers>>
    BY <1>5 DEF HandleEvent, history
  <2>2. Established
    BY <2>1 DEF IInv, Setup
  <2>3. CASE HandleClose
    <3>1. Established' /\ UNCHANGED finSent
      BY <2>3 DEF HandleClose, Established, socket
    <3> QED
      BY <2>1, <2>2, <3>1, QueuedKept
  <2>4. CASE HandleOther
    <3>1. /\ UNCHANGED <<closed, reading>>
          /\ finSent' # finSent => state = "kDisconnecting"
      BY <2>4, HandleWriteEffect DEF HandleOther, channel, socket
    <3>2. Established'
      BY <2>2, <3>1 DEF Established
    <3> QED
      BY <2>1, <2>2, <3>1, <3>2, QueuedKept
  <2> QED
    BY <2>1, <2>3, <2>4
<1> QED
  BY <1>1, <1>2, <1>3, <1>4, <1>5 DEF Loop

LEMMA QueuedStep ==
  ASSUME IInv, [Next]_vars
  PROVE  Queued'
<1>1. CASE PeerCloses
  BY <1>1, QueuedKept DEF PeerCloses, Established, channel, socket, history
<1>2. CASE UNCHANGED vars
  BY <1>2, QueuedKept DEF vars, Established
<1>3. ASSUME NEW t \in Everyone, TestShutdown(t) \/ Continue(t)
      PROVE  Queued'
  BY <1>3, TestShutdownQueued, QueueSendQueued, SetDisconnectingQueued, RunShutdownQueued
     DEF Continue
<1> QED
  BY <1>1, <1>2, <1>3, SendInOwnerQueued, TestSendQueued, LoopsQueued DEF Next, Everyone

------------------------------------------------------------------------------
(* The half-close after the messages. *)

(* What can come before a clean wire is a clean wire. *)
LEMMA SendClean ==
  ASSUME IInv, NEW m \in Messages, SendInLoop(m), Clean'
  PROVE  Clean
<1>1. PICK k \in 0..Size[m] :
        /\ wire' = wire \o SubSeq(Units(m), 1, k)
        /\ outputBuffer' = outputBuffer
  BY DEF SendInLoop, Appended
<1>2. OutputStale /\ OutputStale'
  BY <1>1 DEF IInv, OutputStale
<1>3. wire' \in Seq(UnitSet) /\ outputBuffer' \in Seq(UnitSet)
  BY <1>1, SendEffect, Buffers
<1>4. SubSeq(Units(m), 1, k) \in Seq(UnitSet)
  BY UnitsAre, FirstOf
<1>5. outputBuffer' = <<>> /\ \A i \in DOMAIN wire' : wire'[i][1] # "garbage"
  BY <1>2, <1>3, CleanStaysSo DEF CleanWhenEmpty
<1>6. \A i \in DOMAIN wire : i \in DOMAIN wire' /\ wire'[i] = wire[i]
  BY <1>1, <1>4, Buffers, Appending
<1>7. outputBuffer = <<>> /\ \A i \in DOMAIN wire : wire[i][1] # "garbage"
  BY <1>1, <1>5, <1>6
<1> QED
  BY <1>2, <1>7, Buffers, CleanIs DEF CleanWhenEmpty

(* GracefulShutdown in the words of AllIn. *)
Graceful ==
  Clean /\ finSent /\ ~closed /\ (Owner \in closers => closers = {Owner}) =>
    \A m \in promised : AllIn(m, wire)

LEMMA GracefulIs == GracefulShutdown <=> Graceful
BY DEF GracefulShutdown, Graceful, AllIn

LEMMA GracefulStaysSo == (GracefulShutdown <=> Graceful)'
BY GracefulIs, PTL

(* A step that does not half-close. *)
LEMMA GracefulKept ==
  ASSUME IInv, finSent' = finSent, ~closed' => ~closed, Clean' /\ ~closed' => Clean,
         \A m : AllIn(m, wire) => AllIn(m, wire'),
         finSent => UNCHANGED promised,
         closers \subseteq closers'
  PROVE  Graceful'
<1> SUFFICES ASSUME Clean', finSent', ~closed', Owner \in closers' => closers' = {Owner},
                    NEW m \in promised'
             PROVE  AllIn(m, wire')
  BY DEF Graceful
<1>1. Graceful
  BY GracefulIs DEF IInv
<1>2. Owner \in closers => closers = {Owner}
  OBVIOUS
<1> QED
  BY <1>1, <1>2 DEF Graceful

(* A half-close while nothing is being written finds it all on the wire. *)
LEMMA HalfCloses ==
  ASSUME IInv, ~writing, UNCHANGED <<wire, outputBuffer, promised, closers, closed>>,
         (Owner \in closers => closers = {Owner}) => \A m \in promised : AllIn(m, sent)
  PROVE  Graceful'
<1> SUFFICES ASSUME Clean', ~closed, Owner \in closers => closers = {Owner}, NEW m \in promised
             PROVE  AllIn(m, wire')
  BY DEF Graceful
<1>1. Clean
  BY DEF Clean
<1>2. wire = sent
  BY <1>1 DEF IInv, InOrder
<1> QED
  BY <1>2

LEMMA GracefulStep ==
  ASSUME IInv, [Next]_vars
  PROVE  Graceful'
<1>0. finSent \in BOOLEAN /\ writing \in BOOLEAN
  BY DEF IInv, TypeOK
<1>1. ASSUME NEW m \in Messages, SendInLoop(m), UNCHANGED <<promised, closers, closed>>
      PROVE  Graceful'
  BY <1>1, SendEffect, SendClean, GracefulKept
<1>2. ASSUME NEW m \in Messages, SendInOwner(m)
      PROVE  Graceful'
  BY <1>1, <1>2 DEF SendInOwner, Accept
<1>3. CASE RunSend
  <2>1. TakeFunctor("sendInLoop") /\ SendInLoop(Head(functors).message)
    BY <1>3 DEF RunSend
  <2>2. PICK m \in Messages : Head(functors) = Send(m)
    BY <2>1, Taken
  <2>3. SendInLoop(m) /\ UNCHANGED <<promised, closers, closed>>
    BY <2>1, <2>2, Kinds, TakeTyped DEF history
  <2> QED
    BY <1>1, <2>3
<1>4. CASE UNCHANGED <<wire, outputBuffer, finSent, promised, closed>> /\ closers \subseteq closers'
  <2>1. Clean' <=> Clean
    BY <1>4 DEF Clean
  <2> QED
    BY <1>4, <2>1, GracefulKept
<1>5. CASE RunShutdownInLoop
  <2>1. /\ TakeFunctor("shutdownInLoop") /\ finSent' = (finSent \/ ~writing)
        /\ UNCHANGED <<wire, outputBuffer, sent>>
    BY <1>5 DEF RunShutdownInLoop, ShutdownInLoop
  <2>2. UNCHANGED <<promised, closers, closed>>
    BY <2>1, TakeTyped DEF history
  <2>3. CASE writing
    BY <1>0, <1>4, <2>1, <2>2, <2>3
  <2>4. CASE ~writing
    <3>1. functors[1] = Shutdown /\ 1 \in DOMAIN functors /\ DOMAIN functors \subseteq Nat \ {0}
      BY <2>1, Taken, TakeTyped DEF IInv, Typed
    <3>2. \A m \in promised : AllIn(m, sent)
      <4>1. \A j \in DOMAIN functors : ~(j < 1)
        BY <3>1
      <4> QED
        BY <3>1, <4>1 DEF IInv, Ahead
    <3> QED
      BY <2>1, <2>2, <2>4, <3>2, HalfCloses
  <2> QED
    BY <2>3, <2>4
<1>6. ASSUME NEW t \in Everyone, RunShutdown(t)
      PROVE  Graceful'
  <2>1. /\ calls[t] = Shutdown /\ UNCHANGED <<outputBuffer, sent, promised, closers, closed>>
        /\ IF t = Owner THEN ShutdownInLoop ELSE UNCHANGED <<wire, finSent>>
    BY <1>6, InCall DEF RunShutdown, history, socket
  <2>2. CASE t # Owner \/ writing
    BY <1>0, <1>4, <2>1, <2>2 DEF ShutdownInLoop
  <2>3. CASE t = Owner /\ ~writing
    <3>1. Owner \in closers /\ UNCHANGED wire
      BY <2>1, <2>3 DEF IInv, Closing, ShutdownInLoop
    <3>2. ASSUME closers = {Owner}, NEW m \in promised
          PROVE  AllIn(m, sent)
      <4>1. m \in DOMAIN origin /\ origin[m] = Owner
        BY <3>2 DEF IInv, Closing, TypeOK
      <4> QED
        BY <4>1 DEF IInv, Tracked
    <3> QED
      BY <2>1, <2>3, <3>1, <3>2, HalfCloses
  <2> QED
    BY <2>2, <2>3
<1>7. ASSUME NEW t \in Everyone, SetDisconnecting(t)
      PROVE  Graceful'
  <2>1. Established
    BY <1>7, InCall DEF SetDisconnecting
  <2>2. /\ promised' = Promise(t) /\ UNCHANGED <<wire, outputBuffer, finSent, closers, closed>>
    BY <1>7 DEF SetDisconnecting, socket
  <2>3. finSent => UNCHANGED promised
    BY <2>1, <2>2 DEF IInv, Ended, Promise
  <2>4. Clean' <=> Clean
    BY <2>2 DEF Clean
  <2> QED
    BY <2>2, <2>3, <2>4, GracefulKept
<1>8. CASE HandleEvent
  <2>1. HandleClose \/ HandleOther
    BY <1>8 DEF HandleEvent, history
  <2>2. CASE HandleClose
    BY <2>2 DEF HandleClose, Graceful
  <2>3. CASE HandleOther
    <3>1. UNCHANGED <<sent, promised, closers, closed>>
      BY <1>8, <2>3 DEF HandleOther, HandleEvent, history
    <3>2. CASE UNCHANGED <<channel, outputBuffer, socket>>
      BY <1>4, <3>1, <3>2 DEF socket
    <3>3. CASE HandleWrite
      <4> SUFFICES ASSUME Clean'
                   PROVE  Graceful'
        BY DEF Graceful
      <4>1. outputBuffer = <<>>
        BY <3>1, <3>3, HandleWriteInOrder
      <4>2. UNCHANGED <<wire, outputBuffer, finSent>>
        BY <3>3, <4>1, HandleWriteEffect
      <4> QED
        BY <1>4, <3>1, <4>2
    <3> QED
      BY <2>3, <3>2, <3>3 DEF HandleOther
  <2> QED
    BY <2>1, <2>2, <2>3
<1>9. CASE ConnectEstablished \/ Poll \/ PeerCloses \/ \E t \in Threads, m \in Messages : TestSend(t, m)
  <2>1. UNCHANGED <<wire, outputBuffer, finSent, promised, closers, closed>>
    BY <1>9 DEF ConnectEstablished, TakeFunctor, Poll, PeerCloses, TestSend, Accept, socket, history
  <2> QED
    BY <1>4, <2>1
<1>10. ASSUME NEW t \in Everyone, TestShutdown(t) \/ QueueSend(t)
       PROVE  Graceful'
  <2>1. UNCHANGED <<wire, outputBuffer, finSent, promised, closed>> /\ closers \subseteq closers'
    BY <1>10 DEF TestShutdown, QueueSend, socket, history
  <2> QED
    BY <1>4, <2>1
<1>11. CASE UNCHANGED vars
  BY <1>4, <1>11 DEF vars
<1> QED
  BY <1>2, <1>3, <1>5, <1>6, <1>7, <1>8, <1>9, <1>10, <1>11 DEF Next, Loop, Continue, Everyone

------------------------------------------------------------------------------
(* The induction. *)

LEMMA InitIInv == Init => IInv
<1> SUFFICES ASSUME Init
             PROVE  IInv
  OBVIOUS
<1>1. /\ state \in StateE /\ reading = FALSE /\ writing = FALSE /\ muted = FALSE
      /\ functors = <<Connect>> /\ calls = [t \in Everyone |-> Idle] /\ revents = {}
      /\ peer = "open" /\ wire = <<>> /\ finSent = FALSE /\ sent = <<>>
      /\ origin = [m \in {} |-> Owner] /\ promised = {} /\ closers = {} /\ closed = FALSE
  BY DEF Init, Connect, Everyone
<1>2. PICK n \in StaleBytes : outputBuffer = Garbage(n)
  BY DEF Init
<1>3. /\ outputBuffer \in Seq(UnitSet) /\ OutputStale
  <2>1. n \in Nat
    BY TcpConnectionAssumption
  <2>2. \A i \in 1..n : <<"garbage", i>> \in UnitSet
    BY <2>1 DEF UnitSet
  <2>3. outputBuffer \in [1..n -> UnitSet] /\ \A i \in 1..n : outputBuffer[i] = <<"garbage", i>>
    BY <1>2, <2>2 DEF Garbage
  <2> QED
    BY <2>1, <2>3 DEF OutputStale
<1>4. ~Established
  BY <1>1 DEF Established
<1>5. functors \in Seq(Functors)
  <2>1. Connect \in Functors
    BY DEF Functors
  <2> QED
    BY <1>1, <2>1
<1>6. calls \in [Everyone -> Calls] /\ calls[Owner].op # "sendInLoop"
  BY <1>1, Kinds DEF Calls, Everyone
<1>7. origin \in [DOMAIN origin -> Everyone] /\ DOMAIN origin = {}
  BY <1>1 DEF Everyone
<1>8. wire \in Seq(UnitSet) /\ sent \in Seq(UnitSet)
  BY <1>1
<1>9. Typed
  BY <1>3, <1>5, <1>6, <1>7, <1>8 DEF Typed
<1>10. Setup /\ Silent
  BY <1>1, <1>4, <1>7 DEF Setup, Silent
<1>11. TypeOK
  <2>1. HeadConnects
    BY HeadIs
  <2> QED
    BY <1>1, <1>4, <1>7, <1>9, <1>10, <2>1 DEF TypeOK, HeadConnects
<1>12. InOrder
  <2>1. IsPrefix(wire, sent)
    BY <1>1, <1>8 DEF IsPrefix
  <2> QED
    BY <1>1, <2>1 DEF InOrder
<1>13. Ended /\ Tracked /\ Ahead
  BY <1>1, <1>4, <1>7 DEF Ended, Tracked, Ahead
<1>14. Closing
  BY <1>1, KindsDiffer DEF Closing
<1>15. GracefulShutdown
  BY <1>1 DEF GracefulShutdown
<1> QED
  BY <1>3, <1>9, <1>10, <1>11, <1>12, <1>13, <1>14, <1>15 DEF IInv

LEMMA Inductive ==
  ASSUME IInv, [Next]_vars
  PROVE  IInv'
<1>1. GracefulShutdown'
  BY GracefulStep, GracefulStaysSo
<1> QED
  BY <1>1, OrderStep, ShapeStep, QueuedStep DEF IInv, Shape, Queued

(* Every reachable state satisfies the inductive invariant. *)
THEOREM Invariance == Spec => []IInv
BY InitIInv, Inductive, PTL DEF Spec

(* The fields have their types and the channel's stages their order. *)
THEOREM TypeCorrect == Spec => []TypeOK
<1>1. IInv => TypeOK
  BY DEF IInv
<1> QED
  BY <1>1, Invariance, PTL

(* After handleClose (TcpConnection.cc:82) no event of the channel is      *)
(* dispatched, whatever send() does to the channel then.                   *)
THEOREM ClosedStaysSilent == Spec => []ClosedIsSilent
<1>1. IInv => ClosedIsSilent
  BY DEF IInv, Silent, ClosedIsSilent
<1> QED
  BY <1>1, Invariance, PTL

(* The test of sendInLoop (TcpConnection.cc:130) keeps the order: the      *)
(* socket takes the messages as the loop sent them.                        *)
THEOREM WireKeepsOrder == Spec => []WireInOrder
<1>1. IInv => WireInOrder
  BY DEF IInv, InOrder, WireInOrder
<1> QED
  BY <1>1, Invariance, PTL

(* shutdown() after send(), in one thread, half-closes after the message,  *)
(* if the output buffer was clean at birth and the peer has not closed.    *)
(* Other threads may send and shut down meanwhile, but when the loop       *)
(* thread is one of those that shut down it must be the only one: its      *)
(* runInLoop overtakes the queue (TcpConnection.cc:99).                    *)
THEOREM ShutdownIsGraceful == Spec => []GracefulShutdown
<1>1. IInv => GracefulShutdown
  BY DEF IInv
<1> QED
  BY <1>1, Invariance, PTL
==============================================================================
