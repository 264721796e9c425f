--------------------------- MODULE TcpServerProofs ---------------------------
(***************************************************************************)
(* Proofs about TcpServer, for any peers, any numbers of threads and of    *)
(* descriptors, and any number of calls of start(): its type invariant,    *)
(* that the pool is complete before the base loop listens, that the        *)
(* rotation is fair, and that every connection is established once, in its *)
(* own loop.                                                               *)
(***************************************************************************)
EXTENDS TcpServer, FiniteSetTheorems, TLAPS

(* Where start() is, against the pool and the acceptor. *)
PoolInv ==
  /\ ~started => starter = "idle" /\ ~listenning /\ listens = 0
  /\ starter = "pool" => ~listenning /\ listens = 0
  /\ started /\ starter # "pool" => loops = numThreads

(* Until the acceptor listens there are no connections. *)
Quiet == ~listenning => Accepted = {} /\ next = 0

(* No connection has two names, and none accepted is still in the backlog. *)
Named ==
  /\ \A m, n \in DOMAIN connections : connections[m] = connections[n] => m = n
  /\ backlog \cap Accepted = {}

(* Functors name connections of their own loop, each once, which have not  *)
(* been established.                                                       *)
Pending ==
  \A i \in 1..numThreads : \A k \in DOMAIN functors[i] :
    /\ functors[i][k] \in Accepted
    /\ ioLoop[functors[i][k]] = i
    /\ functors[i][k] \notin DOMAIN established
    /\ \A l \in DOMAIN functors[i] : functors[i][k] = functors[i][l] => k = l

(* Every connection is established or named by a functor of its loop. *)
Handed ==
  \A p \in Accepted :
    IF p \in DOMAIN established
      THEN established[p] = ioLoop[p]
      ELSE /\ ioLoop[p] # 0
           /\ \E k \in DOMAIN functors[ioLoop[p]] : functors[ioLoop[p]][k] = p

(* After q whole rounds, the loops before next_ have one connection more. *)
Served(q) ==
  \A i \in 1..loops :
    /\ IsFiniteSet(ServedBy(i))
    /\ Cardinality(ServedBy(i)) = q + (IF i <= next THEN 1 ELSE 0)

Rotation == loops > 0 => ServedBy(0) = {} /\ \E q \in Nat : Served(q)

IInv == TypeOK /\ PoolInv /\ Quiet /\ Named /\ Pending /\ Handed /\ Rotation

------------------------------------------------------------------------------
(* Put adds or replaces one argument and leaves the others alone. *)
LEMMA PutIs ==
  ASSUME NEW f, NEW x, NEW v
  PROVE  /\ DOMAIN Put(f, x, v) = DOMAIN f \cup {x}
         /\ Put(f, x, v)[x] = v
         /\ \A y \in DOMAIN f \ {x} : Put(f, x, v)[y] = f[y]
  BY DEF Put

(* Put extends a function's domain by its argument. *)
LEMMA PutType ==
  ASSUME NEW S, NEW T, NEW f \in [S -> T], NEW x, NEW v \in T
  PROVE  Put(f, x, v) \in [S \cup {x} -> T]
  BY DEF Put

(* A new name adds its peer to the accepted. *)
LEMMA NamedMore ==
  ASSUME TypeOK, NEW p, NameConnection(p)
  PROVE  /\ Accepted' = Accepted \cup {p}
         /\ DOMAIN connections' = DOMAIN connections \cup {nextConnId}
         /\ nextConnId \notin DOMAIN connections
         /\ connections'[nextConnId] = p
         /\ \A n \in DOMAIN connections : connections'[n] = connections[n]
<1>1. DOMAIN connections = 1..nextConnId - 1 /\ nextConnId \in Nat
  BY DEF TypeOK
<1>2. nextConnId \notin DOMAIN connections
  BY <1>1
<1>3. /\ DOMAIN connections' = DOMAIN connections \cup {nextConnId}
      /\ connections'[nextConnId] = p
      /\ \A n \in DOMAIN connections : connections'[n] = connections[n]
  BY <1>2 DEF NameConnection, Put
<1>4. Accepted' = Accepted \cup {p}
  BY <1>2, <1>3 DEF Accepted
<1> QED
  BY <1>2, <1>3, <1>4

------------------------------------------------------------------------------
(* The invariant holds initially, before start() is called. *)
LEMMA InitIInv == Init => IInv
<1> SUFFICES ASSUME Init PROVE IInv
  OBVIOUS
<1>1. Accepted = {} /\ DOMAIN connections = {} /\ DOMAIN ioLoop = {}
  BY DEF Init, Accepted
<1>2. connections \in [1..nextConnId - 1 -> Peers]
  BY DEF Init
<1>3. ioLoop \in [Accepted -> 0..numThreads] /\ DOMAIN established = {}
  BY <1>1 DEF Init
<1>4. functors \in [1..numThreads -> Seq(Peers)]
  BY DEF Init
<1>5. numThreads \in Nat
  BY TcpServerAssumption DEF Init
<1>6. /\ numThreads \in ThreadNums /\ inBase \in BOOLEAN /\ started \in BOOLEAN
      /\ starter \in {"idle", "pool", "listen"} /\ listenning \in BOOLEAN
      /\ backlog \subseteq Peers /\ aborted \in BOOLEAN
  BY DEF Init
<1>7. /\ starts \in 0..MaxStarts /\ loops \in 0..numThreads /\ listens \in Nat
      /\ next \in Nat /\ next = 0 /\ nextConnId \in Nat \ {0}
  BY <1>5, TcpServerAssumption DEF Init
<1>8. TypeOK
  BY <1>2, <1>3, <1>4, <1>6, <1>7 DEF TypeOK
<1>9. PoolInv /\ Quiet
  BY <1>1 DEF Init, PoolInv, Quiet
<1>10. Named /\ Handed
  BY <1>1 DEF Init, Named, Handed
<1>11. Pending
  BY DEF Init, Pending
<1>12. Rotation
  BY DEF Init, Rotation
<1> QED
  BY <1>8, <1>9, <1>10, <1>11, <1>12 DEF IInv

(* What is left alone while connections, loops and functors are. *)
LEMMA ConnectionsAlone ==
  ASSUME IInv, UNCHANGED <<numThreads, connVars>>,
         backlog' \cap Accepted = {}
  PROVE  /\ Named' /\ Pending' /\ Handed' /\ Accepted' = Accepted
         /\ UNCHANGED <<numThreads, connections, ioLoop, functors, established,
                       next, nextConnId>>
         /\ \A i : ServedBy(i)' = ServedBy(i)
<1>1. UNCHANGED <<numThreads, connections, ioLoop, functors, established, next,
                  nextConnId>>
  BY DEF connVars
<1>2. Accepted' = Accepted
  BY <1>1 DEF Accepted
<1>3. Named'
  BY <1>1, <1>2 DEF Named, IInv
<1>4. Pending'
  BY <1>1, <1>2 DEF Pending, IInv
<1>5. Handed'
  BY <1>1, <1>2 DEF Handed, IInv
<1>6. \A i : ServedBy(i)' = ServedBy(i)
  BY <1>1 DEF ServedBy
<1> QED
  BY <1>1, <1>2, <1>3, <1>4, <1>5, <1>6

(* The steps of start(), and the listen it asks for. *)
LEMMA StartStep ==
  ASSUME IInv, CallStart \/ Starting \/ Listen
  PROVE  IInv'
<1>1. UNCHANGED <<numThreads, connVars, backlog, aborted>>
  BY DEF CallStart, Starting, StartLoop, PoolStarted, RequestListen, Listen, startVars
<1>2. /\ Named' /\ Pending' /\ Handed' /\ Accepted' = Accepted
      /\ UNCHANGED <<numThreads, connections, ioLoop, functors, established,
                    next, nextConnId>>
      /\ \A i : ServedBy(i)' = ServedBy(i)
  <2>1. backlog' \cap Accepted = {}
    BY <1>1 DEF IInv, Named
  <2> QED
    BY <1>1, <2>1, ConnectionsAlone
<1>3. numThreads \in Nat /\ loops \in 0..numThreads
  BY TcpServerAssumption DEF IInv, TypeOK
<1>4. /\ starter' \in {"idle", "pool", "listen"} /\ starts' \in 0..MaxStarts
      /\ started' \in BOOLEAN /\ loops' \in loops..numThreads
      /\ listens' \in Nat /\ listenning' \in BOOLEAN /\ inBase' \in BOOLEAN
  <2>1. CASE CallStart
    BY <1>3, <2>1, TcpServerAssumption DEF IInv, TypeOK, CallStart
  <2>2. CASE StartLoop
    BY <1>3, <2>2 DEF IInv, TypeOK, StartLoop
  <2>3. CASE PoolStarted
    BY <1>3, <2>3 DEF IInv, TypeOK, PoolStarted
  <2>4. CASE RequestListen
    <3>1. UNCHANGED <<inBase, started, starts, loops>> /\ starter' = "idle"
      BY <2>4 DEF RequestListen
    <3>2. listens' \in Nat
      BY <2>4 DEF RequestListen, IInv, TypeOK
    <3>3. listenning' \in BOOLEAN
      BY <2>4 DEF RequestListen
    <3> QED
      BY <1>3, <3>1, <3>2, <3>3 DEF IInv, TypeOK
  <2>5. CASE Listen
    <3>1. UNCHANGED <<inBase, started, starter, starts, loops>>
      BY <2>5 DEF Listen, startVars
    <3>2. listens' \in Nat /\ listenning' = TRUE
      BY <2>5 DEF Listen, IInv, TypeOK
    <3> QED
      BY <1>3, <3>1, <3>2 DEF IInv, TypeOK
  <2> QED
    BY <2>1, <2>2, <2>3, <2>4, <2>5 DEF Starting
<1>5. TypeOK'
  BY <1>1, <1>2, <1>3, <1>4 DEF IInv, TypeOK
<1>6. PoolInv'
  BY <1>2, <1>3
  DEF IInv, TypeOK, PoolInv, CallStart, Starting, StartLoop, PoolStarted,
      RequestListen, Listen, startVars
<1>7. Quiet'
  BY <1>2 DEF IInv, Quiet, TypeOK, CallStart, Starting, StartLoop, PoolStarted,
      RequestListen, Listen, startVars
<1>8. Rotation'
  <2>1. CASE StartLoop
    <3>1. Accepted = {} /\ next = 0
      BY <2>1 DEF StartLoop, IInv, PoolInv, Quiet
    <3>2. \A i : ServedBy(i)' = {}
      BY <1>2, <3>1 DEF ServedBy, IInv, TypeOK
    <3>3. next' = 0
      BY <1>2, <3>1
    <3>4. Served(0)'
      BY <3>2, <3>3, FS_EmptySet DEF Served
    <3> QED
      BY <3>2, <3>4 DEF Rotation
  <2>2. CASE ~StartLoop
    <3>1. loops' = loops
      BY <2>2 DEF CallStart, Starting, PoolStarted, RequestListen, Listen, startVars
    <3>2. \A q : Served(q)' <=> Served(q)
      BY <1>2, <3>1 DEF Served
    <3> QED
      BY <1>2, <3>1, <3>2 DEF Rotation, IInv
  <2> QED
    BY <2>1, <2>2
<1> QED
  BY <1>2, <1>5, <1>6, <1>7, <1>8 DEF IInv

(* A failing accept(), and clients that arrive. *)
LEMMA OutsideStep ==
  ASSUME IInv, AcceptFails \/ (\E p \in Peers : Arrive(p)) \/ UNCHANGED vars
  PROVE  IInv'
<1>1. UNCHANGED <<startVars, listens, listenning, connVars>>
  BY DEF AcceptFails, Arrive, vars
<1>2. /\ backlog' \subseteq Peers /\ backlog' \cap Accepted = {}
      /\ aborted' \in BOOLEAN
  <2>1. CASE AcceptFails
    BY <2>1 DEF AcceptFails, IInv, TypeOK, Named
  <2>2. CASE \E p \in Peers : Arrive(p)
    <3>1. PICK p \in Peers : Arrive(p)
      BY <2>2
    <3>2. backlog' = backlog \cup {p} /\ p \notin Accepted /\ aborted' = aborted
      BY <3>1 DEF Arrive
    <3> QED
      BY <3>2 DEF IInv, TypeOK, Named
  <2>3. CASE UNCHANGED vars
    BY <2>3 DEF vars, IInv, TypeOK, Named
  <2> QED
    BY <2>1, <2>2, <2>3
<1>3. /\ Named' /\ Pending' /\ Handed' /\ Accepted' = Accepted
      /\ UNCHANGED <<numThreads, connections, ioLoop, functors, established,
                    next, nextConnId>>
      /\ \A i : ServedBy(i)' = ServedBy(i)
  BY <1>1, <1>2, ConnectionsAlone DEF startVars
<1>4. UNCHANGED <<numThreads, inBase, started, starter, starts, loops>>
  BY <1>1 DEF startVars
<1>5. TypeOK'
  BY <1>1, <1>2, <1>3, <1>4 DEF IInv, TypeOK
<1>6. PoolInv' /\ Quiet'
  BY <1>1, <1>3, <1>4 DEF IInv, PoolInv, Quiet
<1>7. \A q : Served(q)' <=> Served(q)
  BY <1>3, <1>4 DEF Served
<1>8. Rotation'
  BY <1>3, <1>4, <1>7 DEF Rotation, IInv
<1> QED
  BY <1>3, <1>5, <1>6, <1>8 DEF IInv

------------------------------------------------------------------------------
(* What newConnection does for the peer p, in terms of the parts of IInv. *)
LEMMA Handled ==
  ASSUME IInv, listenning, NEW p \in backlog, backlog' = backlog \ {p},
         NewConnection(p), UNCHANGED <<startVars, listens, listenning, aborted>>
  PROVE  /\ p \in Peers /\ p \notin Accepted
         /\ Accepted' = Accepted \cup {p} /\ DOMAIN ioLoop = Accepted
         /\ loops = numThreads /\ numThreads \in Nat
         /\ NextLoop \in 0..numThreads
         /\ NextLoop = IF loops = 0 THEN 0 ELSE next + 1
         /\ DOMAIN ioLoop' = Accepted' /\ ioLoop'[p] = NextLoop
         /\ \A q \in Accepted : ioLoop'[q] = ioLoop[q]
         /\ UNCHANGED <<numThreads, inBase, started, starter, starts, loops>>
<1>1. p \in Peers /\ p \notin Accepted /\ DOMAIN ioLoop = Accepted
  BY DEF IInv, TypeOK, Named
<1>2. loops = numThreads /\ numThreads \in Nat
  BY TcpServerAssumption DEF IInv, TypeOK, PoolInv
<1>3. NextLoop = IF loops = 0 THEN 0 ELSE next + 1
  BY DEF NextLoop
<1>4. NextLoop \in 0..numThreads
  BY <1>2, <1>3 DEF IInv, TypeOK
<1>5. Accepted' = Accepted \cup {p}
  BY NamedMore DEF NewConnection, IInv
<1>6. ioLoop' = Put(ioLoop, p, NextLoop)
  BY DEF NewConnection
<1>7. /\ DOMAIN ioLoop' = Accepted' /\ ioLoop'[p] = NextLoop
      /\ \A q \in Accepted : ioLoop'[q] = ioLoop[q]
  BY <1>1, <1>5, <1>6 DEF Put
<1>8. UNCHANGED <<numThreads, inBase, started, starter, starts, loops>>
  BY DEF startVars
<1> QED
  BY <1>1, <1>2, <1>3, <1>4, <1>5, <1>7, <1>8

(* getNextLoop gives the loop at next_ one more connection. *)
LEMMA RotationTurns ==
  ASSUME IInv, listenning, NEW p \in backlog, backlog' = backlog \ {p},
         NewConnection(p), UNCHANGED <<startVars, listens, listenning, aborted>>
  PROVE  Rotation'
<1> SUFFICES ASSUME loops' > 0
             PROVE  ServedBy(0)' = {} /\ \E q \in Nat : Served(q)'
  BY DEF Rotation
<1>1. /\ p \notin Accepted /\ Accepted' = Accepted \cup {p}
      /\ DOMAIN ioLoop = Accepted /\ DOMAIN ioLoop' = Accepted'
      /\ ioLoop'[p] = NextLoop /\ \A q \in Accepted : ioLoop'[q] = ioLoop[q]
      /\ loops' = loops
  BY Handled
<1>2. loops \in Nat \ {0} /\ NextLoop = next + 1 /\ next \in Nat /\ next < loops
  BY Handled, <1>1 DEF IInv, TypeOK
<1>3. \A i : i = NextLoop => ServedBy(i)' = ServedBy(i) \cup {p}
  BY <1>1 DEF ServedBy
<1>4. \A i : i # NextLoop => ServedBy(i)' = ServedBy(i)
  BY <1>1 DEF ServedBy
<1>5. ServedBy(0) = {} /\ \E q \in Nat : Served(q)
  BY <1>2 DEF IInv, Rotation
<1>6. ServedBy(0)' = {}
  BY <1>2, <1>4, <1>5
<1>7. PICK q \in Nat : Served(q)
  BY <1>5
<1>8. p \notin ServedBy(NextLoop)
  BY <1>1 DEF ServedBy
<1>9. ASSUME NEW i \in 1..loops
      PROVE  /\ IsFiniteSet(ServedBy(i)')
             /\ Cardinality(ServedBy(i)') = q + (IF i <= next + 1 THEN 1 ELSE 0)
  <2>1. /\ IsFiniteSet(ServedBy(i))
        /\ Cardinality(ServedBy(i)) = q + (IF i <= next THEN 1 ELSE 0)
    BY <1>7 DEF Served
  <2>2. CASE i = NextLoop
    <3>1. /\ IsFiniteSet(ServedBy(i) \cup {p})
          /\ Cardinality(ServedBy(i) \cup {p}) = Cardinality(ServedBy(i)) + 1
      BY <1>8, <2>1, <2>2, FS_AddElement
    <3>2. Cardinality(ServedBy(i)) = q
      BY <1>2, <2>1, <2>2
    <3> QED
      BY <1>2, <1>3, <2>2, <3>1, <3>2
  <2>3. CASE i # NextLoop
    <3>1. ServedBy(i)' = ServedBy(i)
      BY <1>4, <2>3
    <3>2. (IF i <= next + 1 THEN 1 ELSE 0) = (IF i <= next THEN 1 ELSE 0)
      BY <1>2, <2>3
    <3>3. Cardinality(ServedBy(i)') = q + (IF i <= next + 1 THEN 1 ELSE 0)
      BY ONLY <2>1, <3>1, <3>2
    <3> QED
      BY <2>1, <3>1, <3>3
  <2> QED
    BY <2>2, <2>3
<1>10. next' = Following
  BY <1>2 DEF NewConnection
<1>11. CASE next + 1 < loops
  <2>1. next' = next + 1
    BY <1>2, <1>10, <1>11 DEF Following
  <2>2. Served(q)'
    BY <1>1, <1>9, <2>1 DEF Served
  <2> QED
    BY <1>6, <2>2
<1>12. CASE next + 1 >= loops
  <2>1. next' = 0
    BY <1>2, <1>10, <1>12 DEF Following
  <2>2. \A i \in 1..loops : i <= next + 1 /\ ~(i <= 0)
    BY <1>2, <1>12
  <2>3. ASSUME NEW i \in 1..loops
        PROVE  /\ IsFiniteSet(ServedBy(i)')
               /\ Cardinality(ServedBy(i)') = (q + 1) + (IF i <= 0 THEN 1 ELSE 0)
    <3>1. /\ IsFiniteSet(ServedBy(i)') /\ Cardinality(ServedBy(i)') = q + 1
      BY <1>9, <2>2
    <3> QED
      BY <2>2, <3>1
  <2>4. Served(q + 1)'
    BY <1>1, <2>1, <2>3 DEF Served
  <2> QED
    BY <1>6, <2>4
<1> QED
  BY <1>2, <1>11, <1>12

(* Acceptor::handleRead with newConnection. *)
LEMMA HandleReadStep ==
  ASSUME IInv, HandleRead
  PROVE  IInv'
<1>1. PICK p \in backlog : backlog' = backlog \ {p} /\ NewConnection(p)
  BY DEF HandleRead
<1>2. /\ listenning
      /\ UNCHANGED <<startVars, listens, listenning, aborted>>
  BY DEF HandleRead
<1>3. /\ p \in Peers /\ p \notin Accepted
      /\ Accepted' = Accepted \cup {p} /\ DOMAIN ioLoop = Accepted
      /\ loops = numThreads /\ numThreads \in Nat
      /\ NextLoop \in 0..numThreads
      /\ NextLoop = IF loops = 0 THEN 0 ELSE next + 1
      /\ DOMAIN ioLoop' = Accepted' /\ ioLoop'[p] = NextLoop
      /\ \A q \in Accepted : ioLoop'[q] = ioLoop[q]
      /\ UNCHANGED <<numThreads, inBase, started, starter, starts, loops>>
  BY <1>1, <1>2, Handled
<1>4. Rotation'
  BY <1>1, <1>2, RotationTurns
<1> DEFINE i == NextLoop
<1>5. \/ /\ i = 0 /\ functors' = functors
         /\ DOMAIN established' = DOMAIN established \cup {p}
         /\ established'[p] = 0
         /\ \A q \in DOMAIN established \ {p} : established'[q] = established[q]
      \/ /\ i # 0 /\ functors' = [functors EXCEPT ![i] = Append(@, p)]
         /\ established' = established
  <2>1. \/ i = 0 /\ functors' = functors /\ established' = Put(established, p, 0)
        \/ /\ i # 0 /\ functors' = [functors EXCEPT ![i] = Append(@, p)]
           /\ established' = established
    BY <1>1 DEF NewConnection, HandOver
  <2>2. CASE i = 0
    <3>1. established' = Put(established, p, 0)
      BY <2>1, <2>2
    <3>2. /\ DOMAIN established' = DOMAIN established \cup {p}
          /\ established'[p] = 0
          /\ \A q \in DOMAIN established \ {p} : established'[q] = established[q]
      BY <3>1 DEF Put
    <3> QED
      BY <2>1, <2>2, <3>2
  <2>3. CASE i # 0
    BY <2>1, <2>3
  <2> QED
    BY <2>2, <2>3
<1>6. /\ functors \in [1..numThreads -> Seq(Peers)]
      /\ DOMAIN established \subseteq Accepted
  BY DEF IInv, TypeOK
<1>7. functors' \in [1..numThreads -> Seq(Peers)]
  <2>1. CASE i = 0
    BY <1>5, <1>6, <2>1
  <2>2. CASE i # 0
    <3>1. i \in 1..numThreads /\ functors[i] \in Seq(Peers)
      BY <1>3, <1>6, <2>2
    <3>2. Append(functors[i], p) \in Seq(Peers)
      BY <1>3, <3>1
    <3>3. functors' = [functors EXCEPT ![i] = Append(functors[i], p)]
      BY <1>5, <2>2
    <3> QED
      BY <1>6, <3>2, <3>3
  <2> QED
    BY <2>1, <2>2
<1>8. DOMAIN established' \subseteq Accepted'
  BY <1>3, <1>5, <1>6
<1>9. ioLoop' \in [Accepted' -> 0..numThreads]
  <2>1. ioLoop \in [Accepted -> 0..numThreads]
    BY DEF IInv, TypeOK
  <2>2. ioLoop' = Put(ioLoop, p, i)
    BY <1>1 DEF NewConnection
  <2>3. Put(ioLoop, p, i) \in [Accepted \cup {p} -> 0..numThreads]
    BY <1>3, <2>1, PutType
  <2> QED
    BY <1>3, <2>2, <2>3
<1>10. /\ nextConnId' \in Nat \ {0}
       /\ connections' \in [1..nextConnId' - 1 -> Peers]
  <2>1. /\ connections \in [1..nextConnId - 1 -> Peers] /\ nextConnId \in Nat \ {0}
        /\ nextConnId' = nextConnId + 1
        /\ connections' = Put(connections, nextConnId, p)
    BY <1>1 DEF IInv, TypeOK, NewConnection, NameConnection
  <2>2. connections' \in [(1..nextConnId - 1) \cup {nextConnId} -> Peers]
    BY <1>3, <2>1, PutType
  <2>3. (1..nextConnId - 1) \cup {nextConnId} = 1..nextConnId' - 1
    BY <2>1
  <2> QED
    BY <2>1, <2>2, <2>3
<1>11. next' \in Nat /\ (next' = 0 \/ next' < loops)
  <2>1. next \in Nat /\ loops \in Nat /\ (next = 0 \/ next < loops)
    BY <1>3 DEF IInv, TypeOK
  <2>2. next' = IF loops = 0 THEN next ELSE Following
    BY <1>1 DEF NewConnection
  <2> QED
    BY <2>1, <2>2 DEF Following
<1>12. TypeOK'
  <2>1. /\ numThreads \in ThreadNums /\ inBase \in BOOLEAN /\ started \in BOOLEAN
        /\ starter \in {"idle", "pool", "listen"} /\ starts \in 0..MaxStarts
        /\ loops \in 0..numThreads /\ listens \in Nat /\ listenning \in BOOLEAN
        /\ aborted \in BOOLEAN /\ backlog' \subseteq Peers
    BY <1>1 DEF IInv, TypeOK
  <2> QED
    BY <1>2, <1>3, <1>7, <1>8, <1>9, <1>10, <1>11, <2>1 DEF TypeOK
<1>13. PoolInv' /\ Quiet'
  BY <1>2, <1>3 DEF IInv, PoolInv, Quiet
<1>14. Named'
  <2>1. /\ DOMAIN connections' = DOMAIN connections \cup {nextConnId}
        /\ nextConnId \notin DOMAIN connections
        /\ connections'[nextConnId] = p
        /\ \A n \in DOMAIN connections : connections'[n] = connections[n]
    BY <1>1, NamedMore DEF NewConnection, IInv
  <2>2. \A n \in DOMAIN connections : connections[n] # p
    BY <1>3 DEF Accepted
  <2>3. \A m, n \in DOMAIN connections' : connections'[m] = connections'[n] => m = n
    BY <2>1, <2>2 DEF IInv, Named
  <2>4. backlog' \cap Accepted' = {}
    BY <1>1, <1>3 DEF IInv, Named
  <2> QED
    BY <2>3, <2>4 DEF Named
<1>15. \A q \in Accepted : q \in DOMAIN established' <=> q \in DOMAIN established
  BY <1>3, <1>5
<1>16. ASSUME NEW j \in 1..numThreads
       PROVE  /\ \A k \in DOMAIN functors[j] :
                   k \in DOMAIN functors'[j] /\ functors'[j][k] = functors[j][k]
              /\ \A k \in DOMAIN functors'[j] :
                   \/ k \in DOMAIN functors[j] /\ functors'[j][k] = functors[j][k]
                   \/ /\ j = i /\ i # 0 /\ k = Len(functors[j]) + 1
                      /\ functors'[j][k] = p
  <2>1. CASE j = i /\ i # 0
    <3>1. functors[j] \in Seq(Peers) /\ functors'[j] = Append(functors[j], p)
      BY <1>5, <1>6, <2>1
    <3> QED
      BY <1>3, <2>1, <3>1
  <2>2. CASE ~(j = i /\ i # 0)
    BY <1>5, <1>6, <2>2
  <2> QED
    BY <2>1, <2>2
<1>17. Pending'
  <2> SUFFICES ASSUME NEW j \in 1..numThreads, NEW k \in DOMAIN functors'[j]
               PROVE  /\ functors'[j][k] \in Accepted'
                      /\ ioLoop'[functors'[j][k]] = j
                      /\ functors'[j][k] \notin DOMAIN established'
                      /\ \A l \in DOMAIN functors'[j] :
                           functors'[j][k] = functors'[j][l] => k = l
    BY <1>3 DEF Pending
  <2>1. \A l \in DOMAIN functors[j] :
          /\ functors[j][l] \in Accepted
          /\ ioLoop[functors[j][l]] = j
          /\ functors[j][l] \notin DOMAIN established
          /\ \A m \in DOMAIN functors[j] : functors[j][l] = functors[j][m] => l = m
    BY DEF IInv, Pending
  <2>2. CASE k \in DOMAIN functors[j] /\ functors'[j][k] = functors[j][k]
    <3>1. functors[j][k] \in Accepted
      BY <2>1, <2>2
    <3>2. ASSUME NEW l \in DOMAIN functors'[j], functors'[j][k] = functors'[j][l]
          PROVE  k = l
      BY <1>3, <1>16, <2>1, <2>2, <3>1, <3>2
    <3> QED
      BY <1>3, <1>15, <2>1, <2>2, <3>1, <3>2
  <2>3. CASE /\ j = i /\ i # 0 /\ k = Len(functors[j]) + 1 /\ functors'[j][k] = p
    <3>1. p \notin DOMAIN established'
      BY <1>3, <1>5, <1>6, <2>3
    <3>2. ASSUME NEW l \in DOMAIN functors'[j], functors'[j][k] = functors'[j][l]
          PROVE  k = l
      BY <1>3, <1>16, <2>1, <2>3, <3>2
    <3> QED
      BY <1>3, <2>3, <3>1, <3>2
  <2> QED
    BY <1>16, <2>2, <2>3
<1>18. Handed'
  <2> SUFFICES ASSUME NEW q \in Accepted'
               PROVE  IF q \in DOMAIN established'
                        THEN established'[q] = ioLoop'[q]
                        ELSE /\ ioLoop'[q] # 0
                             /\ \E k \in DOMAIN functors'[ioLoop'[q]] :
                                  functors'[ioLoop'[q]][k] = q
    BY DEF Handed
  <2>1. CASE q = p /\ i = 0
    BY <1>3, <1>5, <2>1
  <2>2. CASE q = p /\ i # 0
    <3>1. p \notin DOMAIN established' /\ ioLoop'[p] = i
      BY <1>3, <1>5, <1>6, <2>2
    <3>2. functors[i] \in Seq(Peers) /\ functors'[i] = Append(functors[i], p)
      BY <1>3, <1>5, <1>6, <2>2
    <3>3. /\ Len(functors[i]) + 1 \in DOMAIN functors'[i]
          /\ functors'[i][Len(functors[i]) + 1] = p
      BY <1>3, <3>2
    <3> QED
      BY <2>2, <3>1, <3>3
  <2>3. CASE q # p
    <3>1. q \in Accepted /\ ioLoop'[q] = ioLoop[q] /\ ioLoop[q] \in 0..numThreads
      BY <1>3, <2>3 DEF IInv, TypeOK
    <3>2. CASE q \in DOMAIN established
      <4>1. established[q] = ioLoop[q]
        BY <3>1, <3>2 DEF IInv, Handed
      <4>2. established'[q] = established[q]
        BY <1>5, <2>3, <3>2
      <4> QED
        BY <1>15, <3>1, <3>2, <4>1, <4>2
    <3>3. CASE q \notin DOMAIN established
      <4>1. ioLoop[q] # 0
        BY <3>1, <3>3 DEF IInv, Handed
      <4>2. PICK k \in DOMAIN functors[ioLoop[q]] : functors[ioLoop[q]][k] = q
        BY <3>1, <3>3 DEF IInv, Handed
      <4>3. ioLoop[q] \in 1..numThreads
        BY <1>3, <3>1, <4>1
      <4>4. /\ k \in DOMAIN functors'[ioLoop[q]]
            /\ functors'[ioLoop[q]][k] = q
        BY <1>16, <4>2, <4>3
      <4> QED
        BY <1>15, <3>1, <3>3, <4>1, <4>4
    <3> QED
      BY <3>2, <3>3
  <2> QED
    BY <2>1, <2>2, <2>3
<1> QED
  BY <1>4, <1>12, <1>13, <1>14, <1>17, <1>18 DEF IInv

(* A loop of the pool runs connectEstablished. *)
LEMMA EstablishStep ==
  ASSUME IInv, NEW i \in Loops, Establish(i)
  PROVE  IInv'
<1> DEFINE p == Head(functors[i])
<1>1. /\ i \in 1..numThreads /\ functors[i] \in Seq(Peers) /\ functors[i] # <<>>
      /\ functors \in [1..numThreads -> Seq(Peers)]
      /\ functors' = [functors EXCEPT ![i] = Tail(functors[i])]
      /\ established' = Put(established, p, i)
  BY DEF Establish, IInv, TypeOK
<1>2. /\ UNCHANGED <<numThreads, inBase, started, starter, starts, loops, listens,
                    listenning, backlog, next, nextConnId, connections, ioLoop,
                    aborted>>
  BY DEF Establish, startVars
<1>3. /\ 1 \in DOMAIN functors[i] /\ p = functors[i][1]
      /\ Tail(functors[i]) \in Seq(Peers)
      /\ \A k \in DOMAIN Tail(functors[i]) :
           /\ k + 1 \in DOMAIN functors[i] /\ k \in Nat \ {0}
           /\ Tail(functors[i])[k] = functors[i][k + 1]
      /\ \A k \in DOMAIN functors[i] \ {1} :
           k - 1 \in DOMAIN Tail(functors[i]) /\ k \in Nat
  BY <1>1
<1>4. p \in Accepted /\ ioLoop[p] = i /\ p \notin DOMAIN established
  BY <1>1, <1>3 DEF IInv, Pending
<1>5. Accepted' = Accepted
  BY <1>2 DEF Accepted
<1>6. /\ DOMAIN established' = DOMAIN established \cup {p}
      /\ established'[p] = i
      /\ \A q \in DOMAIN established \ {p} : established'[q] = established[q]
  BY <1>1 DEF Put
<1>7. TypeOK'
  <2>1. functors' \in [1..numThreads -> Seq(Peers)]
    BY <1>1, <1>3
  <2>2. DOMAIN established' \subseteq Accepted
    BY <1>4, <1>6 DEF IInv, TypeOK
  <2> QED
    BY <1>2, <1>5, <2>1, <2>2 DEF IInv, TypeOK
<1>8. PoolInv' /\ Quiet' /\ Named'
  BY <1>2, <1>5 DEF IInv, PoolInv, Quiet, Named
<1>9. Pending'
  <2> SUFFICES ASSUME NEW j \in 1..numThreads, NEW k \in DOMAIN functors'[j]
               PROVE  /\ functors'[j][k] \in Accepted
                      /\ ioLoop[functors'[j][k]] = j
                      /\ functors'[j][k] \notin DOMAIN established'
                      /\ \A l \in DOMAIN functors'[j] :
                           functors'[j][k] = functors'[j][l] => k = l
    BY <1>2, <1>5 DEF Pending
  <2>1. \A l \in DOMAIN functors[j] :
          /\ functors[j][l] \in Accepted
          /\ ioLoop[functors[j][l]] = j
          /\ functors[j][l] \notin DOMAIN established
          /\ \A m \in DOMAIN functors[j] : functors[j][l] = functors[j][m] => l = m
    BY DEF IInv, Pending
  <2>2. CASE j = i
    <3>1. functors'[j] = Tail(functors[i])
      BY <1>1, <2>2
    <3>2. /\ k + 1 \in DOMAIN functors[j] /\ k \in Nat \ {0}
          /\ functors'[j][k] = functors[j][k + 1]
      BY <1>3, <2>2, <3>1
    <3>3. functors[j][k + 1] # p
      <4>1. k + 1 # 1
        BY <3>2
      <4> QED
        BY <1>3, <2>1, <2>2, <3>2, <4>1
    <3>4. functors'[j][k] \notin DOMAIN established'
      BY <1>6, <2>1, <3>2, <3>3
    <3>5. ASSUME NEW l \in DOMAIN functors'[j], functors'[j][k] = functors'[j][l]
          PROVE  k = l
      <4>1. /\ l + 1 \in DOMAIN functors[j] /\ l \in Nat
            /\ functors'[j][l] = functors[j][l + 1]
        BY <1>3, <2>2, <3>1
      <4>2. k + 1 = l + 1
        BY <2>1, <3>2, <3>5, <4>1
      <4> QED
        BY <3>2, <4>1, <4>2
    <3> QED
      BY <2>1, <3>2, <3>4, <3>5
  <2>3. CASE j # i
    <3>1. functors'[j] = functors[j]
      BY <1>1, <2>3
    <3>2. functors[j][k] # p
      BY <1>4, <2>1, <2>3, <3>1
    <3> QED
      BY <1>6, <2>1, <3>1, <3>2
  <2> QED
    BY <2>2, <2>3
<1>10. Handed'
  <2> SUFFICES ASSUME NEW q \in Accepted
               PROVE  IF q \in DOMAIN established'
                        THEN established'[q] = ioLoop[q]
                        ELSE /\ ioLoop[q] # 0
                             /\ \E k \in DOMAIN functors'[ioLoop[q]] :
                                  functors'[ioLoop[q]][k] = q
    BY <1>2, <1>5 DEF Handed
  <2>1. CASE q = p
    BY <1>4, <1>6, <2>1
  <2>2. CASE q # p /\ q \in DOMAIN established
    <3>1. established[q] = ioLoop[q]
      BY <2>2 DEF IInv, Handed
    <3> QED
      BY <1>6, <2>2, <3>1
  <2>3. CASE q # p /\ q \notin DOMAIN established
    <3>1. q \notin DOMAIN established'
      BY <1>6, <2>3
    <3>2. ioLoop[q] # 0
      BY <2>3 DEF IInv, Handed
    <3>3. PICK k \in DOMAIN functors[ioLoop[q]] : functors[ioLoop[q]][k] = q
      BY <2>3 DEF IInv, Handed
    <3>4. ioLoop[q] \in 1..numThreads
      <4>1. ioLoop[q] \in 0..numThreads /\ numThreads \in Nat
        BY TcpServerAssumption DEF IInv, TypeOK
      <4> QED
        BY <3>2, <4>1
    <3>5. \E l \in DOMAIN functors'[ioLoop[q]] : functors'[ioLoop[q]][l] = q
      <4>1. CASE ioLoop[q] = i
        <5>1. k # 1
          BY <1>3, <2>3, <3>3, <4>1
        <5>2. k - 1 \in DOMAIN Tail(functors[i]) /\ k \in Nat
          BY <1>3, <3>3, <4>1, <5>1
        <5>3. Tail(functors[i])[k - 1] = functors[i][(k - 1) + 1]
          BY <1>3, <5>2
        <5>4. (k - 1) + 1 = k
          BY <5>2
        <5>5. functors'[i] = Tail(functors[i])
          BY <1>1
        <5> QED
          BY <3>3, <4>1, <5>2, <5>3, <5>4, <5>5
      <4>2. CASE ioLoop[q] # i
        <5>1. functors'[ioLoop[q]] = functors[ioLoop[q]]
          BY <1>1, <3>4, <4>2
        <5> QED
          BY <3>3, <5>1
      <4> QED
        BY <4>1, <4>2
    <3> QED
      BY <3>1, <3>2, <3>5
  <2> QED
    BY <2>1, <2>2, <2>3
<1>11. Rotation'
  <2>1. \A j : ServedBy(j)' = ServedBy(j)
    BY <1>2 DEF ServedBy
  <2>2. \A q : Served(q)' <=> Served(q)
    BY <1>2, <2>1 DEF Served
  <2> QED
    BY <1>2, <2>1, <2>2 DEF IInv, Rotation
<1> QED
  BY <1>7, <1>8, <1>9, <1>10, <1>11 DEF IInv

------------------------------------------------------------------------------
(* Every step keeps the invariant. *)
LEMMA Inductive == IInv /\ [Next]_vars => IInv'
<1> SUFFICES ASSUME IInv, [Next]_vars PROVE IInv'
  OBVIOUS
<1>1. CASE CallStart \/ Starting \/ Listen
  BY <1>1, StartStep
<1>2. CASE HandleRead
  BY <1>2, HandleReadStep
<1>3. CASE AcceptFails \/ (\E p \in Peers : Arrive(p)) \/ UNCHANGED vars
  BY <1>3, OutsideStep
<1>4. CASE \E i \in Loops : Establish(i)
  BY <1>4, EstablishStep
<1> QED
  BY <1>1, <1>2, <1>3, <1>4 DEF Next, Accepting

(* The inductive invariant: where start() is, and which connection is where *)
(* between newConnection and connectEstablished.                           *)
THEOREM Invariance == Spec => []IInv
  BY InitIInv, Inductive, PTL DEF Spec

(* The variables keep their types, and next_, which getNextLoop uses        *)
(* unchecked, is an index of loops_ whenever there are loops.              *)
THEOREM TypeCorrect == Spec => []TypeOK
<1>1. IInv => TypeOK
  BY DEF IInv
<1> QED
  BY <1>1, Invariance, PTL

(* loops_ is complete before the base loop listens, or is going to: it is   *)
(* never read by getNextLoop while start() in another thread fills it.     *)
THEOREM PoolIsComplete == Spec => []PoolBeforeListen
<1>1. IInv => PoolBeforeListen
  BY DEF IInv, TypeOK, PoolInv, PoolBeforeListen
<1> QED
  BY <1>1, Invariance, PTL

(* getNextLoop shares the connections out evenly, with any number of loops. *)
THEOREM RotationIsFair == Spec => []Balanced
<1>1. IInv => Balanced
  <2> SUFFICES ASSUME IInv, loops > 0
               PROVE  /\ ServedBy(0) = {}
                      /\ \A i, j \in 1..loops :
                           Cardinality(ServedBy(i)) <= Cardinality(ServedBy(j)) + 1
    BY DEF Balanced
  <2>1. ServedBy(0) = {}
    BY DEF IInv, Rotation
  <2>2. PICK q \in Nat : Served(q)
    BY DEF IInv, Rotation
  <2>3. \A i \in 1..loops : Cardinality(ServedBy(i)) \in {q, q + 1}
    BY <2>2 DEF Served
  <2> QED
    BY <2>1, <2>3
<1> QED
  BY <1>1, Invariance, PTL

(* A set of one element, as EstablishedInOwnLoop counts it. *)
LEMMA OnlyOne ==
  ASSUME NEW S, NEW x \in S, \A y \in S : y = x
  PROVE  Cardinality(S) = 1
<1>1. S = {x}
  OBVIOUS
<1> QED
  BY <1>1, FS_Singleton

(* Each connection has one name, and is established once in the loop        *)
(* getNextLoop gave it, or has this pending once, there and nowhere else.  *)
THEOREM EstablishedOnce == Spec => []EstablishedInOwnLoop
<1>1. IInv => EstablishedInOwnLoop
  <2> SUFFICES ASSUME IInv, NEW p \in DOMAIN ioLoop
               PROVE  /\ Cardinality({n \in DOMAIN connections : connections[n] = p}) = 1
                      /\ p \in DOMAIN established => established[p] = ioLoop[p]
                      /\ \A i \in DOMAIN functors :
                           Cardinality({k \in DOMAIN functors[i] : functors[i][k] = p})
                             = IF i = ioLoop[p] /\ p \notin DOMAIN established
                                 THEN 1 ELSE 0
    BY DEF EstablishedInOwnLoop
  <2>1. p \in Accepted /\ DOMAIN functors = 1..numThreads
    BY DEF IInv, TypeOK
  <2>2. Cardinality({n \in DOMAIN connections : connections[n] = p}) = 1
    <3>1. PICK n \in DOMAIN connections : connections[n] = p
      BY <2>1 DEF Accepted
    <3>2. \A m \in DOMAIN connections : connections[m] = p => m = n
      BY <3>1 DEF IInv, Named
    <3> QED
      BY <3>1, <3>2, OnlyOne
  <2>3. p \in DOMAIN established => established[p] = ioLoop[p]
    BY <2>1 DEF IInv, Handed
  <2>4. ASSUME NEW i \in 1..numThreads
        PROVE  Cardinality({k \in DOMAIN functors[i] : functors[i][k] = p})
                 = IF i = ioLoop[p] /\ p \notin DOMAIN established THEN 1 ELSE 0
    <3> DEFINE S == {k \in DOMAIN functors[i] : functors[i][k] = p}
    <3>1. CASE i = ioLoop[p] /\ p \notin DOMAIN established
      <4>1. PICK k \in DOMAIN functors[i] : functors[i][k] = p
        BY <2>1, <3>1 DEF IInv, Handed
      <4>2. \A l \in DOMAIN functors[i] : functors[i][l] = p => l = k
        BY <4>1 DEF IInv, Pending
      <4>3. Cardinality(S) = 1
        BY <4>1, <4>2, OnlyOne
      <4> QED
        BY <3>1, <4>3
    <3>2. CASE ~(i = ioLoop[p] /\ p \notin DOMAIN established)
      <4>1. S = {}
        BY <3>2 DEF IInv, Pending
      <4>2. Cardinality(S) = 0
        BY <4>1, FS_EmptySet
      <4> QED
        BY <3>2, <4>2
    <3> QED
      BY <3>1, <3>2
  <2> QED
    BY <2>1, <2>2, <2>3, <2>4
<1> QED
  BY <1>1, Invariance, PTL
==============================================================================
