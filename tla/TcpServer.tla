------------------------------ MODULE TcpServer ------------------------------
(***************************************************************************)
(* The server of log/TcpServer.cc: start() fills the pool of loops         *)
(* (EventLoopThreadPool) and has the base loop listen (Acceptor); each     *)
(* descriptor accepted becomes a connection, entered in connections_,      *)
(* given the next loop in turn and established there.                      *)
(*                                                                         *)
(* start() is called by one thread, the base loop's or another, whose      *)
(* steps interleave with the base loop's.  Loops are numbered: 0 is the    *)
(* base loop, i the i-th of loops_.  What a connection does once           *)
(* established is the module TcpConnection.  Nothing takes one out of      *)
(* connections_ again, nor closes its descriptor: handleClose does not     *)
(* call closeCallback_, so removeConnection is never reached.              *)
(***************************************************************************)
EXTENDS Integers, Sequences, FiniteSets

CONSTANTS
  Peers,         \* connections that may arrive
  ThreadNums,    \* the arguments of setThreadNum
  MaxStarts,     \* bound: how often start() is called
  Descriptors    \* how many connections accept() can give a descriptor

ASSUME TcpServerAssumption ==
  /\ ThreadNums \subseteq Nat
  /\ MaxStarts \in Nat
  /\ Descriptors \in Nat

VARIABLES
  numThreads,    \* numThreads_
  inBase,        \* start() is called in the thread of the base loop
  started,       \* started_
  starter,       \* where start() is: "idle", "pool" or "listen"
  starts,        \* how often start() was called
  loops,         \* the size of loops_
  listens,       \* how many Acceptor::listen the base loop has pending
  listenning,    \* listenning_, and the accept channel is enabled
  backlog,       \* connections complete in the kernel, not yet accepted
  next,          \* next_
  nextConnId,    \* nextConnId_
  connections,   \* connections_: from the number in the name to the peer
  ioLoop,        \* ioLoop[p]: the loop of p's connection
  functors,      \* functors[i]: connectEstablished pending in loop i
  established,   \* established[p]: the loop in which connectEstablished ran
  aborted        \* the process has ended in LOG_FATAL

startVars == <<numThreads, inBase, started, starter, starts, loops>>
connVars == <<next, nextConnId, connections, ioLoop, functors, established>>
vars == <<startVars, listens, listenning, backlog, connVars, aborted>>

Loops == UNION {1..n : n \in ThreadNums}

Accepted == {connections[n] : n \in DOMAIN connections}

(* f with f[x] = v, whether or not x was in its domain. *)
Put(f, x, v) == [y \in DOMAIN f \cup {x} |-> IF y = x THEN v ELSE f[y]]

Init ==
  /\ numThreads \in ThreadNums
  /\ inBase \in BOOLEAN
  /\ started = FALSE /\ starter = "idle" /\ starts = 0 /\ loops = 0
  /\ listens = 0 /\ listenning = FALSE
  /\ backlog = {}
  /\ next = 0 /\ nextConnId = 1
  /\ connections = <<>>
  /\ ioLoop = <<>>
  /\ functors = [i \in 1..numThreads |-> <<>>]
  /\ established = <<>>
  /\ aborted = FALSE

------------------------------------------------------------------------------
(* start()                                                                 *)

CallStart ==
  /\ starter = "idle"
  /\ starts < MaxStarts
  /\ starts' = starts + 1
  /\ starter' = IF started THEN "listen" ELSE "pool"
  /\ started' = TRUE
  /\ UNCHANGED <<numThreads, inBase, loops, listens, listenning, backlog, connVars, aborted>>

(* EventLoopThreadPool::start: one more thread and its loop. *)
StartLoop ==
  /\ starter = "pool"
  /\ loops < numThreads
  /\ loops' = loops + 1
  /\ UNCHANGED <<numThreads, inBase, started, starter, starts, listens, listenning,
                 backlog, connVars, aborted>>

(* Fault in PoolStarted: start() goes on before all threads are there. *)
PoolStartedEarly ==
  /\ starter = "pool"
  /\ starter' = "listen"
  /\ UNCHANGED <<numThreads, inBase, started, starts, loops, listens, listenning,
                 backlog, connVars, aborted>>

PoolStarted ==
  /\ starter = "pool"
  /\ loops = numThreads
  /\ starter' = "listen"
  /\ UNCHANGED <<numThreads, inBase, started, starts, loops, listens, listenning,
                 backlog, connVars, aborted>>

(* if (!acceptor_->listenning()) runInLoop(Acceptor::listen), which listens *)
(* at once in the base loop's thread and is queued from another.           *)
RequestListen ==
  /\ starter = "listen"
  /\ starter' = "idle"
  /\ listens' = IF listenning \/ inBase THEN listens ELSE listens + 1
  /\ listenning' = (listenning \/ inBase)
  /\ UNCHANGED <<numThreads, inBase, started, starts, loops, backlog, connVars,
                 aborted>>

------------------------------------------------------------------------------
(* The base loop.                                                          *)

(* The base loop's thread is not inside start(). *)
BaseFree == ~(inBase /\ starter # "idle")

(* Fault in Listen: the accept channel is not enabled. *)
ListenDeaf ==
  /\ BaseFree
  /\ listens > 0
  /\ listens' = listens - 1
  /\ UNCHANGED <<startVars, listenning, backlog, connVars, aborted>>

(* Acceptor::listen *)
Listen ==
  /\ BaseFree
  /\ listens > 0
  /\ listens' = listens - 1
  /\ listenning' = TRUE
  /\ UNCHANGED <<startVars, backlog, connVars, aborted>>

(* Fault in Following: next_ wraps round one too early. *)
FollowingEarly == IF next + 2 >= loops THEN 0 ELSE next + 1

(* next_ after getNextLoop *)
Following == IF next + 1 >= loops THEN 0 ELSE next + 1

(* The loop getNextLoop returns. *)
NextLoop == IF loops = 0 THEN 0 ELSE next + 1

(* connections_[connName] = conn, where connName ends in nextConnId_ *)
NameConnection(p) ==
  /\ nextConnId' = nextConnId + 1
  /\ connections' = Put(connections, nextConnId, p)

(* Fault in HandOver: connectEstablished runs in the accepting thread. *)
HandOverInBase(p, i) ==
  /\ established' = Put(established, p, 0)
  /\ UNCHANGED functors

(* ioLoop->runInLoop(connectEstablished): at once for the base loop, whose *)
(* thread is the caller, and queued for another.                           *)
HandOver(p, i) ==
  \/ /\ i = 0
     /\ established' = Put(established, p, 0)
     /\ UNCHANGED functors
  \/ /\ i # 0
     /\ functors' = [functors EXCEPT ![i] = Append(@, p)]
     /\ UNCHANGED established

(* TcpServer::newConnection *)
NewConnection(p) ==
  /\ NameConnection(p)
  /\ next' = IF loops = 0 THEN next ELSE Following
  /\ ioLoop' = Put(ioLoop, p, NextLoop)
  /\ HandOver(p, NextLoop)

(* Acceptor::handleRead, one connection for each event. *)
HandleRead ==
  /\ BaseFree
  /\ listenning
  /\ Cardinality(Accepted) < Descriptors
  /\ \E p \in backlog :
       /\ backlog' = backlog \ {p}
       /\ NewConnection(p)
  /\ UNCHANGED <<startVars, listens, listenning, aborted>>

(* Fault in AcceptFails: the failure is ignored and the event comes again. *)
AcceptFailsQuietly ==
  /\ BaseFree
  /\ listenning
  /\ backlog # {}
  /\ Cardinality(Accepted) >= Descriptors
  /\ UNCHANGED vars

(* accept() fails, here for want of a descriptor: setNonBlockAndCloseOnExec *)
(* has overwritten errno, EBADF is found, and LOG_FATAL aborts.            *)
AcceptFails ==
  /\ BaseFree
  /\ listenning
  /\ backlog # {}
  /\ Cardinality(Accepted) >= Descriptors
  /\ aborted' = TRUE
  /\ UNCHANGED <<startVars, listens, listenning, backlog, connVars>>

(* Loop i runs TcpConnection::connectEstablished. *)
Establish(i) ==
  /\ i \in DOMAIN functors
  /\ functors[i] # <<>>
  /\ established' = Put(established, Head(functors[i]), i)
  /\ functors' = [functors EXCEPT ![i] = Tail(@)]
  /\ UNCHANGED <<startVars, listens, listenning, backlog, next, nextConnId,
                 connections, ioLoop, aborted>>

(* A client connects; the kernel completes connections once it listens. *)
Arrive(p) ==
  /\ listenning
  /\ p \notin backlog \cup Accepted
  /\ backlog' = backlog \cup {p}
  /\ UNCHANGED <<startVars, listens, listenning, connVars, aborted>>

Starting == StartLoop \/ PoolStarted \/ RequestListen

Accepting == HandleRead \/ AcceptFails

Next ==
  /\ ~aborted
  /\ \/ CallStart \/ Starting \/ Listen \/ Accepting
     \/ \E p \in Peers : Arrive(p)
     \/ \E i \in Loops : Establish(i)

Spec == Init /\ [][Next]_vars

(* The thread in start() goes on, the base loop runs its functors and the  *)
(* accept handler, and every other loop its functors; nobody has to call   *)
(* start() or to connect.                                                  *)
Fairness ==
  /\ WF_vars(~aborted /\ Starting)
  /\ WF_vars(~aborted /\ Listen)
  /\ WF_vars(~aborted /\ Accepting)
  /\ \A i \in Loops : WF_vars(~aborted /\ Establish(i))

FairSpec == Spec /\ Fairness

------------------------------------------------------------------------------
(* Properties                                                              *)

(* The type of every variable, and that next_ is an index of loops_ as     *)
(* getNextLoop uses it, unchecked, once there are loops.                   *)
TypeOK ==
  /\ numThreads \in ThreadNums
  /\ inBase \in BOOLEAN
  /\ started \in BOOLEAN
  /\ starter \in {"idle", "pool", "listen"}
  /\ starts \in 0..MaxStarts
  /\ loops \in 0..numThreads
  /\ listens \in Nat
  /\ listenning \in BOOLEAN
  /\ backlog \subseteq Peers
  /\ next \in Nat
  /\ next = 0 \/ next < loops
  /\ nextConnId \in Nat \ {0}
  /\ connections \in [1..nextConnId - 1 -> Peers]
  /\ ioLoop \in [Accepted -> 0..numThreads]
  /\ functors \in [1..numThreads -> Seq(Peers)]
  /\ DOMAIN established \subseteq Accepted
  /\ aborted \in BOOLEAN

(* A thread in EventLoopThreadPool::start, pushing to loops_, never meets  *)
(* getNextLoop reading it: when the base loop listens, or is going to, the *)
(* pool is complete, although start() may be another thread's.             *)
PoolBeforeListen ==
  listenning \/ listens > 0 => loops = numThreads /\ starter # "pool"

ServedBy(i) == {p \in DOMAIN ioLoop : ioLoop[p] = i}

(* The rotation of getNextLoop is fair: with loops in the pool the base    *)
(* loop keeps no connection, and no two loops of the pool ever differ by   *)
(* more than one in the connections they were given.                       *)
Balanced ==
  loops > 0 =>
    /\ ServedBy(0) = {}
    /\ \A i, j \in 1..loops : Cardinality(ServedBy(i)) <= Cardinality(ServedBy(j)) + 1

(* Between newConnection in the base loop and connectEstablished in the    *)
(* connection's loop: each connection named in connections_ has run        *)
(* connectEstablished once, in its own loop, or has it pending once, there *)
(* and nowhere else; no two have one name.                                 *)
EstablishedInOwnLoop ==
  \A p \in DOMAIN ioLoop :
    /\ Cardinality({n \in DOMAIN connections : connections[n] = p}) = 1
    /\ p \in DOMAIN established => established[p] = ioLoop[p]
    /\ \A i \in DOMAIN functors :
         Cardinality({k \in DOMAIN functors[i] : functors[i][k] = p})
           = IF i = ioLoop[p] /\ p \notin DOMAIN established THEN 1 ELSE 0

(* A call of start() ends with the acceptor listening, whichever thread    *)
(* makes it.                                                               *)
StartListens == starter # "idle" ~> listenning

(* Every connection the kernel has completed is accepted and established,  *)
(* unless accept() fails first and takes the process with it.              *)
Reached == \A p \in Peers : p \in backlog ~> p \in DOMAIN established \/ aborted
==============================================================================
