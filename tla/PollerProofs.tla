----------------------------- MODULE PollerProofs -----------------------------
(***************************************************************************)
(* Poller.tla for any number of channels and descriptors: the vector, the  *)
(* indexes and the map stay coherent, so that poll() never dereferences a  *)
(* channel that is gone, and the whole behaves as a map.                   *)
(***************************************************************************)
EXTENDS Poller, SequenceTheorems, TLAPS

(* A descriptor belongs to one channel object at a time. *)
OneLivePerFd == \A c, d \in live : FdOf[c] = FdOf[d] => c = d

IInv ==
  /\ TypeOK
  /\ OneLivePerFd
  /\ IndexCoherent
  /\ PolledAsAsked
  /\ DispatchValid

------------------------------------------------------------------------------
(* Muting is undone by Decode, and a muted slot is recognised by its sign. *)
LEMMA MuteDecode ==
  ASSUME NEW f \in Nat
  PROVE  /\ Decode(f) = f
         /\ Decode(Muted(f)) = f
         /\ Muted(f) < 0 /\ Muted(f) \in Int
  BY DEF Decode, Muted

(* A slot that is not muted holds its descriptor as it is. *)
LEMMA DecodeUnmuted ==
  ASSUME NEW n \in Int, n >= 0
  PROVE  Decode(n) = n
  BY DEF Decode

(* What the invariant says of a registered channel. *)
LEMMA RegisteredFacts ==
  ASSUME TypeOK, IndexCoherent, NEW c \in Registered
  PROVE  /\ c \in live /\ c \in Channels
         /\ FdOf[c] \in DOMAIN channels /\ channels[FdOf[c]] = c
         /\ FdOf[c] \in Nat
         /\ index[c] \in Int /\ index[c] >= 0
         /\ index[c] + 1 \in 1 .. Len(pollfds)
         /\ Decode(pollfds[index[c] + 1].fd) = FdOf[c]
<1>1. c \in live /\ c \in Channels
  BY DEF TypeOK
<1>2. PICK f \in DOMAIN channels : channels[f] = c
  BY DEF Registered
<1>3. /\ FdOf[c] = f
      /\ index[c] + 1 \in 1 .. Len(pollfds)
      /\ Decode(pollfds[index[c] + 1].fd) = f
  BY <1>2 DEF IndexCoherent
<1>4. FdOf[c] \in Nat
  BY <1>1, PollerAssumption
<1>5. index[c] \in Int
  BY <1>1 DEF TypeOK
<1> QED BY <1>1, <1>2, <1>3, <1>4, <1>5

(* Two registered channels never share a slot. *)
LEMMA SlotsDistinct ==
  ASSUME TypeOK, IndexCoherent, NEW c \in Registered, NEW d \in Registered,
         index[c] = index[d]
  PROVE  c = d
  BY RegisteredFacts

------------------------------------------------------------------------------
(* The constructor of Poller establishes the invariant. *)
LEMMA InitIInv == Init => IInv
<1> SUFFICES ASSUME Init
             PROVE  IInv
  OBVIOUS
<1>1. DOMAIN channels = {} /\ Registered = {}
  BY DEF Init, Registered
<1>2. TypeOK
  <2>1. /\ index \in [Channels -> Int]
        /\ events \in [Channels -> Interests]
    BY DEF Init, Interests
  <2>2. /\ pollfds \in Seq([fd : Int, events : Interests])
        /\ activeChannels \in Seq([channel : Channels, revents : Reports])
        /\ calls \in Seq(Callbacks)
    BY DEF Init
  <2> QED BY <1>1, <2>1, <2>2, Zenon DEF Init, TypeOK
<1>3. OneLivePerFd
  BY DEF Init, OneLivePerFd
<1>4. IndexCoherent /\ PolledAsAsked /\ DispatchValid
  BY <1>1 DEF Init, IndexCoherent, PolledAsAsked, DispatchValid
<1> QED BY <1>2, <1>3, <1>4 DEF IInv

(* Creating an object preserves it. *)
LEMMA ConstructIInv ==
  ASSUME IInv, NEW c \in Channels, Construct(c)
  PROVE  IInv'
<1> USE DEF IInv, Construct
<1>1. TypeOK'
  BY DEF TypeOK, Registered
<1>2. OneLivePerFd'
  BY DEF OneLivePerFd
<1>3. IndexCoherent' /\ DispatchValid'
  BY DEF IndexCoherent, DispatchValid, Registered
<1>4. PolledAsAsked'
  BY DEF PolledAsAsked, Registered, Slot
<1> QED BY <1>1, <1>2, <1>3, <1>4

(* So does destroying an object that is not registered. *)
LEMMA DestroyIInv ==
  ASSUME IInv, NEW c \in Channels, Destroy(c)
  PROVE  IInv'
<1> USE DEF IInv, Destroy
<1>1. Registered' = Registered /\ c \notin Registered
  BY DEF Registered
<1>2. \A d \in Registered :
        d \in Channels /\ index'[d] = index[d] /\ events'[d] = events[d]
  BY <1>1 DEF TypeOK
<1>3. TypeOK'
  BY <1>1 DEF TypeOK, Interests
<1>4. OneLivePerFd'
  BY DEF OneLivePerFd
<1>5. IndexCoherent'
  BY <1>2 DEF IndexCoherent, Registered
<1>6. PolledAsAsked'
  BY <1>1, <1>2 DEF PolledAsAsked, Slot
<1>7. DispatchValid'
  BY <1>1 DEF DispatchValid
<1> QED BY <1>3, <1>4, <1>5, <1>6, <1>7

------------------------------------------------------------------------------
(* updateChannel.                                                          *)

(* A channel without a slot is new to channels_ too. *)
LEMMA NewChannel ==
  ASSUME IInv, NEW c \in live, index[c] < 0
  PROVE  c \notin Registered /\ FdOf[c] \notin DOMAIN channels
<1>1. c \notin Registered
  <2> SUFFICES ASSUME c \in Registered
               PROVE  FALSE
    OBVIOUS
  <2> QED BY RegisteredFacts DEF IInv
<1>2. ASSUME FdOf[c] \in DOMAIN channels
      PROVE  FALSE
  <2>1. channels[FdOf[c]] \in Registered /\ FdOf[channels[FdOf[c]]] = FdOf[c]
    BY <1>2 DEF IInv, IndexCoherent, Registered
  <2>2. channels[FdOf[c]] = c
    BY <2>1 DEF IInv, TypeOK, OneLivePerFd
  <2> QED BY <1>1, <2>1, <2>2
<1> QED BY <1>1, <1>2

(* push_back, set_index and the entry in channels_: the new channel has the *)
(* new slot, every other channel keeps its own. *)
LEMMA AddedSlot ==
  ASSUME IInv, NEW c \in live, NEW ev \in Interests, index[c] < 0,
         AddSlot(c, ev), events' = [events EXCEPT ![c] = ev]
  PROVE  LET n == Len(pollfds)
             s == [fd |-> FdOf[c], events |-> ev]
         IN /\ c \in Channels /\ FdOf[c] \in Nat /\ FdOf[c] \in Fds
            /\ n \in Nat /\ s \in [fd : Int, events : Interests]
            /\ c \notin Registered /\ FdOf[c] \notin DOMAIN channels
            /\ DOMAIN channels' = DOMAIN channels \cup {FdOf[c]}
            /\ channels'[FdOf[c]] = c
            /\ \A f \in DOMAIN channels : channels'[f] = channels[f]
            /\ Registered' = Registered \cup {c}
            /\ pollfds' \in Seq([fd : Int, events : Interests])
            /\ Len(pollfds') = n + 1
            /\ pollfds'[n + 1] = s
            /\ \A i \in 1 .. n : pollfds'[i] = pollfds[i]
            /\ index' \in [Channels -> Int] /\ index'[c] = n
            /\ events' \in [Channels -> Interests] /\ events'[c] = ev
            /\ \A d \in Registered :
                 /\ index'[d] = index[d]
                 /\ events'[d] = events[d]
                 /\ index[d] + 1 \in 1 .. n
                 /\ pollfds'[index'[d] + 1] = pollfds[index[d] + 1]
<1> DEFINE n == Len(pollfds)
           s == [fd |-> FdOf[c], events |-> ev]
<1>1. /\ c \in Channels /\ FdOf[c] \in Nat /\ FdOf[c] \in Fds
      /\ n \in Nat /\ s \in [fd : Int, events : Interests]
  <2>1. c \in Channels /\ pollfds \in Seq([fd : Int, events : Interests])
    BY DEF IInv, TypeOK
  <2>2. FdOf[c] \in Nat /\ FdOf[c] \in Fds
    BY <2>1, PollerAssumption DEF Fds
  <2> QED BY <2>1, <2>2
<1>2. c \notin Registered /\ FdOf[c] \notin DOMAIN channels
  BY NewChannel
<1>3. /\ DOMAIN channels' = DOMAIN channels \cup {FdOf[c]}
      /\ channels'[FdOf[c]] = c
      /\ \A f \in DOMAIN channels : channels'[f] = channels[f]
      /\ Registered' = Registered \cup {c}
  <2>1. /\ DOMAIN channels' = DOMAIN channels \cup {FdOf[c]}
        /\ channels'[FdOf[c]] = c
        /\ \A f \in DOMAIN channels : channels'[f] = channels[f]
    BY <1>2 DEF AddSlot
  <2> QED BY <2>1 DEF Registered
<1>4. /\ pollfds' \in Seq([fd : Int, events : Interests])
      /\ Len(pollfds') = n + 1
      /\ pollfds'[n + 1] = s
      /\ \A i \in 1 .. n : pollfds'[i] = pollfds[i]
  <2>1. pollfds \in Seq([fd : Int, events : Interests])
    BY DEF IInv, TypeOK
  <2>2. pollfds' = Append(pollfds, s)
    BY DEF AddSlot
  <2> QED BY <1>1, <2>1, <2>2, AppendProperties
<1>5. /\ index' \in [Channels -> Int] /\ index'[c] = n
      /\ events' \in [Channels -> Interests] /\ events'[c] = ev
      /\ \A d \in Registered : /\ index'[d] = index[d]
                               /\ events'[d] = events[d]
                               /\ index[d] + 1 \in 1 .. n
                               /\ pollfds'[index'[d] + 1] = pollfds[index[d] + 1]
  <2>1. /\ index' \in [Channels -> Int] /\ index'[c] = n
        /\ \A d \in Channels : d # c => index'[d] = index[d]
    BY <1>1 DEF AddSlot, IInv, TypeOK
  <2>2. /\ events' \in [Channels -> Interests] /\ events'[c] = ev
        /\ \A d \in Channels : d # c => events'[d] = events[d]
    BY <1>1 DEF IInv, TypeOK
  <2>3. \A d \in Registered : d \in Channels /\ index[d] + 1 \in 1 .. n
    BY RegisteredFacts DEF IInv
  <2> QED BY <1>2, <1>4, <2>1, <2>2, <2>3
<1> QED BY <1>1, <1>2, <1>3, <1>4, <1>5

(* A channel's first update preserves the invariant. *)
LEMMA AddSlotIInv ==
  ASSUME IInv, NEW c \in live, NEW ev \in Interests, index[c] < 0,
         AddSlot(c, ev), events' = [events EXCEPT ![c] = ev],
         UNCHANGED <<pc, live, activeChannels, calls, silenced>>
  PROVE  IInv'
<1> DEFINE n == Len(pollfds)
           s == [fd |-> FdOf[c], events |-> ev]
<1>1. /\ FdOf[c] \in Nat /\ FdOf[c] \in Fds
      /\ n \in Nat /\ s \in [fd : Int, events : Interests]
  BY AddedSlot
<1>3. /\ DOMAIN channels' = DOMAIN channels \cup {FdOf[c]}
      /\ channels'[FdOf[c]] = c
      /\ \A f \in DOMAIN channels : channels'[f] = channels[f]
      /\ Registered' = Registered \cup {c}
  BY AddedSlot
<1>4. /\ pollfds' \in Seq([fd : Int, events : Interests])
      /\ Len(pollfds') = n + 1
      /\ pollfds'[n + 1] = s
      /\ \A i \in 1 .. n : pollfds'[i] = pollfds[i]
  BY AddedSlot
<1>5. /\ index' \in [Channels -> Int] /\ index'[c] = n
      /\ events' \in [Channels -> Interests] /\ events'[c] = ev
      /\ \A d \in Registered :
           /\ index'[d] = index[d]
           /\ events'[d] = events[d]
           /\ index[d] + 1 \in 1 .. n
           /\ pollfds'[index'[d] + 1] = pollfds[index[d] + 1]
  BY AddedSlot
<1>2. c \notin silenced /\ silenced' = silenced
  <2>1. c \notin Registered /\ silenced \subseteq Registered
    BY NewChannel DEF IInv, TypeOK
  <2> QED BY <2>1
<1>6. TypeOK'
  BY <1>1, <1>2, <1>3, <1>4, <1>5 DEF IInv, TypeOK
<1>7. OneLivePerFd'
  BY DEF IInv, OneLivePerFd
<1>8. IndexCoherent'
  <2>1. ASSUME NEW f \in DOMAIN channels'
        PROVE  /\ FdOf[channels'[f]] = f
               /\ index'[channels'[f]] + 1 \in 1 .. Len(pollfds')
               /\ Decode(pollfds'[index'[channels'[f]] + 1].fd) = f
    <3>1. CASE f = FdOf[c]
      BY <1>1, <1>3, <1>4, <1>5, <3>1, MuteDecode
    <3>2. CASE f \in DOMAIN channels
      <4>1. channels[f] \in Registered /\ channels'[f] = channels[f]
        BY <1>3, <3>2 DEF Registered
      <4>2. /\ FdOf[channels[f]] = f
            /\ Decode(pollfds[index[channels[f]] + 1].fd) = f
        BY <3>2 DEF IInv, IndexCoherent
      <4> QED BY <1>1, <1>4, <1>5, <4>1, <4>2
    <3> QED BY <1>3, <2>1, <3>1, <3>2
  <2>2. ASSUME NEW i \in 1 .. Len(pollfds')
        PROVE  /\ Decode(pollfds'[i].fd) \in DOMAIN channels'
               /\ index'[channels'[Decode(pollfds'[i].fd)]] = i - 1
    <3>1. CASE i = n + 1
      BY <1>1, <1>3, <1>4, <1>5, <3>1, MuteDecode
    <3>2. CASE i \in 1 .. n
      <4>1. /\ Decode(pollfds[i].fd) \in DOMAIN channels
            /\ index[channels[Decode(pollfds[i].fd)]] = i - 1
        BY <3>2 DEF IInv, IndexCoherent
      <4>2. channels[Decode(pollfds[i].fd)] \in Registered
        BY <4>1 DEF Registered
      <4> QED BY <1>3, <1>4, <1>5, <3>2, <4>1, <4>2
    <3> QED BY <1>1, <1>4, <3>1, <3>2
  <2> QED BY <2>1, <2>2 DEF IndexCoherent
<1>9. PolledAsAsked'
  <2>1. Slot(c)' = [fd |-> FdOf[c], events |-> events'[c]]
    BY <1>4, <1>5 DEF Slot
  <2>2. ASSUME NEW d \in Registered
        PROVE  Slot(d)' = Slot(d) /\ events'[d] = events[d]
    BY <1>5 DEF Slot
  <2> QED BY <1>2, <1>3, <2>1, <2>2 DEF IInv, PolledAsAsked
<1>10. DispatchValid'
  BY <1>3 DEF IInv, DispatchValid
<1> QED BY <1>6, <1>7, <1>8, <1>9, <1>10 DEF IInv

(* Changing the slot of a registered channel: it stays about the same      *)
(* descriptor, muted or not, and no other slot changes. *)
LEMMA ChangedSlot ==
  ASSUME IInv, NEW c \in Registered, NEW ev \in Interests,
         ChangeSlot(c, ev), events' = [events EXCEPT ![c] = ev]
  PROVE  LET k == index[c] + 1
         IN /\ pollfds' \in Seq([fd : Int, events : Interests])
            /\ Len(pollfds') = Len(pollfds)
            /\ k \in 1 .. Len(pollfds)
            /\ pollfds'[k] = [fd |-> IF ev = {} THEN Muted(FdOf[c])
                                               ELSE pollfds[k].fd,
                              events |-> ev]
            /\ pollfds'[k].fd < 0 <=> pollfds[k].fd < 0 \/ ev = {}
            /\ \A i \in 1 .. Len(pollfds) :
                 Decode(pollfds'[i].fd) = Decode(pollfds[i].fd)
            /\ UNCHANGED <<index, channels>> /\ Registered' = Registered
            /\ events' \in [Channels -> Interests] /\ events'[c] = ev
            /\ \A d \in Registered \ {c} :
                 /\ pollfds'[index[d] + 1] = pollfds[index[d] + 1]
                 /\ events'[d] = events[d]
<1> DEFINE k == index[c] + 1
           s == [fd |-> IF ev = {} THEN Muted(FdOf[c]) ELSE pollfds[k].fd,
                 events |-> ev]
<1>1. /\ c \in Channels /\ FdOf[c] \in Nat
      /\ k \in 1 .. Len(pollfds) /\ Decode(pollfds[k].fd) = FdOf[c]
      /\ pollfds \in Seq([fd : Int, events : Interests])
  BY RegisteredFacts DEF IInv, TypeOK
<1>2. s \in [fd : Int, events : Interests]
  <2>1. pollfds[k] \in [fd : Int, events : Interests]
    BY <1>1, ElementOfSeq
  <2> QED BY <1>1, <2>1, MuteDecode
<1>3. Decode(s.fd) = FdOf[c] /\ (s.fd < 0 <=> pollfds[k].fd < 0 \/ ev = {})
  BY <1>1, MuteDecode
<1>4. /\ pollfds' \in Seq([fd : Int, events : Interests])
      /\ Len(pollfds') = Len(pollfds)
      /\ pollfds'[k] = s
      /\ \A i \in 1 .. Len(pollfds) : i # k => pollfds'[i] = pollfds[i]
  <2>1. pollfds' = [pollfds EXCEPT ![k] = s]
    BY DEF ChangeSlot
  <2> QED BY <1>1, <1>2, <2>1, ExceptSeq
<1>5. \A i \in 1 .. Len(pollfds) : Decode(pollfds'[i].fd) = Decode(pollfds[i].fd)
  BY <1>1, <1>3, <1>4
<1>6. UNCHANGED <<index, channels>> /\ Registered' = Registered
  BY DEF ChangeSlot, Registered
<1>7. events' \in [Channels -> Interests] /\ events'[c] = ev
  BY <1>1 DEF IInv, TypeOK
<1>8. ASSUME NEW d \in Registered \ {c}
      PROVE  /\ pollfds'[index[d] + 1] = pollfds[index[d] + 1]
             /\ events'[d] = events[d]
  <2>1. /\ index[d] \in Int /\ index[c] \in Int
        /\ index[d] + 1 \in 1 .. Len(pollfds) /\ d \in Channels
    BY RegisteredFacts DEF IInv
  <2> SUFFICES ASSUME index[d] # index[c]
               PROVE  /\ pollfds'[index[d] + 1] = pollfds[index[d] + 1]
                      /\ events'[d] = events[d]
    BY SlotsDistinct DEF IInv
  <2>2. pollfds'[index[d] + 1] = pollfds[index[d] + 1]
    <3>1. index[d] + 1 # k
      BY <2>1
    <3> HIDE DEF k, s
    <3> QED BY <1>4, <2>1, <3>1
  <2>3. events'[d] = events[d]
    BY <1>1, <2>1 DEF IInv, TypeOK
  <2> QED BY <2>2, <2>3
<1> QED BY <1>1, <1>3, <1>4, <1>5, <1>6, <1>7, <1>8

(* Every later update of a channel preserves the invariant. *)
LEMMA ChangeSlotIInv ==
  ASSUME IInv, NEW c \in Registered, NEW ev \in Interests,
         ChangeSlot(c, ev), events' = [events EXCEPT ![c] = ev],
         silenced' = IF ev = {} THEN silenced \cup {c} ELSE silenced,
         UNCHANGED <<pc, live, activeChannels, calls>>
  PROVE  IInv'
<1>1. /\ pollfds' \in Seq([fd : Int, events : Interests])
      /\ Len(pollfds') = Len(pollfds)
      /\ \A i \in 1 .. Len(pollfds) :
           Decode(pollfds'[i].fd) = Decode(pollfds[i].fd)
      /\ UNCHANGED <<index, channels>> /\ Registered' = Registered
      /\ events' \in [Channels -> Interests]
  BY ChangedSlot
<1>2. TypeOK'
  BY <1>1 DEF IInv, TypeOK
<1>3. OneLivePerFd' /\ DispatchValid'
  BY <1>1 DEF IInv, OneLivePerFd, DispatchValid
<1>4. IndexCoherent'
  BY <1>1 DEF IInv, IndexCoherent
<1>5. PolledAsAsked'
  <2>1. Slot(c)' = [fd |-> IF c \in silenced' THEN Muted(FdOf[c]) ELSE FdOf[c],
                    events |-> events'[c]]
    <3>1. /\ pollfds'[index[c] + 1] =
               [fd |-> IF ev = {} THEN Muted(FdOf[c])
                                 ELSE pollfds[index[c] + 1].fd,
                events |-> ev]
          /\ events'[c] = ev /\ index' = index
      BY ChangedSlot
    <3>2. Slot(c)' = [fd |-> IF ev = {} THEN Muted(FdOf[c]) ELSE Slot(c).fd,
                      events |-> ev]
      BY <3>1 DEF Slot
    <3>3. Slot(c).fd = IF c \in silenced THEN Muted(FdOf[c]) ELSE FdOf[c]
      BY DEF IInv, PolledAsAsked
    <3> QED BY <3>1, <3>2, <3>3
  <2>2. ASSUME NEW d \in Registered \ {c}
        PROVE  /\ Slot(d)' = Slot(d) /\ events'[d] = events[d]
               /\ d \in silenced' <=> d \in silenced
    BY <1>1, ChangedSlot DEF Slot
  <2> QED BY <1>1, <2>1, <2>2 DEF IInv, PolledAsAsked
<1> QED BY <1>2, <1>3, <1>4, <1>5 DEF IInv

(* Every enable and disable of a channel preserves the invariant. *)
LEMMA SetEventsIInv ==
  ASSUME IInv, NEW c \in Channels, SetEvents(c)
  PROVE  IInv'
<1>1. PICK ev \in NewInterests(c) :
        /\ events' = [events EXCEPT ![c] = ev] /\ UpdateChannel(c, ev)
        /\ silenced' = IF index[c] >= 0 /\ ev = {} THEN silenced \cup {c}
                                                 ELSE silenced
  BY DEF SetEvents
<1>2. ev \in Interests
  BY <1>1 DEF NewInterests, Interests, IInv, TypeOK
<1>3. UNCHANGED <<pc, live, activeChannels, calls>>
      /\ c \in live /\ (index[c] < 0 \/ c \in Registered)
  BY DEF SetEvents, Usable
<1>4. index[c] \in Int
  BY DEF IInv, TypeOK
<1>5. CASE index[c] < 0
  <2>1. AddSlot(c, ev) /\ silenced' = silenced
    BY <1>1, <1>5, <1>4 DEF UpdateChannel
  <2> QED BY <1>1, <1>2, <1>3, <1>5, <2>1, AddSlotIInv
<1>6. CASE index[c] >= 0
  <2>1. /\ c \in Registered /\ ChangeSlot(c, ev)
        /\ silenced' = IF ev = {} THEN silenced \cup {c} ELSE silenced
    BY <1>1, <1>3, <1>6, <1>4 DEF UpdateChannel
  <2> QED BY <1>1, <1>2, <1>3, <2>1, ChangeSlotIInv
<1> QED BY <1>4, <1>5, <1>6

------------------------------------------------------------------------------
(* removeChannel.                                                          *)

(* pop_back leaves every slot but the last. *)
LEMMA PopBack ==
  ASSUME NEW S, NEW s \in Seq(S), Len(s) # 0
  PROVE  /\ SubSeq(s, 1, Len(s) - 1) \in Seq(S)
         /\ Len(SubSeq(s, 1, Len(s) - 1)) = Len(s) - 1
         /\ \A i \in 1 .. Len(s) - 1 : SubSeq(s, 1, Len(s) - 1)[i] = s[i]
<1> DEFINE n == Len(s) - 1
<1>1. n \in Nat /\ \A i \in 1 .. n : s[i] \in S
  BY LenProperties, ElementOfSeq
<1>2. n = Len(s) - 1
  OBVIOUS
<1> HIDE DEF n
<1>3. /\ SubSeq(s, 1, n) \in Seq(S)
      /\ Len(SubSeq(s, 1, n)) = IF 1 <= n THEN n - 1 + 1 ELSE 0
      /\ \A i \in 1 .. n - 1 + 1 : SubSeq(s, 1, n)[i] = s[1 + i - 1]
  BY <1>1, SubSeqProperties
<1>4. /\ Len(SubSeq(s, 1, n)) = n
      /\ \A i \in 1 .. n : SubSeq(s, 1, n)[i] = s[i]
  BY <1>1, <1>3
<1> QED BY <1>2, <1>3, <1>4

(* What either branch leaves: a channel that stays keeps its slot, at its  *)
(* old position or, if it had the last one, at that of the channel removed. *)
LEMMA RemovedSlots ==
  ASSUME IInv, NEW c \in Registered, RemoveLast(c) \/ RemoveBySwap(c)
  PROVE  /\ pollfds' \in Seq([fd : Int, events : Interests])
         /\ Len(pollfds') = Len(pollfds) - 1
         /\ \A i \in 1 .. Len(pollfds) - 1 :
              pollfds'[i] = IF i = index[c] + 1 THEN pollfds[Len(pollfds)]
                                                ELSE pollfds[i]
         /\ index' \in [Channels -> Int]
         /\ \A d \in Registered \ {c} :
              index'[d] = IF index[d] + 1 = Len(pollfds) THEN index[c]
                                                         ELSE index[d]
<1> DEFINE n == Len(pollfds)
           k == index[c] + 1
           last == pollfds[n]
           T == [fd : Int, events : Interests]
<1>1. /\ pollfds \in Seq(T) /\ n \in Nat /\ k \in 1 .. n /\ last \in T
      /\ c \in Channels /\ index[c] \in Int /\ index \in [Channels -> Int]
  <2>1. /\ pollfds \in Seq(T) /\ index \in [Channels -> Int]
        /\ k \in 1 .. n /\ c \in Channels /\ index[c] \in Int
    BY RegisteredFacts DEF IInv, TypeOK
  <2>2. n \in Nat /\ n \in 1 .. n
    BY <2>1, LenProperties
  <2> QED BY <2>1, <2>2, ElementOfSeq
<1>2. \A d \in Registered \ {c} :
        d \in Channels /\ index[d] \in Int /\ index[d] # index[c]
  BY RegisteredFacts, SlotsDistinct DEF IInv
<1>3. CASE RemoveLast(c)
  <2>1. k = n /\ pollfds' = SubSeq(pollfds, 1, n - 1) /\ index' = index
    BY <1>3 DEF RemoveLast
  <2>2. /\ pollfds' \in Seq(T) /\ Len(pollfds') = n - 1
        /\ \A i \in 1 .. n - 1 : pollfds'[i] = pollfds[i]
    <3>1. pollfds \in Seq(T) /\ Len(pollfds) # 0
      BY <1>1
    <3> HIDE DEF T
    <3> QED BY <2>1, <3>1, PopBack
  <2> QED BY <1>1, <1>2, <2>1, <2>2
<1>4. CASE RemoveBySwap(c)
  <2> DEFINE moved == channels[Decode(last.fd)]
             q == [pollfds EXCEPT ![k] = last]
  <2>1. /\ k # n /\ pollfds' = SubSeq(q, 1, n - 1)
        /\ index' = [index EXCEPT ![moved] = index[c]]
    BY <1>4 DEF RemoveBySwap
  <2>2. /\ q \in Seq(T) /\ Len(q) = n
        /\ \A i \in 1 .. n : q[i] = IF i = k THEN last ELSE pollfds[i]
    BY <1>1, ExceptSeq
  <2>3. /\ pollfds' \in Seq(T) /\ Len(pollfds') = n - 1
        /\ \A i \in 1 .. n - 1 : pollfds'[i] = q[i]
    <3> HIDE DEF T, q, n
    <3>1. n # 0
      BY <1>1
    <3> QED BY <2>1, <2>2, <3>1, PopBack
  <2>4. moved \in Registered /\ index[moved] = n - 1
    BY <1>1 DEF IInv, IndexCoherent, Registered
  <2>5. moved \in Channels /\ \A d \in Registered : index[d] = n - 1 => d = moved
    BY <2>4, SlotsDistinct, RegisteredFacts DEF IInv
  <2> QED BY <1>1, <1>2, <2>1, <2>2, <2>3, <2>4, <2>5
<1> QED BY <1>3, <1>4

(* Removing a channel: the others keep their descriptors and their slots,  *)
(* wherever these are now. *)
LEMMA RemovedChannel ==
  ASSUME IInv, NEW c \in Channels, RemoveChannel(c)
  PROVE  /\ FdOf[c] \in DOMAIN channels
         /\ DOMAIN channels' = DOMAIN channels \ {FdOf[c]}
         /\ \A f \in DOMAIN channels' :
              /\ channels'[f] = channels[f]
              /\ channels[f] \in Registered \ {c}
              /\ FdOf[channels[f]] = f
         /\ Registered' = Registered \ {c}
         /\ \A d \in Registered \ {c} :
              /\ index'[d] + 1 \in 1 .. Len(pollfds) - 1
              /\ pollfds'[index'[d] + 1] = pollfds[index[d] + 1]
<1> DEFINE n == Len(pollfds)
           k == index[c] + 1
<1>1. /\ c \in Registered /\ (RemoveLast(c) \/ RemoveBySwap(c))
      /\ UNCHANGED <<pc, live, events, activeChannels, calls>>
      /\ pc = "functors"
  BY DEF RemoveChannel
<1>2. /\ k \in 1 .. n /\ n \in Nat /\ index[c] \in Int
      /\ FdOf[c] \in DOMAIN channels /\ channels[FdOf[c]] = c
  BY <1>1, RegisteredFacts DEF IInv
<1>3. \A d \in Registered :
        /\ index[d] \in Int /\ index[d] + 1 \in 1 .. n
        /\ d # c => index[d] # index[c]
  BY <1>1, RegisteredFacts, SlotsDistinct DEF IInv
<1>4. /\ DOMAIN channels' = DOMAIN channels \ {FdOf[c]}
      /\ \A f \in DOMAIN channels' : channels'[f] = channels[f]
  BY DEF RemoveChannel
<1>5. \A f \in DOMAIN channels' :
        channels[f] \in Registered \ {c} /\ FdOf[channels[f]] = f
  <2> TAKE f \in DOMAIN channels'
  <2>1. f \in DOMAIN channels /\ f # FdOf[c]
    BY <1>4
  <2>2. FdOf[channels[f]] = f /\ channels[f] \in Registered
    BY <2>1 DEF IInv, IndexCoherent, Registered
  <2> QED BY <2>1, <2>2
<1>6. Registered' = Registered \ {c}
  <2>1. Registered' \subseteq Registered \ {c}
    BY <1>4, <1>5 DEF Registered
  <2>2. ASSUME NEW d \in Registered, d # c
        PROVE  d \in Registered'
    <3>1. FdOf[d] \in DOMAIN channels /\ channels[FdOf[d]] = d
      BY RegisteredFacts DEF IInv
    <3>2. FdOf[d] # FdOf[c]
      BY <1>2, <2>2, <3>1
    <3> QED BY <1>4, <3>1, <3>2 DEF Registered
  <2> QED BY <2>1, <2>2
<1>7. \A d \in Registered \ {c} :
        /\ index'[d] + 1 \in 1 .. n - 1
        /\ pollfds'[index'[d] + 1] = pollfds[index[d] + 1]
  <2> TAKE d \in Registered \ {c}
  <2>0. /\ index[d] \in Int /\ index[d] + 1 \in 1 .. n
        /\ index[d] # index[c] /\ k = index[c] + 1
    BY <1>3
  <2> HIDE DEF n, k
  <2>1. index'[d] = IF index[d] + 1 = n THEN index[c] ELSE index[d]
    BY <1>1, RemovedSlots DEF n
  <2>4. \A i \in 1 .. n - 1 :
          pollfds'[i] = IF i = k THEN pollfds[n] ELSE pollfds[i]
    BY <1>1, RemovedSlots DEF n, k
  <2>2. CASE index[d] + 1 = n
    <3>1. k \in 1 .. n - 1 /\ index'[d] + 1 = k
      BY <1>2, <2>0, <2>1, <2>2
    <3> QED BY <2>2, <2>4, <3>1
  <2>3. CASE index[d] + 1 # n
    <3>1. /\ index'[d] = index[d]
          /\ index[d] + 1 \in 1 .. n - 1 /\ index[d] + 1 # k
      BY <1>2, <2>0, <2>1, <2>3
    <3> QED BY <2>4, <3>1
  <2> QED BY <2>2, <2>3
<1> QED BY <1>2, <1>4, <1>5, <1>6, <1>7

(* Removing a channel preserves the invariant. *)
LEMMA RemoveChannelIInv ==
  ASSUME IInv, NEW c \in Channels, RemoveChannel(c)
  PROVE  IInv'
<1> DEFINE n == Len(pollfds)
           k == index[c] + 1
<1>1. /\ c \in Registered /\ (RemoveLast(c) \/ RemoveBySwap(c))
      /\ UNCHANGED <<pc, live, events, activeChannels, calls>>
      /\ pc = "functors"
  BY DEF RemoveChannel
<1>2. /\ k \in 1 .. n /\ n \in Nat /\ index[c] \in Int
      /\ channels[FdOf[c]] = c
  BY <1>1, RegisteredFacts DEF IInv
<1>4. /\ DOMAIN channels' = DOMAIN channels \ {FdOf[c]}
      /\ \A f \in DOMAIN channels' : channels'[f] = channels[f]
  BY RemovedChannel
<1>5. \A f \in DOMAIN channels' :
        channels[f] \in Registered \ {c} /\ FdOf[channels[f]] = f
  BY RemovedChannel
<1>6. Registered' = Registered \ {c}
  BY RemovedChannel
<1>7. \A d \in Registered \ {c} :
        /\ index'[d] + 1 \in 1 .. n - 1
        /\ pollfds'[index'[d] + 1] = pollfds[index[d] + 1]
  BY RemovedChannel
<1>3. silenced' = silenced \ {c}
  BY DEF RemoveChannel
<1>8. TypeOK'
  <2>1. DOMAIN channels' \subseteq Fds /\ Registered' \subseteq live
    BY <1>4, <1>6 DEF IInv, TypeOK
  <2>2. silenced' \subseteq Registered'
    BY <1>3, <1>6 DEF IInv, TypeOK
  <2> QED BY <1>1, <2>1, <2>2, RemovedSlots DEF IInv, TypeOK
<1>9. OneLivePerFd'
  BY <1>1 DEF IInv, OneLivePerFd
<1>10. PolledAsAsked'
  <2>1. ASSUME NEW d \in Registered \ {c}
        PROVE  /\ Slot(d)' = Slot(d) /\ events'[d] = events[d]
               /\ d \in silenced' <=> d \in silenced
    BY <1>1, <1>3, <1>7 DEF Slot
  <2> QED BY <1>6, <2>1 DEF IInv, PolledAsAsked
<1>11. DispatchValid'
  BY <1>1 DEF IInv, TypeOK, DispatchValid
<1>12. IndexCoherent'
  <2>1. ASSUME NEW f \in DOMAIN channels'
        PROVE  /\ FdOf[channels'[f]] = f
               /\ index'[channels'[f]] + 1 \in 1 .. Len(pollfds')
               /\ Decode(pollfds'[index'[channels'[f]] + 1].fd) = f
    <3>1. Decode(pollfds[index[channels[f]] + 1].fd) = f
      BY <1>4 DEF IInv, IndexCoherent
    <3>2. Len(pollfds') = n - 1
      BY <1>1, RemovedSlots
    <3> QED BY <1>4, <1>5, <1>7, <3>1, <3>2
  <2>2. ASSUME NEW i \in 1 .. Len(pollfds')
        PROVE  /\ Decode(pollfds'[i].fd) \in DOMAIN channels'
               /\ index'[channels'[Decode(pollfds'[i].fd)]] = i - 1
    <3> DEFINE j == IF i = k THEN n ELSE i
               f == Decode(pollfds[j].fd)
    <3>1. i \in 1 .. n - 1 /\ pollfds'[i] = pollfds[j]
      BY <1>1, RemovedSlots
    <3>2. j \in 1 .. n /\ j # k
      BY <1>2, <3>1
    <3>3. f \in DOMAIN channels /\ index[channels[f]] = j - 1
      BY <3>2 DEF IInv, IndexCoherent
    <3>4. f # FdOf[c]
      BY <1>2, <3>2, <3>3
    <3>5. channels[f] \in Registered \ {c}
      BY <1>4, <1>5, <3>3, <3>4
    <3>6. index'[channels[f]] = IF j = n THEN index[c] ELSE j - 1
      <4>1. index'[channels[f]] =
              IF index[channels[f]] + 1 = n THEN index[c] ELSE index[channels[f]]
        BY <1>1, <3>5, RemovedSlots
      <4> QED BY <1>2, <3>2, <3>3, <4>1
    <3>7. index'[channels[f]] = i - 1
      BY <1>2, <3>1, <3>6
    <3> QED BY <1>4, <3>1, <3>3, <3>4, <3>7
  <2> QED BY <2>1, <2>2 DEF IndexCoherent
<1> QED BY <1>8, <1>9, <1>10, <1>11, <1>12 DEF IInv

------------------------------------------------------------------------------
(* The turn of the loop.                                                   *)

(* What fillActiveChannels lists are registered channels: the find() in    *)
(* channels_ succeeds for every slot that is not muted. *)
LEMMA PollIInv == IInv /\ Poll => IInv'
<1> SUFFICES ASSUME IInv, Poll
             PROVE  IInv'
  OBVIOUS
<1> DEFINE Entry == [channel : Channels, revents : Reports]
<1>0. PICK n \in 0 .. Len(pollfds) :
        \E at \in [1 .. n -> 1 .. Len(pollfds)], rep \in [1 .. n -> Reports] :
          /\ \A k \in 1 .. n : rep[k] \in MayReport(pollfds[at[k]])
          /\ activeChannels' = [k \in 1 .. n |->
                                  [channel |-> channels[pollfds[at[k]].fd],
                                   revents |-> rep[k]]]
  BY DEF Poll
<1>1. PICK at \in [1 .. n -> 1 .. Len(pollfds)], rep \in [1 .. n -> Reports] :
        /\ \A k \in 1 .. n : rep[k] \in MayReport(pollfds[at[k]])
        /\ activeChannels' = [k \in 1 .. n |->
                                [channel |-> channels[pollfds[at[k]].fd],
                                 revents |-> rep[k]]]
  BY <1>0
<1>2. UNCHANGED <<live, index, events, pollfds, channels, calls, silenced>>
      /\ pc = "functors" /\ pc' = "dispatch" /\ Registered' = Registered
  BY DEF Poll, Registered
<1>3. pollfds \in Seq([fd : Int, events : Interests]) /\ n \in Nat
  BY DEF IInv, TypeOK
<1>4. ASSUME NEW k \in 1 .. n
      PROVE  /\ activeChannels'[k] \in Entry
             /\ activeChannels'[k].channel \in Registered
  <2>1. at[k] \in 1 .. Len(pollfds) /\ pollfds[at[k]].fd >= 0
    BY <1>1 DEF MayReport
  <2>2. pollfds[at[k]].fd \in Int
    <3>1. pollfds[at[k]] \in [fd : Int, events : Interests]
      BY <1>3, <2>1, ElementOfSeq
    <3> QED BY <3>1
  <2>3. pollfds[at[k]].fd \in DOMAIN channels
    BY <2>1, <2>2, DecodeUnmuted DEF IInv, IndexCoherent
  <2>4. channels[pollfds[at[k]].fd] \in Registered
    BY <2>3 DEF Registered
  <2>5. channels[pollfds[at[k]].fd] \in Channels
    BY <2>4 DEF IInv, TypeOK
  <2> QED BY <1>1, <2>4, <2>5
<1>5. DOMAIN activeChannels' = 1 .. n
  BY <1>1
<1>6. activeChannels' \in Seq(Entry)
  <2>1. activeChannels' \in [1 .. n -> Entry]
    BY <1>1, <1>4
  <2> HIDE DEF Entry
  <2> QED BY <1>3, <2>1, SeqDef
<1>7. TypeOK'
  <2>1. calls = <<>>
    BY <1>2 DEF IInv, TypeOK
  <2> QED BY <1>2, <1>6, <2>1 DEF IInv, TypeOK
<1>8. OneLivePerFd' /\ IndexCoherent' /\ PolledAsAsked'
  BY <1>2 DEF IInv, OneLivePerFd, IndexCoherent, PolledAsAsked, Slot
<1>9. DispatchValid'
  BY <1>2, <1>4, <1>5 DEF DispatchValid
<1> QED BY <1>7, <1>8, <1>9 DEF IInv

(* handleEvent calls something: every report wants one callback at least. *)
LEMMA SomethingWanted ==
  ASSUME NEW r \in Reports
  PROVE  \E cb \in Callbacks : Wanted(cb, r)
<1>1. r \subseteq Flags /\ r # {}
  BY PollerAssumption
<1> QED BY <1>1 DEF Flags, Callbacks, Wanted

(* Starting to dispatch a channel preserves the invariant. *)
LEMMA HandleEventIInv == IInv /\ HandleEvent => IInv'
<1> SUFFICES ASSUME IInv, HandleEvent
             PROVE  IInv'
  OBVIOUS
<1> DEFINE r == Head(activeChannels).revents
<1>1. r \in Reports /\ activeChannels # <<>>
  <2>1. Head(activeChannels) \in [channel : Channels, revents : Reports]
    BY HeadTailProperties DEF HandleEvent, IInv, TypeOK
  <2> QED BY <2>1 DEF HandleEvent
<1>2. calls' \in Seq(Callbacks) /\ calls' # <<>>
  <2> DEFINE a == IfWanted("close", r)
             b == IfWanted("error", r)
             c == IfWanted("read", r)
             d == IfWanted("write", r)
  <2>1. /\ a \in Seq(Callbacks) /\ b \in Seq(Callbacks)
        /\ c \in Seq(Callbacks) /\ d \in Seq(Callbacks)
    <3>1. ASSUME NEW cb \in Callbacks
          PROVE  IfWanted(cb, r) \in Seq(Callbacks)
      <4> HIDE DEF r
      <4>1. <<>> \in Seq(Callbacks) /\ <<cb>> \in Seq(Callbacks)
        OBVIOUS
      <4> QED BY <4>1 DEF IfWanted
    <3> QED BY <3>1 DEF Callbacks
  <2>2. a # <<>> \/ b # <<>> \/ c # <<>> \/ d # <<>>
    BY <1>1, SomethingWanted DEF IfWanted, Callbacks
  <2>3. calls' = a \o b \o c \o d
    BY DEF HandleEvent
  <2> HIDE DEF a, b, c, d
  <2>4. a \o b \in Seq(Callbacks) /\ (a \o b) \o c \in Seq(Callbacks)
    BY <2>1
  <2>5. /\ a \o b = <<>> => a = <<>> /\ b = <<>>
        /\ (a \o b) \o c = <<>> => a \o b = <<>> /\ c = <<>>
        /\ ((a \o b) \o c) \o d = <<>> => (a \o b) \o c = <<>> /\ d = <<>>
    BY <2>1, <2>4, ConcatEqualIffEmpty
  <2>6. ((a \o b) \o c) \o d \in Seq(Callbacks)
    BY <2>1, <2>4
  <2> QED BY <2>2, <2>3, <2>5, <2>6
<1>3. TypeOK'
  BY <1>1, <1>2 DEF HandleEvent, IInv, TypeOK, Registered
<1>4. OneLivePerFd' /\ IndexCoherent' /\ DispatchValid'
  BY DEF HandleEvent, IInv, OneLivePerFd, IndexCoherent, DispatchValid,
         Registered
<1>5. PolledAsAsked'
  BY DEF HandleEvent, IInv, PolledAsAsked, Slot, Registered
<1> QED BY <1>3, <1>4, <1>5 DEF IInv

(* So does the return of a callback. *)
LEMMA CallbackReturnsIInv == IInv /\ CallbackReturns => IInv'
<1> SUFFICES ASSUME IInv, CallbackReturns
             PROVE  IInv'
  OBVIOUS
<1> DEFINE Entry == [channel : Channels, revents : Reports]
<1>1. /\ activeChannels \in Seq(Entry) /\ activeChannels # <<>>
      /\ calls' \in Seq(Callbacks)
      /\ UNCHANGED <<live, index, events, pollfds, channels, silenced>>
      /\ Registered' = Registered /\ pc = "callback"
  BY HeadTailProperties DEF CallbackReturns, IInv, TypeOK, Registered
<1>2. CASE calls' = <<>>
  <2>1. activeChannels' = Tail(activeChannels) /\ pc' = "dispatch"
    BY <1>2 DEF CallbackReturns
  <2>2. /\ activeChannels' \in Seq(Entry)
        /\ Len(activeChannels') = Len(activeChannels) - 1
        /\ \A i \in 1 .. Len(activeChannels') :
             activeChannels'[i] = activeChannels[i + 1]
    <3> HIDE DEF Entry
    <3> QED BY <1>1, <2>1, HeadTailProperties
  <2>3. \A i \in DOMAIN activeChannels' : i + 1 \in DOMAIN activeChannels
    BY <1>1, <2>2
  <2>4. DispatchValid'
    <3>1. ASSUME NEW i \in DOMAIN activeChannels'
          PROVE  activeChannels'[i].channel \in Registered
      <4>1. activeChannels'[i] = activeChannels[i + 1]
        BY <2>2
      <4> QED BY <2>3, <4>1 DEF IInv, DispatchValid
    <3> QED BY <1>1, <3>1 DEF DispatchValid
  <2>5. TypeOK'
    <3>1. TypeOK
      BY DEF IInv
    <3> QED BY <1>1, <1>2, <2>1, <2>2, <3>1 DEF TypeOK
  <2>6. /\ UNCHANGED <<pollfds, channels, live, events, index, silenced>>
        /\ Registered' = Registered
    BY <1>1
  <2>7. OneLivePerFd' /\ IndexCoherent' /\ PolledAsAsked'
    BY <2>6 DEF IInv, OneLivePerFd, IndexCoherent, PolledAsAsked, Slot
  <2> QED BY <2>4, <2>5, <2>7 DEF IInv
<1>3. CASE calls' # <<>>
  <2>1. TypeOK' /\ OneLivePerFd'
    BY <1>1, <1>3 DEF CallbackReturns, IInv, TypeOK, OneLivePerFd
  <2>2. IndexCoherent' /\ PolledAsAsked'
    BY <1>1, <1>3
       DEF CallbackReturns, IInv, IndexCoherent, PolledAsAsked, Slot
  <2>3. DispatchValid'
    BY <1>1, <1>3 DEF CallbackReturns, IInv, DispatchValid
  <2> QED BY <2>1, <2>2, <2>3 DEF IInv
<1> QED BY <1>2, <1>3

(* And the end of the list. *)
LEMMA DispatchDoneIInv == IInv /\ DispatchDone => IInv'
<1> SUFFICES ASSUME IInv, DispatchDone PROVE IInv'
  OBVIOUS
<1>1. TypeOK' /\ OneLivePerFd'
  BY DEF DispatchDone, IInv, TypeOK, OneLivePerFd, Registered
<1>2. IndexCoherent'
  BY DEF DispatchDone, IInv, IndexCoherent
<1>3. PolledAsAsked'
  BY DEF DispatchDone, IInv, PolledAsAsked, Slot, Registered
<1>4. DispatchValid'
  BY DEF DispatchDone, IInv, DispatchValid, Registered
<1> QED BY <1>1, <1>2, <1>3, <1>4 DEF IInv

------------------------------------------------------------------------------
(* IInv is an invariant of every execution. *)
LEMMA Invariance == Spec => []IInv
<1>1. ASSUME IInv, [Next]_vars
      PROVE  IInv'
  <2>1. CASE UNCHANGED vars
    <3>1. TypeOK' /\ OneLivePerFd'
      BY <1>1, <2>1 DEF vars, IInv, TypeOK, OneLivePerFd, Registered
    <3>2. IndexCoherent'
      BY <1>1, <2>1 DEF vars, IInv, IndexCoherent
    <3>3. PolledAsAsked'
      BY <1>1, <2>1 DEF vars, IInv, PolledAsAsked, Slot, Registered
    <3>4. DispatchValid'
      BY <1>1, <2>1 DEF vars, IInv, DispatchValid, Registered
    <3> QED BY <3>1, <3>2, <3>3, <3>4 DEF IInv
  <2> QED BY <1>1, <2>1, ConstructIInv, DestroyIInv, SetEventsIInv,
             RemoveChannelIInv, PollIInv, HandleEventIInv,
             CallbackReturnsIInv, DispatchDoneIInv DEF Next
<1> QED BY InitIInv, <1>1, PTL DEF Spec

(* The variables keep their types. *)
THEOREM TypeCorrect == Spec => []TypeOK
<1>1. IInv => TypeOK
  BY DEF IInv
<1> QED BY Invariance, <1>1, PTL

(* index_, pollfds_ and channels_ agree however channels come and go. *)
THEOREM IndexStaysCoherent == Spec => []IndexCoherent
<1>1. IInv => IndexCoherent
  BY DEF IInv
<1> QED BY Invariance, <1>1, PTL

(* The slot of every channel has the events of its last update, and its    *)
(* descriptor, muted from its first later update that asked for nothing on, *)
(* for good. *)
THEOREM PollsAsAsked == Spec => []PolledAsAsked
<1>1. IInv => PolledAsAsked
  BY DEF IInv
<1> QED BY Invariance, <1>1, PTL

(* loop() never calls handleEvent on a channel that was removed. *)
THEOREM DispatchIsValid == Spec => []DispatchValid
<1>1. IInv => DispatchValid
  BY DEF IInv
<1> QED BY Invariance, <1>1, PTL

------------------------------------------------------------------------------
(* Poller implements InterestMap.                                          *)

(* What Poller.tla substitutes for the map. *)
Watched == [f \in DOMAIN channels |->
              [events |-> Slot(channels[f]).events,
               muted |-> Slot(channels[f]).fd < 0]]

(* A first update is an Add. *)
LEMMA AddSlotIM ==
  ASSUME IInv, NEW c \in live, NEW ev \in Interests, index[c] < 0,
         AddSlot(c, ev), events' = [events EXCEPT ![c] = ev]
  PROVE  IM!Add(FdOf[c], ev)
<1> DEFINE f == FdOf[c]
<1>1. f \notin DOMAIN Watched /\ DOMAIN Watched' = DOMAIN Watched \cup {f}
  BY AddedSlot DEF Watched
<1>2. Watched'[f] = IM!Watch(ev)
  <2>1. /\ channels'[f] = c /\ f \in DOMAIN channels' /\ f \in Nat
        /\ pollfds'[index'[c] + 1] = [fd |-> f, events |-> ev]
    BY AddedSlot
  <2>2. (f < 0) = FALSE
    BY <2>1
  <2>3. Watched'[f] = [events |-> ev, muted |-> f < 0]
    BY <2>1 DEF Watched, Slot
  <2> QED BY <2>2, <2>3 DEF IM!Watch
<1>3. ASSUME NEW g \in DOMAIN Watched
      PROVE  Watched'[g] = Watched[g]
  <2>1. /\ g \in DOMAIN channels' /\ channels'[g] = channels[g]
        /\ channels[g] \in Registered
    BY AddedSlot DEF Watched, Registered
  <2>2. pollfds'[index'[channels[g]] + 1] = pollfds[index[channels[g]] + 1]
    BY <2>1, AddedSlot
  <2> QED BY <2>1, <2>2 DEF Watched, Slot
<1>4. Watched' = [g \in DOMAIN Watched' |-> Watched'[g]]
  BY DEF Watched
<1>5. Watched' = [g \in DOMAIN Watched \cup {f} |->
                    IF g = f THEN IM!Watch(ev) ELSE Watched[g]]
  BY <1>1, <1>2, <1>3, <1>4
<1> QED BY <1>1, <1>5 DEF IM!Add, Watched

(* A later update is a Change. *)
LEMMA ChangeSlotIM ==
  ASSUME IInv, NEW c \in Registered, NEW ev \in Interests,
         ChangeSlot(c, ev), events' = [events EXCEPT ![c] = ev]
  PROVE  IM!Change(FdOf[c], ev)
<1> DEFINE f == FdOf[c]
           new == [events |-> ev, muted |-> Watched[f].muted \/ ev = {}]
<1>1. f \in DOMAIN channels /\ channels[f] = c /\ channels' = channels
      /\ index' = index
  BY RegisteredFacts, ChangedSlot DEF IInv
<1>2. Watched'[f] = new
  <2>1. /\ pollfds'[index[c] + 1].events = ev
        /\ pollfds'[index[c] + 1].fd < 0
             <=> pollfds[index[c] + 1].fd < 0 \/ ev = {}
    <3>1. pollfds'[index[c] + 1] = [fd |-> IF ev = {} THEN Muted(FdOf[c])
                                             ELSE pollfds[index[c] + 1].fd,
                                    events |-> ev]
      BY ChangedSlot
    <3>2. pollfds'[index[c] + 1].fd < 0
             <=> pollfds[index[c] + 1].fd < 0 \/ ev = {}
      BY ChangedSlot
    <3> QED BY <3>1, <3>2
  <2>2. Watched'[f] = [events |-> ev, muted |-> pollfds'[index[c] + 1].fd < 0]
    BY <1>1, <2>1 DEF Watched, Slot
  <2>3. Watched[f].muted = (pollfds[index[c] + 1].fd < 0)
    BY <1>1 DEF Watched, Slot
  <2>4. (pollfds'[index[c] + 1].fd < 0) = (Watched[f].muted \/ ev = {})
    <3>1. CASE pollfds'[index[c] + 1].fd < 0
      <4>1. (pollfds'[index[c] + 1].fd < 0) = TRUE
        BY <3>1
      <4>2. (Watched[f].muted \/ ev = {}) = TRUE
        BY <2>1, <2>3, <3>1
      <4> QED BY <4>1, <4>2
    <3>2. CASE ~(pollfds'[index[c] + 1].fd < 0)
      <4>1. (pollfds'[index[c] + 1].fd < 0) = FALSE
        BY <3>2
      <4>2. (Watched[f].muted \/ ev = {}) = FALSE
        BY <2>1, <2>3, <3>2
      <4> QED BY <4>1, <4>2
    <3> QED BY <3>1, <3>2
  <2> QED BY <2>2, <2>4
<1>3. ASSUME NEW g \in DOMAIN channels, g # f
      PROVE  Watched'[g] = Watched[g]
  <2>1. channels[g] \in Registered \ {c}
    BY <1>3 DEF Registered, IInv, IndexCoherent
  <2>2. pollfds'[index[channels[g]] + 1] = pollfds[index[channels[g]] + 1]
    BY <2>1, ChangedSlot
  <2> QED BY <1>1, <2>2 DEF Watched, Slot
<1>4. Watched' = [Watched EXCEPT ![f] = new]
  <2>1. /\ DOMAIN Watched' = DOMAIN channels
        /\ Watched' = [g \in DOMAIN channels |-> Watched'[g]]
        /\ DOMAIN Watched = DOMAIN channels
    BY <1>1 DEF Watched
  <2> HIDE DEF new
  <2> QED BY <1>1, <1>2, <1>3, <2>1
<1> QED BY <1>1, <1>4 DEF IM!Change, Watched

(* removeChannel is a Drop. *)
LEMMA RemoveChannelIM ==
  ASSUME IInv, NEW c \in Channels, RemoveChannel(c)
  PROVE  IM!Drop(FdOf[c])
<1> DEFINE f == FdOf[c]
<1>1. f \in DOMAIN channels /\ DOMAIN channels' = DOMAIN channels \ {f}
  BY RemovedChannel
<1>2. ASSUME NEW g \in DOMAIN channels \ {f}
      PROVE  Watched'[g] = Watched[g]
  <2>1. channels'[g] = channels[g] /\ channels[g] \in Registered \ {c}
    BY <1>1, RemovedChannel
  <2>2. pollfds'[index'[channels[g]] + 1] = pollfds[index[channels[g]] + 1]
    BY <2>1, RemovedChannel
  <2> QED BY <1>1, <2>1, <2>2 DEF Watched, Slot
<1>3. Watched' = [g \in DOMAIN Watched \ {f} |-> Watched[g]]
  <2>1. /\ DOMAIN Watched' = DOMAIN Watched \ {f}
        /\ DOMAIN Watched = DOMAIN channels
        /\ Watched' = [g \in DOMAIN Watched' |-> Watched'[g]]
    BY <1>1 DEF Watched
  <2> QED BY <1>2, <2>1
<1> QED BY <1>1, <1>3 DEF IM!Drop, Watched

(* Whatever is swapped, an update or a removal affects what is polled for  *)
(* its own descriptor only, and a muted descriptor stays muted. *)
THEOREM ImplementsInterestMap == Spec => ActsAsMap
<1>1. Init => IM!IMInit
  BY DEF Init, IM!IMInit
<1>2. ASSUME IInv, [Next]_vars
      PROVE  [IM!IMNext]_Watched
  <2> USE <1>2
  <2>1. ASSUME NEW c \in Channels, SetEvents(c)
        PROVE  IM!IMNext
    <3>1. PICK ev \in NewInterests(c) :
            events' = [events EXCEPT ![c] = ev] /\ UpdateChannel(c, ev)
      BY <2>1 DEF SetEvents
    <3>2. ev \in Interests
      BY <3>1 DEF NewInterests, Interests, IInv, TypeOK
    <3>3. c \in live /\ (index[c] < 0 \/ c \in Registered) /\ FdOf[c] \in Fds
      BY <2>1 DEF SetEvents, Usable, Fds
    <3>4. CASE index[c] < 0
      BY <3>1, <3>2, <3>3, <3>4, AddSlotIM DEF UpdateChannel, IM!IMNext
    <3>5. CASE ~(index[c] < 0)
      BY <3>1, <3>2, <3>3, <3>5, ChangeSlotIM DEF UpdateChannel, IM!IMNext
    <3> QED BY <3>4, <3>5
  <2>2. ASSUME NEW c \in Channels, RemoveChannel(c)
        PROVE  IM!IMNext
    <3>1. FdOf[c] \in Fds
      BY DEF Fds
    <3> QED BY <2>2, <3>1, RemoveChannelIM DEF IM!IMNext
  <2>3. ASSUME UNCHANGED <<pollfds, channels, index>>
        PROVE  UNCHANGED Watched
    BY <2>3 DEF Watched, Slot
  <2>4. ASSUME NEW c \in Channels, Destroy(c)
        PROVE  UNCHANGED Watched
    <3>1. \A f \in DOMAIN channels :
            channels[f] \in Channels /\ index'[channels[f]] = index[channels[f]]
      BY <2>4 DEF Destroy, IInv, TypeOK, Registered
    <3> QED BY <2>4, <3>1 DEF Destroy, Watched, Slot
  <2>5. ASSUME NEW c \in Channels, Construct(c)
        PROVE  UNCHANGED Watched
    BY <2>3, <2>5 DEF Construct
  <2>6. CASE Poll \/ HandleEvent \/ CallbackReturns \/ DispatchDone
    BY <2>3, <2>6 DEF Poll, HandleEvent, CallbackReturns, DispatchDone
  <2>7. CASE UNCHANGED vars
    BY <2>3, <2>7 DEF vars
  <2> QED BY <2>1, <2>2, <2>4, <2>5, <2>6, <2>7 DEF Next
<1>3. ASSUME IInv, [Next]_vars
      PROVE  [IM!IMNext]_([f \in DOMAIN channels |->
                             [events |-> Slot(channels[f]).events,
                              muted |-> Slot(channels[f]).fd < 0]])
  BY <1>2, <1>3 DEF Watched
<1> QED BY Invariance, <1>1, <1>3, PTL DEF Spec, ActsAsMap, IM!IMSpec
==============================================================================
