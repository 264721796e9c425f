-------------------------------- MODULE Poller --------------------------------
(***************************************************************************)
(* log/Poller.cc with log/Channel.cc: the channels of one loop, the vector *)
(* pollfds_ handed to ::poll and the map channels_ from descriptors to     *)
(* channels, which index_ keeps in step.  Everything happens in the loop   *)
(* thread, so an operation is one step; what is interleaved is the turn of *)
(* the loop with what handlers and functors do to any channel while the    *)
(* list of active channels is being gone through.                          *)
(*                                                                         *)
(* A channel object exists from its constructor to its destructor; a       *)
(* descriptor may later belong to another object.  Channels are updated    *)
(* from anywhere but removed only by a functor: TcpServer queues           *)
(* TcpConnection::connectDestroyed, the only caller, with queueInLoop.     *)
(* After removeChannel the object is only destroyed; it is destroyed only  *)
(* when it is not registered.                                              *)
(*                                                                         *)
(* Abstract: an object's revents_ is kept with its entry in activeChannels *)
(* (it is written by fillActiveChannels and read in the same turn);        *)
(* POLLNVAL is kept as "ERR"; POLLRDHUP is never asked for.                *)
(***************************************************************************)
EXTENDS Integers, Sequences

CONSTANTS
  Channels,    \* the channel objects
  FdOf,        \* fd_, the descriptor each is constructed with
  Reports      \* the sets of flags ::poll may report for a descriptor

Fds == {FdOf[c] : c \in Channels}
Interests == SUBSET {"read", "write"}
Flags == {"IN", "PRI", "OUT", "HUP", "ERR"}
Callbacks == {"close", "error", "read", "write"}

ASSUME PollerAssumption ==
  /\ FdOf \in [Channels -> Nat]
  /\ Reports \subseteq (SUBSET Flags) \ {{}}

VARIABLES
  pc,                      \* "functors", "dispatch" or "callback"
  live,                    \* the channel objects that exist
  index,                   \* index_ of every object
  events,                  \* events_ of every object
  pollfds,                 \* pollfds_; position i+1 is pollfds_[i]
  channels,                \* channels_: descriptor -> channel object
  activeChannels,          \* what is left of activeChannels_, with revents_
  calls,                   \* callbacks handleEvent has still to make
  silenced                 \* history: registered channels that asked for
                           \* nothing in some update after their first

vars == <<pc, live, index, events, pollfds, channels, activeChannels, calls,
          silenced>>

InUserCode == pc \in {"functors", "callback"}

Registered == {channels[f] : f \in DOMAIN channels}

(* A live object that is registered or was never registered. *)
Usable(c) == c \in live /\ (index[c] < 0 \/ c \in Registered)

(* The descriptor slot p is about, muted or not. *)
Muted(f) == -f - 1
Decode(n) == IF n < 0 THEN -n - 1 ELSE n

Init ==
  /\ pc = "functors"
  /\ live = {}
  /\ index = [c \in Channels |-> -1]
  /\ events = [c \in Channels |-> {}]
  /\ pollfds = <<>>
  /\ channels = [f \in {} |-> CHOOSE c \in Channels : TRUE]
  /\ activeChannels = <<>>
  /\ calls = <<>>
  /\ silenced = {}

------------------------------------------------------------------------------
(* What user code does to channels.                                        *)

(* Channel::Channel; the fields have their first values while the object   *)
(* does not exist. *)
Construct(c) ==
  /\ InUserCode
  /\ \A d \in live : FdOf[d] # FdOf[c]
  /\ live' = live \cup {c}
  /\ UNCHANGED <<pc, index, events, pollfds, channels, activeChannels, calls,
                 silenced>>

Destroy(c) ==
  /\ InUserCode
  /\ c \in live \ Registered
  /\ live' = live \ {c}
  /\ index' = [index EXCEPT ![c] = -1]
  /\ events' = [events EXCEPT ![c] = {}]
  /\ UNCHANGED <<pc, pollfds, channels, activeChannels, calls, silenced>>

(* updateChannel of a channel with a negative index: push_back. *)
AddSlot(c, ev) ==
  /\ pollfds' = Append(pollfds, [fd |-> FdOf[c], events |-> ev])
  /\ index' = [index EXCEPT ![c] = Len(pollfds)]
  /\ channels' = [f \in DOMAIN channels \cup {FdOf[c]} |->
                    IF f = FdOf[c] THEN c ELSE channels[f]]

(* Faults in ChangeSlot: the slot of a disabled channel is not muted, or    *)
(* keeps the events of before. *)
ChangeSlotNoMute(c, ev) ==
  /\ pollfds' = [pollfds EXCEPT ![index[c] + 1].events = ev]
  /\ UNCHANGED <<index, channels>>
ChangeSlotMuteOnly(c, ev) ==
  /\ pollfds' = [pollfds EXCEPT ![index[c] + 1] =
       IF ev = {} THEN [@ EXCEPT !.fd = Muted(FdOf[c])]
                  ELSE [@ EXCEPT !.events = ev]]
  /\ UNCHANGED <<index, channels>>

(* updateChannel of a channel that has a slot; fd is not set back. *)
ChangeSlot(c, ev) ==
  /\ pollfds' = [pollfds EXCEPT ![index[c] + 1] =
       [fd |-> IF ev = {} THEN Muted(FdOf[c]) ELSE pollfds[index[c] + 1].fd,
        events |-> ev]]
  /\ UNCHANGED <<index, channels>>

UpdateChannel(c, ev) ==
  IF index[c] < 0 THEN AddSlot(c, ev) ELSE ChangeSlot(c, ev)

(* enableReading, enableWriting, disableWriting, disableAll and update. *)
NewInterests(c) ==
  {events[c] \cup {"read"}, events[c] \cup {"write"}, events[c] \ {"write"}, {}}

SetEvents(c) ==
  /\ InUserCode
  /\ Usable(c)
  /\ \E ev \in NewInterests(c) :
       /\ events' = [events EXCEPT ![c] = ev]
       /\ UpdateChannel(c, ev)
       /\ silenced' = IF index[c] >= 0 /\ ev = {} THEN silenced \cup {c}
                                                ELSE silenced
  /\ UNCHANGED <<pc, live, activeChannels, calls>>

(* The slot of c is the last one: pop_back. *)
RemoveLast(c) ==
  /\ index[c] + 1 = Len(pollfds)
  /\ pollfds' = SubSeq(pollfds, 1, Len(pollfds) - 1)
  /\ UNCHANGED index

(* Fault in RemoveBySwap: the channel of the last slot is not told. *)
RemoveBySwapUntold(c) ==
  /\ index[c] + 1 # Len(pollfds)
  /\ pollfds' = SubSeq([pollfds EXCEPT ![index[c] + 1] = pollfds[Len(pollfds)]],
                       1, Len(pollfds) - 1)
  /\ UNCHANGED index

(* The last slot takes its place, and the channel of that slot is told. *)
RemoveBySwap(c) ==
  /\ index[c] + 1 # Len(pollfds)
  /\ LET last == pollfds[Len(pollfds)]
         moved == channels[Decode(last.fd)]
     IN /\ pollfds' = SubSeq([pollfds EXCEPT ![index[c] + 1] = last],
                             1, Len(pollfds) - 1)
        /\ index' = [index EXCEPT ![moved] = index[c]]

(* Fault in RemoveChannel: it may be called by a handler. *)
RemoveChannelAnywhere(c) ==
  /\ InUserCode
  /\ c \in Registered
  /\ channels' = [f \in DOMAIN channels \ {FdOf[c]} |-> channels[f]]
  /\ RemoveLast(c) \/ RemoveBySwap(c)
  /\ silenced' = silenced \ {c}
  /\ UNCHANGED <<pc, live, events, activeChannels, calls>>

RemoveChannel(c) ==
  /\ pc = "functors"
  /\ c \in Registered
  /\ channels' = [f \in DOMAIN channels \ {FdOf[c]} |-> channels[f]]
  /\ RemoveLast(c) \/ RemoveBySwap(c)
  /\ silenced' = silenced \ {c}
  /\ UNCHANGED <<pc, live, events, activeChannels, calls>>

------------------------------------------------------------------------------
(* The turn of the loop.                                                   *)

(* What ::poll may report for a slot: nothing for a muted one, and only    *)
(* what was asked for, a hang-up or an error.                              *)
MayReport(slot) ==
  {r \in Reports :
     /\ slot.fd >= 0
     /\ r \cap {"IN", "PRI"} # {} => "read" \in slot.events
     /\ "OUT" \in r => "write" \in slot.events}

(* The functors are done; ::poll reports flags for n of the slots, and     *)
(* fillActiveChannels lists their channels in the order of the slots.      *)
Poll ==
  /\ pc = "functors"
  /\ \E n \in 0 .. Len(pollfds) :
     \E at \in [1 .. n -> 1 .. Len(pollfds)], rep \in [1 .. n -> Reports] :
       /\ \A j, k \in 1 .. n : j < k => at[j] < at[k]
       /\ \A k \in 1 .. n : rep[k] \in MayReport(pollfds[at[k]])
       /\ activeChannels' = [k \in 1 .. n |->
                               [channel |-> channels[pollfds[at[k]].fd],
                                revents |-> rep[k]]]
  /\ pc' = "dispatch"
  /\ UNCHANGED <<live, index, events, pollfds, channels, calls, silenced>>

(* The tests of Channel::handleEvent on revents_. *)
Wanted(cb, r) ==
  \/ cb = "close" /\ "HUP" \in r /\ "IN" \notin r
  \/ cb = "error" /\ "ERR" \in r
  \/ cb = "read" /\ r \cap {"IN", "PRI"} # {}
  \/ cb = "write" /\ "OUT" \in r

IfWanted(cb, r) == IF Wanted(cb, r) THEN <<cb>> ELSE <<>>

HandleEvent ==
  /\ pc = "dispatch"
  /\ activeChannels # <<>>
  /\ LET r == Head(activeChannels).revents
     IN calls' = IfWanted("close", r) \o IfWanted("error", r)
                   \o IfWanted("read", r) \o IfWanted("write", r)
  /\ pc' = "callback"
  /\ UNCHANGED <<live, index, events, pollfds, channels, activeChannels, silenced>>

(* A callback returns; after the last one the next channel is dispatched. *)
CallbackReturns ==
  /\ pc = "callback"
  /\ calls' = Tail(calls)
  /\ IF calls' = <<>>
       THEN activeChannels' = Tail(activeChannels) /\ pc' = "dispatch"
       ELSE UNCHANGED <<activeChannels, pc>>
  /\ UNCHANGED <<live, index, events, pollfds, channels, silenced>>

DispatchDone ==
  /\ pc = "dispatch"
  /\ activeChannels = <<>>
  /\ pc' = "functors"
  /\ UNCHANGED <<live, index, events, pollfds, channels, activeChannels, calls,
                 silenced>>

Next ==
  \/ \E c \in Channels :
       Construct(c) \/ Destroy(c) \/ SetEvents(c) \/ RemoveChannel(c)
  \/ Poll \/ HandleEvent \/ CallbackReturns \/ DispatchDone

Spec == Init /\ [][Next]_vars

------------------------------------------------------------------------------
(* Types, and what the control point says of the list of active channels:  *)
(* handleEvent makes all its callbacks, and loop() leaves no channel out.  *)
TypeOK ==
  /\ pc \in {"functors", "dispatch", "callback"}
  /\ live \subseteq Channels
  /\ index \in [Channels -> Int]
  /\ events \in [Channels -> Interests]
  /\ pollfds \in Seq([fd : Int, events : Interests])
  /\ DOMAIN channels \subseteq Fds /\ Registered \subseteq live
  /\ activeChannels \in Seq([channel : Channels, revents : Reports])
  /\ calls \in Seq(Callbacks)
  /\ silenced \subseteq Registered
  /\ pc = "callback" <=> calls # <<>>
  /\ pc = "callback" => activeChannels # <<>>
  /\ pc = "functors" => activeChannels = <<>>

(* index_, pollfds_ and channels_ agree, whatever was swapped: each        *)
(* registered channel has a slot, it is about its descriptor, and no slot  *)
(* is left over.  poll() and removeChannel dereference channels_ on it.    *)
IndexCoherent ==
  /\ \A f \in DOMAIN channels :
       LET c == channels[f]
       IN /\ FdOf[c] = f
          /\ index[c] + 1 \in 1 .. Len(pollfds)
          /\ Decode(pollfds[index[c] + 1].fd) = f
  /\ \A i \in 1 .. Len(pollfds) :
       LET f == Decode(pollfds[i].fd)
       IN f \in DOMAIN channels /\ index[channels[f]] = i - 1

Slot(c) == pollfds[index[c] + 1]

(* What ::poll is given for a channel, wherever its slot was moved by the   *)
(* removal of others: the events field follows every update; the descriptor *)
(* is the channel's own until the channel asks for nothing in an update     *)
(* after its first, and from then on it is negative until the channel is    *)
(* removed, since updateChannel never sets fd back.  So a channel enabled   *)
(* again after disableAll() is not polled (Poller.cc:39-42).                *)
PolledAsAsked ==
  \A c \in Registered :
    Slot(c) = [fd |-> IF c \in silenced THEN Muted(FdOf[c]) ELSE FdOf[c],
               events |-> events[c]]

(* No handler can make the loop call a channel that is gone: what is left  *)
(* of activeChannels_ are channels still registered, hence alive.          *)
DispatchValid ==
  \A i \in DOMAIN activeChannels : activeChannels[i].channel \in Registered

(* The vector with its indexes behaves as a map from descriptors to events: *)
(* an operation on one channel leaves what is polled for others as it was. *)
IM == INSTANCE InterestMap WITH
  watched <- [f \in DOMAIN channels |->
                [events |-> Slot(channels[f]).events,
                 muted |-> Slot(channels[f]).fd < 0]]
ActsAsMap == IM!IMSpec
==============================================================================
