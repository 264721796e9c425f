------------------------------ MODULE InterestMap ------------------------------
(***************************************************************************)
(* What a Poller promises the channels of its loop, without the vector of  *)
(* pollfds, the indexes into it and the swap on removal: a map from the    *)
(* descriptors being watched to the events asked for.  A descriptor whose  *)
(* channel asks for nothing is muted, and stays so until it is dropped.    *)
(* Poller is shown to implement this module.                               *)
(***************************************************************************)
CONSTANTS
  Fds,                     \* the descriptors
  Interests                \* the sets of events a channel may ask for

VARIABLE watched           \* descriptor -> what poll() is asked of it

Watch(ev) == [events |-> ev, muted |-> FALSE]

IMInit == watched = [f \in {} |-> Watch({})]

(* A descriptor is watched from now on. *)
Add(f, ev) ==
  /\ f \notin DOMAIN watched
  /\ watched' = [g \in DOMAIN watched \cup {f} |->
                   IF g = f THEN Watch(ev) ELSE watched[g]]

(* The events asked for change; no other descriptor is affected. *)
Change(f, ev) ==
  /\ f \in DOMAIN watched
  /\ watched' = [watched EXCEPT
       ![f] = [events |-> ev, muted |-> watched[f].muted \/ ev = {}]]

(* A descriptor is not watched any more; no other one is affected. *)
Drop(f) ==
  /\ f \in DOMAIN watched
  /\ watched' = [g \in DOMAIN watched \ {f} |-> watched[g]]

IMNext ==
  \E f \in Fds :
    \/ Drop(f)
    \/ \E ev \in Interests : Add(f, ev) \/ Change(f, ev)

IMSpec == IMInit /\ [][IMNext]_watched
==============================================================================
