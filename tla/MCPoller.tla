------------------------------- MODULE MCPoller -------------------------------
(* Small instances of Poller for TLC. *)
EXTENDS Poller, TLC

CONSTANTS chan0, chan1, chan2, chan2b

(* chan2 and chan2b take turns on descriptor 2. *)
MCFdOf == (chan0 :> 0) @@ (chan1 :> 1) @@ (chan2 :> 2) @@ (chan2b :> 2)

MCReports == {{"IN", "OUT"}, {"HUP", "ERR"}}
==============================================================================
