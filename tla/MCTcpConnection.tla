--------------------------- MODULE MCTcpConnection ---------------------------
(* Small instances of TcpConnection for TLC. *)
EXTENDS TcpConnection

CONSTANTS m1, m2, m3

(* m1 may be written in part. *)
MCSize == [m \in Messages |-> IF m = m1 THEN 2 ELSE 1]
==============================================================================
