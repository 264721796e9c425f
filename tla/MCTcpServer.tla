---------------------------- MODULE MCTcpServer ----------------------------
(* TcpServer for TLC: a server of the base loop alone and one of two more  *)
(* loops, so that the rotation wraps; one connection more than accept()    *)
(* has descriptors for; start() called twice.                              *)
EXTENDS TcpServer

CONSTANTS p1, p2, p3, p4

MCPeers == {p1, p2, p3, p4}
MCThreadNums == {0, 2}
============================================================================
