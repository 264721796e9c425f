-------------------------- MODULE MCEventLoopThread --------------------------
(* Small instances of EventLoopThread for TLC. *)
EXTENDS EventLoopThread
==============================================================================
