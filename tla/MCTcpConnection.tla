-------------------------- MODULE MCTcpConnection --------------------------
(* TcpConnection on small instances: messages longer than what the kernel   *)
(* takes at a time, so that writes are partial.                             *)
EXTENDS TcpConnection
=============================================================================
