---------------------------- MODULE MCTcpServer ----------------------------
(* TcpServer with one connection, on the base loop or on an I/O loop, and a *)
(* thread that holds on to it.                                              *)
EXTENDS TcpServer
=============================================================================
