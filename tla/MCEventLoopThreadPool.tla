----------------------- MODULE MCEventLoopThreadPool -----------------------
(* The pool with a few workers; the base thread destroys it at any moment   *)
(* after start() has returned, or without having started it.                *)
EXTENDS EventLoopThreadPool
=============================================================================
