------------------------------- MODULE MCTask -------------------------------
(* Tasks with three coroutines on three threads: a chain of two co_await,   *)
(* or a task spawned by a coroutine that itself was spawned.                *)
EXTENDS Task
=============================================================================
