---------------------------- MODULE MCEventLoop ----------------------------
(* EventLoop with two client threads and two user channels, a wakeup pipe   *)
(* and an event list of one entry: both fill up.                            *)
EXTENDS EventLoop
=============================================================================
