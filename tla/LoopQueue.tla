----------------------------- MODULE LoopQueue -----------------------------
(***************************************************************************)
(* What EventLoop::queueInLoop promises its callers, with no threads, no   *)
(* poller and no wakeup pipe: functors are numbered in the order in which  *)
(* they were handed over, they are started one at a time in that order,    *)
(* and each of them is started once.                                       *)
(***************************************************************************)
EXTENDS Naturals, Sequences

CONSTANT MaxFunctors    \* bound: how many functors are ever queued

VARIABLES
    submitted,   \* number of functors handed over so far
    queue,       \* handed over, not started
    done         \* started, oldest first

vars == <<submitted, queue, done>>

Init ==
    /\ submitted = 0
    /\ queue = <<>>
    /\ done = <<>>

Submit ==
    /\ submitted < MaxFunctors
    /\ submitted' = submitted + 1
    /\ queue' = Append(queue, submitted + 1)
    /\ UNCHANGED done

Start ==
    /\ queue # <<>>
    /\ queue' = Tail(queue)
    /\ done' = Append(done, Head(queue))
    /\ UNCHANGED submitted

Next == Submit \/ Start

Spec == Init /\ [][Next]_vars
=============================================================================
