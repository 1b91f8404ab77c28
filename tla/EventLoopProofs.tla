-------------------------- MODULE EventLoopProofs --------------------------
(***************************************************************************)
(* Proofs about EventLoop, for any set of client threads and of channels,  *)
(* any capacity of the wakeup pipe and any size of the event list.         *)
(***************************************************************************)
EXTENDS EventLoop, SeqLemmas, SequenceTheorems, TLAPS

-----------------------------------------------------------------------------
(* The inductive invariant.                                                 *)

\* The strengthening that makes NoLostWakeup inductive: from the swap of the
\* vectors to the next kevent() every queued functor has its wakeup coming.
AfterSwap == {"functors", "functor", "test", "prepoll", "poll", "idle"}
WakeupInv ==
    pc \in AfterSwap =>
        \A i \in 1..Len(pendingFunctors) :
            pendingFunctors[i] \in early \/ WakeupComing

\* The strengthening that makes QuitUnblocksPoll inductive: quit_ was clear at
\* the while test, so whoever set it since then writes to the pipe.
QuitInv == pc \in {"prepoll", "poll"} /\ quit /\ signals = 0 => WakeupComing

\* The strengthening that makes FifoExactlyOnce inductive: the three sequences
\* hold consecutive numbers, and the local vector is empty outside the batch.
FifoInv ==
    /\ pc \notin {"functors", "functor"} => functors = <<>>
    /\ Len(started) + Len(functors) + Len(pendingFunctors) = queued
    /\ \A i \in 1..Len(started) : started[i] = i
    /\ \A i \in 1..Len(functors) : functors[i] = Len(started) + i
    /\ \A i \in 1..Len(pendingFunctors) :
          pendingFunctors[i] = Len(started) + Len(functors) + i

-----------------------------------------------------------------------------
\* Every action keeps the type invariant (the constants are as assumed).
LEMMA TypeStep == TypeOK /\ [Next]_vars => TypeOK'
<1> SUFFICES ASSUME TypeOK, [Next]_vars PROVE TypeOK'
  OBVIOUS
<1> USE BoundsAssumption DEF BoundsAssumption, TypeOK, Threads, Channels, Pcs, queueVars,
        quitVars, pollVars, runVars, wakeVars
<1>1. ASSUME NEW t \in Threads, QueueInLoop(t) PROVE TypeOK'
  BY <1>1 DEF QueueInLoop, PushBack, MayCall, MustWake
<1>2. ASSUME NEW t \in Threads, Quit(t) PROVE TypeOK'
  BY <1>2 DEF Quit, QuitMustWake, MayCall
<1>3. ASSUME NEW t \in Threads, WriteWakeup(t) PROVE TypeOK'
  BY <1>3 DEF WriteWakeup
<1>4. CASE SignalQuit
  BY <1>4 DEF SignalQuit
<1>5. CASE EnterLoop
  BY <1>5 DEF EnterLoop, LoopAt
<1>6. CASE PollReady
  BY <1>6 DEF PollReady, Poll, NextListSize, LoopAt
<1>7. CASE PollTimeout
  BY <1>7 DEF PollTimeout, LoopAt
<1>8. CASE TestQuit
  BY <1>8 DEF TestQuit, KeepsLooping, LoopAt
<1>9. CASE EnterPoll
  BY <1>9 DEF EnterPoll, LoopAt
<1>10. CASE HandleWakeup
  BY <1>10 DEF HandleWakeup, TokensAfterRead, LoopAt
<1>11. ASSUME NEW c \in IoChannels, BeginCallback(c) PROVE TypeOK'
  BY <1>11 DEF BeginCallback, LoopAt
<1>12. CASE EndCallback
  BY <1>12 DEF EndCallback, LoopAt
<1>13. CASE BeginPendingFunctors
  BY <1>13 DEF BeginPendingFunctors, LoopAt
<1>14. CASE SwapFunctors
  BY <1>14 DEF SwapFunctors, PendingAfterSwap, LoopAt
<1>15. CASE BeginFunctor
  BY <1>15 DEF BeginFunctor, LoopAt
<1>16. CASE EndFunctor
  BY <1>16 DEF EndFunctor, LoopAt
<1>17. CASE EndPendingFunctors
  BY <1>17 DEF EndPendingFunctors, LoopAt
<1>18. CASE UNCHANGED vars
  BY <1>18 DEF vars
<1> QED
  BY <1>1, <1>2, <1>3, <1>4, <1>5, <1>6, <1>7, <1>8, <1>9, <1>10, <1>11,
     <1>12, <1>13, <1>14, <1>15, <1>16, <1>17, <1>18
     DEF Next, LoopStep, Call

\* Type correctness: in particular the pipe never holds more than its capacity,
\* whatever reads and writes interleave, and callingPendingFunctors_ is set just
\* while the loop thread is in doPendingFunctors(), where it has to wake itself.
THEOREM TypeCorrect == Spec => []TypeOK
<1>1. ASSUME Init PROVE TypeOK
  <2>1. quit \in BOOLEAN /\ callingPendingFunctors \in BOOLEAN
    BY <1>1, Zenon DEF Init
  <2>2. /\ pendingFunctors \in Seq(1..MaxFunctors)
        /\ functors \in Seq(1..MaxFunctors)
        /\ started \in Seq(1..MaxFunctors)
    BY <1>1 DEF Init
  <2> QED
    BY <1>1, <2>1, <2>2, BoundsAssumption DEF BoundsAssumption, Init, TypeOK, Pcs
<1> QED
  BY <1>1, TypeStep, PTL DEF Spec

-----------------------------------------------------------------------------
(* The queue.                                                               *)

\* Every action keeps the numbering of the three sequences: only queueInLoop(),
\* the swap and the beginning of a functor move numbers between them.
LEMMA FifoStep == TypeOK /\ FifoInv /\ [Next]_vars => FifoInv'
<1> SUFFICES ASSUME TypeOK, FifoInv, [Next]_vars PROVE FifoInv'
  OBVIOUS
<1> USE DEF TypeOK, FifoInv, Pcs, Threads, queueVars,
        quitVars, pollVars, runVars, wakeVars
<1>1. ASSUME NEW t \in Threads, QueueInLoop(t) PROVE FifoInv'
  <2> USE <1>1 DEF QueueInLoop, PushBack, MayCall, MustWake
  <2>1. /\ Len(pendingFunctors') = Len(pendingFunctors) + 1
        /\ pendingFunctors'[Len(pendingFunctors) + 1] = queued + 1
        /\ \A i \in 1..Len(pendingFunctors) : pendingFunctors'[i] = pendingFunctors[i]
    BY AppendProperties
  <2>2. UNCHANGED <<started, functors, pc>> /\ queued' = queued + 1
    OBVIOUS
  <2>n. Len(started) \in Nat /\ Len(functors) \in Nat /\ Len(pendingFunctors) \in Nat
    BY LenProperties
  <2>s. queued = Len(started) + Len(functors) + Len(pendingFunctors)
    OBVIOUS
  <2>3. queued + 1 = Len(started) + Len(functors) + (Len(pendingFunctors) + 1)
    <3> HIDE <1>1 DEF TypeOK, FifoInv, QueueInLoop, PushBack, MayCall, MustWake
    <3> QED
      BY <2>n, <2>s
  <2>4. ASSUME NEW i \in 1..Len(pendingFunctors')
        PROVE  pendingFunctors'[i] = Len(started) + Len(functors) + i
    <3>1. CASE i = Len(pendingFunctors) + 1
      BY <3>1, <2>1, <2>3
    <3>2. CASE i \in 1..Len(pendingFunctors)
      BY <3>2, <2>1
    <3> QED
      BY <3>1, <3>2, <2>1, <2>n
  <2> QED
    BY <2>1, <2>2, <2>3, <2>4, <2>n
<1>2. ASSUME NEW t \in Threads, Quit(t) PROVE FifoInv'
  BY <1>2 DEF Quit, QuitMustWake, MayCall
<1>3. ASSUME NEW t \in Threads, WriteWakeup(t) PROVE FifoInv'
  BY <1>3 DEF WriteWakeup
<1>4. CASE SignalQuit
  BY <1>4 DEF SignalQuit
<1>5. CASE EnterLoop
  BY <1>5 DEF EnterLoop, LoopAt
<1>6. CASE PollReady
  BY <1>6 DEF PollReady, Poll, NextListSize, LoopAt
<1>7. CASE PollTimeout
  BY <1>7 DEF PollTimeout, LoopAt
<1>8. CASE TestQuit
  BY <1>8 DEF TestQuit, KeepsLooping, LoopAt
<1>9. CASE EnterPoll
  BY <1>9 DEF EnterPoll, LoopAt
<1>10. CASE HandleWakeup
  BY <1>10 DEF HandleWakeup, TokensAfterRead, LoopAt
<1>11. ASSUME NEW c \in IoChannels, BeginCallback(c) PROVE FifoInv'
  BY <1>11 DEF BeginCallback, LoopAt
<1>12. CASE EndCallback
  BY <1>12 DEF EndCallback, LoopAt
<1>13. CASE BeginPendingFunctors
  BY <1>13 DEF BeginPendingFunctors, LoopAt
<1>14. CASE SwapFunctors
  BY <1>14 DEF SwapFunctors, PendingAfterSwap, LoopAt
<1>15. CASE BeginFunctor
  <2> USE <1>15 DEF BeginFunctor, LoopAt
  <2>1. /\ Len(started') = Len(started) + 1
        /\ started'[Len(started) + 1] = functors[1]
        /\ \A i \in 1..Len(started) : started'[i] = started[i]
    BY AppendProperties
  <2>2. /\ Len(functors') = Len(functors) - 1
        /\ \A i \in 1..Len(functors') : functors'[i] = functors[i + 1]
    BY HeadTailProperties
  <2>3. functors[1] = Len(started) + 1
    OBVIOUS
  <2>4. UNCHANGED <<queued, pendingFunctors>> /\ pc' = "functor"
    OBVIOUS
  <2>5. /\ Len(started) \in Nat /\ Len(functors) \in Nat /\ Len(pendingFunctors) \in Nat
        /\ Len(started) + Len(functors) + Len(pendingFunctors) = queued
        /\ \A i \in 1..Len(started) : started[i] = i
        /\ \A i \in 1..Len(functors) : functors[i] = Len(started) + i
        /\ \A i \in 1..Len(pendingFunctors) :
              pendingFunctors[i] = Len(started) + Len(functors) + i
    BY LenProperties
  <2>6. ASSUME NEW i \in 1..Len(started') PROVE started'[i] = i
    BY <2>1, <2>3, <2>5
  <2> HIDE <1>15 DEF TypeOK, BeginFunctor, LoopAt
  <2>7. ASSUME NEW i \in 1..Len(functors') PROVE functors'[i] = Len(started') + i
    <3> HIDE DEF FifoInv
    <3>1. i + 1 \in 1..Len(functors) /\ functors'[i] = functors[i + 1]
      BY <2>2, <2>5
    <3> QED
      BY <3>1, <2>1, <2>5
  <2>8. Len(started') + Len(functors') = Len(started) + Len(functors)
    <3> HIDE DEF FifoInv
    <3> QED
      BY <2>1, <2>2, <2>5
  <2>9. pc' \in {"functors", "functor"}
    BY <2>4
  <2> QED
    BY <2>4, <2>5, <2>6, <2>7, <2>8, <2>9
<1>16. CASE EndFunctor
  BY <1>16 DEF EndFunctor, LoopAt
<1>17. CASE EndPendingFunctors
  BY <1>17 DEF EndPendingFunctors, LoopAt
<1>18. CASE UNCHANGED vars
  BY <1>18 DEF vars
<1> QED
  BY <1>1, <1>2, <1>3, <1>4, <1>5, <1>6, <1>7, <1>8, <1>9, <1>10, <1>11,
     <1>12, <1>13, <1>14, <1>15, <1>16, <1>17, <1>18
     DEF Next, LoopStep, Call

\* The numbering holds from construction on.
LEMMA FifoInvariant == Spec => []FifoInv
<1>1. Init => FifoInv
  BY DEF Init, FifoInv
<1> QED
  BY <1>1, TypeCorrect, FifoStep, PTL DEF Spec

\* Functors run in the order in which they were queued, each once: what was
\* started, then the batch being run, then what is pending are exactly the
\* numbers from 1 to the number of functors queued.
THEOREM FifoAlways == Spec => []FifoExactlyOnce
<1>1. TypeOK /\ FifoInv => FifoExactlyOnce
  <2> SUFFICES ASSUME TypeOK, FifoInv PROVE FifoExactlyOnce
    OBVIOUS
  <2> USE DEF TypeOK, FifoInv
  <2> DEFINE sf == started \o functors
  <2>1. /\ sf \in Seq(1..MaxFunctors)
        /\ Len(sf) = Len(started) + Len(functors)
        /\ \A i \in 1..Len(sf) : sf[i] = i
    BY ConcatProperties
  <2> HIDE DEF sf
  <2>2. /\ sf \o pendingFunctors \in Seq(1..MaxFunctors)
        /\ Len(sf \o pendingFunctors) = queued
    <3>0. sf \in Seq(1..MaxFunctors) /\ pendingFunctors \in Seq(1..MaxFunctors)
      BY <2>1
    <3>1. /\ sf \o pendingFunctors \in Seq(1..MaxFunctors)
          /\ Len(sf \o pendingFunctors) = Len(sf) + Len(pendingFunctors)
      BY ONLY <3>0, ConcatProperties
    <3> QED
      BY <3>1, <2>1, LenProperties
  <2>3. ASSUME NEW i \in 1..queued PROVE (sf \o pendingFunctors)[i] = i
    <3>1. (sf \o pendingFunctors)[i] =
            IF i <= Len(sf) THEN sf[i] ELSE pendingFunctors[i - Len(sf)]
      BY <2>1, ConcatProperties
    <3> QED
      BY <3>1, <2>1
  <2>4. /\ DOMAIN (sf \o pendingFunctors) = 1..queued
        /\ sf \o pendingFunctors = [i \in 1..queued |-> (sf \o pendingFunctors)[i]]
    BY <2>2, LenProperties
  <2>5. sf \o pendingFunctors = [i \in 1..queued |-> i]
    BY <2>3, <2>4
  <2> QED
    BY <2>5 DEF FifoExactlyOnce, sf
<1> QED
  BY <1>1, TypeCorrect, FifoInvariant, PTL

\* The event loop implements LoopQueue: pushing to pendingFunctors_ submits,
\* beginning a functor of the batch starts it, every other step stutters.
THEOREM Refinement == Spec => ImplementsLoopQueue
<1>1. Init => LQ!Init
  BY ConcatEmptySeq DEF Init, LQ!Init
<1>2. TypeOK /\ FifoInv /\ [Next]_vars => [LQ!Next]_(LQ!vars)
  <2> SUFFICES ASSUME TypeOK, FifoInv, [Next]_vars PROVE LQ!Next \/ UNCHANGED LQ!vars
    OBVIOUS
  <2> USE DEF TypeOK, FifoInv
  <2>1. ASSUME NEW t \in Threads, QueueInLoop(t) PROVE LQ!Submit
    <3>1. functors \o Append(pendingFunctors, queued + 1)
            = Append(functors \o pendingFunctors, queued + 1)
      <4>1. queued + 1 \in 1..MaxFunctors
        BY <2>1, BoundsAssumption DEF QueueInLoop, BoundsAssumption
      <4> QED
        BY <4>1, ConcatAppend
    <3> QED
      BY <2>1, <3>1 DEF QueueInLoop, PushBack, LQ!Submit, runVars
  <2>2. CASE BeginFunctor
    <3>1. /\ functors \o pendingFunctors # <<>>
          /\ Head(functors \o pendingFunctors) = Head(functors)
          /\ Tail(functors \o pendingFunctors) = Tail(functors) \o pendingFunctors
      BY <2>2, HeadTailConcat DEF BeginFunctor
    <3> QED
      BY <2>2, <3>1 DEF BeginFunctor, LQ!Next, LQ!Start, queueVars
  <2>3. CASE SwapFunctors
    <3>1. functors = <<>> /\ pc = "swap"
      BY <2>3 DEF SwapFunctors, PendingAfterSwap, LoopAt
    <3>2. functors \o pendingFunctors = pendingFunctors \o functors
      BY <3>1, ConcatEmptySeq
    <3> QED
      BY <2>3, <3>2 DEF SwapFunctors, PendingAfterSwap, LQ!vars
  <2>4. ASSUME UNCHANGED <<queued, started, functors, pendingFunctors>>
        PROVE  UNCHANGED LQ!vars
    BY <2>4 DEF LQ!vars
  <2> USE DEF queueVars, runVars
  <2>5. ASSUME NEW t \in Threads, Quit(t) \/ WriteWakeup(t) PROVE UNCHANGED LQ!vars
    BY <2>5, <2>4 DEF Quit, WriteWakeup
  <2>6. CASE SignalQuit \/ EnterLoop \/ PollTimeout
    BY <2>6, <2>4 DEF SignalQuit, EnterLoop, PollTimeout
  <2>7. CASE PollReady
    BY <2>7, <2>4 DEF PollReady, Poll
  <2>8. CASE TestQuit \/ EnterPoll \/ HandleWakeup \/ EndCallback
    BY <2>8, <2>4 DEF TestQuit, EnterPoll, HandleWakeup, EndCallback
  <2>9. ASSUME NEW c \in IoChannels, BeginCallback(c) PROVE UNCHANGED LQ!vars
    BY <2>9, <2>4 DEF BeginCallback
  <2>10. CASE BeginPendingFunctors \/ EndFunctor \/ EndPendingFunctors
    BY <2>10, <2>4 DEF BeginPendingFunctors, EndFunctor, EndPendingFunctors
  <2>11. CASE UNCHANGED vars
    BY <2>11, <2>4 DEF vars
  <2> QED
    BY <2>1, <2>2, <2>3, <2>5, <2>6, <2>7, <2>8, <2>9, <2>10, <2>11
       DEF Next, LoopStep, Call, LQ!Next
<1> QED
  BY <1>1, <1>2, TypeCorrect, FifoInvariant, PTL DEF Spec, ImplementsLoopQueue, LQ!Spec

-----------------------------------------------------------------------------
(* The wakeup protocol.                                                     *)

\* Every action keeps the wakeup protocol: a push outside the loop thread, or by
\* it inside doPendingFunctors(), has a token on its way, and a token is taken
\* out of the pipe only in a round that swaps the vectors afterwards.
LEMMA WakeupStep == TypeOK /\ FifoInv /\ WakeupInv /\ [Next]_vars => WakeupInv'
<1> SUFFICES ASSUME TypeOK, FifoInv, WakeupInv, [Next]_vars PROVE WakeupInv'
  OBVIOUS
<1> USE DEF TypeOK, WakeupInv, WakeupComing, AfterSwap, Pcs, Threads, queueVars,
        quitVars, pollVars, runVars, wakeVars
<1>1. ASSUME NEW t \in Threads, QueueInLoop(t) PROVE WakeupInv'
  BY <1>1 DEF QueueInLoop, PushBack, MayCall, MustWake
<1>2. ASSUME NEW t \in Threads, Quit(t) PROVE WakeupInv'
  BY <1>2 DEF Quit, QuitMustWake, MayCall
<1>3. ASSUME NEW t \in Threads, WriteWakeup(t) PROVE WakeupInv'
  BY <1>3 DEF WriteWakeup
<1>4. CASE SignalQuit
  BY <1>4 DEF SignalQuit
<1>5. CASE EnterLoop
  BY <1>5 DEF EnterLoop, LoopAt
<1>6. CASE PollReady
  BY <1>6 DEF PollReady, Poll, NextListSize, LoopAt
<1>7. CASE PollTimeout
  BY <1>7 DEF PollTimeout, LoopAt
<1>8. CASE TestQuit
  BY <1>8 DEF TestQuit, KeepsLooping, LoopAt
<1>9. CASE EnterPoll
  BY <1>9 DEF EnterPoll, LoopAt
<1>10. CASE HandleWakeup
  BY <1>10 DEF HandleWakeup, TokensAfterRead, LoopAt
<1>11. ASSUME NEW c \in IoChannels, BeginCallback(c) PROVE WakeupInv'
  BY <1>11 DEF BeginCallback, LoopAt
<1>12. CASE EndCallback
  BY <1>12 DEF EndCallback, LoopAt
<1>13. CASE BeginPendingFunctors
  BY <1>13 DEF BeginPendingFunctors, LoopAt
<1>14. CASE SwapFunctors
  BY <1>14 DEF SwapFunctors, PendingAfterSwap, LoopAt, FifoInv
<1>15. CASE BeginFunctor
  BY <1>15 DEF BeginFunctor, LoopAt
<1>16. CASE EndFunctor
  BY <1>16 DEF EndFunctor, LoopAt
<1>17. CASE EndPendingFunctors
  BY <1>17 DEF EndPendingFunctors, LoopAt
<1>18. CASE UNCHANGED vars
  BY <1>18 DEF vars
<1> QED
  BY <1>1, <1>2, <1>3, <1>4, <1>5, <1>6, <1>7, <1>8, <1>9, <1>10, <1>11,
     <1>12, <1>13, <1>14, <1>15, <1>16, <1>17, <1>18
     DEF Next, LoopStep, Call

\* No wakeup of queueInLoop() is lost: whenever the loop sleeps in kevent() with
\* a queued functor, a token is in the pipe or about to be written to it.
THEOREM NoLostWakeupAlways == Spec => []NoLostWakeup
<1>1. Init => WakeupInv
  BY DEF Init, WakeupInv, AfterSwap
<1>2. WakeupInv => NoLostWakeup
  BY DEF WakeupInv, NoLostWakeup, AfterSwap
<1> QED
  BY <1>1, <1>2, TypeCorrect, FifoInvariant, WakeupStep, PTL DEF Spec

\* Every action keeps QuitInv: between the while test and kevent() only another
\* thread, which then wakes, or a signal handler can set quit_.
LEMMA QuitStep == TypeOK /\ QuitInv /\ [Next]_vars => QuitInv'
<1> SUFFICES ASSUME TypeOK, QuitInv, [Next]_vars PROVE QuitInv'
  OBVIOUS
<1> USE DEF TypeOK, QuitInv, WakeupComing, Pcs, Threads, queueVars,
        quitVars, pollVars, runVars, wakeVars
<1>1. ASSUME NEW t \in Threads, QueueInLoop(t) PROVE QuitInv'
  BY <1>1 DEF QueueInLoop, PushBack, MayCall, MustWake
<1>2. ASSUME NEW t \in Threads, Quit(t) PROVE QuitInv'
  BY <1>2 DEF Quit, QuitMustWake, MayCall
<1>3. ASSUME NEW t \in Threads, WriteWakeup(t) PROVE QuitInv'
  BY <1>3 DEF WriteWakeup
<1>4. CASE SignalQuit
  BY <1>4 DEF SignalQuit
<1>5. CASE EnterLoop
  BY <1>5 DEF EnterLoop, LoopAt
<1>6. CASE PollReady
  BY <1>6 DEF PollReady, Poll, NextListSize, LoopAt
<1>7. CASE PollTimeout
  BY <1>7 DEF PollTimeout, LoopAt
<1>8. CASE TestQuit
  BY <1>8 DEF TestQuit, KeepsLooping, LoopAt
<1>9. CASE EnterPoll
  BY <1>9 DEF EnterPoll, LoopAt
<1>10. CASE HandleWakeup
  BY <1>10 DEF HandleWakeup, TokensAfterRead, LoopAt
<1>11. ASSUME NEW c \in IoChannels, BeginCallback(c) PROVE QuitInv'
  BY <1>11 DEF BeginCallback, LoopAt
<1>12. CASE EndCallback
  BY <1>12 DEF EndCallback, LoopAt
<1>13. CASE BeginPendingFunctors
  BY <1>13 DEF BeginPendingFunctors, LoopAt
<1>14. CASE SwapFunctors
  BY <1>14 DEF SwapFunctors, PendingAfterSwap, LoopAt
<1>15. CASE BeginFunctor
  BY <1>15 DEF BeginFunctor, LoopAt
<1>16. CASE EndFunctor
  BY <1>16 DEF EndFunctor, LoopAt
<1>17. CASE EndPendingFunctors
  BY <1>17 DEF EndPendingFunctors, LoopAt
<1>18. CASE UNCHANGED vars
  BY <1>18 DEF vars
<1> QED
  BY <1>1, <1>2, <1>3, <1>4, <1>5, <1>6, <1>7, <1>8, <1>9, <1>10, <1>11,
     <1>12, <1>13, <1>14, <1>15, <1>16, <1>17, <1>18
     DEF Next, LoopStep, Call

\* A quit() is never slept through: the loop is not in kevent() with quit_ set and
\* no wakeup on its way, as long as no signal handler has called quit().
THEOREM QuitUnblocksPollAlways == Spec => []QuitUnblocksPoll
<1>1. Init => QuitInv
  BY DEF Init, QuitInv
<1>2. QuitInv => QuitUnblocksPoll
  BY DEF QuitInv, QuitUnblocksPoll
<1>3. TypeOK /\ QuitInv /\ [Next]_vars => QuitInv'
  BY QuitStep
<1> QED
  BY <1>1, <1>2, <1>3, TypeCorrect, PTL DEF Spec

=============================================================================
