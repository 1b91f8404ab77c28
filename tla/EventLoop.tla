----------------------------- MODULE EventLoop -----------------------------
(***************************************************************************)
(* EventLoop (src/src/net/EventLoop.cc) with the part of Poller it relies  *)
(* on: one thread that runs loop(), any number of other threads that call  *)
(* queueInLoop() and quit() on it, the mutex-protected pendingFunctors_,   *)
(* and the wakeup pipe that takes the loop out of kevent().                *)
(*                                                                         *)
(* Each place where another thread can get in between two steps of a       *)
(* method is a value of pc (the loop thread) or membership in "waking"     *)
(* (a thread between the push or the store to quit_ and the write to the   *)
(* pipe).  Functors are the numbers 1, 2, ... in push order.               *)
(***************************************************************************)
EXTENDS Naturals, Sequences, FiniteSets

CONSTANTS
    LoopThread,     \* threadId_: the thread that built the loop and runs it
    Clients,        \* the other threads that hold a pointer to the loop
    IoChannels,     \* registered (fd, filter) pairs other than the wakeup pipe
    Wakeup,         \* wakeupChannel_
    PipeCapacity,   \* 8-byte tokens the wakeup pipe holds before write() blocks
    EventListSize,  \* initial size of Poller::events_ (16 in Poller.cc)
    MaxFunctors,    \* bound: calls of queueInLoop()
    MaxQuits,       \* bound: calls of quit()
    MaxSignals      \* bound: signal handlers that call quit() on the loop thread

ASSUME ThreadsAssumption == LoopThread \notin Clients
ASSUME ChannelsAssumption == Wakeup \notin IoChannels /\ IsFiniteSet(IoChannels)
ASSUME BoundsAssumption ==
    /\ PipeCapacity \in Nat \ {0}
    /\ EventListSize \in Nat \ {0}
    /\ MaxFunctors \in Nat
    /\ MaxQuits \in Nat
    /\ MaxSignals \in Nat

Threads == Clients \cup {LoopThread}
Channels == IoChannels \cup {Wakeup}

VARIABLES
    pc,                     \* where the loop thread is (Pcs below)
    quit,                   \* quit_
    callingPendingFunctors, \* callingPendingFunctors_
    pendingFunctors,        \* pendingFunctors_
    functors,               \* the local vector of doPendingFunctors()
    activeChannels,         \* activeChannels_ not yet dispatched in this round
    eventListSize,          \* events_.size()
    pipe,                   \* unread tokens in the wakeup pipe
    waking,                 \* threads inside wakeup(), before write() returns
    started,                \* history: functors started, oldest first
    queued,                 \* history: number of functors pushed
    early,                  \* history: functors the loop thread pushed outside loop()
    quits, signals          \* counters for MaxQuits and MaxSignals

queueVars == <<pendingFunctors, queued, early>>
quitVars  == <<quit, quits, signals>>
pollVars  == <<activeChannels, eventListSize>>
runVars   == <<functors, started, callingPendingFunctors>>
wakeVars  == <<pipe, waking>>
vars == <<pc, queueVars, quitVars, pollVars, runVars, wakeVars>>

(***************************************************************************)
(* idle      not in loop(): before the first call or after a return        *)
(* test      at while (!quit_)                                             *)
(* prepoll   between that test and kevent()                                *)
(* poll      blocked in kevent()                                           *)
(* dispatch  in the for over activeChannels_                               *)
(* callback  in a user's channel callback                                  *)
(* swap      in doPendingFunctors(), the flag set, the lock not yet taken  *)
(* functors  between two functors of the batch                             *)
(* functor   in a functor                                                  *)
(***************************************************************************)
Pcs == {"idle", "test", "prepoll", "poll", "dispatch", "callback", "swap",
        "functors", "functor"}

Looping == pc # "idle"      \* looping_

\* The types, with the pipe within its capacity; and callingPendingFunctors_, which
\* tells queueInLoop() whether the loop thread has to wake itself, is set exactly
\* while doPendingFunctors() runs.
TypeOK ==
    /\ pc \in Pcs
    /\ quit \in BOOLEAN
    /\ callingPendingFunctors \in BOOLEAN
    /\ callingPendingFunctors <=> pc \in {"swap", "functors", "functor"}
    /\ pendingFunctors \in Seq(1..MaxFunctors)
    /\ functors \in Seq(1..MaxFunctors)
    /\ activeChannels \in SUBSET Channels
    /\ eventListSize \in Nat \ {0}
    /\ pipe \in 0..PipeCapacity
    /\ waking \in SUBSET Threads
    /\ started \in Seq(1..MaxFunctors)
    /\ queued \in 0..MaxFunctors
    /\ early \in SUBSET (1..MaxFunctors)
    /\ quits \in 0..MaxQuits
    /\ signals \in 0..MaxSignals

Init ==
    /\ pc = "idle"
    /\ quit = FALSE
    /\ callingPendingFunctors = FALSE
    /\ pendingFunctors = <<>>
    /\ functors = <<>>
    /\ activeChannels = {}
    /\ eventListSize = EventListSize
    /\ pipe = 0
    /\ waking = {}
    /\ started = <<>>
    /\ queued = 0
    /\ early = {}
    /\ quits = 0
    /\ signals = 0

-----------------------------------------------------------------------------
(* Calls into the loop.  A thread calls from outside a previous call; the   *)
(* loop thread also only from user code: before or after loop(), in a       *)
(* channel callback or in a functor.                                        *)

MayCall(t) ==
    /\ t \notin waking
    /\ t = LoopThread => pc \in {"idle", "callback", "functor"}

\* The test of queueInLoop() that decides whether to write to the pipe.
MustWake_ForeignOnly(t) == t # LoopThread
MustWake(t) == t # LoopThread \/ callingPendingFunctors

PushBack_AtFront(f) == <<f>> \o pendingFunctors
PushBack(f) == Append(pendingFunctors, f)       \* pendingFunctors_.push_back()

\* queueInLoop(), and runInLoop() from a thread that is not the loop's: the
\* push under mutex_; the write to the pipe is the next step of t.
QueueInLoop(t) ==
    /\ MayCall(t)
    /\ queued < MaxFunctors
    /\ queued' = queued + 1
    /\ pendingFunctors' = PushBack(queued + 1)
    /\ waking' = IF MustWake(t) THEN waking \cup {t} ELSE waking
    /\ early' = IF t = LoopThread /\ pc = "idle" THEN early \cup {queued + 1} ELSE early
    /\ UNCHANGED <<pc, quitVars, pollVars, runVars, pipe>>

\* The same test in quit(): the loop thread is on its way to the while test.
QuitMustWake_Never(t) == FALSE
QuitMustWake(t) == t # LoopThread

\* quit(): the store to quit_, then wakeup() unless t is the loop thread.
Quit(t) ==
    /\ MayCall(t)
    /\ quits < MaxQuits
    /\ quits' = quits + 1
    /\ quit' = TRUE
    /\ waking' = IF QuitMustWake(t) THEN waking \cup {t} ELSE waking
    /\ UNCHANGED <<pc, queueVars, pollVars, runVars, pipe, signals>>

\* wakeup(): the write end is in blocking mode, so a full pipe stops t here.
WriteWakeup(t) ==
    /\ t \in waking
    /\ pipe < PipeCapacity
    /\ pipe' = pipe + 1
    /\ waking' = waking \ {t}
    /\ UNCHANGED <<pc, queueVars, quitVars, pollVars, runVars>>

\* A signal handler that runs on the loop thread, between any two of its
\* instructions, and calls quit() (examples/coro_echo_server.cc): no write to
\* the pipe, but a kevent() in progress returns with EINTR.
SignalQuit ==
    /\ signals < MaxSignals
    /\ signals' = signals + 1
    /\ quit' = TRUE
    /\ pc' = IF pc = "poll" THEN "dispatch" ELSE pc
    /\ UNCHANGED <<queueVars, pollVars, runVars, wakeVars, quits>>

-----------------------------------------------------------------------------
(* loop().  The loop thread moves on only when it is not inside wakeup().   *)

LoopAt(label) == pc = label /\ LoopThread \notin waking

\* A quit() made before is forgotten.
EnterLoop ==
    /\ LoopAt("idle")
    /\ pc' = "test"
    /\ quit' = FALSE
    /\ UNCHANGED <<queueVars, quits, signals, pollVars, runVars, wakeVars>>

KeepsLooping == ~quit       \* while (!quit_)

\* The while test; on the way in, activeChannels_.clear().
TestQuit ==
    /\ LoopAt("test")
    /\ IF KeepsLooping
         THEN pc' = "prepoll" /\ activeChannels' = {}
         ELSE pc' = "idle" /\ UNCHANGED activeChannels
    /\ UNCHANGED <<queueVars, quit, quits, signals, eventListSize, runVars, wakeVars>>

EnterPoll ==
    /\ LoopAt("prepoll")
    /\ pc' = "poll"
    /\ UNCHANGED <<queueVars, quitVars, pollVars, runVars, wakeVars>>

\* Events ready in the kernel: the pipe is level triggered, which of the other
\* channels are ready is up to their peers.
Ready(io) == io \cup (IF pipe > 0 THEN {Wakeup} ELSE {})

\* events_.resize(): a list of n entries that came back full is doubled.
NextListSize_Fixed(n) == eventListSize
NextListSize(n) == IF n = eventListSize THEN 2 * eventListSize ELSE eventListSize

\* Poller::poll(): kevent() fills at most events_.size() entries, choosing
\* among the ready ones.
Poll(io, S) ==
    /\ LoopAt("poll")
    /\ S # {} /\ S \subseteq Ready(io)
    /\ S = Ready(io) \/ Cardinality(S) = eventListSize
    /\ Cardinality(S) <= eventListSize
    /\ activeChannels' = S
    /\ eventListSize' = NextListSize(Cardinality(S))
    /\ pc' = "dispatch"
    /\ UNCHANGED <<queueVars, quitVars, runVars, wakeVars>>

PollReady == \E io \in SUBSET IoChannels : \E S \in SUBSET Channels : Poll(io, S)

PollTimeout_Never == FALSE

\* kevent() gives up after 10 s with nothing to report.
PollTimeout ==
    /\ LoopAt("poll")
    /\ pipe = 0
    /\ pc' = "dispatch"
    /\ UNCHANGED <<queueVars, quitVars, pollVars, runVars, wakeVars>>

TokensAfterRead == IF pipe > 0 THEN pipe - 1 ELSE pipe

\* handleWakeup() takes one token out of the (non-blocking) read end.
HandleWakeup ==
    /\ LoopAt("dispatch")
    /\ Wakeup \in activeChannels
    /\ activeChannels' = activeChannels \ {Wakeup}
    /\ pipe' = TokensAfterRead
    /\ UNCHANGED <<pc, queueVars, quitVars, eventListSize, runVars, waking>>

\* channel->handleEvent() of a channel of the user: its callback begins.
BeginCallback(c) ==
    /\ LoopAt("dispatch")
    /\ c \in activeChannels \cap IoChannels
    /\ activeChannels' = activeChannels \ {c}
    /\ pc' = "callback"
    /\ UNCHANGED <<queueVars, quit, quits, signals, eventListSize, runVars, wakeVars>>

EndCallback ==
    /\ LoopAt("callback")
    /\ pc' = "dispatch"
    /\ UNCHANGED <<queueVars, quitVars, pollVars, runVars, wakeVars>>

\* Every channel dispatched: doPendingFunctors() sets the flag ...
BeginPendingFunctors ==
    /\ LoopAt("dispatch")
    /\ activeChannels = {}
    /\ pc' = "swap"
    /\ callingPendingFunctors' = TRUE
    /\ UNCHANGED <<queueVars, quitVars, pollVars, functors, started, wakeVars>>

PendingAfterSwap_Copied == pendingFunctors
PendingAfterSwap == functors

\* ... takes the lock and swaps the vectors ...
SwapFunctors ==
    /\ LoopAt("swap")
    /\ pc' = "functors"
    /\ functors' = pendingFunctors
    /\ pendingFunctors' = PendingAfterSwap
    /\ UNCHANGED <<queued, early, quitVars, pollVars, callingPendingFunctors, started, wakeVars>>

\* ... runs the batch, one functor after the other ...
BeginFunctor ==
    /\ LoopAt("functors")
    /\ functors # <<>>
    /\ pc' = "functor"
    /\ started' = Append(started, Head(functors))
    /\ functors' = Tail(functors)
    /\ UNCHANGED <<queueVars, quitVars, pollVars, callingPendingFunctors, wakeVars>>

EndFunctor ==
    /\ LoopAt("functor")
    /\ pc' = "functors"
    /\ UNCHANGED <<queueVars, quitVars, pollVars, runVars, wakeVars>>

\* ... and clears the flag; loop() goes back to the while test.
EndPendingFunctors_FlagKept ==
    /\ LoopAt("functors")
    /\ functors = <<>>
    /\ pc' = "test"
    /\ UNCHANGED <<queueVars, quitVars, pollVars, runVars, wakeVars>>
EndPendingFunctors ==
    /\ LoopAt("functors")
    /\ functors = <<>>
    /\ pc' = "test"
    /\ callingPendingFunctors' = FALSE
    /\ UNCHANGED <<queueVars, quitVars, pollVars, functors, started, wakeVars>>

-----------------------------------------------------------------------------
\* Steps of the loop thread that only it can delay: not the wait in kevent(),
\* and not the call of loop() itself.
LoopStep ==
    \/ TestQuit
    \/ EnterPoll
    \/ HandleWakeup
    \/ \E c \in IoChannels : BeginCallback(c)
    \/ EndCallback
    \/ BeginPendingFunctors
    \/ SwapFunctors
    \/ BeginFunctor
    \/ EndFunctor
    \/ EndPendingFunctors

Call(t) == QueueInLoop(t) \/ Quit(t)

Next ==
    \/ \E t \in Threads : Call(t) \/ WriteWakeup(t)
    \/ SignalQuit
    \/ EnterLoop
    \/ PollReady
    \/ PollTimeout
    \/ LoopStep

Spec == Init /\ [][Next]_vars

(***************************************************************************)
(* Fairness.  The loop thread is scheduled and callbacks and functors      *)
(* return (LoopStep); a writer to the pipe is scheduled while there is     *)
(* room; kevent() reports a readable pipe.  Nothing forces a timeout, so   *)
(* what these properties promise happens without waiting for the 10 s.     *)
(***************************************************************************)
Fairness ==
    /\ WF_vars(LoopStep)
    /\ \A t \in Threads : WF_vars(WriteWakeup(t))
    /\ WF_vars(pipe > 0 /\ PollReady)

FairSpec == Spec /\ Fairness

-----------------------------------------------------------------------------
(* Properties.                                                              *)

WakeupComing == pipe > 0 \/ waking # {}

\* The loop never sleeps in kevent() on a functor that was queued for it: a
\* wakeup token is in the pipe or a thread is about to write one.  (Functors
\* the loop thread queued outside loop() wait for the poll timeout.)
NoLostWakeup ==
    pc = "poll" =>
        \A i \in 1..Len(pendingFunctors) :
            pendingFunctors[i] \in early \/ WakeupComing

\* The loop never sleeps in kevent() with quit_ set and nothing on its way to
\* wake it, unless a signal handler on the loop thread called quit().
QuitUnblocksPoll == pc = "poll" /\ quit /\ signals = 0 => WakeupComing

\* Functors are started in the order they were queued, none lost, none twice,
\* whatever thread queued them and whether a batch was being run.
FifoExactlyOnce ==
    started \o functors \o pendingFunctors = [i \in 1..queued |-> i]

LQ == INSTANCE LoopQueue WITH
        submitted <- queued, queue <- functors \o pendingFunctors, done <- started

\* The event loop implements the abstract executor of LoopQueue.
ImplementsLoopQueue == LQ!Spec

IsStarted(f) == \E i \in 1..Len(started) : started[i] = f

\* The loop thread waits in wakeup() for room in a pipe that only it drains: what
\* the liveness properties below leave out.
SelfBlocked == LoopThread \in waking /\ pipe = PipeCapacity

\* A functor queued by any thread for a running loop is started without waiting
\* for a poll timeout, or the loop returns.
QueuedFunctorStarts ==
    \A f \in 1..MaxFunctors :
        (Looping /\ f <= queued /\ f \notin early)
            ~> (IsStarted(f) \/ ~Looping \/ SelfBlocked)

\* A thread that waits in wakeup() for room in the pipe gets on, however many
\* other channels keep the loop busy: the growing event list lets the pipe in.
WriterUnblocks ==
    \A t \in Clients : (Looping /\ t \in waking) ~> (t \notin waking \/ ~Looping \/ SelfBlocked)

\* A loop whose quit_ was set by quit() returns, without waiting for a poll
\* timeout.
QuitStopsLoop ==
    (Looping /\ quit /\ signals = 0) ~> (~Looping \/ signals > 0 \/ SelfBlocked)

\* With kevent() giving up after its 10 s, a functor the loop thread queued before
\* loop() (EventLoopTest.QueueInLoop) is started too, and a quit() in a signal
\* handler is served.
TimeoutServes ==
    WF_vars(PollTimeout) =>
        /\ \A f \in 1..MaxFunctors :
              (Looping /\ f \in early) ~> (IsStarted(f) \/ ~Looping \/ SelfBlocked)
        /\ (Looping /\ quit) ~> (~Looping \/ SelfBlocked)
=============================================================================
