----------------------------- MODULE TcpServer -----------------------------
(***************************************************************************)
(* TcpServer and Acceptor (src/src/net/TcpServer.cc, Accpetor.cc) with the *)
(* connections they own, on a base loop and an I/O loop: who keeps a       *)
(* TcpConnection alive, which raw pointers to it are left in queues and in *)
(* activeChannels_, and how start(), stop(), removal and the destructor    *)
(* treat connections in each state.                                        *)
(*                                                                         *)
(* Each loop goes through the rounds of EventLoop: poll, dispatch of the   *)
(* active channels, then the batch swapped out of pendingFunctors_; the    *)
(* references captured by a functor live until the end of its batch.  The  *)
(* data path of a connection is TcpConnection's; here it is its state_.    *)
(***************************************************************************)
EXTENDS Naturals, Sequences, FiniteSets

CONSTANTS
    Conns,          \* connections that may be accepted
    Users,          \* other threads that hold connections
    Callers,        \* threads that start and destroy the server: "base" or "other"
    MaxStarts,      \* bound: calls of start()
    MaxCalls        \* bound: calls of stop(), and calls by Users on connections

ASSUME ModeAssumption ==
    /\ Callers \subseteq {"base", "other"}
    /\ MaxStarts \in Nat
    /\ MaxCalls \in Nat
    /\ IsFiniteSet(Conns)
    /\ {"none", "listener"} \cap Conns = {}

Loops == {"base", "io"}
None == "none"
States == {None, "Connecting", "Connected", "Disconnecting", "Disconnected"}

\* Functors capture a shared_ptr (established, remove, destroyed), the raw
\* "this" of a connection (shutdown, send, forceClose) or that of the server (stop).
StrongOps == {"established", "remove", "destroyed"}
RawOps == {"shutdown", "send", "forceClose"}
F(op, c) == [op |-> op, conn |-> c]

\* A channel is in activeChannels_ once for each of its kevents: <<channel, filter>>.
\* The listening socket, acceptChannel_, has only one.
Filters == {"read", "write"}
Listener == "listener"
Acceptable == <<Listener, "read">>
Events == (Conns \X Filters) \cup {Acceptable}

VARIABLES
    started,        \* started_
    connLoop,       \* the loop of new connections: "io" once setIoLoopNum() was called
    poolStarted,    \* EventLoopThreadPool::started_
    acceptor,       \* "bound", "listening" or "gone" (acceptor_.reset())
    connections,    \* connections_
    state,          \* state_ of each connection, None before it is accepted
    registered,     \* connections whose channel is registered in the kqueue
    peerGone,       \* connections whose peer has closed
    phase,          \* per loop: "poll", "dispatch" or "functors"
    active,         \* per loop: the events left in activeChannels_
    pending,        \* per loop: pendingFunctors_
    batch,          \* per loop: functors of the batch still to run
    ran,            \* per loop: connections captured by functors of the batch that ran
    stopping,       \* connections the stop functor has still to shut down
    stopChecked,    \* the one whose state_ it has tested, or None
    holds,          \* per user: the connection it has a shared_ptr to, or None
    taken,          \* history: connections a user has held
    checked,        \* per user: the call whose test of state_ succeeded, or None
    destroyedRuns,  \* history: connectDestroyed() calls per connection
    starts,         \* counter for MaxStarts
    calls,          \* counter for MaxCalls
    ended           \* one of Ends

connVars == <<state, registered, peerGone, destroyedRuns, connLoop>>
loopVars == <<phase, active, batch, ran>>
stopVars == <<stopping, stopChecked>>
userVars == <<holds, taken, checked>>
serverVars == <<started, poolStarted, acceptor, connections, starts>>
vars == <<serverVars, connVars, loopVars, pending, stopVars, userVars, calls, ended>>

\* The server is in use; destroyed; its pool replaced; the process aborted in start()
\* on another thread, in a second start() or in the destructor; undefined behaviour.
Ends == {"no", "destroyed", "replaced", "start", "restart", "destructor", "undefined"}

Functors == [op : StrongOps \cup RawOps, conn : Conns] \cup {F("stop", None)}

TypeOK ==
    /\ started \in BOOLEAN
    /\ connLoop \in Loops
    /\ poolStarted \in BOOLEAN
    /\ acceptor \in {"bound", "listening", "gone"}
    /\ connections \in SUBSET Conns
    /\ state \in [Conns -> States]
    /\ registered \in SUBSET Conns
    /\ peerGone \in SUBSET Conns
    /\ phase \in [Loops -> {"poll", "dispatch", "functors"}]
    /\ active \in [Loops -> SUBSET Events]
    /\ pending \in [Loops -> Seq(Functors)]
    /\ batch \in [Loops -> Seq(Functors)]
    /\ ran \in [Loops -> SUBSET Conns]
    /\ stopping \in SUBSET Conns
    /\ stopChecked \in Conns \cup {None}
    /\ holds \in [Users -> Conns \cup {None}]
    /\ taken \in SUBSET Conns
    /\ checked \in [Users -> RawOps \cup {None}]
    /\ destroyedRuns \in [Conns -> Nat]
    /\ starts \in 0..MaxStarts
    /\ calls \in 0..MaxCalls
    /\ ended \in Ends

Init ==
    /\ started = FALSE
    /\ connLoop = "base"
    /\ poolStarted = FALSE
    /\ acceptor = "bound"
    /\ connections = {}
    /\ state = [c \in Conns |-> None]
    /\ registered = {}
    /\ peerGone = {}
    /\ phase = [l \in Loops |-> "poll"]
    /\ active = [l \in Loops |-> {}]
    /\ pending = [l \in Loops |-> <<>>]
    /\ batch = [l \in Loops |-> <<>>]
    /\ ran = [l \in Loops |-> {}]
    /\ stopping = {}
    /\ stopChecked = None
    /\ holds = [u \in Users |-> None]
    /\ taken = {}
    /\ checked = [u \in Users |-> None]
    /\ destroyedRuns = [c \in Conns |-> 0]
    /\ starts = 0
    /\ calls = 0
    /\ ended = "no"

-----------------------------------------------------------------------------
(* Lifetime.                                                                *)

Captures(q, c) == \E i \in 1..Len(q) : q[i].op \in StrongOps /\ q[i].conn = c

\* Some shared_ptr to c exists (the local conns of the stop functor included).
Owned(c) ==
    \/ c \in connections
    \/ \E l \in Loops : Captures(pending[l], c) \/ Captures(batch[l], c) \/ c \in ran[l]
    \/ c \in stopping \/ c = stopChecked
    \/ \E u \in Users : holds[u] = c

Freed(c) == state[c] # None /\ ~Owned(c)

\* activeChannels_ of loop l still has the channel of c.
Listed(l, c) == \E f \in Filters : <<c, f>> \in active[l]

Enqueue(l, f) == pending' = [pending EXCEPT ![l] = Append(@, f)]

\* stop() runs its loop inside one functor: nothing else runs on the base loop.
Free(l) == ended = "no" /\ (l = "base" => stopping = {} /\ stopChecked = None)

Count == calls < MaxCalls /\ calls' = calls + 1

-----------------------------------------------------------------------------
(* start() and stop(), from any thread, and setIoLoopNum().                  *)

\* setIoLoopNum() asserts that the server is not started, and replaces the pool: a
\* new one without threads before start(), the one in use after stop().
SetIoLoopNum ==
    /\ Free("base")
    /\ ~started
    /\ IF poolStarted
         THEN ended' = "replaced" /\ UNCHANGED connLoop
         ELSE connLoop' = "io" /\ UNCHANGED ended
    /\ UNCHANGED <<serverVars, state, registered, peerGone, destroyedRuns, loopVars, pending,
                   stopVars, userVars, calls>>

\* threadPool_->start() asserts that it is called once and on the base thread;
\* there runInLoop() calls acceptor_->listen() at once.
Start(t) ==
    /\ ended = "no"
    /\ t = "base" => Free("base")
    /\ starts < MaxStarts
    /\ starts' = starts + 1
    /\ started' = TRUE
    /\ IF started
         THEN UNCHANGED <<poolStarted, acceptor, ended>>
         ELSE /\ poolStarted' = TRUE
              /\ ended' = IF t # "base" THEN "start" ELSE IF poolStarted THEN "restart" ELSE "no"
              /\ acceptor' = IF ended' = "no" THEN "listening" ELSE acceptor
    /\ UNCHANGED <<connections, connVars, loopVars, pending, stopVars, userVars, calls>>

\* stop() from another thread: runInLoop() queues its functor.
Stop ==
    /\ ended = "no"
    /\ Count
    /\ started' = FALSE
    /\ Enqueue("base", F("stop", None))
    /\ UNCHANGED <<poolStarted, acceptor, connections, starts, connVars, loopVars,
                   stopVars, userVars, ended>>

\* The functor of stop(): the acceptor goes, then every connection of the map
\* is shut down, one after the other (StopCheck, StopAct).
StopInLoop ==
    /\ acceptor' = "gone"
    /\ stopping' = connections

\* stop() on the base thread, in a functor or outside loop(): runInLoop() calls
\* the functor at once.
StopOnBase ==
    /\ Free("base")
    /\ phase["base"] # "dispatch"
    /\ Count
    /\ started' = FALSE
    /\ StopInLoop
    /\ UNCHANGED <<poolStarted, connections, starts, connVars, loopVars, pending,
                   stopChecked, userVars, ended>>

-----------------------------------------------------------------------------
(* A round of a loop.                                                       *)

\* kevent() returns: registered channels may be readable, writable or both, and one
\* whose peer has closed is readable for sure; the listening socket is, when a
\* connection waits to be accepted.  Each kevent adds its channel to the list.
Poll(l, S) ==
    /\ Free(l)
    /\ phase[l] = "poll"
    /\ \A c \in Conns, f \in Filters : <<c, f>> \in S => l = connLoop /\ c \in registered
    /\ l = connLoop => \A c \in registered \cap peerGone : <<c, "read">> \in S
    /\ Acceptable \in S => /\ l = "base"
                           /\ acceptor = "listening"
                           /\ \E c \in Conns : state[c] = None
    /\ phase' = [phase EXCEPT ![l] = "dispatch"]
    /\ active' = [active EXCEPT ![l] = S]
    /\ UNCHANGED <<serverVars, connVars, pending, batch, ran, stopVars, userVars, ended, calls>>

\* Of several removals of one connection only the first erase() finds it.
DestroyCount_Each(c, n) == n
DestroyCount(c, n) == IF c \in connections THEN 1 ELSE 0

\* queueInLoop() of connectDestroyed(), k times.
DestroyLater_RunInLoop(c, k) ==
    pending' = IF connLoop = "base"
                 THEN pending
                 ELSE [pending EXCEPT !["io"] = @ \o [i \in 1..k |-> F("destroyed", c)]]
DestroyLater_Inline(c, k) == UNCHANGED pending
DestroyLater(c, k) ==
    pending' = [pending EXCEPT ![connLoop] = @ \o [i \in 1..k |-> F("destroyed", c)]]

Erase_Kept(c) == UNCHANGED connections
Erase(c) == connections' = connections \ {c}

\* n calls of removeConnectionInLoop(), on the base loop.
RemoveConnectionInLoop(c, n) == Erase(c) /\ DestroyLater(c, DestroyCount(c, n))

DisableAll(c) == registered' = registered \ {c}

\* n calls of handleClose(): Disconnected, disableAll(), then the close callback,
\* removeConnection(): at once if this is the base loop, else queued to it.
HandleClose(c, n) ==
    /\ state' = [state EXCEPT ![c] = "Disconnected"]
    /\ DisableAll(c)
    /\ IF connLoop = "base"
         THEN RemoveConnectionInLoop(c, n)
         ELSE /\ pending' = [pending EXCEPT !["base"] = @ \o [i \in 1..n |-> F("remove", c)]]
              /\ UNCHANGED connections

\* The loop over activeChannels_ gets to an entry of channel c; the others stay.
TakeActive(l, c, f) ==
    /\ Free(l)
    /\ phase[l] = "dispatch"
    /\ <<c, f>> \in active[l]
    /\ active' = [active EXCEPT ![l] = @ \ {<<c, f>>}]

\* EOF: the close callback, then (for a read event) the read callback, which finds
\* data, or EOF again and calls handleClose() a second time.  Nothing keeps the
\* second entry of a connection from being handled after it has been closed.
DispatchEof(l, c, f) ==
    /\ TakeActive(l, c, f)
    /\ c \in peerGone
    /\ \E n \in 1..2 : HandleClose(c, n)
    /\ UNCHANGED <<started, poolStarted, acceptor, starts, peerGone, destroyedRuns, connLoop,
                   phase, batch, ran, stopVars, userVars, ended, calls>>

\* The connections a callback of c can reach on its loop: c, and the others that
\* are up.
Reach(c) == {c} \cup registered

\* Data, or room to write: the message callback may call shutdown() ...
DispatchData(l, c, f) ==
    /\ TakeActive(l, c, f)
    /\ \/ UNCHANGED state
       \/ \E d \in Reach(c) : /\ state[d] = "Connected"
                              /\ state' = [state EXCEPT ![d] = "Disconnecting"]
    /\ UNCHANGED <<serverVars, registered, peerGone, destroyedRuns, connLoop, phase, batch, ran,
                   pending, stopVars, userVars, ended, calls>>

\* ... or forceClose(), on its connection or on one that may still be in the list ...
DispatchForceClose(l, c, f) ==
    /\ TakeActive(l, c, f)
    /\ \E d \in Reach(c) : /\ state[d] \in {"Connected", "Disconnecting"}
                           /\ HandleClose(d, 1)
    /\ UNCHANGED <<started, poolStarted, acceptor, starts, peerGone, destroyedRuns, connLoop,
                   phase, batch, ran, stopVars, userVars, ended, calls>>

\* ... or, when it runs on the base loop, stop() on the server.
DispatchStop(c, f) ==
    /\ connLoop = "base"
    /\ TakeActive("base", c, f)
    /\ Count
    /\ started' = FALSE
    /\ StopInLoop
    /\ UNCHANGED <<poolStarted, connections, starts, connVars, phase, batch, ran, pending,
                   stopChecked, userVars, ended>>

\* Acceptor::handleRead() and newConnection(), on the base loop; when the
\* connection stays there, connectEstablished() is called at once.
Accept(c) ==
    /\ TakeActive("base", Listener, "read")
    /\ acceptor = "listening"
    /\ state[c] = None
    /\ connections' = connections \cup {c}
    /\ IF connLoop = "base"
         THEN /\ state' = [state EXCEPT ![c] = "Connected"]
              /\ registered' = registered \cup {c}
              /\ UNCHANGED pending
         ELSE /\ state' = [state EXCEPT ![c] = "Connecting"]
              /\ Enqueue("io", F("established", c))
              /\ UNCHANGED registered
    /\ UNCHANGED <<started, poolStarted, acceptor, starts, peerGone, destroyedRuns, connLoop,
                   phase, batch, ran, stopVars, userVars, ended, calls>>

\* handleEvent() on the channel of an acceptor that has been destroyed.
DispatchDangling ==
    /\ TakeActive("base", Listener, "read")
    /\ acceptor = "gone"
    /\ ended' = "undefined"
    /\ UNCHANGED <<serverVars, connVars, phase, batch, ran, pending, stopVars, userVars, calls>>

\* doPendingFunctors() swaps the vectors.
Swap(l) ==
    /\ Free(l)
    /\ phase[l] = "dispatch" /\ active[l] = {}
    /\ phase' = [phase EXCEPT ![l] = "functors"]
    /\ batch' = [batch EXCEPT ![l] = pending[l]]
    /\ pending' = [pending EXCEPT ![l] = <<>>]
    /\ UNCHANGED <<serverVars, connVars, active, ran, stopVars, userVars, ended, calls>>

\* The batch is done and its captured references are dropped.
EndBatch(l) ==
    /\ Free(l)
    /\ phase[l] = "functors" /\ batch[l] = <<>>
    /\ phase' = [phase EXCEPT ![l] = "poll"]
    /\ ran' = [ran EXCEPT ![l] = {}]
    /\ UNCHANGED <<serverVars, connVars, active, batch, pending, stopVars, userVars, ended, calls>>

-----------------------------------------------------------------------------
(* Functors.                                                                *)

NextFunctor(l, op) ==
    /\ Free(l)
    /\ phase[l] = "functors"
    /\ batch[l] # <<>>
    /\ Head(batch[l]).op = op

\* The functor has run; what it captured stays in the vector of the batch.
PopFunctor(l) ==
    /\ batch' = [batch EXCEPT ![l] = Tail(@)]
    /\ ran' = [ran EXCEPT ![l] =
                 @ \cup (IF Head(batch[l]).op \in StrongOps THEN {Head(batch[l]).conn} ELSE {})]
    /\ UNCHANGED <<phase, active>>

RunStop ==
    /\ NextFunctor("base", "stop")
    /\ PopFunctor("base")
    /\ StopInLoop
    /\ UNCHANGED <<started, poolStarted, connections, starts, connVars, pending,
                   stopChecked, userVars, ended, calls>>

\* conn->shutdown() tests state_ ...
StopCheck(c) ==
    /\ ended = "no"
    /\ stopChecked = None
    /\ c \in stopping
    /\ stopping' = stopping \ {c}
    /\ stopChecked' = IF state[c] = "Connected" THEN c ELSE None
    /\ UNCHANGED <<serverVars, connVars, loopVars, pending, userVars, ended, calls>>

\* ... assigns it, and runs or queues shutdownInLoop() with the raw "this".
StopAct ==
    /\ ended = "no"
    /\ stopChecked # None
    /\ state' = [state EXCEPT ![stopChecked] = "Disconnecting"]
    /\ IF connLoop = "base"
         THEN UNCHANGED pending
         ELSE Enqueue("io", F("shutdown", stopChecked))
    /\ stopChecked' = None
    /\ UNCHANGED <<serverVars, registered, peerGone, destroyedRuns, connLoop, loopVars, stopping,
                   userVars, ended, calls>>

RunEstablished ==
    /\ NextFunctor("io", "established")
    /\ PopFunctor("io")
    /\ LET c == Head(batch["io"]).conn
       IN  /\ state' = [state EXCEPT ![c] = "Connected"]
           /\ registered' = registered \cup {c}
    /\ UNCHANGED <<serverVars, peerGone, destroyedRuns, connLoop, pending, stopVars, userVars, ended, calls>>

RunRemove ==
    /\ NextFunctor("base", "remove")
    /\ PopFunctor("base")
    /\ RemoveConnectionInLoop(Head(batch["base"]).conn, 1)
    /\ UNCHANGED <<started, poolStarted, acceptor, starts, connVars, stopVars, userVars, ended, calls>>

RunDestroyed ==
    /\ NextFunctor(connLoop, "destroyed")
    /\ PopFunctor(connLoop)
    /\ LET c == Head(batch[connLoop]).conn
       IN  /\ registered' = IF state[c] = "Connected" THEN registered \ {c} ELSE registered
           /\ state' = [state EXCEPT ![c] = "Disconnected"]
           /\ destroyedRuns' = [destroyedRuns EXCEPT ![c] = @ + 1]
    /\ UNCHANGED <<serverVars, peerGone, connLoop, pending, stopVars, userVars, ended, calls>>

\* shutdownInLoop(), sendInLoop() (their effects are TcpConnection's) or
\* handleClose(), on a "this" that may dangle.
RunRaw ==
    /\ \E op \in RawOps : NextFunctor(connLoop, op)
    /\ PopFunctor(connLoop)
    /\ LET f == Head(batch[connLoop])
       IN  /\ ended' = IF Freed(f.conn) THEN "undefined" ELSE ended
           /\ IF f.op = "forceClose" /\ ~Freed(f.conn)
                THEN HandleClose(f.conn, 1)
                ELSE UNCHANGED <<state, registered, connections, pending>>
    /\ UNCHANGED <<started, poolStarted, acceptor, starts, peerGone, destroyedRuns, connLoop,
                   stopVars, userVars, calls>>

-----------------------------------------------------------------------------
(* Peers, users and the destructor.                                         *)

PeerCloses(c) ==
    /\ ended = "no"
    /\ state[c] # None /\ c \notin peerGone
    /\ peerGone' = peerGone \cup {c}
    /\ UNCHANGED <<serverVars, state, registered, destroyedRuns, connLoop, loopVars, pending,
                   stopVars, userVars, ended, calls>>

\* A user thread gets a TcpConnectionPtr from a callback ...
UserTakes(u, c) ==
    /\ ended = "no"
    /\ holds[u] = None
    /\ state[c] = "Connected" /\ Owned(c)
    /\ holds' = [holds EXCEPT ![u] = c]
    /\ taken' = taken \cup {c}
    /\ UNCHANGED <<serverVars, connVars, loopVars, pending, stopVars, checked, ended, calls>>

\* ... calls send(), shutdown() or forceClose() on it: the test of state_ ...
UserChecks(u, op) ==
    /\ ended = "no"
    /\ holds[u] # None /\ checked[u] = None
    /\ state[holds[u]] = "Connected" \/ (op = "forceClose" /\ state[holds[u]] = "Disconnecting")
    /\ Count
    /\ checked' = [checked EXCEPT ![u] = op]
    /\ UNCHANGED <<serverVars, connVars, loopVars, pending, stopVars, holds, taken, ended>>

\* ... and the hand-over of the raw "this" to the loop ...
UserActs(u) ==
    /\ ended = "no"
    /\ checked[u] # None
    /\ checked' = [checked EXCEPT ![u] = None]
    /\ state' = IF checked[u] = "send"
                  THEN state ELSE [state EXCEPT ![holds[u]] = "Disconnecting"]
    /\ Enqueue(connLoop, F(checked[u], holds[u]))
    /\ UNCHANGED <<serverVars, registered, peerGone, destroyedRuns, connLoop, loopVars, stopVars,
                   holds, taken, ended, calls>>

\* ... and lets go of it.
UserDrops(u) ==
    /\ ended = "no"
    /\ holds[u] # None /\ checked[u] = None
    /\ holds' = [holds EXCEPT ![u] = None]
    /\ UNCHANGED <<serverVars, connVars, loopVars, pending, stopVars, taken, checked,
                   ended, calls>>

\* ~TcpServer(), on the base thread once the base loop has returned, or on another
\* thread at any moment: it calls connectDestroyed(), which aborts on any other
\* thread than the connection's.
DestructorVisits == connections

Destroy(t) ==
    /\ ended = "no"
    /\ t = "base" => Free("base") /\ phase["base"] = "poll"
    /\ IF connections # {} /\ t # connLoop
         THEN ended' = "destructor" /\ UNCHANGED <<connections, state, registered, destroyedRuns>>
         ELSE /\ ended' = "destroyed"
              /\ connections' = {}
              /\ state' = [c \in Conns |-> IF c \in DestructorVisits THEN "Disconnected" ELSE state[c]]
              /\ registered' = {c \in registered : c \in DestructorVisits => state[c] # "Connected"}
              /\ destroyedRuns' = [c \in Conns |->
                                     destroyedRuns[c] + IF c \in DestructorVisits THEN 1 ELSE 0]
    /\ UNCHANGED <<started, poolStarted, acceptor, starts, peerGone, connLoop, loopVars, pending,
                   stopVars, userVars, calls>>

-----------------------------------------------------------------------------
LoopStep(l) ==
    \/ \E c \in Conns, f \in Filters :
          DispatchEof(l, c, f) \/ DispatchData(l, c, f) \/ DispatchForceClose(l, c, f)
    \/ Swap(l)
    \/ EndBatch(l)
    \/ l = "base" /\ (\/ \E c \in Conns : Accept(c)
                      \/ \E c \in Conns, f \in Filters : DispatchStop(c, f)
                      \/ DispatchDangling
                      \/ RunStop
                      \/ RunRemove
                      \/ \E c \in Conns : StopCheck(c)
                      \/ StopAct)
    \/ l = "io" /\ RunEstablished
    \/ l = connLoop /\ (RunDestroyed \/ RunRaw)

PollStep(l) == \E S \in SUBSET Events : Poll(l, S)

Next ==
    \/ SetIoLoopNum
    \/ \E t \in Callers : Start(t) \/ Destroy(t)
    \/ Stop
    \/ StopOnBase
    \/ \E l \in Loops : PollStep(l) \/ LoopStep(l)
    \/ \E c \in Conns : PeerCloses(c)
    \/ \E u \in Users : \/ \E c \in Conns : UserTakes(u, c)
                        \/ \E op \in RawOps : UserChecks(u, op)
                        \/ UserActs(u)
                        \/ UserDrops(u)

Spec == Init /\ [][Next]_vars

(***************************************************************************)
(* Fairness: both loops run, as EventLoop's liveness promises; kevent()    *)
(* returns, at the latest after its timeout.  An EOF that every poll        *)
(* reports is handled in the end (TcpConnection!PeerGoneReaped), although  *)
(* the handler may still find data first.                                  *)
(***************************************************************************)
FairSpec ==
    /\ Spec
    /\ \A l \in Loops : WF_vars(LoopStep(l)) /\ WF_vars(PollStep(l))
    /\ \A c \in Conns : SF_vars(\E l \in Loops, f \in Filters : DispatchEof(l, c, f))

-----------------------------------------------------------------------------
(* Properties.                                                              *)

RawFunctor(c) == \E l \in Loops : \E q \in {pending[l], batch[l]} : \E i \in 1..Len(q) :
                    q[i].op \in RawOps /\ q[i].conn = c

\* A functor that captured the raw "this" of a connection never outlives it, as
\* long as no other thread calls its methods: the functor that releases the
\* server's last reference is behind it in the queue of the same loop.
RawFunctorsSafe == \A c \in Conns \ taken : RawFunctor(c) => ~Freed(c)

\* "thread-safe - will dispatch to EventLoop": the same when other threads that
\* hold the connection call send(), shutdown() or forceClose().
CallsAreThreadSafe == \A c \in Conns : RawFunctor(c) => ~Freed(c)

\* A connection whose channel is still in activeChannels_ (raw pointers) is alive,
\* though a handler earlier in the list, of its other event or of another connection,
\* has closed and removed it: the reason removeConnectionInLoop() uses queueInLoop().
NoDanglingChannel == \A l \in Loops, c \in Conns : Listed(l, c) => ~Freed(c)

\* The assertion of ~TcpConnection(): a connection is freed in state
\* Disconnected, whatever state_ the stop functor wrote last (a thread that held
\* the connection may write it later still).
FreedIsDisconnected == \A c \in Conns \ taken : Freed(c) => state[c] = "Disconnected"

\* However often handleClose() asks for the removal, and with the destructor at
\* the end, connectDestroyed() is called at most once (and the state is well typed).
DestroyedOnce == TypeOK /\ \A c \in Conns : destroyedRuns[c] <= 1

\* A connection whose peer has closed is closed, removed and, unless a user
\* keeps it, freed.
ClosedPeerIsFreed ==
    \A c \in Conns :
        (c \in peerGone) ~> (Freed(c) \/ (\E u \in Users : holds[u] = c) \/ ended # "no")
=============================================================================
