----------------------------- MODULE AsyncServer -----------------------------
(***************************************************************************)
(* AsyncServer (src/src/coro/AsyncServer.cc) with its AsyncConnections and *)
(* the coroutines of examples/coro_echo_server.cc: acceptors (runServer)   *)
(* take connections out of pendingConnections_ and spawn a handler         *)
(* (handleClient) for each.  onConnection() runs on I/O threads; acceptors *)
(* run on the thread of the base loop, where they are also resumed, and    *)
(* spawn() runs a handler there, nested, until it suspends.                *)
(***************************************************************************)
EXTENDS AsyncConnection, FiniteSets

CONSTANT Acceptors      \* coroutines that call accept() in a loop

ASSUME AcceptorsAssumption == None \notin Acceptors /\ IsFiniteSet(Acceptors)

VARIABLES
    pendingConnections,     \* pendingConnections_
    acceptCoroutine,        \* acceptCoroutine_, or None
    resumeQueue,            \* acceptors whose resume is queued on the base loop
    acceptPc,               \* where each acceptor is (AcceptPcs below)
    accepted,               \* history: connections returned by accept(), in order
    threw                   \* history: await_resume() found no connection

(***************************************************************************)
(* idle      not spawned            suspend   await_ready() was false      *)
(* call      about to accept()      waiting   suspended                    *)
(* resume    in await_resume()      rebind    moving the front, mutex held *)
(* accepted  accept() has returned  rebind2   moving it into the frame     *)
(* spawned   inside spawn(), where the handler runs until it suspends      *)
(***************************************************************************)
AcceptPcs == {"idle", "call", "suspend", "waiting", "resume", "rebind", "accepted",
              "rebind2", "spawned"}

serverVars == <<pendingConnections, acceptCoroutine, resumeQueue, acceptPc, accepted, threw>>
vars == <<connVars, serverVars>>

TypeOK ==
    /\ ConnTypeOK
    /\ pendingConnections \in Seq(Conns)
    /\ acceptCoroutine \in Acceptors \cup {None}
    /\ resumeQueue \in Seq(Acceptors)
    /\ acceptPc \in [Acceptors -> AcceptPcs]
    /\ accepted \in Seq(Conns)
    /\ threw \in BOOLEAN

Init ==
    /\ ConnInit
    /\ pendingConnections = <<>>
    /\ acceptCoroutine = None
    /\ resumeQueue = <<>>
    /\ acceptPc = [a \in Acceptors |-> "idle"]
    /\ accepted = <<>>
    /\ threw = FALSE

Arrivals == Len(accepted) + Len(pendingConnections)
Started == {a \in Acceptors : acceptPc[a] # "idle"}

\* The base thread is between two functors.
BaseFree == undefined = "no" /\ \A a \in Acceptors : acceptPc[a] \in {"idle", "waiting"}

At(a, label) == undefined = "no" /\ acceptPc[a] = label
Goto(a, label) == acceptPc' = [acceptPc EXCEPT ![a] = label]

\* The connection an acceptor is handing over.
Current == accepted[Len(accepted)]

-----------------------------------------------------------------------------
\* acceptCoroutine_.reset()
AcceptorAfterWake == None

\* acceptMutex_ is held by await_resume() from the move to pop_front().
OnConnection(c) ==
    /\ IoFree
    /\ c = Arrivals + 1
    /\ \A a \in Acceptors : acceptPc[a] # "rebind"
    /\ Construct(c)
    /\ pendingConnections' = Append(pendingConnections, c)
    /\ IF acceptCoroutine # None
         THEN /\ resumeQueue' = Append(resumeQueue, acceptCoroutine)
              /\ acceptCoroutine' = AcceptorAfterWake
         ELSE UNCHANGED <<resumeQueue, acceptCoroutine>>
    /\ UNCHANGED <<acceptPc, accepted, threw>>

\* spawn(&loop, runServer(...)).
StartAcceptor(a) ==
    /\ BaseFree
    /\ acceptPc[a] = "idle"
    /\ Goto(a, "call")
    /\ UNCHANGED <<connVars, pendingConnections, acceptCoroutine, resumeQueue, accepted, threw>>

\* AcceptAwaiter::await_ready().
AwaitReady(a) ==
    /\ At(a, "call")
    /\ Goto(a, IF pendingConnections = <<>> THEN "suspend" ELSE "resume")
    /\ UNCHANGED <<connVars, pendingConnections, acceptCoroutine, resumeQueue, accepted, threw>>

\* The second look, under acceptMutex_, and its early return.
ConnectionCame_Unchecked == FALSE
ConnectionCame == pendingConnections # <<>>
StoresAcceptor_Always == TRUE
StoresAcceptor == ~ConnectionCame

\* AcceptAwaiter::await_suspend(): a second acceptor overwrites the first.
AwaitSuspend(a) ==
    /\ At(a, "suspend")
    /\ Goto(a, "waiting")
    /\ resumeQueue' = IF ConnectionCame THEN Append(resumeQueue, a) ELSE resumeQueue
    /\ acceptCoroutine' = IF StoresAcceptor THEN a ELSE acceptCoroutine
    /\ UNCHANGED <<connVars, pendingConnections, accepted, threw>>

\* The functor h.resume() on the base loop.
ResumeAcceptor ==
    /\ BaseFree
    /\ resumeQueue # <<>>
    /\ Goto(Head(resumeQueue), "resume")
    /\ resumeQueue' = Tail(resumeQueue)
    /\ UNCHANGED <<connVars, pendingConnections, acceptCoroutine, accepted, threw>>

\* await_resume() without a connection throws; runServer() catches and accepts again.
AwaitThrows(a) ==
    /\ At(a, "resume")
    /\ pendingConnections = <<>>
    /\ threw' = TRUE
    /\ Goto(a, "call")
    /\ UNCHANGED <<connVars, pendingConnections, acceptCoroutine, resumeQueue, accepted>>

PopFront_Forgotten == pendingConnections
PopFront == Tail(pendingConnections)

\* await_resume(): the front is moved into conn ...
AwaitResume(a) ==
    /\ At(a, "resume")
    /\ pendingConnections # <<>>
    /\ MoveData(Head(pendingConnections), "local")
    /\ accepted' = Append(accepted, Head(pendingConnections))
    /\ pendingConnections' = PopFront
    /\ Goto(a, "rebind")
    /\ UNCHANGED <<acceptCoroutine, resumeQueue, threw>>

\* ... its callbacks follow, pop_front() destroys the source, the mutex is free.
Accepted(a) ==
    /\ At(a, "rebind")
    /\ BindCallbacks(Current, "local")
    /\ Goto(a, "accepted")
    /\ UNCHANGED <<tcp, holder, dataVars, waitVars, coVars, undefined, pendingConnections,
                   acceptCoroutine, resumeQueue, accepted, threw>>

\* handleClient(std::move(conn)): the parameter is moved into the new frame ...
CallHandler(a) ==
    /\ At(a, "accepted")
    /\ MoveData(Current, "frame")
    /\ Goto(a, "rebind2")
    /\ UNCHANGED <<pendingConnections, acceptCoroutine, resumeQueue, accepted, threw>>

\* ... and spawn() starts the handler at once, on this thread.
SpawnHandler(a) ==
    /\ At(a, "rebind2")
    /\ BindCallbacks(Current, "frame")
    /\ co' = Set(co, Current, "run")
    /\ Goto(a, "spawned")
    /\ UNCHANGED <<tcp, holder, dataVars, waitVars, onIo, received, emptyRecv, undefined,
                   pendingConnections, acceptCoroutine, resumeQueue, accepted, threw>>

\* spawn() returns when the handler has suspended or finished (it may have been
\* resumed by its I/O thread since); the loop accepts again.
SpawnReturns(a) ==
    /\ At(a, "spawned")
    /\ Running(Current) => onIo[Current]
    /\ Goto(a, "call")
    /\ UNCHANGED <<connVars, pendingConnections, acceptCoroutine, resumeQueue, accepted, threw>>

-----------------------------------------------------------------------------
AcceptorStep(a) ==
    \/ AwaitReady(a)
    \/ AwaitSuspend(a)
    \/ AwaitThrows(a)
    \/ AwaitResume(a)
    \/ Accepted(a)
    \/ CallHandler(a)
    \/ SpawnHandler(a)
    \/ SpawnReturns(a)

CleanupStep(c) == BaseFree /\ Cleanup(c) /\ UNCHANGED serverVars

Next ==
    \/ \E c \in Conns : \/ OnConnection(c)
                        \/ (PeerStep(c) \/ IoStep(c) \/ HandlerStep(c)) /\ UNCHANGED serverVars
                        \/ CleanupStep(c)
    \/ \E a \in Acceptors : StartAcceptor(a) \/ AcceptorStep(a)
    \/ ResumeAcceptor

Spec == Init /\ [][Next]_vars

(***************************************************************************)
(* Fairness: the base loop and the I/O loops run what is queued on them    *)
(* (QueuedFunctorStarts of EventLoop), handlers get on between two         *)
(* co_await, and a connected peer reads what it is sent.  Nobody has to    *)
(* connect, send, close or start an acceptor.                              *)
(***************************************************************************)
FairSpec ==
    /\ Spec
    /\ \A c \in Conns : /\ WF_vars(IoStep(c) /\ UNCHANGED serverVars)
                        /\ WF_vars(HandlerStep(c) /\ UNCHANGED serverVars)
                        /\ WF_vars(CleanupStep(c))
    /\ \A a \in Acceptors : WF_vars(AcceptorStep(a))
    /\ WF_vars(ResumeAcceptor)

-----------------------------------------------------------------------------
(* Properties.                                                              *)

LQ == INSTANCE LoopQueue WITH
        MaxFunctors <- MaxConns,
        submitted <- Arrivals,
        queue <- pendingConnections,
        done <- accepted

\* accept() hands out every connection once, in the order of onConnection(),
\* whatever the number of acceptors.
AcceptsInOrder == LQ!Spec

\* "No pending connection (shouldn't happen)": it does not, as long as only one
\* coroutine accepts. The state is well typed.
ThrowNeedsTwoAcceptors == TypeOK /\ (threw => Cardinality(Started) > 1)

\* Once some coroutine accepts, every connection gets its handler, even if
\* acceptors overwrite each other's handle.
EveryConnectionHandled ==
    \A c \in Conns : (tcp[c] # None /\ Started # {}) ~> (co[c] # None \/ undefined # "no")
=============================================================================
