--------------------------- MODULE TcpConnection ---------------------------
(***************************************************************************)
(* One TcpConnection (src/src/net/TcpConnection.cc) on its I/O loop, with  *)
(* its Channel, its registration in the Poller's kqueue and its socket:    *)
(* the life cycle of state_, the output path (sendInLoop, outputBuffer_,   *)
(* handleWrite, shutdownInLoop) and the dispatch of kevents, while the     *)
(* peer sends, half-closes or resets and other threads call send(),        *)
(* shutdown() and forceClose().                                            *)
(*                                                                         *)
(* Functors for the loop go through one FIFO queue: what LoopQueue         *)
(* promises and EventLoop is shown to implement.  Outgoing bytes are       *)
(* numbered in the order in which sendInLoop() takes them; of incoming     *)
(* bytes only the number matters.                                          *)
(***************************************************************************)
EXTENDS Naturals, Sequences, FiniteSets

CONSTANTS
    Clients,     \* threads other than the I/O loop's that hold the connection
    MsgLens,     \* lengths of the messages given to send()
    SendBuffer,  \* bytes the kernel takes before write() would block
    ReadChunk,   \* bytes one readFd() takes at most
    Echo,        \* TRUE: the message callback is that of echo_server.cc
    MaxIn,       \* bound: bytes the peer sends
    MaxCalls     \* bound: calls of send(), shutdown() and forceClose()

ASSUME SizesAssumption ==
    /\ MsgLens \subseteq Nat \ {0}
    /\ SendBuffer \in Nat \ {0}
    /\ ReadChunk \in Nat \ {0}
    /\ MaxIn \in Nat
    /\ MaxCalls \in Nat
    /\ Echo \in BOOLEAN

States == {"Connecting", "Connected", "Disconnecting", "Disconnected"}
Filters == {"read", "write"}        \* kReadEvent, kWriteEvent; EVFILT_READ, EVFILT_WRITE

\* The functors that send(), shutdown() and forceClose() hand to the loop, and
\* those of the server.
Calls == {[op |-> "shutdown"], [op |-> "close"]}
         \cup {[op |-> "send", len |-> n] : n \in MsgLens}
NoCall == [op |-> "none"]
Functors == Calls \cup {[op |-> "established"], [op |-> "destroyed"]}

VARIABLES
    state,         \* state_
    events,        \* Channel::events_
    kq,            \* the filters of the socket registered in the kqueue
    revents,       \* Channel::revents_
    dispatches,    \* occurrences of the channel left in activeChannels_
    pc,            \* the loop thread: see Pcs
    outputBuffer,  \* outputBuffer_
    wire,          \* history: bytes handed to the kernel
    accepted,      \* history: number of bytes sendInLoop() took charge of
    room,          \* free space of the kernel's send buffer
    wrShut,        \* shutdown(fd, SHUT_WR) done
    peer,          \* "open", "fin" (half-closed) or "reset"
    inbound,       \* unread bytes in the kernel's receive buffer
    peerSent,      \* bytes the peer has sent
    received,      \* history: bytes given to the message callback
    owed,          \* Echo: bytes the callback has read and not yet passed to send()
    queue,         \* functors queued to the I/O loop
    checked,       \* per client: the call between its test of state_ and its functor
    inMap,         \* TcpServer::connections_ holds the connection
    closed,        \* history: handleClose() has run
    calls          \* counter for MaxCalls

channelVars == <<events, kq>>
outVars  == <<outputBuffer, wire, accepted, room>>
inVars   == <<peer, inbound, peerSent, received, owed>>
loopVars == <<pc, revents, dispatches>>
userVars == <<checked, calls>>
vars == <<state, channelVars, outVars, wrShut, inVars, loopVars, queue,
          userVars, inMap, closed>>

(***************************************************************************)
(* loop       between two dispatches or two functors                       *)
(* close, read, write    at that test of Channel::handleEventWithGuard()   *)
(* message    in the message callback                                      *)
(* connection in the connection callback of connectEstablished()           *)
(***************************************************************************)
Pcs == {"loop", "close", "read", "write", "message", "connection"}

TypeOK ==
    /\ state \in States
    /\ events \in SUBSET Filters
    /\ kq \in SUBSET Filters
    /\ revents \in SUBSET (Filters \cup {"close"})
    /\ dispatches \in 0..2
    /\ pc \in Pcs
    /\ outputBuffer \in Seq(Nat)
    /\ wire \in Seq(Nat)
    /\ accepted \in Nat
    /\ room \in 0..SendBuffer
    /\ wrShut \in BOOLEAN
    /\ peer \in {"open", "fin", "reset"}
    /\ inbound \in 0..MaxIn
    /\ peerSent \in 0..MaxIn
    /\ received \in 0..MaxIn
    /\ owed \in 0..MaxIn
    /\ queue \in Seq(Functors)
    /\ checked \in [Clients -> Calls \cup {NoCall}]
    /\ inMap \in BOOLEAN
    /\ closed \in BOOLEAN
    /\ calls \in 0..MaxCalls

\* TcpServer::newConnection() has stored the connection and queued
\* connectEstablished() to its loop.
Init ==
    /\ state = "Connecting"
    /\ events = {}
    /\ kq = {}
    /\ revents = {}
    /\ dispatches = 0
    /\ pc = "loop"
    /\ outputBuffer = <<>>
    /\ wire = <<>>
    /\ accepted = 0
    /\ room = SendBuffer
    /\ wrShut = FALSE
    /\ peer = "open"
    /\ inbound = 0
    /\ peerSent = 0
    /\ received = 0
    /\ owed = 0
    /\ queue = <<[op |-> "established"]>>
    /\ checked = [t \in Clients |-> NoCall]
    /\ inMap = TRUE
    /\ closed = FALSE
    /\ calls = 0

Least(m, n) == IF m <= n THEN m ELSE n

-----------------------------------------------------------------------------
(* Channel and Poller.                                                      *)

KqUpdate_AllChanges(ev) == ev

\* Poller::updateChannel(): one kevent() call with a change for READ, then one
\* for WRITE.  There is no event list, so the call stops at the first change
\* that fails: deleting a READ filter that is not registered (ENOENT) leaves
\* the WRITE filter as it was.
KqUpdate(ev) == IF "read" \notin ev /\ "read" \notin kq THEN kq ELSE ev

SetEvents(ev) ==
    /\ events' = ev
    /\ kq' = KqUpdate(ev)

IsWriting == "write" \in events

\* write() fails with EPIPE or ECONNRESET.
BrokenPipe == wrShut \/ peer = "reset"

-----------------------------------------------------------------------------
(* The methods that run on the loop thread, as effects on the connection.   *)

\* sendInLoop() writes at once when nothing is buffered or watched for.
WritesDirectly_Always == TRUE
WritesDirectly == ~IsWriting /\ outputBuffer = <<>>

\* What was not written is buffered: watch for the socket to become writable.
WatchForRest_Missing(rest) == UNCHANGED channelVars
WatchForRest(rest) ==
    IF rest > 0 /\ ~IsWriting
      THEN SetEvents(events \cup {"write"})
      ELSE UNCHANGED channelVars

\* sendInLoop(): what is not written directly goes behind outputBuffer_.
SendInLoop(len) ==
    LET fresh == [i \in 1..len |-> accepted + i]
        n     == IF WritesDirectly THEN Least(room, len) ELSE 0
    IN  IF WritesDirectly /\ BrokenPipe
          THEN UNCHANGED <<outVars, channelVars>>
          ELSE /\ accepted' = accepted + len
               /\ wire' = wire \o SubSeq(fresh, 1, n)
               /\ room' = room - n
               /\ outputBuffer' = outputBuffer \o SubSeq(fresh, n + 1, len)
               /\ WatchForRest(len - n)

ShutdownInLoop_Unconditional == wrShut' = TRUE

\* shutdownInLoop(): half-close unless output is still being written.
ShutdownInLoop == wrShut' = (wrShut \/ ~IsWriting)

EventsAfterClose_Kept == events
EventsAfterClose == {}      \* disableAll()

\* handleClose(); the close callback is TcpServer::removeConnection(), which
\* ServerRemove below carries out on the base loop.
HandleClose ==
    /\ state' = "Disconnected"
    /\ SetEvents(EventsAfterClose)
    /\ closed' = TRUE

-----------------------------------------------------------------------------
(* The loop thread.                                                         *)

ReadEvent == "read" \in kq /\ (inbound > 0 \/ peer # "open")
WriteEvent == "write" \in kq /\ (room > 0 \/ BrokenPipe)

\* The revents that fillActiveChannels() makes of a kevent of each filter.
ReventsOf(f) ==
    {f} \cup (IF peer = "reset" \/ (f = "read" /\ peer = "fin") THEN {"close"} ELSE {})

Fired == (IF ReadEvent THEN {"read"} ELSE {}) \cup (IF WriteEvent THEN {"write"} ELSE {})

\* poll(): READ and WRITE are separate kevents.  When both fire the channel is
\* in activeChannels_ twice, and setRevents() keeps the flags of the last only.
Poll ==
    /\ pc = "loop" /\ dispatches = 0
    /\ \E last \in Fired : revents' = ReventsOf(last)
    /\ dispatches' = Cardinality(Fired)
    /\ UNCHANGED <<state, channelVars, outVars, wrShut, inVars, pc, queue,
                   userVars, inMap, closed>>

\* handleEvent(): the error callback does nothing, so the close test is first.
Dispatch ==
    /\ pc = "loop" /\ dispatches > 0
    /\ dispatches' = dispatches - 1
    /\ pc' = "close"
    /\ UNCHANGED <<state, channelVars, outVars, wrShut, inVars, revents, queue,
                   userVars, inMap, closed>>

CloseTest ==
    /\ pc = "close"
    /\ pc' = "read"
    /\ IF "close" \in revents
         THEN HandleClose
         ELSE UNCHANGED <<state, channelVars, closed>>
    /\ UNCHANGED <<outVars, wrShut, inVars, revents, dispatches, queue, userVars, inMap>>

\* What is left in the socket after n bytes were read.
Unread(n) == inbound - n

\* handleRead(): data goes to the message callback, end of file closes, and an
\* error (EAGAIN, ECONNRESET) is passed to handleError(), which is empty.
ReadTest ==
    /\ pc = "read"
    /\ LET n == IF "read" \in revents /\ peer # "reset" THEN Least(inbound, ReadChunk) ELSE 0
           eof == "read" \in revents /\ inbound = 0 /\ peer = "fin"
       IN  /\ inbound' = Unread(n)
           /\ received' = received + n
           /\ owed' = IF Echo THEN owed + n ELSE owed
           /\ pc' = IF n > 0 THEN "message" ELSE "write"
           /\ IF eof THEN HandleClose ELSE UNCHANGED <<state, channelVars, closed>>
    /\ UNCHANGED <<outVars, wrShut, peer, peerSent, revents, dispatches, queue,
                   userVars, inMap>>

\* A shutdown() that found output buffered is carried out when it is drained
\* (WRITE interest has just been dropped, so shutdownInLoop() half-closes).
LateShutdown_Forgotten(drained) == UNCHANGED wrShut
LateShutdown(drained) == wrShut' = (wrShut \/ (drained /\ state = "Disconnecting"))

\* handleWrite(): writes what the kernel takes; once all is out, WRITE interest
\* is dropped and a pending shutdown() is carried out.
WriteTest ==
    /\ pc = "write"
    /\ pc' = "loop"
    /\ LET n == IF "write" \in revents /\ IsWriting /\ ~BrokenPipe
                  THEN Least(room, Len(outputBuffer)) ELSE 0
           drained == n > 0 /\ n = Len(outputBuffer)
       IN  /\ wire' = wire \o SubSeq(outputBuffer, 1, n)
           /\ outputBuffer' = SubSeq(outputBuffer, n + 1, Len(outputBuffer))
           /\ room' = room - n
           /\ IF drained THEN SetEvents(events \ {"write"}) ELSE UNCHANGED channelVars
           /\ LateShutdown(drained)
    /\ UNCHANGED <<state, accepted, inVars, revents, dispatches, queue,
                   userVars, inMap, closed>>

\* The callback returns: handleEventWithGuard() goes on with the write test,
\* connectEstablished() ends.
EndCallback ==
    /\ \/ pc = "message" /\ pc' = "write"
       \/ pc = "connection" /\ pc' = "loop"
    /\ owed = 0
    /\ UNCHANGED <<state, channelVars, outVars, wrShut, inVars, revents, dispatches,
                   queue, userVars, inMap, closed>>

-----------------------------------------------------------------------------
(* Functors, run once the active channels are dispatched.                   *)

RunFunctor(op) ==
    /\ pc = "loop" /\ dispatches = 0
    /\ queue # <<>>
    /\ Head(queue).op = op
    /\ queue' = Tail(queue)

\* connectEstablished()
ConnectEstablished ==
    /\ RunFunctor("established")
    /\ state' = "Connected"
    /\ SetEvents(events \cup {"read"})
    /\ pc' = "connection"
    /\ UNCHANGED <<outVars, wrShut, inVars, revents, dispatches, userVars, inMap, closed>>

RunSend ==
    /\ RunFunctor("send")
    /\ SendInLoop(Head(queue).len)
    /\ UNCHANGED <<state, wrShut, inVars, loopVars, userVars, inMap, closed>>

RunShutdown ==
    /\ RunFunctor("shutdown")
    /\ ShutdownInLoop
    /\ UNCHANGED <<state, channelVars, outVars, inVars, loopVars, userVars, inMap, closed>>

RunClose ==
    /\ RunFunctor("close")
    /\ HandleClose
    /\ UNCHANGED <<outVars, wrShut, inVars, loopVars, userVars, inMap>>

\* connectDestroyed(); index_ is never set, so the channel is never removed.
ConnectDestroyed ==
    /\ RunFunctor("destroyed")
    /\ IF state = "Connected" THEN SetEvents({}) ELSE UNCHANGED channelVars
    /\ state' = "Disconnected"
    /\ UNCHANGED <<outVars, wrShut, inVars, loopVars, userVars, inMap, closed>>

\* TcpServer::removeConnectionInLoop() on the base loop: once per connection,
\* however often handleClose() asked for it.
ServerRemove ==
    /\ closed
    /\ inMap
    /\ inMap' = FALSE
    /\ queue' = Append(queue, [op |-> "destroyed"])
    /\ UNCHANGED <<state, channelVars, outVars, wrShut, inVars, loopVars, userVars, closed>>

-----------------------------------------------------------------------------
(* The user's code in a callback, on the loop thread.                       *)

InCallback == pc \in {"message", "connection"}

LoopSend(len) ==
    /\ InCallback
    /\ calls < MaxCalls
    /\ calls' = calls + 1
    /\ IF Echo THEN owed > 0 /\ len = owed /\ owed' = 0 ELSE UNCHANGED owed
    /\ IF state = "Connected" THEN SendInLoop(len) ELSE UNCHANGED <<outVars, channelVars>>
    /\ UNCHANGED <<state, wrShut, peer, inbound, peerSent, received, loopVars, queue,
                   checked, inMap, closed>>

LoopShutdown ==
    /\ InCallback /\ ~Echo
    /\ calls < MaxCalls
    /\ calls' = calls + 1
    /\ state = "Connected"
    /\ state' = "Disconnecting"
    /\ ShutdownInLoop
    /\ UNCHANGED <<channelVars, outVars, inVars, loopVars, queue, checked, inMap, closed>>

LoopForceClose ==
    /\ InCallback /\ ~Echo
    /\ calls < MaxCalls
    /\ calls' = calls + 1
    /\ state \in {"Connected", "Disconnecting"}
    /\ HandleClose
    /\ UNCHANGED <<outVars, wrShut, inVars, loopVars, queue, checked, inMap>>

-----------------------------------------------------------------------------
(* Other threads: between the test of state_ and what follows it there is no *)
(* lock, so a functor may be queued behind another thread's shutdown().     *)

\* The test of state_ in send(), in shutdown() and in forceClose().
ClientCheck(t, call) ==
    /\ checked[t] = NoCall
    /\ calls < MaxCalls
    /\ calls' = calls + 1
    /\ state = "Connected" \/ (call.op = "close" /\ state = "Disconnecting")
    /\ checked' = [checked EXCEPT ![t] = call]
    /\ UNCHANGED <<state, channelVars, outVars, wrShut, inVars, loopVars, queue,
                   inMap, closed>>

\* The assignment of state_ in shutdown() and forceClose(), and the hand-over to
\* the loop.
ClientAct(t) ==
    /\ checked[t] # NoCall
    /\ checked' = [checked EXCEPT ![t] = NoCall]
    /\ state' = IF checked[t].op = "send" THEN state ELSE "Disconnecting"
    /\ queue' = Append(queue, checked[t])
    /\ UNCHANGED <<channelVars, outVars, wrShut, inVars, loopVars, calls, inMap, closed>>

-----------------------------------------------------------------------------
(* The peer and the network.                                                *)

PeerSends ==
    /\ peer = "open"
    /\ peerSent < MaxIn
    /\ peerSent' = peerSent + 1
    /\ inbound' = inbound + 1
    /\ UNCHANGED <<state, channelVars, outVars, wrShut, peer, received, owed, loopVars,
                   queue, userVars, inMap, closed>>

\* The peer closes its sending side (what "echo hello | nc" does).
PeerFin ==
    /\ peer = "open"
    /\ peer' = "fin"
    /\ UNCHANGED <<state, channelVars, outVars, wrShut, inbound, peerSent, received,
                   owed, loopVars, queue, userVars, inMap, closed>>

\* A reset; what is unread or unsent in the kernel is gone.
PeerReset ==
    /\ peer # "reset"
    /\ peer' = "reset"
    /\ inbound' = 0
    /\ UNCHANGED <<state, channelVars, outVars, wrShut, peerSent, received, owed,
                   loopVars, queue, userVars, inMap, closed>>

\* The peer reads and acknowledges: the send buffer has room again.
PeerAcks ==
    /\ peer # "reset"
    /\ room < SendBuffer
    /\ room' = SendBuffer
    /\ UNCHANGED <<state, channelVars, outputBuffer, wire, accepted, wrShut, inVars,
                   loopVars, queue, userVars, inMap, closed>>

-----------------------------------------------------------------------------
LoopStep ==
    \/ Dispatch
    \/ CloseTest
    \/ ReadTest
    \/ WriteTest
    \/ EndCallback
    \/ ConnectEstablished
    \/ RunSend
    \/ RunShutdown
    \/ RunClose
    \/ ConnectDestroyed

UserStep ==
    \/ \E len \in MsgLens : LoopSend(len)
    \/ LoopShutdown
    \/ LoopForceClose
    \/ ~Echo /\ \E t \in Clients :
                   \/ \E call \in Calls : ClientCheck(t, call)
                   \/ ClientAct(t)

PeerStep == PeerSends \/ PeerFin \/ PeerReset \/ PeerAcks

Next == LoopStep \/ Poll \/ ServerRemove \/ UserStep \/ PeerStep

Spec == Init /\ [][Next]_vars

(***************************************************************************)
(* Fairness: the I/O loop and the base loop run (EventLoop's liveness), a  *)
(* thread inside send(), shutdown() or forceClose() gets to its end, and a *)
(* peer that is there reads what it is sent.  It need not send or close.   *)
(***************************************************************************)
Fairness ==
    /\ WF_vars(LoopStep)
    /\ WF_vars(Poll)
    /\ WF_vars(ServerRemove)
    /\ \A t \in Clients : WF_vars(ClientAct(t))
    /\ WF_vars(PeerAcks)

FairSpec == Spec /\ Fairness

-----------------------------------------------------------------------------
(* Properties.                                                              *)

\* The bytes that reached the kernel, followed by those still buffered, are the
\* bytes sendInLoop() took, in that order: direct writes and buffered writes
\* never overtake each other, and partial writes neither lose nor repeat bytes.
StreamIntact == wire \o outputBuffer = [i \in 1..accepted |-> i]

\* The state is well typed, and until the connection is closed, output is
\* buffered exactly when the kernel is watching for the socket to become
\* writable: no stalled output, and no busy loop on a writable socket.
BufferedIffWatched ==
    /\ TypeOK
    /\ ~closed => (outputBuffer # <<>> <=> "write" \in kq)

\* After handleClose() no event of the socket is delivered any more, whatever a
\* late send() does to events_ (Poller::updateChannel stops at its first error).
ClosedIsSilent == closed => kq = {}

\* A half-close follows the last buffered byte.
FinAfterFlush ==
    [][~wrShut /\ wrShut' => closed \/ outputBuffer' = <<>>]_vars

\* shutdown() is carried out: the FIN goes out, or the connection is closed.
ShutdownCompletes == state = "Disconnecting" ~> (wrShut \/ closed)

\* A connection whose peer is gone is closed, taken out of the server's map and
\* handed its connectDestroyed().
PeerGoneReaped ==
    (peer # "open" /\ state # "Connecting") ~> (~inMap /\ queue = <<>> /\ kq = {})

\* The echo server echoes what it reads, also when the peer half-closes right
\* after sending (README.md, line 24, of coro_echo_server: "Piping immediately
\* closes nc's stdin after sending - the server echoes correctly").
EchoesWhatItReads == (owed = 0 /\ peer # "reset") => accepted = received
=============================================================================
