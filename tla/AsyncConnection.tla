--------------------------- MODULE AsyncConnection ---------------------------
(***************************************************************************)
(* AsyncConnection (src/src/coro/AsyncConnection.cc): the coroutine side   *)
(* of a TcpConnection.  Messages arrive on the connection's I/O thread;    *)
(* the object itself is moved from place to place by the base thread until *)
(* it is a parameter in the frame of a handler coroutine, which is started *)
(* on the base thread and resumed on the I/O thread.                       *)
(*                                                                         *)
(* A move takes receivedData_ first and rebinds the callbacks afterwards,  *)
(* without a lock, so target (what the callbacks point to) and holder (the *)
(* object that owns receivedData_) differ in between.  onMessage() on any  *)
(* other object than the holder writes into a vector that was moved away   *)
(* or freed: that is undefined behaviour and ends the behaviour.           *)
(*                                                                         *)
(* Connections are numbered in the order of onConnection(), the chunks of  *)
(* data of a connection in the order of handleRead().  All connections are *)
(* on one I/O loop: what races is that thread and the base thread.  The    *)
(* handler receives and sends in any order, and returns when it likes.     *)
(***************************************************************************)
EXTENDS Naturals, Sequences

CONSTANTS
    MaxConns,       \* bound: connections
    MaxChunks       \* bound: messages of each connection

ASSUME ConnsAssumption == MaxConns \in Nat /\ MaxChunks \in [1..MaxConns -> Nat]

Conns == 1..MaxConns
None == "none"

\* The element of pendingConnections_, the local of runServer(), and the
\* parameter in the frame of handleClient().
Objects == {"pending", "local", "frame"}

VARIABLES
    tcp,            \* None, "Connected", "Eof" (closed, a last read is due), "Disconnected"
    holder,         \* the object that owns receivedData_, None once it is destroyed
    target,         \* the object the callbacks of the TcpConnection point to
    inMessage,      \* the object whose onMessage() the I/O thread has entered
    receivedData,   \* receivedData_ of the holder: chunk numbers
    recvCoroutine,  \* recvCoroutine_ is set
    sendCoroutine,  \* sendCoroutine_ is set
    resumes,        \* resume functors queued on the I/O loop
    unsent,         \* output of co_await send() that is not yet written
    co,             \* where the handler coroutine is (CoPcs below)
    onIo,           \* the handler has been resumed: it runs on the I/O thread
    arrived,        \* history: chunks read from the socket
    received,       \* history: chunks returned by co_await recv()
    emptyRecv,      \* history: connections open when recv() returned an empty buffer
    undefined       \* "no", "moved" or "freed": the object onMessage() wrongly used

(***************************************************************************)
(* run       running, between two co_await                                 *)
(* recv      in co_await recv(), await_ready() has returned false          *)
(* recvWait  suspended in recv()                                           *)
(* sendWait  suspended in send()                                           *)
(* done      at final_suspend, its cleanup queued on the base loop         *)
(* gone      frame destroyed                                               *)
(***************************************************************************)
CoPcs == {None, "run", "recv", "recvWait", "sendWait", "done", "gone"}

dataVars == <<inMessage, receivedData, arrived>>
waitVars == <<recvCoroutine, sendCoroutine, resumes, unsent>>
coVars == <<co, onIo, received, emptyRecv>>
connVars == <<tcp, holder, target, dataVars, waitVars, coVars, undefined>>

ConnTypeOK ==
    /\ tcp \in [Conns -> {None, "Connected", "Eof", "Disconnected"}]
    /\ holder \in [Conns -> Objects \cup {None}]
    /\ target \in [Conns -> Objects \cup {None}]
    /\ inMessage \in [Conns -> Objects \cup {None}]
    /\ receivedData \in [Conns -> Seq(Nat)]
    /\ recvCoroutine \in [Conns -> BOOLEAN]
    /\ sendCoroutine \in [Conns -> BOOLEAN]
    /\ resumes \in [Conns -> Nat]
    /\ unsent \in [Conns -> BOOLEAN]
    /\ co \in [Conns -> CoPcs]
    /\ onIo \in [Conns -> BOOLEAN]
    /\ arrived \in [Conns -> Nat]
    /\ received \in [Conns -> Seq(Nat)]
    /\ emptyRecv \in SUBSET Conns
    /\ undefined \in {"no", "moved", "freed"}

ConnInit ==
    /\ tcp = [c \in Conns |-> None]
    /\ holder = [c \in Conns |-> None]
    /\ target = [c \in Conns |-> None]
    /\ inMessage = [c \in Conns |-> None]
    /\ receivedData = [c \in Conns |-> <<>>]
    /\ recvCoroutine = [c \in Conns |-> FALSE]
    /\ sendCoroutine = [c \in Conns |-> FALSE]
    /\ resumes = [c \in Conns |-> 0]
    /\ unsent = [c \in Conns |-> FALSE]
    /\ co = [c \in Conns |-> None]
    /\ onIo = [c \in Conns |-> FALSE]
    /\ arrived = [c \in Conns |-> 0]
    /\ received = [c \in Conns |-> <<>>]
    /\ emptyRecv = {}
    /\ undefined = "no"

Running(c) == co[c] \in {"run", "recv"}

\* The I/O thread is between two callbacks or functors.
IoFree ==
    /\ undefined = "no"
    /\ \A c \in Conns : inMessage[c] = None /\ ~(Running(c) /\ onIo[c])

Set(f, c, v) == [f EXCEPT ![c] = v]

-----------------------------------------------------------------------------
(* The object: construction, moves, destruction.                            *)

\* AsyncConnection(conn) in onConnection() and the move into the deque, both on
\* the I/O thread inside connectEstablished(): no message can come in between.
Construct(c) ==
    /\ tcp' = Set(tcp, c, "Connected")
    /\ holder' = Set(holder, c, "pending")
    /\ target' = Set(target, c, "pending")
    /\ UNCHANGED <<dataVars, waitVars, coVars, undefined>>

\* The member initialisers of the move constructor ...
MoveData(c, o) ==
    /\ holder' = Set(holder, c, o)
    /\ UNCHANGED <<tcp, target, dataVars, waitVars, coVars, undefined>>

\* ... and bindCallbacks(), after which the source is destroyed.
BindCallbacks(c, o) == target' = Set(target, c, o)

-----------------------------------------------------------------------------
(* Callbacks of the TcpConnection, on its I/O thread.                       *)

\* handleRead() has data and calls messageCallback_: "this" is read ...
MessageBegins(c) ==
    /\ IoFree
    /\ tcp[c] \in {"Connected", "Eof"}
    /\ arrived[c] < MaxChunks[c]
    /\ arrived' = Set(arrived, c, arrived[c] + 1)
    /\ inMessage' = Set(inMessage, c, target[c])
    /\ tcp' = IF tcp[c] = "Eof" THEN Set(tcp, c, "Disconnected") ELSE tcp
    /\ UNCHANGED <<holder, target, receivedData, waitVars, coVars, undefined>>

\* recvCoroutine_.reset() before the resume is queued.
HandleAfterMessage_Kept(c) == recvCoroutine[c]
HandleAfterMessage(c) == FALSE

\* ... and onMessage() runs on it, under recvMutex_.
OnMessage(c) ==
    /\ undefined = "no"
    /\ inMessage[c] # None
    /\ inMessage' = Set(inMessage, c, None)
    /\ IF inMessage[c] = holder[c]
         THEN /\ receivedData' = Set(receivedData, c, Append(receivedData[c], arrived[c]))
              /\ recvCoroutine' = Set(recvCoroutine, c, HandleAfterMessage(c))
              /\ resumes' = Set(resumes, c, resumes[c] + IF recvCoroutine[c] THEN 1 ELSE 0)
              /\ UNCHANGED undefined
         ELSE /\ undefined' = IF holder[c] = None THEN "freed" ELSE "moved"
              /\ UNCHANGED <<receivedData, recvCoroutine, resumes>>
    /\ UNCHANGED <<tcp, holder, target, arrived, sendCoroutine, unsent, coVars>>

\* handleClose(): the connection callback ignores it, so nobody tells the
\* AsyncConnection; the read callback of the same event may still find data.
HandleClose(c) ==
    /\ IoFree
    /\ tcp[c] = "Connected"
    /\ \E s \in {"Eof", "Disconnected"} : tcp' = Set(tcp, c, s)
    /\ UNCHANGED <<holder, target, dataVars, waitVars, coVars, undefined>>

\* onWriteComplete(): resumes the sender.
OnWriteComplete(c) ==
    /\ sendCoroutine' = Set(sendCoroutine, c, FALSE)
    /\ resumes' = Set(resumes, c, resumes[c] + IF sendCoroutine[c] THEN 1 ELSE 0)

\* Neither sendInLoop() nor handleWrite() calls writeCompleteCallback_.
CallsWriteComplete == FALSE

\* The last byte of a send() is written.
Flush(c) ==
    /\ IoFree
    /\ tcp[c] = "Connected"
    /\ unsent[c]
    /\ unsent' = Set(unsent, c, FALSE)
    /\ IF CallsWriteComplete THEN OnWriteComplete(c) ELSE UNCHANGED <<sendCoroutine, resumes>>
    /\ UNCHANGED <<tcp, holder, target, dataVars, recvCoroutine, coVars, undefined>>

-----------------------------------------------------------------------------
(* The handler coroutine and its awaiters.                                  *)

\* What await_resume() leaves behind in receivedData_.
DataAfterRecv_Copied(c) == receivedData[c]
DataAfterRecv(c) == <<>>

\* RecvAwaiter::await_resume(): the handler goes on with all the data there is.
RecvReturns(c) ==
    /\ received' = Set(received, c, received[c] \o receivedData[c])
    /\ receivedData' = Set(receivedData, c, DataAfterRecv(c))
    /\ emptyRecv' = IF receivedData[c] = <<>> /\ tcp[c] = "Connected"
                      THEN emptyRecv \cup {c} ELSE emptyRecv
    /\ co' = Set(co, c, "run")

\* while (conn.connected()) co_await conn.recv(): await_ready().
Recv(c) ==
    /\ undefined = "no"
    /\ co[c] = "run"
    /\ tcp[c] = "Connected"
    /\ IF receivedData[c] # <<>>
         THEN RecvReturns(c)
         ELSE co' = Set(co, c, "recv") /\ UNCHANGED <<received, receivedData, emptyRecv>>
    /\ UNCHANGED <<tcp, holder, target, inMessage, arrived, waitVars, onIo, undefined>>

\* The second look of await_suspend(), under recvMutex_, and its early return.
DataCame_Unchecked(c) == FALSE
DataCame(c) == receivedData[c] # <<>>
StoresHandle_Always(c) == TRUE
StoresHandle(c) == ~DataCame(c)

\* RecvAwaiter::await_suspend().
RecvSuspend(c) ==
    /\ undefined = "no"
    /\ co[c] = "recv"
    /\ co' = Set(co, c, "recvWait")
    /\ resumes' = Set(resumes, c, resumes[c] + IF DataCame(c) THEN 1 ELSE 0)
    /\ recvCoroutine' = Set(recvCoroutine, c, StoresHandle(c))
    /\ UNCHANGED <<tcp, holder, target, dataVars, sendCoroutine, unsent, onIo, received,
                   emptyRecv, undefined>>

\* The functor h.resume() on the I/O loop.
Resume(c) ==
    /\ IoFree
    /\ resumes[c] > 0
    /\ resumes' = Set(resumes, c, resumes[c] - 1)
    /\ onIo' = Set(onIo, c, TRUE)
    /\ \/ co[c] = "recvWait" /\ RecvReturns(c)
       \/ /\ co[c] = "sendWait"
          /\ co' = Set(co, c, "run")
          /\ UNCHANGED <<received, receivedData, emptyRecv>>
    /\ UNCHANGED <<tcp, holder, target, inMessage, arrived, recvCoroutine, sendCoroutine,
                   unsent, undefined>>

\* co_await conn.send(data): suspends, and TcpConnection::send() drops the data
\* of a connection that is not Connected.
Send(c) ==
    /\ undefined = "no"
    /\ co[c] = "run"
    /\ co' = Set(co, c, "sendWait")
    /\ sendCoroutine' = Set(sendCoroutine, c, TRUE)
    /\ unsent' = Set(unsent, c, tcp[c] = "Connected")
    /\ UNCHANGED <<tcp, holder, target, dataVars, recvCoroutine, resumes, onIo, received,
                   emptyRecv, undefined>>

\* The handler returns; SpawnTask's final_suspend queues its cleanup.
Return(c) ==
    /\ undefined = "no"
    /\ co[c] = "run"
    /\ co' = Set(co, c, "done")
    /\ UNCHANGED <<tcp, holder, target, dataVars, waitVars, onIo, received, emptyRecv, undefined>>

\* cleanupSpawnedTask() destroys the frame and with it the AsyncConnection,
\* whose destructor leaves the callbacks bound.
Cleanup(c) ==
    /\ undefined = "no"
    /\ co[c] = "done"
    /\ co' = Set(co, c, "gone")
    /\ holder' = Set(holder, c, None)
    /\ receivedData' = Set(receivedData, c, <<>>)
    /\ UNCHANGED <<tcp, target, inMessage, arrived, waitVars, onIo, received, emptyRecv, undefined>>

HandlerStep(c) == Recv(c) \/ RecvSuspend(c) \/ Send(c) \/ Return(c)
IoStep(c) == OnMessage(c) \/ Flush(c) \/ Resume(c)
PeerStep(c) == MessageBegins(c) \/ HandleClose(c)

-----------------------------------------------------------------------------
(* Properties.                                                              *)

\* No chunk is lost, repeated or reordered between handleRead() and the handler,
\* through every move of the object, as long as behaviour is defined.
ChunksIntact ==
    \A c \in Conns : undefined = "no" /\ holder[c] # None =>
        received[c] \o receivedData[c] =
            [i \in 1..(arrived[c] - IF inMessage[c] # None THEN 1 ELSE 0) |-> i]

\* A coroutine suspended in recv() has exactly one way to be resumed, the stored
\* handle or a queued functor, and no other coroutine state has one: it is never
\* resumed twice, nor when it is not suspended.  The handle is stored only while
\* there is no data, so no message is slept on.
OneResumePerRecv ==
    \A c \in Conns :
        /\ resumes[c] + (IF recvCoroutine[c] THEN 1 ELSE 0) =
             IF co[c] = "recvWait" THEN 1 ELSE 0
        /\ recvCoroutine[c] => receivedData[c] = <<>>

\* The handler takes an empty buffer for the end of the connection: recv() never
\* returns one while the connection is open.
NoSpuriousEof == emptyRecv = {}

\* Data that waits for a suspended recv() is handed to it.
DataIsDelivered ==
    \A c \in Conns : (co[c] = "recvWait" /\ receivedData[c] # <<>>)
                        ~> (co[c] # "recvWait" \/ undefined # "no")

\* "Suspends coroutine until data is fully written": once it is, co_await send()
\* returns, unless the connection closes meanwhile.
SendReturns ==
    \A c \in Conns : (co[c] = "sendWait" /\ ~unsent[c] /\ tcp[c] = "Connected")
                        ~> (co[c] # "sendWait" \/ tcp[c] # "Connected")

\* "Any data arriving after this point will be buffered safely": no message is
\* written into an object that has been moved from.
BufferedSafely == undefined # "moved"
=============================================================================
