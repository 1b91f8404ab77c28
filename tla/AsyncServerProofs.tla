------------------------- MODULE AsyncServerProofs -------------------------
(***************************************************************************)
(* Proofs about AsyncServer and its AsyncConnections, for any number of    *)
(* connections, messages and acceptors.                                    *)
(***************************************************************************)
EXTENDS AsyncServer, SeqLemmas, SequenceTheorems, FiniteSetTheorems, TLAPS

-----------------------------------------------------------------------------
(* The inductive invariant.                                                 *)

\* Connections are numbered as they are accepted and queued ...
OrderInv ==
    /\ \A i \in 1..Len(accepted) : accepted[i] = i
    /\ \A i \in 1..Len(pendingConnections) : pendingConnections[i] = Len(accepted) + i

\* ... one acceptor at a time is on the base thread, and the connection it hands
\* over has no handler yet ...
Busy(a) == acceptPc[a] \notin {"idle", "waiting"}
HandoverInv ==
    /\ \A a, b \in Acceptors : Busy(a) /\ Busy(b) => a = b
    /\ \A a \in Acceptors :
          acceptPc[a] \in {"rebind", "accepted", "rebind2", "spawned"} => accepted # <<>>
    /\ \A a \in Acceptors :
          acceptPc[a] \in {"rebind", "accepted", "rebind2"} => co[Len(accepted)] = None

\* ... a connection has its object from onConnection() until its handler's frame
\* is gone, and nothing has happened to it before ...
ObjectsInv ==
    /\ \A c \in Conns : tcp[c] # None <=> c <= Arrivals
    /\ \A c \in Conns : co[c] # None => c <= Len(accepted)
    /\ \A c \in Conns : (tcp[c] # None /\ co[c] # "gone") => holder[c] # None
    /\ \A c \in Conns : tcp[c] # None => target[c] # None
    /\ \A c \in Conns : tcp[c] = None =>
          arrived[c] = 0 /\ inMessage[c] = None /\ received[c] = <<>> /\ receivedData[c] = <<>>

\* ... a coroutine is resumed as OneResumePerRecv says, and finds data ...
OneResume(n, stored, pc, data) ==
    /\ n + (IF stored THEN 1 ELSE 0) = IF pc = "recvWait" THEN 1 ELSE 0
    /\ stored => data = <<>>
    /\ n > 0 => data # <<>>
ResumeInv ==
    /\ \A c \in Conns : OneResume(resumes[c], recvCoroutine[c], co[c], receivedData[c])
    /\ NoSpuriousEof

\* ... a chunk that is not in the buffer yet was read before ...
ChunkInv ==
    /\ ChunksIntact
    /\ \A c \in Conns : inMessage[c] # None => arrived[c] > 0

\* ... and the only acceptor, if there is one, is resumed for a connection that
\* is still there: its handle is stored once or queued once.
Lone == \A a, b \in Acceptors : acceptPc[a] # "idle" /\ acceptPc[b] # "idle" => a = b
HandleInv ==
    /\ ~threw
    /\ \A a \in Acceptors : acceptPc[a] = "resume" => pendingConnections # <<>>
    /\ acceptCoroutine # None => resumeQueue = <<>> /\ acceptPc[acceptCoroutine] = "waiting"
    /\ resumeQueue # <<>> => /\ Len(resumeQueue) = 1 /\ pendingConnections # <<>>
                             /\ acceptPc[Head(resumeQueue)] = "waiting"
LoneInv == Lone => HandleInv

AsyncInv ==
    TypeOK /\ OrderInv /\ HandoverInv /\ ObjectsInv /\ ResumeInv /\ ChunkInv /\ LoneInv

-----------------------------------------------------------------------------
(* The state.                                                               *)

\* The connection an acceptor hands over is the last one accepted.
LEMMA CurrentIs ==
  ASSUME TypeOK, OrderInv, accepted # <<>>
  PROVE  /\ Len(accepted) \in Conns /\ Current = Len(accepted)
<1>1. accepted \in Seq(Conns) /\ Len(accepted) \in Nat /\ Len(accepted) # 0
  BY EmptySeq, LenProperties DEF TypeOK
<1>2. Len(accepted) \in 1..Len(accepted)
  BY <1>1
<1>3. accepted[Len(accepted)] \in Conns
  BY <1>1, <1>2, ElementOfSeq
<1> QED
  BY <1>2, <1>3 DEF OrderInv, Current

\* Init establishes the type of the state.
LEMMA TypeInit ==
  Init => TypeOK
<1> SUFFICES ASSUME Init PROVE TypeOK
  OBVIOUS
<1>1. <<>> \in Seq(Nat) /\ <<>> \in Seq(Conns) /\ <<>> \in Seq(Acceptors)
  OBVIOUS
<1>2. ConnTypeOK
  BY <1>1 DEF Init, ConnInit, ConnTypeOK, CoPcs
<1>3. threw \in BOOLEAN
  BY Zenon DEF Init
<1> QED
  BY <1>1, <1>2, <1>3 DEF Init, TypeOK, AcceptPcs

\* Every step keeps the type of the state.
LEMMA TypeStep ==
  TypeOK /\ OrderInv /\ HandoverInv /\ [Next]_vars => TypeOK'
<1> SUFFICES ASSUME TypeOK, OrderInv, HandoverInv, [Next]_vars PROVE TypeOK'
  OBVIOUS
<1> USE DEF TypeOK, ConnTypeOK, serverVars, connVars, dataVars, waitVars, coVars, Set
<1>1. ASSUME NEW c \in Conns, OnConnection(c) PROVE TypeOK'
  <2>1. pendingConnections' \in Seq(Conns)
    BY <1>1, AppendProperties DEF OnConnection
  <2>2. acceptCoroutine' \in Acceptors \cup {None} /\ resumeQueue' \in Seq(Acceptors)
    <3>1. CASE acceptCoroutine = None
      BY <1>1, <3>1 DEF OnConnection
    <3>2. CASE acceptCoroutine # None
      <4>1. Append(resumeQueue, acceptCoroutine) \in Seq(Acceptors)
        BY <3>2, AppendProperties
      <4> QED
        BY <1>1, <3>2, <4>1 DEF OnConnection, AcceptorAfterWake
    <3> QED
      BY <3>1, <3>2
  <2>3. /\ tcp' \in [Conns -> {None, "Connected", "Eof", "Disconnected"}]
        /\ holder' \in [Conns -> Objects \cup {None}]
        /\ target' \in [Conns -> Objects \cup {None}]
    BY <1>1 DEF OnConnection, Construct, Objects
  <2>4. UNCHANGED <<dataVars, waitVars, coVars, undefined, acceptPc, accepted, threw>>
    BY <1>1 DEF OnConnection, Construct
  <2> QED
    BY <2>1, <2>2, <2>3, <2>4
<1>2. ASSUME NEW c \in Conns, MessageBegins(c), UNCHANGED serverVars PROVE TypeOK'
  BY <1>2 DEF MessageBegins
<1>3. ASSUME NEW c \in Conns, HandleClose(c), UNCHANGED serverVars PROVE TypeOK'
  BY <1>3 DEF HandleClose
<1>4. ASSUME NEW c \in Conns, OnMessage(c), UNCHANGED serverVars PROVE TypeOK'
  <2>1. recvCoroutine' \in [Conns -> BOOLEAN]
    BY <1>4 DEF OnMessage, HandleAfterMessage
  <2>2. receivedData' \in [Conns -> Seq(Nat)]
    <3> DEFINE more == Append(receivedData[c], arrived[c])
    <3>1. more \in Seq(Nat)
      BY AppendProperties
    <3>2. receivedData' = [receivedData EXCEPT ![c] = more] \/ receivedData' = receivedData
      BY <1>4 DEF OnMessage
    <3> HIDE DEF more
    <3> QED
      BY <3>1, <3>2
  <2>3. resumes' \in [Conns -> Nat]
    <3>1. resumes[c] + (IF recvCoroutine[c] THEN 1 ELSE 0) \in Nat
      OBVIOUS
    <3> QED
      BY <1>4, <3>1 DEF OnMessage
  <2>4. /\ inMessage' \in [Conns -> Objects \cup {None}] /\ undefined' \in {"no", "moved", "freed"}
    BY <1>4 DEF OnMessage
  <2>5. UNCHANGED <<tcp, holder, target, arrived, sendCoroutine, unsent, coVars>>
    BY <1>4 DEF OnMessage
  <2> QED
    BY <1>4, <2>1, <2>2, <2>3, <2>4, <2>5
<1>5. ASSUME NEW c \in Conns, Flush(c), UNCHANGED serverVars PROVE TypeOK'
  BY <1>5 DEF Flush, CallsWriteComplete
<1>6. ASSUME NEW c \in Conns, Resume(c), UNCHANGED serverVars PROVE TypeOK'
  <2>1. received[c] \o receivedData[c] \in Seq(Nat) /\ <<>> \in Seq(Nat)
    BY ConcatProperties
  <2>2. RecvReturns(c) => /\ received' \in [Conns -> Seq(Nat)] /\ emptyRecv' \in SUBSET Conns
                          /\ receivedData' \in [Conns -> Seq(Nat)] /\ co' \in [Conns -> CoPcs]
    <3>1. received' = Set(received, c, received[c] \o receivedData[c]) =>
             received' \in [Conns -> Seq(Nat)]
      BY <2>1
    <3> QED
      BY <2>1, <3>1 DEF RecvReturns, DataAfterRecv, CoPcs
  <2>3. /\ received' \in [Conns -> Seq(Nat)] /\ emptyRecv' \in SUBSET Conns
        /\ receivedData' \in [Conns -> Seq(Nat)] /\ co' \in [Conns -> CoPcs]
    BY <1>6, <2>2 DEF Resume, CoPcs
  <2>4. onIo' \in [Conns -> BOOLEAN]
    BY <1>6 DEF Resume
  <2>5. resumes' \in [Conns -> Nat]
    BY <1>6 DEF Resume
  <2> QED
    BY <1>6, <2>3, <2>4, <2>5 DEF Resume
<1>7. ASSUME NEW c \in Conns, Recv(c), UNCHANGED serverVars PROVE TypeOK'
  <2>1. received[c] \o receivedData[c] \in Seq(Nat) /\ <<>> \in Seq(Nat)
    BY ConcatProperties
  <2>2. RecvReturns(c) => /\ received' \in [Conns -> Seq(Nat)] /\ emptyRecv' \in SUBSET Conns
                          /\ receivedData' \in [Conns -> Seq(Nat)] /\ co' \in [Conns -> CoPcs]
    <3>1. received' = Set(received, c, received[c] \o receivedData[c]) =>
             received' \in [Conns -> Seq(Nat)]
      BY <2>1
    <3> QED
      BY <2>1, <3>1 DEF RecvReturns, DataAfterRecv, CoPcs
  <2>3. /\ received' \in [Conns -> Seq(Nat)] /\ emptyRecv' \in SUBSET Conns
        /\ receivedData' \in [Conns -> Seq(Nat)] /\ co' \in [Conns -> CoPcs]
    BY <1>7, <2>2 DEF Recv, CoPcs
  <2> QED
    BY <1>7, <2>3 DEF Recv
<1>8. ASSUME NEW c \in Conns, RecvSuspend(c), UNCHANGED serverVars PROVE TypeOK'
  BY <1>8 DEF RecvSuspend, DataCame, StoresHandle, CoPcs
<1>9. ASSUME NEW c \in Conns, Send(c), UNCHANGED serverVars PROVE TypeOK'
  BY <1>9 DEF Send, CoPcs
<1>10. ASSUME NEW c \in Conns, Return(c), UNCHANGED serverVars PROVE TypeOK'
  BY <1>10 DEF Return, CoPcs
<1>11. ASSUME NEW c \in Conns, CleanupStep(c) PROVE TypeOK'
  <2>1. receivedData' \in [Conns -> Seq(Nat)]
    BY <1>11, <<>> \in Seq(Nat) DEF CleanupStep, Cleanup
  <2> QED
    BY <1>11, <2>1 DEF CleanupStep, Cleanup, CoPcs
<1>12. ASSUME NEW a \in Acceptors, StartAcceptor(a) PROVE TypeOK'
  BY <1>12 DEF StartAcceptor, Goto, AcceptPcs
<1>13. ASSUME NEW a \in Acceptors, AwaitReady(a) PROVE TypeOK'
  BY <1>13 DEF AwaitReady, At, Goto, AcceptPcs
<1>14. ASSUME NEW a \in Acceptors, AwaitSuspend(a) PROVE TypeOK'
  BY <1>14 DEF AwaitSuspend, At, Goto, ConnectionCame, StoresAcceptor, AcceptPcs
<1>15. CASE ResumeAcceptor
  BY <1>15 DEF ResumeAcceptor, Goto, AcceptPcs
<1>16. ASSUME NEW a \in Acceptors, AwaitThrows(a) PROVE TypeOK'
  BY <1>16 DEF AwaitThrows, At, Goto, AcceptPcs
<1>17. ASSUME NEW a \in Acceptors, AwaitResume(a) PROVE TypeOK'
  <2>1. /\ pendingConnections # <<>> /\ Head(pendingConnections) \in Conns
        /\ Tail(pendingConnections) \in Seq(Conns)
    BY <1>17, HeadTailProperties DEF AwaitResume
  <2>2. Append(accepted, Head(pendingConnections)) \in Seq(Conns)
    BY <2>1, AppendProperties
  <2> QED
    BY <1>17, <2>1, <2>2 DEF AwaitResume, At, Goto, MoveData, PopFront, AcceptPcs, Objects
<1>18. ASSUME NEW a \in Acceptors, Accepted(a) PROVE TypeOK'
  <2>1. Len(accepted) \in Conns /\ Current = Len(accepted)
    BY <1>18, CurrentIs DEF Accepted, At, HandoverInv
  <2> QED
    BY <1>18, <2>1 DEF Accepted, At, Goto, BindCallbacks, Objects, AcceptPcs
<1>19. ASSUME NEW a \in Acceptors, CallHandler(a) PROVE TypeOK'
  <2>1. Len(accepted) \in Conns /\ Current = Len(accepted)
    BY <1>19, CurrentIs DEF CallHandler, At, HandoverInv
  <2> QED
    BY <1>19, <2>1 DEF CallHandler, At, Goto, MoveData, Objects, AcceptPcs
<1>20. ASSUME NEW a \in Acceptors, SpawnHandler(a) PROVE TypeOK'
  <2>1. Len(accepted) \in Conns /\ Current = Len(accepted)
    BY <1>20, CurrentIs DEF SpawnHandler, At, HandoverInv
  <2> QED
    BY <1>20, <2>1 DEF SpawnHandler, At, Goto, BindCallbacks, Objects, AcceptPcs, CoPcs
<1>21. ASSUME NEW a \in Acceptors, SpawnReturns(a) PROVE TypeOK'
  BY <1>21 DEF SpawnReturns, At, Goto, AcceptPcs
<1>22. CASE UNCHANGED vars
  BY <1>22 DEF vars
<1> QED
  BY <1>1, <1>2, <1>3, <1>4, <1>5, <1>6, <1>7, <1>8, <1>9, <1>10, <1>11, <1>12,
     <1>13, <1>14, <1>15, <1>16, <1>17, <1>18, <1>19, <1>20, <1>21, <1>22
     DEF Next, PeerStep, IoStep, HandlerStep, AcceptorStep

-----------------------------------------------------------------------------
(* The order of the connections.                                            *)

\* onConnection() appends the next connection and await_resume() moves the
\* first one: the numbers of both queues stay consecutive.
LEMMA OrderStep ==
  TypeOK /\ OrderInv /\ [Next]_vars => OrderInv'
<1> SUFFICES ASSUME TypeOK, OrderInv, [Next]_vars PROVE OrderInv'
  OBVIOUS
<1> USE DEF serverVars, connVars, dataVars, waitVars, coVars
<1>1. ASSUME NEW c \in Conns, OnConnection(c) PROVE OrderInv'
  <2>1. /\ pendingConnections \in Seq(Conns) /\ accepted' = accepted
        /\ pendingConnections' = Append(pendingConnections, c)
        /\ c = Len(accepted) + Len(pendingConnections) + 1
    BY <1>1 DEF OnConnection, Arrivals, TypeOK
  <2>2. Len(pendingConnections') = Len(pendingConnections) + 1 /\ Len(pendingConnections) \in Nat
    BY <2>1, AppendProperties, LenProperties
  <2>3. ASSUME NEW i \in 1..Len(pendingConnections')
        PROVE  pendingConnections'[i] = Len(accepted) + i
    <3>1. CASE i = Len(pendingConnections) + 1
      BY <2>1, <3>1, AppendProperties, LenProperties DEF TypeOK
    <3>2. CASE i # Len(pendingConnections) + 1
      <4>1. i \in 1..Len(pendingConnections)
        BY <2>2, <2>3, <3>2
      <4>2. pendingConnections'[i] = pendingConnections[i]
        BY <1>1, <2>1, <4>1, AppendProperties
      <4> QED
        BY <4>1, <4>2 DEF OrderInv
    <3> QED
      BY <3>1, <3>2
  <2> QED
    BY <2>1, <2>3 DEF OrderInv
<1>2. ASSUME NEW c \in Conns, MessageBegins(c), UNCHANGED serverVars PROVE OrderInv'
  BY <1>2 DEF MessageBegins, OrderInv
<1>3. ASSUME NEW c \in Conns, HandleClose(c), UNCHANGED serverVars PROVE OrderInv'
  BY <1>3 DEF HandleClose, OrderInv
<1>4. ASSUME NEW c \in Conns, OnMessage(c), UNCHANGED serverVars PROVE OrderInv'
  BY <1>4 DEF OnMessage, OrderInv
<1>5. ASSUME NEW c \in Conns, Flush(c), UNCHANGED serverVars PROVE OrderInv'
  BY <1>5 DEF Flush, OrderInv
<1>6. ASSUME NEW c \in Conns, Resume(c), UNCHANGED serverVars PROVE OrderInv'
  BY <1>6 DEF Resume, OrderInv
<1>7. ASSUME NEW c \in Conns, Recv(c), UNCHANGED serverVars PROVE OrderInv'
  BY <1>7 DEF Recv, OrderInv
<1>8. ASSUME NEW c \in Conns, RecvSuspend(c), UNCHANGED serverVars PROVE OrderInv'
  BY <1>8 DEF RecvSuspend, OrderInv
<1>9. ASSUME NEW c \in Conns, Send(c), UNCHANGED serverVars PROVE OrderInv'
  BY <1>9 DEF Send, OrderInv
<1>10. ASSUME NEW c \in Conns, Return(c), UNCHANGED serverVars PROVE OrderInv'
  BY <1>10 DEF Return, OrderInv
<1>11. ASSUME NEW c \in Conns, CleanupStep(c) PROVE OrderInv'
  BY <1>11 DEF CleanupStep, OrderInv
<1>12. ASSUME NEW a \in Acceptors, StartAcceptor(a) PROVE OrderInv'
  BY <1>12 DEF StartAcceptor, OrderInv
<1>13. ASSUME NEW a \in Acceptors, AwaitReady(a) PROVE OrderInv'
  BY <1>13 DEF AwaitReady, OrderInv
<1>14. ASSUME NEW a \in Acceptors, AwaitSuspend(a) PROVE OrderInv'
  BY <1>14 DEF AwaitSuspend, OrderInv
<1>15. CASE ResumeAcceptor
  BY <1>15 DEF ResumeAcceptor, OrderInv
<1>16. ASSUME NEW a \in Acceptors, AwaitThrows(a) PROVE OrderInv'
  BY <1>16 DEF AwaitThrows, OrderInv
<1>17. ASSUME NEW a \in Acceptors, AwaitResume(a) PROVE OrderInv'
  <2>1. /\ pendingConnections \in Seq(Conns) /\ accepted \in Seq(Conns)
        /\ pendingConnections # <<>> /\ pendingConnections' = Tail(pendingConnections)
        /\ accepted' = Append(accepted, Head(pendingConnections))
    BY <1>17 DEF AwaitResume, PopFront, TypeOK
  <2>2. /\ Len(accepted) \in Nat /\ Len(accepted') = Len(accepted) + 1
        /\ Len(pendingConnections) \in Nat /\ Len(pendingConnections) # 0
        /\ Len(pendingConnections') = Len(pendingConnections) - 1
        /\ Head(pendingConnections) = pendingConnections[1]
        /\ Head(pendingConnections) \in Conns
    BY <2>1, HeadTailProperties, AppendProperties, LenProperties, EmptySeq
  <2>3. Head(pendingConnections) = Len(accepted) + 1
    <3>1. 1 \in 1..Len(pendingConnections)
      BY <2>2
    <3> QED
      BY <2>2, <3>1 DEF OrderInv
  <2>4. ASSUME NEW i \in 1..Len(accepted') PROVE accepted'[i] = i
    <3>1. CASE i = Len(accepted) + 1
      BY <2>1, <2>2, <2>3, <3>1, AppendProperties
    <3>2. CASE i # Len(accepted) + 1
      <4>1. i \in 1..Len(accepted)
        BY <2>2, <2>4, <3>2
      <4> QED
        BY <2>1, <2>2, <4>1, AppendProperties DEF OrderInv
    <3> QED
      BY <3>1, <3>2
  <2>5. ASSUME NEW i \in 1..Len(pendingConnections')
        PROVE  pendingConnections'[i] = Len(accepted') + i
    <3>1. i + 1 \in 1..Len(pendingConnections)
      BY <2>2, <2>5
    <3>2. pendingConnections'[i] = pendingConnections[i + 1]
      BY <2>1, <2>2, <2>5, HeadTailProperties
    <3>3. pendingConnections[i + 1] = Len(accepted) + (i + 1)
      BY <3>1 DEF OrderInv
    <3> QED
      BY <2>2, <3>2, <3>3
  <2> QED
    BY <2>4, <2>5 DEF OrderInv
<1>18. ASSUME NEW a \in Acceptors, Accepted(a) PROVE OrderInv'
  BY <1>18 DEF Accepted, OrderInv
<1>19. ASSUME NEW a \in Acceptors, CallHandler(a) PROVE OrderInv'
  BY <1>19 DEF CallHandler, OrderInv
<1>20. ASSUME NEW a \in Acceptors, SpawnHandler(a) PROVE OrderInv'
  BY <1>20 DEF SpawnHandler, OrderInv
<1>21. ASSUME NEW a \in Acceptors, SpawnReturns(a) PROVE OrderInv'
  BY <1>21 DEF SpawnReturns, OrderInv
<1>22. CASE UNCHANGED vars
  BY <1>22 DEF vars, OrderInv
<1> QED
  BY <1>1, <1>2, <1>3, <1>4, <1>5, <1>6, <1>7, <1>8, <1>9, <1>10, <1>11, <1>12,
     <1>13, <1>14, <1>15, <1>16, <1>17, <1>18, <1>19, <1>20, <1>21, <1>22
     DEF Next, PeerStep, IoStep, HandlerStep, AcceptorStep

\* The first pending connection is the one after the last accepted.
LEMMA FirstPending ==
  ASSUME TypeOK, OrderInv, pendingConnections # <<>>
  PROVE  /\ Head(pendingConnections) \in Conns /\ Head(pendingConnections) = Len(accepted) + 1
<1>1. /\ pendingConnections \in Seq(Conns) /\ Head(pendingConnections) = pendingConnections[1]
      /\ Len(pendingConnections) \in Nat /\ Len(pendingConnections) # 0
  BY HeadTailProperties, LenProperties, EmptySeq DEF TypeOK
<1>2. 1 \in 1..Len(pendingConnections)
  BY <1>1
<1>3. pendingConnections[1] \in Conns
  BY <1>1, <1>2, ElementOfSeq
<1> QED
  BY <1>1, <1>2, <1>3 DEF OrderInv

-----------------------------------------------------------------------------
(* Acceptors and connections.                                               *)

\* Acceptors take turns on the base thread, and the connection one of them is
\* handing over gets its handler from that acceptor only.
LEMMA HandoverStep ==
  TypeOK /\ OrderInv /\ HandoverInv /\ ObjectsInv /\ [Next]_vars => HandoverInv'
<1> SUFFICES ASSUME TypeOK, OrderInv, HandoverInv, ObjectsInv, [Next]_vars PROVE HandoverInv'
  OBVIOUS
<1> USE DEF serverVars, connVars, dataVars, waitVars, coVars, Set, HandoverInv, Busy
<1>1. ASSUME NEW c \in Conns, OnConnection(c) PROVE HandoverInv'
  BY <1>1 DEF OnConnection, Construct
<1>2. ASSUME NEW c \in Conns, MessageBegins(c), UNCHANGED serverVars PROVE HandoverInv'
  BY <1>2 DEF MessageBegins
<1>3. ASSUME NEW c \in Conns, HandleClose(c), UNCHANGED serverVars PROVE HandoverInv'
  BY <1>3 DEF HandleClose
<1>4. ASSUME NEW c \in Conns, OnMessage(c), UNCHANGED serverVars PROVE HandoverInv'
  BY <1>4 DEF OnMessage
<1>5. ASSUME NEW c \in Conns, Flush(c), UNCHANGED serverVars PROVE HandoverInv'
  BY <1>5 DEF Flush
<1>6. ASSUME NEW c \in Conns, Resume(c), UNCHANGED serverVars PROVE HandoverInv'
  <2>1. /\ UNCHANGED <<acceptPc, accepted>> /\ co[c] # None
        /\ \A d \in Conns : d # c => co'[d] = co[d]
    BY <1>6 DEF Resume, RecvReturns, DataAfterRecv, None, TypeOK, ConnTypeOK
  <2>2. ASSUME NEW a \in Acceptors, acceptPc[a] \in {"rebind", "accepted", "rebind2"}
        PROVE  co'[Len(accepted)] = None
    <3>1. Len(accepted) \in Conns
      BY <2>2, CurrentIs
    <3> QED
      BY <2>1, <2>2, <3>1
  <2> QED
    BY <2>1, <2>2
<1>7. ASSUME NEW c \in Conns, Recv(c), UNCHANGED serverVars PROVE HandoverInv'
  <2>1. /\ UNCHANGED <<acceptPc, accepted>> /\ co[c] # None
        /\ \A d \in Conns : d # c => co'[d] = co[d]
    BY <1>7 DEF Recv, RecvReturns, DataAfterRecv, None, TypeOK, ConnTypeOK
  <2>2. ASSUME NEW a \in Acceptors, acceptPc[a] \in {"rebind", "accepted", "rebind2"}
        PROVE  co'[Len(accepted)] = None
    <3>1. Len(accepted) \in Conns
      BY <2>2, CurrentIs
    <3> QED
      BY <2>1, <2>2, <3>1
  <2> QED
    BY <2>1, <2>2
<1>8. ASSUME NEW c \in Conns, RecvSuspend(c), UNCHANGED serverVars PROVE HandoverInv'
  <2>1. /\ UNCHANGED <<acceptPc, accepted>> /\ co[c] # None
        /\ \A d \in Conns : d # c => co'[d] = co[d]
    BY <1>8 DEF RecvSuspend, DataCame, StoresHandle, None, TypeOK, ConnTypeOK
  <2>2. ASSUME NEW a \in Acceptors, acceptPc[a] \in {"rebind", "accepted", "rebind2"}
        PROVE  co'[Len(accepted)] = None
    <3>1. Len(accepted) \in Conns
      BY <2>2, CurrentIs
    <3> QED
      BY <2>1, <2>2, <3>1
  <2> QED
    BY <2>1, <2>2
<1>9. ASSUME NEW c \in Conns, Send(c), UNCHANGED serverVars PROVE HandoverInv'
  <2>1. /\ UNCHANGED <<acceptPc, accepted>> /\ co[c] # None
        /\ \A d \in Conns : d # c => co'[d] = co[d]
    BY <1>9 DEF Send, None, TypeOK, ConnTypeOK
  <2>2. ASSUME NEW a \in Acceptors, acceptPc[a] \in {"rebind", "accepted", "rebind2"}
        PROVE  co'[Len(accepted)] = None
    <3>1. Len(accepted) \in Conns
      BY <2>2, CurrentIs
    <3> QED
      BY <2>1, <2>2, <3>1
  <2> QED
    BY <2>1, <2>2
<1>10. ASSUME NEW c \in Conns, Return(c), UNCHANGED serverVars PROVE HandoverInv'
  <2>1. /\ UNCHANGED <<acceptPc, accepted>> /\ co[c] # None
        /\ \A d \in Conns : d # c => co'[d] = co[d]
    BY <1>10 DEF Return, None, TypeOK, ConnTypeOK
  <2>2. ASSUME NEW a \in Acceptors, acceptPc[a] \in {"rebind", "accepted", "rebind2"}
        PROVE  co'[Len(accepted)] = None
    <3>1. Len(accepted) \in Conns
      BY <2>2, CurrentIs
    <3> QED
      BY <2>1, <2>2, <3>1
  <2> QED
    BY <2>1, <2>2
<1>11. ASSUME NEW c \in Conns, CleanupStep(c) PROVE HandoverInv'
  <2>1. /\ UNCHANGED <<acceptPc, accepted>> /\ co[c] # None
        /\ \A d \in Conns : d # c => co'[d] = co[d]
    BY <1>11 DEF CleanupStep, Cleanup, None, TypeOK, ConnTypeOK
  <2>2. ASSUME NEW a \in Acceptors, acceptPc[a] \in {"rebind", "accepted", "rebind2"}
        PROVE  co'[Len(accepted)] = None
    <3>1. Len(accepted) \in Conns
      BY <2>2, CurrentIs
    <3> QED
      BY <2>1, <2>2, <3>1
  <2> QED
    BY <2>1, <2>2
<1>12. ASSUME NEW a \in Acceptors, StartAcceptor(a) PROVE HandoverInv'
  BY <1>12 DEF StartAcceptor, Goto, TypeOK, BaseFree
<1>13. ASSUME NEW a \in Acceptors, AwaitReady(a) PROVE HandoverInv'
  BY <1>13 DEF AwaitReady, At, Goto, TypeOK
<1>14. ASSUME NEW a \in Acceptors, AwaitSuspend(a) PROVE HandoverInv'
  BY <1>14 DEF AwaitSuspend, At, Goto, ConnectionCame, StoresAcceptor, TypeOK
<1>15. CASE ResumeAcceptor
  BY <1>15 DEF ResumeAcceptor, Goto, TypeOK, BaseFree
<1>16. ASSUME NEW a \in Acceptors, AwaitThrows(a) PROVE HandoverInv'
  BY <1>16 DEF AwaitThrows, At, Goto, TypeOK
<1>17. ASSUME NEW a \in Acceptors, AwaitResume(a) PROVE HandoverInv'
  <2>1. /\ pendingConnections \in Seq(Conns) /\ accepted \in Seq(Conns)
        /\ accepted' = Append(accepted, Head(pendingConnections)) /\ pendingConnections # <<>>
        /\ UNCHANGED co /\ acceptPc' = [acceptPc EXCEPT ![a] = "rebind"]
        /\ acceptPc \in [Acceptors -> AcceptPcs] /\ Busy(a)
    BY <1>17 DEF AwaitResume, At, Goto, MoveData, TypeOK
  <2>2. /\ Head(pendingConnections) \in Conns /\ Head(pendingConnections) = Len(accepted) + 1
        /\ Len(accepted) \in Nat /\ Len(accepted') = Len(accepted) + 1 /\ accepted' # <<>>
    BY <2>1, FirstPending, AppendProperties, LenProperties
  <2>3. co[Len(accepted')] = None
    BY <2>2 DEF ObjectsInv
  <2> QED
    BY <2>1, <2>2, <2>3
<1>18. ASSUME NEW a \in Acceptors, Accepted(a) PROVE HandoverInv'
  <2>1. Len(accepted) \in Conns /\ Current = Len(accepted)
    BY <1>18, CurrentIs DEF Accepted, At
  <2> QED
    BY <1>18, <2>1 DEF Accepted, At, Goto, BindCallbacks, TypeOK, ConnTypeOK
<1>19. ASSUME NEW a \in Acceptors, CallHandler(a) PROVE HandoverInv'
  <2>1. Len(accepted) \in Conns /\ Current = Len(accepted)
    BY <1>19, CurrentIs DEF CallHandler, At
  <2> QED
    BY <1>19, <2>1 DEF CallHandler, At, Goto, MoveData, TypeOK, ConnTypeOK
<1>20. ASSUME NEW a \in Acceptors, SpawnHandler(a) PROVE HandoverInv'
  <2>1. Len(accepted) \in Conns /\ Current = Len(accepted)
    BY <1>20, CurrentIs DEF SpawnHandler, At
  <2> QED
    BY <1>20, <2>1 DEF SpawnHandler, At, Goto, BindCallbacks, TypeOK, ConnTypeOK
<1>21. ASSUME NEW a \in Acceptors, SpawnReturns(a) PROVE HandoverInv'
  BY <1>21 DEF SpawnReturns, At, Goto, TypeOK
<1>22. CASE UNCHANGED vars
  BY <1>22 DEF vars
<1> QED
  BY <1>1, <1>2, <1>3, <1>4, <1>5, <1>6, <1>7, <1>8, <1>9, <1>10, <1>11, <1>12,
     <1>13, <1>14, <1>15, <1>16, <1>17, <1>18, <1>19, <1>20, <1>21, <1>22
     DEF Next, PeerStep, IoStep, HandlerStep, AcceptorStep

\* The numbers of accepted and of queued connections add up to the arrivals.
LEMMA Counts ==
  ASSUME TypeOK
  PROVE  /\ Len(accepted) \in Nat /\ Len(pendingConnections) \in Nat
         /\ Arrivals \in Nat /\ Len(accepted) <= Arrivals
<1>1. Len(accepted) \in Nat /\ Len(pendingConnections) \in Nat
  BY LenProperties DEF TypeOK
<1> QED
  BY <1>1 DEF Arrivals

\* Every operation on a connection is on one that has arrived; only its handler's
\* cleanup takes its object away.
LEMMA ObjectsStep ==
  TypeOK /\ OrderInv /\ HandoverInv /\ ObjectsInv /\ [Next]_vars => ObjectsInv'
<1> SUFFICES ASSUME TypeOK, OrderInv, HandoverInv, ObjectsInv, [Next]_vars PROVE ObjectsInv'
  OBVIOUS
<1> USE DEF serverVars, connVars, dataVars, waitVars, coVars, Set, ObjectsInv
<1>1. ASSUME NEW c \in Conns, OnConnection(c) PROVE ObjectsInv'
  <2>1. /\ pendingConnections \in Seq(Conns) /\ UNCHANGED <<dataVars, coVars, accepted>>
        /\ pendingConnections' = Append(pendingConnections, c) /\ c = Arrivals + 1
        /\ tcp' = Set(tcp, c, "Connected") /\ holder' = Set(holder, c, "pending")
        /\ target' = Set(target, c, "pending")
    BY <1>1 DEF OnConnection, Construct, TypeOK
  <2>2. Len(pendingConnections') = Len(pendingConnections) + 1
    BY <1>1, <2>1, AppendProperties
  <2>3. Arrivals' = Arrivals + 1 /\ Arrivals \in Nat
    BY <2>1, <2>2, Counts DEF Arrivals
  <2>4. c \in Conns
    BY <1>1
  <2>5. \A d \in Conns : d <= Arrivals' <=> d <= Arrivals \/ d = c
    BY <2>1, <2>3, ConnsAssumption DEF Conns
  <2>6. \A d \in Conns : /\ tcp'[d] = (IF d = c THEN "Connected" ELSE tcp[d])
                         /\ holder'[d] = (IF d = c THEN "pending" ELSE holder[d])
                         /\ target'[d] = (IF d = c THEN "pending" ELSE target[d])
    BY <2>1 DEF TypeOK, ConnTypeOK
  <2> HIDE DEF Set
  <2> QED
    BY <2>1, <2>5, <2>6 DEF None
<1>2. ASSUME NEW c \in Conns, MessageBegins(c), UNCHANGED serverVars PROVE ObjectsInv'
  <2>1. UNCHANGED <<accepted, pendingConnections>> /\ Arrivals' = Arrivals
    BY <1>2 DEF Arrivals
  <2>2. tcp[c] # None
    BY <1>2, Counts DEF MessageBegins, None, Conns
  <2> QED
    BY <1>2, <2>1, <2>2 DEF MessageBegins, None, TypeOK, ConnTypeOK
<1>3. ASSUME NEW c \in Conns, HandleClose(c), UNCHANGED serverVars PROVE ObjectsInv'
  <2>1. UNCHANGED <<accepted, pendingConnections>> /\ Arrivals' = Arrivals
    BY <1>3 DEF Arrivals
  <2>2. tcp[c] # None
    BY <1>3, Counts DEF HandleClose, None, Conns
  <2> QED
    BY <1>3, <2>1, <2>2 DEF HandleClose, None, TypeOK, ConnTypeOK
<1>4. ASSUME NEW c \in Conns, OnMessage(c), UNCHANGED serverVars PROVE ObjectsInv'
  <2>1. UNCHANGED <<accepted, pendingConnections>> /\ Arrivals' = Arrivals
    BY <1>4 DEF Arrivals
  <2>2. tcp[c] # None
    BY <1>4, Counts DEF OnMessage, HandleAfterMessage, None, Conns
  <2> QED
    BY <1>4, <2>1, <2>2 DEF OnMessage, HandleAfterMessage, None, TypeOK, ConnTypeOK
<1>5. ASSUME NEW c \in Conns, Flush(c), UNCHANGED serverVars PROVE ObjectsInv'
  <2>1. UNCHANGED <<accepted, pendingConnections>> /\ Arrivals' = Arrivals
    BY <1>5 DEF Arrivals
  <2>2. tcp[c] # None
    BY <1>5, Counts DEF Flush, CallsWriteComplete, None, Conns
  <2> QED
    BY <1>5, <2>1, <2>2 DEF Flush, CallsWriteComplete, None, TypeOK, ConnTypeOK
<1>6. ASSUME NEW c \in Conns, Resume(c), UNCHANGED serverVars PROVE ObjectsInv'
  <2>1. UNCHANGED <<accepted, pendingConnections>> /\ Arrivals' = Arrivals
    BY <1>6 DEF Arrivals
  <2>2. tcp[c] # None
    <3>1. co[c] # None
      BY <1>6 DEF Resume, None
    <3> QED
      BY <1>6, <3>1, Counts DEF Conns
  <2> QED
    BY <1>6, <2>1, <2>2 DEF Resume, RecvReturns, DataAfterRecv, None, TypeOK, ConnTypeOK
<1>7. ASSUME NEW c \in Conns, Recv(c), UNCHANGED serverVars PROVE ObjectsInv'
  <2>1. UNCHANGED <<accepted, pendingConnections>> /\ Arrivals' = Arrivals
    BY <1>7 DEF Arrivals
  <2>2. tcp[c] # None
    BY <1>7, Counts DEF Recv, RecvReturns, DataAfterRecv, None, Conns
  <2> QED
    BY <1>7, <2>1, <2>2 DEF Recv, RecvReturns, DataAfterRecv, None, TypeOK, ConnTypeOK
<1>8. ASSUME NEW c \in Conns, RecvSuspend(c), UNCHANGED serverVars PROVE ObjectsInv'
  <2>1. UNCHANGED <<accepted, pendingConnections>> /\ Arrivals' = Arrivals
    BY <1>8 DEF Arrivals
  <2>2. tcp[c] # None
    BY <1>8, Counts DEF RecvSuspend, DataCame, StoresHandle, None, Conns
  <2> QED
    BY <1>8, <2>1, <2>2 DEF RecvSuspend, DataCame, StoresHandle, None, TypeOK, ConnTypeOK
<1>9. ASSUME NEW c \in Conns, Send(c), UNCHANGED serverVars PROVE ObjectsInv'
  <2>1. UNCHANGED <<accepted, pendingConnections>> /\ Arrivals' = Arrivals
    BY <1>9 DEF Arrivals
  <2>2. tcp[c] # None
    BY <1>9, Counts DEF Send, None, Conns
  <2> QED
    BY <1>9, <2>1, <2>2 DEF Send, None, TypeOK, ConnTypeOK
<1>10. ASSUME NEW c \in Conns, Return(c), UNCHANGED serverVars PROVE ObjectsInv'
  <2>1. UNCHANGED <<accepted, pendingConnections>> /\ Arrivals' = Arrivals
    BY <1>10 DEF Arrivals
  <2>2. tcp[c] # None
    BY <1>10, Counts DEF Return, None, Conns
  <2> QED
    BY <1>10, <2>1, <2>2 DEF Return, None, TypeOK, ConnTypeOK
<1>11. ASSUME NEW c \in Conns, CleanupStep(c) PROVE ObjectsInv'
  <2>1. UNCHANGED <<accepted, pendingConnections>> /\ Arrivals' = Arrivals
    BY <1>11 DEF Arrivals, CleanupStep
  <2>2. tcp[c] # None
    BY <1>11, Counts DEF CleanupStep, Cleanup, None, Conns
  <2> QED
    BY <1>11, <2>1, <2>2 DEF CleanupStep, Cleanup, None, TypeOK, ConnTypeOK
<1>12. ASSUME NEW a \in Acceptors, StartAcceptor(a) PROVE ObjectsInv'
  BY <1>12 DEF StartAcceptor, Arrivals
<1>13. ASSUME NEW a \in Acceptors, AwaitReady(a) PROVE ObjectsInv'
  BY <1>13 DEF AwaitReady, Arrivals
<1>14. ASSUME NEW a \in Acceptors, AwaitSuspend(a) PROVE ObjectsInv'
  BY <1>14 DEF AwaitSuspend, Arrivals
<1>15. CASE ResumeAcceptor
  BY <1>15 DEF ResumeAcceptor, Arrivals
<1>16. ASSUME NEW a \in Acceptors, AwaitThrows(a) PROVE ObjectsInv'
  BY <1>16 DEF AwaitThrows, Arrivals
<1>17. ASSUME NEW a \in Acceptors, AwaitResume(a) PROVE ObjectsInv'
  <2>1. /\ pendingConnections \in Seq(Conns) /\ accepted \in Seq(Conns)
        /\ accepted' = Append(accepted, Head(pendingConnections)) /\ pendingConnections # <<>>
        /\ pendingConnections' = Tail(pendingConnections)
        /\ UNCHANGED <<tcp, target, dataVars, coVars>>
        /\ holder' = Set(holder, Head(pendingConnections), "local")
    BY <1>17 DEF AwaitResume, MoveData, PopFront, TypeOK
  <2>2. /\ Head(pendingConnections) \in Conns
        /\ Len(accepted') = Len(accepted) + 1
        /\ Len(pendingConnections') = Len(pendingConnections) - 1
    BY <2>1, FirstPending, AppendProperties, LenProperties, HeadTailProperties, EmptySeq
  <2>3. Arrivals' = Arrivals /\ Len(accepted) <= Len(accepted')
    BY <2>2, Counts DEF Arrivals
  <2> QED
    BY <2>1, <2>2, <2>3, Counts DEF Conns, None, TypeOK, ConnTypeOK
<1>18. ASSUME NEW a \in Acceptors, Accepted(a) PROVE ObjectsInv'
  <2>1. Len(accepted) \in Conns /\ Current = Len(accepted) /\ Len(accepted) <= Arrivals
    BY <1>18, CurrentIs, Counts DEF Accepted, At, HandoverInv
  <2>2. UNCHANGED <<accepted, pendingConnections>>
    BY <1>18 DEF Accepted
  <2> QED
    BY <1>18, <2>1, <2>2 DEF Accepted, At, Goto, BindCallbacks, Arrivals, Objects, None,
       TypeOK, ConnTypeOK
<1>19. ASSUME NEW a \in Acceptors, CallHandler(a) PROVE ObjectsInv'
  <2>1. Len(accepted) \in Conns /\ Current = Len(accepted) /\ Len(accepted) <= Arrivals
    BY <1>19, CurrentIs, Counts DEF CallHandler, At, HandoverInv
  <2>2. UNCHANGED <<accepted, pendingConnections>>
    BY <1>19 DEF CallHandler, MoveData
  <2> QED
    BY <1>19, <2>1, <2>2 DEF CallHandler, At, Goto, MoveData, Arrivals, Objects, None,
       TypeOK, ConnTypeOK
<1>20. ASSUME NEW a \in Acceptors, SpawnHandler(a) PROVE ObjectsInv'
  <2>1. Len(accepted) \in Conns /\ Current = Len(accepted) /\ Len(accepted) <= Arrivals
    BY <1>20, CurrentIs, Counts DEF SpawnHandler, At, HandoverInv
  <2>2. UNCHANGED <<accepted, pendingConnections>>
    BY <1>20 DEF SpawnHandler
  <2>3. /\ \A d \in Conns : co'[d] = (IF d = Len(accepted) THEN "run" ELSE co[d])
        /\ \A d \in Conns : target'[d] = (IF d = Len(accepted) THEN "frame" ELSE target[d])
    BY <1>20, <2>1 DEF SpawnHandler, BindCallbacks, TypeOK, ConnTypeOK
  <2>4. UNCHANGED <<tcp, holder, dataVars, received>> /\ co[Len(accepted)] = None
    BY <1>20 DEF SpawnHandler, At, HandoverInv
  <2>5. Arrivals' = Arrivals
    BY <2>2 DEF Arrivals
  <2> HIDE DEF Set
  <2> QED
    BY <2>1, <2>2, <2>3, <2>4, <2>5, Counts DEF None
<1>21. ASSUME NEW a \in Acceptors, SpawnReturns(a) PROVE ObjectsInv'
  BY <1>21 DEF SpawnReturns, Arrivals
<1>22. CASE UNCHANGED vars
  BY <1>22 DEF vars, Arrivals
<1> QED
  BY <1>1, <1>2, <1>3, <1>4, <1>5, <1>6, <1>7, <1>8, <1>9, <1>10, <1>11, <1>12,
     <1>13, <1>14, <1>15, <1>16, <1>17, <1>18, <1>19, <1>20, <1>21, <1>22
     DEF Next, PeerStep, IoStep, HandlerStep, AcceptorStep

-----------------------------------------------------------------------------
(* Resuming the handler.                                                    *)

\* Appending makes a sequence that is not empty.
LEMMA AppendIsNot ==
  ASSUME NEW S, NEW s \in Seq(S), NEW x \in S
  PROVE  Append(s, x) # <<>>
<1>1. Len(Append(s, x)) = Len(s) + 1 /\ Len(s) \in Nat
  BY AppendProperties, LenProperties
<1>2. Len(Append(s, x)) # 0
  BY <1>1
<1> QED
  BY <1>2, EmptySeq

\* A step that touches one connection only is judged by its values there.
LEMMA ResumeAt ==
  ASSUME ResumeInv, NEW c \in Conns, emptyRecv' = {},
         OneResume(resumes'[c], recvCoroutine'[c], co'[c], receivedData'[c]),
         \A d \in Conns : d # c =>
            /\ resumes'[d] = resumes[d] /\ recvCoroutine'[d] = recvCoroutine[d]
            /\ co'[d] = co[d] /\ receivedData'[d] = receivedData[d]
  PROVE  ResumeInv'
<1>1. ASSUME NEW d \in Conns
      PROVE  OneResume(resumes'[d], recvCoroutine'[d], co'[d], receivedData'[d])
  <2>1. CASE d = c
    BY <2>1
  <2>2. CASE d # c
    BY <1>1, <2>2 DEF ResumeInv
  <2> QED
    BY <2>1, <2>2
<1> QED
  BY <1>1 DEF ResumeInv, NoSpuriousEof

\* A step that leaves handles, functors and data alone.
LEMMA ResumeSame ==
  ASSUME ResumeInv, UNCHANGED <<resumes, recvCoroutine, co, receivedData, emptyRecv>>
  PROVE  ResumeInv'
BY DEF ResumeInv, NoSpuriousEof

\* The second look of await_suspend() stores the handle or queues the resume, and
\* onMessage() turns the one into the other: never both, and never neither.
LEMMA ResumeStep ==
  TypeOK /\ OrderInv /\ HandoverInv /\ ResumeInv /\ [Next]_vars => ResumeInv'
<1> SUFFICES ASSUME TypeOK, OrderInv, HandoverInv, ResumeInv, [Next]_vars PROVE ResumeInv'
  OBVIOUS
<1> USE DEF serverVars, connVars, dataVars, waitVars, coVars
<1>1. ASSUME NEW c \in Conns, OnConnection(c) PROVE ResumeInv'
  BY <1>1, ResumeSame DEF OnConnection, Construct
<1>2. ASSUME NEW c \in Conns, MessageBegins(c), UNCHANGED serverVars PROVE ResumeInv'
  BY <1>2, ResumeSame DEF MessageBegins
<1>3. ASSUME NEW c \in Conns, HandleClose(c), UNCHANGED serverVars PROVE ResumeInv'
  BY <1>3, ResumeSame DEF HandleClose
<1>4. ASSUME NEW c \in Conns, OnMessage(c), UNCHANGED serverVars PROVE ResumeInv'
  <2>1. CASE inMessage[c] # holder[c]
    BY <1>4, <2>1, ResumeSame DEF OnMessage
  <2>2. CASE inMessage[c] = holder[c]
    <3> DEFINE more == Append(receivedData[c], arrived[c])
               n == resumes[c] + (IF recvCoroutine[c] THEN 1 ELSE 0)
    <3>1. more # <<>>
      BY <1>4, AppendIsNot DEF TypeOK, ConnTypeOK
    <3>2. /\ receivedData' = Set(receivedData, c, more) /\ resumes' = Set(resumes, c, n)
          /\ recvCoroutine' = Set(recvCoroutine, c, FALSE) /\ UNCHANGED <<co, emptyRecv>>
      BY <1>4, <2>2 DEF OnMessage, HandleAfterMessage
    <3>3. OneResume(resumes[c], recvCoroutine[c], co[c], receivedData[c])
      BY <1>4 DEF ResumeInv
    <3>4. OneResume(n, FALSE, co[c], more)
      BY <1>4, <3>1, <3>3 DEF OneResume, TypeOK, ConnTypeOK
    <3> HIDE DEF more, n
    <3>5. /\ receivedData'[c] = more /\ resumes'[c] = n /\ recvCoroutine'[c] = FALSE
          /\ \A d \in Conns : d # c => /\ receivedData'[d] = receivedData[d]
                /\ resumes'[d] = resumes[d] /\ recvCoroutine'[d] = recvCoroutine[d]
      BY <1>4, <3>2 DEF Set, TypeOK, ConnTypeOK
    <3>6. OneResume(resumes'[c], recvCoroutine'[c], co'[c], receivedData'[c])
      BY <3>2, <3>4, <3>5
    <3> QED
      BY <1>4, <3>2, <3>5, <3>6, ResumeAt DEF ResumeInv, NoSpuriousEof
  <2> QED
    BY <2>1, <2>2
<1>5. ASSUME NEW c \in Conns, Flush(c), UNCHANGED serverVars PROVE ResumeInv'
  BY <1>5, ResumeSame DEF Flush, CallsWriteComplete
<1>6. ASSUME NEW c \in Conns, Resume(c), UNCHANGED serverVars PROVE ResumeInv'
  <2>1. OneResume(resumes[c], recvCoroutine[c], co[c], receivedData[c]) /\ emptyRecv = {}
    BY <1>6 DEF ResumeInv, NoSpuriousEof
  <2>2. /\ co[c] = "recvWait" /\ co'[c] = "run" /\ recvCoroutine' = recvCoroutine
        /\ resumes[c] > 0 /\ resumes'[c] = resumes[c] - 1 /\ receivedData[c] # <<>>
        /\ emptyRecv' = emptyRecv
        /\ \A d \in Conns : d # c =>
              /\ resumes'[d] = resumes[d] /\ recvCoroutine'[d] = recvCoroutine[d]
              /\ co'[d] = co[d] /\ receivedData'[d] = receivedData[d]
    BY <1>6, <2>1 DEF Resume, RecvReturns, DataAfterRecv, OneResume, Set, TypeOK, ConnTypeOK
  <2>3. emptyRecv' = {} /\ OneResume(resumes'[c], recvCoroutine'[c], co'[c], receivedData'[c])
    BY <1>6, <2>1, <2>2 DEF OneResume, TypeOK, ConnTypeOK
  <2> QED
    BY <1>6, <2>2, <2>3, ResumeAt
<1>7. ASSUME NEW c \in Conns, Recv(c), UNCHANGED serverVars PROVE ResumeInv'
  <2>1. OneResume(resumes[c], recvCoroutine[c], co[c], receivedData[c]) /\ emptyRecv = {}
    BY <1>7 DEF ResumeInv, NoSpuriousEof
  <2>2. /\ co[c] = "run" /\ co'[c] \in {"run", "recv"} /\ UNCHANGED <<resumes, recvCoroutine>>
        /\ emptyRecv' = emptyRecv
        /\ \A d \in Conns : d # c =>
              /\ resumes'[d] = resumes[d] /\ recvCoroutine'[d] = recvCoroutine[d]
              /\ co'[d] = co[d] /\ receivedData'[d] = receivedData[d]
    BY <1>7 DEF Recv, RecvReturns, DataAfterRecv, Set, TypeOK, ConnTypeOK
  <2>3. emptyRecv' = {} /\ OneResume(resumes'[c], recvCoroutine'[c], co'[c], receivedData'[c])
    BY <1>7, <2>1, <2>2 DEF OneResume, TypeOK, ConnTypeOK
  <2> QED
    BY <1>7, <2>2, <2>3, ResumeAt
<1>8. ASSUME NEW c \in Conns, RecvSuspend(c), UNCHANGED serverVars PROVE ResumeInv'
  <2>1. OneResume(resumes[c], recvCoroutine[c], co[c], receivedData[c]) /\ emptyRecv = {}
    BY <1>8 DEF ResumeInv, NoSpuriousEof
  <2>2. /\ co[c] = "recv" /\ co'[c] = "recvWait" /\ UNCHANGED <<receivedData, emptyRecv>>
        /\ resumes'[c] = resumes[c] + (IF receivedData[c] # <<>> THEN 1 ELSE 0)
        /\ recvCoroutine'[c] = (receivedData[c] = <<>>)
        /\ \A d \in Conns : d # c =>
              /\ resumes'[d] = resumes[d] /\ recvCoroutine'[d] = recvCoroutine[d]
              /\ co'[d] = co[d] /\ receivedData'[d] = receivedData[d]
    BY <1>8 DEF RecvSuspend, DataCame, StoresHandle, Set, TypeOK, ConnTypeOK
  <2>3. emptyRecv' = {} /\ OneResume(resumes'[c], recvCoroutine'[c], co'[c], receivedData'[c])
    <3>1. resumes[c] = 0 /\ receivedData'[c] = receivedData[c]
      BY <1>8, <2>1, <2>2 DEF OneResume, TypeOK, ConnTypeOK
    <3>2. CASE receivedData[c] = <<>>
      <4>1. recvCoroutine'[c] = TRUE
        BY <2>2, <3>2, Zenon
      <4>2. resumes'[c] = 0
        BY <2>2, <3>1, <3>2
      <4> QED
        BY <2>1, <2>2, <3>1, <3>2, <4>1, <4>2 DEF OneResume
    <3>3. CASE receivedData[c] # <<>>
      <4>1. recvCoroutine'[c] = FALSE
        BY <2>2, <3>3, Zenon
      <4>2. resumes'[c] = 1
        BY <2>2, <3>1, <3>3
      <4> QED
        BY <2>1, <2>2, <3>1, <3>3, <4>1, <4>2 DEF OneResume
    <3> QED
      BY <3>2, <3>3
  <2> QED
    BY <1>8, <2>2, <2>3, ResumeAt
<1>9. ASSUME NEW c \in Conns, Send(c), UNCHANGED serverVars PROVE ResumeInv'
  <2>1. OneResume(resumes[c], recvCoroutine[c], co[c], receivedData[c]) /\ emptyRecv = {}
    BY <1>9 DEF ResumeInv, NoSpuriousEof
  <2>2. /\ co[c] = "run" /\ co'[c] = "sendWait" /\ emptyRecv' = emptyRecv
        /\ UNCHANGED <<resumes, recvCoroutine, receivedData>>
        /\ \A d \in Conns : d # c =>
              /\ resumes'[d] = resumes[d] /\ recvCoroutine'[d] = recvCoroutine[d]
              /\ co'[d] = co[d] /\ receivedData'[d] = receivedData[d]
    BY <1>9 DEF Send, Set, TypeOK, ConnTypeOK
  <2>3. emptyRecv' = {} /\ OneResume(resumes'[c], recvCoroutine'[c], co'[c], receivedData'[c])
    BY <1>9, <2>1, <2>2 DEF OneResume, TypeOK, ConnTypeOK
  <2> QED
    BY <1>9, <2>2, <2>3, ResumeAt
<1>10. ASSUME NEW c \in Conns, Return(c), UNCHANGED serverVars PROVE ResumeInv'
  <2>1. OneResume(resumes[c], recvCoroutine[c], co[c], receivedData[c]) /\ emptyRecv = {}
    BY <1>10 DEF ResumeInv, NoSpuriousEof
  <2>2. /\ co[c] = "run" /\ co'[c] = "done" /\ emptyRecv' = emptyRecv
        /\ UNCHANGED <<resumes, recvCoroutine, receivedData>>
        /\ \A d \in Conns : d # c =>
              /\ resumes'[d] = resumes[d] /\ recvCoroutine'[d] = recvCoroutine[d]
              /\ co'[d] = co[d] /\ receivedData'[d] = receivedData[d]
    BY <1>10 DEF Return, Set, TypeOK, ConnTypeOK
  <2>3. emptyRecv' = {} /\ OneResume(resumes'[c], recvCoroutine'[c], co'[c], receivedData'[c])
    BY <1>10, <2>1, <2>2 DEF OneResume, TypeOK, ConnTypeOK
  <2> QED
    BY <1>10, <2>2, <2>3, ResumeAt
<1>11. ASSUME NEW c \in Conns, CleanupStep(c) PROVE ResumeInv'
  <2>1. OneResume(resumes[c], recvCoroutine[c], co[c], receivedData[c]) /\ emptyRecv = {}
    BY <1>11 DEF ResumeInv, NoSpuriousEof
  <2>2. /\ co[c] = "done" /\ co'[c] = "gone" /\ emptyRecv' = emptyRecv
        /\ UNCHANGED <<resumes, recvCoroutine>>
        /\ \A d \in Conns : d # c =>
              /\ resumes'[d] = resumes[d] /\ recvCoroutine'[d] = recvCoroutine[d]
              /\ co'[d] = co[d] /\ receivedData'[d] = receivedData[d]
    BY <1>11 DEF CleanupStep, Cleanup, Set, TypeOK, ConnTypeOK
  <2>3. emptyRecv' = {} /\ OneResume(resumes'[c], recvCoroutine'[c], co'[c], receivedData'[c])
    BY <1>11, <2>1, <2>2 DEF OneResume, TypeOK, ConnTypeOK
  <2> QED
    BY <1>11, <2>2, <2>3, ResumeAt
<1>12. ASSUME NEW a \in Acceptors, StartAcceptor(a) PROVE ResumeInv'
  BY <1>12, ResumeSame DEF StartAcceptor
<1>13. ASSUME NEW a \in Acceptors, AwaitReady(a) PROVE ResumeInv'
  BY <1>13, ResumeSame DEF AwaitReady
<1>14. ASSUME NEW a \in Acceptors, AwaitSuspend(a) PROVE ResumeInv'
  BY <1>14, ResumeSame DEF AwaitSuspend
<1>15. CASE ResumeAcceptor
  BY <1>15, ResumeSame DEF ResumeAcceptor
<1>16. ASSUME NEW a \in Acceptors, AwaitThrows(a) PROVE ResumeInv'
  BY <1>16, ResumeSame DEF AwaitThrows
<1>17. ASSUME NEW a \in Acceptors, AwaitResume(a) PROVE ResumeInv'
  BY <1>17, ResumeSame DEF AwaitResume, MoveData
<1>18. ASSUME NEW a \in Acceptors, Accepted(a) PROVE ResumeInv'
  BY <1>18, ResumeSame DEF Accepted
<1>19. ASSUME NEW a \in Acceptors, CallHandler(a) PROVE ResumeInv'
  BY <1>19, ResumeSame DEF CallHandler, MoveData
<1>20. ASSUME NEW a \in Acceptors, SpawnHandler(a) PROVE ResumeInv'
  <2> DEFINE c == Len(accepted)
  <2>1. c \in Conns /\ Current = c /\ co[c] = None
    BY <1>20, CurrentIs DEF SpawnHandler, At, HandoverInv
  <2>2. c \in Conns /\ co' = Set(co, c, "run")
        /\ UNCHANGED <<resumes, recvCoroutine, receivedData, emptyRecv>>
    BY <1>20, <2>1 DEF SpawnHandler
  <2>3. OneResume(resumes[c], recvCoroutine[c], None, receivedData[c])
    BY <2>1 DEF ResumeInv
  <2>4. co'[c] = "run" /\ \A d \in Conns : d # c => co'[d] = co[d]
    BY <2>2 DEF Set, TypeOK, ConnTypeOK
  <2>5. OneResume(resumes'[c], recvCoroutine'[c], co'[c], receivedData'[c])
    BY <2>2, <2>3, <2>4 DEF OneResume, None
  <2>6. PICK e \in Conns : e = c
    BY <2>1
  <2> HIDE DEF c
  <2> QED
    BY <2>2, <2>4, <2>5, <2>6, ResumeAt DEF ResumeInv, NoSpuriousEof
<1>21. ASSUME NEW a \in Acceptors, SpawnReturns(a) PROVE ResumeInv'
  BY <1>21, ResumeSame DEF SpawnReturns
<1>22. CASE UNCHANGED vars
  BY <1>22, ResumeSame DEF vars
<1> QED
  BY <1>1, <1>2, <1>3, <1>4, <1>5, <1>6, <1>7, <1>8, <1>9, <1>10, <1>11, <1>12,
     <1>13, <1>14, <1>15, <1>16, <1>17, <1>18, <1>19, <1>20, <1>21, <1>22
     DEF Next, PeerStep, IoStep, HandlerStep, AcceptorStep

-----------------------------------------------------------------------------
(* The chunks of a connection.                                              *)

\* What ChunksIntact says of one connection.
Chunked(n, o, r, d) == r \o d = [i \in 1..(n - IF o # None THEN 1 ELSE 0) |-> i]

\* A connection starts without data.
LEMMA ChunkNew ==
  Chunked(0, None, <<>>, <<>>)
<1>1. [i \in 1..0 |-> i] = <<>>
  OBVIOUS
<1> QED
  BY <1>1 DEF Chunked

\* A message that begins is not yet in the buffer.
LEMMA ChunkBegin ==
  ASSUME NEW n \in Nat, NEW o, o # None, NEW r, NEW d, Chunked(n, None, r, d)
  PROVE  Chunked(n + 1, o, r, d)
<1>1. n - 0 = n /\ (n + 1) - 1 = n
  OBVIOUS
<1> QED
  BY <1>1 DEF Chunked

\* onMessage() appends the chunk that was missing.
LEMMA ChunkAdd ==
  ASSUME NEW n \in Nat, n > 0, NEW o, o # None, NEW r \in Seq(Nat), NEW d \in Seq(Nat),
         Chunked(n, o, r, d)
  PROVE  Chunked(n, None, r, Append(d, n))
<1> DEFINE m == n - 1
<1>1. m \in Nat /\ m + 1 = n /\ n - 0 = n
  OBVIOUS
<1>2. r \o d = [i \in 1..m |-> i]
  BY DEF Chunked
<1>3. r \o Append(d, n) = Append(r \o d, n)
  BY ConcatAppend
<1>4. Append([i \in 1..m |-> i], n) = [i \in 1..n |-> i]
  BY <1>1
<1> QED
  BY <1>1, <1>2, <1>3, <1>4 DEF Chunked

\* recv() moves all the data there is to the handler.
LEMMA ChunkTake ==
  ASSUME NEW n, NEW o, NEW r \in Seq(Nat), NEW d \in Seq(Nat), Chunked(n, o, r, d)
  PROVE  Chunked(n, o, r \o d, <<>>)
<1>1. r \o d \in Seq(Nat)
  BY ConcatProperties
<1>2. (r \o d) \o <<>> = r \o d
  BY <1>1, ConcatEmptySeq
<1> QED
  BY <1>2 DEF Chunked

\* The invariant, for one connection.
LEMMA ChunkOf ==
  ASSUME ChunkInv, NEW c \in Conns, undefined = "no", holder[c] # None
  PROVE  Chunked(arrived[c], inMessage[c], received[c], receivedData[c])
BY DEF ChunkInv, ChunksIntact, Chunked

\* A step that touches one connection only is judged by its values there.
LEMMA ChunkAt ==
  ASSUME ChunkInv, NEW c \in Conns, undefined' = "no" => undefined = "no",
         undefined' = "no" /\ holder'[c] # None =>
            Chunked(arrived'[c], inMessage'[c], received'[c], receivedData'[c]),
         inMessage'[c] # None => arrived'[c] > 0,
         \A d \in Conns : d # c =>
            /\ holder'[d] = holder[d] /\ arrived'[d] = arrived[d] /\ inMessage'[d] = inMessage[d]
            /\ received'[d] = received[d] /\ receivedData'[d] = receivedData[d]
  PROVE  ChunkInv'
<1>1. ASSUME NEW d \in Conns, undefined' = "no", holder'[d] # None
      PROVE  Chunked(arrived'[d], inMessage'[d], received'[d], receivedData'[d])
  <2>1. CASE d = c
    BY <1>1, <2>1
  <2>2. CASE d # c
    BY <1>1, <2>2, ChunkOf
  <2> QED
    BY <2>1, <2>2
<1>2. ASSUME NEW d \in Conns, inMessage'[d] # None PROVE arrived'[d] > 0
  <2>1. CASE d = c
    BY <1>2, <2>1
  <2>2. CASE d # c
    BY <1>2, <2>2 DEF ChunkInv
  <2> QED
    BY <2>1, <2>2
<1> QED
  BY <1>1, <1>2 DEF ChunkInv, ChunksIntact, Chunked

\* Moving an object, which had its data before, keeps the data.
LEMMA ChunkMoved ==
  ASSUME ChunkInv, NEW c \in Conns, holder[c] # None,
         UNCHANGED <<undefined, arrived, inMessage, received, receivedData>>,
         \A d \in Conns : d # c => holder'[d] = holder[d]
  PROVE  ChunkInv'
<1>1. undefined = "no" => Chunked(arrived[c], inMessage[c], received[c], receivedData[c])
  BY ChunkOf
<1>2. inMessage[c] # None => arrived[c] > 0
  BY DEF ChunkInv
<1> QED
  BY <1>1, <1>2, ChunkAt

\* A step that leaves objects and data alone.
LEMMA ChunkSame ==
  ASSUME ChunkInv, UNCHANGED <<undefined, holder, arrived, inMessage, received, receivedData>>
  PROVE  ChunkInv'
BY DEF ChunkInv, ChunksIntact

\* No chunk is lost, repeated or reordered by a step.
LEMMA ChunkStep ==
  TypeOK /\ OrderInv /\ HandoverInv /\ ObjectsInv /\ ChunkInv /\ [Next]_vars => ChunkInv'
<1> SUFFICES ASSUME TypeOK, OrderInv, HandoverInv, ObjectsInv, ChunkInv, [Next]_vars PROVE ChunkInv'
  OBVIOUS
<1> USE DEF serverVars, connVars, dataVars, waitVars, coVars
<1>1. ASSUME NEW c \in Conns, OnConnection(c) PROVE ChunkInv'
  <2>1. c = Arrivals + 1 /\ UNCHANGED <<undefined, arrived, inMessage, received, receivedData>>
    BY <1>1 DEF OnConnection, Construct
  <2>2. tcp[c] = None
    BY <1>1, <2>1, Counts DEF ObjectsInv, Conns
  <2>3. \A d \in Conns : d # c => holder'[d] = holder[d]
    BY <1>1 DEF OnConnection, Construct, Set, TypeOK, ConnTypeOK
  <2>4. /\ arrived'[c] = 0 /\ inMessage'[c] = None
        /\ received'[c] = <<>> /\ receivedData'[c] = <<>>
    BY <1>1, <2>1, <2>2 DEF ObjectsInv
  <2> QED
    BY <1>1, <2>1, <2>3, <2>4, ChunkNew, ChunkAt
<1>2. ASSUME NEW c \in Conns, MessageBegins(c), UNCHANGED serverVars PROVE ChunkInv'
  <2>1. /\ UNCHANGED <<undefined, holder, received, receivedData>> /\ inMessage[c] = None
        /\ arrived'[c] = arrived[c] + 1 /\ inMessage'[c] = target[c] /\ arrived[c] \in Nat
        /\ \A d \in Conns : d # c => arrived'[d] = arrived[d] /\ inMessage'[d] = inMessage[d]
    BY <1>2 DEF MessageBegins, IoFree, Set, TypeOK, ConnTypeOK
  <2>2. target[c] # None
    BY <1>2 DEF MessageBegins, ObjectsInv, None
  <2>3. undefined = "no" /\ holder[c] # None =>
           Chunked(arrived[c], None, received[c], receivedData[c])
    BY <1>2, <2>1, ChunkOf
  <2>4. /\ undefined = "no" /\ holder[c] # None =>
              Chunked(arrived'[c], inMessage'[c], received[c], receivedData[c])
        /\ arrived'[c] > 0
    BY <2>1, <2>2, <2>3, ChunkBegin
  <2> QED
    BY <1>2, <2>1, <2>4, ChunkAt
<1>3. ASSUME NEW c \in Conns, HandleClose(c), UNCHANGED serverVars PROVE ChunkInv'
  BY <1>3, ChunkSame DEF HandleClose
<1>4. ASSUME NEW c \in Conns, OnMessage(c), UNCHANGED serverVars PROVE ChunkInv'
  <2>1. /\ inMessage[c] # None /\ inMessage'[c] = None /\ UNCHANGED <<holder, arrived, received>>
        /\ \A d \in Conns : d # c => /\ inMessage'[d] = inMessage[d]
                                     /\ receivedData'[d] = receivedData[d]
        /\ undefined = "no"
    BY <1>4 DEF OnMessage, Set, TypeOK, ConnTypeOK
  <2>2. CASE inMessage[c] # holder[c]
    <3>1. undefined' # "no"
      BY <1>4, <2>2 DEF OnMessage
    <3> QED
      BY <1>4, <2>1, <3>1, ChunkAt
  <2>3. CASE inMessage[c] = holder[c]
    <3> DEFINE more == Append(receivedData[c], arrived[c])
    <3>1. receivedData' = Set(receivedData, c, more) /\ UNCHANGED undefined
      BY <1>4, <2>3 DEF OnMessage
    <3>2. /\ arrived[c] \in Nat /\ arrived[c] > 0 /\ received[c] \in Seq(Nat)
          /\ receivedData[c] \in Seq(Nat)
      BY <1>4, <2>1 DEF ChunkInv, TypeOK, ConnTypeOK
    <3>3. Chunked(arrived[c], inMessage[c], received[c], receivedData[c])
      BY <1>4, <2>1, <2>3, ChunkOf
    <3>4. Chunked(arrived[c], None, received[c], more)
      BY <2>1, <3>2, <3>3, ChunkAdd
    <3> HIDE DEF more
    <3>5. receivedData'[c] = more
      BY <1>4, <3>1 DEF Set, TypeOK, ConnTypeOK
    <3> QED
      BY <1>4, <2>1, <3>1, <3>4, <3>5, ChunkAt
  <2> QED
    BY <2>2, <2>3
<1>5. ASSUME NEW c \in Conns, Flush(c), UNCHANGED serverVars PROVE ChunkInv'
  BY <1>5, ChunkSame DEF Flush
<1>6. ASSUME NEW c \in Conns, Resume(c), UNCHANGED serverVars PROVE ChunkInv'
  <2>1. UNCHANGED <<undefined, holder, arrived, inMessage>>
    BY <1>6 DEF Resume
  <2>2. CASE UNCHANGED <<received, receivedData>>
    BY <2>1, <2>2, ChunkSame
  <2>3. CASE RecvReturns(c)
    <3> DEFINE all == received[c] \o receivedData[c]
    <3>1. received' = Set(received, c, all) /\ receivedData' = Set(receivedData, c, <<>>)
      BY <2>3 DEF RecvReturns, DataAfterRecv
    <3>2. received[c] \in Seq(Nat) /\ receivedData[c] \in Seq(Nat)
      BY <1>6 DEF TypeOK, ConnTypeOK
    <3>3. undefined = "no" /\ holder[c] # None => Chunked(arrived[c], inMessage[c], all, <<>>)
      BY <1>6, <3>2, ChunkOf, ChunkTake
    <3> HIDE DEF all
    <3>4. /\ received'[c] = all /\ receivedData'[c] = <<>>
          /\ \A d \in Conns : d # c => /\ received'[d] = received[d]
                                       /\ receivedData'[d] = receivedData[d]
      BY <1>6, <3>1 DEF Set, TypeOK, ConnTypeOK
    <3>5. inMessage[c] # None => arrived[c] > 0
      BY <1>6 DEF ChunkInv
    <3> QED
      BY <1>6, <2>1, <3>3, <3>4, <3>5, ChunkAt
  <2> QED
    BY <1>6, <2>2, <2>3 DEF Resume
<1>7. ASSUME NEW c \in Conns, Recv(c), UNCHANGED serverVars PROVE ChunkInv'
  <2>1. UNCHANGED <<undefined, holder, arrived, inMessage>>
    BY <1>7 DEF Recv
  <2>2. CASE UNCHANGED <<received, receivedData>>
    BY <2>1, <2>2, ChunkSame
  <2>3. CASE RecvReturns(c)
    <3> DEFINE all == received[c] \o receivedData[c]
    <3>1. received' = Set(received, c, all) /\ receivedData' = Set(receivedData, c, <<>>)
      BY <2>3 DEF RecvReturns, DataAfterRecv
    <3>2. received[c] \in Seq(Nat) /\ receivedData[c] \in Seq(Nat)
      BY <1>7 DEF TypeOK, ConnTypeOK
    <3>3. undefined = "no" /\ holder[c] # None => Chunked(arrived[c], inMessage[c], all, <<>>)
      BY <1>7, <3>2, ChunkOf, ChunkTake
    <3> HIDE DEF all
    <3>4. /\ received'[c] = all /\ receivedData'[c] = <<>>
          /\ \A d \in Conns : d # c => /\ received'[d] = received[d]
                                       /\ receivedData'[d] = receivedData[d]
      BY <1>7, <3>1 DEF Set, TypeOK, ConnTypeOK
    <3>5. inMessage[c] # None => arrived[c] > 0
      BY <1>7 DEF ChunkInv
    <3> QED
      BY <1>7, <2>1, <3>3, <3>4, <3>5, ChunkAt
  <2> QED
    BY <1>7, <2>2, <2>3 DEF Recv
<1>8. ASSUME NEW c \in Conns, RecvSuspend(c), UNCHANGED serverVars PROVE ChunkInv'
  BY <1>8, ChunkSame DEF RecvSuspend
<1>9. ASSUME NEW c \in Conns, Send(c), UNCHANGED serverVars PROVE ChunkInv'
  BY <1>9, ChunkSame DEF Send
<1>10. ASSUME NEW c \in Conns, Return(c), UNCHANGED serverVars PROVE ChunkInv'
  BY <1>10, ChunkSame DEF Return
<1>11. ASSUME NEW c \in Conns, CleanupStep(c) PROVE ChunkInv'
  <2>1. /\ UNCHANGED <<undefined, arrived, inMessage, received>> /\ holder'[c] = None
        /\ \A d \in Conns : d # c => /\ holder'[d] = holder[d] /\ receivedData'[d] = receivedData[d]
    BY <1>11 DEF CleanupStep, Cleanup, Set, TypeOK, ConnTypeOK
  <2>2. inMessage[c] # None => arrived[c] > 0
    BY <1>11 DEF ChunkInv
  <2> QED
    BY <1>11, <2>1, <2>2, ChunkAt
<1>12. ASSUME NEW a \in Acceptors, StartAcceptor(a) PROVE ChunkInv'
  BY <1>12, ChunkSame DEF StartAcceptor
<1>13. ASSUME NEW a \in Acceptors, AwaitReady(a) PROVE ChunkInv'
  BY <1>13, ChunkSame DEF AwaitReady
<1>14. ASSUME NEW a \in Acceptors, AwaitSuspend(a) PROVE ChunkInv'
  BY <1>14, ChunkSame DEF AwaitSuspend
<1>15. CASE ResumeAcceptor
  BY <1>15, ChunkSame DEF ResumeAcceptor
<1>16. ASSUME NEW a \in Acceptors, AwaitThrows(a) PROVE ChunkInv'
  BY <1>16, ChunkSame DEF AwaitThrows
<1>17. ASSUME NEW a \in Acceptors, AwaitResume(a) PROVE ChunkInv'
  <2>1. PICK c \in Conns : /\ c = Head(pendingConnections) /\ tcp[c] # None /\ co[c] = None
    <3>1. /\ Head(pendingConnections) \in Conns /\ Head(pendingConnections) = Len(accepted) + 1
          /\ Len(pendingConnections) \in Nat /\ Len(pendingConnections) # 0
      BY <1>17, FirstPending, LenProperties, EmptySeq DEF AwaitResume, TypeOK
    <3>2. Head(pendingConnections) <= Arrivals /\ ~(Head(pendingConnections) <= Len(accepted))
      BY <3>1, Counts DEF Arrivals
    <3> QED
      BY <3>1, <3>2 DEF ObjectsInv
  <2>2. /\ UNCHANGED <<undefined, arrived, inMessage, received, receivedData>> /\ holder[c] # None
        /\ \A d \in Conns : d # c => holder'[d] = holder[d]
    BY <1>17, <2>1 DEF AwaitResume, MoveData, ObjectsInv, None, Set, TypeOK, ConnTypeOK
  <2> QED
    BY <2>2, ChunkMoved
<1>18. ASSUME NEW a \in Acceptors, Accepted(a) PROVE ChunkInv'
  BY <1>18, ChunkSame DEF Accepted
<1>19. ASSUME NEW a \in Acceptors, CallHandler(a) PROVE ChunkInv'
  <2>1. PICK c \in Conns : /\ c = Current /\ tcp[c] # None /\ co[c] = None
    <3>1. Current \in Conns /\ Current = Len(accepted) /\ co[Len(accepted)] = None
      BY <1>19, CurrentIs DEF CallHandler, At, HandoverInv
    <3> QED
      BY <3>1, Counts DEF ObjectsInv
  <2>2. /\ UNCHANGED <<undefined, arrived, inMessage, received, receivedData>> /\ holder[c] # None
        /\ \A d \in Conns : d # c => holder'[d] = holder[d]
    BY <1>19, <2>1 DEF CallHandler, MoveData, ObjectsInv, None, Set, TypeOK, ConnTypeOK
  <2> QED
    BY <2>2, ChunkMoved
<1>20. ASSUME NEW a \in Acceptors, SpawnHandler(a) PROVE ChunkInv'
  BY <1>20, ChunkSame DEF SpawnHandler
<1>21. ASSUME NEW a \in Acceptors, SpawnReturns(a) PROVE ChunkInv'
  BY <1>21, ChunkSame DEF SpawnReturns
<1>22. CASE UNCHANGED vars
  BY <1>22, ChunkSame DEF vars
<1> QED
  BY <1>1, <1>2, <1>3, <1>4, <1>5, <1>6, <1>7, <1>8, <1>9, <1>10, <1>11, <1>12,
     <1>13, <1>14, <1>15, <1>16, <1>17, <1>18, <1>19, <1>20, <1>21, <1>22
     DEF Next, PeerStep, IoStep, HandlerStep, AcceptorStep

-----------------------------------------------------------------------------
(* A lone acceptor.                                                         *)

\* While no acceptor waits, no handle is stored and no resume is queued.
LEMMA NobodyWaits ==
  ASSUME TypeOK, HandleInv, \A b \in Acceptors : acceptPc[b] # "waiting"
  PROVE  acceptCoroutine = None /\ resumeQueue = <<>>
<1>1. acceptCoroutine = None
  BY DEF HandleInv, TypeOK
<1>2. resumeQueue # <<>> => Head(resumeQueue) \in Acceptors
  BY HeadTailProperties DEF TypeOK
<1> QED
  BY <1>1, <1>2 DEF HandleInv

\* A step of a connection does not concern the acceptors.
LEMMA LoneSame ==
  ASSUME LoneInv, UNCHANGED serverVars
  PROVE  LoneInv'
BY DEF LoneInv, Lone, HandleInv, serverVars

\* As long as nobody else accepts, a resume is queued only for a connection that
\* stays in the queue until the acceptor takes it.
LEMMA LoneStep ==
  TypeOK /\ LoneInv /\ [Next]_vars => LoneInv'
<1> SUFFICES ASSUME TypeOK, LoneInv, [Next]_vars PROVE LoneInv'
  OBVIOUS
<1> USE DEF serverVars, connVars, dataVars, waitVars, coVars
<1>1. ASSUME NEW c \in Conns, OnConnection(c) PROVE LoneInv'
  <2>1. /\ pendingConnections' = Append(pendingConnections, c) /\ UNCHANGED <<acceptPc, threw>>
        /\ pendingConnections' # <<>>
    BY <1>1, AppendIsNot DEF OnConnection, TypeOK
  <2>2. SUFFICES ASSUME HandleInv PROVE HandleInv'
    BY <2>1 DEF LoneInv, Lone
  <2>3. CASE acceptCoroutine = None
    <3>1. UNCHANGED <<resumeQueue, acceptCoroutine>>
      BY <1>1, <2>3 DEF OnConnection
    <3> QED
      BY <2>1, <2>2, <2>3, <3>1 DEF HandleInv
  <2>4. CASE acceptCoroutine # None
    <3>1. /\ acceptCoroutine \in Acceptors /\ resumeQueue = <<>> /\ acceptCoroutine' = None
          /\ resumeQueue' = Append(<<>>, acceptCoroutine) /\ acceptPc[acceptCoroutine] = "waiting"
      BY <1>1, <2>2, <2>4 DEF OnConnection, AcceptorAfterWake, HandleInv, TypeOK
    <3>2. resumeQueue' = <<acceptCoroutine>>
      BY <3>1
    <3>3. Len(resumeQueue') = 1 /\ Head(resumeQueue') = acceptCoroutine
      BY <3>2
    <3> QED
      BY <2>1, <2>2, <3>1, <3>3 DEF HandleInv
  <2> QED
    BY <2>3, <2>4
<1>2. ASSUME NEW c \in Conns, MessageBegins(c), UNCHANGED serverVars PROVE LoneInv'
  BY <1>2, LoneSame
<1>3. ASSUME NEW c \in Conns, HandleClose(c), UNCHANGED serverVars PROVE LoneInv'
  BY <1>3, LoneSame
<1>4. ASSUME NEW c \in Conns, OnMessage(c), UNCHANGED serverVars PROVE LoneInv'
  BY <1>4, LoneSame
<1>5. ASSUME NEW c \in Conns, Flush(c), UNCHANGED serverVars PROVE LoneInv'
  BY <1>5, LoneSame
<1>6. ASSUME NEW c \in Conns, Resume(c), UNCHANGED serverVars PROVE LoneInv'
  BY <1>6, LoneSame
<1>7. ASSUME NEW c \in Conns, Recv(c), UNCHANGED serverVars PROVE LoneInv'
  BY <1>7, LoneSame
<1>8. ASSUME NEW c \in Conns, RecvSuspend(c), UNCHANGED serverVars PROVE LoneInv'
  BY <1>8, LoneSame
<1>9. ASSUME NEW c \in Conns, Send(c), UNCHANGED serverVars PROVE LoneInv'
  BY <1>9, LoneSame
<1>10. ASSUME NEW c \in Conns, Return(c), UNCHANGED serverVars PROVE LoneInv'
  BY <1>10, LoneSame
<1>11. ASSUME NEW c \in Conns, CleanupStep(c) PROVE LoneInv'
  BY <1>11, LoneSame DEF CleanupStep
<1>12. ASSUME NEW a \in Acceptors, StartAcceptor(a) PROVE LoneInv'
  <2>1. SUFFICES ASSUME Lone' PROVE HandleInv'
    BY DEF LoneInv
  <2>2. HandleInv /\ Lone /\ \A b \in Acceptors : acceptPc[b] = "idle"
    BY <1>12, <2>1 DEF StartAcceptor, Goto, LoneInv, Lone, TypeOK
  <2>3. acceptCoroutine = None /\ resumeQueue = <<>>
    BY <2>2, NobodyWaits
  <2> QED
    BY <1>12, <2>2, <2>3 DEF StartAcceptor, Goto, HandleInv, TypeOK
<1>13. ASSUME NEW a \in Acceptors, AwaitReady(a) PROVE LoneInv'
  <2>1. SUFFICES ASSUME Lone' PROVE HandleInv'
    BY DEF LoneInv
  <2>2. /\ HandleInv /\ Lone /\ acceptPc[a] \notin {"idle", "waiting"}
        /\ \A b \in Acceptors : b # a => acceptPc[b] = "idle"
    BY <1>13, <2>1 DEF AwaitReady, At, Goto, LoneInv, Lone, TypeOK
  <2>3. acceptCoroutine = None /\ resumeQueue = <<>>
    BY <1>13, <2>2, NobodyWaits
  <2> QED
    BY <1>13, <2>2, <2>3 DEF AwaitReady, At, Goto, HandleInv, TypeOK
<1>14. ASSUME NEW a \in Acceptors, AwaitSuspend(a) PROVE LoneInv'
  <2>1. SUFFICES ASSUME Lone' PROVE HandleInv'
    BY DEF LoneInv
  <2>2. /\ HandleInv /\ Lone /\ acceptPc[a] \notin {"idle", "waiting"}
        /\ \A b \in Acceptors : b # a => acceptPc[b] = "idle"
    BY <1>14, <2>1 DEF AwaitSuspend, At, Goto, LoneInv, Lone, TypeOK
  <2>3. acceptCoroutine = None /\ resumeQueue = <<>>
    BY <1>14, <2>2, NobodyWaits
  <2>4. acceptPc'[a] = "waiting" /\ \A b \in Acceptors : acceptPc'[b] # "resume"
    BY <1>14, <2>2 DEF AwaitSuspend, Goto, TypeOK
  <2>5. CASE pendingConnections = <<>>
    BY <1>14, <2>2, <2>3, <2>4, <2>5 DEF AwaitSuspend, ConnectionCame, StoresAcceptor, HandleInv
  <2>6. CASE pendingConnections # <<>>
    <3>1. /\ resumeQueue' = Append(<<>>, a) /\ acceptCoroutine' = None
          /\ UNCHANGED <<pendingConnections, threw>>
      BY <1>14, <2>3, <2>6 DEF AwaitSuspend, ConnectionCame, StoresAcceptor
    <3>2. resumeQueue' = <<a>>
      BY <3>1
    <3>3. Len(resumeQueue') = 1 /\ Head(resumeQueue') = a
      BY <3>2
    <3> QED
      BY <2>2, <2>4, <2>6, <3>1, <3>3 DEF HandleInv
  <2> QED
    BY <2>5, <2>6
<1>15. CASE ResumeAcceptor
  <2>1. SUFFICES ASSUME Lone' PROVE HandleInv'
    BY DEF LoneInv
  <2>2. /\ resumeQueue \in Seq(Acceptors) /\ resumeQueue # <<>> /\ Head(resumeQueue) \in Acceptors
        /\ resumeQueue' = Tail(resumeQueue)
        /\ UNCHANGED <<pendingConnections, acceptCoroutine, threw>>
        /\ acceptPc' = [acceptPc EXCEPT ![Head(resumeQueue)] = "resume"]
    BY <1>15, HeadTailProperties DEF ResumeAcceptor, Goto, TypeOK
  <2>3. HandleInv
    BY <2>1, <2>2 DEF LoneInv, Lone, TypeOK
  <2>4. /\ acceptCoroutine = None /\ pendingConnections # <<>>
        /\ Len(resumeQueue) = 1
    BY <2>2, <2>3 DEF HandleInv
  <2>5. Tail(resumeQueue) = <<>>
    <3>1. Tail(resumeQueue) \in Seq(Acceptors) /\ Len(Tail(resumeQueue)) = 0
      BY <2>2, <2>4, HeadTailProperties
    <3> QED
      BY <3>1, EmptySeq
  <2> QED
    BY <2>2, <2>3, <2>4, <2>5 DEF HandleInv
<1>16. ASSUME NEW a \in Acceptors, AwaitThrows(a) PROVE LoneInv'
  <2>1. SUFFICES ASSUME Lone' PROVE HandleInv'
    BY DEF LoneInv
  <2>2. /\ HandleInv /\ Lone /\ acceptPc[a] \notin {"idle", "waiting"}
        /\ \A b \in Acceptors : b # a => acceptPc[b] = "idle"
    BY <1>16, <2>1 DEF AwaitThrows, At, Goto, LoneInv, Lone, TypeOK
  <2>3. acceptCoroutine = None /\ resumeQueue = <<>>
    BY <1>16, <2>2, NobodyWaits
  <2> QED
    BY <1>16, <2>2, <2>3 DEF AwaitThrows, At, Goto, HandleInv, TypeOK
<1>17. ASSUME NEW a \in Acceptors, AwaitResume(a) PROVE LoneInv'
  <2>1. SUFFICES ASSUME Lone' PROVE HandleInv'
    BY DEF LoneInv
  <2>2. /\ HandleInv /\ Lone /\ acceptPc[a] \notin {"idle", "waiting"}
        /\ \A b \in Acceptors : b # a => acceptPc[b] = "idle"
    BY <1>17, <2>1 DEF AwaitResume, At, Goto, LoneInv, Lone, TypeOK
  <2>3. acceptCoroutine = None /\ resumeQueue = <<>>
    BY <1>17, <2>2, NobodyWaits
  <2> QED
    BY <1>17, <2>2, <2>3 DEF AwaitResume, At, Goto, HandleInv, TypeOK
<1>18. ASSUME NEW a \in Acceptors, Accepted(a) PROVE LoneInv'
  <2>1. SUFFICES ASSUME Lone' PROVE HandleInv'
    BY DEF LoneInv
  <2>2. /\ HandleInv /\ Lone /\ acceptPc[a] \notin {"idle", "waiting"}
        /\ \A b \in Acceptors : b # a => acceptPc[b] = "idle"
    BY <1>18, <2>1 DEF Accepted, At, Goto, LoneInv, Lone, TypeOK
  <2>3. acceptCoroutine = None /\ resumeQueue = <<>>
    BY <1>18, <2>2, NobodyWaits
  <2> QED
    BY <1>18, <2>2, <2>3 DEF Accepted, At, Goto, HandleInv, TypeOK
<1>19. ASSUME NEW a \in Acceptors, CallHandler(a) PROVE LoneInv'
  <2>1. SUFFICES ASSUME Lone' PROVE HandleInv'
    BY DEF LoneInv
  <2>2. /\ HandleInv /\ Lone /\ acceptPc[a] \notin {"idle", "waiting"}
        /\ \A b \in Acceptors : b # a => acceptPc[b] = "idle"
    BY <1>19, <2>1 DEF CallHandler, At, Goto, LoneInv, Lone, TypeOK
  <2>3. acceptCoroutine = None /\ resumeQueue = <<>>
    BY <1>19, <2>2, NobodyWaits
  <2> QED
    BY <1>19, <2>2, <2>3 DEF CallHandler, At, Goto, HandleInv, TypeOK
<1>20. ASSUME NEW a \in Acceptors, SpawnHandler(a) PROVE LoneInv'
  <2>1. SUFFICES ASSUME Lone' PROVE HandleInv'
    BY DEF LoneInv
  <2>2. /\ HandleInv /\ Lone /\ acceptPc[a] \notin {"idle", "waiting"}
        /\ \A b \in Acceptors : b # a => acceptPc[b] = "idle"
    BY <1>20, <2>1 DEF SpawnHandler, At, Goto, LoneInv, Lone, TypeOK
  <2>3. acceptCoroutine = None /\ resumeQueue = <<>>
    BY <1>20, <2>2, NobodyWaits
  <2> QED
    BY <1>20, <2>2, <2>3 DEF SpawnHandler, At, Goto, HandleInv, TypeOK
<1>21. ASSUME NEW a \in Acceptors, SpawnReturns(a) PROVE LoneInv'
  <2>1. SUFFICES ASSUME Lone' PROVE HandleInv'
    BY DEF LoneInv
  <2>2. /\ HandleInv /\ Lone /\ acceptPc[a] \notin {"idle", "waiting"}
        /\ \A b \in Acceptors : b # a => acceptPc[b] = "idle"
    BY <1>21, <2>1 DEF SpawnReturns, At, Goto, LoneInv, Lone, TypeOK
  <2>3. acceptCoroutine = None /\ resumeQueue = <<>>
    BY <1>21, <2>2, NobodyWaits
  <2> QED
    BY <1>21, <2>2, <2>3 DEF SpawnReturns, At, Goto, HandleInv, TypeOK
<1>22. CASE UNCHANGED vars
  BY <1>22, LoneSame DEF vars
<1> QED
  BY <1>1, <1>2, <1>3, <1>4, <1>5, <1>6, <1>7, <1>8, <1>9, <1>10, <1>11, <1>12,
     <1>13, <1>14, <1>15, <1>16, <1>17, <1>18, <1>19, <1>20, <1>21, <1>22
     DEF Next, PeerStep, IoStep, HandlerStep, AcceptorStep

-----------------------------------------------------------------------------
(* The theorems.                                                            *)

\* Init establishes every part of the invariant.
LEMMA InvInit ==
  Init => AsyncInv
<1> SUFFICES ASSUME Init PROVE AsyncInv
  OBVIOUS
<1>1. TypeOK
  BY TypeInit
<1>2. OrderInv /\ HandoverInv
  BY DEF Init, OrderInv, HandoverInv, Busy
<1>3. Arrivals = 0
  BY DEF Init, Arrivals
<1>4. ObjectsInv
  BY <1>3 DEF Init, ConnInit, ObjectsInv, Conns, None
<1>5. ResumeInv
  BY DEF Init, ConnInit, ResumeInv, OneResume, NoSpuriousEof, None
<1>6. ChunkInv
  BY DEF Init, ConnInit, ChunkInv, ChunksIntact
<1>7. LoneInv
  BY DEF Init, LoneInv, HandleInv
<1> QED
  BY <1>1, <1>2, <1>4, <1>5, <1>6, <1>7 DEF AsyncInv

\* The inductive invariant of the server and its connections.
THEOREM AsyncInvHolds ==
  Spec => []AsyncInv
<1>1. AsyncInv /\ [Next]_vars => AsyncInv'
  BY TypeStep, OrderStep, HandoverStep, ObjectsStep, ResumeStep, ChunkStep, LoneStep
     DEF AsyncInv
<1> QED
  BY InvInit, <1>1, PTL DEF Spec

\* A coroutine suspended in recv() is resumed by exactly one functor: the stored
\* handle and the queued resume exclude each other, and one of them is there.
THEOREM AlwaysOneResume ==
  Spec => []OneResumePerRecv
<1>1. AsyncInv => OneResumePerRecv
  BY DEF AsyncInv, ResumeInv, OneResume, OneResumePerRecv
<1> QED
  BY <1>1, AsyncInvHolds, PTL

\* recv() never returns an empty buffer of an open connection: whoever queues the
\* resume has put data into receivedData_, and nobody else takes it out.
THEOREM NeverSpuriousEof ==
  Spec => []NoSpuriousEof
<1>1. AsyncInv => NoSpuriousEof
  BY DEF AsyncInv, ResumeInv
<1> QED
  BY <1>1, AsyncInvHolds, PTL

\* Every chunk read from the socket reaches the handler once and in order, through
\* both moves of the AsyncConnection, as long as behaviour is defined.
THEOREM ChunksAlwaysIntact ==
  Spec => []ChunksIntact
<1>1. AsyncInv => ChunksIntact
  BY DEF AsyncInv, ChunkInv
<1> QED
  BY <1>1, AsyncInvHolds, PTL

\* With a single acceptor await_resume() always finds a connection: the exception
\* "shouldn't happen", and does not.
THEOREM ThrowAlwaysNeedsTwo ==
  Spec => []ThrowNeedsTwoAcceptors
<1>1. AsyncInv => ThrowNeedsTwoAcceptors
  <2> SUFFICES ASSUME AsyncInv, threw PROVE Cardinality(Started) > 1
    BY DEF ThrowNeedsTwoAcceptors, AsyncInv
  <2>1. PICK a \in Acceptors, b \in Acceptors :
           acceptPc[a] # "idle" /\ acceptPc[b] # "idle" /\ a # b
    BY DEF AsyncInv, LoneInv, Lone, HandleInv
  <2>2. IsFiniteSet(Started)
    BY FS_Subset, AcceptorsAssumption DEF AcceptorsAssumption, Started
  <2>3. {a, b} \in SUBSET Started
    BY <2>1 DEF Started
  <2>4. Cardinality({a} \cup {b}) = 2
    <3>1. IsFiniteSet({a}) /\ Cardinality({a}) = 1
      BY FS_Singleton
    <3> QED
      BY <2>1, <3>1, FS_AddElement
  <2>5. Cardinality({a, b}) <= Cardinality(Started)
    BY <2>2, <2>3, FS_Subset
  <2>6. Cardinality(Started) \in Nat /\ {a, b} = {a} \cup {b}
    BY <2>2, FS_CardinalityType
  <2> QED
    BY <2>4, <2>5, <2>6
<1> QED
  BY <1>1, AsyncInvHolds, PTL

\* The server implements a FIFO queue: onConnection() submits, await_resume()
\* starts, and every other step leaves the queue alone, so each connection is handed
\* out once and in order however many acceptors there are.
THEOREM AlwaysAcceptsInOrder ==
  Spec => AcceptsInOrder
<1>1. Init => LQ!Init
  BY DEF Init, LQ!Init, Arrivals
<1>2. TypeOK /\ OrderInv /\ [Next]_vars => [LQ!Next]_(LQ!vars)
  <2> SUFFICES ASSUME TypeOK, OrderInv, [Next]_vars PROVE LQ!Next \/ UNCHANGED LQ!vars
    OBVIOUS
  <2>1. ASSUME NEW c \in Conns, OnConnection(c) PROVE LQ!Submit
    <3>1. /\ pendingConnections' = Append(pendingConnections, c) /\ UNCHANGED accepted
          /\ c = Arrivals + 1 /\ pendingConnections \in Seq(Conns)
      BY <2>1 DEF OnConnection, TypeOK
    <3>2. Len(pendingConnections') = Len(pendingConnections) + 1
      BY <2>1, <3>1, AppendProperties
    <3>3. Arrivals' = Arrivals + 1
      BY <3>1, <3>2, Counts DEF Arrivals
    <3>4. Arrivals < MaxConns
      BY <2>1, <3>1, Counts, ConnsAssumption DEF ConnsAssumption, Conns
    <3> QED
      BY <3>1, <3>3, <3>4 DEF LQ!Submit
  <2>2. ASSUME NEW a \in Acceptors, AwaitResume(a) PROVE LQ!Start
    <3>1. /\ pendingConnections # <<>> /\ pendingConnections' = Tail(pendingConnections)
          /\ accepted' = Append(accepted, Head(pendingConnections))
          /\ pendingConnections \in Seq(Conns) /\ accepted \in Seq(Conns)
      BY <2>2 DEF AwaitResume, PopFront, TypeOK
    <3>2. /\ Head(pendingConnections) \in Conns
          /\ Len(accepted') = Len(accepted) + 1
          /\ Len(pendingConnections') = Len(pendingConnections) - 1
      BY <3>1, FirstPending, AppendProperties, HeadTailProperties
    <3>3. Arrivals' = Arrivals
      BY <3>2, Counts DEF Arrivals
    <3> QED
      BY <3>1, <3>3 DEF LQ!Start
  <2>3. ASSUME UNCHANGED <<pendingConnections, accepted>> PROVE UNCHANGED LQ!vars
    BY <2>3 DEF LQ!vars, Arrivals
  <2>4. ASSUME UNCHANGED serverVars PROVE UNCHANGED LQ!vars
    BY <2>3, <2>4 DEF serverVars
  <2>5. ASSUME NEW a \in Acceptors, StartAcceptor(a) \/ AwaitReady(a) \/ AwaitSuspend(a)
        PROVE  UNCHANGED LQ!vars
    BY <2>3, <2>5 DEF StartAcceptor, AwaitReady, AwaitSuspend
  <2>6. ASSUME NEW a \in Acceptors, AwaitThrows(a) \/ Accepted(a) \/ CallHandler(a)
        PROVE  UNCHANGED LQ!vars
    BY <2>3, <2>6 DEF AwaitThrows, Accepted, CallHandler
  <2>7. ASSUME NEW a \in Acceptors, SpawnHandler(a) \/ SpawnReturns(a)
        PROVE  UNCHANGED LQ!vars
    BY <2>3, <2>7 DEF SpawnHandler, SpawnReturns
  <2>8. CASE ResumeAcceptor
    BY <2>3, <2>8 DEF ResumeAcceptor
  <2>9. ASSUME NEW c \in Conns, CleanupStep(c) PROVE UNCHANGED LQ!vars
    BY <2>4, <2>9 DEF CleanupStep
  <2>10. CASE UNCHANGED vars
    BY <2>4, <2>10 DEF vars
  <2> QED
    BY <2>1, <2>2, <2>4, <2>5, <2>6, <2>7, <2>8, <2>9, <2>10 DEF Next, AcceptorStep, LQ!Next
<1>3. AsyncInv => TypeOK /\ OrderInv
  BY DEF AsyncInv
<1> QED
  BY <1>1, <1>2, <1>3, AsyncInvHolds, PTL DEF Spec, AcceptsInOrder, LQ!Spec

=============================================================================
