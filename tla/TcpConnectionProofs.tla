------------------------ MODULE TcpConnectionProofs ------------------------
(***************************************************************************)
(* Proofs about TcpConnection, for any clients, message lengths and sizes  *)
(* of the kernel's buffers.                                                *)
(***************************************************************************)
EXTENDS TcpConnection, SeqLemmas, SequenceTheorems, FiniteSetTheorems, TLAPS

-----------------------------------------------------------------------------
(* The inductive invariant.                                                 *)

\* Bytes read are bytes the peer sent, and only bytes read are owed.
CountsInv == inbound + received <= peerSent /\ owed <= received

\* Until connectEstablished() has run it is the only functor and nothing else has
\* happened; afterwards it is never queued again, and connectDestroyed() is
\* queued only behind handleClose().
LifeInv ==
    /\ state = "Connecting" =>
         /\ queue = <<[op |-> "established"]>>
         /\ pc = "loop" /\ dispatches = 0
         /\ ~closed
         /\ \A t \in Clients : checked[t] = NoCall
    /\ state # "Connecting" =>
         \A i \in 1..Len(queue) : /\ queue[i].op # "established"
                                  /\ queue[i].op = "destroyed" => closed

\* An open connection is registered as events_ says, READ included, so every
\* change reaches the kqueue; a closed one has no READ interest left, so none does.
WatchInv ==
    /\ state = "Connecting" => events = {} /\ kq = {}
    /\ state # "Connecting" /\ ~closed => "read" \in events /\ kq = events
    /\ closed => kq = {} /\ "read" \notin events
    /\ ~closed => (outputBuffer # <<>> <=> "write" \in kq)

ConnInv == TypeOK /\ CountsInv /\ LifeInv /\ WatchInv

-----------------------------------------------------------------------------
\* Functors by their kind.
LEMMA FunctorFacts ==
  /\ \A f \in Functors : f.op = "send" => f.len \in MsgLens
  /\ \A f \in Calls : f \in Functors /\ f.op # "established" /\ f.op # "destroyed"
  /\ [op |-> "established"] \in Functors /\ [op |-> "destroyed"] \in Functors
<1>1. \A f \in Functors : f.op = "send" => f.len \in MsgLens
  BY DEF Functors, Calls
<1>2. \A f \in Calls : f \in Functors /\ f.op # "established" /\ f.op # "destroyed"
  BY DEF Functors, Calls
<1>3. [op |-> "established"] \in Functors /\ [op |-> "destroyed"] \in Functors
  BY DEF Functors
<1> QED
  BY <1>1, <1>2, <1>3



\* StreamIntact in terms of runs.
LEMMA StreamIsRun == TypeOK => (StreamIntact <=> wire \o outputBuffer = Bytes(0, accepted))
<1> SUFFICES ASSUME TypeOK
             PROVE  StreamIntact <=> wire \o outputBuffer = Bytes(0, accepted)
  OBVIOUS
<1>1. [i \in 1..accepted |-> i] = Bytes(0, accepted)
  BY DEF TypeOK, Bytes
<1> QED
  BY <1>1 DEF StreamIntact

\* What sendInLoop() does: it continues the stream, and it leaves output buffered
\* only with WRITE interest set or newly asked for.
LEMMA SendFacts ==
  ASSUME TypeOK, NEW len \in MsgLens, SendInLoop(len)
  PROVE  /\ outputBuffer' \in Seq(Nat) /\ wire' \in Seq(Nat)
         /\ accepted' \in Nat /\ room' \in 0..SendBuffer
         /\ StreamIntact => wire' \o outputBuffer' = Bytes(0, accepted')
         /\ \/ outputBuffer' = outputBuffer /\ UNCHANGED channelVars
            \/ outputBuffer' # <<>> /\ IsWriting /\ UNCHANGED channelVars
            \/ outputBuffer' # <<>> /\ ~IsWriting /\ SetEvents(events \cup {"write"})
<1> USE SizesAssumption DEF SizesAssumption
<1> DEFINE fresh == [i \in 1..len |-> accepted + i]
           n == IF WritesDirectly THEN Least(room, len) ELSE 0
           front == SubSeq(fresh, 1, n)
           back == SubSeq(fresh, n + 1, len)
<1>0. /\ len \in Nat /\ len > 0 /\ accepted \in Nat /\ room \in 0..SendBuffer
      /\ outputBuffer \in Seq(Nat) /\ wire \in Seq(Nat)
  BY DEF TypeOK
<1>1. CASE WritesDirectly /\ BrokenPipe
  BY <1>0, <1>1, StreamIsRun DEF SendInLoop, outVars, TypeOK
<1>2. CASE ~(WritesDirectly /\ BrokenPipe)
  <2>1. /\ accepted' = accepted + len
        /\ wire' = wire \o front
        /\ room' = room - n
        /\ outputBuffer' = outputBuffer \o back
        /\ WatchForRest(len - n)
    BY <1>2 DEF SendInLoop
  <2>2. n \in 0..len /\ n <= room /\ (~WritesDirectly => n = 0)
    BY <1>0 DEF Least
  <2>3. fresh = Bytes(accepted, len)
    BY DEF Bytes
  <2>4. fresh \in Seq(Nat) /\ Len(fresh) = len
    BY <1>0, <2>3, NumberedRun
  <2> HIDE DEF n, fresh
  <2>5. /\ front \in Seq(Nat) /\ Len(front) = n
        /\ back \in Seq(Nat) /\ Len(back) = len - n
        /\ front \o back = fresh
    BY <2>2, <2>4, Cut
  <2> HIDE DEF front, back
  <2>6. /\ outputBuffer' \in Seq(Nat) /\ wire' \in Seq(Nat)
        /\ Len(outputBuffer') = Len(outputBuffer) + (len - n)
    BY <1>0, <2>1, <2>5, ConcatProperties
  <2>7. accepted' \in Nat /\ room' \in 0..SendBuffer
    BY <1>0, <2>1, <2>2
  <2>8. ASSUME StreamIntact PROVE wire' \o outputBuffer' = Bytes(0, accepted')
    <3>1. wire' \o outputBuffer' = (wire \o outputBuffer) \o fresh
      <4>1. CASE WritesDirectly
        <5>1. outputBuffer = <<>>
          BY <4>1 DEF WritesDirectly
        <5>2. wire \o outputBuffer = wire /\ outputBuffer \o back = back
          BY <5>1, <1>0, <2>5, ConcatEmptySeq
        <5>3. (wire \o front) \o back = wire \o (front \o back)
          <6>1. wire \in Seq(Nat) /\ front \in Seq(Nat) /\ back \in Seq(Nat)
            BY <1>0, <2>5
          <6> QED
            BY <6>1, ConcatAssociative
        <5> QED
          BY <2>1, <2>5, <5>2, <5>3
      <4>2. CASE ~WritesDirectly
        <5>1. n = 0
          BY <2>2, <4>2
        <5>2. front = <<>>
          BY <5>1, <2>5, EmptySeq
        <5>3. wire \o front = wire /\ front \o back = back
          BY <5>2, <1>0, <2>5, ConcatEmptySeq
        <5>4. (wire \o outputBuffer) \o back = wire \o (outputBuffer \o back)
          BY <1>0, <2>5, ConcatAssociative
        <5> QED
          BY <2>1, <2>5, <5>3, <5>4
      <4> QED
        BY <4>1, <4>2
    <3>2. wire \o outputBuffer = Bytes(0, accepted)
      BY <2>8, StreamIsRun
    <3>3. Bytes(0, accepted) \o Bytes(0 + accepted, len) = Bytes(0, accepted + len)
      BY <1>0, RunExtended
    <3> QED
      BY <1>0, <2>1, <2>3, <3>1, <3>2, <3>3
  <2>9. \/ outputBuffer' = outputBuffer /\ UNCHANGED channelVars
        \/ outputBuffer' # <<>> /\ IsWriting /\ UNCHANGED channelVars
        \/ outputBuffer' # <<>> /\ ~IsWriting /\ SetEvents(events \cup {"write"})
    <3>0. Len(outputBuffer) \in Nat
      BY <1>0, LenProperties
    <3>1. CASE len - n = 0
      <4>1. back = <<>>
        BY <3>1, <2>5, EmptySeq
      <4>2. outputBuffer' = outputBuffer
        BY <4>1, <2>1, <1>0, ConcatEmptySeq
      <4>3. UNCHANGED channelVars
        BY <3>1, <2>1 DEF WatchForRest
      <4> QED
        BY <4>2, <4>3
    <3>2. CASE len - n > 0
      <4>1. outputBuffer' # <<>>
        BY <3>0, <3>2, <2>6, <2>2, <1>0, EmptySeq
      <4>2. CASE IsWriting
        BY <4>1, <4>2, <2>1 DEF WatchForRest
      <4>3. CASE ~IsWriting
        BY <4>1, <4>3, <3>2, <2>1 DEF WatchForRest
      <4> QED
        BY <4>2, <4>3
    <3> QED
      BY <3>1, <3>2, <2>2, <1>0
  <2> QED
    BY <2>6, <2>7, <2>8, <2>9
<1> QED
  BY <1>1, <1>2


\* What handleWrite() does: it moves bytes from the buffer to the wire, and it
\* drops WRITE interest and half-closes only when it has moved them all.
LEMMA WriteFacts ==
  ASSUME TypeOK, WriteTest
  PROVE  /\ outputBuffer' \in Seq(Nat) /\ wire' \in Seq(Nat) /\ room' \in 0..SendBuffer
         /\ wire' \o outputBuffer' = wire \o outputBuffer
         /\ wrShut' \in BOOLEAN
         /\ \/ /\ UNCHANGED <<events, kq, wrShut>>
               /\ outputBuffer' = <<>> <=> outputBuffer = <<>>
            \/ /\ outputBuffer # <<>> /\ outputBuffer' = <<>> /\ IsWriting
               /\ SetEvents(events \ {"write"})
<1> USE SizesAssumption DEF SizesAssumption
<1> DEFINE n == IF "write" \in revents /\ IsWriting /\ ~BrokenPipe
                  THEN Least(room, Len(outputBuffer)) ELSE 0
           drained == n > 0 /\ n = Len(outputBuffer)
           front == SubSeq(outputBuffer, 1, n)
           back == SubSeq(outputBuffer, n + 1, Len(outputBuffer))
<1>0. /\ room \in 0..SendBuffer /\ Len(outputBuffer) \in Nat
      /\ outputBuffer \in Seq(Nat) /\ wire \in Seq(Nat) /\ wrShut \in BOOLEAN
  BY LenProperties DEF TypeOK
<1>1. /\ wire' = wire \o front
      /\ outputBuffer' = back
      /\ room' = room - n
      /\ IF drained THEN SetEvents(events \ {"write"}) ELSE UNCHANGED channelVars
      /\ LateShutdown(drained)
  BY DEF WriteTest
<1>2. n \in 0..Len(outputBuffer) /\ n <= room /\ (n > 0 => IsWriting)
  BY <1>0 DEF Least
<1> HIDE DEF n
<1>3. /\ front \in Seq(Nat) /\ Len(front) = n
      /\ back \in Seq(Nat) /\ Len(back) = Len(outputBuffer) - n
      /\ front \o back = outputBuffer
  BY <1>0, <1>2, Cut
<1> HIDE DEF front, back
<1>4. wire' \in Seq(Nat) /\ outputBuffer' \in Seq(Nat)
  BY <1>0, <1>1, <1>3, ConcatProperties
<1>5. room' \in 0..SendBuffer
  BY <1>0, <1>1, <1>2
<1>6. wire' \o outputBuffer' = wire \o outputBuffer
  <2>1. wire \in Seq(Nat) /\ front \in Seq(Nat) /\ back \in Seq(Nat)
    BY <1>0, <1>3
  <2>2. (wire \o front) \o back = wire \o (front \o back)
    BY <2>1, ConcatAssociative
  <2> QED
    BY <1>1, <1>3, <2>2
<1>7. wrShut' \in BOOLEAN
  BY <1>1, Zenon DEF LateShutdown
<1>8. \/ /\ UNCHANGED <<events, kq, wrShut>>
         /\ outputBuffer' = <<>> <=> outputBuffer = <<>>
      \/ /\ outputBuffer # <<>> /\ outputBuffer' = <<>> /\ IsWriting
         /\ SetEvents(events \ {"write"})
  <2>1. CASE drained
    <3>1. outputBuffer # <<>> /\ outputBuffer' = <<>>
      BY <2>1, <1>0, <1>1, <1>3, EmptySeq
    <3> QED
      BY <2>1, <3>1, <1>1, <1>2
  <2>2. CASE ~drained
    <3>1. outputBuffer' = <<>> <=> outputBuffer = <<>>
      <4>1. Len(outputBuffer') = 0 <=> Len(outputBuffer) = 0
        BY <2>2, <1>0, <1>1, <1>2, <1>3
      <4> QED
        BY <4>1, <1>0, <1>4, EmptySeq
    <3>2. UNCHANGED <<events, kq>>
      BY <2>2, <1>1 DEF channelVars
    <3>3. wrShut' = wrShut
      <4>1. wrShut' = (wrShut \/ FALSE)
        BY <2>2, <1>1 DEF LateShutdown
      <4> QED
        BY <4>1, <1>0
    <3> QED
      BY <3>1, <3>2, <3>3
  <2> QED
    BY <2>1, <2>2
<1> QED
  BY <1>4, <1>5, <1>6, <1>7, <1>8

\* Interest sets and registrations are sets of filters.
LEMMA SetEventsType ==
  ASSUME TypeOK, NEW ev \in SUBSET Filters, SetEvents(ev)
  PROVE  events' \in SUBSET Filters /\ kq' \in SUBSET Filters
BY DEF TypeOK, SetEvents, KqUpdate


\* handleClose() keeps the types.
LEMMA CloseType ==
  ASSUME TypeOK, HandleClose
  PROVE  /\ state' \in States /\ closed' \in BOOLEAN
         /\ events' \in SUBSET Filters /\ kq' \in SUBSET Filters
<1>1. events' \in SUBSET Filters /\ kq' \in SUBSET Filters
  BY SetEventsType DEF HandleClose, EventsAfterClose
<1>2. state' \in States
  BY DEF HandleClose, States
<1>3. closed' \in BOOLEAN
  BY Zenon DEF HandleClose
<1> QED
  BY <1>1, <1>2, <1>3

\* The queue of the loop: a functor is taken at the head, others are added behind.
LEMMA FunctorTaken ==
  ASSUME TypeOK, NEW o, RunFunctor(o)
  PROVE  /\ queue' \in Seq(Functors) /\ Head(queue) \in Functors
         /\ Head(queue) = queue[1] /\ 1 \in 1..Len(queue)
         /\ \A i \in 1..Len(queue') : i + 1 \in 1..Len(queue) /\ queue'[i] = queue[i + 1]
<1>1. /\ queue \in Seq(Functors) /\ queue # <<>> /\ queue' = Tail(queue)
      /\ Len(queue) \in Nat /\ Len(queue) # 0
  BY EmptySeq, LenProperties DEF TypeOK, RunFunctor
<1>2. /\ queue' \in Seq(Functors) /\ Head(queue) \in Functors /\ Head(queue) = queue[1]
      /\ Len(queue') = Len(queue) - 1
      /\ \A i \in 1..Len(Tail(queue)) : Tail(queue)[i] = queue[i + 1]
  BY <1>1, HeadTailProperties
<1>3. \A i \in 1..Len(queue') : i + 1 \in 1..Len(queue)
  BY <1>1, <1>2
<1> QED
  BY <1>1, <1>2, <1>3

\* A functor queued behind the others leaves them where they are.
LEMMA FunctorQueued ==
  ASSUME TypeOK, NEW f \in Functors, queue' = Append(queue, f)
  PROVE  /\ queue' \in Seq(Functors)
         /\ \A i \in 1..Len(queue') : \/ i \in 1..Len(queue) /\ queue'[i] = queue[i]
                                      \/ queue'[i] = f
<1>1. queue \in Seq(Functors) /\ Len(queue) \in Nat
  BY LenProperties DEF TypeOK
<1>2. /\ queue' \in Seq(Functors) /\ Len(queue') = Len(queue) + 1
      /\ \A i \in 1..Len(queue) : queue'[i] = queue[i]
      /\ queue'[Len(queue) + 1] = f
  BY <1>1, AppendProperties
<1> QED
  BY <1>1, <1>2

\* One kevent() reports each filter at most once.
LEMMA FiredCount == Cardinality(Fired) \in 0..2
<1>1. /\ Fired = {} \/ Fired = {"read"} \/ Fired = {"write"} \/ Fired = {"read", "write"}
  BY DEF Fired
<1>2. /\ Cardinality({}) = 0 /\ Cardinality({"read"}) = 1 /\ Cardinality({"write"}) = 1
      /\ Cardinality({"read", "write"}) = 2
  <2>1. Cardinality({}) = 0 /\ IsFiniteSet({})
    BY FS_EmptySet
  <2>2. Cardinality({"read"}) = 1 /\ IsFiniteSet({"read"}) /\ Cardinality({"write"}) = 1
    BY FS_Singleton
  <2>3. "write" \notin {"read"} /\ {"read"} \cup {"write"} = {"read", "write"}
    OBVIOUS
  <2>4. Cardinality({"read"} \cup {"write"}) = 2
    BY <2>2, <2>3, FS_AddElement
  <2> QED
    BY <2>1, <2>2, <2>3, <2>4
<1> QED
  BY <1>1, <1>2


\* sendInLoop() keeps the types.
LEMMA SendType ==
  ASSUME TypeOK, NEW len \in MsgLens, SendInLoop(len)
  PROVE  /\ outputBuffer' \in Seq(Nat) /\ wire' \in Seq(Nat)
         /\ accepted' \in Nat /\ room' \in 0..SendBuffer
         /\ events' \in SUBSET Filters /\ kq' \in SUBSET Filters
<1>1. SetEvents(events \cup {"write"}) =>
        events' \in SUBSET Filters /\ kq' \in SUBSET Filters
  BY DEF TypeOK, SetEvents, KqUpdate, Filters
<1> QED
  BY <1>1, SendFacts DEF channelVars, TypeOK

\* Every step keeps the types.
LEMMA TypeStep ==
  TypeOK /\ CountsInv /\ [Next]_vars => TypeOK'
<1> SUFFICES ASSUME TypeOK, CountsInv, [Next]_vars PROVE TypeOK'
  OBVIOUS
<1> USE SizesAssumption DEF SizesAssumption, TypeOK, CountsInv, States, Pcs,
        outVars, inVars, loopVars, userVars, channelVars
<1>1. CASE Dispatch
  BY <1>1 DEF Dispatch
<1>2. CASE CloseTest
  <2>1. HandleClose => /\ state' \in States /\ closed' \in BOOLEAN
                       /\ events' \in SUBSET Filters /\ kq' \in SUBSET Filters
    BY CloseType
  <2>2. /\ state' \in States /\ closed' \in BOOLEAN
        /\ events' \in SUBSET Filters /\ kq' \in SUBSET Filters
    BY <1>2, <2>1 DEF CloseTest
  <2> QED
    BY <1>2, <2>2 DEF CloseTest
<1>3. CASE ReadTest
  <2>1. HandleClose => /\ state' \in States /\ closed' \in BOOLEAN
                       /\ events' \in SUBSET Filters /\ kq' \in SUBSET Filters
    BY CloseType
  <2>2. /\ state' \in States /\ closed' \in BOOLEAN
        /\ events' \in SUBSET Filters /\ kq' \in SUBSET Filters
    BY <1>3, <2>1 DEF ReadTest
  <2>3. inbound' \in 0..MaxIn /\ received' \in 0..MaxIn /\ owed' \in 0..MaxIn
    BY <1>3 DEF ReadTest, Unread, Least
  <2>4. pc' \in Pcs
    BY <1>3 DEF ReadTest
  <2>5. UNCHANGED <<outVars, wrShut, peer, peerSent, revents, dispatches, queue,
                    userVars, inMap>>
    BY <1>3 DEF ReadTest
  <2> QED
    BY <2>2, <2>3, <2>4, <2>5
<1>4. CASE WriteTest
  <2>1. /\ outputBuffer' \in Seq(Nat) /\ wire' \in Seq(Nat) /\ room' \in 0..SendBuffer
        /\ wrShut' \in BOOLEAN
        /\ events' \in SUBSET Filters /\ kq' \in SUBSET Filters
    BY <1>4, WriteFacts DEF SetEvents, KqUpdate
  <2>2. /\ pc' = "loop"
        /\ UNCHANGED <<state, accepted, inVars, revents, dispatches, queue,
                       userVars, inMap, closed>>
    BY <1>4 DEF WriteTest
  <2> QED
    BY <2>1, <2>2
<1>5. CASE EndCallback
  BY <1>5 DEF EndCallback
<1>6. CASE ConnectEstablished
  <2>1. queue' \in Seq(Functors)
    BY <1>6, FunctorTaken DEF ConnectEstablished
  <2>2. events' \in SUBSET Filters /\ kq' \in SUBSET Filters
    BY <1>6 DEF ConnectEstablished, SetEvents, KqUpdate, Filters
  <2> QED
    BY <1>6, <2>1, <2>2 DEF ConnectEstablished
<1>7. CASE RunSend
  <2>1. queue' \in Seq(Functors) /\ Head(queue).len \in MsgLens
    BY <1>7, FunctorTaken, FunctorFacts DEF RunSend, RunFunctor
  <2>2. /\ outputBuffer' \in Seq(Nat) /\ wire' \in Seq(Nat)
        /\ accepted' \in Nat /\ room' \in 0..SendBuffer
        /\ events' \in SUBSET Filters /\ kq' \in SUBSET Filters
    BY <1>7, <2>1, SendType DEF RunSend
  <2>3. UNCHANGED <<state, wrShut, inVars, loopVars, userVars, inMap, closed>>
    BY <1>7 DEF RunSend
  <2> QED
    BY <2>1, <2>2, <2>3
<1>8. CASE RunShutdown
  BY <1>8 DEF RunShutdown, RunFunctor, ShutdownInLoop
<1>9. CASE RunClose
  <2>1. queue' \in Seq(Functors)
    BY <1>9, FunctorTaken DEF RunClose
  <2>2. /\ state' \in States /\ closed' \in BOOLEAN
        /\ events' \in SUBSET Filters /\ kq' \in SUBSET Filters
    BY <1>9, CloseType DEF RunClose
  <2> QED
    BY <1>9, <2>1, <2>2 DEF RunClose
<1>10. CASE ConnectDestroyed
  <2>1. queue' \in Seq(Functors)
    BY <1>10, FunctorTaken DEF ConnectDestroyed
  <2>2. events' \in SUBSET Filters /\ kq' \in SUBSET Filters
    BY <1>10 DEF ConnectDestroyed, SetEvents, KqUpdate
  <2> QED
    BY <1>10, <2>1, <2>2 DEF ConnectDestroyed
<1>11. CASE Poll
  <2>1. dispatches' \in 0..2
    BY <1>11, FiredCount DEF Poll
  <2>2. revents' \in SUBSET (Filters \cup {"close"})
    BY <1>11 DEF Poll, ReventsOf, Fired, Filters
  <2> QED
    BY <1>11, <2>1, <2>2 DEF Poll
<1>12. CASE ServerRemove
  <2>1. queue' \in Seq(Functors)
    BY <1>12, FunctorQueued, FunctorFacts DEF ServerRemove
  <2> QED
    BY <1>12, <2>1 DEF ServerRemove
<1>13. ASSUME NEW len \in MsgLens, LoopSend(len) PROVE TypeOK'
  <2>1. /\ outputBuffer' \in Seq(Nat) /\ wire' \in Seq(Nat)
        /\ accepted' \in Nat /\ room' \in 0..SendBuffer
        /\ events' \in SUBSET Filters /\ kq' \in SUBSET Filters
    <3>1. CASE state = "Connected"
      BY <1>13, <3>1, SendType DEF LoopSend
    <3>2. CASE state # "Connected"
      BY <1>13, <3>2 DEF LoopSend
    <3> QED
      BY <3>1, <3>2
  <2>2. calls' \in 0..MaxCalls /\ owed' \in 0..MaxIn
    BY <1>13 DEF LoopSend
  <2>3. UNCHANGED <<state, wrShut, peer, inbound, peerSent, received, loopVars, queue,
                    checked, inMap, closed>>
    BY <1>13 DEF LoopSend
  <2> QED
    BY <2>1, <2>2, <2>3
<1>14. CASE LoopShutdown
  BY <1>14 DEF LoopShutdown, ShutdownInLoop
<1>15. CASE LoopForceClose
  <2>1. /\ state' \in States /\ closed' \in BOOLEAN
        /\ events' \in SUBSET Filters /\ kq' \in SUBSET Filters
    BY <1>15, CloseType DEF LoopForceClose
  <2> QED
    BY <1>15, <2>1 DEF LoopForceClose
<1>16. ASSUME NEW t \in Clients, NEW call \in Calls, ClientCheck(t, call) PROVE TypeOK'
  BY <1>16 DEF ClientCheck
<1>17. ASSUME NEW t \in Clients, ClientAct(t) PROVE TypeOK'
  <2>1. checked[t] \in Calls
    BY <1>17 DEF ClientAct
  <2>2. queue' \in Seq(Functors)
    BY <1>17, <2>1, FunctorQueued, FunctorFacts DEF ClientAct
  <2> QED
    BY <1>17, <2>2 DEF ClientAct
<1>18. CASE PeerSends
  BY <1>18 DEF PeerSends
<1>19. CASE PeerFin
  BY <1>19 DEF PeerFin
<1>20. CASE PeerReset
  BY <1>20 DEF PeerReset
<1>21. CASE PeerAcks
  BY <1>21 DEF PeerAcks
<1>22. CASE UNCHANGED vars
  BY <1>22 DEF vars
<1> QED
  BY <1>1, <1>2, <1>3, <1>4, <1>5, <1>6, <1>7, <1>8, <1>9, <1>10, <1>11, <1>12,
     <1>13, <1>14, <1>15, <1>16, <1>17, <1>18, <1>19, <1>20, <1>21, <1>22
     DEF Next, LoopStep, UserStep, PeerStep

\* Every step keeps the counts of incoming bytes.
LEMMA CountsStep ==
  TypeOK /\ CountsInv /\ [Next]_vars => CountsInv'
<1> SUFFICES ASSUME TypeOK, CountsInv, [Next]_vars PROVE CountsInv'
  OBVIOUS
<1> USE SizesAssumption DEF SizesAssumption, CountsInv, inVars
<1>1. CASE Dispatch
  BY <1>1 DEF Dispatch
<1>2. CASE CloseTest
  BY <1>2 DEF CloseTest
<1>3. CASE ReadTest
  BY <1>3 DEF ReadTest, Unread, Least, TypeOK
<1>4. CASE WriteTest
  BY <1>4 DEF WriteTest
<1>5. CASE EndCallback
  BY <1>5 DEF EndCallback
<1>6. CASE ConnectEstablished
  BY <1>6 DEF ConnectEstablished
<1>7. CASE RunSend
  BY <1>7 DEF RunSend
<1>8. CASE RunShutdown
  BY <1>8 DEF RunShutdown
<1>9. CASE RunClose
  BY <1>9 DEF RunClose
<1>10. CASE ConnectDestroyed
  BY <1>10 DEF ConnectDestroyed
<1>11. CASE Poll
  BY <1>11 DEF Poll
<1>12. CASE ServerRemove
  BY <1>12 DEF ServerRemove
<1>13. ASSUME NEW len \in MsgLens, LoopSend(len) PROVE CountsInv'
  BY <1>13 DEF LoopSend, TypeOK
<1>14. CASE LoopShutdown
  BY <1>14 DEF LoopShutdown
<1>15. CASE LoopForceClose
  BY <1>15 DEF LoopForceClose
<1>16. ASSUME NEW t \in Clients, NEW call \in Calls, ClientCheck(t, call) PROVE CountsInv'
  BY <1>16 DEF ClientCheck
<1>17. ASSUME NEW t \in Clients, ClientAct(t) PROVE CountsInv'
  BY <1>17 DEF ClientAct
<1>18. CASE PeerSends
  BY <1>18 DEF PeerSends, TypeOK
<1>19. CASE PeerFin
  BY <1>19 DEF PeerFin
<1>20. CASE PeerReset
  BY <1>20 DEF PeerReset, TypeOK
<1>21. CASE PeerAcks
  BY <1>21 DEF PeerAcks
<1>22. CASE UNCHANGED vars
  BY <1>22 DEF vars
<1> QED
  BY <1>1, <1>2, <1>3, <1>4, <1>5, <1>6, <1>7, <1>8, <1>9, <1>10, <1>11, <1>12,
     <1>13, <1>14, <1>15, <1>16, <1>17, <1>18, <1>19, <1>20, <1>21, <1>22
     DEF Next, LoopStep, UserStep, PeerStep

\* Every step keeps the life cycle.
LEMMA LifeStep ==
  TypeOK /\ LifeInv /\ WatchInv /\ [Next]_vars => LifeInv'
<1> SUFFICES ASSUME TypeOK, LifeInv, WatchInv, [Next]_vars PROVE LifeInv'
  OBVIOUS
<1> USE DEF LifeInv, loopVars, userVars
<1>1. CASE Dispatch
  BY <1>1 DEF Dispatch
<1>2. CASE CloseTest
  BY <1>2 DEF CloseTest, HandleClose
<1>3. CASE ReadTest
  BY <1>3 DEF ReadTest, HandleClose
<1>4. CASE WriteTest
  BY <1>4 DEF WriteTest
<1>5. CASE EndCallback
  BY <1>5 DEF EndCallback
<1>6. CASE ConnectEstablished
  <2>1. /\ state' = "Connected" /\ closed' = closed
        /\ \A i \in 1..Len(queue') : i + 1 \in 1..Len(queue) /\ queue'[i] = queue[i + 1]
    BY <1>6, FunctorTaken DEF ConnectEstablished
  <2>2. CASE state = "Connecting"
    <3>1. queue' = <<>>
      BY <1>6, <2>2 DEF ConnectEstablished, RunFunctor
    <3> QED
      BY <3>1, <2>1
  <2>3. CASE state # "Connecting"
    BY <2>1, <2>3
  <2> QED
    BY <2>2, <2>3
<1>7. CASE RunSend
  <2>1. /\ UNCHANGED <<state, loopVars, userVars, closed>>
        /\ Head(queue) = queue[1] /\ 1 \in 1..Len(queue) /\ Head(queue).op = "send"
        /\ \A i \in 1..Len(queue') : i + 1 \in 1..Len(queue) /\ queue'[i] = queue[i + 1]
    BY <1>7, FunctorTaken DEF RunSend, RunFunctor
  <2>2. state # "Connecting"
    BY <2>1
  <2> QED
    BY <2>1, <2>2
<1>8. CASE RunShutdown
  <2>1. /\ UNCHANGED <<state, loopVars, userVars, closed>>
        /\ Head(queue) = queue[1] /\ 1 \in 1..Len(queue) /\ Head(queue).op = "shutdown"
        /\ \A i \in 1..Len(queue') : i + 1 \in 1..Len(queue) /\ queue'[i] = queue[i + 1]
    BY <1>8, FunctorTaken DEF RunShutdown, RunFunctor
  <2>2. state # "Connecting"
    BY <2>1
  <2> QED
    BY <2>1, <2>2
<1>9. CASE RunClose
  <2>1. /\ state' = "Disconnected" /\ closed'
        /\ \A i \in 1..Len(queue') : i + 1 \in 1..Len(queue) /\ queue'[i] = queue[i + 1]
        /\ Head(queue) = queue[1] /\ 1 \in 1..Len(queue) /\ Head(queue).op = "close"
    BY <1>9, FunctorTaken DEF RunClose, HandleClose, RunFunctor
  <2>2. state # "Connecting"
    BY <2>1
  <2> QED
    BY <2>1, <2>2
<1>10. CASE ConnectDestroyed
  <2>1. /\ state' = "Disconnected" /\ closed' = closed
        /\ \A i \in 1..Len(queue') : i + 1 \in 1..Len(queue) /\ queue'[i] = queue[i + 1]
        /\ Head(queue) = queue[1] /\ 1 \in 1..Len(queue) /\ Head(queue).op = "destroyed"
    BY <1>10, FunctorTaken DEF ConnectDestroyed, RunFunctor
  <2>2. state # "Connecting"
    BY <2>1
  <2> QED
    BY <2>1, <2>2
<1>11. CASE Poll
  BY <1>11 DEF Poll, WatchInv, Fired, ReadEvent, WriteEvent
<1>12. CASE ServerRemove
  <2>1. /\ state' = state /\ closed' /\ closed
        /\ \A i \in 1..Len(queue') : \/ i \in 1..Len(queue) /\ queue'[i] = queue[i]
                                     \/ queue'[i] = [op |-> "destroyed"]
    BY <1>12, FunctorQueued, FunctorFacts DEF ServerRemove
  <2>2. state # "Connecting"
    BY <2>1
  <2>3. [op |-> "destroyed"].op = "destroyed"
    OBVIOUS
  <2> QED
    BY <2>1, <2>2, <2>3
<1>13. ASSUME NEW len \in MsgLens, LoopSend(len) PROVE LifeInv'
  BY <1>13 DEF LoopSend
<1>14. CASE LoopShutdown
  BY <1>14 DEF LoopShutdown
<1>15. CASE LoopForceClose
  BY <1>15 DEF LoopForceClose, HandleClose
<1>16. ASSUME NEW t \in Clients, NEW call \in Calls, ClientCheck(t, call) PROVE LifeInv'
  BY <1>16 DEF ClientCheck
<1>17. ASSUME NEW t \in Clients, ClientAct(t) PROVE LifeInv'
  <2>1. checked[t] \in Calls /\ checked[t] # NoCall
    BY <1>17 DEF ClientAct, TypeOK
  <2>2. state # "Connecting"
    BY <1>17, <2>1
  <2>3. state' # "Connecting" /\ closed' = closed /\ queue' = Append(queue, checked[t])
    BY <1>17, <2>2 DEF ClientAct
  <2>4. \A i \in 1..Len(queue') : \/ i \in 1..Len(queue) /\ queue'[i] = queue[i]
                                  \/ queue'[i] = checked[t]
    BY <2>1, <2>3, FunctorQueued, FunctorFacts
  <2> QED
    BY <2>1, <2>2, <2>3, <2>4, FunctorFacts
<1>18. CASE PeerSends
  BY <1>18 DEF PeerSends
<1>19. CASE PeerFin
  BY <1>19 DEF PeerFin
<1>20. CASE PeerReset
  BY <1>20 DEF PeerReset
<1>21. CASE PeerAcks
  BY <1>21 DEF PeerAcks
<1>22. CASE UNCHANGED vars
  BY <1>22 DEF vars
<1> QED
  BY <1>1, <1>2, <1>3, <1>4, <1>5, <1>6, <1>7, <1>8, <1>9, <1>10, <1>11, <1>12,
     <1>13, <1>14, <1>15, <1>16, <1>17, <1>18, <1>19, <1>20, <1>21, <1>22
     DEF Next, LoopStep, UserStep, PeerStep


\* sendInLoop() keeps the registration.
LEMMA SendWatch ==
  ASSUME TypeOK, WatchInv, NEW len \in MsgLens, SendInLoop(len),
         state # "Connecting", state' = state, closed' = closed
  PROVE  WatchInv'
<1> USE DEF WatchInv, channelVars, IsWriting
<1>1. CASE outputBuffer' = outputBuffer /\ UNCHANGED channelVars
  BY <1>1
<1>2. CASE outputBuffer' # <<>> /\ IsWriting /\ UNCHANGED channelVars
  BY <1>2
<1>3. CASE outputBuffer' # <<>> /\ ~IsWriting /\ SetEvents(events \cup {"write"})
  BY <1>3 DEF SetEvents, KqUpdate
<1> QED
  BY <1>1, <1>2, <1>3, SendFacts

\* Every step keeps the registration.
LEMMA WatchStep ==
  TypeOK /\ LifeInv /\ WatchInv /\ [Next]_vars => WatchInv'
<1> SUFFICES ASSUME TypeOK, LifeInv, WatchInv, [Next]_vars PROVE WatchInv'
  OBVIOUS
<1> USE DEF WatchInv, channelVars, outVars, IsWriting
<1>1. CASE Dispatch
  BY <1>1 DEF Dispatch
<1>2. CASE CloseTest
  BY <1>2 DEF CloseTest, LifeInv, HandleClose, EventsAfterClose,
         SetEvents, KqUpdate
<1>3. CASE ReadTest
  BY <1>3 DEF ReadTest, LifeInv, HandleClose, EventsAfterClose,
         SetEvents, KqUpdate
<1>4. CASE WriteTest
  <2>1. state' = state /\ closed' = closed /\ state # "Connecting"
    BY <1>4 DEF WriteTest, LifeInv
  <2>2. CASE /\ UNCHANGED <<events, kq, wrShut>>
             /\ outputBuffer' = <<>> <=> outputBuffer = <<>>
    BY <2>1, <2>2
  <2>3. CASE /\ outputBuffer # <<>> /\ outputBuffer' = <<>> /\ IsWriting
             /\ SetEvents(events \ {"write"})
    BY <2>1, <2>3 DEF SetEvents, KqUpdate
  <2> QED
    BY <1>4, <2>2, <2>3, WriteFacts
<1>5. CASE EndCallback
  BY <1>5 DEF EndCallback
<1>6. CASE ConnectEstablished
  <2>1. state = "Connecting"
    <3>1. Head(queue).op = "established" /\ Head(queue) = queue[1] /\ 1 \in 1..Len(queue)
      BY <1>6, FunctorTaken DEF ConnectEstablished, RunFunctor
    <3> QED
      BY <3>1 DEF LifeInv
  <2>2. events = {} /\ kq = {} /\ ~closed /\ outputBuffer = <<>>
    BY <2>1 DEF LifeInv
  <2>3. events' = {"read"} /\ kq' = {"read"}
    BY <1>6, <2>2 DEF ConnectEstablished, SetEvents, KqUpdate
  <2>4. state' = "Connected" /\ closed' = closed /\ outputBuffer' = outputBuffer
    BY <1>6 DEF ConnectEstablished
  <2> QED
    BY <2>2, <2>3, <2>4
<1>7. CASE RunSend
  <2>1. state # "Connecting"
    <3>1. Head(queue).op = "send" /\ Head(queue) = queue[1]
      BY <1>7, FunctorTaken DEF RunSend, RunFunctor
    <3> QED
      BY <3>1 DEF LifeInv
  <2>2. Head(queue).len \in MsgLens
    BY <1>7, FunctorTaken, FunctorFacts DEF RunSend, RunFunctor
  <2>3. state' = state /\ closed' = closed /\ SendInLoop(Head(queue).len)
    BY <1>7 DEF RunSend
  <2> QED
    BY <2>1, <2>2, <2>3, SendWatch
<1>8. CASE RunShutdown
  BY <1>8 DEF RunShutdown
<1>9. CASE RunClose
  <2>1. state # "Connecting"
    <3>1. Head(queue).op = "close" /\ Head(queue) = queue[1]
      BY <1>9, FunctorTaken DEF RunClose, RunFunctor
    <3> QED
      BY <3>1 DEF LifeInv
  <2> QED
    BY <1>9, <2>1 DEF RunClose, HandleClose, EventsAfterClose,
         SetEvents, KqUpdate
<1>10. CASE ConnectDestroyed
  <2>1. state # "Connecting" /\ closed
    <3>1. Head(queue).op = "destroyed" /\ Head(queue) = queue[1] /\ 1 \in 1..Len(queue)
      BY <1>10, FunctorTaken DEF ConnectDestroyed, RunFunctor
    <3> QED
      BY <3>1 DEF LifeInv
  <2> QED
    BY <1>10, <2>1 DEF ConnectDestroyed, SetEvents, KqUpdate
<1>11. CASE Poll
  BY <1>11 DEF Poll
<1>12. CASE ServerRemove
  BY <1>12 DEF ServerRemove
<1>13. ASSUME NEW len \in MsgLens, LoopSend(len) PROVE WatchInv'
  <2>1. state' = state /\ closed' = closed
    BY <1>13 DEF LoopSend
  <2>2. CASE state = "Connected"
    BY <1>13, <2>1, <2>2, SendWatch DEF LoopSend
  <2>3. CASE state # "Connected"
    BY <1>13, <2>1, <2>3 DEF LoopSend
  <2> QED
    BY <2>2, <2>3
<1>14. CASE LoopShutdown
  BY <1>14 DEF LoopShutdown
<1>15. CASE LoopForceClose
  BY <1>15 DEF LoopForceClose, InCallback, LifeInv, HandleClose, EventsAfterClose,
         SetEvents, KqUpdate
<1>16. ASSUME NEW t \in Clients, NEW call \in Calls, ClientCheck(t, call) PROVE WatchInv'
  BY <1>16 DEF ClientCheck
<1>17. ASSUME NEW t \in Clients, ClientAct(t) PROVE WatchInv'
  BY <1>17 DEF ClientAct, LifeInv
<1>18. CASE PeerSends
  BY <1>18 DEF PeerSends
<1>19. CASE PeerFin
  BY <1>19 DEF PeerFin
<1>20. CASE PeerReset
  BY <1>20 DEF PeerReset
<1>21. CASE PeerAcks
  BY <1>21 DEF PeerAcks
<1>22. CASE UNCHANGED vars
  BY <1>22 DEF vars
<1> QED
  BY <1>1, <1>2, <1>3, <1>4, <1>5, <1>6, <1>7, <1>8, <1>9, <1>10, <1>11, <1>12,
     <1>13, <1>14, <1>15, <1>16, <1>17, <1>18, <1>19, <1>20, <1>21, <1>22
     DEF Next, LoopStep, UserStep, PeerStep

\* Every step keeps the stream.
LEMMA StreamStep ==
  TypeOK /\ TypeOK' /\ StreamIntact /\ [Next]_vars => StreamIntact'
<1> SUFFICES ASSUME TypeOK, TypeOK', StreamIntact, [Next]_vars PROVE StreamIntact'
  OBVIOUS
<1> USE DEF StreamIntact, outVars
<1>1. CASE Dispatch
  BY <1>1 DEF Dispatch
<1>2. CASE CloseTest
  BY <1>2 DEF CloseTest
<1>3. CASE ReadTest
  BY <1>3 DEF ReadTest
<1>4. CASE WriteTest
  BY <1>4, WriteFacts DEF WriteTest
<1>5. CASE EndCallback
  BY <1>5 DEF EndCallback
<1>6. CASE ConnectEstablished
  BY <1>6 DEF ConnectEstablished
<1>7. CASE RunSend
  <2>1. Head(queue).len \in MsgLens
    BY <1>7, FunctorTaken, FunctorFacts DEF RunSend, RunFunctor
  <2>2. wire' \o outputBuffer' = Bytes(0, accepted')
    BY <1>7, <2>1, SendFacts DEF RunSend
  <2> QED
    BY <2>2 DEF Bytes, TypeOK
<1>8. CASE RunShutdown
  BY <1>8 DEF RunShutdown
<1>9. CASE RunClose
  BY <1>9 DEF RunClose
<1>10. CASE ConnectDestroyed
  BY <1>10 DEF ConnectDestroyed
<1>11. CASE Poll
  BY <1>11 DEF Poll
<1>12. CASE ServerRemove
  BY <1>12 DEF ServerRemove
<1>13. ASSUME NEW len \in MsgLens, LoopSend(len) PROVE StreamIntact'
  <2>1. CASE state = "Connected"
    <3>1. wire' \o outputBuffer' = Bytes(0, accepted')
      BY <1>13, <2>1, SendFacts DEF LoopSend
    <3> QED
      BY <3>1 DEF Bytes, TypeOK
  <2>2. CASE state # "Connected"
    BY <1>13, <2>2 DEF LoopSend
  <2> QED
    BY <2>1, <2>2
<1>14. CASE LoopShutdown
  BY <1>14 DEF LoopShutdown
<1>15. CASE LoopForceClose
  BY <1>15 DEF LoopForceClose
<1>16. ASSUME NEW t \in Clients, NEW call \in Calls, ClientCheck(t, call) PROVE StreamIntact'
  BY <1>16 DEF ClientCheck
<1>17. ASSUME NEW t \in Clients, ClientAct(t) PROVE StreamIntact'
  BY <1>17 DEF ClientAct
<1>18. CASE PeerSends
  BY <1>18 DEF PeerSends
<1>19. CASE PeerFin
  BY <1>19 DEF PeerFin
<1>20. CASE PeerReset
  BY <1>20 DEF PeerReset
<1>21. CASE PeerAcks
  BY <1>21 DEF PeerAcks
<1>22. CASE UNCHANGED vars
  BY <1>22 DEF vars
<1> QED
  BY <1>1, <1>2, <1>3, <1>4, <1>5, <1>6, <1>7, <1>8, <1>9, <1>10, <1>11, <1>12,
     <1>13, <1>14, <1>15, <1>16, <1>17, <1>18, <1>19, <1>20, <1>21, <1>22
     DEF Next, LoopStep, UserStep, PeerStep


\* A connection that TcpServer has just made satisfies the invariant.
LEMMA ConnInit == Init => ConnInv /\ StreamIntact
<1> USE SizesAssumption DEF SizesAssumption
<1> SUFFICES ASSUME Init PROVE ConnInv /\ StreamIntact
  OBVIOUS
<1>1. <<>> \in Seq(Nat) /\ queue \in Seq(Functors)
  BY FunctorFacts, EmptySeq DEF Init
<1>2. wrShut \in BOOLEAN /\ inMap \in BOOLEAN /\ closed \in BOOLEAN
  BY Zenon DEF Init
<1>3. TypeOK
  BY <1>1, <1>2 DEF Init, TypeOK, States, Pcs
<1>4. CountsInv
  BY DEF Init, CountsInv
<1>5. LifeInv
  BY DEF Init, LifeInv
<1>6. WatchInv
  BY DEF Init, WatchInv
<1>7. StreamIntact
  <2>1. [i \in 1..accepted |-> i] = <<>>
    BY DEF Init
  <2>2. wire \o outputBuffer = <<>>
    BY ConcatEmptySeq, <1>1 DEF Init
  <2> QED
    BY <2>1, <2>2 DEF StreamIntact
<1> QED
  BY <1>3, <1>4, <1>5, <1>6, <1>7 DEF ConnInv

\* The inductive invariant: types, counts, life cycle, registration and stream.
LEMMA ConnInvariant == Spec => [](ConnInv /\ StreamIntact)
<1>1. ConnInv /\ StreamIntact /\ [Next]_vars => (ConnInv /\ StreamIntact)'
  BY TypeStep, CountsStep, LifeStep, WatchStep, StreamStep DEF ConnInv
<1> QED
  BY ConnInit, <1>1, PTL DEF Spec

\* For any clients, message lengths and kernel buffer: the wire followed by
\* outputBuffer_ is what sendInLoop() took, in that order.
THEOREM StreamAlwaysIntact == Spec => []StreamIntact
BY ConnInvariant, PTL

\* The state is well typed, and output is buffered exactly when the kqueue watches
\* for the socket to become writable, until the connection is closed.
THEOREM AlwaysBufferedIffWatched == Spec => []BufferedIffWatched
<1>1. ConnInv => BufferedIffWatched
  BY DEF ConnInv, WatchInv, BufferedIffWatched
<1> QED
  BY ConnInvariant, <1>1, PTL

\* Nothing that runs after handleClose(), a late send() or connectDestroyed()
\* included, registers the socket in the kqueue again.
THEOREM ClosedAlwaysSilent == Spec => []ClosedIsSilent
<1>1. ConnInv => ClosedIsSilent
  BY DEF ConnInv, WatchInv, ClosedIsSilent
<1> QED
  BY ConnInvariant, <1>1, PTL

\* No half-close, whether by shutdownInLoop() or by handleWrite(), overtakes
\* buffered output.
THEOREM FinFollowsFlush == Spec => FinAfterFlush
<1> DEFINE Fin == ~wrShut /\ wrShut' => closed \/ outputBuffer' = <<>>
<1>1. ConnInv /\ [Next]_vars => [Fin]_vars
  <2> SUFFICES ASSUME ConnInv, [Next]_vars PROVE Fin
    OBVIOUS
  <2> USE DEF channelVars, outVars
  <2>1. CASE Dispatch
    BY <2>1 DEF Dispatch
  <2>2. CASE CloseTest
    BY <2>2 DEF CloseTest
  <2>3. CASE ReadTest
    BY <2>3 DEF ReadTest
  <2>4. CASE WriteTest
    BY <2>4, WriteFacts DEF ConnInv
  <2>5. CASE EndCallback
    BY <2>5 DEF EndCallback
  <2>6. CASE ConnectEstablished
    BY <2>6 DEF ConnectEstablished
  <2>7. CASE RunSend
    BY <2>7 DEF RunSend
  <2>8. CASE RunShutdown
    BY <2>8 DEF RunShutdown, ShutdownInLoop, ConnInv, WatchInv, LifeInv, IsWriting
  <2>9. CASE RunClose
    BY <2>9 DEF RunClose
  <2>10. CASE ConnectDestroyed
    BY <2>10 DEF ConnectDestroyed
  <2>11. CASE Poll
    BY <2>11 DEF Poll
  <2>12. CASE ServerRemove
    BY <2>12 DEF ServerRemove
  <2>13. ASSUME NEW len \in MsgLens, LoopSend(len) PROVE Fin
    BY <2>13 DEF LoopSend
  <2>14. CASE LoopShutdown
    BY <2>14 DEF LoopShutdown, ShutdownInLoop, ConnInv, WatchInv, IsWriting
  <2>15. CASE LoopForceClose
    BY <2>15 DEF LoopForceClose
  <2>16. ASSUME NEW t \in Clients, NEW call \in Calls, ClientCheck(t, call) PROVE Fin
    BY <2>16 DEF ClientCheck
  <2>17. ASSUME NEW t \in Clients, ClientAct(t) PROVE Fin
    BY <2>17 DEF ClientAct
  <2>18. CASE PeerSends
    BY <2>18 DEF PeerSends
  <2>19. CASE PeerFin
    BY <2>19 DEF PeerFin
  <2>20. CASE PeerReset
    BY <2>20 DEF PeerReset
  <2>21. CASE PeerAcks
    BY <2>21 DEF PeerAcks
  <2>22. CASE UNCHANGED vars
    BY <2>22 DEF vars
  <2> QED
    BY <2>1, <2>2, <2>3, <2>4, <2>5, <2>6, <2>7, <2>8, <2>9, <2>10, <2>11, <2>12,
       <2>13, <2>14, <2>15, <2>16, <2>17, <2>18, <2>19, <2>20, <2>21, <2>22
       DEF Next, LoopStep, UserStep, PeerStep
<1> QED
  BY ConnInvariant, <1>1, PTL DEF Spec, FinAfterFlush

=============================================================================
