--------------------- MODULE EventLoopThreadPoolProofs ---------------------
(***************************************************************************)
(* Proofs about EventLoopThreadPool, for any number of worker threads and  *)
(* of connections.                                                         *)
(***************************************************************************)
EXTENDS EventLoopThreadPool, SequenceTheorems, TLAPS

-----------------------------------------------------------------------------
(* The inductive invariant.                                                 *)

Destroying == basePc \in {"destroying", "joining", "gone"}
HasLoop(w) == workerPc[w] \in {"notifying", "ready", "looping", "exited"}

\* The strengthening that makes ReturnedLoopsUsable inductive: start() has collected
\* the loops of the workers before "current", those behind it have no thread yet,
\* and loop_ is set just when threadFunc() has got past it.
PoolInv ==
    /\ \A i \in 1..Len(loops) : loops[i] = i /\ HasLoop(i)
    /\ basePc \in {"starting"} \cup Waiting =>
          /\ started
          /\ current \in Workers
          /\ Len(loops) + 1 = current
          /\ \A w \in Workers : w > current => workerPc[w] = "none"
    /\ basePc = "starting" => workerPc[current] = "none"
    /\ basePc = "user" /\ started => Len(loops) = NumThreads
    /\ ~started => loops = <<>> /\ \A w \in Workers : workerPc[w] = "none"
    /\ Len(loops) <= NumThreads
    /\ basePc = "joining" => current \in Workers
    /\ \A w \in Workers : /\ published[w] = IF HasLoop(w) THEN w ELSE NoLoop
                          /\ slot[w] = IF workerPc[w] \in {"none", "created"} THEN NoLoop ELSE w
    /\ ~Destroying => freed = {}

\* The strengthening that makes NoNotificationLost inductive: who is inside a
\* critical section holds its mutex, so that between the base thread's test of loop_
\* and its sleep the worker can neither set loop_ nor notify.
HandshakeInv ==
    /\ \A w \in Workers :
          /\ workerPc[w] \in {"publishing", "notifying"} => mutex[w] = w
          /\ basePc \in {"testing", "parking"} /\ current = w => mutex[w] = Base
    /\ basePc \in Waiting => workerPc[current] # "none"
    /\ basePc = "parking" => workerPc[current] \in {"created", "built"}
    /\ NoNotificationLost

\* The strengthening that makes Balanced inductive: the workers served in the
\* round that is under way are one ahead of the others.  Connections are counted
\* by next_ or, without workers, given to the base loop.
RoundRobinInv ==
    /\ NumThreads > 0 => given[Base] = 0
    /\ \A v, w \in Workers :
          given[v] + (IF w <= next % NumThreads THEN 1 ELSE 0)
            = given[w] + (IF v <= next % NumThreads THEN 1 ELSE 0)
    /\ \A w \in Workers : given[w] <= next

-----------------------------------------------------------------------------
\* A remainder is determined by the number it is a remainder of.
LEMMA RemainderUnique ==
  ASSUME NEW k \in Nat, NEW p \in Nat, NEW q \in Nat,
         NEW r \in 0..(k - 1), NEW s \in 0..(k - 1),
         k * p + r = k * q + s
  PROVE  r = s
<1>1. ASSUME NEW a \in Nat, NEW b \in Nat, a < b PROVE k * a + k <= k * b
  <2>1. PICK d \in Nat : b = a + 1 + d
    <3>1. b - a - 1 \in Nat /\ b = a + 1 + (b - a - 1)
      BY <1>1
    <3> QED
      BY <3>1
  <2>2. k * b = k * a + k + k * d
    BY <2>1
  <2>3. k * d \in Nat /\ k * a \in Nat
    OBVIOUS
  <2> QED
    BY <2>2, <2>3
<1>2. k * p \in Nat /\ k * q \in Nat
  OBVIOUS
<1>3. CASE p < q
  BY <1>1, <1>2, <1>3
<1>4. CASE q < p
  BY <1>1, <1>2, <1>4
<1>5. CASE p = q
  BY <1>2, <1>5
<1> QED
  BY <1>3, <1>4, <1>5

\* next_ % loops_.size() goes round: the index after the last one is the first.
LEMMA ModSucc ==
  ASSUME NEW n \in Nat, NEW k \in Nat, k > 0
  PROVE  /\ n % k \in 0..(k - 1)
         /\ (n + 1) % k = IF (n % k) + 1 = k THEN 0 ELSE (n % k) + 1
<1> DEFINE q == n \div k
           r == n % k
           p == (n + 1) \div k
           s == (n + 1) % k
<1>1. q \in Nat /\ r \in 0..(k - 1) /\ n = k * q + r
  OBVIOUS
<1>2. p \in Nat /\ s \in 0..(k - 1) /\ n + 1 = k * p + s
  OBVIOUS
<1> HIDE DEF q, r, p, s
<1>3. CASE r + 1 < k
  <2>1. n + 1 = k * q + (r + 1) /\ r + 1 \in 0..(k - 1)
    BY <1>1, <1>3
  <2>2. k * p + s = k * q + (r + 1)
    BY <2>1, <1>2
  <2>3. s = r + 1
    BY <2>1, <2>2, <1>1, <1>2, RemainderUnique
  <2> QED
    BY <2>3, <1>1, <1>3 DEF r, s
<1>4. CASE r + 1 = k
  <2>1. n + 1 = k * (q + 1) + 0 /\ 0 \in 0..(k - 1) /\ q + 1 \in Nat
    BY <1>1, <1>4
  <2>2. k * p + s = k * (q + 1) + 0
    BY <2>1, <1>2
  <2>3. s = 0
    BY <2>1, <2>2, <1>2, RemainderUnique
  <2> QED
    BY <2>3, <1>1, <1>4 DEF r, s
<1> QED
  BY <1>1, <1>3, <1>4

\* Every action keeps the types; counts stay in range because no worker is ever
\* given more connections than next_ has counted.
LEMMA TypeStep ==
  TypeOK /\ PoolInv /\ RoundRobinInv /\ [Next]_vars => TypeOK'
<1> SUFFICES ASSUME TypeOK, PoolInv, RoundRobinInv, [Next]_vars PROVE TypeOK'
  OBVIOUS
<1> USE CountsAssumption DEF CountsAssumption, TypeOK, Workers, Threads, Base, NoLoop,
        BasePcs, WorkerPcs, Waiting, Nobody, poolVars, lifeVars
<1>1. CASE BeginStart
  BY <1>1 DEF BeginStart
<1>2. CASE CreateThread
  BY <1>2 DEF CreateThread, PoolInv
<1>3. CASE StartLoopReturns
  <2> USE <1>3 DEF StartLoopReturns, WaitOver, MoreThreads
  <2>1. current \in Workers /\ published[current] \in Workers \cup {NoLoop}
    BY DEF PoolInv
  <2>2. loops' \in Seq(Workers \cup {NoLoop})
    BY <2>1, AppendProperties
  <2>3. basePc' \in BasePcs /\ current' \in 0..NumThreads
    BY <2>1
  <2> QED
    BY <2>2, <2>3
<1>4. CASE GetNextLoop
  BY <1>4 DEF GetNextLoop, NextIndex, PoolInv, RoundRobinInv
<1>5. CASE BeginDestroy
  BY <1>5 DEF BeginDestroy
<1>6. CASE JoinAndFree
  BY <1>6 DEF JoinAndFree, JoinOver, PoolInv
<1>7. CASE EndDestroy
  BY <1>7 DEF EndDestroy
<1>8. ASSUME NEW w \in Workers, QuitThread(w) PROVE TypeOK'
  BY <1>8 DEF QuitThread
<1>9. ASSUME NEW w \in Workers, BuildLoop(w) PROVE TypeOK'
  BY <1>9 DEF BuildLoop
<1>10. ASSUME NEW w \in Workers, PublishLoop(w) PROVE TypeOK'
  BY <1>10 DEF PublishLoop
<1>11. ASSUME NEW w \in Workers, EnterLoop(w) PROVE TypeOK'
  BY <1>11 DEF EnterLoop
<1>12. ASSUME NEW w \in Workers, ExitLoop(w) PROVE TypeOK'
  BY <1>12 DEF ExitLoop
<1>13. ASSUME NEW w \in Workers, LockToPublish(w) PROVE TypeOK'
  BY <1>13 DEF LockToPublish
<1>14. CASE LockToTest \/ Sleep
  BY <1>14 DEF LockToTest, Sleep
<1>15. CASE LoopNotReady \/ SpuriousWakeup
  BY <1>15 DEF LoopNotReady, SpuriousWakeup
<1>16. ASSUME NEW w \in Workers, NotifyOne(w) PROVE TypeOK'
  BY <1>16 DEF NotifyOne, Woken
<1>17. CASE UNCHANGED vars
  BY <1>17 DEF vars
<1> QED
  BY <1>1, <1>2, <1>3, <1>4, <1>5, <1>6, <1>7, <1>8, <1>9, <1>10, <1>11, <1>12,
     <1>13, <1>14, <1>15, <1>16, <1>17
     DEF Next, BaseStep, WorkerStep

\* A worker moves the base thread only by waking it.
LEMMA OnlyNotifyWakes ==
  ASSUME NEW w \in Workers, WorkerStep(w)
  PROVE  basePc' = basePc \/ (basePc = "asleep" /\ basePc' = "locking")
<1>1. CASE NotifyOne(w)
  BY <1>1 DEF NotifyOne, Woken
<1>2. CASE BuildLoop(w) \/ LockToPublish(w) \/ PublishLoop(w) \/ EnterLoop(w) \/ ExitLoop(w)
  BY <1>2 DEF BuildLoop, LockToPublish, PublishLoop, EnterLoop, ExitLoop
<1> QED
  BY <1>1, <1>2 DEF WorkerStep

\* Every action keeps the bookkeeping of start() and of the destructor.
LEMMA PoolStep ==
  TypeOK /\ PoolInv /\ [Next]_vars => PoolInv'
<1> SUFFICES ASSUME TypeOK, PoolInv, [Next]_vars PROVE PoolInv'
  OBVIOUS
<1> USE CountsAssumption DEF CountsAssumption, TypeOK, PoolInv, Destroying, HasLoop,
        Waiting, Workers, Threads, Base, NoLoop, poolVars, lifeVars
<1>1. CASE BeginStart
  BY <1>1 DEF BeginStart
<1>2. CASE CreateThread
  <2> USE <1>2 DEF CreateThread
  <2>1. workerPc' = [workerPc EXCEPT ![current] = "created"] /\ workerPc[current] = "none"
    OBVIOUS
  <2>2. ASSUME NEW i \in 1..Len(loops) PROVE loops[i] = i /\ HasLoop(i)'
    OBVIOUS
  <2>3. ASSUME NEW v \in Workers
        PROVE  /\ published'[v] = IF HasLoop(v)' THEN v ELSE NoLoop
               /\ slot'[v] = IF workerPc'[v] \in {"none", "created"} THEN NoLoop ELSE v
    OBVIOUS
  <2>4. \A v \in Workers : v > current => workerPc'[v] = "none"
    OBVIOUS
  <2> QED
    BY <2>2, <2>3, <2>4
<1>3. CASE StartLoopReturns
  <2> USE <1>3 DEF StartLoopReturns, WaitOver, MoreThreads
  <2>1. current \in Workers /\ HasLoop(current) /\ published[current] = current
    OBVIOUS
  <2>2. Len(loops') = Len(loops) + 1 /\ Len(loops') = current
    BY <2>1, AppendProperties
  <2>3. ASSUME NEW i \in 1..Len(loops') PROVE loops'[i] = i /\ HasLoop(i)'
    BY <2>1, <2>2, AppendProperties
  <2> QED
    BY <2>1, <2>2, <2>3
<1>4. CASE GetNextLoop
  BY <1>4 DEF GetNextLoop
<1>5. CASE BeginDestroy
  BY <1>5 DEF BeginDestroy
<1>6. CASE JoinAndFree
  BY <1>6 DEF JoinAndFree, JoinOver
<1>7. CASE EndDestroy
  BY <1>7 DEF EndDestroy
<1>8. ASSUME NEW w \in Workers, QuitThread(w) PROVE PoolInv'
  BY <1>8 DEF QuitThread
<1>9. ASSUME NEW w \in Workers, WorkerStep(w) PROVE PoolInv'
  <2>1. UNCHANGED <<loops, started, current, freed>>
    BY <1>9 DEF WorkerStep, BuildLoop, LockToPublish, PublishLoop, NotifyOne, EnterLoop, ExitLoop
  <2>2. basePc' = basePc \/ (basePc = "asleep" /\ basePc' = "locking")
    BY <1>9, OnlyNotifyWakes
  <2>3. /\ \A v \in Workers : v # w => UNCHANGED workerPc[v]
        /\ workerPc[w] \notin {"none", "exited"} /\ workerPc'[w] \notin {"none", "created"}
        /\ HasLoop(w) => HasLoop(w)'
    <3>1. CASE BuildLoop(w)
      BY <3>1 DEF BuildLoop
    <3>2. CASE LockToPublish(w)
      BY <3>2 DEF LockToPublish
    <3>3. CASE PublishLoop(w)
      BY <3>3 DEF PublishLoop
    <3>4. CASE NotifyOne(w)
      BY <3>4 DEF NotifyOne
    <3>5. CASE EnterLoop(w)
      BY <3>5 DEF EnterLoop
    <3>6. CASE ExitLoop(w)
      BY <3>6 DEF ExitLoop
    <3> QED
      BY <1>9, <3>1, <3>2, <3>3, <3>4, <3>5, <3>6 DEF WorkerStep
  <2>4. \A v \in Workers : published'[v] = IF HasLoop(v)' THEN v ELSE NoLoop
    <3>1. CASE PublishLoop(w)
      <4>1. \A v \in Workers : published'[v] = IF v = w THEN w ELSE published[v]
        BY <3>1 DEF PublishLoop
      <4>2. \A v \in Workers : workerPc'[v] = IF v = w THEN "notifying" ELSE workerPc[v]
        BY <3>1 DEF PublishLoop
      <4> QED
        BY <4>1, <4>2
    <3>2. CASE ~PublishLoop(w)
      <4>1. UNCHANGED published /\ (HasLoop(w)' <=> HasLoop(w))
        BY <1>9, <3>2 DEF WorkerStep, BuildLoop, LockToPublish, NotifyOne, EnterLoop, ExitLoop
      <4> QED
        BY <2>3, <4>1
    <3> QED
      BY <3>1, <3>2
  <2>5. \A v \in Workers :
          slot'[v] = IF workerPc'[v] \in {"none", "created"} THEN NoLoop ELSE v
    <3>1. slot[w] = IF workerPc[w] = "created" THEN NoLoop ELSE w
      BY <2>3
    <3>2. slot'[w] = w /\ \A v \in Workers : v # w => UNCHANGED slot[v]
      BY <1>9, <3>1
         DEF WorkerStep, BuildLoop, LockToPublish, PublishLoop, NotifyOne, EnterLoop, ExitLoop
    <3> QED
      BY <2>3, <3>2
  <2>6. started
    BY <2>3
  <2>7. ASSUME NEW i \in 1..Len(loops) PROVE loops[i] = i /\ HasLoop(i)'
    <3>1. i \in Workers /\ loops[i] = i /\ HasLoop(i)
      OBVIOUS
    <3> QED
      BY <2>3, <3>1
  <2>8. ASSUME basePc' \in {"starting"} \cup Waiting
        PROVE  /\ current \in Workers /\ Len(loops) + 1 = current
               /\ \A v \in Workers : v > current => workerPc'[v] = "none"
    <3>1. /\ current \in Workers /\ Len(loops) + 1 = current
          /\ \A v \in Workers : v > current => workerPc[v] = "none"
      BY <2>2, <2>8
    <3> QED
      BY <2>3, <3>1
  <2>9. basePc' = "starting" => workerPc'[current] = "none"
    BY <2>2, <2>3
  <2> HIDE DEF HasLoop
  <2> QED
    BY <2>1, <2>2, <2>4, <2>5, <2>6, <2>7, <2>8, <2>9
<1>10. CASE LockToTest \/ Sleep \/ LoopNotReady \/ SpuriousWakeup
  <2>1. UNCHANGED <<loops, started, current, freed, workerPc, published, slot>>
    BY <1>10 DEF LockToTest, Sleep, LoopNotReady, SpuriousWakeup
  <2>2. basePc \in Waiting /\ basePc' \in Waiting
    BY <1>10 DEF LockToTest, Sleep, LoopNotReady, SpuriousWakeup
  <2> QED
    BY <2>1, <2>2
<1>11. CASE UNCHANGED vars
  BY <1>11 DEF vars
<1> QED
  BY <1>1, <1>2, <1>3, <1>4, <1>5, <1>6, <1>7, <1>8, <1>9, <1>10, <1>11
     DEF Next, BaseStep

\* Every action keeps the critical sections exclusive and the notification ahead
\* of a sleeping base thread.
LEMMA HandshakeStep ==
  TypeOK /\ PoolInv /\ HandshakeInv /\ [Next]_vars => HandshakeInv'
<1> SUFFICES ASSUME TypeOK, PoolInv, HandshakeInv, [Next]_vars PROVE HandshakeInv'
  OBVIOUS
<1>0. /\ NumThreads \in Nat /\ Base \notin Workers /\ Nobody \notin Workers \cup {Base}
      /\ basePc \in {"starting", "joining"} \cup Waiting => current \in Workers
      /\ workerPc \in [Workers -> WorkerPcs] /\ mutex \in [Workers -> Threads \cup {Nobody}]
  BY CountsAssumption DEF CountsAssumption, Workers, Base, Nobody, PoolInv, TypeOK
<1> USE <1>0 DEF HandshakeInv, NoNotificationLost, Waiting
<1>1. CASE CreateThread
  BY <1>1 DEF CreateThread, PoolInv
<1>2. CASE LockToTest
  <2>1. workerPc[current] \notin {"publishing", "notifying"}
    BY <1>2 DEF LockToTest
  <2> QED
    BY <1>2, <2>1 DEF LockToTest
<1>3. CASE LoopNotReady
  <2>1. workerPc[current] \in {"created", "built"}
    <3>1. mutex[current] = Base
      BY <1>3 DEF LoopNotReady
    <3>2. workerPc[current] \notin {"publishing", "notifying", "none"}
      BY <1>3, <3>1 DEF LoopNotReady
    <3>3. workerPc[current] \notin {"ready", "looping", "exited"}
      BY <1>3 DEF LoopNotReady, WaitOver, PoolInv, HasLoop, NoLoop, Nobody
    <3> QED
      BY <1>3, <3>2, <3>3 DEF LoopNotReady, WorkerPcs
  <2> QED
    BY <1>3, <2>1 DEF LoopNotReady
<1>4. CASE Sleep
  BY <1>4 DEF Sleep
<1>5. CASE SpuriousWakeup
  BY <1>5 DEF SpuriousWakeup
<1>6. CASE StartLoopReturns
  <2>1. workerPc[current] \notin {"publishing", "notifying"}
    BY <1>6 DEF StartLoopReturns
  <2> QED
    BY <1>6, <2>1 DEF StartLoopReturns, MoreThreads
<1>7. ASSUME NEW w \in Workers, LockToPublish(w) PROVE HandshakeInv'
  BY <1>7 DEF LockToPublish
<1>8. ASSUME NEW w \in Workers, PublishLoop(w) PROVE HandshakeInv'
  BY <1>8 DEF PublishLoop
<1>9. ASSUME NEW w \in Workers, NotifyOne(w) PROVE HandshakeInv'
  BY <1>9 DEF NotifyOne, Woken
<1>10. ASSUME NEW w \in Workers, BuildLoop(w) \/ EnterLoop(w) \/ ExitLoop(w)
       PROVE  HandshakeInv'
  BY <1>10 DEF BuildLoop, EnterLoop, ExitLoop
<1>11. CASE BeginStart \/ GetNextLoop \/ BeginDestroy
  BY <1>11 DEF BeginStart, GetNextLoop, BeginDestroy
<1>12. CASE JoinAndFree \/ EndDestroy \/ \E w \in Workers : QuitThread(w)
  BY <1>12 DEF JoinAndFree, EndDestroy, QuitThread
<1>13. CASE UNCHANGED vars
  BY <1>13 DEF vars
<1> QED
  BY <1>1, <1>2, <1>3, <1>4, <1>5, <1>6, <1>7, <1>8, <1>9, <1>10, <1>11, <1>12,
     <1>13
     DEF Next, BaseStep, WorkerStep

\* Only getNextLoop() touches the counts.
LEMMA RoundRobinStep ==
  TypeOK /\ PoolInv /\ RoundRobinInv /\ [Next]_vars => RoundRobinInv'
<1> SUFFICES ASSUME TypeOK, PoolInv, RoundRobinInv, [Next]_vars PROVE RoundRobinInv'
  OBVIOUS
<1> USE CountsAssumption DEF CountsAssumption, TypeOK, RoundRobinInv, Workers, Threads, Base,
        NoLoop, poolVars
<1>1. CASE GetNextLoop
  <2> USE <1>1 DEF GetNextLoop
  <2>1. CASE NumThreads = 0
    BY <2>1 DEF PoolInv
  <2>2. CASE NumThreads > 0
    <3> DEFINE r == next % NumThreads
    <3>1. /\ Len(loops) = NumThreads /\ loops # <<>>
          /\ \A i \in Workers : loops[i] = i
      BY <2>2 DEF PoolInv
    <3>2. /\ r \in 0..(NumThreads - 1)
          /\ (next + 1) % NumThreads = IF r + 1 = NumThreads THEN 0 ELSE r + 1
      <4>1. next \in Nat /\ NumThreads \in Nat
        OBVIOUS
      <4> QED
        BY <4>1, <2>2, ModSucc, Zenon
    <3> HIDE DEF r
    <3>3. next' = next + 1 /\ given' = [given EXCEPT ![r + 1] = @ + 1]
      <4>1. NextIndex = r + 1 /\ r + 1 \in Workers
        BY <3>1, <3>2 DEF NextIndex, r
      <4>2. loops[NextIndex] = r + 1
        BY <3>1, <4>1
      <4> QED
        BY <3>1, <4>2
    <3> HIDE <1>1 DEF GetNextLoop
    <3>4. \A v, w \in Workers : given[v] + (IF w <= r THEN 1 ELSE 0)
                                 = given[w] + (IF v <= r THEN 1 ELSE 0)
      BY DEF r
    <3>5. ASSUME NEW v \in Workers, NEW w \in Workers
          PROVE  given'[v] + (IF w <= next' % NumThreads THEN 1 ELSE 0)
                   = given'[w] + (IF v <= next' % NumThreads THEN 1 ELSE 0)
      BY <3>2, <3>3, <3>4
    <3>6. given'[Base] = 0 /\ \A w \in Workers : given'[w] <= next'
      BY <2>2, <3>2, <3>3
    <3> QED
      BY <3>5, <3>6
  <2> QED
    BY <2>1, <2>2
<1>2. CASE UNCHANGED <<next, given>>
  BY <1>2
<1>3. ASSUME NEW w \in Workers, WorkerStep(w) PROVE UNCHANGED <<next, given>>
  BY <1>3 DEF WorkerStep, BuildLoop, LockToPublish, PublishLoop, NotifyOne, EnterLoop, ExitLoop
<1>4. CASE BaseStep
  BY <1>4 DEF BaseStep, CreateThread, LockToTest, LoopNotReady, Sleep, StartLoopReturns,
              QuitThread, JoinAndFree, EndDestroy
<1>5. CASE BeginStart \/ SpuriousWakeup \/ BeginDestroy
  BY <1>5 DEF BeginStart, SpuriousWakeup, BeginDestroy
<1> QED
  BY <1>1, <1>2, <1>3, <1>4, <1>5 DEF Next, vars

-----------------------------------------------------------------------------
\* The four parts of the inductive invariant hold from construction on.
LEMMA PoolInvariant == Spec => [](TypeOK /\ PoolInv /\ HandshakeInv /\ RoundRobinInv)
<1>1. ASSUME Init PROVE TypeOK /\ PoolInv /\ HandshakeInv /\ RoundRobinInv
  <2> USE <1>1, CountsAssumption DEF CountsAssumption, Init, Workers, Threads, Base, NoLoop
  <2>1. started \in BOOLEAN /\ quit \in [Workers -> BOOLEAN]
    BY Zenon
  <2>2. TypeOK
    BY <2>1 DEF TypeOK, BasePcs, WorkerPcs, Nobody
  <2>3. PoolInv
    <3>1. Len(loops) = 0 /\ loops = <<>> /\ ~started /\ basePc = "user" /\ freed = {}
      OBVIOUS
    <3>2. \A w \in Workers : /\ workerPc[w] = "none"
                             /\ published[w] = NoLoop
                             /\ slot[w] = NoLoop
      OBVIOUS
    <3> HIDE <1>1
    <3> QED
      BY <3>1, <3>2 DEF PoolInv, Destroying, HasLoop, Waiting
  <2>4. RoundRobinInv
    BY DEF RoundRobinInv
  <2>5. HandshakeInv
    BY DEF HandshakeInv, NoNotificationLost, Waiting
  <2> QED
    BY <2>2, <2>3, <2>4, <2>5
<1> QED
  BY <1>1, TypeStep, PoolStep, HandshakeStep, RoundRobinStep, PTL DEF Spec

\* What start() hands to the server is safe to use: the i-th loop is the built
\* loop of the i-th worker and is not destroyed before the pool is, for every
\* interleaving of startLoop() with threadFunc().
THEOREM LoopsAlwaysUsable == Spec => []ReturnedLoopsUsable
<1>1. TypeOK /\ PoolInv => ReturnedLoopsUsable
  <2> SUFFICES ASSUME TypeOK, PoolInv, NEW i \in 1..Len(loops)
               PROVE  /\ loops[i] = i
                      /\ slot[i] = i
                      /\ ~Destroying => i \notin freed
    BY DEF ReturnedLoopsUsable, Destroying
  <2>1. i \in Workers
    BY CountsAssumption DEF CountsAssumption, PoolInv, TypeOK, Workers
  <2>2. loops[i] = i /\ HasLoop(i)
    BY DEF PoolInv
  <2> QED
    BY <2>1, <2>2 DEF PoolInv, HasLoop
<1> QED
  BY <1>1, PoolInvariant, PTL

\* The base thread never sleeps through the notification it waits for, for any
\* number of workers and any interleaving of startLoop() with threadFunc(): the
\* mutex covers both the test with the sleep and the assignment with notify_one().
THEOREM NotificationsNeverLost == Spec => []NoNotificationLost
<1>1. HandshakeInv => NoNotificationLost
  BY DEF HandshakeInv
<1> QED
  BY <1>1, PoolInvariant, PTL

\* getNextLoop() is fair for any number of workers and connections: next_ %
\* loops_.size() goes round without skipping or repeating.
THEOREM AlwaysBalanced == Spec => []Balanced
<1>1. TypeOK /\ RoundRobinInv => Balanced
  <2> SUFFICES ASSUME TypeOK, RoundRobinInv PROVE Balanced
    OBVIOUS
  <2>1. \A w \in Workers : given[w] \in Nat
    BY CountsAssumption DEF CountsAssumption, TypeOK, Threads
  <2>2. ASSUME NEW v \in Workers, NEW w \in Workers PROVE given[v] <= given[w] + 1
    BY <2>1 DEF RoundRobinInv
  <2> QED
    BY <2>2 DEF RoundRobinInv, Balanced
<1> QED
  BY <1>1, PoolInvariant, PTL

=============================================================================
