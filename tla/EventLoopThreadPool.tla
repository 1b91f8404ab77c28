------------------------ MODULE EventLoopThreadPool ------------------------
(***************************************************************************)
(* EventLoopThreadPool with its EventLoopThreads (src/src/net/): the base  *)
(* thread starts the workers one after the other, waiting on a condition   *)
(* variable until each has published its EventLoop, hands loops out in     *)
(* turn, and destroys the pool: quit, join and free each worker's loop.    *)
(* The wait is modelled with its mutex, the sleep that gives it up, the    *)
(* notification that only a sleeping thread gets, and spurious wakeups.    *)
(*                                                                         *)
(* Of EventLoop only quit_, its reset on entry to loop() and the           *)
(* thread-local slot t_loopInThisThread are kept; that a running loop      *)
(* whose quit_ is set returns is EventLoop!QuitStopsLoop.                  *)
(***************************************************************************)
EXTENDS Naturals, Sequences

CONSTANTS
    NumThreads,     \* numThreads_
    MaxConns        \* bound: calls of getNextLoop()

ASSUME CountsAssumption == NumThreads \in Nat /\ MaxConns \in Nat

Workers == 1..NumThreads
Base == 0               \* the base thread, and its loop; worker w's loop is w
Threads == {Base} \cup Workers
NoLoop == NumThreads + 1    \* nullptr
Nobody == NumThreads + 1    \* the owner of a free mutex

VARIABLES
    basePc,     \* see BasePcs
    current,    \* the worker the base thread is starting or destroying
    started,    \* started_
    loops,      \* loops_
    next,       \* next_
    given,      \* history: given[l] = how often getNextLoop() returned loop l
    workerPc,   \* see WorkerPcs
    mutex,      \* the thread that holds EventLoopThread::mutex_ of each worker
    published,  \* EventLoopThread::loop_ of each worker, NoLoop before it is set
    quit,       \* quit_ of each worker's loop
    quitRunning,\* history: workers whose loop was running when it was told to quit
    freed,      \* workers whose EventLoop has been destroyed
    slot        \* t_loopInThisThread of each thread

poolVars == <<started, loops, next, given>>
lifeVars == <<quit, quitRunning, freed>>
vars == <<basePc, current, poolVars, workerPc, mutex, published, lifeVars, slot>>

(***************************************************************************)
(* user       the base thread is outside the pool's code                   *)
(* starting   in start(), about to create thread "current"                 *)
(* locking    in startLoop() of "current", wants mutex_ (the unique_lock,  *)
(*            or cond_.wait() on its way out of a sleep)                   *)
(* testing    holds mutex_, tests the predicate of the wait                *)
(* parking    holds mutex_, has found loop_ null, about to sleep           *)
(* asleep     sleeps in cond_.wait(), without mutex_                       *)
(* destroying in the pool's destructor, between two EventLoopThreads       *)
(* joining    in ~EventLoopThread() of "current", in thread_.join()        *)
(* gone       the pool is destroyed                                        *)
(***************************************************************************)
Waiting == {"locking", "testing", "parking", "asleep"}
BasePcs == {"user", "starting", "destroying", "joining", "gone"} \cup Waiting

(***************************************************************************)
(* none       no thread                                                    *)
(* created    in threadFunc(), before make_unique<EventLoop>               *)
(* built      the loop exists, loop_ is not set yet                        *)
(* publishing holds mutex_, loop_ is not set yet                           *)
(* notifying  holds mutex_, loop_ is set, notify_one() not called          *)
(* ready      loop_ is set and announced, loop() not entered               *)
(* looping    in loop(), past quit_ = false                                *)
(* exited     threadFunc() has returned                                    *)
(***************************************************************************)
WorkerPcs == {"none", "created", "built", "publishing", "notifying", "ready", "looping",
              "exited"}

TypeOK ==
    /\ basePc \in BasePcs
    /\ current \in 0..NumThreads
    /\ started \in BOOLEAN
    /\ loops \in Seq(Workers \cup {NoLoop})
    /\ next \in 0..MaxConns
    /\ given \in [Threads \cup {NoLoop} -> 0..MaxConns]
    /\ workerPc \in [Workers -> WorkerPcs]
    /\ mutex \in [Workers -> Threads \cup {Nobody}]
    /\ published \in [Workers -> Workers \cup {NoLoop}]
    /\ quit \in [Workers -> BOOLEAN]
    /\ quitRunning \in SUBSET Workers
    /\ freed \in SUBSET Workers
    /\ slot \in [Threads -> Threads \cup {NoLoop}]

\* The base loop and the pool object exist.
Init ==
    /\ basePc = "user"
    /\ current = 0
    /\ started = FALSE
    /\ loops = <<>>
    /\ next = 0
    /\ given = [l \in Threads \cup {NoLoop} |-> 0]
    /\ workerPc = [w \in Workers |-> "none"]
    /\ mutex = [w \in Workers |-> Nobody]
    /\ published = [w \in Workers |-> NoLoop]
    /\ quit = [w \in Workers |-> FALSE]
    /\ quitRunning = {}
    /\ freed = {}
    /\ slot = [t \in Threads |-> IF t = Base THEN Base ELSE NoLoop]

-----------------------------------------------------------------------------
(* start(), on the base thread.                                             *)

BeginStart ==
    /\ basePc = "user" /\ ~started
    /\ started' = TRUE
    /\ IF NumThreads = 0
         THEN UNCHANGED <<basePc, current>>
         ELSE basePc' = "starting" /\ current' = 1
    /\ UNCHANGED <<loops, next, given, workerPc, mutex, published, lifeVars, slot>>

CreateThread ==
    /\ basePc = "starting"
    /\ workerPc' = [workerPc EXCEPT ![current] = "created"]
    /\ basePc' = "locking"
    /\ UNCHANGED <<current, poolVars, mutex, published, lifeVars, slot>>

\* unique_lock lock(mutex_), and the lock cond_.wait() takes again when it wakes.
LockToTest ==
    /\ basePc = "locking"
    /\ mutex[current] = Nobody
    /\ mutex' = [mutex EXCEPT ![current] = Base]
    /\ basePc' = "testing"
    /\ UNCHANGED <<current, poolVars, workerPc, published, lifeVars, slot>>

\* The predicate of cond_.wait(lock, pred): tested before the first wait and after
\* every wakeup, spurious ones included.
WaitOver_AnyWakeup == TRUE
WaitOver == published[current] # NoLoop

\* The predicate fails: the thread is going to sleep ...
LoopNotReady ==
    /\ basePc = "testing"
    /\ ~WaitOver
    /\ basePc' = "parking"
    /\ UNCHANGED <<current, poolVars, workerPc, mutex, published, lifeVars, slot>>

\* ... and gives up mutex_ in the same step as it begins to sleep.
Sleep ==
    /\ basePc = "parking"
    /\ mutex' = [mutex EXCEPT ![current] = Nobody]
    /\ basePc' = "asleep"
    /\ UNCHANGED <<current, poolVars, workerPc, published, lifeVars, slot>>

\* A wakeup without a notification.
SpuriousWakeup ==
    /\ basePc = "asleep"
    /\ basePc' = "locking"
    /\ UNCHANGED <<current, poolVars, workerPc, mutex, published, lifeVars, slot>>

\* i + 1 < numThreads_, with the loop's index counted from 1.
MoreThreads == current < NumThreads

\* startLoop() unlocks and returns loop_.get(); start() goes on with the next
\* thread.
StartLoopReturns ==
    /\ basePc = "testing"
    /\ WaitOver
    /\ mutex' = [mutex EXCEPT ![current] = Nobody]
    /\ loops' = Append(loops, published[current])
    /\ IF MoreThreads
         THEN basePc' = "starting" /\ current' = current + 1
         ELSE basePc' = "user" /\ UNCHANGED current
    /\ UNCHANGED <<started, next, given, workerPc, published, lifeVars, slot>>

-----------------------------------------------------------------------------
(* threadFunc(), on a worker thread.                                        *)

BuildLoop(w) ==
    /\ workerPc[w] = "created"
    /\ slot[w] = NoLoop                 \* else EventLoop() aborts
    /\ slot' = [slot EXCEPT ![w] = w]
    /\ workerPc' = [workerPc EXCEPT ![w] = "built"]
    /\ UNCHANGED <<basePc, current, poolVars, mutex, published, lifeVars>>

\* The lock_guard of threadFunc().
LockToPublish_NoLock(w) ==
    /\ workerPc[w] = "built"
    /\ workerPc' = [workerPc EXCEPT ![w] = "publishing"]
    /\ UNCHANGED <<basePc, current, poolVars, mutex, published, lifeVars, slot>>
LockToPublish(w) ==
    /\ workerPc[w] = "built"
    /\ mutex[w] = Nobody
    /\ mutex' = [mutex EXCEPT ![w] = w]
    /\ workerPc' = [workerPc EXCEPT ![w] = "publishing"]
    /\ UNCHANGED <<basePc, current, poolVars, published, lifeVars, slot>>

\* loop_ = std::move(loop).
PublishLoop(w) ==
    /\ workerPc[w] = "publishing"
    /\ published' = [published EXCEPT ![w] = w]
    /\ workerPc' = [workerPc EXCEPT ![w] = "notifying"]
    /\ UNCHANGED <<basePc, current, poolVars, mutex, lifeVars, slot>>

\* Where notify_one() leaves the base thread: it wakes a thread that sleeps in the
\* wait of this EventLoopThread, and is lost on one that does not.
Woken_Nobody(w) == basePc
Woken(w) == IF basePc = "asleep" /\ current = w THEN "locking" ELSE basePc

\* cond_.notify_one(), and the end of the lock_guard's scope.
NotifyOne(w) ==
    /\ workerPc[w] = "notifying"
    /\ basePc' = Woken(w)
    /\ mutex' = [mutex EXCEPT ![w] = Nobody]
    /\ workerPc' = [workerPc EXCEPT ![w] = "ready"]
    /\ UNCHANGED <<current, poolVars, published, lifeVars, slot>>

\* loop() begins: looping_ = true; quit_ = false.
EnterLoop(w) ==
    /\ workerPc[w] = "ready"
    /\ quit' = [quit EXCEPT ![w] = FALSE]
    /\ workerPc' = [workerPc EXCEPT ![w] = "looping"]
    /\ UNCHANGED <<basePc, current, poolVars, mutex, published, quitRunning, freed, slot>>

ExitLoop(w) ==
    /\ workerPc[w] = "looping"
    /\ quit[w]
    /\ workerPc' = [workerPc EXCEPT ![w] = "exited"]
    /\ UNCHANGED <<basePc, current, poolVars, mutex, published, lifeVars, slot>>

-----------------------------------------------------------------------------
(* getNextLoop(), on the base thread.                                       *)

NextIndex_NoWrap == IF next < Len(loops) THEN next + 1 ELSE Len(loops)
NextIndex == (next % Len(loops)) + 1        \* 1-based

GetNextLoop ==
    /\ basePc = "user" /\ started
    /\ next + given[Base] < MaxConns
    /\ LET l == IF loops = <<>> THEN Base ELSE loops[NextIndex]
       IN  given' = [given EXCEPT ![l] = @ + 1]
    /\ next' = IF loops = <<>> THEN next ELSE next + 1
    /\ UNCHANGED <<basePc, current, started, loops, workerPc, mutex, published, lifeVars,
                   slot>>

-----------------------------------------------------------------------------
(* ~EventLoopThreadPool() and ~EventLoopThread(), on the base thread.       *)

BeginDestroy ==
    /\ basePc = "user"
    /\ basePc' = "destroying"
    /\ UNCHANGED <<current, poolVars, workerPc, mutex, published, lifeVars, slot>>

QuitThread_JoinOnly(w) ==
    /\ basePc = "destroying"
    /\ workerPc[w] # "none" /\ w \notin freed
    /\ quitRunning' = IF workerPc[w] = "looping" THEN quitRunning \cup {w} ELSE quitRunning
    /\ current' = w
    /\ basePc' = "joining"
    /\ UNCHANGED <<poolVars, workerPc, mutex, published, quit, freed, slot>>

\* if (loop_) loop_->quit(); the order of the workers is the library's choice.
QuitThread(w) ==
    /\ basePc = "destroying"
    /\ workerPc[w] # "none" /\ w \notin freed
    /\ quit' = [quit EXCEPT ![w] = TRUE]
    /\ quitRunning' = IF workerPc[w] = "looping" THEN quitRunning \cup {w} ELSE quitRunning
    /\ current' = w
    /\ basePc' = "joining"
    /\ UNCHANGED <<poolVars, workerPc, mutex, published, freed, slot>>

JoinOver == workerPc[current] = "exited"

\* join() returns and the members go: ~EventLoop() runs on the base thread and
\* clears the slot of the thread it runs on.
JoinAndFree ==
    /\ basePc = "joining"
    /\ JoinOver
    /\ freed' = freed \cup {current}
    /\ slot' = [slot EXCEPT ![Base] = NoLoop]
    /\ basePc' = "destroying"
    /\ UNCHANGED <<current, poolVars, workerPc, mutex, published, quit, quitRunning>>

EndDestroy ==
    /\ basePc = "destroying"
    /\ \A w \in Workers : workerPc[w] = "none" \/ w \in freed
    /\ basePc' = "gone"
    /\ UNCHANGED <<current, poolVars, workerPc, mutex, published, lifeVars, slot>>

-----------------------------------------------------------------------------
WorkerStep(w) ==
    BuildLoop(w) \/ LockToPublish(w) \/ PublishLoop(w) \/ NotifyOne(w) \/ EnterLoop(w)
    \/ ExitLoop(w)

BaseStep ==
    \/ CreateThread
    \/ LockToTest
    \/ LoopNotReady
    \/ Sleep
    \/ StartLoopReturns
    \/ \E w \in Workers : QuitThread(w)
    \/ JoinAndFree
    \/ EndDestroy

Next ==
    \/ BeginStart
    \/ SpuriousWakeup
    \/ GetNextLoop
    \/ BeginDestroy
    \/ BaseStep
    \/ \E w \in Workers : WorkerStep(w)

Spec == Init /\ [][Next]_vars

\* Threads that can run do run, and a worker gets a mutex that is free again and
\* again.  Nobody has to start or destroy the pool, and no wakeup is owed to a
\* sleeping thread other than by notify_one().
FairSpec ==
    /\ Spec
    /\ WF_vars(BaseStep)
    /\ \A w \in Workers : WF_vars(WorkerStep(w)) /\ SF_vars(LockToPublish(w))

-----------------------------------------------------------------------------
(* Properties.                                                              *)

\* "This ensures the returned EventLoop* is safe to use": what start() collected
\* are the distinct, built and not yet destroyed loops of the workers (and the
\* state is well typed).
ReturnedLoopsUsable ==
    /\ TypeOK
    /\ \A i \in 1..Len(loops) :
        /\ loops[i] = i
        /\ slot[i] = i
        /\ basePc \notin {"destroying", "joining", "gone"} => i \notin freed

\* The handshake of startLoop() and threadFunc() loses no notification: while the
\* base thread sleeps in the wait, the notify_one() of the worker it waits for is
\* still to come.  A worker that set loop_ outside the mutex could notify between the
\* base thread's test and its sleep.
NoNotificationLost ==
    basePc = "asleep" =>
        workerPc[current] \in {"created", "built", "publishing", "notifying"}

\* Round robin: no two workers differ by more than one connection, and the base
\* loop gets none unless there are no workers.
Balanced ==
    /\ \A v, w \in Workers : given[v] <= given[w] + 1
    /\ NumThreads > 0 => given[Base] = 0

\* start() returns, woken by the workers' notifications alone: no spurious wakeup is
\* needed, and however many there are they do not keep it from returning.
StartReturns == (basePc = "starting") ~> (basePc = "user")

\* The base thread waits for a worker that has begun loop() after it was told to
\* quit: loop() has reset quit_ and does not return.
QuitLost ==
    basePc = "joining" /\ current \notin quitRunning /\ workerPc[current] = "looping"

\* "Threads are automatically joined in EventLoopThread destructor": the pool's
\* destructor comes to its end, through any number of workers that are being built,
\* run or have not begun, unless a quit() is lost on one of them.
DestructorReturns == (basePc = "destroying") ~> (basePc = "gone" \/ QuitLost)
=============================================================================
