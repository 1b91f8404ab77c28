-------------------------------- MODULE Task --------------------------------
(***************************************************************************)
(* Coroutine frames: Task<T> (include/hayai/coro/Task.h), spawn() and its  *)
(* SpawnTask wrapper (spawn.h), EventLoop::spawn(), cleanupSpawnedTask().  *)
(* What a coroutine does between two suspensions is up to it: it may await *)
(* another task, wait for an event (recv, accept, ...), create, spawn or   *)
(* detach tasks, throw and return.                                         *)
(*                                                                         *)
(* resume() of a frame that is not suspended and destroy() of one that is  *)
(* running are undefined behaviour and end the behaviour; so do            *)
(* std::terminate() and the return of the loop.                            *)
(***************************************************************************)
EXTENDS Naturals, Sequences, FiniteSets, SequencesExt

CONSTANTS
    MaxTasks,       \* bound: coroutines, numbered in the order of their creation
    MaxEvents       \* bound: events awaited by one coroutine

ASSUME TaskAssumption == MaxTasks \in Nat /\ MaxEvents \in Nat

Tasks == 1..MaxTasks

\* Other values of an owner or a continuation.
None == 0
User == MaxTasks + 1
Wrapper == MaxTasks + 2

\* The thread of the event loop, that of an I/O loop, any other thread.
Threads == {"loop", "io", "user"}

VARIABLES
    frame,          \* the frame and promise of each Task (NoFrame below)
    wrapper,        \* the frame of the SpawnTask that awaits it
    spawnedTasks,   \* spawnedTasks_, the wrappers in it named by their task
    functors,       \* start and cleanup functors queued on the loop
    parked,         \* handles a task has given to awaiters of events
    events,         \* events it has awaited
    stack,          \* per thread: the coroutines in its nested resume() calls
    getting,        \* the task the user thread is in get() for
    ended,          \* "no", "undefined", "terminate", "quit"
    detached,       \* history: tasks that were detached
    rethrown,       \* history: tasks whose exception await_resume() has rethrown
    unfinished,     \* history: await_resume() has run on a task that was not done
    misused         \* history: a Task was resumed against its protocol (Misuse below)

(***************************************************************************)
(* status     none, initial, running, awaiting (another task), waiting     *)
(*            (for an event), final, destroyed                             *)
(* owner      who destroys it: user code, the frame of another task, the   *)
(*            wrapper, or nobody                                           *)
(* unwinding  an exception of an awaited task has been rethrown in it      *)
(***************************************************************************)
NoFrame == [status |-> "none", owner |-> None, continuation |-> None,
            exception |-> FALSE, unwinding |-> FALSE]
NewFrame(o, k) == [NoFrame EXCEPT !.status = "initial", !.owner = o, !.continuation = k]

history == <<detached, rethrown, unfinished, misused>>
vars == <<frame, wrapper, spawnedTasks, functors, parked, events, stack, getting, ended, history>>

TypeOK ==
    /\ frame \in [Tasks -> [status : {"none", "initial", "running", "awaiting", "waiting",
                                      "final", "destroyed"},
                            owner : Tasks \cup {None, User, Wrapper},
                            continuation : Tasks \cup {None, Wrapper},
                            exception : BOOLEAN, unwinding : BOOLEAN]]
    /\ wrapper \in [Tasks -> {"none", "initial", "awaiting", "final", "destroyed"}]
    /\ spawnedTasks \in SUBSET Tasks
    /\ functors \in Seq({"start", "cleanup"} \X Tasks)
    /\ parked \in [Tasks -> 0..MaxEvents]
    /\ events \in [Tasks -> 0..MaxEvents]
    /\ stack \in [Threads -> Seq(Tasks)]
    /\ getting \in Tasks \cup {None}
    /\ ended \in {"no", "undefined", "terminate", "quit"}
    /\ detached \in SUBSET Tasks
    /\ rethrown \in SUBSET Tasks
    /\ unfinished \in BOOLEAN
    /\ misused \in BOOLEAN

Init ==
    /\ frame = [t \in Tasks |-> NoFrame]
    /\ wrapper = [t \in Tasks |-> "none"]
    /\ spawnedTasks = {}
    /\ functors = <<>>
    /\ parked = [t \in Tasks |-> 0]
    /\ events = [t \in Tasks |-> 0]
    /\ stack = [h \in Threads |-> <<>>]
    /\ getting = None
    /\ ended = "no"
    /\ detached = {} /\ rethrown = {}
    /\ unfinished = FALSE /\ misused = FALSE

Status(t) == frame[t].status
Fresh(t) == Status(t) = "none" /\ \A u \in Tasks : u < t => Status(u) # "none"

\* Coroutine t runs on thread h, in the innermost resume() of it.
Runs(h, t) == stack[h] # <<>> /\ Last(stack[h]) = t

\* Code of the user runs on thread h: a coroutine, or a function outside of one.
UserCode(h) ==
    /\ ended = "no"
    /\ IF stack[h] = <<>> THEN h = "user" => getting = None
                          ELSE ~frame[Last(stack[h])].unwinding

Push(h, t) == stack' = [stack EXCEPT ![h] = Append(@, t)]
Pop(h) == stack' = [stack EXCEPT ![h] = Front(@)]
\* Symmetric transfer: the resume() goes on in another coroutine.
Transfer(h, t) == stack' = [stack EXCEPT ![h] = Append(Front(@), t)]

\* The frames that go when t is destroyed, the least set with t and all that its
\* members own: a frame holds the task it awaits.
OwnsAll(S) == \A u \in Tasks : frame[u].owner \in S => u \in S
OwnedBy(t) == {u \in Tasks : \A S \in SUBSET Tasks : t \in S /\ OwnsAll(S) => u \in S}
Destroyed(f, ts) ==
    [u \in Tasks |-> IF u \in ts THEN [f[u] EXCEPT !.status = "destroyed"] ELSE f[u]]
AnyRuns(ts) == \E u \in ts : Status(u) = "running"

-----------------------------------------------------------------------------
(* handle.resume()                                                          *)

\* An awaited task that has not finished when its awaiter is resumed, and is
\* destroyed with the expression that awaited it.
Children(t) == IF Status(t) = "awaiting"
                 THEN UNION {OwnedBy(u) : u \in {v \in Tasks : /\ frame[v].owner = t
                                                              /\ Status(v) # "destroyed"}}
                 ELSE {}

Resumable(t) == Status(t) \in {"initial", "waiting", "awaiting"} /\ ~AnyRuns(Children(t))

\* f: the frames as the caller leaves them.
Resume(h, t, f) ==
    IF Resumable(t)
      THEN /\ frame' = [Destroyed(f, Children(t)) EXCEPT ![t].status = "running"]
           /\ unfinished' = (unfinished \/ Children(t) # {})
           /\ Push(h, t)
           /\ UNCHANGED ended
      ELSE /\ ended' = "undefined"
           /\ UNCHANGED <<frame, unfinished, stack>>

\* Starting a task that was already run, or resuming a suspended one by get().
Misuse(t) == misused' = (misused \/ Status(t) # "initial")

-----------------------------------------------------------------------------
(* A coroutine that runs.                                                   *)

\* co_await f(): the child is created, suspended at once, and transferred to.
AwaitTask(h, t, u) ==
    /\ UserCode(h) /\ Runs(h, t) /\ Fresh(u)
    /\ frame' = [frame EXCEPT ![t].status = "awaiting",
                              ![u] = [NewFrame(t, t) EXCEPT !.status = "running"]]
    /\ Transfer(h, u)
    /\ UNCHANGED <<wrapper, spawnedTasks, functors, parked, events, getting, ended, history>>

\* co_await of an event: its awaiter keeps the handle.
AwaitEvent(h, t) ==
    /\ UserCode(h) /\ Runs(h, t)
    /\ events[t] < MaxEvents
    /\ events' = [events EXCEPT ![t] = @ + 1]
    /\ parked' = [parked EXCEPT ![t] = @ + 1]
    /\ frame' = [frame EXCEPT ![t].status = "waiting"]
    /\ Pop(h)
    /\ UNCHANGED <<wrapper, spawnedTasks, functors, getting, ended, history>>

\* The event happens: the I/O loop resumes the handle.
EventFires(t) ==
    /\ ended = "no" /\ stack["io"] = <<>>
    /\ parked[t] > 0
    /\ parked' = [parked EXCEPT ![t] = @ - 1]
    /\ Resume("io", t, frame)
    /\ UNCHANGED <<wrapper, spawnedTasks, functors, events, getting, detached, rethrown, misused>>

\* A handler in the coroutine catches what await_resume() has rethrown.
Catch(h, t) ==
    /\ ended = "no" /\ Runs(h, t)
    /\ frame[t].unwinding
    /\ frame' = [frame EXCEPT ![t].unwinding = FALSE]
    /\ UNCHANGED <<wrapper, spawnedTasks, functors, parked, events, stack, getting, ended, history>>

\* await_resume(): if (exception_) rethrow.
Rethrows_Never(exc) == FALSE
Rethrows(exc) == exc

\* SpawnTask::FinalAwaiter queues the cleanup of the wrapper.
CleanupQueued_Twice(t) == functors \o <<<<"cleanup", t>>, <<"cleanup", t>>>>
CleanupQueued(t) == Append(functors, <<"cleanup", t>>)

\* return_value(), return_void() or unhandled_exception(), then final_suspend.
FinalFrames(t, exc) ==
    [frame EXCEPT ![t].status = "final", ![t].exception = exc, ![t].unwinding = FALSE]

\* The task that awaits t goes on in await_resume(); the Task object is a
\* temporary of its co_await expression.
ResumeAwaiter(h, t, k, exc) ==
    /\ frame' = [Destroyed(FinalFrames(t, exc), {t}) EXCEPT ![k].status = "running",
                                                           ![k].unwinding = Rethrows(exc)]
    /\ rethrown' = IF Rethrows(exc) THEN rethrown \cup {t} ELSE rethrown
    /\ Transfer(h, k)
    /\ UNCHANGED <<wrapper, functors, ended>>

\* The wrapper goes on: it has no handler for an exception, and ends.
ResumeWrapper(h, t, exc) ==
    /\ frame' = FinalFrames(t, exc)
    /\ \/ /\ Rethrows(exc)
          /\ ended' = "terminate"
          /\ rethrown' = rethrown \cup {t}
          /\ UNCHANGED <<wrapper, functors, stack>>
       \/ /\ ~Rethrows(exc)
          /\ wrapper' = [wrapper EXCEPT ![t] = "final"]
          /\ functors' = CleanupQueued(t)
          /\ Pop(h)
          /\ UNCHANGED <<ended, rethrown>>

\* The coroutine returns, or ends with an exception it does not catch; its
\* FinalAwaiter transfers to the continuation, if there is one.
Finish(h, t, exc) ==
    /\ ended = "no" /\ Runs(h, t)
    /\ frame[t].unwinding => exc
    /\ LET k == frame[t].continuation
       IN \/ k \in Tasks /\ ResumeAwaiter(h, t, k, exc)
          \/ k = Wrapper /\ ResumeWrapper(h, t, exc)
          \/ /\ k = None
             /\ frame' = FinalFrames(t, exc)
             /\ Pop(h)
             /\ UNCHANGED <<wrapper, functors, ended, rethrown>>
    /\ UNCHANGED <<spawnedTasks, parked, events, getting, detached, unfinished, misused>>

-----------------------------------------------------------------------------
(* A Task object in user code.                                              *)

Create(h, t) ==
    /\ UserCode(h) /\ Fresh(t)
    /\ frame' = [frame EXCEPT ![t] = NewFrame(User, None)]
    /\ UNCHANGED <<wrapper, spawnedTasks, functors, parked, events, stack, getting, ended, history>>

\* ~Task(), or a move assignment to the object.
Drop(h, t) ==
    /\ UserCode(h)
    /\ frame[t].owner = User /\ Status(t) # "destroyed" /\ getting # t
    /\ IF AnyRuns(OwnedBy(t))
         THEN ended' = "undefined" /\ UNCHANGED frame
         ELSE frame' = Destroyed(frame, OwnedBy(t)) /\ UNCHANGED ended
    /\ UNCHANGED <<wrapper, spawnedTasks, functors, parked, events, stack, getting, history>>

\* handle_ = nullptr.
OwnerAfterDetach_Kept == User
OwnerAfterDetach == None

\* detach() resumes the task here and forgets its frame.
Detach(h, t) ==
    /\ UserCode(h)
    /\ frame[t].owner = User /\ Status(t) # "destroyed" /\ getting # t
    /\ detached' = detached \cup {t}
    /\ Misuse(t)
    /\ Resume(h, t, [frame EXCEPT ![t].owner = OwnerAfterDetach])
    /\ UNCHANGED <<wrapper, spawnedTasks, functors, parked, events, getting, rethrown>>

\* get() is called ...
Get(t) ==
    /\ UserCode("user") /\ stack["user"] = <<>>
    /\ frame[t].owner = User /\ Status(t) # "destroyed"
    /\ getting' = t
    /\ UNCHANGED <<frame, wrapper, spawnedTasks, functors, parked, events, stack, ended, history>>

\* ... and resumes the task, whatever it waits for, until it is done.
GetStep(t) ==
    /\ ended = "no" /\ stack["user"] = <<>>
    /\ getting = t
    /\ \/ /\ Status(t) # "final"
          /\ Misuse(t)
          /\ Resume("user", t, frame)
          /\ UNCHANGED <<getting, rethrown>>
       \/ /\ Status(t) = "final"
          /\ getting' = None
          /\ rethrown' = IF Rethrows(frame[t].exception) THEN rethrown \cup {t} ELSE rethrown
          /\ UNCHANGED <<frame, stack, ended, unfinished, misused>>
    /\ UNCHANGED <<wrapper, spawnedTasks, functors, parked, events, detached>>

-----------------------------------------------------------------------------
(* spawn()                                                                  *)

Registered_Not(t) == spawnedTasks
Registered(t) == spawnedTasks \cup {t}

\* The functor of EventLoop::spawn(): the wrapper is registered, resumed, and
\* transfers to the task it awaits.
StartWrapper(t, f) ==
    /\ spawnedTasks' = Registered(t)
    /\ wrapper' = [wrapper EXCEPT ![t] = "awaiting"]
    /\ Resume("loop", t, [f EXCEPT ![t].continuation = Wrapper])

\* spawn(loop, std::move(task)): runInLoop() runs the functor here or queues it.
Spawn(h, t) ==
    /\ UserCode(h)
    /\ frame[t].owner = User /\ Status(t) # "destroyed" /\ getting # t
    /\ Misuse(t)
    /\ LET owned == [frame EXCEPT ![t].owner = Wrapper]
       IN \/ h = "loop" /\ StartWrapper(t, owned) /\ UNCHANGED functors
          \/ /\ h # "loop"
             /\ frame' = owned
             /\ wrapper' = [wrapper EXCEPT ![t] = "initial"]
             /\ functors' = Append(functors, <<"start", t>>)
             /\ UNCHANGED <<spawnedTasks, stack, ended, unfinished>>
    /\ UNCHANGED <<parked, events, getting, detached, rethrown>>

\* cleanupSpawnedTask(): destroys the wrapper, which holds the task.
CleanupSpawnedTask(t) ==
    /\ IF t \in spawnedTasks
         THEN /\ spawnedTasks' = spawnedTasks \ {t}
              /\ wrapper' = [wrapper EXCEPT ![t] = "destroyed"]
              /\ frame' = Destroyed(frame, OwnedBy(t))
         ELSE UNCHANGED <<spawnedTasks, wrapper, frame>>
    /\ UNCHANGED <<stack, ended, unfinished>>

\* The loop runs the next functor.
RunFunctor ==
    /\ ended = "no" /\ stack["loop"] = <<>>
    /\ functors # <<>>
    /\ functors' = Tail(functors)
    /\ LET t == Head(functors)[2]
       IN \/ Head(functors)[1] = "start" /\ StartWrapper(t, frame)
          \/ Head(functors)[1] = "cleanup" /\ CleanupSpawnedTask(t)
    /\ UNCHANGED <<parked, events, getting, detached, rethrown, misused>>

\* loop() returns after quit(); ~EventLoop() leaves spawnedTasks_ as they are.
Quit ==
    /\ ended = "no" /\ stack["loop"] = <<>>
    /\ ended' = "quit"
    /\ UNCHANGED <<frame, wrapper, spawnedTasks, functors, parked, events, stack, getting, history>>

-----------------------------------------------------------------------------
\* A coroutine that runs gets on until it suspends or finishes.
CoroutineStep(h) ==
    \E t \in Tasks : \/ \E u \in Tasks : AwaitTask(h, t, u)
                     \/ AwaitEvent(h, t)
                     \/ Catch(h, t)
                     \/ \E exc \in BOOLEAN : Finish(h, t, exc)

UserStep(h) == \E t \in Tasks : Create(h, t) \/ Drop(h, t) \/ Detach(h, t) \/ Spawn(h, t)

Next ==
    \/ \E h \in Threads : CoroutineStep(h) \/ UserStep(h)
    \/ \E t \in Tasks : EventFires(t) \/ Get(t) \/ GetStep(t)
    \/ RunFunctor
    \/ Quit

Spec == Init /\ [][Next]_vars

\* The loop's thread goes on with the coroutine it is in and with its functors
\* (QueuedFunctorStarts of EventLoop).  No other thread has to get on, and no
\* event need ever happen.
FairSpec == Spec /\ WF_vars(CoroutineStep("loop")) /\ WF_vars(RunFunctor)

-----------------------------------------------------------------------------
(* Properties.                                                              *)

Count(s, x) == Cardinality({i \in DOMAIN s : s[i] = x})
OnStacks(t) == Cardinality({h \in Threads : t \in Range(stack[h])})

\* A frame that runs does so in one place, and one that waits for an event has
\* given its handle to one awaiter: only get() on a task that waits breaks this.
OneResumePerSuspension ==
    ~misused /\ ended = "no" =>
        \A t \in Tasks : /\ OnStacks(t) = IF Status(t) = "running" THEN 1 ELSE 0
                         /\ parked[t] = IF Status(t) = "waiting" THEN 1 ELSE 0

\* No resume() finds its frame running, finished or destroyed, no destroy() finds
\* it running, and no result is taken from a task that has none: unless get()
\* resumed a task that waits, or a task was started after get() had finished it.
ResumesAreDefined == ended = "undefined" \/ unfinished => misused

\* Every frame has somebody left to destroy it, but for those of detach(), and a
\* finished wrapper is destroyed by one cleanup functor: none is queued for one
\* that is already destroyed or that still awaits its task. The state is well typed.
FramesOwned ==
    /\ TypeOK
    /\ \A t \in Tasks :
        Count(functors, <<"cleanup", t>>) = IF wrapper[t] = "final" THEN 1 ELSE 0
    /\ \A t \in Tasks : Status(t) \notin {"none", "destroyed"} =>
        \/ t \in detached
        \/ frame[t].owner = User
        \/ frame[t].owner \in Tasks /\ Status(frame[t].owner) \notin {"none", "destroyed"}
        \/ frame[t].owner = Wrapper /\ (t \in spawnedTasks \/ Count(functors, <<"start", t>>) = 1)

\* An exception that ends a task is rethrown to whoever awaits it or calls get().
NoExceptionLost ==
    \A t \in Tasks : frame[t].exception => t \in rethrown \/ t \in detached \/ getting = t

\* "Frame is destroyed automatically when the coroutine completes": that of the
\* task and with it that of its wrapper, unless the loop returns first.
SpawnedIsFreed ==
    \A t \in Tasks :
        (frame[t].owner = Wrapper /\ Status(t) = "final")
            ~> (Status(t) = "destroyed" \/ ended # "no")
=============================================================================
