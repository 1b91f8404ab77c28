----------------------------- MODULE TaskProofs -----------------------------
(***************************************************************************)
(* Proofs about Task: coroutine frames, for any number of tasks and        *)
(* events.                                                                 *)
(***************************************************************************)
EXTENDS Task, SequenceTheorems, FiniteSetTheorems, TLAPS

-----------------------------------------------------------------------------
(* The inductive invariant.                                                 *)

Owner(t) == frame[t].owner
Continuation(t) == frame[t].continuation
Exception(t) == frame[t].exception

Live(t) == Status(t) \notin {"none", "destroyed"}
Active(t) == Status(t) \in {"running", "awaiting", "waiting"}

\* Tasks are created in order, and a frame that holds another one was created
\* before it; a frame whose task is not finished holds it because it awaits it,
\* and it awaits one task only.
TreeInv ==
    /\ \A t \in Tasks : Status(t) = "none" => Owner(t) = None /\ Continuation(t) = None
    /\ \A t, u \in Tasks : Status(t) # "none" /\ u < t => Status(u) # "none"
    /\ \A t \in Tasks : Owner(t) \in Tasks => Owner(t) < t
    /\ \A t \in Tasks : Live(t) /\ Owner(t) \in Tasks =>
          Status(Owner(t)) = "awaiting" /\ Continuation(t) = Owner(t)
    /\ \A t \in Tasks : Continuation(t) # None => Owner(t) = Continuation(t)
    /\ \A t, u \in Tasks :
          Live(t) /\ Live(u) /\ Owner(t) \in Tasks /\ Owner(u) = Owner(t) => t = u

\* The coroutines on the stacks of the threads are those that run, each in one place.
StackInv ==
    ended = "no" =>
    /\ \A h \in Threads : \A i \in 1..Len(stack[h]) : Status(stack[h][i]) = "running"
    /\ \A t \in Tasks : Status(t) = "running" =>
          \E h \in Threads : \E i \in 1..Len(stack[h]) : stack[h][i] = t
    /\ \A h, g \in Threads : \A i \in 1..Len(stack[h]), j \in 1..Len(stack[g]) :
          stack[h][i] = stack[g][j] => h = g /\ i = j

\* A wrapper that is not started has one start functor, a finished one has one
\* cleanup functor, and there are no others.
FunctorInv ==
    /\ \A i \in 1..Len(functors) :
          wrapper[functors[i][2]] = IF functors[i][1] = "start" THEN "initial" ELSE "final"
    /\ \A t \in Tasks : wrapper[t] = "initial" =>
          \E i \in 1..Len(functors) : functors[i] = <<"start", t>>
    /\ \A t \in Tasks : wrapper[t] = "final" =>
          \E i \in 1..Len(functors) : functors[i] = <<"cleanup", t>>
    /\ \A i, j \in 1..Len(functors) : functors[i] = functors[j] => i = j

\* A task has a wrapper from spawn() on, which awaits it while it is under way and
\* is registered until it is destroyed.
WrapperOf(t) ==
    /\ wrapper[t] \in {"awaiting", "final"} => t \in spawnedTasks
    /\ Live(t) /\ Owner(t) = Wrapper => wrapper[t] \in {"initial", "awaiting", "final"}
    /\ ended # "undefined" => (Owner(t) \in {None, User} => wrapper[t] = "none")
    /\ wrapper[t] = "initial" => Owner(t) = Wrapper
    /\ Active(t) /\ Continuation(t) = Wrapper => wrapper[t] = "awaiting"
    /\ wrapper[t] = "final" => Status(t) \in {"final", "destroyed"}
WrapperInv == \A t \in Tasks : WrapperOf(t)

\* A task of user code is under way only inside get(), and one that is under way
\* without a continuation is in get() or detached.
UserOf(t) ==
    /\ getting = t => Owner(t) = User
    /\ Live(t) /\ Owner(t) = None => t \in detached
    /\ Owner(t) = User /\ getting # t => ~Active(t)
    /\ Active(t) /\ Continuation(t) = None => t \in detached \/ getting = t
    /\ Exception(t) => t \in rethrown \/ t \in detached \/ getting = t
UserInv == \A t \in Tasks : UserOf(t)

\* As long as get() resumes and spawn() and detach() start only tasks that have not
\* begun, the handles given to awaiters are those of the tasks that wait.
ProtocolOf(t) ==
    /\ parked[t] <= events[t]
    /\ parked[t] > 0 => Status(t) \notin {"none", "initial"}
    /\ ~misused /\ wrapper[t] = "initial" => Status(t) = "initial"
    /\ ~misused /\ ended = "no" => parked[t] = IF Status(t) = "waiting" THEN 1 ELSE 0
ProtocolInv == ResumesAreDefined /\ \A t \in Tasks : ProtocolOf(t)

FrameInv ==
    TypeOK /\ TreeInv /\ StackInv /\ FunctorInv /\ WrapperInv /\ UserInv /\ ProtocolInv

-----------------------------------------------------------------------------
(* Frames.                                                                  *)

Statuses == {"none", "initial", "running", "awaiting", "waiting", "final", "destroyed"}
Frames == [status : Statuses, owner : Tasks \cup {None, User, Wrapper},
           continuation : Tasks \cup {None, Wrapper}, exception : BOOLEAN, unwinding : BOOLEAN]

\* None, User and Wrapper are no tasks, and differ.
LEMMA Names ==
  /\ None \notin Tasks /\ User \notin Tasks /\ Wrapper \notin Tasks
  /\ None # User /\ None # Wrapper /\ User # Wrapper
BY TaskAssumption DEF TaskAssumption, Tasks, None, User, Wrapper

\* A step's effect on the frames, as far as the invariant looks at them.
Becomes(t, s, o, k, x) ==
    Status(t)' = s /\ Owner(t)' = o /\ Continuation(t)' = k /\ Exception(t)' = x
Others(T) ==
    \A u \in Tasks \ T : Becomes(u, Status(u), Owner(u), Continuation(u), Exception(u))
Only(t, s, o, k, x) == t \in Tasks /\ Becomes(t, s, o, k, x) /\ Others({t})

\* A frame owns itself, whatever its owner owns, and frames created later.
LEMMA Owned ==
  ASSUME TypeOK, TreeInv, NEW t \in Tasks, Status(t) # "none"
  PROVE  /\ t \in OwnedBy(t) /\ OwnedBy(t) \subseteq Tasks
         /\ \A u \in Tasks : Owner(u) \in OwnedBy(t) => u \in OwnedBy(t)
         /\ \A u \in OwnedBy(t) : t <= u /\ Status(u) # "none"
<1>1. t \in OwnedBy(t) /\ OwnedBy(t) \subseteq Tasks
  BY DEF OwnedBy
<1>2. ASSUME NEW u \in Tasks, Owner(u) \in OwnedBy(t) PROVE u \in OwnedBy(t)
  BY <1>2 DEF OwnedBy, OwnsAll, Owner
<1>3. ASSUME NEW u \in OwnedBy(t) PROVE t <= u /\ Status(u) # "none"
  <2> DEFINE S == {v \in Tasks : t <= v /\ Status(v) # "none"}
  <2>1. S \in SUBSET Tasks /\ t \in S
    BY DEF Tasks
  <2>2. OwnsAll(S)
    <3> SUFFICES ASSUME NEW v \in Tasks, Owner(v) \in S PROVE v \in S
      BY DEF OwnsAll, Owner
    <3>1. Owner(v) < v /\ Owner(v) # None
      BY Names DEF TreeInv
    <3> QED
      BY <3>1 DEF TreeInv, Tasks
  <2> QED
    BY <1>3, <2>1, <2>2 DEF OwnedBy
<1> QED
  BY <1>1, <1>2, <1>3

\* A task that awaits none owns no frame but its own and destroyed ones.
LEMMA OwnedAlone ==
  ASSUME TypeOK, TreeInv, NEW t \in Tasks, Status(t) # "none", Status(t) # "awaiting"
  PROVE  \A u \in OwnedBy(t) : u = t \/ Status(u) = "destroyed"
<1> DEFINE S == {v \in Tasks : v = t \/ Status(v) = "destroyed"}
<1>1. OwnsAll(S)
  <2> SUFFICES ASSUME NEW v \in Tasks, Owner(v) \in S PROVE v \in S
    BY DEF OwnsAll, Owner
  <2>1. Status(v) # "none"
    BY Names DEF TreeInv
  <2>2. Live(v) => Status(Owner(v)) = "awaiting"
    BY DEF TreeInv
  <2> QED
    BY <2>1, <2>2 DEF Live
<1> QED
  BY <1>1 DEF OwnedBy

\* The parts of a frame have their types.
LEMMA FrameTyped ==
  ASSUME TypeOK
  PROVE  /\ frame \in [Tasks -> Frames]
         /\ \A t \in Tasks : /\ Status(t) \in Statuses
                             /\ Owner(t) \in Tasks \cup {None, User, Wrapper}
                             /\ Continuation(t) \in Tasks \cup {None, Wrapper}
                             /\ Exception(t) \in BOOLEAN
<1>1. frame \in [Tasks -> Frames]
  BY DEF TypeOK, Frames, Statuses
<1> QED
  BY <1>1 DEF Frames, Status, Owner, Continuation, Exception

\* The coroutine in the innermost resume() of a thread runs.
LEMMA TopRuns ==
  ASSUME TypeOK, StackInv, ended = "no", NEW h \in Threads, NEW t \in Tasks, Runs(h, t)
  PROVE  /\ Status(t) = "running"
         /\ Len(stack[h]) \in Nat /\ Len(stack[h]) > 0 /\ stack[h][Len(stack[h])] = t
<1>1. stack[h] \in Seq(Tasks)
  BY DEF TypeOK
<1>2. Len(stack[h]) \in Nat /\ Len(stack[h]) > 0
  BY <1>1, EmptySeq, LenProperties DEF Runs
<1>3. stack[h][Len(stack[h])] = t
  BY <1>2 DEF Runs, Last
<1> QED
  BY <1>2, <1>3 DEF StackInv

\* co_await f(): the task suspends, and holds the one it has created, which runs.
LEMMA AwaitTaskEffect ==
  ASSUME TypeOK, TreeInv, StackInv,
         NEW h \in Threads, NEW t \in Tasks, NEW u \in Tasks, AwaitTask(h, t, u)
  PROVE  /\ frame' \in [Tasks -> Frames]
         /\ Status(t) = "running" /\ Status(u) = "none" /\ t < u
         /\ \A v \in Tasks : v < u => Status(v) # "none"
         /\ Becomes(t, "awaiting", Owner(t), Continuation(t), Exception(t))
         /\ Becomes(u, "running", t, t, FALSE)
         /\ Others({t, u})
<1>1. Status(t) = "running" /\ Status(u) = "none"
  BY TopRuns DEF AwaitTask, UserCode, Fresh
<1>2. \A v \in Tasks : v < u => Status(v) # "none"
  BY DEF AwaitTask, Fresh
<1>3. t < u
  BY <1>1 DEF TreeInv, Tasks
<1>4. frame' = [frame EXCEPT ![t].status = "awaiting",
                             ![u] = [NewFrame(t, t) EXCEPT !.status = "running"]]
  BY DEF AwaitTask
<1>5. frame \in [Tasks -> Frames]
  BY FrameTyped
<1>6. frame' \in [Tasks -> Frames]
  BY <1>4, <1>5 DEF Frames, Statuses, NewFrame, NoFrame
<1>7. Becomes(t, "awaiting", Owner(t), Continuation(t), Exception(t))
  BY <1>3, <1>4, <1>5 DEF Becomes, Status, Owner, Continuation, Exception, Frames, Tasks
<1>8. Becomes(u, "running", t, t, FALSE)
  BY <1>4, <1>5 DEF Becomes, Status, Owner, Continuation, Exception, NewFrame, NoFrame
<1>9. Others({t, u})
  BY <1>4, <1>5 DEF Others, Becomes, Status, Owner, Continuation, Exception
<1> QED
  BY <1>1, <1>2, <1>3, <1>6, <1>7, <1>8, <1>9

\* co_await of an event suspends the task.
LEMMA AwaitEventEffect ==
  ASSUME TypeOK, TreeInv, StackInv, NEW h \in Threads, NEW t \in Tasks, AwaitEvent(h, t)
  PROVE  /\ frame' \in [Tasks -> Frames]
         /\ Status(t) = "running"
         /\ Only(t, "waiting", Owner(t), Continuation(t), Exception(t))
<1>1. Status(t) = "running"
  BY TopRuns DEF AwaitEvent, UserCode
<1>2. frame' = [frame EXCEPT ![t].status = "waiting"] /\ frame \in [Tasks -> Frames]
  BY FrameTyped DEF AwaitEvent
<1>3. frame' \in [Tasks -> Frames]
  BY <1>2 DEF Frames, Statuses
<1>4. Only(t, "waiting", Owner(t), Continuation(t), Exception(t))
  BY <1>2 DEF Only, Others, Becomes, Status, Owner, Continuation, Exception, Frames
<1> QED
  BY <1>1, <1>3, <1>4

\* A handler changes nothing that the invariant looks at.
LEMMA CatchEffect ==
  ASSUME TypeOK, NEW h \in Threads, NEW t \in Tasks, Catch(h, t)
  PROVE  frame' \in [Tasks -> Frames] /\ Others({})
<1>1. frame' = [frame EXCEPT ![t].unwinding = FALSE] /\ frame \in [Tasks -> Frames]
  BY FrameTyped DEF Catch
<1>2. frame' \in [Tasks -> Frames]
  BY <1>1 DEF Frames
<1>3. Others({})
  BY <1>1 DEF Others, Becomes, Status, Owner, Continuation, Exception, Frames
<1> QED
  BY <1>2, <1>3

\* A new Task object holds a frame that has not begun.
LEMMA CreateEffect ==
  ASSUME TypeOK, NEW h \in Threads, NEW t \in Tasks, Create(h, t)
  PROVE  /\ frame' \in [Tasks -> Frames]
         /\ Status(t) = "none"
         /\ \A v \in Tasks : v < t => Status(v) # "none"
         /\ Only(t, "initial", User, None, FALSE)
<1>1. Status(t) = "none" /\ \A v \in Tasks : v < t => Status(v) # "none"
  BY DEF Create, Fresh
<1>2. frame' = [frame EXCEPT ![t] = NewFrame(User, None)] /\ frame \in [Tasks -> Frames]
  BY FrameTyped DEF Create
<1>3. frame' \in [Tasks -> Frames]
  BY <1>2 DEF Frames, Statuses, NewFrame, NoFrame
<1>4. Only(t, "initial", User, None, FALSE)
  BY <1>2 DEF Only, Others, Becomes, Status, Owner, Continuation, Exception, NewFrame, NoFrame
<1> QED
  BY <1>1, <1>3, <1>4

\* destroy() of a suspended frame that awaits no task ends that frame only.
LEMMA DestroyEffect ==
  ASSUME TypeOK, TreeInv, NEW t \in Tasks, Status(t) \notin {"none", "awaiting"},
         frame' = Destroyed(frame, OwnedBy(t))
  PROVE  /\ frame' \in [Tasks -> Frames]
         /\ Only(t, "destroyed", Owner(t), Continuation(t), Exception(t))
<1>1. frame \in [Tasks -> Frames]
  BY FrameTyped
<1>2. t \in OwnedBy(t) /\ \A u \in OwnedBy(t) : u = t \/ Status(u) = "destroyed"
  BY Owned, OwnedAlone
<1>3. frame' \in [Tasks -> Frames]
  BY <1>1 DEF Destroyed, Frames, Statuses
<1>4. Becomes(t, "destroyed", Owner(t), Continuation(t), Exception(t))
  BY <1>1, <1>2 DEF Destroyed, Becomes, Status, Owner, Continuation, Exception, Frames
<1>5. ASSUME NEW u \in Tasks, u # t
      PROVE  Becomes(u, Status(u), Owner(u), Continuation(u), Exception(u))
  <2>1. CASE u \in OwnedBy(t)
    <3>1. Status(u) = "destroyed"
      BY <1>2, <1>5, <2>1
    <3>2. frame'[u] = [frame[u] EXCEPT !.status = "destroyed"]
      BY <2>1 DEF Destroyed
    <3> QED
      BY <1>1, <3>1, <3>2 DEF Becomes, Status, Owner, Continuation, Exception, Frames
  <2>2. CASE u \notin OwnedBy(t)
    BY <2>2 DEF Destroyed, Becomes, Status, Owner, Continuation, Exception
  <2> QED
    BY <2>1, <2>2
<1> QED
  BY <1>3, <1>4, <1>5 DEF Only, Others

\* ~Task() finds a task that has not begun or is finished, and no frame that runs.
LEMMA DropEffect ==
  ASSUME TypeOK, TreeInv, UserInv, NEW h \in Threads, NEW t \in Tasks, Drop(h, t)
  PROVE  /\ frame' \in [Tasks -> Frames]
         /\ Owner(t) = User /\ Status(t) \in {"initial", "final"} /\ getting # t
         /\ Only(t, "destroyed", Owner(t), Continuation(t), Exception(t))
         /\ ended' = ended
<1>1. Owner(t) = User /\ Status(t) # "destroyed" /\ getting # t
  BY DEF Drop, Owner
<1>2. Status(t) \in {"initial", "final"}
  BY <1>1, FrameTyped, Names DEF UserInv, UserOf, Active, TreeInv, Statuses
<1>3. ~AnyRuns(OwnedBy(t))
  BY <1>2, OwnedAlone DEF AnyRuns
<1>4. frame' = Destroyed(frame, OwnedBy(t)) /\ ended' = ended
  BY <1>3 DEF Drop
<1> QED
  BY <1>1, <1>2, <1>4, DestroyEffect

\* A frame with its exception set, or with what await_resume() rethrows, is a frame.
LEMMA ExceptionTyped ==
  ASSUME NEW f \in Frames, NEW s \in Statuses, NEW exc \in BOOLEAN
  PROVE  /\ [f EXCEPT !.status = s, !.exception = exc, !.unwinding = FALSE] \in Frames
         /\ [f EXCEPT !.status = s, !.unwinding = exc] \in Frames
<1>1. CASE exc = TRUE
  BY <1>1 DEF Frames
<1>2. CASE exc = FALSE
  BY <1>2 DEF Frames
<1> QED
  BY <1>1, <1>2

\* A coroutine that finishes resumes the task that awaits it, which then destroys
\* its frame; or it is final.
LEMMA FinishEffect ==
  ASSUME TypeOK, TreeInv, StackInv,
         NEW h \in Threads, NEW t \in Tasks, NEW exc \in BOOLEAN, Finish(h, t, exc)
  PROVE  /\ frame' \in [Tasks -> Frames]
         /\ Status(t) = "running"
         /\ \/ /\ Continuation(t) \notin Tasks
               /\ Only(t, "final", Owner(t), Continuation(t), exc)
            \/ \E k \in Tasks :
                 /\ Owner(t) = k /\ Continuation(t) = k /\ k < t /\ Status(k) = "awaiting"
                 /\ ResumeAwaiter(h, t, k, exc)
                 /\ Becomes(t, "destroyed", k, k, exc)
                 /\ Becomes(k, "running", Owner(k), Continuation(k), Exception(k))
                 /\ Others({t, k})
<1>1. Status(t) = "running"
  BY TopRuns DEF Finish
<1>2. frame \in [Tasks -> Frames]
  BY FrameTyped
<1>3. CASE Continuation(t) \in Tasks
  <2>1. PICK k \in Tasks : Continuation(t) = k
    BY <1>3
  <2>2. Owner(t) = k
    BY <2>1, Names DEF TreeInv
  <2>3. k < t /\ Status(k) = "awaiting"
    BY <1>1, <2>2 DEF TreeInv, Live
  <2>4. ResumeAwaiter(h, t, k, exc)
    BY <2>1, Names DEF Finish, Continuation
  <2>5. frame' = [Destroyed(FinalFrames(t, exc), {t}) EXCEPT ![k].status = "running",
                                                            ![k].unwinding = Rethrows(exc)]
    BY <2>4 DEF ResumeAwaiter
  <2>6. Destroyed(FinalFrames(t, exc), {t}) =
           [frame EXCEPT ![t] = [frame[t] EXCEPT !.status = "destroyed", !.exception = exc,
                                                 !.unwinding = FALSE]]
    BY <1>2 DEF Destroyed, FinalFrames, Frames
  <2>7. frame' = [[frame EXCEPT ![t] = [frame[t] EXCEPT !.status = "destroyed", !.exception = exc,
                                                 !.unwinding = FALSE]]
                   EXCEPT ![k].status = "running", ![k].unwinding = exc]
    BY <2>5, <2>6 DEF Rethrows
  <2>8. t # k
    BY <2>3 DEF Tasks
  <2>9. frame' \in [Tasks -> Frames]
    <3>1. "destroyed" \in Statuses /\ "running" \in Statuses
      BY DEF Statuses
    <3>2. /\ [frame[t] EXCEPT !.status = "destroyed", !.exception = exc, !.unwinding = FALSE]
               \in Frames
          /\ [frame[k] EXCEPT !.status = "running", !.unwinding = exc] \in Frames
      BY <1>2, <3>1, ExceptionTyped
    <3> QED
      BY <1>2, <2>7, <2>8, <3>2
  <2>10. Becomes(t, "destroyed", k, k, exc)
    BY <1>2, <2>1, <2>2, <2>7, <2>8 DEF Becomes, Status, Owner, Continuation, Exception, Frames
  <2>11. Becomes(k, "running", Owner(k), Continuation(k), Exception(k))
    BY <1>2, <2>7, <2>8 DEF Becomes, Status, Owner, Continuation, Exception, Frames
  <2>12. Others({t, k})
    BY <1>2, <2>7 DEF Others, Becomes, Status, Owner, Continuation, Exception, Frames
  <2> QED
    BY <1>1, <2>1, <2>2, <2>3, <2>4, <2>9, <2>10, <2>11, <2>12
<1>4. CASE Continuation(t) \notin Tasks
  <2>1. frame' = FinalFrames(t, exc)
    BY <1>4 DEF Finish, Continuation, ResumeWrapper
  <2>2. frame' \in [Tasks -> Frames]
    <3>1. "final" \in Statuses
      BY DEF Statuses
    <3>2. frame' = [frame EXCEPT ![t] = [frame[t] EXCEPT !.status = "final", !.exception = exc,
                                                         !.unwinding = FALSE]]
      BY <1>2, <2>1 DEF FinalFrames
    <3> QED
      BY <1>2, <3>1, <3>2, ExceptionTyped
  <2>3. Only(t, "final", Owner(t), Continuation(t), exc)
    BY <1>2, <2>1
    DEF FinalFrames, Only, Others, Becomes, Status, Owner, Continuation, Exception, Frames
  <2> QED
    BY <1>1, <1>4, <2>2, <2>3
<1> QED
  BY <1>3, <1>4

\* A task keeps its owner and its continuation; or it is handed from one that is no
\* task to another, and is continued by that one or by none.
Handed(t, o, k) ==
    \/ o = Owner(t) /\ k = Continuation(t)
    \/ o \notin Tasks /\ Owner(t) \notin Tasks /\ k \in {None, o}

\* resume() of t: it runs, with owner o and continuation k, and the frames D that it
\* held are destroyed: all of them, none running, and only if t awaits a task.
Resumed(t, D, o, k) ==
    /\ t \in Tasks /\ D \subseteq Tasks /\ t \notin D
    /\ Status(t) \in {"initial", "waiting", "awaiting"}
    /\ D # {} => Status(t) = "awaiting"
    /\ Becomes(t, "running", o, k, Exception(t))
    /\ \A u \in D : /\ Status(u) \notin {"none", "running"}
                    /\ Becomes(u, "destroyed", Owner(u), Continuation(u), Exception(u))
    /\ Others(D \cup {t})
    /\ \A u \in Tasks : Live(u) /\ Owner(u) \in D \cup {t} => u \in D

\* What resume() of t does on thread h, or that it is undefined.
Resumption(h, t, o, k) ==
    \/ /\ \E D \in SUBSET Tasks : /\ Resumed(t, D, o, k)
                                  /\ unfinished' = (unfinished \/ D # {})
       /\ Push(h, t)
       /\ ended' = ended
    \/ /\ Status(t) \notin {"initial", "waiting"}
       /\ ended' = "undefined" /\ unfinished' = unfinished /\ stack' = stack
       /\ Others({})

\* The frames that go with the await expression were created later than t, and take
\* with them whatever they hold.
LEMMA ChildrenHeld ==
  ASSUME TypeOK, TreeInv, NEW t \in Tasks
  PROVE  /\ Children(t) \subseteq Tasks
         /\ \A u \in Children(t) : t < u /\ Status(u) # "none"
         /\ Children(t) # {} => Status(t) = "awaiting"
         /\ \A u \in Tasks : Live(u) /\ Owner(u) \in Children(t) \cup {t} => u \in Children(t)
<1> DEFINE V == {v \in Tasks : frame[v].owner = t /\ Status(v) # "destroyed"}
<1>1. CASE Status(t) # "awaiting"
  <2>1. Children(t) = {}
    BY <1>1 DEF Children
  <2> QED
    BY <1>1, <2>1 DEF TreeInv
<1>2. CASE Status(t) = "awaiting"
  <2>1. Children(t) = UNION {OwnedBy(u) : u \in V}
    BY <1>2 DEF Children
  <2>2. \A v \in V : v \in Tasks /\ Owner(v) = t /\ t < v /\ Status(v) # "none"
    <3> SUFFICES ASSUME NEW v \in V PROVE t < v /\ Status(v) # "none" /\ Owner(v) = t
      OBVIOUS
    <3>1. v \in Tasks /\ Owner(v) = t
      BY DEF Owner
    <3> QED
      BY <3>1, Names DEF TreeInv
  <2> HIDE DEF V
  <2>3. \A v \in V : OwnedBy(v) \subseteq Tasks /\ v \in OwnedBy(v)
    BY <2>2, Owned
  <2>4. Children(t) \subseteq Tasks
    BY <2>1, <2>3
  <2>5. ASSUME NEW u \in Children(t) PROVE t < u /\ Status(u) # "none"
    <3>1. PICK v \in V : u \in OwnedBy(v)
      BY <2>1
    <3>2. v \in Tasks /\ t < v /\ Status(v) # "none"
      BY <2>2
    <3>3. v <= u /\ Status(u) # "none"
      BY <3>1, <3>2, Owned
    <3>4. u \in Tasks
      BY <2>4
    <3> QED
      BY <3>2, <3>3, <3>4 DEF Tasks
  <2>6. ASSUME NEW u \in Tasks, Live(u), Owner(u) \in Children(t) \cup {t}
        PROVE  u \in Children(t)
    <3>1. CASE Owner(u) = t
      <4>1. u \in V
        BY <2>6, <3>1 DEF V, Live, Owner
      <4> QED
        BY <2>1, <2>3, <4>1
    <3>2. CASE Owner(u) \in Children(t)
      <4>1. PICK v \in V : Owner(u) \in OwnedBy(v)
        BY <2>1, <3>2
      <4>2. u \in OwnedBy(v)
        BY <2>2, <4>1, Owned
      <4> QED
        BY <2>1, <4>2
    <3> QED
      BY <2>6, <3>1, <3>2
  <2> QED
    BY <1>2, <2>4, <2>5, <2>6
<1> QED
  BY <1>1, <1>2

\* The effect of resume(): only a frame that awaits, runs, is finished or is
\* destroyed can make it undefined.
LEMMA ResumeEffect ==
  ASSUME TypeOK, TreeInv, NEW h \in Threads, NEW t \in Tasks, NEW o, NEW k,
         NEW f \in [Tasks -> Frames], \A u \in Tasks \ {t} : f[u] = frame[u],
         f[t].owner = o, f[t].continuation = k, f[t].exception = Exception(t),
         Resume(h, t, f)
  PROVE  Resumption(h, t, o, k) /\ frame' \in [Tasks -> Frames]
<1>1. frame \in [Tasks -> Frames]
  BY FrameTyped
<1>2. CASE Resumable(t)
  <2>1. PICK D : D = Children(t)
    OBVIOUS
  <2>2. /\ frame' = [Destroyed(f, D) EXCEPT ![t].status = "running"]
        /\ unfinished' = (unfinished \/ D # {})
        /\ Push(h, t)
        /\ ended' = ended
    BY <1>2, <2>1 DEF Resume
  <2>3. /\ D \subseteq Tasks /\ \A u \in D : t < u /\ Status(u) # "none"
        /\ D # {} => Status(t) = "awaiting"
        /\ \A u \in Tasks : Live(u) /\ Owner(u) \in D \cup {t} => u \in D
    BY <2>1, ChildrenHeld
  <2>4. t \notin D
    BY <2>3 DEF Tasks
  <2>5. /\ Status(t) \in {"initial", "waiting", "awaiting"}
        /\ \A u \in D : Status(u) # "running"
    BY <1>2, <2>1 DEF Resumable, AnyRuns
  <2>6. frame' \in [Tasks -> Frames]
    BY <2>2 DEF Destroyed, Frames, Statuses
  <2>7. Becomes(t, "running", o, k, Exception(t))
    BY <2>2, <2>4 DEF Destroyed, Becomes, Status, Owner, Continuation, Exception, Frames
  <2>8. ASSUME NEW u \in D
        PROVE  Becomes(u, "destroyed", Owner(u), Continuation(u), Exception(u))
    <3>1. u \in Tasks /\ u # t /\ f[u] = frame[u]
      BY <2>3, <2>4
    <3>2. frame'[u] = [frame[u] EXCEPT !.status = "destroyed"]
      BY <2>2, <3>1 DEF Destroyed
    <3> QED
      BY <1>1, <3>1, <3>2 DEF Becomes, Status, Owner, Continuation, Exception, Frames
  <2>9. Others(D \cup {t})
    <3> SUFFICES ASSUME NEW u \in Tasks \ (D \cup {t})
                 PROVE  Becomes(u, Status(u), Owner(u), Continuation(u), Exception(u))
      BY DEF Others
    <3>1. frame'[u] = frame[u]
      BY <2>2 DEF Destroyed
    <3> QED
      BY <3>1 DEF Becomes, Status, Owner, Continuation, Exception
  <2>10. Resumed(t, D, o, k)
    BY <2>3, <2>4, <2>5, <2>7, <2>8, <2>9 DEF Resumed
  <2> QED
    BY <2>2, <2>3, <2>6, <2>10 DEF Resumption
<1>3. CASE ~Resumable(t)
  <2>1. frame' = frame /\ ended' = "undefined" /\ unfinished' = unfinished /\ stack' = stack
    BY <1>3 DEF Resume
  <2>2. Status(t) \notin {"initial", "waiting"}
    BY <1>3 DEF Resumable, Children, AnyRuns
  <2>3. Others({})
    BY <2>1 DEF Others, Becomes, Status, Owner, Continuation, Exception
  <2> QED
    BY <1>1, <2>1, <2>2, <2>3 DEF Resumption
<1> QED
  BY <1>2, <1>3

\* A task of user code has no continuation.
LEMMA UserTask ==
  ASSUME TypeOK, TreeInv, NEW t \in Tasks, frame[t].owner = User
  PROVE  Owner(t) = User /\ Continuation(t) = None /\ Status(t) # "none"
<1>1. Owner(t) = User
  BY DEF Owner
<1> QED
  BY <1>1, FrameTyped, Names DEF TreeInv

\* An event resumes the task as it is.
LEMMA EventFiresEffect ==
  ASSUME TypeOK, TreeInv, NEW t \in Tasks, EventFires(t)
  PROVE  Resumption("io", t, Owner(t), Continuation(t)) /\ frame' \in [Tasks -> Frames]
<1>1. Resume("io", t, frame)
  BY DEF EventFires
<1>2. "io" \in Threads
  BY DEF Threads
<1>3. PICK o, k : o = Owner(t) /\ k = Continuation(t)
  OBVIOUS
<1>4. frame[t].owner = o /\ frame[t].continuation = k /\ frame[t].exception = Exception(t)
  BY <1>3 DEF Owner, Continuation, Exception
<1> QED
  BY <1>1, <1>2, <1>3, <1>4, FrameTyped, ResumeEffect

\* detach() resumes the task, which then has no owner.
LEMMA DetachEffect ==
  ASSUME TypeOK, TreeInv, NEW h \in Threads, NEW t \in Tasks, Detach(h, t)
  PROVE  /\ Resumption(h, t, None, None) /\ frame' \in [Tasks -> Frames]
         /\ Owner(t) = User /\ Continuation(t) = None
<1>1. Owner(t) = User /\ Continuation(t) = None
  BY UserTask DEF Detach
<1> DEFINE f == [frame EXCEPT ![t].owner = None]
<1>2. Resume(h, t, f)
  BY DEF Detach, OwnerAfterDetach
<1>3. f \in [Tasks -> Frames] /\ \A u \in Tasks \ {t} : f[u] = frame[u]
  BY FrameTyped DEF Frames
<1>4. f[t].owner = None /\ f[t].continuation = None /\ f[t].exception = Exception(t)
  BY <1>1, FrameTyped DEF Frames, Continuation, Exception
<1> HIDE DEF f
<1> QED
  BY <1>1, <1>2, <1>3, <1>4, ResumeEffect

\* A turn of get()'s loop resumes the task as it is, or finds it finished.
LEMMA GetStepEffect ==
  ASSUME TypeOK, TreeInv, NEW t \in Tasks, GetStep(t)
  PROVE  /\ frame' \in [Tasks -> Frames]
         /\ \/ /\ Status(t) # "final" /\ Misuse(t)
               /\ Resumption("user", t, Owner(t), Continuation(t))
               /\ getting' = getting /\ rethrown' = rethrown
            \/ /\ Status(t) = "final" /\ Others({})
               /\ getting' = None
               /\ rethrown' = IF Exception(t) THEN rethrown \cup {t} ELSE rethrown
               /\ UNCHANGED <<stack, ended, unfinished, misused>>
<1>1. frame \in [Tasks -> Frames] /\ "user" \in Threads
  BY FrameTyped DEF Threads
<1>2. CASE Status(t) # "final"
  <2>1. Misuse(t) /\ Resume("user", t, frame) /\ getting' = getting /\ rethrown' = rethrown
    BY <1>2 DEF GetStep
  <2>2. Resumption("user", t, Owner(t), Continuation(t)) /\ frame' \in [Tasks -> Frames]
    <3>1. PICK o, k : o = Owner(t) /\ k = Continuation(t)
      OBVIOUS
    <3>2. frame[t].owner = o /\ frame[t].continuation = k /\ frame[t].exception = Exception(t)
      BY <3>1 DEF Owner, Continuation, Exception
    <3> QED
      BY <1>1, <2>1, <3>1, <3>2, ResumeEffect
  <2> QED
    BY <1>2, <2>1, <2>2
<1>3. CASE Status(t) = "final"
  <2>1. /\ getting' = None
        /\ rethrown' = IF Exception(t) THEN rethrown \cup {t} ELSE rethrown
        /\ UNCHANGED <<frame, stack, ended, unfinished, misused>>
    BY <1>3 DEF GetStep, Rethrows, Exception
  <2>2. Others({})
    BY <2>1 DEF Others, Becomes, Status, Owner, Continuation, Exception
  <2> QED
    BY <1>1, <1>3, <2>1, <2>2
<1> QED
  BY <1>2, <1>3

\* The start functor of a spawned task: its wrapper awaits it and owns it.
LEMMA StartEffect ==
  ASSUME TypeOK, TreeInv, NEW t \in Tasks, NEW f \in [Tasks -> Frames],
         \A u \in Tasks \ {t} : f[u] = frame[u],
         f[t].owner = Wrapper, f[t].exception = Exception(t), StartWrapper(t, f)
  PROVE  /\ Resumption("loop", t, Wrapper, Wrapper) /\ frame' \in [Tasks -> Frames]
         /\ spawnedTasks' = spawnedTasks \cup {t}
         /\ wrapper' = [wrapper EXCEPT ![t] = "awaiting"]
<1> DEFINE g == [f EXCEPT ![t].continuation = Wrapper]
<1>1. g \in [Tasks -> Frames] /\ \A u \in Tasks \ {t} : g[u] = frame[u]
  BY DEF Frames
<1>2. g[t].owner = Wrapper /\ g[t].continuation = Wrapper /\ g[t].exception = Exception(t)
  BY DEF Frames
<1>3. /\ Resume("loop", t, g)
      /\ spawnedTasks' = spawnedTasks \cup {t}
      /\ wrapper' = [wrapper EXCEPT ![t] = "awaiting"]
  BY DEF StartWrapper, Registered
<1>4. "loop" \in Threads
  BY DEF Threads
<1> HIDE DEF g
<1> QED
  BY <1>1, <1>2, <1>3, <1>4, ResumeEffect

\* spawn() starts the wrapper at once on the loop's thread, and queues its start on
\* another one.
LEMMA SpawnEffect ==
  ASSUME TypeOK, TreeInv, NEW h \in Threads, NEW t \in Tasks, Spawn(h, t)
  PROVE  /\ frame' \in [Tasks -> Frames]
         /\ Owner(t) = User /\ Continuation(t) = None /\ Status(t) \notin {"none", "destroyed"}
         /\ getting # t
         /\ \/ /\ Resumption("loop", t, Wrapper, Wrapper)
               /\ spawnedTasks' = spawnedTasks \cup {t}
               /\ wrapper' = [wrapper EXCEPT ![t] = "awaiting"]
               /\ functors' = functors
            \/ /\ Only(t, Status(t), Wrapper, None, Exception(t))
               /\ wrapper' = [wrapper EXCEPT ![t] = "initial"]
               /\ functors' = Append(functors, <<"start", t>>)
               /\ UNCHANGED <<spawnedTasks, stack, ended, unfinished>>
<1>1. /\ Owner(t) = User /\ Continuation(t) = None /\ Status(t) \notin {"none", "destroyed"}
      /\ getting # t
  BY UserTask DEF Spawn
<1> DEFINE f == [frame EXCEPT ![t].owner = Wrapper]
<1>2. f \in [Tasks -> Frames] /\ \A u \in Tasks \ {t} : f[u] = frame[u]
  BY FrameTyped DEF Frames
<1>3. /\ f[t].owner = Wrapper /\ f[t].exception = Exception(t) /\ f[t].status = Status(t)
      /\ f[t].continuation = None
  BY <1>1, FrameTyped DEF Frames, Exception, Status, Continuation
<1>4. \/ StartWrapper(t, f) /\ functors' = functors
      \/ /\ frame' = f
         /\ wrapper' = [wrapper EXCEPT ![t] = "initial"]
         /\ functors' = Append(functors, <<"start", t>>)
         /\ UNCHANGED <<spawnedTasks, stack, ended, unfinished>>
  BY DEF Spawn
<1> HIDE DEF f
<1>5. CASE StartWrapper(t, f) /\ functors' = functors
  BY <1>1, <1>2, <1>3, <1>5, StartEffect
<1>6. CASE /\ frame' = f
           /\ wrapper' = [wrapper EXCEPT ![t] = "initial"]
           /\ functors' = Append(functors, <<"start", t>>)
           /\ UNCHANGED <<spawnedTasks, stack, ended, unfinished>>
  <2>1. Only(t, Status(t), Wrapper, None, Exception(t))
    BY <1>2, <1>3, <1>6 DEF Only, Others, Becomes, Status, Owner, Continuation, Exception
  <2> QED
    BY <1>1, <1>2, <1>6, <2>1
<1> QED
  BY <1>4, <1>5, <1>6

\* The next functor starts a wrapper that has not begun, or destroys a finished one
\* and with it the frame of its task.
LEMMA RunFunctorEffect ==
  ASSUME TypeOK, TreeInv, FunctorInv, WrapperInv, RunFunctor
  PROVE  /\ frame' \in [Tasks -> Frames]
         /\ \E t \in Tasks :
              \/ /\ functors[1] = <<"start", t>>
                 /\ wrapper[t] = "initial" /\ Owner(t) = Wrapper
                 /\ Resumption("loop", t, Wrapper, Wrapper)
                 /\ spawnedTasks' = spawnedTasks \cup {t}
                 /\ wrapper' = [wrapper EXCEPT ![t] = "awaiting"]
              \/ /\ functors[1] = <<"cleanup", t>>
                 /\ wrapper[t] = "final" /\ Status(t) \in {"final", "destroyed"}
                 /\ Only(t, "destroyed", Owner(t), Continuation(t), Exception(t))
                 /\ spawnedTasks' = spawnedTasks \ {t}
                 /\ wrapper' = [wrapper EXCEPT ![t] = "destroyed"]
                 /\ UNCHANGED <<stack, ended, unfinished>>
<1>1. functors \in Seq({"start", "cleanup"} \X Tasks) /\ functors # <<>>
  BY DEF TypeOK, RunFunctor
<1>2. 1 \in 1..Len(functors) /\ functors[1] \in {"start", "cleanup"} \X Tasks
  BY <1>1, EmptySeq, LenProperties
<1>3. Head(functors) = functors[1]
  BY <1>1
<1>4. PICK t \in Tasks : functors[1] = <<"start", t>> \/ functors[1] = <<"cleanup", t>>
  BY <1>2
<1>5. CASE functors[1] = <<"start", t>>
  <2>1. functors[1][1] = "start" /\ functors[1][2] = t
    BY <1>5
  <2>2. wrapper[t] = "initial" /\ Owner(t) = Wrapper
    BY <1>2, <2>1 DEF FunctorInv, WrapperInv, WrapperOf
  <2>3. StartWrapper(t, frame)
    BY <1>3, <2>1 DEF RunFunctor
  <2>4. frame \in [Tasks -> Frames] /\ frame[t].owner = Wrapper
    BY <2>2, FrameTyped DEF Owner
  <2> QED
    BY <1>5, <2>2, <2>3, <2>4, StartEffect DEF Exception
<1>6. CASE functors[1] = <<"cleanup", t>>
  <2>1. functors[1][1] = "cleanup" /\ functors[1][2] = t
    BY <1>6
  <2>2. wrapper[t] = "final"
    BY <1>2, <2>1 DEF FunctorInv
  <2>3. t \in spawnedTasks /\ Status(t) \in {"final", "destroyed"}
    BY <2>2 DEF WrapperInv, WrapperOf
  <2>4. CleanupSpawnedTask(t)
    BY <1>3, <2>1 DEF RunFunctor
  <2> QED
    BY <1>6, <2>2, <2>3, <2>4, DestroyEffect DEF CleanupSpawnedTask
<1> QED
  BY <1>4, <1>5, <1>6

-----------------------------------------------------------------------------
(* TreeInv.                                                                 *)

\* A step that leaves the frames alone.
LEMMA TreeSame ==
  ASSUME TypeOK, TreeInv, Others({}) PROVE TreeInv'
<1>1. \A u \in Tasks : /\ Status(u)' = Status(u) /\ Owner(u)' = Owner(u)
                       /\ Continuation(u)' = Continuation(u) /\ Live(u)' = Live(u)
  BY DEF Others, Becomes, Live
<1> QED
  BY <1>1, FrameTyped DEF TreeInv

\* A step of one frame that neither begins nor ends to await a task.
LEMMA TreeOnly ==
  ASSUME TypeOK, TreeInv, NEW t \in Tasks, NEW s, NEW o, NEW k, NEW x,
         Only(t, s, o, k, x), Handed(t, o, k),
         Status(t) # "awaiting", s \notin {"none", "awaiting"},
         Status(t) = "destroyed" => s = "destroyed",
         \A v \in Tasks : v < t => Status(v) # "none"
  PROVE  TreeInv'
<1>1. Status(t)' = s /\ Owner(t)' = o /\ Continuation(t)' = k /\ (Live(t)' <=> s # "destroyed")
  BY DEF Only, Becomes, Live
<1>2. \A u \in Tasks \ {t} : /\ Status(u)' = Status(u) /\ Owner(u)' = Owner(u)
                             /\ Continuation(u)' = Continuation(u) /\ (Live(u)' <=> Live(u))
  BY DEF Only, Others, Becomes, Live
<1>3. \A u \in Tasks : (Status(u) = "none")' => Owner(u)' = None /\ Continuation(u)' = None
  BY <1>1, <1>2 DEF TreeInv
<1>4. \A u, v \in Tasks : Status(u)' # "none" /\ v < u => Status(v)' # "none"
  BY <1>1, <1>2 DEF TreeInv
<1>5. \A u \in Tasks : Owner(u)' \in Tasks => Owner(u)' < u
  BY <1>1, <1>2 DEF TreeInv, Handed
<1>6. o \in Tasks /\ s # "destroyed" => Live(t) /\ o = Owner(t) /\ k = Continuation(t) /\ o # t
  BY Names DEF TreeInv, Handed, Live, Tasks
<1>7. \A u \in Tasks : Live(u) /\ Owner(u) \in Tasks => Owner(u) # t
  BY DEF TreeInv
<1>8. \A u \in Tasks : Live(u)' /\ Owner(u)' \in Tasks =>
          /\ Owner(u)' = Owner(u) /\ Owner(u) # t /\ Live(u)
          /\ Continuation(u)' = Continuation(u)
  BY <1>1, <1>2, <1>6, <1>7
<1>9. \A u \in Tasks : Live(u)' /\ Owner(u)' \in Tasks =>
          Status(Owner(u))' = "awaiting" /\ Continuation(u)' = Owner(u)'
  <2> SUFFICES ASSUME NEW u \in Tasks, Live(u)', Owner(u)' \in Tasks
               PROVE  Status(Owner(u))' = "awaiting" /\ Continuation(u)' = Owner(u)'
    OBVIOUS
  <2>1. PICK w \in Tasks : Owner(u)' = w
    OBVIOUS
  <2>2. Owner(u) = w /\ w # t /\ Live(u) /\ Continuation(u)' = Continuation(u)
    BY <1>8, <2>1
  <2>3. Status(w)' = "awaiting" /\ Continuation(u)' = w
    BY <1>2, <2>2 DEF TreeInv
  <2>4. Status(Owner(u))' = Status(w)'
    BY <2>1 DEF Status
  <2> QED
    BY <2>1, <2>3, <2>4
<1>10. \A u \in Tasks : Continuation(u)' # None => Owner(u)' = Continuation(u)'
  BY <1>1, <1>2 DEF TreeInv, Handed
<1>11. \A u, v \in Tasks :
          Live(u)' /\ Live(v)' /\ Owner(u)' \in Tasks /\ Owner(v)' = Owner(u)' => u = v
  BY <1>8 DEF TreeInv
<1> QED
  BY <1>3, <1>4, <1>5, <1>9, <1>10, <1>11 DEF TreeInv

\* co_await f().
LEMMA TreeAwait ==
  ASSUME TypeOK, TreeInv, NEW t \in Tasks, NEW n \in Tasks,
         Status(t) = "running", Status(n) = "none", t < n,
         \A v \in Tasks : v < n => Status(v) # "none",
         Becomes(t, "awaiting", Owner(t), Continuation(t), Exception(t)),
         Becomes(n, "running", t, t, FALSE),
         Others({t, n})
  PROVE  TreeInv'
<1>1. /\ Status(t)' = "awaiting" /\ Owner(t)' = Owner(t) /\ Continuation(t)' = Continuation(t)
      /\ Live(t)' /\ Live(t)
  BY DEF Becomes, Live
<1>2. Status(n)' = "running" /\ Owner(n)' = t /\ Continuation(n)' = t /\ Live(n)' /\ ~Live(n)
  BY DEF Becomes, Live
<1>3. \A u \in Tasks \ {t, n} : /\ Status(u)' = Status(u) /\ Owner(u)' = Owner(u)
                                /\ Continuation(u)' = Continuation(u) /\ (Live(u)' <=> Live(u))
  BY DEF Others, Becomes, Live
<1>4. \A u \in Tasks : (Status(u) = "none")' => Owner(u)' = None /\ Continuation(u)' = None
  BY <1>1, <1>2, <1>3 DEF TreeInv
<1>5. \A u, v \in Tasks : Status(u)' # "none" /\ v < u => Status(v)' # "none"
  BY <1>1, <1>2, <1>3 DEF TreeInv
<1>6. \A u \in Tasks : Owner(u)' \in Tasks => Owner(u)' < u
  BY <1>1, <1>2, <1>3 DEF TreeInv
<1>7. \A u \in Tasks : Live(u) /\ Owner(u) \in Tasks => Owner(u) # t /\ Owner(u) # n
  BY DEF TreeInv
<1>8. \A u \in Tasks : Live(u)' /\ Owner(u)' \in Tasks =>
          \/ u = n /\ Owner(u)' = t
          \/ /\ Live(u) /\ Owner(u)' = Owner(u) /\ Owner(u) # t /\ Owner(u) # n
             /\ Continuation(u)' = Continuation(u)
  BY <1>1, <1>2, <1>3, <1>7
<1>9. \A u \in Tasks : Live(u)' /\ Owner(u)' \in Tasks =>
          Status(Owner(u))' = "awaiting" /\ Continuation(u)' = Owner(u)'
  <2> SUFFICES ASSUME NEW u \in Tasks, Live(u)', Owner(u)' \in Tasks
               PROVE  Status(Owner(u))' = "awaiting" /\ Continuation(u)' = Owner(u)'
    OBVIOUS
  <2>1. PICK w \in Tasks : Owner(u)' = w
    OBVIOUS
  <2>2. Status(w)' = "awaiting" /\ Continuation(u)' = w
    BY <1>1, <1>2, <1>3, <1>8, <2>1 DEF TreeInv
  <2>3. Status(Owner(u))' = Status(w)'
    BY <2>1 DEF Status
  <2> QED
    BY <2>1, <2>2, <2>3
<1>10. \A u \in Tasks : Continuation(u)' # None => Owner(u)' = Continuation(u)'
  BY <1>1, <1>2, <1>3 DEF TreeInv
<1>11. \A u, v \in Tasks :
          Live(u)' /\ Live(v)' /\ Owner(u)' \in Tasks /\ Owner(v)' = Owner(u)' => u = v
  BY <1>8 DEF TreeInv
<1> QED
  BY <1>4, <1>5, <1>6, <1>9, <1>10, <1>11 DEF TreeInv

\* A task goes on after the task n that it awaits, the only frame it holds.
LEMMA TreeFinish ==
  ASSUME TypeOK, TreeInv, NEW t \in Tasks, NEW n \in Tasks, NEW x,
         Status(n) = "running", Owner(n) = t, Continuation(n) = t, t < n, Status(t) = "awaiting",
         Becomes(n, "destroyed", t, t, x),
         Becomes(t, "running", Owner(t), Continuation(t), Exception(t)),
         Others({n, t})
  PROVE  TreeInv'
<1>1. /\ Status(t)' = "running" /\ Owner(t)' = Owner(t) /\ Continuation(t)' = Continuation(t)
      /\ Live(t)' /\ Live(t)
  BY DEF Becomes, Live
<1>2. Status(n)' = "destroyed" /\ Owner(n)' = t /\ Continuation(n)' = t /\ ~Live(n)' /\ Live(n)
  BY DEF Becomes, Live
<1>3. \A u \in Tasks \ {t, n} : /\ Status(u)' = Status(u) /\ Owner(u)' = Owner(u)
                                /\ Continuation(u)' = Continuation(u) /\ (Live(u)' <=> Live(u))
  BY DEF Others, Becomes, Live
<1>4. \A u \in Tasks : (Status(u) = "none")' => Owner(u)' = None /\ Continuation(u)' = None
  BY <1>1, <1>2, <1>3 DEF TreeInv
<1>5. \A u, v \in Tasks : Status(u)' # "none" /\ v < u => Status(v)' # "none"
  BY <1>1, <1>2, <1>3 DEF TreeInv
<1>6. \A u \in Tasks : Owner(u)' \in Tasks => Owner(u)' < u
  BY <1>1, <1>2, <1>3 DEF TreeInv
<1>7. \A u \in Tasks : Live(u) /\ Owner(u) \in Tasks =>
          Owner(u) # n /\ (u # n => Owner(u) # t)
  BY <1>2 DEF TreeInv
<1>8. \A u \in Tasks : Live(u)' /\ Owner(u)' \in Tasks =>
          /\ Live(u) /\ Owner(u)' = Owner(u) /\ Owner(u) # t /\ Owner(u) # n
          /\ Continuation(u)' = Continuation(u)
  BY <1>1, <1>2, <1>3, <1>7
<1>9. \A u \in Tasks : Live(u)' /\ Owner(u)' \in Tasks =>
          Status(Owner(u))' = "awaiting" /\ Continuation(u)' = Owner(u)'
  <2> SUFFICES ASSUME NEW u \in Tasks, Live(u)', Owner(u)' \in Tasks
               PROVE  Status(Owner(u))' = "awaiting" /\ Continuation(u)' = Owner(u)'
    OBVIOUS
  <2>1. PICK w \in Tasks : Owner(u)' = w
    OBVIOUS
  <2>2. Status(w)' = "awaiting" /\ Continuation(u)' = w
    BY <1>3, <1>8, <2>1 DEF TreeInv
  <2>3. Status(Owner(u))' = Status(w)'
    BY <2>1 DEF Status
  <2> QED
    BY <2>1, <2>2, <2>3
<1>10. \A u \in Tasks : Continuation(u)' # None => Owner(u)' = Continuation(u)'
  BY <1>1, <1>2, <1>3 DEF TreeInv
<1>11. \A u, v \in Tasks :
          Live(u)' /\ Live(v)' /\ Owner(u)' \in Tasks /\ Owner(v)' = Owner(u)' => u = v
  BY <1>8 DEF TreeInv
<1> QED
  BY <1>4, <1>5, <1>6, <1>9, <1>10, <1>11 DEF TreeInv

\* resume() leaves the frame it runs with none that it holds.
LEMMA TreeResumed ==
  ASSUME TypeOK, TreeInv, NEW t \in Tasks, NEW D \in SUBSET Tasks, NEW o, NEW k,
         Resumed(t, D, o, k), Handed(t, o, k)
  PROVE  TreeInv'
<1>1. /\ Status(t)' = "running" /\ Owner(t)' = o /\ Continuation(t)' = k /\ Live(t)' /\ Live(t)
      /\ t \notin D
  BY DEF Resumed, Becomes, Live
<1>2. \A u \in D : /\ Status(u)' = "destroyed" /\ ~Live(u)' /\ Status(u) # "none"
                   /\ Owner(u)' = Owner(u) /\ Continuation(u)' = Continuation(u)
  BY DEF Resumed, Becomes, Live
<1>3. \A u \in Tasks \ (D \cup {t}) :
          /\ Status(u)' = Status(u) /\ Owner(u)' = Owner(u)
          /\ Continuation(u)' = Continuation(u) /\ (Live(u)' <=> Live(u))
  BY DEF Resumed, Others, Becomes, Live
<1>4. \A u \in Tasks : (Status(u) = "none")' => Owner(u)' = None /\ Continuation(u)' = None
  BY <1>1, <1>2, <1>3 DEF TreeInv
<1>5. \A u, v \in Tasks : Status(u)' # "none" /\ v < u => Status(v)' # "none"
  <2>1. \A u \in Tasks : Status(u)' = "none" <=> Status(u) = "none"
    BY <1>1, <1>2, <1>3 DEF Resumed
  <2> QED
    BY <2>1 DEF TreeInv
<1>6. \A u \in Tasks : Owner(u)' \in Tasks => Owner(u)' < u
  BY <1>1, <1>2, <1>3 DEF TreeInv, Handed
<1>7. \A u \in Tasks \ D : Live(u) /\ Owner(u) \in Tasks => Owner(u) \notin D \cup {t}
  BY DEF Resumed
<1>8. \A u \in Tasks : Live(u)' /\ Owner(u)' \in Tasks =>
          /\ u \notin D /\ Live(u) /\ Owner(u)' = Owner(u) /\ Owner(u) \notin D \cup {t}
          /\ Continuation(u)' = Continuation(u)
  BY <1>1, <1>2, <1>3, <1>7 DEF Handed
<1>9. \A u \in Tasks : Live(u)' /\ Owner(u)' \in Tasks =>
          Status(Owner(u))' = "awaiting" /\ Continuation(u)' = Owner(u)'
  <2> SUFFICES ASSUME NEW u \in Tasks, Live(u)', Owner(u)' \in Tasks
               PROVE  Status(Owner(u))' = "awaiting" /\ Continuation(u)' = Owner(u)'
    OBVIOUS
  <2>1. PICK w \in Tasks : Owner(u)' = w
    OBVIOUS
  <2>2. Status(w)' = "awaiting" /\ Continuation(u)' = w
    BY <1>3, <1>8, <2>1 DEF TreeInv
  <2>3. Status(Owner(u))' = Status(w)'
    BY <2>1 DEF Status
  <2> QED
    BY <2>1, <2>2, <2>3
<1>10. \A u \in Tasks : Continuation(u)' # None => Owner(u)' = Continuation(u)'
  BY <1>1, <1>2, <1>3 DEF TreeInv, Handed
<1>11. \A u, v \in Tasks :
          Live(u)' /\ Live(v)' /\ Owner(u)' \in Tasks /\ Owner(v)' = Owner(u)' => u = v
  BY <1>8 DEF TreeInv
<1> QED
  BY <1>4, <1>5, <1>6, <1>9, <1>10, <1>11 DEF TreeInv

\* Whatever resume() does.
LEMMA TreeResumption ==
  ASSUME TypeOK, TreeInv, NEW h, NEW t \in Tasks, NEW o, NEW k,
         Resumption(h, t, o, k), Handed(t, o, k)
  PROVE  TreeInv'
BY TreeResumed, TreeSame DEF Resumption

\* Every step keeps TreeInv.
LEMMA TreeKept ==
  FrameInv /\ [Next]_vars => TreeInv'
<1> SUFFICES ASSUME FrameInv, [Next]_vars PROVE TreeInv'
  OBVIOUS
<1>1. TypeOK /\ TreeInv /\ StackInv /\ FunctorInv /\ WrapperInv /\ UserInv /\ ProtocolInv
  BY DEF FrameInv
<1>2. ASSUME NEW h \in Threads, NEW t \in Tasks, NEW u \in Tasks, AwaitTask(h, t, u) PROVE TreeInv'
  BY <1>1, <1>2, AwaitTaskEffect, TreeAwait
<1>3. ASSUME NEW h \in Threads, NEW t \in Tasks, AwaitEvent(h, t) PROVE TreeInv'
  <2>1. PICK o, k, x : o = Owner(t) /\ k = Continuation(t) /\ x = Exception(t)
    OBVIOUS
  <2>2. Only(t, "waiting", o, k, x) /\ Status(t) = "running"
    BY <1>1, <1>3, <2>1, AwaitEventEffect
  <2>3. Handed(t, o, k)
    BY <2>1 DEF Handed
  <2> QED
    BY <1>1, <2>2, <2>3, TreeOnly DEF TreeInv
<1>4. ASSUME NEW h \in Threads, NEW t \in Tasks, Catch(h, t) PROVE TreeInv'
  BY <1>1, <1>4, CatchEffect, TreeSame
<1>5. ASSUME NEW h \in Threads, NEW t \in Tasks, NEW exc \in BOOLEAN, Finish(h, t, exc)
      PROVE  TreeInv'
  <2>1. CASE /\ Continuation(t) \notin Tasks
             /\ Only(t, "final", Owner(t), Continuation(t), exc)
    <3>1. PICK o, k : o = Owner(t) /\ k = Continuation(t)
      OBVIOUS
    <3>2. Only(t, "final", o, k, exc) /\ Status(t) = "running"
      BY <1>1, <1>5, <2>1, <3>1, FinishEffect
    <3>3. Handed(t, o, k)
      BY <3>1 DEF Handed
    <3> QED
      BY <1>1, <3>2, <3>3, TreeOnly DEF TreeInv
  <2>2. CASE \E k \in Tasks :
                 /\ Owner(t) = k /\ Continuation(t) = k /\ k < t /\ Status(k) = "awaiting"
                 /\ ResumeAwaiter(h, t, k, exc)
                 /\ Becomes(t, "destroyed", k, k, exc)
                 /\ Becomes(k, "running", Owner(k), Continuation(k), Exception(k))
                 /\ Others({t, k})
    <3>1. Status(t) = "running"
      BY <1>1, <1>5, FinishEffect
    <3> QED
      BY <1>1, <2>2, <3>1, TreeFinish
  <2> QED
    BY <1>1, <1>5, <2>1, <2>2, FinishEffect
<1>6. ASSUME NEW h \in Threads, NEW t \in Tasks, Create(h, t) PROVE TreeInv'
  <2>1. /\ Only(t, "initial", User, None, FALSE) /\ Status(t) = "none"
        /\ \A v \in Tasks : v < t => Status(v) # "none"
    BY <1>1, <1>6, CreateEffect
  <2>2. Handed(t, User, None)
    BY <1>1, <2>1, Names DEF Handed, TreeInv
  <2>3. PICK x : x = FALSE
    OBVIOUS
  <2>4. Only(t, "initial", User, None, x)
    BY <2>1, <2>3
  <2> QED
    BY <1>1, <2>1, <2>2, <2>4, TreeOnly
<1>7. ASSUME NEW h \in Threads, NEW t \in Tasks, Drop(h, t) PROVE TreeInv'
  <2>1. PICK o, k, x : o = Owner(t) /\ k = Continuation(t) /\ x = Exception(t)
    OBVIOUS
  <2>2. Only(t, "destroyed", o, k, x) /\ Status(t) \in {"initial", "final"}
    BY <1>1, <1>7, <2>1, DropEffect
  <2>3. Handed(t, o, k)
    BY <2>1 DEF Handed
  <2> QED
    BY <1>1, <2>2, <2>3, TreeOnly DEF TreeInv
<1>8. ASSUME NEW h \in Threads, NEW t \in Tasks, Detach(h, t) PROVE TreeInv'
  <2>1. Resumption(h, t, None, None) /\ Owner(t) = User
    BY <1>1, <1>8, DetachEffect
  <2>2. Handed(t, None, None)
    BY <2>1, Names DEF Handed
  <2> QED
    BY <1>1, <2>1, <2>2, TreeResumption
<1>9. ASSUME NEW h \in Threads, NEW t \in Tasks, Spawn(h, t) PROVE TreeInv'
  <2>1. Owner(t) = User /\ Status(t) \notin {"none", "destroyed", "awaiting"}
    BY <1>1, <1>9, SpawnEffect DEF UserInv, UserOf, Active
  <2>2. Handed(t, Wrapper, Wrapper) /\ Handed(t, Wrapper, None)
    BY <2>1, Names DEF Handed
  <2>3. PICK s, x : s = Status(t) /\ x = Exception(t)
    OBVIOUS
  <2>4. Resumption("loop", t, Wrapper, Wrapper) \/ Only(t, s, Wrapper, None, x)
    BY <1>1, <1>9, <2>3, SpawnEffect
  <2> QED
    BY <1>1, <2>1, <2>2, <2>3, <2>4, TreeResumption, TreeOnly DEF TreeInv
<1>10. ASSUME NEW t \in Tasks, EventFires(t) PROVE TreeInv'
  <2>1. PICK o, k : o = Owner(t) /\ k = Continuation(t)
    OBVIOUS
  <2>2. Resumption("io", t, o, k)
    BY <1>1, <1>10, <2>1, EventFiresEffect
  <2>3. Handed(t, o, k)
    BY <2>1 DEF Handed
  <2> QED
    BY <1>1, <2>2, <2>3, TreeResumption
<1>11. ASSUME NEW t \in Tasks, Get(t) PROVE TreeInv'
  <2>1. Others({})
    BY <1>11 DEF Get, Others, Becomes, Status, Owner, Continuation, Exception
  <2> QED
    BY <1>1, <2>1, TreeSame
<1>12. ASSUME NEW t \in Tasks, GetStep(t) PROVE TreeInv'
  <2>1. PICK o, k : o = Owner(t) /\ k = Continuation(t)
    OBVIOUS
  <2>2. Resumption("user", t, o, k) \/ Others({})
    BY <1>1, <1>12, <2>1, GetStepEffect
  <2>3. Handed(t, o, k)
    BY <2>1 DEF Handed
  <2> QED
    BY <1>1, <2>2, <2>3, TreeResumption, TreeSame
<1>13. CASE RunFunctor
  <2>1. PICK t \in Tasks :
            \/ Owner(t) = Wrapper /\ Resumption("loop", t, Wrapper, Wrapper)
            \/ /\ Status(t) \in {"final", "destroyed"}
               /\ Only(t, "destroyed", Owner(t), Continuation(t), Exception(t))
    BY <1>1, <1>13, RunFunctorEffect
  <2>2. PICK o, k, x : o = Owner(t) /\ k = Continuation(t) /\ x = Exception(t)
    OBVIOUS
  <2>3. Handed(t, o, k)
    BY <2>2 DEF Handed
  <2>4. CASE Owner(t) = Wrapper /\ Resumption("loop", t, Wrapper, Wrapper)
    <3>1. Handed(t, Wrapper, Wrapper)
      BY <2>4, Names DEF Handed
    <3> QED
      BY <1>1, <2>4, <3>1, TreeResumption
  <2>5. CASE /\ Status(t) \in {"final", "destroyed"}
             /\ Only(t, "destroyed", o, k, x)
    BY <1>1, <2>3, <2>5, TreeOnly DEF TreeInv
  <2> QED
    BY <2>1, <2>2, <2>4, <2>5
<1>14. CASE Quit
  <2>1. Others({})
    BY <1>14 DEF Quit, Others, Becomes, Status, Owner, Continuation, Exception
  <2> QED
    BY <1>1, <2>1, TreeSame
<1>15. CASE UNCHANGED vars
  <2>1. Others({})
    BY <1>15 DEF vars, Others, Becomes, Status, Owner, Continuation, Exception
  <2> QED
    BY <1>1, <2>1, TreeSame
<1> QED
  BY <1>2, <1>3, <1>4, <1>5, <1>6, <1>7, <1>8, <1>9, <1>10, <1>11, <1>12, <1>13,
     <1>14, <1>15
  DEF Next, CoroutineStep, UserStep

-----------------------------------------------------------------------------
(* StackInv.                                                                *)

\* The frames outside of T run if they ran.
RunAsBefore(T) == \A u \in Tasks \ T : Status(u)' = "running" <=> Status(u) = "running"

\* StackInv, read off a state in which each place of a stack has its coroutine.
LEMMA StackFromPlaces ==
  ASSUME \A h \in Threads : \A i \in 1..Len(stack[h])' :
             \E t \in Tasks : stack[h][i]' = t /\ Status(t)' = "running",
         \A t \in Tasks : Status(t)' = "running" =>
             \E h \in Threads : \E i \in 1..Len(stack[h])' : stack[h][i]' = t,
         \A h, g \in Threads : \A i \in 1..Len(stack[h])', j \in 1..Len(stack[g])' :
             stack[h][i]' = stack[g][j]' => h = g /\ i = j
  PROVE  StackInv'
<1>1. ASSUME NEW h \in Threads, NEW i \in 1..Len(stack[h])'
      PROVE  Status(stack[h][i])' = "running"
  <2>1. PICK t \in Tasks : stack[h][i]' = t /\ Status(t)' = "running"
    BY <1>1
  <2>2. Status(stack[h][i])' = Status(t)'
    BY <2>1 DEF Status
  <2> QED
    BY <2>1, <2>2
<1> QED
  BY <1>1 DEF StackInv

\* A step that neither starts nor stops a coroutine.
LEMMA StackSame ==
  ASSUME TypeOK, StackInv, ended = "no", stack' = stack, RunAsBefore({})
  PROVE  StackInv'
<1>1. \A h \in Threads : stack[h] \in Seq(Tasks)
  BY DEF TypeOK
<1>2. \A h \in Threads : \A i \in 1..Len(stack[h]) : stack[h][i] \in Tasks
  BY <1>1, ElementOfSeq
<1>3. \A h \in Threads : \A i \in 1..Len(stack[h])' :
         \E t \in Tasks : stack[h][i]' = t /\ Status(t)' = "running"
  BY <1>2 DEF StackInv, RunAsBefore
<1>4. \A t \in Tasks : Status(t)' = "running" =>
         \E h \in Threads : \E i \in 1..Len(stack[h])' : stack[h][i]' = t
  BY DEF StackInv, RunAsBefore
<1>5. \A h, g \in Threads : \A i \in 1..Len(stack[h])', j \in 1..Len(stack[g])' :
         stack[h][i]' = stack[g][j]' => h = g /\ i = j
  BY DEF StackInv
<1> QED
  BY <1>3, <1>4, <1>5, StackFromPlaces

\* A suspended frame is resumed in a new resume() call.
LEMMA StackPushed ==
  ASSUME TypeOK, StackInv, ended = "no", NEW h \in Threads, NEW t \in Tasks, Push(h, t),
         Status(t) # "running", Status(t)' = "running", RunAsBefore({t})
  PROVE  StackInv'
<1>1. \A g \in Threads : stack[g] \in Seq(Tasks)
  BY DEF TypeOK
<1>2. \A g \in Threads : \A i \in 1..Len(stack[g]) :
         stack[g][i] \in Tasks /\ Status(stack[g][i]) = "running"
  BY <1>1, ElementOfSeq DEF StackInv
<1>3. stack' = [stack EXCEPT ![h] = Append(stack[h], t)]
  BY DEF Push
<1>4. \A g \in Threads \ {h} : stack'[g] = stack[g]
  BY <1>3 DEF TypeOK
<1>5. PICK n \in Nat : n = Len(stack[h])
  BY <1>1, LenProperties
<1>6. stack'[h] = Append(stack[h], t)
  BY <1>3 DEF TypeOK
<1>7. /\ Len(stack'[h]) = n + 1 /\ stack'[h][n + 1] = t
      /\ \A i \in 1..n : stack'[h][i] = stack[h][i]
  BY <1>1, <1>5, <1>6, AppendProperties
<1>8. \A g \in Threads : \A i \in 1..Len(stack'[g]) :
          \/ g = h /\ i = n + 1 /\ stack'[g][i] = t
          \/ /\ i \in 1..Len(stack[g]) /\ stack'[g][i] = stack[g][i]
             /\ stack[g][i] \in Tasks /\ stack[g][i] # t
  BY <1>2, <1>4, <1>5, <1>7
<1>9. \A g \in Threads : \A i \in 1..Len(stack'[g]) :
          \E u \in Tasks : stack'[g][i] = u /\ Status(u)' = "running"
  BY <1>2, <1>8 DEF RunAsBefore
<1>10. ASSUME NEW u \in Tasks, Status(u)' = "running"
       PROVE  \E g \in Threads : \E i \in 1..Len(stack'[g]) : stack'[g][i] = u
  <2>1. CASE u = t
    BY <1>5, <1>7, <2>1
  <2>2. CASE u # t
    <3>1. PICK g \in Threads : \E i \in 1..Len(stack[g]) : stack[g][i] = u
      BY <1>10, <2>2 DEF StackInv, RunAsBefore
    <3>2. PICK i \in 1..Len(stack[g]) : stack[g][i] = u
      BY <3>1
    <3>3. i \in 1..Len(stack'[g]) /\ stack'[g][i] = u
      BY <1>4, <1>5, <1>7, <3>2
    <3> QED
      BY <3>3
  <2> QED
    BY <2>1, <2>2
<1>11. \A f, g \in Threads : \A i \in 1..Len(stack'[f]), j \in 1..Len(stack'[g]) :
          stack'[f][i] = stack'[g][j] => f = g /\ i = j
  BY <1>8 DEF StackInv
<1> QED
  BY <1>9, <1>10, <1>11, StackFromPlaces

\* A coroutine suspends or finishes, and its resume() returns.
LEMMA StackPopped ==
  ASSUME TypeOK, StackInv, ended = "no", NEW h \in Threads, NEW t \in Tasks,
         Runs(h, t), Pop(h), Status(t)' # "running", RunAsBefore({t})
  PROVE  StackInv'
<1>1. \A g \in Threads : stack[g] \in Seq(Tasks)
  BY DEF TypeOK
<1>2. \A g \in Threads : \A i \in 1..Len(stack[g]) :
         stack[g][i] \in Tasks /\ Status(stack[g][i]) = "running"
  BY <1>1, ElementOfSeq DEF StackInv
<1>3. stack' = [stack EXCEPT ![h] = Front(stack[h])]
  BY DEF Pop
<1>4. \A g \in Threads \ {h} : stack'[g] = stack[g]
  BY <1>3 DEF TypeOK
<1>5. PICK n \in Nat : n = Len(stack[h]) /\ n > 0 /\ stack[h][n] = t
  BY TopRuns
<1>6. stack'[h] = Front(stack[h])
  BY <1>3 DEF TypeOK
<1>7. Len(stack'[h]) = n - 1 /\ \A i \in 1..(n - 1) : stack'[h][i] = stack[h][i]
  BY <1>1, <1>5, <1>6 DEF Front
<1>8. \A g \in Threads : \A i \in 1..Len(stack'[g]) :
          /\ i \in 1..Len(stack[g]) /\ stack'[g][i] = stack[g][i]
          /\ stack[g][i] \in Tasks /\ stack[g][i] # t
  <2> SUFFICES ASSUME NEW g \in Threads, NEW i \in 1..Len(stack'[g])
               PROVE  /\ i \in 1..Len(stack[g]) /\ stack'[g][i] = stack[g][i]
                      /\ stack[g][i] \in Tasks /\ stack[g][i] # t
    OBVIOUS
  <2>1. i \in 1..Len(stack[g]) /\ stack'[g][i] = stack[g][i] /\ (g = h => i # n)
    BY <1>4, <1>5, <1>7
  <2> QED
    BY <1>2, <1>5, <2>1 DEF StackInv
<1>9. \A g \in Threads : \A i \in 1..Len(stack'[g]) :
          \E u \in Tasks : stack'[g][i] = u /\ Status(u)' = "running"
  BY <1>2, <1>8 DEF RunAsBefore
<1>10. ASSUME NEW u \in Tasks, Status(u)' = "running"
       PROVE  \E g \in Threads : \E i \in 1..Len(stack'[g]) : stack'[g][i] = u
  <2>1. PICK g \in Threads : \E i \in 1..Len(stack[g]) : stack[g][i] = u
    BY <1>10 DEF StackInv, RunAsBefore
  <2>2. PICK i \in 1..Len(stack[g]) : stack[g][i] = u
    BY <2>1
  <2>3. i \in 1..Len(stack'[g]) /\ stack'[g][i] = u
    BY <1>4, <1>5, <1>7, <1>10, <2>2
  <2> QED
    BY <2>3
<1>11. \A f, g \in Threads : \A i \in 1..Len(stack'[f]), j \in 1..Len(stack'[g]) :
          stack'[f][i] = stack'[g][j] => f = g /\ i = j
  BY <1>8 DEF StackInv
<1> QED
  BY <1>9, <1>10, <1>11, StackFromPlaces

\* A coroutine that suspends or finishes transfers to another one.
LEMMA StackTransferred ==
  ASSUME TypeOK, StackInv, ended = "no", NEW h \in Threads, NEW t \in Tasks, NEW k \in Tasks,
         Runs(h, t), Transfer(h, k), Status(t)' # "running",
         Status(k) # "running", Status(k)' = "running", RunAsBefore({t, k})
  PROVE  StackInv'
<1>1. \A g \in Threads : stack[g] \in Seq(Tasks)
  BY DEF TypeOK
<1>2. \A g \in Threads : \A i \in 1..Len(stack[g]) :
         stack[g][i] \in Tasks /\ Status(stack[g][i]) = "running"
  BY <1>1, ElementOfSeq DEF StackInv
<1>3. stack' = [stack EXCEPT ![h] = Append(Front(stack[h]), k)]
  BY DEF Transfer
<1>4. \A g \in Threads \ {h} : stack'[g] = stack[g]
  BY <1>3 DEF TypeOK
<1>5. PICK n \in Nat : n = Len(stack[h]) /\ n > 0 /\ stack[h][n] = t
  BY TopRuns
<1>6. PICK s : s = Front(stack[h])
  OBVIOUS
<1>7. s \in Seq(Tasks) /\ Len(s) = n - 1 /\ \A i \in 1..(n - 1) : s[i] = stack[h][i]
  BY <1>1, <1>2, <1>5, <1>6 DEF Front
<1>8. stack'[h] = Append(s, k)
  BY <1>3, <1>6 DEF TypeOK
<1>9. /\ Len(stack'[h]) = n /\ stack'[h][n] = k
      /\ \A i \in 1..(n - 1) : stack'[h][i] = stack[h][i]
  BY <1>5, <1>7, <1>8, AppendProperties
<1>10. \A g \in Threads : \A i \in 1..Len(stack'[g]) :
          \/ g = h /\ i = n /\ stack'[g][i] = k
          \/ /\ i \in 1..Len(stack[g]) /\ stack'[g][i] = stack[g][i]
             /\ stack[g][i] \in Tasks \ {t, k}
  <2> SUFFICES ASSUME NEW g \in Threads, NEW i \in 1..Len(stack'[g]), ~(g = h /\ i = n)
               PROVE  /\ i \in 1..Len(stack[g]) /\ stack'[g][i] = stack[g][i]
                      /\ stack[g][i] \in Tasks \ {t, k}
    BY <1>9
  <2>1. i \in 1..Len(stack[g]) /\ stack'[g][i] = stack[g][i]
    BY <1>4, <1>5, <1>9
  <2> QED
    BY <1>2, <1>5, <2>1 DEF StackInv
<1>11. \A g \in Threads : \A i \in 1..Len(stack'[g]) :
          \E u \in Tasks : stack'[g][i] = u /\ Status(u)' = "running"
  BY <1>2, <1>10 DEF RunAsBefore
<1>12. ASSUME NEW u \in Tasks, Status(u)' = "running"
       PROVE  \E g \in Threads : \E i \in 1..Len(stack'[g]) : stack'[g][i] = u
  <2>1. CASE u = k
    BY <1>5, <1>9, <2>1
  <2>2. CASE u # k
    <3>1. PICK g \in Threads : \E i \in 1..Len(stack[g]) : stack[g][i] = u
      BY <1>12, <2>2 DEF StackInv, RunAsBefore
    <3>2. PICK i \in 1..Len(stack[g]) : stack[g][i] = u
      BY <3>1
    <3>3. i \in 1..Len(stack'[g]) /\ stack'[g][i] = u
      BY <1>4, <1>5, <1>9, <1>12, <3>2
    <3> QED
      BY <3>3
  <2> QED
    BY <2>1, <2>2
<1>13. \A f, g \in Threads : \A i \in 1..Len(stack'[f]), j \in 1..Len(stack'[g]) :
          stack'[f][i] = stack'[g][j] => f = g /\ i = j
  BY <1>10 DEF StackInv
<1> QED
  BY <1>11, <1>12, <1>13, StackFromPlaces

\* Whatever resume() does.
LEMMA StackResumption ==
  ASSUME TypeOK, StackInv, ended = "no", NEW h \in Threads, NEW t \in Tasks, NEW o, NEW k,
         Resumption(h, t, o, k)
  PROVE  StackInv'
<1>1. CASE ended' = "undefined"
  BY <1>1 DEF StackInv
<1>2. CASE (\E D \in SUBSET Tasks : Resumed(t, D, o, k)) /\ Push(h, t)
  <2>1. PICK D \in SUBSET Tasks : Resumed(t, D, o, k)
    BY <1>2
  <2>2. Status(t) # "running" /\ Status(t)' = "running"
    BY <2>1 DEF Resumed, Becomes
  <2>3. \A u \in D : Status(u) # "running" /\ Status(u)' = "destroyed"
    BY <2>1 DEF Resumed, Becomes
  <2>4. \A u \in Tasks \ (D \cup {t}) : Status(u)' = Status(u)
    BY <2>1 DEF Resumed, Others, Becomes
  <2>5. RunAsBefore({t})
    BY <2>3, <2>4 DEF RunAsBefore
  <2> QED
    BY <1>2, <2>2, <2>5, StackPushed
<1> QED
  BY <1>1, <1>2 DEF Resumption

\* Every step keeps StackInv.
LEMMA StackKept ==
  FrameInv /\ [Next]_vars => StackInv'
<1> SUFFICES ASSUME FrameInv, [Next]_vars PROVE StackInv'
  OBVIOUS
<1>1. TypeOK /\ TreeInv /\ StackInv /\ FunctorInv /\ WrapperInv /\ UserInv /\ ProtocolInv
  BY DEF FrameInv
<1>2. ASSUME NEW h \in Threads, NEW t \in Tasks, NEW u \in Tasks, AwaitTask(h, t, u) PROVE StackInv'
  <2>1. ended = "no" /\ Runs(h, t) /\ Transfer(h, u)
    BY <1>2 DEF AwaitTask, UserCode
  <2>2. /\ Status(t)' = "awaiting" /\ Status(u) = "none" /\ Status(u)' = "running"
        /\ Others({t, u})
    BY <1>1, <1>2, AwaitTaskEffect DEF Becomes
  <2>3. RunAsBefore({t, u})
    BY <2>2 DEF RunAsBefore, Others, Becomes
  <2> QED
    BY <1>1, <2>1, <2>2, <2>3, StackTransferred
<1>3. ASSUME NEW h \in Threads, NEW t \in Tasks, AwaitEvent(h, t) PROVE StackInv'
  <2>1. ended = "no" /\ Runs(h, t) /\ Pop(h)
    BY <1>3 DEF AwaitEvent, UserCode
  <2>2. Status(t)' = "waiting" /\ RunAsBefore({t})
    BY <1>1, <1>3, AwaitEventEffect DEF Only, Others, Becomes, RunAsBefore
  <2> QED
    BY <1>1, <2>1, <2>2, StackPopped
<1>4. ASSUME NEW h \in Threads, NEW t \in Tasks, Catch(h, t) PROVE StackInv'
  <2>1. ended = "no" /\ stack' = stack /\ RunAsBefore({})
    BY <1>1, <1>4, CatchEffect DEF Catch, RunAsBefore, Others, Becomes
  <2> QED
    BY <1>1, <2>1, StackSame
<1>5. ASSUME NEW h \in Threads, NEW t \in Tasks, NEW exc \in BOOLEAN, Finish(h, t, exc)
      PROVE  StackInv'
  <2>1. ended = "no" /\ Runs(h, t)
    BY <1>5 DEF Finish
  <2>2. CASE /\ Continuation(t) \notin Tasks
             /\ Only(t, "final", Owner(t), Continuation(t), exc)
    <3>1. Status(t)' = "final" /\ RunAsBefore({t})
      BY <2>2 DEF Only, Others, Becomes, RunAsBefore
    <3>2. Pop(h) \/ ended' = "terminate"
      BY <1>5, <2>2 DEF Finish, Continuation, ResumeWrapper
    <3>3. CASE ended' = "terminate"
      BY <3>3 DEF StackInv
    <3> QED
      BY <1>1, <2>1, <3>1, <3>2, <3>3, StackPopped
  <2>3. CASE \E k \in Tasks :
                 /\ Owner(t) = k /\ Continuation(t) = k /\ k < t /\ Status(k) = "awaiting"
                 /\ ResumeAwaiter(h, t, k, exc)
                 /\ Becomes(t, "destroyed", k, k, exc)
                 /\ Becomes(k, "running", Owner(k), Continuation(k), Exception(k))
                 /\ Others({t, k})
    <3>1. PICK k \in Tasks :
                 /\ Status(k) = "awaiting"
                 /\ ResumeAwaiter(h, t, k, exc)
                 /\ Status(t)' = "destroyed" /\ Status(k)' = "running"
                 /\ Others({t, k})
      BY <2>3 DEF Becomes
    <3>2. Transfer(h, k)
      BY <3>1 DEF ResumeAwaiter
    <3>3. RunAsBefore({t, k})
      BY <3>1 DEF RunAsBefore, Others, Becomes
    <3> QED
      BY <1>1, <2>1, <3>1, <3>2, <3>3, StackTransferred
  <2> QED
    BY <1>1, <1>5, <2>2, <2>3, FinishEffect
<1>6. ASSUME NEW h \in Threads, NEW t \in Tasks, Create(h, t) PROVE StackInv'
  <2>1. ended = "no" /\ stack' = stack
    BY <1>6 DEF Create, UserCode
  <2>2. RunAsBefore({})
    BY <1>1, <1>6, CreateEffect DEF Only, Others, Becomes, RunAsBefore
  <2> QED
    BY <1>1, <2>1, <2>2, StackSame
<1>7. ASSUME NEW h \in Threads, NEW t \in Tasks, Drop(h, t) PROVE StackInv'
  <2>1. ended = "no" /\ stack' = stack
    BY <1>7 DEF Drop, UserCode
  <2>2. RunAsBefore({})
    BY <1>1, <1>7, DropEffect DEF Only, Others, Becomes, RunAsBefore
  <2> QED
    BY <1>1, <2>1, <2>2, StackSame
<1>8. ASSUME NEW h \in Threads, NEW t \in Tasks, Detach(h, t) PROVE StackInv'
  <2>1. ended = "no" /\ Resumption(h, t, None, None)
    BY <1>1, <1>8, DetachEffect DEF Detach, UserCode
  <2> QED
    BY <1>1, <2>1, StackResumption
<1>9. ASSUME NEW h \in Threads, NEW t \in Tasks, Spawn(h, t) PROVE StackInv'
  <2>1. ended = "no" /\ "loop" \in Threads
    BY <1>9 DEF Spawn, UserCode, Threads
  <2>2. CASE Resumption("loop", t, Wrapper, Wrapper)
    BY <1>1, <2>1, <2>2, StackResumption
  <2>3. CASE Only(t, Status(t), Wrapper, None, Exception(t)) /\ stack' = stack
    <3>1. RunAsBefore({})
      BY <2>3 DEF Only, Others, Becomes, RunAsBefore
    <3> QED
      BY <1>1, <2>1, <2>3, <3>1, StackSame
  <2> QED
    BY <1>1, <1>9, <2>2, <2>3, SpawnEffect
<1>10. ASSUME NEW t \in Tasks, EventFires(t) PROVE StackInv'
  <2>1. PICK o, k : o = Owner(t) /\ k = Continuation(t)
    OBVIOUS
  <2>2. ended = "no" /\ "io" \in Threads /\ Resumption("io", t, o, k)
    BY <1>1, <1>10, <2>1, EventFiresEffect DEF EventFires, Threads
  <2> QED
    BY <1>1, <2>2, StackResumption
<1>11. ASSUME NEW t \in Tasks, Get(t) PROVE StackInv'
  <2>1. ended = "no" /\ stack' = stack /\ RunAsBefore({})
    BY <1>11 DEF Get, UserCode, RunAsBefore, Status
  <2> QED
    BY <1>1, <2>1, StackSame
<1>12. ASSUME NEW t \in Tasks, GetStep(t) PROVE StackInv'
  <2>1. PICK o, k : o = Owner(t) /\ k = Continuation(t)
    OBVIOUS
  <2>2. ended = "no" /\ "user" \in Threads
    BY <1>12 DEF GetStep, Threads
  <2>3. Resumption("user", t, o, k) \/ (Others({}) /\ stack' = stack)
    BY <1>1, <1>12, <2>1, GetStepEffect
  <2>4. CASE Others({}) /\ stack' = stack
    <3>1. RunAsBefore({})
      BY <2>4 DEF Others, Becomes, RunAsBefore
    <3> QED
      BY <1>1, <2>2, <2>4, <3>1, StackSame
  <2> QED
    BY <1>1, <2>2, <2>3, <2>4, StackResumption
<1>13. CASE RunFunctor
  <2>1. ended = "no" /\ "loop" \in Threads
    BY <1>13 DEF RunFunctor, Threads
  <2>2. PICK t \in Tasks :
            \/ Resumption("loop", t, Wrapper, Wrapper)
            \/ /\ Status(t) \in {"final", "destroyed"} /\ stack' = stack
               /\ Only(t, "destroyed", Owner(t), Continuation(t), Exception(t))
    BY <1>1, <1>13, RunFunctorEffect
  <2>3. CASE /\ Status(t) \in {"final", "destroyed"} /\ stack' = stack
             /\ Only(t, "destroyed", Owner(t), Continuation(t), Exception(t))
    <3>1. RunAsBefore({})
      BY <2>3 DEF Only, Others, Becomes, RunAsBefore
    <3> QED
      BY <1>1, <2>1, <2>3, <3>1, StackSame
  <2> QED
    BY <1>1, <2>1, <2>2, <2>3, StackResumption
<1>14. CASE Quit
  BY <1>14 DEF Quit, StackInv
<1>15. CASE UNCHANGED vars
  BY <1>1, <1>15 DEF vars, StackInv, Status
<1> QED
  BY <1>2, <1>3, <1>4, <1>5, <1>6, <1>7, <1>8, <1>9, <1>10, <1>11, <1>12, <1>13,
     <1>14, <1>15
  DEF Next, CoroutineStep, UserStep

-----------------------------------------------------------------------------
(* FunctorInv.                                                              *)

\* The functors have their types.
LEMMA FunctorTyped ==
  ASSUME TypeOK, NEW i \in 1..Len(functors)
  PROVE  \E e \in {"start", "cleanup"}, t \in Tasks :
             functors[i] = <<e, t>> /\ functors[i][1] = e /\ functors[i][2] = t
<1>1. functors[i] \in {"start", "cleanup"} \X Tasks
  BY ElementOfSeq DEF TypeOK
<1> QED
  BY <1>1

\* A step that queues no functor, and gives a wrapper to none but a new task.
LEMMA FunctorSame ==
  ASSUME TypeOK, FunctorInv, functors' = functors,
         \/ wrapper' = wrapper
         \/ \E t \in Tasks : wrapper[t] = "none" /\ wrapper' = [wrapper EXCEPT ![t] = "awaiting"]
  PROVE  FunctorInv'
<1>1. CASE wrapper' = wrapper
  BY <1>1 DEF FunctorInv
<1>2. ASSUME NEW t \in Tasks, wrapper[t] = "none", wrapper' = [wrapper EXCEPT ![t] = "awaiting"]
      PROVE  FunctorInv'
  <2>1. wrapper'[t] = "awaiting" /\ \A u \in Tasks \ {t} : wrapper'[u] = wrapper[u]
    BY <1>2 DEF TypeOK
  <2>2. \A i \in 1..Len(functors) : functors[i][2] \in Tasks /\ functors[i][2] # t
    BY <1>2, FunctorTyped DEF FunctorInv
  <2> QED
    BY <2>1, <2>2 DEF FunctorInv
<1> QED
  BY <1>1, <1>2

\* A functor is queued as its wrapper is made or finishes.
LEMMA FunctorQueued ==
  ASSUME TypeOK, FunctorInv, NEW t \in Tasks, NEW e \in {"start", "cleanup"},
         wrapper[t] \notin {"initial", "final"},
         functors' = Append(functors, <<e, t>>),
         wrapper' = [wrapper EXCEPT ![t] = IF e = "start" THEN "initial" ELSE "final"]
  PROVE  FunctorInv'
<1>1. PICK x \in {"start", "cleanup"} \X Tasks : x = <<e, t>> /\ x[1] = e /\ x[2] = t
  <2>1. /\ <<e, t>> \in {"start", "cleanup"} \X Tasks
        /\ <<e, t>>[1] = e /\ <<e, t>>[2] = t
    OBVIOUS
  <2> QED
    BY <2>1
<1>2. PICK n \in Nat : n = Len(functors)
  BY LenProperties DEF TypeOK
<1>3. /\ Len(functors') = n + 1 /\ functors'[n + 1] = x
      /\ \A i \in 1..n : functors'[i] = functors[i]
  <2>1. functors \in Seq({"start", "cleanup"} \X Tasks) /\ x \in {"start", "cleanup"} \X Tasks
    BY <1>1 DEF TypeOK
  <2>2. functors' = Append(functors, x)
    BY <1>1
  <2> QED
    BY <1>2, <2>1, <2>2, AppendProperties
<1>4. /\ wrapper'[t] = IF e = "start" THEN "initial" ELSE "final"
      /\ \A u \in Tasks \ {t} : wrapper'[u] = wrapper[u]
  BY DEF TypeOK
<1>5. \A i \in 1..n : functors[i][2] \in Tasks /\ functors[i][2] # t
  BY <1>2, FunctorTyped DEF FunctorInv
<1>6. \A i \in 1..Len(functors)' : i \in 1..n \/ i = n + 1
  BY <1>3
<1>7. \A i \in 1..Len(functors)' :
         wrapper'[functors'[i][2]] = IF functors'[i][1] = "start" THEN "initial" ELSE "final"
  <2> SUFFICES ASSUME NEW i \in 1..Len(functors)'
               PROVE  wrapper'[functors'[i][2]] =
                          IF functors'[i][1] = "start" THEN "initial" ELSE "final"
    OBVIOUS
  <2>1. CASE i = n + 1
    BY <1>1, <1>3, <1>4, <2>1
  <2>2. CASE i \in 1..n
    BY <1>2, <1>3, <1>4, <1>5, <2>2 DEF FunctorInv
  <2> QED
    BY <1>6, <2>1, <2>2
<1>8. ASSUME NEW u \in Tasks, NEW f \in {"start", "cleanup"},
             wrapper'[u] = IF f = "start" THEN "initial" ELSE "final"
      PROVE  \E i \in 1..Len(functors') : functors'[i] = <<f, u>>
  <2>1. CASE u = t
    BY <1>1, <1>3, <1>4, <1>8, <2>1
  <2>2. CASE u # t
    <3>1. PICK i \in 1..n : functors[i] = <<f, u>>
      <4>1. wrapper[u] = IF f = "start" THEN "initial" ELSE "final"
        BY <1>4, <1>8, <2>2
      <4>2. CASE f = "start"
        BY <1>2, <4>1, <4>2 DEF FunctorInv
      <4>3. CASE f = "cleanup"
        BY <1>2, <4>1, <4>3 DEF FunctorInv
      <4> QED
        BY <4>2, <4>3
    <3> QED
      BY <1>3, <3>1
  <2> QED
    BY <2>1, <2>2
<1>9. \A i, j \in 1..Len(functors') : functors'[i] = functors'[j] => i = j
  <2>1. \A i \in 1..n : functors[i] # x
    BY <1>1, <1>5
  <2> QED
    BY <1>2, <1>3, <1>6, <2>1 DEF FunctorInv
<1> QED
  BY <1>7, <1>8, <1>9 DEF FunctorInv

\* The next functor is the only one of its wrapper.
LEMMA FunctorRun ==
  ASSUME TypeOK, FunctorInv, NEW t \in Tasks, NEW e \in {"start", "cleanup"},
         NEW w \in {"awaiting", "destroyed"},
         functors # <<>>, functors[1] = <<e, t>>, functors' = Tail(functors),
         wrapper' = [wrapper EXCEPT ![t] = w]
  PROVE  FunctorInv'
<1>1. functors \in Seq({"start", "cleanup"} \X Tasks)
  BY DEF TypeOK
<1>2. PICK n \in Nat : n = Len(functors) /\ n > 0
  BY <1>1, EmptySeq, LenProperties
<1>3. Len(functors') = n - 1 /\ \A i \in 1..(n - 1) : functors'[i] = functors[i + 1]
  BY <1>1, <1>2, HeadTailProperties
<1>4. /\ wrapper'[t] = w /\ w \notin {"initial", "final"}
      /\ \A u \in Tasks \ {t} : wrapper'[u] = wrapper[u]
  BY DEF TypeOK
<1>5. functors[1][1] = e /\ functors[1][2] = t
  OBVIOUS
<1>6. \A i \in 2..n : functors[i][2] \in Tasks /\ functors[i][2] # t
  <2> SUFFICES ASSUME NEW i \in 2..n PROVE functors[i][2] \in Tasks /\ functors[i][2] # t
    OBVIOUS
  <2>1. i \in 1..n /\ i # 1 /\ 1 \in 1..n
    OBVIOUS
  <2>2. PICK f \in {"start", "cleanup"}, u \in Tasks :
            functors[i] = <<f, u>> /\ functors[i][1] = f /\ functors[i][2] = u
    BY <1>2, <2>1, FunctorTyped
  <2>3. u = t => f = e
    BY <1>2, <1>5, <2>1, <2>2 DEF FunctorInv
  <2>4. u # t
    BY <1>2, <2>1, <2>2, <2>3 DEF FunctorInv
  <2> QED
    BY <2>2, <2>4
<1>7. \A i \in 1..Len(functors') :
          i + 1 \in 2..n /\ i + 1 \in 1..n /\ functors'[i] = functors[i + 1]
  BY <1>2, <1>3
<1>8. \A i \in 1..Len(functors') :
         wrapper'[functors'[i][2]] = IF functors'[i][1] = "start" THEN "initial" ELSE "final"
  BY <1>2, <1>4, <1>6, <1>7 DEF FunctorInv
<1>9. ASSUME NEW u \in Tasks, NEW f \in {"start", "cleanup"},
             wrapper'[u] = IF f = "start" THEN "initial" ELSE "final"
      PROVE  \E i \in 1..Len(functors') : functors'[i] = <<f, u>>
  <2>1. u # t
    BY <1>4, <1>9
  <2>2. PICK i \in 1..n : functors[i] = <<f, u>>
    <3>1. wrapper[u] = IF f = "start" THEN "initial" ELSE "final"
      BY <1>4, <1>9, <2>1
    <3>2. CASE f = "start"
      BY <1>2, <3>1, <3>2 DEF FunctorInv
    <3>3. CASE f = "cleanup"
      BY <1>2, <3>1, <3>3 DEF FunctorInv
    <3> QED
      BY <3>2, <3>3
  <2>3. i # 1
    BY <1>5, <2>1, <2>2
  <2>4. i - 1 \in 1..Len(functors') /\ functors'[i - 1] = <<f, u>>
    BY <1>2, <1>3, <2>2, <2>3
  <2> QED
    BY <2>4
<1>10. \A i, j \in 1..Len(functors') : functors'[i] = functors'[j] => i = j
  BY <1>2, <1>7 DEF FunctorInv
<1> QED
  BY <1>8, <1>9, <1>10 DEF FunctorInv

\* Every step keeps FunctorInv.
LEMMA FunctorKept ==
  FrameInv /\ [Next]_vars => FunctorInv'
<1> SUFFICES ASSUME FrameInv, [Next]_vars PROVE FunctorInv'
  OBVIOUS
<1>1. TypeOK /\ TreeInv /\ StackInv /\ FunctorInv /\ WrapperInv /\ UserInv /\ ProtocolInv
  BY DEF FrameInv
<1>2. ASSUME NEW h \in Threads, NEW t \in Tasks, NEW u \in Tasks, AwaitTask(h, t, u)
      PROVE  FunctorInv'
  BY <1>1, <1>2, FunctorSame DEF AwaitTask
<1>3. ASSUME NEW h \in Threads, NEW t \in Tasks, AwaitEvent(h, t) PROVE FunctorInv'
  BY <1>1, <1>3, FunctorSame DEF AwaitEvent
<1>4. ASSUME NEW h \in Threads, NEW t \in Tasks, Catch(h, t) PROVE FunctorInv'
  BY <1>1, <1>4, FunctorSame DEF Catch
<1>5. ASSUME NEW h \in Threads, NEW t \in Tasks, NEW exc \in BOOLEAN, Finish(h, t, exc)
      PROVE  FunctorInv'
  <2>1. CASE functors' = functors /\ wrapper' = wrapper
    BY <1>1, <2>1, FunctorSame
  <2>2. CASE /\ Continuation(t) = Wrapper
             /\ wrapper' = [wrapper EXCEPT ![t] = "final"]
             /\ functors' = Append(functors, <<"cleanup", t>>)
    <3>1. Status(t) = "running"
      BY <1>1, <1>5, FinishEffect
    <3>2. wrapper[t] = "awaiting"
      BY <1>1, <2>2, <3>1 DEF WrapperInv, WrapperOf, Active
    <3>3. PICK e \in {"start", "cleanup"} : e = "cleanup"
      OBVIOUS
    <3>4. /\ wrapper' = [wrapper EXCEPT ![t] = IF e = "start" THEN "initial" ELSE "final"]
          /\ functors' = Append(functors, <<e, t>>)
      BY <2>2, <3>3
    <3> QED
      BY <1>1, <3>2, <3>4, FunctorQueued
  <2> QED
    BY <1>5, <2>1, <2>2
    DEF Finish, Continuation, ResumeAwaiter, ResumeWrapper, CleanupQueued
<1>6. ASSUME NEW h \in Threads, NEW t \in Tasks, Create(h, t) PROVE FunctorInv'
  BY <1>1, <1>6, FunctorSame DEF Create
<1>7. ASSUME NEW h \in Threads, NEW t \in Tasks, Drop(h, t) PROVE FunctorInv'
  BY <1>1, <1>7, FunctorSame DEF Drop
<1>8. ASSUME NEW h \in Threads, NEW t \in Tasks, Detach(h, t) PROVE FunctorInv'
  BY <1>1, <1>8, FunctorSame DEF Detach
<1>9. ASSUME NEW h \in Threads, NEW t \in Tasks, Spawn(h, t) PROVE FunctorInv'
  <2>1. Owner(t) = User /\ ended = "no"
    BY <1>1, <1>9, SpawnEffect DEF Spawn, UserCode
  <2>2. wrapper[t] = "none"
    BY <1>1, <2>1 DEF WrapperInv, WrapperOf
  <2>3. CASE functors' = functors /\ wrapper' = [wrapper EXCEPT ![t] = "awaiting"]
    BY <1>1, <2>2, <2>3, FunctorSame
  <2>4. CASE /\ wrapper' = [wrapper EXCEPT ![t] = "initial"]
             /\ functors' = Append(functors, <<"start", t>>)
    <3>1. PICK e \in {"start", "cleanup"} : e = "start"
      OBVIOUS
    <3>2. /\ wrapper' = [wrapper EXCEPT ![t] = IF e = "start" THEN "initial" ELSE "final"]
          /\ functors' = Append(functors, <<e, t>>)
      BY <2>4, <3>1
    <3> QED
      BY <1>1, <2>2, <3>2, FunctorQueued
  <2> QED
    BY <1>1, <1>9, <2>3, <2>4, SpawnEffect
<1>10. ASSUME NEW t \in Tasks, EventFires(t) PROVE FunctorInv'
  BY <1>1, <1>10, FunctorSame DEF EventFires
<1>11. ASSUME NEW t \in Tasks, Get(t) PROVE FunctorInv'
  BY <1>1, <1>11, FunctorSame DEF Get
<1>12. ASSUME NEW t \in Tasks, GetStep(t) PROVE FunctorInv'
  BY <1>1, <1>12, FunctorSame DEF GetStep
<1>13. CASE RunFunctor
  <2>1. functors # <<>> /\ functors' = Tail(functors)
    BY <1>13 DEF RunFunctor
  <2>2. \E t \in Tasks, e \in {"start", "cleanup"}, w \in {"awaiting", "destroyed"} :
           functors[1] = <<e, t>> /\ wrapper' = [wrapper EXCEPT ![t] = w]
    BY <1>1, <1>13, RunFunctorEffect
  <2> QED
    BY <1>1, <2>1, <2>2, FunctorRun
<1>14. CASE Quit
  BY <1>1, <1>14, FunctorSame DEF Quit
<1>15. CASE UNCHANGED vars
  BY <1>1, <1>15, FunctorSame DEF vars
<1> QED
  BY <1>2, <1>3, <1>4, <1>5, <1>6, <1>7, <1>8, <1>9, <1>10, <1>11, <1>12, <1>13,
     <1>14, <1>15
  DEF Next, CoroutineStep, UserStep

-----------------------------------------------------------------------------
(* WrapperInv.                                                              *)

\* A step that a wrapper of u does not notice.
UnnoticedBy(u) ==
    /\ Live(u)' /\ Owner(u)' = Wrapper => Live(u) /\ Owner(u) = Wrapper
    /\ Owner(u)' \in {None, User} => Owner(u) \in {None, User}
    /\ Owner(u) = Wrapper => Owner(u)' = Wrapper
    /\ Active(u)' /\ Continuation(u)' = Wrapper => Active(u) /\ Continuation(u) = Wrapper
    /\ Status(u) \in {"final", "destroyed"} => Status(u)' \in {"final", "destroyed"}

\* A frame that a step leaves alone, suspends, ends or destroys.
LEMMA Unnoticed ==
  ASSUME NEW u \in Tasks, Owner(u)' = Owner(u), Continuation(u)' = Continuation(u),
         Live(u)' => Live(u), Active(u)' => Active(u),
         Status(u) \in {"final", "destroyed"} => Status(u)' \in {"final", "destroyed"}
  PROVE  UnnoticedBy(u)
BY DEF UnnoticedBy

\* A frame that a step leaves alone.
LEMMA OthersUnnoticed ==
  ASSUME NEW T, Others(T) PROVE \A u \in Tasks \ T : UnnoticedBy(u)
BY DEF Others, Becomes, UnnoticedBy, Live, Active

\* A wrapper keeps its part of the invariant.
LEMMA WrapperOfKept ==
  ASSUME NEW u \in Tasks, WrapperOf(u), UnnoticedBy(u), wrapper'[u] = wrapper[u],
         u \in spawnedTasks => u \in spawnedTasks', ended = "undefined" => ended' = "undefined"
  PROVE  WrapperOf(u)'
<1>1. wrapper'[u] \in {"awaiting", "final"} => u \in spawnedTasks'
  BY DEF WrapperOf
<1>2. Live(u)' /\ Owner(u)' = Wrapper => wrapper'[u] \in {"initial", "awaiting", "final"}
  BY DEF WrapperOf, UnnoticedBy
<1>3. ended' # "undefined" => (Owner(u)' \in {None, User} => wrapper'[u] = "none")
  BY DEF WrapperOf, UnnoticedBy
<1>4. wrapper'[u] = "initial" => Owner(u)' = Wrapper
  BY DEF WrapperOf, UnnoticedBy
<1>5. Active(u)' /\ Continuation(u)' = Wrapper => wrapper'[u] = "awaiting"
  BY DEF WrapperOf, UnnoticedBy
<1>6. wrapper'[u] = "final" => Status(u)' \in {"final", "destroyed"}
  BY DEF WrapperOf, UnnoticedBy
<1> QED
  BY <1>1, <1>2, <1>3, <1>4, <1>5, <1>6 DEF WrapperOf

\* A step that moves no wrapper.
LEMMA WrapperSame ==
  ASSUME WrapperInv, wrapper' = wrapper, spawnedTasks' = spawnedTasks,
         ended = "undefined" => ended' = "undefined", \A u \in Tasks : UnnoticedBy(u)
  PROVE  WrapperInv'
<1>1. ASSUME NEW u \in Tasks PROVE WrapperOf(u)'
  BY WrapperOfKept DEF WrapperInv
<1> QED
  BY <1>1 DEF WrapperInv

\* resume() is noticed by the wrapper of t only, and by that one only if t has not
\* begun or is handed to it.
LEMMA ResumptionUnnoticed ==
  ASSUME NEW h, NEW t \in Tasks, NEW o, NEW k, Resumption(h, t, o, k), ended = "no"
  PROVE  /\ \A u \in Tasks \ {t} : UnnoticedBy(u)
         /\ o = Owner(t) /\ k = Continuation(t) /\ (Active(t) \/ k # Wrapper) => UnnoticedBy(t)
         /\ o = None /\ Owner(t) = User /\ k # Wrapper => UnnoticedBy(t)
<1>1. CASE Others({})
  <2>1. \A u \in Tasks : UnnoticedBy(u)
    BY <1>1, OthersUnnoticed
  <2> QED
    BY <2>1
<1>2. CASE \E D \in SUBSET Tasks : Resumed(t, D, o, k)
  <2>1. PICK D \in SUBSET Tasks : Resumed(t, D, o, k)
    BY <1>2
  <2>2. \A u \in D : UnnoticedBy(u)
    BY <2>1, Unnoticed DEF Resumed, Becomes, Live, Active
  <2>3. \A u \in Tasks \ (D \cup {t}) : UnnoticedBy(u)
    BY <2>1, OthersUnnoticed DEF Resumed
  <2>4. /\ Owner(t)' = o /\ Continuation(t)' = k /\ Live(t) /\ Live(t)'
        /\ Status(t) \notin {"final", "destroyed"}
    BY <2>1 DEF Resumed, Becomes, Live
  <2>5. o = Owner(t) /\ k = Continuation(t) /\ (Active(t) \/ k # Wrapper) => UnnoticedBy(t)
    BY <2>4 DEF UnnoticedBy
  <2>6. o = None /\ Owner(t) = User /\ k # Wrapper => UnnoticedBy(t)
    BY <2>4, Names DEF UnnoticedBy
  <2> QED
    BY <2>2, <2>3, <2>5, <2>6
<1> QED
  BY <1>1, <1>2 DEF Resumption

\* The wrapper of t starts.
LEMMA WrapperStarts ==
  ASSUME TypeOK, WrapperInv, NEW t \in Tasks, Resumption("loop", t, Wrapper, Wrapper),
         ended = "no", spawnedTasks' = spawnedTasks \cup {t},
         wrapper' = [wrapper EXCEPT ![t] = "awaiting"]
  PROVE  WrapperInv'
<1>1. wrapper'[t] = "awaiting" /\ \A u \in Tasks \ {t} : wrapper'[u] = wrapper[u]
  BY DEF TypeOK
<1>2. ASSUME NEW u \in Tasks \ {t} PROVE WrapperOf(u)'
  BY <1>1, ResumptionUnnoticed, WrapperOfKept DEF WrapperInv
<1>3. ended' # "undefined" => Owner(t)' = Wrapper
  BY DEF Resumption, Resumed, Becomes
<1>4. WrapperOf(t)'
  BY <1>1, <1>3, Names DEF WrapperOf
<1> QED
  BY <1>2, <1>4 DEF WrapperInv

\* Every step keeps WrapperInv.
LEMMA WrapperKept ==
  FrameInv /\ [Next]_vars => WrapperInv'
<1> SUFFICES ASSUME FrameInv, [Next]_vars PROVE WrapperInv'
  OBVIOUS
<1>1. TypeOK /\ TreeInv /\ StackInv /\ FunctorInv /\ WrapperInv /\ UserInv /\ ProtocolInv
  BY DEF FrameInv
<1>2. ASSUME NEW h \in Threads, NEW t \in Tasks, NEW u \in Tasks, AwaitTask(h, t, u)
      PROVE  WrapperInv'
  <2>1. /\ Becomes(t, "awaiting", Owner(t), Continuation(t), Exception(t)) /\ Others({t, u})
        /\ Status(t) = "running" /\ Status(u) = "none"
        /\ Status(u)' = "running" /\ Owner(u)' = t /\ Continuation(u)' = t
    BY <1>1, <1>2, AwaitTaskEffect DEF Becomes
  <2>2. UnnoticedBy(t)
    BY <2>1, Unnoticed DEF Becomes, Live, Active
  <2>3. UnnoticedBy(u)
    <3>1. Owner(u) = None
      BY <1>1, <2>1 DEF TreeInv
    <3> QED
      BY <2>1, <3>1, Names DEF UnnoticedBy
  <2>4. \A v \in Tasks : UnnoticedBy(v)
    BY <2>1, <2>2, <2>3, OthersUnnoticed
  <2> QED
    BY <1>1, <1>2, <2>4, WrapperSame DEF AwaitTask
<1>3. ASSUME NEW h \in Threads, NEW t \in Tasks, AwaitEvent(h, t) PROVE WrapperInv'
  <2>1. \A u \in Tasks : UnnoticedBy(u)
    BY <1>1, <1>3, AwaitEventEffect, Unnoticed, OthersUnnoticed DEF Only, Becomes, Live, Active
  <2> QED
    BY <1>1, <1>3, <2>1, WrapperSame DEF AwaitEvent, UserCode
<1>4. ASSUME NEW h \in Threads, NEW t \in Tasks, Catch(h, t) PROVE WrapperInv'
  <2>1. \A u \in Tasks : UnnoticedBy(u)
    BY <1>1, <1>4, CatchEffect, Unnoticed, OthersUnnoticed DEF Only, Becomes, Live, Active
  <2> QED
    BY <1>1, <1>4, <2>1, WrapperSame DEF Catch
<1>5. ASSUME NEW h \in Threads, NEW t \in Tasks, NEW exc \in BOOLEAN, Finish(h, t, exc)
      PROVE  WrapperInv'
  <2>1. ended = "no" /\ spawnedTasks' = spawnedTasks /\ Status(t) = "running"
    BY <1>1, <1>5, FinishEffect DEF Finish
  <2>2. CASE /\ Continuation(t) \notin Tasks
             /\ Only(t, "final", Owner(t), Continuation(t), exc)
    <3>1. \A u \in Tasks : UnnoticedBy(u)
      BY <2>1, <2>2, Unnoticed, OthersUnnoticed DEF Only, Becomes, Live, Active
    <3>2. CASE wrapper' = wrapper
      BY <1>1, <2>1, <3>1, <3>2, WrapperSame
    <3>3. CASE Continuation(t) = Wrapper /\ wrapper' = [wrapper EXCEPT ![t] = "final"]
      <4>1. wrapper'[t] = "final" /\ \A u \in Tasks \ {t} : wrapper'[u] = wrapper[u]
        BY <1>1, <3>3 DEF TypeOK
      <4>2. ASSUME NEW u \in Tasks \ {t} PROVE WrapperOf(u)'
        BY <1>1, <2>1, <3>1, <4>1, WrapperOfKept DEF WrapperInv
      <4>3. Owner(t) = Wrapper /\ t \in spawnedTasks
        BY <1>1, <2>1, <3>3, Names DEF TreeInv, WrapperInv, WrapperOf, Active
      <4>4. Owner(t)' = Wrapper /\ Status(t)' = "final"
        BY <2>2, <4>3 DEF Only, Becomes
      <4>5. WrapperOf(t)'
        BY <2>1, <4>1, <4>3, <4>4, Names DEF WrapperOf, Active
      <4> QED
        BY <4>2, <4>5 DEF WrapperInv
    <3> QED
      BY <1>5, <2>2, <3>2, <3>3 DEF Finish, Continuation, ResumeWrapper
  <2>3. CASE \E k \in Tasks :
                 /\ Owner(t) = k /\ Continuation(t) = k /\ k < t /\ Status(k) = "awaiting"
                 /\ ResumeAwaiter(h, t, k, exc)
                 /\ Becomes(t, "destroyed", k, k, exc)
                 /\ Becomes(k, "running", Owner(k), Continuation(k), Exception(k))
                 /\ Others({t, k})
    <3>1. PICK k \in Tasks :
                 /\ Owner(t) = k /\ Continuation(t) = k /\ Status(k) = "awaiting"
                 /\ ResumeAwaiter(h, t, k, exc)
                 /\ Becomes(t, "destroyed", k, k, exc)
                 /\ Becomes(k, "running", Owner(k), Continuation(k), Exception(k))
                 /\ Others({t, k})
      BY <2>3
    <3>2. UnnoticedBy(t) /\ UnnoticedBy(k)
      BY <2>1, <3>1, Unnoticed DEF Becomes, Live, Active
    <3>3. \A u \in Tasks : UnnoticedBy(u)
      BY <3>1, <3>2, OthersUnnoticed
    <3>4. wrapper' = wrapper
      BY <3>1 DEF ResumeAwaiter
    <3> QED
      BY <1>1, <2>1, <3>3, <3>4, WrapperSame
  <2> QED
    BY <1>1, <1>5, <2>2, <2>3, FinishEffect
<1>6. ASSUME NEW h \in Threads, NEW t \in Tasks, Create(h, t) PROVE WrapperInv'
  <2>1. /\ Status(t) = "none" /\ Others({t})
        /\ Status(t)' = "initial" /\ Owner(t)' = User /\ Continuation(t)' = None
    BY <1>1, <1>6, CreateEffect DEF Only, Becomes
  <2>2. Owner(t) = None
    BY <1>1, <2>1 DEF TreeInv
  <2>3. UnnoticedBy(t)
    BY <2>1, <2>2, Names DEF UnnoticedBy
  <2>4. \A u \in Tasks : UnnoticedBy(u)
    BY <2>1, <2>3, OthersUnnoticed
  <2> QED
    BY <1>1, <1>6, <2>4, WrapperSame DEF Create
<1>7. ASSUME NEW h \in Threads, NEW t \in Tasks, Drop(h, t) PROVE WrapperInv'
  <2>1. \A u \in Tasks : UnnoticedBy(u)
    BY <1>1, <1>7, DropEffect, Unnoticed, OthersUnnoticed DEF Only, Becomes, Live, Active
  <2> QED
    BY <1>1, <1>7, <2>1, WrapperSame DEF Drop, UserCode
<1>8. ASSUME NEW h \in Threads, NEW t \in Tasks, Detach(h, t) PROVE WrapperInv'
  <2>1. /\ ended = "no" /\ wrapper' = wrapper /\ spawnedTasks' = spawnedTasks
        /\ Resumption(h, t, None, None) /\ Owner(t) = User
    BY <1>1, <1>8, DetachEffect DEF Detach, UserCode
  <2>2. UnnoticedBy(t) /\ \A u \in Tasks \ {t} : UnnoticedBy(u)
    BY <2>1, Names, ResumptionUnnoticed
  <2> QED
    BY <1>1, <2>1, <2>2, WrapperSame
<1>9. ASSUME NEW h \in Threads, NEW t \in Tasks, Spawn(h, t) PROVE WrapperInv'
  <2>1. /\ ended = "no" /\ Owner(t) = User /\ Continuation(t) = None
    BY <1>1, <1>9, SpawnEffect DEF Spawn, UserCode
  <2>2. CASE /\ Resumption("loop", t, Wrapper, Wrapper)
             /\ spawnedTasks' = spawnedTasks \cup {t}
             /\ wrapper' = [wrapper EXCEPT ![t] = "awaiting"]
    BY <1>1, <2>1, <2>2, WrapperStarts
  <2>3. CASE /\ Only(t, Status(t), Wrapper, None, Exception(t))
             /\ wrapper' = [wrapper EXCEPT ![t] = "initial"]
             /\ UNCHANGED <<spawnedTasks, stack, ended, unfinished>>
    <3>1. wrapper'[t] = "initial" /\ \A u \in Tasks \ {t} : wrapper'[u] = wrapper[u]
      BY <1>1, <2>3 DEF TypeOK
    <3>2. Owner(t)' = Wrapper /\ Continuation(t)' = None /\ Others({t})
      BY <2>3 DEF Only, Becomes
    <3>3. ASSUME NEW u \in Tasks \ {t} PROVE WrapperOf(u)'
      BY <1>1, <2>3, <3>1, <3>2, OthersUnnoticed, WrapperOfKept DEF WrapperInv
    <3>4. WrapperOf(t)'
      BY <3>1, <3>2, Names DEF WrapperOf
    <3> QED
      BY <3>3, <3>4 DEF WrapperInv
  <2> QED
    BY <1>1, <1>9, <2>2, <2>3, SpawnEffect
<1>10. ASSUME NEW t \in Tasks, EventFires(t) PROVE WrapperInv'
  <2>1. PICK o, k : o = Owner(t) /\ k = Continuation(t)
    OBVIOUS
  <2>2. /\ ended = "no" /\ wrapper' = wrapper /\ spawnedTasks' = spawnedTasks
        /\ Resumption("io", t, o, k)
    BY <1>1, <1>10, <2>1, EventFiresEffect DEF EventFires
  <2>3. Status(t) \notin {"none", "initial"}
    BY <1>1, <1>10 DEF EventFires, ProtocolInv, ProtocolOf
  <2>4. CASE Others({})
    <3>1. \A u \in Tasks : UnnoticedBy(u)
      BY <2>4, OthersUnnoticed
    <3> QED
      BY <1>1, <2>2, <3>1, WrapperSame
  <2>5. CASE \E D \in SUBSET Tasks : Resumed(t, D, o, k)
    <3>1. Active(t)
      BY <2>3, <2>5 DEF Resumed, Active
    <3>2. UnnoticedBy(t) /\ \A u \in Tasks \ {t} : UnnoticedBy(u)
      BY <2>1, <2>2, <3>1, ResumptionUnnoticed
    <3> QED
      BY <1>1, <2>2, <3>2, WrapperSame
  <2> QED
    BY <2>2, <2>4, <2>5 DEF Resumption
<1>11. ASSUME NEW t \in Tasks, Get(t) PROVE WrapperInv'
  <2>1. \A u \in Tasks : UnnoticedBy(u)
    BY <1>11 DEF Get, UnnoticedBy, Live, Active, Status, Owner, Continuation
  <2> QED
    BY <1>1, <1>11, <2>1, WrapperSame DEF Get
<1>12. ASSUME NEW t \in Tasks, GetStep(t) PROVE WrapperInv'
  <2>1. PICK o, k : o = Owner(t) /\ k = Continuation(t)
    OBVIOUS
  <2>2. ended = "no" /\ wrapper' = wrapper /\ spawnedTasks' = spawnedTasks /\ getting = t
    BY <1>12 DEF GetStep
  <2>3. Resumption("user", t, o, k) \/ (Others({}) /\ ended' = ended)
    BY <1>1, <1>12, <2>1, GetStepEffect
  <2>4. k = None
    BY <1>1, <2>1, <2>2, UserTask DEF UserInv, UserOf, Owner
  <2>5. CASE Others({})
    <3>1. \A u \in Tasks : UnnoticedBy(u)
      BY <2>5, OthersUnnoticed
    <3> QED
      BY <1>1, <2>2, <3>1, WrapperSame
  <2>6. CASE Resumption("user", t, o, k)
    <3>1. UnnoticedBy(t) /\ \A u \in Tasks \ {t} : UnnoticedBy(u)
      BY <2>1, <2>2, <2>4, <2>6, Names, ResumptionUnnoticed
    <3> QED
      BY <1>1, <2>2, <3>1, WrapperSame
  <2> QED
    BY <2>3, <2>5, <2>6
<1>13. CASE RunFunctor
  <2>1. ended = "no"
    BY <1>13 DEF RunFunctor
  <2>2. CASE \E t \in Tasks : /\ Resumption("loop", t, Wrapper, Wrapper)
                              /\ spawnedTasks' = spawnedTasks \cup {t}
                              /\ wrapper' = [wrapper EXCEPT ![t] = "awaiting"]
    BY <1>1, <2>1, <2>2, WrapperStarts
  <2>3. ASSUME NEW t \in Tasks, wrapper[t] = "final", Status(t) \in {"final", "destroyed"},
               Only(t, "destroyed", Owner(t), Continuation(t), Exception(t)),
               spawnedTasks' = spawnedTasks \ {t},
               wrapper' = [wrapper EXCEPT ![t] = "destroyed"], ended' = ended
        PROVE  WrapperInv'
    <3>1. wrapper'[t] = "destroyed" /\ \A u \in Tasks \ {t} : wrapper'[u] = wrapper[u]
      BY <1>1, <2>3 DEF TypeOK
    <3>2. Owner(t)' = Owner(t) /\ Status(t)' = "destroyed" /\ Others({t})
      BY <2>3 DEF Only, Becomes
    <3>3. ASSUME NEW u \in Tasks \ {t} PROVE WrapperOf(u)'
      BY <1>1, <2>3, <3>1, <3>2, OthersUnnoticed, WrapperOfKept DEF WrapperInv
    <3>4. Owner(t) \notin {None, User}
      BY <1>1, <2>1, <2>3 DEF WrapperInv, WrapperOf
    <3>5. WrapperOf(t)'
      BY <3>1, <3>2, <3>4 DEF WrapperOf, Live, Active
    <3> QED
      BY <3>3, <3>5 DEF WrapperInv
  <2> QED
    BY <1>1, <1>13, <2>2, <2>3, RunFunctorEffect
<1>14. CASE Quit
  <2>1. \A u \in Tasks : UnnoticedBy(u)
    BY <1>14 DEF Quit, UnnoticedBy, Live, Active, Status, Owner, Continuation
  <2> QED
    BY <1>1, <1>14, <2>1, WrapperSame DEF Quit
<1>15. CASE UNCHANGED vars
  <2>1. \A u \in Tasks : UnnoticedBy(u)
    BY <1>15 DEF vars, UnnoticedBy, Live, Active, Status, Owner, Continuation
  <2> QED
    BY <1>1, <1>15, <2>1, WrapperSame DEF vars
<1> QED
  BY <1>2, <1>3, <1>4, <1>5, <1>6, <1>7, <1>8, <1>9, <1>10, <1>11, <1>12, <1>13,
     <1>14, <1>15
  DEF Next, CoroutineStep, UserStep

-----------------------------------------------------------------------------
(* UserInv.                                                                 *)

\* A step that neither begins u nor ends it, nor passes it on.
Quiet(u) ==
    /\ Owner(u)' = Owner(u) /\ Continuation(u)' = Continuation(u)
    /\ Live(u)' => Live(u)
    /\ Active(u)' => Active(u)
    /\ Exception(u)' = Exception(u)

\* A frame that a step leaves alone.
LEMMA OthersQuiet ==
  ASSUME NEW T, Others(T) PROVE \A u \in Tasks \ T : Quiet(u)
BY DEF Others, Becomes, Quiet, Live, Active

\* A task that a step is quiet about keeps its part of the invariant.
LEMMA UserOfKept ==
  ASSUME NEW u \in Tasks, UserOf(u), Quiet(u), getting' = u <=> getting = u,
         u \in detached => u \in detached', u \in rethrown => u \in rethrown'
  PROVE  UserOf(u)'
BY DEF UserOf, Quiet

\* A step that is quiet about every task.
LEMMA UserSame ==
  ASSUME UserInv, getting' = getting, detached' = detached, rethrown' = rethrown,
         \A u \in Tasks : Quiet(u)
  PROVE  UserInv'
<1>1. ASSUME NEW u \in Tasks PROVE UserOf(u)'
  BY UserOfKept DEF UserInv
<1> QED
  BY <1>1 DEF UserInv

\* resume() is quiet about every task but t, and about t too if it was under way.
LEMMA ResumptionQuiet ==
  ASSUME NEW h, NEW t \in Tasks, NEW o, NEW k, Resumption(h, t, o, k)
  PROVE  /\ \A u \in Tasks \ {t} : Quiet(u)
         /\ o = Owner(t) /\ k = Continuation(t) /\ Status(t) \notin {"none", "initial"} => Quiet(t)
         /\ \/ Quiet(t)
            \/ /\ Owner(t)' = o /\ Continuation(t)' = k /\ Exception(t)' = Exception(t)
               /\ Live(t) /\ Live(t)'
<1>1. CASE Others({})
  <2>1. \A u \in Tasks : Quiet(u)
    BY <1>1, OthersQuiet
  <2> QED
    BY <2>1
<1>2. CASE \E D \in SUBSET Tasks : Resumed(t, D, o, k)
  <2>1. PICK D \in SUBSET Tasks : Resumed(t, D, o, k)
    BY <1>2
  <2>2. \A u \in D : Quiet(u)
    BY <2>1 DEF Resumed, Becomes, Quiet, Live, Active
  <2>3. \A u \in Tasks \ (D \cup {t}) : Quiet(u)
    BY <2>1, OthersQuiet DEF Resumed
  <2>4. /\ Owner(t)' = o /\ Continuation(t)' = k /\ Exception(t)' = Exception(t)
        /\ Live(t) /\ Live(t)' /\ Status(t) \in {"initial", "waiting", "awaiting"}
    BY <2>1 DEF Resumed, Becomes, Live
  <2>5. o = Owner(t) /\ k = Continuation(t) /\ Status(t) \notin {"none", "initial"} => Quiet(t)
    BY <2>4 DEF Quiet, Active
  <2> QED
    BY <2>2, <2>3, <2>4, <2>5
<1> QED
  BY <1>1, <1>2 DEF Resumption

\* The wrapper of t starts it.
LEMMA UserStarts ==
  ASSUME UserInv, NEW t \in Tasks, Resumption("loop", t, Wrapper, Wrapper), getting # t,
         getting' = getting, detached' = detached, rethrown' = rethrown
  PROVE  UserInv'
<1>1. ASSUME NEW u \in Tasks, Quiet(u) PROVE UserOf(u)'
  BY <1>1, UserOfKept DEF UserInv
<1>2. ASSUME Owner(t)' = Wrapper, Continuation(t)' = Wrapper, Exception(t)' = Exception(t)
      PROVE  UserOf(t)'
  BY <1>2, Names DEF UserInv, UserOf
<1>3. \A u \in Tasks \ {t} : Quiet(u)
  BY ResumptionQuiet
<1>4. UserOf(t)'
  BY <1>1, <1>2, ResumptionQuiet
<1> QED
  BY <1>1, <1>3, <1>4 DEF UserInv

\* Every step keeps UserInv.
LEMMA UserKept ==
  FrameInv /\ [Next]_vars => UserInv'
<1> SUFFICES ASSUME FrameInv, [Next]_vars PROVE UserInv'
  OBVIOUS
<1>1. TypeOK /\ TreeInv /\ StackInv /\ FunctorInv /\ WrapperInv /\ UserInv /\ ProtocolInv
  BY DEF FrameInv
<1>2. ASSUME NEW h \in Threads, NEW t \in Tasks, NEW u \in Tasks, AwaitTask(h, t, u) PROVE UserInv'
  <2>1. /\ Becomes(t, "awaiting", Owner(t), Continuation(t), Exception(t)) /\ Others({t, u})
        /\ Status(t) = "running" /\ Status(u) = "none"
        /\ Becomes(u, "running", t, t, FALSE)
    BY <1>1, <1>2, AwaitTaskEffect
  <2>2. getting' = getting /\ detached' = detached /\ rethrown' = rethrown
    BY <1>2 DEF AwaitTask, history
  <2>3. Quiet(t)
    BY <2>1 DEF Becomes, Quiet, Live, Active
  <2>4. UserOf(u)'
    <3>1. Owner(u) = None
      BY <1>1, <2>1 DEF TreeInv
    <3>2. getting # u
      BY <1>1, <3>1, Names DEF UserInv, UserOf
    <3>3. Owner(u)' = t /\ Continuation(u)' = t /\ ~Exception(u)'
      BY <2>1 DEF Becomes
    <3> QED
      BY <2>2, <3>2, <3>3, Names DEF UserOf
  <2>5. ASSUME NEW v \in Tasks, v # u PROVE UserOf(v)'
    BY <1>1, <2>1, <2>2, <2>3, <2>5, OthersQuiet, UserOfKept DEF UserInv
  <2> QED
    BY <2>4, <2>5 DEF UserInv
<1>3. ASSUME NEW h \in Threads, NEW t \in Tasks, AwaitEvent(h, t) PROVE UserInv'
  <2>1. Only(t, "waiting", Owner(t), Continuation(t), Exception(t)) /\ Status(t) = "running"
    BY <1>1, <1>3, AwaitEventEffect
  <2>2. Quiet(t)
    BY <2>1 DEF Only, Becomes, Quiet, Live, Active
  <2>3. \A u \in Tasks : Quiet(u)
    BY <2>1, <2>2, OthersQuiet DEF Only
  <2> QED
    BY <1>1, <1>3, <2>3, UserSame DEF AwaitEvent, history
<1>4. ASSUME NEW h \in Threads, NEW t \in Tasks, Catch(h, t) PROVE UserInv'
  <2>1. \A u \in Tasks : Quiet(u)
    BY <1>1, <1>4, CatchEffect, OthersQuiet DEF Only, Becomes, Quiet, Live, Active
  <2> QED
    BY <1>1, <1>4, <2>1, UserSame DEF Catch, history
<1>5. ASSUME NEW h \in Threads, NEW t \in Tasks, NEW exc \in BOOLEAN, Finish(h, t, exc)
      PROVE  UserInv'
  <2>1. Status(t) = "running" /\ getting' = getting /\ detached' = detached
    BY <1>1, <1>5, FinishEffect DEF Finish
  <2>2. rethrown \subseteq rethrown'
    BY <1>5 DEF Finish, ResumeAwaiter, ResumeWrapper
  <2>3. ASSUME NEW v \in Tasks, Quiet(v) PROVE UserOf(v)'
    BY <1>1, <2>1, <2>2, <2>3, UserOfKept DEF UserInv
  <2>4. CASE /\ Continuation(t) \notin Tasks
             /\ Only(t, "final", Owner(t), Continuation(t), exc)
    <3>1. /\ Owner(t)' = Owner(t) /\ ~Active(t)' /\ Live(t) /\ Exception(t)' = exc
      BY <2>1, <2>4 DEF Only, Becomes, Active, Live
    <3>2. exc => t \in rethrown' \/ t \in detached' \/ getting' = t
      <4>1. CASE Continuation(t) = None
        BY <1>1, <2>1, <4>1 DEF UserInv, UserOf, Active
      <4>2. CASE Continuation(t) = Wrapper
        BY <1>5, <4>2, Names DEF Finish, Continuation, ResumeWrapper, Rethrows
      <4> QED
        BY <1>1, <2>4, <4>1, <4>2, FrameTyped
    <3>3. UserOf(t)'
      <4>1. Exception(t)' => t \in rethrown' \/ t \in detached' \/ getting' = t
        BY <3>1, <3>2
      <4> QED
        BY <1>1, <2>1, <3>1, <4>1 DEF UserInv, UserOf
    <3> QED
      BY <2>3, <2>4, <3>3, OthersQuiet DEF UserInv, Only
  <2>5. CASE \E k \in Tasks :
                 /\ Owner(t) = k /\ Continuation(t) = k /\ k < t /\ Status(k) = "awaiting"
                 /\ ResumeAwaiter(h, t, k, exc)
                 /\ Becomes(t, "destroyed", k, k, exc)
                 /\ Becomes(k, "running", Owner(k), Continuation(k), Exception(k))
                 /\ Others({t, k})
    <3>1. PICK k \in Tasks :
                 /\ Owner(t) = k /\ Continuation(t) = k /\ Status(k) = "awaiting"
                 /\ ResumeAwaiter(h, t, k, exc)
                 /\ Becomes(t, "destroyed", k, k, exc)
                 /\ Becomes(k, "running", Owner(k), Continuation(k), Exception(k))
                 /\ Others({t, k})
      BY <2>5
    <3>2. Quiet(k)
      BY <3>1 DEF Becomes, Quiet, Live, Active
    <3>3. exc => t \in rethrown'
      BY <3>1 DEF ResumeAwaiter, Rethrows
    <3>4. Owner(t)' = Owner(t) /\ ~Active(t)' /\ ~Live(t)' /\ Exception(t)' = exc
      BY <3>1 DEF Becomes, Active, Live
    <3>5. UserOf(t)'
      <4>1. Exception(t)' => t \in rethrown'
        BY <3>3, <3>4
      <4> QED
        BY <1>1, <2>1, <3>4, <4>1 DEF UserInv, UserOf
    <3> QED
      BY <2>3, <3>1, <3>2, <3>5, OthersQuiet DEF UserInv
  <2> QED
    BY <1>1, <1>5, <2>4, <2>5, FinishEffect
<1>6. ASSUME NEW h \in Threads, NEW t \in Tasks, Create(h, t) PROVE UserInv'
  <2>1. Status(t) = "none" /\ Only(t, "initial", User, None, FALSE)
    BY <1>1, <1>6, CreateEffect
  <2>2. getting' = getting /\ detached' = detached /\ rethrown' = rethrown
    BY <1>6 DEF Create, history
  <2>3. UserOf(t)'
    <3>1. Owner(t)' = User /\ ~Active(t)' /\ ~Exception(t)'
      BY <2>1 DEF Only, Becomes, Active
    <3> QED
      BY <3>1, Names DEF UserOf
  <2>4. ASSUME NEW v \in Tasks, v # t PROVE UserOf(v)'
    BY <1>1, <2>1, <2>2, <2>4, OthersQuiet, UserOfKept DEF UserInv, Only
  <2> QED
    BY <2>3, <2>4 DEF UserInv
<1>7. ASSUME NEW h \in Threads, NEW t \in Tasks, Drop(h, t) PROVE UserInv'
  <2>1. /\ Only(t, "destroyed", Owner(t), Continuation(t), Exception(t))
        /\ Status(t) \in {"initial", "final"}
    BY <1>1, <1>7, DropEffect
  <2>2. Quiet(t)
    BY <2>1 DEF Only, Becomes, Quiet, Live, Active
  <2>3. \A u \in Tasks : Quiet(u)
    BY <2>1, <2>2, OthersQuiet DEF Only
  <2> QED
    BY <1>1, <1>7, <2>3, UserSame DEF Drop, history
<1>8. ASSUME NEW h \in Threads, NEW t \in Tasks, Detach(h, t) PROVE UserInv'
  <2>1. /\ getting' = getting /\ detached' = detached \cup {t} /\ rethrown' = rethrown
        /\ getting # t
    BY <1>8 DEF Detach
  <2>2. Resumption(h, t, None, None)
    BY <1>1, <1>8, DetachEffect
  <2>3. ASSUME NEW v \in Tasks, Quiet(v) PROVE UserOf(v)'
    BY <1>1, <2>1, <2>3, UserOfKept DEF UserInv
  <2>4. ASSUME Owner(t)' = None PROVE UserOf(t)'
    BY <2>1, <2>4, Names DEF UserOf
  <2>5. UserOf(t)'
    BY <2>2, <2>3, <2>4, ResumptionQuiet
  <2> QED
    BY <2>2, <2>3, <2>5, ResumptionQuiet DEF UserInv
<1>9. ASSUME NEW h \in Threads, NEW t \in Tasks, Spawn(h, t) PROVE UserInv'
  <2>1. getting' = getting /\ detached' = detached /\ rethrown' = rethrown
    BY <1>9 DEF Spawn
  <2>2. Owner(t) = User /\ getting # t
    BY <1>1, <1>9, SpawnEffect
  <2>3. CASE Resumption("loop", t, Wrapper, Wrapper)
    BY <1>1, <2>1, <2>2, <2>3, UserStarts
  <2>4. CASE Only(t, Status(t), Wrapper, None, Exception(t))
    <3>1. ~Active(t)
      BY <1>1, <2>2 DEF UserInv, UserOf
    <3>2. Owner(t)' = Wrapper /\ ~Active(t)' /\ Exception(t)' = Exception(t)
      BY <2>4, <3>1 DEF Only, Becomes, Active
    <3>3. UserOf(t)'
      BY <1>1, <2>1, <2>2, <3>2, Names DEF UserInv, UserOf
    <3>4. ASSUME NEW v \in Tasks, v # t PROVE UserOf(v)'
      BY <1>1, <2>1, <2>4, <3>4, OthersQuiet, UserOfKept DEF UserInv, Only
    <3> QED
      BY <3>3, <3>4 DEF UserInv
  <2> QED
    BY <1>1, <1>9, <2>3, <2>4, SpawnEffect
<1>10. ASSUME NEW t \in Tasks, EventFires(t) PROVE UserInv'
  <2>1. PICK o, k : o = Owner(t) /\ k = Continuation(t)
    OBVIOUS
  <2>2. Resumption("io", t, o, k)
    BY <1>1, <1>10, <2>1, EventFiresEffect
  <2>3. Status(t) \notin {"none", "initial"}
    BY <1>1, <1>10 DEF EventFires, ProtocolInv, ProtocolOf
  <2>4. \A u \in Tasks : Quiet(u)
    BY <2>1, <2>2, <2>3, ResumptionQuiet
  <2> QED
    BY <1>1, <1>10, <2>4, UserSame DEF EventFires
<1>11. ASSUME NEW t \in Tasks, Get(t) PROVE UserInv'
  <2>1. getting = None /\ getting' = t /\ frame' = frame
    BY <1>11 DEF Get, UserCode
  <2>2. detached' = detached /\ rethrown' = rethrown
    BY <1>11 DEF Get, history
  <2>3. UserOf(t)'
    <3>1. Owner(t)' = User
      BY <1>11, <2>1 DEF Get, Owner
    <3> QED
      BY <2>1, <3>1, Names DEF UserOf
  <2>4. ASSUME NEW v \in Tasks, v # t PROVE UserOf(v)'
    <3>1. Quiet(v)
      BY <2>1 DEF Quiet, Owner, Continuation, Exception, Live, Active, Status
    <3>2. getting # v /\ getting' # v
      BY <2>1, <2>4, Names
    <3> QED
      BY <1>1, <2>2, <3>1, <3>2, UserOfKept DEF UserInv
  <2> QED
    BY <2>3, <2>4 DEF UserInv
<1>12. ASSUME NEW t \in Tasks, GetStep(t) PROVE UserInv'
  <2>1. PICK o, k : o = Owner(t) /\ k = Continuation(t)
    OBVIOUS
  <2>2. getting = t /\ detached' = detached /\ o = User
    BY <1>1, <1>12, <2>1 DEF GetStep, UserInv, UserOf
  <2>3. CASE Resumption("user", t, o, k) /\ getting' = getting /\ rethrown' = rethrown
    <3>1. Owner(t)' = User
      BY <2>1, <2>2, <2>3, ResumptionQuiet DEF Quiet
    <3>2. UserOf(t)'
      BY <2>2, <2>3, <3>1, Names DEF UserOf
    <3>3. ASSUME NEW v \in Tasks, v # t PROVE UserOf(v)'
      BY <1>1, <2>2, <2>3, <3>3, ResumptionQuiet, UserOfKept DEF UserInv
    <3> QED
      BY <3>2, <3>3 DEF UserInv
  <2>4. CASE /\ Status(t) = "final" /\ Others({})
             /\ getting' = None
             /\ rethrown' = IF Exception(t) THEN rethrown \cup {t} ELSE rethrown
    <3>1. Owner(t)' = User /\ ~Active(t)' /\ Exception(t)' = Exception(t)
      BY <2>1, <2>2, <2>4 DEF Others, Becomes, Active
    <3>2. UserOf(t)'
      <4>1. Exception(t)' => t \in rethrown'
        BY <2>4, <3>1
      <4> QED
        BY <2>4, <3>1, <4>1, Names DEF UserOf
    <3>3. ASSUME NEW v \in Tasks, v # t PROVE UserOf(v)'
      <4>1. Quiet(v) /\ getting # v /\ getting' # v
        BY <2>2, <2>4, <3>3, OthersQuiet, Names
      <4> QED
        BY <1>1, <2>2, <2>4, <4>1, UserOfKept DEF UserInv
    <3> QED
      BY <3>2, <3>3 DEF UserInv
  <2> QED
    BY <1>1, <1>12, <2>1, <2>3, <2>4, GetStepEffect
<1>13. CASE RunFunctor
  <2>1. getting' = getting /\ detached' = detached /\ rethrown' = rethrown
    BY <1>13 DEF RunFunctor
  <2>2. ASSUME NEW t \in Tasks, Owner(t) = Wrapper, Resumption("loop", t, Wrapper, Wrapper)
        PROVE  UserInv'
    <3>1. getting # t
      BY <1>1, <2>2, Names DEF UserInv, UserOf
    <3> QED
      BY <1>1, <2>1, <2>2, <3>1, UserStarts
  <2>3. ASSUME NEW t \in Tasks, Status(t) \in {"final", "destroyed"},
               Only(t, "destroyed", Owner(t), Continuation(t), Exception(t))
        PROVE  UserInv'
    <3>1. \A u \in Tasks : Quiet(u)
      BY <2>3, OthersQuiet DEF Only, Becomes, Quiet, Live, Active
    <3> QED
      BY <1>1, <2>1, <3>1, UserSame
  <2> QED
    BY <1>1, <1>13, <2>2, <2>3, RunFunctorEffect
<1>14. CASE Quit
  <2>1. \A u \in Tasks : Quiet(u)
    BY <1>14 DEF Quit, Quiet, Live, Active, Status, Owner, Continuation, Exception
  <2> QED
    BY <1>1, <1>14, <2>1, UserSame DEF Quit, history
<1>15. CASE UNCHANGED vars
  <2>1. \A u \in Tasks : Quiet(u)
    BY <1>15 DEF vars, Quiet, Live, Active, Status, Owner, Continuation, Exception
  <2> QED
    BY <1>1, <1>15, <2>1, UserSame DEF vars, history
<1> QED
  BY <1>2, <1>3, <1>4, <1>5, <1>6, <1>7, <1>8, <1>9, <1>10, <1>11, <1>12, <1>13,
     <1>14, <1>15
  DEF Next, CoroutineStep, UserStep

-----------------------------------------------------------------------------
(* ProtocolInv.                                                             *)

\* No handle of u is given to an awaiter or taken from one.
HandlesKept(u) ==
    /\ parked'[u] = parked[u] /\ events'[u] = events[u]
    /\ misused => misused'
    /\ ended = "no"

\* A step that leaves u and its wrapper alone.
LEMMA ProtocolSame ==
  ASSUME NEW u \in Tasks, ProtocolOf(u), HandlesKept(u), Status(u)' = Status(u),
         wrapper'[u] = wrapper[u]
  PROVE  ProtocolOf(u)'
BY DEF ProtocolOf, HandlesKept

\* A step that begins or ends u, or destroys it.
LEMMA ProtocolGoes ==
  ASSUME NEW u \in Tasks, ProtocolOf(u), HandlesKept(u), Status(u)' \notin {"none", "initial"},
         ~misused' => /\ Status(u) # "waiting" /\ Status(u)' # "waiting"
                      /\ wrapper'[u] # "initial"
  PROVE  ProtocolOf(u)'
BY DEF ProtocolOf, HandlesKept

\* resume() within the protocol is defined, and takes no result from a task that has
\* none; whether it is or not, it keeps what the invariant says of the other tasks.
LEMMA ProtocolResumption ==
  ASSUME ProtocolInv, NEW h, NEW t \in Tasks, NEW o, NEW k, Resumption(h, t, o, k),
         ended = "no", misused => misused', ~misused' => Status(t) \in {"initial", "waiting"}
  PROVE  /\ ResumesAreDefined'
         /\ \A u \in Tasks \ {t} :
               HandlesKept(u) /\ wrapper'[u] = wrapper[u] => ProtocolOf(u)'
         /\ Status(t)' = "running" \/ (Status(t)' = Status(t) /\ misused')
<1>1. CASE ended' = "undefined" /\ Others({}) /\ Status(t) \notin {"initial", "waiting"}
  <2>1. misused'
    BY <1>1
  <2>2. \A u \in Tasks : Status(u)' = Status(u)
    BY <1>1 DEF Others, Becomes
  <2> QED
    BY <2>1, <2>2, ProtocolSame DEF ResumesAreDefined, ProtocolInv
<1>2. CASE /\ \E D \in SUBSET Tasks : /\ Resumed(t, D, o, k)
                                       /\ unfinished' = (unfinished \/ D # {})
           /\ ended' = ended
  <2>1. PICK D \in SUBSET Tasks : Resumed(t, D, o, k) /\ unfinished' = (unfinished \/ D # {})
    BY <1>2
  <2>2. D # {} => misused'
    BY <2>1 DEF Resumed
  <2>3. ResumesAreDefined'
    <3>1. ended' # "undefined"
      BY <1>2
    <3>2. unfinished' => misused'
      BY <2>1, <2>2 DEF ProtocolInv, ResumesAreDefined
    <3> QED
      BY <3>1, <3>2 DEF ResumesAreDefined
  <2>4. \A u \in D : Status(u)' = "destroyed"
    BY <2>1 DEF Resumed, Becomes
  <2>5. \A u \in Tasks \ (D \cup {t}) : Status(u)' = Status(u)
    BY <2>1 DEF Resumed, Others, Becomes
  <2>6. ASSUME NEW u \in Tasks \ {t}, HandlesKept(u), wrapper'[u] = wrapper[u]
        PROVE  ProtocolOf(u)'
    <3>1. CASE u \in D
      BY <2>2, <2>4, <2>6, <3>1, ProtocolGoes DEF ProtocolInv
    <3>2. CASE u \notin D
      BY <2>5, <2>6, <3>2, ProtocolSame DEF ProtocolInv
    <3> QED
      BY <3>1, <3>2
  <2>7. Status(t)' = "running"
    BY <2>1 DEF Resumed, Becomes
  <2> QED
    BY <2>3, <2>6, <2>7
<1> QED
  BY <1>1, <1>2 DEF Resumption

\* A task that is not waiting for its start has no such wrapper, unless misused.
LEMMA NotInitial ==
  ASSUME TypeOK, WrapperInv, NEW u \in Tasks, ProtocolOf(u)
  PROVE  /\ Status(u) # "initial" /\ ~misused => wrapper[u] # "initial"
         /\ Owner(u) # Wrapper => wrapper[u] # "initial"
BY DEF ProtocolOf, WrapperInv, WrapperOf

\* A task is resumed by detach(), spawn() or get().
LEMMA ProtocolStarts ==
  ASSUME ProtocolInv, NEW h, NEW t \in Tasks, NEW o, NEW k, Resumption(h, t, o, k),
         ended = "no", Misuse(t), wrapper'[t] # "initial",
         \A v \in Tasks : parked'[v] = parked[v] /\ events'[v] = events[v],
         \A v \in Tasks \ {t} : wrapper'[v] = wrapper[v]
  PROVE  ProtocolInv'
<1>1. (misused => misused') /\ (~misused' => Status(t) = "initial")
  BY DEF Misuse
<1>2. \A v \in Tasks : HandlesKept(v)
  BY <1>1 DEF HandlesKept
<1>3. /\ ResumesAreDefined'
      /\ \A u \in Tasks \ {t} : ProtocolOf(u)'
      /\ Status(t)' = "running" \/ (Status(t)' = Status(t) /\ misused')
  BY <1>1, <1>2, ProtocolResumption
<1>4. ProtocolOf(t)'
  <2>1. CASE Status(t)' = "running"
    BY <1>1, <1>2, <2>1, ProtocolGoes DEF ProtocolInv
  <2>2. CASE Status(t)' = Status(t) /\ misused'
    BY <1>2, <2>2 DEF ProtocolInv, ProtocolOf, HandlesKept
  <2> QED
    BY <1>3, <2>1, <2>2
<1> QED
  BY <1>3, <1>4 DEF ProtocolInv

\* Every step keeps ProtocolInv.
LEMMA ProtocolKept ==
  FrameInv /\ [Next]_vars => ProtocolInv'
<1> SUFFICES ASSUME FrameInv, [Next]_vars PROVE ProtocolInv'
  OBVIOUS
<1>1. TypeOK /\ TreeInv /\ StackInv /\ FunctorInv /\ WrapperInv /\ UserInv /\ ProtocolInv
  BY DEF FrameInv
<1>2. ASSUME NEW h \in Threads, NEW t \in Tasks, NEW u \in Tasks, AwaitTask(h, t, u)
      PROVE  ProtocolInv'
  <2>1. /\ \A v \in Tasks : HandlesKept(v)
        /\ wrapper' = wrapper /\ ResumesAreDefined' /\ misused' = misused
    BY <1>1, <1>2 DEF AwaitTask, UserCode, history, HandlesKept, ProtocolInv, ResumesAreDefined
  <2>2. /\ Status(t) = "running" /\ Status(t)' = "awaiting"
        /\ Status(u) = "none" /\ Status(u)' = "running"
        /\ Others({t, u})
    BY <1>1, <1>2, AwaitTaskEffect DEF Becomes
  <2>3. ProtocolOf(t)'
    BY <1>1, <2>1, <2>2, ProtocolGoes, NotInitial DEF ProtocolInv
  <2>4. ProtocolOf(u)'
    BY <1>1, <2>1, <2>2, ProtocolGoes, NotInitial DEF ProtocolInv
  <2>5. ASSUME NEW v \in Tasks \ {t, u} PROVE ProtocolOf(v)'
    BY <1>1, <2>1, <2>2, ProtocolSame DEF ProtocolInv, Others, Becomes
  <2> QED
    BY <2>1, <2>3, <2>4, <2>5 DEF ProtocolInv
<1>3. ASSUME NEW h \in Threads, NEW t \in Tasks, AwaitEvent(h, t) PROVE ProtocolInv'
  <2>1. /\ Status(t) = "running" /\ Status(t)' = "waiting"
        /\ \A v \in Tasks \ {t} : Status(v)' = Status(v)
    BY <1>1, <1>3, AwaitEventEffect DEF Only, Others, Becomes
  <2>2. /\ parked' = [parked EXCEPT ![t] = parked[t] + 1]
        /\ events' = [events EXCEPT ![t] = events[t] + 1]
        /\ ended = "no" /\ ended' = ended /\ wrapper' = wrapper
        /\ misused' = misused /\ unfinished' = unfinished
    BY <1>3 DEF AwaitEvent, UserCode, history
  <2>3. ASSUME NEW v \in Tasks \ {t} PROVE ProtocolOf(v)'
    <3>1. HandlesKept(v)
      BY <1>1, <2>2 DEF HandlesKept, TypeOK
    <3> QED
      BY <1>1, <2>1, <2>2, <3>1, ProtocolSame DEF ProtocolInv
  <2>4. ProtocolOf(t)'
    <3>1. PICK p \in Nat, e \in Nat : p = parked[t] /\ e = events[t]
      BY <1>1 DEF TypeOK
    <3>2. parked'[t] = p + 1 /\ events'[t] = e + 1
      BY <1>1, <2>2, <3>1 DEF TypeOK
    <3>3. p <= e /\ (~misused => p = 0 /\ wrapper[t] # "initial")
      BY <1>1, <2>1, <2>2, <3>1 DEF ProtocolInv, ProtocolOf
    <3> QED
      BY <2>1, <2>2, <3>2, <3>3 DEF ProtocolOf
  <2>5. ResumesAreDefined'
    BY <1>1, <2>2 DEF ProtocolInv, ResumesAreDefined
  <2> QED
    BY <2>3, <2>4, <2>5 DEF ProtocolInv
<1>4. ASSUME NEW h \in Threads, NEW t \in Tasks, Catch(h, t) PROVE ProtocolInv'
  <2>1. /\ \A v \in Tasks : HandlesKept(v)
        /\ wrapper' = wrapper /\ ResumesAreDefined' /\ misused' = misused
    BY <1>1, <1>4 DEF Catch, history, HandlesKept, ProtocolInv, ResumesAreDefined
  <2>2. \A v \in Tasks : Status(v)' = Status(v)
    BY <1>1, <1>4, CatchEffect DEF Others, Becomes
  <2> QED
    BY <1>1, <2>1, <2>2, ProtocolSame DEF ProtocolInv
<1>5. ASSUME NEW h \in Threads, NEW t \in Tasks, NEW exc \in BOOLEAN, Finish(h, t, exc)
      PROVE  ProtocolInv'
  <2>1. /\ Status(t) = "running" /\ ended = "no" /\ misused' = misused /\ unfinished' = unfinished
        /\ \A v \in Tasks : HandlesKept(v)
    BY <1>1, <1>5, FinishEffect DEF Finish, HandlesKept
  <2>2. ResumesAreDefined'
    <3>1. ended' # "undefined"
      BY <1>5 DEF Finish, ResumeAwaiter, ResumeWrapper
    <3> QED
      BY <1>1, <2>1, <3>1 DEF ProtocolInv, ResumesAreDefined
  <2>3. /\ \A v \in Tasks \ {t} : wrapper'[v] = wrapper[v]
        /\ wrapper'[t] \in {"final", wrapper[t]}
    BY <1>1, <1>5 DEF Finish, ResumeAwaiter, ResumeWrapper, TypeOK
  <2>4. CASE Only(t, "final", Owner(t), Continuation(t), exc)
    <3>1. Status(t)' = "final" /\ \A v \in Tasks \ {t} : Status(v)' = Status(v)
      BY <2>4 DEF Only, Others, Becomes
    <3>2. ProtocolOf(t)'
      BY <1>1, <2>1, <2>3, <3>1, ProtocolGoes, NotInitial DEF ProtocolInv
    <3>3. ASSUME NEW v \in Tasks \ {t} PROVE ProtocolOf(v)'
      BY <1>1, <2>1, <2>3, <3>1, ProtocolSame DEF ProtocolInv
    <3> QED
      BY <2>2, <3>2, <3>3 DEF ProtocolInv
  <2>5. CASE \E k \in Tasks :
                 /\ Owner(t) = k /\ Continuation(t) = k /\ k < t /\ Status(k) = "awaiting"
                 /\ ResumeAwaiter(h, t, k, exc)
                 /\ Becomes(t, "destroyed", k, k, exc)
                 /\ Becomes(k, "running", Owner(k), Continuation(k), Exception(k))
                 /\ Others({t, k})
    <3>1. PICK k \in Tasks : /\ Status(k) = "awaiting" /\ Status(k)' = "running"
                             /\ Status(t)' = "destroyed" /\ Others({t, k})
      BY <2>5 DEF Becomes
    <3>2. ProtocolOf(t)'
      BY <1>1, <2>1, <2>3, <3>1, ProtocolGoes, NotInitial DEF ProtocolInv
    <3>3. ProtocolOf(k)'
      BY <1>1, <2>1, <2>3, <3>1, ProtocolGoes, NotInitial DEF ProtocolInv
    <3>4. ASSUME NEW v \in Tasks \ {t, k} PROVE ProtocolOf(v)'
      BY <1>1, <2>1, <2>3, <3>1, ProtocolSame DEF ProtocolInv, Others, Becomes
    <3> QED
      BY <2>2, <3>2, <3>3, <3>4 DEF ProtocolInv
  <2> QED
    BY <1>1, <1>5, <2>4, <2>5, FinishEffect
<1>6. ASSUME NEW h \in Threads, NEW t \in Tasks, Create(h, t) PROVE ProtocolInv'
  <2>1. /\ \A v \in Tasks : HandlesKept(v)
        /\ wrapper' = wrapper /\ ResumesAreDefined' /\ misused' = misused
    BY <1>1, <1>6 DEF Create, UserCode, history, HandlesKept, ProtocolInv, ResumesAreDefined
  <2>2. /\ Status(t) = "none" /\ Status(t)' = "initial"
        /\ \A v \in Tasks \ {t} : Status(v)' = Status(v)
    BY <1>1, <1>6, CreateEffect DEF Only, Others, Becomes
  <2>3. ASSUME NEW v \in Tasks \ {t} PROVE ProtocolOf(v)'
    BY <1>1, <2>1, <2>2, ProtocolSame DEF ProtocolInv
  <2>4. ProtocolOf(t)'
    <3>1. parked'[t] = parked[t] /\ events'[t] = events[t] /\ ended = "no"
      BY <2>1 DEF HandlesKept
    <3> QED
      BY <1>1, <2>1, <2>2, <3>1 DEF ProtocolInv, ProtocolOf
  <2> QED
    BY <2>1, <2>3, <2>4 DEF ProtocolInv
<1>7. ASSUME NEW h \in Threads, NEW t \in Tasks, Drop(h, t) PROVE ProtocolInv'
  <2>1. /\ Owner(t) = User /\ Status(t) \in {"initial", "final"} /\ Status(t)' = "destroyed"
        /\ ended' = ended
        /\ \A v \in Tasks \ {t} : Status(v)' = Status(v)
    BY <1>1, <1>7, DropEffect DEF Only, Others, Becomes
  <2>2. /\ \A v \in Tasks : HandlesKept(v)
        /\ wrapper' = wrapper /\ ResumesAreDefined' /\ misused' = misused
    BY <1>1, <1>7, <2>1 DEF Drop, UserCode, history, HandlesKept, ProtocolInv, ResumesAreDefined
  <2>3. ASSUME NEW v \in Tasks \ {t} PROVE ProtocolOf(v)'
    BY <1>1, <2>1, <2>2, ProtocolSame DEF ProtocolInv
  <2>4. wrapper[t] # "initial"
    BY <1>1, <2>1, Names, NotInitial DEF ProtocolInv
  <2>5. ProtocolOf(t)'
    BY <1>1, <2>1, <2>2, <2>4, ProtocolGoes DEF ProtocolInv
  <2> QED
    BY <2>2, <2>3, <2>5 DEF ProtocolInv
<1>8. ASSUME NEW h \in Threads, NEW t \in Tasks, Detach(h, t) PROVE ProtocolInv'
  <2>1. /\ Misuse(t) /\ ended = "no" /\ wrapper' = wrapper
        /\ \A v \in Tasks : parked'[v] = parked[v] /\ events'[v] = events[v]
    BY <1>8 DEF Detach, UserCode
  <2>2. Resumption(h, t, None, None) /\ Owner(t) = User
    BY <1>1, <1>8, DetachEffect
  <2>3. wrapper'[t] # "initial"
    BY <1>1, <2>1, <2>2, Names, NotInitial DEF ProtocolInv
  <2> QED
    BY <1>1, <2>1, <2>2, <2>3, ProtocolStarts
<1>9. ASSUME NEW h \in Threads, NEW t \in Tasks, Spawn(h, t) PROVE ProtocolInv'
  <2>1. /\ Misuse(t) /\ ended = "no"
        /\ \A v \in Tasks : parked'[v] = parked[v] /\ events'[v] = events[v]
    BY <1>9 DEF Spawn, UserCode
  <2>2. CASE /\ Resumption("loop", t, Wrapper, Wrapper)
             /\ wrapper' = [wrapper EXCEPT ![t] = "awaiting"]
    <3>1. wrapper'[t] # "initial" /\ \A v \in Tasks \ {t} : wrapper'[v] = wrapper[v]
      BY <1>1, <2>2 DEF TypeOK
    <3> QED
      BY <1>1, <2>1, <2>2, <3>1, ProtocolStarts
  <2>3. CASE /\ Only(t, Status(t), Wrapper, None, Exception(t))
             /\ wrapper' = [wrapper EXCEPT ![t] = "initial"]
             /\ ended' = ended /\ unfinished' = unfinished
    <3>1. \A v \in Tasks : Status(v)' = Status(v)
      BY <2>3 DEF Only, Others, Becomes
    <3>2. (misused => misused') /\ (~misused' => Status(t) = "initial")
      BY <2>1 DEF Misuse
    <3>3. \A v \in Tasks \ {t} : wrapper'[v] = wrapper[v]
      BY <1>1, <2>3 DEF TypeOK
    <3>4. \A v \in Tasks : HandlesKept(v)
      BY <2>1, <3>2 DEF HandlesKept
    <3>5. ASSUME NEW v \in Tasks \ {t} PROVE ProtocolOf(v)'
      BY <1>1, <3>1, <3>3, <3>4, ProtocolSame DEF ProtocolInv
    <3>6. ProtocolOf(t)'
      BY <1>1, <2>1, <2>3, <3>1, <3>2 DEF ProtocolInv, ProtocolOf
    <3>7. ResumesAreDefined'
      BY <1>1, <2>3, <3>2 DEF ProtocolInv, ResumesAreDefined
    <3> QED
      BY <3>5, <3>6, <3>7 DEF ProtocolInv
  <2> QED
    BY <1>1, <1>9, <2>2, <2>3, SpawnEffect
<1>10. ASSUME NEW t \in Tasks, EventFires(t) PROVE ProtocolInv'
  <2>1. PICK o, k : o = Owner(t) /\ k = Continuation(t)
    OBVIOUS
  <2>2. Resumption("io", t, o, k)
    BY <1>1, <1>10, <2>1, EventFiresEffect
  <2>3. /\ ended = "no" /\ parked[t] > 0 /\ wrapper' = wrapper
        /\ parked' = [parked EXCEPT ![t] = parked[t] - 1]
        /\ events' = events /\ misused' = misused
    BY <1>10 DEF EventFires
  <2>4. PICK p \in Nat, e \in Nat : p = parked[t] /\ e = events[t] /\ p > 0 /\ p <= e
    BY <1>1, <2>3 DEF TypeOK, ProtocolInv, ProtocolOf
  <2>5. /\ Status(t) \notin {"none", "initial"}
        /\ ~misused => Status(t) = "waiting" /\ p = 1 /\ wrapper[t] # "initial"
    BY <1>1, <2>3, <2>4 DEF ProtocolInv, ProtocolOf
  <2>6. \A v \in Tasks \ {t} : HandlesKept(v)
    BY <1>1, <2>3 DEF HandlesKept, TypeOK
  <2>7. /\ ResumesAreDefined'
        /\ \A u \in Tasks \ {t} : ProtocolOf(u)'
        /\ Status(t)' = "running" \/ (Status(t)' = Status(t) /\ misused')
    BY <1>1, <2>2, <2>3, <2>5, <2>6, ProtocolResumption
  <2>8. ProtocolOf(t)'
    <3>1. parked'[t] = p - 1 /\ events'[t] = e /\ p - 1 <= e
      BY <1>1, <2>3, <2>4 DEF TypeOK
    <3> QED
      BY <2>3, <2>5, <2>7, <3>1 DEF ProtocolOf
  <2> QED
    BY <2>7, <2>8 DEF ProtocolInv
<1>11. ASSUME NEW t \in Tasks, Get(t) PROVE ProtocolInv'
  BY <1>1, <1>11 DEF Get, UserCode, history, ProtocolInv, ProtocolOf, ResumesAreDefined, Status
<1>12. ASSUME NEW t \in Tasks, GetStep(t) PROVE ProtocolInv'
  <2>1. PICK o, k : o = Owner(t) /\ k = Continuation(t)
    OBVIOUS
  <2>2. /\ ended = "no" /\ wrapper' = wrapper /\ getting = t
        /\ \A v \in Tasks : parked'[v] = parked[v] /\ events'[v] = events[v]
    BY <1>12 DEF GetStep
  <2>3. wrapper[t] # "initial"
    BY <1>1, <2>2, Names, NotInitial DEF ProtocolInv, UserInv, UserOf
  <2>4. CASE Misuse(t) /\ Resumption("user", t, o, k)
    BY <1>1, <2>2, <2>3, <2>4, ProtocolStarts
  <2>5. CASE Others({}) /\ UNCHANGED <<stack, ended, unfinished, misused>>
    <3>1. \A v \in Tasks : Status(v)' = Status(v) /\ HandlesKept(v)
      BY <2>2, <2>5 DEF Others, Becomes, HandlesKept
    <3>2. ResumesAreDefined'
      BY <1>1, <2>5 DEF ProtocolInv, ResumesAreDefined
    <3> QED
      BY <1>1, <2>2, <3>1, <3>2, ProtocolSame DEF ProtocolInv
  <2> QED
    BY <1>1, <1>12, <2>1, <2>4, <2>5, GetStepEffect
<1>13. CASE RunFunctor
  <2>1. /\ ended = "no" /\ misused' = misused
        /\ \A v \in Tasks : parked'[v] = parked[v] /\ events'[v] = events[v]
        /\ \A v \in Tasks : HandlesKept(v)
    BY <1>13 DEF RunFunctor, HandlesKept
  <2>2. ASSUME NEW t \in Tasks, wrapper[t] = "initial",
               Resumption("loop", t, Wrapper, Wrapper),
               wrapper' = [wrapper EXCEPT ![t] = "awaiting"]
        PROVE  ProtocolInv'
    <3>1. ~misused => Status(t) = "initial"
      BY <1>1, <2>2 DEF ProtocolInv, ProtocolOf
    <3>2. wrapper'[t] # "initial" /\ \A v \in Tasks \ {t} : wrapper'[v] = wrapper[v]
      BY <1>1, <2>2 DEF TypeOK
    <3>3. Misuse(t)
      BY <1>1, <2>1, <3>1 DEF Misuse, TypeOK
    <3> QED
      BY <1>1, <2>1, <2>2, <3>2, <3>3, ProtocolStarts
  <2>3. ASSUME NEW t \in Tasks, Status(t) \in {"final", "destroyed"},
               Only(t, "destroyed", Owner(t), Continuation(t), Exception(t)),
               wrapper' = [wrapper EXCEPT ![t] = "destroyed"],
               UNCHANGED <<stack, ended, unfinished>>
        PROVE  ProtocolInv'
    <3>1. wrapper'[t] # "initial" /\ \A v \in Tasks \ {t} : wrapper'[v] = wrapper[v]
      BY <1>1, <2>3 DEF TypeOK
    <3>2. Status(t)' = "destroyed" /\ \A v \in Tasks \ {t} : Status(v)' = Status(v)
      BY <2>3 DEF Only, Others, Becomes
    <3>3. ProtocolOf(t)'
      BY <1>1, <2>1, <2>3, <3>1, <3>2, ProtocolGoes DEF ProtocolInv
    <3>4. ASSUME NEW v \in Tasks \ {t} PROVE ProtocolOf(v)'
      BY <1>1, <2>1, <3>1, <3>2, ProtocolSame DEF ProtocolInv
    <3>5. ResumesAreDefined'
      BY <1>1, <2>1, <2>3 DEF ProtocolInv, ResumesAreDefined
    <3> QED
      BY <3>3, <3>4, <3>5 DEF ProtocolInv
  <2> QED
    BY <1>1, <1>13, <2>2, <2>3, RunFunctorEffect
<1>14. CASE Quit
  <2>1. /\ ended' = "quit" /\ wrapper' = wrapper /\ parked' = parked /\ events' = events
        /\ misused' = misused /\ unfinished' = unfinished /\ frame' = frame
    BY <1>14 DEF Quit, history
  <2> QED
    BY <1>1, <2>1 DEF ProtocolInv, ProtocolOf, ResumesAreDefined, Status
<1>15. CASE UNCHANGED vars
  BY <1>1, <1>15 DEF vars, history, ProtocolInv, ProtocolOf, ResumesAreDefined, Status
<1> QED
  BY <1>2, <1>3, <1>4, <1>5, <1>6, <1>7, <1>8, <1>9, <1>10, <1>11, <1>12, <1>13,
     <1>14, <1>15
  DEF Next, CoroutineStep, UserStep

-----------------------------------------------------------------------------
(* TypeOK.                                                                  *)

\* A resume() begins, returns or goes on in another coroutine.
LEMMA StackTyped ==
  ASSUME TypeOK, NEW h \in Threads, NEW t \in Tasks,
         Push(h, t) \/ (stack[h] # <<>> /\ (Pop(h) \/ Transfer(h, t)))
  PROVE  stack' \in [Threads -> Seq(Tasks)]
<1>1. stack \in [Threads -> Seq(Tasks)] /\ stack[h] \in Seq(Tasks)
  BY DEF TypeOK
<1>2. CASE Push(h, t)
  BY <1>1, <1>2, AppendProperties DEF Push
<1>3. CASE stack[h] # <<>> /\ (Pop(h) \/ Transfer(h, t))
  <2>1. PICK n \in Nat : n = Len(stack[h]) /\ n > 0
    BY <1>1, <1>3, EmptySeq, LenProperties
  <2>2. \A i \in 1..n : stack[h][i] \in Tasks
    BY <1>1, <2>1, ElementOfSeq
  <2>3. PICK s : s = Front(stack[h])
    OBVIOUS
  <2>4. s \in Seq(Tasks)
    BY <1>1, <2>1, <2>2, <2>3 DEF Front
  <2>5. Append(s, t) \in Seq(Tasks)
    BY <2>4, AppendProperties
  <2> QED
    BY <1>1, <1>3, <2>3, <2>4, <2>5 DEF Pop, Transfer
<1> QED
  BY <1>2, <1>3

\* The variables that resume() assigns, but for the frames.
LEMMA ResumptionTyped ==
  ASSUME TypeOK, NEW h \in Threads, NEW t \in Tasks, NEW o, NEW k, Resumption(h, t, o, k)
  PROVE  /\ stack' \in [Threads -> Seq(Tasks)] /\ unfinished' \in BOOLEAN
         /\ ended' \in {"no", "undefined", "terminate", "quit"}
<1>1. CASE stack' = stack /\ unfinished' = unfinished /\ ended' = "undefined"
  BY <1>1 DEF TypeOK
<1>2. CASE /\ \E D \in SUBSET Tasks : unfinished' = (unfinished \/ D # {})
           /\ Push(h, t) /\ ended' = ended
  <2>1. stack' \in [Threads -> Seq(Tasks)]
    BY <1>2, StackTyped
  <2>2. unfinished' \in BOOLEAN
    BY <1>2
  <2> QED
    BY <1>2, <2>1, <2>2 DEF TypeOK
<1> QED
  BY <1>1, <1>2 DEF Resumption

\* TypeOK with the set of frames by its name.
LEMMA TypeOKFromFrames ==
  ASSUME frame' \in [Tasks -> Frames], stack' \in [Threads -> Seq(Tasks)],
         wrapper' \in [Tasks -> {"none", "initial", "awaiting", "final", "destroyed"}],
         spawnedTasks' \in SUBSET Tasks,
         functors' \in Seq({"start", "cleanup"} \X Tasks),
         parked' \in [Tasks -> 0..MaxEvents], events' \in [Tasks -> 0..MaxEvents],
         getting' \in Tasks \cup {None}, ended' \in {"no", "undefined", "terminate", "quit"},
         detached' \in SUBSET Tasks, rethrown' \in SUBSET Tasks,
         unfinished' \in BOOLEAN, misused' \in BOOLEAN
  PROVE  TypeOK'
BY DEF TypeOK, Frames, Statuses

\* Every step keeps TypeOK.
LEMMA TypeKept ==
  FrameInv /\ [Next]_vars => TypeOK'
<1> SUFFICES ASSUME FrameInv, [Next]_vars PROVE TypeOK'
  OBVIOUS
<1>1. TypeOK /\ TreeInv /\ StackInv /\ FunctorInv /\ WrapperInv /\ UserInv /\ ProtocolInv
  BY DEF FrameInv
<1>2. ASSUME NEW h \in Threads, NEW t \in Tasks, NEW u \in Tasks, AwaitTask(h, t, u) PROVE TypeOK'
  <2>1. frame' \in [Tasks -> Frames]
    BY <1>1, <1>2, AwaitTaskEffect
  <2>2. stack' \in [Threads -> Seq(Tasks)]
    BY <1>1, <1>2, StackTyped DEF AwaitTask, Runs
  <2> QED
    BY <1>1, <1>2, <2>1, <2>2, TypeOKFromFrames DEF AwaitTask, history, TypeOK
<1>3. ASSUME NEW h \in Threads, NEW t \in Tasks, AwaitEvent(h, t) PROVE TypeOK'
  <2>1. frame' \in [Tasks -> Frames]
    BY <1>1, <1>3, AwaitEventEffect
  <2>2. stack' \in [Threads -> Seq(Tasks)]
    BY <1>1, <1>3, StackTyped DEF AwaitEvent, Runs
  <2>3. parked' \in [Tasks -> 0..MaxEvents] /\ events' \in [Tasks -> 0..MaxEvents]
    <3>1. PICK p \in Nat, e \in Nat : p = parked[t] /\ e = events[t]
      BY <1>1 DEF TypeOK
    <3>2. p <= e /\ e < MaxEvents
      BY <1>1, <1>3, <3>1 DEF AwaitEvent, ProtocolInv, ProtocolOf
    <3>3. p + 1 \in 0..MaxEvents /\ e + 1 \in 0..MaxEvents
      BY <3>2, TaskAssumption DEF TaskAssumption
    <3> QED
      BY <1>1, <1>3, <3>1, <3>3 DEF AwaitEvent, TypeOK
  <2> QED
    BY <1>1, <1>3, <2>1, <2>2, <2>3, TypeOKFromFrames DEF AwaitEvent, history, TypeOK
<1>4. ASSUME NEW h \in Threads, NEW t \in Tasks, Catch(h, t) PROVE TypeOK'
  <2>1. frame' \in [Tasks -> Frames]
    BY <1>1, <1>4, CatchEffect
  <2> QED
    BY <1>1, <1>4, <2>1, TypeOKFromFrames DEF Catch, history, TypeOK
<1>5. ASSUME NEW h \in Threads, NEW t \in Tasks, NEW exc \in BOOLEAN, Finish(h, t, exc)
      PROVE  TypeOK'
  <2>1. frame' \in [Tasks -> Frames]
    BY <1>1, <1>5, FinishEffect
  <2>2. stack' \in [Threads -> Seq(Tasks)]
    <3>1. stack' = stack \/ (stack[h] # <<>> /\ (Pop(h) \/ \E k \in Tasks : Transfer(h, k)))
      BY <1>5 DEF Finish, Runs, ResumeAwaiter, ResumeWrapper
    <3> QED
      BY <1>1, <3>1, StackTyped DEF TypeOK
  <2>3. wrapper' \in [Tasks -> {"none", "initial", "awaiting", "final", "destroyed"}]
    BY <1>1, <1>5 DEF Finish, ResumeAwaiter, ResumeWrapper, TypeOK
  <2>4. functors' \in Seq({"start", "cleanup"} \X Tasks)
    <3>1. PICK x \in {"start", "cleanup"} \X Tasks : x = <<"cleanup", t>>
      OBVIOUS
    <3>2. functors' = functors \/ functors' = Append(functors, <<"cleanup", t>>)
      BY <1>5 DEF Finish, ResumeAwaiter, ResumeWrapper, CleanupQueued
    <3>3. functors \in Seq({"start", "cleanup"} \X Tasks)
      BY <1>1 DEF TypeOK
    <3>4. Append(functors, x) \in Seq({"start", "cleanup"} \X Tasks)
      BY <3>3, AppendProperties
    <3> QED
      BY <3>1, <3>2, <3>3, <3>4
  <2>5. ended' \in {"no", "terminate"} /\ rethrown' \in SUBSET Tasks
    BY <1>1, <1>5 DEF Finish, ResumeAwaiter, ResumeWrapper, TypeOK
  <2> QED
    BY <1>1, <1>5, <2>1, <2>2, <2>3, <2>4, <2>5, TypeOKFromFrames DEF Finish, TypeOK
<1>6. ASSUME NEW h \in Threads, NEW t \in Tasks, Create(h, t) PROVE TypeOK'
  <2>1. frame' \in [Tasks -> Frames]
    BY <1>1, <1>6, CreateEffect
  <2> QED
    BY <1>1, <1>6, <2>1, TypeOKFromFrames DEF Create, history, TypeOK
<1>7. ASSUME NEW h \in Threads, NEW t \in Tasks, Drop(h, t) PROVE TypeOK'
  <2>1. frame' \in [Tasks -> Frames]
    BY <1>1, <1>7, DropEffect
  <2> QED
    BY <1>1, <1>7, <2>1, TypeOKFromFrames DEF Drop, history, TypeOK
<1>8. ASSUME NEW h \in Threads, NEW t \in Tasks, Detach(h, t) PROVE TypeOK'
  <2>1. Resumption(h, t, None, None) /\ frame' \in [Tasks -> Frames]
    BY <1>1, <1>8, DetachEffect
  <2>2. /\ stack' \in [Threads -> Seq(Tasks)] /\ unfinished' \in BOOLEAN
        /\ ended' \in {"no", "undefined", "terminate", "quit"}
    BY <1>1, <2>1, ResumptionTyped
  <2>3. misused' \in BOOLEAN
    BY <1>1, <1>8 DEF Detach, Misuse, TypeOK
  <2> QED
    BY <1>1, <1>8, <2>1, <2>2, <2>3, TypeOKFromFrames DEF Detach, TypeOK
<1>9. ASSUME NEW h \in Threads, NEW t \in Tasks, Spawn(h, t) PROVE TypeOK'
  <2>1. "loop" \in Threads /\ frame' \in [Tasks -> Frames]
    BY <1>1, <1>9, SpawnEffect DEF Threads
  <2>2. Resumption("loop", t, Wrapper, Wrapper) \/ UNCHANGED <<stack, ended, unfinished>>
    BY <1>1, <1>9, SpawnEffect
  <2>3. /\ stack' \in [Threads -> Seq(Tasks)] /\ unfinished' \in BOOLEAN
        /\ ended' \in {"no", "undefined", "terminate", "quit"}
    BY <1>1, <2>1, <2>2, ResumptionTyped DEF TypeOK
  <2>4. /\ wrapper' \in [Tasks -> {"none", "initial", "awaiting", "final", "destroyed"}]
        /\ spawnedTasks' \in SUBSET Tasks
    <3>1. /\ spawnedTasks' \in {spawnedTasks, spawnedTasks \cup {t}}
          /\ \E w \in {"initial", "awaiting"} : wrapper' = [wrapper EXCEPT ![t] = w]
      BY <1>1, <1>9, SpawnEffect
    <3> QED
      BY <1>1, <3>1 DEF TypeOK
  <2>5. functors' \in Seq({"start", "cleanup"} \X Tasks)
    <3>1. PICK x \in {"start", "cleanup"} \X Tasks : x = <<"start", t>>
      OBVIOUS
    <3>2. functors' = functors \/ functors' = Append(functors, <<"start", t>>)
      BY <1>1, <1>9, SpawnEffect
    <3>3. functors \in Seq({"start", "cleanup"} \X Tasks)
      BY <1>1 DEF TypeOK
    <3>4. Append(functors, x) \in Seq({"start", "cleanup"} \X Tasks)
      BY <3>3, AppendProperties
    <3> QED
      BY <3>1, <3>2, <3>3, <3>4
  <2>6. misused' \in BOOLEAN
    BY <1>1, <1>9 DEF Spawn, Misuse, TypeOK
  <2> QED
    BY <1>1, <1>9, <2>1, <2>2, <2>3, <2>4, <2>5, <2>6, TypeOKFromFrames DEF Spawn, TypeOK
<1>10. ASSUME NEW t \in Tasks, EventFires(t) PROVE TypeOK'
  <2>1. PICK o, k : o = Owner(t) /\ k = Continuation(t)
    OBVIOUS
  <2>2. Resumption("io", t, o, k) /\ "io" \in Threads /\ frame' \in [Tasks -> Frames]
    BY <1>1, <1>10, <2>1, EventFiresEffect DEF Threads
  <2>3. /\ stack' \in [Threads -> Seq(Tasks)] /\ unfinished' \in BOOLEAN
        /\ ended' \in {"no", "undefined", "terminate", "quit"}
    BY <1>1, <2>2, ResumptionTyped
  <2>4. parked' \in [Tasks -> 0..MaxEvents]
    <3>1. PICK p \in 0..MaxEvents : p = parked[t] /\ p > 0
      BY <1>1, <1>10 DEF EventFires, TypeOK
    <3>2. p - 1 \in 0..MaxEvents
      BY <3>1, TaskAssumption DEF TaskAssumption
    <3> QED
      BY <1>1, <1>10, <3>1, <3>2 DEF EventFires, TypeOK
  <2> QED
    BY <1>1, <1>10, <2>1, <2>2, <2>3, <2>4, TypeOKFromFrames DEF EventFires, TypeOK
<1>11. ASSUME NEW t \in Tasks, Get(t) PROVE TypeOK'
  <2>1. frame' \in [Tasks -> Frames]
    BY <1>1, <1>11, FrameTyped DEF Get
  <2> QED
    BY <1>1, <1>11, <2>1, TypeOKFromFrames DEF Get, history, TypeOK
<1>12. ASSUME NEW t \in Tasks, GetStep(t) PROVE TypeOK'
  <2>1. PICK o, k : o = Owner(t) /\ k = Continuation(t)
    OBVIOUS
  <2>2. "user" \in Threads /\ frame' \in [Tasks -> Frames]
    BY <1>1, <1>12, GetStepEffect DEF Threads
  <2>3. Resumption("user", t, o, k) \/ UNCHANGED <<stack, ended, unfinished>>
    BY <1>1, <1>12, <2>1, GetStepEffect
  <2>4. /\ stack' \in [Threads -> Seq(Tasks)] /\ unfinished' \in BOOLEAN
        /\ ended' \in {"no", "undefined", "terminate", "quit"}
    BY <1>1, <2>2, <2>3, ResumptionTyped DEF TypeOK
  <2>5. getting' \in Tasks \cup {None} /\ rethrown' \in SUBSET Tasks
    BY <1>1, <1>12 DEF GetStep, TypeOK
  <2>6. misused' \in BOOLEAN
    BY <1>1, <1>12 DEF GetStep, Misuse, TypeOK
  <2> QED
    BY <1>1, <1>12, <2>1, <2>2, <2>3, <2>4, <2>5, <2>6, TypeOKFromFrames DEF GetStep, TypeOK
<1>13. CASE RunFunctor
  <2>1. "loop" \in Threads /\ frame' \in [Tasks -> Frames]
    BY <1>1, <1>13, RunFunctorEffect DEF Threads
  <2>2. \/ \E t \in Tasks : Resumption("loop", t, Wrapper, Wrapper)
        \/ UNCHANGED <<stack, ended, unfinished>>
    BY <1>1, <1>13, RunFunctorEffect
  <2>3. /\ stack' \in [Threads -> Seq(Tasks)] /\ unfinished' \in BOOLEAN
        /\ ended' \in {"no", "undefined", "terminate", "quit"}
    BY <1>1, <2>1, <2>2, ResumptionTyped DEF TypeOK
  <2>4. /\ wrapper' \in [Tasks -> {"none", "initial", "awaiting", "final", "destroyed"}]
        /\ spawnedTasks' \in SUBSET Tasks
    BY <1>1, <1>13, RunFunctorEffect DEF TypeOK
  <2>5. functors' \in Seq({"start", "cleanup"} \X Tasks)
    BY <1>1, <1>13, HeadTailProperties DEF RunFunctor, TypeOK
  <2> QED
    BY <1>1, <1>13, <2>1, <2>2, <2>3, <2>4, <2>5, TypeOKFromFrames DEF RunFunctor, TypeOK
<1>14. CASE Quit
  <2>1. frame' \in [Tasks -> Frames]
    BY <1>1, <1>14, FrameTyped DEF Quit
  <2> QED
    BY <1>1, <1>14, <2>1, TypeOKFromFrames DEF Quit, history, TypeOK
<1>15. CASE UNCHANGED vars
  <2>1. frame' \in [Tasks -> Frames]
    BY <1>1, <1>15, FrameTyped DEF vars
  <2> QED
    BY <1>1, <1>15, <2>1, TypeOKFromFrames DEF vars, history, TypeOK
<1> QED
  BY <1>2, <1>3, <1>4, <1>5, <1>6, <1>7, <1>8, <1>9, <1>10, <1>11, <1>12, <1>13,
     <1>14, <1>15
  DEF Next, CoroutineStep, UserStep

-----------------------------------------------------------------------------
(* The theorems.                                                            *)

\* No coroutine exists at first.
LEMMA FrameInvInit ==
  Init => FrameInv
<1> SUFFICES ASSUME Init PROVE FrameInv
  OBVIOUS
<1>1. \A t \in Tasks : /\ Status(t) = "none" /\ Owner(t) = None /\ Continuation(t) = None
                       /\ ~Exception(t) /\ ~Live(t) /\ ~Active(t)
  BY DEF Init, NoFrame, Status, Owner, Continuation, Exception, Live, Active
<1>2. TypeOK
  <2>1. NoFrame \in Frames
    BY DEF NoFrame, Frames, Statuses
  <2>2. frame \in [Tasks -> Frames]
    BY <2>1 DEF Init
  <2>3. 0 \in 0..MaxEvents
    BY TaskAssumption DEF TaskAssumption
  <2>4. functors \in Seq({"start", "cleanup"} \X Tasks) /\ stack \in [Threads -> Seq(Tasks)]
    BY EmptySeq DEF Init
  <2> QED
    BY <2>2, <2>3, <2>4 DEF Init, TypeOK, Frames, Statuses
<1>3. TreeInv
  BY <1>1, Names DEF TreeInv
<1>4. StackInv
  <2>1. \A h \in Threads : stack[h] = <<>>
    BY DEF Init
  <2> QED
    BY <1>1, <2>1, EmptySeq DEF StackInv
<1>5. FunctorInv
  BY EmptySeq DEF Init, FunctorInv
<1>6. WrapperInv
  BY <1>1 DEF Init, WrapperInv, WrapperOf
<1>7. UserInv
  BY <1>1, Names DEF Init, UserInv, UserOf
<1>8. ProtocolInv
  BY <1>1 DEF Init, ProtocolInv, ProtocolOf, ResumesAreDefined
<1> QED
  BY <1>2, <1>3, <1>4, <1>5, <1>6, <1>7, <1>8 DEF FrameInv

\* The inductive invariant of the coroutine frames.
THEOREM FrameInvHolds ==
  Spec => []FrameInv
<1>1. FrameInv /\ [Next]_vars => FrameInv'
  BY TypeKept, TreeKept, StackKept, FunctorKept, WrapperKept, UserKept, ProtocolKept
     DEF FrameInv
<1> QED
  BY FrameInvInit, <1>1, PTL DEF Spec

\* A coroutine that runs is in one resume() of one thread, and one that waits has
\* given its handle to one awaiter, as long as the tasks are used by their protocol.
THEOREM AlwaysOneResumePerSuspension ==
  Spec => []OneResumePerSuspension
<1>1. FrameInv => OneResumePerSuspension
  <2> SUFFICES ASSUME FrameInv, ~misused, ended = "no", NEW t \in Tasks
               PROVE  /\ OnStacks(t) = IF Status(t) = "running" THEN 1 ELSE 0
                      /\ parked[t] = IF Status(t) = "waiting" THEN 1 ELSE 0
    BY DEF OneResumePerSuspension
  <2>1. parked[t] = IF Status(t) = "waiting" THEN 1 ELSE 0
    BY DEF FrameInv, ProtocolInv, ProtocolOf
  <2>2. \A h \in Threads : t \in Range(stack[h]) <=> \E i \in 1..Len(stack[h]) : stack[h][i] = t
    <3>1. \A h \in Threads : DOMAIN stack[h] = 1..Len(stack[h])
      BY LenProperties DEF FrameInv, TypeOK
    <3> QED
      BY <3>1 DEF Range
  <2> DEFINE H == {h \in Threads : t \in Range(stack[h])}
  <2>3. CASE Status(t) = "running"
    <3>1. PICK g \in Threads : \E i \in 1..Len(stack[g]) : stack[g][i] = t
      BY <2>3 DEF FrameInv, StackInv
    <3>2. H = {g}
      BY <2>2, <3>1 DEF FrameInv, StackInv
    <3> QED
      BY <2>1, <2>3, <3>2, FS_Singleton DEF OnStacks
  <2>4. CASE Status(t) # "running"
    <3>1. H = {}
      BY <2>2, <2>4 DEF FrameInv, StackInv
    <3> QED
      BY <2>1, <2>4, <3>1, FS_EmptySet DEF OnStacks
  <2> QED
    BY <2>3, <2>4
<1> QED
  BY <1>1, FrameInvHolds, PTL

\* No resume() or destroy() is undefined and no result is taken from a task that has
\* none, unless a task was resumed or started against its protocol.
THEOREM ResumesAlwaysDefined ==
  Spec => []ResumesAreDefined
<1>1. FrameInv => ResumesAreDefined
  BY DEF FrameInv, ProtocolInv
<1> QED
  BY <1>1, FrameInvHolds, PTL

\* Every frame that is not detached has one that will destroy it, and every finished
\* wrapper exactly one cleanup functor.
THEOREM FramesAlwaysOwned ==
  Spec => []FramesOwned
<1>1. FrameInv => FramesOwned
  <2> SUFFICES ASSUME FrameInv PROVE FramesOwned
    OBVIOUS
  <2>1. TypeOK /\ TreeInv /\ FunctorInv /\ WrapperInv /\ UserInv
    BY DEF FrameInv
  <2>2. DOMAIN functors = 1..Len(functors)
    BY <2>1, LenProperties DEF TypeOK
  <2>3. ASSUME NEW t \in Tasks, NEW e \in {"start", "cleanup"}
        PROVE  Count(functors, <<e, t>>) =
                   IF wrapper[t] = IF e = "start" THEN "initial" ELSE "final" THEN 1 ELSE 0
    <3> DEFINE I == {i \in 1..Len(functors) : functors[i] = <<e, t>>}
    <3>1. Count(functors, <<e, t>>) = Cardinality(I)
      BY <2>2 DEF Count
    <3>2. CASE wrapper[t] = IF e = "start" THEN "initial" ELSE "final"
      <4>1. PICK i \in 1..Len(functors) : functors[i] = <<e, t>>
        <5>1. CASE e = "start"
          BY <2>1, <3>2, <5>1 DEF FunctorInv
        <5>2. CASE e = "cleanup"
          BY <2>1, <3>2, <5>2 DEF FunctorInv
        <5> QED
          BY <5>1, <5>2
      <4>2. I = {i}
        BY <2>1, <4>1 DEF FunctorInv
      <4> QED
        BY <3>1, <3>2, <4>2, FS_Singleton
    <3>3. CASE wrapper[t] # IF e = "start" THEN "initial" ELSE "final"
      <4>1. ASSUME NEW i \in 1..Len(functors), functors[i] = <<e, t>> PROVE FALSE
        <5>1. functors[i][1] = e /\ functors[i][2] = t
          BY <4>1
        <5> QED
          BY <2>1, <3>3, <5>1 DEF FunctorInv
      <4>2. I = {}
        BY <4>1
      <4> QED
        BY <3>1, <3>3, <4>2, FS_EmptySet
    <3> QED
      BY <3>2, <3>3
  <2>4. \A t \in Tasks :
          /\ Count(functors, <<"cleanup", t>>) = IF wrapper[t] = "final" THEN 1 ELSE 0
          /\ Count(functors, <<"start", t>>) = IF wrapper[t] = "initial" THEN 1 ELSE 0
    BY <2>3
  <2>5. ASSUME NEW t \in Tasks, Status(t) \notin {"none", "destroyed"}
        PROVE  \/ t \in detached
               \/ Owner(t) = User
               \/ Owner(t) \in Tasks /\ Status(Owner(t)) \notin {"none", "destroyed"}
               \/ Owner(t) = Wrapper /\ (t \in spawnedTasks \/ Count(functors, <<"start", t>>) = 1)
    <3>1. Live(t)
      BY <2>5 DEF Live
    <3>2. CASE Owner(t) = None
      BY <2>1, <3>1, <3>2 DEF UserInv, UserOf
    <3>3. CASE Owner(t) \in Tasks
      BY <2>1, <3>1, <3>3 DEF TreeInv
    <3>4. CASE Owner(t) = Wrapper
      <4>1. wrapper[t] = "initial" \/ t \in spawnedTasks
        BY <2>1, <3>1, <3>4 DEF WrapperInv, WrapperOf
      <4> QED
        BY <2>4, <3>4, <4>1
    <3> QED
      BY <2>1, <3>2, <3>3, <3>4, FrameTyped
  <2> QED
    BY <2>1, <2>4, <2>5 DEF FramesOwned, Owner
<1> QED
  BY <1>1, FrameInvHolds, PTL

\* An exception that ends a task reaches whoever awaits it or calls get(), or the task
\* is detached.
THEOREM ExceptionsNeverLost ==
  Spec => []NoExceptionLost
<1>1. FrameInv => NoExceptionLost
  BY DEF FrameInv, UserInv, UserOf, NoExceptionLost, Exception
<1> QED
  BY <1>1, FrameInvHolds, PTL

=============================================================================
