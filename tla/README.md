# Formal model of hayai

hayai is a C++20 network library in the reactor style (kqueue): event loops, one per
thread, TCP connections bound to loops, a server that spreads connections over a
pool of loops, and a coroutine layer on top. This directory holds TLA+ modules that
model it, TLC configurations that check them on small instances, and TLAPS proofs.
`PROJECT.json` lists runs, mutants, the map from definitions to source lines,
findings, hazards and theorems.

## Inventory

| component | state | operations | interacts with |
|---|---|---|---|
| `EventLoop` | `quit_`, `looping_`, `callingPendingFunctors_`, `pendingFunctors_` (under `mutex_`), wakeup pipe, `activeChannels_`, thread-local slot | `loop`, `quit`, `runInLoop`, `queueInLoop`, `wakeup`, `handleWakeup`, `doPendingFunctors`, `spawn` | every thread that queues a functor; its `Poller` |
| `Poller`, `Channel` | kqueue registrations, event list; `events_`, `revents_`, `tie_` | `poll`, `updateChannel`, `removeChannel`; enable/disable, `handleEvent` | called by the loop; calls back into connections and the acceptor |
| `TcpConnection` | `state_`, `inputBuffer_`, `outputBuffer_`, socket | `send`, `shutdown`, `forceClose` (any thread), `handleRead/Write/Close`, `connectEstablished/Destroyed` (loop) | channel, loop, server (close callback), user callbacks |
| `TcpServer`, `Acceptor` | `connections_`, `started_`, `acceptor_` | `start`, `stop`, `newConnection`, `removeConnection(InLoop)`, destructor | base loop, I/O loops, thread pool |
| `EventLoopThread(Pool)` | `loop_`, thread, condition variable; `loops_`, `next_` | `startLoop`, `threadFunc`, `start`, `getNextLoop`, destructors | base thread and workers |
| `Buffer` | vector, `readerIndex_`, `writerIndex_` | `append`, `readFd`, `retrieve*`, `ensureWritableBytes`, `shrink` | connection, coroutine layer |
| `Task`, `spawn` | coroutine frames with owner, continuation and exception; `spawnedTasks_` | `co_await`, `get`, `detach`, `~Task`, `spawn`, `cleanupSpawnedTask` | the loop that starts and cleans up, the threads that resume |
| `AsyncConnection` | `receivedData_`, `recvCoroutine_`, `sendCoroutine_`, the callbacks bound to `this` | `recv`, `send`, `onMessage`, `onWriteComplete`, move, destructor | `TcpConnection` callbacks (I/O thread), the handler coroutine |
| `AsyncServer` | `pendingConnections_`, `acceptCoroutine_` | `accept`, `onConnection` | I/O threads that establish, the base loop that resumes |
| `Socket`, `InetAddress`, `NonCopyable` | none of interest | system-call wrappers, text conversion | - |

Hard behaviour: functors queued from any thread against a loop that is about to
sleep; `state_` tested and assigned by other threads without a lock; raw `this` and
raw `Channel*` kept in queues while the owner may be released elsewhere; removal of
a connection that travels from the I/O loop to the base loop and back; the order of
callbacks when one kevent reports data and end of file; the window between a worker
publishing its loop and entering it; partial writes and half-close; awaiters that look
for data twice, once before and once while suspending; an object that is moved on one
thread while callbacks bound to it run on another; frames that are started on one
thread, finish on another and are destroyed on the first. The hazards in
`PROJECT.json` give each one's line and the properties that watch it.

What makes each part correct: the loop runs every functor once, in order, and never
sleeps on work or on a quit; a connection's byte stream is in order, its write
interest follows its output buffer, FIN follows the last byte, and it is silent once
closed; a connection is freed once, in state Disconnected, and nothing that still
points to it is used afterwards; the pool gives out built loops only and joins them
before freeing them; the buffer is a FIFO inside its vector; a suspended coroutine is
resumed once, for a reason, and never after its frame is gone; data and connections
reach coroutines complete and in order; every frame has one owner that destroys it.

## Modules

**`LoopQueue`** is the abstract promise of `queueInLoop`: functors are submitted, and
started in that order. **`EventLoop`** is the detailed loop. `pc` is the position of
the loop thread; between any two positions other threads can act. `waking` holds the
threads between their push (or their store to `quit_`) and the write to the pipe, so
the window that the wakeup protocol has to cover is explicit. The pipe has a capacity
because its write end blocks. `SignalQuit` is the handler of `coro_echo_server.cc`,
which runs on the loop thread between any two of its instructions. `runInLoop()` on
the loop thread is a plain call and needs no action. The refinement mapping sends the
abstract queue to `functors \o pendingFunctors`, the local batch followed by the
pending vector.

**`TcpConnection`** is one connection on its I/O loop with its channel, its kqueue
registration and its peer. Functors reach it through one FIFO queue, which is what
`LoopQueue` promises. `handleEventWithGuard()` is split at its three tests (`close`,
`read`, `write`), since user code runs between them; `send()`, `shutdown()` and
`forceClose()` of other threads are two steps, the test of `state_`, and its assignment
and the hand-over of the functor, which may land behind another thread's. `KqUpdate`
keeps the rule that one `kevent()` call with two changes and no event list stops at
the first that fails. Outgoing bytes are numbered, so order, loss and repetition show;
of incoming bytes only the number is kept. `outputBuffer` is a FIFO of bytes without a
size: what `Buffer` is as long as no copy overruns its vector (below), so `StreamIntact`
and the other properties hold on that condition.

**`Buffer`** is the vector with its two indexes. A copy that would pass the end of the
vector is undefined behaviour: it sets `overrun` and ends the behaviour.

**`EventLoopThreadPool`** is the pool with its worker threads: the handshake, round robin,
and destruction. The handshake has all its steps: the base thread locks `mutex_`, tests
the predicate, and sleeps, which gives up the lock; the worker locks, sets `loop_`,
notifies and unlocks. `notify_one()` (`Woken`) wakes a thread that sleeps and is lost on
one that does not; spurious wakeups may happen and never have to. Of the worker's loop
only `quit_`, its reset on entry and the thread-local slot are kept; that a running loop
told to quit returns is `QuitStopsLoop` of `EventLoop`.

**`TcpServer`** is about lifetimes. Each loop goes through poll, dispatch and batch.
`active` is `activeChannels_` with one entry per kevent, so a connection that is readable
and writable is in it twice, and the entries that have not been handled stay while a
handler closes its own connection or another one (`Reach`). The destructor runs on the
base thread or on any other at any moment.
`Owned` collects every place that holds a `shared_ptr` (the map, captures of functors
queued, being run or already run in the current batch, the local copy in `stop()`,
user threads), and a connection without one is `Freed`. `setIoLoopNum()` before
`start()` decides between single-threaded mode and connections on an I/O loop
(`connLoop`); connections on different I/O loops do not meet, so one I/O loop stands for
all. What a connection does with data is `TcpConnection`'s; here it is `state_` and
whether the channel is registered. Which filters are registered is not kept: a registered
channel may always be reported writable, which is more than the kernel does.
`ended` records why the process stopped: destroyed, an abort, or undefined behaviour.

**`Task`** is the life of coroutine frames. `frame[t]` is the frame and promise of a task:
status, owner, continuation, exception. `stack` has, per thread, the coroutines whose
`resume()` is on it; a symmetric transfer replaces the top. What runs between two
suspensions is arbitrary code: it may await a new task (a temporary, the one form the
repository uses outside the wrapper of `spawn()`; no `Task` object is awaited after it was
kept, or twice) or an event, create, drop, detach or spawn tasks, throw, catch and return.
(`Detach` clears the owner before the resume, `detach()` after it; the coroutine has no way
to see its `Task` object.) `wrapper[t]` is the `SpawnTask` frame that holds a spawned task.
An event is anything that keeps a handle and resumes it on an I/O thread
(`parked`). Resuming a frame that is not suspended or destroying one that runs ends the
behaviour in `ended = "undefined"`; a frame that is resumed while it awaits an unfinished
task takes a result that is not there (`unfinished`).

**`AsyncConnection`** has the objects a connection passes through (the element of the
deque, the local of the acceptor, the parameter of the handler) and says which of them
owns the data (`holder`) and which the callbacks point to (`target`). A move is two steps,
because it takes no lock: data first, callbacks afterwards. `MessageBegins` reads the
callback's `this`, `OnMessage` runs on it; if that object is not the holder, behaviour is
undefined. (`handleClient(std::move(conn))` moves the object twice, into the parameter and
into the copy in the frame; the model has one move, and so one window of the same kind instead of two.)
`receivedData_` is a FIFO of chunks: `ChunksIntact` too holds on the condition that
`Buffer::append()` does not overrun. An `onMessage()` that overlaps the move without a lock
is one step before or after each of the move's; that it meets a half-moved object is
`undefined`, whatever bytes it would tear. `recv()` is `await_ready` and `await_suspend` as separate
steps. Of `TcpConnection` it keeps whether the connection is open, what is unsent, and that no code
calls the write-complete callback (`CallsWriteComplete`).

**`AsyncServer`** extends it with the deque, `accept()` and its awaiter, and the two
coroutines of `coro_echo_server.cc`: acceptors on the base thread, which spawn a handler
for each connection. Handlers run on the base thread until they first suspend and on the
I/O thread from then on. `AcceptsInOrder` is `LoopQueue` once more, with connections for
functors: what a detailed queue promises here is the same.

`MC*` modules instantiate these for TLC. `EventLoopProofs`, `EventLoopThreadPoolProofs`,
`BufferProofs`, `TcpConnectionProofs`, `TcpServerProofs`, `AsyncServerProofs` and
`TaskProofs` hold the theorems about the module they are named after
(`AsyncServerProofs` those about `AsyncConnection` too), each with the inductive invariant
it needs at its beginning; `SeqLemmas` has the facts about sequences they share.

## Runs

| run | instance | shows |
|---|---|---|
| `eventloop` | 2 clients + loop thread, 2 channels, event list of 1, pipe of 1, 3 functors, 1 quit, 1 signal | `NoLostWakeup`, `QuitUnblocksPoll`, `FifoExactlyOnce`, `ImplementsLoopQueue`; `QueuedFunctorStarts`, `WriterUnblocks` and `QuitStopsLoop` hold without waiting for a poll timeout; `TimeoutServes`: with it, functors queued before `loop()` and quits from signal handlers are served too |
| `tcpconnection` | 2 clients, messages of 1 and 3 bytes, kernel buffer of 2, 3 calls | `StreamIntact`, `BufferedIffWatched`, `ClosedIsSilent`, `FinAfterFlush`; `ShutdownCompletes`, `PeerGoneReaped` |
| `buffer_fifo` | 1 cell of prepend, 3 of content, 8 at most, 7 bytes | `ContentIntact`, `LayoutKept` until an overrun; `EmptyBufferBoundary`: which lengths overrun an empty buffer, and that `append()` to one never does |
| `threadpool` | 3 workers, 5 connections | `ReturnedLoopsUsable`, `NoNotificationLost`, `StartReturns` (handshake), `Balanced` (round robin); `DestructorReturns`, unless a quit is lost (`QuitLost`, below) |
| `tcpserver` | 1 connection on the base loop or on an I/O loop, 1 user thread that may keep it, 2 calls, up to 2 starts, and the destructor, from the base or another thread | `NoDanglingChannel` (a second kevent of the round that comes after the close), `DestroyedOnce`, `ClosedPeerIsFreed` across both loops; `RawFunctorsSafe` and `FreedIsDisconnected` for a connection that no user thread ever took (`taken`) |
| `task` | 3 coroutines, 3 threads, 1 event each | `ResumesAreDefined` and `OneResumePerSuspension` unless `get()` is misused; `FramesOwned`: every frame but a detached one has an owner, and a spawned one a single cleanup; `NoExceptionLost`; `SpawnedIsFreed` |
| `asyncserver` | 2 connections, of which the first sends 2 messages, 2 acceptors | `ChunksIntact`, `OneResumePerRecv` (also: no sleep on data that is there), `NoSpuriousEof`, `DataIsDelivered` for data; `AcceptsInOrder`, `ThrowNeedsTwoAcceptors`, `EveryConnectionHandled` for connections |

Each module has one type invariant. `eventloop` checks it by its name; elsewhere it is the
first conjunct of an invariant of the run (`BufferedIffWatched`, `LayoutKept`,
`ReturnedLoopsUsable`, `DestroyedOnce`, `FramesOwned`, `ThrowNeedsTwoAcceptors`).

Bounds. A lost wakeup, a reordering or a full pipe needs one functor more than the
pipe has tokens, and two writers; three functors and a pipe of one have both, and the
proofs remove the bound. An event list of one entry makes the pipe compete with every
other channel. Messages longer than the kernel buffer give partial writes; a byte
sent, a half-close and a reset cover what a peer can do to the dispatch order. In
`TcpServer` most races are between the loops, the destructor and a user, about one
connection at a time. Two connections share the map, the batch they are removed in and
`activeChannels_`, and a callback of one may close the other. With two connections and a
user thread liveness is out of TLC's reach; `NoDanglingChannel`, the property that two
connections could break, holds also for `Conns = {c1, c2}` and `Users = {}` under `Spec`
(1.1 million states), and the theorems are about any number. Eight cells allow
every index position, compaction, growth and the stack-buffer path; seven bytes are one
more than twice the three writable cells of an empty buffer. Three workers and
five connections pass the round-robin wrap. Three coroutines make a chain of two awaits,
or a task spawned by one that was itself spawned; with one event each, a stale handle and
a late resume both occur. Two messages are needed for a resume that was queued for the
first and finds the second, or nothing; a second connection and a second acceptor for an
overwritten handle and an empty deque. `CHECK_DEADLOCK FALSE` is set where the system may
really stop: a closed connection, a destroyed server or pool, a buffer at its bound, a
program whose coroutines all wait, and in `EventLoop` a loop thread that blocks on its own
full pipe (below).

Runs that expect a violation, each with a quoted line in `PROJECT.json`:

| run | what the code does |
|---|---|
| `tcpconnection_echo` | data that arrives with the end of file is not echoed |
| `buffer_overrun` | `writableBytes()` counts from the reader index, `append()` to a buffer with content overruns; `readFd()` of one byte more than fits into an empty buffer is enough |
| `tcpserver_users` | a queued `send()` of another thread runs on a freed connection |
| `asyncserver_send` | `co_await send()` never returns: nobody calls the write-complete callback |
| `asyncserver_handover` | a message during the move of an `AsyncConnection` is written into the moved-from object |

Other behaviours that the models reach and a reader should know of. No run is about
them; the hazards say where each one is:

- the loop thread can fill its own wakeup pipe and block in `write()` for ever; the
  liveness properties of `EventLoop` except this state by name (`SelfBlocked`);
- `quit()` before `loop()` is forgotten, since `loop()` begins with `quit_ = false`;
  `EventLoopTest.RunInLoop` and `MultipleQueuedTasks` rely on it and do not return;
- `quit()` in a signal handler between the while test and `kevent()` leaves the loop
  asleep until the poll timeout;
- a thread that tested `state_` before the close can write Disconnecting after it, so a
  connection a user held may be freed in that state, against the destructor's assertion;
- a pool destroyed before a worker has entered `loop()` loses that worker's quit, and
  `join()` does not return (`QuitLost`, which `DestructorReturns` excepts), although
  EventLoopThreadPool.cc says "Threads are automatically joined in EventLoopThread
  destructor";
- destroying a worker's loop on the base thread clears the base thread's slot;
- `stop()` skips connections that are still Connecting;
- `start()` on a thread other than the base loop's aborts, although TcpServer.h says "Can
  be called from any thread", and so does the destructor on a thread other than that of
  the connections that are left, although TcpServer.cc says it "may be called outside the
  loop thread" (`ended`);
- `setIoLoopNum()` after `stop()` destroys the pool whose loops the connections are on
  (`ended = "replaced"`; what follows is not modelled);
- `stop()` in a callback frees the accept channel while it may still be active
  (`DispatchDangling`, which ends in undefined behaviour);
- the coroutine layer is never told that a connection closed: a handler suspended in
  `recv()` or `send()` stays so, and its frame keeps the socket (`HandleClose` of
  `AsyncConnection` wakes nobody);
- `~AsyncConnection()` leaves the callbacks bound, so a message after the handler has
  returned uses freed memory (`undefined = "freed"`);
- a second `accept()` overwrites the first one's handle; connections still all get a
  handler (`EveryConnectionHandled`), but the overwritten coroutine sleeps on, and
  await_resume() may throw "shouldn't happen" (`ThrowNeedsTwoAcceptors`);
- `get()` does not wait: it resumes a task that is suspended on an event without the
  event, and that task's awaiter without the result (`misused`);
- `detach()` leaks the frame whether or not the coroutine suspends, and with it an
  exception; an exception in a spawned task terminates the process;
- `~EventLoop()` does not destroy `spawnedTasks_`: tasks that wait when the loop returns,
  and finished ones whose cleanup is still queued, are leaked.

Assertions are as in a debug build; `assertInLoopThread()` aborts in every build.

## Fairness

`EventLoop`: the loop thread is scheduled and callbacks return, a writer gets on while
the pipe has room, and `kevent()` reports a readable pipe; in `FairSpec` nothing forces
the 10 s timeout, so what holds under it does not wait for it; `TimeoutServes`
assumes the timeout itself, as `WF_vars(PollTimeout) => ...`.
Nobody has to call `loop()`. `TcpConnection`: both loops run (which `EventLoop`
establishes), a thread inside `send()`, `shutdown()` or `forceClose()` gets to its end, and a peer that is still
there reads what it is sent; it need not send or close. `EventLoopThreadPool`: threads
that can run do, and a worker gets a mutex that is free again and again (strong fairness
of `LockToPublish`: spurious wakeups of the base thread may take it in between, never for
ever); no wakeup is owed to a sleeping thread but by `notify_one()`. `TcpServer`: both
loops run, `kevent()` returns, and an end of file that every poll reports is handled in
the end (strong fairness of `DispatchEof`; in the code the handler reads what is left and
then meets the end of file, which is `PeerGoneReaped` of `TcpConnection`). `Task`: only the
loop's own thread gets on, with the coroutine it is in and with its functors; no event
has to happen. `AsyncServer`: the base loop and the I/O loop run what is queued on them
(`QueuedFunctorStarts`), a coroutine gets on between two `co_await`, and a connected peer
reads; nobody has to connect, send or close. Calls by users are never assumed.

## Proofs

`EventLoopProofs` proves for every set of threads and channels, every pipe capacity and
every bound, from the named assumptions of `EventLoop` only:

- `TypeCorrect`: `Spec => []TypeOK`, inductive as it stands. It ties
  `callingPendingFunctors_` to the positions of `doPendingFunctors()`, where the loop thread
  has to wake itself.
- `FifoAlways`: `FifoExactlyOnce` speaks of a concatenation, which is not what the
  provers step through well; `FifoInv` says the same per index (each of the three
  sequences holds consecutive numbers, starting where the previous one ends) and that
  the local vector is empty outside a batch, without which the swap would drop it.
- `Refinement`: pushes map to `Submit`, the beginning of a functor to `Start`, all
  other steps leave the mapped variables alone. The swap is the interesting stutter: it
  moves the pending vector into an empty batch (`FifoInv`). `SeqLemmas` has the two facts
  about concatenations it needs.
- `NoLostWakeupAlways`: `NoLostWakeup` only speaks of `kevent()`; `WakeupInv` extends it
  back to the swap. A token is consumed only during dispatch, where the
  invariant makes no claim because the swap is still ahead.
- `QuitUnblocksPollAlways`: `QuitInv` extends the claim to the window between the while
  test and `kevent()`. Both speak of behaviours in which no signal handler has called
  `quit()` (`signals = 0`): one that runs in that window sets `quit_` without unblocking
  the `kevent()` that follows, which is why `TimeoutServes` needs the timeout.

`EventLoopThreadPoolProofs`, for any number of workers and connections:

- `LoopsAlwaysUsable` rests on `PoolInv`: `start()` has the loops of
  the workers before `current`, the workers behind it have no thread, and `loop_` of a
  worker is set exactly when its thread has got past the notification. Without the last
  part the loop that `wait()` returns could be anything.
- `NotificationsNeverLost` rests on `HandshakeInv`: the thread that is between its test and
  its sleep holds the mutex, so the worker it waits for has not yet set `loop_`.
- `AlwaysBalanced` rests on `RoundRobinInv`: the workers already served in the present
  round are exactly one ahead. The wrap of `next_` is the one step that is not obvious.

`BufferProofs`, for vectors, prepends and messages of any size:

- `AlwaysFifo` and `LayoutAlwaysKept`: layout and content are proved together
  (`BufferInv`), since `makeSpace()` copies what the indexes delimit. `Holds` says it of
  any vector, so each operation has one lemma about `Holds` and the actions compose them.
- `EmptyBoundary` is an action property and the counterpart of the run `buffer_overrun`:
  `writableBytes()` counts from the reader index, so when nothing is readable,
  `ensureWritableBytes()` still leaves room behind it (`EmptyFits`); but `readFd()` appends
  its rest to a buffer it has just filled, and there the miscount is the whole content.

`TcpConnectionProofs`, for any clients, message lengths, kernel buffer and bounds:

- `StreamAlwaysIntact`, `AlwaysBufferedIffWatched`, `ClosedAlwaysSilent` and the action
  property `FinFollowsFlush` rest on `ConnInv`. Its core is `WatchInv`: an open
  connection always has READ interest, so `updateChannel()` never stops half-way and the
  kqueue has what `events_` says; a closed one has no READ interest, so the first error
  stops every later update. `LifeInv` says why no event precedes
  `connectEstablished()` and why no `connectDestroyed()` precedes the close.

`TcpServerProofs`, for any set of connections and users and both placements of the
connections:

- `AlwaysDestroyedOnce`: `TokenInv` treats the duty to call `connectDestroyed()` as a
  token that is in the map, in one queue, or spent, and in exactly one of them.
- `ChannelsNeverDangle`: `ChannelInv` says that a channel still in the active list belongs
  to a connection whose `connectDestroyed()` has not run, which therefore (`TokenInv`) is
  in the map or captured by a functor of the queue. It can be closed, removed and queued
  for destruction while it is in the list; what it cannot be is destroyed, since the
  functors run after the dispatch.
- `RawFunctorsAlwaysSafe` and `FreedAlwaysDisconnected`, for connections no user thread
  took: behind a functor with a raw `this` the `connectDestroyed()` that keeps the object
  alive is queued (`RawInv`), and `state_` is not written after that.
- All of them need `RoundInv` (which loop gets which functors, and that batch and active
  list are empty outside their phase) and `YoungInv` (nothing refers to a connection
  before it is established). Most actions do not touch what these speak of: the lemma
  `QuietKeeps` deals with them together, and one lemma deals with each of the others.

`AsyncServerProofs`, for any number of connections, messages and acceptors (a finite set,
so that they can be counted):

- `AlwaysOneResume`, `NeverSpuriousEof`: `ResumeInv` adds to `OneResumePerRecv` that a
  queued resume finds data. The handle and the functor exclude each other because
  `await_suspend()` looks at the data again under the mutex.
- `ChunksAlwaysIntact`: `ObjectsInv` says that a connection has an object from
  `onConnection()` until its handler's frame is destroyed, `HandoverInv` that one acceptor
  at a time hands over a connection, which has no handler yet; so both moves start from
  the owner of the data. `ChunkInv` adds that a chunk on its way was counted.
- `ThrowAlwaysNeedsTwo`: `LoneInv` describes a single acceptor, whose handle is stored or
  queued once, and for whom a connection waits when it is resumed. It speaks only of
  states with at most one acceptor started, which is enough since none ever stops.
- `AlwaysAcceptsInOrder` is the refinement of `LoopQueue`: `OnConnection` is `Submit`,
  `AwaitResume` is `Start`. `OrderInv` numbers the connections of both queues.

`TaskProofs`, for any number of coroutines and of events each awaits:

- `FrameInvHolds` proves the inductive invariant `FrameInv`, and the four properties follow
  from parts of it. `TreeInv`: tasks are numbered as they are created, a frame is older
  than the frames it holds, an unfinished task is held by the one task that awaits it, and
  a task awaits one task at a time. `StackInv`: the coroutines on the stacks are exactly
  those that run, each in one place, as long as behaviour is defined. `FunctorInv`: one
  start functor per wrapper that has not begun, one cleanup functor per finished one, and
  no others. `WrapperInv` ties a wrapper to its task, `UserInv` the tasks under way to
  `get()`, `detach()` or a continuation, `ProtocolInv` the handles that are out to the
  tasks that wait.
- A destruction takes a whole branch of frames. `OwnedBy` is the least set that has a task
  and all that its members own; so to show what is not in it, one gives a closed set
  without it. `Owned` and `OwnedAlone` do this: the branch has younger frames only, and
  nothing but the frame itself if it awaits no task. Since `~Task()` and the cleanup
  functor meet tasks that are not under way, only `resume()` of a task that awaits another
  (`misused`) destroys more than one frame.
- Each action has a lemma about its effect on the frames (`...Effect`): one frame changes
  (`Only`), two do (`co_await`, and the transfer to the awaiter), or `resume()` runs one
  frame and destroys a set of others (`Resumed`), or is undefined. The invariants are then
  proved for these few shapes.
- `AlwaysOneResumePerSuspension` counts with `StackInv`, `FramesAlwaysOwned` with
  `FunctorInv`. `ResumesAlwaysDefined`: without misuse a task that is started has not
  begun, and one that an event resumes waits; both are suspended and hold no frame.
  `ExceptionsNeverLost`: a task under way without a continuation is detached or in
  `get()`.

Every strengthened invariant was model-checked before it was proved.

Only model-checked: the liveness properties, since the prover has no fairness. Every
safety property of the passing runs has its theorem.

## Not modelled

`Socket`, `InetAddress` and `NonCopyable` have no state the properties depend on.
`findCRLF()`, `peek()` and `getLoop()` only read. SIGPIPE, an accept on a connection that
is already gone (both come from the kernel's side of `Socket`), and a second `start()` after
`stop()` in a release build are left out. In `TcpServer` the user's code runs in the message
callback; a message callback that runs in the same handler after the close callback is not
a step of its own there (it is in `TcpConnection`). `Awaiter.h` has awaiters without state. In the coroutine
layer all connections are on one I/O loop, since what races is an I/O thread with the base
thread; the bytes of a message are one chunk; `running`, the flag that ends the accept loop
of the example, only changes when the loop is about to return.

## Plan

1. Done: `EventLoop` with `LoopQueue`, `TcpConnection`, `Buffer`, `EventLoopThreadPool`,
   `TcpServer`; proofs for `EventLoop`.
2. Done: `AsyncConnection`, `AsyncServer` (which composes connections, acceptors and
   handlers) and `Task`.
3. Done: proofs for the thread pool, `Buffer`, `TcpConnection`, `TcpServer` and the
   coroutine server.
4. Done: proofs for `Task`, with `OwnedBy` as a least set instead of a recursion.
