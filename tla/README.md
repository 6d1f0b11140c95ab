# A verification project for mini-muduo

TLA+ models of the mini-muduo network library (`src/src`, `src/include`), the TLC
runs that check them on small instances, and TLAPS proofs for any instance.
Every definition names, in `PROJECT.json`, the lines it models.

## 1. The system

mini-muduo is a Reactor library: one `EventLoop` per thread, everything that
belongs to a loop is done in its thread, and other threads hand work over through
`queueInLoop`.

| Component | State | Operations | Talks to |
|---|---|---|---|
| EventLoop | `looping_`, `quit_`, `callingPendingFunctors_`, `pendingFunctors_` under `mutex_`, eventfd, `activeChannels_` | `loop`, `quit`, `runInLoop`, `queueInLoop`, `doPendingFunctors`, `handleRead` | every thread (queue, eventfd); poller; callbacks |
| Channel, EPollPoller | `events_`, `revents_`, `index_`; `channels_`, the kernel's interest list, `events_` array | `enable*`/`disable*`, `remove`, `handleEvent`, `poll`, `updateChannel`, `removeChannel` | kernel, owners of channels |
| TimerQueue, Timer | `timers_`, `activeTimers_`, `cancelingTimers_`, `callingExpiredTimers_`, timerfd | `addTimer`, `cancel`, `handleRead`, `reset` | EventLoop (`runInLoop`), two clocks |
| Buffer | vector, `readerIndex_`, `writerIndex_` | `append`, `retrieve*`, `ensureWritableBytes`, `readFd` | TcpConnection |
| TcpConnection | `state_`, channel, socket, `outputBuffer_`, ownership by `shared_ptr` | `send`, `shutdown`, `connectEstablished`, `connectDestroyed`, four handlers | its loop, TcpServer, application threads, peer |
| TcpServer, Acceptor | `connections_`, `nextConnId_`, listening socket | `start`, `newConnection`, `removeConnection`, `listen`, `handleRead`, destructors | base loop, pool, connections |
| EventLoopThread | `loop_` under `mutex_`, `std::thread` | `startLoop`, `threadFunc`, destructor | owner thread, new thread |
| EventLoopThreadPool | `loops_`, `next_` | `setThreadNum`, `start`, `getNextLoop`, destruction | TcpServer |
| echo_server, benchmark_client | a client's progress | connect, write, read, close; the echo callback | TcpServer, over sockets |
| Socket, SocketsOps, InetAddress, Logger, Timestamp | none of their own | system-call wrappers, formatting | everybody |

What is hard here: a push that races the loop on its way to `epoll_wait`; `quit_`
that is stored from outside and cleared inside; raw pointers (channels in
`activeChannels_`, timers in two sets, `this` in functors) whose objects die in
another thread or another callback; addresses and descriptors that are reused;
`state_`, which is tested and stored without synchronisation; a connection whose
table entry, channel and descriptor are given up in three steps by two loops; the
destruction of a server whose loops still run; timers on two clocks; index arithmetic at buffer boundaries. `PROJECT.json` lists each hazard
at its line with the properties that would catch it.

## 2. Modules

| Module | Models | Checked by | Proofs |
|---|---|---|---|
| `EventLoop` | EventLoop.cc, loop thread and foreign threads | `event_loop` | `EventLoopProofs` |
| `TaskQueue` | abstract FIFO queue that EventLoop implements | (as a property) | `Refinement` |
| `Buffer` | Buffer.cc | `buffer` | `BufferProofs` |
| `ByteStream` | abstract byte queue that Buffer implements | (as a property) | `BufferIsStream` |
| `EPollPoller` | Channel.cc, EPollPoller.cc and the kernel's interest list, with channels owned as TcpConnection owns them | `epoll_poller` | `EPollPollerProofs` |
| `TimerQueue` | TimerQueue.cc, Timer.cc, timerfd, both clocks, the heap | `timer_queue` | `TimerQueueProofs` |
| `EventLoopThread` | EventLoopThread.cc; EXTENDS `EventLoop` and runs its steps | `event_loop_thread`, `..._quit`, `..._use` | `EventLoopThreadProofs` |
| `TcpConnection` | TcpConnection.cc for one connection, with TcpServer's part in its life, application threads and the peer | `tcp_connection`, `..._lifetime`, `..._shutdown` | `TcpConnectionProofs` |
| `TcpServer` | TcpServer.cc, Acceptor.cc, EventLoopThreadPool.cc, the descriptors, the echo callback and benchmark clients: many connections, several loops, start to destruction | `tcp_server`, `tcp_server_destroy` | `TcpServerProofs` |
| `Service` | abstract server that TcpServer implements | (as a property) | `Refinement` |

The `MC*` modules instantiate these for TLC. A definition whose comment begins
with *Mutant* is not part of any specification: it is a plausible mistake in the
definition after it, and the property named for it in `PROJECT.json` must fail
when it is put in its place.

**EventLoop.** `pc` is the loop thread's place in `loop()` and
`doPendingFunctors()`; `op[t]` is the call a thread is in the middle of. An action
is what happens between two accesses to shared state: the push under `mutex_` and
the write to the eventfd are two actions, so are the store to `quit_` and its
wakeup. Callbacks and functors are user code (`InUserCode`): they make any calls
and return. Functors are numbered in the order of their push. `early` are functors
the loop thread queued before `loop()`: `queueInLoop` does not wake for those
(`callingPendingFunctors_` is false), and they wait for the ten-second timeout.

**Buffer.** The members are a record; member functions are operators from record
to record with the index arithmetic of the code. Bytes are numbered as they come
in, which makes any loss, repetition or reordering visible.

**EPollPoller.** One loop thread: poll, dispatch (the callbacks of
`handleEventWithGuard` in order), functors. Channels are created, enabled, closed,
removed and destroyed as `TcpConnection` and `TcpServer` do it: `sendInLoop` tests
`state_`, which a `shutdown()` of another thread may have overwritten after
`handleClose`; a channel dies when the last pointer to its connection goes (`Held`),
after `connectDestroyed` or with `~TcpServer`, which drops the table under a running
loop. Descriptors and addresses are picked freely from what is unused. A use of a
destroyed channel is undefined: `usedDead` records it and the loop goes on. `Excepted`
are the addresses where a foreign `shutdown()` overwrote `kDisconnected` (finding 4) or
`~TcpServer` dropped a connection before its `connectDestroyed` (finding 5). About those
`KernelMatches` and `NoDangling` promise less, `ClosedIsFinal` excepts the first kind,
`NoCtlFailure` holds for all.

**TimerQueue.** A heap of Timer objects at reusable addresses, the two ordered
sets, and the timerfd on the monotonic clock; wall time is `mono + offset`.
`addTimer` of a foreign thread has two steps: the hand-over and the return
statement that reads the timer's sequence again (`TimerQueue.cc:108`). By then the
loop may have run and deleted the timer: the read is undefined behaviour, and
`AddTimerReturns` chooses between the old value and that of the Timer now living at
the address. `Destructor` is `~TimerQueue`; a Timer whose addition is still queued
then is leaked, which `SetsMatch` admits and nothing else. A TimerId may be cancelled
again and again; the bound on the queue is that no second cancellation of a TimerId is
queued while one is.

**EventLoopThread.** The owner's steps (startLoop, use, the destructor's read of
`loop_`, its `quit`, `join`) and threadFunc's (publish, loop, unpublish, destroy)
around the steps of `EventLoop`. A call on the destroyed loop is `UseDestroyed`.

**TcpConnection.** Handlers of the loop thread are single steps, since each
touches the shared `state_` once; `oneLoop` says whether the server's loop is the
connection's; `send` and `shutdown` of other threads are split
at the test of `state_`, the store and the queueing. `Poll` keeps what the read event
was about: data, after which `handleRead` does not see the end of the input, or the end.
`Alive` says that some `TcpConnectionPtr` exists. A functor's pointer goes when the
functor is popped, a little before the code's local vector does at the end of
`doPendingFunctors`; the model therefore destroys a connection in more places than the
code, which the invariants survive and the findings do not need. Write outcomes are any number of bytes, EAGAIN, or a
fault once FIN was sent or the peer has reset. `writeCompleteCallback_` is assumed
to be set. `overwritten` records that a foreign `shutdown()` stored
`kDisconnecting` over `kDisconnected`, finding 4 below; `ClosedForGood`
and `DestroyedIsRemoved` make an exception for it, so that
everything else is checked with foreign shutdowns in the model.

**TcpServer.** Loop 0 is the base loop, the others belong to the pool. A loop polls
(`reported` is `activeChannels_`), handles the reported channels one by one and runs
functors; each handler is one step, since loops share only their functor queues and
the descriptors. A connection is a record (descriptor, loop, state, in the poller or
not) and an output buffer; it exists while `connections_` or a functor holds it, and
`Destroy` closes its descriptor, which the next `accept` may return again. Clients run the loop of
`benchmark_client`: partial writes and reads, one request at a time, close at the end
or when the server's end is gone. The echo is what the code makes it: `HandleRead`
takes all input and sends it, the socket takes part of it, the rest goes through
`outputBuffer_` and `HandleWrite`. What is left out is in `TcpConnection` (senders in
other threads, shutdown, resets) and `EventLoopThread` (a pool thread's start and end, where
a lost `quit` is finding 1). After `loop()` returns, `main` destroys `connections_`,
joins the pool's threads one after the other, destroys the acceptor and last the base
loop, in the order of the members of `TcpServer.h`. A handler that meets a destroyed
connection is undefined behaviour: the ghost `usedDead` records it and the model goes
on as if the handler had done nothing, which is why only `tcp_server_destroy` asks
about it.

## 3. Runs

| Run | Bounds | Shows |
|---|---|---|
| `event_loop` | 2 foreign threads, 3 functors, 1 inline call | no lost wakeup (`NoLostWakeup`), no lost quit (`NoLostQuit`), FIFO order, batches that only shrink, refinement of `TaskQueue`; `QueuedIsRun`, `QuitStopsLoop` |
| `buffer` | prepend 2, initial 3, extrabuf 3, 7 bytes | indices in order, the assert of `hasWritten`, growth only when needed, refinement of `ByteStream` |
| `epoll_poller` | 2 addresses, 2 descriptors, 2 threads that shut down, list of 1 | `KernelMatches`, `NoCtlFailure`, `NoDangling`, `ClosedIsFinal`, with the exceptions of findings 4 and 5 and no others |
| `timer_queue` | 2 addresses, 2 timers, 3 ticks, clock set once | `SetsMatch`, `NoTimerLost`, `CancelledIsGone`, `NeverLate`, `ArmedWhenPending` |
| `event_loop_thread` | owner, 1 functor | `StartLoopIsAnswered`, `StartedLoopIsJoined` |
| `event_loop_thread_quit` | same | *violated:* a quit before `loop()` clears `quit_` is lost, join hangs |
| `event_loop_thread_use` | same | *violated:* quit() uses the loop after the store that lets it die |
| `tcp_connection` | either loop, callbacks and 1 user send and shut down, 3 messages of 2 bytes | stream intact, write interest, FIN after data, closed once, out of the poller before destruction; `PeerGoneIsCleanedUp` |
| `tcp_connection_lifetime` | one message | *violated:* a queued send runs on a destroyed connection |
| `tcp_connection_shutdown` | one message | *violated:* a closed channel comes back into epoll |
| `tcp_server` | 3 clients, 2 descriptors, 0 to 2 pool threads, 1 request of 2 bytes | `SocketOwned`, `TableMatches`, `EchoIntact`, `RoundRobin`, refinement of `Service`; `EveryClientServed`, `ClosedIsReclaimed` |
| `tcp_server_destroy` | 1 client, 1 pool thread | *violated:* a pool loop handles a connection that `~TcpServer` destroyed |

Why the bounds are enough: three functors allow one running, one in its batch and
one pending, and two foreign threads allow one to push while the other writes the
eventfd. Seven bytes against a vector of five cells force compaction, growth and
overflow into extrabuf with bytes left from before. Two channels are one being handled
and one that waits in `activeChannels_` or is created meanwhile at the address and on the
descriptor of a third, destroyed before; two threads overwrite the state of both, or of
one twice. Two timers at two addresses give a stale id next to a live one, batches of
two, and a timer added behind or before the armed one. Two-byte messages give
short writes; three of them, one written, one buffered and one queued behind it. Three clients and
two descriptors make `accept` fail, make a descriptor change hands while the other
connection is busy, and make the round robin wrap; clients are numbered in the order
in which they connect, which loses nothing because they are alike.

Deadlock is checked in `event_loop`, `buffer` and `epoll_poller`. It is off where
the system may stop: an owner that is gone, a connection or a server that is
destroyed, and the last tick of a bounded clock.

**Fairness.** `event_loop`: the scheduler runs every thread (weak fairness of the
loop's steps and of the rest of a call that was begun); nobody has to call
anything, and the poll timeout need never come, so `QueuedIsRun` does not lean on
it. `event_loop_thread`: the same for both threads, and `epoll_wait` may time out.
`tcp_connection`: both loops run; the loop returns to `epoll_wait` and to its
functors again and again although they disable each other (strong fairness), and
what the peer sent before closing is finite (strong fairness of the read that
returns 0). `tcp_server`: every client and every loop runs, and `main` goes on once
`loop()` has returned; nobody has to connect, start or stop. A loop's functors get
strong fairness: while `accept` fails the base loop is handed the listening socket
again and again, which disables them, but `doPendingFunctors` follows the handlers in
every iteration. Without it `EveryClientServed` fails, since the functor that would
free a descriptor might never run.

## 4. Proofs

Every invariant and action property that a passing run checks, and the three
refinements, are theorems for every value of the constants; so are three more facts
about `EventLoopThread`. Each module proves `Init => IInv`, `IInv /\ [Next]_vars => IInv'`
(one lemma or step for every action, under it one for every conjunct the action can
disturb) and `IInv => Inv`.

**`EventLoopProofs`.** The inductive invariant is `TypeOK`, `LoopControl`, `FifoOrder`,
`WakeupOnItsWay` and `NoLostQuit`.
`NoLostWakeup` speaks of `epoll_wait` only and is not inductive: a push may happen
anywhere. `WakeupOnItsWay` extends it to every line from which `epoll_wait` is
reached without passing the swap; at the others (dispatch to swap) the eventfd may
be read because the swap is still to come. `LoopControl` ties
`callingPendingFunctors_` and the local vector to the place in the code.
`BatchBounded` and `Refinement` follow from the invariant: between two swaps the batch only
loses its first element, also when it becomes empty and the last functor has queued itself
again; the refinement maps the queue to the local vector followed by the member.

**`EventLoopThreadProofs`.** The loop inside `threadFunc` loses no wakeup, no quit and no
functor, and things end in order: loop, thread, owner. A destroyed loop is used only after
a `quit()` (`EndsInOrder`), and the destructor comes to `join()` only with a thread that was
never started, has left `loop()` or has `quit_` set, which nothing but the first store of
`loop()` can undo (`DestructorJoinsWhatWillStop`): these two say that findings 2 and 1 have
no other cause. Each step of `EventLoopThread` is a step of `EventLoop`, or leaves the
loop alone, or is `UseDestroyed`, so the lemmas of `EventLoopProofs` carry over. Its `IInv`
holds only until the loop is destroyed: a call abandoned on a dead loop owes a wakeup that
will never be made.

**`BufferProofs`.** The invariant is the order
of the three regions (`TypeOK`); `AssertHolds`, `NoNeedlessGrowth` and the
refinement rest on lemmas that say, operator by operator, what `makeSpace`,
`append`, `retrieve` and `readFd` do to the readable bytes.

**`EPollPollerProofs`.** `KernelMatches` alone is not inductive: it does not say when
`index_` may change. `Lifecycle` gives `state_`, `index_` and `events_` in every part of a
connection's life, with `kDisconnected` and no registration after `handleClose` unless the
state was overwritten. `Registration` says for each channel and each descriptor what
`channels_` and the kernel hold, and `Dispatching` that a live channel in `activeChannels_`
is still registered and that one `handleEvent` has at most one call left that may close the
connection. `FdsDistinct` is what makes the maps by descriptor mean the same as the channels.
The exceptions are part of the invariant, so the theorems also say that nothing but findings
4 and 5 leaves a stale pointer. An address stays in `Excepted` when it is used again: a stale
pointer then leads to the new channel.

**`TcpConnectionProofs`.** `StreamIntact` is inductive with the types. The bound on
`outputBuffer_` in `TypeOK` needs `Accounting`: a message that passed `send()` is queued
once, taken as a whole, or dropped, so the bytes taken are counted by the messages (this
uses the cardinality theorems). `OutputHasInterest` needs `Interest`, stated before
`handleClose` and after `connectEstablished`. `ShutDown` and `LoopDataTaken` give
`FinAfterData`. `ClosedLast` and `CallsCloseOnce` give `ClosedForGood`: they say that
`handleClose` is the last thing that happens to the channel, with the one exception
`overwritten` of finding 4. `Closed` says what is on its way from `handleClose` to
`connectDestroyed`.

**`TimerQueueProofs`.** `OnHeap` and `OnePlace` say that the pointers in `timers_`, in the
expired batch and in queued additions lead to Timers that live and that each has one
holder; with `SequencesDistinct` this is `SetsMatch`. `IdsTrue` says that a sequence belongs
to one address while its Timer lives; it is what makes the pair (address, sequence) in
`cancelInLoop` safe, even with the late read of `addTimer`. `Ordered` puts an addition
before the cancellation of the same timer in the queue, without which a cancelled timer
could still be added. `FiredOnce` and `AskedFor` explain every deletion by `reset()`.
`Timely` is `NeverLate` for every waiting timer; that `timers_` has a first element, which
`resetTimerfd` uses, follows from the lower bound `Low` on expirations by the principle of
the least natural number.

**`TcpServerProofs`.** `SocketOwned` needs `FdsDistinct` and `ClientsOnce` (a client is not
connected, in the accept queue or the client of one connection) so that a reused descriptor
changes hands as a whole. `Functors` says that a queued functor finds its connection alive
and in the state it expects, `Reports` which connections `activeChannels_` may hold, `Life`
how a connection leaves poller and table. `EchoIntact` needs `Streams`: a client that has
closed left nothing in its connection (`Finishing`, since it closes only when all is answered
or its socket is gone), so that nothing is lost when the connection is destroyed, and an
output buffer without a connection is empty. `RoundRobin` needs
`Turns`, which gives the loop of each of the last `numThreads_` connections relative to
`next_`, and `Setup`: `start()` fixes the number of threads before the first `getNextLoop`.
The refinement is proved action by action: `Accepted`, which clients the abstract server
has admitted, changes in `AcceptorHandleRead`, `Destroy` and nowhere else.

The assumptions are the named ASSUMEs of the modules: the loop thread is not a foreign
thread, the owner of an EventLoopThread is one; bounds and sizes are naturals, message
lengths, intervals and the initial event list not zero; there are finitely many descriptors,
as the kernel has it; and the placeholders for "nothing here" (`None`, `Nothing`, `Nobody`)
are different from every object.

Only model-checked, because the prover has neither fairness nor ENABLED: the liveness
properties `QueuedIsRun`, `QuitStopsLoop`, `StartLoopIsAnswered`, `StartedLoopIsJoined`,
`PeerGoneIsCleanedUp`, `EveryClientServed` and `ClosedIsReclaimed`, and the absence of
deadlock. The five findings are counterexamples of TLC.

## 5. Findings

1. `EventLoop.cc:57`: a `quit()` before the store is lost; `~EventLoopThread` hangs.
2. `EventLoop.cc:75`: `quit()` goes on to use a loop that may be destroyed.
3. `TcpConnection.cc:83`: functors bind a plain `this`.
4. `TcpConnection.cc:90`: `shutdown()` of another thread overwrites `kDisconnected`.
5. `TcpServer.cc:52`: `~TcpServer` destroys connections that the pool's loops are
   about to handle; `connections_` goes before the pool is stopped.

## 6. Not modelled, and the plan

Not modelled: Logger (output only); of Socket, SocketsOps, InetAddress and Timestamp
the options, `bind`, address conversion and formatting (no state that another step
reads; calls that fail there abort the process); signals (SIGPIPE is not ignored by
the library); `blocking_echo_server`, one sequential thread that uses nothing of the
reactor; `discard_server`, the echo server without its answer; the tests.

Next, in this order:

1. The safety half of `ClosedIsReclaimed` as a theorem: a closed connection always has the
   functor queued that takes it one step further.
2. The exact condition of finding 3, as a theorem: a functor runs on a destroyed connection
   only if another thread queued it (for findings 1, 2, 4 and 5 the exceptions of the
   theorems above say it).
3. Shorter proofs where one lemma could serve several actions.
