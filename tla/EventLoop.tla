------------------------------ MODULE EventLoop ------------------------------
(****************************************************************************)
(* EventLoop (src/src/net/EventLoop.cc): the thread that runs loop(), and   *)
(* any number of other threads that call queueInLoop, runInLoop and quit.   *)
(*                                                                          *)
(* One step is what a thread does between two accesses to shared state: the *)
(* push under mutex_ and the write to the eventfd that follows it are two   *)
(* steps, and so are the store to quit_ and its wakeup.  Functors and event *)
(* callbacks are user code: they may call any of the three operations any   *)
(* number of times and then return.                                         *)
(****************************************************************************)
EXTENDS Naturals, Sequences

CONSTANTS LoopThread, \* the thread that constructed the EventLoop
          Threads,    \* the other threads that hold a pointer to it
          MaxTasks,   \* bound: calls that enqueue a functor
          MaxInline   \* bound: calls of runInLoop made by the loop thread

ASSUME LoopThreadAssumption == LoopThread \notin Threads
ASSUME BoundsAssumption == MaxTasks \in Nat /\ MaxInline \in Nat

VARIABLES
  pc,        \* where the loop thread is
  op,        \* op[t]: the operation on the loop that thread t is in the middle of
  looping,   \* looping_
  quit,      \* quit_
  calling,   \* callingPendingFunctors_
  pending,   \* pendingFunctors_
  functors,  \* the local vector of doPendingFunctors, what is left of it
  running,   \* the functor being run, 0 if none
  wakeupFd,  \* the eventfd's counter is not zero
  ioReady,   \* some other registered fd is ready
  active,    \* activeChannels_ not yet handled in this iteration
  submitted, \* number of functors enqueued; the last one's name
  started,   \* number of enqueued functors that were started
  inlined,   \* number of functors runInLoop ran in place
  early      \* functors the loop thread enqueued before it called loop()

flagVars  == <<looping, quit, calling>>
queueVars == <<pending, functors, running>>
fdVars    == <<wakeupFd, ioReady, active>>
countVars == <<submitted, started, inlined, early>>
vars == <<pc, op, flagVars, queueVars, fdVars, countVars>>

AllThreads == Threads \cup {LoopThread}
Channels == {"wakeup", "io"}
Locations == {"start", "enter", "check", "poll", "dispatch", "event", "begin",
              "swap", "run", "functor", "done"}

isInLoopThread(t) == t = LoopThread

\* The loop thread calls into the loop only from user code: before loop(),
\* from an event callback or from a functor.
InUserCode(t) == isInLoopThread(t) => pc \in {"start", "event", "functor"}

\* Constructor: wakeupChannel_ is registered for reading from here on.
Init ==
  /\ pc = "start"
  /\ op = [t \in AllThreads |-> "idle"]
  /\ looping = FALSE /\ quit = FALSE /\ calling = FALSE
  /\ pending = <<>> /\ functors = <<>> /\ running = 0
  /\ wakeupFd = FALSE /\ ioReady = FALSE /\ active = {}
  /\ submitted = 0 /\ started = 0 /\ inlined = 0 /\ early = {}

-----------------------------------------------------------------------------
(* Operations any thread may call. *)

wakeup == wakeupFd' = TRUE

\* queueInLoop, the critical section: push_back under mutex_.
QueueInLoop(t) ==
  /\ InUserCode(t) /\ op[t] = "idle" /\ submitted < MaxTasks
  /\ pending' = Append(pending, submitted + 1)
  /\ submitted' = submitted + 1
  /\ op' = [op EXCEPT ![t] = "pushed"]
  /\ early' = IF isInLoopThread(t) /\ pc = "start"
              THEN early \cup {submitted + 1} ELSE early
  /\ UNCHANGED <<pc, flagVars, functors, running, fdVars, started, inlined>>

\* Mutant: wakes only for foreign threads.
QueueInLoopWakeupForeignOnly(t) ==
  /\ op[t] = "pushed"
  /\ op' = [op EXCEPT ![t] = "idle"]
  /\ IF ~isInLoopThread(t) THEN wakeup ELSE UNCHANGED wakeupFd
  /\ UNCHANGED <<pc, flagVars, queueVars, ioReady, active, countVars>>

\* queueInLoop, after the mutex is released.
QueueInLoopWakeup(t) ==
  /\ op[t] = "pushed"
  /\ op' = [op EXCEPT ![t] = "idle"]
  /\ IF ~isInLoopThread(t) \/ calling THEN wakeup ELSE UNCHANGED wakeupFd
  /\ UNCHANGED <<pc, flagVars, queueVars, ioReady, active, countVars>>

\* runInLoop by the loop thread runs cb() in place, by another thread it is
\* queueInLoop.
RunInLoop(t) ==
  IF isInLoopThread(t)
  THEN /\ InUserCode(t) /\ op[t] = "idle" /\ inlined < MaxInline
       /\ inlined' = inlined + 1
       /\ UNCHANGED <<pc, op, flagVars, queueVars, fdVars, submitted, started, early>>
  ELSE QueueInLoop(t)

\* Mutant: the wakeup is forgotten.
QuitNoWakeup(t) ==
  /\ InUserCode(t) /\ op[t] = "idle"
  /\ quit' = TRUE
  /\ UNCHANGED <<pc, op, looping, calling, queueVars, fdVars, countVars>>

\* quit: the store, and the wakeup a foreign thread still has to make.
Quit(t) ==
  /\ InUserCode(t) /\ op[t] = "idle"
  /\ quit' = TRUE
  /\ op' = IF isInLoopThread(t) THEN op ELSE [op EXCEPT ![t] = "quitting"]
  /\ UNCHANGED <<pc, looping, calling, queueVars, fdVars, countVars>>

QuitWakeup(t) ==
  /\ op[t] = "quitting"
  /\ op' = [op EXCEPT ![t] = "idle"]
  /\ wakeup
  /\ UNCHANGED <<pc, flagVars, queueVars, ioReady, active, countVars>>

\* The kernel: another registered fd becomes ready.
IoArrives ==
  /\ ~ioReady /\ ioReady' = TRUE
  /\ UNCHANGED <<pc, op, flagVars, queueVars, wakeupFd, active, countVars>>

-----------------------------------------------------------------------------
(* The loop thread. *)

\* loop() up to the while: two stores.
EnterLoop ==
  /\ pc = "start" /\ op[LoopThread] = "idle"
  /\ pc' = "enter" /\ looping' = TRUE
  /\ UNCHANGED <<op, quit, calling, queueVars, fdVars, countVars>>

ClearQuit ==
  /\ pc = "enter"
  /\ pc' = "check" /\ quit' = FALSE
  /\ UNCHANGED <<op, looping, calling, queueVars, fdVars, countVars>>

\* while (!quit_) { activeChannels_.clear(); ... } looping_ = false;
CheckQuit ==
  /\ pc = "check"
  /\ pc' = IF quit THEN "done" ELSE "poll"
  /\ looping' = ~quit
  /\ active' = IF quit THEN active ELSE {}
  /\ UNCHANGED <<op, quit, calling, queueVars, wakeupFd, ioReady, countVars>>

\* epoll_wait reports what is ready (level triggered).
PollReturns ==
  /\ pc = "poll" /\ (wakeupFd \/ ioReady)
  /\ active' = (IF wakeupFd THEN {"wakeup"} ELSE {}) \cup
               (IF ioReady THEN {"io"} ELSE {})
  /\ pc' = "dispatch"
  /\ UNCHANGED <<op, flagVars, queueVars, wakeupFd, ioReady, countVars>>

\* kPollTimeMs have passed, or a signal interrupted epoll_wait.
PollTimesOut ==
  /\ pc = "poll" /\ ~wakeupFd /\ ~ioReady
  /\ pc' = "dispatch"
  /\ UNCHANGED <<op, flagVars, queueVars, fdVars, countVars>>

\* handleRead: one read empties the eventfd.
HandleRead ==
  /\ pc = "dispatch" /\ "wakeup" \in active
  /\ active' = active \ {"wakeup"} /\ wakeupFd' = FALSE
  /\ UNCHANGED <<pc, op, flagVars, queueVars, ioReady, countVars>>

\* channel->handleEvent() of any other channel: it consumes the event and runs
\* the user's callback.
HandleEvent ==
  /\ pc = "dispatch" /\ "io" \in active
  /\ active' = active \ {"io"} /\ ioReady' = FALSE
  /\ pc' = "event"
  /\ UNCHANGED <<op, flagVars, queueVars, wakeupFd, countVars>>

HandleEventReturns ==
  /\ pc = "event" /\ op[LoopThread] = "idle"
  /\ pc' = "dispatch"
  /\ UNCHANGED <<op, flagVars, queueVars, fdVars, countVars>>

DispatchEnds ==
  /\ pc = "dispatch" /\ active = {}
  /\ pc' = "begin"
  /\ UNCHANGED <<op, flagVars, queueVars, fdVars, countVars>>

\* Mutant: callingPendingFunctors_ is not set.
BeginPendingNoFlag ==
  /\ pc = "begin"
  /\ pc' = "swap"
  /\ UNCHANGED <<op, flagVars, queueVars, fdVars, countVars>>

\* doPendingFunctors, one action per step of it.
BeginPending ==
  /\ pc = "begin"
  /\ pc' = "swap" /\ calling' = TRUE
  /\ UNCHANGED <<op, looping, quit, queueVars, fdVars, countVars>>

\* Mutant: the vector is copied, not swapped.
SwapPendingCopies ==
  /\ pc = "swap"
  /\ pc' = "run" /\ functors' = pending
  /\ UNCHANGED <<op, flagVars, pending, running, fdVars, countVars>>

SwapPending ==
  /\ pc = "swap"
  /\ pc' = "run" /\ functors' = pending /\ pending' = <<>>
  /\ UNCHANGED <<op, flagVars, running, fdVars, countVars>>

\* Mutant: the functors are taken from the shared vector itself.
StartFunctorFromShared ==
  /\ pc = "run" /\ functors # <<>>
  /\ pc' = "functor" /\ running' = Head(functors)
  /\ functors' = Tail(functors) \o pending /\ pending' = <<>>
  /\ started' = started + 1
  /\ UNCHANGED <<op, flagVars, fdVars, submitted, inlined, early>>

StartFunctor ==
  /\ pc = "run" /\ functors # <<>>
  /\ pc' = "functor" /\ running' = Head(functors) /\ functors' = Tail(functors)
  /\ started' = started + 1
  /\ UNCHANGED <<op, flagVars, pending, fdVars, submitted, inlined, early>>

FunctorReturns ==
  /\ pc = "functor" /\ op[LoopThread] = "idle"
  /\ pc' = "run" /\ running' = 0
  /\ UNCHANGED <<op, flagVars, pending, functors, fdVars, countVars>>

\* Mutant: clears the member vector after the loop, as if nothing was added.
EndPendingClears ==
  /\ pc = "run" /\ functors = <<>>
  /\ pc' = "check" /\ calling' = FALSE /\ pending' = <<>>
  /\ UNCHANGED <<op, looping, quit, functors, running, fdVars, countVars>>

\* Mutant: quit_ is reset in every iteration.
EndPendingResetsQuit ==
  /\ pc = "run" /\ functors = <<>>
  /\ pc' = "check" /\ calling' = FALSE /\ quit' = FALSE
  /\ UNCHANGED <<op, looping, queueVars, fdVars, countVars>>

EndPending ==
  /\ pc = "run" /\ functors = <<>>
  /\ pc' = "check" /\ calling' = FALSE
  /\ UNCHANGED <<op, looping, quit, queueVars, fdVars, countVars>>

-----------------------------------------------------------------------------
\* What the loop thread does by itself once loop() is called, the timeout of
\* epoll_wait excepted.
LoopStep ==
  \/ EnterLoop \/ ClearQuit \/ CheckQuit \/ PollReturns
  \/ HandleRead \/ HandleEvent \/ HandleEventReturns \/ DispatchEnds
  \/ BeginPending \/ SwapPending \/ StartFunctor \/ FunctorReturns \/ EndPending

Call(t) == QueueInLoop(t) \/ RunInLoop(t) \/ Quit(t)

CompleteCall(t) == QueueInLoopWakeup(t) \/ QuitWakeup(t)

Next ==
  \/ LoopStep \/ PollTimesOut \/ IoArrives
  \/ \E t \in AllThreads : Call(t) \/ CompleteCall(t)

Spec == Init /\ [][Next]_vars

\* The scheduler runs every thread; user code returns.  Nobody is obliged to
\* call anything, no fd is obliged to become ready, and the ten seconds of the
\* poll timeout need never pass.
Fairness == WF_vars(LoopStep) /\ \A t \in AllThreads : WF_vars(CompleteCall(t))

FairSpec == Spec /\ Fairness

-----------------------------------------------------------------------------
(* Properties. *)

\* Every variable has its type; no functor is started that was not queued.
TypeOK ==
  /\ pc \in Locations
  /\ op \in [AllThreads -> {"idle", "pushed", "quitting"}]
  /\ looping \in BOOLEAN /\ quit \in BOOLEAN /\ calling \in BOOLEAN
  /\ pending \in Seq(Nat) /\ functors \in Seq(Nat) /\ running \in Nat
  /\ wakeupFd \in BOOLEAN /\ ioReady \in BOOLEAN
  /\ active \in SUBSET Channels
  /\ submitted \in 0..MaxTasks /\ started \in 0..MaxTasks /\ inlined \in 0..MaxInline
  /\ early \in SUBSET (1..MaxTasks)

\* When the loop sleeps in epoll_wait and a functor is queued, the eventfd is
\* readable or a thread that pushed is about to write it.  The one exception
\* the code has is a functor that the loop thread itself queued before loop():
\* queueInLoop does not wake for it, and it waits for the poll timeout.
NoLostWakeup ==
  pc = "poll" =>
    \/ wakeupFd
    \/ \E t \in Threads : op[t] = "pushed"
    \/ \A i \in DOMAIN pending : pending[i] \in early

\* When the loop sleeps in epoll_wait and quit_ is set, the eventfd is readable
\* or the thread that called quit() is about to write it.
NoLostQuit ==
  pc = "poll" /\ quit => wakeupFd \/ \E t \in Threads : op[t] = "quitting"

\* Functors are neither lost, nor duplicated, nor reordered between the push,
\* the swap and the run: the ones started, the ones left in the batch and the
\* ones pending are, in this order, all the ones ever queued.
FifoOrder ==
  /\ submitted = started + Len(functors) + Len(pending)
  /\ \A i \in 1..Len(functors) : functors[i] = started + i
  /\ \A i \in 1..Len(pending) : pending[i] = started + Len(functors) + i
  /\ pc = "functor" => running = started

\* What a step of doPendingFunctors leaves in the batch was there before.
BatchOnlyShrinks ==
  pc \in {"run", "functor"} =>
    /\ Len(functors') <= Len(functors)
    /\ \A i \in 1..Len(functors') :
         \E j \in 1..Len(functors) : functors'[i] = functors[j]

\* A functor that a functor queues waits for the next iteration: while
\* doPendingFunctors works through a batch, up to its last functor, nothing is added
\* to it, so functors that queue themselves cannot keep the loop away from its fds.
BatchNeverGrows == [][BatchOnlyShrinks]_vars

\* The queue that callers see.
Tasks == INSTANCE TaskQueue WITH queue <- functors \o pending,
                                 current <- running,
                                 accepted <- submitted,
                                 closed <- (pc = "done")

ImplementsTaskQueue == Tasks!Spec

\* A functor queued from another thread, or from the loop thread once it runs
\* loop(), is started without the poll timeout's help, unless the loop is told
\* to quit first.
QueuedIsRun ==
  \A i \in 1..MaxTasks :
    (submitted >= i /\ i \notin early) ~> (started >= i \/ pc = "done")

\* Once loop() is past its first two stores, quit() from any thread makes it
\* return.
QuitStopsLoop == (quit /\ pc \notin {"start", "enter"}) ~> pc = "done"
==============================================================================
