--------------------------- MODULE EventLoopThread ---------------------------
(****************************************************************************)
(* EventLoopThread (src/src/net/EventLoopThread.cc): a thread that          *)
(* constructs an EventLoop on its stack, publishes its address, runs loop() *)
(* and destroys it; and the thread that owns the EventLoopThread, which     *)
(* calls startLoop(), uses the pointer it got and runs the destructor.      *)
(*                                                                          *)
(* The loop is that of EventLoop, step by step.  Its variables keep their   *)
(* last values after the object is destroyed; a thread that still calls     *)
(* into it then takes UseDestroyed instead.                                 *)
(****************************************************************************)
EXTENDS EventLoop

CONSTANT Owner \* the thread that calls startLoop() and ~EventLoopThread

ASSUME OwnerAssumption == Owner \in Threads

VARIABLES
  owner,     \* where the owner is
  thread,    \* where threadFunc is
  loop_,     \* loop_ is not nullptr
  usedDead   \* some thread used the EventLoop after it was destroyed

threadVars == <<owner, thread, loop_, usedDead>>
allVars == <<vars, threadVars>>

\* The owner, and whoever it gave the pointer to, between startLoop() and the
\* end of the destructor.
HasPointer(t) == IF t = Owner THEN owner = "using" ELSE owner # "new" /\ owner # "waiting"

ThreadInit ==
  /\ Init
  /\ owner = "new" /\ thread = "none" /\ loop_ = FALSE /\ usedDead = FALSE

-----------------------------------------------------------------------------
(* The new thread: threadFunc. *)

\* Mutant: the address is not published.
PublishNothing ==
  /\ thread = "init" /\ op[LoopThread] = "idle"
  /\ thread' = "loop"
  /\ UNCHANGED <<vars, owner, loop_, usedDead>>

\* callback_ has returned; loop_ is set under mutex_ and startLoop notified.
Publish ==
  /\ thread = "init" /\ op[LoopThread] = "idle"
  /\ thread' = "loop" /\ loop_' = TRUE
  /\ UNCHANGED <<vars, owner, usedDead>>

\* loop.loop()
RunLoop ==
  /\ thread = "loop" /\ (LoopStep \/ PollTimesOut)
  /\ UNCHANGED threadVars

\* callback_, the event callbacks and the functors are user code; between callback_
\* and loop() there is none.
LoopThreadCalls ==
  /\ thread = "init" \/ (thread = "loop" /\ pc # "start")
  /\ Call(LoopThread) \/ CompleteCall(LoopThread)
  /\ UNCHANGED threadVars

\* loop() has returned: loop_ = nullptr under mutex_.
Unpublish ==
  /\ thread = "loop" /\ pc = "done"
  /\ thread' = "returned" /\ loop_' = FALSE
  /\ UNCHANGED <<vars, owner, usedDead>>

\* The mutex is released first, then ~EventLoop runs and the thread ends.
DestroyLoop ==
  /\ thread = "returned"
  /\ thread' = "exited"
  /\ UNCHANGED <<vars, owner, loop_, usedDead>>

-----------------------------------------------------------------------------
(* The owner. *)

\* startLoop() up to the wait: the std::thread is created.
StartLoop ==
  /\ owner = "new"
  /\ owner' = "waiting" /\ thread' = "init"
  /\ UNCHANGED <<vars, loop_, usedDead>>

\* cond_.wait finds loop_ set; it looks whenever it holds mutex_.
StartLoopReturns ==
  /\ owner = "waiting" /\ loop_
  /\ owner' = "using"
  /\ UNCHANGED <<vars, thread, loop_, usedDead>>

\* A call into a loop that exists.
UseLoop(t) ==
  /\ thread # "exited" /\ HasPointer(t) /\ Call(t)
  /\ UNCHANGED threadVars

FinishCall(t) ==
  /\ thread # "exited" /\ CompleteCall(t)
  /\ UNCHANGED threadVars

\* A call, or the rest of one, on an EventLoop that does not exist any more.
UseDestroyed(t) ==
  /\ thread = "exited"
  /\ HasPointer(t) \/ op[t] # "idle"
  /\ usedDead' = TRUE
  /\ op' = [op EXCEPT ![t] = "idle"]
  /\ UNCHANGED <<pc, flagVars, queueVars, fdVars, countVars, owner, thread, loop_>>

\* ~EventLoopThread, the read of loop_ under mutex_.
Destructor ==
  /\ \/ owner = "using" /\ op[Owner] = "idle"
     \/ owner = "new" \* startLoop() was never called
  /\ owner' = IF loop_ THEN "quitting" ELSE "joining"
  /\ UNCHANGED <<vars, thread, loop_, usedDead>>

\* Mutant: the destructor joins without telling the loop to quit.
DestructorQuitMissing ==
  /\ owner = "quitting"
  /\ owner' = "joining"
  /\ UNCHANGED <<vars, thread, loop_, usedDead>>

\* loop->quit(), on the pointer that was read before mutex_ was released.
DestructorQuit ==
  /\ owner = "quitting"
  /\ owner' = "joining"
  /\ IF thread = "exited" THEN usedDead' = TRUE /\ UNCHANGED vars
                          ELSE Quit(Owner) /\ UNCHANGED usedDead
  /\ UNCHANGED <<thread, loop_>>

\* thread_.join() returns, or the thread was never started.
Join ==
  /\ owner = "joining" /\ op[Owner] = "idle" /\ thread \in {"none", "exited"}
  /\ owner' = "gone"
  /\ UNCHANGED <<vars, thread, loop_, usedDead>>

\* Some fd registered with the loop becomes ready.
KernelReports ==
  /\ thread = "loop" /\ IoArrives
  /\ UNCHANGED threadVars

-----------------------------------------------------------------------------
ThreadStep == Publish \/ RunLoop \/ Unpublish \/ DestroyLoop
OwnerStep == StartLoopReturns \/ DestructorQuit \/ Join

ThreadNext ==
  \/ ThreadStep \/ OwnerStep \/ LoopThreadCalls \/ KernelReports
  \/ StartLoop \/ Destructor
  \/ \E t \in Threads : UseLoop(t) \/ FinishCall(t) \/ UseDestroyed(t)

ThreadSpec == ThreadInit /\ [][ThreadNext]_allVars

\* The scheduler runs both threads, user code returns from its calls, and
\* epoll_wait returns after kPollTimeMs at the latest.  Nobody is obliged to use
\* the loop or to destroy the EventLoopThread.
ThreadFairness ==
  /\ WF_allVars(ThreadStep) /\ WF_allVars(OwnerStep)
  /\ WF_allVars(LoopThreadCalls /\ op[LoopThread] # "idle")
  /\ \A t \in Threads : WF_allVars(FinishCall(t)) /\
                        WF_allVars(UseDestroyed(t) /\ op[t] # "idle")

ThreadFairSpec == ThreadSpec /\ ThreadFairness

-----------------------------------------------------------------------------
(* Properties. *)

\* startLoop() returns, unless loop() has returned before the owner woke up
\* and saw its address (threadFunc clears loop_ again, and the wait never ends).
StartLoopIsAnswered == owner = "waiting" ~> owner = "using" \/ pc = "done"

\* A destructor that finds the loop published, once loop() is past its first two
\* stores, stops the thread and returns from join().
StartedLoopIsJoined == (owner = "quitting" /\ pc \notin {"start", "enter"}) ~> owner = "gone"

\* A destructor that finds the loop published, however early, returns from join().
DestructorReturns == owner = "quitting" ~> owner = "gone"

\* Nobody uses the EventLoop after threadFunc destroyed it.
LoopOutlivesItsUsers == ~usedDead
==============================================================================
