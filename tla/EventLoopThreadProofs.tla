------------------------ MODULE EventLoopThreadProofs ------------------------
(****************************************************************************)
(* Proofs about EventLoopThread for any set of threads and any bounds: the  *)
(* loop keeps its promises inside threadFunc; loop, thread and owner end in *)
(* this order, and a destroyed loop is used only after somebody's quit();   *)
(* and the destructor joins only a thread that stops, unless loop() itself  *)
(* takes its quit() back.                                                   *)
(****************************************************************************)
EXTENDS EventLoopThread, EventLoopProofs

-----------------------------------------------------------------------------
(* What is to be proved. *)

\* While the EventLoop exists, nobody who queues a functor or calls quit() is forgotten
\* in epoll_wait, and functors run in order, although threads that hold the pointer may
\* go on calling into the loop at any time, also after it is destroyed.
LoopServesItsThread == NoLostWakeup /\ NoLostQuit /\ FifoOrder

\* ~EventLoopThread returns only when no thread runs, an EventLoop is destroyed only after
\* its loop() returned, and a destroyed EventLoop is used only after a quit(): as long as
\* nobody calls it, the pointer that startLoop() returned stays good.
ThreadEndsFirst ==
  /\ owner = "gone" => thread \in {"none", "exited"}
  /\ thread = "exited" => pc = "done" /\ ~looping
  /\ usedDead => thread = "exited" /\ quit

\* When the destructor comes to join(), the thread was never started, loop() has returned or
\* quit_ is set, whatever loop_ was when the destructor read it; and nothing but loop()'s own
\* quit_ = false can undo that, which is the one way in which join() waits forever.
JoinsWhatWillStop ==
  [][owner' = "joining" =>
       \/ thread' = "none" \/ pc' = "done" \/ quit'
       \/ ClearQuit
       \/ owner = "joining" /\ ~quit]_allVars

-----------------------------------------------------------------------------
(* The inductive invariant. *)

ThreadTypes ==
  /\ owner \in {"new", "waiting", "using", "quitting", "joining", "gone"}
  /\ thread \in {"none", "init", "loop", "returned", "exited"}
  /\ loop_ \in BOOLEAN /\ usedDead \in BOOLEAN

\* Where threadFunc is, and where the loop it runs is.
ThreadControl ==
  /\ thread \in {"none", "init"} => pc = "start"
  /\ thread \in {"returned", "exited"} => pc = "done"
  /\ owner = "new" => thread = "none"
  /\ thread = "none" => owner \in {"new", "joining", "gone"}
  /\ pc = "done" => ~looping /\ quit
  /\ owner \in {"using", "quitting"} => thread \notin {"none", "init"}
  /\ loop_ <=> thread = "loop"

\* The loop's own invariant, until the object is destroyed: a thread that finds it gone
\* abandons its call, and with it the wakeup that it owed.  Its last values stay.
LoopInvariant ==
  /\ thread # "exited" => IInv
  /\ TypeOK /\ FifoOrder

ThreadIInv ==
  /\ ThreadTypes /\ ThreadControl /\ ThreadEndsFirst /\ LoopInvariant

USE OwnerAssumption

-----------------------------------------------------------------------------
\* Before startLoop() the invariant holds.
LEMMA ThreadInitIInv == ThreadInit => ThreadIInv
  BY InitIInv DEF ThreadInit, Init, IInv, ThreadIInv, ThreadTypes, ThreadControl,
                  ThreadEndsFirst, LoopInvariant

\* A step of the loop, or of a call into it, keeps its invariant.
LEMMA LoopStepKeepsIInv ==
  ASSUME IInv, [Next]_vars
  PROVE  IInv'
  BY NextTypeOK, NextLoopControl, NextFifoOrder, NextWakeupOnItsWay, NextNoLostQuit DEF IInv

\* Where a step of EventLoop leaves the loop thread: it leaves the start only by EnterLoop,
\* reaches the end only by CheckQuit, which clears looping_ when quit_ is set, and never
\* leaves the end.  Only ClearQuit resets quit_.
LEMMA LoopMoves ==
  ASSUME IInv, Next, pc = "done" => ~looping /\ quit
  PROVE  /\ pc' = "done" => ~looping' /\ quit'
         /\ pc = "done" => pc' = "done"
         /\ quit => quit' \/ ClearQuit
<1> USE DEF IInv, TypeOK, flagVars
<1>1. CASE LoopStep
  BY <1>1 DEF LoopStep, EnterLoop, ClearQuit, CheckQuit, PollReturns, HandleRead, HandleEvent,
              HandleEventReturns, DispatchEnds, BeginPending, SwapPending, StartFunctor,
              FunctorReturns, EndPending
<1>2. CASE PollTimesOut \/ IoArrives
  BY <1>2 DEF PollTimesOut, IoArrives
<1>3. ASSUME NEW t \in AllThreads, Call(t) \/ CompleteCall(t)
      PROVE  pc' = pc /\ looping' = looping /\ (quit => quit')
  BY <1>3 DEF Call, CompleteCall, QueueInLoop, RunInLoop, Quit, QueueInLoopWakeup, QuitWakeup
<1> QED
  BY <1>1, <1>2, <1>3 DEF Next

\* A call by any thread leaves the loop thread where it is.
LEMMA CallsStay ==
  ASSUME NEW t \in AllThreads, Call(t) \/ CompleteCall(t)
  PROVE  Next /\ pc' = pc /\ looping' = looping /\ (quit => quit')
<1>1. pc' = pc /\ looping' = looping /\ (quit => quit')
  BY DEF Call, CompleteCall, QueueInLoop, RunInLoop, Quit, QueueInLoopWakeup, QuitWakeup,
         flagVars
<1> QED
  BY <1>1 DEF Next

\* The parts of the invariant about the loop follow for a step of EventLoop.
LEMMA LoopStepKeepsLoop ==
  ASSUME ThreadIInv, [Next]_vars, thread # "exited"
  PROVE  IInv' /\ LoopInvariant'
<1>1. IInv'
  BY LoopStepKeepsIInv DEF ThreadIInv, LoopInvariant
<1> QED
  BY <1>1 DEF IInv, LoopInvariant

\* Every step of the owner, of threadFunc and of the users keeps the invariant.
LEMMA ThreadInductive == ThreadIInv /\ [ThreadNext]_allVars => ThreadIInv'
<1> SUFFICES ASSUME ThreadIInv, [ThreadNext]_allVars PROVE ThreadIInv'
  OBVIOUS
<1> USE DEF ThreadIInv, ThreadTypes, ThreadControl, ThreadEndsFirst
<1>1. ASSUME UNCHANGED vars, thread # "exited"
      PROVE  LoopInvariant' /\ pc' = pc /\ looping' = looping /\ quit' = quit
  BY <1>1, LoopStepKeepsLoop DEF vars, flagVars
<1>2. CASE Publish
  BY <1>2, <1>1 DEF Publish
<1>3. CASE RunLoop
  <2>1. Next /\ thread = "loop" /\ UNCHANGED threadVars
    BY <1>3 DEF RunLoop, Next
  <2>2. LoopInvariant'
    BY <2>1, LoopStepKeepsLoop
  <2>3. (pc' = "done" => ~looping' /\ quit') /\ (pc = "done" => pc' = "done")
    BY <2>1, LoopMoves DEF LoopInvariant
  <2> QED
    BY <2>1, <2>2, <2>3 DEF threadVars
<1>4. CASE LoopThreadCalls
  <2>1. thread \in {"init", "loop"} /\ UNCHANGED threadVars
    BY <1>4 DEF LoopThreadCalls
  <2>2. Next /\ pc' = pc /\ looping' = looping /\ (quit => quit')
    BY <1>4, CallsStay DEF LoopThreadCalls, AllThreads
  <2> QED
    BY <2>1, <2>2, LoopStepKeepsLoop DEF threadVars
<1>5. CASE Unpublish
  <2>1. /\ thread = "loop" /\ pc = "done" /\ thread' = "returned" /\ loop_' = FALSE
        /\ UNCHANGED <<vars, owner, usedDead>>
    BY <1>5 DEF Unpublish
  <2>2. LoopInvariant' /\ pc' = pc /\ looping' = looping /\ quit' = quit
    BY <2>1, <1>1
  <2>3. ThreadTypes' /\ ThreadControl'
    BY <2>1, <2>2
  <2>4. ThreadEndsFirst'
    BY <2>1, <2>2
  <2> QED
    BY <2>2, <2>3, <2>4
<1>6. CASE DestroyLoop
  <2>1. thread = "returned" /\ thread' = "exited" /\ UNCHANGED <<vars, owner, loop_, usedDead>>
    BY <1>6 DEF DestroyLoop
  <2>2. LoopInvariant' /\ pc' = pc /\ looping' = looping /\ quit' = quit
    BY <2>1, <1>1
  <2> QED
    BY <2>1, <2>2
<1>7. CASE StartLoop
  BY <1>7, <1>1 DEF StartLoop
<1>8. CASE StartLoopReturns
  BY <1>8, <1>1 DEF StartLoopReturns
<1>9. ASSUME NEW t \in Threads, UseLoop(t) \/ FinishCall(t)
      PROVE  ThreadIInv'
  <2>1. thread # "exited" /\ UNCHANGED threadVars
    BY <1>9 DEF UseLoop, FinishCall
  <2>2. Next /\ pc' = pc /\ looping' = looping /\ (quit => quit')
    BY <1>9, CallsStay DEF UseLoop, FinishCall, AllThreads
  <2> QED
    BY <2>1, <2>2, LoopStepKeepsLoop DEF threadVars
<1>10. ASSUME NEW t \in Threads, UseDestroyed(t)
       PROVE  ThreadIInv'
  <2>1. /\ thread = "exited" /\ UNCHANGED <<owner, thread, loop_>> /\ usedDead' = TRUE
        /\ UNCHANGED <<pc, flagVars, queueVars, fdVars, countVars>>
        /\ op' = [op EXCEPT ![t] = "idle"]
    BY <1>10 DEF UseDestroyed
  <2>2. TypeOK'
    BY <2>1 DEF LoopInvariant, TypeOK, flagVars, queueVars, fdVars, countVars
  <2>3. FifoOrder'
    BY <2>1 DEF LoopInvariant, FifoOrder, flagVars, queueVars, fdVars, countVars
  <2> QED
    BY <2>1, <2>2, <2>3 DEF LoopInvariant, flagVars
<1>11. CASE Destructor
  <2>1. /\ owner \in {"new", "using"} /\ UNCHANGED <<vars, thread, loop_, usedDead>>
        /\ owner' = IF loop_ THEN "quitting" ELSE "joining"
    BY <1>11 DEF Destructor
  <2>2. LoopInvariant' /\ pc' = pc /\ looping' = looping /\ quit' = quit
    <3>1. CASE thread = "exited"
      BY <2>1, <3>1 DEF LoopInvariant, TypeOK, FifoOrder, vars, flagVars, queueVars, fdVars,
                        countVars
    <3> QED
      BY <2>1, <3>1, <1>1
  <2> QED
    BY <2>1, <2>2
<1>12. CASE DestructorQuit
  <2>1. owner = "quitting" /\ owner' = "joining" /\ UNCHANGED <<thread, loop_>>
    BY <1>12 DEF DestructorQuit
  <2>2. CASE thread = "exited"
    <3>1. usedDead' = TRUE /\ UNCHANGED vars
      BY <1>12, <2>2 DEF DestructorQuit
    <3>2. LoopInvariant' /\ pc' = pc /\ looping' = looping /\ quit' = quit
      BY <2>1, <2>2, <3>1 DEF LoopInvariant, TypeOK, FifoOrder, vars, flagVars, queueVars,
                              fdVars, countVars
    <3> QED
      BY <2>1, <2>2, <3>1, <3>2
  <2>3. CASE thread # "exited"
    <3>1. Quit(Owner) /\ UNCHANGED usedDead
      BY <1>12, <2>3 DEF DestructorQuit
    <3>2. Next /\ pc' = pc /\ looping' = looping /\ (quit => quit')
      BY <3>1, CallsStay DEF Call, AllThreads
    <3> QED
      BY <2>1, <2>3, <3>1, <3>2, LoopStepKeepsLoop
  <2> QED
    BY <2>2, <2>3
<1>13. CASE Join
  <2>1. /\ thread \in {"none", "exited"} /\ owner' = "gone"
        /\ UNCHANGED <<vars, thread, loop_, usedDead>>
    BY <1>13 DEF Join
  <2>2. LoopInvariant' /\ pc' = pc /\ looping' = looping /\ quit' = quit
    <3>1. CASE thread = "exited"
      BY <2>1, <3>1 DEF LoopInvariant, TypeOK, FifoOrder, vars, flagVars, queueVars, fdVars,
                        countVars
    <3> QED
      BY <2>1, <3>1, <1>1
  <2> QED
    BY <2>1, <2>2
<1>14. CASE KernelReports
  <2>1. Next /\ thread = "loop" /\ UNCHANGED threadVars /\ pc' = pc /\ looping' = looping
          /\ quit' = quit
    BY <1>14 DEF KernelReports, Next, IoArrives, flagVars
  <2> QED
    BY <2>1, LoopStepKeepsLoop DEF threadVars
<1>15. CASE UNCHANGED allVars
  BY <1>15 DEF allVars, threadVars, vars, LoopInvariant, IInv, TypeOK, FifoOrder, LoopControl,
               WakeupOnItsWay, NoLostQuit, flagVars, queueVars, fdVars, countVars
<1> QED
  BY <1>2, <1>3, <1>4, <1>5, <1>6, <1>7, <1>8, <1>9, <1>10, <1>11, <1>12, <1>13, <1>14, <1>15
     DEF ThreadNext, ThreadStep, OwnerStep

\* The invariant holds in every reachable state.
LEMMA ThreadInvariance == ThreadSpec => []ThreadIInv
  BY ThreadInitIInv, ThreadInductive, PTL DEF ThreadSpec

-----------------------------------------------------------------------------
(* The theorems. *)

\* Inside threadFunc, with users that may call in at any time and even too late, the loop
\* loses no wakeup and no quit and keeps its functors in order.
THEOREM ThreadKeepsPromises == ThreadSpec => []LoopServesItsThread
<1>1. ThreadIInv => LoopServesItsThread
  BY DEF ThreadIInv, ThreadControl, LoopInvariant, LoopServesItsThread, IInv, WakeupOnItsWay,
         NoLostWakeup, NoLostQuit
<1> QED
  BY <1>1, ThreadInvariance, PTL

\* The destructor never waits in join() for a thread that it did not tell to quit, or that
\* has not left loop() by itself; only quit_ = false at the start of loop() loses what it told.
THEOREM DestructorJoinsWhatWillStop == ThreadSpec => JoinsWhatWillStop
<1> DEFINE A == owner' = "joining" =>
                  \/ thread' = "none" \/ pc' = "done" \/ quit'
                  \/ ClearQuit
                  \/ owner = "joining" /\ ~quit
<1>1. ThreadIInv /\ [ThreadNext]_allVars => [A]_allVars
  <2> SUFFICES ASSUME ThreadIInv, ThreadNext, owner' = "joining",
                      owner = "joining" => quit
               PROVE  thread' = "none" \/ pc' = "done" \/ quit' \/ ClearQuit
    OBVIOUS
  <2> USE DEF ThreadIInv, ThreadTypes, ThreadControl
  <2>1. CASE owner = "joining"
    <3>1. quit => quit' \/ ClearQuit
      <4>1. CASE UNCHANGED quit
        BY <4>1
      <4>2. CASE RunLoop
        BY <4>2, LoopMoves DEF RunLoop, Next, LoopInvariant
      <4>3. CASE \E t \in AllThreads : Call(t) \/ CompleteCall(t)
        BY <4>3, CallsStay
      <4>4. \/ UNCHANGED quit \/ RunLoop
            \/ \E t \in AllThreads : Call(t) \/ CompleteCall(t)
        BY DEF ThreadNext, ThreadStep, OwnerStep, Publish, Unpublish, DestroyLoop,
               StartLoopReturns, DestructorQuit, Join, LoopThreadCalls, KernelReports,
               StartLoop, Destructor, UseLoop, FinishCall, UseDestroyed, IoArrives, Call,
               AllThreads, vars, flagVars
      <4> QED
        BY <4>1, <4>2, <4>3, <4>4
    <3> QED
      BY <2>1, <3>1
  <2>2. CASE Destructor
    <3>1. /\ ~loop_ /\ UNCHANGED <<vars, thread>>
          /\ owner = "using" \/ owner = "new"
      BY <2>2 DEF Destructor
    <3>2. pc' = pc
      BY <3>1 DEF vars
    <3> QED
      BY <3>1, <3>2
  <2>3. CASE DestructorQuit
    <3>1. CASE thread = "exited"
      BY <2>3, <3>1 DEF DestructorQuit, vars
    <3>2. CASE thread # "exited"
      BY <2>3, <3>2 DEF DestructorQuit, Quit
    <3> QED
      BY <3>1, <3>2
  <2>4. Destructor \/ DestructorQuit \/ owner = "joining"
    BY DEF ThreadNext, ThreadStep, OwnerStep, Publish, RunLoop, Unpublish, DestroyLoop,
           StartLoopReturns, Join, LoopThreadCalls, KernelReports,
           StartLoop, UseLoop, FinishCall, UseDestroyed, threadVars
  <2> QED
    BY <2>1, <2>2, <2>3, <2>4
<1> QED
  BY <1>1, ThreadInvariance, PTL DEF ThreadSpec, JoinsWhatWillStop

\* The EventLoop is destroyed after loop() returned, the EventLoopThread after its thread, and
\* nobody uses a destroyed EventLoop unless somebody called quit() on it.
THEOREM EndsInOrder == ThreadSpec => []ThreadEndsFirst
<1>1. ThreadIInv => ThreadEndsFirst
  BY DEF ThreadIInv
<1> QED
  BY <1>1, ThreadInvariance, PTL
==============================================================================
