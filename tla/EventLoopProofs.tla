--------------------------- MODULE EventLoopProofs ---------------------------
(****************************************************************************)
(* Proofs about EventLoop for any set of foreign threads and any bounds:    *)
(* type correctness, no lost wakeup, no lost quit, FIFO order, batches that *)
(* never grow, and that EventLoop implements TaskQueue.                     *)
(****************************************************************************)
EXTENDS EventLoop, TLAPS

-----------------------------------------------------------------------------
(* The inductive invariant. *)

\* The local control state of the loop thread: which flags and vectors can be
\* set at which line.
LoopControl ==
  /\ calling <=> pc \in {"swap", "run", "functor"}
  /\ running # 0 <=> pc = "functor"
  /\ functors # <<>> => pc \in {"run", "functor"}
  /\ op[LoopThread] # "quitting"
  /\ op[LoopThread] = "pushed" => pc \in {"start", "event", "functor"}

\* NoLostWakeup at every line from which epoll_wait is reached without passing
\* the swap: whatever is pending is early or has a wakeup on its way.
WakeupOnItsWay ==
  pc \notin {"dispatch", "event", "begin", "swap"} =>
    \/ wakeupFd
    \/ \E t \in Threads : op[t] = "pushed"
    \/ pc = "functor" /\ op[LoopThread] = "pushed"
    \/ \A i \in DOMAIN pending : pending[i] \in early

IInv == TypeOK /\ LoopControl /\ FifoOrder /\ WakeupOnItsWay /\ NoLostQuit

USE LoopThreadAssumption, BoundsAssumption

-----------------------------------------------------------------------------
\* The freshly constructed EventLoop satisfies the invariant.
LEMMA InitIInv == Init => IInv
<1> SUFFICES ASSUME Init PROVE IInv
  OBVIOUS
<1> USE DEF Init
<1>1. TypeOK
  <2>1. pc \in Locations /\ active \in SUBSET Channels
    BY DEF Locations
  <2>2. op \in [AllThreads -> {"idle", "pushed", "quitting"}]
    OBVIOUS
  <2>3. /\ looping \in BOOLEAN /\ quit \in BOOLEAN /\ calling \in BOOLEAN
        /\ wakeupFd \in BOOLEAN /\ ioReady \in BOOLEAN
    OBVIOUS
  <2>4. pending \in Seq(Nat) /\ functors \in Seq(Nat) /\ running \in Nat
    OBVIOUS
  <2>5. /\ submitted \in 0..MaxTasks /\ started \in 0..MaxTasks
        /\ inlined \in 0..MaxInline /\ early \in SUBSET (1..MaxTasks)
    OBVIOUS
  <2> QED
    BY <2>1, <2>2, <2>3, <2>4, <2>5 DEF TypeOK
<1>2. LoopControl
  BY DEF LoopControl, AllThreads
<1>3. FifoOrder
  BY DEF FifoOrder
<1>4. WakeupOnItsWay /\ NoLostQuit
  BY DEF WakeupOnItsWay, NoLostQuit
<1> QED
  BY <1>1, <1>2, <1>3, <1>4 DEF IInv

\* Every step of every thread keeps the types.
LEMMA NextTypeOK == IInv /\ [Next]_vars => TypeOK'
<1> SUFFICES ASSUME IInv, [Next]_vars PROVE TypeOK'
  OBVIOUS
<1> USE DEF IInv, TypeOK, LoopControl, FifoOrder, Locations, Channels,
           vars, flagVars, queueVars, fdVars, countVars
<1>1. CASE EnterLoop
  BY <1>1 DEF EnterLoop
<1>2. CASE ClearQuit
  BY <1>2 DEF ClearQuit
<1>3. CASE CheckQuit
  BY <1>3 DEF CheckQuit
<1>4. CASE PollReturns
  BY <1>4 DEF PollReturns
<1>5. CASE PollTimesOut
  BY <1>5 DEF PollTimesOut
<1>6. CASE HandleRead
  BY <1>6 DEF HandleRead
<1>7. CASE HandleEvent
  BY <1>7 DEF HandleEvent
<1>8. CASE HandleEventReturns
  BY <1>8 DEF HandleEventReturns
<1>9. CASE DispatchEnds
  BY <1>9 DEF DispatchEnds
<1>10. CASE BeginPending
  BY <1>10 DEF BeginPending
<1>11. CASE SwapPending
  BY <1>11 DEF SwapPending
<1>12. CASE StartFunctor
  BY <1>12 DEF StartFunctor
<1>13. CASE FunctorReturns
  BY <1>13 DEF FunctorReturns
<1>14. CASE EndPending
  BY <1>14 DEF EndPending
<1>15. CASE IoArrives
  BY <1>15 DEF IoArrives
<1>16. ASSUME NEW t \in AllThreads, QueueInLoop(t) PROVE TypeOK'
  <2> USE <1>16 DEF QueueInLoop
  <2>1. submitted' \in 0..MaxTasks /\ submitted + 1 \in 1..MaxTasks
    OBVIOUS
  <2>2. pending' \in Seq(Nat)
    OBVIOUS
  <2>3. early' \in SUBSET (1..MaxTasks)
    BY <2>1
  <2>4. op' \in [AllThreads -> {"idle", "pushed", "quitting"}]
    OBVIOUS
  <2> QED
    BY <2>1, <2>2, <2>3, <2>4
<1>17. ASSUME NEW t \in AllThreads, QueueInLoopWakeup(t) PROVE TypeOK'
  BY <1>17 DEF QueueInLoopWakeup, wakeup, isInLoopThread, InUserCode, AllThreads
<1>18. ASSUME NEW t \in AllThreads, Quit(t) PROVE TypeOK'
  BY <1>18 DEF Quit, isInLoopThread, InUserCode, AllThreads
<1>19. ASSUME NEW t \in AllThreads, QuitWakeup(t) PROVE TypeOK'
  BY <1>19 DEF QuitWakeup, wakeup, isInLoopThread, InUserCode, AllThreads
<1>20. ASSUME NEW t \in AllThreads, RunInLoop(t), isInLoopThread(t) PROVE TypeOK'
  <2>1. inlined' \in 0..MaxInline
    BY <1>20 DEF RunInLoop
  <2> QED
    BY <1>20, <2>1 DEF RunInLoop
<1>21. CASE UNCHANGED vars
  BY <1>21
<1> QED
  BY <1>1, <1>2, <1>3, <1>4, <1>5, <1>6, <1>7, <1>8, <1>9, <1>10, <1>11,
     <1>12, <1>13, <1>14, <1>15, <1>16, <1>17, <1>18, <1>19, <1>20, <1>21
     DEF Next, LoopStep, Call, CompleteCall, RunInLoop

\* Every step keeps the loop thread's flags and vectors in line with its place in
\* loop() and doPendingFunctors().
LEMMA NextLoopControl == IInv /\ [Next]_vars => LoopControl'
<1> SUFFICES ASSUME IInv, [Next]_vars PROVE LoopControl'
  OBVIOUS
<1> USE DEF IInv, TypeOK, LoopControl, FifoOrder,
           vars, flagVars, queueVars, fdVars, countVars
<1>1. CASE EnterLoop
  BY <1>1 DEF EnterLoop
<1>2. CASE ClearQuit
  BY <1>2 DEF ClearQuit
<1>3. CASE CheckQuit
  BY <1>3 DEF CheckQuit
<1>4. CASE PollReturns
  BY <1>4 DEF PollReturns
<1>5. CASE PollTimesOut
  BY <1>5 DEF PollTimesOut
<1>6. CASE HandleRead
  BY <1>6 DEF HandleRead
<1>7. CASE HandleEvent
  BY <1>7 DEF HandleEvent
<1>8. CASE HandleEventReturns
  BY <1>8 DEF HandleEventReturns
<1>9. CASE DispatchEnds
  BY <1>9 DEF DispatchEnds
<1>10. CASE BeginPending
  BY <1>10 DEF BeginPending
<1>11. CASE SwapPending
  BY <1>11 DEF SwapPending
<1>12. CASE StartFunctor
  <2>1. functors # <<>> /\ pc' = "functor" /\ running' = Head(functors)
          /\ UNCHANGED <<op, flagVars>> /\ pc = "run"
    BY <1>12 DEF StartFunctor
  <2>2. 1 \in 1..Len(functors) /\ Head(functors) = functors[1]
    BY <2>1
  <2>3. running' # 0
    BY <2>1, <2>2
  <2> QED
    BY <2>1, <2>3
<1>13. CASE FunctorReturns
  BY <1>13 DEF FunctorReturns
<1>14. CASE EndPending
  BY <1>14 DEF EndPending
<1>15. CASE IoArrives
  BY <1>15 DEF IoArrives
<1>16. ASSUME NEW t \in AllThreads, QueueInLoop(t) PROVE LoopControl'
  BY <1>16 DEF QueueInLoop, isInLoopThread, InUserCode, AllThreads
<1>17. ASSUME NEW t \in AllThreads, QueueInLoopWakeup(t) PROVE LoopControl'
  BY <1>17 DEF QueueInLoopWakeup, wakeup, isInLoopThread, InUserCode, AllThreads
<1>18. ASSUME NEW t \in AllThreads, Quit(t) PROVE LoopControl'
  BY <1>18 DEF Quit, isInLoopThread, InUserCode, AllThreads
<1>19. ASSUME NEW t \in AllThreads, QuitWakeup(t) PROVE LoopControl'
  BY <1>19 DEF QuitWakeup, wakeup, isInLoopThread, InUserCode, AllThreads
<1>20. ASSUME NEW t \in AllThreads, RunInLoop(t), isInLoopThread(t) PROVE LoopControl'
  BY <1>20 DEF RunInLoop
<1>21. CASE UNCHANGED vars
  BY <1>21
<1> QED
  BY <1>1, <1>2, <1>3, <1>4, <1>5, <1>6, <1>7, <1>8, <1>9, <1>10, <1>11,
     <1>12, <1>13, <1>14, <1>15, <1>16, <1>17, <1>18, <1>19, <1>20, <1>21
     DEF Next, LoopStep, Call, CompleteCall, RunInLoop

\* Push, swap and start keep the functors in order, without loss or repetition.
LEMMA NextFifoOrder == IInv /\ [Next]_vars => FifoOrder'
<1> SUFFICES ASSUME IInv, [Next]_vars PROVE FifoOrder'
  OBVIOUS
<1> USE DEF IInv, TypeOK, LoopControl, FifoOrder,
           vars, flagVars, queueVars, fdVars, countVars
<1>1. CASE EnterLoop
  BY <1>1 DEF EnterLoop
<1>2. CASE ClearQuit
  BY <1>2 DEF ClearQuit
<1>3. CASE CheckQuit
  BY <1>3 DEF CheckQuit
<1>4. CASE PollReturns
  BY <1>4 DEF PollReturns
<1>5. CASE PollTimesOut
  BY <1>5 DEF PollTimesOut
<1>6. CASE HandleRead
  BY <1>6 DEF HandleRead
<1>7. CASE HandleEvent
  BY <1>7 DEF HandleEvent
<1>8. CASE HandleEventReturns
  BY <1>8 DEF HandleEventReturns
<1>9. CASE DispatchEnds
  BY <1>9 DEF DispatchEnds
<1>10. CASE BeginPending
  BY <1>10 DEF BeginPending
<1>11. CASE SwapPending
  <2>1. functors = <<>> /\ functors' = pending /\ pending' = <<>>
    BY <1>11 DEF SwapPending
  <2>2. Len(functors) = 0 /\ Len(pending') = 0
    BY <2>1
  <2> QED
    BY <1>11, <2>1, <2>2 DEF SwapPending
<1>12. CASE StartFunctor
  BY <1>12 DEF StartFunctor
<1>13. CASE FunctorReturns
  BY <1>13 DEF FunctorReturns
<1>14. CASE EndPending
  BY <1>14 DEF EndPending
<1>15. CASE IoArrives
  BY <1>15 DEF IoArrives
<1>16. ASSUME NEW t \in AllThreads, QueueInLoop(t) PROVE FifoOrder'
  <2> USE <1>16 DEF QueueInLoop
  <2>1. Len(pending') = Len(pending) + 1
    OBVIOUS
  <2>2. \A i \in 1..Len(pending) : pending'[i] = pending[i]
    OBVIOUS
  <2>3. pending'[Len(pending) + 1] = submitted + 1
    OBVIOUS
  <2>4. submitted' = submitted + 1 /\ UNCHANGED <<pc, functors, running, started>>
    OBVIOUS
  <2>5. /\ Len(pending) \in Nat /\ Len(functors) \in Nat
        /\ started \in Nat /\ submitted \in Nat
    OBVIOUS
  <2>6. FifoOrder
    OBVIOUS
  <2> HIDE <1>16 DEF QueueInLoop, IInv, TypeOK, LoopControl, FifoOrder
  <2>7. submitted' = started' + Len(functors') + Len(pending')
    BY <2>1, <2>4, <2>5, <2>6 DEF FifoOrder
  <2>8. \A i \in 1..Len(pending') : pending'[i] = started + Len(functors) + i
    <3>1. \A i \in 1..Len(pending) : pending'[i] = started + Len(functors) + i
      BY <2>2, <2>6 DEF FifoOrder
    <3>2. pending'[Len(pending) + 1] = started + Len(functors) + (Len(pending) + 1)
      BY <2>3, <2>5, <2>6 DEF FifoOrder
    <3>3. \A i \in 1..Len(pending') : i \in 1..Len(pending) \/ i = Len(pending) + 1
      BY <2>1, <2>5
    <3> QED
      BY <3>1, <3>2, <3>3
  <2> QED
    BY <2>4, <2>6, <2>7, <2>8 DEF FifoOrder
<1>17. ASSUME NEW t \in AllThreads, QueueInLoopWakeup(t) PROVE FifoOrder'
  BY <1>17 DEF QueueInLoopWakeup, wakeup, isInLoopThread, InUserCode, AllThreads
<1>18. ASSUME NEW t \in AllThreads, Quit(t) PROVE FifoOrder'
  BY <1>18 DEF Quit, isInLoopThread, InUserCode, AllThreads
<1>19. ASSUME NEW t \in AllThreads, QuitWakeup(t) PROVE FifoOrder'
  BY <1>19 DEF QuitWakeup, wakeup, isInLoopThread, InUserCode, AllThreads
<1>20. ASSUME NEW t \in AllThreads, RunInLoop(t), isInLoopThread(t) PROVE FifoOrder'
  BY <1>20 DEF RunInLoop
<1>21. CASE UNCHANGED vars
  BY <1>21
<1> QED
  BY <1>1, <1>2, <1>3, <1>4, <1>5, <1>6, <1>7, <1>8, <1>9, <1>10, <1>11,
     <1>12, <1>13, <1>14, <1>15, <1>16, <1>17, <1>18, <1>19, <1>20, <1>21
     DEF Next, LoopStep, Call, CompleteCall, RunInLoop

\* Every step that leaves something pending leaves a wakeup for it: the push keeps
\* its thread in the middle of queueInLoop until the eventfd is written, and the
\* read that empties the eventfd is followed by the swap.
LEMMA NextWakeupOnItsWay == IInv /\ [Next]_vars => WakeupOnItsWay'
<1> SUFFICES ASSUME IInv, [Next]_vars PROVE WakeupOnItsWay'
  OBVIOUS
<1> USE DEF IInv, TypeOK, LoopControl, WakeupOnItsWay,
           vars, flagVars, queueVars, fdVars, countVars
<1>1. CASE EnterLoop
  BY <1>1 DEF EnterLoop
<1>2. CASE ClearQuit
  BY <1>2 DEF ClearQuit
<1>3. CASE CheckQuit
  BY <1>3 DEF CheckQuit
<1>4. CASE PollReturns
  BY <1>4 DEF PollReturns
<1>5. CASE PollTimesOut
  BY <1>5 DEF PollTimesOut
<1>6. CASE HandleRead
  BY <1>6 DEF HandleRead
<1>7. CASE HandleEvent
  BY <1>7 DEF HandleEvent
<1>8. CASE HandleEventReturns
  BY <1>8 DEF HandleEventReturns
<1>9. CASE DispatchEnds
  BY <1>9 DEF DispatchEnds
<1>10. CASE BeginPending
  BY <1>10 DEF BeginPending
<1>11. CASE SwapPending
  BY <1>11 DEF SwapPending
<1>12. CASE StartFunctor
  BY <1>12 DEF StartFunctor
<1>13. CASE FunctorReturns
  BY <1>13 DEF FunctorReturns
<1>14. CASE EndPending
  BY <1>14 DEF EndPending
<1>15. CASE IoArrives
  BY <1>15 DEF IoArrives
<1>16. ASSUME NEW t \in AllThreads, QueueInLoop(t) PROVE WakeupOnItsWay'
  BY <1>16 DEF QueueInLoop, isInLoopThread, InUserCode, AllThreads
<1>17. ASSUME NEW t \in AllThreads, QueueInLoopWakeup(t) PROVE WakeupOnItsWay'
  BY <1>17 DEF QueueInLoopWakeup, wakeup, isInLoopThread, InUserCode, AllThreads
<1>18. ASSUME NEW t \in AllThreads, Quit(t) PROVE WakeupOnItsWay'
  BY <1>18 DEF Quit, isInLoopThread, InUserCode, AllThreads
<1>19. ASSUME NEW t \in AllThreads, QuitWakeup(t) PROVE WakeupOnItsWay'
  BY <1>19 DEF QuitWakeup, wakeup, isInLoopThread, InUserCode, AllThreads
<1>20. ASSUME NEW t \in AllThreads, RunInLoop(t), isInLoopThread(t) PROVE WakeupOnItsWay'
  BY <1>20 DEF RunInLoop
<1>21. CASE UNCHANGED vars
  BY <1>21
<1> QED
  BY <1>1, <1>2, <1>3, <1>4, <1>5, <1>6, <1>7, <1>8, <1>9, <1>10, <1>11,
     <1>12, <1>13, <1>14, <1>15, <1>16, <1>17, <1>18, <1>19, <1>20, <1>21
     DEF Next, LoopStep, Call, CompleteCall, RunInLoop

\* Every store to quit_ by a foreign thread is followed by its wakeup; the eventfd
\* is emptied only at a place from which quit_ is tested before epoll_wait.
LEMMA NextNoLostQuit == IInv /\ [Next]_vars => NoLostQuit'
<1> SUFFICES ASSUME IInv, [Next]_vars PROVE NoLostQuit'
  OBVIOUS
<1> USE DEF IInv, TypeOK, LoopControl, NoLostQuit,
           vars, flagVars, queueVars, fdVars, countVars
<1>1. CASE EnterLoop
  BY <1>1 DEF EnterLoop
<1>2. CASE ClearQuit
  BY <1>2 DEF ClearQuit
<1>3. CASE CheckQuit
  BY <1>3 DEF CheckQuit
<1>4. CASE PollReturns
  BY <1>4 DEF PollReturns
<1>5. CASE PollTimesOut
  BY <1>5 DEF PollTimesOut
<1>6. CASE HandleRead
  BY <1>6 DEF HandleRead
<1>7. CASE HandleEvent
  BY <1>7 DEF HandleEvent
<1>8. CASE HandleEventReturns
  BY <1>8 DEF HandleEventReturns
<1>9. CASE DispatchEnds
  BY <1>9 DEF DispatchEnds
<1>10. CASE BeginPending
  BY <1>10 DEF BeginPending
<1>11. CASE SwapPending
  BY <1>11 DEF SwapPending
<1>12. CASE StartFunctor
  BY <1>12 DEF StartFunctor
<1>13. CASE FunctorReturns
  BY <1>13 DEF FunctorReturns
<1>14. CASE EndPending
  BY <1>14 DEF EndPending
<1>15. CASE IoArrives
  BY <1>15 DEF IoArrives
<1>16. ASSUME NEW t \in AllThreads, QueueInLoop(t) PROVE NoLostQuit'
  BY <1>16 DEF QueueInLoop, isInLoopThread, InUserCode, AllThreads
<1>17. ASSUME NEW t \in AllThreads, QueueInLoopWakeup(t) PROVE NoLostQuit'
  BY <1>17 DEF QueueInLoopWakeup, wakeup, isInLoopThread, InUserCode, AllThreads
<1>18. ASSUME NEW t \in AllThreads, Quit(t) PROVE NoLostQuit'
  BY <1>18 DEF Quit, isInLoopThread, InUserCode, AllThreads
<1>19. ASSUME NEW t \in AllThreads, QuitWakeup(t) PROVE NoLostQuit'
  BY <1>19 DEF QuitWakeup, wakeup, isInLoopThread, InUserCode, AllThreads
<1>20. ASSUME NEW t \in AllThreads, RunInLoop(t), isInLoopThread(t) PROVE NoLostQuit'
  BY <1>20 DEF RunInLoop
<1>21. CASE UNCHANGED vars
  BY <1>21
<1> QED
  BY <1>1, <1>2, <1>3, <1>4, <1>5, <1>6, <1>7, <1>8, <1>9, <1>10, <1>11,
     <1>12, <1>13, <1>14, <1>15, <1>16, <1>17, <1>18, <1>19, <1>20, <1>21
     DEF Next, LoopStep, Call, CompleteCall, RunInLoop

-----------------------------------------------------------------------------
(* The theorems. *)

\* The strengthened invariant holds in every state EventLoop.cc can reach.
THEOREM Invariance == Spec => []IInv
<1>1. IInv /\ [Next]_vars => IInv'
  BY NextTypeOK, NextLoopControl, NextFifoOrder, NextWakeupOnItsWay, NextNoLostQuit
     DEF IInv
<1> QED
  BY InitIInv, <1>1, PTL DEF Spec

\* Type correctness of the EventLoop model, for any set of threads.
THEOREM TypeCorrect == Spec => []TypeOK
  BY Invariance, PTL DEF IInv

\* No functor queued from another thread or from a callback sleeps in
\* pendingFunctors_ while the loop is in epoll_wait with nothing to wake it.
THEOREM WakeupNeverLost == Spec => []NoLostWakeup
<1>1. IInv => NoLostWakeup
  BY DEF IInv, WakeupOnItsWay, NoLostWakeup
<1> QED
  BY Invariance, <1>1, PTL

\* quit() by another thread never leaves the loop asleep in epoll_wait.
THEOREM QuitNeverLost == Spec => []NoLostQuit
  BY Invariance, PTL DEF IInv

\* The functors started, batched and pending are all those queued, in order.
THEOREM FunctorsInOrder == Spec => []FifoOrder
  BY Invariance, PTL DEF IInv

\* doPendingFunctors works through the batch it swapped out and no more.
THEOREM BatchBounded == Spec => BatchNeverGrows
<1>1. IInv /\ [Next]_vars => [BatchOnlyShrinks]_vars
  <2> SUFFICES ASSUME IInv, Next, pc \in {"run", "functor"} PROVE BatchOnlyShrinks
    BY DEF BatchOnlyShrinks
  <2>1. functors \in Seq(Nat) /\ Len(functors) \in Nat
    BY DEF IInv, TypeOK
  <2>2. CASE functors' = functors
    BY <2>1, <2>2 DEF BatchOnlyShrinks
  <2>3. CASE StartFunctor
    <3>1. functors # <<>> /\ functors' = Tail(functors)
      BY <2>3 DEF StartFunctor
    <3>2. /\ Len(functors') = Len(functors) - 1
          /\ \A i \in 1..Len(functors') :
               i + 1 \in 1..Len(functors) /\ functors'[i] = functors[i + 1]
      BY <2>1, <3>1
    <3> QED
      BY <2>1, <3>2 DEF BatchOnlyShrinks
  <2>4. functors' = functors \/ StartFunctor
    BY DEF Next, LoopStep, Call, CompleteCall, EnterLoop, ClearQuit, CheckQuit,
      PollReturns, PollTimesOut, HandleRead, HandleEvent, HandleEventReturns,
      DispatchEnds, BeginPending, SwapPending, FunctorReturns, EndPending, IoArrives,
      QueueInLoop, QueueInLoopWakeup, RunInLoop, Quit, QuitWakeup, queueVars
  <2> QED
    BY <2>2, <2>3, <2>4
<1> QED
  BY Invariance, <1>1, PTL DEF Spec, BatchNeverGrows

-----------------------------------------------------------------------------
(* EventLoop implements TaskQueue. *)

\* queueInLoop appends to the queue that callers see.
LEMMA ConcatAppend ==
  ASSUME NEW s \in Seq(Nat), NEW u \in Seq(Nat), NEW x \in Nat
  PROVE  s \o Append(u, x) = Append(s \o u, x)
  OBVIOUS

\* The next functor of a batch is the head of the queue that callers see.
LEMMA ConcatHeadTail ==
  ASSUME NEW s \in Seq(Nat), NEW u \in Seq(Nat), s # <<>>
  PROVE  /\ s \o u # <<>>
         /\ Head(s \o u) = Head(s)
         /\ Tail(s \o u) = Tail(s) \o u
  OBVIOUS

\* The swap does not change the queue that callers see.
LEMMA ConcatEmpty ==
  ASSUME NEW s \in Seq(Nat)
  PROVE  s \o <<>> = s /\ <<>> \o s = s
  OBVIOUS

\* Every step of the EventLoop is a step of the FIFO task queue, or leaves the
\* queue that callers see as it is: a functor queued by any thread is accepted
\* once, started once, in order, and never after loop() has returned.
THEOREM Refinement == Spec => ImplementsTaskQueue
<1> DEFINE Q == functors \o pending
<1>1. Init => Tasks!Init
  <2> SUFFICES ASSUME Init PROVE Tasks!Init
    OBVIOUS
  <2>1. functors = <<>> /\ pending = <<>>
    BY DEF Init
  <2>2. Q = <<>>
    BY <2>1
  <2> QED
    BY <2>2 DEF Init, Tasks!Init
<1>2. IInv /\ [Next]_vars => [Tasks!Next]_Tasks!taskVars
  <2> SUFFICES ASSUME IInv, [Next]_vars PROVE [Tasks!Next]_Tasks!taskVars
    OBVIOUS
  <2> USE DEF vars, flagVars, queueVars, fdVars, countVars
  <2>1. pending \in Seq(Nat) /\ functors \in Seq(Nat) /\ submitted \in Nat
    BY DEF IInv, TypeOK
  <2>2. running # 0 <=> pc = "functor"
    BY DEF IInv, LoopControl
  <2>3. ASSUME NEW t \in AllThreads, QueueInLoop(t) PROVE Tasks!Accept
    <3>1. Q' = Append(Q, submitted + 1)
      BY <2>1, <2>3, ConcatAppend DEF QueueInLoop
    <3> QED
      BY <2>3, <3>1 DEF QueueInLoop, Tasks!Accept
  <2>4. CASE StartFunctor
    <3>1. Q # <<>> /\ Head(Q) = Head(functors) /\ Q' = Tail(Q)
      BY <2>1, <2>4, ConcatHeadTail DEF StartFunctor
    <3>2. Tasks!Start
      BY <2>2, <2>4, <3>1 DEF StartFunctor, Tasks!Start
    <3> QED
      BY <3>2 DEF Tasks!Next
  <2>5. CASE FunctorReturns
    <3>1. Tasks!Finish
      BY <2>2, <2>5 DEF FunctorReturns, Tasks!Finish
    <3> QED
      BY <3>1 DEF Tasks!Next
  <2>6. CASE CheckQuit
    <3>1. CASE quit
      <4>1. Tasks!Close
        BY <2>2, <2>6, <3>1 DEF CheckQuit, Tasks!Close
      <4> QED
        BY <4>1 DEF Tasks!Next
    <3>2. CASE ~quit
      BY <2>6, <3>2 DEF CheckQuit, Tasks!taskVars
    <3> QED
      BY <3>1, <3>2
  <2>7. CASE SwapPending
    <3>1. functors = <<>> /\ functors' = pending /\ pending' = <<>>
      BY <2>7 DEF SwapPending, IInv, LoopControl
    <3>2. Q' = Q
      BY <2>1, <3>1, ConcatEmpty
    <3> QED
      BY <2>7, <3>2 DEF SwapPending, Tasks!taskVars
  <2>8. ASSUME /\ UNCHANGED <<functors, pending, running, submitted>>
               /\ pc' = "done" <=> pc = "done"
        PROVE  UNCHANGED Tasks!taskVars
    BY <2>8 DEF Tasks!taskVars
  <2>9. CASE UNCHANGED vars \/ IoArrives \/ EnterLoop \/ ClearQuit \/ PollReturns
             \/ PollTimesOut \/ HandleRead \/ HandleEvent \/ HandleEventReturns
             \/ DispatchEnds \/ BeginPending \/ EndPending
    BY <2>8, <2>9 DEF IoArrives, EnterLoop, ClearQuit, PollReturns, PollTimesOut,
       HandleRead, HandleEvent, HandleEventReturns, DispatchEnds, BeginPending, EndPending
  <2>10. ASSUME NEW t \in AllThreads,
                \/ RunInLoop(t) /\ isInLoopThread(t)
                \/ Quit(t) \/ QueueInLoopWakeup(t) \/ QuitWakeup(t)
         PROVE  UNCHANGED Tasks!taskVars
    BY <2>8, <2>10 DEF RunInLoop, Quit, QueueInLoopWakeup, QuitWakeup
  <2> QED
    BY <2>3, <2>4, <2>5, <2>6, <2>7, <2>9, <2>10
       DEF Next, LoopStep, Call, CompleteCall, RunInLoop, Tasks!Next
<1> QED
  BY Invariance, <1>1, <1>2, PTL DEF Spec, ImplementsTaskQueue, Tasks!Spec
==============================================================================
