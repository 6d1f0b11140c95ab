------------------------------ MODULE TaskQueue ------------------------------
(****************************************************************************)
(* What EventLoop promises to whoever calls queueInLoop: one FIFO queue of  *)
(* tasks, each of them started at most once, one at a time, in the order in *)
(* which the calls took the mutex, whatever thread made the call; after the *)
(* loop has stopped no further task starts.                                 *)
(****************************************************************************)
EXTENDS Naturals, Sequences

VARIABLES queue,    \* tasks accepted and not yet started, oldest first
          current,  \* the task that is running, 0 if none
          accepted, \* number of tasks accepted so far; also the last task's name
          closed    \* the loop has returned

taskVars == <<queue, current, accepted, closed>>

Init == queue = <<>> /\ current = 0 /\ accepted = 0 /\ closed = FALSE

Accept == /\ accepted' = accepted + 1
          /\ queue' = Append(queue, accepted + 1)
          /\ UNCHANGED <<current, closed>>

Start == /\ ~closed /\ current = 0 /\ queue # <<>>
         /\ current' = Head(queue)
         /\ queue' = Tail(queue)
         /\ UNCHANGED <<accepted, closed>>

Finish == /\ current # 0
          /\ current' = 0
          /\ UNCHANGED <<queue, accepted, closed>>

Close == /\ ~closed /\ current = 0
         /\ closed' = TRUE
         /\ UNCHANGED <<queue, current, accepted>>

Next == Accept \/ Start \/ Finish \/ Close

Spec == Init /\ [][Next]_taskVars
==============================================================================
