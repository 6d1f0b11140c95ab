---------------------------- MODULE TcpConnection ----------------------------
(****************************************************************************)
(* One TcpConnection (src/src/net/TcpConnection.cc) with what surrounds it: *)
(* the loop it lives in, the TcpServer whose connections_ holds it and      *)
(* whose loop may be another thread, application threads that hold a        *)
(* TcpConnectionPtr, the socket and the peer.                               *)
(*                                                                          *)
(* state_ is a plain member that any thread reads and shutdown() writes:    *)
(* in a foreign thread the test of state_, the store to it and the queueing *)
(* of the functor are separate steps.  A handler of the loop thread touches *)
(* state_ once, so it is one step.                                          *)
(****************************************************************************)
EXTENDS Naturals, Sequences, FiniteSets

CONSTANTS LoopThread, \* application code run by the connection's loop
          Users,      \* other application threads
          Senders,    \* those of all these that call send()
          Shutters,   \* those that call shutdown()
          MessageLength, \* bytes of a message
          MaxSends    \* bound: calls of send() that pass its test

Threads == Users \cup {LoopThread}

ASSUME ThreadsAssumption ==
  /\ LoopThread \notin Users
  /\ Senders \subseteq Threads /\ Shutters \subseteq Threads
ASSUME LengthAssumption == MessageLength \in Nat \ {0} /\ MaxSends \in Nat

VARIABLES
  oneLoop,   \* getNextLoop returned the server's own loop
  state,     \* state_
  events,    \* events_ of channel_
  added,     \* channel_ is kAdded: the kernel watches the socket
  output,    \* the readable bytes of outputBuffer_
  calls,     \* callbacks that the channel's handleEvent has still to make
  functors,  \* pendingFunctors_ of the loop, those of this connection
  removals,  \* removeConnectionInLoop functors pending in the server's loop
  inMap,     \* connections_ holds the connection
  holders,   \* threads with a TcpConnectionPtr of their own
  op,        \* op[u]: the call that thread u is in the middle of
  sock,      \* bytes the kernel took
  fin,       \* SHUT_WR was done
  peer,      \* "open", "closed" (its FIN has come) or "reset"
  sent,      \* number of messages that send() let through; the last one's name
  sentBy,    \* sentBy[t]: those of thread t
  taken,     \* bytes that sendInLoop wrote or buffered
  closes,    \* number of times handleClose ran
  removed,   \* connectDestroyed has run
  overwritten, \* shutdown() of another thread replaced kDisconnected
  usedDead   \* a functor ran on the destroyed object

connVars == <<oneLoop, state, events, added, output>>
ownVars == <<removals, inMap, holders>>
sockVars == <<sock, fin, peer>>
ghostVars == <<sentBy, taken, closes, removed, overwritten, usedDead>>
vars == <<connVars, calls, functors, ownVars, op, sockVars, sent, ghostVars>>

Owning == {"established", "complete", "destroyed"}
Functor(call) == [call |-> call, message |-> 0]

\* Some TcpConnectionPtr exists.  The functors of send() and shutdown() are bound
\* to a plain this.  The pointer of a functor counts until the functor has run; the
\* vector of doPendingFunctors keeps it until the batch ends, which is later by what
\* the rest of the batch does.
Alive ==
  inMap \/ holders # {} \/ removals > 0 \/
  \E i \in DOMAIN functors : functors[i].call \in Owning

Message(m) == [i \in 1..MessageLength |-> <<m, i>>]

\* newConnection up to connectEstablished, which the connection's loop runs first.
Init ==
  /\ oneLoop \in BOOLEAN /\ state = "kConnecting" /\ events = {} /\ added = FALSE /\ output = <<>>
  /\ calls = <<>> /\ functors = <<Functor("established")>>
  /\ removals = 0 /\ inMap = TRUE /\ holders = {}
  /\ op = [u \in Users |-> "idle"]
  /\ sock = <<>> /\ fin = FALSE /\ peer = "open"
  /\ sent = 0 /\ sentBy = [t \in Threads |-> {}]
  /\ taken = <<>> /\ closes = 0 /\ removed = FALSE /\ overwritten = FALSE
  /\ usedDead = FALSE

-----------------------------------------------------------------------------
(* Helpers of the handlers. *)

isWriting == "write" \in events

\* Channel::update with EPollPoller::updateChannel.
updateChannel(ev) ==
  /\ events' = ev
  /\ added' = ~(added /\ ev = {})

\* write() on this socket: how many bytes the kernel takes, 0 for EAGAIN.
Broken == fin \/ peer = "reset"
Takes(bytes) == IF Broken THEN {} ELSE 0..Len(bytes)

\* Mutant: FIN without looking at what is still to be written.
shutdownInLoopAtOnce(writing) == fin' = TRUE

shutdownInLoop(writing) == fin' = (fin \/ ~writing)

\* Mutant: the kDisconnected test is missing.
RefusedNever == FALSE

\* sendInLoop returns at once.
Refused == state = "kDisconnected"

\* Mutant: writes to the socket although older bytes are buffered.
WritesDirectlyAlways == TRUE

\* sendInLoop may write to the socket before it buffers.
WritesDirectly == ~isWriting /\ output = <<>>

\* Mutant: the write interest is not registered.
bufferRestNoInterest(rest) == output' = output \o rest /\ UNCHANGED <<events, added>>

\* The end of sendInLoop: what was not written is buffered, with a write interest.
bufferRest(rest) ==
  /\ output' = output \o rest
  /\ IF rest # <<>> /\ ~isWriting THEN updateChannel(events \cup {"write"})
                                 ELSE UNCHANGED <<events, added>>

\* sendInLoop; queue is what pendingFunctors_ holds while it runs.
sendInLoop(m, queue) ==
  LET bytes == Message(m) IN
  \/ /\ Refused
     /\ functors' = queue
     /\ UNCHANGED <<events, added, output, sock, taken>>
  \/ /\ ~Refused /\ WritesDirectly
     /\ \E n \in Takes(bytes) :
          /\ sock' = sock \o SubSeq(bytes, 1, n)
          /\ bufferRest(SubSeq(bytes, n + 1, MessageLength))
          /\ functors' = IF n = MessageLength THEN Append(queue, Functor("complete"))
                                              ELSE queue
     /\ taken' = taken \o bytes
  \/ /\ ~Refused /\ WritesDirectly /\ Broken \* EPIPE or ECONNRESET
     /\ functors' = queue
     /\ UNCHANGED <<events, added, output, sock, taken>>
  \/ /\ ~Refused /\ ~WritesDirectly
     /\ bufferRest(bytes)
     /\ taken' = taken \o bytes /\ functors' = queue
     /\ UNCHANGED sock

-----------------------------------------------------------------------------
(* Calls from the application. *)

\* send() in the loop thread: the test, and sendInLoop in place.
Send ==
  /\ LoopThread \in Senders \cap holders /\ state = "kConnected" /\ sent < MaxSends
  /\ sent' = sent + 1
  /\ sentBy' = [sentBy EXCEPT ![LoopThread] = @ \cup {sent + 1}]
  /\ sendInLoop(sent + 1, functors)
  /\ UNCHANGED <<oneLoop, state, calls, ownVars, op, fin, peer, closes, removed,
                 overwritten, usedDead>>

\* shutdown() in the loop thread: the test, the store and shutdownInLoop in place.
Shutdown ==
  /\ LoopThread \in Shutters \cap holders /\ state = "kConnected"
  /\ state' = "kDisconnecting" /\ shutdownInLoop(isWriting)
  /\ UNCHANGED <<oneLoop, events, added, output, calls, functors, ownVars, op, sock,
                 peer, sent, ghostVars>>

\* send() or shutdown() in another thread: the test.
Test(u, call) ==
  /\ u \in holders /\ op[u] = "idle" /\ state = "kConnected"
  /\ op' = [op EXCEPT ![u] = call]
  /\ UNCHANGED <<connVars, calls, functors, ownVars, sockVars, sent, ghostVars>>

TestForSend(u) == u \in Senders /\ sent < MaxSends /\ Test(u, "send")
TestForShutdown(u) == u \in Shutters /\ Test(u, "shutdown")

\* send() in another thread: runInLoop queues sendInLoop.
QueueSend(u) ==
  /\ op[u] = "send" /\ sent < MaxSends
  /\ op' = [op EXCEPT ![u] = "idle"]
  /\ sent' = sent + 1
  /\ sentBy' = [sentBy EXCEPT ![u] = @ \cup {sent + 1}]
  /\ functors' = Append(functors, [call |-> "send", message |-> sent + 1])
  /\ UNCHANGED <<connVars, calls, ownVars, sockVars, taken, closes, removed, overwritten,
                 usedDead>>

\* shutdown() in another thread: setState(kDisconnecting).
StoreDisconnecting(u) ==
  /\ op[u] = "shutdown"
  /\ op' = [op EXCEPT ![u] = "stored"]
  /\ state' = "kDisconnecting"
  /\ overwritten' = (overwritten \/ state = "kDisconnected")
  /\ UNCHANGED <<oneLoop, events, added, output, calls, functors, ownVars, sockVars, sent,
                 sentBy, taken, closes, removed, usedDead>>

\* shutdown() in another thread: runInLoop queues shutdownInLoop.
QueueShutdown(u) ==
  /\ op[u] = "stored"
  /\ op' = [op EXCEPT ![u] = "idle"]
  /\ functors' = Append(functors, Functor("shutdown"))
  /\ UNCHANGED <<connVars, calls, ownVars, sockVars, sent, ghostVars>>

\* A thread lets go of its TcpConnectionPtr.
Release(t) ==
  /\ t \in holders /\ (t \in Users => op[t] = "idle")
  /\ holders' = holders \ {t}
  /\ UNCHANGED <<connVars, calls, functors, removals, inMap, op, sockVars, sent,
                 ghostVars>>

-----------------------------------------------------------------------------
(* Events: what epoll reports, and the callbacks of handleEventWithGuard. *)

\* The peer closes its side, or resets the connection.
PeerCloses ==
  /\ peer = "open" /\ peer' = "closed"
  /\ UNCHANGED <<connVars, calls, functors, ownVars, op, sock, fin, sent, ghostVars>>

PeerResets ==
  /\ peer # "reset" /\ peer' = "reset"
  /\ UNCHANGED <<connVars, calls, functors, ownVars, op, sock, fin, sent, ghostVars>>

\* What readFd will find when the socket is reported readable now: data, as long as the
\* peer's FIN or RST has not come, or perhaps the end.
Readable == IF peer = "open" THEN "data" ELSE "read"

\* Level triggered: the end of the input stays readable; HUP needs both sides
\* closed; writability depends on the socket's buffer.
Poll ==
  /\ calls = <<>> /\ added /\ Alive
  /\ \E in, out, hup \in BOOLEAN :
       /\ in => "read" \in events
       /\ out => isWriting
       /\ peer # "open" /\ "read" \in events => in
       /\ hup <=> peer = "reset" \/ (peer = "closed" /\ fin)
       /\ in \/ out \/ hup
       /\ calls' = (IF hup /\ ~in THEN <<"close">> ELSE <<>>) \o
                   (IF in THEN <<Readable>> ELSE <<>>) \o
                   (IF out THEN <<"write">> ELSE <<>>)
  /\ UNCHANGED <<connVars, functors, ownVars, op, sockVars, sent, ghostVars>>

NextCall(name) == calls # <<>> /\ Head(calls) = name
CallReturns == calls' = Tail(calls)

\* handleRead with data or an error: messageCallback_ or handleError.
HandleReadData ==
  /\ NextCall("data") \/ NextCall("read")
  /\ CallReturns
  /\ UNCHANGED <<connVars, functors, ownVars, op, sockVars, sent, ghostVars>>

\* Mutant: closeCallback_ is not called.
handleCloseUnreported ==
  /\ state' = "kDisconnected"
  /\ updateChannel({})
  /\ closes' = closes + 1
  /\ UNCHANGED <<removals, inMap, functors>>

\* handleClose: disableAll, and closeCallback_, which is removeConnection.
handleClose ==
  /\ state' = "kDisconnected"
  /\ updateChannel({})
  /\ closes' = closes + 1
  /\ IF oneLoop THEN /\ inMap' = FALSE
                     /\ functors' = Append(functors, Functor("destroyed"))
                     /\ UNCHANGED removals
                ELSE removals' = removals + 1 /\ UNCHANGED <<inMap, functors>>

\* readFd returned 0, or closeCallback_.
HandleClose ==
  /\ NextCall("read") \/ NextCall("close")
  /\ handleClose /\ CallReturns
  /\ UNCHANGED <<oneLoop, output, holders, op, sockVars, sent, sentBy, taken, removed,
                 overwritten, usedDead>>

\* Mutant: what was written stays in the buffer.
retrieveNothing(n) == output

\* outputBuffer_.retrieve(n)
retrieve(n) == SubSeq(output, n + 1, Len(output))

\* handleWrite: the kernel takes n > 0 bytes.  When the buffer is empty the write
\* interest goes, and a shutdown that waited for it is done.
HandleWrite ==
  /\ NextCall("write") /\ isWriting
  /\ \E n \in Takes(output) \ {0} :
       /\ sock' = sock \o SubSeq(output, 1, n)
       /\ output' = retrieve(n)
  /\ IF output' = <<>>
     THEN /\ updateChannel(events \ {"write"})
          /\ functors' = Append(functors, Functor("complete"))
          /\ IF state = "kDisconnecting" THEN shutdownInLoop(FALSE) ELSE UNCHANGED fin
     ELSE UNCHANGED <<events, added, functors, fin>>
  /\ CallReturns
  /\ UNCHANGED <<oneLoop, state, ownVars, op, peer, sent, ghostVars>>

\* handleWrite: write() took nothing, failed, or the channel is no longer writing;
\* it only logs.
HandleWriteFails ==
  /\ NextCall("write")
  /\ CallReturns
  /\ UNCHANGED <<connVars, functors, ownVars, op, sockVars, sent, ghostVars>>

-----------------------------------------------------------------------------
(* Functors of the connection's loop, run one after the other. *)

Runs(call) == calls = <<>> /\ functors # <<>> /\ Head(functors).call = call

\* connectEstablished; its callback may copy the pointer to any threads.
ConnectEstablished ==
  /\ Runs("established")
  /\ state' = "kConnected" /\ updateChannel({"read"})
  /\ holders' \in SUBSET Threads
  /\ functors' = Tail(functors)
  /\ UNCHANGED <<oneLoop, output, calls, removals, inMap, op, sockVars, sent, ghostVars>>

RunSend ==
  /\ Runs("send") /\ Alive
  /\ sendInLoop(Head(functors).message, Tail(functors))
  /\ UNCHANGED <<oneLoop, state, calls, ownVars, op, fin, peer, sent, sentBy, closes,
                 removed, overwritten, usedDead>>

RunShutdown ==
  /\ Runs("shutdown") /\ Alive
  /\ shutdownInLoop(isWriting)
  /\ functors' = Tail(functors)
  /\ UNCHANGED <<connVars, calls, ownVars, op, sock, peer, sent, ghostVars>>

\* sendInLoop or shutdownInLoop on an object that does not exist any more.
RunOnDestroyed ==
  /\ Runs("send") \/ Runs("shutdown")
  /\ ~Alive
  /\ usedDead' = TRUE /\ functors' = Tail(functors)
  /\ UNCHANGED <<connVars, calls, ownVars, op, sockVars, sent, sentBy, taken, closes,
                 removed, overwritten>>

\* writeCompleteCallback_
RunComplete ==
  /\ Runs("complete")
  /\ functors' = Tail(functors)
  /\ UNCHANGED <<connVars, calls, ownVars, op, sockVars, sent, ghostVars>>

\* channel_->remove()
remove_ == added' = FALSE

\* connectDestroyed
ConnectDestroyed ==
  /\ Runs("destroyed")
  /\ state' = IF state = "kConnected" THEN "kDisconnected" ELSE state
  /\ events' = IF state = "kConnected" THEN {} ELSE events
  /\ remove_ /\ removed' = TRUE
  /\ functors' = Tail(functors)
  /\ UNCHANGED <<oneLoop, output, calls, ownVars, op, sockVars, sent, sentBy, taken,
                 closes, overwritten, usedDead>>

\* Mutant: connectDestroyed is not queued.
RemoveConnectionInLoopOnly ==
  /\ removals > 0
  /\ removals' = removals - 1 /\ inMap' = FALSE
  /\ UNCHANGED <<connVars, calls, functors, holders, op, sockVars, sent, ghostVars>>

\* removeConnectionInLoop, in the server's loop.
RemoveConnectionInLoop ==
  /\ removals > 0
  /\ removals' = removals - 1 /\ inMap' = FALSE
  /\ functors' = Append(functors, Functor("destroyed"))
  /\ UNCHANGED <<connVars, calls, holders, op, sockVars, sent, ghostVars>>

-----------------------------------------------------------------------------
RunFunctor ==
  ConnectEstablished \/ RunSend \/ RunShutdown \/ RunOnDestroyed \/ RunComplete \/
  ConnectDestroyed
Handle == HandleReadData \/ HandleClose \/ HandleWrite \/ HandleWriteFails

Next ==
  \/ Poll \/ Handle \/ RunFunctor \/ RemoveConnectionInLoop
  \/ Send \/ Shutdown \/ PeerCloses \/ PeerResets
  \/ \E u \in Users : TestForSend(u) \/ QueueSend(u) \/ TestForShutdown(u)
                      \/ StoreDisconnecting(u) \/ QueueShutdown(u)
  \/ \E t \in Threads : Release(t)

Spec == Init /\ [][Next]_vars

\* Both loops run; the loop alternates between its functors and epoll_wait; what
\* the peer sent before it closed is finite, so that reading comes to its end.
Fairness ==
  /\ SF_vars(Poll) /\ WF_vars(Handle) /\ SF_vars(HandleClose) /\ SF_vars(RunFunctor)
  /\ WF_vars(RemoveConnectionInLoop)

FairSpec == Spec /\ Fairness

-----------------------------------------------------------------------------
(* Properties. *)

StreamLength == MaxSends * MessageLength

\* Every variable has its type, and neither buffer nor socket ever holds more
\* bytes than were sent.
TypeOK ==
  /\ state \in {"kConnecting", "kConnected", "kDisconnecting", "kDisconnected"}
  /\ events \subseteq {"read", "write"} /\ added \in BOOLEAN
  /\ Len(output) <= StreamLength /\ Len(sock) <= StreamLength
  /\ calls \in Seq({"data", "read", "write", "close"})
  /\ functors \in Seq([call : Owning \cup {"send", "shutdown"}, message : 0..MaxSends])
  /\ removals \in Nat /\ inMap \in BOOLEAN /\ holders \subseteq Threads
  /\ op \in [Users -> {"idle", "send", "shutdown", "stored"}]
  /\ fin \in BOOLEAN /\ peer \in {"open", "closed", "reset"}
  /\ sent \in 0..MaxSends /\ closes \in Nat

\* Until the connection is closed, buffered bytes and the write interest go
\* together: bytes without it would never be written, the interest without bytes
\* would make epoll_wait return at once for ever.
OutputHasInterest ==
  closes = 0 /\ state # "kConnecting" => ((output # <<>>) <=> (added /\ isWriting))

\* What the kernel got and what is still buffered is exactly what sendInLoop took,
\* message after message, whoever sent it and however short the writes were.
StreamIntact == sock \o output = taken

\* FIN cuts off nothing that callback code passed to send(), whichever thread calls
\* shutdown(): every byte of it was written before.  Messages of other threads may
\* still be queued when FIN goes out.
FinAfterData ==
  fin /\ closes = 0 /\ peer # "reset" =>
    \A m \in sentBy[LoopThread] : \A i \in 1..MessageLength :
      \E k \in DOMAIN sock : sock[k] = <<m, i>>

\* A closed connection is out of the poller, and stays out while it waits for
\* connectDestroyed and after it.
ClosedStaysOut == closes > 0 => ~added

\* It does, and closeCallback_ tells the end of the connection only once, as long as
\* kDisconnected is not overwritten.
ClosedForGood == overwritten \/ (ClosedStaysOut /\ closes <= 1)

\* When the last TcpConnectionPtr goes, connectDestroyed has run, and unless
\* kDisconnected was overwritten nobody has a pointer to the channel that is
\* destroyed with the connection: neither the poller nor handleEvent.
DestroyedIsRemoved ==
  ~Alive => removed /\ (overwritten \/ (~added /\ calls = <<>>))

\* A connection whose peer is gone leaves connections_ and the poller in the end, for
\* good.
PeerGoneIsCleanedUp == <>[](peer # "open" => removed /\ ~inMap)

\* No functor runs on a destroyed connection.
FunctorsKeepItAlive == ~usedDead
==============================================================================
