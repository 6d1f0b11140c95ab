------------------------------ MODULE TcpServer ------------------------------
(****************************************************************************)
(* A TcpServer with its Acceptor and its EventLoopThreadPool                *)
(* (src/src/net/TcpServer.cc, Acceptor.cc, EventLoopThreadPool.cc), set up  *)
(* as src/examples/echo_server.cc does, and the clients of                  *)
(* src/examples/benchmark_client.cc.                                        *)
(*                                                                          *)
(* Loop 0 is the base loop, the others are those of the pool.  A loop runs  *)
(* one handler or functor at a time; loops interact through their functors  *)
(* and through the descriptors, which the kernel hands out again.  A read   *)
(* takes all that came; a write takes what the socket has room for, and the *)
(* rest waits in the outputBuffer_ of the connection.                       *)
(****************************************************************************)
EXTENDS Naturals, Sequences, FiniteSets

CONSTANTS MaxClients,    \* bound: benchmark clients; each connects once
          Fds,           \* descriptors that accept can return, numbers
          MaxThreads,    \* bound: threads of the pool
          Requests,      \* requestCount
          MessageLength, \* bytes of a message
          Nobody         \* no client, no connection

\* Clients are numbered in the order in which they connect.
Clients == 1..MaxClients

ASSUME NumbersAssumption ==
  /\ MaxClients \in Nat /\ Fds \subseteq Nat /\ IsFiniteSet(Fds) /\ MaxThreads \in Nat
  /\ Requests \in Nat /\ MessageLength \in Nat \ {0}

\* What a TcpConnection holds, with its place in the poller and the client it was created for.
TcpConnectionSet ==
  [client : Clients, fd : Fds, loop : 0..MaxThreads, added : BOOLEAN,
   state : {"kConnecting", "kConnected", "kDisconnected"}]

ASSUME NobodyAssumption == Nobody \notin Clients \cup TcpConnectionSet

VARIABLES
  started,     \* started_
  numThreads,  \* numThreads_ of the pool; the size of its loops_ once started
  next,        \* next_ of the pool
  nextConnId,  \* nextConnId_
  connections, \* connections_, by the number in the name
  conn,        \* conn[i]: the TcpConnection with number i, Nobody if there is none
  running,     \* loops whose thread is in loop()
  functors,    \* functors[l]: pendingFunctors_ of loop l
  reported,    \* reported[l]: activeChannels_ of l not handled yet; 0 is the Acceptor
  phase,       \* main: "running" loop(), "stopped", "cleared", "gone" (~TcpServer),
               \* "ended"
  listening,   \* listening_, and the accept channel is enabled
  backlog,     \* clients in the accept queue of the listening socket
  file,        \* file[fd]: the client at the other end of the socket
  status,      \* status[c]: the client's socket is "new", "open" or "closed"
  written,     \* written[c]: bytes it wrote
  up,          \* up[c]: those not read by the server
  output,      \* output[i]: outputBuffer_ of connection i
  down,        \* down[c]: bytes sent to the client and not read by it
  got,         \* got[c]: bytes that it read
  usedDead     \* a handler ran on a TcpConnection that was destroyed

poolVars == <<numThreads, next>>
tableVars == <<nextConnId, connections, conn>>
loopVars == <<running, functors, reported>>
listenVars == <<listening, backlog>>
clientVars == <<status, written, up, output, down, got>>
vars == <<started, poolVars, tableVars, loopVars, phase, listenVars, file, clientVars,
          usedDead>>

Ids == 1..MaxClients
Loops == 0..MaxThreads
Base == 0
AcceptChannel == 0

Init ==
  /\ started = FALSE /\ numThreads = 0 /\ next = 0
  /\ nextConnId = 1 /\ connections = {} /\ conn = [i \in Ids |-> Nobody]
  /\ running = {Base} /\ functors = [l \in Loops |-> <<>>]
  /\ reported = [l \in Loops |-> {}] /\ phase = "running"
  /\ listening = FALSE /\ backlog = <<>> /\ file = [fd \in Fds |-> Nobody]
  /\ status = [c \in Clients |-> "new"] /\ written = [c \in Clients |-> 0]
  /\ up = [c \in Clients |-> <<>>] /\ output = [i \in Ids |-> <<>>]
  /\ down = [c \in Clients |-> <<>>] /\ got = [c \in Clients |-> <<>>] /\ usedDead = FALSE

-----------------------------------------------------------------------------
(* Setting up. *)

\* Before start(); later calls change nothing that is read again.
SetThreadNum(n) ==
  /\ ~started /\ numThreads' = n
  /\ UNCHANGED <<started, next, tableVars, loopVars, phase, listenVars, file, clientVars,
                 usedDead>>

\* EventLoopThreadPool::start: startLoop of each thread waits for its loop.
StartPool == running' = running \cup 1..numThreads

\* Acceptor::listen
listen == listening' = TRUE

\* start(), in the base loop's thread, so that listen() runs in place.  A second call
\* does nothing.
Start ==
  /\ ~started /\ started' = TRUE
  /\ StartPool /\ listen
  /\ UNCHANGED <<poolVars, tableVars, functors, reported, phase, backlog, file, clientVars,
                 usedDead>>

-----------------------------------------------------------------------------
(* The clients. *)

Total == Requests * MessageLength
Done(c) == Len(got[c]) = Total
\* The end of the request that the client is in.
Target(c) == MessageLength * (Len(got[c]) \div MessageLength + 1)
Accepted(c) == \E fd \in Fds : file[fd] = c
Waiting(c) == \E k \in DOMAIN backlog : backlog[k] = c

\* connect() is done by the kernel; without a listening socket it is refused.
Connect(c) ==
  /\ status[c] = "new" /\ \A d \in 1..c - 1 : status[d] # "new"
  /\ status' = [status EXCEPT ![c] = IF listening THEN "open" ELSE "closed"]
  /\ backlog' = IF listening THEN Append(backlog, c) ELSE backlog
  /\ UNCHANGED <<started, poolVars, tableVars, loopVars, phase, listening, file, written,
                 up, output, down, got, usedDead>>

\* One write() of writeAll.
ClientWrite(c) ==
  /\ status[c] = "open" /\ ~Done(c) /\ (Waiting(c) \/ Accepted(c))
  /\ \E n \in 1..Target(c) - written[c] :
       /\ written' = [written EXCEPT ![c] = @ + n]
       /\ up' = [up EXCEPT ![c] = @ \o [k \in 1..n |-> <<c, written[c] + k>>]]
  /\ UNCHANGED <<started, poolVars, tableVars, loopVars, phase, listenVars, file, status,
                 output, down, got, usedDead>>

\* One read() of readExact: it takes what is there, which is never more than the rest of
\* the response.
ClientRead(c) ==
  /\ status[c] = "open" /\ ~Done(c) /\ written[c] = Target(c)
  /\ down[c] # <<>>
  /\ got' = [got EXCEPT ![c] = @ \o down[c]] /\ down' = [down EXCEPT ![c] = <<>>]
  /\ UNCHANGED <<started, poolVars, tableVars, loopVars, phase, listenVars, file, status,
                 written, up, output, usedDead>>

\* All requests are answered, or the server's end is gone and a write() or a read()
\* fails: close().
ClientCloses(c) ==
  /\ status[c] = "open"
  /\ Done(c) \/ ~(Waiting(c) \/ Accepted(c))
  /\ status' = [status EXCEPT ![c] = "closed"]
  /\ UNCHANGED <<started, poolVars, tableVars, loopVars, phase, listenVars, file, written,
                 up, output, down, got, usedDead>>

-----------------------------------------------------------------------------
(* The loops: epoll_wait, and the handlers of what it reported. *)

Free == {fd \in Fds : file[fd] = Nobody}

\* A socket is readable at the end of the input too.  The channel asks for writability
\* while there is output; the client reads, so that the socket has room again.
\* Which of the two epoll_wait saw is not kept: a handler may also answer what came
\* after it, which another iteration would have reported.
Readable(c) == up[c] # <<>> \/ status[c] = "closed"
Active(i) ==
  /\ conn[i] # Nobody /\ conn[i].added
  /\ Readable(file[conn[i].fd]) \/ output[i] # <<>>

Ready(l) ==
  {i \in Ids : Active(i) /\ conn[i].loop = l} \cup
  (IF l = Base /\ listening /\ backlog # <<>> THEN {AcceptChannel} ELSE {})

\* The base loop runs until main leaves loop().
Runs(l) == l \in running /\ (l = Base => phase = "running")

Poll(l) ==
  /\ Runs(l) /\ reported[l] = {} /\ Ready(l) # {}
  /\ reported' = [reported EXCEPT ![l] = Ready(l)]
  /\ UNCHANGED <<started, poolVars, tableVars, running, functors, phase, listenVars, file,
                 clientVars, usedDead>>

Handles(l, i) ==
  /\ Runs(l) /\ i \in reported[l]
  /\ reported' = [reported EXCEPT ![l] = @ \ {i}]

Queue(l, call, i) == functors' = [functors EXCEPT ![l] = Append(@, <<call, i>>)]

\* Mutant: the last loop is left out.
getNextLoopShort ==
  /\ next' = IF next + 2 >= numThreads THEN 0 ELSE next + 1
  /\ UNCHANGED numThreads

\* getNextLoop, the step of next_; the loop it returns is NextLoop.
NextLoop == IF numThreads = 0 THEN Base ELSE next + 1
getNextLoop ==
  /\ next' = IF next + 1 >= numThreads THEN 0 ELSE next + 1
  /\ UNCHANGED numThreads

\* Mutant: the connection is not kept in connections_.
newConnectionUnlisted(fd, c) ==
  LET l == NextLoop
      i == nextConnId
      here == l = Base IN
  /\ nextConnId' = nextConnId + 1
  /\ getNextLoop
  /\ conn' = [conn EXCEPT ![i] = [client |-> c, fd |-> fd, loop |-> l, added |-> here,
                                  state |-> IF here THEN "kConnected" ELSE "kConnecting"]]
  /\ UNCHANGED connections
  /\ IF here THEN UNCHANGED functors ELSE Queue(l, "established", i)

\* newConnection.  connectEstablished runs in place in the base loop.
newConnection(fd, c) ==
  LET l == NextLoop
      i == nextConnId
      here == l = Base IN
  /\ nextConnId' = nextConnId + 1
  /\ getNextLoop
  /\ conn' = [conn EXCEPT ![i] = [client |-> c, fd |-> fd, loop |-> l, added |-> here,
                                  state |-> IF here THEN "kConnected" ELSE "kConnecting"]]
  /\ connections' = connections \cup {i}
  /\ IF here THEN UNCHANGED functors ELSE Queue(l, "established", i)

Lowest(S) == CHOOSE x \in S : \A y \in S : x <= y

\* sockets::accept: the kernel gives the lowest free descriptor to the first client of
\* the queue.
accept(fd, c) ==
  /\ fd = Lowest(Free) /\ c = Head(backlog)
  /\ file' = [file EXCEPT ![fd] = c] /\ backlog' = Tail(backlog)

\* Acceptor::handleRead: one accept for one event.
AcceptorHandleRead ==
  /\ Handles(Base, AcceptChannel) /\ Free # {}
  /\ \E fd \in Free, c \in Clients : accept(fd, c) /\ newConnection(fd, c)
  /\ UNCHANGED <<started, running, phase, listening, clientVars, usedDead>>

\* Mutant: a failed accept disables the channel, so that the loop does not spin.
AcceptorHandleReadFailsStops ==
  /\ Handles(Base, AcceptChannel) /\ Free = {}
  /\ listening' = FALSE
  /\ UNCHANGED <<started, poolVars, tableVars, running, functors, phase, backlog, file,
                 clientVars, usedDead>>

\* Mutant: the client that cannot be accepted is turned away.
AcceptorHandleReadFailsDrops ==
  /\ Handles(Base, AcceptChannel) /\ Free = {}
  /\ backlog' = Tail(backlog)
  /\ UNCHANGED <<started, poolVars, tableVars, running, functors, phase, listening, file,
                 clientVars, usedDead>>

\* accept fails with EMFILE, which is logged; the client stays in the queue.
AcceptorHandleReadFails ==
  /\ Handles(Base, AcceptChannel) /\ Free = {}
  /\ UNCHANGED <<started, poolVars, tableVars, running, functors, phase, listenVars, file,
                 clientVars, usedDead>>

\* send() in the connection's loop: the socket takes the first n bytes, at least one if its
\* buffer is empty and none if output waits; the rest is appended to the output.
send(i, message) ==
  LET c == file[conn[i].fd] IN
  \E n \in 0..Len(message) :
    /\ output[i] # <<>> => n = 0
    /\ output[i] = <<>> /\ down[c] = <<>> => n > 0
    /\ down' = [down EXCEPT ![c] = @ \o SubSeq(message, 1, n)]
    /\ output' = [output EXCEPT ![i] = @ \o SubSeq(message, n + 1, Len(message))]

\* TcpConnection::handleRead with data: the message callback sends it back.
HandleRead(l, i) ==
  /\ conn[i] # Nobody /\ Handles(l, i)
  /\ LET c == file[conn[i].fd] IN
     up[c] # <<>> /\ up' = [up EXCEPT ![c] = <<>>] /\ send(i, up[c])
  /\ UNCHANGED <<started, poolVars, tableVars, running, functors, phase, listenVars, file,
                 status, written, got, usedDead>>

\* TcpConnection::handleWrite.  A socket that is readable too is reported again.
HandleWrite(l, i) ==
  /\ conn[i] # Nobody /\ Handles(l, i)
  /\ LET c == file[conn[i].fd] IN
     \E n \in 1..Len(output[i]) :
       /\ down' = [down EXCEPT ![c] = @ \o SubSeq(output[i], 1, n)]
       /\ output' = [output EXCEPT ![i] = SubSeq(@, n + 1, Len(@))]
  /\ UNCHANGED <<started, poolVars, tableVars, running, functors, phase, listenVars, file,
                 status, written, up, got, usedDead>>

\* removeConnectionInLoop
removeConnectionInLoop(i) ==
  /\ connections' = connections \ {i}
  /\ Queue(conn[i].loop, "destroyed", i)

\* Mutant: only the base loop's own connections are removed.
removeConnectionBaseOnly(l, i) ==
  IF l = Base THEN removeConnectionInLoop(i) ELSE UNCHANGED <<functors, connections>>

\* removeConnection: runInLoop of the base loop.
removeConnection(l, i) ==
  IF l = Base THEN removeConnectionInLoop(i)
              ELSE Queue(Base, "remove", i) /\ UNCHANGED connections

\* read() returns 0.
AtEnd(c) == up[c] = <<>> /\ status[c] = "closed"

\* Mutant: the channel is not disabled.
HandleCloseKeepsChannel(l, i) ==
  /\ conn[i] # Nobody /\ Handles(l, i) /\ AtEnd(file[conn[i].fd])
  /\ conn' = [conn EXCEPT ![i].state = "kDisconnected"]
  /\ removeConnection(l, i)
  /\ UNCHANGED <<started, poolVars, nextConnId, running, phase, listenVars, file,
                 clientVars, usedDead>>

\* Mutant: the socket is closed at once.
HandleCloseClosesSocket(l, i) ==
  /\ conn[i] # Nobody /\ Handles(l, i) /\ AtEnd(file[conn[i].fd])
  /\ conn' = [conn EXCEPT ![i].state = "kDisconnected", ![i].added = FALSE]
  /\ file' = [file EXCEPT ![conn[i].fd] = Nobody]
  /\ removeConnection(l, i)
  /\ UNCHANGED <<started, poolVars, nextConnId, running, phase, listenVars, clientVars,
                 usedDead>>

\* TcpConnection::handleRead at the end of the input: handleClose, whose
\* closeCallback_ is removeConnection.
HandleClose(l, i) ==
  /\ conn[i] # Nobody /\ Handles(l, i) /\ AtEnd(file[conn[i].fd])
  /\ conn' = [conn EXCEPT ![i].state = "kDisconnected", ![i].added = FALSE]
  /\ removeConnection(l, i)
  /\ UNCHANGED <<started, poolVars, nextConnId, running, phase, listenVars, file,
                 clientVars, usedDead>>

\* handleEvent of a channel that was destroyed with its connection.  That is undefined;
\* usedDead tells it, and the model goes on as if the handler had done nothing.
HandleDestroyed(l, i) ==
  /\ i \in Ids /\ conn[i] = Nobody /\ Handles(l, i)
  /\ usedDead' = TRUE
  /\ UNCHANGED <<started, poolVars, tableVars, running, functors, phase, listenVars, file,
                 clientVars>>

-----------------------------------------------------------------------------
(* The loops: functors, which run when the reported channels are handled. *)

RunsFunctor(l, call) ==
  /\ Runs(l) /\ reported[l] = {} /\ functors[l] # <<>> /\ Head(functors[l])[1] = call

\* The connection it is about; conn[i] exists, as the functor holds a pointer to it.
Argument(l) == Head(functors[l])[2]
Dequeued(l) == functors' = [functors EXCEPT ![l] = Tail(@)]

ConnectEstablished(l) ==
  /\ RunsFunctor(l, "established")
  /\ conn' = [conn EXCEPT ![Argument(l)].state = "kConnected", ![Argument(l)].added = TRUE]
  /\ Dequeued(l)
  /\ UNCHANGED <<started, poolVars, nextConnId, connections, running, reported, phase,
                 listenVars, file, clientVars, usedDead>>

\* Mutant: the entry in connections_ is not erased.
RunRemoveConnectionKeepsEntry ==
  /\ RunsFunctor(Base, "remove")
  /\ LET i == Argument(Base)
         rest == [functors EXCEPT ![Base] = Tail(@)] IN
     functors' = [rest EXCEPT ![conn[i].loop] = Append(@, <<"destroyed", i>>)]
  /\ UNCHANGED <<started, poolVars, tableVars, running, reported, phase, listenVars, file,
                 clientVars, usedDead>>

\* removeConnectionInLoop as a functor of the base loop.
RunRemoveConnection ==
  /\ RunsFunctor(Base, "remove")
  /\ LET i == Argument(Base)
         rest == [functors EXCEPT ![Base] = Tail(@)] IN
     /\ connections' = connections \ {i}
     /\ functors' = [rest EXCEPT ![conn[i].loop] = Append(@, <<"destroyed", i>>)]
  /\ UNCHANGED <<started, poolVars, nextConnId, conn, running, reported, phase, listenVars,
                 file, clientVars, usedDead>>

ConnectDestroyed(l) ==
  /\ RunsFunctor(l, "destroyed")
  /\ conn' = [conn EXCEPT ![Argument(l)].state = "kDisconnected",
                          ![Argument(l)].added = FALSE]
  /\ Dequeued(l)
  /\ UNCHANGED <<started, poolVars, nextConnId, connections, running, reported, phase,
                 listenVars, file, clientVars, usedDead>>

\* sockets::close: the descriptor is free for the next accept.
close(fd) == file' = [file EXCEPT ![fd] = Nobody]

\* The last TcpConnectionPtr is gone: ~TcpConnection, and ~Socket closes the socket.
Destroy(i) ==
  /\ conn[i] # Nobody /\ i \notin connections
  /\ \A l \in Loops : \A k \in DOMAIN functors[l] : functors[l][k][2] # i
  /\ conn' = [conn EXCEPT ![i] = Nobody]
  /\ close(conn[i].fd)
  /\ output' = [output EXCEPT ![i] = <<>>]
  /\ UNCHANGED <<started, poolVars, nextConnId, connections, loopVars, phase, listenVars,
                 status, written, up, down, got, usedDead>>

-----------------------------------------------------------------------------
(* The end of main: loop() returns, ~TcpServer destroys its members. *)

Quit ==
  /\ phase = "running" /\ started /\ reported[Base] = {}
  /\ phase' = "stopped"
  /\ UNCHANGED <<started, poolVars, tableVars, loopVars, listenVars, file, clientVars,
                 usedDead>>

\* connections_ goes first.
DestroyConnections ==
  /\ phase = "stopped" /\ phase' = "cleared"
  /\ connections' = {}
  /\ UNCHANGED <<started, poolVars, nextConnId, conn, loopVars, listenVars, file,
                 clientVars, usedDead>>

\* threadPool_ is next: its threads are told to quit and joined, one after the other.
\* Functors that are still pending go with their loop.
StopLoop(l) ==
  /\ phase = "cleared" /\ l \in running /\ l # Base /\ l = Lowest(running \ {Base})
  /\ reported[l] = {}
  /\ running' = running \ {l} /\ functors' = [functors EXCEPT ![l] = <<>>]
  /\ UNCHANGED <<started, poolVars, tableVars, reported, phase, listenVars, file,
                 clientVars, usedDead>>

\* acceptor_ is last: ~Acceptor, and the listening socket is closed.
DestroyAcceptor ==
  /\ phase = "cleared" /\ running = {Base}
  /\ phase' = "gone" /\ listening' = FALSE /\ backlog' = <<>>
  /\ UNCHANGED <<started, poolVars, tableVars, loopVars, file, clientVars, usedDead>>

\* ~EventLoop of the base loop, which outlives the server.
DestroyBaseLoop ==
  /\ phase = "gone" /\ phase' = "ended"
  /\ running' = {} /\ functors' = [functors EXCEPT ![Base] = <<>>]
  /\ UNCHANGED <<started, poolVars, tableVars, reported, listenVars, file, clientVars,
                 usedDead>>

-----------------------------------------------------------------------------
Client(c) == ClientWrite(c) \/ ClientRead(c) \/ ClientCloses(c)

Handle(l) ==
  \/ l = Base /\ (AcceptorHandleRead \/ AcceptorHandleReadFails)
  \/ \E i \in Ids : HandleRead(l, i) \/ HandleWrite(l, i) \/ HandleClose(l, i)
                     \/ HandleDestroyed(l, i)

RunFunctor(l) ==
  ConnectEstablished(l) \/ (l = Base /\ RunRemoveConnection) \/ ConnectDestroyed(l)

End ==
  DestroyConnections \/ (\E l \in Loops : StopLoop(l)) \/ DestroyAcceptor \/ DestroyBaseLoop

Next ==
  \/ \E n \in Loops : SetThreadNum(n)
  \/ Start \/ Quit \/ End
  \/ \E c \in Clients : Connect(c) \/ Client(c)
  \/ \E l \in Loops : Poll(l) \/ Handle(l) \/ RunFunctor(l)
  \/ \E i \in Ids : Destroy(i)

Spec == Init /\ [][Next]_vars

\* Every thread and every client runs; in each iteration a loop handles what epoll_wait
\* reported and then its functors; main goes on once loop() has returned.  Nobody is
\* obliged to connect, to start the server or to end it.
Fairness ==
  /\ \A c \in Clients : WF_vars(Client(c))
  /\ \A l \in Loops : WF_vars(Poll(l) \/ Handle(l)) /\ SF_vars(RunFunctor(l))
  /\ \A i \in Ids : WF_vars(Destroy(i))
  /\ WF_vars(End)

FairSpec == Spec /\ Fairness

-----------------------------------------------------------------------------
(* Properties. *)

\* Every variable has its type; a connection is in the poller only while it is connected.
TypeOK ==
  /\ started \in BOOLEAN /\ numThreads \in Loops /\ next \in Loops
  /\ nextConnId \in 1..MaxClients + 1 /\ connections \subseteq Ids
  /\ \A i \in Ids : conn[i] = Nobody \/
       /\ conn[i].client \in Clients /\ conn[i].fd \in Fds /\ conn[i].loop \in Loops
       /\ conn[i].added <=> conn[i].state = "kConnected"
  /\ running \subseteq Loops /\ reported \in [Loops -> SUBSET (Ids \cup {AcceptChannel})]
  /\ phase \in {"running", "stopped", "cleared", "gone", "ended"}
  /\ listening \in BOOLEAN /\ file \in [Fds -> Clients \cup {Nobody}]
  /\ status \in [Clients -> {"new", "open", "closed"}] /\ written \in [Clients -> 0..Total]

\* Every socket that accept returned is owned by one TcpConnection, which closes it, and
\* every TcpConnection owns the socket of the client it was created for: no descriptor
\* leaks, and none is closed, and given to another client, while somebody still uses it.
SocketOwned ==
  /\ \A fd \in Fds : file[fd] # Nobody =>
       \E i \in Ids : conn[i] # Nobody /\ conn[i].fd = fd
  /\ \A i \in Ids : conn[i] # Nobody => file[conn[i].fd] = conn[i].client

\* While the server runs, connections_ agrees with the loops: a connection in a poller is
\* in the table, and a closed one in the table has its removal on the way.
TableMatches ==
  phase = "running" =>
    \A i \in Ids : conn[i] # Nobody =>
      /\ conn[i].added => i \in connections
      /\ i \in connections /\ conn[i].state = "kDisconnected" =>
           \E k \in DOMAIN functors[Base] : functors[Base][k] = <<"remove", i>>

FirstBytes(c, n) == [k \in 1..n |-> <<c, k>>]

\* Every client gets its own bytes back, each once and in order, through the buffers of
\* connections that come and go and descriptors that were somebody else's before; and until
\* the server is destroyed none is lost: what a client wrote and did not get back is on its
\* way, in the output of the connection that was created for it if there is one.
EchoIntact ==
  /\ \A c \in Clients : \E n \in 0..written[c] : got[c] \o down[c] = FirstBytes(c, n)
  /\ \A i \in Ids : conn[i] # Nobody =>
       LET c == conn[i].client IN
       got[c] \o down[c] \o output[i] \o up[c] = FirstBytes(c, written[c])
  /\ phase \in {"running", "stopped"} =>
       \A c \in Clients : (\A i \in Ids : conn[i] # Nobody => conn[i].client # c) =>
         got[c] \o down[c] \o up[c] = FirstBytes(c, written[c])

\* Connections go to the loops of the pool in turn: of any numThreads_ consecutive ones
\* no two share a loop.
RoundRobin ==
  \A i, j \in Ids :
    i < j /\ j < i + numThreads /\ conn[i] # Nobody /\ conn[j] # Nobody =>
      conn[i].loop # conn[j].loop

S == INSTANCE Service WITH
       Capacity <- Cardinality(Fds), waiting <- backlog,
       served <- {c \in Clients : Accepted(c)},
       finished <- {c \in Clients : status[c] = "closed"},
       stopped <- phase # "running"

\* The server is a Service: however connections are spread over loops and their removal
\* over functors, clients are accepted in the order of their connect(), no more of them
\* than there are descriptors, and the socket of none is closed before the client has
\* closed its own, unless the server is stopped.
ImplementsService == S!Spec

\* In the end no client is left connected without all its answers unless the server is
\* stopped, not even one that waited in the accept queue while all descriptors were in
\* use.  (Clients connect once and are never dismissed early, see ImplementsService, so
\* that this says that each one is served.)
EveryClientServed ==
  <>[](phase # "running" \/ \A c \in Clients : status[c] = "open" => Done(c))

\* In the end the socket of every client that is gone is closed, whatever loop it is in,
\* and also when the functors that should have removed the connection are dropped with
\* their loop.
ClosedIsReclaimed == <>[](\A c \in Clients : status[c] = "closed" => ~Accepted(c))

\* The handlers of a channel run only while its TcpConnection exists.
HandlersMeetTheLiving == ~usedDead
==============================================================================
