--------------------------- MODULE TcpServerProofs ---------------------------
(****************************************************************************)
(* Proofs about TcpServer for any clients, descriptors, threads, requests   *)
(* and message length: the types, that every socket has one owner, that     *)
(* connections_ agrees with the loops, that connections go to the loops in  *)
(* turn, that every client gets its bytes back, and that the server         *)
(* implements Service.                                                      *)
(****************************************************************************)
EXTENDS TcpServer, FiniteSetTheorems, SequenceTheorems, FunctionTheorems, TLAPS

-----------------------------------------------------------------------------
(* The inductive invariant. *)

Exists(i) == conn[i] # Nobody
FunctorSet == {"established", "remove", "destroyed"} \X Ids
Bytes == Clients \X (Nat \ {0})

\* The types that TypeOK leaves out.
MoreTypes ==
  /\ conn \in [Ids -> {Nobody} \cup TcpConnectionSet]
  /\ functors \in [Loops -> Seq(FunctorSet)]
  /\ backlog \in Seq(Clients)
  /\ up \in [Clients -> Seq(Bytes)] /\ output \in [Ids -> Seq(Bytes)]
  /\ down \in [Clients -> Seq(Bytes)] /\ got \in [Clients -> Seq(Bytes)]

Types == TypeOK /\ MoreTypes

\* What start() sets up comes before the first client.
Setup ==
  /\ ~started => nextConnId = 1 /\ next = 0 /\ ~listening /\ phase = "running"
  /\ ~listening => backlog = <<>>
  /\ next = 0 \/ next < numThreads

\* Connections are numbered as they come, and there are no more of them than clients that
\* have connected.
Numbered ==
  /\ \A i \in Ids : i >= nextConnId => ~Exists(i)
  /\ \E m \in 0..MaxClients :
       /\ \A c \in Clients : status[c] = "new" <=> c > m
       /\ nextConnId + Len(backlog) <= m + 1

\* A client is in one place, and once: not connected yet, in the accept queue, or the
\* client of a TcpConnection.
ClientsOnce ==
  /\ \A j, k \in DOMAIN backlog : backlog[j] = backlog[k] => j = k
  /\ \A k \in DOMAIN backlog : status[backlog[k]] # "new"
  /\ \A i \in Ids : Exists(i) => /\ status[conn[i].client] # "new"
                                 /\ ~Waiting(conn[i].client)
  /\ \A i, j \in Ids : Exists(i) /\ Exists(j) /\ conn[i].client = conn[j].client => i = j

FdsDistinct ==
  \A i, j \in Ids : Exists(i) /\ Exists(j) /\ conn[i].fd = conn[j].fd => i = j

Sockets == SocketOwned /\ FdsDistinct

\* Which channels activeChannels_ may hold: a connection there is still in the poller.
Reports ==
  /\ phase # "running" => reported[Base] = {}
  /\ \A l \in Loops : AcceptChannel \in reported[l] => l = Base /\ backlog # <<>>
  /\ \A l \in Loops, i \in Ids : i \in reported[l] =>
       /\ i < nextConnId
       /\ Exists(i) => conn[i].added /\ conn[i].loop = l

Elements(queue) == {queue[k] : k \in DOMAIN queue}
Once(queue) ==
  \A j, k \in DOMAIN queue : queue[j] = queue[k] /\ queue[j][1] = "established" => j = k

\* A functor is about a connection that exists and is in the state the functor expects;
\* connectEstablished is queued once.
Functors ==
  \A l \in Loops :
    /\ Once(functors[l])
    /\ \A f \in Elements(functors[l]) :
         /\ Exists(f[2])
         /\ f[1] = "established" => conn[f[2]].state = "kConnecting" /\ conn[f[2]].loop = l
         /\ f[1] # "established" => conn[f[2]].state = "kDisconnected"

\* A connection leaves the poller when its client has closed, and after that connections_.
Life ==
  \A i \in Ids : Exists(i) =>
    /\ conn[i].state = "kDisconnected" => status[conn[i].client] = "closed"
    /\ phase \in {"running", "stopped"} /\ conn[i].state # "kDisconnected" => i \in connections
    /\ phase = "running" /\ conn[i].state = "kDisconnected" /\ i \in connections =>
         <<"remove", i>> \in Elements(functors[Base])

\* The last numThreads connections have the loops before next_, in turn.
Turns ==
  \A i \in Ids : Exists(i) /\ nextConnId - i <= numThreads =>
    conn[i].loop = IF nextConnId - i <= next THEN next + 1 - (nextConnId - i)
                                             ELSE next + 1 - (nextConnId - i) + numThreads

\* A client has all its answers when it closes, as long as the server has not dropped it.
Finishing ==
  /\ \A i \in Ids : Exists(i) /\ status[conn[i].client] = "closed" => Done(conn[i].client)
  /\ \A c \in Clients : Waiting(c) /\ status[c] = "closed" => Done(c)

\* The bytes of the clients; a connection starts without output.
Streams == EchoIntact /\ Finishing /\ \A i \in Ids : ~Exists(i) => output[i] = <<>>

IInv ==
  /\ Types /\ Setup /\ Numbered /\ ClientsOnce /\ Sockets /\ Reports /\ Functors /\ Life
  /\ Streams /\ Turns /\ RoundRobin

USE NumbersAssumption, NobodyAssumption

-----------------------------------------------------------------------------
(* The functors of a loop. *)

\* The queue after queueInLoop.
LEMMA QueueGrows ==
  ASSUME NEW queue \in Seq(FunctorSet), NEW f \in FunctorSet, Once(queue),
         f[1] = "established" => f \notin Elements(queue)
  PROVE  /\ Append(queue, f) \in Seq(FunctorSet) /\ Once(Append(queue, f))
         /\ Elements(Append(queue, f)) = Elements(queue) \cup {f}
<1> DEFINE longer == Append(queue, f)
           last == Len(queue) + 1
<1>1. /\ longer \in Seq(FunctorSet)
      /\ DOMAIN longer = DOMAIN queue \cup {last} /\ last \notin DOMAIN queue
      /\ \A i \in DOMAIN queue : longer[i] = queue[i]
      /\ longer[last] = f
  OBVIOUS
<1> HIDE DEF longer, last
<1>2. Elements(longer) = Elements(queue) \cup {f}
  BY <1>1 DEF Elements
<1>3. ASSUME NEW j \in DOMAIN longer, NEW k \in DOMAIN longer, longer[j] = longer[k],
             longer[j][1] = "established"
      PROVE  j = k
  BY <1>1, <1>3 DEF Once, Elements
<1> QED
  BY <1>1, <1>2, <1>3 DEF longer, Once

\* The queue after its first functor was taken off.
LEMMA QueueShrinks ==
  ASSUME NEW queue \in Seq(FunctorSet), queue # <<>>, Once(queue)
  PROVE  /\ Head(queue) \in FunctorSet /\ Head(queue) \in Elements(queue)
         /\ Tail(queue) \in Seq(FunctorSet) /\ Once(Tail(queue))
         /\ Elements(queue) = Elements(Tail(queue)) \cup {Head(queue)}
         /\ Head(queue)[1] = "established" => Head(queue) \notin Elements(Tail(queue))
<1> DEFINE rest == Tail(queue)
           f == Head(queue)
<1>1. /\ rest \in Seq(FunctorSet) /\ f \in FunctorSet /\ f = queue[1] /\ 1 \in DOMAIN queue
      /\ \A i \in DOMAIN queue : i \in Nat /\ i >= 1
      /\ \A i \in DOMAIN rest : i \in Nat /\ i >= 1 /\ i + 1 \in DOMAIN queue
                                /\ rest[i] = queue[i + 1]
      /\ \A i \in DOMAIN queue : i # 1 => i - 1 \in DOMAIN rest /\ rest[i - 1] = queue[i]
  <2>1. rest \in Seq(FunctorSet) /\ Len(rest) = Len(queue) - 1 /\ Len(queue) \in Nat
          /\ f \in FunctorSet /\ f = queue[1] /\ 1 \in DOMAIN queue
    OBVIOUS
  <2>2. \A i \in 1..Len(rest) : rest[i] = queue[i + 1]
    OBVIOUS
  <2>3. DOMAIN rest = 1..Len(rest) /\ DOMAIN queue = 1..Len(queue)
    BY <2>1
  <2> HIDE DEF rest, f
  <2> QED
    BY <2>1, <2>2, <2>3
<1> HIDE DEF rest, f
<1>2. Elements(queue) = Elements(rest) \cup {f}
  <2>1. ASSUME NEW i \in DOMAIN queue PROVE queue[i] \in Elements(rest) \cup {f}
    <3>1. CASE i # 1
      <4>1. i - 1 \in DOMAIN rest /\ rest[i - 1] = queue[i]
        BY <1>1, <3>1
      <4> QED
        BY <4>1 DEF Elements
    <3> QED
      BY <1>1, <3>1
  <2>2. ASSUME NEW i \in DOMAIN rest PROVE rest[i] \in Elements(queue)
    BY <1>1 DEF Elements
  <2>3. f \in Elements(queue)
    BY <1>1 DEF Elements
  <2> QED
    BY <2>1, <2>2, <2>3 DEF Elements
<1>3. Once(rest)
  <2>1. ASSUME NEW j \in DOMAIN rest, NEW k \in DOMAIN rest, rest[j] = rest[k],
               rest[j][1] = "established"
        PROVE  j = k
    <3>1. j + 1 = k + 1
      BY <1>1, <2>1 DEF Once
    <3> QED
      BY <1>1, <3>1
  <2> QED
    BY <2>1 DEF Once
<1>4. ASSUME f[1] = "established", f \in Elements(rest) PROVE FALSE
  <2>1. PICK k \in DOMAIN rest : rest[k] = f
    BY <1>4 DEF Elements
  <2>2. k \in Nat /\ k >= 1 /\ k + 1 \in DOMAIN queue /\ queue[k + 1] = queue[1]
    BY <1>1, <2>1
  <2>3. k + 1 = 1
    BY <1>1, <1>4, <2>2 DEF Once
  <2> QED
    BY <2>2, <2>3
<1> QED
  BY <1>1, <1>2, <1>3, <1>4 DEF rest, f

\* An empty queue.
LEMMA QueueEmpty == <<>> \in Seq(FunctorSet) /\ Once(<<>>) /\ Elements(<<>>) = {}
  BY DEF Once, Elements

-----------------------------------------------------------------------------
(* Connections and clients. *)

\* A TcpConnection that exists.
LEMMA ConnectionIs ==
  ASSUME Types, NEW i \in Ids, Exists(i)
  PROVE  /\ conn[i] \in TcpConnectionSet
         /\ conn[i].client \in Clients /\ conn[i].fd \in Fds /\ conn[i].loop \in Loops
         /\ conn[i].added \in BOOLEAN
         /\ conn[i].state \in {"kConnecting", "kConnected", "kDisconnected"}
         /\ conn[i].added <=> conn[i].state = "kConnected"
<1>1. conn[i] \in TcpConnectionSet
  BY DEF Types, MoreTypes, Exists
<1>2. conn[i].added <=> conn[i].state = "kConnected"
  BY DEF Types, TypeOK, Exists
<1> QED
  BY <1>1, <1>2 DEF TcpConnectionSet, Loops

\* Setting state_ and the channel's place in the poller changes nothing else of the
\* connections.
SameOwners ==
  \A j \in Ids :
    /\ Exists(j)' <=> Exists(j)
    /\ Exists(j) => /\ conn'[j].client = conn[j].client /\ conn'[j].fd = conn[j].fd
                    /\ conn'[j].loop = conn[j].loop

\* connectEstablished, handleClose and connectDestroyed set state_ and the channel.
LEMMA Marked ==
  ASSUME Types, NEW i \in Ids, Exists(i), NEW a \in BOOLEAN,
         NEW s \in {"kConnecting", "kConnected", "kDisconnected"}, a <=> s = "kConnected",
         conn' = [conn EXCEPT ![i].state = s, ![i].added = a]
  PROVE  /\ conn' \in [Ids -> {Nobody} \cup TcpConnectionSet]
         /\ SameOwners
         /\ conn'[i].state = s /\ conn'[i].added = a /\ Exists(i)'
         /\ \A j \in Ids : j # i => conn'[j] = conn[j]
         /\ \A j \in Ids : conn'[j] = Nobody \/
              /\ conn'[j].client \in Clients /\ conn'[j].fd \in Fds /\ conn'[j].loop \in Loops
              /\ conn'[j].added <=> conn'[j].state = "kConnected"
<1>1. conn \in [Ids -> {Nobody} \cup TcpConnectionSet] /\ conn[i] \in TcpConnectionSet
  BY ConnectionIs DEF Types, MoreTypes
<1>2. /\ conn' \in [Ids -> {Nobody} \cup TcpConnectionSet] /\ conn'[i] \in TcpConnectionSet
      /\ conn'[i].state = s /\ conn'[i].added = a
      /\ conn'[i].client = conn[i].client /\ conn'[i].fd = conn[i].fd
      /\ conn'[i].loop = conn[i].loop
      /\ \A j \in Ids : j # i => conn'[j] = conn[j]
  <2>1. conn' = [conn EXCEPT ![i] = [conn[i] EXCEPT !.state = s, !.added = a]]
    BY <1>1
  <2>2. [conn[i] EXCEPT !.state = s, !.added = a] \in TcpConnectionSet
    BY <1>1 DEF TcpConnectionSet
  <2>3. /\ [conn[i] EXCEPT !.state = s, !.added = a].state = s
        /\ [conn[i] EXCEPT !.state = s, !.added = a].added = a
        /\ [conn[i] EXCEPT !.state = s, !.added = a].client = conn[i].client
        /\ [conn[i] EXCEPT !.state = s, !.added = a].fd = conn[i].fd
        /\ [conn[i] EXCEPT !.state = s, !.added = a].loop = conn[i].loop
    BY <1>1 DEF TcpConnectionSet
  <2> QED
    BY <1>1, <2>1, <2>2, <2>3
<1>3. Exists(i)'
  BY <1>2 DEF Exists
<1>4. SameOwners
  BY <1>2, <1>3 DEF SameOwners, Exists
<1>5. conn'[i].client \in Clients /\ conn'[i].fd \in Fds /\ conn'[i].loop \in Loops
        /\ (conn'[i].added <=> conn'[i].state = "kConnected")
  BY <1>2, ConnectionIs
<1>6. ASSUME NEW j \in Ids, conn[j] # Nobody
      PROVE  conn[j].client \in Clients /\ conn[j].fd \in Fds /\ conn[j].loop \in Loops
               /\ (conn[j].added <=> conn[j].state = "kConnected")
  BY <1>6, ConnectionIs DEF Exists
<1> QED
  BY <1>2, <1>3, <1>4, <1>5, <1>6

\* What is about connections and their owners only is kept by all other steps.
LEMMA OwnersKept ==
  ASSUME IInv, SameOwners, UNCHANGED <<nextConnId, status, backlog, file, next, numThreads>>
  PROVE  Numbered' /\ ClientsOnce' /\ Sockets' /\ Turns' /\ RoundRobin'
<1>1. Numbered' /\ ClientsOnce'
  BY DEF IInv, Numbered, ClientsOnce, SameOwners, Waiting
<1>2. Sockets'
  <2>1. FdsDistinct'
    BY DEF IInv, Sockets, FdsDistinct, SameOwners
  <2>2. ASSUME NEW fd \in Fds, file[fd] # Nobody
        PROVE  \E i \in Ids : conn'[i] # Nobody /\ conn'[i].fd = fd
    <3>1. PICK i \in Ids : Exists(i) /\ conn[i].fd = fd
      BY <2>2 DEF IInv, Sockets, SocketOwned, Exists
    <3>2. Exists(i)' /\ conn'[i].fd = fd
      BY <3>1 DEF SameOwners
    <3> QED
      BY <3>2 DEF Exists
  <2>3. ASSUME NEW i \in Ids, Exists(i)' PROVE file[conn'[i].fd] = conn'[i].client
    <3>1. Exists(i) /\ conn'[i].fd = conn[i].fd /\ conn'[i].client = conn[i].client
      BY <2>3 DEF SameOwners
    <3> QED
      BY <3>1 DEF IInv, Sockets, SocketOwned, Exists
  <2> QED
    BY <2>1, <2>2, <2>3 DEF Sockets, SocketOwned, Exists
<1>3. Turns' /\ RoundRobin'
  BY DEF IInv, Turns, RoundRobin, SameOwners, Exists
<1> QED
  BY <1>1, <1>2, <1>3

\* Steps that leave all connections alone.
LEMMA SameConnections == UNCHANGED conn => SameOwners
  BY DEF SameOwners, Exists

\* Steps that leave the functors, connections_ and the connections alone.
LEMMA LifeKept ==
  ASSUME IInv, UNCHANGED <<conn, status, connections, functors, phase>>
  PROVE  Functors' /\ Life'
  BY DEF IInv, Functors, Life, Exists

\* Steps that leave alone what was reported, and what it depends on.
LEMMA ReportsKept ==
  ASSUME IInv, UNCHANGED <<conn, reported, backlog, nextConnId, phase>>
  PROVE  Reports'
  BY DEF IInv, Reports, Exists

\* Steps that move no bytes, or only what the client reads, and keep the connections.
LEMMA EchoKept ==
  ASSUME IInv, SameOwners, UNCHANGED <<up, output, written>>,
         \A c \in Clients : got'[c] \o down'[c] = got[c] \o down[c],
         phase' \in {"running", "stopped"} => phase \in {"running", "stopped"}
  PROVE  EchoIntact'
<1>1. \A c \in Clients : \E n \in 0..written'[c] : got'[c] \o down'[c] = FirstBytes(c, n)
  BY DEF IInv, Streams, EchoIntact
<1>2. ASSUME NEW i \in Ids, Exists(i)'
      PROVE  /\ conn'[i].client \in Clients
             /\ got'[conn'[i].client] \o down'[conn'[i].client] \o output'[i]
                  \o up'[conn'[i].client] = FirstBytes(conn'[i].client, written'[conn'[i].client])
  <2>1. Exists(i) /\ conn'[i].client = conn[i].client
    BY <1>2 DEF SameOwners
  <2>2. PICK c \in Clients : c = conn[i].client
    BY <2>1, ConnectionIs DEF IInv
  <2>3. got[c] \o down[c] \o output[i] \o up[c] = FirstBytes(c, written[c])
    BY <2>1, <2>2 DEF IInv, Streams, EchoIntact, Exists
  <2> QED
    BY <2>1, <2>2, <2>3
<1>3. ASSUME phase' \in {"running", "stopped"}, NEW c \in Clients,
             \A i \in Ids : Exists(i)' => conn'[i].client # c
      PROVE  got'[c] \o down'[c] \o up'[c] = FirstBytes(c, written'[c])
  <2>1. \A i \in Ids : conn[i] # Nobody => conn[i].client # c
    BY <1>3 DEF SameOwners, Exists
  <2>2. got[c] \o down[c] \o up[c] = FirstBytes(c, written[c])
    BY <1>3, <2>1 DEF IInv, Streams, EchoIntact
  <2> QED
    BY <2>2
<1> QED
  BY <1>1, <1>2, <1>3 DEF EchoIntact, Exists

\* Steps that leave the bytes and the clients alone.
LEMMA StreamsKept ==
  ASSUME IInv, SameOwners, UNCHANGED <<got, down, up, output, written, status, backlog>>,
         phase' \in {"running", "stopped"} => phase \in {"running", "stopped"}
  PROVE  Streams'
<1>1. EchoIntact'
  BY EchoKept
<1>2. Finishing'
  BY DEF IInv, Streams, Finishing, SameOwners, Done, Waiting
<1> QED
  BY <1>1, <1>2 DEF IInv, Streams, SameOwners

\* Bytes: what has been written is the concatenation of what is on its way.
LEMMA Concat ==
  ASSUME NEW s \in Seq(Bytes), NEW t \in Seq(Bytes), NEW u \in Seq(Bytes)
  PROVE  /\ s \o t \in Seq(Bytes) /\ Len(s \o t) = Len(s) + Len(t)
         /\ (s \o t) \o u = s \o (t \o u)
         /\ s \o <<>> = s /\ <<>> \o s = s /\ <<>> \in Seq(Bytes)
<1>1. (s \o t) \o u = s \o (t \o u)
  OBVIOUS
<1>2. s \o <<>> = s /\ <<>> \o s = s
  BY ConcatEmptySeq
<1> QED
  BY <1>1, <1>2

\* Concatenation under a name of its own, for which only these facts are known.
Join(s, t) == s \o t

\* Concatenation is associative.
LEMMA JoinIs ==
  \A s, t, u \in Seq(Bytes) :
    Join(s, t) \in Seq(Bytes) /\ Join(Join(s, t), u) = Join(s, Join(t, u))
<1>1. ASSUME NEW s \in Seq(Bytes), NEW t \in Seq(Bytes), NEW u \in Seq(Bytes)
      PROVE  s \o t \in Seq(Bytes) /\ (s \o t) \o u = s \o (t \o u)
  OBVIOUS
<1> QED
  BY <1>1, Zenon DEF Join

\* The n bytes that a client writes after the first m.
Sent(c, m, n) == [k \in 1..n |-> <<c, m + k>>]

\* What the first bytes are.
LEMMA FirstBytesAre ==
  ASSUME NEW c \in Clients, NEW m \in Nat
  PROVE  /\ FirstBytes(c, m) \in Seq(Bytes) /\ Len(FirstBytes(c, m)) = m
         /\ \A k \in 1..m : FirstBytes(c, m)[k] = <<c, k>>
<1>1. FirstBytes(c, m) \in [1..m -> Bytes]
  BY DEF FirstBytes, Bytes
<1> QED
  BY <1>1 DEF FirstBytes

\* Writing n bytes after the first m gives the first m + n.
LEMMA SentIs ==
  ASSUME NEW c \in Clients, NEW m \in Nat, NEW n \in Nat
  PROVE  /\ Sent(c, m, n) \in Seq(Bytes) /\ Len(Sent(c, m, n)) = n
         /\ FirstBytes(c, m) \o Sent(c, m, n) = FirstBytes(c, m + n)
<1>1. /\ Sent(c, m, n) \in Seq(Bytes) /\ Len(Sent(c, m, n)) = n
      /\ \A k \in 1..n : Sent(c, m, n)[k] = <<c, m + k>>
  <2>1. Sent(c, m, n) \in [1..n -> Bytes]
    BY DEF Sent, Bytes
  <2> QED
    BY <2>1 DEF Sent
<1>2. FirstBytes(c, m) \o Sent(c, m, n) = FirstBytes(c, m + n)
  <2> DEFINE s == FirstBytes(c, m)
             t == Sent(c, m, n)
             u == FirstBytes(c, m + n)
  <2>1. /\ s \in Seq(Bytes) /\ Len(s) = m /\ \A k \in 1..m : s[k] = <<c, k>>
        /\ t \in Seq(Bytes) /\ Len(t) = n /\ \A k \in 1..n : t[k] = <<c, m + k>>
        /\ u \in Seq(Bytes) /\ Len(u) = m + n /\ \A k \in 1..m + n : u[k] = <<c, k>>
    <3>1. m + n \in Nat
      OBVIOUS
    <3> QED
      BY <1>1, <3>1, FirstBytesAre
  <2> HIDE DEF s, t, u
  <2>2. /\ s \o t \in Seq(Bytes) /\ Len(s \o t) = m + n
        /\ \A k \in 1..m + n : (s \o t)[k] = IF k <= m THEN s[k] ELSE t[k - m]
    BY <2>1, ConcatProperties
  <2>3. ASSUME NEW k \in 1..m + n PROVE (s \o t)[k] = u[k]
    <3>0. u[k] = <<c, k>> /\ k \in Nat
      BY <2>1
    <3>1. CASE k <= m
      <4>1. k \in 1..m
        BY <3>1
      <4>2. s[k] = <<c, k>>
        BY <2>1, <4>1
      <4> QED
        BY <2>2, <3>0, <3>1, <4>2
    <3>2. CASE k > m
      <4>1. k - m \in 1..n /\ m + (k - m) = k
        BY <3>2
      <4>2. (s \o t)[k] = t[k - m]
        BY <2>2, <3>2
      <4>3. t[k - m] = <<c, m + (k - m)>>
        BY <2>1, <4>1
      <4>4. <<c, m + (k - m)>> = <<c, k>>
        BY <4>1
      <4> QED
        BY <3>0, <4>2, <4>3, <4>4
    <3>3. k <= m \/ k > m
      BY <3>0
    <3> QED
      BY <3>1, <3>2, <3>3, Zenon
  <2>4. s \o t = u
    BY <2>1, <2>2, <2>3, SeqEqual
  <2> QED
    BY <2>4 DEF s, t, u
<1> QED
  BY <1>1, <1>2

\* A part that comes first of the first bytes is the first bytes, fewer of them.
LEMMA PartIs ==
  ASSUME NEW c \in Clients, NEW m \in Nat, NEW s \in Seq(Bytes), NEW t \in Seq(Bytes),
         s \o t = FirstBytes(c, m)
  PROVE  \E n \in 0..m : s = FirstBytes(c, n)
<1>1. PICK n \in Nat, l \in Nat : n = Len(s) /\ l = Len(t)
  OBVIOUS
<1>2. /\ s \o t \in Seq(Bytes) /\ Len(s \o t) = n + l
      /\ \A k \in 1..n + l : (s \o t)[k] = IF k <= n THEN s[k] ELSE t[k - n]
  BY <1>1, ConcatProperties
<1>3. /\ Len(FirstBytes(c, m)) = m /\ \A k \in 1..m : FirstBytes(c, m)[k] = <<c, k>>
      /\ FirstBytes(c, n) \in Seq(Bytes)
      /\ Len(FirstBytes(c, n)) = n /\ \A k \in 1..n : FirstBytes(c, n)[k] = <<c, k>>
  BY FirstBytesAre
<1>4. m = n + l /\ n \in 0..m
  BY <1>2, <1>3
<1>5. ASSUME NEW k \in 1..n PROVE s[k] = FirstBytes(c, n)[k]
  <2>1. k \in 1..m /\ k \in 1..n + l /\ k <= n
    BY <1>4
  <2> QED
    BY <1>2, <1>3, <2>1
<1>6. s = FirstBytes(c, n)
  BY <1>1, <1>3, <1>5, SeqEqual
<1> QED
  BY <1>4, <1>6

\* The length of four parts.
LEMMA FourLengths ==
  \A s, t, u, v \in Seq(Bytes) :
    Len(((s \o t) \o u) \o v) = Len(s) + Len(t) + Len(u) + Len(v)
<1>1. ASSUME NEW s \in Seq(Bytes), NEW t \in Seq(Bytes), NEW u \in Seq(Bytes),
             NEW v \in Seq(Bytes)
      PROVE  Len(((s \o t) \o u) \o v) = Len(s) + Len(t) + Len(u) + Len(v)
  <2>1. PICK p \in Seq(Bytes) : p = s \o t /\ Len(p) = Len(s) + Len(t)
    BY Concat
  <2>2. PICK q \in Seq(Bytes) : q = p \o u /\ Len(q) = Len(p) + Len(u)
    BY Concat
  <2>3. Len(q \o v) = Len(q) + Len(v)
    BY Concat
  <2> QED
    BY <2>1, <2>2, <2>3
<1> QED
  BY <1>1, Zenon

-----------------------------------------------------------------------------
(* The invariant holds initially, and is kept while the server is set up. *)

\* A server that was just constructed satisfies the invariant.
LEMMA InitIInv == Init => IInv
<1> SUFFICES ASSUME Init PROVE IInv
  OBVIOUS
<1> USE DEF Init
<1>1. \A i \in Ids : ~Exists(i)
  BY DEF Exists
<1>2. Types
  <2>1. TypeOK
    <3>1. written \in [Clients -> 0..Total]
      <4>1. Total \in Nat
        BY DEF Total
      <4> QED
        BY <4>1
    <3>2. \A i \in Ids : conn[i] = Nobody
      OBVIOUS
    <3>3. 0 \in Loops /\ 1 \in 1..MaxClients + 1
      BY DEF Loops
    <3>4. reported \in [Loops -> SUBSET (Ids \cup {AcceptChannel})]
      OBVIOUS
    <3>5. file \in [Fds -> Clients \cup {Nobody}]
            /\ status \in [Clients -> {"new", "open", "closed"}]
      OBVIOUS
    <3> QED
      BY <3>1, <3>2, <3>3, <3>4, <3>5 DEF TypeOK, Base
  <2>2. MoreTypes
    BY DEF MoreTypes
  <2> QED
    BY <2>1, <2>2 DEF Types
<1>3. Setup /\ ClientsOnce /\ Turns /\ RoundRobin /\ Sockets
  BY <1>1 DEF Setup, ClientsOnce, Turns, RoundRobin, Sockets, SocketOwned, FdsDistinct, Exists
<1>4. Numbered
  <2>1. /\ 0 \in 0..MaxClients /\ \A c \in Clients : status[c] = "new" <=> c > 0
        /\ nextConnId + Len(backlog) <= 0 + 1
    BY DEF Clients
  <2> QED
    BY <1>1, <2>1 DEF Numbered
<1>5. Reports /\ Functors /\ Life
  BY <1>1, QueueEmpty DEF Reports, Functors, Life, Loops, Base
<1>6. Streams
  <2>1. ASSUME NEW c \in Clients
        PROVE  /\ written[c] = 0 /\ FirstBytes(c, 0) = <<>> /\ got[c] \o down[c] = <<>>
               /\ got[c] \o down[c] \o up[c] = <<>>
    <3>1. got[c] \o down[c] = <<>> /\ got[c] \o down[c] \o up[c] = <<>>
      BY Concat
    <3> QED
      BY <3>1 DEF FirstBytes
  <2>2. EchoIntact
    BY <1>1, <2>1 DEF EchoIntact, Exists
  <2>3. Finishing
    BY <1>1 DEF Finishing, Waiting
  <2> QED
    BY <2>2, <2>3 DEF Streams
<1> QED
  BY <1>2, <1>3, <1>4, <1>5, <1>6 DEF IInv

\* setThreadNum comes before the first connection.
LEMMA NextSetThreadNum == ASSUME IInv, NEW n \in Loops, SetThreadNum(n) PROVE IInv'
<1> USE DEF SetThreadNum, tableVars, loopVars, listenVars, clientVars
<1>1. Types'
  BY DEF IInv, Types, TypeOK, MoreTypes
<1>2. Functors' /\ Life' /\ Reports' /\ Streams'
  BY LifeKept, ReportsKept, SameConnections, StreamsKept
<1>3. nextConnId = 1 /\ \A i \in Ids : ~Exists(i)
  BY DEF IInv, Setup, Numbered, Ids
<1>4. Numbered' /\ ClientsOnce' /\ Sockets'
  BY DEF IInv, Numbered, ClientsOnce, Sockets, SocketOwned, FdsDistinct, Exists, Waiting
<1>5. Turns' /\ RoundRobin'
  BY <1>3 DEF Turns, RoundRobin, Exists
<1>6. Setup'
  <2>1. next = 0
    BY DEF IInv, Setup
  <2> QED
    BY <2>1 DEF IInv, Setup
<1> QED
  BY <1>1, <1>2, <1>4, <1>5, <1>6 DEF IInv

\* start().
LEMMA NextStart == IInv /\ Start => IInv'
<1> SUFFICES ASSUME IInv, Start PROVE IInv'
  OBVIOUS
<1> USE DEF Start, StartPool, listen, poolVars, tableVars, clientVars
<1>1. Types'
  <2>1. 1..numThreads \subseteq Loops
    BY DEF IInv, Types, TypeOK, Loops
  <2> QED
    BY <2>1 DEF IInv, Types, TypeOK, MoreTypes
<1>2. Functors' /\ Life' /\ Reports' /\ Streams'
  BY LifeKept, ReportsKept, SameConnections, StreamsKept
<1>3. Numbered' /\ ClientsOnce' /\ Sockets' /\ Turns' /\ RoundRobin'
  BY SameConnections, OwnersKept
<1>4. Setup'
  BY DEF IInv, Setup
<1> QED
  BY <1>1, <1>2, <1>3, <1>4 DEF IInv

-----------------------------------------------------------------------------
(* The clients. *)

\* The socket of a connection.
LEMMA SocketIs ==
  ASSUME IInv, NEW i \in Ids, Exists(i)
  PROVE  file[conn[i].fd] = conn[i].client /\ conn[i].client \in Clients /\ i < nextConnId
<1>1. file[conn[i].fd] = conn[i].client
  BY DEF IInv, Sockets, SocketOwned, Exists
<1>2. conn[i].client \in Clients
  BY ConnectionIs DEF IInv
<1>3. i < nextConnId
  BY DEF IInv, Numbered, Types, TypeOK, Ids
<1> QED
  BY <1>1, <1>2, <1>3

\* connect() puts a client into the accept queue, or is refused.
LEMMA NextConnect == ASSUME IInv, NEW c \in Clients, Connect(c) PROVE IInv'
<1> USE DEF Connect, poolVars, tableVars, loopVars
<1>0. /\ status[c] = "new" /\ \A d \in 1..c - 1 : status[d] # "new"
      /\ status' = [status EXCEPT ![c] = IF listening THEN "open" ELSE "closed"]
      /\ backlog' = IF listening THEN Append(backlog, c) ELSE backlog
  OBVIOUS
<1>1. /\ status' \in [Clients -> {"new", "open", "closed"}]
      /\ status'[c] \in {"open", "closed"}
      /\ \A d \in Clients : d # c => status'[d] = status[d]
  BY <1>0 DEF IInv, Types, TypeOK
<1>2. /\ backlog \in Seq(Clients) /\ backlog' \in Seq(Clients)
      /\ Len(backlog') <= Len(backlog) + 1 /\ Len(backlog) \in Nat /\ Len(backlog') \in Nat
      /\ \A k \in DOMAIN backlog : k \in DOMAIN backlog' /\ backlog'[k] = backlog[k]
      /\ \A k \in DOMAIN backlog' : k \in DOMAIN backlog \/
            (k = Len(backlog) + 1 /\ backlog'[k] = c)
      /\ \A k \in DOMAIN backlog : backlog[k] # c
      /\ backlog # <<>> => backlog' # <<>>
  <2>1. backlog \in Seq(Clients) /\ \A k \in DOMAIN backlog : backlog[k] # c
    BY <1>0 DEF IInv, Types, MoreTypes, ClientsOnce
  <2>2. CASE listening
    BY <1>0, <2>1, <2>2
  <2>3. CASE ~listening
    BY <1>0, <2>1, <2>3
  <2> QED
    BY <2>1, <2>2, <2>3
<1>3. \A i \in Ids : Exists(i) => conn[i].client # c /\ conn[i].client \in Clients
                                    /\ status'[conn[i].client] = status[conn[i].client]
  BY <1>0, <1>1, ConnectionIs DEF IInv, ClientsOnce
<1>4. Types'
  BY <1>1, <1>2 DEF IInv, Types, TypeOK, MoreTypes
<1>5. Setup'
  BY <1>0 DEF IInv, Setup
<1>6. Numbered'
  <2>1. PICK m \in 0..MaxClients : /\ \A d \in Clients : status[d] = "new" <=> d > m
                                   /\ nextConnId + Len(backlog) <= m + 1
    BY DEF IInv, Numbered
  <2>2. c = m + 1
    <3>1. c > m /\ c \in Nat /\ m \in Nat
      BY <1>0, <2>1 DEF Clients
    <3>2. CASE c > m + 1
      <4>1. m + 1 \in 1..c - 1 /\ m + 1 \in Clients
        BY <3>1, <3>2 DEF Clients
      <4> QED
        BY <1>0, <2>1, <4>1
    <3> QED
      BY <3>1, <3>2
  <2>3. c \in 0..MaxClients /\ \A d \in Clients : status'[d] = "new" <=> d > c
    <3>1. \A d \in Clients : d \in Nat /\ (d # c => (d > m <=> d > c))
      BY <2>2 DEF Clients
    <3>2. c \in 0..MaxClients /\ ~(c > c)
      BY DEF Clients
    <3> QED
      BY <1>1, <2>1, <3>1, <3>2
  <2>4. nextConnId + Len(backlog') <= c + 1
    BY <1>2, <2>1, <2>2 DEF IInv, Types, TypeOK
  <2>5. \A i \in Ids : i >= nextConnId' => ~Exists(i)'
    BY DEF IInv, Numbered, Exists
  <2> QED
    BY <2>3, <2>4, <2>5 DEF Numbered
<1>7. ClientsOnce'
  <2>1. \A j, k \in DOMAIN backlog' : backlog'[j] = backlog'[k] => j = k
    BY <1>2 DEF IInv, ClientsOnce
  <2>2. \A k \in DOMAIN backlog' : status'[backlog'[k]] # "new"
    BY <1>1, <1>2 DEF IInv, ClientsOnce
  <2>3. ASSUME NEW i \in Ids, Exists(i)
        PROVE  status'[conn[i].client] # "new" /\ ~Waiting(conn[i].client)'
    <3>1. status[conn[i].client] # "new" /\ \A k \in DOMAIN backlog : backlog[k] # conn[i].client
      BY <2>3 DEF IInv, ClientsOnce, Waiting
    <3>2. \A k \in DOMAIN backlog' : backlog'[k] # conn[i].client
      BY <1>2, <1>3, <2>3, <3>1
    <3> QED
      BY <1>3, <2>3, <3>1, <3>2 DEF Waiting
  <2> QED
    BY <2>1, <2>2, <2>3 DEF IInv, ClientsOnce, Exists
<1>8. Sockets' /\ Turns' /\ RoundRobin'
  BY DEF IInv, Sockets, SocketOwned, FdsDistinct, Turns, RoundRobin, Exists
<1>9. Reports'
  BY <1>2, <1>3 DEF IInv, Reports, Exists
<1>10. Functors' /\ Life'
  BY <1>3 DEF IInv, Functors, Life, Exists
<1>11. Streams'
  <2>1. EchoIntact'
    BY SameConnections, EchoKept
  <2>2. ASSUME NEW d \in Clients, Waiting(d)', status'[d] = "closed" PROVE Done(d)'
    <3>1. CASE d = c
      <4>1. status'[c] = "closed" => ~listening
        BY <1>0 DEF IInv, Types, TypeOK
      <4> QED
        BY <1>0, <1>2, <2>2, <3>1, <4>1 DEF Waiting
    <3>2. CASE d # c
      <4>1. Waiting(d) /\ status[d] = "closed"
        BY <1>1, <1>2, <2>2, <3>2 DEF Waiting
      <4> QED
        BY <4>1 DEF IInv, Streams, Finishing, Done
    <3> QED
      BY <3>1, <3>2
  <2>3. Finishing'
    BY <1>3, <2>2 DEF IInv, Streams, Finishing, Exists, Done
  <2> QED
    BY <2>1, <2>3 DEF IInv, Streams, Exists
<1> QED
  BY <1>4, <1>5, <1>6, <1>7, <1>8, <1>9, <1>10, <1>11 DEF IInv

\* The end of a request that is not the last.
LEMMA RequestEnd ==
  ASSUME NEW n \in Nat, NEW d \in Nat \ {0}, NEW r \in Nat, n < r * d
  PROVE  d * (n \div d + 1) \in Nat /\ d * (n \div d + 1) <= r * d
<1>1. PICK q \in Nat : q = n \div d
  OBVIOUS
<1>2. d * q <= n
  BY <1>1
<1>3. q < r
  <2>1. ASSUME q >= r PROVE FALSE
    <3>1. PICK x \in Nat : q = r + x
      <4>1. q - r \in Nat /\ q = r + (q - r)
        BY <2>1
      <4> QED
        BY <4>1
    <3>2. d * q = r * d + d * x
      BY <3>1
    <3>3. d * x \in Nat /\ r * d \in Nat /\ d * q \in Nat
      OBVIOUS
    <3> QED
      BY <1>2, <3>2, <3>3
  <2> QED
    BY <2>1
<1>4. PICK y \in Nat : r = (q + 1) + y
  <2>1. r - (q + 1) \in Nat /\ r = (q + 1) + (r - (q + 1))
    BY <1>3
  <2> QED
    BY <2>1
<1>5. r * d = d * (q + 1) + d * y
  BY <1>4
<1>6. d * y \in Nat /\ d * (q + 1) \in Nat
  OBVIOUS
<1>7. d * (q + 1) <= r * d
  BY <1>5, <1>6
<1> QED
  BY <1>1, <1>6, <1>7

\* The bytes of a client.
LEMMA BytesAre ==
  ASSUME IInv, NEW c \in Clients
  PROVE  /\ up[c] \in Seq(Bytes) /\ down[c] \in Seq(Bytes) /\ got[c] \in Seq(Bytes)
         /\ written[c] \in Nat /\ written[c] <= Total /\ Total \in Nat
         /\ Len(got[c]) \in Nat /\ Len(got[c]) <= written[c]
<1>1. Total \in Nat
  BY DEF Total
<1>2. up[c] \in Seq(Bytes) /\ down[c] \in Seq(Bytes) /\ got[c] \in Seq(Bytes)
        /\ written[c] \in 0..Total
  BY DEF IInv, Types, TypeOK, MoreTypes
<1>3. written[c] \in Nat /\ written[c] <= Total
  BY <1>1, <1>2
<1>4. PICK n \in 0..written[c] : got[c] \o down[c] = FirstBytes(c, n)
  BY DEF IInv, Streams, EchoIntact
<1>5. n \in Nat /\ n <= written[c]
  BY <1>3
<1>6. Len(FirstBytes(c, n)) = n
  BY <1>5, FirstBytesAre
<1>7. Len(got[c] \o down[c]) = Len(got[c]) + Len(down[c])
  BY <1>2, Concat
<1>8. PICK x \in Nat, y \in Nat : x = Len(got[c]) /\ y = Len(down[c])
  BY <1>2
<1>9. x + y = n
  BY <1>4, <1>6, <1>7, <1>8
<1>10. x <= written[c]
  BY <1>3, <1>5, <1>9
<1> QED
  BY <1>1, <1>2, <1>3, <1>8, <1>10

\* The bytes of a client that has a connection; all of them are back when it is done.
LEMMA StreamIs ==
  ASSUME IInv, NEW i \in Ids, Exists(i), NEW c \in Clients, c = conn[i].client
  PROVE  /\ output[i] \in Seq(Bytes)
         /\ ((got[c] \o down[c]) \o output[i]) \o up[c] = FirstBytes(c, written[c])
         /\ Done(c) => output[i] = <<>>
<1>1. /\ up[c] \in Seq(Bytes) /\ down[c] \in Seq(Bytes) /\ got[c] \in Seq(Bytes)
      /\ written[c] \in Nat /\ written[c] <= Total /\ Total \in Nat
  BY BytesAre
<1>2. output[i] \in Seq(Bytes)
  BY DEF IInv, Types, MoreTypes
<1>3. ((got[c] \o down[c]) \o output[i]) \o up[c] = FirstBytes(c, written[c])
  BY DEF IInv, Streams, EchoIntact, Exists
<1>4. ASSUME Done(c) PROVE output[i] = <<>>
  <2>1. Len(got[c]) = Total
    BY <1>4 DEF Done
  <2>2. Len(((got[c] \o down[c]) \o output[i]) \o up[c])
          = Len(got[c]) + Len(down[c]) + Len(output[i]) + Len(up[c])
    <3>1. PICK p \in Seq(Bytes), q \in Seq(Bytes), s \in Seq(Bytes), t \in Seq(Bytes) :
            p = got[c] /\ q = down[c] /\ s = output[i] /\ t = up[c]
      BY <1>1, <1>2
    <3>2. Len(((p \o q) \o s) \o t) = Len(p) + Len(q) + Len(s) + Len(t)
      BY FourLengths
    <3> QED
      BY <3>1, <3>2
  <2>3. PICK w \in Nat, x \in Nat, y \in Nat, z \in Nat :
          w = Len(got[c]) /\ x = Len(down[c]) /\ y = Len(output[i]) /\ z = Len(up[c])
    BY <1>1, <1>2
  <2>4. y = 0
    <3>1. Len(FirstBytes(c, written[c])) = written[c]
      BY <1>1, FirstBytesAre
    <3>2. w + x + y + z = written[c] /\ w = Total
      BY <1>3, <2>1, <2>2, <2>3, <3>1
    <3> QED
      BY <1>1, <3>2
  <2> QED
    BY <1>2, <2>3, <2>4, EmptySeq
<1> QED
  BY <1>2, <1>3, <1>4

\* EchoIntact after a step that moves bytes of one client.
LEMMA EchoMoved ==
  ASSUME IInv, NEW c \in Clients, UNCHANGED <<conn, phase>>,
         \A d \in Clients : d # c => /\ up'[d] = up[d] /\ down'[d] = down[d]
                                     /\ got'[d] = got[d] /\ written'[d] = written[d],
         \A i \in Ids : Exists(i) /\ conn[i].client # c => output'[i] = output[i],
         \E n \in 0..written'[c] : got'[c] \o down'[c] = FirstBytes(c, n),
         \A i \in Ids : Exists(i) /\ conn[i].client = c =>
           got'[c] \o down'[c] \o output'[i] \o up'[c] = FirstBytes(c, written'[c]),
         phase \in {"running", "stopped"} /\ (\A i \in Ids : Exists(i) => conn[i].client # c) =>
           got'[c] \o down'[c] \o up'[c] = FirstBytes(c, written'[c])
  PROVE  EchoIntact'
<1>1. ASSUME NEW d \in Clients
      PROVE  \E n \in 0..written'[d] : got'[d] \o down'[d] = FirstBytes(d, n)
  <2>1. CASE d = c
    BY <2>1
  <2>2. CASE d # c
    <3>1. \E n \in 0..written[d] : got[d] \o down[d] = FirstBytes(d, n)
      BY DEF IInv, Streams, EchoIntact
    <3> QED
      BY <2>2, <3>1
  <2> QED
    BY <2>1, <2>2
<1>2. ASSUME NEW i \in Ids, Exists(i)
      PROVE  got'[conn[i].client] \o down'[conn[i].client] \o output'[i] \o up'[conn[i].client]
               = FirstBytes(conn[i].client, written'[conn[i].client])
  <2>1. PICK d \in Clients : d = conn[i].client
    BY <1>2, ConnectionIs DEF IInv
  <2>2. got'[d] \o down'[d] \o output'[i] \o up'[d] = FirstBytes(d, written'[d])
    <3>1. CASE d = c
      BY <1>2, <2>1, <3>1
    <3>2. CASE d # c
      <4>1. got[d] \o down[d] \o output[i] \o up[d] = FirstBytes(d, written[d])
        BY <1>2, <2>1, StreamIs
      <4>2. output'[i] = output[i]
        BY <1>2, <2>1, <3>2
      <4> QED
        BY <3>2, <4>1, <4>2
    <3> QED
      BY <3>1, <3>2
  <2> QED
    BY <2>1, <2>2
<1>3. ASSUME phase \in {"running", "stopped"}, NEW d \in Clients,
             \A i \in Ids : Exists(i) => conn[i].client # d
      PROVE  got'[d] \o down'[d] \o up'[d] = FirstBytes(d, written'[d])
  <2>1. CASE d = c
    BY <1>3, <2>1
  <2>2. CASE d # c
    <3>1. got[d] \o down[d] \o up[d] = FirstBytes(d, written[d])
      BY <1>3 DEF IInv, Streams, EchoIntact, Exists
    <3> QED
      BY <2>2, <3>1
  <2> QED
    BY <2>1, <2>2
<1> QED
  BY <1>1, <1>2, <1>3 DEF EchoIntact, Exists

\* A client writes a part of its request.
LEMMA NextClientWrite == ASSUME IInv, NEW c \in Clients, ClientWrite(c) PROVE IInv'
<1>0. UNCHANGED <<started, numThreads, next, nextConnId, connections, conn, running, functors,
                  reported, phase, listening, backlog, file, status, output, down, got, usedDead>>
  BY DEF ClientWrite, poolVars, tableVars, loopVars, listenVars
<1>1. PICK n \in 1..Target(c) - written[c] :
        /\ written' = [written EXCEPT ![c] = @ + n]
        /\ up' = [up EXCEPT ![c] = @ \o [k \in 1..n |-> <<c, written[c] + k>>]]
  BY DEF ClientWrite
<1>2. /\ up[c] \in Seq(Bytes) /\ down[c] \in Seq(Bytes) /\ got[c] \in Seq(Bytes)
      /\ written[c] \in Nat /\ Total \in Nat
      /\ Len(got[c]) \in Nat /\ Len(got[c]) <= written[c] /\ written[c] <= Total
  BY BytesAre
<1>3. Target(c) \in Nat /\ Target(c) <= Total
  <2>1. Len(got[c]) < Requests * MessageLength
    <3>1. Len(got[c]) # Total
      BY DEF ClientWrite, Done
    <3>2. Len(got[c]) < Total
      BY <1>2, <3>1
    <3> QED
      BY <3>2 DEF Total
  <2> QED
    BY <1>2, <2>1, RequestEnd DEF Target, Total
<1>4. n \in Nat /\ n >= 1 /\ written[c] + n \in 0..Total
  BY <1>1, <1>2, <1>3
<1>5. /\ written' \in [Clients -> 0..Total] /\ written'[c] = written[c] + n
      /\ \A d \in Clients : d # c => written'[d] = written[d]
  BY <1>1, <1>4 DEF IInv, Types, TypeOK
<1> DEFINE more == Sent(c, written[c], n)
<1>6. more \in Seq(Bytes) /\ Len(more) = n
        /\ FirstBytes(c, written[c]) \o more = FirstBytes(c, written[c] + n)
  <2>1. PICK m \in Nat, k \in Nat : m = written[c] /\ k = n
    BY <1>2, <1>4
  <2>2. Sent(c, m, k) \in Seq(Bytes) /\ Len(Sent(c, m, k)) = k
          /\ FirstBytes(c, m) \o Sent(c, m, k) = FirstBytes(c, m + k)
    BY SentIs
  <2> QED
    BY <2>1, <2>2
<1>7. up' = [up EXCEPT ![c] = @ \o more]
  BY <1>1 DEF Sent
<1> HIDE DEF more
<1>8. /\ up' \in [Clients -> Seq(Bytes)] /\ up'[c] = up[c] \o more
      /\ \A d \in Clients : d # c => up'[d] = up[d]
  <2>1. up[c] \o more \in Seq(Bytes)
    BY <1>2, <1>6, Concat
  <2> QED
    BY <1>7, <2>1 DEF IInv, Types, MoreTypes
<1>10. Types'
  BY <1>0, <1>5, <1>8 DEF IInv, Types, TypeOK, MoreTypes
<1>11. EchoIntact'
  <2>1. written'[c] \in Nat /\ written'[c] >= written[c]
    BY <1>2, <1>4, <1>5
  <2>2. \A g \in Seq(Bytes) : g \o up[c] = FirstBytes(c, written[c]) =>
          g \o up'[c] = FirstBytes(c, written'[c])
    <3>1. ASSUME NEW g \in Seq(Bytes), g \o up[c] = FirstBytes(c, written[c])
          PROVE  g \o up'[c] = FirstBytes(c, written'[c])
      <4>1. Join(Join(g, up[c]), more) = Join(g, Join(up[c], more))
        BY <1>2, <1>6, JoinIs
      <4>2. (g \o up[c]) \o more = g \o (up[c] \o more)
        BY <4>1, Zenon DEF Join
      <4> QED
        BY <1>5, <1>6, <1>8, <3>1, <4>2
    <3> QED
      BY <3>1
  <2>3. got[c] \o down[c] \in Seq(Bytes)
    BY <1>2, Concat
  <2>4. ASSUME NEW i \in Ids, Exists(i), conn[i].client = c
        PROVE  got[c] \o down[c] \o output[i] \o up'[c] = FirstBytes(c, written'[c])
    <3>1. output[i] \in Seq(Bytes)
            /\ ((got[c] \o down[c]) \o output[i]) \o up[c] = FirstBytes(c, written[c])
      BY <2>4, StreamIs
    <3>2. (got[c] \o down[c]) \o output[i] \in Seq(Bytes)
      BY <2>3, <3>1, Concat
    <3> QED
      BY <2>2, <3>1, <3>2
  <2>5. ASSUME phase \in {"running", "stopped"},
               \A i \in Ids : Exists(i) => conn[i].client # c
        PROVE  got[c] \o down[c] \o up'[c] = FirstBytes(c, written'[c])
    <3>1. (got[c] \o down[c]) \o up[c] = FirstBytes(c, written[c])
      BY <2>5 DEF IInv, Streams, EchoIntact, Exists
    <3> QED
      BY <2>2, <2>3, <3>1
  <2>6. \E m \in 0..written'[c] : got[c] \o down[c] = FirstBytes(c, m)
    <3>1. PICK m \in 0..written[c] : got[c] \o down[c] = FirstBytes(c, m)
      BY DEF IInv, Streams, EchoIntact
    <3>2. m \in 0..written'[c]
      BY <1>2, <2>1
    <3> QED
      BY <3>1, <3>2
  <2> QED
    BY <1>0, <1>5, <1>8, <2>4, <2>5, <2>6, EchoMoved
<1>12. Streams'
  BY <1>0, <1>11 DEF IInv, Streams, Finishing, Exists, Done, Waiting
<1>13. Functors' /\ Life' /\ Reports'
  BY <1>0, LifeKept, ReportsKept
<1>14. Numbered' /\ ClientsOnce' /\ Sockets' /\ Turns' /\ RoundRobin'
  BY <1>0, SameConnections, OwnersKept
<1>15. Setup'
  BY <1>0 DEF IInv, Setup
<1> QED
  BY <1>10, <1>12, <1>13, <1>14, <1>15 DEF IInv

\* A client reads what the server sent back.
LEMMA NextClientRead == ASSUME IInv, NEW c \in Clients, ClientRead(c) PROVE IInv'
<1>0. UNCHANGED <<started, numThreads, next, nextConnId, connections, conn, running, functors,
                  reported, phase, listening, backlog, file, status, written, up, output, usedDead>>
  BY DEF ClientRead, poolVars, tableVars, loopVars, listenVars
<1>1. got' = [got EXCEPT ![c] = @ \o down[c]] /\ down' = [down EXCEPT ![c] = <<>>]
  BY DEF ClientRead
<1>2. /\ up[c] \in Seq(Bytes) /\ down[c] \in Seq(Bytes) /\ got[c] \in Seq(Bytes)
  BY BytesAre
<1>3. got[c] \o down[c] \in Seq(Bytes) /\ <<>> \in Seq(Bytes)
        /\ (got[c] \o down[c]) \o <<>> = got[c] \o down[c]
  BY <1>2, Concat
<1>4. /\ got' \in [Clients -> Seq(Bytes)] /\ got'[c] = got[c] \o down[c]
      /\ down' \in [Clients -> Seq(Bytes)] /\ down'[c] = <<>>
      /\ \A d \in Clients : d # c => got'[d] = got[d] /\ down'[d] = down[d]
  BY <1>1, <1>3 DEF IInv, Types, MoreTypes
<1>5. Types'
  BY <1>0, <1>4 DEF IInv, Types, TypeOK, MoreTypes
<1>6. Streams'
  <2>1. EchoIntact'
    <3>1. \A d \in Clients : got'[d] \o down'[d] = got[d] \o down[d]
      BY <1>3, <1>4
    <3> QED
      BY <1>0, <3>1, SameConnections, EchoKept
  <2>2. \A d \in Clients : status[d] = "closed" /\ Done(d) => Done(d)'
    BY <1>4 DEF ClientRead, Done
  <2>3. \A i \in Ids : Exists(i) => conn[i].client \in Clients
    BY ConnectionIs DEF IInv
  <2>4. Finishing'
    BY <1>0, <2>2, <2>3 DEF IInv, Streams, Finishing, Exists, Waiting
  <2> QED
    BY <1>0, <2>1, <2>4 DEF IInv, Streams, Exists
<1>7. Functors' /\ Life' /\ Reports'
  BY <1>0, LifeKept, ReportsKept
<1>8. Numbered' /\ ClientsOnce' /\ Sockets' /\ Turns' /\ RoundRobin'
  BY <1>0, SameConnections, OwnersKept
<1>9. Setup'
  BY <1>0 DEF IInv, Setup
<1> QED
  BY <1>5, <1>6, <1>7, <1>8, <1>9 DEF IInv

\* A client closes its socket.
LEMMA NextClientCloses == ASSUME IInv, NEW c \in Clients, ClientCloses(c) PROVE IInv'
<1>0. UNCHANGED <<started, numThreads, next, nextConnId, connections, conn, running, functors,
                  reported, phase, listening, backlog, file, written, up, output, down, got,
                  usedDead>>
  BY DEF ClientCloses, poolVars, tableVars, loopVars, listenVars
<1>1. status[c] = "open" /\ status' = [status EXCEPT ![c] = "closed"]
  BY DEF ClientCloses
<1>2. /\ status' \in [Clients -> {"new", "open", "closed"}]
      /\ \A d \in Clients : /\ status'[d] = "new" <=> status[d] = "new"
                            /\ status[d] = "closed" => status'[d] = "closed"
  BY <1>1 DEF IInv, Types, TypeOK
<1>3. Types'
  BY <1>0, <1>2 DEF IInv, Types, TypeOK, MoreTypes
<1>4. \A i \in Ids : Exists(i) => conn[i].client \in Clients
  BY ConnectionIs DEF IInv
<1>5. Numbered'
  BY <1>0, <1>2 DEF IInv, Numbered, Exists
<1>6. ClientsOnce'
  <2>1. \A k \in DOMAIN backlog : backlog[k] \in Clients
    BY DEF IInv, Types, MoreTypes
  <2> QED
    BY <1>0, <1>2, <1>4, <2>1 DEF IInv, ClientsOnce, Exists, Waiting
<1>7. Sockets' /\ Turns' /\ RoundRobin' /\ Setup'
  BY <1>0 DEF IInv, Sockets, SocketOwned, FdsDistinct, Turns, RoundRobin, Exists, Setup
<1>8. Reports' /\ Functors' /\ Life'
  BY <1>0, <1>2, <1>4 DEF IInv, Reports, Functors, Life, Exists
<1>9. Streams'
  <2>1. EchoIntact'
    BY <1>0, SameConnections, EchoKept
  <2>2. Done(c) \/ ~(Waiting(c) \/ Accepted(c))
    BY DEF ClientCloses
  <2>3. \A i \in Ids : Exists(i) /\ conn[i].client = c => Accepted(c)
    BY SocketIs, ConnectionIs DEF IInv, Accepted
  <2>4. \A d \in Clients : d # c => status'[d] = status[d]
    BY <1>1 DEF IInv, Types, TypeOK
  <2>5. Finishing'
    BY <1>0, <1>4, <2>2, <2>3, <2>4 DEF IInv, Streams, Finishing, Exists, Waiting, Done
  <2> QED
    BY <1>0, <2>1, <2>5 DEF IInv, Streams, Exists
<1> QED
  BY <1>3, <1>5, <1>6, <1>7, <1>8, <1>9 DEF IInv

-----------------------------------------------------------------------------
(* epoll_wait and the handlers. *)

\* Base is a loop, and the Acceptor's channel is nobody else's.
LEMMA BaseIs == Base \in Loops /\ AcceptChannel \notin Ids
  BY DEF Base, Loops, AcceptChannel, Ids

\* epoll_wait reports the channels that are ready.
LEMMA NextPoll == ASSUME IInv, NEW l \in Loops, Poll(l) PROVE IInv'
<1>0. UNCHANGED <<started, numThreads, next, nextConnId, connections, conn, running, functors,
                  phase, listening, backlog, file, status, written, up, output, down, got,
                  usedDead>>
  BY DEF Poll, poolVars, tableVars, listenVars, clientVars
<1>1. Runs(l) /\ reported' = [reported EXCEPT ![l] = Ready(l)]
  BY DEF Poll
<1>2. Ready(l) \subseteq Ids \cup {AcceptChannel}
  BY DEF Ready
<1>3. reported' \in [Loops -> SUBSET (Ids \cup {AcceptChannel})] /\ reported'[l] = Ready(l)
        /\ \A k \in Loops : k # l => reported'[k] = reported[k]
  BY <1>1, <1>2 DEF IInv, Types, TypeOK
<1>4. Types'
  BY <1>0, <1>3 DEF IInv, Types, TypeOK, MoreTypes
<1>5. Reports'
  <2>1. ASSUME AcceptChannel \in Ready(l) PROVE l = Base /\ backlog # <<>>
    BY <2>1, BaseIs DEF Ready
  <2>2. ASSUME NEW i \in Ids, i \in Ready(l)
        PROVE  i < nextConnId /\ conn[i].added /\ conn[i].loop = l
    <3>1. Active(i) /\ conn[i].loop = l
      BY <2>2, BaseIs DEF Ready
    <3>2. Exists(i) /\ conn[i].added
      BY <3>1 DEF Active, Exists
    <3> QED
      BY <3>1, <3>2, SocketIs
  <2>3. phase # "running" => l # Base
    BY <1>1 DEF Runs
  <2> QED
    BY <1>0, <1>3, <2>1, <2>2, <2>3, BaseIs DEF IInv, Reports, Exists
<1>6. Functors' /\ Life' /\ Streams'
  BY <1>0, LifeKept, SameConnections, StreamsKept
<1>7. Numbered' /\ ClientsOnce' /\ Sockets' /\ Turns' /\ RoundRobin'
  BY <1>0, SameConnections, OwnersKept
<1>8. Setup'
  BY <1>0 DEF IInv, Setup
<1> QED
  BY <1>4, <1>5, <1>6, <1>7, <1>8 DEF IInv

\* A loop takes a channel off activeChannels_.
LEMMA HandlesIs ==
  ASSUME IInv, NEW l \in Loops, NEW i, Handles(l, i)
  PROVE  /\ i \in reported[l] /\ reported'[l] = reported[l] \ {i}
         /\ \A k \in Loops : k # l => reported'[k] = reported[k]
         /\ \A k \in Loops : reported'[k] \subseteq reported[k]
         /\ reported' \in [Loops -> SUBSET (Ids \cup {AcceptChannel})]
  BY DEF Handles, IInv, Types, TypeOK

\* accept fails, or the channel of a destroyed connection is handled: only the report goes.
LEMMA NextReportGoes ==
  ASSUME IInv, NEW l \in Loops, NEW i, Handles(l, i),
         UNCHANGED <<started, numThreads, next, nextConnId, connections, conn, running,
                     functors, phase, listening, backlog, file, status, written, up, output,
                     down, got>>
  PROVE  IInv'
<1>1. /\ \A k \in Loops : reported'[k] \subseteq reported[k]
      /\ reported' \in [Loops -> SUBSET (Ids \cup {AcceptChannel})]
  BY HandlesIs
<1>2. Types'
  BY <1>1 DEF IInv, Types, TypeOK, MoreTypes
<1>3. Reports'
  BY <1>1, BaseIs DEF IInv, Reports, Exists
<1>4. Functors' /\ Life' /\ Streams'
  BY LifeKept, SameConnections, StreamsKept
<1>5. Numbered' /\ ClientsOnce' /\ Sockets' /\ Turns' /\ RoundRobin'
  BY SameConnections, OwnersKept
<1>6. Setup'
  BY DEF IInv, Setup
<1> QED
  BY <1>2, <1>3, <1>4, <1>5, <1>6 DEF IInv

\* A step of a connection that moves bytes between its client, its output and its socket.
LEMMA NextMoves ==
  ASSUME IInv, NEW l \in Loops, NEW i \in Ids, Exists(i), Handles(l, i),
         NEW c \in Clients, c = conn[i].client,
         NEW u \in Seq(Bytes), NEW o \in Seq(Bytes), NEW d \in Seq(Bytes),
         up' = [up EXCEPT ![c] = u], output' = [output EXCEPT ![i] = o],
         down' = [down EXCEPT ![c] = d], d \o (o \o u) = down[c] \o (output[i] \o up[c]),
         UNCHANGED <<started, numThreads, next, nextConnId, connections, conn, running,
                     functors, phase, listening, backlog, file, status, written, got, usedDead>>
  PROVE  IInv'
<1>1. /\ up[c] \in Seq(Bytes) /\ down[c] \in Seq(Bytes) /\ got[c] \in Seq(Bytes)
      /\ written[c] \in Nat
  BY BytesAre
<1>2. output[i] \in Seq(Bytes)
        /\ ((got[c] \o down[c]) \o output[i]) \o up[c] = FirstBytes(c, written[c])
  BY StreamIs
<1>3. /\ up' \in [Clients -> Seq(Bytes)] /\ up'[c] = u
      /\ down' \in [Clients -> Seq(Bytes)] /\ down'[c] = d
      /\ output' \in [Ids -> Seq(Bytes)] /\ output'[i] = o
      /\ \A x \in Clients : x # c => up'[x] = up[x] /\ down'[x] = down[x]
      /\ \A j \in Ids : j # i => output'[j] = output[j]
  BY DEF IInv, Types, MoreTypes
<1>4. /\ \A k \in Loops : reported'[k] \subseteq reported[k]
      /\ reported' \in [Loops -> SUBSET (Ids \cup {AcceptChannel})]
  BY HandlesIs
<1>5. Types'
  BY <1>3, <1>4 DEF IInv, Types, TypeOK, MoreTypes
<1>6. \A j \in Ids : Exists(j) /\ conn[j].client = c => j = i
  BY DEF IInv, ClientsOnce
<1>parts. PICK g \in Seq(Bytes), p \in Seq(Bytes), q \in Seq(Bytes), t \in Seq(Bytes) :
           /\ g = got[c] /\ p = down[c] /\ q = output[i] /\ t = up[c]
           /\ d \o (o \o u) = p \o (q \o t)
  BY <1>1, <1>2, Zenon
<1>7. got[c] \o d \o o \o u = FirstBytes(c, written[c])
  <2>1. ((g \o d) \o o) \o u = ((g \o p) \o q) \o t
    <3>1. Join(Join(Join(g, d), o), u) = Join(g, Join(d, Join(o, u)))
      BY JoinIs
    <3>2. Join(Join(Join(g, p), q), t) = Join(g, Join(p, Join(q, t)))
      BY JoinIs
    <3>3. Join(d, Join(o, u)) = Join(p, Join(q, t))
      BY <1>parts, Zenon DEF Join
    <3> QED
      BY <3>1, <3>2, <3>3, Zenon DEF Join
  <2> QED
    BY <1>2, <1>parts, <2>1
<1>8. \E n \in 0..written[c] : got[c] \o d = FirstBytes(c, n)
  <2>1. PICK x \in Seq(Bytes), y \in Seq(Bytes) : x = g \o d /\ y = o \o u
    BY Concat
  <2>2. ((g \o d) \o o) \o u = (g \o d) \o (o \o u)
    <3>1. Join(Join(Join(g, d), o), u) = Join(Join(g, d), Join(o, u))
      BY JoinIs
    <3> QED
      BY <3>1, Zenon DEF Join
  <2>3. x \o y = FirstBytes(c, written[c])
    BY <1>7, <1>parts, <2>1, <2>2
  <2>4. \E n \in 0..written[c] : x = FirstBytes(c, n)
    BY <1>1, <2>3, PartIs, Zenon
  <2> QED
    BY <1>parts, <2>1, <2>4
<1>9. EchoIntact'
  BY <1>3, <1>6, <1>7, <1>8, EchoMoved
<1>10. Streams'
  BY <1>3, <1>9 DEF IInv, Streams, Finishing, Exists, Done, Waiting
<1>11. Reports'
  BY <1>4, BaseIs DEF IInv, Reports, Exists
<1>12. Functors' /\ Life'
  BY LifeKept
<1>13. Numbered' /\ ClientsOnce' /\ Sockets' /\ Turns' /\ RoundRobin'
  BY SameConnections, OwnersKept
<1>14. Setup'
  BY DEF IInv, Setup
<1> QED
  BY <1>5, <1>10, <1>11, <1>12, <1>13, <1>14 DEF IInv

\* The first n bytes and the others.
LEMMA SplitAt ==
  ASSUME NEW s \in Seq(Bytes), NEW n \in 0..Len(s)
  PROVE  /\ SubSeq(s, 1, n) \in Seq(Bytes) /\ SubSeq(s, n + 1, Len(s)) \in Seq(Bytes)
         /\ SubSeq(s, 1, n) \o SubSeq(s, n + 1, Len(s)) = s
         /\ n = 0 => SubSeq(s, 1, n) = <<>> /\ SubSeq(s, n + 1, Len(s)) = s
<1> DEFINE a == SubSeq(s, 1, n)
           b == SubSeq(s, n + 1, Len(s))
<1>1. Len(s) \in Nat /\ n \in Nat /\ n <= Len(s)
  OBVIOUS
<1>2. a \in Seq(Bytes) /\ Len(a) = n /\ \A k \in 1..n : a[k] = s[k]
  BY <1>1
<1>3. b \in Seq(Bytes) /\ Len(b) = Len(s) - n /\ \A k \in 1..Len(s) - n : b[k] = s[n + k]
  BY <1>1
<1> HIDE DEF a, b
<1>4. /\ a \o b \in Seq(Bytes) /\ Len(a \o b) = Len(s)
      /\ \A k \in 1..Len(s) : (a \o b)[k] = IF k <= n THEN a[k] ELSE b[k - n]
  <2>1. n + (Len(s) - n) = Len(s)
    BY <1>1
  <2> QED
    BY <1>2, <1>3, <2>1, ConcatProperties
<1>5. ASSUME NEW k \in 1..Len(s) PROVE (a \o b)[k] = s[k]
  <2>0. k <= n \/ k > n
    BY <1>1
  <2>1. CASE k <= n
    <3>1. k \in 1..n
      BY <1>1, <2>1
    <3> QED
      BY <1>2, <1>4, <2>1, <3>1
  <2>2. CASE k > n
    <3>1. k - n \in 1..Len(s) - n /\ n + (k - n) = k /\ ~(k <= n)
      BY <1>1, <2>2
    <3>2. b[k - n] = s[n + (k - n)]
      BY <1>3, <3>1
    <3>3. (a \o b)[k] = b[k - n]
      BY <1>4, <3>1
    <3>4. s[n + (k - n)] = s[k]
      BY <3>1
    <3> QED
      BY <3>2, <3>3, <3>4, Zenon
  <2> QED
    BY <2>0, <2>1, <2>2, Zenon
<1>6. a \o b = s
  BY <1>4, <1>5, SeqEqual
<1>7. ASSUME n = 0 PROVE a = <<>> /\ b = s
  <2>1. a = <<>>
    BY <1>2, <1>7, EmptySeq
  <2> QED
    BY <1>3, <1>6, <2>1, Concat
<1> QED
  BY <1>2, <1>3, <1>6, <1>7 DEF a, b

\* handleRead with data: it is sent back.
LEMMA NextHandleRead ==
  ASSUME IInv, NEW l \in Loops, NEW i \in Ids, HandleRead(l, i)
  PROVE  IInv'
<1>0. UNCHANGED <<started, numThreads, next, nextConnId, connections, conn, running, functors,
                  phase, listening, backlog, file, status, written, got, usedDead>>
  BY DEF HandleRead, poolVars, tableVars, listenVars
<1>1. Exists(i) /\ Handles(l, i)
  BY DEF HandleRead, Exists
<1>2. PICK c \in Clients : c = conn[i].client /\ c = file[conn[i].fd]
  BY <1>1, SocketIs
<1>3. up[c] \in Seq(Bytes) /\ down[c] \in Seq(Bytes) /\ output[i] \in Seq(Bytes)
  BY <1>1, <1>2, BytesAre, StreamIs
<1>4. PICK n \in 0..Len(up[c]) :
        /\ output[i] # <<>> => n = 0
        /\ down' = [down EXCEPT ![c] = @ \o SubSeq(up[c], 1, n)]
        /\ output' = [output EXCEPT ![i] = @ \o SubSeq(up[c], n + 1, Len(up[c]))]
  BY <1>2 DEF HandleRead, send
<1>5. up' = [up EXCEPT ![c] = <<>>]
  BY <1>2 DEF HandleRead
<1>6. PICK a \in Seq(Bytes), b \in Seq(Bytes) :
        /\ a = SubSeq(up[c], 1, n) /\ b = SubSeq(up[c], n + 1, Len(up[c]))
        /\ a \o b = up[c] /\ (n = 0 => a = <<>> /\ b = up[c])
  <2>1. PICK s \in Seq(Bytes) : s = up[c]
    BY <1>3
  <2>2. n \in 0..Len(s)
    BY <2>1
  <2>3. /\ SubSeq(s, 1, n) \in Seq(Bytes) /\ SubSeq(s, n + 1, Len(s)) \in Seq(Bytes)
        /\ SubSeq(s, 1, n) \o SubSeq(s, n + 1, Len(s)) = s
        /\ n = 0 => SubSeq(s, 1, n) = <<>> /\ SubSeq(s, n + 1, Len(s)) = s
    BY <2>2, SplitAt
  <2> QED
    BY <2>1, <2>3, Zenon
<1>7. PICK o \in Seq(Bytes), d \in Seq(Bytes) : o = output[i] \o b /\ d = down[c] \o a
  BY <1>3, Concat
<1>8. output' = [output EXCEPT ![i] = o] /\ down' = [down EXCEPT ![c] = d]
  BY <1>4, <1>6, <1>7
<1>9. d \o (o \o <<>>) = down[c] \o (output[i] \o up[c])
  <2>1. o \o <<>> = o /\ <<>> \in Seq(Bytes)
    BY Concat
  <2>2. (down[c] \o a) \o o = down[c] \o (a \o o)
    <3>1. PICK s \in Seq(Bytes) : s = down[c]
      BY <1>3
    <3>2. Join(Join(s, a), o) = Join(s, Join(a, o))
      BY JoinIs
    <3> QED
      BY <3>1, <3>2, Zenon DEF Join
  <2>3. a \o o = output[i] \o up[c]
    <3>1. CASE output[i] = <<>>
      <4>1. <<>> \o b = b /\ <<>> \o up[c] = up[c]
        BY <1>3, Concat
      <4> QED
        BY <1>6, <1>7, <3>1, <4>1
    <3>2. CASE output[i] # <<>>
      <4>1. a = <<>> /\ b = up[c]
        BY <1>4, <1>6, <3>2
      <4> QED
        BY <1>7, <4>1, Concat
    <3> QED
      BY <3>1, <3>2
  <2> QED
    BY <1>7, <2>1, <2>2, <2>3
<1>10. <<>> \in Seq(Bytes)
  BY <1>3, Concat
<1> QED
  BY <1>0, <1>1, <1>2, <1>5, <1>7, <1>8, <1>9, <1>10, NextMoves

\* handleWrite: the first bytes of the output go to the socket.
LEMMA NextHandleWrite ==
  ASSUME IInv, NEW l \in Loops, NEW i \in Ids, HandleWrite(l, i)
  PROVE  IInv'
<1>0. UNCHANGED <<started, numThreads, next, nextConnId, connections, conn, running, functors,
                  phase, listening, backlog, file, status, written, up, got, usedDead>>
  BY DEF HandleWrite, poolVars, tableVars, listenVars
<1>1. Exists(i) /\ Handles(l, i)
  BY DEF HandleWrite, Exists
<1>2. PICK c \in Clients : c = conn[i].client /\ c = file[conn[i].fd]
  BY <1>1, SocketIs
<1>3. up[c] \in Seq(Bytes) /\ down[c] \in Seq(Bytes) /\ output[i] \in Seq(Bytes)
  BY <1>1, <1>2, BytesAre, StreamIs
<1>4. PICK n \in 1..Len(output[i]) :
        /\ down' = [down EXCEPT ![c] = @ \o SubSeq(output[i], 1, n)]
        /\ output' = [output EXCEPT ![i] = SubSeq(@, n + 1, Len(@))]
  BY <1>2 DEF HandleWrite
<1>5. n \in 0..Len(output[i])
  BY <1>3
<1>6. PICK a \in Seq(Bytes), o \in Seq(Bytes) :
        /\ a = SubSeq(output[i], 1, n) /\ o = SubSeq(output[i], n + 1, Len(output[i]))
        /\ a \o o = output[i]
  <2>1. PICK s \in Seq(Bytes) : s = output[i]
    BY <1>3
  <2>2. n \in 0..Len(s)
    BY <1>5, <2>1
  <2>3. /\ SubSeq(s, 1, n) \in Seq(Bytes) /\ SubSeq(s, n + 1, Len(s)) \in Seq(Bytes)
        /\ SubSeq(s, 1, n) \o SubSeq(s, n + 1, Len(s)) = s
    BY <2>2, SplitAt
  <2> QED
    BY <2>1, <2>3, Zenon
<1>7. PICK d \in Seq(Bytes) : d = down[c] \o a
  BY <1>3, Concat
<1>8. output' = [output EXCEPT ![i] = o] /\ down' = [down EXCEPT ![c] = d]
  BY <1>4, <1>6, <1>7
<1>9. d \o (o \o up[c]) = down[c] \o (output[i] \o up[c])
  <2>1. PICK s \in Seq(Bytes), u \in Seq(Bytes) : s = down[c] /\ u = up[c]
    BY <1>3
  <2>2. Join(Join(s, a), Join(o, u)) = Join(s, Join(Join(a, o), u))
    BY JoinIs
  <2>3. (s \o a) \o (o \o u) = s \o ((a \o o) \o u)
    BY <2>2, Zenon DEF Join
  <2> QED
    BY <1>6, <1>7, <2>1, <2>3
<1>10. up' = [up EXCEPT ![c] = up[c]]
  BY <1>0 DEF IInv, Types, MoreTypes
<1> QED
  BY <1>0, <1>1, <1>2, <1>3, <1>7, <1>8, <1>9, <1>10, NextMoves

\* The functors of all loops after queueInLoop of one.
LEMMA FunctorQueued ==
  ASSUME IInv, NEW l \in Loops, NEW call \in {"established", "remove", "destroyed"},
         NEW i \in Ids, Queue(l, call, i),
         call = "established" => <<call, i>> \notin Elements(functors[l])
  PROVE  /\ functors' \in [Loops -> Seq(FunctorSet)]
         /\ \A k \in Loops : Once(functors'[k])
         /\ Elements(functors'[l]) = Elements(functors[l]) \cup {<<call, i>>}
         /\ \A k \in Loops : k # l => functors'[k] = functors[k]
         /\ \A k \in Loops : Elements(functors[k]) \subseteq Elements(functors'[k])
<1>1. functors \in [Loops -> Seq(FunctorSet)] /\ \A k \in Loops : Once(functors[k])
  BY DEF IInv, Types, MoreTypes, Functors
<1>2. functors' = [functors EXCEPT ![l] = Append(@, <<call, i>>)]
  BY DEF Queue
<1>3. PICK f \in FunctorSet : f = <<call, i>> /\ f[1] = call
  BY DEF FunctorSet
<1>4. /\ Append(functors[l], f) \in Seq(FunctorSet) /\ Once(Append(functors[l], f))
      /\ Elements(Append(functors[l], f)) = Elements(functors[l]) \cup {f}
  BY <1>1, <1>3, QueueGrows
<1>5. /\ functors' \in [Loops -> Seq(FunctorSet)] /\ functors'[l] = Append(functors[l], f)
      /\ \A k \in Loops : k # l => functors'[k] = functors[k]
  BY <1>1, <1>2, <1>3, <1>4
<1> QED
  BY <1>1, <1>3, <1>4, <1>5

\* handleRead at the end of the input: handleClose and removeConnection.
LEMMA NextHandleClose ==
  ASSUME IInv, NEW l \in Loops, NEW i \in Ids, HandleClose(l, i)
  PROVE  IInv'
<1>0. UNCHANGED <<started, numThreads, next, nextConnId, running, phase, listening, backlog,
                  file, status, written, up, output, down, got, usedDead>>
  BY DEF HandleClose, poolVars, listenVars, clientVars
<1>1. /\ Exists(i) /\ Handles(l, i) /\ status[file[conn[i].fd]] = "closed"
      /\ conn' = [conn EXCEPT ![i].state = "kDisconnected", ![i].added = FALSE]
      /\ removeConnection(l, i)
  BY DEF HandleClose, AtEnd, Exists
<1>2. /\ reported'[l] = reported[l] \ {i} /\ i \in reported[l]
      /\ \A k \in Loops : reported'[k] \subseteq reported[k]
      /\ reported' \in [Loops -> SUBSET (Ids \cup {AcceptChannel})]
  BY <1>1, HandlesIs
<1>3. conn[i].state = "kConnected" /\ conn[i].loop = l /\ status[conn[i].client] = "closed"
  <2>1. conn[i].added /\ conn[i].loop = l
    BY <1>1, <1>2 DEF IInv, Reports
  <2> QED
    BY <1>1, <2>1, SocketIs, ConnectionIs DEF IInv
<1>4. /\ conn' \in [Ids -> {Nobody} \cup TcpConnectionSet]
      /\ SameOwners
      /\ conn'[i].state = "kDisconnected" /\ conn'[i].added = FALSE /\ Exists(i)'
      /\ \A j \in Ids : j # i => conn'[j] = conn[j]
      /\ \A j \in Ids : conn'[j] = Nobody \/
           /\ conn'[j].client \in Clients /\ conn'[j].fd \in Fds /\ conn'[j].loop \in Loops
           /\ conn'[j].added <=> conn'[j].state = "kConnected"
  <2>1. FALSE <=> "kDisconnected" = "kConnected"
    OBVIOUS
  <2> QED
    BY <1>1, <2>1, Marked DEF IInv
<1>5. PICK call \in {"established", "remove", "destroyed"} :
        /\ call # "established" /\ Queue(Base, call, i)
        /\ connections' = connections \ {i} \/ (connections' = connections /\ call = "remove")
  <2>1. CASE l = Base
    BY <1>1, <1>3, <2>1 DEF removeConnection, removeConnectionInLoop
  <2>2. CASE l # Base
    BY <1>1, <2>2 DEF removeConnection
  <2> QED
    BY <2>1, <2>2
<1>6. /\ functors' \in [Loops -> Seq(FunctorSet)] /\ \A k \in Loops : Once(functors'[k])
      /\ Elements(functors'[Base]) = Elements(functors[Base]) \cup {<<call, i>>}
      /\ \A k \in Loops : k # Base => functors'[k] = functors[k]
      /\ \A k \in Loops : Elements(functors[k]) \subseteq Elements(functors'[k])
  BY <1>5, BaseIs, FunctorQueued
<1>7. Types'
  <2>1. connections' \subseteq Ids
    BY <1>5 DEF IInv, Types, TypeOK
  <2>2. TypeOK'
    BY <1>0, <1>2, <1>4, <2>1 DEF IInv, Types, TypeOK
  <2>3. MoreTypes'
    BY <1>0, <1>4, <1>6 DEF IInv, Types, MoreTypes
  <2> QED
    BY <2>2, <2>3 DEF Types
<1>8. Reports'
  <2>1. ASSUME NEW k \in Loops, NEW j \in Ids, j \in reported'[k], Exists(j)'
        PROVE  conn'[j].added /\ conn'[j].loop = k
    <3>1. j \in reported[k] /\ Exists(j)
      BY <1>2, <1>4, <2>1 DEF SameOwners
    <3>2. conn[j].added /\ conn[j].loop = k
      BY <3>1 DEF IInv, Reports
    <3>3. j # i
      BY <1>2, <1>3, <2>1, <3>2
    <3> QED
      BY <1>0, <1>4, <3>2, <3>3
  <2> QED
    BY <1>0, <1>2, <2>1, BaseIs DEF IInv, Reports
<1>9. Functors'
  <2>1. ASSUME NEW k \in Loops, NEW f \in Elements(functors'[k])
        PROVE  /\ Exists(f[2])'
               /\ f[1] = "established" => conn'[f[2]].state = "kConnecting" /\ conn'[f[2]].loop = k
               /\ f[1] # "established" => conn'[f[2]].state = "kDisconnected"
    <3>1. CASE f \in Elements(functors[k])
      <4>1. /\ Exists(f[2])
            /\ f[1] = "established" => conn[f[2]].state = "kConnecting" /\ conn[f[2]].loop = k
            /\ f[1] # "established" => conn[f[2]].state = "kDisconnected"
        BY <3>1 DEF IInv, Functors
      <4>2. f[2] # i
        BY <1>3, <4>1
      <4>3. f[2] \in Ids
        BY <3>1 DEF IInv, Types, MoreTypes, Elements, FunctorSet
      <4> QED
        BY <1>4, <4>1, <4>2, <4>3 DEF Exists
    <3>2. CASE f = <<call, i>>
      BY <1>4, <1>5, <3>2
    <3> QED
      BY <1>6, <3>1, <3>2
  <2> QED
    BY <1>6, <2>1 DEF Functors
<1>10. Life'
  <2>1. ASSUME NEW j \in Ids, Exists(j)'
        PROVE  /\ conn'[j].state = "kDisconnected" => status'[conn'[j].client] = "closed"
               /\ phase' \in {"running", "stopped"} /\ conn'[j].state # "kDisconnected"
                    => j \in connections'
               /\ phase' = "running" /\ conn'[j].state = "kDisconnected" /\ j \in connections'
                    => <<"remove", j>> \in Elements(functors'[Base])
    <3>1. CASE j = i
      <4>1. conn'[i].client = conn[i].client
        BY <1>1, <1>4 DEF SameOwners
      <4>2. i \in connections' => <<"remove", i>> \in Elements(functors'[Base])
        BY <1>5, <1>6
      <4> QED
        BY <1>0, <1>3, <1>4, <3>1, <4>1, <4>2
    <3>2. CASE j # i
      <4>1. conn'[j] = conn[j] /\ Exists(j) /\ (j \in connections' <=> j \in connections)
        BY <1>4, <1>5, <2>1, <3>2 DEF Exists
      <4> QED
        BY <1>0, <1>6, <4>1, BaseIs DEF IInv, Life
    <3> QED
      BY <3>1, <3>2
  <2> QED
    BY <2>1 DEF Life
<1>11. Numbered' /\ ClientsOnce' /\ Sockets' /\ Turns' /\ RoundRobin'
  BY <1>0, <1>4, OwnersKept
<1>12. Setup' /\ Streams'
  BY <1>0, <1>4, StreamsKept DEF IInv, Setup
<1> QED
  BY <1>7, <1>8, <1>9, <1>10, <1>11, <1>12 DEF IInv

-----------------------------------------------------------------------------
(* The functors. *)

\* A functor is about to run: what it is about, and the queue without it.
LEMMA FunctorRuns ==
  ASSUME IInv, NEW l \in Loops, NEW call, RunsFunctor(l, call)
  PROVE  /\ reported[l] = {} /\ Argument(l) \in Ids /\ Exists(Argument(l))
         /\ <<call, Argument(l)>> \in Elements(functors[l])
         /\ call = "established" => /\ conn[Argument(l)].state = "kConnecting"
                                    /\ conn[Argument(l)].loop = l
                                    /\ <<call, Argument(l)>> \notin Elements(Tail(functors[l]))
         /\ call # "established" => conn[Argument(l)].state = "kDisconnected"
         /\ Tail(functors[l]) \in Seq(FunctorSet) /\ Once(Tail(functors[l]))
         /\ Elements(functors[l]) = Elements(Tail(functors[l])) \cup {<<call, Argument(l)>>}
<1>1. reported[l] = {} /\ functors[l] # <<>> /\ Head(functors[l])[1] = call
  BY DEF RunsFunctor
<1>2. functors[l] \in Seq(FunctorSet) /\ Once(functors[l])
  BY DEF IInv, Types, MoreTypes, Functors
<1>3. PICK f : f = Head(functors[l])
  OBVIOUS
<1>4. /\ f \in FunctorSet /\ f \in Elements(functors[l])
      /\ Tail(functors[l]) \in Seq(FunctorSet) /\ Once(Tail(functors[l]))
      /\ Elements(functors[l]) = Elements(Tail(functors[l])) \cup {f}
      /\ f[1] = "established" => f \notin Elements(Tail(functors[l]))
  BY <1>1, <1>2, <1>3, QueueShrinks
<1>5. f[2] \in Ids /\ f = <<call, f[2]>> /\ f[1] = call /\ f[2] = Argument(l)
  BY <1>1, <1>3, <1>4 DEF FunctorSet, Argument
<1>6. /\ Exists(f[2])
      /\ call = "established" => conn[f[2]].state = "kConnecting" /\ conn[f[2]].loop = l
      /\ call # "established" => conn[f[2]].state = "kDisconnected"
  BY <1>4, <1>5 DEF IInv, Functors
<1> QED
  BY <1>1, <1>4, <1>5, <1>6

\* The functors of all loops after one was taken off.
LEMMA FunctorTaken ==
  ASSUME IInv, NEW l \in Loops, NEW call, RunsFunctor(l, call), Dequeued(l)
  PROVE  /\ functors' \in [Loops -> Seq(FunctorSet)]
         /\ \A k \in Loops : Once(functors'[k])
         /\ functors'[l] = Tail(functors[l])
         /\ \A k \in Loops : k # l => functors'[k] = functors[k]
         /\ \A k \in Loops : Elements(functors'[k]) \subseteq Elements(functors[k])
         /\ \A k \in Loops : \A f : f \in Elements(functors[k]) /\ f # <<call, Argument(l)>>
              => f \in Elements(functors'[k])
<1>1. functors \in [Loops -> Seq(FunctorSet)] /\ \A k \in Loops : Once(functors[k])
  BY DEF IInv, Types, MoreTypes, Functors
<1>2. /\ Tail(functors[l]) \in Seq(FunctorSet) /\ Once(Tail(functors[l]))
      /\ Elements(functors[l]) = Elements(Tail(functors[l])) \cup {<<call, Argument(l)>>}
  BY FunctorRuns
<1>3. /\ functors' \in [Loops -> Seq(FunctorSet)] /\ functors'[l] = Tail(functors[l])
      /\ \A k \in Loops : k # l => functors'[k] = functors[k]
  BY <1>1, <1>2 DEF Dequeued
<1> QED
  BY <1>1, <1>2, <1>3

\* What the invariant says of the functors of a loop, as one fact for each functor.
LEMMA FunctorIs ==
  ASSUME IInv, NEW l \in Loops, NEW f \in Elements(functors[l])
  PROVE  /\ f[2] \in Ids /\ f = <<f[1], f[2]>> /\ Exists(f[2])
         /\ f[1] = "established" => conn[f[2]].state = "kConnecting" /\ conn[f[2]].loop = l
         /\ f[1] # "established" => conn[f[2]].state = "kDisconnected"
<1>1. f \in FunctorSet
  BY DEF IInv, Types, MoreTypes, Elements
<1>2. f[2] \in Ids /\ f = <<f[1], f[2]>>
  BY <1>1 DEF FunctorSet
<1> QED
  BY <1>2 DEF IInv, Functors

\* connectEstablished as a functor.
LEMMA NextConnectEstablished ==
  ASSUME IInv, NEW l \in Loops, ConnectEstablished(l)
  PROVE  IInv'
<1>0. UNCHANGED <<started, numThreads, next, nextConnId, connections, running, reported, phase,
                  listening, backlog, file, status, written, up, output, down, got, usedDead>>
  BY DEF ConnectEstablished, poolVars, listenVars, clientVars
<1>1. RunsFunctor(l, "established") /\ Dequeued(l)
  BY DEF ConnectEstablished
<1>2. PICK i \in Ids : i = Argument(l)
  BY <1>1, FunctorRuns
<1>3. /\ reported[l] = {} /\ Exists(i) /\ conn[i].state = "kConnecting" /\ conn[i].loop = l
      /\ <<"established", i>> \notin Elements(Tail(functors[l]))
  BY <1>1, <1>2, FunctorRuns
<1>4. /\ functors' \in [Loops -> Seq(FunctorSet)] /\ \A k \in Loops : Once(functors'[k])
      /\ functors'[l] = Tail(functors[l])
      /\ \A k \in Loops : Elements(functors'[k]) \subseteq Elements(functors[k])
      /\ \A k \in Loops : \A f : f \in Elements(functors[k]) /\ f # <<"established", i>>
           => f \in Elements(functors'[k])
  BY <1>1, <1>2, FunctorTaken
<1>5. /\ conn' \in [Ids -> {Nobody} \cup TcpConnectionSet]
      /\ SameOwners
      /\ conn'[i].state = "kConnected" /\ conn'[i].added = TRUE /\ Exists(i)'
      /\ \A j \in Ids : j # i => conn'[j] = conn[j]
      /\ \A j \in Ids : conn'[j] = Nobody \/
           /\ conn'[j].client \in Clients /\ conn'[j].fd \in Fds /\ conn'[j].loop \in Loops
           /\ conn'[j].added <=> conn'[j].state = "kConnected"
  <2>1. conn' = [conn EXCEPT ![i].state = "kConnected", ![i].added = TRUE]
    BY <1>2 DEF ConnectEstablished
  <2> QED
    BY <1>3, <2>1, Marked DEF IInv
<1>6. Types'
  <2>1. TypeOK'
    BY <1>0, <1>5 DEF IInv, Types, TypeOK
  <2>2. MoreTypes'
    BY <1>0, <1>4, <1>5 DEF IInv, Types, MoreTypes
  <2> QED
    BY <2>1, <2>2 DEF Types
<1>7. Reports'
  <2>1. ASSUME NEW k \in Loops, NEW j \in Ids, j \in reported[k], Exists(j)'
        PROVE  conn'[j].added /\ conn'[j].loop = k
    <3>1. Exists(j)
      BY <1>5, <2>1 DEF SameOwners
    <3>2. conn[j].added /\ conn[j].loop = k
      BY <2>1, <3>1 DEF IInv, Reports
    <3>3. j # i
      BY <1>3, <2>1, <3>2
    <3> QED
      BY <1>5, <3>2, <3>3
  <2> QED
    BY <1>0, <2>1, BaseIs DEF IInv, Reports
<1>8. Functors'
  <2>1. ASSUME NEW k \in Loops, NEW f \in Elements(functors'[k])
        PROVE  /\ Exists(f[2])'
               /\ f[1] = "established" => conn'[f[2]].state = "kConnecting" /\ conn'[f[2]].loop = k
               /\ f[1] # "established" => conn'[f[2]].state = "kDisconnected"
    <3>1. /\ f[2] \in Ids /\ f = <<f[1], f[2]>> /\ Exists(f[2])
          /\ f[1] = "established" => conn[f[2]].state = "kConnecting" /\ conn[f[2]].loop = k
          /\ f[1] # "established" => conn[f[2]].state = "kDisconnected"
      BY <1>4, FunctorIs
    <3>2. f[2] # i
      <4>1. ASSUME f[2] = i PROVE FALSE
        <5>1. f = <<"established", i>> /\ k = l
          BY <1>3, <3>1, <4>1
        <5> QED
          BY <1>3, <1>4, <5>1
      <4> QED
        BY <4>1
    <3> QED
      BY <1>5, <3>1, <3>2 DEF Exists
  <2> QED
    BY <1>4, <2>1 DEF Functors
<1>9. Life'
  <2>1. ASSUME NEW j \in Ids, Exists(j)'
        PROVE  /\ conn'[j].state = "kDisconnected" => status'[conn'[j].client] = "closed"
               /\ phase' \in {"running", "stopped"} /\ conn'[j].state # "kDisconnected"
                    => j \in connections'
               /\ phase' = "running" /\ conn'[j].state = "kDisconnected" /\ j \in connections'
                    => <<"remove", j>> \in Elements(functors'[Base])
    <3>1. CASE j = i
      BY <1>0, <1>3, <1>5, <3>1 DEF IInv, Life
    <3>2. CASE j # i
      <4>1. conn'[j] = conn[j] /\ Exists(j)
        BY <1>5, <2>1, <3>2 DEF Exists
      <4>2. <<"remove", j>> # <<"established", i>>
        OBVIOUS
      <4> QED
        BY <1>0, <1>4, <4>1, <4>2, BaseIs DEF IInv, Life
    <3> QED
      BY <3>1, <3>2
  <2> QED
    BY <2>1 DEF Life
<1>10. Numbered' /\ ClientsOnce' /\ Sockets' /\ Turns' /\ RoundRobin'
  BY <1>0, <1>5, OwnersKept
<1>11. Setup' /\ Streams'
  BY <1>0, <1>5, StreamsKept DEF IInv, Setup
<1> QED
  BY <1>6, <1>7, <1>8, <1>9, <1>10, <1>11 DEF IInv

\* connectDestroyed as a functor: the connection was closed before.
LEMMA NextConnectDestroyed ==
  ASSUME IInv, NEW l \in Loops, ConnectDestroyed(l)
  PROVE  IInv'
<1>0. UNCHANGED <<started, numThreads, next, nextConnId, connections, running, reported, phase,
                  listening, backlog, file, status, written, up, output, down, got, usedDead>>
  BY DEF ConnectDestroyed, poolVars, listenVars, clientVars
<1>1. RunsFunctor(l, "destroyed") /\ Dequeued(l)
  BY DEF ConnectDestroyed
<1>2. PICK i \in Ids : i = Argument(l)
  BY <1>1, FunctorRuns
<1>3. Exists(i) /\ conn[i].state = "kDisconnected" /\ conn[i].added = FALSE
  <2>1. Exists(i) /\ ("destroyed" # "established" => conn[i].state = "kDisconnected")
    BY <1>1, <1>2, FunctorRuns
  <2>2. conn[i].added \in BOOLEAN /\ (conn[i].added <=> conn[i].state = "kConnected")
    BY <2>1, ConnectionIs DEF IInv
  <2> QED
    BY <2>1, <2>2
<1>4. /\ functors' \in [Loops -> Seq(FunctorSet)] /\ \A k \in Loops : Once(functors'[k])
      /\ \A k \in Loops : Elements(functors'[k]) \subseteq Elements(functors[k])
      /\ \A k \in Loops : \A f : f \in Elements(functors[k]) /\ f # <<"destroyed", i>>
           => f \in Elements(functors'[k])
  BY <1>1, <1>2, FunctorTaken
<1>5. conn' = conn
  <2>1. conn' = [conn EXCEPT ![i].state = "kDisconnected", ![i].added = FALSE]
    BY <1>2 DEF ConnectDestroyed
  <2>2. conn \in [Ids -> {Nobody} \cup TcpConnectionSet] /\ conn[i] \in TcpConnectionSet
    BY <1>3, ConnectionIs DEF IInv, Types, MoreTypes
  <2>3. [conn[i] EXCEPT !.state = "kDisconnected", !.added = FALSE] = conn[i]
    BY <1>3, <2>2 DEF TcpConnectionSet
  <2> QED
    BY <2>1, <2>2, <2>3
<1>6. Types'
  BY <1>0, <1>4, <1>5 DEF IInv, Types, TypeOK, MoreTypes
<1>7. Reports'
  BY <1>0, <1>5, ReportsKept
<1>8. Functors'
  BY <1>4, <1>5 DEF IInv, Functors, Exists
<1>9. Life'
  <2>1. \A j \in Ids : <<"remove", j>> # <<"destroyed", i>>
    OBVIOUS
  <2> QED
    BY <1>0, <1>4, <1>5, <2>1, BaseIs DEF IInv, Life, Exists
<1>10. Numbered' /\ ClientsOnce' /\ Sockets' /\ Turns' /\ RoundRobin'
  BY <1>0, <1>5, SameConnections, OwnersKept
<1>11. Setup' /\ Streams'
  BY <1>0, <1>5, SameConnections, StreamsKept DEF IInv, Setup
<1> QED
  BY <1>6, <1>7, <1>8, <1>9, <1>10, <1>11 DEF IInv

\* removeConnectionInLoop as a functor of the base loop.
LEMMA NextRunRemoveConnection == IInv /\ RunRemoveConnection => IInv'
<1> SUFFICES ASSUME IInv, RunRemoveConnection PROVE IInv'
  OBVIOUS
<1>0. UNCHANGED <<started, numThreads, next, nextConnId, conn, running, reported, phase,
                  listening, backlog, file, status, written, up, output, down, got, usedDead>>
  BY DEF RunRemoveConnection, poolVars, listenVars, clientVars
<1>1. RunsFunctor(Base, "remove") /\ Base \in Loops
  BY BaseIs DEF RunRemoveConnection
<1>2. PICK i \in Ids : i = Argument(Base)
  BY <1>1, FunctorRuns
<1>3. /\ Exists(i) /\ conn[i].state = "kDisconnected"
      /\ Tail(functors[Base]) \in Seq(FunctorSet) /\ Once(Tail(functors[Base]))
      /\ Elements(functors[Base]) = Elements(Tail(functors[Base])) \cup {<<"remove", i>>}
  <2>1. Exists(i) /\ ("remove" # "established" => conn[i].state = "kDisconnected")
    BY <1>1, <1>2, FunctorRuns
  <2>2. /\ Tail(functors[Base]) \in Seq(FunctorSet) /\ Once(Tail(functors[Base]))
        /\ Elements(functors[Base]) = Elements(Tail(functors[Base])) \cup {<<"remove", i>>}
    BY <1>1, <1>2, FunctorRuns
  <2> QED
    BY <2>1, <2>2
<1>4. PICK l \in Loops : l = conn[i].loop
  BY <1>3, ConnectionIs DEF IInv
<1>5. PICK f \in FunctorSet : f = <<"destroyed", i>> /\ f[1] = "destroyed" /\ f[2] = i
  <2>1. <<"destroyed", i>> \in FunctorSet
    BY DEF FunctorSet
  <2> QED
    BY <2>1
<1>6. connections' = connections \ {i}
  BY <1>2 DEF RunRemoveConnection
<1> DEFINE taken == [functors EXCEPT ![Base] = Tail(@)]
<1>7. functors' = [taken EXCEPT ![l] = Append(@, f)]
  BY <1>2, <1>4, <1>5 DEF RunRemoveConnection
<1>8. functors \in [Loops -> Seq(FunctorSet)] /\ \A k \in Loops : Once(functors[k])
  BY DEF IInv, Types, MoreTypes, Functors
<1>9. /\ taken \in [Loops -> Seq(FunctorSet)] /\ taken[Base] = Tail(functors[Base])
      /\ \A k \in Loops : k # Base => taken[k] = functors[k]
  BY <1>1, <1>3, <1>8
<1>10. /\ \A k \in Loops : Once(taken[k])
       /\ \A k \in Loops : Elements(taken[k]) \subseteq Elements(functors[k])
       /\ \A k \in Loops : Elements(functors[k]) \subseteq Elements(taken[k]) \cup {<<"remove", i>>}
  BY <1>3, <1>8, <1>9
<1> HIDE DEF taken
<1>11. /\ Append(taken[l], f) \in Seq(FunctorSet) /\ Once(Append(taken[l], f))
       /\ Elements(Append(taken[l], f)) = Elements(taken[l]) \cup {f}
  BY <1>5, <1>9, <1>10, QueueGrows
<1>12. /\ functors' \in [Loops -> Seq(FunctorSet)] /\ functors'[l] = Append(taken[l], f)
       /\ \A k \in Loops : k # l => functors'[k] = taken[k]
  BY <1>7, <1>9, <1>11
<1>13. /\ \A k \in Loops : Once(functors'[k])
       /\ \A k \in Loops : Elements(functors'[k]) \subseteq Elements(functors[k]) \cup {f}
       /\ \A k \in Loops :
            Elements(functors[k]) \subseteq Elements(functors'[k]) \cup {<<"remove", i>>}
  BY <1>10, <1>11, <1>12
<1>14. Types'
  <2>1. connections' \subseteq Ids
    BY <1>6 DEF IInv, Types, TypeOK
  <2> QED
    BY <1>0, <1>12, <2>1 DEF IInv, Types, TypeOK, MoreTypes
<1>15. Functors'
  <2>1. ASSUME NEW k \in Loops, NEW g \in Elements(functors'[k])
        PROVE  /\ Exists(g[2])
               /\ g[1] = "established" => conn[g[2]].state = "kConnecting" /\ conn[g[2]].loop = k
               /\ g[1] # "established" => conn[g[2]].state = "kDisconnected"
    <3>1. CASE g = f
      BY <1>3, <1>5, <3>1
    <3>2. CASE g \in Elements(functors[k])
      BY <3>2 DEF IInv, Functors
    <3> QED
      BY <1>13, <3>1, <3>2
  <2> QED
    BY <1>0, <1>13, <2>1 DEF Functors, Exists
<1>16. Life'
  <2>1. ASSUME NEW j \in Ids, Exists(j)
        PROVE  /\ conn[j].state = "kDisconnected" => status[conn[j].client] = "closed"
               /\ phase \in {"running", "stopped"} /\ conn[j].state # "kDisconnected"
                    => j \in connections'
               /\ phase = "running" /\ conn[j].state = "kDisconnected" /\ j \in connections'
                    => <<"remove", j>> \in Elements(functors'[Base])
    <3>1. CASE j = i
      BY <1>3, <1>6, <3>1 DEF IInv, Life
    <3>2. CASE j # i
      <4>1. <<"remove", j>> # <<"remove", i>>
        BY <3>2
      <4> QED
        BY <1>1, <1>6, <1>13, <2>1, <3>2, <4>1 DEF IInv, Life
    <3> QED
      BY <3>1, <3>2
  <2> QED
    BY <1>0, <2>1 DEF Life, Exists
<1>17. Reports' /\ Streams'
  BY <1>0, ReportsKept, SameConnections, StreamsKept
<1>18. Numbered' /\ ClientsOnce' /\ Sockets' /\ Turns' /\ RoundRobin'
  BY <1>0, SameConnections, OwnersKept
<1>19. Setup'
  BY <1>0 DEF IInv, Setup
<1> QED
  BY <1>14, <1>15, <1>16, <1>17, <1>18, <1>19 DEF IInv

-----------------------------------------------------------------------------
(* accept and newConnection. *)

\* The Acceptor has a client in its queue and a number for the new connection.
LEMMA AcceptIs ==
  ASSUME IInv, AcceptorHandleRead
  PROVE  \E fd \in Fds, c \in Clients :
           /\ file[fd] = Nobody /\ c = Head(backlog) /\ backlog # <<>>
           /\ file' = [file EXCEPT ![fd] = c] /\ backlog' = Tail(backlog)
           /\ newConnection(fd, c) /\ nextConnId \in Ids /\ started /\ listening
           /\ phase = "running" /\ NextLoop \in Loops
<1>1. PICK fd \in Free, c \in Clients : accept(fd, c) /\ newConnection(fd, c)
  BY DEF AcceptorHandleRead
<1>2. backlog # <<>> /\ phase = "running"
  BY BaseIs DEF AcceptorHandleRead, Handles, Runs, IInv, Reports
<1>3. listening /\ started
  BY <1>2 DEF IInv, Setup
<1>4. nextConnId \in Ids
  <2>1. PICK m \in 0..MaxClients : nextConnId + Len(backlog) <= m + 1
    BY DEF IInv, Numbered
  <2>2. Len(backlog) \in Nat /\ Len(backlog) >= 1
    BY <1>2 DEF IInv, Types, MoreTypes
  <2> QED
    BY <2>1, <2>2 DEF IInv, Types, TypeOK, Ids
<1>5. NextLoop \in Loops
  BY DEF NextLoop, IInv, Types, TypeOK, Setup, Loops, Base
<1>6. fd \in Fds /\ file[fd] = Nobody
  BY DEF Free
<1> QED
  BY <1>1, <1>2, <1>3, <1>4, <1>5, <1>6 DEF accept

\* The accept queue without its first client.
LEMMA BacklogShrinks ==
  ASSUME NEW q \in Seq(Clients), q # <<>>
  PROVE  /\ Tail(q) \in Seq(Clients) /\ Len(Tail(q)) = Len(q) - 1 /\ Len(q) \in Nat
         /\ 1 \in DOMAIN q /\ Head(q) = q[1] /\ Head(q) \in Clients
         /\ \A k \in DOMAIN Tail(q) : /\ k \in Nat /\ k >= 1 /\ k + 1 \in DOMAIN q
                                      /\ Tail(q)[k] = q[k + 1]
<1>1. Tail(q) \in Seq(Clients) /\ Len(Tail(q)) = Len(q) - 1 /\ Len(q) \in Nat
        /\ 1 \in DOMAIN q /\ Head(q) = q[1] /\ Head(q) \in Clients
  OBVIOUS
<1>2. \A k \in 1..Len(Tail(q)) : Tail(q)[k] = q[k + 1]
  OBVIOUS
<1>3. DOMAIN Tail(q) = 1..Len(Tail(q)) /\ DOMAIN q = 1..Len(q)
  BY <1>1
<1>4. ASSUME NEW k \in DOMAIN Tail(q)
      PROVE  k \in Nat /\ k >= 1 /\ k + 1 \in DOMAIN q /\ Tail(q)[k] = q[k + 1]
  BY <1>1, <1>2, <1>3
<1> QED
  BY <1>1, <1>4

\* accept gives a client a descriptor, and newConnection gives it a TcpConnection and the
\* next loop.
LEMMA NextAccept == IInv /\ AcceptorHandleRead => IInv'
<1> SUFFICES ASSUME IInv, AcceptorHandleRead PROVE IInv'
  OBVIOUS
<1>0. UNCHANGED <<started, running, phase, listening, status, written, up, output, down, got,
                  usedDead>>
  BY DEF AcceptorHandleRead, clientVars
<1>1. PICK fd \in Fds, c \in Clients :
        /\ file[fd] = Nobody /\ c = Head(backlog) /\ backlog # <<>>
        /\ file' = [file EXCEPT ![fd] = c] /\ backlog' = Tail(backlog)
        /\ newConnection(fd, c) /\ nextConnId \in Ids /\ started /\ listening
        /\ phase = "running" /\ NextLoop \in Loops
  BY AcceptIs
<1>2. PICK i \in Ids, l \in Loops : i = nextConnId /\ l = NextLoop
  BY <1>1
<1>3. PICK r \in TcpConnectionSet :
        /\ conn' = [conn EXCEPT ![i] = r]
        /\ r.client = c /\ r.fd = fd /\ r.loop = l
        /\ r.state \in {"kConnecting", "kConnected"}
        /\ r.added <=> r.state = "kConnected"
        /\ l = Base <=> r.state = "kConnected"
  <2> DEFINE r == [client |-> c, fd |-> fd, loop |-> l, added |-> l = Base,
                   state |-> IF l = Base THEN "kConnected" ELSE "kConnecting"]
  <2>1. conn' = [conn EXCEPT ![i] = r]
    BY <1>1, <1>2 DEF newConnection
  <2>2. r \in TcpConnectionSet
    BY DEF TcpConnectionSet, Loops
  <2>3. /\ r.client = c /\ r.fd = fd /\ r.loop = l
        /\ r.state \in {"kConnecting", "kConnected"}
        /\ r.added <=> r.state = "kConnected"
        /\ l = Base <=> r.state = "kConnected"
    OBVIOUS
  <2> HIDE DEF r
  <2> QED
    BY <2>1, <2>2, <2>3
<1>4. /\ nextConnId' = nextConnId + 1 /\ connections' = connections \cup {i}
      /\ numThreads' = numThreads /\ next' = IF next + 1 >= numThreads THEN 0 ELSE next + 1
      /\ IF l = Base THEN functors' = functors ELSE Queue(l, "established", i)
  BY <1>1, <1>2 DEF newConnection, getNextLoop
<1>5. ~Exists(i) /\ \A j \in Ids : Exists(j) => j < i /\ j # i
  BY <1>2 DEF IInv, Numbered, Types, TypeOK, Ids
<1>6. /\ conn' \in [Ids -> {Nobody} \cup TcpConnectionSet]
      /\ conn'[i] = r /\ Exists(i)'
      /\ \A j \in Ids : j # i => conn'[j] = conn[j]
      /\ \A j \in Ids : j # i => (Exists(j)' <=> Exists(j))
  BY <1>3 DEF IInv, Types, MoreTypes, Exists
<1>7. /\ functors' \in [Loops -> Seq(FunctorSet)] /\ \A k \in Loops : Once(functors'[k])
      /\ \A k \in Loops : \A f : f \in Elements(functors'[k]) =>
           f \in Elements(functors[k]) \/ (f = <<"established", i>> /\ k = l /\ l # Base)
      /\ \A k \in Loops : Elements(functors[k]) \subseteq Elements(functors'[k])
  <2>1. CASE l = Base
    BY <1>4, <2>1 DEF IInv, Types, MoreTypes, Functors
  <2>2. CASE l # Base
    <3>1. <<"established", i>> \notin Elements(functors[l])
      BY <1>5 DEF IInv, Functors
    <3>2. /\ functors' \in [Loops -> Seq(FunctorSet)]
          /\ \A k \in Loops : Once(functors'[k])
          /\ Elements(functors'[l]) = Elements(functors[l]) \cup {<<"established", i>>}
          /\ \A k \in Loops : k # l => functors'[k] = functors[k]
          /\ \A k \in Loops : Elements(functors[k]) \subseteq Elements(functors'[k])
      BY <1>4, <2>2, <3>1, FunctorQueued
    <3> QED
      BY <2>2, <3>2
  <2> QED
    BY <2>1, <2>2
<1>8. /\ backlog \in Seq(Clients) /\ backlog' \in Seq(Clients)
      /\ Len(backlog') = Len(backlog) - 1 /\ Len(backlog) \in Nat
      /\ 1 \in DOMAIN backlog /\ c = backlog[1]
      /\ \A k \in DOMAIN backlog' : /\ k \in Nat /\ k >= 1 /\ k + 1 \in DOMAIN backlog
                                    /\ backlog'[k] = backlog[k + 1]
  <2>1. backlog \in Seq(Clients)
    BY DEF IInv, Types, MoreTypes
  <2> QED
    BY <1>1, <2>1, BacklogShrinks
<1>9. /\ i \in Nat /\ nextConnId = i /\ nextConnId' = i + 1 /\ next \in Nat
      /\ numThreads \in Nat /\ next' \in Nat /\ next' \in Loops
      /\ next = 0 \/ next < numThreads
  <2>1. /\ i \in Nat /\ nextConnId = i /\ next \in Nat /\ numThreads \in Nat
        /\ numThreads <= MaxThreads /\ (next = 0 \/ next < numThreads)
    BY <1>2 DEF Ids, IInv, Types, TypeOK, Loops, Setup
  <2> QED
    BY <1>4, <2>1 DEF Loops
<1>10. Types'
  <2>1. \A j \in Ids : conn'[j] = Nobody \/
           /\ conn'[j].client \in Clients /\ conn'[j].fd \in Fds /\ conn'[j].loop \in Loops
           /\ conn'[j].added <=> conn'[j].state = "kConnected"
    <3>1. r.client \in Clients /\ r.fd \in Fds /\ r.loop \in Loops
            /\ (r.added <=> r.state = "kConnected")
      BY <1>3
    <3> QED
      BY <1>6, <3>1 DEF IInv, Types, TypeOK
  <2>2. nextConnId' \in 1..MaxClients + 1 /\ connections' \subseteq Ids
    BY <1>4, <1>9 DEF IInv, Types, TypeOK, Ids
  <2>3. file' \in [Fds -> Clients \cup {Nobody}]
    BY <1>1 DEF IInv, Types, TypeOK
  <2>4. reported' \in [Loops -> SUBSET (Ids \cup {AcceptChannel})]
    BY BaseIs, HandlesIs DEF AcceptorHandleRead
  <2>5. TypeOK'
    BY <1>0, <1>4, <1>9, <2>1, <2>2, <2>3, <2>4 DEF IInv, Types, TypeOK
  <2>6. MoreTypes'
    BY <1>0, <1>6, <1>7, <1>8 DEF IInv, Types, MoreTypes
  <2> QED
    BY <2>5, <2>6 DEF Types
<1>11. Setup'
  BY <1>0, <1>1, <1>4, <1>9 DEF IInv, Setup
<1>12. Numbered'
  <2>1. PICK m \in 0..MaxClients : /\ \A d \in Clients : status[d] = "new" <=> d > m
                                   /\ nextConnId + Len(backlog) <= m + 1
    BY DEF IInv, Numbered
  <2>2. nextConnId' + Len(backlog') <= m + 1
    BY <1>8, <1>9, <2>1
  <2>3. \A j \in Ids : j >= nextConnId' => ~Exists(j)'
    BY <1>5, <1>6, <1>9 DEF IInv, Numbered, Ids
  <2> QED
    BY <1>0, <2>1, <2>2, <2>3 DEF Numbered
<1>13. ClientsOnce'
  <2>1. \A j, k \in DOMAIN backlog' : backlog'[j] = backlog'[k] => j = k
    <3>1. ASSUME NEW j \in DOMAIN backlog', NEW k \in DOMAIN backlog', backlog'[j] = backlog'[k]
          PROVE  j = k
      <4>1. j + 1 = k + 1
        BY <1>8, <3>1 DEF IInv, ClientsOnce
      <4> QED
        BY <1>8, <4>1
    <3> QED
      BY <3>1
  <2>2. \A k \in DOMAIN backlog' : status'[backlog'[k]] # "new"
    BY <1>0, <1>8 DEF IInv, ClientsOnce
  <2>3. status[c] # "new" /\ \A k \in DOMAIN backlog' : backlog'[k] # c
    <3>1. ASSUME NEW k \in DOMAIN backlog', backlog'[k] = c PROVE FALSE
      <4>1. k + 1 = 1 /\ k \in Nat /\ k >= 1
        BY <1>8, <3>1 DEF IInv, ClientsOnce
      <4> QED
        BY <4>1
    <3> QED
      BY <1>8, <3>1 DEF IInv, ClientsOnce
  <2>4. \A j \in Ids : Exists(j) => /\ conn[j].client # c /\ status[conn[j].client] # "new"
                                    /\ \A k \in DOMAIN backlog' : backlog'[k] # conn[j].client
    BY <1>8 DEF IInv, ClientsOnce, Waiting
  <2>5. ASSUME NEW j \in Ids, Exists(j)'
        PROVE  /\ status'[conn'[j].client] # "new"
               /\ ~\E k \in DOMAIN backlog' : backlog'[k] = conn'[j].client
    <3>1. CASE j = i
      BY <1>0, <1>3, <1>6, <2>3, <3>1
    <3>2. CASE j # i
      BY <1>0, <1>6, <2>4, <2>5, <3>2
    <3> QED
      BY <3>1, <3>2
  <2>6. ASSUME NEW j \in Ids, NEW k \in Ids, Exists(j)', Exists(k)',
               conn'[j].client = conn'[k].client
        PROVE  j = k
    BY <1>3, <1>6, <2>4, <2>6 DEF IInv, ClientsOnce
  <2> QED
    BY <2>1, <2>2, <2>5, <2>6 DEF ClientsOnce, Waiting
<1>14. Sockets'
  <2>1. \A j \in Ids : Exists(j) => /\ conn[j].fd \in Fds /\ conn[j].fd # fd
                                    /\ file[conn[j].fd] = conn[j].client
    <3>1. ASSUME NEW j \in Ids, Exists(j) PROVE conn[j].fd \in Fds /\ conn[j].fd # fd
      <4>1. conn[j].client # Nobody
        BY <3>1, SocketIs
      <4> QED
        BY <1>1, <3>1, <4>1, SocketIs, ConnectionIs DEF IInv
    <3> QED
      BY <3>1, SocketIs
  <2>2. /\ \A g \in Fds : g # fd => file'[g] = file[g]
        /\ file'[fd] = c
    BY <1>1 DEF IInv, Types, TypeOK
  <2>3. FdsDistinct'
    BY <1>3, <1>6, <2>1 DEF IInv, Sockets, FdsDistinct
  <2>4. ASSUME NEW g \in Fds, file'[g] # Nobody
        PROVE  \E j \in Ids : Exists(j)' /\ conn'[j].fd = g
    <3>1. CASE g = fd
      BY <1>3, <1>6, <3>1
    <3>2. CASE g # fd
      <4>1. PICK j \in Ids : Exists(j) /\ conn[j].fd = g
        BY <2>2, <2>4, <3>2 DEF IInv, Sockets, SocketOwned, Exists
      <4> QED
        BY <1>5, <1>6, <4>1
    <3> QED
      BY <3>1, <3>2
  <2>5. ASSUME NEW j \in Ids, Exists(j)' PROVE file'[conn'[j].fd] = conn'[j].client
    BY <1>3, <1>6, <2>1, <2>2, <2>5
  <2> QED
    BY <2>3, <2>4, <2>5 DEF Sockets, SocketOwned, Exists
<1>15. Reports'
  <2>1. /\ reported'[Base] = reported[Base] \ {AcceptChannel}
        /\ \A k \in Loops : reported'[k] \subseteq reported[k]
    BY BaseIs, HandlesIs DEF AcceptorHandleRead
  <2>2. \A k \in Loops : AcceptChannel \notin reported'[k]
    BY <2>1 DEF IInv, Reports
  <2>3. ASSUME NEW k \in Loops, NEW j \in Ids, j \in reported'[k]
        PROVE  /\ j < nextConnId'
               /\ Exists(j)' => conn'[j].added /\ conn'[j].loop = k
    <3>1. j < i /\ (Exists(j) => conn[j].added /\ conn[j].loop = k)
      BY <1>9, <2>1, <2>3 DEF IInv, Reports
    <3>2. j # i /\ j < nextConnId'
      BY <1>9, <3>1 DEF Ids
    <3> QED
      BY <1>0, <1>6, <3>1, <3>2
  <2> QED
    BY <1>0, <1>1, <2>2, <2>3 DEF Reports
<1>16. Functors'
  <2>1. ASSUME NEW k \in Loops, NEW f \in Elements(functors'[k])
        PROVE  /\ Exists(f[2])'
               /\ f[1] = "established" => conn'[f[2]].state = "kConnecting" /\ conn'[f[2]].loop = k
               /\ f[1] # "established" => conn'[f[2]].state = "kDisconnected"
    <3>1. CASE f \in Elements(functors[k])
      <4>1. /\ f[2] \in Ids /\ Exists(f[2])
            /\ f[1] = "established" => conn[f[2]].state = "kConnecting" /\ conn[f[2]].loop = k
            /\ f[1] # "established" => conn[f[2]].state = "kDisconnected"
        BY <3>1, FunctorIs
      <4>2. f[2] # i
        BY <1>5, <4>1
      <4> QED
        BY <1>6, <4>1, <4>2
    <3>2. CASE f = <<"established", i>> /\ k = l /\ l # Base
      <4>1. f[1] = "established" /\ f[2] = i
        BY <3>2
      <4>2. r.state = "kConnecting" /\ r.loop = k
        BY <1>3, <3>2
      <4> QED
        BY <1>6, <4>1, <4>2
    <3> QED
      BY <1>7, <3>1, <3>2
  <2> QED
    BY <1>7, <2>1 DEF Functors
<1>17. Life'
  <2>1. ASSUME NEW j \in Ids, Exists(j)'
        PROVE  /\ conn'[j].state = "kDisconnected" => status'[conn'[j].client] = "closed"
               /\ phase' \in {"running", "stopped"} /\ conn'[j].state # "kDisconnected"
                    => j \in connections'
               /\ phase' = "running" /\ conn'[j].state = "kDisconnected" /\ j \in connections'
                    => <<"remove", j>> \in Elements(functors'[Base])
    <3>1. CASE j = i
      BY <1>3, <1>4, <1>6, <3>1
    <3>2. CASE j # i
      <4>1. conn'[j] = conn[j] /\ Exists(j) /\ (j \in connections' <=> j \in connections)
        BY <1>4, <1>6, <2>1, <3>2
      <4> QED
        BY <1>0, <1>7, <4>1, BaseIs DEF IInv, Life
    <3> QED
      BY <3>1, <3>2
  <2> QED
    BY <2>1 DEF Life
<1>18. l = next + 1 \/ numThreads = 0
  BY <1>2 DEF NextLoop
<1>19. \A j \in Ids : Exists(j) =>
         /\ j \in Nat /\ j < i /\ conn[j].loop \in Nat
         /\ i - j <= numThreads =>
              conn[j].loop = IF i - j <= next THEN next + 1 - (i - j)
                                              ELSE next + 1 - (i - j) + numThreads
  <2>1. \A j \in Ids : Exists(j) => j \in Nat /\ conn[j].loop \in Nat
    BY ConnectionIs DEF IInv, Ids, Loops
  <2> QED
    BY <1>5, <1>9, <2>1 DEF IInv, Turns
<1>20. Turns'
  <2>1. ASSUME NEW j \in Ids, Exists(j)', nextConnId' - j <= numThreads'
        PROVE  conn'[j].loop = IF nextConnId' - j <= next'
                               THEN next' + 1 - (nextConnId' - j)
                               ELSE next' + 1 - (nextConnId' - j) + numThreads'
    <3>1. CASE j = i
      <4>1. conn'[j].loop = next + 1 /\ (i + 1) - i = 1 /\ numThreads >= 1
        BY <1>3, <1>4, <1>6, <1>9, <1>18, <2>1, <3>1
      <4> QED
        BY <1>4, <1>9, <3>1, <4>1
    <3>2. CASE j # i
      <4>1. Exists(j) /\ conn'[j].loop = conn[j].loop
        BY <1>6, <2>1, <3>2
      <4>2. i - j <= numThreads /\ j \in Nat /\ j < i
        BY <1>4, <1>9, <1>19, <2>1, <4>1
      <4>3. conn[j].loop = IF i - j <= next THEN next + 1 - (i - j)
                                            ELSE next + 1 - (i - j) + numThreads
        BY <1>19, <4>1, <4>2
      <4>4. (i + 1) - j <= numThreads
        BY <1>4, <1>9, <2>1
      <4> QED
        BY <1>4, <1>9, <4>1, <4>2, <4>3, <4>4
    <3> QED
      BY <3>1, <3>2
  <2> QED
    BY <2>1 DEF Turns
<1>21. RoundRobin'
  <2>1. ASSUME NEW j \in Ids, Exists(j), i < j + numThreads PROVE conn[j].loop # l
    <3>1. j \in Nat /\ j < i /\ i - j <= numThreads /\ i - j < numThreads
      BY <1>9, <1>19, <2>1
    <3>2. conn[j].loop = IF i - j <= next THEN next + 1 - (i - j)
                                          ELSE next + 1 - (i - j) + numThreads
      BY <1>19, <2>1, <3>1
    <3>3. l = next + 1
      BY <1>9, <1>18, <3>1
    <3> QED
      BY <1>9, <3>1, <3>2, <3>3
  <2>2. ASSUME NEW j \in Ids, NEW k \in Ids, j < k, k < j + numThreads, Exists(j)', Exists(k)'
        PROVE  conn'[j].loop # conn'[k].loop
    <3>1. CASE k = i
      <4>1. j # i /\ Exists(j)
        BY <1>6, <1>9, <2>2, <3>1 DEF Ids
      <4> QED
        BY <1>3, <1>6, <2>1, <2>2, <3>1, <4>1
    <3>2. CASE k # i
      <4>1. Exists(k) /\ k < i
        BY <1>5, <1>6, <2>2, <3>2
      <4>2. j # i /\ Exists(j)
        BY <1>6, <1>9, <2>2, <4>1 DEF Ids
      <4> QED
        BY <1>6, <2>2, <3>2, <4>1, <4>2 DEF IInv, RoundRobin, Exists
    <3> QED
      BY <3>1, <3>2
  <2> QED
    BY <1>4, <2>2 DEF RoundRobin, Exists
<1>22. Streams'
  <2>1. /\ \A j \in Ids : Exists(j) => conn[j].client # c
        /\ Waiting(c) /\ \A d \in Clients : Waiting(d)' => Waiting(d)
    BY <1>8 DEF IInv, ClientsOnce, Waiting
  <2>2. output[i] = <<>>
    BY <1>5 DEF IInv, Streams
  <2>3. got[c] \o down[c] \o output[i] \o up[c] = FirstBytes(c, written[c])
    <3>1. got[c] \o down[c] \o up[c] = FirstBytes(c, written[c])
      BY <1>1, <2>1 DEF IInv, Streams, EchoIntact, Exists
    <3>2. (got[c] \o down[c]) \o <<>> = got[c] \o down[c]
      <4>1. got[c] \o down[c] \in Seq(Bytes)
        BY BytesAre, Concat
      <4> QED
        BY <4>1, Concat
    <3> QED
      BY <2>2, <3>1, <3>2
  <2>4. ASSUME NEW j \in Ids, Exists(j)'
        PROVE  got[conn'[j].client] \o down[conn'[j].client] \o output[j] \o up[conn'[j].client]
                 = FirstBytes(conn'[j].client, written[conn'[j].client])
    <3>1. CASE j = i
      BY <1>3, <1>6, <2>3, <3>1
    <3>2. CASE j # i
      <4>1. Exists(j) /\ conn'[j] = conn[j]
        BY <1>6, <2>4, <3>2
      <4> QED
        BY <4>1 DEF IInv, Streams, EchoIntact, Exists
    <3> QED
      BY <3>1, <3>2
  <2>5. ASSUME NEW d \in Clients, \A j \in Ids : Exists(j)' => conn'[j].client # d
        PROVE  got[d] \o down[d] \o up[d] = FirstBytes(d, written[d])
    <3>1. \A j \in Ids : Exists(j) => conn[j].client # d
      BY <1>5, <1>6, <2>5
    <3> QED
      BY <1>1, <3>1 DEF IInv, Streams, EchoIntact, Exists
  <2>6. EchoIntact'
    BY <1>0, <2>4, <2>5 DEF IInv, Streams, EchoIntact, Exists
  <2>7. ASSUME NEW j \in Ids, Exists(j)', status[conn'[j].client] = "closed"
        PROVE  Done(conn'[j].client)
    <3>1. CASE j = i
      BY <1>3, <1>6, <2>1, <2>7, <3>1 DEF IInv, Streams, Finishing
    <3>2. CASE j # i
      BY <1>6, <2>7, <3>2 DEF IInv, Streams, Finishing
    <3> QED
      BY <3>1, <3>2
  <2>8. Finishing'
    BY <1>0, <2>1, <2>7 DEF IInv, Streams, Finishing, Done
  <2>9. \A j \in Ids : ~Exists(j)' => output'[j] = <<>>
    BY <1>0, <1>6 DEF IInv, Streams
  <2> QED
    BY <2>6, <2>8, <2>9 DEF Streams
<1> QED
  BY <1>10, <1>11, <1>12, <1>13, <1>14, <1>15, <1>16, <1>17, <1>20, <1>21, <1>22 DEF IInv

-----------------------------------------------------------------------------
(* The end of a connection, and of the server. *)

\* ~TcpConnection closes the socket, which nobody else uses.
LEMMA NextDestroy == ASSUME IInv, NEW i \in Ids, Destroy(i) PROVE IInv'
<1>0. UNCHANGED <<started, numThreads, next, nextConnId, connections, running, functors,
                  reported, phase, listening, backlog, status, written, up, down, got, usedDead>>
  BY DEF Destroy, poolVars, loopVars, listenVars, clientVars
<1>1. /\ Exists(i) /\ conn' = [conn EXCEPT ![i] = Nobody]
      /\ \A l \in Loops : \A k \in DOMAIN functors[l] : functors[l][k][2] # i
  BY DEF Destroy, Exists
<1>2. PICK fd \in Fds : fd = conn[i].fd
  BY <1>1, ConnectionIs DEF IInv
<1>3. file' = [file EXCEPT ![fd] = Nobody]
  BY <1>2 DEF Destroy, close
<1>4. /\ conn' \in [Ids -> {Nobody} \cup TcpConnectionSet] /\ ~Exists(i)'
      /\ \A j \in Ids : Exists(j)' => j # i /\ Exists(j) /\ conn'[j] = conn[j]
      /\ \A j \in Ids : Exists(j) /\ j # i => Exists(j)' /\ conn'[j] = conn[j]
  BY <1>1 DEF IInv, Types, MoreTypes, Exists
<1>5. /\ file' \in [Fds -> Clients \cup {Nobody}] /\ file'[fd] = Nobody
      /\ \A g \in Fds : g # fd => file'[g] = file[g]
  BY <1>3 DEF IInv, Types, TypeOK
<1>6. Types'
  <2>1. \A j \in Ids : conn'[j] = Nobody \/
           /\ conn'[j].client \in Clients /\ conn'[j].fd \in Fds /\ conn'[j].loop \in Loops
           /\ conn'[j].added <=> conn'[j].state = "kConnected"
    BY <1>4 DEF IInv, Types, TypeOK, Exists
  <2> QED
    <3>1. output' \in [Ids -> Seq(Bytes)]
      BY DEF Destroy, IInv, Types, MoreTypes
    <3> QED
      BY <1>0, <1>4, <1>5, <2>1, <3>1 DEF IInv, Types, TypeOK, MoreTypes
<1>7. Numbered' /\ ClientsOnce'
  BY <1>0, <1>4 DEF IInv, Numbered, ClientsOnce, Waiting
<1>8. Sockets'
  <2>1. FdsDistinct'
    BY <1>4 DEF IInv, Sockets, FdsDistinct
  <2>2. ASSUME NEW g \in Fds, file'[g] # Nobody
        PROVE  \E j \in Ids : Exists(j)' /\ conn'[j].fd = g
    <3>1. g # fd /\ file[g] # Nobody
      BY <1>5, <2>2
    <3>2. PICK j \in Ids : Exists(j) /\ conn[j].fd = g
      BY <3>1 DEF IInv, Sockets, SocketOwned, Exists
    <3> QED
      BY <1>2, <1>4, <3>1, <3>2
  <2>3. ASSUME NEW j \in Ids, Exists(j)' PROVE file'[conn'[j].fd] = conn'[j].client
    <3>1. j # i /\ Exists(j) /\ conn'[j] = conn[j]
      BY <1>4, <2>3
    <3>2. conn[j].fd \in Fds /\ conn[j].fd # fd
      BY <1>1, <1>2, <3>1, ConnectionIs DEF IInv, Sockets, FdsDistinct
    <3> QED
      BY <1>5, <3>1, <3>2, SocketIs
  <2> QED
    BY <2>1, <2>2, <2>3 DEF Sockets, SocketOwned, Exists
<1>9. Reports'
  BY <1>0, <1>4 DEF IInv, Reports
<1>10. Functors'
  <2>1. ASSUME NEW l \in Loops, NEW f \in Elements(functors[l])
        PROVE  /\ Exists(f[2])' /\ conn'[f[2]] = conn[f[2]]
    BY <1>1, <1>4, FunctorIs DEF Elements
  <2> QED
    BY <1>0, <2>1 DEF IInv, Functors
<1>11. Life'
  BY <1>0, <1>4 DEF IInv, Life
<1>12. Turns' /\ RoundRobin'
  <2>1. Turns'
    BY <1>0, <1>4 DEF IInv, Turns
  <2>2. RoundRobin'
    BY <1>0, <1>4 DEF IInv, RoundRobin, Exists
  <2> QED
    BY <2>1, <2>2
<1>13. Setup'
  BY <1>0 DEF IInv, Setup
<1>14. /\ output' \in [Ids -> Seq(Bytes)] /\ output'[i] = <<>>
       /\ \A j \in Ids : j # i => output'[j] = output[j]
  BY DEF Destroy, IInv, Types, MoreTypes
<1>15. Streams'
  <2>1. PICK c \in Clients : c = conn[i].client
    BY <1>1, ConnectionIs DEF IInv
  <2>2. ASSUME NEW j \in Ids, Exists(j)'
        PROVE  got[conn'[j].client] \o down[conn'[j].client] \o output'[j] \o up[conn'[j].client]
                 = FirstBytes(conn'[j].client, written[conn'[j].client])
    <3>1. Exists(j) /\ conn'[j] = conn[j] /\ output'[j] = output[j]
      BY <1>4, <1>14, <2>2
    <3> QED
      BY <3>1 DEF IInv, Streams, EchoIntact, Exists
  <2>3. ASSUME phase \in {"running", "stopped"}, NEW d \in Clients,
               \A j \in Ids : Exists(j)' => conn'[j].client # d
        PROVE  got[d] \o down[d] \o up[d] = FirstBytes(d, written[d])
    <3>1. CASE d # c
      <4>1. \A j \in Ids : Exists(j) => conn[j].client # d
        BY <1>4, <2>1, <2>3, <3>1
      <4> QED
        BY <2>3, <4>1 DEF IInv, Streams, EchoIntact, Exists
    <3>2. CASE d = c
      <4>1. conn[i].state = "kDisconnected"
        BY <1>1, <2>3 DEF Destroy, IInv, Life
      <4>2. Done(c)
        BY <1>1, <2>1, <4>1 DEF IInv, Life, Streams, Finishing
      <4>3. output[i] = <<>>
              /\ ((got[c] \o down[c]) \o output[i]) \o up[c] = FirstBytes(c, written[c])
        BY <1>1, <2>1, <4>2, StreamIs
      <4>4. got[c] \o down[c] \in Seq(Bytes)
        BY BytesAre, Concat
      <4>5. (got[c] \o down[c]) \o <<>> = got[c] \o down[c]
        BY <4>4, Concat
      <4> QED
        BY <3>2, <4>3, <4>5
    <3> QED
      BY <3>1, <3>2
  <2>4. EchoIntact'
    BY <1>0, <2>2, <2>3 DEF IInv, Streams, EchoIntact, Exists
  <2>5. Finishing'
    BY <1>0, <1>4 DEF IInv, Streams, Finishing, Done, Waiting
  <2>6. \A j \in Ids : ~Exists(j)' => output'[j] = <<>>
    BY <1>4, <1>14 DEF IInv, Streams
  <2> QED
    BY <2>4, <2>5, <2>6 DEF Streams
<1> QED
  BY <1>6, <1>7, <1>8, <1>9, <1>10, <1>11, <1>12, <1>13, <1>15 DEF IInv

\* The steps at the end of main lead from one phase to the next.
LEMMA PhaseEnds ==
  ASSUME IInv, phase # "running" \/ reported[Base] = {}, started,
         phase' \in {"stopped", "cleared", "gone", "ended"},
         phase' = "stopped" => phase = "running",
         connections' \subseteq connections,
         connections' = connections \/ phase' \notin {"running", "stopped"},
         UNCHANGED <<started, numThreads, next, nextConnId, conn, running, functors, reported,
                     listening, backlog, file, status, written, up, output, down, got>>
  PROVE  IInv'
<1>1. Types'
  BY DEF IInv, Types, TypeOK, MoreTypes
<1>2. Setup' /\ Streams'
  BY SameConnections, StreamsKept DEF IInv, Setup
<1>3. Numbered' /\ ClientsOnce' /\ Sockets' /\ Turns' /\ RoundRobin'
  BY SameConnections, OwnersKept
<1>4. Reports'
  BY DEF IInv, Reports, Exists
<1>5. Functors' /\ Life'
  BY DEF IInv, Functors, Life, Exists
<1> QED
  BY <1>1, <1>2, <1>3, <1>4, <1>5 DEF IInv

\* loop() of the base loop returns.
LEMMA NextQuit == IInv /\ Quit => IInv'
<1> SUFFICES ASSUME IInv, Quit PROVE IInv'
  OBVIOUS
<1> USE DEF Quit, poolVars, tableVars, loopVars, listenVars, clientVars
<1>1. connections' = connections /\ phase' = "stopped" /\ phase = "running" /\ started
  OBVIOUS
<1> QED
  BY <1>1, PhaseEnds

\* ~TcpServer destroys connections_.
LEMMA NextDestroyConnections == IInv /\ DestroyConnections => IInv'
<1> SUFFICES ASSUME IInv, DestroyConnections PROVE IInv'
  OBVIOUS
<1> USE DEF DestroyConnections, poolVars, loopVars, listenVars, clientVars
<1>1. /\ phase' = "cleared" /\ phase = "stopped" /\ connections' = {} /\ started
      /\ connections' \subseteq connections
  BY DEF IInv, Setup
<1> QED
  BY <1>1, PhaseEnds

\* A loop that is destroyed takes its functors along.
LEMMA LoopEnds ==
  ASSUME IInv, NEW l \in Loops, functors' = [functors EXCEPT ![l] = <<>>],
         running' \subseteq running, phase # "running", phase' = phase \/ phase' = "ended",
         phase # "stopped",
         UNCHANGED <<started, numThreads, next, nextConnId, connections, conn, reported,
                     listening, backlog, file, status, written, up, output, down, got>>
  PROVE  IInv'
<1>1. /\ functors' \in [Loops -> Seq(FunctorSet)] /\ functors'[l] = <<>>
      /\ \A k \in Loops : k # l => functors'[k] = functors[k]
  BY QueueEmpty DEF IInv, Types, MoreTypes
<1>2. Types'
  BY <1>1 DEF IInv, Types, TypeOK, MoreTypes
<1>3. Setup' /\ Streams'
  BY SameConnections, StreamsKept DEF IInv, Setup
<1>4. Numbered' /\ ClientsOnce' /\ Sockets' /\ Turns' /\ RoundRobin'
  BY SameConnections, OwnersKept
<1>5. Reports'
  BY DEF IInv, Reports, Exists
<1>6. Functors'
  BY <1>1, QueueEmpty DEF IInv, Functors, Exists
<1>7. Life'
  BY DEF IInv, Life, Exists
<1> QED
  BY <1>2, <1>3, <1>4, <1>5, <1>6, <1>7 DEF IInv

\* A thread of the pool is joined.
LEMMA NextStopLoop == ASSUME IInv, NEW l \in Loops, StopLoop(l) PROVE IInv'
<1> USE DEF StopLoop, poolVars, tableVars, listenVars, clientVars
<1>1. running' \subseteq running /\ phase = "cleared" /\ phase' = phase
        /\ functors' = [functors EXCEPT ![l] = <<>>]
  OBVIOUS
<1> QED
  BY <1>1, LoopEnds

\* ~EventLoop of the base loop.
LEMMA NextDestroyBaseLoop == IInv /\ DestroyBaseLoop => IInv'
<1> SUFFICES ASSUME IInv, DestroyBaseLoop PROVE IInv'
  OBVIOUS
<1> USE DEF DestroyBaseLoop, poolVars, tableVars, listenVars, clientVars
<1>1. running' \subseteq running /\ phase = "gone" /\ phase' = "ended" /\ Base \in Loops
        /\ functors' = [functors EXCEPT ![Base] = <<>>]
  BY BaseIs
<1> QED
  BY <1>1, LoopEnds

\* ~Acceptor closes the listening socket.
LEMMA NextDestroyAcceptor == IInv /\ DestroyAcceptor => IInv'
<1> SUFFICES ASSUME IInv, DestroyAcceptor PROVE IInv'
  OBVIOUS
<1>0. /\ UNCHANGED <<started, numThreads, next, nextConnId, connections, conn, running, functors,
                     reported, file, status, written, up, output, down, got, usedDead>>
      /\ phase = "cleared" /\ phase' = "gone" /\ listening' = FALSE /\ backlog' = <<>>
  BY DEF DestroyAcceptor, poolVars, tableVars, loopVars, clientVars
<1>1. /\ backlog' \in Seq(Clients) /\ DOMAIN backlog' = {} /\ Len(backlog') = 0
      /\ Len(backlog) \in Nat
  BY <1>0 DEF IInv, Types, MoreTypes
<1>2. Types'
  BY <1>0, <1>1 DEF IInv, Types, TypeOK, MoreTypes
<1>3. Setup' /\ Streams'
  <2>1. EchoIntact'
    BY <1>0, SameConnections, EchoKept
  <2>2. Finishing'
    BY <1>0, <1>1 DEF IInv, Streams, Finishing, Exists, Done, Waiting
  <2> QED
    BY <1>0, <2>1, <2>2 DEF IInv, Setup, Streams, Exists
<1>4. Numbered'
  <2>1. PICK m \in 0..MaxClients : /\ \A c \in Clients : status[c] = "new" <=> c > m
                                   /\ nextConnId + Len(backlog) <= m + 1
    BY DEF IInv, Numbered
  <2>2. nextConnId' + Len(backlog') <= m + 1
    BY <1>0, <1>1, <2>1 DEF IInv, Types, TypeOK
  <2> QED
    BY <1>0, <2>1, <2>2 DEF IInv, Numbered, Exists
<1>5. ClientsOnce'
  BY <1>0, <1>1 DEF IInv, ClientsOnce, Exists, Waiting
<1>6. Sockets' /\ Turns' /\ RoundRobin'
  BY <1>0 DEF IInv, Sockets, SocketOwned, FdsDistinct, Turns, RoundRobin, Exists
<1>7. Reports'
  <2>1. \A l \in Loops : AcceptChannel \notin reported[l]
    BY <1>0 DEF IInv, Reports
  <2> QED
    BY <1>0, <2>1 DEF IInv, Reports, Exists
<1>8. Functors' /\ Life'
  BY <1>0 DEF IInv, Functors, Life, Exists
<1> QED
  BY <1>2, <1>3, <1>4, <1>5, <1>6, <1>7, <1>8 DEF IInv

\* Every step of the specification keeps the invariant.
LEMMA Inductive == IInv /\ [Next]_vars => IInv'
<1> SUFFICES ASSUME IInv, [Next]_vars PROVE IInv'
  OBVIOUS
<1>1. CASE UNCHANGED vars
  <2> USE <1>1 DEF vars, poolVars, tableVars, loopVars, listenVars, clientVars
  <2>1. Types'
    BY DEF IInv, Types, TypeOK, MoreTypes
  <2>2. Functors' /\ Life' /\ Reports' /\ Streams'
    BY LifeKept, ReportsKept, SameConnections, StreamsKept
  <2>3. Numbered' /\ ClientsOnce' /\ Sockets' /\ Turns' /\ RoundRobin'
    BY SameConnections, OwnersKept
  <2>4. Setup'
    BY DEF IInv, Setup
  <2> QED
    BY <2>1, <2>2, <2>3, <2>4 DEF IInv
<1>2. ASSUME NEW c \in Clients, Connect(c) \/ Client(c) PROVE IInv'
  BY <1>2, NextConnect, NextClientWrite, NextClientRead, NextClientCloses DEF Client
<1>3. ASSUME NEW l \in Loops, Handle(l) PROVE IInv'
  <2>1. CASE AcceptorHandleReadFails
    BY <2>1, BaseIs, NextReportGoes
      DEF AcceptorHandleReadFails, poolVars, tableVars, listenVars, clientVars
  <2>2. ASSUME NEW i \in Ids, HandleDestroyed(l, i) PROVE IInv'
    BY <2>2, NextReportGoes DEF HandleDestroyed, poolVars, tableVars, listenVars, clientVars
  <2> QED
    BY <1>3, <2>1, <2>2, NextAccept, NextHandleRead, NextHandleWrite,
       NextHandleClose DEF Handle
<1>4. ASSUME NEW l \in Loops, RunFunctor(l) PROVE IInv'
  BY <1>4, NextConnectEstablished, NextRunRemoveConnection, NextConnectDestroyed DEF RunFunctor
<1>5. CASE End
  BY <1>5, NextDestroyConnections, NextStopLoop, NextDestroyAcceptor, NextDestroyBaseLoop DEF End
<1> QED
  BY <1>1, <1>2, <1>3, <1>4, <1>5, NextSetThreadNum, NextStart, NextQuit, NextPoll, NextDestroy
    DEF Next

\* The invariant holds in every reachable state.
LEMMA Invariance == Spec => []IInv
  BY InitIInv, Inductive, PTL DEF Spec

-----------------------------------------------------------------------------
(* The theorems. *)

\* Every variable has its type in every reachable state: the bounds on connection numbers,
\* loops and bytes written are kept by accept, getNextLoop and the clients.
THEOREM TypeCorrect == Spec => []TypeOK
<1>1. IInv => TypeOK
  BY DEF IInv, Types
<1> QED
  BY <1>1, Invariance, PTL

\* Every socket that accept returned has exactly one TcpConnection, which belongs to the
\* client at its other end: none leaks, and none is closed while it is still in use.
THEOREM SocketsHaveOneOwner == Spec => []SocketOwned
<1>1. IInv => SocketOwned
  BY DEF IInv, Sockets
<1> QED
  BY <1>1, Invariance, PTL

\* While the server runs, a connection in a poller is in connections_, and a closed one that
\* is still in connections_ has its removeConnectionInLoop queued in the base loop.
THEOREM TableAgrees == Spec => []TableMatches
<1>1. ASSUME IInv PROVE TableMatches
  <2>1. SUFFICES ASSUME phase = "running", NEW i \in Ids, Exists(i)
                 PROVE  /\ conn[i].added => i \in connections
                        /\ i \in connections /\ conn[i].state = "kDisconnected" =>
                             \E k \in DOMAIN functors[Base] : functors[Base][k] = <<"remove", i>>
    BY DEF TableMatches, Exists
  <2>2. conn[i].added => conn[i].state = "kConnected"
    BY <1>1, <2>1, ConnectionIs DEF IInv
  <2>3. conn[i].state # "kDisconnected" => i \in connections
    BY <1>1, <2>1 DEF IInv, Life
  <2>4. conn[i].state = "kDisconnected" /\ i \in connections
          => <<"remove", i>> \in Elements(functors[Base])
    BY <1>1, <2>1 DEF IInv, Life
  <2> QED
    BY <2>2, <2>3, <2>4 DEF Elements
<1> QED
  BY <1>1, Invariance, PTL

\* Every client gets its own bytes back, each once and in order, whatever connections had its
\* descriptor and its loop before; until the server is destroyed none is lost, because a
\* connection lives, with its output, until its client has everything and has closed.
THEOREM EchoStaysIntact == Spec => []EchoIntact
<1>1. IInv => EchoIntact
  BY DEF IInv, Streams
<1> QED
  BY <1>1, Invariance, PTL

\* getNextLoop deals connections out in turn: no two of numThreads_ consecutive ones share a
\* loop.
THEOREM LoopsTakeTurns == Spec => []RoundRobin
<1>1. IInv => RoundRobin
  BY DEF IInv
<1> QED
  BY <1>1, Invariance, PTL

-----------------------------------------------------------------------------
(* TcpServer implements Service. *)

Served == {c \in Clients : Accepted(c)}
Finished == {c \in Clients : status[c] = "closed"}

\* While a descriptor is free, fewer clients are served than there are descriptors.
LEMMA RoomForOneMore ==
  ASSUME IInv, NEW fd \in Fds, file[fd] = Nobody
  PROVE  Cardinality(Served) < Cardinality(Fds)
<1> DEFINE used == {g \in Fds : file[g] # Nobody}
           f == [g \in used |-> file[g]]
<1>1. used \in SUBSET (Fds \ {fd}) /\ IsFiniteSet(Fds \ {fd}) /\ Cardinality(Fds) \in Nat
        /\ Cardinality(Fds \ {fd}) = Cardinality(Fds) - 1
  BY FS_RemoveElement, FS_CardinalityType
<1>2. IsFiniteSet(used) /\ Cardinality(used) <= Cardinality(Fds) - 1
        /\ Cardinality(used) \in Nat
  <2>1. PICK others : others = Fds \ {fd}
    OBVIOUS
  <2>2. used \in SUBSET others /\ IsFiniteSet(others)
          /\ Cardinality(others) = Cardinality(Fds) - 1
    BY <1>1, <2>1
  <2> HIDE DEF used
  <2>3. IsFiniteSet(used) /\ Cardinality(used) <= Cardinality(others)
    BY <2>2, FS_Subset
  <2> QED
    BY <2>2, <2>3, FS_CardinalityType
<1>3. f \in Surjection(used, Served)
  <2>1. \A g \in Fds : file[g] \in Clients \cup {Nobody}
    BY DEF IInv, Types, TypeOK
  <2>2. f \in [used -> Served]
    BY <2>1 DEF Served, Accepted
  <2>3. ASSUME NEW c \in Served PROVE \E g \in used : f[g] = c
    <3>1. PICK g \in Fds : file[g] = c
      BY DEF Served, Accepted
    <3>2. g \in used
      BY <3>1 DEF Served
    <3> QED
      BY <3>1, <3>2
  <2> QED
    BY <2>2, <2>3 DEF Surjection
<1>4. IsFiniteSet(Served) /\ Cardinality(Served) <= Cardinality(used)
  <2> HIDE DEF f, used
  <2> QED
    BY <1>2, <1>3, FS_Surjection
<1>5. Cardinality(Served) \in Nat
  BY <1>4, FS_CardinalityType
<1> QED
  BY <1>1, <1>2, <1>4, <1>5

\* Service counts as TcpServer does.
LEMMA SameCardinality == ASSUME NEW T PROVE S!Cardinality(T) = Cardinality(T)
  BY Zenon DEF S!Cardinality, Cardinality

\* A step that neither admits nor dismisses anybody nor ends anything.
LEMMA NothingSeen ==
  ASSUME UNCHANGED <<backlog, file, status>>, phase' # "running" <=> phase # "running"
  PROVE  UNCHANGED S!serviceVars
  BY DEF S!serviceVars, Accepted

\* However many loops there are, and in whatever order their handlers and functors run, the
\* clients see a Service: admitted in the order of connect(), no more than descriptors, and
\* dismissed only after they closed or when the server stops.
THEOREM Refinement == Spec => ImplementsService
<1>1. Init => S!Init
  BY DEF Init, S!Init, Accepted
<1>2. IInv /\ [Next]_vars => [S!Next]_S!serviceVars
  <2> SUFFICES ASSUME IInv, [Next]_vars PROVE [S!Next]_S!serviceVars
    OBVIOUS
  <2> USE DEF poolVars, tableVars, loopVars, listenVars, clientVars
  <2>1. ASSUME NEW c \in Clients, Connect(c) PROVE S!Next
    <3>1. UNCHANGED <<file, phase>> /\ status[c] = "new"
            /\ status' = [status EXCEPT ![c] = IF listening THEN "open" ELSE "closed"]
            /\ backlog' = IF listening THEN Append(backlog, c) ELSE backlog
      BY <2>1 DEF Connect
    <3>2. Served' = Served
      BY <3>1 DEF Served, Accepted
    <3>3. c \notin Served /\ c \notin Finished
      <4>1. ASSUME NEW fd \in Fds, file[fd] = c PROVE FALSE
        <5>1. PICK i \in Ids : Exists(i) /\ conn[i].fd = fd
          BY <4>1 DEF IInv, Sockets, SocketOwned, Exists
        <5>2. conn[i].client = c
          BY <4>1, <5>1, SocketIs
        <5> QED
          BY <3>1, <5>1, <5>2 DEF IInv, ClientsOnce
      <4> QED
        BY <3>1, <4>1 DEF Served, Accepted, Finished
    <3>4. CASE listening
      <4>1. Finished' = Finished
        BY <3>1, <3>4 DEF Finished, IInv, Types, TypeOK
      <4>2. S!Arrive
        BY <3>1, <3>2, <3>3, <3>4, <4>1 DEF S!Arrive, Served, Finished
      <4> QED
        BY <4>2 DEF S!Next
    <3>5. CASE ~listening
      <4>1. Finished' = Finished \cup {c}
        BY <3>1, <3>5 DEF Finished, IInv, Types, TypeOK
      <4>2. S!Finish
        BY <3>1, <3>2, <3>5, <4>1 DEF S!Finish, Served, Finished
      <4> QED
        BY <4>2 DEF S!Next
    <3> QED
      BY <3>4, <3>5
  <2>2. ASSUME NEW c \in Clients, ClientCloses(c) PROVE S!Next
    <3>1. UNCHANGED <<file, phase, backlog>> /\ status' = [status EXCEPT ![c] = "closed"]
      BY <2>2 DEF ClientCloses
    <3>2. Served' = Served
      BY <3>1 DEF Served, Accepted
    <3>3. Finished' = Finished \cup {c}
      BY <3>1 DEF Finished, IInv, Types, TypeOK
    <3>4. S!Finish
      BY <3>1, <3>2, <3>3 DEF S!Finish, Served, Finished
    <3> QED
      BY <3>4 DEF S!Next
  <2>3. CASE AcceptorHandleRead
    <3>1. PICK fd \in Fds, c \in Clients :
            /\ file[fd] = Nobody /\ c = Head(backlog) /\ backlog # <<>>
            /\ file' = [file EXCEPT ![fd] = c] /\ backlog' = Tail(backlog)
            /\ phase = "running"
      BY <2>3, AcceptIs
    <3>2. UNCHANGED <<phase, status>>
      BY <2>3 DEF AcceptorHandleRead
    <3>3. Served' = Served \cup {c}
      <4>1. file'[fd] = c /\ \A g \in Fds : g # fd => file'[g] = file[g]
        BY <3>1 DEF IInv, Types, TypeOK
      <4>2. Nobody \notin Clients
        OBVIOUS
      <4> QED
        BY <3>1, <4>1, <4>2 DEF Served, Accepted
    <3>4. Cardinality(Served) < Cardinality(Fds)
      BY <3>1, RoomForOneMore
    <3>5. S!Admit
      <4>1. Finished' = Finished
        BY <3>2 DEF Finished
      <4>2. S!Cardinality({d \in Clients : Accepted(d)}) < Cardinality(Fds)
        BY <3>4, SameCardinality DEF Served
      <4>3. {d \in Clients : Accepted(d)}' = {d \in Clients : Accepted(d)} \cup {Head(backlog)}
        BY <3>1, <3>3 DEF Served
      <4>4. UNCHANGED <<{d \in Clients : status[d] = "closed"}, phase # "running">>
        BY <3>2, <4>1 DEF Finished
      <4>5. ~(phase # "running")
        BY <3>1
      <4> QED
        BY <3>1, <4>2, <4>3, <4>4, <4>5, Zenon DEF S!Admit
    <3> QED
      BY <3>5 DEF S!Next
  <2>4. ASSUME NEW i \in Ids, Destroy(i) PROVE S!Next
    <3>1. UNCHANGED <<phase, status, backlog>> /\ Exists(i) /\ i \notin connections
            /\ file' = [file EXCEPT ![conn[i].fd] = Nobody]
            /\ \A l \in Loops : \A k \in DOMAIN functors[l] : functors[l][k][2] # i
      BY <2>4 DEF Destroy, close, Exists
    <3>2. PICK c \in Clients, fd \in Fds : c = conn[i].client /\ fd = conn[i].fd /\ file[fd] = c
      BY <3>1, SocketIs, ConnectionIs DEF IInv
    <3>3. status[c] = "closed" \/ phase # "running"
      <4>1. CASE conn[i].state = "kDisconnected"
        BY <3>1, <3>2, <4>1 DEF IInv, Life
      <4>2. CASE conn[i].state # "kDisconnected"
        BY <3>1, <4>2 DEF IInv, Life
      <4> QED
        BY <4>1, <4>2
    <3>4. Served' = Served \ {c}
      <4>1. file'[fd] = Nobody /\ \A g \in Fds : g # fd => file'[g] = file[g]
        BY <3>1, <3>2 DEF IInv, Types, TypeOK
      <4>2. ASSUME NEW g \in Fds, file[g] = c PROVE g = fd
        <5>1. PICK j \in Ids : Exists(j) /\ conn[j].fd = g
          BY <4>2 DEF IInv, Sockets, SocketOwned, Exists
        <5>2. conn[j].client = c
          BY <4>2, <5>1, SocketIs
        <5> QED
          BY <3>1, <3>2, <5>1, <5>2 DEF IInv, ClientsOnce
      <4>3. ASSUME NEW d \in Clients
            PROVE  (\E g \in Fds : file'[g] = d) <=> (\E g \in Fds : file[g] = d) /\ d # c
        BY <3>2, <4>1, <4>2
      <4> QED
        BY <4>3 DEF Served, Accepted
    <3>5. S!Dismiss
      <4>1. c \in Served /\ (c \in Finished \/ phase # "running") /\ Finished' = Finished
        BY <3>1, <3>2, <3>3 DEF Served, Accepted, Finished
      <4> QED
        BY <3>1, <3>4, <4>1 DEF S!Dismiss, Served, Finished
    <3> QED
      BY <3>5 DEF S!Next
  <2>5. CASE Quit
    <3>1. UNCHANGED <<file, status, backlog>> /\ phase' = "stopped"
      BY <2>5 DEF Quit
    <3>2. Served' = Served /\ Finished' = Finished
      BY <3>1 DEF Served, Accepted, Finished
    <3>3. S!Stop
      BY <3>1, <3>2 DEF S!Stop, Served, Finished
    <3> QED
      BY <3>3 DEF S!Next
  <2>6. CASE DestroyAcceptor
    <3>1. UNCHANGED <<file, status>> /\ phase' = "gone" /\ phase = "cleared" /\ backlog' = <<>>
      BY <2>6 DEF DestroyAcceptor
    <3>2. Served' = Served /\ Finished' = Finished
      BY <3>1 DEF Served, Accepted, Finished
    <3>3. S!TurnAway
      BY <3>1, <3>2 DEF S!TurnAway, Served, Finished
    <3> QED
      BY <3>3 DEF S!Next
  <2>7. CASE UNCHANGED vars \/ Start \/ DestroyConnections \/ DestroyBaseLoop
             \/ AcceptorHandleReadFails \/ RunRemoveConnection
    BY <2>7, NothingSeen DEF vars, Start, DestroyConnections, DestroyBaseLoop,
       AcceptorHandleReadFails, RunRemoveConnection
  <2>8. ASSUME NEW n \in Loops, SetThreadNum(n) \/ StopLoop(n) \/ Poll(n)
                                \/ ConnectEstablished(n) \/ ConnectDestroyed(n)
        PROVE  UNCHANGED S!serviceVars
    BY <2>8, NothingSeen DEF SetThreadNum, StopLoop, Poll, ConnectEstablished, ConnectDestroyed
  <2>9. ASSUME NEW c \in Clients, ClientWrite(c) \/ ClientRead(c)
        PROVE  UNCHANGED S!serviceVars
    BY <2>9, NothingSeen DEF ClientWrite, ClientRead
  <2>10. ASSUME NEW l \in Loops, NEW i \in Ids,
                HandleRead(l, i) \/ HandleWrite(l, i) \/ HandleClose(l, i)
                \/ HandleDestroyed(l, i)
         PROVE  UNCHANGED S!serviceVars
    BY <2>10, NothingSeen DEF HandleRead, HandleWrite, HandleClose, HandleDestroyed
  <2> QED
    BY <2>1, <2>2, <2>3, <2>4, <2>5, <2>6, <2>7, <2>8, <2>9, <2>10
       DEF Next, End, Client, Handle, RunFunctor
<1> QED
  BY Invariance, <1>1, <1>2, PTL DEF Spec, ImplementsService, S!Spec
=============================================================================
