------------------------- MODULE TcpConnectionProofs -------------------------
(****************************************************************************)
(* Proofs about TcpConnection for any application threads, any of them      *)
(* sending and shutting down, any length and any number of messages: the    *)
(* types, that the byte stream is intact, that buffered bytes and the write *)
(* interest go together, that FIN follows the data, that a connection is    *)
(* closed for good, and that it is out of the poller before it is destroyed.*)
(****************************************************************************)
EXTENDS TcpConnection, FiniteSetTheorems, SequenceTheorems, TLAPS

-----------------------------------------------------------------------------
(* The inductive invariant. *)

Messages == 1..MaxSends
Bytes == Messages \X (1..MessageLength)

\* The types of what TypeOK leaves open.
MoreTypes ==
  /\ oneLoop \in BOOLEAN
  /\ sock \in Seq(Bytes) /\ output \in Seq(Bytes) /\ taken \in Seq(Bytes)
  /\ sentBy \in [Threads -> SUBSET (1..sent)]
  /\ removed \in BOOLEAN /\ overwritten \in BOOLEAN /\ usedDead \in BOOLEAN

\* Before connectEstablished nothing can happen to the connection.
Starting ==
  state = "kConnecting" =>
    /\ functors = <<Functor("established")>> /\ calls = <<>> /\ output = <<>>
    /\ removals = 0 /\ inMap /\ holders = {} /\ op = [u \in Users |-> "idle"]
    /\ sent = 0 /\ ~fin /\ ~added /\ closes = 0 /\ ~removed /\ ~overwritten

Has(queue, call) == \E i \in DOMAIN queue : queue[i].call = call
HasFunctor(call) == Has(functors, call)

\* connectEstablished runs once.
Established == state # "kConnecting" => ~HasFunctor("established")

\* What only a closed connection can be, and what is on its way until it is destroyed.
Closed ==
  /\ removals > 0 \/ removed \/ ~inMap \/ HasFunctor("destroyed") \/ state = "kDisconnected"
       => closes > 0
  /\ inMap \/ removals > 0 \/ HasFunctor("destroyed") \/ removed

\* As long as kDisconnected is not overwritten, handleClose is the last that happens
\* to the channel.
ClosedLast ==
  ~overwritten =>
    /\ closes > 0 => state = "kDisconnected" /\ events = {} /\ ~added
    /\ closes <= 1
    /\ removed => calls = <<>>

\* The calls of handleEvent that may close the connection.
ClosingCalls == {"close", "read"}

\* One handleEvent closes the connection once.
CallsCloseOnce ==
  \A i \in DOMAIN calls : calls[i] \in ClosingCalls =>
    /\ overwritten \/ closes = 0
    /\ \A j \in DOMAIN calls : calls[j] \in ClosingCalls => i = j

\* While the connection is not closed, it is in the poller, and it waits for a writable
\* socket exactly while bytes are buffered.
Interest ==
  closes = 0 /\ state # "kConnecting" =>
    added /\ "read" \in events /\ ((output # <<>>) <=> isWriting)

\* A shutdown that has begun is seen in state_, and FIN is sent when the buffer is empty.
ShutDown ==
  /\ fin \/ HasFunctor("shutdown") \/ (\E u \in Users : op[u] = "stored")
       => state \notin {"kConnecting", "kConnected"}
  /\ fin /\ closes = 0 => output = <<>>

\* The messages of which sendInLoop took the bytes.
TakenMessages == {m \in Messages : \E k \in DOMAIN taken : taken[k] = <<m, 1>>}

\* The sendInLoop functors of a queue.
HasSend(queue, m) ==
  \E i \in DOMAIN queue : queue[i].call = "send" /\ queue[i].message = m
SendsOnce(queue) ==
  \A i, j \in DOMAIN queue :
    queue[i].call = "send" /\ queue[j].call = "send" /\ queue[i].message = queue[j].message
      => i = j

\* Every message that passed send() is queued once, or taken as a whole, or dropped.
Accounting ==
  /\ TakenMessages \subseteq 1..sent
  /\ \A m \in 0..MaxSends : HasSend(functors, m) => m \in (1..sent) \ TakenMessages
  /\ SendsOnce(functors)
  /\ Len(taken) = MessageLength * Cardinality(TakenMessages)

\* What callback code sent was taken at once.
LoopDataTaken ==
  peer # "reset" =>
    \A m \in sentBy[LoopThread] : \A i \in 1..MessageLength :
      \E k \in DOMAIN taken : taken[k] = <<m, i>>

IInv ==
  /\ TypeOK /\ MoreTypes /\ Starting /\ Established /\ Closed /\ ClosedLast
  /\ CallsCloseOnce /\ Interest /\ ShutDown /\ Accounting /\ LoopDataTaken /\ StreamIntact

USE ThreadsAssumption, LengthAssumption

-----------------------------------------------------------------------------
(* Sequences of bytes and of functors. *)

FunctorSet == [call : Owning \cup {"send", "shutdown"}, message : 0..MaxSends]

\* The bytes of a message, in order.
LEMMA MessageIs ==
  ASSUME NEW m \in Messages
  PROVE  /\ Message(m) \in Seq(Bytes) /\ Len(Message(m)) = MessageLength
         /\ Message(m) # <<>>
         /\ \A i \in 1..MessageLength : Message(m)[i] = <<m, i>>
<1>1. Message(m) \in [1..MessageLength -> Bytes]
  BY DEF Message, Bytes
<1> QED
  BY <1>1 DEF Message

\* Concatenation of bytes.
LEMMA Concat ==
  ASSUME NEW s \in Seq(Bytes), NEW t \in Seq(Bytes), NEW u \in Seq(Bytes)
  PROVE  /\ s \o t \in Seq(Bytes) /\ Len(s \o t) = Len(s) + Len(t)
         /\ (s \o t) \o u = s \o (t \o u)
         /\ s \o <<>> = s /\ <<>> \o s = s
<1>1. (s \o t) \o u = s \o (t \o u)
  OBVIOUS
<1>2. s \o <<>> = s /\ <<>> \o s = s
  BY ConcatEmptySeq
<1> QED
  BY <1>1, <1>2

\* Cutting bytes into what the kernel takes and the rest.
LEMMA Cut ==
  ASSUME NEW s \in Seq(Bytes), NEW n \in 0..Len(s)
  PROVE  /\ SubSeq(s, 1, n) \in Seq(Bytes) /\ SubSeq(s, n + 1, Len(s)) \in Seq(Bytes)
         /\ SubSeq(s, 1, n) \o SubSeq(s, n + 1, Len(s)) = s
         /\ SubSeq(s, n + 1, Len(s)) = <<>> <=> n = Len(s)
<1>1. SubSeq(s, 1, n) \o SubSeq(s, n + 1, Len(s)) = SubSeq(s, 1, Len(s))
  <2>1. 1 \in 1..Len(s) + 1 /\ n \in 1 - 1..Len(s) /\ Len(s) \in n..Len(s)
    OBVIOUS
  <2> QED
    BY <2>1, ConcatAdjacentSubSeq, Zenon
<1>2. SubSeq(s, 1, Len(s)) = s
  BY SubSeqFull, Zenon
<1>3. /\ SubSeq(s, 1, n) \in Seq(Bytes) /\ SubSeq(s, n + 1, Len(s)) \in Seq(Bytes)
      /\ Len(SubSeq(s, n + 1, Len(s))) = Len(s) - n
  OBVIOUS
<1>4. Len(<<>>) = 0
  OBVIOUS
<1>5. SubSeq(s, n + 1, Len(s)) = <<>> <=> n = Len(s)
  <2>1. ASSUME n = Len(s) PROVE SubSeq(s, n + 1, Len(s)) = <<>>
    BY <2>1, <1>3
  <2>2. ASSUME n # Len(s) PROVE SubSeq(s, n + 1, Len(s)) # <<>>
    <3>1. Len(SubSeq(s, n + 1, Len(s))) # 0
      BY <2>2, <1>3
    <3> QED
      BY ONLY <3>1, <1>4
  <2> QED
    BY <2>1, <2>2
<1> QED
  BY <1>1, <1>2, <1>3, <1>5

\* The functors that are made.
LEMMA FunctorIs ==
  /\ \A call \in Owning \cup {"send", "shutdown"} :
       Functor(call) \in FunctorSet /\ Functor(call).call = call
  /\ \A m \in Messages : [call |-> "send", message |-> m] \in FunctorSet
  BY DEF Functor, FunctorSet, Messages

\* Queueing a functor, and taking the first one off.
LEMMA Queueing ==
  ASSUME NEW queue \in Seq(FunctorSet)
  PROVE  /\ \A f \in FunctorSet :
              /\ Append(queue, f) \in Seq(FunctorSet)
              /\ DOMAIN Append(queue, f) = DOMAIN queue \cup {Len(queue) + 1}
              /\ Len(queue) + 1 \notin DOMAIN queue
              /\ \A i \in DOMAIN queue : Append(queue, f)[i] = queue[i]
              /\ Append(queue, f)[Len(queue) + 1] = f
         /\ queue # <<>> =>
              /\ Tail(queue) \in Seq(FunctorSet)
              /\ 1 \in DOMAIN queue
              /\ DOMAIN Tail(queue) = {i \in Nat \ {0} : i + 1 \in DOMAIN queue}
              /\ \A i \in DOMAIN Tail(queue) : Tail(queue)[i] = queue[i + 1]
<1>1. ASSUME NEW f \in FunctorSet
      PROVE  /\ Append(queue, f) \in Seq(FunctorSet)
             /\ DOMAIN Append(queue, f) = DOMAIN queue \cup {Len(queue) + 1}
             /\ Len(queue) + 1 \notin DOMAIN queue
             /\ \A i \in DOMAIN queue : Append(queue, f)[i] = queue[i]
             /\ Append(queue, f)[Len(queue) + 1] = f
  OBVIOUS
<1>2. ASSUME queue # <<>>
      PROVE  /\ Tail(queue) \in Seq(FunctorSet)
             /\ 1 \in DOMAIN queue
             /\ DOMAIN Tail(queue) = {i \in Nat \ {0} : i + 1 \in DOMAIN queue}
             /\ \A i \in DOMAIN Tail(queue) : Tail(queue)[i] = queue[i + 1]
  <2>1. Tail(queue) \in Seq(FunctorSet) /\ Len(Tail(queue)) = Len(queue) - 1
          /\ 1 \in DOMAIN queue
    BY <1>2
  <2>2. DOMAIN Tail(queue) = {i \in Nat \ {0} : i + 1 \in DOMAIN queue}
    BY <2>1
  <2>3. \A i \in DOMAIN Tail(queue) : Tail(queue)[i] = queue[i + 1]
    BY <1>2, <2>1
  <2> QED
    BY <2>1, <2>2, <2>3
<1> QED
  BY <1>1, <1>2

\* What a queue holds after a functor was appended.
LEMMA HasAppended ==
  ASSUME NEW queue \in Seq(FunctorSet), NEW f \in FunctorSet
  PROVE  /\ \A call : Has(Append(queue, f), call) <=> Has(queue, call) \/ f.call = call
         /\ \A m : HasSend(Append(queue, f), m) <=>
                     HasSend(queue, m) \/ (f.call = "send" /\ f.message = m)
         /\ SendsOnce(queue) /\ (f.call = "send" => ~HasSend(queue, f.message))
              => SendsOnce(Append(queue, f))
<1> DEFINE longer == Append(queue, f)
           last == Len(queue) + 1
<1>1. /\ DOMAIN longer = DOMAIN queue \cup {last} /\ last \notin DOMAIN queue
      /\ \A i \in DOMAIN queue : longer[i] = queue[i]
      /\ longer[last] = f
  BY Queueing
<1> HIDE DEF longer, last
<1>2. \A call : Has(longer, call) <=> Has(queue, call) \/ f.call = call
  BY <1>1 DEF Has
<1>3. \A m : HasSend(longer, m) <=> HasSend(queue, m) \/ (f.call = "send" /\ f.message = m)
  BY <1>1 DEF HasSend
<1>4. ASSUME SendsOnce(queue), f.call = "send" => ~HasSend(queue, f.message)
      PROVE  SendsOnce(longer)
  <2>1. ASSUME NEW i \in DOMAIN longer, NEW j \in DOMAIN longer,
               longer[i].call = "send" /\ longer[j].call = "send"
                 /\ longer[i].message = longer[j].message
        PROVE  i = j
    <3>1. CASE i \in DOMAIN queue /\ j \in DOMAIN queue
      BY <1>1, <1>4, <2>1, <3>1 DEF SendsOnce
    <3>2. CASE i = last \/ j = last
      BY <1>1, <1>4, <2>1, <3>2 DEF HasSend
    <3> QED
      BY <1>1, <3>1, <3>2
  <2> QED
    BY <2>1, Zenon DEF SendsOnce
<1> QED
  BY <1>2, <1>3, <1>4 DEF longer

\* What a queue holds after the first functor was taken off.
LEMMA HasTail ==
  ASSUME NEW queue \in Seq(FunctorSet), queue # <<>>
  PROVE  /\ \A call : Has(queue, call) <=> Has(Tail(queue), call) \/ queue[1].call = call
         /\ \A m : HasSend(Tail(queue), m) => HasSend(queue, m)
         /\ SendsOnce(queue) => SendsOnce(Tail(queue))
         /\ SendsOnce(queue) /\ queue[1].call = "send"
              => ~HasSend(Tail(queue), queue[1].message)
<1> DEFINE rest == Tail(queue)
<1>1. /\ 1 \in DOMAIN queue /\ DOMAIN rest = {i \in Nat \ {0} : i + 1 \in DOMAIN queue}
      /\ \A i \in DOMAIN rest : rest[i] = queue[i + 1]
      /\ DOMAIN queue = 1..Len(queue)
  BY Queueing
<1> HIDE DEF rest
<1>2. ASSUME NEW call PROVE Has(queue, call) <=> Has(rest, call) \/ queue[1].call = call
  <2>1. ASSUME NEW i \in DOMAIN queue, i # 1, queue[i].call = call PROVE Has(rest, call)
    <3>1. i - 1 \in DOMAIN rest /\ rest[i - 1] = queue[i]
      BY <1>1, <2>1
    <3> QED
      BY <2>1, <3>1 DEF Has
  <2>2. Has(rest, call) => Has(queue, call)
    BY <1>1 DEF Has
  <2> QED
    BY <1>1, <2>1, <2>2 DEF Has
<1>3. \A m : HasSend(rest, m) => HasSend(queue, m)
  BY <1>1 DEF HasSend
<1>4. ASSUME SendsOnce(queue) PROVE SendsOnce(rest)
  <2>1. ASSUME NEW i \in DOMAIN rest, NEW j \in DOMAIN rest,
               rest[i].call = "send" /\ rest[j].call = "send"
                 /\ rest[i].message = rest[j].message
        PROVE  i = j
    <3>1. i + 1 \in DOMAIN queue /\ j + 1 \in DOMAIN queue /\ i \in Nat /\ j \in Nat
            /\ rest[i] = queue[i + 1] /\ rest[j] = queue[j + 1]
      BY <1>1
    <3>2. i + 1 = j + 1
      BY <1>4, <2>1, <3>1 DEF SendsOnce
    <3> QED
      BY <3>1, <3>2
  <2> QED
    BY <2>1, Zenon DEF SendsOnce
<1>5. SendsOnce(queue) /\ queue[1].call = "send" => ~HasSend(rest, queue[1].message)
  BY <1>1 DEF SendsOnce, HasSend
<1> QED
  BY <1>2, <1>3, <1>4, <1>5 DEF rest

-----------------------------------------------------------------------------
(* sendInLoop. *)

\* It gives the message up: the connection is closed, or write() failed.
Dropped(queue) ==
  /\ functors' = queue /\ UNCHANGED <<events, added, output, sock, taken>>
  /\ state = "kDisconnected" \/ Broken

\* It takes all bytes of the message, and asks for the write interest if some are left.
Took(m, queue) ==
  /\ state # "kDisconnected"
  /\ functors' = queue \/ functors' = Append(queue, Functor("complete"))
  /\ taken' = taken \o Message(m)
  /\ sock' \in Seq(Bytes) /\ output' \in Seq(Bytes)
  /\ sock' \o output' = (sock \o output) \o Message(m)
  /\ events' = events \/ events' = events \cup {"write"}
  /\ added' \in BOOLEAN /\ (added => added')
  /\ closes = 0 => ((output' # <<>>) <=> ("write" \in events'))
  /\ ~(fin /\ closes = 0)

\* sendInLoop does one or the other.
LEMMA SendInLoopIs ==
  ASSUME IInv, state # "kConnecting", NEW m \in Messages, NEW queue, sendInLoop(m, queue)
  PROVE  Dropped(queue) \/ Took(m, queue)
<1> USE DEF IInv, TypeOK, MoreTypes
<1> DEFINE bytes == Message(m)
<1>1. bytes \in Seq(Bytes) /\ Len(bytes) = MessageLength /\ bytes # <<>>
  BY MessageIs
<1>a. isWriting <=> "write" \in events
  BY DEF isWriting
<1>b. closes = 0 => added /\ ((output # <<>>) <=> isWriting)
  BY DEF Interest
<1>c. fin /\ closes = 0 => WritesDirectly /\ Broken
  BY <1>b DEF ShutDown, WritesDirectly, Broken
<1>2. CASE Refused /\ functors' = queue /\ UNCHANGED <<events, added, output, sock, taken>>
  BY <1>2 DEF Dropped, Refused
<1>3. CASE /\ Broken /\ functors' = queue
           /\ UNCHANGED <<events, added, output, sock, taken>>
  BY <1>3 DEF Dropped
<1>4. ASSUME ~Refused, WritesDirectly, taken' = taken \o bytes, NEW n \in Takes(bytes),
             sock' = sock \o SubSeq(bytes, 1, n),
             bufferRest(SubSeq(bytes, n + 1, MessageLength)),
             functors' = IF n = MessageLength THEN Append(queue, Functor("complete"))
                                              ELSE queue
      PROVE  Took(m, queue)
  <2> DEFINE first == SubSeq(bytes, 1, n)
             rest == SubSeq(bytes, n + 1, MessageLength)
  <2>1. n \in 0..Len(bytes) /\ ~Broken
    BY <1>1, <1>4 DEF Takes
  <2>2. /\ first \in Seq(Bytes) /\ rest \in Seq(Bytes) /\ first \o rest = bytes
    BY <1>1, <2>1, Cut
  <2> HIDE DEF bytes, first, rest
  <2>3. output = <<>> /\ output' = rest /\ output' \in Seq(Bytes)
    BY <1>4, <2>2, Concat DEF WritesDirectly, bufferRest, rest
  <2>4. sock' = sock \o first /\ sock' \in Seq(Bytes)
    BY <1>4, <2>2 DEF first
  <2>5. sock' \o output' = (sock \o output) \o bytes
    <3>0. sock \in Seq(Bytes) /\ first \in Seq(Bytes) /\ rest \in Seq(Bytes)
      BY <2>2
    <3>1. (sock \o first) \o rest = sock \o (first \o rest)
      BY ONLY <3>0, Concat
    <3>2. sock \o output = sock
      BY <2>3, Concat
    <3> QED
      BY <3>1, <3>2, <2>2, <2>3, <2>4
  <2>6. /\ events' = events \/ events' = events \cup {"write"}
        /\ added' \in BOOLEAN /\ (added => added')
        /\ (output' # <<>>) <=> ("write" \in events')
    BY <1>4, <2>3 DEF bufferRest, updateChannel, WritesDirectly, isWriting, rest
  <2> QED
    BY <1>4, <1>c, <2>1, <2>3, <2>4, <2>5, <2>6 DEF Took, Refused, bytes
<1>5. CASE ~Refused /\ ~WritesDirectly /\ bufferRest(bytes) /\ taken' = taken \o bytes
             /\ functors' = queue /\ UNCHANGED sock
  <2> HIDE DEF bytes
  <2>1. output' = output \o bytes /\ output' \in Seq(Bytes) /\ output' # <<>>
    BY <1>1, <1>5, ConcatProperties, ConcatEqualIffEmpty DEF bufferRest
  <2>2. sock' \o output' = (sock \o output) \o bytes
    <3>1. sock \in Seq(Bytes) /\ output \in Seq(Bytes)
      OBVIOUS
    <3>2. (sock \o output) \o bytes = sock \o (output \o bytes)
      BY ONLY <1>1, <3>1, Concat
    <3> QED
      BY <1>5, <2>1, <3>2
  <2>3. /\ events' = events \/ events' = events \cup {"write"}
        /\ added' \in BOOLEAN /\ (added => added')
        /\ "write" \in events'
    BY <1>1, <1>5 DEF bufferRest, updateChannel, isWriting
  <2> QED
    BY <1>5, <1>c, <2>1, <2>2, <2>3 DEF Took, Refused, bytes
<1> QED
  BY <1>2, <1>3, <1>4, <1>5 DEF sendInLoop

-----------------------------------------------------------------------------
(* The steps that move bytes or functors. *)

\* The functor that runs is the first one; it is not connectEstablished's.
LEMMA RunsFirst ==
  ASSUME IInv, NEW call \in {"send", "shutdown", "complete", "destroyed"}, Runs(call)
  PROVE  /\ functors # <<>> /\ 1 \in DOMAIN functors /\ functors[1].call = call
         /\ Head(functors) = functors[1] /\ HasFunctor(call)
         /\ state # "kConnecting" /\ calls = <<>>
<1> USE DEF IInv, TypeOK
<1>1. functors # <<>> /\ Head(functors).call = call /\ calls = <<>>
  BY DEF Runs
<1>2. 1 \in DOMAIN functors /\ Head(functors) = functors[1]
  BY <1>1
<1>3. state # "kConnecting"
  BY <1>1, <1>2 DEF Starting, Functor
<1> QED
  BY <1>1, <1>2, <1>3 DEF HasFunctor, Has

\* send() of callback code.
LEMMA SendIs ==
  ASSUME IInv, Send
  PROVE  /\ sent + 1 \in Messages /\ state = "kConnected"
         /\ Dropped(functors) \/ Took(sent + 1, functors)
<1>1. sent + 1 \in Messages /\ state = "kConnected" /\ sendInLoop(sent + 1, functors)
  BY DEF Send, IInv, TypeOK, Messages
<1> QED
  BY <1>1, SendInLoopIs

\* sendInLoop as a functor.
LEMMA RunSendIs ==
  ASSUME IInv, RunSend
  PROVE  /\ functors # <<>> /\ 1 \in DOMAIN functors /\ functors[1].call = "send"
         /\ functors[1].message \in (1..sent) \ TakenMessages
         /\ functors[1].message \in Messages
         /\ state # "kConnecting" /\ calls = <<>>
         /\ Dropped(Tail(functors)) \/ Took(functors[1].message, Tail(functors))
<1>1. Runs("send") /\ sendInLoop(Head(functors).message, Tail(functors))
  BY DEF RunSend
<1>2. /\ functors # <<>> /\ 1 \in DOMAIN functors /\ functors[1].call = "send"
      /\ Head(functors) = functors[1] /\ state # "kConnecting" /\ calls = <<>>
  BY <1>1, RunsFirst
<1>3. functors[1].message \in (1..sent) \ TakenMessages
  <2>1. HasSend(functors, functors[1].message)
    BY <1>2 DEF HasSend
  <2>2. functors[1] \in FunctorSet
    <3>1. functors \in Seq(FunctorSet)
      BY DEF IInv, TypeOK, FunctorSet
    <3> QED
      BY <1>2, <3>1
  <2>3. functors[1].message \in 0..MaxSends
    BY <2>2 DEF FunctorSet
  <2> QED
    BY <2>1, <2>3 DEF IInv, Accounting
<1>4. functors[1].message \in Messages
  BY <1>3 DEF IInv, TypeOK, Messages
<1> QED
  BY <1>1, <1>2, <1>3, <1>4, SendInLoopIs

\* handleWrite moves bytes from the buffer to the socket.
LEMMA HandleWriteIs ==
  ASSUME IInv, HandleWrite
  PROVE  /\ ~Broken /\ isWriting /\ calls # <<>> /\ calls' = Tail(calls)
         /\ sock' \in Seq(Bytes) /\ output' \in Seq(Bytes)
         /\ sock' \o output' = sock \o output
         /\ IF output' = <<>>
            THEN /\ events' = events \ {"write"} /\ added' = ~(added /\ events' = {})
                 /\ functors' = Append(functors, Functor("complete"))
                 /\ fin' = (fin \/ state = "kDisconnecting")
            ELSE UNCHANGED <<events, added, functors, fin>>
<1> USE DEF IInv, TypeOK, MoreTypes
<1>1. PICK n \in Takes(output) \ {0} :
        sock' = sock \o SubSeq(output, 1, n) /\ output' = retrieve(n)
  BY DEF HandleWrite
<1>2. n \in 0..Len(output) /\ ~Broken
  BY <1>1 DEF Takes
<1> DEFINE first == SubSeq(output, 1, n)
           rest == SubSeq(output, n + 1, Len(output))
<1>3. first \in Seq(Bytes) /\ rest \in Seq(Bytes) /\ first \o rest = output
  BY <1>2, Cut
<1>4. sock' = sock \o first /\ output' = rest
  BY <1>1 DEF retrieve
<1>5. sock \in Seq(Bytes) /\ first \in Seq(Bytes) /\ rest \in Seq(Bytes)
  BY <1>3
<1> HIDE DEF first, rest
<1>6. sock \o first \in Seq(Bytes) /\ (sock \o first) \o rest = sock \o (first \o rest)
  BY ONLY <1>5, Concat
<1>7. sock' \in Seq(Bytes) /\ output' \in Seq(Bytes) /\ sock' \o output' = sock \o output
  BY <1>3, <1>4, <1>6
<1>8. isWriting /\ calls # <<>> /\ calls' = Tail(calls)
  BY DEF HandleWrite, NextCall, CallReturns
<1>9. IF output' = <<>>
      THEN /\ events' = events \ {"write"} /\ added' = ~(added /\ events' = {})
           /\ functors' = Append(functors, Functor("complete"))
           /\ fin' = (fin \/ state = "kDisconnecting")
      ELSE UNCHANGED <<events, added, functors, fin>>
  BY DEF HandleWrite, updateChannel, shutdownInLoop
<1> QED
  BY <1>2, <1>7, <1>8, <1>9

-----------------------------------------------------------------------------
(* Every step keeps the invariant. *)

\* A new connection has the invariant.
LEMMA InitIInv == Init => IInv
<1> SUFFICES ASSUME Init PROVE IInv
  OBVIOUS
<1> USE DEF Init
<1>1. functors \in Seq(FunctorSet) /\ functors = <<Functor("established")>>
        /\ DOMAIN functors = {1} /\ functors[1].call = "established"
  BY FunctorIs DEF Owning, Functor
<1>a. \A call : HasFunctor(call) <=> call = "established"
  BY <1>1 DEF HasFunctor, Has
<1>b. (\A m : ~HasSend(functors, m)) /\ SendsOnce(functors)
  BY ONLY <1>1 DEF HasSend, SendsOnce
<1>2. Len(<<>>) = 0 /\ StreamLength \in Nat
  BY DEF StreamLength
<1>3. TypeOK
  <2>1. functors \in Seq([call : Owning \cup {"send", "shutdown"}, message : 0..MaxSends])
    BY <1>1 DEF FunctorSet
  <2>2. calls \in Seq({"data", "read", "write", "close"})
    OBVIOUS
  <2>3. Len(output) <= StreamLength /\ Len(sock) <= StreamLength
    BY <1>2
  <2>4. /\ op \in [Users -> {"idle", "send", "shutdown", "stored"}]
        /\ events \subseteq {"read", "write"} /\ holders \subseteq Threads
        /\ removals \in Nat /\ sent \in 0..MaxSends /\ closes \in Nat
    OBVIOUS
  <2>5. /\ state \in {"kConnecting", "kConnected", "kDisconnecting", "kDisconnected"}
        /\ peer \in {"open", "closed", "reset"}
        /\ added \in BOOLEAN /\ inMap \in BOOLEAN /\ fin \in BOOLEAN
    OBVIOUS
  <2> QED
    BY <2>1, <2>2, <2>3, <2>4, <2>5 DEF TypeOK
<1>4. MoreTypes
  <2>1. sock \in Seq(Bytes) /\ output \in Seq(Bytes) /\ taken \in Seq(Bytes)
    OBVIOUS
  <2>2. sentBy \in [Threads -> SUBSET (1..sent)]
    OBVIOUS
  <2>3. oneLoop \in BOOLEAN /\ removed \in BOOLEAN /\ overwritten \in BOOLEAN
          /\ usedDead \in BOOLEAN
    BY Zenon
  <2> QED
    BY <2>1, <2>2, <2>3 DEF MoreTypes
<1>5. Starting /\ Established /\ Closed /\ ClosedLast /\ Interest
  BY <1>1, <1>a DEF Starting, Established, Closed, ClosedLast, Interest
<1>6. CallsCloseOnce
  BY DEF CallsCloseOnce
<1>7. ShutDown
  <2>1. ~HasFunctor("shutdown") /\ \A u \in Users : op[u] # "stored"
    BY <1>a
  <2> QED
    BY <2>1 DEF ShutDown
<1>8. Accounting
  <2>1. TakenMessages = {}
    BY DEF TakenMessages
  <2>2. Cardinality(TakenMessages) = 0
    BY <2>1, FS_EmptySet
  <2> QED
    BY <1>b, <1>2, <2>1, <2>2 DEF Accounting
<1>9. LoopDataTaken
  BY DEF LoopDataTaken, Threads
<1>10. StreamIntact
  BY DEF StreamIntact
<1> QED
  BY <1>3, <1>4, <1>5, <1>6, <1>7, <1>8, <1>9, <1>10 DEF IInv

\* Every functor that is queued is a functor of this connection.
LEMMA NextFunctorsType == IInv /\ [Next]_vars => functors' \in Seq(FunctorSet)
<1> SUFFICES ASSUME IInv, [Next]_vars PROVE functors' \in Seq(FunctorSet)
  OBVIOUS
<1>1. functors \in Seq(FunctorSet)
  BY DEF IInv, TypeOK, FunctorSet
<1>2. /\ Functor("complete") \in FunctorSet /\ Functor("destroyed") \in FunctorSet
      /\ Functor("shutdown") \in FunctorSet
  BY FunctorIs DEF Owning
<1>3. CASE Send
  BY <1>1, <1>2, <1>3, SendIs, Queueing DEF Dropped, Took
<1>4. CASE RunSend
  <2> DEFINE queue == Tail(functors)
  <2>1. queue \in Seq(FunctorSet)
    BY <1>1, <1>4, RunSendIs, Queueing
  <2>2. functors' = queue \/ functors' = Append(queue, Functor("complete"))
    BY <1>4, RunSendIs DEF Dropped, Took
  <2> HIDE DEF queue
  <2> QED
    BY <1>2, <2>1, <2>2, Queueing
<1>5. CASE HandleWrite
  <2>1. functors' = functors \/ functors' = Append(functors, Functor("complete"))
    BY <1>5, HandleWriteIs
  <2> QED
    BY <1>1, <1>2, <2>1, Queueing
<1>6. CASE HandleClose \/ RemoveConnectionInLoop
  BY <1>1, <1>2, <1>6 DEF HandleClose, handleClose, RemoveConnectionInLoop
<1>7. ASSUME NEW u \in Users, QueueSend(u) PROVE functors' \in Seq(FunctorSet)
  <2>1. [call |-> "send", message |-> sent + 1] \in FunctorSet
    BY <1>7 DEF QueueSend, IInv, TypeOK, FunctorSet
  <2> QED
    BY <1>1, <1>7, <2>1 DEF QueueSend
<1>8. ASSUME NEW u \in Users, QueueShutdown(u) PROVE functors' \in Seq(FunctorSet)
  BY <1>1, <1>2, <1>8 DEF QueueShutdown
<1>9. CASE functors # <<>> /\ functors' = Tail(functors)
  BY <1>1, <1>9
<1>10. CASE UNCHANGED functors
  BY <1>1, <1>10
<1>11. \/ UNCHANGED functors
       \/ functors # <<>> /\ functors' = Tail(functors)
       \/ Send \/ RunSend \/ HandleWrite \/ HandleClose \/ RemoveConnectionInLoop
       \/ \E u \in Users : QueueSend(u) \/ QueueShutdown(u)
  BY DEF Next, vars, Handle, RunFunctor, Poll, HandleReadData, HandleWriteFails,
         ConnectEstablished, RunShutdown, RunOnDestroyed, RunComplete, ConnectDestroyed,
         Shutdown, PeerCloses, PeerResets, TestForSend, TestForShutdown, Test,
         StoreDisconnecting, Release, Runs
<1> QED
  BY <1>3, <1>4, <1>5, <1>6, <1>7, <1>8, <1>9, <1>10, <1>11

\* The bytes in the buffer, in the socket and taken are bytes of messages, and the
\* stream stays intact.
LEMMA NextStream ==
  IInv /\ [Next]_vars =>
    /\ sock' \in Seq(Bytes) /\ output' \in Seq(Bytes) /\ taken' \in Seq(Bytes)
    /\ StreamIntact'
<1> SUFFICES ASSUME IInv, [Next]_vars
             PROVE  /\ sock' \in Seq(Bytes) /\ output' \in Seq(Bytes)
                    /\ taken' \in Seq(Bytes) /\ sock' \o output' = taken'
  BY DEF StreamIntact
<1>1. /\ sock \in Seq(Bytes) /\ output \in Seq(Bytes) /\ taken \in Seq(Bytes)
      /\ sock \o output = taken
  BY DEF IInv, MoreTypes, StreamIntact
<1>2. ASSUME NEW m \in Messages, NEW queue, Dropped(queue) \/ Took(m, queue)
      PROVE  /\ sock' \in Seq(Bytes) /\ output' \in Seq(Bytes)
             /\ taken' \in Seq(Bytes) /\ sock' \o output' = taken'
  <2>1. CASE Dropped(queue)
    BY <1>1, <2>1 DEF Dropped
  <2>2. CASE Took(m, queue)
    BY <1>1, <2>2, MessageIs DEF Took
  <2> QED
    BY <1>2, <2>1, <2>2
<1>3. CASE Send
  BY <1>2, <1>3, SendIs
<1>4. CASE RunSend
  BY <1>2, <1>4, RunSendIs
<1>5. CASE HandleWrite
  <2>1. taken' = taken
    BY <1>5 DEF HandleWrite, ghostVars
  <2> QED
    BY <1>1, <1>5, <2>1, HandleWriteIs
<1>6. CASE UNCHANGED <<sock, output, taken>>
  BY <1>1, <1>6
<1>7. Send \/ RunSend \/ HandleWrite \/ UNCHANGED <<sock, output, taken>>
  BY DEF Next, vars, Handle, RunFunctor, Poll, HandleReadData, HandleWriteFails,
         HandleClose, RemoveConnectionInLoop, QueueSend, QueueShutdown,
         ConnectEstablished, RunShutdown, RunOnDestroyed, RunComplete, ConnectDestroyed,
         Shutdown, PeerCloses, PeerResets, TestForSend, TestForShutdown, Test,
         StoreDisconnecting, Release, connVars, sockVars, ghostVars
<1> QED
  BY <1>3, <1>4, <1>5, <1>6, <1>7

\* Every step leaves the queue alone, takes the first functor off, appends one, or, when
\* sendInLoop has written a whole message, does both.
LEMMA FunctorSteps ==
  IInv /\ [Next]_vars =>
    \/ UNCHANGED functors
    \/ functors' = Append(functors, Functor("complete"))
    \/ /\ functors' = Append(functors, Functor("destroyed"))
       /\ HandleClose \/ RemoveConnectionInLoop
    \/ \E u \in Users : QueueSend(u) \/ QueueShutdown(u)
    \/ /\ functors # <<>> /\ functors' = Tail(functors)
       /\ functors[1].call = "destroyed" => removed'
    \/ /\ functors # <<>> /\ functors[1].call = "send"
       /\ functors' = Append(Tail(functors), Functor("complete"))
<1> SUFFICES ASSUME IInv, [Next]_vars
             PROVE  \/ UNCHANGED functors
                    \/ functors' = Append(functors, Functor("complete"))
                    \/ /\ functors' = Append(functors, Functor("destroyed"))
                       /\ HandleClose \/ RemoveConnectionInLoop
                    \/ \E u \in Users : QueueSend(u) \/ QueueShutdown(u)
                    \/ /\ functors # <<>> /\ functors' = Tail(functors)
                       /\ functors[1].call = "destroyed" => removed'
                    \/ /\ functors # <<>> /\ functors[1].call = "send"
                       /\ functors' = Append(Tail(functors), Functor("complete"))
  OBVIOUS
<1>1. CASE Send
  BY <1>1, SendIs DEF Dropped, Took
<1>2. CASE RunSend
  BY <1>2, RunSendIs DEF Dropped, Took
<1>3. CASE HandleWrite
  BY <1>3, HandleWriteIs
<1>4. CASE HandleClose \/ RemoveConnectionInLoop
  BY <1>4 DEF HandleClose, handleClose, RemoveConnectionInLoop
<1>5. CASE ConnectEstablished
  <2>1. functors # <<>> /\ Head(functors).call = "established" /\ functors' = Tail(functors)
    BY <1>5 DEF ConnectEstablished, Runs
  <2>2. Head(functors) = functors[1]
    BY <2>1
  <2> QED
    BY <2>1, <2>2
<1>6. CASE RunShutdown \/ RunOnDestroyed \/ RunComplete \/ ConnectDestroyed
  <2>1. functors' = Tail(functors)
    BY <1>6 DEF RunShutdown, RunOnDestroyed, RunComplete, ConnectDestroyed
  <2>2. \/ Runs("shutdown") \/ Runs("send") \/ Runs("complete")
        \/ Runs("destroyed") /\ removed' = TRUE
    BY <1>6 DEF RunShutdown, RunOnDestroyed, RunComplete, ConnectDestroyed
  <2>3. functors # <<>> /\ (functors[1].call = "destroyed" => removed')
    BY <2>2, RunsFirst
  <2> QED
    BY <2>1, <2>3
<1>7. \/ UNCHANGED functors
      \/ Send \/ RunSend \/ HandleWrite \/ HandleClose \/ RemoveConnectionInLoop
      \/ ConnectEstablished \/ RunShutdown \/ RunOnDestroyed \/ RunComplete
      \/ ConnectDestroyed
      \/ \E u \in Users : QueueSend(u) \/ QueueShutdown(u)
  BY DEF Next, vars, Handle, RunFunctor, Poll, HandleReadData, HandleWriteFails,
         Shutdown, PeerCloses, PeerResets, TestForSend, TestForShutdown, Test,
         StoreDisconnecting, Release
<1> QED
  BY <1>1, <1>2, <1>3, <1>4, <1>5, <1>6, <1>7

\* Which functors a step can bring, and that connectDestroyed stays queued until it runs.
LEMMA FunctorChange ==
  IInv /\ [Next]_vars =>
    /\ HasFunctor("established")' => HasFunctor("established")
    /\ HasFunctor("shutdown")' => HasFunctor("shutdown") \/ \E u \in Users : op[u] = "stored"
    /\ HasFunctor("destroyed")' =>
         HasFunctor("destroyed") \/ HandleClose \/ RemoveConnectionInLoop
    /\ HasFunctor("destroyed") => HasFunctor("destroyed")' \/ removed'
<1> SUFFICES ASSUME IInv, [Next]_vars
             PROVE  /\ Has(functors', "established") => Has(functors, "established")
                    /\ Has(functors', "shutdown") =>
                         Has(functors, "shutdown") \/ \E u \in Users : op[u] = "stored"
                    /\ Has(functors', "destroyed") =>
                         Has(functors, "destroyed") \/ HandleClose \/ RemoveConnectionInLoop
                    /\ Has(functors, "destroyed") => Has(functors', "destroyed") \/ removed'
  BY DEF HasFunctor
<1>1. functors \in Seq(FunctorSet)
  BY DEF IInv, TypeOK, FunctorSet
<1>2. /\ Functor("complete") \in FunctorSet /\ Functor("complete").call = "complete"
      /\ Functor("destroyed") \in FunctorSet /\ Functor("destroyed").call = "destroyed"
      /\ Functor("shutdown") \in FunctorSet /\ Functor("shutdown").call = "shutdown"
  BY FunctorIs DEF Owning
<1>3. CASE UNCHANGED functors
  BY <1>3
<1>4. CASE functors' = Append(functors, Functor("complete"))
  BY <1>1, <1>2, <1>4, HasAppended
<1>5. CASE /\ functors' = Append(functors, Functor("destroyed"))
           /\ HandleClose \/ RemoveConnectionInLoop
  BY <1>1, <1>2, <1>5, HasAppended
<1>6. CASE \E u \in Users : QueueSend(u) \/ QueueShutdown(u)
  <2> DEFINE f == [call |-> "send", message |-> sent + 1]
  <2>1. CASE \E u \in Users : QueueSend(u)
    <3>1. functors' = Append(functors, f) /\ f \in FunctorSet /\ f.call = "send"
      BY <2>1 DEF QueueSend, IInv, TypeOK, FunctorSet
    <3> HIDE DEF f
    <3> QED
      BY <1>1, <3>1, HasAppended
  <2>2. CASE \E u \in Users : QueueShutdown(u)
    <3>1. functors' = Append(functors, Functor("shutdown"))
            /\ \E u \in Users : op[u] = "stored"
      BY <2>2 DEF QueueShutdown
    <3> QED
      BY <1>1, <1>2, <3>1, HasAppended
  <2> QED
    BY <1>6, <2>1, <2>2
<1>7. CASE /\ functors # <<>> /\ functors' = Tail(functors)
           /\ functors[1].call = "destroyed" => removed'
  BY <1>1, <1>7, HasTail
<1>8. CASE /\ functors # <<>> /\ functors[1].call = "send"
           /\ functors' = Append(Tail(functors), Functor("complete"))
  <2> DEFINE queue == Tail(functors)
  <2>1. queue \in Seq(FunctorSet)
    BY <1>1, <1>8, Queueing
  <2>2. \A call : Has(functors, call) <=> Has(queue, call) \/ call = "send"
    BY <1>1, <1>8, HasTail
  <2>3. functors' = Append(queue, Functor("complete"))
    BY <1>8
  <2> HIDE DEF queue
  <2>4. \A call : Has(functors', call) <=> Has(queue, call) \/ call = "complete"
    BY <1>2, <2>1, <2>3, HasAppended
  <2> QED
    BY <2>2, <2>4
<1> QED
  BY <1>3, <1>4, <1>5, <1>6, <1>7, <1>8, FunctorSteps

\* The types of all variables but the sequences of bytes and of functors.
SimpleTypes ==
  /\ state \in {"kConnecting", "kConnected", "kDisconnecting", "kDisconnected"}
  /\ events \subseteq {"read", "write"} /\ removals \in Nat /\ holders \subseteq Threads
  /\ peer \in {"open", "closed", "reset"} /\ closes \in Nat
FlagTypes ==
  /\ oneLoop \in BOOLEAN /\ added \in BOOLEAN /\ inMap \in BOOLEAN /\ fin \in BOOLEAN
  /\ removed \in BOOLEAN /\ overwritten \in BOOLEAN /\ usedDead \in BOOLEAN
CallTypes ==
  /\ calls \in Seq({"data", "read", "write", "close"})
  /\ op \in [Users -> {"idle", "send", "shutdown", "stored"}]
  /\ sent \in 0..MaxSends /\ sentBy \in [Threads -> SUBSET (1..sent)]

\* Every step keeps the types of state_, of the events and of the counters.
LEMMA NextSimpleTypes == IInv /\ [Next]_vars => SimpleTypes'
<1> SUFFICES ASSUME IInv, [Next]_vars PROVE SimpleTypes'
  OBVIOUS
<1>1. SimpleTypes
  BY DEF IInv, TypeOK, SimpleTypes
<1> USE DEF SimpleTypes
<1>2. CASE Send
  BY <1>1, <1>2, SendIs DEF Send, Dropped, Took, ownVars
<1>3. CASE RunSend
  BY <1>1, <1>3, RunSendIs DEF RunSend, Dropped, Took, ownVars
<1>4. CASE HandleWrite
  BY <1>1, <1>4, HandleWriteIs DEF HandleWrite, ownVars, ghostVars
<1>5. CASE HandleClose
  BY <1>1, <1>5 DEF HandleClose, handleClose, updateChannel, sockVars
<1>6. CASE ConnectEstablished
  BY <1>1, <1>6 DEF ConnectEstablished, updateChannel, sockVars, ghostVars
<1>7. CASE ConnectDestroyed
  BY <1>1, <1>7 DEF ConnectDestroyed, ownVars, sockVars
<1>8. CASE RemoveConnectionInLoop
  <2>1. removals' = removals - 1 /\ removals > 0
          /\ UNCHANGED <<state, events, holders, peer, closes>>
    BY <1>8 DEF RemoveConnectionInLoop, connVars, sockVars, ghostVars
  <2> QED
    BY <1>1, <2>1
<1>9. CASE Shutdown \/ PeerCloses \/ PeerResets \/ \E t \in Threads : Release(t)
  BY <1>1, <1>9 DEF Shutdown, PeerCloses, PeerResets, Release, connVars, ownVars, ghostVars,
    sockVars
<1>10. ASSUME NEW u \in Users, StoreDisconnecting(u) PROVE SimpleTypes'
  BY <1>1, <1>10 DEF StoreDisconnecting, ownVars, sockVars
<1>11. CASE UNCHANGED <<state, events, removals, holders, peer, closes>>
  BY <1>1, <1>11
<1>12. \/ Send \/ RunSend \/ HandleWrite \/ HandleClose \/ ConnectEstablished
       \/ ConnectDestroyed \/ RemoveConnectionInLoop \/ Shutdown \/ PeerCloses \/ PeerResets
       \/ (\E t \in Threads : Release(t)) \/ (\E u \in Users : StoreDisconnecting(u))
       \/ UNCHANGED <<state, events, removals, holders, peer, closes>>
  BY DEF Next, vars, Handle, RunFunctor, Poll, HandleReadData, HandleWriteFails,
         TestForSend, TestForShutdown, Test, QueueSend, QueueShutdown, RunShutdown,
         RunOnDestroyed, RunComplete, connVars, ownVars, sockVars, ghostVars
<1> QED
  BY <1>2, <1>3, <1>4, <1>5, <1>6, <1>7, <1>8, <1>9, <1>10, <1>11, <1>12

\* Every step keeps the types of the flags.
LEMMA NextFlagTypes == IInv /\ [Next]_vars => FlagTypes'
<1> SUFFICES ASSUME IInv, [Next]_vars PROVE FlagTypes'
  OBVIOUS
<1>1. FlagTypes
  BY DEF IInv, TypeOK, MoreTypes, FlagTypes
<1> USE DEF FlagTypes
<1>2. added' \in BOOLEAN
  <2>1. CASE Send
    BY <1>1, <2>1, SendIs DEF Dropped, Took
  <2>2. CASE RunSend
    BY <1>1, <2>2, RunSendIs DEF Dropped, Took
  <2>3. CASE HandleWrite
    BY <1>1, <2>3, HandleWriteIs
  <2>4. CASE HandleClose \/ ConnectEstablished
    BY <2>4 DEF HandleClose, handleClose, ConnectEstablished, updateChannel
  <2>5. CASE ConnectDestroyed
    BY <2>5 DEF ConnectDestroyed, remove_
  <2>6. CASE UNCHANGED added
    BY <1>1, <2>6
  <2>7. \/ Send \/ RunSend \/ HandleWrite \/ HandleClose \/ ConnectEstablished
        \/ ConnectDestroyed \/ UNCHANGED added
    BY DEF Next, vars, Handle, RunFunctor, Poll, HandleReadData, HandleWriteFails, Release,
       TestForSend, TestForShutdown, Test, QueueSend, QueueShutdown, RunShutdown,
       RunOnDestroyed, RunComplete, connVars, RemoveConnectionInLoop, Shutdown, PeerCloses,
       PeerResets, StoreDisconnecting
  <2> QED
    BY <2>1, <2>2, <2>3, <2>4, <2>5, <2>6, <2>7
<1>3. fin' \in BOOLEAN
  <2>1. CASE HandleWrite
    BY <1>1, <2>1, HandleWriteIs
  <2>2. CASE RunShutdown \/ Shutdown
    BY <2>2 DEF RunShutdown, Shutdown, shutdownInLoop
  <2>3. CASE UNCHANGED fin
    BY <1>1, <2>3
  <2>4. HandleWrite \/ RunShutdown \/ Shutdown \/ UNCHANGED fin
    BY DEF Next, vars, Handle, RunFunctor, Poll, HandleReadData, HandleWriteFails, Release,
       TestForSend, TestForShutdown, Test, QueueSend, QueueShutdown, RunSend, Send,
       RunOnDestroyed, RunComplete, sockVars, RemoveConnectionInLoop, PeerCloses,
       PeerResets, StoreDisconnecting, HandleClose, ConnectEstablished, ConnectDestroyed
  <2> QED
    BY <2>1, <2>2, <2>3, <2>4
<1>4. /\ UNCHANGED oneLoop /\ (inMap' = FALSE \/ UNCHANGED inMap)
      /\ removed' = TRUE \/ UNCHANGED removed
      /\ usedDead' = TRUE \/ UNCHANGED usedDead
      /\ overwritten' = (overwritten \/ state = "kDisconnected") \/ UNCHANGED overwritten
  BY DEF Next, vars, Handle, RunFunctor, Poll, HandleReadData, HandleWriteFails, Release,
     TestForSend, TestForShutdown, Test, QueueSend, QueueShutdown, RunSend, Send, Shutdown,
     RunShutdown, RunOnDestroyed, RunComplete, RemoveConnectionInLoop, PeerCloses,
     PeerResets, StoreDisconnecting, HandleClose, handleClose, HandleWrite,
     ConnectEstablished, ConnectDestroyed, connVars, ownVars, ghostVars
<1>5. /\ oneLoop' \in BOOLEAN /\ inMap' \in BOOLEAN /\ removed' \in BOOLEAN
      /\ usedDead' \in BOOLEAN /\ overwritten' \in BOOLEAN
  BY <1>1, <1>4
<1> QED
  BY <1>2, <1>3, <1>5

\* Every step keeps the types of the calls in progress and of what was sent.
LEMMA NextCallTypes == IInv /\ [Next]_vars => CallTypes'
<1> SUFFICES ASSUME IInv, [Next]_vars PROVE CallTypes'
  OBVIOUS
<1>1. CallTypes
  BY DEF IInv, TypeOK, MoreTypes, CallTypes
<1>2. calls' \in Seq({"data", "read", "write", "close"})
  <2>1. CASE Poll
    <3>1. PICK a \in {<<>>, <<"close">>}, b \in {<<>>, <<"data">>, <<"read">>},
               c \in {<<>>, <<"write">>} :
            calls' = a \o b \o c
      BY <2>1 DEF Poll, Readable
    <3>2. /\ a \in Seq({"data", "read", "write", "close"})
          /\ b \in Seq({"data", "read", "write", "close"})
          /\ c \in Seq({"data", "read", "write", "close"})
      <4>1. /\ <<>> \in Seq({"data", "read", "write", "close"})
            /\ <<"close">> \in Seq({"data", "read", "write", "close"})
            /\ <<"data">> \in Seq({"data", "read", "write", "close"})
            /\ <<"read">> \in Seq({"data", "read", "write", "close"})
            /\ <<"write">> \in Seq({"data", "read", "write", "close"})
        OBVIOUS
      <4> QED
        BY <4>1, Zenon
    <3> QED
      BY <3>1, <3>2
  <2>2. CASE Handle
    <3>1. calls # <<>> /\ calls' = Tail(calls)
      BY <2>2 DEF Handle, HandleReadData, HandleClose, HandleWrite, HandleWriteFails,
        NextCall, CallReturns
    <3> QED
      BY <1>1, <3>1 DEF CallTypes
  <2>3. CASE UNCHANGED calls
    BY <1>1, <2>3 DEF CallTypes
  <2>4. Poll \/ Handle \/ UNCHANGED calls
    BY DEF Next, vars, RunFunctor, Send, Shutdown, PeerCloses, PeerResets, TestForSend,
      TestForShutdown, Test, QueueSend, StoreDisconnecting, QueueShutdown, Release,
      ConnectEstablished, RunSend, RunShutdown, RunOnDestroyed, RunComplete,
      ConnectDestroyed, RemoveConnectionInLoop
  <2> QED
    BY <2>1, <2>2, <2>3, <2>4
<1>3. op' \in [Users -> {"idle", "send", "shutdown", "stored"}]
  <2>1. \/ UNCHANGED op
        \/ \E u \in Users : \E v \in {"idle", "send", "shutdown", "stored"} :
             op' = [op EXCEPT ![u] = v]
    BY DEF Next, vars, RunFunctor, Handle, Poll, HandleReadData, HandleClose, HandleWrite,
      HandleWriteFails, Send, Shutdown, PeerCloses, PeerResets, TestForSend,
      TestForShutdown, Test, QueueSend, StoreDisconnecting, QueueShutdown, Release,
      ConnectEstablished, RunSend, RunShutdown, RunOnDestroyed, RunComplete,
      ConnectDestroyed, RemoveConnectionInLoop
  <2> QED
    BY <1>1, <2>1 DEF CallTypes
<1>4. sent' \in 0..MaxSends /\ sentBy' \in [Threads -> SUBSET (1..sent')]
  <2>1. \/ UNCHANGED <<sent, sentBy>>
        \/ /\ sent < MaxSends /\ sent' = sent + 1
           /\ \E t \in Threads : sentBy' = [sentBy EXCEPT ![t] = @ \cup {sent + 1}]
    BY DEF Next, vars, RunFunctor, Handle, Poll, HandleReadData, HandleClose, HandleWrite,
      HandleWriteFails, Send, Shutdown, PeerCloses, PeerResets, TestForSend,
      TestForShutdown, Test, QueueSend, StoreDisconnecting, QueueShutdown, Release,
      ConnectEstablished, RunSend, RunShutdown, RunOnDestroyed, RunComplete,
      ConnectDestroyed, RemoveConnectionInLoop, ghostVars, Threads
  <2>2. CASE UNCHANGED <<sent, sentBy>>
    BY <1>1, <2>2 DEF CallTypes
  <2>3. ASSUME NEW t \in Threads, sent < MaxSends, sent' = sent + 1,
               sentBy' = [sentBy EXCEPT ![t] = @ \cup {sent + 1}]
        PROVE  sent' \in 0..MaxSends /\ sentBy' \in [Threads -> SUBSET (1..sent')]
    <3>1. sent \in Nat /\ sent' \in 0..MaxSends
      BY <1>1, <2>3 DEF CallTypes
    <3>2. 1..sent \subseteq 1..sent' /\ sent + 1 \in 1..sent'
      BY <2>3, <3>1
    <3>3. sentBy \in [Threads -> SUBSET (1..sent')]
      BY <1>1, <3>2 DEF CallTypes
    <3> QED
      BY <2>3, <3>1, <3>2, <3>3
  <2> QED
    BY <2>1, <2>2, <2>3
<1> QED
  BY <1>2, <1>3, <1>4 DEF CallTypes

\* connectEstablished is the first functor of a new connection.
LEMMA ConnectEstablishedIs ==
  ASSUME IInv, ConnectEstablished
  PROVE  /\ state = "kConnecting" /\ state' = "kConnected" /\ functors' = <<>>
         /\ events' = {"read"} /\ added' /\ output' = <<>> /\ calls' = <<>>
         /\ ~fin' /\ closes' = 0 /\ ~removed' /\ ~overwritten' /\ removals' = 0 /\ inMap'
         /\ op' = [u \in Users |-> "idle"]
<1> USE DEF ConnectEstablished
<1>1. functors # <<>> /\ Head(functors).call = "established" /\ calls = <<>>
  BY DEF Runs
<1>2. HasFunctor("established")
  <2>1. 1 \in DOMAIN functors /\ functors[1].call = "established"
    BY <1>1 DEF IInv, TypeOK
  <2> QED
    BY <2>1 DEF HasFunctor, Has
<1>3. state = "kConnecting"
  BY <1>2 DEF IInv, Established
<1>4. /\ functors = <<Functor("established")>> /\ calls = <<>> /\ output = <<>>
      /\ removals = 0 /\ inMap /\ op = [u \in Users |-> "idle"]
      /\ ~fin /\ ~added /\ closes = 0 /\ ~removed /\ ~overwritten
  BY <1>3 DEF IInv, Starting
<1>5. functors' = <<>>
  BY <1>4
<1>6. events' = {"read"} /\ added' /\ state' = "kConnected"
  BY DEF updateChannel
<1>7. UNCHANGED <<output, calls, fin, closes, removed, overwritten, removals, inMap, op>>
  BY DEF sockVars, ghostVars
<1> QED
  BY <1>3, <1>4, <1>5, <1>6, <1>7

\* Nothing but connectEstablished and the peer touches a new connection.
LEMMA StartingSteps ==
  ASSUME IInv, state = "kConnecting", [Next]_vars
  PROVE  ConnectEstablished \/ PeerCloses \/ PeerResets \/ UNCHANGED vars
<1>1. /\ calls = <<>> /\ removals = 0 /\ holders = {} /\ ~added
      /\ \A u \in Users : op[u] = "idle"
  BY DEF IInv, Starting
<1>2. ~Poll /\ ~Handle /\ ~RemoveConnectionInLoop
  BY <1>1 DEF Poll, Handle, HandleReadData, HandleClose, HandleWrite, HandleWriteFails,
    NextCall, RemoveConnectionInLoop
<1>3. ~Runs("send") /\ ~Runs("shutdown") /\ ~Runs("complete") /\ ~Runs("destroyed")
  BY RunsFirst
<1>4. ~RunSend /\ ~RunShutdown /\ ~RunOnDestroyed /\ ~RunComplete /\ ~ConnectDestroyed
  BY <1>3 DEF RunSend, RunShutdown, RunOnDestroyed, RunComplete, ConnectDestroyed
<1>5. ~Send /\ ~Shutdown /\ \A t \in Threads : ~Release(t)
  BY <1>1 DEF Send, Shutdown, Release
<1>6. \A u \in Users : /\ ~TestForSend(u) /\ ~QueueSend(u) /\ ~TestForShutdown(u)
                       /\ ~StoreDisconnecting(u) /\ ~QueueShutdown(u)
  BY <1>1 DEF TestForSend, QueueSend, TestForShutdown, Test, StoreDisconnecting,
    QueueShutdown
<1> QED
  BY <1>2, <1>4, <1>5, <1>6 DEF Next, RunFunctor

\* Before connectEstablished nothing happens, and it runs once.
LEMMA NextStarting == IInv /\ [Next]_vars => Starting' /\ Established'
<1> SUFFICES ASSUME IInv, [Next]_vars PROVE Starting' /\ Established'
  OBVIOUS
<1>1. CASE state = "kConnecting" /\ ConnectEstablished
  <2>1. state' = "kConnected" /\ functors' = <<>>
    BY <1>1, ConnectEstablishedIs
  <2> QED
    BY <2>1 DEF Starting, Established, HasFunctor, Has
<1>2. CASE state = "kConnecting" /\ (PeerCloses \/ PeerResets \/ UNCHANGED vars)
  <2>1. UNCHANGED <<state, functors, calls, output, removals, inMap, holders, op, sent, fin,
                    added, closes, removed, overwritten>>
    BY <1>2 DEF PeerCloses, PeerResets, vars, connVars, ownVars, sockVars, ghostVars
  <2>2. Starting /\ Established
    BY DEF IInv
  <2> QED
    BY <1>2, <2>1, <2>2 DEF Starting, Established
<1>3. CASE state # "kConnecting"
  <2>1. state' # "kConnecting"
    BY <1>3 DEF Next, vars, Handle, RunFunctor, Poll, HandleReadData, HandleWriteFails,
     Release, TestForSend, TestForShutdown, Test, QueueSend, QueueShutdown, RunSend, Send,
     Shutdown, RunShutdown, RunOnDestroyed, RunComplete, RemoveConnectionInLoop, PeerCloses,
     PeerResets, StoreDisconnecting, HandleClose, handleClose, HandleWrite,
     ConnectEstablished, ConnectDestroyed, connVars
  <2>2. ~HasFunctor("established")
    BY <1>3 DEF IInv, Established
  <2> QED
    BY <2>1, <2>2, FunctorChange DEF Starting, Established
<1> QED
  BY <1>1, <1>2, <1>3, StartingSteps

\* A connection that is closed, and only such a one, is on its way to be destroyed.
LEMMA NextClosed == IInv /\ [Next]_vars => Closed'
<1> SUFFICES ASSUME IInv, [Next]_vars PROVE Closed'
  OBVIOUS
<1> DEFINE gone == HasFunctor("destroyed")
<1>1. Closed /\ closes \in Nat /\ removals \in Nat
  BY DEF IInv, TypeOK
<1>2. /\ gone' => gone \/ HandleClose \/ RemoveConnectionInLoop
      /\ gone => gone' \/ removed'
  BY FunctorChange
<1>3. CASE HandleClose
  <2>1. closes' = closes + 1 /\ removed' = removed
    BY <1>3 DEF HandleClose, handleClose
  <2>2. CASE oneLoop
    <3>1. functors' = Append(functors, Functor("destroyed"))
      BY <1>3, <2>2 DEF HandleClose, handleClose
    <3>2. functors \in Seq(FunctorSet) /\ Functor("destroyed") \in FunctorSet
            /\ Functor("destroyed").call = "destroyed"
      BY FunctorIs DEF IInv, TypeOK, FunctorSet, Owning
    <3>3. Has(functors', "destroyed")
      BY <3>1, <3>2, HasAppended
    <3> QED
      BY <1>1, <2>1, <3>3 DEF Closed, HasFunctor
  <2>3. CASE ~oneLoop
    <3>1. removals' = removals + 1
      BY <1>3, <2>3 DEF HandleClose, handleClose
    <3> QED
      BY <1>1, <2>1, <3>1 DEF Closed
  <2> QED
    BY <2>2, <2>3
<1>4. CASE RemoveConnectionInLoop
  <2>1. /\ functors' = Append(functors, Functor("destroyed")) /\ removals > 0
        /\ UNCHANGED <<closes, removed, state>>
    BY <1>4 DEF RemoveConnectionInLoop, ghostVars, connVars
  <2>2. functors \in Seq(FunctorSet) /\ Functor("destroyed") \in FunctorSet
          /\ Functor("destroyed").call = "destroyed"
    BY FunctorIs DEF IInv, TypeOK, FunctorSet, Owning
  <2>3. Has(functors', "destroyed")
    BY <2>1, <2>2, HasAppended
  <2> QED
    BY <1>1, <2>1, <2>3 DEF Closed, HasFunctor
<1>5. CASE ConnectDestroyed
  <2>1. gone
    BY <1>5, RunsFirst DEF ConnectDestroyed
  <2>2. removed' /\ UNCHANGED <<closes, removals, inMap>>
    BY <1>5 DEF ConnectDestroyed, ownVars
  <2> QED
    BY <1>1, <2>1, <2>2 DEF Closed
<1>6. CASE ~HandleClose /\ ~RemoveConnectionInLoop /\ ~ConnectDestroyed
  <2>1. /\ UNCHANGED <<removals, inMap, removed, closes>>
        /\ state' = state \/ state' # "kDisconnected"
    BY <1>6 DEF Next, vars, Handle, RunFunctor, Poll, HandleReadData, HandleWriteFails,
     Release, TestForSend, TestForShutdown, Test, QueueSend, QueueShutdown, RunSend, Send,
     Shutdown, RunShutdown, RunOnDestroyed, RunComplete, PeerCloses,
     PeerResets, StoreDisconnecting, HandleWrite, ConnectEstablished, connVars, ownVars,
     ghostVars
  <2> HIDE DEF gone
  <2>2. Closed <=> /\ removals > 0 \/ removed \/ ~inMap \/ gone \/ state = "kDisconnected"
                        => closes > 0
                   /\ inMap \/ removals > 0 \/ gone \/ removed
    BY DEF Closed, gone
  <2>3. Closed' <=>
          /\ removals' > 0 \/ removed' \/ ~inMap' \/ gone' \/ state' = "kDisconnected"
               => closes' > 0
          /\ inMap' \/ removals' > 0 \/ gone' \/ removed'
    BY DEF Closed, gone
  <2> QED
    BY <1>1, <1>2, <1>6, <2>1, <2>2, <2>3
<1> QED
  BY <1>3, <1>4, <1>5, <1>6

\* What handleEvent calls closes the connection once.
LEMMA NextCallsCloseOnce == IInv /\ [Next]_vars => CallsCloseOnce'
<1> SUFFICES ASSUME IInv, [Next]_vars PROVE CallsCloseOnce'
  OBVIOUS
<1>1. CallsCloseOnce /\ calls \in Seq({"data", "read", "write", "close"})
  BY DEF IInv, TypeOK
<1>2. CASE Poll
  <2>1. added /\ UNCHANGED <<overwritten, closes>>
    BY <1>2 DEF Poll, ghostVars
  <2>2. overwritten \/ closes = 0
    BY <2>1 DEF IInv, TypeOK, ClosedLast
  <2>3. PICK a \in Seq({"data", "read", "write", "close"}), c \in Seq({"write"}) :
          calls' = a \o c /\ Len(a) <= 1
    <3>1. PICK in \in BOOLEAN, out \in BOOLEAN, hup \in BOOLEAN :
            calls' = (IF hup /\ ~in THEN <<"close">> ELSE <<>>) \o
                     (IF in THEN <<Readable>> ELSE <<>>) \o
                     (IF out THEN <<"write">> ELSE <<>>)
      BY <1>2 DEF Poll
    <3> DEFINE a == (IF hup /\ ~in THEN <<"close">> ELSE <<>>) \o
                    (IF in THEN <<Readable>> ELSE <<>>)
               c == IF out THEN <<"write">> ELSE <<>>
    <3>2. a \in Seq({"data", "read", "write", "close"}) /\ Len(a) <= 1
      <4>1. Readable \in {"data", "read"}
        BY DEF Readable
      <4>2. CASE in
        <5>1. a = <<Readable>>
          BY <4>2
        <5>2. /\ <<"data">> \in Seq({"data", "read", "write", "close"})
              /\ <<"read">> \in Seq({"data", "read", "write", "close"})
          OBVIOUS
        <5> HIDE DEF a
        <5> QED
          BY <4>1, <5>1, <5>2
      <4>3. CASE ~in
        <5>1. a = <<"close">> \/ a = <<>>
          BY <4>3
        <5>2. /\ <<"close">> \in Seq({"data", "read", "write", "close"})
              /\ <<>> \in Seq({"data", "read", "write", "close"})
          OBVIOUS
        <5> HIDE DEF a
        <5>3. CASE a = <<"close">>
          BY <5>2, <5>3
        <5>4. CASE a = <<>>
          BY <5>2, <5>4
        <5> QED
          BY <5>1, <5>3, <5>4
      <4> HIDE DEF a
      <4> QED
        BY <4>2, <4>3
    <3>3. c \in Seq({"write"})
      <4>1. <<>> \in Seq({"write"}) /\ <<"write">> \in Seq({"write"})
        OBVIOUS
      <4> QED
        BY <4>1
    <3>4. calls' = a \o c
      BY <3>1
    <3> HIDE DEF a, c
    <3> QED
      BY <3>2, <3>3, <3>4
  <2>4. \A i, j \in DOMAIN calls' :
          calls'[i] \in ClosingCalls /\ calls'[j] \in ClosingCalls => i = j
    <3>1. ASSUME NEW i \in DOMAIN calls', calls'[i] \in ClosingCalls PROVE i = 1
      <4>1. i \in 1..Len(a) + Len(c)
              /\ calls'[i] = IF i <= Len(a) THEN a[i] ELSE c[i - Len(a)]
        BY <2>3, <3>1
      <4>2. ASSUME ~(i <= Len(a)) PROVE FALSE
        <5>1. c[i - Len(a)] = "write"
          BY <4>1, <4>2
        <5> QED
          BY <3>1, <4>1, <4>2, <5>1 DEF ClosingCalls
      <4> QED
        BY <2>3, <4>1, <4>2
    <3> QED
      BY <3>1
  <2> QED
    BY <2>1, <2>2, <2>4 DEF CallsCloseOnce
<1>3. CASE Handle
  <2>1. calls # <<>> /\ calls' = Tail(calls)
    BY <1>3 DEF Handle, HandleReadData, HandleClose, HandleWrite, HandleWriteFails, NextCall,
      CallReturns
  <2>2. /\ 1 \in DOMAIN calls /\ calls[1] = Head(calls)
        /\ \A i \in DOMAIN calls' : i \in Nat \ {0} /\ i + 1 \in DOMAIN calls
                                    /\ calls'[i] = calls[i + 1]
    BY <1>1, <2>1
  <2>3. CASE HandleClose
    <3>1. calls[1] \in ClosingCalls
      BY <2>2, <2>3 DEF HandleClose, NextCall, ClosingCalls
    <3>2. \A i \in DOMAIN calls' : calls'[i] \notin ClosingCalls
      <4> SUFFICES ASSUME NEW i \in DOMAIN calls', calls'[i] \in ClosingCalls PROVE FALSE
        OBVIOUS
      <4>1. 1 = i + 1
        BY <1>1, <2>2, <3>1 DEF CallsCloseOnce
      <4> QED
        BY <2>2, <4>1
    <3> QED
      BY <3>2 DEF CallsCloseOnce
  <2>4. CASE ~HandleClose
    <3>1. UNCHANGED <<overwritten, closes>>
      BY <1>3, <2>4 DEF Handle, HandleReadData, HandleWrite, HandleWriteFails, ghostVars
    <3>2. ASSUME NEW i \in DOMAIN calls', NEW j \in DOMAIN calls',
                 calls'[i] \in ClosingCalls, calls'[j] \in ClosingCalls
          PROVE  i = j /\ (overwritten \/ closes = 0)
      <4>1. i + 1 = j + 1 /\ (overwritten \/ closes = 0)
        BY <1>1, <2>2, <3>2 DEF CallsCloseOnce
      <4> QED
        BY <2>2, <4>1
    <3> QED
      BY <3>1, <3>2 DEF CallsCloseOnce
  <2> QED
    BY <2>3, <2>4
<1>4. CASE UNCHANGED <<calls, closes>> /\ (overwritten => overwritten')
  BY <1>1, <1>4 DEF CallsCloseOnce
<1>5. Poll \/ Handle \/ (UNCHANGED <<calls, closes>> /\ (overwritten => overwritten'))
  BY DEF Next, vars, RunFunctor, Send, Shutdown, PeerCloses, PeerResets, TestForSend,
    TestForShutdown, Test, QueueSend, StoreDisconnecting, QueueShutdown, Release,
    ConnectEstablished, RunSend, RunShutdown, RunOnDestroyed, RunComplete,
    ConnectDestroyed, RemoveConnectionInLoop, ghostVars
<1> QED
  BY <1>2, <1>3, <1>4, <1>5

\* After handleClose nothing happens to the channel, unless kDisconnected is overwritten.
LEMMA NextClosedLast == IInv /\ [Next]_vars => ClosedLast'
<1> SUFFICES ASSUME IInv, [Next]_vars, ~overwritten' PROVE ClosedLast'
  BY DEF ClosedLast
<1>1. ~overwritten
  BY DEF Next, vars, Handle, RunFunctor, Poll, HandleReadData, HandleWriteFails, Release,
     TestForSend, TestForShutdown, Test, QueueSend, QueueShutdown, RunSend, Send, Shutdown,
     RunShutdown, RunOnDestroyed, RunComplete, RemoveConnectionInLoop, PeerCloses,
     PeerResets, StoreDisconnecting, HandleClose, HandleWrite, ConnectEstablished,
     ConnectDestroyed, ghostVars
<1>2. /\ closes > 0 => state = "kDisconnected" /\ events = {} /\ ~added
      /\ closes <= 1 /\ (removed => calls = <<>>) /\ closes \in Nat
  BY <1>1 DEF IInv, TypeOK, ClosedLast
<1>3. removed => closes > 0
  BY DEF IInv, Closed
<1>4. CASE HandleClose
  <2>1. closes = 0
    <3>1. calls # <<>> /\ Head(calls) \in ClosingCalls
      BY <1>4 DEF HandleClose, NextCall, ClosingCalls
    <3>2. 1 \in DOMAIN calls /\ calls[1] \in ClosingCalls
      BY <3>1 DEF IInv, TypeOK
    <3> QED
      BY <1>1, <3>2 DEF IInv, CallsCloseOnce
  <2>2. /\ closes' = closes + 1 /\ removed' = removed /\ state' = "kDisconnected"
        /\ events' = {} /\ (added => ~added')
    BY <1>4 DEF HandleClose, handleClose, updateChannel
  <2>3. added
    <3>1. state # "kConnecting"
      BY <1>4 DEF IInv, Starting, HandleClose, NextCall
    <3> QED
      BY <2>1, <3>1 DEF IInv, Interest
  <2> QED
    BY <1>3, <2>1, <2>2, <2>3 DEF ClosedLast
<1>5. CASE Send \/ RunSend
  <2>1. UNCHANGED <<state, calls, closes, removed>>
    BY <1>5 DEF Send, RunSend
  <2>2. /\ state # "kConnecting"
        /\ UNCHANGED <<events, added>> \/ state # "kDisconnected"
    BY <1>5, SendIs, RunSendIs DEF Dropped, Took
  <2> QED
    BY <1>2, <2>1, <2>2 DEF ClosedLast
<1>6. CASE HandleWrite
  <2>1. isWriting /\ calls # <<>>
    BY <1>6, HandleWriteIs
  <2>2. closes = 0 /\ ~removed
    BY <1>2, <1>3, <2>1 DEF isWriting
  <2>3. UNCHANGED <<closes, removed>>
    BY <1>6 DEF HandleWrite, ghostVars
  <2> QED
    BY <2>2, <2>3 DEF ClosedLast
<1>7. CASE ConnectEstablished
  BY <1>7, ConnectEstablishedIs DEF ClosedLast
<1>8. CASE ConnectDestroyed
  <2>1. HasFunctor("destroyed") /\ calls = <<>>
    BY <1>8, RunsFirst DEF ConnectDestroyed
  <2>2. closes > 0
    BY <2>1 DEF IInv, Closed
  <2>3. ~added' /\ UNCHANGED <<state, events, calls, closes>>
    BY <1>2, <1>8, <2>2 DEF ConnectDestroyed, remove_
  <2> QED
    BY <1>2, <2>1, <2>2, <2>3 DEF ClosedLast
<1>9. CASE Poll
  <2>1. added /\ UNCHANGED <<state, events, added, closes, removed>>
    BY <1>9 DEF Poll, connVars, ghostVars
  <2> QED
    BY <1>2, <1>3, <2>1 DEF ClosedLast
<1>10. CASE HandleReadData \/ HandleWriteFails
  <2>1. calls # <<>> /\ UNCHANGED <<state, events, added, closes, removed>>
    BY <1>10 DEF HandleReadData, HandleWriteFails, NextCall, connVars, ghostVars
  <2> QED
    BY <1>2, <2>1 DEF ClosedLast
<1>11. CASE Shutdown
  <2>1. closes = 0 /\ ~removed /\ UNCHANGED <<closes, removed>>
    BY <1>2, <1>3, <1>11 DEF Shutdown, ghostVars
  <2> QED
    BY <2>1 DEF ClosedLast
<1>12. ASSUME NEW u \in Users, StoreDisconnecting(u) PROVE ClosedLast'
  <2>1. state # "kDisconnected" /\ UNCHANGED <<closes, removed>>
    BY <1>12 DEF StoreDisconnecting
  <2>2. closes = 0 /\ ~removed
    BY <1>2, <1>3, <2>1
  <2> QED
    BY <2>1, <2>2 DEF ClosedLast
<1>13. CASE UNCHANGED <<state, events, added, calls, closes, removed>>
  BY <1>2, <1>13 DEF ClosedLast
<1>14. \/ HandleClose \/ Send \/ RunSend \/ HandleWrite \/ ConnectEstablished
       \/ ConnectDestroyed \/ Poll \/ HandleReadData \/ HandleWriteFails \/ Shutdown
       \/ (\E u \in Users : StoreDisconnecting(u))
       \/ UNCHANGED <<state, events, added, calls, closes, removed>>
  BY DEF Next, vars, Handle, RunFunctor, Release, TestForSend, TestForShutdown, Test,
     QueueSend, QueueShutdown, RunShutdown, RunOnDestroyed, RunComplete, PeerCloses,
     PeerResets, RemoveConnectionInLoop, connVars, ghostVars
<1> QED
  BY <1>4, <1>5, <1>6, <1>7, <1>8, <1>9, <1>10, <1>11, <1>12, <1>13, <1>14

\* The write interest and the buffered bytes go together, and FIN waits for both to go.
LEMMA NextInterest == IInv /\ [Next]_vars => Interest' /\ (fin' /\ closes' = 0 => output' = <<>>)
<1> SUFFICES ASSUME IInv, [Next]_vars, closes' = 0
             PROVE  /\ state' # "kConnecting" =>
                         added' /\ "read" \in events'
                         /\ ((output' # <<>>) <=> ("write" \in events'))
                    /\ fin' => output' = <<>>
  BY DEF Interest, isWriting
<1>1. closes = 0 /\ ~HandleClose
  <2>1. ~HandleClose
    BY DEF HandleClose, handleClose, IInv, TypeOK
  <2>2. UNCHANGED closes
    BY <2>1 DEF Next, vars, Handle, RunFunctor, Poll, HandleReadData, HandleWriteFails,
       Release, TestForSend, TestForShutdown, Test, QueueSend, QueueShutdown, RunSend, Send,
       Shutdown, RunShutdown, RunOnDestroyed, RunComplete, RemoveConnectionInLoop,
       PeerCloses, PeerResets, StoreDisconnecting, HandleWrite, ConnectEstablished,
       ConnectDestroyed, ghostVars
  <2> QED
    BY <2>1, <2>2
<1>2. /\ state # "kConnecting" =>
           added /\ "read" \in events /\ ((output # <<>>) <=> ("write" \in events))
      /\ fin => output = <<>>
      /\ events \subseteq {"read", "write"}
  BY <1>1 DEF IInv, TypeOK, Interest, ShutDown, isWriting
<1>3. CASE Send \/ RunSend
  <2>1. UNCHANGED <<state, closes, fin>> /\ state # "kConnecting"
    BY <1>3, SendIs, RunSendIs DEF Send, RunSend
  <2>2. \/ UNCHANGED <<events, added, output>>
        \/ /\ added => added'
           /\ events' = events \/ events' = events \cup {"write"}
           /\ (output' # <<>>) <=> ("write" \in events')
           /\ ~fin
    BY <1>1, <1>3, SendIs, RunSendIs DEF Dropped, Took
  <2> QED
    BY <1>2, <2>1, <2>2
<1>4. CASE HandleWrite
  <2>1. state # "kConnecting" /\ state' = state
    BY <1>4, StartingSteps DEF HandleWrite, NextCall, IInv, Starting
  <2>2. "write" \in events /\ ~fin
    BY <1>2, <1>4, <2>1, HandleWriteIs DEF isWriting
  <2>3. CASE output' = <<>>
    <3>1. events' = events \ {"write"} /\ added' = ~(added /\ events' = {})
      BY <1>4, <2>3, HandleWriteIs
    <3>2. "read" \in events' /\ "write" \notin events'
      BY <1>2, <2>1, <3>1
    <3> QED
      BY <2>3, <3>1, <3>2
  <2>4. CASE output' # <<>>
    <3>1. UNCHANGED <<events, added, fin>>
      BY <1>4, <2>4, HandleWriteIs
    <3> QED
      BY <1>2, <2>1, <2>2, <2>4, <3>1
  <2> QED
    BY <2>3, <2>4
<1>5. CASE ConnectEstablished
  BY <1>5, ConnectEstablishedIs
<1>6. CASE ConnectDestroyed
  <2>1. HasFunctor("destroyed")
    BY <1>6, RunsFirst DEF ConnectDestroyed
  <2> QED
    BY <1>1, <2>1 DEF IInv, TypeOK, Closed
<1>7. CASE Shutdown \/ RunShutdown
  <2>1. /\ state # "kConnecting" /\ UNCHANGED <<events, added, output>>
        /\ fin' = (fin \/ ~isWriting)
    BY <1>7, RunsFirst DEF Shutdown, RunShutdown, shutdownInLoop, connVars
  <2> QED
    BY <1>2, <2>1 DEF isWriting
<1>8. CASE UNCHANGED <<events, added, output, fin>>
             /\ (state' # "kConnecting" => state # "kConnecting")
  BY <1>2, <1>8
<1>9. \/ Send \/ RunSend \/ HandleWrite \/ ConnectEstablished \/ ConnectDestroyed
      \/ Shutdown \/ RunShutdown
      \/ UNCHANGED <<events, added, output, fin>>
           /\ (state' # "kConnecting" => state # "kConnecting")
  <2>1. ASSUME NEW u \in Users, StoreDisconnecting(u) PROVE state # "kConnecting"
    BY <2>1 DEF StoreDisconnecting, IInv, Starting
  <2> QED
    BY <1>1, <2>1 DEF Next, vars, Handle, RunFunctor, Poll, HandleReadData, HandleWriteFails,
     Release, TestForSend, TestForShutdown, Test, QueueSend, QueueShutdown,
     RunOnDestroyed, RunComplete, RemoveConnectionInLoop, PeerCloses,
     PeerResets, StoreDisconnecting, connVars, sockVars
<1> QED
  BY <1>3, <1>4, <1>5, <1>6, <1>7, <1>8, <1>9

\* A shutdown that has begun is seen in state_.
LEMMA NextShutDown == IInv /\ [Next]_vars => ShutDown'
<1> SUFFICES ASSUME IInv, [Next]_vars PROVE ShutDown'
  OBVIOUS
<1> DEFINE begun == fin \/ HasFunctor("shutdown") \/ \E u \in Users : op[u] = "stored"
           open == {"kConnecting", "kConnected"}
<1>0. begun => state \notin open
  BY DEF IInv, ShutDown
<1>1. HasFunctor("shutdown")' => begun
  BY FunctorChange
<1>2. begun' => state' \notin open
  <2>1. CASE HandleWrite
    <3>1. fin' => fin \/ state = "kDisconnecting"
      BY <2>1, HandleWriteIs
    <3>2. UNCHANGED <<state, op>>
      BY <2>1 DEF HandleWrite
    <3> QED
      BY <1>0, <1>1, <3>1, <3>2
  <2>2. CASE Shutdown \/ RunShutdown
    <3>1. UNCHANGED op /\ (state' = "kDisconnecting" \/ (UNCHANGED state /\ begun))
      BY <2>2, RunsFirst DEF Shutdown, RunShutdown, connVars
    <3> QED
      BY <1>0, <3>1
  <2>3. ASSUME NEW u \in Users, StoreDisconnecting(u) PROVE state' \notin open
    BY <2>3 DEF StoreDisconnecting
  <2>4. CASE HandleClose
    BY <2>4 DEF HandleClose, handleClose
  <2>5. CASE ConnectEstablished
    <3>1. functors' = <<>> /\ ~fin' /\ op' = [u \in Users |-> "idle"]
      BY <2>5, ConnectEstablishedIs
    <3>2. ~HasFunctor("shutdown")'
      BY <3>1 DEF HasFunctor, Has
    <3> QED
      BY <3>1, <3>2
  <2>6. CASE ConnectDestroyed
    <3>1. UNCHANGED <<op, fin>> /\ (state \notin open => state' \notin open)
      BY <2>6 DEF ConnectDestroyed, sockVars
    <3> QED
      BY <1>0, <1>1, <3>1
  <2>7. CASE /\ UNCHANGED <<fin, state>>
             /\ (\E u \in Users : op'[u] = "stored") => (\E u \in Users : op[u] = "stored")
    BY <1>0, <1>1, <2>7
  <2>8. \/ HandleWrite \/ Shutdown \/ RunShutdown \/ HandleClose \/ ConnectEstablished
        \/ ConnectDestroyed \/ (\E u \in Users : StoreDisconnecting(u))
        \/ /\ UNCHANGED <<fin, state>>
           /\ (\E u \in Users : op'[u] = "stored") => (\E u \in Users : op[u] = "stored")
    BY DEF Next, vars, Handle, RunFunctor, Poll, HandleReadData, HandleWriteFails, Release,
      TestForSend, TestForShutdown, Test, QueueSend, QueueShutdown, RunSend, Send,
      RunOnDestroyed, RunComplete, RemoveConnectionInLoop, PeerCloses, PeerResets, connVars,
      sockVars, IInv, TypeOK
  <2> QED
    BY <2>1, <2>2, <2>3, <2>4, <2>5, <2>6, <2>7, <2>8
<1> QED
  BY <1>2, NextInterest DEF ShutDown

\* What callback code sent is taken before send() returns.
LEMMA NextLoopData == IInv /\ [Next]_vars => LoopDataTaken'
<1> SUFFICES ASSUME IInv, [Next]_vars, peer' # "reset",
                    NEW m \in sentBy'[LoopThread], NEW i \in 1..MessageLength
             PROVE  \E k \in DOMAIN taken' : taken'[k] = <<m, i>>
  BY DEF LoopDataTaken
<1>1. peer # "reset"
  BY DEF Next, vars, Handle, RunFunctor, Poll, HandleReadData, HandleWriteFails, Release,
     TestForSend, TestForShutdown, Test, QueueSend, QueueShutdown, RunSend, Send, Shutdown,
     RunShutdown, RunOnDestroyed, RunComplete, RemoveConnectionInLoop, PeerCloses,
     PeerResets, StoreDisconnecting, HandleClose, HandleWrite, ConnectEstablished,
     ConnectDestroyed, sockVars
<1>2. /\ taken \in Seq(Bytes) /\ sentBy \in [Threads -> SUBSET (1..sent)]
      /\ LoopThread \in Threads
  BY DEF IInv, MoreTypes, Threads
<1>3. m \in sentBy[LoopThread] => \E k \in DOMAIN taken : taken[k] = <<m, i>>
  BY <1>1 DEF IInv, LoopDataTaken
<1>4. ASSUME NEW n \in Messages, taken' = taken \o Message(n), m \in sentBy[LoopThread] \/ m = n
      PROVE  \E k \in DOMAIN taken' : taken'[k] = <<m, i>>
  <2>1. /\ Message(n) \in Seq(Bytes) /\ Len(Message(n)) = MessageLength
        /\ \A j \in 1..MessageLength : Message(n)[j] = <<n, j>>
    BY MessageIs
  <2> DEFINE bytes == Message(n)
  <2> HIDE DEF bytes
  <2>2. /\ bytes \in Seq(Bytes) /\ Len(bytes) = MessageLength /\ bytes[i] = <<n, i>>
        /\ taken' = taken \o bytes
    BY <1>4, <2>1 DEF bytes
  <2>3. CASE m = n
    <3>1. Len(taken) + i \in DOMAIN taken' /\ taken'[Len(taken) + i] = bytes[i]
      BY <1>2, <2>2
    <3> QED
      BY <2>2, <2>3, <3>1
  <2>4. CASE m \in sentBy[LoopThread]
    <3>1. PICK k \in DOMAIN taken : taken[k] = <<m, i>>
      BY <1>3, <2>4
    <3>2. k \in DOMAIN taken' /\ taken'[k] = taken[k]
      BY <1>2, <2>2
    <3> QED
      BY <3>1, <3>2
  <2> QED
    BY <1>4, <2>3, <2>4
<1>5. CASE Send
  <2>1. m \in sentBy[LoopThread] \/ m = sent + 1
    BY <1>2, <1>5 DEF Send
  <2>2. sent + 1 \in Messages /\ taken' = taken \o Message(sent + 1)
    <3>1. ~Broken
      BY <1>1, <1>5 DEF Send, Broken, IInv, ShutDown
    <3> QED
      BY <1>5, <3>1, SendIs DEF Dropped, Took
  <2> QED
    BY <1>4, <2>1, <2>2
<1>6. CASE RunSend
  <2>1. UNCHANGED sentBy
    BY <1>6 DEF RunSend
  <2>2. \/ UNCHANGED taken
        \/ functors[1].message \in Messages /\ taken' = taken \o Message(functors[1].message)
    BY <1>6, RunSendIs DEF Dropped, Took
  <2> QED
    BY <1>3, <1>4, <2>1, <2>2
<1>7. CASE UNCHANGED <<taken, sentBy>>
  BY <1>3, <1>7
<1>8. ASSUME NEW u \in Users, QueueSend(u)
      PROVE  UNCHANGED taken /\ m \in sentBy[LoopThread]
  BY <1>2, <1>8 DEF QueueSend, Threads
<1>9. Send \/ RunSend \/ UNCHANGED <<taken, sentBy>> \/ \E u \in Users : QueueSend(u)
  BY DEF Next, vars, Handle, RunFunctor, Poll, HandleReadData, HandleWriteFails, Release,
     TestForSend, TestForShutdown, Test, QueueShutdown, Shutdown,
     RunShutdown, RunOnDestroyed, RunComplete, RemoveConnectionInLoop, PeerCloses,
     PeerResets, StoreDisconnecting, HandleClose, HandleWrite, ConnectEstablished,
     ConnectDestroyed, ghostVars
<1> QED
  BY <1>3, <1>5, <1>6, <1>7, <1>8, <1>9

\* When sendInLoop takes a message, all of its bytes are new.
LEMMA TakenGrows ==
  ASSUME IInv, NEW m \in Messages, m \notin TakenMessages, taken' = taken \o Message(m)
  PROVE  /\ TakenMessages' = TakenMessages \cup {m}
         /\ Len(taken') = MessageLength * Cardinality(TakenMessages')
<1> DEFINE bytes == Message(m)
<1>1. /\ bytes \in Seq(Bytes) /\ Len(bytes) = MessageLength
      /\ \A i \in 1..MessageLength : bytes[i] = <<m, i>>
  BY MessageIs
<1>2. taken' = taken \o bytes
  OBVIOUS
<1> HIDE DEF bytes
<1>3. /\ taken \in Seq(Bytes) /\ Len(taken) = MessageLength * Cardinality(TakenMessages)
      /\ Len(taken) \in Nat
  BY DEF IInv, MoreTypes, Accounting
<1>4. /\ Len(taken') = Len(taken) + MessageLength
      /\ \A k \in DOMAIN taken : k \in DOMAIN taken' /\ taken'[k] = taken[k]
      /\ \A i \in 1..MessageLength : Len(taken) + i \in DOMAIN taken'
                                       /\ taken'[Len(taken) + i] = <<m, i>>
      /\ \A k \in DOMAIN taken' : k \in DOMAIN taken
                                    \/ \E i \in 1..MessageLength : taken'[k] = <<m, i>>
  <2>0. taken \o bytes \in Seq(Bytes) /\ Len(taken \o bytes) = Len(taken) + Len(bytes)
    BY <1>1, <1>3, Concat
  <2>1. Len(taken') = Len(taken) + MessageLength /\ DOMAIN taken' = 1..Len(taken')
          /\ DOMAIN taken = 1..Len(taken)
    BY <1>1, <1>2, <1>3, <2>0
  <2>2. \A k \in DOMAIN taken : k \in DOMAIN taken' /\ taken'[k] = taken[k]
    BY <1>1, <1>2, <1>3
  <2>3. \A i \in 1..MessageLength : Len(taken) + i \in DOMAIN taken'
                                       /\ taken'[Len(taken) + i] = <<m, i>>
    BY <1>1, <1>2, <1>3
  <2>4. ASSUME NEW k \in DOMAIN taken', k \notin DOMAIN taken
        PROVE  \E i \in 1..MessageLength : taken'[k] = <<m, i>>
    <3>1. k - Len(taken) \in 1..MessageLength /\ Len(taken) + (k - Len(taken)) = k
      BY <2>1, <2>4, <1>3
    <3> QED
      BY <2>3, <3>1
  <2> QED
    BY <2>1, <2>2, <2>3, <2>4
<1>5. TakenMessages' = TakenMessages \cup {m}
  <2>1. ASSUME NEW n \in TakenMessages' PROVE n \in TakenMessages \cup {m}
    <3>1. PICK k \in DOMAIN taken' : n \in Messages /\ taken'[k] = <<n, 1>>
      BY DEF TakenMessages
    <3>2. CASE k \in DOMAIN taken
      BY <1>4, <3>1, <3>2 DEF TakenMessages
    <3>3. ASSUME NEW i \in 1..MessageLength, taken'[k] = <<m, i>> PROVE n = m
      BY <3>1, <3>3
    <3> QED
      BY <1>4, <3>2, <3>3
  <2>2. ASSUME NEW n \in TakenMessages PROVE n \in TakenMessages'
    BY <1>4 DEF TakenMessages
  <2>3. m \in TakenMessages'
    <3>1. 1 \in 1..MessageLength
      OBVIOUS
    <3> QED
      BY <1>4, <3>1 DEF TakenMessages
  <2> QED
    BY <2>1, <2>2, <2>3
<1>6. IsFiniteSet(TakenMessages) /\ Cardinality(TakenMessages) \in Nat
  <2>1. IsFiniteSet(Messages)
    BY FS_Interval DEF Messages
  <2> QED
    BY <2>1, FS_Subset, FS_CardinalityType DEF TakenMessages
<1>7. Cardinality(TakenMessages') = Cardinality(TakenMessages) + 1
  BY <1>5, <1>6, FS_AddElement
<1>8. MessageLength * (Cardinality(TakenMessages) + 1) =
        MessageLength * Cardinality(TakenMessages) + MessageLength
  BY <1>6
<1> QED
  BY <1>3, <1>4, <1>5, <1>7, <1>8

\* Every message is taken once, as a whole.
LEMMA NextAccounting == IInv /\ [Next]_vars => Accounting'
<1> SUFFICES ASSUME IInv, [Next]_vars PROVE Accounting'
  OBVIOUS
<1>1. /\ Accounting /\ functors \in Seq(FunctorSet) /\ sent \in 0..MaxSends
      /\ sent' \in 0..MaxSends
  BY NextCallTypes DEF IInv, TypeOK, FunctorSet, CallTypes
<1>2. /\ Functor("complete") \in FunctorSet /\ Functor("complete").call = "complete"
      /\ Functor("destroyed") \in FunctorSet /\ Functor("destroyed").call = "destroyed"
      /\ Functor("shutdown") \in FunctorSet /\ Functor("shutdown").call = "shutdown"
  BY FunctorIs DEF Owning
<1>3. ASSUME NEW queue \in Seq(FunctorSet), SendsOnce(queue),
             NEW f \in {Functor("complete"), Functor("destroyed"), Functor("shutdown")},
             functors' = queue \/ functors' = Append(queue, f)
      PROVE  SendsOnce(functors') /\ \A m : HasSend(functors', m) <=> HasSend(queue, m)
  <2>1. f \in FunctorSet /\ f.call # "send"
    BY <1>2
  <2>2. /\ SendsOnce(Append(queue, f))
        /\ \A m : HasSend(Append(queue, f), m) <=> HasSend(queue, m)
    BY <1>3, <2>1, HasAppended
  <2> QED
    BY <1>3, <2>2
<1>4. CASE Send
  <2>1. sent + 1 \in Messages /\ sent' = sent + 1
    BY <1>4, SendIs DEF Send
  <2>2. SendsOnce(functors') /\ \A m : HasSend(functors', m) <=> HasSend(functors, m)
    <3>1. functors' = functors \/ functors' = Append(functors, Functor("complete"))
      BY <1>4, SendIs DEF Dropped, Took
    <3> QED
      BY <1>1, <1>3, <3>1 DEF Accounting
  <2>3. sent + 1 \notin TakenMessages /\ ~HasSend(functors, sent + 1)
    BY <1>1, <2>1 DEF Accounting, Messages
  <2>4. CASE UNCHANGED taken
    <3>1. TakenMessages' = TakenMessages
      BY <2>4 DEF TakenMessages
    <3> QED
      BY <1>1, <2>1, <2>2, <2>4, <3>1 DEF Accounting
  <2>5. CASE taken' = taken \o Message(sent + 1)
    <3>1. /\ TakenMessages' = TakenMessages \cup {sent + 1}
          /\ Len(taken') = MessageLength * Cardinality(TakenMessages')
      BY <2>1, <2>3, <2>5, TakenGrows
    <3>2. TakenMessages' \subseteq 1..sent'
      BY <1>1, <2>1, <3>1 DEF Accounting
    <3>3. \A m \in 0..MaxSends : HasSend(functors', m) => m \in (1..sent') \ TakenMessages'
      BY <1>1, <2>1, <2>2, <2>3, <3>1 DEF Accounting
    <3> QED
      BY <2>2, <3>1, <3>2, <3>3 DEF Accounting
  <2> QED
    BY <1>4, <2>4, <2>5, SendIs DEF Dropped, Took
<1>5. CASE RunSend
  <2> DEFINE n == functors[1].message
             queue == Tail(functors)
  <2>1. /\ functors # <<>> /\ functors[1].call = "send" /\ n \in Messages
        /\ n \in (1..sent) \ TakenMessages /\ sent' = sent
    BY <1>5, RunSendIs DEF RunSend
  <2>2. /\ queue \in Seq(FunctorSet) /\ SendsOnce(queue) /\ ~HasSend(queue, n)
        /\ \A m : HasSend(queue, m) => HasSend(functors, m)
    BY <1>1, <2>1, HasTail, Queueing DEF Accounting
  <2>3. functors' = queue \/ functors' = Append(queue, Functor("complete"))
    BY <1>5, RunSendIs DEF Dropped, Took
  <2>4. UNCHANGED taken \/ taken' = taken \o Message(n)
    BY <1>5, RunSendIs DEF Dropped, Took
  <2> HIDE DEF n, queue
  <2>5. SendsOnce(functors') /\ \A m : HasSend(functors', m) <=> HasSend(queue, m)
    BY <1>3, <2>2, <2>3
  <2>6. CASE UNCHANGED taken
    <3>1. TakenMessages' = TakenMessages
      BY <2>6 DEF TakenMessages
    <3> QED
      BY <1>1, <2>1, <2>2, <2>5, <2>6, <3>1 DEF Accounting
  <2>7. CASE taken' = taken \o Message(n)
    <3>1. /\ TakenMessages' = TakenMessages \cup {n}
          /\ Len(taken') = MessageLength * Cardinality(TakenMessages')
      BY <2>1, <2>7, TakenGrows
    <3> QED
      BY <1>1, <2>1, <2>2, <2>5, <3>1 DEF Accounting
  <2> QED
    BY <2>4, <2>6, <2>7
<1>6. ASSUME NEW u \in Users, QueueSend(u) PROVE Accounting'
  <2> DEFINE f == [call |-> "send", message |-> sent + 1]
  <2>1. /\ functors' = Append(functors, f) /\ sent' = sent + 1 /\ UNCHANGED taken
        /\ sent + 1 \in Messages
    BY <1>1, <1>6 DEF QueueSend, Messages
  <2>2. f \in FunctorSet /\ f.call = "send" /\ f.message = sent + 1
    BY <2>1, FunctorIs
  <2> HIDE DEF f
  <2>3. TakenMessages' = TakenMessages
    BY <2>1 DEF TakenMessages
  <2>4. sent + 1 \notin TakenMessages /\ ~HasSend(functors, sent + 1)
    BY <1>1, <2>1 DEF Accounting, Messages
  <2>5. /\ SendsOnce(functors')
        /\ \A m : HasSend(functors', m) <=> HasSend(functors, m) \/ m = sent + 1
    BY <1>1, <2>1, <2>2, <2>4, HasAppended DEF Accounting
  <2> QED
    BY <1>1, <2>1, <2>3, <2>4, <2>5 DEF Accounting
<1>7. CASE /\ UNCHANGED <<sent, taken>>
           /\ SendsOnce(functors')
           /\ \A m : HasSend(functors', m) => HasSend(functors, m)
  <2>1. TakenMessages' = TakenMessages
    BY <1>7 DEF TakenMessages
  <2> QED
    BY <1>1, <1>7, <2>1 DEF Accounting
<1>8. ASSUME ~Send, ~RunSend, \A u \in Users : ~QueueSend(u)
      PROVE  UNCHANGED <<sent, taken>>
  BY <1>8 DEF Next, vars, Handle, RunFunctor, Poll, HandleReadData, HandleWriteFails, Release,
     TestForSend, TestForShutdown, Test, QueueShutdown, Shutdown,
     RunShutdown, RunOnDestroyed, RunComplete, RemoveConnectionInLoop, PeerCloses,
     PeerResets, StoreDisconnecting, HandleClose, HandleWrite, ConnectEstablished,
     ConnectDestroyed, ghostVars
<1>9. ASSUME ~Send, ~RunSend, \A u \in Users : ~QueueSend(u)
      PROVE  /\ SendsOnce(functors')
             /\ \A m : HasSend(functors', m) => HasSend(functors, m)
  <2>0. SendsOnce(functors)
    BY <1>1 DEF Accounting
  <2>1. CASE functors # <<>> /\ functors' = Tail(functors)
    BY <1>1, <2>0, <2>1, HasTail
  <2>2. CASE \/ UNCHANGED functors
             \/ functors' = Append(functors, Functor("complete"))
             \/ functors' = Append(functors, Functor("destroyed"))
             \/ functors' = Append(functors, Functor("shutdown"))
    BY <1>1, <1>3, <2>0, <2>2
  <2>3. \/ UNCHANGED functors
        \/ functors' = Append(functors, Functor("complete"))
        \/ functors' = Append(functors, Functor("destroyed"))
        \/ functors' = Append(functors, Functor("shutdown"))
        \/ functors # <<>> /\ functors' = Tail(functors)
    BY <1>9, HandleWriteIs DEF Next, vars, Handle, RunFunctor, Poll, HandleReadData,
      HandleWriteFails, Release,
      TestForSend, TestForShutdown, Test, QueueShutdown, Shutdown,
      RunShutdown, RunOnDestroyed, RunComplete, RemoveConnectionInLoop, PeerCloses,
      PeerResets, StoreDisconnecting, HandleClose, handleClose, ConnectEstablished,
      ConnectDestroyed, Runs
  <2> QED
    BY <2>1, <2>2, <2>3
<1> QED
  BY <1>4, <1>5, <1>6, <1>7, <1>8, <1>9

\* Neither the buffer nor the socket holds more bytes than were sent.
LEMMA NextLengths ==
  IInv /\ [Next]_vars => Len(output') <= StreamLength /\ Len(sock') <= StreamLength
<1> SUFFICES ASSUME IInv, [Next]_vars
             PROVE  Len(output') <= StreamLength /\ Len(sock') <= StreamLength
  OBVIOUS
<1>1. /\ sock' \in Seq(Bytes) /\ output' \in Seq(Bytes) /\ taken' \in Seq(Bytes)
      /\ sock' \o output' = taken'
  BY NextStream DEF StreamIntact
<1>2. Len(taken') = Len(sock') + Len(output') /\ Len(sock') \in Nat /\ Len(output') \in Nat
  <2>1. Len(sock' \o output') = Len(sock') + Len(output')
    BY <1>1, Concat
  <2> QED
    BY <1>1, <2>1
<1> DEFINE c == Cardinality(TakenMessages')
<1>3. c \in Nat /\ c <= MaxSends
  <2>1. IsFiniteSet(Messages) /\ Cardinality(Messages) = MaxSends
    BY FS_Interval DEF Messages
  <2>2. TakenMessages' \subseteq Messages
    BY DEF TakenMessages
  <2> QED
    BY <2>1, <2>2, FS_Subset, FS_CardinalityType
<1>4. Len(taken') = MessageLength * c
  BY NextAccounting DEF Accounting
<1> HIDE DEF c
<1>5. MessageLength * c <= MaxSends * MessageLength
  BY ONLY <1>3, LengthAssumption
<1>6. Len(taken') <= StreamLength /\ StreamLength \in Nat
  BY <1>4, <1>5 DEF StreamLength
<1> QED
  BY <1>2, <1>6

\* The inductive invariant holds in every reachable state.
LEMMA Invariance == Spec => []IInv
<1>1. IInv /\ [Next]_vars => IInv'
  <2> SUFFICES ASSUME IInv, [Next]_vars PROVE IInv'
    OBVIOUS
  <2>1. SimpleTypes' /\ FlagTypes' /\ CallTypes'
    BY NextSimpleTypes, NextFlagTypes, NextCallTypes
  <2>2. functors' \in Seq(FunctorSet)
    BY NextFunctorsType
  <2>3. /\ sock' \in Seq(Bytes) /\ output' \in Seq(Bytes) /\ taken' \in Seq(Bytes)
        /\ StreamIntact'
    BY NextStream
  <2>4. TypeOK'
    BY <2>1, <2>2, NextLengths
      DEF TypeOK, SimpleTypes, FlagTypes, CallTypes, FunctorSet, StreamLength
  <2>5. MoreTypes'
    BY <2>1, <2>3 DEF MoreTypes, FlagTypes, CallTypes, Bytes, Messages
  <2> QED
    BY <2>3, <2>4, <2>5, NextStarting, NextClosed, NextClosedLast, NextCallsCloseOnce,
       NextInterest, NextShutDown, NextAccounting, NextLoopData DEF IInv
<1> QED
  BY <1>1, InitIInv, PTL DEF Spec

-----------------------------------------------------------------------------
(* The properties. *)

\* Type correctness: every member of the connection keeps its type, every functor in the
\* queue is one of this connection, and outputBuffer_ never holds more than was sent.
THEOREM TypeCorrect == Spec => []TypeOK
<1>1. IInv => TypeOK
  BY DEF IInv
<1> QED
  BY <1>1, Invariance, PTL

\* sendInLoop and handleWrite, however short their writes are and whichever threads call
\* send(), neither lose, repeat nor reorder a byte.
THEOREM StreamStaysIntact == Spec => []StreamIntact
<1>1. IInv => StreamIntact
  BY DEF IInv
<1> QED
  BY <1>1, Invariance, PTL

\* Until handleClose, the channel waits for a writable socket exactly while outputBuffer_
\* holds bytes.
THEOREM InterestFollowsOutput == Spec => []OutputHasInterest
<1>1. IInv => OutputHasInterest
  BY DEF IInv, Interest, OutputHasInterest
<1> QED
  BY <1>1, Invariance, PTL

\* shutdownInLoop sends FIN only after every byte that callback code passed to send().
THEOREM FinComesLast == Spec => []FinAfterData
<1>1. IInv => FinAfterData
  <2> SUFFICES ASSUME IInv, fin, closes = 0, peer # "reset",
                      NEW m \in sentBy[LoopThread], NEW i \in 1..MessageLength
               PROVE  \E k \in DOMAIN sock : sock[k] = <<m, i>>
    BY DEF FinAfterData
  <2>1. output = <<>> /\ sock \in Seq(Bytes) /\ sock \o output = taken
    BY DEF IInv, ShutDown, MoreTypes, StreamIntact
  <2>2. sock = taken
    BY <2>1, Concat
  <2> QED
    BY <2>2 DEF IInv, LoopDataTaken
<1> QED
  BY <1>1, Invariance, PTL

\* Unless another thread's shutdown() overwrites kDisconnected, handleClose runs once and
\* the channel never comes back into the poller.
THEOREM ClosesOnce == Spec => []ClosedForGood
<1>1. IInv => ClosedForGood
  BY DEF IInv, ClosedLast, ClosedForGood, ClosedStaysOut
<1> QED
  BY <1>1, Invariance, PTL

\* When the last TcpConnectionPtr goes, connectDestroyed has run and, with the same
\* exception, neither the poller nor handleEvent has the channel any more.
THEOREM RemovedBeforeDestroyed == Spec => []DestroyedIsRemoved
<1>1. IInv => DestroyedIsRemoved
  <2> SUFFICES ASSUME IInv, ~Alive
               PROVE  removed /\ (overwritten \/ (~added /\ calls = <<>>))
    BY DEF DestroyedIsRemoved
  <2>1. ~inMap /\ ~(removals > 0) /\ ~HasFunctor("destroyed")
    BY DEF Alive, HasFunctor, Has, Owning
  <2>2. removed /\ closes > 0
    BY <2>1 DEF IInv, Closed
  <2> QED
    BY <2>2 DEF IInv, ClosedLast
<1> QED
  BY <1>1, Invariance, PTL
==============================================================================
