-------------------------- MODULE EPollPollerProofs --------------------------
(****************************************************************************)
(* Proofs about EPollPoller for any sets of channel addresses and foreign   *)
(* threads, any finite set of descriptors and any initial length of the     *)
(* event list: the types, that the poller's bookkeeping is the kernel's,    *)
(* that no epoll_ctl fails, which pointers to destroyed Channels can be     *)
(* left, and that a closed channel stays out and is closed once unless a    *)
(* foreign shutdown() overwrote its state.                                  *)
(****************************************************************************)
EXTENDS EPollPoller, FiniteSetTheorems, TLAPS

-----------------------------------------------------------------------------
(* The inductive invariant. *)

\* Two live channels never share a descriptor.
FdsDistinct ==
  \A c, d \in Channels : fd[c] # None /\ fd[c] = fd[d] => c = d

\* What state_, index_ and events_ are in each part of a connection's life.
Life(c) ==
  /\ fd[c] = None =>
       index[c] = "kNew" /\ events[c] = {} /\ c \notin closed /\ pending[c] = 0
  /\ state[c] = "kConnecting" => index[c] = "kNew" /\ events[c] = {} /\ c \notin closed
  /\ fd[c] # None /\ c \notin closed /\ state[c] # "kConnecting" =>
       index[c] = "kAdded" /\ "read" \in events[c]
  /\ index[c] = "kDeleted" => events[c] = {}
  /\ index[c] = "kAdded" => events[c] # {}
  /\ c \in closed => state[c] # "kConnected"
  /\ c \in closed \ overwritten =>
       state[c] = "kDisconnected" /\ index[c] # "kAdded" /\ events[c] = {}
  /\ c \in closed \ removed => pending[c] > 0
  /\ pending[c] > 0 => c \in closed
  /\ index[c] = "kDeleted" /\ c \in removed => c \in overwritten

\* So for every address, and a thread in shutdown() has a live connection.
Lifecycle ==
  /\ \A c \in Channels : Life(c)
  /\ \A u \in Users : op[u] # None => op[u] \in Alive /\ state[op[u]] # "kConnecting"

\* The callbacks that may close the connection.
Closing == {"close", "read"}

\* Whatever live channel is in activeChannels_ is registered; a call that may close
\* the channel whose handleEvent runs comes once, while it is still registered; and
\* handleWrite comes last.
Dispatching ==
  /\ handled = None => calls = <<>>
  /\ handled # None =>
       phase = "dispatch" /\ index[handled] # "kNew" /\ revents[handled] = {}
  /\ \A i \in DOMAIN calls : calls[i] \in Closing =>
       /\ index[handled] = "kAdded"
       /\ \A j \in DOMAIN calls : calls[j] \in Closing => j = i
  /\ \A i \in DOMAIN calls : calls[i] = "write" => i = Len(calls)
  /\ \A c \in Channels : revents[c] # {} =>
       /\ phase = "dispatch"
       /\ IF c \in Alive THEN index[c] = "kAdded" ELSE c \in Excepted
  /\ usedDead \subseteq Excepted

\* channels_ and the kernel's list, channel by channel.
Registration ==
  /\ \A c \in Channels : index[c] # "kNew" => channels[fd[c]] = c
  /\ \A f \in Fds : channels[f] # None =>
       \/ channels[f] \in Excepted
       \/ fd[channels[f]] = f /\ index[channels[f]] # "kNew"
  /\ \A c \in Channels : index[c] = "kAdded" =>
       interest[fd[c]] = [ptr |-> c, events |-> events[c]]
  /\ \A f \in Fds : interest[f] # None =>
       interest[f].ptr \in Channels /\ fd[interest[f].ptr] = f
         /\ index[interest[f].ptr] = "kAdded"

IInv ==
  /\ TypeOK /\ FdsDistinct /\ Lifecycle /\ Dispatching /\ Registration
  /\ NoCtlFailure /\ closedTwice \subseteq overwritten

USE NoneAssumption, EventListAssumption, FdsAssumption

-----------------------------------------------------------------------------
(* The poller's operations. *)

\* The kernel has a live channel's descriptor exactly when the channel is kAdded.
LEMMA KnownIsAdded ==
  ASSUME IInv, NEW c \in Channels, fd[c] # None
  PROVE  interest[fd[c]] # None <=> index[c] = "kAdded"
<1> USE DEF IInv, TypeOK
<1>1. ASSUME interest[fd[c]] # None PROVE index[c] = "kAdded"
  BY <1>1 DEF Registration, FdsDistinct
<1>2. ASSUME index[c] = "kAdded" PROVE interest[fd[c]] # None
  <2>1. [ptr |-> c, events |-> events[c]] \in Entries
    BY DEF Entries
  <2> QED
    BY <1>2, <2>1 DEF Registration
<1> QED
  BY <1>1, <1>2

\* epoll_ctl succeeds in updateChannel, and afterwards channels_, the kernel and
\* index_ tell the same of the channel, whatever it was before.
LEMMA UpdateChannelIs ==
  ASSUME IInv, NEW c \in Channels, fd[c] # None,
         NEW ev \in SUBSET {"read", "write"}, updateChannel(c, ev)
  PROVE  LET out == index[c] = "kAdded" /\ ev = {} IN
         /\ ~ctlFailed'
         /\ events' = [events EXCEPT ![c] = ev]
         /\ index' = [index EXCEPT ![c] = IF out THEN "kDeleted" ELSE "kAdded"]
         /\ channels' = [channels EXCEPT ![fd[c]] = c]
         /\ interest' = [interest EXCEPT ![fd[c]] =
                           IF out THEN None ELSE [ptr |-> c, events |-> ev]]
<1> USE DEF IInv, TypeOK
<1>1. fd[c] \in Fds
  OBVIOUS
<1>2. interest[fd[c]] # None <=> index[c] = "kAdded"
  BY KnownIsAdded
<1>3. CASE index[c] = "kNew"
  BY <1>1, <1>2, <1>3 DEF updateChannel, update, NoCtlFailure
<1>4. CASE index[c] = "kDeleted"
  <2>1. channels[fd[c]] = c
    BY <1>4 DEF Registration
  <2>2. channels = [channels EXCEPT ![fd[c]] = c]
    BY <1>1, <2>1
  <2> QED
    BY <1>1, <1>2, <1>4, <2>2 DEF updateChannel, update, NoCtlFailure
<1>5. CASE index[c] = "kAdded"
  <2>1. channels[fd[c]] = c
    BY <1>5 DEF Registration
  <2>2. channels = [channels EXCEPT ![fd[c]] = c]
    BY <1>1, <2>1
  <2>3. index = [index EXCEPT ![c] = "kAdded"]
    BY <1>5
  <2> QED
    BY <1>1, <1>2, <1>5, <2>2, <2>3 DEF updateChannel, update, NoCtlFailure
<1> QED
  BY <1>3, <1>4, <1>5

\* removeChannel leaves neither an entry nor a registration of the channel.
LEMMA RemoveChannelIs ==
  ASSUME IInv, NEW c \in closed, removeChannel(c)
  PROVE  /\ c \in Channels /\ fd[c] \in Fds
         /\ index' = [index EXCEPT ![c] = "kNew"]
         /\ channels' = [channels EXCEPT ![fd[c]] = None]
         /\ interest' = [interest EXCEPT ![fd[c]] = None]
         /\ UNCHANGED <<ctlFailed, events>>
<1>1. c \in Channels /\ fd[c] \in Fds
  BY DEF IInv, TypeOK, Lifecycle, Life
<1>2. interest[fd[c]] # None <=> index[c] = "kAdded"
  BY <1>1, KnownIsAdded
<1> USE DEF IInv, TypeOK
<1>3. CASE index[c] = "kAdded"
  BY <1>1, <1>2, <1>3 DEF removeChannel, update, NoCtlFailure
<1>4. CASE index[c] # "kAdded"
  <2>1. interest = [interest EXCEPT ![fd[c]] = None]
    BY <1>1, <1>2, <1>4
  <2> QED
    BY <1>1, <1>4, <2>1 DEF removeChannel
<1> QED
  BY <1>3, <1>4

\* Channel c has just been registered for ev, or taken out when index_ is kDeleted.
Updated(c, ev, i) ==
  /\ c \in Channels /\ fd[c] \in Fds /\ ev \in SUBSET {"read", "write"}
  /\ events' = [events EXCEPT ![c] = ev]
  /\ index' = [index EXCEPT ![c] = i]
  /\ channels' = [channels EXCEPT ![fd[c]] = c]
  /\ interest' = [interest EXCEPT ![fd[c]] =
                    IF i = "kDeleted" THEN None ELSE [ptr |-> c, events |-> ev]]
  /\ ~ctlFailed' /\ ctlFailed' \in BOOLEAN

\* updateChannel as the actions use it.
LEMMA UpdateChannelUpdates ==
  ASSUME IInv, NEW c \in Channels, fd[c] # None,
         NEW ev \in SUBSET {"read", "write"}, updateChannel(c, ev)
  PROVE  /\ ev # {} => Updated(c, ev, "kAdded")
         /\ ev = {} /\ index[c] = "kAdded" => Updated(c, ev, "kDeleted")
<1>1. fd[c] \in Fds
  BY DEF IInv, TypeOK
<1>2. ctlFailed' \in BOOLEAN
  BY DEF updateChannel, update
<1>3. ASSUME ev # {} PROVE Updated(c, ev, "kAdded")
  BY <1>1, <1>2, <1>3, UpdateChannelIs DEF Updated
<1>4. ASSUME ev = {}, index[c] = "kAdded" PROVE Updated(c, ev, "kDeleted")
  BY <1>1, <1>2, <1>4, UpdateChannelIs DEF Updated
<1> QED
  BY <1>3, <1>4

\* A channel that is closed in its handleEvent is registered, and is taken out.
LEMMA HandleCloseUpdates ==
  ASSUME IInv, HandleClose
  PROVE  /\ index[handled] = "kAdded" /\ fd[handled] # None
         /\ Updated(handled, {}, "kDeleted")
<1> USE DEF IInv, TypeOK
<1>1. handled \in Channels /\ calls # <<>> /\ Head(calls) \in Closing
  BY DEF HandleClose, NextCall, Closing
<1>2. 1 \in DOMAIN calls /\ calls[1] \in Closing
  BY <1>1
<1>3. index[handled] = "kAdded" /\ fd[handled] # None
  BY <1>1, <1>2 DEF Dispatching, Lifecycle, Life
<1>4. updateChannel(handled, {})
  BY DEF HandleClose
<1> QED
  BY <1>1, <1>3, <1>4, UpdateChannelUpdates

\* A channel that stops writing goes on reading, or is taken out when it was only
\* registered again after its close.
LEMMA HandleWriteDrainedUpdates ==
  ASSUME IInv, HandleWriteDrained
  PROVE  /\ index[handled] = "kAdded" /\ fd[handled] # None
         /\ \/ "read" \in events[handled] /\ Updated(handled, {"read"}, "kAdded")
            \/ handled \in closed \cap overwritten /\ Updated(handled, {}, "kDeleted")
<1> USE DEF IInv, TypeOK
<1>1. handled \in Channels /\ "write" \in events[handled]
  BY DEF HandleWriteDrained, NextCall, isWriting
<1>2. index[handled] = "kAdded" /\ fd[handled] # None
  BY <1>1 DEF Lifecycle, Life, Dispatching
<1>3. CASE "read" \in events[handled]
  <2>1. events[handled] \ {"write"} = {"read"}
    BY <1>1, <1>3
  <2>2. updateChannel(handled, {"read"})
    BY <2>1 DEF HandleWriteDrained
  <2>3. {"read"} \in SUBSET {"read", "write"} /\ {"read"} # {}
    OBVIOUS
  <2> QED
    BY <1>1, <1>2, <1>3, <2>2, <2>3, UpdateChannelUpdates
<1>4. CASE "read" \notin events[handled]
  <2>1. events[handled] \ {"write"} = {}
    BY <1>1, <1>4
  <2>2. updateChannel(handled, {})
    BY <2>1 DEF HandleWriteDrained
  <2>3. handled \in closed \cap overwritten
    BY <1>1, <1>2, <1>4 DEF Lifecycle, Life
  <2> QED
    BY <1>1, <1>2, <2>2, <2>3, UpdateChannelUpdates
<1> QED
  BY <1>3, <1>4

\* connectEstablished registers a new channel.
LEMMA EnableReadingUpdates ==
  ASSUME IInv, NEW c \in Channels, EnableReading(c)
  PROVE  /\ fd[c] # None /\ index[c] = "kNew" /\ c \notin closed
         /\ Updated(c, {"read"}, "kAdded")
<1> USE DEF IInv, TypeOK
<1>1. {"read"} \in SUBSET {"read", "write"} /\ {"read"} # {}
  OBVIOUS
<1>2. fd[c] # None /\ index[c] = "kNew" /\ c \notin closed /\ events[c] = {}
  BY DEF EnableReading, Alive, Lifecycle, Life
<1>3. updateChannel(c, {"read"})
  <2>1. events[c] \cup {"read"} = {"read"}
    BY <1>2
  <2> QED
    BY <2>1 DEF EnableReading
<1> QED
  BY <1>1, <1>2, <1>3, UpdateChannelUpdates

\* A connection that starts writing is registered, or it was closed and a foreign
\* shutdown() changed its state.
LEMMA EnableWritingUpdates ==
  ASSUME IInv, NEW c \in Channels, EnableWriting(c)
  PROVE  /\ fd[c] # None
         /\ Updated(c, events[c] \cup {"write"}, "kAdded")
         /\ c \notin closed => index[c] = "kAdded" /\ "read" \in events[c]
         /\ c \in closed => c \in overwritten
<1> USE DEF IInv, TypeOK
<1>1. /\ events[c] \cup {"write"} \in SUBSET {"read", "write"}
      /\ events[c] \cup {"write"} # {}
  OBVIOUS
<1>2. fd[c] # None /\ state[c] # "kConnecting" /\ state[c] # "kDisconnected"
  BY DEF EnableWriting, Alive
<1>3. updateChannel(c, events[c] \cup {"write"})
  BY DEF EnableWriting
<1>4. Updated(c, events[c] \cup {"write"}, "kAdded")
  BY <1>1, <1>2, <1>3, UpdateChannelUpdates
<1> QED
  BY <1>2, <1>4 DEF Lifecycle, Life

\* A channel that is destroyed while it is registered, reported or handled is one
\* about which less is promised.
LEMMA DestroyedIsExcepted ==
  ASSUME IInv, NEW c \in Channels, Destroy(c)
  PROVE  /\ fd[c] \in Fds /\ pending[c] = 0
         /\ Excepted \subseteq Excepted'
         /\ index[c] # "kNew" => c \in Excepted'
         /\ \A u \in Users : op[u] # c
<1> USE DEF IInv, TypeOK
<1>1. fd[c] \in Fds /\ pending[c] = 0 /\ \A u \in Users : op[u] # c
  BY DEF Destroy, Alive, Held
<1>2. Excepted \subseteq Excepted' /\ overwritten' = overwritten
  BY DEF Destroy, Excepted
<1>3. ASSUME index[c] # "kNew", c \notin removed PROVE c \in Excepted'
  BY <1>3 DEF Destroy, Excepted
<1>4. ASSUME index[c] # "kNew", c \in removed PROVE c \in Excepted'
  BY <1>2, <1>4 DEF Lifecycle, Life, Excepted
<1> QED
  BY <1>1, <1>2, <1>3, <1>4

-----------------------------------------------------------------------------
(* Every step keeps the invariant. *)

\* The state after the constructor has the invariant.
LEMMA InitIInv == Init => IInv
<1> SUFFICES ASSUME Init PROVE IInv
  OBVIOUS
<1> USE DEF Init
<1>1. TypeOK
  <2>1. calls \in Seq({"close", "error", "read", "write"})
    OBVIOUS
  <2>2. listSize \in Nat \ {0} /\ listSize <= kInitEventListSize
    OBVIOUS
  <2> QED
    BY <2>1, <2>2 DEF TypeOK, States
<1>2. FdsDistinct /\ Lifecycle
  BY DEF FdsDistinct, Lifecycle, Life, Alive
<1>3. Dispatching
  BY DEF Dispatching
<1>4. Registration
  BY DEF Registration
<1> QED
  BY <1>1, <1>2, <1>3, <1>4 DEF IInv, NoCtlFailure

\* A list of events that came back full holds no more entries than there are
\* descriptors, so that doubling it stays within twice their number.
LEMMA PollKeepsListSize ==
  ASSUME IInv, Poll
  PROVE  /\ listSize' \in Nat \ {0}
         /\ listSize' <= kInitEventListSize \/ listSize' <= 2 * Cardinality(Fds)
<1> USE DEF IInv, TypeOK
<1>1. PICK ready \in SUBSET Registered :
        /\ Cardinality(ready) <= listSize
        /\ listSize' = IF Cardinality(ready) = listSize THEN 2 * listSize ELSE listSize
  BY DEF Poll
<1>2. ready \subseteq Fds
  BY DEF Registered
<1>3. Cardinality(ready) \in Nat /\ Cardinality(Fds) \in Nat
        /\ Cardinality(ready) <= Cardinality(Fds)
  BY <1>2, FS_Subset, FS_CardinalityType
<1> QED
  BY <1>1, <1>3

\* A list of calls of which at most one, or none, may close the connection.
Calls == {"close", "error", "read", "write"}
ClosesOnce(s) == \A i, j \in DOMAIN s : s[i] \in Closing /\ s[j] \in Closing => i = j
ClosesNever(s) == \A i \in DOMAIN s : s[i] \notin Closing

\* Putting a list that closes nothing behind or before another one.
LEMMA ClosesConcat ==
  ASSUME NEW s \in Seq(Calls), NEW t \in Seq(Calls)
  PROVE  /\ s \o t \in Seq(Calls)
         /\ ClosesNever(s) /\ ClosesNever(t) => ClosesNever(s \o t)
         /\ ClosesOnce(s) /\ ClosesNever(t) => ClosesOnce(s \o t)
         /\ ClosesNever(s) /\ ClosesOnce(t) => ClosesOnce(s \o t)
<1>1. /\ s \o t \in Seq(Calls) /\ Len(s \o t) = Len(s) + Len(t)
      /\ DOMAIN (s \o t) = 1..Len(s) + Len(t)
  OBVIOUS
<1>2. \A i \in 1..Len(s) + Len(t) :
        \/ i \in DOMAIN s /\ (s \o t)[i] = s[i]
        \/ i - Len(s) \in DOMAIN t /\ (s \o t)[i] = t[i - Len(s)]
  OBVIOUS
<1>3. ASSUME ClosesNever(s), ClosesNever(t) PROVE ClosesNever(s \o t)
  BY <1>1, <1>2, <1>3 DEF ClosesNever
<1>4. ASSUME ClosesOnce(s), ClosesNever(t) PROVE ClosesOnce(s \o t)
  BY <1>1, <1>2, <1>4 DEF ClosesOnce, ClosesNever
<1>5. ASSUME ClosesNever(s), ClosesOnce(t) PROVE ClosesOnce(s \o t)
  <2> SUFFICES ASSUME NEW i \in DOMAIN (s \o t), NEW j \in DOMAIN (s \o t),
                      (s \o t)[i] \in Closing, (s \o t)[j] \in Closing
               PROVE  i = j
    BY DEF ClosesOnce
  <2>1. /\ i - Len(s) \in DOMAIN t /\ t[i - Len(s)] \in Closing
        /\ j - Len(s) \in DOMAIN t /\ t[j - Len(s)] \in Closing
    BY <1>1, <1>2, <1>5 DEF ClosesNever
  <2>2. i - Len(s) = j - Len(s)
    BY <1>5, <2>1 DEF ClosesOnce
  <2> QED
    BY <1>1, <2>2
<1> QED
  BY <1>1, <1>3, <1>4, <1>5

\* Lists of one call or none.
LEMMA OneCall ==
  ASSUME NEW x \in Calls, NEW b \in BOOLEAN
  PROVE  LET s == IF b THEN <<x>> ELSE <<>>
         IN  s \in Seq(Calls) /\ ClosesOnce(s) /\ (~b \/ x \notin Closing => ClosesNever(s))
  BY DEF ClosesOnce, ClosesNever

\* A call that may close, or an error, never comes after handleWrite.
WriteLast(s) == \A i \in DOMAIN s : s[i] = "write" => i = Len(s)

\* The callbacks of one handleEvent: only one of them may close the connection, and
\* handleWrite is the last.
LEMMA CallbacksAre ==
  ASSUME NEW rev \in SUBSET {"IN", "OUT", "ERR", "HUP"}
  PROVE  /\ Callbacks(rev) \in Seq(Calls) /\ ClosesOnce(Callbacks(rev))
         /\ WriteLast(Callbacks(rev))
<1> DEFINE close == IF "HUP" \in rev /\ "IN" \notin rev THEN <<"close">> ELSE <<>>
           error == IF "ERR" \in rev THEN <<"error">> ELSE <<>>
           read  == IF "IN" \in rev THEN <<"read">> ELSE <<>>
           write == IF "OUT" \in rev THEN <<"write">> ELSE <<>>
           Quiet(s) == \A i \in DOMAIN s : s[i] # "write"
<1>1. /\ close \in Seq(Calls) /\ ClosesOnce(close) /\ Quiet(close)
      /\ "IN" \in rev => ClosesNever(close)
  <2>1. Quiet(close)
    OBVIOUS
  <2> QED
    BY <2>1, OneCall DEF Calls
<1>2. error \in Seq(Calls) /\ ClosesNever(error) /\ Quiet(error)
  <2>1. Quiet(error)
    OBVIOUS
  <2> QED
    BY <2>1, OneCall DEF Calls, Closing
<1>3. /\ read \in Seq(Calls) /\ ClosesOnce(read) /\ Quiet(read)
      /\ "IN" \notin rev => ClosesNever(read)
  <2>1. Quiet(read)
    OBVIOUS
  <2> QED
    BY <2>1, OneCall DEF Calls
<1>4. write \in Seq(Calls) /\ ClosesNever(write) /\ Len(write) \in {0, 1}
  BY OneCall DEF Calls, Closing
<1>5. Callbacks(rev) = close \o error \o read \o write
  BY DEF Callbacks
<1> HIDE DEF close, error, read, write
<1>q. ASSUME NEW s \in Seq(Calls), NEW t \in Seq(Calls), Quiet(s), Quiet(t)
      PROVE  Quiet(s \o t)
  <2> SUFFICES ASSUME NEW i \in DOMAIN (s \o t) PROVE (s \o t)[i] # "write"
    OBVIOUS
  <2>1. CASE i <= Len(s)
    BY <1>q, <2>1
  <2>2. CASE i > Len(s)
    <3>1. i - Len(s) \in DOMAIN t /\ (s \o t)[i] = t[i - Len(s)]
      BY <2>2
    <3> QED
      BY <1>q, <3>1
  <2> QED
    BY <2>1, <2>2
<1> HIDE DEF Quiet
<1>6. /\ close \o error \in Seq(Calls) /\ ClosesOnce(close \o error)
      /\ "IN" \in rev => ClosesNever(close \o error)
      /\ Quiet(close \o error)
  BY <1>1, <1>2, <1>q, ClosesConcat
<1>7. /\ close \o error \o read \in Seq(Calls) /\ ClosesOnce(close \o error \o read)
      /\ Quiet(close \o error \o read)
  BY <1>3, <1>6, <1>q, ClosesConcat
<1>8. /\ close \o error \o read \o write \in Seq(Calls)
      /\ ClosesOnce(close \o error \o read \o write)
  BY <1>4, <1>7, ClosesConcat
<1>9. ASSUME NEW s \in Seq(Calls), Quiet(s) PROVE WriteLast(s \o write)
  <2> SUFFICES ASSUME NEW i \in DOMAIN (s \o write), (s \o write)[i] = "write"
               PROVE  i = Len(s \o write)
    BY DEF WriteLast
  <2>1. Len(s \o write) = Len(s) + Len(write) /\ i \in 1..Len(s) + Len(write)
    BY <1>4
  <2>2. ~(i <= Len(s))
    BY <1>9, <2>1 DEF Quiet
  <2>3. i \in Int /\ Len(s) \in Nat /\ Len(write) \in Nat
    BY <1>4, <2>1
  <2>4. CASE Len(write) = 0
    <3>1. i \in 1..Len(s)
      BY <2>1, <2>3, <2>4
    <3> QED
      BY <2>2, <3>1
  <2>5. CASE Len(write) = 1
    BY <2>1, <2>2, <2>3, <2>5
  <2> QED
    BY <1>4, <2>4, <2>5
<1> QED
  BY <1>5, <1>7, <1>8, <1>9

\* Updating a channel keeps the types.
LEMMA UpdatedTypes ==
  ASSUME IInv, NEW c, NEW ev, NEW i \in {"kAdded", "kDeleted"}, Updated(c, ev, i)
  PROVE  /\ events' \in [Channels -> SUBSET {"read", "write"}]
         /\ index' \in [Channels -> {"kNew", "kAdded", "kDeleted"}]
         /\ channels' \in [Fds -> Channels \cup {None}]
         /\ interest' \in [Fds -> Entries \cup {None}]
         /\ ctlFailed' \in BOOLEAN
<1>1. [ptr |-> c, events |-> ev] \in Entries
  BY DEF Entries, Updated
<1>2. /\ events \in [Channels -> SUBSET {"read", "write"}]
      /\ index \in [Channels -> {"kNew", "kAdded", "kDeleted"}]
      /\ channels \in [Fds -> Channels \cup {None}]
      /\ interest \in [Fds -> Entries \cup {None}]
  BY DEF IInv, TypeOK
<1> QED
  BY <1>1, <1>2 DEF Updated

\* Every step keeps the types.
LEMMA NextTypeOK == IInv /\ [Next]_vars => TypeOK'
<1> SUFFICES ASSUME IInv, [Next]_vars PROVE TypeOK'
  OBVIOUS
<1> USE DEF IInv, TypeOK, vars, objVars, pollerVars, connVars, threadVars, LoopStands
<1>1. CASE Poll
  <2>1. revents' \in [Channels -> SUBSET {"IN", "OUT", "ERR", "HUP"}]
    BY <1>1 DEF Poll
  <2> QED
    BY <1>1, <2>1, PollKeepsListSize DEF Poll
<1>2. CASE HandleClose
  <2>1. handled \in Channels /\ calls # <<>>
    BY <1>2 DEF HandleClose, NextCall
  <2>2. /\ events' \in [Channels -> SUBSET {"read", "write"}]
        /\ index' \in [Channels -> {"kNew", "kAdded", "kDeleted"}]
        /\ channels' \in [Fds -> Channels \cup {None}]
        /\ interest' \in [Fds -> Entries \cup {None}] /\ ctlFailed' \in BOOLEAN
    BY <1>2, HandleCloseUpdates, UpdatedTypes
  <2>3. state' \in [Channels -> States] /\ pending' \in [Channels -> Nat]
    BY <1>2, <2>1 DEF HandleClose, States
  <2>4. calls' \in Seq({"close", "error", "read", "write"})
    BY <1>2, <2>1 DEF HandleClose, CallReturns
  <2> QED
    BY <1>2, <2>1, <2>2, <2>3, <2>4 DEF HandleClose
<1>3. CASE HandleWriteDrained
  BY <1>3, HandleWriteDrainedUpdates, UpdatedTypes
     DEF HandleWriteDrained, CallReturns, NextCall
<1>4. CASE PollNothing \/ DispatchEnds \/ FunctorsEnd
  BY <1>4 DEF PollNothing, DispatchEnds, FunctorsEnd
<1>5. CASE HandleOther
  <2>1. calls' \in Seq({"close", "error", "read", "write"})
    BY <1>5 DEF HandleOther, CallReturns, NextCall
  <2> QED
    BY <1>5, <2>1 DEF HandleOther
<1>13. CASE HandleEventReturns \/ DestroyServer \/ UNCHANGED vars
  BY <1>13 DEF HandleEventReturns, DestroyServer
<1>14. ASSUME NEW c \in Channels, HandleEvent(c) PROVE TypeOK'
  <2>1. calls' \in Seq({"close", "error", "read", "write"})
    BY <1>14, CallbacksAre DEF HandleEvent, Calls
  <2> QED
    BY <1>14, <2>1 DEF HandleEvent
<1>15. ASSUME NEW c \in Channels, HandleDestroyed(c) PROVE TypeOK'
  BY <1>15 DEF HandleDestroyed
<1>6. ASSUME NEW c \in Channels, EnableReading(c) PROVE TypeOK'
  BY <1>6, EnableReadingUpdates, UpdatedTypes DEF EnableReading, States
<1>7. ASSUME NEW c \in Channels, EnableWriting(c) PROVE TypeOK'
  BY <1>7, EnableWritingUpdates, UpdatedTypes DEF EnableWriting
<1>8. ASSUME NEW c \in Channels, ConnectDestroyed(c) PROVE TypeOK'
  <2>1. c \in closed /\ pending' \in [Channels -> Nat]
    BY <1>8 DEF ConnectDestroyed, Lifecycle, Life
  <2> QED
    BY <1>8, <2>1, RemoveChannelIs DEF ConnectDestroyed
<1>9. ASSUME NEW c \in Channels, Destroy(c) PROVE TypeOK'
  <2>1. calls' \in Seq({"close", "error", "read", "write"})
    BY <1>9 DEF Destroy
  <2>2. state' \in [Channels -> States] /\ handled' \in Channels \cup {None}
    BY <1>9 DEF Destroy, States
  <2> QED
    BY <1>9, <2>1, <2>2 DEF Destroy
<1>10. ASSUME NEW c \in Channels, NEW f \in Fds, NewChannel(c, f) PROVE TypeOK'
  BY <1>10 DEF NewChannel, States
<1>11. ASSUME NEW c \in Channels, Shutdown(c) PROVE TypeOK'
  BY <1>11 DEF Shutdown, States
<1>16. ASSUME NEW c \in Channels, NEW u \in Users, TestForShutdown(u, c) PROVE TypeOK'
  BY <1>16 DEF TestForShutdown
<1>12. ASSUME NEW u \in Users, StoreDisconnecting(u) PROVE TypeOK'
  BY <1>12 DEF StoreDisconnecting, States
<1> QED
  BY <1>1, <1>2, <1>3, <1>4, <1>5, <1>6, <1>7, <1>8, <1>9, <1>10, <1>11, <1>12, <1>13,
     <1>14, <1>15, <1>16 DEF Next

\* A descriptor is given to a channel only while no other one has it.
LEMMA NextFdsDistinct == IInv /\ [Next]_vars => FdsDistinct'
<1> SUFFICES ASSUME IInv, [Next]_vars PROVE FdsDistinct'
  OBVIOUS
<1> USE DEF IInv, TypeOK, FdsDistinct
<1>1. CASE UNCHANGED fd
  BY <1>1
<1>2. ASSUME NEW c \in Channels, Destroy(c) PROVE FdsDistinct'
  BY <1>2 DEF Destroy
<1>3. ASSUME NEW c \in Channels, NEW f \in Fds, NewChannel(c, f) PROVE FdsDistinct'
  BY <1>3 DEF NewChannel
<1>4. \/ UNCHANGED fd
      \/ \E c \in Channels : Destroy(c) \/ \E f \in Fds : NewChannel(c, f)
  BY DEF Next, vars, objVars, Poll, PollNothing, HandleClose, HandleOther,
         HandleWriteDrained, HandleEventReturns, DispatchEnds, FunctorsEnd, HandleEvent,
         HandleDestroyed, EnableReading, EnableWriting, ConnectDestroyed, DestroyServer,
         Shutdown, TestForShutdown, StoreDisconnecting
<1> QED
  BY <1>1, <1>2, <1>3, <1>4

\* A step that does not touch a channel's connection leaves its part of the invariant.
LEMMA LifeFrame ==
  ASSUME NEW d \in Channels, Life(d), fd'[d] = fd[d], events'[d] = events[d],
         index'[d] = index[d], state'[d] = state[d], pending'[d] = pending[d],
         d \in closed' <=> d \in closed, d \in removed' <=> d \in removed,
         overwritten \subseteq overwritten'
  PROVE  Life(d)'
  BY DEF Life

\* When a step touches only the connection of channel c.
LEMMA LifecycleOf ==
  ASSUME IInv, NEW c \in Channels, Life(c)',
         \A d \in Channels \ {c} :
           /\ fd'[d] = fd[d] /\ events'[d] = events[d] /\ index'[d] = index[d]
           /\ state'[d] = state[d] /\ pending'[d] = pending[d]
           /\ d \in closed' <=> d \in closed
           /\ d \in removed' <=> d \in removed,
         overwritten \subseteq overwritten',
         UNCHANGED op,
         (\E u \in Users : op[u] = c) => fd'[c] # None /\ state'[c] # "kConnecting"
  PROVE  Lifecycle'
<1>1. ASSUME NEW d \in Channels PROVE Life(d)'
  <2>1. CASE d = c
    BY <2>1
  <2>2. CASE d # c
    BY <2>2, LifeFrame DEF IInv, Lifecycle
  <2> QED
    BY <2>1, <2>2
<1>2. ASSUME NEW u \in Users, op'[u] # None
      PROVE  op'[u] \in Alive' /\ state'[op'[u]] # "kConnecting"
  <2>1. op'[u] = op[u] /\ op[u] \in Channels /\ fd[op[u]] # None
          /\ state[op[u]] # "kConnecting"
    BY <1>2 DEF IInv, TypeOK, Lifecycle, Alive
  <2> QED
    BY <2>1 DEF Alive
<1> QED
  BY <1>1, <1>2 DEF Lifecycle

\* Registration, closing and removal follow each other as in a TcpConnection's life.
LEMMA NextLifecycle == IInv /\ [Next]_vars => Lifecycle'
<1> SUFFICES ASSUME IInv, [Next]_vars PROVE Lifecycle'
  OBVIOUS
<1> USE DEF IInv, TypeOK, connVars, threadVars
<1>0. \A c \in Channels : Life(c)
  BY DEF Lifecycle
<1>c. \A u \in Users : op[u] # None => fd[op[u]] # None /\ state[op[u]] # "kConnecting"
  BY DEF Lifecycle, Alive
<1>1. CASE HandleClose
  <2>1. PICK c \in Channels : c = handled
    BY <1>1, HandleCloseUpdates DEF Updated
  <2>2. c \in closed => c \in overwritten
    BY <1>0, <1>1, <2>1, HandleCloseUpdates DEF Life
  <2>3. Life(c)'
    BY <1>0, <1>1, <2>1, <2>2, HandleCloseUpdates DEF HandleClose, Updated, Life
  <2> QED
    BY <1>1, <1>c, <2>1, <2>3, HandleCloseUpdates, LifecycleOf DEF HandleClose, Updated
<1>2. CASE HandleWriteDrained
  <2>1. PICK c \in Channels : c = handled
    BY <1>2, HandleWriteDrainedUpdates DEF Updated
  <2>2. UNCHANGED <<fd, connVars, threadVars>> /\ fd[c] # None
    BY <1>2, <2>1, HandleWriteDrainedUpdates DEF HandleWriteDrained
  <2>3. CASE "read" \in events[c] /\ Updated(c, {"read"}, "kAdded")
    <3>1. Life(c)'
      BY <1>0, <2>2, <2>3 DEF Updated, Life
    <3> QED
      BY <1>c, <2>2, <2>3, <3>1, LifecycleOf DEF Updated
  <2>4. CASE c \in closed \cap overwritten /\ Updated(c, {}, "kDeleted")
    <3>1. Life(c)'
      BY <1>0, <2>2, <2>4 DEF Updated, Life
    <3> QED
      BY <1>c, <2>2, <2>4, <3>1, LifecycleOf DEF Updated
  <2> QED
    BY <1>2, <2>1, <2>3, <2>4, HandleWriteDrainedUpdates
<1>3. ASSUME NEW c \in Channels, EnableReading(c) PROVE Lifecycle'
  <2>1. /\ fd' = fd /\ fd[c] # None /\ c \notin closed
        /\ state' = [state EXCEPT ![c] = "kConnected"]
        /\ events' = [events EXCEPT ![c] = {"read"}]
        /\ index' = [index EXCEPT ![c] = "kAdded"]
        /\ UNCHANGED <<closed, removed, pending, overwritten, op>>
    BY <1>3, EnableReadingUpdates DEF EnableReading, Updated
  <2>2. Life(c)'
    BY <1>0, <2>1 DEF Life
  <2> QED
    BY <2>1, <2>2, LifecycleOf
<1>4. ASSUME NEW c \in Channels, EnableWriting(c) PROVE Lifecycle'
  <2>1. /\ UNCHANGED <<fd, connVars, threadVars>>
        /\ state[c] # "kConnecting" /\ state[c] # "kDisconnected"
    BY <1>4 DEF EnableWriting
  <2>3. /\ fd[c] # None
        /\ events' = [events EXCEPT ![c] = events[c] \cup {"write"}]
        /\ index' = [index EXCEPT ![c] = "kAdded"]
        /\ c \notin closed => "read" \in events[c]
        /\ c \in closed => c \in overwritten
    BY <1>4, EnableWritingUpdates DEF Updated
  <2>2. Life(c)'
    BY <1>0, <2>1, <2>3 DEF Life
  <2> QED
    BY <1>c, <2>1, <2>2, <2>3, LifecycleOf
<1>5. ASSUME NEW c \in Channels, ConnectDestroyed(c) PROVE Lifecycle'
  <2>1. c \in closed
    BY <1>0, <1>5 DEF ConnectDestroyed, Life
  <2>3. /\ index' = [index EXCEPT ![c] = "kNew"]
        /\ pending' = [pending EXCEPT ![c] = @ - 1] /\ pending[c] > 0
        /\ removed' = removed \cup {c}
        /\ UNCHANGED <<fd, state, closed, events, overwritten, op>>
    BY <1>5, <2>1, RemoveChannelIs DEF ConnectDestroyed
  <2>2. Life(c)'
    BY <1>0, <2>1, <2>3 DEF Life
  <2> QED
    BY <1>c, <2>1, <2>2, <2>3, LifecycleOf
<1>6. ASSUME NEW c \in Channels, Destroy(c) PROVE Lifecycle'
  <2>1. /\ fd' = [fd EXCEPT ![c] = None] /\ events' = [events EXCEPT ![c] = {}]
        /\ index' = [index EXCEPT ![c] = "kNew"]
        /\ state' = [state EXCEPT ![c] = "kDisconnected"]
        /\ closed' = closed \ {c} /\ removed' = removed \ {c}
        /\ UNCHANGED <<pending, overwritten, op>>
        /\ pending[c] = 0 /\ \A u \in Users : op[u] # c
    BY <1>6, DestroyedIsExcepted DEF Destroy
  <2>2. Life(c)'
    BY <2>1 DEF Life
  <2> QED
    BY <2>1, <2>2, LifecycleOf
<1>7. ASSUME NEW c \in Channels, NEW f \in Fds, NewChannel(c, f) PROVE Lifecycle'
  <2>1. Life(c)'
    BY <1>0, <1>7 DEF NewChannel, Life
  <2>2. \A u \in Users : op[u] # c
    BY <1>7, <1>c DEF NewChannel
  <2> QED
    BY <1>7, <2>1, <2>2, LifecycleOf DEF NewChannel
<1>8. ASSUME NEW c \in Channels, Shutdown(c) PROVE Lifecycle'
  <2>1. Life(c)'
    BY <1>0, <1>8 DEF Shutdown, Life, Alive, objVars
  <2> QED
    BY <1>8, <1>c, <2>1, LifecycleOf DEF Shutdown, objVars
<1>9. ASSUME NEW c \in Channels, NEW u \in Users, TestForShutdown(u, c) PROVE Lifecycle'
  <2>1. \A d \in Channels : Life(d)'
    BY <1>0, <1>9, LifeFrame DEF TestForShutdown, objVars
  <2>2. \A v \in Users : op'[v] # None => op'[v] \in Alive' /\ state'[op'[v]] # "kConnecting"
    BY <1>9, <1>c DEF TestForShutdown, objVars, Alive
  <2> QED
    BY <2>1, <2>2 DEF Lifecycle
<1>10. ASSUME NEW u \in Users, StoreDisconnecting(u) PROVE Lifecycle'
  <2>1. op[u] \in Channels /\ fd[op[u]] # None /\ state[op[u]] # "kConnecting"
    BY <1>10, <1>c DEF StoreDisconnecting
  <2>2. /\ UNCHANGED <<fd, events, index, closed, removed, pending>>
        /\ state' = [state EXCEPT ![op[u]] = "kDisconnecting"]
        /\ overwritten \subseteq overwritten'
        /\ state[op[u]] = "kDisconnected" => op[u] \in overwritten'
        /\ op' = [op EXCEPT ![u] = None]
    BY <1>10 DEF StoreDisconnecting, objVars
  <2>3. ASSUME NEW d \in Channels PROVE Life(d)'
    <3>1. CASE d = op[u]
      BY <1>0, <2>1, <2>2, <3>1 DEF Life
    <3>2. CASE d # op[u]
      BY <1>0, <2>1, <2>2, <3>2, LifeFrame
    <3> QED
      BY <3>1, <3>2
  <2>4. \A v \in Users : op'[v] # None => op'[v] \in Alive' /\ state'[op'[v]] # "kConnecting"
    BY <1>c, <2>1, <2>2 DEF Alive
  <2> QED
    BY <2>3, <2>4 DEF Lifecycle
<1>11. CASE UNCHANGED <<fd, events, index, connVars, op, overwritten>>
  BY <1>11 DEF Lifecycle, Life, Alive
<1>12. \/ UNCHANGED <<fd, events, index, connVars, op, overwritten>>
       \/ HandleClose \/ HandleWriteDrained
       \/ \E c \in Channels : \/ EnableReading(c) \/ EnableWriting(c) \/ ConnectDestroyed(c)
                              \/ Destroy(c) \/ \E f \in Fds : NewChannel(c, f)
                              \/ Shutdown(c) \/ \E u \in Users : TestForShutdown(u, c)
       \/ \E u \in Users : StoreDisconnecting(u)
  BY DEF Next, vars, objVars, Poll, PollNothing, HandleOther, HandleEventReturns, DispatchEnds,
         FunctorsEnd, HandleEvent, HandleDestroyed, DestroyServer
<1> QED
  BY <1>1, <1>2, <1>3, <1>4, <1>5, <1>6, <1>7, <1>8, <1>9, <1>10, <1>11, <1>12

\* What is reported stays registered until it is handled, and a handler closes once.
LEMMA NextDispatching == IInv /\ [Next]_vars => Dispatching'
<1> SUFFICES ASSUME IInv, [Next]_vars PROVE Dispatching'
  OBVIOUS
<1> USE DEF IInv, TypeOK, Dispatching, Alive, Excepted, vars, objVars, connVars, threadVars,
            LoopStands
<1>1. CASE Poll
  <2>1. \A c \in Channels : revents'[c] # {} => index[c] = "kAdded" /\ fd[c] # None
    <3> SUFFICES ASSUME NEW c \in Channels, revents'[c] # {}
                 PROVE  index[c] = "kAdded" /\ fd[c] # None
      OBVIOUS
    <3>1. PICK f \in Registered : interest[f].ptr = c
      BY <1>1 DEF Poll
    <3> QED
      BY <3>1 DEF Registration, Registered
  <2>2. handled = None
    BY <1>1 DEF Poll
  <2> QED
    BY <1>1, <2>1, <2>2 DEF Poll
<1>2. CASE HandleClose
  <2>0. calls # <<>> /\ Head(calls) \in Closing /\ calls' = Tail(calls)
    BY <1>2 DEF HandleClose, NextCall, CallReturns, Closing
  <2>1. \A j \in DOMAIN calls' : /\ j + 1 \in DOMAIN calls /\ calls'[j] = calls[j + 1]
                                 /\ j + 1 # 1 /\ Len(calls) = Len(calls') + 1
    BY <2>0
  <2>2. \A j \in DOMAIN calls' : calls'[j] \notin Closing
    BY <2>0, <2>1
  <2>3. \A j \in DOMAIN calls' : calls'[j] = "write" => j = Len(calls')
    <3> SUFFICES ASSUME NEW j \in DOMAIN calls', calls'[j] = "write" PROVE j = Len(calls')
      OBVIOUS
    <3>1. j + 1 = Len(calls) /\ Len(calls') \in Nat /\ j \in Nat
      BY <2>0, <2>1
    <3> QED
      BY <2>1, <3>1
  <2>4. handled \in Channels
    BY <1>2 DEF HandleClose, NextCall
  <2> QED
    BY <1>2, <2>2, <2>3, <2>4, HandleCloseUpdates DEF HandleClose, Updated
<1>3. CASE HandleOther
  <2>1. UNCHANGED <<fd, index, phase, revents, handled, threadVars, usedDead>>
          /\ calls # <<>> /\ handled \in Channels /\ calls' = Tail(calls)
    BY <1>3 DEF HandleOther, NextCall, CallReturns
  <2>2. \A j \in DOMAIN calls' : /\ j + 1 \in DOMAIN calls /\ calls'[j] = calls[j + 1]
                                 /\ Len(calls) = Len(calls') + 1
    BY <2>1
  <2>3. \A i \in DOMAIN calls' : calls'[i] \in Closing =>
          \A j \in DOMAIN calls' : calls'[j] \in Closing => j = i
    <3> SUFFICES ASSUME NEW i \in DOMAIN calls', NEW j \in DOMAIN calls',
                        calls'[i] \in Closing, calls'[j] \in Closing
                 PROVE  j = i
      OBVIOUS
    <3>1. j + 1 = i + 1
      BY <2>2
    <3>2. i \in Int /\ j \in Int
      BY <2>1
    <3> QED
      BY <3>1, <3>2
  <2>4. \A j \in DOMAIN calls' : calls'[j] = "write" => j = Len(calls')
    <3> SUFFICES ASSUME NEW j \in DOMAIN calls', calls'[j] = "write" PROVE j = Len(calls')
      OBVIOUS
    <3>1. j + 1 = Len(calls) /\ Len(calls') \in Nat /\ j \in Nat
      BY <2>1, <2>2
    <3> QED
      BY <2>2, <3>1
  <2> QED
    BY <2>1, <2>2, <2>3, <2>4
<1>4. CASE HandleWriteDrained
  <2>1. calls # <<>> /\ Head(calls) = "write" /\ calls' = Tail(calls) /\ handled \in Channels
    BY <1>4 DEF HandleWriteDrained, NextCall, CallReturns
  <2>2. Len(calls) = 1
    <3>1. 1 \in DOMAIN calls /\ calls[1] = "write"
      BY <2>1
    <3> QED
      BY <3>1
  <2>3. calls' = <<>> /\ DOMAIN calls' = {}
    BY <2>1, <2>2
  <2>4. /\ UNCHANGED <<fd, phase, revents, handled, threadVars, usedDead>>
        /\ revents[handled] = {}
        /\ \/ index' = [index EXCEPT ![handled] = "kAdded"]
           \/ index' = [index EXCEPT ![handled] = "kDeleted"]
    BY <1>4, <2>1, HandleWriteDrainedUpdates DEF HandleWriteDrained, Updated
  <2>5. \A d \in Channels : revents[d] # {} => index'[d] = index[d]
    BY <2>1, <2>4
  <2>6. phase = "dispatch" /\ index'[handled] # "kNew"
    BY <2>1, <2>4
  <2>7. Excepted' = Excepted
    BY <2>4
  <2> HIDE DEF Excepted
  <2> QED
    BY <2>1, <2>3, <2>4, <2>5, <2>6, <2>7
<1>5. ASSUME NEW c \in Channels, HandleEvent(c) PROVE Dispatching'
  <2>1. ClosesOnce(calls') /\ WriteLast(calls')
    BY <1>5, CallbacksAre DEF HandleEvent
  <2> QED
    BY <1>5, <2>1 DEF HandleEvent, ClosesOnce, WriteLast
<1>6. ASSUME NEW c \in Channels, EnableReading(c) \/ EnableWriting(c) PROVE Dispatching'
  <2>1. /\ index' = [index EXCEPT ![c] = "kAdded"]
        /\ UNCHANGED <<phase, revents, handled, calls, fd, threadVars, usedDead>>
    BY <1>6, EnableReadingUpdates, EnableWritingUpdates DEF EnableReading, EnableWriting, Updated
  <2> QED
    BY <2>1
<1>7. ASSUME NEW c \in Channels, ConnectDestroyed(c) PROVE Dispatching'
  <2>1. c \in closed
    BY <1>7 DEF ConnectDestroyed, Lifecycle, Life
  <2>2. handled = None /\ \A d \in Channels : revents[d] = {}
    BY <1>7 DEF ConnectDestroyed
  <2> QED
    BY <1>7, <2>1, <2>2, RemoveChannelIs DEF ConnectDestroyed
<1>8. ASSUME NEW c \in Channels, NEW f \in Fds, NewChannel(c, f) PROVE Dispatching'
  <2>1. index[c] = "kNew" /\ index' = index
    BY <1>8 DEF NewChannel, Lifecycle, Life
  <2> QED
    BY <1>8, <2>1 DEF NewChannel
<1>9. ASSUME NEW c \in Channels, Destroy(c) PROVE Dispatching'
  <2>0. /\ Excepted \subseteq Excepted'
        /\ index[c] # "kNew" => c \in Excepted'
    BY <1>9, DestroyedIsExcepted
  <2> HIDE DEF Excepted
  <2>1. usedDead' \subseteq Excepted'
    BY <1>9, <2>0 DEF Destroy
  <2>2. \A d \in Channels : revents'[d] # {} =>
          /\ phase' = "dispatch"
          /\ IF fd'[d] # None THEN index'[d] = "kAdded" ELSE d \in Excepted'
    <3> SUFFICES ASSUME NEW d \in Channels, revents'[d] # {}
                 PROVE  /\ phase' = "dispatch"
                        /\ IF fd'[d] # None THEN index'[d] = "kAdded" ELSE d \in Excepted'
      OBVIOUS
    <3>0. revents[d] # {} /\ phase' = "dispatch"
      BY <1>9 DEF Destroy
    <3>1. CASE d = c
      BY <1>9, <2>0, <3>0, <3>1 DEF Destroy
    <3>2. CASE d # c
      BY <1>9, <2>0, <3>0, <3>2 DEF Destroy
    <3> QED
      BY <3>1, <3>2
  <2>3. CASE handled = c
    BY <1>9, <2>1, <2>2, <2>3 DEF Destroy
  <2>4. CASE handled # c
    BY <1>9, <2>1, <2>2, <2>4 DEF Destroy
  <2> QED
    BY <2>3, <2>4
<1>10. ASSUME NEW c \in Channels, HandleDestroyed(c) PROVE Dispatching'
  BY <1>10 DEF HandleDestroyed
<1>11. ASSUME NEW u \in Users, StoreDisconnecting(u) PROVE Dispatching'
  BY <1>11 DEF StoreDisconnecting
<1>12. CASE \/ PollNothing \/ HandleEventReturns \/ DispatchEnds \/ FunctorsEnd
            \/ DestroyServer \/ UNCHANGED vars
            \/ \E c \in Channels : Shutdown(c) \/ \E u \in Users : TestForShutdown(u, c)
  BY <1>12 DEF PollNothing, HandleEventReturns, DispatchEnds, FunctorsEnd, DestroyServer,
               Shutdown, TestForShutdown
<1> QED
  BY <1>1, <1>2, <1>3, <1>4, <1>5, <1>6, <1>7, <1>8, <1>9, <1>10, <1>11, <1>12 DEF Next

\* Registering a channel, or taking it out, keeps the two tables in step.
LEMMA UpdatedRegistration ==
  ASSUME IInv, NEW c, NEW ev, NEW i \in {"kAdded", "kDeleted"}, Updated(c, ev, i),
         UNCHANGED <<fd, overwritten, dropped>>
  PROVE  Registration'
<1> USE DEF IInv, TypeOK, Updated
<1>1. ASSUME NEW d \in Channels, index'[d] # "kNew" PROVE channels'[fd'[d]] = d
  BY <1>1 DEF Registration, FdsDistinct, Lifecycle, Life
<1>2. ASSUME NEW f \in Fds, channels'[f] # None
      PROVE  \/ channels'[f] \in Excepted'
             \/ fd'[channels'[f]] = f /\ index'[channels'[f]] # "kNew"
  BY <1>2 DEF Registration, Excepted
<1>3. ASSUME NEW d \in Channels, index'[d] = "kAdded"
      PROVE  interest'[fd'[d]] = [ptr |-> d, events |-> events'[d]]
  <2>1. CASE d = c
    BY <1>3, <2>1
  <2>2. CASE d # c
    <3>1. index[d] = "kAdded" /\ fd[d] # fd[c] /\ fd[d] \in Fds
      BY <1>3, <2>2 DEF FdsDistinct, Lifecycle, Life
    <3>2. interest'[fd'[d]] = interest[fd[d]] /\ events'[d] = events[d]
      BY <2>2, <3>1
    <3>3. interest[fd[d]] = [ptr |-> d, events |-> events[d]]
      BY <3>1 DEF Registration
    <3> QED
      BY <3>2, <3>3
  <2> QED
    BY <2>1, <2>2
<1>4. ASSUME NEW f \in Fds, interest'[f] # None
      PROVE  interest'[f].ptr \in Channels /\ fd'[interest'[f].ptr] = f
               /\ index'[interest'[f].ptr] = "kAdded"
  <2>1. CASE f = fd[c]
    BY <1>4, <2>1
  <2>2. CASE f # fd[c]
    BY <1>4, <2>2 DEF Registration
  <2> QED
    BY <2>1, <2>2
<1> QED
  BY <1>1, <1>2, <1>3, <1>4 DEF Registration

\* Taking a channel out of both tables keeps them in step.
LEMMA Unregistered ==
  ASSUME IInv, NEW c \in Channels, fd[c] \in Fds,
         index' = [index EXCEPT ![c] = "kNew"],
         channels' = [channels EXCEPT ![fd[c]] = None],
         interest' = [interest EXCEPT ![fd[c]] = None],
         UNCHANGED <<fd, events>>, Excepted' = Excepted
  PROVE  Registration'
<1> USE DEF IInv, TypeOK, Registration
<1>1. \A d \in Channels : index[d] # "kNew" /\ d # c => fd[d] # fd[c] /\ fd[d] \in Fds
  BY DEF FdsDistinct, Lifecycle, Life
<1>2. \A d \in Channels : index'[d] # "kNew" => d # c /\ index[d] = index'[d]
  OBVIOUS
<1>3. \A d \in Channels : index'[d] # "kNew" => channels'[fd'[d]] = d
  BY <1>1, <1>2
<1>4. \A f \in Fds : channels'[f] # None =>
        \/ channels'[f] \in Excepted'
        \/ fd'[channels'[f]] = f /\ index'[channels'[f]] # "kNew"
  OBVIOUS
<1>5. \A d \in Channels : index'[d] = "kAdded" =>
        interest'[fd'[d]] = [ptr |-> d, events |-> events'[d]]
  BY <1>1, <1>2
<1>6. \A f \in Fds : interest'[f] # None =>
        interest'[f].ptr \in Channels /\ fd'[interest'[f].ptr] = f
          /\ index'[interest'[f].ptr] = "kAdded"
  OBVIOUS
<1> QED
  BY <1>3, <1>4, <1>5, <1>6

\* channels_ and the kernel's list go on describing the same channels.
LEMMA NextRegistration == IInv /\ [Next]_vars => Registration'
<1> SUFFICES ASSUME IInv, [Next]_vars PROVE Registration'
  OBVIOUS
<1> USE DEF connVars, threadVars
<1>1. CASE HandleClose
  BY <1>1, HandleCloseUpdates, UpdatedRegistration DEF HandleClose
<1>2. CASE HandleWriteDrained
  BY <1>2, HandleWriteDrainedUpdates, UpdatedRegistration DEF HandleWriteDrained
<1>3. ASSUME NEW c \in Channels, EnableReading(c) PROVE Registration'
  BY <1>3, EnableReadingUpdates, UpdatedRegistration DEF EnableReading
<1>4. ASSUME NEW c \in Channels, EnableWriting(c) PROVE Registration'
  BY <1>4, EnableWritingUpdates, UpdatedRegistration DEF EnableWriting
<1> USE DEF IInv, TypeOK, Registration
<1>5. ASSUME NEW c \in Channels, ConnectDestroyed(c) PROVE Registration'
  <2>0. c \in closed
    BY <1>5 DEF ConnectDestroyed, Lifecycle, Life
  <2>1. /\ fd' = fd /\ fd[c] \in Fds /\ Excepted' = Excepted
        /\ index' = [index EXCEPT ![c] = "kNew"]
        /\ channels' = [channels EXCEPT ![fd[c]] = None]
        /\ interest' = [interest EXCEPT ![fd[c]] = None]
        /\ UNCHANGED events
    BY <1>5, <2>0, RemoveChannelIs DEF ConnectDestroyed, Excepted
  <2> QED
    BY <2>1, Unregistered
<1>6. ASSUME NEW c \in Channels, Destroy(c) PROVE Registration'
  <2>1. /\ fd[c] \in Fds /\ Excepted \subseteq Excepted'
        /\ index[c] # "kNew" => c \in Excepted'
    BY <1>6, DestroyedIsExcepted
  <2>2. /\ fd' = [fd EXCEPT ![c] = None] /\ events' = [events EXCEPT ![c] = {}]
        /\ index' = [index EXCEPT ![c] = "kNew"] /\ channels' = channels
        /\ interest' = [interest EXCEPT ![fd[c]] = None]
    BY <1>6 DEF Destroy
  <2>3. \A d \in Channels : index[d] # "kNew" /\ d # c => fd[d] # fd[c] /\ fd[d] \in Fds
    BY <2>1 DEF FdsDistinct, Lifecycle, Life
  <2>4. \A d \in Channels : index'[d] # "kNew" =>
          d # c /\ index[d] = index'[d] /\ fd'[d] = fd[d] /\ events'[d] = events[d]
    BY <2>2
  <2>5. \A d \in Channels : index'[d] # "kNew" => channels'[fd'[d]] = d
    BY <2>2, <2>4
  <2>6. \A f \in Fds : channels'[f] # None =>
          \/ channels'[f] \in Excepted'
          \/ fd'[channels'[f]] = f /\ index'[channels'[f]] # "kNew"
    BY <2>1, <2>2
  <2>7. \A d \in Channels : index'[d] = "kAdded" =>
          interest'[fd'[d]] = [ptr |-> d, events |-> events'[d]]
    BY <2>2, <2>3, <2>4
  <2>8. \A f \in Fds : interest'[f] # None =>
          interest'[f].ptr \in Channels /\ fd'[interest'[f].ptr] = f
            /\ index'[interest'[f].ptr] = "kAdded"
    BY <2>1, <2>2
  <2> QED
    BY <2>5, <2>6, <2>7, <2>8
<1>7. ASSUME NEW c \in Channels, NEW f \in Fds, NewChannel(c, f) PROVE Registration'
  <2>1. fd[c] = None /\ index[c] = "kNew" /\ index' = index /\ Excepted' = Excepted
    BY <1>7 DEF NewChannel, Lifecycle, Life, Excepted
  <2>2. \A d \in Channels : index[d] # "kNew" => fd'[d] = fd[d] /\ events'[d] = events[d]
    BY <1>7, <2>1 DEF NewChannel
  <2> QED
    BY <1>7, <2>1, <2>2 DEF NewChannel, pollerVars
<1>8. CASE UNCHANGED <<fd, events, index, channels, interest>> /\ Excepted \subseteq Excepted'
  BY <1>8
<1>9. \/ UNCHANGED <<fd, events, index, channels, interest>> /\ Excepted \subseteq Excepted'
      \/ HandleClose \/ HandleWriteDrained
      \/ \E c \in Channels : \/ EnableReading(c) \/ EnableWriting(c) \/ ConnectDestroyed(c)
                             \/ Destroy(c) \/ \E f \in Fds : NewChannel(c, f)
  BY DEF Next, vars, objVars, pollerVars, Excepted, Poll, PollNothing, HandleOther,
         HandleEventReturns, DispatchEnds, FunctorsEnd, HandleEvent, HandleDestroyed,
         DestroyServer, Shutdown, TestForShutdown, StoreDisconnecting
<1> QED
  BY <1>1, <1>2, <1>3, <1>4, <1>5, <1>6, <1>7, <1>8, <1>9

\* No step fails in epoll_ctl, and only a connection whose state a foreign shutdown()
\* changed is closed again.
LEMMA NextSafe == IInv /\ [Next]_vars => (NoCtlFailure /\ closedTwice \subseteq overwritten)'
<1> SUFFICES ASSUME IInv, [Next]_vars
             PROVE  ~ctlFailed' /\ closedTwice' \subseteq overwritten'
  BY DEF NoCtlFailure
<1> USE DEF IInv, NoCtlFailure, connVars, threadVars
<1>1. CASE HandleClose
  <2>1. handled \in closed => handled \in overwritten
    BY <1>1, HandleCloseUpdates DEF Updated, Lifecycle, Life
  <2> QED
    BY <1>1, <2>1, HandleCloseUpdates DEF HandleClose, Updated
<1>2. CASE HandleWriteDrained
  BY <1>2, HandleWriteDrainedUpdates DEF HandleWriteDrained, Updated
<1>3. ASSUME NEW c \in Channels, EnableReading(c)
      PROVE  ~ctlFailed' /\ closedTwice' \subseteq overwritten'
  BY <1>3, EnableReadingUpdates DEF EnableReading, Updated
<1>4. ASSUME NEW c \in Channels, EnableWriting(c)
      PROVE  ~ctlFailed' /\ closedTwice' \subseteq overwritten'
  BY <1>4, EnableWritingUpdates DEF EnableWriting, Updated
<1>5. ASSUME NEW c \in Channels, ConnectDestroyed(c)
      PROVE  ~ctlFailed' /\ closedTwice' \subseteq overwritten'
  <2>1. c \in closed
    BY <1>5 DEF ConnectDestroyed, Lifecycle, Life, TypeOK
  <2> QED
    BY <1>5, <2>1, RemoveChannelIs DEF ConnectDestroyed
<1>6. CASE UNCHANGED <<ctlFailed, closedTwice>> /\ overwritten \subseteq overwritten'
  BY <1>6
<1>7. \/ UNCHANGED <<ctlFailed, closedTwice>> /\ overwritten \subseteq overwritten'
      \/ HandleClose \/ HandleWriteDrained
      \/ \E c \in Channels : EnableReading(c) \/ EnableWriting(c) \/ ConnectDestroyed(c)
  BY DEF Next, vars, pollerVars, Poll, PollNothing, HandleOther, HandleEventReturns,
         DispatchEnds, FunctorsEnd, HandleEvent, HandleDestroyed, Destroy, NewChannel,
         DestroyServer, Shutdown, TestForShutdown, StoreDisconnecting
<1> QED
  BY <1>1, <1>2, <1>3, <1>4, <1>5, <1>6, <1>7

\* The invariant is inductive.
LEMMA Invariance == Spec => []IInv
<1>1. IInv /\ [Next]_vars => IInv'
  BY NextTypeOK, NextFdsDistinct, NextLifecycle, NextDispatching, NextRegistration,
     NextSafe DEF IInv
<1> QED
  BY <1>1, InitIInv, PTL DEF Spec

-----------------------------------------------------------------------------
(* What the invariant says of the poller. *)

\* Every variable of the poller and its channels has its type, and the event list
\* of epoll_wait never grows past twice the number of descriptors.
THEOREM TypeCorrect == Spec => []TypeOK
<1>1. IInv => TypeOK
  BY DEF IInv
<1> QED
  BY <1>1, Invariance, PTL

\* index_, channels_ and the kernel's interest list agree on every live channel, however
\* descriptors and addresses are reused (EPollPoller::updateChannel, removeChannel), and
\* also when a late shutdown() or ~TcpServer breaks the order of a connection's end;
\* only channels_ can keep a stale entry then.
THEOREM BookkeepingIsTheKernels == Spec => []KernelMatches
<1>1. IInv => KernelMatches
  <2> SUFFICES ASSUME IInv, NEW f \in Fds
               PROVE  LET owners == {c \in Channels : fd[c] = f /\ index[c] # "kNew"}
                      IN  /\ \A c \in owners : channels[f] = c
                          /\ channels[f] # None => channels[f] \in owners \cup Excepted
                          /\ interest[f] =
                               IF \E c \in owners : index[c] = "kAdded"
                               THEN [ptr |-> channels[f], events |-> events[channels[f]]]
                               ELSE None
    BY DEF KernelMatches
  <2> USE DEF IInv, TypeOK, Registration
  <2> DEFINE owners == {c \in Channels : fd[c] = f /\ index[c] # "kNew"}
  <2>1. /\ \A c \in owners : channels[f] = c
        /\ channels[f] # None => channels[f] \in owners \cup Excepted
    OBVIOUS
  <2>2. CASE \E c \in owners : index[c] = "kAdded"
    <3>1. PICK c \in Channels : fd[c] = f /\ index[c] = "kAdded"
      BY <2>2
    <3>2. interest[f] = [ptr |-> c, events |-> events[c]] /\ channels[f] = c
      BY <3>1
    <3> QED
      BY <2>1, <2>2, <3>2
  <2>3. CASE ~\E c \in owners : index[c] = "kAdded"
    <3>1. interest[f] = None
      <4> SUFFICES ASSUME interest[f] # None PROVE FALSE
        OBVIOUS
      <4>1. interest[f].ptr \in Channels /\ fd[interest[f].ptr] = f
              /\ index[interest[f].ptr] = "kAdded"
        OBVIOUS
      <4>2. interest[f].ptr \in owners
        BY <4>1
      <4> QED
        BY <2>3, <4>1, <4>2
    <3> QED
      BY <2>1, <2>3, <3>1
  <2> QED
    BY <2>2, <2>3
<1> QED
  BY <1>1, Invariance, PTL

\* No epoll_ctl of the poller fails, so that its LOG_FATAL is never reached.
THEOREM EpollCtlSucceeds == Spec => []NoCtlFailure
<1>1. IInv => NoCtlFailure
  BY DEF IInv
<1> QED
  BY <1>1, Invariance, PTL

\* The kernel never has the address of a destroyed Channel, and activeChannels_,
\* channels_ and a running handleEvent have one only of a channel that a late foreign
\* shutdown() let come back, or that ~TcpServer destroyed under a running loop.
THEOREM NoPointerOutlivesItsChannel == Spec => []NoDangling
<1>1. IInv => NoDangling
  <2> SUFFICES ASSUME IInv PROVE NoDangling
    OBVIOUS
  <2> USE DEF IInv, TypeOK, Alive
  <2>1. \A c \in Channels : index[c] # "kNew" => fd[c] # None
    BY DEF Lifecycle, Life
  <2>2. \A c \in Channels : revents[c] # {} => c \in Alive \cup Excepted
    BY DEF Dispatching
  <2>3. \A f \in Registered : interest[f].ptr \in Alive
    BY DEF Registration, Registered
  <2>4. \A f \in Fds : channels[f] # None => channels[f] \in Alive \cup Excepted
    BY <2>1 DEF Registration
  <2> QED
    BY <2>2, <2>3, <2>4 DEF NoDangling, Dispatching
<1> QED
  BY <1>1, Invariance, PTL

\* A channel that handleClose disabled is never registered again, and no other
\* callback or event closes its connection a second time, unless a foreign shutdown()
\* stored kDisconnecting over its kDisconnected.
THEOREM ClosedChannelsStayOut == Spec => []ClosedIsFinal
<1>1. IInv => ClosedIsFinal
  BY DEF IInv, TypeOK, Lifecycle, Life, ClosedIsFinal
<1> QED
  BY <1>1, Invariance, PTL
==============================================================================
