----------------------------- MODULE EPollPoller -----------------------------
(****************************************************************************)
(* Channel and EPollPoller (src/src/net/Channel.cc, EPollPoller.cc) inside  *)
(* one loop thread: the Channel objects of connections that are accepted,   *)
(* established, written to, closed and destroyed, the poller's channels_    *)
(* map, and the kernel's interest list.  Addresses of Channel objects and   *)
(* file descriptors are both reused.                                        *)
(*                                                                          *)
(* The owner of a channel behaves as TcpConnection does, with its state_:   *)
(* handleClose runs disableAll at once and connectDestroyed is queued, so   *)
(* that remove() comes later, in a functor, and the destructor when the     *)
(* last TcpConnectionPtr goes.  Two things from other threads disturb this: *)
(* a shutdown() that stores kDisconnecting over the loop's kDisconnected    *)
(* (TcpConnection.cc:90-91), after which sendInLoop registers the channel   *)
(* again, and ~TcpServer, which drops connections_ while the pool's loops   *)
(* run.  Both are steps of this module; what they can break is exactly what *)
(* the properties except.                                                   *)
(****************************************************************************)
EXTENDS Naturals, Sequences, FiniteSets

CONSTANTS Channels, \* addresses at which Channel objects can live
          Fds,      \* file descriptors
          Users,    \* threads other than the loop's that call shutdown()
          None,     \* no fd, no channel, no entry
          kInitEventListSize \* events_ at the start, 16 in the code

\* What the kernel keeps for a descriptor.
Entries == [ptr : Channels, events : SUBSET {"read", "write"}]

ASSUME NoneAssumption == None \notin Channels \cup Fds \cup Entries
ASSUME FdsAssumption == IsFiniteSet(Fds)
ASSUME EventListAssumption == kInitEventListSize \in Nat \ {0}

VARIABLES
  phase,     \* "poll", "dispatch" or "functors": the parts of one iteration
  fd,        \* fd[c]: the descriptor of the object at c, None if there is none
  events,    \* events_ of each channel
  index,     \* index_: kNew, kAdded or kDeleted
  state,     \* state_ of each channel's connection
  closed,    \* channels whose connection ran handleClose
  removed,   \* those whose connectDestroyed has run too
  pending,   \* pending[c]: removals of c's connection still on their way
  closedTwice, \* channels whose connection ran handleClose a second time
  op,        \* op[u]: the connection whose state_ thread u has tested, or None
  serverGone, \* ~TcpServer has dropped connections_
  overwritten, \* channels whose kDisconnected a foreign shutdown() replaced
  dropped,   \* channels destroyed with ~TcpServer before their connectDestroyed
  usedDead,  \* channels that the loop used after their destruction
  channels,  \* channels_: fd -> channel
  interest,  \* the kernel: fd -> [ptr, events]
  revents,   \* revents_ reported for the pointers in activeChannels_, else {}
  handled,   \* the channel whose handleEvent is running
  calls,     \* the callbacks that handleEvent has still to make
  listSize,  \* events_.size()
  ctlFailed  \* some epoll_ctl returned an error

objVars == <<fd, events, index>>
pollerVars == <<channels, interest, ctlFailed>>
connVars == <<state, closed, removed, pending, closedTwice>>
threadVars == <<op, serverGone, overwritten, dropped>>
vars == <<phase, objVars, connVars, threadVars, usedDead, pollerVars, revents,
          handled, calls, listSize>>

Alive == {c \in Channels : fd[c] # None}
isWriting(c) == "write" \in events[c]

Init ==
  /\ phase = "functors"
  /\ fd = [c \in Channels |-> None]
  /\ events = [c \in Channels |-> {}]
  /\ index = [c \in Channels |-> "kNew"]
  /\ state = [c \in Channels |-> "kDisconnected"]
  /\ closed = {} /\ removed = {} /\ closedTwice = {}
  /\ pending = [c \in Channels |-> 0]
  /\ op = [u \in Users |-> None]
  /\ serverGone = FALSE /\ overwritten = {} /\ dropped = {} /\ usedDead = {}
  /\ channels = [f \in Fds |-> None] /\ interest = [f \in Fds |-> None]
  /\ revents = [c \in Channels |-> {}]
  /\ handled = None /\ calls = <<>>
  /\ listSize = kInitEventListSize
  /\ ctlFailed = FALSE

-----------------------------------------------------------------------------
(* The poller. *)

\* update(): epoll_ctl.  ADD of a registered descriptor and MOD or DEL of one
\* that is not registered fail; an ADD or MOD that fails aborts the process.
update(operation, c, ev) ==
  LET known == interest[fd[c]] # None
      ok == (operation = "ADD") # known
  IN  /\ ctlFailed' = (ctlFailed \/ ~ok)
      /\ interest' = IF ~ok THEN interest
                     ELSE [interest EXCEPT ![fd[c]] =
                             IF operation = "DEL" THEN None
                             ELSE [ptr |-> c, events |-> ev]]

\* Mutant: the index is not moved to kDeleted.
updateChannelKeepsIndex(c, ev) ==
  /\ events' = [events EXCEPT ![c] = ev]
  /\ IF index[c] \in {"kNew", "kDeleted"}
     THEN /\ update("ADD", c, ev)
          /\ index' = [index EXCEPT ![c] = "kAdded"]
          /\ channels' = IF index[c] = "kNew" THEN [channels EXCEPT ![fd[c]] = c]
                                              ELSE channels
     ELSE /\ update(IF ev = {} THEN "DEL" ELSE "MOD", c, ev)
          /\ UNCHANGED <<index, channels>>

\* Channel::update after events_ became ev: EPollPoller::updateChannel.
updateChannel(c, ev) ==
  /\ events' = [events EXCEPT ![c] = ev]
  /\ IF index[c] \in {"kNew", "kDeleted"}
     THEN /\ update("ADD", c, ev)
          /\ index' = [index EXCEPT ![c] = "kAdded"]
          /\ channels' = IF index[c] = "kNew" THEN [channels EXCEPT ![fd[c]] = c]
                                              ELSE channels
     ELSE /\ update(IF ev = {} THEN "DEL" ELSE "MOD", c, ev)
          /\ index' = IF ev = {} THEN [index EXCEPT ![c] = "kDeleted"] ELSE index
          /\ UNCHANGED channels

\* Mutant: channels_ keeps its entry.
removeChannelKeepsEntry(c) ==
  /\ IF index[c] = "kAdded" THEN update("DEL", c, events[c])
                            ELSE UNCHANGED <<interest, ctlFailed>>
  /\ index' = [index EXCEPT ![c] = "kNew"]
  /\ UNCHANGED <<events, channels>>

\* Channel::remove: EPollPoller::removeChannel.
removeChannel(c) ==
  /\ channels' = [channels EXCEPT ![fd[c]] = None]
  /\ IF index[c] = "kAdded" THEN update("DEL", c, events[c])
                            ELSE UNCHANGED <<interest, ctlFailed>>
  /\ index' = [index EXCEPT ![c] = "kNew"]
  /\ UNCHANGED events

\* epoll_wait: level triggered, at most events_.size() entries.  ERR and HUP
\* are reported whether asked for or not.  IN stands for EPOLLIN and EPOLLPRI:
\* a socket that the kernel reports with EPOLLPRI and EPOLLHUP is closed in both
\* directions and has EPOLLIN as well.
Reportable(ev) ==
  (IF "read" \in ev THEN {"IN"} ELSE {}) \cup
  (IF "write" \in ev THEN {"OUT"} ELSE {}) \cup {"ERR", "HUP"}

Registered == {f \in Fds : interest[f] # None}

\* Mutant: the list doubles whether it was full or not.
PollAlwaysDoubles ==
  /\ phase = "poll"
  /\ \E ready \in (SUBSET Registered) \ {{}} :
       /\ Cardinality(ready) <= listSize
       /\ revents' = [c \in Channels |->
            IF \E f \in ready : interest[f].ptr = c THEN {"HUP"} ELSE {}]
       /\ listSize' = 2 * listSize
  /\ phase' = "dispatch"
  /\ UNCHANGED <<objVars, connVars, threadVars, usedDead, pollerVars, handled, calls>>

\* poll() and fillActiveChannels: revents_ of each reported entry's channel, and
\* a list twice as long when it came back full.
Poll ==
  /\ phase = "poll"
  /\ \E ready \in (SUBSET Registered) \ {{}} :
       /\ Cardinality(ready) <= listSize
       /\ \E what \in [ready -> (SUBSET {"IN", "OUT", "ERR", "HUP"}) \ {{}}] :
            /\ \A f \in ready : what[f] \subseteq Reportable(interest[f].events)
            /\ revents' = [c \in Channels |->
                 UNION {what[f] : f \in {g \in ready : interest[g].ptr = c}}]
       /\ listSize' = IF Cardinality(ready) = listSize THEN 2 * listSize ELSE listSize
  /\ phase' = "dispatch"
  /\ UNCHANGED <<objVars, connVars, threadVars, usedDead, pollerVars, handled, calls>>

\* epoll_wait timed out or was interrupted.
PollNothing ==
  /\ phase = "poll"
  /\ phase' = "dispatch"
  /\ UNCHANGED <<objVars, connVars, threadVars, usedDead, pollerVars, revents, handled,
                 calls, listSize>>

-----------------------------------------------------------------------------
(* Dispatch: Channel::handleEventWithGuard. *)

\* The callbacks for a value of revents_, in the order of the four tests.
Callbacks(rev) ==
  (IF "HUP" \in rev /\ "IN" \notin rev THEN <<"close">> ELSE <<>>) \o
  (IF "ERR" \in rev THEN <<"error">> ELSE <<>>) \o
  (IF "IN" \in rev THEN <<"read">> ELSE <<>>) \o
  (IF "OUT" \in rev THEN <<"write">> ELSE <<>>)

HandleEvent(c) ==
  /\ phase = "dispatch" /\ handled = None /\ revents[c] # {} /\ c \in Alive
  /\ handled' = c /\ calls' = Callbacks(revents[c])
  /\ revents' = [revents EXCEPT ![c] = {}]
  /\ UNCHANGED <<phase, objVars, connVars, threadVars, usedDead, pollerVars, listSize>>

\* handleEvent of a pointer whose Channel is gone: undefined, only recorded.
HandleDestroyed(c) ==
  /\ phase = "dispatch" /\ handled = None /\ revents[c] # {} /\ c \notin Alive
  /\ usedDead' = usedDead \cup {c}
  /\ revents' = [revents EXCEPT ![c] = {}]
  /\ UNCHANGED <<phase, objVars, connVars, threadVars, pollerVars, handled, calls,
                 listSize>>

NextCall(name) == handled # None /\ calls # <<>> /\ Head(calls) = name
CallReturns == calls' = Tail(calls)

\* closeCallback_, or readCallback_ when read returned 0: handleClose, whose
\* closeCallback_ sends the removal on its way.
HandleClose ==
  /\ NextCall("close") \/ NextCall("read")
  /\ state' = [state EXCEPT ![handled] = "kDisconnected"]
  /\ updateChannel(handled, {}) \* disableAll
  /\ closedTwice' = closedTwice \cup ({handled} \cap closed)
  /\ closed' = closed \cup {handled}
  /\ pending' = [pending EXCEPT ![handled] = @ + 1]
  /\ CallReturns
  /\ UNCHANGED <<phase, fd, removed, threadVars, usedDead, revents, handled, listSize>>

\* readCallback_ with data, errorCallback_, and writeCallback_ when nothing is
\* written or the channel is no longer writing: no channel changes.
HandleOther ==
  /\ NextCall("read") \/ NextCall("error") \/ NextCall("write")
  /\ CallReturns
  /\ UNCHANGED <<phase, objVars, connVars, threadVars, usedDead, pollerVars, revents,
                 handled, listSize>>

\* writeCallback_ when the output buffer became empty: disableWriting.
HandleWriteDrained ==
  /\ NextCall("write") /\ isWriting(handled)
  /\ updateChannel(handled, events[handled] \ {"write"})
  /\ CallReturns
  /\ UNCHANGED <<phase, fd, connVars, threadVars, usedDead, revents, handled, listSize>>

HandleEventReturns ==
  /\ handled # None /\ calls = <<>>
  /\ handled' = None
  /\ UNCHANGED <<phase, objVars, connVars, threadVars, usedDead, pollerVars, revents,
                 calls, listSize>>

DispatchEnds ==
  /\ phase = "dispatch" /\ handled = None /\ \A c \in Channels : revents[c] = {}
  /\ phase' = "functors"
  /\ UNCHANGED <<objVars, connVars, threadVars, usedDead, pollerVars, revents, handled,
                 calls, listSize>>

-----------------------------------------------------------------------------
(* What callbacks and functors do with channels. *)

InCallback == handled # None \/ phase = "functors"
LoopStands == UNCHANGED <<phase, revents, handled, calls, listSize>>

\* TcpConnection's constructor: a Channel on the accepted descriptor.  It runs in
\* the base loop's thread, at any moment of a pool's loop.
NewChannel(c, f) ==
  /\ ~serverGone /\ fd[c] = None /\ \A d \in Channels : fd[d] # f
  /\ fd' = [fd EXCEPT ![c] = f]
  /\ events' = [events EXCEPT ![c] = {}]
  /\ index' = [index EXCEPT ![c] = "kNew"]
  /\ revents' = [revents EXCEPT ![c] = {}]
  /\ state' = [state EXCEPT ![c] = "kConnecting"]
  /\ UNCHANGED <<phase, closed, removed, pending, closedTwice, threadVars, usedDead,
                 pollerVars, handled, calls, listSize>>

\* connectEstablished, in a functor or, on the base loop, in newConnection itself.
EnableReading(c) ==
  /\ InCallback /\ c \in Alive /\ state[c] = "kConnecting"
  /\ state' = [state EXCEPT ![c] = "kConnected"]
  /\ updateChannel(c, events[c] \cup {"read"})
  /\ LoopStands
  /\ UNCHANGED <<fd, closed, removed, pending, closedTwice, threadVars, usedDead>>

\* Mutant: sendInLoop does not test for kDisconnected.
EnableWritingUnchecked(c) ==
  /\ InCallback /\ c \in Alive /\ state[c] # "kConnecting"
  /\ ~isWriting(c)
  /\ updateChannel(c, events[c] \cup {"write"})
  /\ LoopStands
  /\ UNCHANGED <<fd, connVars, threadVars, usedDead>>

\* sendInLoop with bytes left over, on this connection or on another one of the
\* same loop: state_ is not kDisconnected (nor kConnecting, since send() found it
\* kConnected before), and the channel is not writing already.  index_ may be
\* kDeleted or kNew when a foreign shutdown() changed state_ after handleClose.
EnableWriting(c) ==
  /\ InCallback /\ c \in Alive /\ state[c] \notin {"kConnecting", "kDisconnected"}
  /\ ~isWriting(c)
  /\ updateChannel(c, events[c] \cup {"write"})
  /\ LoopStands
  /\ UNCHANGED <<fd, connVars, threadVars, usedDead>>

\* shutdown() called by the loop's own thread: the test and the store at once.
Shutdown(c) ==
  /\ InCallback /\ c \in Alive /\ state[c] = "kConnected"
  /\ state' = [state EXCEPT ![c] = "kDisconnecting"]
  /\ LoopStands
  /\ UNCHANGED <<objVars, closed, removed, pending, closedTwice, threadVars, usedDead,
                 pollerVars>>

\* shutdown() called by another thread: the test of state_ ...
TestForShutdown(u, c) ==
  /\ op[u] = None /\ c \in Alive /\ state[c] = "kConnected"
  /\ op' = [op EXCEPT ![u] = c]
  /\ LoopStands
  /\ UNCHANGED <<objVars, connVars, serverGone, overwritten, dropped, usedDead, pollerVars>>

\* ... and the store, which may come after handleClose's own.
StoreDisconnecting(u) ==
  /\ op[u] # None
  /\ state' = [state EXCEPT ![op[u]] = "kDisconnecting"]
  /\ overwritten' = IF state[op[u]] = "kDisconnected" THEN overwritten \cup {op[u]}
                                                     ELSE overwritten
  /\ op' = [op EXCEPT ![u] = None]
  /\ LoopStands
  /\ UNCHANGED <<objVars, closed, removed, pending, closedTwice, serverGone, dropped,
                 usedDead, pollerVars>>

\* Mutant: removeConnectionInLoop calls connectDestroyed instead of queueing it.
ConnectDestroyedAtOnce(c) ==
  /\ InCallback /\ pending[c] > 0
  /\ pending' = [pending EXCEPT ![c] = @ - 1]
  /\ removeChannel(c)
  /\ removed' = removed \cup {c}
  /\ LoopStands
  /\ UNCHANGED <<fd, state, closed, closedTwice, threadVars, usedDead>>

\* connectDestroyed, the end of a removal: remove().  Its branch for kConnected is
\* not reached, because handleClose came first (the last part of ClosedIsFinal).
ConnectDestroyed(c) ==
  /\ phase = "functors" /\ pending[c] > 0
  /\ pending' = [pending EXCEPT ![c] = @ - 1]
  /\ removeChannel(c)
  /\ removed' = removed \cup {c}
  /\ LoopStands
  /\ UNCHANGED <<fd, state, closed, closedTwice, threadVars, usedDead>>

\* ~TcpServer drops connections_; the main thread does it at any moment of a pool's
\* loop, which only threadPool_'s destructor, later, stops.
DestroyServer ==
  /\ ~serverGone
  /\ serverGone' = TRUE
  /\ LoopStands
  /\ UNCHANGED <<objVars, connVars, op, overwritten, dropped, usedDead, pollerVars>>

\* Who has a TcpConnectionPtr: connections_, the functors of a removal and of
\* connectEstablished, and a thread that calls shutdown().
Held(c) ==
  \/ ~serverGone /\ c \notin removed
  \/ pending[c] > 0
  \/ state[c] = "kConnecting"
  \/ \E u \in Users : op[u] = c

\* The last TcpConnectionPtr goes away: ~Channel, then ~Socket closes the
\* descriptor, which also drops it from the kernel's list.  Nothing is taken out of
\* channels_ or activeChannels_; a handleEvent that is running goes on with the
\* destroyed object.  The members of a dead object are reset, for nothing reads them.
Destroy(c) ==
  /\ c \in Alive /\ ~Held(c)
  /\ interest' = [interest EXCEPT ![fd[c]] = None]
  /\ fd' = [fd EXCEPT ![c] = None]
  /\ events' = [events EXCEPT ![c] = {}] /\ index' = [index EXCEPT ![c] = "kNew"]
  /\ state' = [state EXCEPT ![c] = "kDisconnected"]
  /\ closed' = closed \ {c} /\ removed' = removed \ {c}
  /\ dropped' = IF c \in removed THEN dropped ELSE dropped \cup {c}
  /\ usedDead' = IF handled = c THEN usedDead \cup {c} ELSE usedDead
  /\ handled' = IF handled = c THEN None ELSE handled
  /\ calls' = IF handled = c THEN <<>> ELSE calls
  /\ UNCHANGED <<phase, pending, closedTwice, op, serverGone, overwritten, channels,
                 ctlFailed, revents, listSize>>

FunctorsEnd ==
  /\ phase = "functors"
  /\ phase' = "poll"
  /\ UNCHANGED <<objVars, connVars, threadVars, usedDead, pollerVars, revents, handled,
                 calls, listSize>>

Next ==
  \/ Poll \/ PollNothing \/ HandleClose \/ HandleOther \/ HandleWriteDrained
  \/ HandleEventReturns \/ DispatchEnds \/ FunctorsEnd \/ DestroyServer
  \/ \E c \in Channels :
       \/ HandleEvent(c) \/ HandleDestroyed(c) \/ EnableReading(c) \/ EnableWriting(c)
       \/ Shutdown(c) \/ ConnectDestroyed(c) \/ Destroy(c)
       \/ \E f \in Fds : NewChannel(c, f)
       \/ \E u \in Users : TestForShutdown(u, c)
  \/ \E u \in Users : StoreDisconnecting(u)

Spec == Init /\ [][Next]_vars

-----------------------------------------------------------------------------
(* Properties. *)

States == {"kConnecting", "kConnected", "kDisconnecting", "kDisconnected"}

\* Every variable has its type, and the event list stays within twice the number
\* of descriptors once it had to grow.
TypeOK ==
  /\ phase \in {"poll", "dispatch", "functors"}
  /\ fd \in [Channels -> Fds \cup {None}]
  /\ events \in [Channels -> SUBSET {"read", "write"}]
  /\ index \in [Channels -> {"kNew", "kAdded", "kDeleted"}]
  /\ state \in [Channels -> States]
  /\ closed \subseteq Channels /\ removed \subseteq closed
  /\ pending \in [Channels -> Nat]
  /\ op \in [Users -> Channels \cup {None}] /\ serverGone \in BOOLEAN
  /\ closedTwice \subseteq Channels /\ overwritten \subseteq Channels
  /\ dropped \subseteq Channels /\ usedDead \subseteq Channels
  /\ channels \in [Fds -> Channels \cup {None}]
  /\ interest \in [Fds -> Entries \cup {None}]
  /\ revents \in [Channels -> SUBSET {"IN", "OUT", "ERR", "HUP"}]
  /\ handled \in Channels \cup {None}
  /\ calls \in Seq({"close", "error", "read", "write"})
  /\ listSize \in Nat \ {0}
  /\ listSize <= kInitEventListSize \/ listSize <= 2 * Cardinality(Fds)
  /\ ctlFailed \in BOOLEAN

\* The addresses about which the code promises less: a connection there lost its
\* kDisconnected to a foreign shutdown(), or was destroyed by ~TcpServer while its
\* channel was registered.
Excepted == overwritten \cup dropped

\* The poller's idea of a channel is the kernel's, however descriptors and addresses
\* are reused and however a connection ends: a channel is kAdded exactly when the
\* kernel has its descriptor, with its address and its events; channels_ has every
\* channel that is kAdded or kDeleted, and a stale entry can only be the address of
\* a channel that was re-registered after a foreign shutdown() or dropped by
\* ~TcpServer.
KernelMatches ==
  \A f \in Fds :
    LET owners == {c \in Channels : fd[c] = f /\ index[c] # "kNew"}
    IN  /\ \A c \in owners : channels[f] = c
        /\ channels[f] # None => channels[f] \in owners \cup Excepted
        /\ interest[f] =
             IF \E c \in owners : index[c] = "kAdded"
             THEN [ptr |-> channels[f], events |-> events[channels[f]]]
             ELSE None

\* No epoll_ctl fails: no ADD of a known descriptor, no MOD or DEL of an unknown
\* one, not even for a channel that is registered again after it was closed or
\* removed.  A failing ADD or MOD would abort the process (LOG_FATAL).
NoCtlFailure == ~ctlFailed

\* The kernel never has a pointer to a destroyed Channel.  Without a foreign
\* shutdown() that comes late and without ~TcpServer under running loops, neither
\* have activeChannels_ and channels_, and the loop never calls into, or goes on
\* in, the handleEvent of a destroyed Channel.
NoDangling ==
  /\ \A f \in Registered : interest[f].ptr \in Alive
  /\ usedDead \subseteq Excepted
  /\ \A c \in Channels : revents[c] # {} => c \in Alive \cup Excepted
  /\ \A f \in Fds : channels[f] # None => channels[f] \in Alive \cup Excepted

\* Once its connection is closed a channel is out of the kernel's list and never comes
\* back, and handleClose does not run again for it, unless a foreign shutdown()
\* replaced kDisconnected: neither the other callbacks of the same handleEvent nor a
\* later event or sendInLoop does it.  In no case is a closed connection kConnected
\* when connectDestroyed comes.
ClosedIsFinal ==
  /\ \A c \in closed \ overwritten : index[c] # "kAdded"
  /\ closedTwice \subseteq overwritten
  /\ \A c \in closed : state[c] # "kConnected"
==============================================================================
