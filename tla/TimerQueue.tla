----------------------------- MODULE TimerQueue -----------------------------
(****************************************************************************)
(* TimerQueue, Timer and TimerId (src/src/net/TimerQueue.cc, Timer.cc): the *)
(* two ordered sets, the timerfd that is armed for the earliest entry, and  *)
(* the heap in which Timer objects are created by any thread and deleted by *)
(* the loop thread, so that addresses are reused.                           *)
(*                                                                          *)
(* One unit of time is the shortest delay the timerfd is armed with (100    *)
(* microseconds).  The timerfd follows the monotonic clock, expirations are *)
(* wall-clock times; the wall clock may be set while the program runs.      *)
(****************************************************************************)
EXTENDS Integers, Sequences, FiniteSets

CONSTANTS Addresses,  \* where Timer objects can live, ordered: a set of numbers
          Threads,    \* threads other than the loop thread
          Intervals,  \* interval_ of repeating timers, without 0
          MaxTime,    \* bound: ticks of the monotonic clock
          MaxCreated, \* bound: Timer objects created
          MaxSteps,   \* bound: times the wall clock is set
          Nothing     \* no Timer, no expiration, no TimerId

ASSUME AddressesAssumption == Addresses \subseteq Nat /\ Intervals \subseteq Nat \ {0}
ASSUME TimeAssumption == MaxTime \in Nat /\ MaxCreated \in Nat /\ MaxSteps \in Nat

\* A Timer object.
TimerSet == [expiration : Int, interval : Nat, sequence : Nat]

ASSUME NothingAssumption == Nothing \notin Nat \cup (Addresses \X Nat) \cup TimerSet

VARIABLES
  mono, offset, steps, \* the clocks: wall time is mono + offset
  armed,     \* when the timerfd expires, Nothing if it is disarmed
  readable,  \* the timerfd has expired and was not read
  reported,  \* its channel is in activeChannels_
  heap,      \* heap[a]: the Timer at a, Nothing if there is none
  created,   \* s_numCreated_
  timers,    \* timers_: <<expiration, address>>
  active,    \* activeTimers_: <<address, sequence>>
  canceling, \* cancelingTimers_
  calling,   \* callingExpiredTimers_
  pc,        \* the loop thread: "idle", "calling", "callback"
  batch,     \* expired, the local of handleRead
  torun,     \* the entries of it not run yet
  at,        \* now, the local of handleRead
  functors,  \* the loop's pending functors that are about timers
  adding,    \* adding[t]: the timer t just handed over, before addTimer returns
  ids,       \* TimerIds that addTimer returned
  asked,     \* sequences somebody asked to cancel
  cancelled, \* those for which cancelInLoop ran and had not overtaken the addition
  fired,     \* sequences of one-shot timers that were run
  gone       \* ~TimerQueue has run

clockVars == <<mono, offset, steps>>
fdVars == <<armed, readable, reported>>
setVars == <<timers, active, canceling>>
readVars == <<calling, pc, batch, torun, at>>
userVars == <<functors, adding, ids, asked>>
ghostVars == <<cancelled, fired, gone>>
vars == <<clockVars, fdVars, heap, created, setVars, readVars, userVars, ghostVars>>

wall == mono + offset
addTime(timestamp, units) == timestamp + units
EntryBefore(e, f) == e[1] < f[1] \/ (e[1] = f[1] /\ e[2] <= f[2])
First(S) == CHOOSE e \in S : \A f \in S : EntryBefore(e, f)

Init ==
  /\ mono = 0 /\ offset = 0 /\ steps = 0
  /\ armed = Nothing /\ readable = FALSE /\ reported = FALSE
  /\ heap = [a \in Addresses |-> Nothing] /\ created = 0
  /\ timers = {} /\ active = {} /\ canceling = {}
  /\ calling = FALSE /\ pc = "idle" /\ batch = {} /\ torun = {} /\ at = 0
  /\ functors = <<>> /\ adding = [t \in Threads |-> Nothing] /\ ids = {} /\ asked = {}
  /\ cancelled = {} /\ fired = {} /\ gone = FALSE

-----------------------------------------------------------------------------
(* The kernel. *)

Tick ==
  /\ mono < MaxTime
  /\ mono' = mono + 1
  /\ IF armed = mono + 1 THEN armed' = Nothing /\ readable' = TRUE
                         ELSE UNCHANGED <<armed, readable>>
  /\ UNCHANGED <<offset, steps, reported, heap, created, setVars, readVars, userVars,
                 ghostVars>>

SetWallClock ==
  /\ steps < MaxSteps
  /\ steps' = steps + 1 /\ offset' \in {offset - 2, offset + 1}
  /\ UNCHANGED <<mono, fdVars, heap, created, setVars, readVars, userVars, ghostVars>>

\* epoll_wait reports the timerfd.
Poll ==
  /\ pc = "idle" /\ readable /\ ~reported /\ ~gone
  /\ reported' = TRUE
  /\ UNCHANGED <<clockVars, armed, readable, heap, created, setVars, readVars,
                 userVars, ghostVars>>

\* resetTimerfd with howMuchTimeFromNow: never sooner than one unit from now;
\* an expiration that was not read yet is forgotten.
resetTimerfd(when) ==
  /\ armed' = mono + (IF when - wall < 1 THEN 1 ELSE when - wall)
  /\ readable' = FALSE

-----------------------------------------------------------------------------
(* The loop thread's operations on the sets. *)

\* insert: TRUE if the new timer is now the earliest.
insert(a, timer) ==
  /\ timers' = timers \cup {<<timer.expiration, a>>}
  /\ active' = active \cup {<<a, timer.sequence>>}

earliestChanged(when) == timers = {} \/ when < First(timers)[1]

\* Mutant: re-arms only for the first timer.
addTimerInLoopFirstOnly(a, timer) ==
  /\ insert(a, timer)
  /\ IF timers = {} THEN resetTimerfd(timer.expiration) ELSE UNCHANGED <<armed, readable>>

addTimerInLoop(a, timer) ==
  /\ insert(a, timer)
  /\ IF earliestChanged(timer.expiration) THEN resetTimerfd(timer.expiration)
                                          ELSE UNCHANGED <<armed, readable>>

\* Mutant: looks the timer up by its address alone.
cancelInLoopByAddress(id) ==
  IF heap[id[1]] # Nothing /\ <<id[1], heap[id[1]].sequence>> \in active
  THEN /\ timers' = timers \ {<<heap[id[1]].expiration, id[1]>>}
       /\ active' = active \ {<<id[1], heap[id[1]].sequence>>}
       /\ heap' = [heap EXCEPT ![id[1]] = Nothing]
       /\ UNCHANGED canceling
  ELSE UNCHANGED <<setVars, heap>>

\* Mutant: the entry in timers_ is forgotten.
cancelInLoopLeavesEntry(id) ==
  IF id \in active
  THEN /\ active' = active \ {id}
       /\ heap' = [heap EXCEPT ![id[1]] = Nothing]
       /\ UNCHANGED <<timers, canceling>>
  ELSE UNCHANGED <<setVars, heap>>

\* cancelInLoop: delete a waiting timer, or remember one that is being run.
cancelInLoop(id) ==
  IF id \in active
  THEN /\ timers' = timers \ {<<heap[id[1]].expiration, id[1]>>}
       /\ active' = active \ {id}
       /\ heap' = [heap EXCEPT ![id[1]] = Nothing]
       /\ UNCHANGED canceling
  ELSE /\ canceling' = IF calling THEN canceling \cup {id} ELSE canceling
       /\ UNCHANGED <<timers, active, heap>>

-----------------------------------------------------------------------------
(* The operations of EventLoop: runAt, runAfter, runEvery and cancel. *)

\* The loop thread runs code of the application.
InUserCode == pc \in {"idle", "callback"} /\ ~gone

\* Mutant: the counter is advanced once more.
NewTimerSkips(when, interval) ==
  [expiration |-> when, interval |-> interval, sequence |-> created + 2]

\* new Timer, with ++s_numCreated_.
NewTimer(when, interval) ==
  [expiration |-> when, interval |-> interval, sequence |-> created + 1]

\* addTimer by the loop thread: runInLoop runs addTimerInLoop in place.
AddTimer(when, interval) ==
  /\ InUserCode /\ created < MaxCreated
  /\ \E a \in Addresses :
       LET timer == NewTimer(when, interval) IN
       /\ heap[a] = Nothing
       /\ heap' = [heap EXCEPT ![a] = timer]
       /\ addTimerInLoop(a, timer)
       /\ ids' = ids \cup {<<a, timer.sequence>>}
  /\ created' = created + 1
  /\ UNCHANGED <<clockVars, reported, canceling, readVars, functors, adding, asked,
                 ghostVars>>

\* addTimer by another thread, up to runInLoop, which queues addTimerInLoop.
AddTimerForeign(t, when, interval) ==
  /\ adding[t] = Nothing /\ created < MaxCreated /\ ~gone
  /\ \E a \in Addresses :
       LET timer == NewTimer(when, interval) IN
       /\ heap[a] = Nothing
       /\ heap' = [heap EXCEPT ![a] = timer]
       /\ functors' = Append(functors, [call |-> "add", id |-> <<a, timer.sequence>>])
       /\ adding' = [adding EXCEPT ![t] = <<a, timer.sequence>>]
  /\ created' = created + 1
  /\ UNCHANGED <<clockVars, fdVars, setVars, readVars, ids, asked, ghostVars>>

\* addTimer's return statement reads timer->sequence().  If the loop thread has
\* run and deleted the timer meanwhile, the read finds the old value or that of
\* the Timer now living there; any other value makes a TimerId that, like the old
\* one, matches no timer.
AddTimerReturns(t) ==
  LET id == adding[t]
      own == heap[id[1]] # Nothing /\ heap[id[1]].sequence = id[2]
      seen == {id[2]} \cup (IF heap[id[1]] = Nothing THEN {} ELSE {heap[id[1]].sequence})
  IN  /\ id # Nothing
      /\ adding' = [adding EXCEPT ![t] = Nothing]
      /\ \E s \in IF own THEN {id[2]} ELSE seen : ids' = ids \cup {<<id[1], s>>}
      /\ UNCHANGED <<clockVars, fdVars, heap, created, setVars, readVars, functors,
                     asked, ghostVars>>

Queued(id) == \E i \in DOMAIN functors : functors[i] = [call |-> "add", id |-> id]

\* cancel by the loop thread, in place and as often as it likes: it overtakes the
\* addition of a timer that is still queued, and has no effect then.
Cancel(id) ==
  /\ InUserCode
  /\ cancelInLoop(id)
  /\ asked' = asked \cup {id[2]}
  /\ cancelled' = IF Queued(id) THEN cancelled ELSE cancelled \cup {id[2]}
  /\ UNCHANGED <<clockVars, fdVars, created, readVars, functors, adding, ids, fired, gone>>

\* cancel by another thread: queues cancelInLoop.  A bound on the queue: no second
\* cancellation of a TimerId while one is queued.
CancelForeign(id) ==
  /\ ~gone
  /\ ~\E i \in DOMAIN functors : functors[i] = [call |-> "cancel", id |-> id]
  /\ functors' = Append(functors, [call |-> "cancel", id |-> id])
  /\ asked' = asked \cup {id[2]}
  /\ UNCHANGED <<clockVars, fdVars, heap, created, setVars, readVars, adding, ids,
                 ghostVars>>

\* doPendingFunctors runs the oldest one.
RunFunctor ==
  /\ pc = "idle" /\ ~reported /\ functors # <<>> /\ ~gone
  /\ functors' = Tail(functors)
  /\ LET f == Head(functors) IN
     \/ /\ f.call = "add"
        /\ addTimerInLoop(f.id[1], heap[f.id[1]])
        /\ UNCHANGED <<heap, canceling, cancelled>>
     \/ /\ f.call = "cancel"
        /\ cancelInLoop(f.id)
        /\ cancelled' = cancelled \cup {f.id[2]}
        /\ UNCHANGED <<armed, readable>>
  /\ UNCHANGED <<clockVars, reported, created, readVars, adding, ids, asked, fired, gone>>

-----------------------------------------------------------------------------
(* handleRead. *)

\* now, readTimerfd (which may find nothing if the timerfd was re-armed since it
\* was reported), getExpired, and the start of the loop over expired.
HandleRead ==
  /\ pc = "idle" /\ reported
  /\ LET expired == {e \in timers : e[1] <= wall} IN
     /\ batch' = expired /\ torun' = expired
     /\ timers' = timers \ expired
     /\ active' = active \ {<<e[2], heap[e[2]].sequence>> : e \in expired}
  /\ at' = wall /\ readable' = FALSE /\ reported' = FALSE
  /\ calling' = TRUE /\ canceling' = {} /\ pc' = "calling"
  /\ UNCHANGED <<clockVars, armed, heap, created, userVars, ghostVars>>

\* it.second->run()
RunTimer ==
  /\ pc = "calling" /\ torun # {}
  /\ LET e == First(torun)
         timer == heap[e[2]] IN
     /\ torun' = torun \ {e}
     /\ fired' = IF timer.interval = 0 THEN fired \cup {timer.sequence} ELSE fired
  /\ pc' = "callback"
  /\ UNCHANGED <<clockVars, fdVars, heap, created, setVars, calling, batch, at,
                 userVars, cancelled, gone>>

CallbackReturns ==
  /\ pc = "callback"
  /\ pc' = "calling"
  /\ UNCHANGED <<clockVars, fdVars, heap, created, setVars, calling, batch, torun, at,
                 userVars, ghostVars>>

\* Mutant: cancelingTimers_ is not looked at.
AgainUncancelled == {e \in batch : heap[e[2]].interval > 0}

\* The timers of the batch that reset() restarts; it deletes the others.
Again == {e \in batch : heap[e[2]].interval > 0 /\
                        <<e[2], heap[e[2]].sequence>> \notin canceling}

\* Mutant: the timerfd is re-armed only when a timer was restarted.
RearmRestarted(entries) ==
  IF Again # {} THEN resetTimerfd(First(entries)[1]) ELSE UNCHANGED <<armed, readable>>

\* The end of reset(): the timerfd is armed for the earliest entry, if any.
Rearm(entries) ==
  IF entries # {} THEN resetTimerfd(First(entries)[1]) ELSE UNCHANGED <<armed, readable>>

\* Timer::restart; reset() calls it for repeating timers only.
restart(timer, now) == [timer EXCEPT !.expiration = addTime(now, timer.interval)]

\* reset().
Reset ==
  /\ pc = "calling" /\ torun = {}
  /\ LET restarted(a) == restart(heap[a], at)
         all == timers \cup {<<restarted(e[2]).expiration, e[2]>> : e \in Again} IN
     /\ timers' = all
     /\ active' = active \cup {<<e[2], heap[e[2]].sequence>> : e \in Again}
     /\ heap' = [a \in Addresses |->
                   IF \E e \in Again : e[2] = a THEN restarted(a)
                   ELSE IF \E e \in batch : e[2] = a THEN Nothing ELSE heap[a]]
     /\ Rearm(all)
  /\ calling' = FALSE /\ pc' = "idle" /\ batch' = {}
  /\ UNCHANGED <<clockVars, reported, created, canceling, torun, at, userVars, ghostVars>>

\* ~TimerQueue, once loop() has returned: deletes the timers that wait.  The functors
\* that did not run are destroyed, but not the Timers they were to add; functors keeps
\* them to tell which these are.
Destructor ==
  /\ pc = "idle" /\ ~reported /\ ~gone
  /\ gone' = TRUE
  /\ armed' = Nothing /\ readable' = FALSE
  /\ heap' = [a \in Addresses |-> IF \E e \in timers : e[2] = a THEN Nothing ELSE heap[a]]
  /\ timers' = {} /\ active' = {} /\ canceling' = {}
  /\ UNCHANGED <<clockVars, reported, created, readVars, userVars, cancelled, fired>>

-----------------------------------------------------------------------------
Whens == 0..MaxTime
Next ==
  \/ Tick \/ SetWallClock \/ Poll \/ RunFunctor
  \/ HandleRead \/ RunTimer \/ CallbackReturns \/ Reset \/ Destructor
  \/ \E when \in Whens, interval \in Intervals \cup {0} :
       AddTimer(when, interval) \/ \E t \in Threads : AddTimerForeign(t, when, interval)
  \/ \E t \in Threads : AddTimerReturns(t)
  \/ \E id \in ids : Cancel(id) \/ CancelForeign(id)

Spec == Init /\ [][Next]_vars

-----------------------------------------------------------------------------
(* Properties. *)

Entries == Int \X Addresses
Ids == Addresses \X (1..created)

\* Every variable has its type, and no sequence number is in use that was not
\* handed out.
TypeOK ==
  /\ mono \in 0..MaxTime /\ offset \in Int /\ steps \in 0..MaxSteps
  /\ armed \in Nat \cup {Nothing} /\ readable \in BOOLEAN /\ reported \in BOOLEAN
  /\ created \in 0..MaxCreated
  /\ \A a \in Addresses :
       heap[a] \in {Nothing} \cup [expiration : Int, interval : Intervals \cup {0},
                                   sequence : 1..created]
  /\ timers \subseteq Entries /\ batch \subseteq Entries /\ torun \subseteq batch
  /\ active \subseteq Ids /\ canceling \subseteq Ids /\ ids \subseteq Ids
  /\ calling \in BOOLEAN /\ pc \in {"idle", "calling", "callback"} /\ at \in Int
  /\ functors \in Seq([call : {"add", "cancel"}, id : Ids])
  /\ adding \in [Threads -> Ids \cup {Nothing}]
  /\ asked \subseteq 1..created /\ cancelled \subseteq asked /\ fired \subseteq 1..created
  /\ gone \in BOOLEAN

\* timers_ and activeTimers_ hold the same Timer objects, each once, under its
\* own expiration and its own sequence, and every object they, the expired batch
\* and the queued additions point to is alive and in one place only.  After
\* ~TimerQueue this leaves only the Timers whose addition was never run.
SetsMatch ==
  LET queued == {functors[i].id : i \in {j \in DOMAIN functors : functors[j].call = "add"}}
      held == [a \in Addresses |->
                 Cardinality({e \in timers : e[2] = a}) + Cardinality({e \in batch : e[2] = a})
                   + Cardinality({q \in queued : q[1] = a})]
  IN  /\ \A e \in timers \cup batch :
           heap[e[2]] # Nothing /\ heap[e[2]].expiration = e[1]
      /\ active = {<<e[2], heap[e[2]].sequence>> : e \in timers}
      /\ \A q \in queued : heap[q[1]] # Nothing /\ heap[q[1]].sequence = q[2]
      /\ \A a \in Addresses : held[a] = IF heap[a] = Nothing THEN 0 ELSE 1

\* A Timer is deleted only after somebody asked to cancel this very timer, or
\* when it was a one-shot that ran, or with the queue: a TimerId that outlived its timer never hits
\* the Timer that now lives at the same address.
NoTimerLost ==
  \A s \in 1..created :
    \/ \E a \in Addresses : heap[a] # Nothing /\ heap[a].sequence = s
    \/ s \in asked \cup fired \/ gone

\* A timer that was cancelled never waits again once handleRead has returned, and no
\* addition of it is still to come: a repeating one cancelled from a callback of its
\* own batch does not restart, and a cancel from another thread, whose functor runs
\* after that of the addition, is never without effect.  The exception is the loop
\* thread's own cancel of a timer that another thread's functor has yet to add.
CancelledIsGone ==
  /\ pc = "idle" => \A e \in timers : heap[e[2]].sequence \notin cancelled
  /\ \A a \in Addresses : \A s \in cancelled : ~Queued(<<a, s>>)

\* When timers wait, the timerfd is armed or its expiration is still to be
\* handled, also after the wall clock was set and after the earliest timer was
\* cancelled.
ArmedWhenPending ==
  timers # {} => armed # Nothing \/ readable \/ reported \/ pc # "idle"

\* As long as the wall clock is not set, the timerfd expires no later than the
\* earliest timer is due, or at the next unit of time if that is already past.
NeverLate ==
  steps = 0 /\ timers # {} /\ pc = "idle" /\ ~readable /\ ~reported =>
    armed <= IF First(timers)[1] > mono + 1 THEN First(timers)[1] ELSE mono + 1
==============================================================================
