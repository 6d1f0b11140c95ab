-------------------------- MODULE TimerQueueProofs --------------------------
(****************************************************************************)
(* Proofs about TimerQueue for any addresses, threads and intervals and any *)
(* values of the bounds: the types, that the two sets hold the same timers, *)
(* that no timer is lost, that a cancelled timer is gone, and that the      *)
(* timerfd is armed in time.                                                *)
(****************************************************************************)
EXTENDS TimerQueue, FiniteSetTheorems, SequenceTheorems, WellFoundedInduction, TLAPS

-----------------------------------------------------------------------------
(* The inductive invariant. *)

\* No expiration is ever earlier: the wall clock is set back by two units at a time.
Low == 0 - 2 * MaxSteps

\* The clocks, and when the timerfd expires.
Clocks ==
  /\ offset >= 0 - 2 * steps /\ (steps = 0 => offset = 0)
  /\ at >= Low
  /\ armed # Nothing => armed > mono

\* What handleRead holds, and when.
Reading ==
  /\ calling <=> pc # "idle"
  /\ pc = "idle" => batch = {}
  /\ gone => pc = "idle" /\ ~reported

\* The ids that the queued calls of addTimerInLoop and of cancelInLoop are about.
IdsOf(queue, call) == {queue[i].id : i \in {j \in DOMAIN queue : queue[j].call = call}}
Adds == IdsOf(functors, "add")
Cancels == IdsOf(functors, "cancel")

\* An addition is queued once, and before the cancellation of the same timer.
Ordered(queue) ==
  \A i, j \in DOMAIN queue : queue[j].call = "add" =>
    /\ queue[i].call = "add" /\ queue[i].id = queue[j].id => i = j
    /\ queue[i].call = "cancel" /\ queue[i].id[2] = queue[j].id[2] => j < i

\* Timer objects on the heap.
Live(a) == heap[a] # Nothing
SequencesDistinct ==
  \A a, b \in Addresses :
    Live(a) /\ Live(b) /\ heap[a].sequence = heap[b].sequence => a = b
ExpirationsBounded == \A a \in Addresses : Live(a) => heap[a].expiration >= Low

\* Whatever points to a Timer points to one that lives, under its own expiration or
\* sequence.
OnHeap ==
  /\ \A e \in timers \cup batch : Live(e[2]) /\ heap[e[2]].expiration = e[1]
  /\ \A q \in Adds : Live(q[1]) /\ heap[q[1]].sequence = q[2]
  /\ active = {<<e[2], heap[e[2]].sequence>> : e \in timers}

\* A Timer that lives is in one place: timers_, the expired batch or a queued addition.
InTimers(a) == \E e \in timers : e[2] = a
InBatch(a) == \E e \in batch : e[2] = a
InAdds(a) == \E q \in Adds : q[1] = a
OnePlace ==
  \A a \in Addresses :
    /\ Live(a) => InTimers(a) \/ InBatch(a) \/ InAdds(a)
    /\ ~(InTimers(a) /\ InBatch(a)) /\ ~(InTimers(a) /\ InAdds(a))
    /\ ~(InBatch(a) /\ InAdds(a))

\* The sequence of a TimerId belongs to its address, while the timer lives.
Known == ids \cup Cancels \cup {adding[t] : t \in {u \in Threads : adding[u] # Nothing}}
IdsTrue ==
  \A id \in Known : \A a \in Addresses : Live(a) /\ heap[a].sequence = id[2] => a = id[1]

\* Why reset() may delete a timer of the batch.
AskedFor == \A id \in canceling \cup Cancels : id[2] \in asked
FiredOnce ==
  \A e \in batch \ torun : heap[e[2]].interval = 0 => heap[e[2]].sequence \in fired

\* A cancelled timer does not wait and is not about to be added; if it is in the batch,
\* cancelingTimers_ has it.
CancelledOut ==
  /\ \A e \in timers : heap[e[2]].sequence \notin cancelled
  /\ \A q \in Adds : q[2] \notin cancelled
  /\ \A e \in batch : heap[e[2]].sequence \in cancelled
                        => <<e[2], heap[e[2]].sequence>> \in canceling

\* The timerfd expires in time for every timer that waits.
InTime(when) == IF when > mono + 1 THEN when ELSE mono + 1
Timely ==
  steps = 0 /\ pc = "idle" /\ ~readable /\ ~reported =>
    \A e \in timers : armed <= InTime(e[1])

HeapType == heap \in [Addresses -> {Nothing} \cup TimerSet]

Types == TypeOK /\ HeapType
Placement == SequencesDistinct /\ ExpirationsBounded /\ OnHeap /\ OnePlace
History == AskedFor /\ FiredOnce /\ NoTimerLost /\ CancelledOut
Arming == ArmedWhenPending /\ Timely

IInv ==
  /\ Types /\ Clocks /\ Reading /\ Ordered(functors)
  /\ Placement /\ IdsTrue /\ History /\ Arming

USE AddressesAssumption, TimeAssumption, NothingAssumption

-----------------------------------------------------------------------------
(* The ordered sets and the functor queue. *)

\* A set of natural numbers has a least element.
LEMMA LeastNatural ==
  ASSUME NEW T \in SUBSET Nat, T # {}
  PROVE  \E n \in T : \A m \in T : n <= m
<1>1. PICK n \in T : \A m \in T : ~(<<m, n>> \in OpToRel(<, Nat))
  BY NatLessThanWellFounded, WFMin, Zenon
<1>2. ASSUME NEW m \in T PROVE n <= m
  <2>1. m \in Nat /\ n \in Nat
    OBVIOUS
  <2>2. ~(m < n)
    BY <1>1, <2>1 DEF OpToRel
  <2> QED
    BY <2>1, <2>2
<1> QED
  BY <1>2

\* timers_.begin(): the entries are ordered by expiration and then by address.
LEMMA FirstIs ==
  ASSUME NEW S \in SUBSET Entries, S # {}, \A e \in S : e[1] >= Low
  PROVE  /\ First(S) \in S /\ First(S)[1] \in Int /\ First(S)[2] \in Addresses
         /\ \A e \in S : First(S)[1] <= e[1]
<1>0. Low \in Int /\ \A e \in S : e = <<e[1], e[2]>> /\ e[1] \in Int /\ e[2] \in Addresses
  BY DEF Low, Entries
<1> DEFINE delays == {e[1] - Low : e \in S}
<1>1. delays \in SUBSET Nat /\ delays # {} /\ \A e \in S : e[1] - Low \in delays
  BY <1>0
<1>2. PICK d \in S : \A e \in S : d[1] <= e[1]
  <2>1. PICK m \in delays : \A n \in delays : m <= n
    <3> HIDE DEF delays
    <3> QED
      BY <1>1, LeastNatural
  <2>2. PICK d \in S : d[1] - Low = m
    BY <2>1
  <2>3. ASSUME NEW e \in S PROVE d[1] <= e[1]
    <3>1. d[1] - Low <= e[1] - Low
      BY <1>1, <2>1, <2>2
    <3> QED
      BY <1>0, <3>1
  <2> QED
    BY <2>3
<1> DEFINE places == {e[2] : e \in {f \in S : f[1] = d[1]}}
<1>3. places \in SUBSET Nat /\ places # {} /\ \A e \in S : e[1] = d[1] => e[2] \in places
  BY <1>0
<1>4. PICK a \in places : \A b \in places : a <= b
  <2> HIDE DEF places
  <2> QED
    BY <1>3, LeastNatural
<1>5. PICK c \in S : c[1] = d[1] /\ c[2] = a
  BY <1>4
<1>6. \A f \in S : EntryBefore(c, f)
  BY <1>0, <1>2, <1>3, <1>4, <1>5 DEF EntryBefore
<1>7. First(S) \in S /\ \A f \in S : EntryBefore(First(S), f)
  BY <1>6 DEF First
<1> QED
  BY <1>0, <1>7 DEF EntryBefore

\* A sequence over a set is one over a larger set.
LEMMA SeqLarger ==
  ASSUME NEW S, NEW T, S \subseteq T, NEW queue \in Seq(S)
  PROVE  queue \in Seq(T)
<1>1. queue \in [1..Len(queue) -> T] /\ Len(queue) \in Nat
  OBVIOUS
<1> QED
  BY <1>1

\* The queue after a functor was appended.
LEMMA Appended ==
  ASSUME NEW F, NEW queue \in Seq(F), NEW f \in F, Ordered(queue),
         f.call = "add" => /\ f.id \notin IdsOf(queue, "add")
                           /\ \A id \in IdsOf(queue, "cancel") : id[2] # f.id[2]
  PROVE  /\ Append(queue, f) \in Seq(F) /\ Ordered(Append(queue, f))
         /\ \A call : IdsOf(Append(queue, f), call) =
              IdsOf(queue, call) \cup (IF f.call = call THEN {f.id} ELSE {})
<1> DEFINE longer == Append(queue, f)
           last == Len(queue) + 1
<1>1. /\ longer \in Seq(F)
      /\ DOMAIN longer = DOMAIN queue \cup {last} /\ last \notin DOMAIN queue
      /\ \A i \in DOMAIN queue : i \in Nat /\ i < last
      /\ \A i \in DOMAIN queue : longer[i] = queue[i]
      /\ longer[last] = f
  OBVIOUS
<1> HIDE DEF longer, last
<1>2. ASSUME NEW call
      PROVE  IdsOf(longer, call) = IdsOf(queue, call) \cup (IF f.call = call THEN {f.id} ELSE {})
  BY <1>1 DEF IdsOf
<1>3. Ordered(longer)
  <2>1. ASSUME NEW i \in DOMAIN longer, NEW j \in DOMAIN longer, longer[j].call = "add"
        PROVE  /\ longer[i].call = "add" /\ longer[i].id = longer[j].id => i = j
               /\ longer[i].call = "cancel" /\ longer[i].id[2] = longer[j].id[2] => j < i
    <3>1. CASE i \in DOMAIN queue /\ j \in DOMAIN queue
      BY <1>1, <2>1, <3>1 DEF Ordered
    <3>2. CASE i = last /\ j \in DOMAIN queue
      BY <1>1, <2>1, <3>2 DEF IdsOf
    <3>3. CASE j = last /\ i \in DOMAIN queue
      BY <1>1, <2>1, <3>3 DEF IdsOf
    <3>4. CASE i = last /\ j = last
      BY <1>1, <2>1, <3>4
    <3> QED
      BY <1>1, <3>1, <3>2, <3>3, <3>4
  <2> QED
    BY <2>1 DEF Ordered
<1> QED
  BY <1>1, <1>2, <1>3 DEF longer

\* The queue after its first functor was taken off.
LEMMA TakenOff ==
  ASSUME NEW F, NEW queue \in Seq(F), queue # <<>>, Ordered(queue)
  PROVE  /\ Head(queue) \in F
         /\ Tail(queue) \in Seq(F) /\ Ordered(Tail(queue))
         /\ \A call : IdsOf(queue, call) = IdsOf(Tail(queue), call) \cup
              (IF Head(queue).call = call THEN {Head(queue).id} ELSE {})
         /\ Head(queue).call = "add" => Head(queue).id \notin IdsOf(Tail(queue), "add")
         /\ Head(queue).call = "cancel" =>
              \A id \in IdsOf(Tail(queue), "add") : id[2] # Head(queue).id[2]
<1> DEFINE rest == Tail(queue)
           f == Head(queue)
<1>1. /\ rest \in Seq(F) /\ f \in F /\ f = queue[1] /\ 1 \in DOMAIN queue
      /\ \A i \in DOMAIN queue : i \in Nat /\ i >= 1
      /\ \A i \in DOMAIN rest : i \in Nat /\ i >= 1 /\ i + 1 \in DOMAIN queue
                                /\ rest[i] = queue[i + 1]
      /\ \A i \in DOMAIN queue : i # 1 => i - 1 \in DOMAIN rest /\ rest[i - 1] = queue[i]
  <2>1. rest \in Seq(F) /\ Len(rest) = Len(queue) - 1 /\ Len(queue) \in Nat
          /\ f \in F /\ f = queue[1] /\ 1 \in DOMAIN queue
    OBVIOUS
  <2>2. \A i \in 1..Len(rest) : rest[i] = queue[i + 1]
    OBVIOUS
  <2>3. DOMAIN rest = 1..Len(rest) /\ DOMAIN queue = 1..Len(queue)
    BY <2>1
  <2> HIDE DEF rest, f
  <2> QED
    BY <2>1, <2>2, <2>3
<1> HIDE DEF rest, f
<1>2. ASSUME NEW call
      PROVE  IdsOf(queue, call) = IdsOf(rest, call) \cup (IF f.call = call THEN {f.id} ELSE {})
  <2>1. ASSUME NEW id \in IdsOf(queue, call)
        PROVE  id \in IdsOf(rest, call) \cup (IF f.call = call THEN {f.id} ELSE {})
    <3>1. PICK i \in DOMAIN queue : queue[i].call = call /\ id = queue[i].id
      BY DEF IdsOf
    <3>2. CASE i = 1
      BY <1>1, <3>1, <3>2
    <3>3. CASE i # 1
      <4>1. i - 1 \in DOMAIN rest /\ rest[i - 1] = queue[i]
        BY <1>1, <3>3
      <4> QED
        BY <3>1, <4>1 DEF IdsOf
    <3> QED
      BY <3>2, <3>3
  <2>2. IdsOf(rest, call) \subseteq IdsOf(queue, call)
    BY <1>1 DEF IdsOf
  <2>3. f.call = call => f.id \in IdsOf(queue, call)
    BY <1>1 DEF IdsOf
  <2> QED
    BY <2>1, <2>2, <2>3
<1>3. Ordered(rest)
  <2>1. ASSUME NEW i \in DOMAIN rest, NEW j \in DOMAIN rest, rest[j].call = "add"
        PROVE  /\ rest[i].call = "add" /\ rest[i].id = rest[j].id => i = j
               /\ rest[i].call = "cancel" /\ rest[i].id[2] = rest[j].id[2] => j < i
    <3>1. /\ i + 1 \in DOMAIN queue /\ j + 1 \in DOMAIN queue /\ i \in Nat /\ j \in Nat
          /\ rest[i] = queue[i + 1] /\ rest[j] = queue[j + 1]
      BY <1>1
    <3>2. /\ rest[i].call = "add" /\ rest[i].id = rest[j].id => i + 1 = j + 1
          /\ rest[i].call = "cancel" /\ rest[i].id[2] = rest[j].id[2] => j + 1 < i + 1
      BY <2>1, <3>1 DEF Ordered
    <3> QED
      BY <3>1, <3>2
  <2> QED
    BY <2>1 DEF Ordered
<1>4. ASSUME NEW id \in IdsOf(rest, "add")
      PROVE  /\ f.call = "add" => id # f.id
             /\ f.call = "cancel" => id[2] # f.id[2]
  <2>1. PICK j \in DOMAIN rest : rest[j].call = "add" /\ id = rest[j].id
    BY DEF IdsOf
  <2>2. /\ j \in Nat /\ j >= 1 /\ j + 1 \in DOMAIN queue /\ 1 \in DOMAIN queue
        /\ queue[j + 1].call = "add" /\ queue[j + 1].id = id
    BY <1>1, <2>1
  <2>3. /\ f.call = "add" /\ f.id = id => 1 = j + 1
        /\ f.call = "cancel" /\ f.id[2] = id[2] => j + 1 < 1
    BY <1>1, <2>2 DEF Ordered
  <2> QED
    BY <2>2, <2>3
<1> QED
  BY <1>1, <1>2, <1>3, <1>4 DEF rest, f

-----------------------------------------------------------------------------
(* What the invariant says of timers, entries and the timerfd. *)

\* A Timer that lives.
LEMMA TimerIs ==
  ASSUME Types, NEW a \in Addresses, Live(a)
  PROVE  /\ heap[a] \in TimerSet /\ heap[a].expiration \in Int
         /\ heap[a].interval \in Intervals \cup {0} /\ heap[a].interval \in Nat
         /\ heap[a].sequence \in 1..created
  BY DEF Types, TypeOK, HeapType, Live, TimerSet

\* An entry of timers_ or of the batch.
LEMMA EntryIs ==
  ASSUME IInv, NEW e \in timers \cup batch
  PROVE  /\ e = <<e[1], e[2]>> /\ e[1] \in Int /\ e[1] >= Low /\ e[2] \in Addresses
         /\ Live(e[2]) /\ heap[e[2]].expiration = e[1]
<1>1. e = <<e[1], e[2]>> /\ e[1] \in Int /\ e[2] \in Addresses
  BY DEF IInv, Types, TypeOK, Entries
<1>2. Live(e[2]) /\ heap[e[2]].expiration = e[1]
  BY DEF IInv, Placement, OnHeap
<1>3. e[1] >= Low
  BY <1>1, <1>2 DEF IInv, Placement, ExpirationsBounded
<1> QED
  BY <1>1, <1>2, <1>3

\* The earliest entry.
LEMMA FirstTimer ==
  ASSUME IInv, NEW S \in SUBSET (timers \cup batch), S # {}
  PROVE  /\ First(S) \in S /\ First(S)[1] \in Int /\ First(S)[2] \in Addresses
         /\ \A e \in S : First(S)[1] <= e[1]
<1>1. S \in SUBSET Entries
  BY DEF IInv, Types, TypeOK
<1>2. \A e \in S : e[1] >= Low
  BY EntryIs
<1> QED
  BY <1>1, <1>2, FirstIs

\* resetTimerfd arms the timerfd for the expiration, or for the next unit of time.
LEMMA ResetTimerfdIs ==
  ASSUME Types, Clocks, NEW when \in Int, resetTimerfd(when)
  PROVE  /\ armed' \in Nat /\ armed' # Nothing /\ armed' > mono /\ readable' = FALSE
         /\ steps = 0 => armed' = InTime(when)
<1>1. mono \in Nat /\ offset \in Int /\ wall \in Int
  BY DEF Types, TypeOK, wall
<1>2. armed' \in Nat /\ armed' > mono
  BY <1>1 DEF resetTimerfd
<1>3. ASSUME steps = 0 PROVE armed' = InTime(when)
  <2>1. wall = mono
    BY <1>1, <1>3 DEF Clocks, wall
  <2> QED
    BY <1>1, <2>1 DEF resetTimerfd, InTime
<1> QED
  BY <1>2, <1>3 DEF resetTimerfd

\* addTimerInLoop keeps the timerfd armed in time.
LEMMA AddTimerInLoopIs ==
  ASSUME IInv, NEW a \in Addresses, NEW timer \in TimerSet, addTimerInLoop(a, timer),
         UNCHANGED <<mono, offset, steps, pc, reported>>
  PROVE  /\ timers' = timers \cup {<<timer.expiration, a>>}
         /\ active' = active \cup {<<a, timer.sequence>>}
         /\ armed' \in Nat \cup {Nothing} /\ readable' \in BOOLEAN
         /\ armed' # Nothing => armed' > mono
         /\ Arming'
<1> DEFINE when == timer.expiration
<1>0. when \in Int /\ mono \in Nat
  BY DEF TimerSet, IInv, Types, TypeOK
<1>1. timers' = timers \cup {<<when, a>>} /\ active' = active \cup {<<a, timer.sequence>>}
  BY DEF addTimerInLoop, insert
<1>2. CASE resetTimerfd(when) /\ (timers = {} \/ when < First(timers)[1])
  <2>1. /\ armed' \in Nat /\ armed' # Nothing /\ armed' > mono /\ readable' = FALSE
        /\ steps = 0 => armed' = InTime(when)
    BY <1>0, <1>2, ResetTimerfdIs DEF IInv
  <2>2. \A e \in timers' : e[1] \in Int /\ when <= e[1]
    <3>1. \A e \in timers : e[1] \in Int /\ when <= e[1]
      BY <1>0, <1>2, FirstTimer, EntryIs
    <3> QED
      BY <1>0, <1>1, <3>1
  <2>3. Timely'
    BY <1>0, <2>1, <2>2 DEF Timely, InTime
  <2> QED
    BY <1>1, <2>1, <2>3 DEF Arming, ArmedWhenPending
<1>3. CASE UNCHANGED <<armed, readable>> /\ timers # {} /\ ~(when < First(timers)[1])
  <2>1. /\ armed \in Nat \cup {Nothing} /\ readable \in BOOLEAN
        /\ armed # Nothing => armed > mono
        /\ ArmedWhenPending /\ Timely
    BY DEF IInv, Types, TypeOK, Clocks, Arming
  <2>2. First(timers) \in timers /\ First(timers)[1] \in Int
    BY <1>3, FirstTimer
  <2>3. ASSUME steps = 0, pc = "idle", ~readable, ~reported
        PROVE  armed <= InTime(when)
    <3>1. armed <= InTime(First(timers)[1]) /\ armed # Nothing
      BY <1>3, <2>1, <2>2, <2>3 DEF Timely, ArmedWhenPending
    <3> QED
      BY <1>0, <1>3, <2>1, <2>2, <3>1 DEF InTime
  <2>4. Timely'
    BY <1>1, <1>3, <2>1, <2>3 DEF Timely, InTime
  <2> QED
    BY <1>1, <1>3, <2>1, <2>4 DEF Arming, ArmedWhenPending
<1> QED
  BY <1>2, <1>3 DEF addTimerInLoop, earliestChanged

-----------------------------------------------------------------------------
(* Every step keeps the invariant. *)

\* An empty TimerQueue has the invariant.
LEMMA InitIInv == Init => IInv
<1> SUFFICES ASSUME Init PROVE IInv
  OBVIOUS
<1> USE DEF Init
<1>1. Types
  <2>1. functors \in Seq([call : {"add", "cancel"}, id : Ids])
    OBVIOUS
  <2>2. /\ adding \in [Threads -> Ids \cup {Nothing}]
        /\ heap \in [Addresses -> {Nothing} \cup TimerSet]
    OBVIOUS
  <2>3. readable \in BOOLEAN /\ reported \in BOOLEAN /\ calling \in BOOLEAN /\ gone \in BOOLEAN
    BY Zenon
  <2> QED
    BY <2>1, <2>2, <2>3 DEF Types, TypeOK, HeapType
<1>2. Adds = {} /\ Cancels = {} /\ Ordered(functors)
  BY DEF Adds, Cancels, IdsOf, Ordered
<1>3. \A a \in Addresses : ~Live(a)
  BY DEF Live
<1>4. Low \in Int /\ Low <= 0
  BY DEF Low
<1>5. Placement
  BY <1>2, <1>3 DEF Placement, SequencesDistinct, ExpirationsBounded, OnHeap, OnePlace,
    InTimers, InBatch, InAdds
<1>6. IdsTrue
  BY <1>3 DEF IdsTrue
<1>7. Clocks /\ Reading /\ History /\ Arming
  BY <1>2, <1>4 DEF Clocks, Reading, History, AskedFor, FiredOnce, NoTimerLost, CancelledOut,
    Arming, ArmedWhenPending, Timely
<1> QED
  BY <1>1, <1>2, <1>5, <1>6, <1>7 DEF IInv

\* What depends only on the timers, the functors and the record of what happened.
LEMMA SameTimers ==
  ASSUME IInv, UNCHANGED <<heap, created, timers, active, canceling, batch, torun, functors,
                           asked, cancelled, fired, gone>>
  PROVE  HeapType' /\ Ordered(functors)' /\ Placement' /\ History'
<1>1. Adds' = Adds /\ Cancels' = Cancels
  BY DEF Adds, Cancels
<1>2. HeapType' /\ Ordered(functors)'
  BY DEF IInv, Types, HeapType, Ordered
<1>3. Placement'
  BY <1>1 DEF IInv, Placement, SequencesDistinct, ExpirationsBounded, OnHeap, OnePlace, Live,
    InTimers, InBatch, InAdds
<1>4. History'
  BY <1>1 DEF IInv, History, AskedFor, FiredOnce, NoTimerLost, CancelledOut
<1> QED
  BY <1>2, <1>3, <1>4

\* And what depends on the ids that are known.
LEMMA SameIds ==
  ASSUME IInv, UNCHANGED <<heap, functors, ids, adding>>
  PROVE  IdsTrue'
  BY DEF IInv, IdsTrue, Known, Cancels, Live

\* Time passes, and the timerfd expires.
LEMMA NextTick == IInv /\ Tick => IInv'
<1> SUFFICES ASSUME IInv, Tick PROVE IInv'
  OBVIOUS
<1> USE DEF Tick, setVars, readVars, userVars, ghostVars
<1>1. HeapType' /\ Ordered(functors)' /\ Placement' /\ History' /\ IdsTrue'
  BY SameTimers, SameIds
<1>2. mono \in Nat /\ mono' \in 0..MaxTime /\ mono' = mono + 1
  BY DEF IInv, Types, TypeOK
<1>3. armed' \in Nat \cup {Nothing} /\ readable' \in BOOLEAN
        /\ (armed' # Nothing => armed' > mono')
  <2>1. armed \in Nat \cup {Nothing} /\ (armed # Nothing => armed > mono)
          /\ readable \in BOOLEAN
    BY DEF IInv, Types, TypeOK, Clocks
  <2>2. CASE armed = mono + 1
    BY <2>2
  <2>3. CASE armed # mono + 1 /\ armed # Nothing
    <3>1. armed' = armed /\ readable' = readable /\ armed \in Nat /\ armed > mono + 1
      BY <1>2, <2>1, <2>3
    <3> QED
      BY <1>2, <2>1, <3>1
  <2>4. CASE armed # mono + 1 /\ armed = Nothing
    BY <2>1, <2>4
  <2> QED
    BY <2>2, <2>3, <2>4
<1>4. Types'
  BY <1>1, <1>2, <1>3 DEF IInv, Types, TypeOK, Ids
<1>5. Clocks' /\ Reading'
  BY <1>3 DEF IInv, Clocks, Reading
<1>6. Arming'
  <2>1. ArmedWhenPending'
    BY DEF IInv, Arming, ArmedWhenPending
  <2>2. ASSUME steps = 0, pc = "idle", ~readable', ~reported, NEW e \in timers
        PROVE  armed' <= IF e[1] > mono' + 1 THEN e[1] ELSE mono' + 1
    <3>1. armed # mono + 1 /\ armed' = armed /\ ~readable
      BY <2>2
    <3>2. armed # Nothing
      BY <2>2, <3>1 DEF IInv, Arming, ArmedWhenPending
    <3>3. armed \in Nat /\ armed > mono
      BY <3>2 DEF IInv, Types, TypeOK, Clocks
    <3>4. armed <= InTime(e[1])
      BY <2>2, <3>1 DEF IInv, Arming, Timely
    <3>5. e[1] \in Int
      BY EntryIs
    <3> QED
      BY <1>2, <3>1, <3>3, <3>4, <3>5 DEF InTime
  <2> QED
    BY <2>1, <2>2 DEF Arming, Timely, InTime
<1> QED
  BY <1>1, <1>4, <1>5, <1>6 DEF IInv

\* The wall clock is set.
LEMMA NextSetWallClock == IInv /\ SetWallClock => IInv'
<1> SUFFICES ASSUME IInv, SetWallClock PROVE IInv'
  OBVIOUS
<1> USE DEF SetWallClock, fdVars, setVars, readVars, userVars, ghostVars
<1>1. HeapType' /\ Ordered(functors)' /\ Placement' /\ History' /\ IdsTrue'
  BY SameTimers, SameIds
<1>2. /\ steps \in Nat /\ steps' = steps + 1 /\ steps' \in 0..MaxSteps
      /\ offset \in Int /\ offset' \in Int /\ offset' >= offset - 2
  BY DEF IInv, Types, TypeOK
<1>3. Types'
  BY <1>1, <1>2 DEF IInv, Types, TypeOK, Ids
<1>4. Clocks' /\ Reading'
  BY <1>2 DEF IInv, Clocks, Reading
<1>5. Arming'
  BY <1>2 DEF IInv, Arming, ArmedWhenPending, Timely
<1> QED
  BY <1>1, <1>3, <1>4, <1>5 DEF IInv

\* epoll_wait reports the timerfd, and a callback returns.
LEMMA NextPoll == IInv /\ (Poll \/ CallbackReturns) => IInv'
<1> SUFFICES ASSUME IInv, Poll \/ CallbackReturns PROVE IInv'
  OBVIOUS
<1> USE DEF Poll, CallbackReturns, clockVars, fdVars, setVars, readVars, userVars, ghostVars
<1>1. HeapType' /\ Ordered(functors)' /\ Placement' /\ History' /\ IdsTrue'
  BY SameTimers, SameIds
<1>2. Types'
  BY <1>1 DEF IInv, Types, TypeOK, Ids
<1>3. Clocks' /\ Reading'
  BY DEF IInv, Clocks, Reading
<1>4. Arming'
  BY DEF IInv, Arming, ArmedWhenPending, Timely
<1> QED
  BY <1>1, <1>2, <1>3, <1>4 DEF IInv

\* addTimer returns: whatever sequence it reads, the TimerId is true to its address.
LEMMA NextAddTimerReturns ==
  ASSUME IInv, NEW t \in Threads, AddTimerReturns(t)
  PROVE  IInv'
<1> USE DEF AddTimerReturns, clockVars, fdVars, setVars, readVars, ghostVars
<1>1. HeapType' /\ Ordered(functors)' /\ Placement' /\ History'
  BY SameTimers
<1> DEFINE id == adding[t]
<1>2. /\ id # Nothing /\ id \in Ids /\ adding \in [Threads -> Ids \cup {Nothing}]
      /\ adding' = [adding EXCEPT ![t] = Nothing]
      /\ \A a \in Addresses : Live(a) /\ heap[a].sequence = id[2] => a = id[1]
  BY DEF IInv, Types, TypeOK, IdsTrue, Known
<1>3. id[1] \in Addresses /\ id[2] \in 1..created
  BY <1>2 DEF Ids
<1>4. PICK s : /\ ids' = ids \cup {<<id[1], s>>}
               /\ s = id[2] \/ (Live(id[1]) /\ s = heap[id[1]].sequence)
  BY DEF Live
<1> HIDE DEF id
<1>5. s \in 1..created
  BY <1>3, <1>4, TimerIs DEF IInv
<1>6. \A a \in Addresses : Live(a) /\ heap[a].sequence = s => a = id[1]
  BY <1>2, <1>3, <1>4 DEF IInv, Placement, SequencesDistinct
<1>7. Types'
  <2>1. ids' \subseteq Ids'
    BY <1>3, <1>4, <1>5 DEF IInv, Types, TypeOK, Ids
  <2>2. adding' \in [Threads -> Ids' \cup {Nothing}]
    BY <1>2 DEF Ids
  <2> QED
    BY <1>1, <2>1, <2>2 DEF IInv, Types, TypeOK, Ids
<1>8. IdsTrue'
  <2>1. Known' \subseteq Known \cup {<<id[1], s>>}
    BY <1>2, <1>4 DEF Known, Cancels
  <2> QED
    BY <1>6, <2>1 DEF IInv, IdsTrue, Live
<1>9. Clocks' /\ Reading' /\ Arming'
  BY DEF IInv, Clocks, Reading, Arming, ArmedWhenPending, Timely, InTime
<1> QED
  BY <1>1, <1>7, <1>8, <1>9 DEF IInv

\* The ids of one more Timer.
LEMMA MoreIds ==
  ASSUME Types, created' = created + 1, created < MaxCreated
  PROVE  /\ created \in Nat /\ created' \in 0..MaxCreated
         /\ Ids \subseteq Ids' /\ 1..created \subseteq 1..created'
         /\ created' \notin 1..created /\ created' \in 1..created'
         /\ \A a \in Addresses : <<a, created'>> \in Ids' /\ <<a, created'>> \notin Ids
<1>1. created \in Nat /\ created' \in 0..MaxCreated
  BY DEF Types, TypeOK
<1>2. 1..created \subseteq 1..created' /\ created' \notin 1..created /\ created' \in 1..created'
  BY <1>1
<1> QED
  BY <1>1, <1>2 DEF Ids

\* new Timer: the heap with one more timer, its sequence not used before.
NewOnHeap(a, when, interval) ==
  /\ heap[a] = Nothing /\ heap' = [heap EXCEPT ![a] = NewTimer(when, interval)]
  /\ created < MaxCreated /\ created' = created + 1

\* The Timer that new puts at a free address: live, with the next sequence, the others as before.
LEMMA NewTimerIs ==
  ASSUME IInv, NEW a \in Addresses, NEW when \in Whens, NEW interval \in Intervals \cup {0},
         NewOnHeap(a, when, interval)
  PROVE  /\ ~Live(a) /\ Live(a)' /\ heap'[a] \in TimerSet /\ heap'[a].sequence = created'
         /\ heap'[a].expiration = when /\ heap'[a] = NewTimer(when, interval)
         /\ \A b \in Addresses : b # a => heap'[b] = heap[b]
         /\ \A b \in Addresses : Live(b) => b # a /\ heap[b].sequence # created'
         /\ HeapType' /\ SequencesDistinct' /\ ExpirationsBounded'
         /\ \A b \in Addresses :
              heap'[b] \in {Nothing} \cup [expiration : Int, interval : Intervals \cup {0},
                                           sequence : 1..created']
         /\ \A e \in timers \cup batch : e[2] # a
         /\ \A q \in Adds : q[1] # a
<1> DEFINE timer == NewTimer(when, interval)
<1>1. created \in Nat /\ created' = created + 1
  BY DEF NewOnHeap, IInv, Types, TypeOK
<1>2. /\ timer \in [expiration : Int, interval : Intervals \cup {0}, sequence : 1..created']
      /\ timer \in TimerSet /\ timer.sequence = created' /\ timer.expiration = when
      /\ timer # Nothing
  BY <1>1 DEF NewTimer, TimerSet, Whens
<1> HIDE DEF timer
<1>3. /\ heap \in [Addresses -> {Nothing} \cup TimerSet] /\ heap[a] = Nothing
      /\ heap' = [heap EXCEPT ![a] = timer]
  BY DEF NewOnHeap, timer, IInv, Types, HeapType
<1>4. /\ heap'[a] = timer /\ \A b \in Addresses : b # a => heap'[b] = heap[b]
      /\ heap' \in [Addresses -> {Nothing} \cup TimerSet]
  BY <1>2, <1>3
<1>5. \A b \in Addresses : Live(b) => b # a /\ heap[b].sequence \in 1..created
  BY <1>3, TimerIs DEF IInv, Live
<1>6. \A b \in Addresses : Live(b) => heap[b].sequence # created'
  BY <1>1, <1>5
<1>7. Low <= when
  BY DEF Low, Whens
<1>8. SequencesDistinct'
  BY <1>2, <1>4, <1>6 DEF IInv, Placement, SequencesDistinct, Live
<1>9. ExpirationsBounded'
  BY <1>2, <1>4, <1>7 DEF IInv, Placement, ExpirationsBounded, Live
<1>10. ASSUME NEW b \in Addresses
       PROVE  heap'[b] \in {Nothing} \cup [expiration : Int, interval : Intervals \cup {0},
                                           sequence : 1..created']
  <2>1. 1..created \subseteq 1..created'
    BY <1>1
  <2>2. heap[b] \in {Nothing} \cup [expiration : Int, interval : Intervals \cup {0},
                                    sequence : 1..created']
    BY <2>1 DEF IInv, Types, TypeOK
  <2> QED
    BY <1>2, <1>4, <2>2
<1>11. \A e \in timers \cup batch : e[2] # a
  BY <1>3 DEF IInv, Placement, OnHeap, Live
<1>12. \A q \in Adds : q[1] # a
  BY <1>3 DEF IInv, Placement, OnHeap, Live
<1> QED
  BY <1>2, <1>3, <1>4, <1>5, <1>6, <1>8, <1>9, <1>10, <1>11, <1>12
    DEF Live, HeapType, timer

\* A new timer leaves the record of the others alone.
LEMMA NewTimerHistory ==
  ASSUME IInv, NEW a \in Addresses, NEW when \in Whens, NEW interval \in Intervals \cup {0},
         NewOnHeap(a, when, interval),
         UNCHANGED <<canceling, batch, torun, asked, cancelled, fired, gone>>,
         timers' \subseteq timers \cup {<<when, a>>},
         Adds' \subseteq Adds \cup {<<a, created'>>}, Cancels' = Cancels
  PROVE  History'
<1>1. /\ Live(a)' /\ heap'[a].sequence = created'
      /\ \A b \in Addresses : b # a => heap'[b] = heap[b]
      /\ \A e \in timers \cup batch : e[2] # a
  BY NewTimerIs
<1>2. created' \notin 1..created /\ 1..created' = (1..created) \cup {created'}
  BY DEF NewOnHeap, IInv, Types, TypeOK
<1>3. created' \notin cancelled
  BY <1>2 DEF IInv, Types, TypeOK
<1>4. \A e \in timers \cup batch : heap'[e[2]] = heap[e[2]]
  BY <1>1, EntryIs
<1>5. AskedFor' /\ FiredOnce'
  BY <1>4 DEF IInv, History, AskedFor, FiredOnce
<1>6. NoTimerLost'
  <2>1. ASSUME NEW s \in 1..created'
        PROVE  \/ \E b \in Addresses : heap'[b] # Nothing /\ heap'[b].sequence = s
               \/ s \in asked \cup fired \/ gone
    <3>1. CASE s = created'
      BY <1>1, <3>1 DEF Live
    <3>2. CASE s \in 1..created
      <4>1. \/ \E b \in Addresses : heap[b] # Nothing /\ heap[b].sequence = s
            \/ s \in asked \cup fired \/ gone
        BY <3>2 DEF IInv, History, NoTimerLost
      <4>2. \A b \in Addresses : heap[b] # Nothing => heap'[b] = heap[b]
        BY <1>1, NewTimerIs DEF Live
      <4> QED
        BY <4>1, <4>2
    <3> QED
      BY <1>2, <3>1, <3>2
  <2> QED
    BY <2>1 DEF NoTimerLost
<1>7. CancelledOut'
  <2>1. ASSUME NEW e \in timers' PROVE heap'[e[2]].sequence \notin cancelled
    <3>1. CASE e \in timers
      BY <1>4, <3>1 DEF IInv, History, CancelledOut
    <3>2. CASE e = <<when, a>>
      BY <1>1, <1>3, <3>2
    <3> QED
      BY <3>1, <3>2
  <2>2. ASSUME NEW q \in Adds' PROVE q[2] \notin cancelled
    BY <1>3 DEF IInv, History, CancelledOut
  <2>3. ASSUME NEW e \in batch, heap'[e[2]].sequence \in cancelled
        PROVE  <<e[2], heap'[e[2]].sequence>> \in canceling
    BY <1>4, <2>3 DEF IInv, History, CancelledOut
  <2> QED
    BY <2>1, <2>2, <2>3 DEF CancelledOut
<1> QED
  BY <1>5, <1>6, <1>7 DEF History

FunctorSet == [call : {"add", "cancel"}, id : Ids]

\* The ids that are known, queued or remembered have been handed out.
LEMMA KnownIds ==
  ASSUME Types
  PROVE  Known \subseteq Ids /\ Adds \subseteq Ids /\ Cancels \subseteq Ids
           /\ functors \in Seq(FunctorSet)
<1>1. functors \in Seq(FunctorSet)
  BY DEF Types, TypeOK, FunctorSet
<1>2. \A i \in DOMAIN functors : functors[i] \in FunctorSet
  BY <1>1
<1>3. \A i \in DOMAIN functors : functors[i].id \in Ids
  BY <1>2 DEF FunctorSet
<1>4. Adds \subseteq Ids /\ Cancels \subseteq Ids
  BY <1>3 DEF Adds, Cancels, IdsOf
<1>5. Known \subseteq Ids
  BY <1>4 DEF Known, Types, TypeOK
<1> QED
  BY <1>1, <1>4, <1>5

\* A new timer does not answer to an id that is already known.
LEMMA NewTimerIds ==
  ASSUME IInv, NEW a \in Addresses, NEW when \in Whens, NEW interval \in Intervals \cup {0},
         NewOnHeap(a, when, interval), Known' \subseteq Known \cup {<<a, created'>>}
  PROVE  IdsTrue'
<1>1. /\ heap'[a].sequence = created'
      /\ \A b \in Addresses : b # a => heap'[b] = heap[b]
      /\ \A b \in Addresses : Live(b) => b # a /\ heap[b].sequence # created'
  BY NewTimerIs
<1>2. \A id \in Known : id[2] # created'
  <2>1. created' \notin 1..created
    BY DEF NewOnHeap, IInv, Types, TypeOK
  <2> QED
    BY <2>1, KnownIds DEF IInv, Ids
<1>3. ASSUME NEW id \in Known', NEW b \in Addresses, Live(b)', heap'[b].sequence = id[2]
      PROVE  b = id[1]
  <2>1. CASE id = <<a, created'>>
    BY <1>1, <1>3, <2>1 DEF Live
  <2>2. CASE id \in Known
    <3>1. b # a
      BY <1>1, <1>2, <1>3, <2>2
    <3>2. heap'[b] = heap[b] /\ Live(b)
      BY <1>1, <1>3, <3>1 DEF Live
    <3> QED
      BY <1>3, <2>2, <3>2 DEF IInv, IdsTrue
  <2> QED
    BY <2>1, <2>2
<1> QED
  BY <1>3 DEF IdsTrue

\* addTimer of the loop thread.
LEMMA NextAddTimer ==
  ASSUME IInv, NEW when \in Whens, NEW interval \in Intervals \cup {0},
         AddTimer(when, interval)
  PROVE  IInv'
<1>0. UNCHANGED <<mono, offset, steps, reported, canceling, calling, pc, batch, torun, at,
                  functors, adding, asked, cancelled, fired, gone>>
  BY DEF AddTimer, clockVars, readVars, ghostVars
<1>1. PICK a \in Addresses :
        /\ NewOnHeap(a, when, interval)
        /\ addTimerInLoop(a, NewTimer(when, interval))
        /\ ids' = ids \cup {<<a, created'>>}
  BY DEF AddTimer, NewOnHeap, NewTimer
<1> DEFINE timer == NewTimer(when, interval)
<1>2. /\ ~Live(a) /\ Live(a)' /\ heap'[a] = timer /\ timer \in TimerSet
      /\ timer.sequence = created' /\ timer.expiration = when
      /\ \A b \in Addresses : b # a => heap'[b] = heap[b]
      /\ HeapType' /\ SequencesDistinct' /\ ExpirationsBounded'
      /\ \A b \in Addresses :
           heap'[b] \in {Nothing} \cup [expiration : Int, interval : Intervals \cup {0},
                                        sequence : 1..created']
      /\ \A e \in timers \cup batch : e[2] # a
      /\ \A q \in Adds : q[1] # a
  BY <1>1, NewTimerIs
<1> HIDE DEF timer
<1>3. /\ timers' = timers \cup {<<when, a>>} /\ active' = active \cup {<<a, created'>>}
      /\ armed' \in Nat \cup {Nothing} /\ readable' \in BOOLEAN
      /\ armed' # Nothing => armed' > mono
      /\ Arming'
  <2>1. addTimerInLoop(a, timer)
    BY <1>1 DEF timer
  <2> QED
    BY <1>0, <1>2, <2>1, AddTimerInLoopIs
<1>4. Adds' = Adds /\ Cancels' = Cancels /\ Ordered(functors)'
  BY <1>0 DEF Adds, Cancels, IInv, Ordered
<1>5. Types'
  <2>1. /\ created' \in 0..MaxCreated /\ Ids \subseteq Ids' /\ 1..created \subseteq 1..created'
        /\ <<a, created'>> \in Ids'
    BY <1>1, MoreIds DEF NewOnHeap, IInv
  <2>2. functors' \in Seq([call : {"add", "cancel"}, id : Ids'])
    <3>1. functors \in Seq(FunctorSet) /\ FunctorSet \subseteq [call : {"add", "cancel"}, id : Ids']
      BY <2>1, KnownIds DEF FunctorSet, IInv
    <3> QED
      BY <1>0, <3>1, SeqLarger
  <2>3. /\ active' \subseteq Ids' /\ canceling' \subseteq Ids' /\ ids' \subseteq Ids'
        /\ asked' \subseteq 1..created' /\ fired' \subseteq 1..created'
    BY <1>0, <1>1, <1>3, <2>1 DEF IInv, Types, TypeOK
  <2>4. timers' \subseteq Entries
    BY <1>3 DEF IInv, Types, TypeOK, Entries, Whens
  <2>5. adding' \in [Threads -> Ids' \cup {Nothing}]
    BY <1>0, <2>1 DEF IInv, Types, TypeOK
  <2> QED
    BY <1>0, <1>2, <1>3, <2>1, <2>2, <2>3, <2>4, <2>5 DEF IInv, Types, TypeOK
<1>6. OnHeap'
  <2>1. \A e \in timers \cup batch : heap'[e[2]] = heap[e[2]] /\ Live(e[2])
          /\ heap[e[2]].expiration = e[1]
    BY <1>2, EntryIs
  <2>2. \A e \in (timers \cup batch)' : Live(e[2])' /\ heap'[e[2]].expiration = e[1]
    BY <1>0, <1>2, <1>3, <2>1 DEF Live
  <2>3. \A q \in Adds : Live(q[1])' /\ heap'[q[1]].sequence = q[2]
    BY <1>2, KnownIds DEF IInv, Placement, OnHeap, Live, Ids
  <2>4. active' = {<<e[2], heap'[e[2]].sequence>> : e \in timers'}
    <3>1. active = {<<e[2], heap[e[2]].sequence>> : e \in timers}
      BY DEF IInv, Placement, OnHeap
    <3>2. active = {<<e[2], heap'[e[2]].sequence>> : e \in timers}
      BY <2>1, <3>1
    <3>3. heap'[a].sequence = created' /\ <<when, a>>[2] = a
      BY <1>2
    <3>4. {<<e[2], heap'[e[2]].sequence>> : e \in timers \cup {<<when, a>>}} =
            {<<e[2], heap'[e[2]].sequence>> : e \in timers} \cup {<<a, created'>>}
      BY <3>3
    <3> QED
      BY <1>3, <3>2, <3>4
  <2> QED
    BY <1>4, <2>2, <2>3, <2>4 DEF OnHeap
<1>7. OnePlace'
  <2>1. ASSUME NEW b \in Addresses
        PROVE  /\ Live(b)' <=> Live(b) \/ b = a
               /\ InTimers(b)' <=> InTimers(b) \/ b = a
               /\ InBatch(b)' <=> InBatch(b)
               /\ InAdds(b)' <=> InAdds(b)
    <3>1. Live(b)' <=> Live(b) \/ b = a
      BY <1>2 DEF Live
    <3>2. InTimers(b)' <=> InTimers(b) \/ b = a
      <4>1. <<when, a>>[2] = a /\ <<when, a>> \in timers'
        BY <1>3
      <4>2. \A e \in timers' : e \in timers \/ e[2] = a
        BY <1>3, <4>1
      <4> QED
        BY <1>3, <4>1, <4>2 DEF InTimers
    <3>3. (InBatch(b)' <=> InBatch(b)) /\ (InAdds(b)' <=> InAdds(b))
      BY <1>0, <1>4 DEF InBatch, InAdds
    <3> QED
      BY <3>1, <3>2, <3>3
  <2>2. ~InBatch(a) /\ ~InAdds(a)
    BY <1>2 DEF InBatch, InAdds
  <2> QED
    BY <2>1, <2>2 DEF IInv, Placement, OnePlace
<1>8. IdsTrue'
  BY <1>0, <1>1, <1>4, NewTimerIds DEF Known
<1>9. History'
  BY <1>0, <1>1, <1>3, <1>4, NewTimerHistory
<1>10. Clocks' /\ Reading'
  BY <1>0, <1>3 DEF IInv, Clocks, Reading
<1> QED
  BY <1>2, <1>3, <1>4, <1>5, <1>6, <1>7, <1>8, <1>9, <1>10 DEF IInv, Placement

\* addTimer of another thread.
LEMMA NextAddTimerForeign ==
  ASSUME IInv, NEW t \in Threads, NEW when \in Whens, NEW interval \in Intervals \cup {0},
         AddTimerForeign(t, when, interval)
  PROVE  IInv'
<1>0. UNCHANGED <<mono, offset, steps, armed, readable, reported, timers, active, canceling,
                  calling, pc, batch, torun, at, ids, asked, cancelled, fired, gone>>
  BY DEF AddTimerForeign, clockVars, fdVars, setVars, readVars, ghostVars
<1>1. PICK a \in Addresses :
        /\ NewOnHeap(a, when, interval)
        /\ functors' = Append(functors, [call |-> "add", id |-> <<a, created'>>])
        /\ adding' = [adding EXCEPT ![t] = <<a, created'>>]
  BY DEF AddTimerForeign, NewOnHeap, NewTimer
<1>2. /\ ~Live(a) /\ Live(a)' /\ heap'[a].sequence = created'
      /\ \A b \in Addresses : b # a => heap'[b] = heap[b]
      /\ HeapType' /\ SequencesDistinct' /\ ExpirationsBounded'
      /\ \A b \in Addresses :
           heap'[b] \in {Nothing} \cup [expiration : Int, interval : Intervals \cup {0},
                                        sequence : 1..created']
      /\ \A e \in timers \cup batch : e[2] # a
      /\ \A q \in Adds : q[1] # a
  BY <1>1, NewTimerIs
<1>3. /\ created' \in 0..MaxCreated /\ Ids \subseteq Ids' /\ 1..created \subseteq 1..created'
      /\ <<a, created'>> \in Ids' /\ <<a, created'>> \notin Ids /\ created' \notin 1..created
  BY <1>1, MoreIds DEF NewOnHeap, IInv
<1>4. /\ functors' \in Seq([call : {"add", "cancel"}, id : Ids']) /\ Ordered(functors')
      /\ Adds' = Adds \cup {<<a, created'>>} /\ Cancels' = Cancels
  <2> DEFINE f == [call |-> "add", id |-> <<a, created'>>]
             larger == [call : {"add", "cancel"}, id : Ids']
  <2>1. functors \in Seq(FunctorSet) /\ Adds \subseteq Ids /\ Cancels \subseteq Ids
    BY KnownIds DEF IInv
  <2>2. functors \in Seq(larger)
    <3>1. FunctorSet \subseteq larger
      BY <1>3 DEF FunctorSet
    <3> QED
      BY <2>1, <3>1, SeqLarger
  <2>3. f \in larger /\ f.call = "add" /\ f.id = <<a, created'>>
    BY <1>3
  <2> HIDE DEF f
  <2>4. f.id \notin IdsOf(functors, "add") /\ \A id \in IdsOf(functors, "cancel") : id[2] # f.id[2]
    BY <1>3, <2>1, <2>3 DEF Adds, Cancels, Ids
  <2>5. Ordered(functors)
    BY DEF IInv
  <2> HIDE DEF larger
  <2>6. /\ Append(functors, f) \in Seq(larger) /\ Ordered(Append(functors, f))
        /\ \A call : IdsOf(Append(functors, f), call) =
             IdsOf(functors, call) \cup (IF f.call = call THEN {f.id} ELSE {})
    BY <2>2, <2>3, <2>4, <2>5, Appended
  <2>7. functors' = Append(functors, f)
    BY <1>1 DEF f
  <2> QED
    BY <2>3, <2>6, <2>7 DEF Adds, Cancels, larger
<1>5. Types'
  <2>1. /\ active' \subseteq Ids' /\ canceling' \subseteq Ids'
        /\ ids' \subseteq Ids' /\ adding' \in [Threads -> Ids' \cup {Nothing}]
        /\ asked' \subseteq 1..created' /\ fired' \subseteq 1..created'
    BY <1>0, <1>1, <1>3 DEF IInv, Types, TypeOK
  <2> QED
    BY <1>0, <1>2, <1>3, <1>4, <2>1 DEF IInv, Types, TypeOK
<1>6. OnHeap'
  <2>1. \A e \in timers \cup batch : heap'[e[2]] = heap[e[2]] /\ Live(e[2])
          /\ heap[e[2]].expiration = e[1]
    BY <1>2, EntryIs
  <2>2. \A e \in (timers \cup batch)' : Live(e[2])' /\ heap'[e[2]].expiration = e[1]
    BY <1>0, <2>1 DEF Live
  <2>3. \A q \in Adds : Live(q[1])' /\ heap'[q[1]].sequence = q[2]
    BY <1>2, KnownIds DEF IInv, Placement, OnHeap, Live, Ids
  <2>4. \A q \in Adds' : Live(q[1])' /\ heap'[q[1]].sequence = q[2]
    BY <1>2, <1>4, <2>3
  <2>5. active' = {<<e[2], heap'[e[2]].sequence>> : e \in timers'}
    <3>1. active = {<<e[2], heap[e[2]].sequence>> : e \in timers}
      BY DEF IInv, Placement, OnHeap
    <3> QED
      BY <1>0, <2>1, <3>1
  <2> QED
    BY <2>2, <2>4, <2>5 DEF OnHeap
<1>7. OnePlace'
  <2>1. ASSUME NEW b \in Addresses
        PROVE  /\ Live(b)' <=> Live(b) \/ b = a
               /\ InTimers(b)' <=> InTimers(b)
               /\ InBatch(b)' <=> InBatch(b)
               /\ InAdds(b)' <=> InAdds(b) \/ b = a
    <3>1. Live(b)' <=> Live(b) \/ b = a
      BY <1>2 DEF Live
    <3>2. InAdds(b)' <=> InAdds(b) \/ b = a
      <4>1. <<a, created'>>[1] = a /\ <<a, created'>> \in Adds'
        BY <1>4
      <4>2. \A q \in Adds' : q \in Adds \/ q[1] = a
        BY <1>4, <4>1
      <4> QED
        BY <1>4, <4>1, <4>2 DEF InAdds
    <3>3. (InBatch(b)' <=> InBatch(b)) /\ (InTimers(b)' <=> InTimers(b))
      BY <1>0 DEF InBatch, InTimers
    <3> QED
      BY <3>1, <3>2, <3>3
  <2>2. ~InBatch(a) /\ ~InTimers(a)
    BY <1>2 DEF InBatch, InTimers
  <2> QED
    BY <2>1, <2>2 DEF IInv, Placement, OnePlace
<1>8. IdsTrue'
  <2>1. Known' \subseteq Known \cup {<<a, created'>>}
    BY <1>0, <1>1, <1>4 DEF Known, IInv, Types, TypeOK
  <2> QED
    BY <1>1, <2>1, NewTimerIds
<1>9. History'
  BY <1>0, <1>1, <1>4, NewTimerHistory
<1>10. Clocks' /\ Reading' /\ Arming'
  BY <1>0 DEF IInv, Clocks, Reading, Arming, ArmedWhenPending, Timely, InTime
<1> QED
  BY <1>2, <1>4, <1>5, <1>6, <1>7, <1>8, <1>9, <1>10 DEF IInv, Placement

\* cancelInLoop deletes the very timer that the id names, or none.
Deletes(id) ==
  LET a == id[1] IN
  /\ Live(a) /\ heap[a].sequence = id[2] /\ ~InBatch(a) /\ ~InAdds(a)
  /\ heap' = [heap EXCEPT ![a] = Nothing]
  /\ timers' = {e \in timers : e[2] # a} /\ active' = active \ {id}
  /\ canceling' = canceling
DeletesNone(id) ==
  /\ id \notin active /\ UNCHANGED <<heap, timers, active>>
  /\ canceling' = IF calling THEN canceling \cup {id} ELSE canceling

\* cancelInLoop deletes the timer it was given, or finds none and changes no set but canceling.
LEMMA CancelInLoopIs ==
  ASSUME IInv, NEW id \in Ids, cancelInLoop(id)
  PROVE  Deletes(id) \/ DeletesNone(id)
<1>1. CASE id \notin active
  BY <1>1 DEF cancelInLoop, DeletesNone
<1>2. CASE id \in active
  <2>1. PICK e \in timers : id = <<e[2], heap[e[2]].sequence>>
    BY <1>2 DEF IInv, Placement, OnHeap
  <2>2. id[1] = e[2] /\ id[2] = heap[e[2]].sequence
    BY <2>1
  <2>3. /\ e = <<e[1], e[2]>> /\ e[2] \in Addresses /\ Live(e[2])
        /\ heap[e[2]].expiration = e[1]
    BY EntryIs
  <2>4. \A f \in timers : f[2] = e[2] => f = e
    BY <2>3, EntryIs
  <2>5. timers' = {f \in timers : f[2] # id[1]}
    BY <1>2, <2>2, <2>3, <2>4 DEF cancelInLoop
  <2>6. ~InBatch(e[2]) /\ ~InAdds(e[2])
    BY <2>3 DEF IInv, Placement, OnePlace, InTimers
  <2> QED
    BY <1>2, <2>2, <2>3, <2>5, <2>6 DEF cancelInLoop, Deletes
<1> QED
  BY <1>1, <1>2

\* cancelInLoop keeps the invariant, wherever it is called from.
LEMMA CancelKeeps ==
  ASSUME IInv, NEW id \in Known, cancelInLoop(id),
         UNCHANGED <<mono, offset, steps, armed, readable, reported, created, calling, pc,
                     batch, torun, at, adding, ids, fired, gone>>,
         functors' \in Seq(FunctorSet), Ordered(functors)', Adds' = Adds,
         Cancels' \subseteq Cancels,
         asked' = asked \cup {id[2]}, cancelled \subseteq cancelled',
         cancelled' \subseteq cancelled \cup {id[2]}, \A q \in Adds : q[2] \notin cancelled'
  PROVE  IInv'
<1>1. /\ id \in Ids /\ id = <<id[1], id[2]>> /\ id[1] \in Addresses /\ id[2] \in 1..created
      /\ \A a \in Addresses : Live(a) /\ heap[a].sequence = id[2] => a = id[1]
  BY KnownIds DEF IInv, Ids, IdsTrue
<1>2. Deletes(id) \/ DeletesNone(id)
  BY <1>1, CancelInLoopIs
<1>3. /\ heap' \in [Addresses -> {Nothing} \cup TimerSet]
      /\ \A a \in Addresses : Live(a)' => heap'[a] = heap[a] /\ Live(a)
      /\ \A a \in Addresses : Live(a) => Live(a)' \/ (a = id[1] /\ heap[a].sequence = id[2])
      /\ \A a \in Addresses : heap'[a] = heap[a] \/ heap'[a] = Nothing
  BY <1>1, <1>2 DEF Deletes, DeletesNone, IInv, Types, HeapType, Live
<1>4. /\ timers' \subseteq timers
      /\ \A e \in timers' \cup batch : Live(e[2])' /\ heap'[e[2]] = heap[e[2]]
      /\ \A q \in Adds : Live(q[1])' /\ heap'[q[1]] = heap[q[1]]
  <2>0. /\ \A e \in timers \cup batch : e[2] \in Addresses /\ Live(e[2])
        /\ \A q \in Adds : q[1] \in Addresses /\ Live(q[1])
    BY EntryIs, KnownIds DEF IInv, Placement, OnHeap, Ids
  <2>1. CASE DeletesNone(id)
    BY <2>0, <2>1 DEF DeletesNone, Live
  <2>2. CASE Deletes(id)
    <3>1. \A e \in timers' \cup batch : e[2] # id[1]
      BY <2>2 DEF Deletes, InBatch
    <3>2. \A q \in Adds : q[1] # id[1]
      BY <2>2 DEF Deletes, InAdds
    <3>3. \A a \in Addresses : a # id[1] => heap'[a] = heap[a]
      BY <2>2 DEF Deletes, IInv, Types, HeapType
    <3>4. timers' \subseteq timers
      BY <2>2 DEF Deletes
    <3> QED
      BY <2>0, <3>1, <3>2, <3>3, <3>4 DEF Live
  <2> QED
    BY <1>2, <2>1, <2>2
<1>5. Types'
  <2>1. active' \subseteq Ids /\ canceling' \subseteq Ids
    BY <1>1, <1>2 DEF Deletes, DeletesNone, IInv, Types, TypeOK
  <2>2. asked' \subseteq 1..created /\ cancelled' \subseteq asked'
    BY <1>1 DEF IInv, Types, TypeOK
  <2>3. \A a \in Addresses : heap'[a] \in {Nothing} \cup
          [expiration : Int, interval : Intervals \cup {0}, sequence : 1..created]
    BY <1>3 DEF IInv, Types, TypeOK
  <2>4. Ids' = Ids
    BY DEF Ids
  <2> QED
    BY <1>3, <1>4, <2>1, <2>2, <2>3, <2>4 DEF IInv, Types, TypeOK, HeapType, FunctorSet
<1>6. Placement'
  <2>1. SequencesDistinct' /\ ExpirationsBounded'
    BY <1>3 DEF IInv, Placement, SequencesDistinct, ExpirationsBounded
  <2>2. OnHeap'
    <3>1. active' = {<<e[2], heap'[e[2]].sequence>> : e \in timers'}
      <4>1. active = {<<e[2], heap[e[2]].sequence>> : e \in timers}
        BY DEF IInv, Placement, OnHeap
      <4>2. CASE DeletesNone(id)
        BY <4>1, <4>2 DEF DeletesNone
      <4>3. CASE Deletes(id)
        <5>1. active' = active \ {id} /\ timers' = {e \in timers : e[2] # id[1]}
          BY <4>3 DEF Deletes
        <5>2. \A e \in timers : e[2] = id[1] <=> <<e[2], heap[e[2]].sequence>> = id
          BY <1>1, <4>3 DEF Deletes
        <5>3. active' = {<<e[2], heap[e[2]].sequence>> : e \in timers'}
          BY <4>1, <5>1, <5>2
        <5> QED
          BY <1>4, <5>3
      <4> QED
        BY <1>2, <4>2, <4>3
    <3> QED
      BY <1>4, <3>1 DEF IInv, Placement, OnHeap
  <2>3. OnePlace'
    <3>1. ASSUME NEW a \in Addresses
          PROVE  /\ InTimers(a)' => InTimers(a)
                 /\ InTimers(a) => InTimers(a)' \/ ~Live(a)'
                 /\ InBatch(a)' <=> InBatch(a)
                 /\ InAdds(a)' <=> InAdds(a)
                 /\ Live(a)' => Live(a)
      <4>1. InTimers(a)' => InTimers(a)
        BY <1>4 DEF InTimers
      <4>2. InTimers(a) => InTimers(a)' \/ ~Live(a)'
        <5>1. CASE DeletesNone(id)
          BY <5>1 DEF DeletesNone, InTimers
        <5>2. CASE Deletes(id)
          <6>1. ~Live(id[1])' /\ timers' = {e \in timers : e[2] # id[1]}
            BY <1>1, <5>2 DEF Deletes, Live, IInv, Types, HeapType
          <6> QED
            BY <6>1 DEF InTimers
        <5> QED
          BY <1>2, <5>1, <5>2
      <4>3. (InBatch(a)' <=> InBatch(a)) /\ (InAdds(a)' <=> InAdds(a))
        BY DEF InBatch, InAdds
      <4>4. Live(a)' => Live(a)
        BY <1>3
      <4> QED
        BY <4>1, <4>2, <4>3, <4>4
    <3> QED
      BY <3>1 DEF IInv, Placement, OnePlace
  <2> QED
    BY <2>1, <2>2, <2>3 DEF Placement
<1>7. IdsTrue'
  <2>1. Known' \subseteq Known
    BY DEF Known
  <2> QED
    BY <1>3, <2>1 DEF IInv, IdsTrue
<1>8. History'
  <2>1. AskedFor'
    <3>1. canceling' \subseteq canceling \cup {id}
      BY <1>2 DEF Deletes, DeletesNone
    <3> QED
      BY <3>1 DEF IInv, History, AskedFor
  <2>2. FiredOnce'
    BY <1>4 DEF IInv, History, FiredOnce
  <2>3. NoTimerLost'
    <3>1. ASSUME NEW s \in 1..created
          PROVE  \/ \E a \in Addresses : heap'[a] # Nothing /\ heap'[a].sequence = s
                 \/ s \in asked' \cup fired \/ gone
      <4>1. \/ \E a \in Addresses : heap[a] # Nothing /\ heap[a].sequence = s
            \/ s \in asked \cup fired \/ gone
        BY DEF IInv, History, NoTimerLost
      <4>2. ASSUME NEW a \in Addresses, Live(a), heap[a].sequence = s
            PROVE  (Live(a)' /\ heap'[a].sequence = s) \/ s \in asked'
        BY <1>3, <4>2
      <4> QED
        BY <4>1, <4>2 DEF Live
    <3> QED
      BY <3>1 DEF NoTimerLost
  <2>4. CancelledOut'
    <3>1. ASSUME NEW e \in timers' PROVE heap'[e[2]].sequence \notin cancelled'
      <4>1. e \in timers /\ heap'[e[2]] = heap[e[2]] /\ e[2] \in Addresses /\ Live(e[2])
              /\ heap[e[2]].sequence \notin cancelled
        BY <1>4, EntryIs DEF IInv, History, CancelledOut
      <4>2. ASSUME heap[e[2]].sequence = id[2] PROVE FALSE
        <5>1. e[2] = id[1] /\ <<e[2], heap[e[2]].sequence>> = id
          BY <1>1, <4>1, <4>2
        <5>2. id \in active
          BY <4>1, <5>1 DEF IInv, Placement, OnHeap
        <5> QED
          BY <1>2, <5>1, <5>2 DEF Deletes, DeletesNone
      <4> QED
        BY <4>1, <4>2
    <3>2. ASSUME NEW e \in batch, heap'[e[2]].sequence \in cancelled'
          PROVE  <<e[2], heap'[e[2]].sequence>> \in canceling'
      <4>1. heap'[e[2]] = heap[e[2]] /\ e[2] \in Addresses /\ Live(e[2])
        BY <1>4, EntryIs
      <4>2. CASE heap[e[2]].sequence \in cancelled
        <5>1. <<e[2], heap[e[2]].sequence>> \in canceling
          BY <4>2 DEF IInv, History, CancelledOut
        <5> QED
          BY <1>2, <4>1, <5>1 DEF Deletes, DeletesNone
      <4>3. CASE heap[e[2]].sequence = id[2]
        <5>1. e[2] = id[1] /\ <<e[2], heap[e[2]].sequence>> = id
          BY <1>1, <4>1, <4>3
        <5>2. ~Deletes(id)
          BY <5>1 DEF Deletes, InBatch
        <5>3. calling
          BY DEF IInv, Reading
        <5> QED
          BY <1>2, <4>1, <5>1, <5>2, <5>3 DEF DeletesNone
      <4> QED
        BY <3>2, <4>1, <4>2, <4>3
    <3> QED
      BY <3>1, <3>2 DEF CancelledOut
  <2> QED
    BY <2>1, <2>2, <2>3, <2>4 DEF History
<1>9. Clocks' /\ Reading' /\ Arming'
  BY <1>4 DEF IInv, Clocks, Reading, Arming, ArmedWhenPending, Timely, InTime
<1> QED
  BY <1>5, <1>6, <1>7, <1>8, <1>9 DEF IInv

\* cancel of the loop thread.
LEMMA NextCancel ==
  ASSUME IInv, NEW id \in ids, Cancel(id)
  PROVE  IInv'
<1>1. /\ cancelInLoop(id) /\ asked' = asked \cup {id[2]}
      /\ UNCHANGED <<mono, offset, steps, armed, readable, reported, created, calling, pc,
                     batch, torun, at, functors, adding, ids, fired, gone>>
      /\ cancelled' = IF Queued(id) THEN cancelled ELSE cancelled \cup {id[2]}
  BY DEF Cancel, clockVars, fdVars, readVars
<1>2. id \in Known /\ id \in Ids
  BY DEF Known, IInv, Types, TypeOK
<1>3. functors' \in Seq(FunctorSet) /\ Ordered(functors)' /\ Adds' = Adds /\ Cancels' = Cancels
  BY <1>1, KnownIds DEF IInv, Adds, Cancels, Ordered
<1>4. ASSUME NEW q \in Adds PROVE q[2] \notin cancelled'
  <2>1. q[2] \notin cancelled /\ q \in Ids /\ Live(q[1]) /\ heap[q[1]].sequence = q[2]
    BY KnownIds DEF IInv, History, CancelledOut, Placement, OnHeap
  <2>2. CASE q[2] = id[2]
    <3>1. q[1] = id[1]
      BY <1>2, <2>1, <2>2 DEF IInv, IdsTrue, Ids
    <3>2. q = id
      BY <1>2, <2>1, <2>2, <3>1 DEF Ids
    <3>3. PICK i \in DOMAIN functors : functors[i].call = "add" /\ functors[i].id = id
      BY <3>2 DEF Adds, IdsOf
    <3>4. functors[i] \in FunctorSet
      BY KnownIds DEF IInv
    <3>5. functors[i] = [call |-> "add", id |-> id]
      BY <3>3, <3>4 DEF FunctorSet
    <3>6. Queued(id)
      BY <3>5 DEF Queued
    <3> QED
      BY <1>1, <2>1, <3>6
  <2>3. CASE q[2] # id[2]
    BY <1>1, <2>1, <2>3
  <2> QED
    BY <2>2, <2>3
<1> QED
  BY <1>1, <1>2, <1>3, <1>4, CancelKeeps

\* cancel of another thread.
LEMMA NextCancelForeign ==
  ASSUME IInv, NEW id \in ids, CancelForeign(id)
  PROVE  IInv'
<1>0. UNCHANGED <<mono, offset, steps, armed, readable, reported, heap, created, timers,
                  active, canceling, calling, pc, batch, torun, at, adding, ids, cancelled,
                  fired, gone>>
  BY DEF CancelForeign, clockVars, fdVars, setVars, readVars, ghostVars
<1> DEFINE f == [call |-> "cancel", id |-> id]
<1>1. functors' = Append(functors, f) /\ asked' = asked \cup {id[2]}
  BY DEF CancelForeign
<1>2. id \in Known /\ id \in Ids /\ id[2] \in 1..created
  BY DEF Known, IInv, Types, TypeOK, Ids
<1>3. f \in FunctorSet /\ f.call = "cancel" /\ f.id = id
  BY <1>2 DEF FunctorSet
<1> HIDE DEF f
<1>4. /\ functors' \in Seq(FunctorSet) /\ Ordered(functors') /\ Adds' = Adds
      /\ Cancels' = Cancels \cup {id}
  <2>1. functors \in Seq(FunctorSet) /\ Ordered(functors)
    BY KnownIds DEF IInv
  <2>2. /\ Append(functors, f) \in Seq(FunctorSet) /\ Ordered(Append(functors, f))
        /\ \A call : IdsOf(Append(functors, f), call) =
             IdsOf(functors, call) \cup (IF f.call = call THEN {f.id} ELSE {})
    BY <1>3, <2>1, Appended
  <2> QED
    BY <1>1, <1>3, <2>2 DEF Adds, Cancels
<1>5. Types'
  <2>1. Ids' = Ids /\ asked' \subseteq 1..created
    BY <1>0, <1>1, <1>2 DEF Ids, IInv, Types, TypeOK
  <2> QED
    BY <1>0, <1>1, <1>4, <2>1 DEF IInv, Types, TypeOK, HeapType, FunctorSet
<1>6. Placement'
  BY <1>0, <1>4 DEF IInv, Placement, SequencesDistinct, ExpirationsBounded, OnHeap, OnePlace,
    Live, InTimers, InBatch, InAdds
<1>7. IdsTrue'
  <2>1. Known' \subseteq Known
    BY <1>0, <1>2, <1>4 DEF Known
  <2> QED
    BY <1>0, <2>1 DEF IInv, IdsTrue, Live
<1>8. History'
  <2>1. AskedFor'
    BY <1>0, <1>1, <1>4 DEF IInv, History, AskedFor
  <2>2. FiredOnce' /\ CancelledOut'
    BY <1>0, <1>4 DEF IInv, History, FiredOnce, CancelledOut
  <2>3. NoTimerLost'
    BY <1>0, <1>1 DEF IInv, History, NoTimerLost
  <2> QED
    BY <2>1, <2>2, <2>3 DEF History
<1>9. Clocks' /\ Reading' /\ Arming'
  BY <1>0 DEF IInv, Clocks, Reading, Arming, ArmedWhenPending, Timely, InTime
<1> QED
  BY <1>4, <1>5, <1>6, <1>7, <1>8, <1>9 DEF IInv

\* A queued addTimerInLoop or cancelInLoop runs.
LEMMA NextRunFunctor == IInv /\ RunFunctor => IInv'
<1> SUFFICES ASSUME IInv, RunFunctor PROVE IInv'
  OBVIOUS
<1>0. UNCHANGED <<mono, offset, steps, reported, created, calling, pc, batch, torun, at,
                  adding, ids, asked, fired, gone>>
  BY DEF RunFunctor, clockVars, readVars
<1> DEFINE f == Head(functors)
           id == f.id
<1>1. functors # <<>> /\ functors' = Tail(functors)
  BY DEF RunFunctor
<1>2. /\ f \in FunctorSet /\ functors' \in Seq(FunctorSet) /\ Ordered(functors')
      /\ \A call : IdsOf(functors, call) =
           IdsOf(functors', call) \cup (IF f.call = call THEN {id} ELSE {})
      /\ f.call = "add" => id \notin IdsOf(functors', "add")
      /\ f.call = "cancel" => \A q \in IdsOf(functors', "add") : q[2] # id[2]
  BY <1>1, KnownIds, TakenOff DEF IInv
<1>3. id \in Ids
  BY <1>2 DEF FunctorSet
<1>4. ASSUME f.call = "cancel", cancelInLoop(id), cancelled' = cancelled \cup {id[2]},
             UNCHANGED <<armed, readable>>
      PROVE  IInv'
  <2>1. Adds' = Adds /\ Cancels = Cancels' \cup {id}
    BY <1>2, <1>4 DEF Adds, Cancels
  <2>2. id \in Known /\ id[2] \in asked
    BY <2>1 DEF Known, IInv, History, AskedFor
  <2>3. \A q \in Adds : q[2] \notin cancelled'
    BY <1>2, <1>4, <2>1 DEF IInv, History, CancelledOut, Adds
  <2> HIDE DEF f, id
  <2>4. asked' = asked \cup {id[2]}
    BY <1>0, <2>2
  <2> QED
    BY <1>0, <1>2, <1>4, <2>1, <2>2, <2>3, <2>4, CancelKeeps
<1>5. ASSUME f.call = "add", addTimerInLoop(id[1], heap[id[1]]),
             UNCHANGED <<heap, canceling, cancelled>>
      PROVE  IInv'
  <2>0. PICK a \in Addresses : a = id[1] /\ id = <<a, id[2]>>
    <3> HIDE DEF f, id
    <3>1. id[1] \in Addresses /\ id = <<id[1], id[2]>>
      BY <1>3 DEF Ids
    <3> QED
      BY <3>1
  <2>1. Adds = Adds' \cup {id} /\ Cancels' = Cancels /\ id \notin Adds'
    BY <1>2, <1>5 DEF Adds, Cancels
  <2>2. Live(a) /\ heap[a].sequence = id[2] /\ heap[a] \in TimerSet
    BY <2>0, <2>1, TimerIs DEF IInv, Placement, OnHeap
  <2> DEFINE timer == heap[a]
  <2>3. /\ timers' = timers \cup {<<timer.expiration, a>>}
        /\ active' = active \cup {<<a, timer.sequence>>}
        /\ armed' \in Nat \cup {Nothing} /\ readable' \in BOOLEAN
        /\ armed' # Nothing => armed' > mono
        /\ Arming'
    BY <1>0, <1>5, <2>0, <2>2, AddTimerInLoopIs
  <2> HIDE DEF f, id, timer
  <2>4. /\ <<timer.expiration, a>>[1] = timer.expiration /\ <<timer.expiration, a>>[2] = a
        /\ timer.expiration \in Int /\ timer = heap[a]
    BY <2>2 DEF timer, TimerSet
  <2>5. \A e \in timers' : e \in timers \/ (e[2] = a /\ e[1] = heap[a].expiration)
    BY <2>3, <2>4
  <2>6. Types'
    <3>1. timers' \subseteq Entries /\ active' \subseteq Ids /\ Ids' = Ids
      BY <1>0, <1>3, <2>0, <2>2, <2>3, <2>4 DEF IInv, Types, TypeOK, Entries, Ids
    <3> QED
      BY <1>0, <1>2, <1>5, <2>3, <3>1 DEF IInv, Types, TypeOK, HeapType, FunctorSet
  <2>7. Placement'
    <3>1. SequencesDistinct' /\ ExpirationsBounded'
      BY <1>5 DEF IInv, Placement, SequencesDistinct, ExpirationsBounded, Live
    <3>2. OnHeap'
      <4>1. active = {<<e[2], heap[e[2]].sequence>> : e \in timers}
        BY DEF IInv, Placement, OnHeap
      <4>2. {<<e[2], heap[e[2]].sequence>> : e \in timers \cup {<<timer.expiration, a>>}} =
              {<<e[2], heap[e[2]].sequence>> : e \in timers} \cup {<<a, timer.sequence>>}
        BY <2>4
      <4>3. active' = {<<e[2], heap'[e[2]].sequence>> : e \in timers'}
        BY <1>5, <2>3, <4>1, <4>2
      <4>4. \A e \in timers' \cup batch : Live(e[2]) /\ heap[e[2]].expiration = e[1]
        BY <2>2, <2>5 DEF IInv, Placement, OnHeap
      <4>5. \A q \in Adds' : Live(q[1]) /\ heap[q[1]].sequence = q[2]
        BY <2>1 DEF IInv, Placement, OnHeap
      <4> QED
        BY <1>0, <1>5, <4>3, <4>4, <4>5 DEF OnHeap, Live
    <3>3. OnePlace'
      <4>1. \A q \in Adds' : q[1] # a
        <5>1. \A q \in Adds' : q \in Ids /\ q[2] = heap[q[1]].sequence
          BY <2>1, KnownIds DEF IInv, Placement, OnHeap
        <5>2. \A q \in Adds' : q = <<q[1], heap[q[1]].sequence>>
          BY <5>1 DEF Ids
        <5> QED
          BY <2>0, <2>1, <2>2, <5>2
      <4>2. ASSUME NEW b \in Addresses
            PROVE  /\ Live(b)' <=> Live(b)
                   /\ InTimers(b)' <=> InTimers(b) \/ b = a
                   /\ InBatch(b)' <=> InBatch(b)
                   /\ InAdds(b) <=> InAdds(b)' \/ b = a
        <5>1. (Live(b)' <=> Live(b)) /\ (InBatch(b)' <=> InBatch(b))
          BY <1>0, <1>5 DEF Live, InBatch
        <5>2. InTimers(b)' <=> InTimers(b) \/ b = a
          BY <2>3, <2>4, <2>5 DEF InTimers
        <5>3. InAdds(b) <=> InAdds(b)' \/ b = a
          <6>1. id \in Adds /\ id[1] = a
            BY <2>0, <2>1
          <6>2. \A q \in Adds : q \in Adds' \/ q[1] = a
            BY <2>1, <6>1
          <6> QED
            BY <2>1, <6>1, <6>2 DEF InAdds
        <5> QED
          BY <5>1, <5>2, <5>3
      <4>3. ~InAdds(a)'
        BY <4>1 DEF InAdds
      <4> QED
        BY <2>1, <4>2, <4>3 DEF IInv, Placement, OnePlace
    <3> QED
      BY <3>1, <3>2, <3>3 DEF Placement
  <2>8. IdsTrue'
    <3>1. Known' = Known
      BY <1>0, <2>1 DEF Known
    <3> QED
      BY <1>5, <3>1 DEF IInv, IdsTrue, Live
  <2>9. History'
    <3>1. AskedFor' /\ FiredOnce' /\ NoTimerLost'
      BY <1>0, <1>5, <2>1 DEF IInv, History, AskedFor, FiredOnce, NoTimerLost
    <3>2. CancelledOut'
      <4>1. heap[a].sequence \notin cancelled
        BY <2>1, <2>2 DEF IInv, History, CancelledOut
      <4> QED
        BY <1>0, <1>5, <2>1, <2>5, <4>1 DEF IInv, History, CancelledOut
    <3> QED
      BY <3>1, <3>2 DEF History
  <2>10. Clocks' /\ Reading'
    BY <1>0, <2>3 DEF IInv, Clocks, Reading
  <2> QED
    BY <1>2, <2>3, <2>6, <2>7, <2>8, <2>9, <2>10 DEF IInv
<1> QED
  BY <1>4, <1>5 DEF RunFunctor

\* getExpired: the batch is cut off timers_.
LEMMA NextHandleRead == IInv /\ HandleRead => IInv'
<1> SUFFICES ASSUME IInv, HandleRead PROVE IInv'
  OBVIOUS
<1>0. /\ UNCHANGED <<mono, offset, steps, armed, heap, created, functors, adding, ids, asked,
                     cancelled, fired, gone>>
      /\ at' = wall /\ readable' = FALSE /\ reported' = FALSE
      /\ calling' = TRUE /\ canceling' = {} /\ pc' = "calling"
      /\ pc = "idle" /\ reported
  BY DEF HandleRead, clockVars, userVars, ghostVars
<1> DEFINE expired == {e \in timers : e[1] <= wall}
<1>1. /\ batch' = expired /\ torun' = expired /\ timers' = timers \ expired
      /\ active' = active \ {<<e[2], heap[e[2]].sequence>> : e \in expired}
      /\ expired \subseteq timers
  BY DEF HandleRead
<1> HIDE DEF expired
<1>2. batch = {} /\ ~gone
  BY <1>0 DEF IInv, Reading
<1>3. Adds' = Adds /\ Cancels' = Cancels /\ Ordered(functors)'
  BY <1>0 DEF Adds, Cancels, IInv, Ordered
<1>4. mono \in Nat /\ offset \in Int /\ steps \in 0..MaxSteps /\ wall \in Int /\ wall >= Low
  BY DEF IInv, Types, TypeOK, Clocks, wall, Low
<1>5. \A e, f \in timers : e[2] = f[2] => e = f
  BY EntryIs
<1>6. Types'
  <2>1. Ids' = Ids
    BY <1>0 DEF Ids
  <2>2. active' \subseteq Ids /\ timers' \subseteq Entries /\ batch' \subseteq Entries
    BY <1>1 DEF IInv, Types, TypeOK
  <2> QED
    BY <1>0, <1>1, <1>4, <2>1, <2>2 DEF IInv, Types, TypeOK, HeapType
<1>7. Placement'
  <2>1. SequencesDistinct' /\ ExpirationsBounded'
    BY <1>0 DEF IInv, Placement, SequencesDistinct, ExpirationsBounded, Live
  <2>2. OnHeap'
    <3>1. active' = {<<e[2], heap[e[2]].sequence>> : e \in timers'}
      <4>1. active = {<<e[2], heap[e[2]].sequence>> : e \in timers}
        BY DEF IInv, Placement, OnHeap
      <4>2. ASSUME NEW e \in timers, NEW f \in timers,
                   <<e[2], heap[e[2]].sequence>> = <<f[2], heap[f[2]].sequence>>
            PROVE  e = f
        BY <1>5, <4>2
      <4> QED
        BY <1>1, <4>1, <4>2
    <3> QED
      BY <1>0, <1>1, <1>3, <3>1 DEF IInv, Placement, OnHeap, Live
  <2>3. OnePlace'
    <3>1. ASSUME NEW a \in Addresses
          PROVE  /\ Live(a)' <=> Live(a)
                 /\ InTimers(a) <=> InTimers(a)' \/ InBatch(a)'
                 /\ ~(InTimers(a)' /\ InBatch(a)') /\ ~InBatch(a)
                 /\ InAdds(a)' <=> InAdds(a)
      <4>1. (Live(a)' <=> Live(a)) /\ (InAdds(a)' <=> InAdds(a)) /\ ~InBatch(a)
        BY <1>0, <1>2, <1>3 DEF Live, InAdds, InBatch
      <4>2. InTimers(a) <=> InTimers(a)' \/ InBatch(a)'
        BY <1>1 DEF InTimers, InBatch
      <4>3. ~(InTimers(a)' /\ InBatch(a)')
        BY <1>1, <1>5 DEF InTimers, InBatch
      <4> QED
        BY <4>1, <4>2, <4>3
    <3> QED
      BY <3>1 DEF IInv, Placement, OnePlace
  <2> QED
    BY <2>1, <2>2, <2>3 DEF Placement
<1>8. IdsTrue'
  BY <1>0, SameIds
<1>9. History'
  <2>1. AskedFor' /\ FiredOnce'
    BY <1>0, <1>1, <1>3 DEF IInv, History, AskedFor, FiredOnce
  <2>2. NoTimerLost'
    BY <1>0 DEF IInv, History, NoTimerLost
  <2>3. CancelledOut'
    BY <1>0, <1>1, <1>3 DEF IInv, History, CancelledOut
  <2> QED
    BY <2>1, <2>2, <2>3 DEF History
<1>10. Clocks' /\ Reading' /\ Arming'
  BY <1>0, <1>1, <1>2, <1>4 DEF IInv, Clocks, Reading, Arming, ArmedWhenPending, Timely
<1> QED
  BY <1>3, <1>6, <1>7, <1>8, <1>9, <1>10 DEF IInv

\* handleRead runs the next timer of the batch.
LEMMA NextRunTimer == IInv /\ RunTimer => IInv'
<1> SUFFICES ASSUME IInv, RunTimer PROVE IInv'
  OBVIOUS
<1>0. /\ UNCHANGED <<mono, offset, steps, armed, readable, reported, heap, created, timers,
                     active, canceling, calling, batch, at, functors, adding, ids, asked,
                     cancelled, gone>>
      /\ pc' = "callback" /\ pc = "calling" /\ torun # {}
  BY DEF RunTimer, clockVars, fdVars, setVars, userVars
<1>1. torun \in SUBSET (timers \cup batch) /\ torun \subseteq batch
  BY DEF IInv, Types, TypeOK
<1>2. PICK e : /\ e \in torun /\ e = First(torun)
  BY <1>0, <1>1, FirstTimer
<1>3. /\ torun' = torun \ {e}
      /\ fired' = IF heap[e[2]].interval = 0 THEN fired \cup {heap[e[2]].sequence} ELSE fired
  BY <1>2 DEF RunTimer
<1>4. e[2] \in Addresses /\ heap[e[2]].sequence \in 1..created
  BY <1>1, <1>2, EntryIs, TimerIs DEF IInv
<1>5. Adds' = Adds /\ Cancels' = Cancels /\ Ordered(functors)'
  BY <1>0 DEF Adds, Cancels, IInv, Ordered
<1>6. Types'
  <2>1. Ids' = Ids /\ fired' \subseteq 1..created
    BY <1>0, <1>3, <1>4 DEF Ids, IInv, Types, TypeOK
  <2> QED
    BY <1>0, <1>3, <2>1 DEF IInv, Types, TypeOK, HeapType
<1>7. Placement'
  BY <1>0, <1>5 DEF IInv, Placement, SequencesDistinct, ExpirationsBounded, OnHeap, OnePlace,
    Live, InTimers, InBatch, InAdds
<1>8. IdsTrue'
  BY <1>0, SameIds
<1>9. History'
  <2>1. AskedFor' /\ CancelledOut'
    BY <1>0, <1>5 DEF IInv, History, AskedFor, CancelledOut
  <2>2. FiredOnce' /\ NoTimerLost'
    BY <1>0, <1>3 DEF IInv, History, FiredOnce, NoTimerLost
  <2> QED
    BY <2>1, <2>2 DEF History
<1>10. Clocks' /\ Reading' /\ Arming'
  BY <1>0 DEF IInv, Clocks, Reading, Arming, ArmedWhenPending, Timely
<1> QED
  BY <1>5, <1>6, <1>7, <1>8, <1>9, <1>10 DEF IInv

\* ~TimerQueue.
LEMMA NextDestructor == IInv /\ Destructor => IInv'
<1> SUFFICES ASSUME IInv, Destructor PROVE IInv'
  OBVIOUS
<1>0. /\ UNCHANGED <<mono, offset, steps, reported, created, calling, pc, batch, torun, at,
                     functors, adding, ids, asked, cancelled, fired>>
      /\ gone' = TRUE /\ armed' = Nothing /\ readable' = FALSE
      /\ timers' = {} /\ active' = {} /\ canceling' = {}
      /\ pc = "idle" /\ ~reported
  BY DEF Destructor, clockVars, readVars, userVars
<1>1. heap' = [a \in Addresses |-> IF InTimers(a) THEN Nothing ELSE heap[a]]
  BY DEF Destructor, InTimers
<1>2. batch = {}
  BY <1>0 DEF IInv, Reading
<1>3. Adds' = Adds /\ Cancels' = Cancels /\ Ordered(functors)' /\ Known' = Known
  BY <1>0 DEF Adds, Cancels, IInv, Ordered, Known
<1>4. /\ HeapType'
      /\ \A a \in Addresses : Live(a)' => Live(a) /\ heap'[a] = heap[a] /\ ~InTimers(a)
      /\ \A a \in Addresses : Live(a) /\ ~InTimers(a) => Live(a)' /\ heap'[a] = heap[a]
  BY <1>1 DEF IInv, Types, HeapType, Live
<1>5. Types'
  <2>1. Ids' = Ids
    BY <1>0 DEF Ids
  <2>2. \A a \in Addresses : heap'[a] \in {Nothing} \cup
          [expiration : Int, interval : Intervals \cup {0}, sequence : 1..created]
    BY <1>1 DEF IInv, Types, TypeOK
  <2> QED
    BY <1>0, <1>4, <2>1, <2>2 DEF IInv, Types, TypeOK
<1>6. Placement'
  <2>1. SequencesDistinct' /\ ExpirationsBounded'
    BY <1>4 DEF IInv, Placement, SequencesDistinct, ExpirationsBounded
  <2>2. \A q \in Adds : q[1] \in Addresses /\ Live(q[1]) /\ ~InTimers(q[1])
          /\ heap[q[1]].sequence = q[2]
    BY KnownIds DEF IInv, Placement, OnHeap, OnePlace, InAdds, Ids
  <2>3. OnHeap'
    BY <1>0, <1>2, <1>3, <1>4, <2>2 DEF OnHeap
  <2>4. OnePlace'
    <3>1. ASSUME NEW a \in Addresses
          PROVE  /\ Live(a)' => Live(a) /\ ~InTimers(a)
                 /\ ~InTimers(a)' /\ ~InBatch(a)' /\ ~InBatch(a)
                 /\ InAdds(a)' <=> InAdds(a)
      BY <1>0, <1>2, <1>3, <1>4 DEF InTimers, InBatch, InAdds
    <3> QED
      BY <3>1 DEF IInv, Placement, OnePlace
  <2> QED
    BY <2>1, <2>3, <2>4 DEF Placement
<1>7. IdsTrue'
  BY <1>3, <1>4 DEF IInv, IdsTrue
<1>8. History'
  BY <1>0, <1>2, <1>3 DEF IInv, History, AskedFor, FiredOnce, NoTimerLost, CancelledOut
<1>9. Clocks' /\ Reading' /\ Arming'
  BY <1>0, <1>2 DEF IInv, Clocks, Reading, Arming, ArmedWhenPending, Timely
<1> QED
  BY <1>3, <1>5, <1>6, <1>7, <1>8, <1>9 DEF IInv

\* The end of handleRead: reset() restarts the repeating timers of the batch that were not
\* cancelled meanwhile and deletes the others.
LEMMA NextReset == IInv /\ Reset => IInv'
<1> SUFFICES ASSUME IInv, Reset PROVE IInv'
  OBVIOUS
<1>0. /\ UNCHANGED <<mono, offset, steps, reported, created, canceling, torun, at, functors,
                     adding, ids, asked, cancelled, fired, gone>>
      /\ calling' = FALSE /\ pc' = "idle" /\ batch' = {} /\ pc = "calling" /\ torun = {}
  BY DEF Reset, clockVars, userVars, ghostVars
<1>1. PICK again : again = Again
  OBVIOUS
<1> DEFINE Repeats(a) == \E e \in again : e[2] = a
           next(a) == at + heap[a].interval
           added == {<<next(e[2]), e[2]>> : e \in again}
<1>2. /\ again \subseteq batch
      /\ \A e \in again : /\ heap[e[2]].interval > 0
                          /\ <<e[2], heap[e[2]].sequence>> \notin canceling
      /\ \A e \in batch : e \in again \/ ~(heap[e[2]].interval > 0)
                            \/ <<e[2], heap[e[2]].sequence>> \in canceling
  BY <1>1 DEF Again
<1>3. \A e \in batch : /\ e[2] \in Addresses /\ Live(e[2]) /\ heap[e[2]] \in TimerSet
                       /\ heap[e[2]].interval \in Nat /\ heap[e[2]].sequence \in 1..created
  BY EntryIs, TimerIs DEF IInv
<1>4. at \in Int /\ at >= Low /\ Low \in Int
  BY DEF IInv, Types, TypeOK, Clocks, Low
<1>5. \A a \in Addresses : Repeats(a) => /\ InBatch(a) /\ Live(a) /\ heap[a] \in TimerSet
                                         /\ heap[a].interval \in Nat /\ next(a) \in Int
                                         /\ next(a) >= Low
  BY <1>2, <1>3, <1>4 DEF InBatch
<1>6. /\ timers' = timers \cup added
      /\ active' = active \cup {<<e[2], heap[e[2]].sequence>> : e \in again}
      /\ Rearm(timers \cup added)
  <2>1. \A e \in again : restart(heap[e[2]], at).expiration = next(e[2])
    BY <1>2, <1>3 DEF restart, addTime, TimerSet
  <2>2. added = {<<restart(heap[e[2]], at).expiration, e[2]>> : e \in Again}
    BY <1>1, <2>1
  <2> HIDE DEF added, next
  <2> QED
    BY <1>1, <2>2 DEF Reset
<1>7. heap' = [a \in Addresses |-> IF Repeats(a) THEN restart(heap[a], at)
                                   ELSE IF InBatch(a) THEN Nothing ELSE heap[a]]
  BY <1>1 DEF Reset, InBatch
<1>8. ASSUME NEW a \in Addresses
      PROVE  /\ Repeats(a) => /\ heap'[a] \in TimerSet /\ Live(a)'
                              /\ heap'[a].expiration = next(a)
                              /\ heap'[a].interval = heap[a].interval
                              /\ heap'[a].sequence = heap[a].sequence
             /\ ~Repeats(a) /\ InBatch(a) => ~Live(a)'
             /\ ~InBatch(a) => heap'[a] = heap[a]
  <2>1. ASSUME Repeats(a)
        PROVE  /\ heap'[a] \in TimerSet /\ Live(a)' /\ heap'[a].expiration = next(a)
               /\ heap'[a].interval = heap[a].interval
               /\ heap'[a].sequence = heap[a].sequence
    <3>1. heap'[a] = [heap[a] EXCEPT !.expiration = next(a)] /\ heap[a] \in TimerSet
            /\ next(a) \in Int
      BY <1>5, <1>7, <2>1 DEF restart, addTime
    <3> HIDE DEF next, Repeats
    <3> QED
      BY <3>1 DEF TimerSet, Live
  <2>2. ~Repeats(a) /\ InBatch(a) => ~Live(a)'
    BY <1>7 DEF Live
  <2>3. ~InBatch(a) => heap'[a] = heap[a]
    BY <1>5, <1>7
  <2> QED
    BY <2>1, <2>2, <2>3
<1>9. /\ \A e \in added : e[2] \in Addresses /\ Repeats(e[2]) /\ e[1] = next(e[2])
                            /\ e = <<e[1], e[2]>>
      /\ \A a \in Addresses : Repeats(a) => <<next(a), a>> \in added
  BY <1>2, <1>3
<1>10. \A a \in Addresses : (Live(a)' => Live(a)) /\
                           (Live(a)' => heap'[a].sequence = heap[a].sequence)
  BY <1>5, <1>8 DEF Live
<1>11. \A e \in timers : e[2] \in Addresses /\ ~InBatch(e[2]) /\ heap'[e[2]] = heap[e[2]]
  BY <1>8, EntryIs DEF IInv, Placement, OnePlace, InTimers
<1>12. Adds' = Adds /\ Cancels' = Cancels /\ Ordered(functors)' /\ Known' = Known
  BY <1>0 DEF Adds, Cancels, IInv, Ordered, Known
<1>13. \A q \in Adds : q[1] \in Addresses /\ Live(q[1]) /\ ~InBatch(q[1])
          /\ heap'[q[1]] = heap[q[1]] /\ heap[q[1]].sequence = q[2]
  BY <1>8, KnownIds DEF IInv, Placement, OnHeap, OnePlace, InAdds, Ids
<1> HIDE DEF Repeats, next, added
<1>14. timers' \in SUBSET Entries /\ \A e \in timers' : e[1] \in Int /\ e[1] >= Low
  <2>1. \A e \in added : e \in Entries /\ e[1] \in Int /\ e[1] >= Low
    BY <1>5, <1>9 DEF Entries
  <2>2. \A e \in timers : e \in Entries /\ e[1] \in Int /\ e[1] >= Low
    BY EntryIs DEF Entries
  <2> QED
    BY <1>6, <2>1, <2>2
<1>15. /\ armed' \in Nat \cup {Nothing} /\ readable' \in BOOLEAN
       /\ armed' # Nothing => armed' > mono
       /\ Arming'
  <2>0. mono \in Nat /\ Types /\ Clocks
    BY DEF IInv, Types, TypeOK
  <2>1. CASE timers' = {}
    BY <1>0, <1>6, <2>1 DEF IInv, Types, TypeOK, Clocks, Arming, ArmedWhenPending, Timely, Rearm
  <2>2. CASE timers' # {}
    <3>1. /\ First(timers') \in timers' /\ First(timers')[1] \in Int
          /\ \A e \in timers' : First(timers')[1] <= e[1]
      BY <1>14, <2>2, FirstIs
    <3>2. PICK when \in Int : when = First(timers')[1]
      BY <3>1
    <3>3. resetTimerfd(when)
      BY <1>6, <2>2, <3>2 DEF Rearm
    <3>4. /\ armed' \in Nat /\ armed' # Nothing /\ armed' > mono /\ readable' = FALSE
          /\ steps = 0 => armed' = InTime(when)
      BY <2>0, <3>3, ResetTimerfdIs
    <3>5. Timely'
      BY <1>0, <1>14, <2>0, <3>1, <3>2, <3>4 DEF Timely, InTime
    <3> QED
      BY <3>4, <3>5 DEF Arming, ArmedWhenPending
  <2> QED
    BY <2>1, <2>2
<1>16. Types'
  <2>1. Ids' = Ids
    BY <1>0 DEF Ids
  <2>2. active' \subseteq Ids
    BY <1>2, <1>3, <1>6 DEF IInv, Types, TypeOK, Ids
  <2>3. ASSUME NEW a \in Addresses
        PROVE  heap'[a] \in {Nothing} \cup
          [expiration : Int, interval : Intervals \cup {0}, sequence : 1..created]
    <3>1. CASE Repeats(a)
      <4>1. /\ heap[a].interval \in Intervals \cup {0} /\ heap[a].sequence \in 1..created
            /\ next(a) \in Int
        BY <1>5, <3>1, TimerIs DEF IInv
      <4> QED
        BY <1>8, <3>1, <4>1 DEF TimerSet
    <3>2. CASE ~Repeats(a) /\ InBatch(a)
      BY <1>8, <3>2 DEF Live
    <3>3. CASE ~InBatch(a)
      BY <1>8, <3>3 DEF IInv, Types, TypeOK
    <3> QED
      BY <3>1, <3>2, <3>3
  <2>4. HeapType'
    <3>1. \A a \in Addresses : heap'[a] \in {Nothing} \cup TimerSet
      BY <1>8 DEF IInv, Types, HeapType, Live
    <3>2. heap' = [a \in Addresses |-> heap'[a]]
      BY <1>7
    <3> QED
      BY <3>1, <3>2 DEF HeapType
  <2> QED
    BY <1>0, <1>14, <1>15, <2>1, <2>2, <2>3, <2>4 DEF IInv, Types, TypeOK
<1>17. Placement'
  <2>1. SequencesDistinct'
    BY <1>10 DEF IInv, Placement, SequencesDistinct
  <2>2. ExpirationsBounded'
    BY <1>5, <1>8 DEF IInv, Placement, ExpirationsBounded, Live
  <2>3. OnHeap'
    <3>1. \A e \in timers' : Live(e[2])' /\ heap'[e[2]].expiration = e[1]
      <4>1. \A e \in timers : Live(e[2])' /\ heap'[e[2]].expiration = e[1]
        BY <1>11, EntryIs DEF Live
      <4>2. \A e \in added : Live(e[2])' /\ heap'[e[2]].expiration = e[1]
        BY <1>8, <1>9
      <4> QED
        BY <1>6, <4>1, <4>2
    <3>2. active' = {<<e[2], heap'[e[2]].sequence>> : e \in timers'}
      <4>1. active = {<<e[2], heap'[e[2]].sequence>> : e \in timers}
        BY <1>11 DEF IInv, Placement, OnHeap
      <4>2. {<<e[2], heap[e[2]].sequence>> : e \in again} =
              {<<e[2], heap'[e[2]].sequence>> : e \in added}
        <5>1. ASSUME NEW e \in again
              PROVE  /\ <<next(e[2]), e[2]>> \in added
                     /\ heap[e[2]].sequence = heap'[<<next(e[2]), e[2]>>[2]].sequence
          BY <1>2, <1>3, <1>8, <1>9 DEF Repeats
        <5>2. ASSUME NEW d \in added
              PROVE  \E e \in again : e[2] = d[2] /\ heap[e[2]].sequence = heap'[d[2]].sequence
          BY <1>8, <1>9 DEF Repeats
        <5>3. ASSUME NEW e \in again
              PROVE  \E d \in added : <<e[2], heap[e[2]].sequence>> =
                                        <<d[2], heap'[d[2]].sequence>>
          BY <5>1
        <5> QED
          BY <5>2, <5>3
      <4> QED
        BY <1>6, <4>1, <4>2
    <3>3. \A q \in Adds' : Live(q[1])' /\ heap'[q[1]].sequence = q[2]
      BY <1>12, <1>13 DEF Live
    <3> QED
      BY <1>0, <3>1, <3>2, <3>3 DEF OnHeap
  <2>4. OnePlace'
    <3>1. ASSUME NEW a \in Addresses
          PROVE  /\ Live(a)' => Live(a) /\ (InBatch(a) => Repeats(a))
                 /\ InTimers(a)' <=> InTimers(a) \/ Repeats(a)
                 /\ ~InBatch(a)'
                 /\ InAdds(a)' <=> InAdds(a)
                 /\ Repeats(a) => InBatch(a)
      <4>1. Live(a)' => Live(a) /\ (InBatch(a) => Repeats(a))
        BY <1>8, <1>10
      <4>2. InTimers(a)' <=> InTimers(a) \/ Repeats(a)
        <5>1. Repeats(a) => <<next(a), a>> \in added /\ <<next(a), a>>[2] = a
          BY <1>9
        <5>2. \A e \in added : Repeats(e[2])
          BY <1>9
        <5> QED
          BY <1>6, <5>1, <5>2 DEF InTimers
      <4>3. ~InBatch(a)' /\ (InAdds(a)' <=> InAdds(a))
        BY <1>0, <1>12 DEF InBatch, InAdds
      <4>4. Repeats(a) => InBatch(a)
        BY <1>5
      <4> QED
        BY <4>1, <4>2, <4>3, <4>4
    <3> QED
      BY <3>1 DEF IInv, Placement, OnePlace
  <2> QED
    BY <2>1, <2>2, <2>3, <2>4 DEF Placement
<1>18. IdsTrue'
  BY <1>10, <1>12 DEF IInv, IdsTrue
<1>19. History'
  <2>1. AskedFor' /\ FiredOnce'
    BY <1>0, <1>12 DEF IInv, History, AskedFor, FiredOnce
  <2>2. NoTimerLost'
    <3>1. ASSUME NEW s \in 1..created, s \notin asked \cup fired, ~gone
          PROVE  \E a \in Addresses : heap'[a] # Nothing /\ heap'[a].sequence = s
      <4>1. PICK a \in Addresses : Live(a) /\ heap[a].sequence = s
        BY <3>1 DEF IInv, History, NoTimerLost, Live
      <4>2. CASE ~InBatch(a)
        BY <1>8, <4>1, <4>2 DEF Live
      <4>3. CASE InBatch(a)
        <5>1. PICK e \in batch : e[2] = a
          BY <4>3 DEF InBatch
        <5>2. heap[a].interval \in Nat /\ heap[a].interval # 0
          BY <1>0, <1>3, <3>1, <4>1, <5>1 DEF IInv, History, FiredOnce
        <5>3. <<a, s>> \notin canceling
          BY <3>1 DEF IInv, History, AskedFor
        <5>4. e \in again
          BY <1>2, <4>1, <5>1, <5>2, <5>3
        <5>5. Repeats(a)
          BY <5>1, <5>4 DEF Repeats
        <5> QED
          BY <1>8, <4>1, <5>5 DEF Live
      <4> QED
        BY <4>2, <4>3
    <3> QED
      BY <1>0, <3>1 DEF NoTimerLost
  <2>3. CancelledOut'
    <3>1. \A e \in again : heap[e[2]].sequence \notin cancelled
      BY <1>2 DEF IInv, History, CancelledOut
    <3>2. \A e \in added : heap'[e[2]].sequence \notin cancelled
      BY <1>8, <1>9, <3>1 DEF Repeats
    <3>3. \A e \in timers : heap'[e[2]].sequence \notin cancelled
      BY <1>11 DEF IInv, History, CancelledOut
    <3> QED
      BY <1>0, <1>6, <1>12, <3>2, <3>3 DEF IInv, History, CancelledOut
  <2> QED
    BY <2>1, <2>2, <2>3 DEF History
<1>20. Clocks' /\ Reading'
  BY <1>0, <1>15 DEF IInv, Clocks, Reading
<1> QED
  BY <1>12, <1>15, <1>16, <1>17, <1>18, <1>19, <1>20 DEF IInv

-----------------------------------------------------------------------------
(* The theorems. *)

\* Every step of the specification keeps the invariant.
LEMMA Inductive == IInv /\ [Next]_vars => IInv'
<1> SUFFICES ASSUME IInv, [Next]_vars PROVE IInv'
  OBVIOUS
<1>1. CASE UNCHANGED vars
  <2> USE <1>1 DEF vars, clockVars, fdVars, setVars, readVars, userVars, ghostVars
  <2>1. HeapType' /\ Ordered(functors)' /\ Placement' /\ History' /\ IdsTrue'
    BY SameTimers, SameIds
  <2>2. TypeOK'
    BY DEF IInv, Types, TypeOK, Ids
  <2>3. Clocks' /\ Reading' /\ Arming'
    BY DEF IInv, Clocks, Reading, Arming, ArmedWhenPending, Timely, InTime
  <2> QED
    BY <2>1, <2>2, <2>3 DEF IInv, Types
<1>2. ASSUME NEW when \in Whens, NEW interval \in Intervals \cup {0},
             AddTimer(when, interval) \/ \E t \in Threads : AddTimerForeign(t, when, interval)
      PROVE  IInv'
  BY <1>2, NextAddTimer, NextAddTimerForeign
<1>3. ASSUME NEW id \in ids, Cancel(id) \/ CancelForeign(id) PROVE IInv'
  BY <1>3, NextCancel, NextCancelForeign
<1> QED
  BY <1>1, <1>2, <1>3, NextTick, NextSetWallClock, NextPoll, NextRunFunctor, NextHandleRead,
    NextRunTimer, NextReset, NextDestructor, NextAddTimerReturns DEF Next

\* The invariant holds in every reachable state.
LEMMA Invariance == Spec => []IInv
  BY InitIInv, Inductive, PTL DEF Spec

\* Every variable has its type in every reachable state, for any addresses, threads,
\* intervals and bounds.
THEOREM TypeCorrect == Spec => []TypeOK
<1>1. IInv => TypeOK
  BY DEF IInv, Types
<1> QED
  BY <1>1, Invariance, PTL

\* The size of a set without two different elements.
LEMMA AtMostOne ==
  ASSUME NEW S, \A x, y \in S : x = y
  PROVE  Cardinality(S) = IF S = {} THEN 0 ELSE 1
<1>1. CASE S # {}
  <2>1. PICK x : S = {x}
    BY <1>1
  <2> QED
    BY <1>1, <2>1, FS_Singleton
<1> QED
  BY <1>1, FS_EmptySet

\* timers_ and activeTimers_ hold the same timers, and each Timer object that lives is in
\* exactly one of timers_, the expired batch and the queued additions: insert, getExpired,
\* cancelInLoop and reset() move it from one to the next and delete it once.
THEOREM TheSetsMatch == Spec => []SetsMatch
<1>1. ASSUME IInv PROVE SetsMatch
  <2> DEFINE queued == {functors[i].id : i \in {j \in DOMAIN functors : functors[j].call = "add"}}
             held == [a \in Addresses |->
                        Cardinality({e \in timers : e[2] = a})
                          + Cardinality({e \in batch : e[2] = a})
                          + Cardinality({q \in queued : q[1] = a})]
  <2>1. queued = Adds
    BY DEF Adds, IdsOf
  <2>2. /\ \A e \in timers \cup batch : heap[e[2]] # Nothing /\ heap[e[2]].expiration = e[1]
        /\ active = {<<e[2], heap[e[2]].sequence>> : e \in timers}
        /\ \A q \in Adds : heap[q[1]] # Nothing /\ heap[q[1]].sequence = q[2]
    BY <1>1 DEF IInv, Placement, OnHeap, Live
  <2>3. ASSUME NEW a \in Addresses
        PROVE  held[a] = IF heap[a] = Nothing THEN 0 ELSE 1
    <3>1. Cardinality({e \in timers : e[2] = a}) = IF InTimers(a) THEN 1 ELSE 0
      <4>1. \A e, f \in timers : e[2] = a /\ f[2] = a => e = f
        BY <1>1, EntryIs
      <4>2. Cardinality({e \in timers : e[2] = a}) =
              IF {e \in timers : e[2] = a} = {} THEN 0 ELSE 1
        BY <4>1, AtMostOne
      <4> QED
        BY <4>2 DEF InTimers
    <3>2. Cardinality({e \in batch : e[2] = a}) = IF InBatch(a) THEN 1 ELSE 0
      <4>1. \A e, f \in batch : e[2] = a /\ f[2] = a => e = f
        BY <1>1, EntryIs
      <4>2. Cardinality({e \in batch : e[2] = a}) =
              IF {e \in batch : e[2] = a} = {} THEN 0 ELSE 1
        BY <4>1, AtMostOne
      <4> QED
        BY <4>2 DEF InBatch
    <3>3. Cardinality({q \in Adds : q[1] = a}) = IF InAdds(a) THEN 1 ELSE 0
      <4>1. \A q \in Adds : q = <<q[1], heap[q[1]].sequence>>
        BY <1>1, <2>2, KnownIds DEF IInv, Ids
      <4>2. \A q, r \in Adds : q[1] = a /\ r[1] = a => q = r
        BY <4>1
      <4>3. Cardinality({q \in Adds : q[1] = a}) =
              IF {q \in Adds : q[1] = a} = {} THEN 0 ELSE 1
        BY <4>2, AtMostOne
      <4> QED
        BY <4>3 DEF InAdds
    <3>4. /\ Live(a) <=> InTimers(a) \/ InBatch(a) \/ InAdds(a)
          /\ ~(InTimers(a) /\ InBatch(a)) /\ ~(InTimers(a) /\ InAdds(a))
          /\ ~(InBatch(a) /\ InAdds(a))
      BY <1>1 DEF IInv, Placement, OnePlace, OnHeap, InTimers, InBatch, InAdds
    <3>5. held[a] = Cardinality({e \in timers : e[2] = a})
                      + Cardinality({e \in batch : e[2] = a})
                      + Cardinality({q \in Adds : q[1] = a})
      BY <2>1
    <3> HIDE DEF held, queued
    <3> QED
      BY <3>1, <3>2, <3>3, <3>4, <3>5 DEF Live
  <2> QED
    BY <2>1, <2>2, <2>3 DEF SetsMatch
<1> QED
  BY <1>1, Invariance, PTL

\* No timer is deleted unless it ran as a one-shot, somebody asked to cancel this very
\* timer, or the queue was destroyed: cancelInLoop compares the sequence as well as the
\* address, so reusing an address never makes an old TimerId hit a new Timer.
THEOREM NoTimerIsLost == Spec => []NoTimerLost
<1>1. IInv => NoTimerLost
  BY DEF IInv, History
<1> QED
  BY <1>1, Invariance, PTL

\* A timer whose cancelInLoop ran does not wait once handleRead has returned, and its
\* addition is not still queued.
THEOREM CancelledStaysGone == Spec => []CancelledIsGone
<1>1. ASSUME IInv PROVE CancelledIsGone
  <2>1. \A e \in timers : heap[e[2]].sequence \notin cancelled
    BY <1>1 DEF IInv, History, CancelledOut
  <2>2. ASSUME NEW a \in Addresses, NEW s \in cancelled, Queued(<<a, s>>) PROVE FALSE
    <3>1. PICK i \in DOMAIN functors : functors[i] = [call |-> "add", id |-> <<a, s>>]
      BY <2>2 DEF Queued
    <3>2. functors[i].call = "add" /\ functors[i].id = <<a, s>>
      BY <3>1
    <3>3. <<a, s>> \in Adds /\ <<a, s>>[2] = s
      BY <3>2 DEF Adds, IdsOf
    <3> QED
      BY <1>1, <3>3 DEF IInv, History, CancelledOut
  <2> QED
    BY <2>1, <2>2 DEF CancelledIsGone
<1> QED
  BY <1>1, Invariance, PTL

\* While timers wait the timerfd is armed, or its expiration is about to be handled: neither
\* setting the wall clock nor cancelling the earliest timer leaves the others asleep.
THEOREM TimerfdIsArmed == Spec => []ArmedWhenPending
<1>1. IInv => ArmedWhenPending
  BY DEF IInv, Arming
<1> QED
  BY <1>1, Invariance, PTL

\* While the wall clock is not set, the timerfd expires no later than the earliest timer is
\* due, or at the next unit of time.
THEOREM TimersAreNeverLate == Spec => []NeverLate
<1>1. ASSUME IInv PROVE NeverLate
  <2>1. SUFFICES ASSUME steps = 0, timers # {}, pc = "idle", ~readable, ~reported
                 PROVE  armed <= IF First(timers)[1] > mono + 1 THEN First(timers)[1]
                                                                ELSE mono + 1
    BY DEF NeverLate
  <2>2. First(timers) \in timers
    BY <1>1, <2>1, FirstTimer
  <2> QED
    BY <1>1, <2>1, <2>2 DEF IInv, Arming, Timely, InTime
<1> QED
  BY <1>1, Invariance, PTL
=============================================================================
