--------------------------- MODULE SourcesProofs ---------------------------
(***************************************************************************)
(* Proofs about readiness in the reactor, for any sources, tasks and number *)
(* of keys, and for both pollers: no task waits for a source that nobody    *)
(* watches.                                                                 *)
(***************************************************************************)
EXTENDS Sources, SequenceTheorems, TLAPS

----------------------------------------------------------------------------
(* The inductive invariant *)

\* TypeOK with ticks that are only bounded
BaseType ==
    /\ poller \in Pollers
    /\ life \in [Srcs -> {"new", "added", "open", "dropped"}]
    /\ slab \in [Keys -> Srcs \cup {None}]
    /\ armed \in [Srcs -> SUBSET (Dirs \cup {"ERROR"})]
    /\ data \in [Srcs -> Keys]
    /\ avail \in [Srcs -> SUBSET Dirs]
    /\ failed \subseteq Srcs
    /\ wakers \in [Srcs -> [Dirs -> SUBSET Tasks]]
    /\ tick \in [Srcs -> [Dirs -> 0..(MaxTick + 1)]]
    /\ \A s \in Srcs, d \in Dirs :
          ticks[s][d] = <<>> \/ ticks[s][d] \in (0..MaxTick) \X (0..(MaxTick + 1))
    /\ seen \in [Srcs -> [Dirs -> BOOLEAN]]
    /\ ticker \in 0..MaxTick
    /\ rpc \in {"idle", "wait", "returned", "deliver", "wake"}
    /\ \A e \in events : e.from \in Srcs /\ e.key \in Keys /\ e.dirs \subseteq Dirs
    /\ woken \subseteq Tasks
    /\ job \in [Tasks -> (Srcs \cup {None}) \X Dirs]
    /\ tpc \in [Tasks -> {"idle", "poll", "waiting"}]

TicksValues == {<<>>} \cup ((0..MaxTick) \X (0..(MaxTick + 1)))

\* What that leaves out: the shapes of ticks and of the free list, and that a
\* kqueue has no filter for errors.
ShapeInv ==
    /\ ticks \in [Srcs -> [Dirs -> TicksValues]]
    /\ free \in Seq(Keys)
    /\ poller # "epoll" => \A s \in Srcs : armed[s] \subseteq Dirs

\* The slab and its free list: every key is in use by one open source or is
\* free, and every open source has its key.
SlabInv ==
    /\ \A k \in Keys : slab[k] # None => life[slab[k]] = "open"
    /\ \A k, l \in Keys : slab[k] # None /\ slab[k] = slab[l] => k = l
    /\ \A s \in Srcs : life[s] = "open" => \E k \in Keys : slab[k] = s
    /\ \A i \in 1..Len(free) : slab[free[i]] = None
    /\ \A i, j \in 1..Len(free) : free[i] = free[j] => i = j

\* Whoever is on a list is on the list of an open source whose key the poller
\* knows, and the poller is armed for that direction or has reported the source.
ArmedInv ==
    \A s \in Srcs, d \in Dirs : wakers[s][d] # {} =>
        /\ life[s] = "open"
        /\ slab[data[s]] = s
        /\ d \in armed[s] \/ InFlight(s)

\* A task inside poll_ready has an open source, and while it sleeps its waker is
\* on the list or with react().
TaskInv ==
    \A t \in Tasks :
        /\ tpc[t] \in {"poll", "waiting"} =>
              job[t][1] \in Srcs /\ life[job[t][1]] = "open"
        /\ tpc[t] = "waiting" =>
              t \in woken \/ t \in wakers[job[t][1]][job[t][2]]

\* Events exist only between Poller::wait and the end of the delivery.
EventsInv == rpc \notin {"returned", "deliver"} => events = {}

IInv == BaseType /\ ShapeInv /\ SlabInv /\ ArmedInv /\ TaskInv /\ EventsInv

----------------------------------------------------------------------------
(* Helpers *)

\* An open source has exactly one key, which KeyOf finds.
LEMMA KeyOfOpen ==
    ASSUME IInv, NEW s \in Srcs, life[s] = "open"
    PROVE  KeyOf(s) \in Keys /\ slab[KeyOf(s)] = s
BY DEF KeyOf, IInv, SlabInv

\* What the pollers leave armed and report are directions, and an armed
\* direction either stays armed or is taken into an event of its source.
LEMMA PollerReports ==
    ASSUME IInv, NEW s \in Srcs
    PROVE  /\ Using(EpollWait(s), KqueueWait(s)) \subseteq SUBSET Dirs
           /\ Using(EpollLeft(s), KqueueLeft(s)) \subseteq armed[s]
           /\ \A d \in armed[s] :
                 \/ d \in Using(EpollLeft(s), KqueueLeft(s))
                 \/ Using(EpollWait(s), KqueueWait(s)) # {}
<1>1. CASE poller = "epoll"
  BY <1>1 DEF Using, EpollWait, EpollLeft, EpollReported, IInv, BaseType, Dirs
<1>2. CASE poller # "epoll"
  <2>1. KqueueHit(s) \subseteq armed[s]
    BY DEF KqueueHit
  <2>2. KqueueWait(s) \subseteq SUBSET Dirs
    <3>1. KqueueHit(s) \subseteq Dirs
      BY <1>2, <2>1 DEF IInv, ShapeInv
    <3>2. QED
      BY <3>1 DEF KqueueWait
  <2>3. \A d \in armed[s] : d \in KqueueLeft(s) \/ KqueueWait(s) # {}
    BY DEF KqueueLeft, KqueueWait
  <2>4. QED
    BY <1>2, <2>2, <2>3 DEF Using, KqueueLeft
<1>3. QED
  BY <1>1, <1>2

\* Reactor::interest arms the poller for every direction somebody waits for,
\* under the source's own key.
LEMMA InterestArms ==
    ASSUME IInv, NEW s \in Srcs, life[s] = "open",
           NEW waiting \in [Dirs -> SUBSET Tasks], Interest(s, waiting)
    PROVE  /\ armed' \in [Srcs -> SUBSET (Dirs \cup {"ERROR"})]
           /\ data' \in [Srcs -> Keys]
           /\ \A r \in Srcs : r # s => armed'[r] = armed[r] /\ data'[r] = data[r]
           /\ \A d \in Dirs : waiting[d] # {} => d \in armed'[s]
           /\ poller # "epoll" => armed'[s] \subseteq Dirs
           /\ slab[data'[s]] = s
<1> DEFINE ds == {d \in Dirs : waiting[d] # {}}
           new == Using(EpollInterest(ds), KqueueInterest(ds))
<1>1. /\ ds \subseteq new /\ new \subseteq Dirs \cup {"ERROR"}
      /\ poller # "epoll" => new \subseteq Dirs
  BY DEF Using, EpollInterest, KqueueInterest
<1>2. armed' = [armed EXCEPT ![s] = new] /\ data' = [data EXCEPT ![s] = KeyOf(s)]
  BY DEF Interest
<1> HIDE DEF new
<1>3. QED
  BY <1>1, <1>2, KeyOfOpen DEF IInv, BaseType

----------------------------------------------------------------------------
(* Every step preserves the invariant *)

\* Opening and dropping sources: keys are handed out once, and a dropped source
\* takes its lists with it.
LEMMA SlabStepInv ==
    ASSUME IInv, NEW s \in Srcs, InsertPoller(s) \/ InsertSlab(s) \/ RemoveIo(s)
    PROVE  IInv'
<1> USE BoundsAssumption
<1>1. CASE InsertPoller(s)
  <2> DEFINE first == Using(EpollInserted, KqueueInserted)
  <2>1. /\ life[s] = "new"
        /\ \E v \in {"added", "dropped"} : life' = [life EXCEPT ![s] = v]
        /\ armed' = [armed EXCEPT ![s] = first] \/ armed' = armed
        /\ UNCHANGED <<poller, data, slab, free, avail, failed, wakers, tick, ticks,
                       seen, ticker, rpc, events, woken, job, tpc>>
    BY <1>1 DEF InsertPoller, slabVars, stateVars, reactVars, taskVars
  <2>2. /\ first \subseteq Dirs \cup {"ERROR"}
        /\ poller # "epoll" => first \subseteq Dirs
    BY DEF Using, EpollInserted, KqueueInserted
  <2> HIDE DEF first
  <2>3. \A r \in Srcs : r # s => life'[r] = life[r] /\ armed'[r] = armed[r]
    BY <2>1 DEF IInv, BaseType
  <2>4. BaseType' /\ ShapeInv' /\ EventsInv'
    BY <2>1, <2>2, ZenonT(60) DEF IInv, BaseType, ShapeInv, EventsInv
  <2>5. SlabInv'
    BY <2>1, <2>3 DEF IInv, BaseType, SlabInv
  <2>6. ArmedInv'
    BY <2>1, <2>3 DEF IInv, BaseType, ArmedInv, InFlight
  <2>7. TaskInv'
    BY <2>1, <2>3 DEF IInv, BaseType, TaskInv
  <2>8. QED
    BY <2>4, <2>5, <2>6, <2>7 DEF IInv
<1>2. CASE InsertSlab(s)
  <2> USE <1>2 DEF InsertSlab, epollVars, stateVars, reactVars, taskVars
  <2> DEFINE k == Head(free)
  <2>1. /\ k \in Keys /\ k = free[1] /\ slab[k] = None
        /\ free' \in Seq(Keys) /\ Len(free') = Len(free) - 1
        /\ Len(free) \in Nat \ {0}
        /\ \A i \in 1..Len(free') : free'[i] = free[i + 1]
    BY HeadTailProperties, LenProperties, EmptySeq DEF IInv, ShapeInv, SlabInv
  <2>2. slab' = [slab EXCEPT ![k] = s]
    OBVIOUS
  <2> HIDE DEF k
  <2>3. BaseType' /\ ShapeInv' /\ EventsInv'
    BY <2>1, <2>2 DEF IInv, BaseType, ShapeInv, EventsInv
  <2>4. SlabInv'
    BY <2>1, <2>2 DEF IInv, BaseType, SlabInv
  <2>5. ArmedInv'
    <3>1. \A l \in Keys : slab[l] \in Srcs => slab'[l] = slab[l]
      BY <2>1, <2>2 DEF IInv, BaseType
    <3>2. \A r \in Srcs : life[r] = "open" => life'[r] = "open"
      BY DEF IInv, BaseType
    <3>3. \A e \in events : e.key \in Keys
      BY DEF IInv, BaseType
    <3>4. \A r \in Srcs : InFlight(r) => InFlight(r)'
      BY <3>1, <3>3 DEF InFlight
    <3>5. \A r \in Srcs : data[r] \in Keys
      BY DEF IInv, BaseType
    <3>6. QED
      BY <3>1, <3>2, <3>4, <3>5 DEF IInv, ArmedInv
  <2>6. TaskInv'
    BY DEF IInv, BaseType, TaskInv
  <2>7. QED
    BY <2>3, <2>4, <2>5, <2>6 DEF IInv
<1>3. CASE RemoveIo(s)
  <2> USE <1>3 DEF RemoveIo, PollerRemove, reactVars, taskVars
  <2> DEFINE k == KeyOf(s)
  <2>1. k \in Keys /\ slab[k] = s
    BY KeyOfOpen
  <2>2. slab' = [slab EXCEPT ![k] = None] /\ free' = <<k>> \o free
    OBVIOUS
  <2> HIDE DEF k
  <2>3. BaseType' /\ ShapeInv' /\ EventsInv'
    BY <2>1, <2>2 DEF IInv, BaseType, ShapeInv, EventsInv, TicksValues, Keys
  <2>4. SlabInv'
    <3>1. /\ Len(free') = Len(free) + 1 /\ Len(free) \in Nat
          /\ free'[1] = k /\ \A i \in 2..Len(free') : free'[i] = free[i - 1]
      BY <2>1, <2>2 DEF IInv, ShapeInv
    <3>2. \A i \in 1..Len(free) : free[i] # k /\ free[i] \in Keys
      BY <2>1 DEF IInv, ShapeInv, SlabInv
    <3>3. /\ \A i \in 1..Len(free') : slab'[free'[i]] = None
          /\ \A i, j \in 1..Len(free') : free'[i] = free'[j] => i = j
      <4>1. \A i \in 1..Len(free') : i = 1 \/ (i \in 2..Len(free') /\ i - 1 \in 1..Len(free))
        BY <3>1
      <4>2. slab'[k] = None
        BY <2>1, <2>2 DEF IInv, BaseType
      <4>3. \A i \in 1..Len(free) : slab'[free[i]] = None
        BY <2>1, <2>2, <3>2 DEF IInv, BaseType, SlabInv
      <4>4. \A i \in 1..Len(free') : slab'[free'[i]] = None
        BY <3>1, <4>1, <4>2, <4>3
      <4>5. \A i, j \in 1..Len(free) : free[i] = free[j] => i = j
        BY DEF IInv, SlabInv
      <4>6. \A i, j \in 1..Len(free') : free'[i] = free'[j] => i = j
        BY <3>1, <3>2, <4>1, <4>5
      <4>7. QED
        BY <4>4, <4>6
    <3>4. /\ \A l \in Keys : slab'[l] # None => life'[slab'[l]] = "open"
          /\ \A l, m \in Keys : slab'[l] # None /\ slab'[l] = slab'[m] => l = m
      BY <2>1, <2>2 DEF IInv, BaseType, SlabInv
    <3>5. \A r \in Srcs : life'[r] = "open" => \E l \in Keys : slab'[l] = r
      BY <2>1, <2>2 DEF IInv, BaseType, SlabInv
    <3>6. QED
      BY <3>3, <3>4, <3>5 DEF SlabInv
  <2>5. ArmedInv'
    <3>1. \A l \in Keys, r \in Srcs : r # s /\ slab[l] = r => slab'[l] = r
      BY <2>1, <2>2 DEF IInv, BaseType
    <3>2. \A r \in Srcs : r # s => /\ life'[r] = life[r] /\ data'[r] = data[r]
                                  /\ armed'[r] = armed[r] /\ wakers'[r] = wakers[r]
      BY DEF IInv, BaseType
    <3>3. \A e \in events : e.key \in Keys
      BY DEF IInv, BaseType
    <3>4. \A r \in Srcs : r # s /\ InFlight(r) => InFlight(r)'
      BY <3>1, <3>3 DEF InFlight
    <3>5. \A d \in Dirs : wakers'[s][d] = {}
      BY DEF IInv, BaseType
    <3>6. \A r \in Srcs : data[r] \in Keys
      BY DEF IInv, BaseType
    <3>7. QED
      BY <3>1, <3>2, <3>4, <3>5, <3>6 DEF IInv, ArmedInv
  <2>6. TaskInv'
    BY DEF IInv, BaseType, TaskInv
  <2>7. QED
    BY <2>3, <2>4, <2>5, <2>6 DEF IInv
<1>4. QED
  BY <1>1, <1>2, <1>3

\* Tasks: a poll that stays pending arms the poller unless somebody has.
LEMMA TaskStepInv ==
    ASSUME IInv, NEW t \in Tasks,
           \/ \E s \in Srcs, d \in Dirs : Await(t, s, d)
           \/ PollReady(t) \/ PollPending(t) \/ Cancel(t)
    PROVE  IInv'
<1> USE BoundsAssumption
<1>1. ASSUME NEW s \in Srcs, NEW d \in Dirs, Await(t, s, d)
      PROVE  IInv'
  BY <1>1, SMTT(30) DEF Await, slabVars, epollVars, stateVars, reactVars, IInv, BaseType,
              ShapeInv, SlabInv, ArmedInv, TaskInv, EventsInv, InFlight
<1>2. CASE PollReady(t)
  <2> USE <1>2 DEF PollReady, slabVars, epollVars, reactVars
  <2>1. BaseType' /\ ShapeInv' /\ EventsInv'
    BY SMTT(30) DEF IInv, BaseType, ShapeInv, EventsInv, TicksValues, TaskInv, Dirs
  <2>2. SlabInv' /\ ArmedInv' /\ TaskInv'
    BY DEF IInv, BaseType, SlabInv, ArmedInv, TaskInv, InFlight
  <2>3. QED
    BY <2>1, <2>2 DEF IInv
<1>3. CASE PollPending(t)
  <2> DEFINE s == job[t][1]
             d == job[t][2]
  <2>1. s \in Srcs /\ d \in Dirs /\ life[s] = "open"
    BY <1>3 DEF PollPending, IInv, BaseType, TaskInv
  <2>2. /\ wakers' = [wakers EXCEPT ![s][d] = @ \cup {t}]
        /\ ticks' = [ticks EXCEPT ![s][d] = IF @ = <<>> THEN Ticks(s, d) ELSE @]
        /\ tpc' = [tpc EXCEPT ![t] = "waiting"]
        /\ IF wakers[s][d] = {} THEN Interest(s, wakers'[s])
           ELSE UNCHANGED <<armed, data>>
        /\ UNCHANGED <<poller, life, slab, free, avail, failed, tick, seen, ticker,
                       rpc, events, woken, job>>
    BY <1>3 DEF PollPending, slabVars, reactVars
  <2> HIDE DEF s, d
  <2>3. wakers' \in [Srcs -> [Dirs -> SUBSET Tasks]]
    BY <2>1, <2>2 DEF IInv, BaseType
  <2>4. /\ armed' \in [Srcs -> SUBSET (Dirs \cup {"ERROR"})]
        /\ data' \in [Srcs -> Keys]
        /\ \A r \in Srcs : r # s => armed'[r] = armed[r] /\ data'[r] = data[r]
        /\ \A c \in Dirs : wakers'[s][c] # {} => c \in armed'[s] \/ InFlight(s)
        /\ poller # "epoll" => armed'[s] \subseteq Dirs
        /\ slab[data'[s]] = s
    <3>1. CASE wakers[s][d] = {}
      <4>1. Interest(s, wakers'[s]) /\ wakers'[s] \in [Dirs -> SUBSET Tasks]
        BY <2>1, <2>2, <2>3, <3>1
      <4>2. QED
        BY <2>1, <4>1, InterestArms
    <3>2. CASE wakers[s][d] # {}
      <4>1. \A c \in Dirs : wakers'[s][c] # {} => wakers[s][c] # {}
        BY <2>1, <2>2, <3>2 DEF IInv, BaseType
      <4>2. QED
        BY <2>1, <2>2, <3>2, <4>1 DEF IInv, BaseType, ShapeInv, ArmedInv
    <3>3. QED
      BY <3>1, <3>2
  <2>5. Ticks(s, d) \in TicksValues
    BY <2>1 DEF Ticks, TicksValues, IInv, BaseType
  <2>6. ticks' \in [Srcs -> [Dirs -> TicksValues]]
    BY <2>1, <2>2, <2>5 DEF IInv, ShapeInv
  <2>7. BaseType' /\ ShapeInv' /\ EventsInv'
    <3>1. tpc' \in [Tasks -> {"idle", "poll", "waiting"}]
      BY <2>2 DEF IInv, BaseType
    <3>2. \A r \in Srcs, c \in Dirs :
             ticks'[r][c] = <<>> \/ ticks'[r][c] \in (0..MaxTick) \X (0..(MaxTick + 1))
      BY <2>6 DEF TicksValues
    <3>3. BaseType'
      BY <2>2, <2>3, <2>4, <3>1, <3>2 DEF IInv, BaseType
    <3>4. poller # "epoll" => \A r \in Srcs : armed'[r] \subseteq Dirs
      BY <2>4 DEF IInv, ShapeInv
    <3>5. ShapeInv'
      BY <2>2, <2>6, <3>4 DEF IInv, ShapeInv
    <3>6. EventsInv'
      BY <2>2 DEF IInv, EventsInv
    <3>7. QED
      BY <3>3, <3>5, <3>6
  <2>8. SlabInv'
    BY <2>2 DEF IInv, SlabInv
  <2>9. ASSUME NEW r \in Srcs, NEW c \in Dirs, wakers'[r][c] # {}
        PROVE  life[r] = "open" /\ slab[data'[r]] = r
               /\ (c \in armed'[r] \/ InFlight(r))
    <3>1. CASE r = s
      BY <2>1, <2>4, <2>9, <3>1
    <3>2. CASE r # s
      <4>1. wakers'[r][c] = wakers[r][c]
        BY <2>1, <2>2, <3>2 DEF IInv, BaseType
      <4>2. QED
        BY <2>4, <2>9, <3>2, <4>1 DEF IInv, ArmedInv
    <3>3. QED
      BY <3>1, <3>2
  <2>10. ArmedInv'
    BY <2>2, <2>9 DEF ArmedInv, InFlight
  <2>11. TaskInv'
    BY <2>1, <2>2 DEF IInv, BaseType, TaskInv, s, d
  <2>12. QED
    BY <2>7, <2>8, <2>10, <2>11 DEF IInv
<1>4. CASE Cancel(t)
  BY <1>4 DEF Cancel, slabVars, epollVars, stateVars, reactVars, IInv, BaseType,
              ShapeInv, SlabInv, ArmedInv, TaskInv, EventsInv, InFlight, Dirs
<1>5. QED
  BY <1>1, <1>2, <1>3, <1>4

\* react(): what Poller::wait disarms it reports, and handling an event wakes
\* the directions it names and arms the others again.
LEMMA ReactStepInv ==
    ASSUME IInv,
           \/ React \/ PollerWait \/ LockSources \/ UnlockSources \/ WakeAll
           \/ \E e \in events : Deliver(e)
    PROVE  IInv'
<1> USE BoundsAssumption
<1>1. CASE React
  BY <1>1 DEF React, slabVars, epollVars, stateVars, taskVars, IInv, BaseType,
              ShapeInv, SlabInv, ArmedInv, TaskInv, EventsInv, InFlight
<1>2. CASE PollerWait
  <2> DEFINE found(r) == Using(EpollWait(r), KqueueWait(r))
             left(r) == Using(EpollLeft(r), KqueueLeft(r))
  <2>1. /\ rpc = "wait" /\ rpc' = IF events' = {} THEN "idle" ELSE "returned"
        /\ events' = UNION {{[from |-> r, key |-> data[r], dirs |-> ds] :
                                ds \in found(r)} : r \in Srcs}
        /\ armed' = [r \in Srcs |-> left(r)]
        /\ seen' = [r \in Srcs |-> [d \in Dirs |->
                      ticks[r][d] # <<>> /\ (seen[r][d] \/ d \in UNION found(r))]]
        /\ UNCHANGED <<poller, life, slab, free, data, avail, failed, wakers, tick,
                       ticks, ticker, woken, job, tpc>>
    BY <1>2 DEF PollerWait, slabVars, taskVars
  <2>2. \A r \in Srcs : /\ found(r) \subseteq SUBSET Dirs
                         /\ left(r) \subseteq armed[r]
                         /\ \A d \in armed[r] : d \in left(r) \/ found(r) # {}
    BY PollerReports
  <2> HIDE DEF found, left
  <2>3. \A e \in events' : e.from \in Srcs /\ e.key \in Keys /\ e.dirs \subseteq Dirs
    BY <2>1, <2>2 DEF IInv, BaseType
  <2>4. seen' \in [Srcs -> [Dirs -> BOOLEAN]]
    BY <2>1
  <2>5. armed' \in [Srcs -> SUBSET (Dirs \cup {"ERROR"})]
    BY <2>1, <2>2 DEF IInv, BaseType
  <2>6. BaseType' /\ ShapeInv' /\ EventsInv'
    BY <2>1, <2>2, <2>3, <2>4, <2>5 DEF IInv, BaseType, ShapeInv, EventsInv
  <2>7. SlabInv' /\ TaskInv'
    BY <2>1 DEF IInv, SlabInv, TaskInv
  <2>8. ArmedInv'
    <3> SUFFICES ASSUME NEW r \in Srcs, NEW d \in Dirs, wakers[r][d] # {}
                 PROVE  /\ life[r] = "open" /\ slab[data[r]] = r
                        /\ d \in armed'[r] \/ InFlight(r)'
      BY <2>1 DEF ArmedInv
    <3>1. life[r] = "open" /\ slab[data[r]] = r /\ d \in armed[r]
      BY <2>1 DEF IInv, ArmedInv, EventsInv, InFlight
    <3>2. CASE d \in left(r)
      BY <2>1, <3>1, <3>2
    <3>3. ASSUME NEW ds \in found(r) PROVE InFlight(r)'
      <4> DEFINE e == [from |-> r, key |-> data[r], dirs |-> ds]
      <4>1. e \in events' /\ e.key = data[r]
        BY <2>1
      <4>2. QED
        BY <2>1, <3>1, <4>1 DEF InFlight
    <3>4. QED
      BY <2>2, <3>1, <3>2, <3>3
  <2>9. QED
    BY <2>6, <2>7, <2>8 DEF IInv
<1>3. CASE LockSources \/ UnlockSources
  <2>1. CASE LockSources
    BY <2>1 DEF LockSources, slabVars, epollVars, stateVars, taskVars, IInv, BaseType,
                ShapeInv, SlabInv, ArmedInv, TaskInv, EventsInv, InFlight
  <2>2. CASE UnlockSources
    BY <2>2 DEF UnlockSources, slabVars, epollVars, stateVars, taskVars, IInv, BaseType,
                ShapeInv, SlabInv, ArmedInv, TaskInv, EventsInv, InFlight
  <2>3. QED
    BY <1>3, <2>1, <2>2
<1>4. ASSUME NEW e \in events, Deliver(e) PROVE IInv'
  <2> DEFINE s == slab[e.key]
  <2>1. e.key \in Keys /\ e.dirs \subseteq Dirs /\ s \in Srcs \cup {None}
    BY DEF IInv, BaseType
  <2>2. /\ rpc = "deliver" /\ events' = events \ {e}
        /\ UNCHANGED <<poller, life, slab, free, avail, failed, ticks, seen, ticker,
                       rpc, job, tpc>>
    BY <1>4 DEF Deliver, slabVars, taskVars
  <2>3. CASE s = None
    <3>1. UNCHANGED <<wakers, tick, woken, armed, data>>
      BY <1>4, <2>3 DEF Deliver
    <3>2. \A r \in Srcs : InFlight(r) => InFlight(r)'
      BY <2>2, <2>3 DEF InFlight
    <3>3. QED
      BY <2>2, <3>1, <3>2 DEF IInv, BaseType, ShapeInv, SlabInv, ArmedInv, TaskInv,
                              EventsInv
  <2>4. CASE s # None
    <3>1. s \in Srcs /\ life[s] = "open"
      BY <2>1, <2>4 DEF IInv, SlabInv
    <3>2. /\ tick' = [tick EXCEPT ![s] = [d \in Dirs |->
                         IF d \in e.dirs THEN ticker + 1 ELSE @[d]]]
          /\ woken' = woken \cup UNION {wakers[s][d] : d \in e.dirs}
          /\ wakers' = [wakers EXCEPT ![s] = [d \in Dirs |->
                           IF d \in e.dirs THEN {} ELSE @[d]]]
          /\ Rearm(s, wakers'[s])
      BY <1>4, <2>4 DEF Deliver
    <3>3. /\ wakers' \in [Srcs -> [Dirs -> SUBSET Tasks]]
          /\ tick' \in [Srcs -> [Dirs -> 0..(MaxTick + 1)]]
          /\ woken' \subseteq Tasks
      BY <2>1, <3>1, <3>2 DEF IInv, BaseType
    <3>4. \A r \in Srcs : r # s => wakers'[r] = wakers[r]
      BY <3>1, <3>2 DEF IInv, BaseType
    <3>5. /\ armed' \in [Srcs -> SUBSET (Dirs \cup {"ERROR"})]
          /\ data' \in [Srcs -> Keys]
          /\ \A r \in Srcs : r # s => armed'[r] = armed[r] /\ data'[r] = data[r]
          /\ \A d \in Dirs : wakers'[s][d] # {} => d \in armed'[s] /\ slab[data'[s]] = s
          /\ poller # "epoll" => armed'[s] \subseteq Dirs
      <4>1. CASE \A d \in Dirs : wakers'[s][d] = {}
        BY <3>1, <3>2, <4>1 DEF Rearm, IInv, BaseType, ShapeInv
      <4>2. CASE ~(\A d \in Dirs : wakers'[s][d] = {})
        <5>1. Interest(s, wakers'[s]) /\ wakers'[s] \in [Dirs -> SUBSET Tasks]
          BY <3>1, <3>2, <3>3, <4>2 DEF Rearm
        <5>2. QED
          BY <3>1, <5>1, InterestArms
      <4>3. QED
        BY <4>1, <4>2
    <3>6. BaseType' /\ ShapeInv' /\ EventsInv'
      BY <2>2, <3>3, <3>5 DEF IInv, BaseType, ShapeInv, EventsInv
    <3>7. SlabInv'
      BY <2>2 DEF IInv, SlabInv
    <3>8. \A r \in Srcs : r # s /\ InFlight(r) => InFlight(r)'
      BY <2>2 DEF InFlight
    <3>9. ASSUME NEW r \in Srcs, NEW d \in Dirs, wakers'[r][d] # {}
          PROVE  /\ life'[r] = "open" /\ slab'[data'[r]] = r
                 /\ d \in armed'[r] \/ InFlight(r)'
      <4>1. CASE r = s
        BY <2>2, <3>1, <3>5, <3>9, <4>1
      <4>2. CASE r # s
        BY <2>2, <3>4, <3>5, <3>8, <3>9, <4>2 DEF IInv, ArmedInv
      <4>3. QED
        BY <4>1, <4>2
    <3>10. ArmedInv'
      BY <3>9 DEF ArmedInv
    <3>11. TaskInv'
      <4> SUFFICES ASSUME NEW t \in Tasks, tpc[t] = "waiting", t \notin woken'
                   PROVE  t \in wakers'[job[t][1]][job[t][2]]
        BY <2>2 DEF IInv, TaskInv
      <4> DEFINE r == job[t][1]
                 d == job[t][2]
      <4>1. r \in Srcs /\ d \in Dirs /\ t \in wakers[r][d]
        BY <3>2 DEF IInv, BaseType, TaskInv
      <4> HIDE DEF r, d
      <4>2. CASE r = s
        <5>1. d \notin e.dirs
          BY <3>2, <4>1, <4>2
        <5>2. QED
          BY <3>1, <3>2, <4>1, <4>2, <5>1 DEF IInv, BaseType, r, d
      <4>3. CASE r # s
        BY <3>4, <4>1, <4>3 DEF r, d
      <4>4. QED
        BY <4>2, <4>3
    <3>12. QED
      BY <3>6, <3>7, <3>10, <3>11 DEF IInv
  <2>5. QED
    BY <2>3, <2>4
<1>5. CASE WakeAll
  BY <1>5 DEF WakeAll, slabVars, epollVars, stateVars,
              IInv, BaseType, ShapeInv, SlabInv, ArmedInv, TaskInv, EventsInv, InFlight
<1>6. QED
  BY <1>1, <1>2, <1>3, <1>4, <1>5

\* Descriptors become ready and fail without touching the reactor.
LEMMA DescriptorStepInv ==
    ASSUME IInv, NEW s \in Srcs, Fail(s) \/ \E d \in Dirs : Become(s, d)
    PROVE  IInv'
<1>1. BaseType'
  <2>1. CASE Fail(s)
    BY <2>1 DEF Fail, slabVars, stateVars, reactVars, taskVars, IInv, BaseType
  <2>2. ASSUME NEW d \in Dirs, Become(s, d) PROVE BaseType'
    BY <2>2 DEF Become, slabVars, stateVars, reactVars, taskVars, IInv, BaseType
  <2>3. QED
    BY <2>1, <2>2
<1>2. QED
  BY <1>1 DEF Fail, Become, slabVars, stateVars, reactVars, taskVars, IInv,
              ShapeInv, SlabInv, ArmedInv, TaskInv, EventsInv, InFlight

\* IInv is an invariant of the reactor's sources.
THEOREM SourcesInvariant == Spec => []IInv
<1>1. Init => IInv
  <2> SUFFICES ASSUME Init PROVE IInv
    OBVIOUS
  <2> USE BoundsAssumption DEF Init, PerDir
  <2>1. BaseType
    BY DEF BaseType, Keys, Dirs
  <2>2. ShapeInv
    BY DEF ShapeInv, TicksValues, Keys
  <2>3. SlabInv
    BY DEF SlabInv, Keys
  <2>4. ArmedInv /\ TaskInv /\ EventsInv
    BY DEF ArmedInv, TaskInv, EventsInv
  <2>5. QED
    BY <2>1, <2>2, <2>3, <2>4 DEF IInv
<1>2. IInv /\ [Next]_vars => IInv'
  <2> SUFFICES ASSUME IInv, [Next]_vars PROVE IInv'
    OBVIOUS
  <2>1. CASE Next
    BY <2>1, SlabStepInv, TaskStepInv, ReactStepInv, DescriptorStepInv DEF Next
  <2>2. CASE UNCHANGED vars
    BY <2>2 DEF vars, IInv, BaseType, ShapeInv, SlabInv, ArmedInv, TaskInv, EventsInv,
                InFlight
  <2>3. QED
    BY <2>1, <2>2
<1>3. QED
  BY <1>1, <1>2, PTL DEF Spec

----------------------------------------------------------------------------
(* The ticks *)

\* No tick is ahead of the reactor, but for the one that react() delivers.
TickInv ==
    \A s \in Srcs, d \in Dirs :
        /\ tick[s][d] <= ticker + 1
        /\ ticks[s][d] # <<>> => ticks[s][d][1] <= ticker /\ ticks[s][d][2] <= ticker + 1

LEMMA TickStep ==
    ASSUME IInv, TickInv, [Next]_vars
    PROVE  TickInv'
<1>0. /\ tick \in [Srcs -> [Dirs -> 0..(MaxTick + 1)]]
      /\ ticks \in [Srcs -> [Dirs -> TicksValues]] /\ ticker \in Nat
      /\ slab \in [Keys -> Srcs \cup {None}] /\ job \in [Tasks -> (Srcs \cup {None}) \X Dirs]
      /\ TaskInv
  BY DEF IInv, BaseType, ShapeInv
<1>1. CASE UNCHANGED <<tick, ticks, ticker>>
  BY <1>1 DEF TickInv
<1>2. CASE React
  <2>1. UNCHANGED <<tick, ticks>> /\ ticker' = ticker + 1
    BY <1>2 DEF React, stateVars
  <2>2. ASSUME NEW s \in Srcs, NEW d \in Dirs
        PROVE  /\ tick[s][d] <= ticker + 2
               /\ ticks[s][d] # <<>> => /\ ticks[s][d][1] <= ticker + 1
                                        /\ ticks[s][d][2] <= ticker + 2
    <3>1. tick[s][d] \in Nat /\ ticks[s][d] \in TicksValues
      BY <1>0
    <3>2. ticks[s][d] # <<>> => ticks[s][d][1] \in Nat /\ ticks[s][d][2] \in Nat
      BY <3>1 DEF TicksValues
    <3>3. QED
      BY <1>0, <3>1, <3>2 DEF TickInv
  <2>3. QED
    BY <1>0, <2>1, <2>2 DEF TickInv
<1>3. ASSUME NEW s \in Srcs, RemoveIo(s) PROVE TickInv'
  BY <1>0, <1>3 DEF RemoveIo, reactVars, TickInv
<1>4. ASSUME NEW t \in Tasks, PollReady(t) PROVE TickInv'
  <2>1. job[t][1] \in Srcs /\ job[t][2] \in Dirs
    BY <1>0, <1>4 DEF PollReady, TaskInv
  <2>2. QED
    BY <1>0, <1>4, <2>1 DEF PollReady, reactVars, TickInv
<1>5. ASSUME NEW t \in Tasks, PollPending(t) PROVE TickInv'
  <2> DEFINE s == job[t][1]
             d == job[t][2]
  <2>1. s \in Srcs /\ d \in Dirs
    BY <1>0, <1>5 DEF PollPending, TaskInv
  <2>2. /\ UNCHANGED <<tick, ticker>>
        /\ ticks' = [ticks EXCEPT ![s][d] = IF @ = <<>> THEN Ticks(s, d) ELSE @]
    BY <1>5 DEF PollPending, reactVars
  <2> HIDE DEF s, d
  <2>3. \A r \in Srcs, c \in Dirs :
           ticks'[r][c] = IF r = s /\ c = d /\ ticks[s][d] = <<>> THEN <<ticker, tick[s][d]>>
                          ELSE ticks[r][c]
    BY <1>0, <2>1, <2>2 DEF Ticks
  <2>4. ticker <= ticker /\ tick[s][d] <= ticker + 1
    BY <1>0, <2>1 DEF TickInv
  <2>5. QED
    BY <2>1, <2>2, <2>3, <2>4 DEF TickInv
<1>6. ASSUME NEW e \in events, Deliver(e) PROVE TickInv'
  <2>1. UNCHANGED <<ticks, ticker>>
    BY <1>6 DEF Deliver
  <2>2. \A s \in Srcs, d \in Dirs : tick'[s][d] \in {tick[s][d], ticker + 1}
    <3>1. CASE slab[e.key] = None
      BY <1>6, <3>1 DEF Deliver
    <3>2. CASE slab[e.key] # None
      <4>1. e.key \in Keys
        BY DEF IInv, BaseType
      <4>2. slab[e.key] \in Srcs
        BY <1>0, <3>2, <4>1
      <4>3. tick' = [tick EXCEPT ![slab[e.key]] = [d \in Dirs |->
                        IF d \in e.dirs THEN ticker + 1 ELSE @[d]]]
        BY <1>6, <3>2 DEF Deliver
      <4>4. QED
        BY <1>0, <4>2, <4>3
    <3>3. QED
      BY <3>1, <3>2
  <2>3. ASSUME NEW s \in Srcs, NEW d \in Dirs PROVE tick'[s][d] <= ticker + 1
    <3>1. tick[s][d] <= ticker + 1 /\ tick'[s][d] \in {tick[s][d], ticker + 1}
      BY <2>2 DEF TickInv
    <3>2. ticker + 1 <= ticker + 1
      BY <1>0
    <3>3. QED
      BY <3>1, <3>2
  <2>4. QED
    BY <2>1, <2>3 DEF TickInv
<1>7. CASE UNCHANGED vars
  BY <1>1, <1>7 DEF vars
<1>8. ASSUME NEW s \in Srcs,
             InsertPoller(s) \/ InsertSlab(s) \/ Fail(s) \/ \E d \in Dirs : Become(s, d)
      PROVE  TickInv'
  BY <1>1, <1>8 DEF InsertPoller, InsertSlab, Fail, Become, stateVars, reactVars
<1>9. ASSUME NEW t \in Tasks, Cancel(t) \/ \E s \in Srcs, d \in Dirs : Await(t, s, d)
      PROVE  TickInv'
  BY <1>1, <1>9 DEF Cancel, Await, stateVars, reactVars
<1>10. ASSUME PollerWait \/ LockSources \/ UnlockSources \/ WakeAll PROVE TickInv'
  BY <1>1, <1>10 DEF PollerWait, LockSources, UnlockSources, WakeAll, stateVars
<1>11. QED
  BY <1>2, <1>3, <1>4, <1>5, <1>6, <1>7, <1>8, <1>9, <1>10 DEF Next

\* The reactor's variables keep their types, and no source remembers a tick the
\* reactor has not had.
THEOREM SourcesTypeCorrect == Spec => []TypeOK
<1>1. Init => TickInv
  BY BoundsAssumption DEF Init, PerDir, TickInv
<1>2. IInv /\ TickInv /\ [Next]_vars => TickInv'
  BY TickStep
<1>3. IInv /\ TickInv => TypeOK
  <2> SUFFICES ASSUME IInv, TickInv PROVE TypeOK
    OBVIOUS
  <2>1. /\ tick \in [Srcs -> [Dirs -> 0..(MaxTick + 1)]] /\ ticker \in Nat
        /\ ticks \in [Srcs -> [Dirs -> TicksValues]]
    BY DEF IInv, BaseType, ShapeInv
  <2>2. tick \in [Srcs -> [Dirs -> 0..(ticker + 1)]]
    <3>1. ASSUME NEW s \in Srcs PROVE tick[s] \in [Dirs -> 0..(ticker + 1)]
      <4>1. tick[s] \in [Dirs -> 0..(MaxTick + 1)]
        BY <2>1
      <4>2. \A d \in Dirs : tick[s][d] \in 0..(ticker + 1)
        BY <2>1, <4>1 DEF TickInv
      <4>3. QED
        BY <4>1, <4>2
    <3>2. QED
      BY <2>1, <3>1
  <2>3. ASSUME NEW s \in Srcs, NEW d \in Dirs, ticks[s][d] # <<>>
        PROVE  ticks[s][d] \in (0..ticker) \X (0..(ticker + 1))
    <3>1. PICK m \in 0..MaxTick, n \in 0..(MaxTick + 1) : ticks[s][d] = <<m, n>>
      BY <2>1, <2>3 DEF TicksValues
    <3>2. m <= ticker /\ n <= ticker + 1
      BY <2>3, <3>1 DEF TickInv
    <3>3. m \in 0..ticker /\ n \in 0..(ticker + 1)
      BY <2>1, <3>2
    <3>4. QED
      BY <3>1, <3>3
  <2>4. QED
    BY <2>2, <2>3 DEF IInv, BaseType, TypeOK
<1>4. QED
  BY <1>1, <1>2, <1>3, SourcesInvariant, PTL DEF Spec

\* No task waits in vain for readiness, with epoll and with kqueue: its waker is
\* in the hands of react(), or on the list of a source that the poller watches
\* in that direction or has reported.
THEOREM WaitersAlwaysArmed == Spec => []WaitersArmed
<1>1. IInv => WaitersArmed
  BY DEF IInv, BaseType, ArmedInv, TaskInv, WaitersArmed
<1>2. QED
  BY <1>1, SourcesInvariant, PTL
=============================================================================
