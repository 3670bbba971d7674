------------------------------ MODULE Sources ------------------------------
(***************************************************************************)
(* I/O readiness in src/src/io/reactor.rs: the slab of sources, the tasks  *)
(* that wait in Source::poll_ready for a direction of a source, the event  *)
(* loop of Reactor::react, and the one-shot interest of epoll.rs and       *)
(* kqueue.rs in src/src/io/poller, of which a program has one.  One thread *)
(* at a time reacts (module BlockOn); tasks poll, give up and drop their   *)
(* sources meanwhile.                                                      *)
(*                                                                         *)
(* A source stands for one Async and its descriptor, opened and dropped at *)
(* most once; the slab reuses keys.  poll_ready is atomic: it runs under   *)
(* the mutex of the source's states.                                       *)
(***************************************************************************)
EXTENDS Naturals, Sequences

CONSTANTS Srcs,      \* the sources
          KeyCount,  \* keys of the slab
          Tasks,
          MaxTick,   \* bound: calls of react()
          Errors,    \* descriptors may fail (EPOLLERR and EPOLLHUP, EV_EOF)
          Pollers,   \* pollers to consider
          None

ASSUME BoundsAssumption ==
    /\ KeyCount \in Nat \ {0}
    /\ MaxTick \in Nat
    /\ Errors \in BOOLEAN
    /\ Pollers \subseteq {"epoll", "kqueue"}
    /\ None \notin Srcs

Keys == 0..(KeyCount - 1)

Dirs == {"READ", "WRITE"}

VARIABLES poller,  \* the poller of the program
          life,    \* life[s]: "new", "added" to the poller, "open" or "dropped"
          slab,    \* slab[k]: the source with key k, or None
          free,    \* keys the slab gives out next, last freed first
          armed,   \* armed[s]: what the poller is to report of s
          data,    \* data[s]: the key it reports for s
          avail,   \* avail[s]: directions the descriptor is ready in
          failed,  \* descriptors with an error
          wakers, tick, ticks,  \* State of each source and direction
          seen,    \* history: the poller has reported s and d since ticks was set
          ticker,  \* Reactor.ticker
          rpc,     \* where the reacting thread is
          events,  \* events it has not handled yet
          woken,   \* wakers it is going to call
          job,     \* job[t]: the source and direction t waits for
          tpc      \* tpc[t]: "idle", "poll" (about to be polled) or "waiting"

epollVars == <<poller, armed, data, avail, failed>>
stateVars == <<wakers, tick, ticks, seen>>
reactVars == <<ticker, rpc, events, woken>>
taskVars  == <<job, tpc>>
slabVars  == <<slab, free>>
vars == <<poller, life, slab, free, armed, data, avail, failed, wakers, tick, ticks, seen,
          ticker, rpc, events, woken, job, tpc>>

PerDir(v) == [s \in Srcs |-> [d \in Dirs |-> v]]

Init ==
    /\ poller \in Pollers
    /\ life = [s \in Srcs |-> "new"]
    /\ slab = [k \in Keys |-> None]
    /\ free = [i \in 1..KeyCount |-> i - 1]
    /\ armed = [s \in Srcs |-> {}]
    /\ data = [s \in Srcs |-> 0]
    /\ avail = [s \in Srcs |-> {}]
    /\ failed = {}
    /\ wakers = PerDir({})
    /\ tick = PerDir(0)
    /\ ticks = PerDir(<<>>)
    /\ seen = PerDir(FALSE)
    /\ ticker = 0
    /\ rpc = "idle"
    /\ events = {}
    /\ woken = {}
    /\ job = [t \in Tasks |-> <<None, "READ">>]
    /\ tpc = [t \in Tasks |-> "idle"]

----------------------------------------------------------------------------
(* The pollers *)

\* EPOLL_CTL_ADD with EPOLLONESHOT alone: EPOLLERR and EPOLLHUP are reported all
\* the same, once.
EpollInserted == {"ERROR"}

EpollInterest(ds) == ds \cup {"ERROR"}

\* The directions of an epoll event; an error counts as both.
EpollReported(s) ==
    IF s \in failed /\ "ERROR" \in armed[s] THEN Dirs ELSE armed[s] \cap avail[s]

\* One event per descriptor, which it disarms
EpollWait(s) == IF EpollReported(s) = {} THEN {} ELSE {EpollReported(s)}

EpollLeft(s) == IF EpollReported(s) = {} THEN armed[s] ELSE {}

\* A kqueue does not know of a descriptor before somebody is interested in it.
KqueueInserted == {}

\* EV_ADD for the directions that are waited for and EV_DELETE for the others
KqueueInterest(ds) == ds

KqueueHit(s) == IF s \in failed THEN armed[s] ELSE armed[s] \cap avail[s]

\* One event per filter; EV_EOF of EVFILT_READ counts as both.
KqueueWait(s) ==
    {IF d = "READ" /\ s \in failed THEN Dirs ELSE {d} : d \in KqueueHit(s)}

KqueueLeft(s) == armed[s] \ KqueueHit(s)

Using(epoll, kqueue) == IF poller = "epoll" THEN epoll ELSE kqueue

----------------------------------------------------------------------------
(* Reactor::insert_io and remove_io, from Async::new and its Drop *)

\* The poller comes first, with key 0; when it fails that is all.
InsertPoller(s) ==
    /\ life[s] = "new"
    /\ \/ /\ life' = [life EXCEPT ![s] = "added"]
          /\ armed' = [armed EXCEPT ![s] = Using(EpollInserted, KqueueInserted)]
       \/ /\ life' = [life EXCEPT ![s] = "dropped"]
          /\ UNCHANGED armed
    /\ UNCHANGED <<poller, data, slabVars, avail, failed, stateVars, reactVars, taskVars>>

\* The reacting thread holds the mutex of the slab while it handles events.
InsertSlab(s) ==
    /\ life[s] = "added"
    /\ rpc # "deliver"
    /\ free # <<>>
    /\ slab' = [slab EXCEPT ![Head(free)] = s]
    /\ free' = Tail(free)
    /\ life' = [life EXCEPT ![s] = "open"]
    /\ UNCHANGED <<epollVars, stateVars, reactVars, taskVars>>

KeyOf(s) == CHOOSE k \in Keys : slab[k] = s

\* Reactor::remove of the poller, and the descriptor is closed.
PollerRemove(s) ==
    /\ armed' = [armed EXCEPT ![s] = {}]
    /\ data' = [data EXCEPT ![s] = 0]
    /\ avail' = [avail EXCEPT ![s] = {}]
    /\ failed' = failed \ {s}

\* The source goes with its state.
RemoveIo(s) ==
    /\ life[s] = "open"
    /\ rpc # "deliver"
    /\ \A t \in Tasks : job[t][1] # s
    /\ life' = [life EXCEPT ![s] = "dropped"]
    /\ slab' = [slab EXCEPT ![KeyOf(s)] = None]
    /\ free' = <<KeyOf(s)>> \o free
    /\ PollerRemove(s)
    /\ wakers' = [wakers EXCEPT ![s] = [d \in Dirs |-> {}]]
    /\ tick' = [tick EXCEPT ![s] = [d \in Dirs |-> 0]]
    /\ ticks' = [ticks EXCEPT ![s] = [d \in Dirs |-> <<>>]]
    /\ seen' = [seen EXCEPT ![s] = [d \in Dirs |-> FALSE]]
    /\ UNCHANGED <<poller, reactVars, taskVars>>

----------------------------------------------------------------------------
(* Tasks: readable() and writable(), which the loops of Async call at will *)

Await(t, s, d) ==
    /\ tpc[t] = "idle"
    /\ life[s] = "open"
    /\ job' = [job EXCEPT ![t] = <<s, d>>]
    /\ tpc' = [tpc EXCEPT ![t] = "poll"]
    /\ UNCHANGED <<life, slabVars, epollVars, stateVars, reactVars>>

\* Reactor::interest, for the directions somebody waits for
Interest(s, waiting) ==
    LET ds == {d \in Dirs : waiting[d] # {}}
    IN  /\ armed' = [armed EXCEPT ![s] = Using(EpollInterest(ds), KqueueInterest(ds))]
        /\ data' = [data EXCEPT ![s] = KeyOf(s)]

\* The remembered ticks are none, or a later event has been delivered.
Delivered(s, d) ==
    /\ ticks[s][d] # <<>>
    /\ \A i \in 1..2 : tick[s][d] # ticks[s][d][i]

PollReady(t) ==
    LET s == job[t][1]
        d == job[t][2]
    IN  /\ tpc[t] = "poll"
        /\ Delivered(s, d)
        /\ ticks' = [ticks EXCEPT ![s][d] = <<>>]
        /\ job' = [job EXCEPT ![t] = <<None, "READ">>]
        /\ tpc' = [tpc EXCEPT ![t] = "idle"]
        /\ seen' = [seen EXCEPT ![s][d] = FALSE]
        /\ UNCHANGED <<life, slabVars, epollVars, wakers, tick, reactVars>>

\* Mutant: the tick of the next react() is remembered.
NextTicks(s, d) == <<ticker + 1, tick[s][d]>>

Ticks(s, d) == <<ticker, tick[s][d]>>

\* Push the waker, remember the ticks, and ask the poller if nobody has before.
PollPending(t) ==
    LET s == job[t][1]
        d == job[t][2]
    IN  /\ tpc[t] = "poll"
        /\ ~Delivered(s, d)
        /\ wakers' = [wakers EXCEPT ![s][d] = @ \cup {t}]
        /\ ticks' = [ticks EXCEPT ![s][d] = IF @ = <<>> THEN Ticks(s, d) ELSE @]
        /\ tpc' = [tpc EXCEPT ![t] = "waiting"]
        /\ IF wakers[s][d] = {} THEN Interest(s, wakers'[s])
           ELSE UNCHANGED <<armed, data>>
        /\ UNCHANGED <<poller, life, slabVars, avail, failed, tick, seen, reactVars,
                       job>>

\* The future is dropped; its waker stays on the list.
Cancel(t) ==
    /\ tpc[t] = "waiting"
    /\ job' = [job EXCEPT ![t] = <<None, "READ">>]
    /\ tpc' = [tpc EXCEPT ![t] = "idle"]
    /\ UNCHANGED <<life, slabVars, epollVars, stateVars, reactVars>>

----------------------------------------------------------------------------
(* Reactor::react *)

React ==
    /\ rpc = "idle"
    /\ ticker < MaxTick
    /\ ticker' = ticker + 1
    /\ rpc' = "wait"
    /\ UNCHANGED <<life, slabVars, epollVars, stateVars, events, woken, taskVars>>

\* Poller::wait
PollerWait ==
    LET found(s) == Using(EpollWait(s), KqueueWait(s))
    IN  /\ rpc = "wait"
        /\ events' = UNION {{[from |-> s, key |-> data[s], dirs |-> ds] : ds \in found(s)} :
                               s \in Srcs}
        /\ armed' = [s \in Srcs |-> Using(EpollLeft(s), KqueueLeft(s))]
        /\ seen' = [s \in Srcs |-> [d \in Dirs |->
                        ticks[s][d] # <<>> /\ (seen[s][d] \/ d \in UNION found(s))]]
        /\ rpc' = IF events' = {} THEN "idle" ELSE "returned"
        /\ UNCHANGED <<poller, life, slabVars, data, avail, failed, wakers, tick, ticks,
                       ticker, woken, taskVars>>

LockSources ==
    /\ rpc = "returned"
    /\ rpc' = "deliver"
    /\ UNCHANGED <<life, slabVars, epollVars, stateVars, ticker, events, woken,
                   taskVars>>

\* Mutant: the direction without an event is not armed again.
RearmNothing(s, waiting) == UNCHANGED <<armed, data>>

Rearm(s, waiting) ==
    IF \A d \in Dirs : waiting[d] = {} THEN UNCHANGED <<armed, data>>
    ELSE Interest(s, waiting)

\* One event: the tick, the wakers, and the interest of the other direction.
Deliver(e) ==
    LET s == slab[e.key]
    IN  /\ rpc = "deliver"
        /\ e \in events
        /\ events' = events \ {e}
        /\ IF s = None
           THEN UNCHANGED <<wakers, tick, woken, armed, data>>
           ELSE /\ tick' = [tick EXCEPT ![s] = [d \in Dirs |->
                              IF d \in e.dirs THEN ticker + 1 ELSE @[d]]]
                /\ woken' = woken \cup UNION {wakers[s][d] : d \in e.dirs}
                /\ wakers' = [wakers EXCEPT ![s] = [d \in Dirs |->
                                IF d \in e.dirs THEN {} ELSE @[d]]]
                /\ Rearm(s, wakers'[s])
        /\ UNCHANGED <<poller, life, slabVars, avail, failed, ticks, seen, ticker, rpc,
                       taskVars>>

UnlockSources ==
    /\ rpc = "deliver"
    /\ events = {}
    /\ rpc' = "wake"
    /\ UNCHANGED <<life, slabVars, epollVars, stateVars, ticker, events, woken,
                   taskVars>>

WakeAll ==
    /\ rpc = "wake"
    /\ tpc' = [t \in Tasks |-> IF t \in woken /\ tpc[t] = "waiting" THEN "poll"
                               ELSE tpc[t]]
    /\ woken' = {}
    /\ rpc' = "idle"
    /\ UNCHANGED <<life, slabVars, epollVars, stateVars, ticker, events, job>>

----------------------------------------------------------------------------
(* Descriptors *)

Become(s, d) ==
    /\ life[s] \in {"added", "open"}
    /\ avail' = [avail EXCEPT ![s] = IF d \in @ THEN @ \ {d} ELSE @ \cup {d}]
    /\ UNCHANGED <<poller, life, slabVars, armed, data, failed, stateVars, reactVars, taskVars>>

Fail(s) ==
    /\ Errors
    /\ life[s] \in {"added", "open"}
    /\ failed' = failed \cup {s}
    /\ UNCHANGED <<poller, life, slabVars, armed, data, avail, stateVars, reactVars, taskVars>>

Next ==
    \/ \E s \in Srcs : InsertPoller(s) \/ InsertSlab(s) \/ RemoveIo(s) \/ Fail(s)
    \/ \E s \in Srcs, d \in Dirs : Become(s, d)
    \/ \E t \in Tasks, s \in Srcs, d \in Dirs : Await(t, s, d)
    \/ \E t \in Tasks : PollReady(t) \/ PollPending(t) \/ Cancel(t)
    \/ React
    \/ PollerWait
    \/ LockSources
    \/ \E e \in events : Deliver(e)
    \/ UnlockSources
    \/ WakeAll

Spec == Init /\ [][Next]_vars

----------------------------------------------------------------------------
(* Properties *)

\* Every variable keeps its type; the ticks a source remembers are ticks the
\* reactor has had (ticks) or stores on delivery (tick).
TypeOK ==
    /\ poller \in Pollers
    /\ life \in [Srcs -> {"new", "added", "open", "dropped"}]
    /\ slab \in [Keys -> Srcs \cup {None}]
    /\ armed \in [Srcs -> SUBSET (Dirs \cup {"ERROR"})]
    /\ data \in [Srcs -> Keys]
    /\ avail \in [Srcs -> SUBSET Dirs]
    /\ failed \subseteq Srcs
    /\ wakers \in [Srcs -> [Dirs -> SUBSET Tasks]]
    /\ tick \in [Srcs -> [Dirs -> 0..(ticker + 1)]]
    /\ \A s \in Srcs, d \in Dirs :
          ticks[s][d] = <<>> \/ ticks[s][d] \in (0..ticker) \X (0..(ticker + 1))
    /\ seen \in [Srcs -> [Dirs -> BOOLEAN]]
    /\ ticker \in 0..MaxTick
    /\ rpc \in {"idle", "wait", "returned", "deliver", "wake"}
    /\ \A e \in events : e.from \in Srcs /\ e.key \in Keys /\ e.dirs \subseteq Dirs
    /\ woken \subseteq Tasks
    /\ job \in [Tasks -> (Srcs \cup {None}) \X Dirs]
    /\ tpc \in [Tasks -> {"idle", "poll", "waiting"}]

\* An event of s that react() is going to hand to s.
InFlight(s) == \E e \in events : slab[e.key] = s

\* Nobody waits in vain: a task that waits for a direction of a source has its
\* waker on that list or in the hands of react(), and while it is on the list
\* the poller is armed for the direction or has an event of the source on its
\* way.  One-shot interest (of the descriptor with epoll, of each direction with
\* kqueue), cancelled waits and reused keys make the code re-arm in several
\* places.
WaitersArmed ==
    \A t \in Tasks :
        tpc[t] = "waiting" =>
            LET s == job[t][1]
                d == job[t][2]
            IN  \/ t \in woken
                \/ t \in wakers[s][d] /\ (d \in armed[s] \/ InFlight(s))

\* State.tick and State.ticks, "Last reactor tick that delivered an event" and
\* "Ticks remembered by poll_readable() or poll_writable()", tell a task that an
\* event has come for the source since it began to wait.
ReadyMeansEvent ==
    \A t \in Tasks :
        tpc[t] = "poll" /\ Delivered(job[t][1], job[t][2]) =>
            seen[job[t][1]][job[t][2]]
=============================================================================
