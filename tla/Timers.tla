------------------------------- MODULE Timers -------------------------------
(***************************************************************************)
(* Timer of src/src/io/mod.rs, the futures built on it (Delay, Interval,   *)
(* Timeout, IdleTimeout), and the timers of src/src/io/reactor.rs.  A      *)
(* Timer does not touch the map of timers: it sends insertions and         *)
(* removals through the bounded queue timer_ops (src/src/queue.rs), which  *)
(* react() empties into the map, as does a thread that finds it full.      *)
(*                                                                         *)
(* An owner is a future with one Timer.  It may be polled at any time and  *)
(* with any waker, because futures move between tasks.  What a call sends  *)
(* is kept in todo and sent operation by operation.  How a notification    *)
(* reaches epoll is the subject of module BlockOn.                         *)
(***************************************************************************)
EXTENDS Integers, Sequences, FiniteSets

CONSTANTS Owners,
          Wakers,
          Kinds,     \* what an owner may be
          OpsCap,    \* capacity of timer_ops (1000)
          Period,    \* of an Interval
          Idle,      \* idle_timeout of an IdleTimeout
          Check,     \* its check_interval
          MaxNow,    \* bound: the clock
          MaxMoves,  \* bound: resets, polls with another waker, operations of Other
          Reactor,   \* the reacting thread
          Other,     \* a thread with timers of its own
          None

ASSUME BoundsAssumption ==
    /\ OpsCap \in Nat \ {0}
    /\ Period \in Nat \ {0}
    /\ {Idle, Check, MaxNow, MaxMoves} \subseteq Nat
    /\ IsFiniteSet(Owners)

ASSUME NamesAssumption ==
    /\ Kinds \subseteq {"delay", "interval", "timeout", "idle"}
    /\ Reactor \notin Owners /\ Other \notin Owners \cup {Reactor}
    /\ None \notin Owners \cup Wakers \cup {Reactor, Other}

VARIABLES now,       \* Instant::now()
          timerOps,  \* Reactor.timer_ops
          timers,    \* Reactor.timers: the entries of the map
          tlock,     \* holder of its mutex
          rounds,    \* rounds its process_timer_ops may still make
          rpc,       \* where the reacting thread is
          until,     \* it waits till then: 0 is not at all, None for ever
          kicked,    \* Poller::notify has been called since
          collected, \* wakers it is going to call
          kind, life, deadline, key, waker,  \* of each owner; key and waker of its Timer
          last,      \* last_visited of an IdleTimeout
          lag,       \* history: by how much it is later than the clock behind the deadline
          inner,     \* owners whose inner future is ready
          cur,       \* cur[x]: the waker of the last poll
          polled,    \* history: when that was
          waits,     \* owners whose last poll was Pending
          woken,     \* owners whose cur has been called since
          todo,      \* todo[x]: operations the current call of x has to send
          full,      \* owners whose push has failed
          moves

reactVars == <<rpc, until, collected>>
mapVars   == <<timers, tlock, rounds>>
timerVars == <<kind, life, deadline, key, waker>>
pollVars  == <<last, lag, cur, polled, waits, woken>>
vars == <<now, timerOps, timers, tlock, rounds, rpc, until, kicked, collected, kind,
          life, deadline, key, waker, last, lag, inner, cur, polled, waits, woken,
          todo, full, moves>>

Init ==
    /\ now = 0
    /\ timerOps = <<>>
    /\ timers = {}
    /\ tlock = None
    /\ rounds = 0
    /\ rpc = "out"
    /\ until = None
    /\ kicked = FALSE
    /\ collected = {}
    /\ kind \in [Owners -> Kinds]
    /\ life = [x \in Owners |-> "new"]
    /\ deadline = [x \in Owners |-> 0]
    /\ key = [x \in Owners |-> 0]
    /\ waker = [x \in Owners |-> None]
    /\ last = [x \in Owners |-> 0]
    /\ lag = [x \in Owners |-> 0]
    /\ inner = {}
    /\ cur = [x \in Owners |-> None]
    /\ polled = [x \in Owners |-> 0]
    /\ waits = {}
    /\ woken = {}
    /\ todo = [x \in Owners |-> <<>>]
    /\ full = {}
    /\ moves = 0

Elems(seq) == {seq[i] : i \in DOMAIN seq}

----------------------------------------------------------------------------
(* Timer *)

RemoveOp(x) == <<[op |-> "remove", when |-> deadline[x], id |-> key[x]]>>

\* Mutant: insert_timer without its notify().
InsertOpSilently(when, id, w) ==
    <<[op |-> "insert", when |-> when, id |-> id, waker |-> w]>>

InsertOp(when, id, w) ==
    <<[op |-> "insert", when |-> when, id |-> id, waker |-> w], [op |-> "notify"]>>

IdsOf(seq) == {o.id : o \in {p \in Elems(seq) : p.op \in {"insert", "remove"}}}

UsedIds ==
    {key[x] : x \in Owners} \cup {e.id : e \in timers} \cup IdsOf(timerOps)
        \cup UNION {IdsOf(todo[x]) : x \in Owners}

\* ID_GENERATOR never repeats an id; all that shows is that an id differs from
\* those still around.
FreshId == CHOOSE i \in 1..(Cardinality(UsedIds) + 1) : i \notin UsedIds

\* Mutant: the deadline is replaced before the old entry is removed.
ResetOpsLate(x, when) ==
    <<[op |-> "remove", when |-> when, id |-> key[x]]>>
        \o InsertOp(when, FreshId, waker[x])

ResetOps(x, when) == RemoveOp(x) \o InsertOp(when, FreshId, waker[x])

\* Timer::reset, after what the call has to send first
ResetTo(x, when, before) ==
    /\ deadline' = [deadline EXCEPT ![x] = when]
    /\ \/ /\ waker[x] # None
          /\ key' = [key EXCEPT ![x] = FreshId]
          /\ todo' = [todo EXCEPT ![x] = before \o ResetOps(x, when)]
       \/ /\ waker[x] = None
          /\ todo' = [todo EXCEPT ![x] = before]
          /\ UNCHANGED key
    /\ UNCHANGED waker

Expired(x) == deadline[x] <= now

\* Timer::poll_timeout: Ready, and what it sends
ReadyOps(x) == IF key[x] > 0 THEN RemoveOp(x) ELSE <<>>

\* Mutant: any waker will do.
WillWakeAny(x, w) == waker[x] # None

WillWake(x, w) == waker[x] = w

\* Timer::poll_timeout: Pending with waker w, followed by the operations after
PollTimeoutPending(x, w, after) ==
    /\ \/ /\ WillWake(x, w)
          /\ todo' = [todo EXCEPT ![x] = after]
          /\ UNCHANGED <<key, waker>>
       \/ /\ ~WillWake(x, w)
          /\ key' = [key EXCEPT ![x] = FreshId]
          /\ waker' = [waker EXCEPT ![x] = w]
          /\ todo' = [todo EXCEPT ![x] =
                        (IF waker[x] = None THEN <<>> ELSE RemoveOp(x))
                           \o InsertOp(deadline[x], FreshId, w) \o after]
    /\ UNCHANGED deadline

----------------------------------------------------------------------------
(* The owners; an owner does one thing at a time *)

Free(x) == todo[x] = <<>>

\* The time of a poll, noted for an IdleTimeout
IdleTime(x) == IF kind[x] = "idle" THEN now ELSE 0

\* delay_until, interval_at, timeout_at; of IdleTimeout::new, the delay_for
Create(x, when) ==
    /\ life[x] = "new"
    /\ kind[x] = "idle" => when = now + Idle
    /\ life' = [life EXCEPT ![x] = IF kind[x] = "idle" THEN "opening" ELSE "live"]
    /\ deadline' = [deadline EXCEPT ![x] = when]
    /\ UNCHANGED <<now, timerOps, mapVars, reactVars, kicked, kind, key, waker, inner,
                   pollVars, todo, full, moves>>

\* The rest of IdleTimeout::new, which reads the clock a second time
Open(x) ==
    /\ life[x] = "opening"
    /\ life' = [life EXCEPT ![x] = "live"]
    /\ last' = [last EXCEPT ![x] = now]
    /\ lag' = [lag EXCEPT ![x] = now + Idle - deadline[x]]
    /\ polled' = [polled EXCEPT ![x] = now]
    /\ UNCHANGED <<now, timerOps, mapVars, reactVars, kicked, kind, deadline, key, waker,
                   inner, cur, waits, woken, todo, full, moves>>

\* What every poll of x with waker w does; pending: it returns Pending.
Polling(x, w, pending) ==
    /\ life[x] = "live"
    /\ Free(x)
    /\ cur[x] \in {None, w} \/ moves < MaxMoves
    /\ moves' = IF cur[x] \in {None, w} THEN moves ELSE moves + 1
    /\ cur' = [cur EXCEPT ![x] = w]
    /\ polled' = [polled EXCEPT ![x] = IdleTime(x)]
    /\ woken' = woken \ {x}
    /\ waits' = IF pending THEN waits \cup {x} ELSE waits \ {x}
    /\ UNCHANGED <<now, timerOps, mapVars, reactVars, kicked, kind, inner, full>>

\* Timeout and IdleTimeout: the inner future comes first.
PollInner(x, w) ==
    /\ x \in inner
    /\ Polling(x, w, FALSE)
    /\ life' = [life EXCEPT ![x] = "done"]
    /\ UNCHANGED <<deadline, key, waker, last, lag, todo>>

\* A Delay may be reset and polled again; the other two are over.
PollElapsed(x, w) ==
    /\ kind[x] # "interval"
    /\ x \notin inner
    /\ Expired(x)
    /\ Polling(x, w, FALSE)
    /\ life' = [life EXCEPT ![x] = IF kind[x] = "delay" THEN "live" ELSE "done"]
    /\ todo' = [todo EXCEPT ![x] = ReadyOps(x)]
    /\ UNCHANGED <<deadline, key, waker, last, lag>>

\* Interval::poll_tick
PollTick(x, w) ==
    /\ kind[x] = "interval"
    /\ Expired(x)
    /\ Polling(x, w, FALSE)
    /\ ResetTo(x, deadline[x] + Period, ReadyOps(x))
    /\ UNCHANGED <<life, last, lag>>

PollPending(x, w) ==
    /\ x \notin inner
    /\ ~Expired(x)
    /\ Polling(x, w, TRUE)
    /\ PollTimeoutPending(x, w, IF kind[x] = "idle" THEN <<[op |-> "check"]>> ELSE <<>>)
    /\ UNCHANGED <<life, last, lag>>

Poll(x, w) == PollInner(x, w) \/ PollElapsed(x, w) \/ PollTick(x, w) \/ PollPending(x, w)

\* Mutant: > for >=.
CheckOverdue(x) == now - last[x] > Check

CheckDue(x) == now - last[x] >= Check

\* IdleTimeout::poll after a pending sleep; now is read again.
IdleCheck(x) ==
    /\ todo[x] = <<[op |-> "check"]>>
    /\ \/ /\ CheckDue(x)
          /\ last' = [last EXCEPT ![x] = now]
          /\ lag' = [lag EXCEPT ![x] = 0]
          /\ ResetTo(x, now + Idle, <<>>)
       \/ /\ ~CheckDue(x)
          /\ todo' = [todo EXCEPT ![x] = <<>>]
          /\ UNCHANGED <<last, lag, deadline, key, waker>>
    /\ UNCHANGED <<now, timerOps, mapVars, reactVars, kicked, kind, life, inner, cur,
                   polled, waits, woken, full, moves>>

\* Delay::reset
Reset(x, when) ==
    /\ kind[x] = "delay"
    /\ life[x] = "live"
    /\ Free(x)
    /\ moves < MaxMoves
    /\ moves' = moves + 1
    /\ ResetTo(x, when, <<>>)
    /\ UNCHANGED <<now, timerOps, mapVars, reactVars, kicked, kind, life, inner,
                   pollVars, full>>

\* Timer::drop
Drop(x) ==
    /\ life[x] \in {"live", "done"}
    /\ Free(x)
    /\ life' = [life EXCEPT ![x] = "dropped"]
    /\ todo' = [todo EXCEPT ![x] = IF waker[x] = None THEN <<>> ELSE RemoveOp(x)]
    /\ deadline' = [deadline EXCEPT ![x] = 0]
    /\ key' = [key EXCEPT ![x] = 0]
    /\ waker' = [waker EXCEPT ![x] = None]
    /\ last' = [last EXCEPT ![x] = 0]
    /\ lag' = [lag EXCEPT ![x] = 0]
    /\ cur' = [cur EXCEPT ![x] = None]
    /\ polled' = [polled EXCEPT ![x] = 0]
    /\ waits' = waits \ {x}
    /\ woken' = woken \ {x}
    /\ inner' = inner \ {x}
    /\ UNCHANGED <<now, timerOps, mapVars, reactVars, kicked, kind, full, moves>>

\* The inner future becomes ready and calls the waker it was polled with.
InnerReady(x) ==
    /\ kind[x] \in {"timeout", "idle"}
    /\ life[x] = "live"
    /\ x \notin inner
    /\ inner' = inner \cup {x}
    /\ woken' = woken \cup ({x} \cap waits)
    /\ UNCHANGED <<now, timerOps, mapVars, reactVars, kicked, timerVars, last, lag, cur,
                   polled, waits, todo, full, moves>>

----------------------------------------------------------------------------
(* Reactor::insert_timer, remove_timer and the queue *)

Sending(x) == todo[x] # <<>> /\ Head(todo[x]).op \in {"insert", "remove"}

\* Mutant: the comparison with the capacity is off by one.
PushBeyond(o) == Len(timerOps) <= OpsCap /\ timerOps' = Append(timerOps, o)

\* Queue::push
Push(o) == Len(timerOps) < OpsCap /\ timerOps' = Append(timerOps, o)

SendOp(x) ==
    /\ Sending(x)
    /\ x \notin full
    /\ \/ /\ Push(Head(todo[x]))
          /\ todo' = [todo EXCEPT ![x] = Tail(@)]
          /\ UNCHANGED full
       \/ /\ Len(timerOps) = OpsCap
          /\ full' = full \cup {x}
          /\ UNCHANGED <<timerOps, todo>>
    /\ UNCHANGED <<now, mapVars, reactVars, kicked, timerVars, inner, pollVars, moves>>

\* The same by a thread that removes some timer of its own
OtherSends ==
    /\ Other \notin full
    /\ moves < MaxMoves
    /\ \/ /\ Push([op |-> "remove", when |-> 0, id |-> 0])
          /\ moves' = moves + 1
          /\ UNCHANGED full
       \/ /\ Len(timerOps) = OpsCap
          /\ full' = full \cup {Other}
          /\ UNCHANGED <<timerOps, moves>>
    /\ UNCHANGED <<now, mapVars, reactVars, kicked, timerVars, inner, pollVars, todo>>

Notify(x) ==
    /\ todo[x] # <<>>
    /\ Head(todo[x]).op = "notify"
    /\ kicked' = TRUE
    /\ todo' = [todo EXCEPT ![x] = Tail(@)]
    /\ UNCHANGED <<now, timerOps, mapVars, reactVars, timerVars, inner, pollVars, full,
                   moves>>

\* timers.lock(), by react() and by a thread whose push failed
LockTimers(th) ==
    /\ tlock = None
    /\ th \in full \/ (th = Reactor /\ rpc \in {"first", "second"})
    /\ tlock' = th
    /\ rounds' = OpsCap
    /\ UNCHANGED <<now, timerOps, timers, reactVars, kicked, timerVars, inner, pollVars,
                   todo, full, moves>>

\* A round of process_timer_ops
Applied(o) ==
    IF o.op = "remove" THEN {e \in timers : <<e.when, e.id>> # <<o.when, o.id>>}
    ELSE {e \in timers : <<e.when, e.id>> # <<o.when, o.id>>}
           \cup {[when |-> o.when, id |-> o.id, waker |-> o.waker]}

\* Queue::pop
Pop == timerOps # <<>> /\ timerOps' = Tail(timerOps)

ProcessOp(th) ==
    /\ tlock = th
    /\ rounds > 0
    /\ Pop
    /\ timers' = Applied(Head(timerOps))
    /\ rounds' = rounds - 1
    /\ UNCHANGED <<now, tlock, reactVars, kicked, timerVars, inner, pollVars, todo, full,
                   moves>>

OpsProcessed == rounds = 0 \/ timerOps = <<>>

\* A thread that found the queue full tries again.
Unlock(x) ==
    /\ tlock = x
    /\ OpsProcessed
    /\ tlock' = None
    /\ rounds' = 0
    /\ full' = full \ {x}
    /\ UNCHANGED <<now, timerOps, timers, reactVars, kicked, timerVars, inner,
                   pollVars, todo, moves>>

DrainStep(th) == LockTimers(th) \/ ProcessOp(th) \/ Unlock(th)

OwnerStep(x) == SendOp(x) \/ Notify(x) \/ DrainStep(x) \/ IdleCheck(x)

----------------------------------------------------------------------------
(* Reactor::react *)

React ==
    /\ rpc = "out"
    /\ rpc' = "first"
    /\ UNCHANGED <<now, timerOps, mapVars, until, kicked, collected, timerVars, inner,
                   pollVars, todo, full, moves>>

\* split_off(&(now, 0)): the entries before now
Due == {e \in timers : e.when < now}

\* What process_timers returns, as a point in time
NextTimer ==
    IF \E e \in timers : e.when <= now THEN 0
    ELSE IF timers = {} THEN None
    ELSE CHOOSE t \in {e.when : e \in timers} : \A e \in timers : t <= e.when

\* Reactor::process_timers, after the operations; block_on also calls react()
\* with a timeout of zero.
SplitOff ==
    /\ tlock = Reactor
    /\ OpsProcessed
    /\ timers' = timers \ Due
    /\ collected' = collected \cup {e.waker : e \in Due}
    /\ \/ /\ rpc = "first"
          /\ rpc' = "wait"
          /\ until' \in {0, NextTimer}
       \/ /\ rpc = "second"
          /\ rpc' = "wake"
          /\ UNCHANGED until
    /\ tlock' = None
    /\ rounds' = 0
    /\ UNCHANGED <<now, timerOps, kicked, timerVars, inner, pollVars, todo, full,
                   moves>>

\* Poller::wait without I/O events; after a wait the timers are looked at again.
WaitEnds ==
    /\ rpc = "wait"
    /\ kicked \/ (until # None /\ until <= now)
    /\ kicked' = FALSE
    /\ rpc' = IF until = 0 THEN "wake" ELSE "second"
    /\ UNCHANGED <<now, timerOps, mapVars, until, collected, timerVars, inner, pollVars,
                   todo, full, moves>>

\* Poller::wait with I/O events
WaitEvents ==
    /\ rpc = "wait"
    /\ kicked' = FALSE
    /\ rpc' = "wake"
    /\ UNCHANGED <<now, timerOps, mapVars, until, collected, timerVars, inner, pollVars,
                   todo, full, moves>>

Wake ==
    /\ rpc = "wake"
    /\ woken' = woken \cup {x \in waits : cur[x] \in collected}
    /\ collected' = {}
    /\ until' = None
    /\ rpc' = "out"
    /\ UNCHANGED <<now, timerOps, mapVars, kicked, timerVars, last, lag, inner, cur,
                   polled, waits, todo, full, moves>>

ReactStep == React \/ LockTimers(Reactor) \/ ProcessOp(Reactor) \/ SplitOff \/ WaitEnds \/ Wake

----------------------------------------------------------------------------

Tick ==
    /\ now < MaxNow
    /\ now' = now + 1
    /\ UNCHANGED <<timerOps, mapVars, reactVars, kicked, timerVars, inner, pollVars, todo,
                   full, moves>>

Next ==
    \/ \E x \in Owners, when \in now..MaxNow : Create(x, when) \/ Reset(x, when)
    \/ \E x \in Owners, w \in Wakers : Poll(x, w)
    \/ \E x \in Owners : Open(x) \/ Drop(x) \/ InnerReady(x) \/ OwnerStep(x)
    \/ OtherSends \/ DrainStep(Other)
    \/ ReactStep
    \/ WaitEvents
    \/ Tick

\* Threads run, react() is called again and again (module BlockOn), and a woken
\* owner is polled.  Nothing else has to happen, not even the passing of time.
Fairness ==
    /\ WF_vars(ReactStep)
    /\ WF_vars(DrainStep(Other))
    /\ \A x \in Owners : WF_vars(OwnerStep(x))
    /\ \A x \in Owners : WF_vars(x \in woken /\ Poll(x, cur[x]))

Spec == Init /\ [][Next]_vars

FairSpec == Spec /\ Fairness

----------------------------------------------------------------------------
(* Properties *)

\* Entries that are in the map or on their way to it and not about to be removed.
Entries ==
    LET sent == Elems(timerOps) \cup UNION {Elems(todo[x]) : x \in Owners}
        gone == {<<o.when, o.id>> : o \in {p \in sent : p.op = "remove"}}
        put  == timers \cup {[when |-> o.when, id |-> o.id, waker |-> o.waker] :
                                o \in {p \in Elems(timerOps) : p.op = "insert"}}
    IN  {e \in put : <<e.when, e.id>> \notin gone}

\* Every variable keeps its type; no two entries of the map share an id, and the
\* queue keeps to its capacity.
TypeOK ==
    /\ now \in 0..MaxNow
    /\ Len(timerOps) <= OpsCap
    /\ \A e, f \in timers : e.id = f.id => e = f
    /\ tlock \in Owners \cup {Reactor, Other, None}
    /\ rounds \in 0..OpsCap
    /\ rpc \in {"out", "first", "wait", "second", "wake"}
    /\ kicked \in BOOLEAN
    /\ collected \subseteq Wakers
    /\ kind \in [Owners -> Kinds]
    /\ life \in [Owners -> {"new", "opening", "live", "done", "dropped"}]
    /\ deadline \in [Owners -> Nat]
    /\ key \in [Owners -> Nat]
    /\ waker \in [Owners -> Wakers \cup {None}]
    /\ last \in [Owners -> 0..MaxNow]
    /\ lag \in [Owners -> 0..MaxNow]
    /\ cur \in [Owners -> Wakers \cup {None}]
    /\ polled \in [Owners -> 0..MaxNow]
    /\ waits \cup woken \cup inner \subseteq Owners
    /\ full \subseteq Owners \cup {Other}
    /\ moves \in 0..MaxMoves

\* A future that returned Pending is entered in the map, or on its way there,
\* under its current deadline and key and with the waker of its last poll, or
\* that waker is going to be called: resets, changed wakers, a full queue and
\* react() taking entries away in the middle of it lose no timer.
WaitersEntered ==
    \A x \in waits :
        Free(x) /\ x \notin woken =>
            \/ cur[x] \in collected
            \/ [when |-> deadline[x], id |-> key[x], waker |-> cur[x]] \in Entries

\* Nothing is left behind: every entry is the current one of a Timer that still
\* exists.  A stale one would stay in the map until it wakes a task for nothing.
NothingLeaks ==
    \A e \in Entries :
        \E x \in Owners :
            /\ life[x] \in {"live", "done"}
            /\ e = [when |-> deadline[x], id |-> key[x], waker |-> waker[x]]

\* An IdleTimeout gives up only on a future that has not been polled for more
\* than idle_timeout less check_interval: that is the leeway, however the polls
\* that skip the reset and the ones that do it alternate.  With an interval of
\* zero every poll resets, and it is idle_timeout itself.  Only until the first
\* reset may it be shorter, by the time that IdleTimeout::new took between its
\* two readings of the clock.
IdleNotEarly ==
    [][\A x \in Owners :
          kind[x] = "idle" /\ life[x] = "live" /\ life'[x] = "done" /\ x \notin inner =>
              LET leeway == now - polled[x] + lag[x]
              IN  leeway > Idle - Check \/ leeway >= Idle]_vars

\* A future whose deadline has passed is polled again, whatever else is in the
\* map and in the queue and however it was reset or moved before.
DeadlineServed ==
    \A x \in Owners :
        x \in waits /\ Free(x) /\ deadline[x] < now ~>
            x \notin waits \/ deadline[x] >= now
=============================================================================
