------------------------------ MODULE BlockOn ------------------------------
(***************************************************************************)
(* block_on() of src/src/blocking.rs, Reactor::react(), the timer queue    *)
(* and the background thread of src/src/io/reactor.rs, and the notifier of *)
(* src/src/io/poller: every thread that runs a future takes turns at       *)
(* waiting in epoll for all of them.                                       *)
(*                                                                         *)
(* A future waits for one thing at a time: an I/O event, a timer, or a     *)
(* call of its waker.  A timer is inserted once and has room in timer_ops; *)
(* the rest of its life is the subject of module Timers.  Parkers are the  *)
(* tokens of module ParkToken.  Each caller makes one call of block_on (a  *)
(* call has a parker and an io_blocked flag of its own).  Only the holder  *)
(* of the reactor lock is inside react(), so its locals are single         *)
(* variables.  Atomics are sequentially consistent: each action is one     *)
(* access to shared state.                                                 *)
(***************************************************************************)
EXTENDS Naturals, FiniteSets

CONSTANTS Callers,    \* threads that call block_on
          Wakers,     \* other threads that call wakers
          Kinds,      \* Kinds[b]: what the future of b waits for
          Io,         \* the reactor's background thread
          None,
          SleepLimit  \* sleeps after which Io blocks on the reactor lock (10)

ASSUME BoundsAssumption == SleepLimit \in Nat /\ IsFiniteSet(Callers)

ASSUME KindsAssumption == Kinds \in [Callers -> SUBSET {"ext", "io", "timer"}]

ASSUME NamesAssumption ==
    /\ Callers \cap Wakers = {}
    /\ Io \notin Callers \cup Wakers
    /\ None \notin Callers \cup {Io}

Threads == Callers \cup Wakers \cup {Io}
Reactors == Callers \cup {Io}

VARIABLES pc,         \* pc[th]: where thread th is
          target,     \* target[th]: the caller whose waker th is calling
          token,      \* token[th]: the parker of th is notified
          ioPolling,  \* threads whose IO_POLLING is true
          ioBlocked,  \* callers whose io_blocked is true
          count,      \* Reactor.block_on_count
          lock,       \* holder of Reactor.lock
          notified,   \* Poller.notified
          eventfd,    \* the counter of event_fd is not zero
          moved,      \* Reactor.ticker differs from last_tick of Io
          sleeps,     \* sleeps of Io, at most SleepLimit
          need,       \* need[b]: what the future of b waits for
          reg,        \* reg[b]: where the waker registered for that is
          ready,      \* callers whose awaited event has happened
          timeout,    \* of the react() in progress
          timerfd,    \* the timers the timerfd was set for, None: it has expired
          got,        \* callers whose I/O events epoll has returned
          collected,  \* callers whose wakers react() is going to call
          back        \* where the thread goes on after react()

flagVars  == <<ioPolling, ioBlocked, count>>
futVars   == <<need, reg, ready>>
pollVars  == <<notified, eventfd>>
ioVars    == <<moved, sleeps>>
reactVars == <<timeout, timerfd, got, collected, back>>
vars == <<pc, target, token, ioPolling, ioBlocked, count, lock, notified,
          eventfd, moved, sleeps, need, reg, ready, timeout, timerfd, got,
          collected, back>>

Needs == {"none", "ext", "io", "timer"}

\* "queued" in timer_ops, "armed" in the timers or in epoll, "held" by react().
Regs == {"none", "queued", "armed", "held"}

Init ==
    /\ pc = [th \in Threads |-> IF th = Io THEN "iotick" ELSE "out"]
    /\ target = [th \in Threads |-> None]
    /\ token = [th \in Reactors |-> FALSE]
    /\ ioPolling = {}
    /\ ioBlocked = {}
    /\ count = 0
    /\ lock = None
    /\ notified = FALSE
    /\ eventfd = FALSE
    /\ moved = FALSE
    /\ sleeps = 0
    /\ need = [b \in Callers |-> "none"]
    /\ reg = [b \in Callers |-> "none"]
    /\ ready = {}
    /\ timeout = "none"
    /\ timerfd = {}
    /\ got = {}
    /\ collected = {}
    /\ back = "out"

Goto(th, point) == pc' = [pc EXCEPT ![th] = point]

\* Where a thread goes on after notify(): a caller notifies in insert_timer, Io
\* in react() (a caller is IO_POLLING there).
Return(th) == IF th \in Callers THEN "parkzero"
              ELSE IF th = Io THEN "wakeall" ELSE "out"

----------------------------------------------------------------------------
(* Poller::notify *)

NotifyCas(th) ==
    /\ pc[th] = "notifycas"
    /\ \/ /\ ~notified
          /\ notified' = TRUE
          /\ Goto(th, "notifywrite")
       \/ /\ notified
          /\ Goto(th, Return(th))
          /\ UNCHANGED notified
    /\ UNCHANGED <<target, token, flagVars, lock, eventfd, ioVars, futVars,
                   reactVars>>

NotifyWrite(th) ==
    /\ pc[th] = "notifywrite"
    /\ eventfd' = TRUE
    /\ Goto(th, Return(th))
    /\ UNCHANGED <<target, token, flagVars, lock, notified, ioVars, futVars,
                   reactVars>>

----------------------------------------------------------------------------
(* The waker of block_on *)

\* u.unpark() and, if it set the token, the thread-local IO_POLLING.
CallWaker(th, b, next) ==
    /\ token' = [token EXCEPT ![b] = TRUE]
    /\ \/ /\ ~token[b]
          /\ th \notin ioPolling
          /\ target' = [target EXCEPT ![th] = b]
          /\ Goto(th, "wakecheck")
       \/ /\ token[b] \/ th \in ioPolling
          /\ Goto(th, next)
          /\ UNCHANGED target

WakeCheck(th) ==
    /\ pc[th] = "wakecheck"
    /\ Goto(th, IF target[th] \in ioBlocked THEN "notifycas" ELSE Return(th))
    /\ target' = [target EXCEPT ![th] = None]
    /\ UNCHANGED <<token, flagVars, lock, pollVars, ioVars, futVars,
                   reactVars>>

\* Another thread calls the waker of b, with or without a reason.
Wake(u, b) ==
    /\ pc[u] = "out"
    /\ pc[b] \notin {"out", "done"}
    /\ ready' = IF need[b] = "ext" THEN ready \cup {b} ELSE ready
    /\ CallWaker(u, b, "out")
    /\ UNCHANGED <<flagVars, lock, pollVars, ioVars, need, reg, reactVars>>

\* A descriptor becomes ready, a deadline passes.
Happen(b) ==
    /\ need[b] \in {"io", "timer"}
    /\ b \notin ready
    /\ ready' = ready \cup {b}
    /\ UNCHANGED <<pc, target, token, flagVars, lock, pollVars, ioVars, need,
                   reg, reactVars>>

WakeStep(th) == NotifyCas(th) \/ NotifyWrite(th) \/ WakeCheck(th)

----------------------------------------------------------------------------
(* Reactor::react, by the holder of the reactor lock *)

BeginReact(th, zero, next) ==
    /\ timeout' = IF zero THEN "zero" ELSE "none"
    /\ back' = next
    /\ Goto(th, "react")
    /\ UNCHANGED <<timerfd, got, collected>>

Queued == {b \in Callers : reg[b] = "queued"}
Timers == {b \in Callers : need[b] = "timer" /\ reg[b] \in {"queued", "armed"}}
Due == Timers \cap ready

\* Reactor::process_timers: process_timer_ops, then split off what is due.
ProcessTimers ==
    /\ reg' = [b \in Callers |-> IF b \in Due THEN "held"
                                 ELSE IF b \in Queued THEN "armed" ELSE reg[b]]
    /\ collected' = collected \cup Due

\* The timeout: nothing is waited for when timers are due; the next timer may
\* be due this very instant.  The tick is bumped before epoll.
ReactTimers(th) ==
    /\ pc[th] = "react"
    /\ ProcessTimers
    /\ timerfd' = Timers \ Due
    /\ \/ /\ timeout = "zero" \/ Timers # {}
          /\ timeout' = "zero"
       \/ /\ timeout = "none"
          /\ Due = {}
          /\ timeout' = IF Timers = {} THEN "none" ELSE "timed"
    /\ moved' = TRUE
    /\ Goto(th, "epoll")
    /\ UNCHANGED <<target, token, flagVars, lock, pollVars, sleeps, need, ready,
                   got, back>>

IoEvents == {b \in Callers : need[b] = "io" /\ reg[b] = "armed" /\ b \in ready}

\* epoll_wait has something to return, or is not to wait.
EpollReady ==
    \/ timeout = "zero"
    \/ eventfd
    \/ IoEvents # {}
    \/ timeout = "timed" /\ timerfd \cap (ready \cup {None}) # {}

\* Events are one-shot; event_fd and timer_fd have no source.
EpollWait(th) ==
    /\ pc[th] = "epoll"
    /\ EpollReady
    /\ got' = IoEvents
    /\ reg' = [b \in Callers |-> IF b \in IoEvents THEN "held" ELSE reg[b]]
    /\ Goto(th, "drain")
    /\ UNCHANGED <<target, token, flagVars, lock, pollVars, ioVars, need, ready,
                   timeout, timerfd, collected, back>>

\* A signal interrupts the wait: wait() returns EINTR before it touches event_fd
\* and the notified flag, and react() goes on.
EpollInterrupted(th) ==
    /\ pc[th] = "epoll"
    /\ ~EpollReady
    /\ Goto(th, "wakeall")
    /\ UNCHANGED <<target, token, flagVars, lock, pollVars, ioVars, futVars,
                   reactVars>>

\* read(event_fd), and interest(event_fd) again.
Drain(th) ==
    /\ pc[th] = "drain"
    /\ eventfd' = FALSE
    /\ Goto(th, "clear")
    /\ UNCHANGED <<target, token, flagVars, lock, notified, ioVars, futVars,
                   reactVars>>

\* Mutant: wait() does not reset Poller.notified.
KeepNotified == UNCHANGED notified

ResetNotified == notified' = FALSE

\* notified.swap(false), then the wakers of the events or of the timers.
Clear(th) ==
    /\ pc[th] = "clear"
    /\ ResetNotified
    /\ \/ /\ got = {}
          /\ timeout # "zero"
          /\ ProcessTimers
       \/ /\ got # {} \/ timeout = "zero"
          /\ collected' = collected \cup got
          /\ UNCHANGED reg
    /\ got' = {}
    /\ Goto(th, "wakeall")
    /\ UNCHANGED <<target, token, flagVars, lock, eventfd, ioVars, need, ready,
                   timeout, timerfd, back>>

WakeNext(th) ==
    /\ pc[th] = "wakeall"
    /\ \E b \in collected :
         /\ collected' = collected \ {b}
         /\ reg' = [reg EXCEPT ![b] = IF @ = "held" THEN "none" ELSE @]
         /\ CallWaker(th, b, "wakeall")
    /\ UNCHANGED <<flagVars, lock, pollVars, ioVars, need, ready, timeout,
                   timerfd, got, back>>

WakeEnd(th) ==
    /\ pc[th] = "wakeall"
    /\ collected = {}
    /\ Goto(th, back)
    /\ timeout' = "none"
    /\ timerfd' = {}
    /\ back' = "out"
    /\ UNCHANGED <<target, token, flagVars, lock, pollVars, ioVars, futVars, got,
                   collected>>

ReactStep(th) ==
    \/ ReactTimers(th)
    \/ EpollWait(th)
    \/ Drain(th)
    \/ Clear(th)
    \/ WakeNext(th)
    \/ WakeEnd(th)

----------------------------------------------------------------------------
(* block_on *)

\* Mutant: block_on does not call it.
CountNothing == UNCHANGED count

AddBlockOnCount == count' = count + 1

Enter(b) ==
    /\ pc[b] = "out"
    /\ AddBlockOnCount
    /\ Goto(b, "poll")
    /\ UNCHANGED <<target, token, ioPolling, ioBlocked, lock, pollVars, ioVars,
                   futVars, reactVars>>

\* A future that finds its deadline passed removes the timer; the timerfd that
\* was set for it has expired all the same.
DropTimer(b) == IF b \in timerfd THEN (timerfd \ {b}) \cup {None} ELSE timerfd

\* The future is polled: what it waited for has happened and it completes or
\* waits for something else, or it is still waiting.  remove_timer takes effect
\* at once here, not when timer_ops is processed.
PollReady(b) ==
    /\ pc[b] = "poll"
    /\ need[b] = "none" \/ b \in ready
    /\ need' = [need EXCEPT ![b] = "none"]
    /\ reg' = [reg EXCEPT ![b] = "none"]
    /\ ready' = ready \ {b}
    /\ timerfd' = DropTimer(b)
    /\ Goto(b, "exit")
    /\ UNCHANGED <<target, token, flagVars, lock, pollVars, ioVars, timeout, got,
                   collected, back>>

PollWaits(b, k) ==
    /\ pc[b] = "poll"
    /\ need[b] = "none" \/ b \in ready
    /\ need' = [need EXCEPT ![b] = k]
    /\ reg' = [reg EXCEPT ![b] = IF k = "io" THEN "armed" ELSE "none"]
    /\ ready' = ready \ {b}
    /\ timerfd' = DropTimer(b)
    /\ Goto(b, IF k = "timer" THEN "insert" ELSE "parkzero")
    /\ UNCHANGED <<target, token, flagVars, lock, pollVars, ioVars, timeout, got,
                   collected, back>>

PollPending(b) ==
    /\ pc[b] = "poll"
    /\ need[b] # "none"
    /\ b \notin ready
    /\ Goto(b, "parkzero")
    /\ UNCHANGED <<target, token, flagVars, lock, pollVars, ioVars, futVars,
                   reactVars>>

\* Mutant: insert_timer does not notify the reactor.
PushSilently(b) == Goto(b, "parkzero")

PushThenNotify(b) == Goto(b, "notifycas")

\* Reactor::insert_timer
InsertTimer(b) ==
    /\ pc[b] = "insert"
    /\ reg' = [reg EXCEPT ![b] = "queued"]
    /\ PushThenNotify(b)
    /\ UNCHANGED <<target, token, flagVars, lock, pollVars, ioVars, need, ready,
                   reactVars>>

\* p.park_timeout(0), then try_lock() for a quick look at I/O or for a wait.
ParkZero(b) ==
    /\ pc[b] = "parkzero"
    /\ token' = [token EXCEPT ![b] = FALSE]
    /\ Goto(b, IF token[b] THEN "trypoll" ELSE "trylock")
    /\ UNCHANGED <<target, flagVars, lock, pollVars, ioVars, futVars, reactVars>>

TryPoll(b) ==
    /\ pc[b] = "trypoll"
    /\ \/ /\ lock = None
          /\ lock' = b
          /\ ioPolling' = ioPolling \cup {b}
          /\ BeginReact(b, TRUE, "polled")
       \/ /\ lock # None
          /\ Goto(b, "poll")
          /\ UNCHANGED <<lock, ioPolling, reactVars>>
    /\ UNCHANGED <<target, token, ioBlocked, count, pollVars, ioVars, futVars>>

Polled(b) ==
    /\ pc[b] = "polled"
    /\ ioPolling' = ioPolling \ {b}
    /\ lock' = None
    /\ Goto(b, "poll")
    /\ UNCHANGED <<target, token, ioBlocked, count, pollVars, ioVars, futVars,
                   reactVars>>

TryLock(b) ==
    /\ pc[b] = "trylock"
    /\ lock' = IF lock = None THEN b ELSE lock
    /\ Goto(b, IF lock = None THEN "loop" ELSE "park")
    /\ UNCHANGED <<target, token, flagVars, pollVars, ioVars, futVars, reactVars>>

LoopHead(b) ==
    /\ pc[b] = "loop"
    /\ ioPolling' = ioPolling \cup {b}
    /\ ioBlocked' = ioBlocked \cup {b}
    /\ Goto(b, "check")
    /\ UNCHANGED <<target, token, count, lock, pollVars, ioVars, futVars,
                   reactVars>>

\* Mutant: no check of the token between io_blocked and the wait.
CheckNothing(b) ==
    /\ pc[b] = "check"
    /\ BeginReact(b, FALSE, "checkafter")
    /\ UNCHANGED <<target, token, flagVars, lock, pollVars, ioVars, futVars>>

CheckBefore(b) ==
    /\ pc[b] = "check"
    /\ token' = [token EXCEPT ![b] = FALSE]
    /\ \/ token[b] /\ Goto(b, "break") /\ UNCHANGED reactVars
       \/ ~token[b] /\ BeginReact(b, FALSE, "checkafter")
    /\ UNCHANGED <<target, flagVars, lock, pollVars, ioVars, futVars>>

\* Mutant: the result of park_timeout(0) is not looked at.
AfterWaitAnyway(b) == {"giveup", "again"}

\* After the wait: notified, past the 500 microseconds, or once more.
AfterWait(b) == IF token[b] THEN {"break"} ELSE {"giveup", "again"}

CheckAfter(b) ==
    /\ pc[b] = "checkafter"
    /\ token' = [token EXCEPT ![b] = FALSE]
    /\ \E point \in AfterWait(b) : Goto(b, point)
    /\ UNCHANGED <<target, flagVars, lock, pollVars, ioVars, futVars, reactVars>>

\* The guard of the loop body is dropped before the reactor lock ...
DropGuard(b, from, next) ==
    /\ pc[b] = from
    /\ ioPolling' = ioPolling \ {b}
    /\ ioBlocked' = ioBlocked \ {b}
    /\ Goto(b, next)
    /\ UNCHANGED <<target, token, count, lock, pollVars, ioVars, futVars,
                   reactVars>>

Unlock(b) ==
    /\ pc[b] = "unlock"
    /\ lock' = None
    /\ Goto(b, "poll")
    /\ UNCHANGED <<target, token, flagVars, pollVars, ioVars, futVars, reactVars>>

\* ... except by a thread that gives up polling: it parks inside the guard.
GiveUp(b) ==
    /\ pc[b] = "giveup"
    /\ lock' = None
    /\ Goto(b, "unparkio")
    /\ UNCHANGED <<target, token, flagVars, pollVars, ioVars, futVars, reactVars>>

UnparkIo(b) ==
    /\ pc[b] = "unparkio"
    /\ token' = [token EXCEPT ![Io] = TRUE]
    /\ Goto(b, "parkinside")
    /\ UNCHANGED <<target, flagVars, lock, pollVars, ioVars, futVars, reactVars>>

Park(b, from, next) ==
    /\ pc[b] = from
    /\ token[b]
    /\ token' = [token EXCEPT ![b] = FALSE]
    /\ Goto(b, next)
    /\ UNCHANGED <<target, flagVars, lock, pollVars, ioVars, futVars, reactVars>>

\* The guard of block_on: sub_block_on_count, then Reactor::unpark.
Exit(b) ==
    /\ pc[b] = "exit"
    /\ count' = count - 1
    /\ Goto(b, "exitunpark")
    /\ UNCHANGED <<target, token, ioPolling, ioBlocked, lock, pollVars, ioVars,
                   futVars, reactVars>>

ExitUnpark(b) ==
    /\ pc[b] = "exitunpark"
    /\ token' = [token EXCEPT ![Io] = TRUE]
    /\ Goto(b, "done")
    /\ UNCHANGED <<target, flagVars, lock, pollVars, ioVars, futVars, reactVars>>

CallerStep(b) ==
    \/ PollReady(b)
    \/ \E k \in Kinds[b] : PollWaits(b, k)
    \/ PollPending(b)
    \/ InsertTimer(b)
    \/ ParkZero(b)
    \/ TryPoll(b)
    \/ Polled(b)
    \/ TryLock(b)
    \/ LoopHead(b)
    \/ CheckBefore(b)
    \/ CheckAfter(b)
    \/ DropGuard(b, "break", "unlock")
    \/ DropGuard(b, "again", "loop")
    \/ DropGuard(b, "parked", "poll")
    \/ Unlock(b)
    \/ GiveUp(b)
    \/ UnparkIo(b)
    \/ Park(b, "parkinside", "parked")
    \/ Park(b, "park", "poll")
    \/ Exit(b)
    \/ ExitUnpark(b)

----------------------------------------------------------------------------
(* The background thread of Reactor::get *)

\* Mutant: Io steps in when the tick has moved.
Attended == moved

\* Nobody has polled since.
Stalled == ~moved

\* If another thread has polled, only note its tick.
IoTick ==
    /\ pc[Io] = "iotick"
    /\ \/ /\ Stalled
          /\ Goto(Io, IF sleeps >= SleepLimit THEN "iolock" ELSE "iotrylock")
       \/ /\ ~Stalled
          /\ Goto(Io, "iopark")
    /\ moved' = FALSE
    /\ UNCHANGED <<target, token, flagVars, lock, pollVars, sleeps, futVars,
                   reactVars>>

IoLock ==
    /\ \/ /\ pc[Io] \in {"iolock", "iotrylock"}
          /\ lock = None
          /\ lock' = Io
          /\ BeginReact(Io, FALSE, "ioreacted")
       \/ /\ pc[Io] = "iotrylock"
          /\ lock # None
          /\ Goto(Io, "iopark")
          /\ UNCHANGED <<lock, reactVars>>
    /\ UNCHANGED <<target, token, flagVars, pollVars, ioVars, futVars>>

IoReacted ==
    /\ pc[Io] = "ioreacted"
    /\ moved' = FALSE
    /\ sleeps' = 0
    /\ lock' = None
    /\ Goto(Io, "iopark")
    /\ UNCHANGED <<target, token, flagVars, pollVars, futVars, reactVars>>

\* park_timeout, notified or timed out, if some thread is in block_on.
IoPark ==
    /\ pc[Io] = "iopark"
    /\ \/ count = 0 /\ UNCHANGED <<token, ioVars>>
       \/ /\ count > 0
          /\ token[Io]
          /\ token' = [token EXCEPT ![Io] = FALSE]
          /\ moved' = FALSE
          /\ sleeps' = 0
       \/ /\ count > 0
          /\ ~token[Io]
          /\ sleeps' = IF sleeps < SleepLimit THEN sleeps + 1 ELSE sleeps
          /\ UNCHANGED <<token, moved>>
    /\ Goto(Io, "iotick")
    /\ UNCHANGED <<target, flagVars, lock, pollVars, futVars, reactVars>>

IoStep == IoTick \/ IoLock \/ IoReacted \/ IoPark

----------------------------------------------------------------------------

Next ==
    \/ \E b \in Callers : Enter(b) \/ CallerStep(b) \/ Happen(b)
    \/ IoStep
    \/ \E th \in Reactors : ReactStep(th) \/ EpollInterrupted(th)
    \/ \E th \in Threads : WakeStep(th)
    \/ \E u \in Wakers, b \in Callers : Wake(u, b)

\* Threads that can run do run.  Nobody has to call block_on or a waker, and
\* no event has to happen.
Fairness ==
    /\ \A b \in Callers : WF_vars(CallerStep(b) \/ ReactStep(b) \/ WakeStep(b))
    /\ WF_vars(IoStep \/ ReactStep(Io) \/ WakeStep(Io))
    /\ \A u \in Wakers : WF_vars(WakeStep(u))

Spec == Init /\ [][Next]_vars

FairSpec == Spec /\ Fairness

----------------------------------------------------------------------------
(* Properties *)

ReactPoints == {"react", "epoll", "drain", "clear", "wakeall"}

WakePoints == {"wakecheck", "notifycas", "notifywrite"}

CallerPoints == {"out", "poll", "insert", "parkzero", "trypoll", "polled",
                 "trylock", "loop", "check", "checkafter", "break", "again",
                 "unlock", "giveup", "unparkio", "parkinside", "parked", "park",
                 "exit", "exitunpark", "done"}

IoPoints == {"iotick", "iolock", "iotrylock", "ioreacted", "iopark"}

\* Every variable keeps its type; count is the block_on_count of live callers and
\* never wraps below zero, although the guard of block_on may drop at any time.
TypeOK ==
    /\ \A b \in Callers : pc[b] \in CallerPoints \cup ReactPoints \cup WakePoints
    /\ pc[Io] \in IoPoints \cup ReactPoints \cup WakePoints
    /\ \A u \in Wakers : pc[u] \in {"out"} \cup WakePoints
    /\ target \in [Threads -> Callers \cup {None}]
    /\ token \in [Reactors -> BOOLEAN]
    /\ ioPolling \subseteq Callers
    /\ ioBlocked \subseteq Callers
    /\ count \in 0..Cardinality(Callers)
    /\ lock \in Reactors \cup {None}
    /\ notified \in BOOLEAN
    /\ eventfd \in BOOLEAN
    /\ moved \in BOOLEAN
    /\ sleeps \in 0..SleepLimit
    /\ need \in [Callers -> Needs]
    /\ reg \in [Callers -> Regs]
    /\ ready \subseteq Callers
    /\ timeout \in {"zero", "timed", "none"}
    /\ timerfd \subseteq Callers \cup {None}
    /\ got \subseteq Callers
    /\ collected \subseteq Callers
    /\ back \in {"out", "polled", "checkafter", "ioreacted"}

\* Thread th may stay in epoll_wait for any length of time.
BlockedIn(th) == pc[th] = "epoll" /\ timeout # "zero"

\* Some thread is about to write event_fd.
Writing == \E th \in Threads : pc[th] = "notifywrite"

\* Poller.notified is never left behind: whenever it swallows a notify(), the
\* thread in epoll_wait is made to return by an eventfd already written or
\* about to be, or has returned and not yet looked at its tokens and timers.
NotifiedFlagBacked ==
    notified => eventfd \/ Writing \/ \E th \in Reactors : pc[th] = "clear"

\* A wake is not lost on a thread that waits for I/O: if the token of b is set
\* while b blocks in epoll_wait, the eventfd makes it return or the thread
\* that set the token is still going to see io_blocked and notify.
WakeReachesEpoll ==
    \A b \in Callers :
        BlockedIn(b) /\ token[b] =>
            \/ eventfd
            \/ Writing
            \/ \E th \in Threads : \/ pc[th] = "wakecheck" /\ target[th] = b
                                   \/ pc[th] = "notifycas"

\* A timer is not lost on a thread that waits for I/O with a timeout computed
\* without it: insert_timer still makes the wait return.
TimerReachesEpoll ==
    \A th \in Reactors, b \in Callers :
        BlockedIn(th) /\ b \in Timers \ timerfd =>
            \/ eventfd
            \/ Writing
            \/ \E c \in Callers : pc[c] = "notifycas"

\* A future whose event has happened is polled again, whichever thread happens
\* to hold the reactor lock, be it a caller, the background thread or nobody.
EventServed == \A b \in Callers : b \in ready ~> b \notin ready

\* A woken future is polled again: nobody sleeps on a token, neither in the
\* parker nor in epoll_wait.
WakeServed ==
    \A b \in Callers :
        token[b] /\ pc[b] # "done" ~> pc[b] \in {"poll", "done"}
=============================================================================
