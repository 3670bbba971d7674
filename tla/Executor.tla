------------------------------ MODULE Executor ------------------------------
(***************************************************************************)
(* The multi-threaded executor of src/src/executor.rs, as src/src/lib.rs   *)
(* runs it: every worker thread loops over block_on(ticker.run()).  Tasks  *)
(* are scheduled by the workers, onto their own run queue, and by every    *)
(* other thread, onto the global queue.  A worker that finds nothing puts  *)
(* its waker on the list of sleepers and lets block_on wait.               *)
(*                                                                         *)
(* A run queue is the sequence of module BoundedFifo and a worker's parker *)
(* the token of module ParkToken.  A sleeper's id is its worker: a ticker  *)
(* has at most one id, and wake() takes the id off the list for good.  An  *)
(* action is one access to shared state: one operation on a queue, on the  *)
(* notified flag, on a parker, or the part of a sleepers critical section  *)
(* up to its access to the notified flag.                                  *)
(***************************************************************************)
EXTENDS Naturals, Sequences, FiniteSets, SequencesExt

CONSTANTS Workers,      \* the threads that run a ticker
          Outsiders,    \* other threads that spawn and wake tasks
          Tasks,
          LocalCap,     \* capacity of a run queue (512)
          StealPeriod,  \* ticks between two fair steals (64)
          BatchSize,    \* tasks a ticker runs between two yields (200)
          MaxPanics,    \* bound: panics of tasks on one worker
          None          \* no task, no worker

ASSUME BoundsAssumption ==
    /\ LocalCap \in Nat \ {0}
    /\ StealPeriod \in Nat \ {0}
    /\ BatchSize \in Nat \ {0}
    /\ MaxPanics \in Nat
    /\ IsFiniteSet(Workers)

Threads == Workers \cup Outsiders

ASSUME NamesAssumption ==
    /\ Workers \cap Outsiders = {}
    /\ None \notin Workers \cup Tasks
    /\ "global" \notin Workers

VARIABLES queue,     \* State.queue
          notified,  \* State.notified
          local,     \* local[w]: the run queue of w
          slock,     \* holder of the sleepers mutex, or None
          count,     \* Sleepers.count
          wakers,    \* Sleepers.wakers
          sleeping,  \* sleeping[w]: Ticker.sleeping is not 0
          pc,        \* pc[th]: where thread th is
          ret,       \* ret[th]: where th goes on after State::notify or steal
          target,    \* target[th]: the waker th took off the list: worker, run
          hand,      \* hand[w]: the Runnable the ticker of w holds
          source,    \* source[w]: the queue w steals from, or None
          left,      \* left[w]: tasks w may still steal
          shards,    \* shards[w]: run queues w has not tried yet
          ticks,     \* ticks[w]: Ticker.ticks modulo StealPeriod
          batch,     \* batch[w]: tasks run since the last yield
          token,     \* token[w]: the parker of w's block_on is notified
          run,       \* run[w]: which block_on call w is in
          task       \* task[t]: the state async_task keeps

schedVars == <<queue, local, token>>
sleepVars == <<slock, count, wakers, sleeping>>
tickVars  == <<hand, source, left, shards, ticks, batch, run>>
vars == <<queue, notified, local, slock, count, wakers, sleeping, pc, ret,
          target, hand, source, left, shards, ticks, batch, token, run, task>>

TaskStates == {"new",      \* not spawned yet
               "idle",     \* polled before, waiting to be woken
               "queued",   \* a Runnable exists
               "running",
               "rewoken",  \* running, and woken meanwhile
               "done"}

Init ==
    /\ queue = <<>>
    /\ notified = FALSE
    /\ local = [w \in Workers |-> <<>>]
    /\ slock = None
    /\ count = 0
    /\ wakers = <<>>
    /\ sleeping = [w \in Workers |-> FALSE]
    /\ pc = [th \in Threads |-> IF th \in Workers THEN "search" ELSE "out"]
    /\ ret = [th \in Threads |-> "out"]
    /\ target = [th \in Threads |-> <<None, 0>>]
    /\ hand = [w \in Workers |-> None]
    /\ source = [w \in Workers |-> None]
    /\ left = [w \in Workers |-> 0]
    /\ shards = [w \in Workers |-> {}]
    /\ ticks = [w \in Workers |-> 0]
    /\ batch = [w \in Workers |-> 0]
    /\ token = [w \in Workers |-> FALSE]
    /\ run = [w \in Workers |-> 0]
    /\ task = [t \in Tasks |-> "new"]

Goto(th, point) == pc' = [pc EXCEPT ![th] = point]

----------------------------------------------------------------------------
(* State::notify *)

NotifyFlag(th) ==
    /\ pc[th] = "notify"
    /\ \/ /\ ~notified
          /\ notified' = TRUE
          /\ Goto(th, "notifypop")
       \/ /\ notified
          /\ Goto(th, ret[th])
          /\ UNCHANGED notified
    /\ UNCHANGED <<schedVars, sleepVars, tickVars, ret, target, task>>

\* Sleepers::notify
NotifyPop(th) ==
    /\ pc[th] = "notifypop"
    /\ slock = None
    /\ \/ /\ Len(wakers) = count
          /\ wakers # <<>>
          /\ target' = [target EXCEPT ![th] = <<Last(wakers), run[Last(wakers)]>>]
          /\ wakers' = Front(wakers)
          /\ Goto(th, "notifywake")
       \/ /\ Len(wakers) # count \/ wakers = <<>>
          /\ Goto(th, ret[th])
          /\ UNCHANGED <<target, wakers>>
    /\ UNCHANGED <<schedVars, tickVars, slock, count, sleeping, notified, ret,
                   task>>

\* waker.wake(): the parker of a block_on call that is over is nobody's.
NotifyWake(th) ==
    LET w == target[th][1]
    IN  /\ pc[th] = "notifywake"
        /\ token' = IF run[w] = target[th][2]
                    THEN [token EXCEPT ![w] = TRUE] ELSE token
        /\ target' = [target EXCEPT ![th] = <<None, 0>>]
        /\ Goto(th, ret[th])
        /\ UNCHANGED <<queue, local, sleepVars, tickVars, notified, ret, task>>

NotifyStep(th) == NotifyFlag(th) \/ NotifyPop(th) \/ NotifyWake(th)

----------------------------------------------------------------------------
(* The schedule closure of Executor::spawn *)

\* On a thread without a run queue.
ScheduleGlobal(th, t, next) ==
    /\ queue' = Append(queue, t)
    /\ ret' = [ret EXCEPT ![th] = next]
    /\ Goto(th, "notify")
    /\ UNCHANGED <<local, token>>

\* Mutant: local_queue.waker is not woken.
WakeNobody(w) == UNCHANGED token

\* local_queue.waker: the run queue keeps the waker of the block_on call in which
\* Ticker::run first ran on this thread.
WakeLocal(w) == token' = IF run[w] = 0 THEN [token EXCEPT ![w] = TRUE] ELSE token

\* On a worker
ScheduleLocal(w, t, next) ==
    /\ local' = [local EXCEPT ![w] = Append(@, t)]
    /\ WakeLocal(w)
    /\ Goto(w, next)
    /\ UNCHANGED <<queue, ret>>

\* Mutant: the Runnable that ErrorFull hands back is dropped.
ScheduleDropsOverflow(w, t, next) ==
    \/ Len(local[w]) < LocalCap /\ ScheduleLocal(w, t, next)
    \/ Len(local[w]) >= LocalCap /\ Goto(w, next) /\ UNCHANGED <<schedVars, ret>>

Schedule(w, t, next) ==
    \/ Len(local[w]) < LocalCap /\ ScheduleLocal(w, t, next)
    \/ Len(local[w]) >= LocalCap /\ ScheduleGlobal(w, t, next)

\* async_task: spawning or waking an idle task makes a Runnable, waking a running one asks
\* its run() to make one when the poll is over.
OutsiderWake(th, t) ==
    /\ pc[th] = "out"
    /\ task[t] \in {"new", "idle"}
    /\ task' = [task EXCEPT ![t] = "queued"]
    /\ ScheduleGlobal(th, t, "out")
    /\ UNCHANGED <<sleepVars, tickVars, notified, target>>

Rewake(t) ==
    /\ task[t] = "running"
    /\ task' = [task EXCEPT ![t] = "rewoken"]
    /\ UNCHANGED <<schedVars, sleepVars, tickVars, notified, pc, ret, target>>

----------------------------------------------------------------------------
(* Ticker::search *)

Take(w, t) == hand' = [hand EXCEPT ![w] = t]

\* Local::steal: half of the source rounded up, no more than fits.
BeginSteal(w, from, length, next) ==
    LET half == (length + 1) \div 2
        room == LocalCap - Len(local[w])
    IN  /\ source' = [source EXCEPT ![w] = from]
        /\ left' = [left EXCEPT ![w] = IF half <= room THEN half ELSE room]
        /\ ret' = [ret EXCEPT ![w] = next]
        /\ Goto(w, "steal")

SearchLocal(w) ==
    /\ pc[w] = "search"
    /\ \/ /\ local[w] # <<>>
          /\ Take(w, Head(local[w]))
          /\ local' = [local EXCEPT ![w] = Tail(@)]
          /\ Goto(w, "wake")
       \/ /\ local[w] = <<>>
          /\ Goto(w, "global")
          /\ UNCHANGED <<local, hand>>
    /\ UNCHANGED <<queue, token, sleepVars, notified, ret, target, source, left,
                   shards, ticks, batch, run, task>>

SearchGlobal(w) ==
    /\ pc[w] = "global"
    /\ \/ /\ queue # <<>>
          /\ Take(w, Head(queue))
          /\ queue' = Tail(queue)
          /\ Goto(w, "stealglobal")
          /\ UNCHANGED shards
       \/ /\ queue = <<>>
          /\ Goto(w, "shards")
          /\ shards' = [shards EXCEPT ![w] = Workers \ {w}]
          /\ UNCHANGED <<queue, hand>>
    /\ UNCHANGED <<local, token, sleepVars, notified, ret, target, source, left,
                   ticks, batch, run, task>>

SearchStealGlobal(w) ==
    /\ pc[w] = "stealglobal"
    /\ BeginSteal(w, "global", Len(queue), "wake")
    /\ UNCHANGED <<schedVars, sleepVars, notified, target, hand, shards, ticks,
                   batch, run, task>>

\* The shards are visited from a random start.
SearchShard(w) ==
    /\ pc[w] = "shards"
    /\ \/ \E v \in shards[w] :
            /\ shards' = [shards EXCEPT ![w] = @ \ {v}]
            /\ BeginSteal(w, v, Len(local[v]), "shardpop")
       \/ /\ shards[w] = {}
          /\ Goto(w, "sleep")
          /\ UNCHANGED <<shards, source, left, ret>>
    /\ UNCHANGED <<schedVars, sleepVars, notified, target, hand, ticks, batch,
                   run, task>>

SearchShardPop(w) ==
    /\ pc[w] = "shardpop"
    /\ \/ /\ local[w] # <<>>
          /\ Take(w, Head(local[w]))
          /\ local' = [local EXCEPT ![w] = Tail(@)]
          /\ Goto(w, "wake")
       \/ /\ local[w] = <<>>
          /\ Goto(w, "shards")
          /\ UNCHANGED <<local, hand>>
    /\ UNCHANGED <<queue, token, sleepVars, notified, ret, target, source, left,
                   shards, ticks, batch, run, task>>

\* One round of the loop in Local::steal: pop the source, push the own queue
\* (a push that fails would lose the task).
StealOne(w) ==
    LET from == IF source[w] = "global" THEN queue ELSE local[source[w]]
        rest == IF source[w] = "global" THEN local
                ELSE [local EXCEPT ![source[w]] = Tail(@)]
    IN  /\ pc[w] = "steal"
        /\ left[w] > 0
        /\ from # <<>>
        /\ queue' = IF source[w] = "global" THEN Tail(queue) ELSE queue
        /\ local' = IF Len(local[w]) < LocalCap
                    THEN [rest EXCEPT ![w] = Append(@, Head(from))] ELSE rest
        /\ left' = [left EXCEPT ![w] = @ - 1]
        /\ UNCHANGED <<token, sleepVars, notified, pc, ret, target, hand, source,
                       shards, ticks, batch, run, task>>

StealEnd(w) ==
    /\ pc[w] = "steal"
    /\ \/ left[w] = 0
       \/ source[w] = "global" /\ queue = <<>>
       \/ source[w] \in Workers /\ local[source[w]] = <<>>
    /\ left' = [left EXCEPT ![w] = 0]
    /\ source' = [source EXCEPT ![w] = None]
    /\ Goto(w, ret[w])
    /\ UNCHANGED <<schedVars, sleepVars, notified, ret, target, hand, shards,
                   ticks, batch, run, task>>

SearchStep(w) ==
    \/ SearchLocal(w)
    \/ SearchGlobal(w)
    \/ SearchStealGlobal(w)
    \/ SearchShard(w)
    \/ SearchShardPop(w)
    \/ StealOne(w)
    \/ StealEnd(w)

----------------------------------------------------------------------------
(* Ticker::sleep and Ticker::wake *)

\* Sleepers::is_notified
IsNotified == count = 0 \/ count > Len(wakers)

\* Mutant: the notified flag is not recomputed.
KeepFlag == UNCHANGED notified

RefreshFlag == notified' = IsNotified

\* Mutant: a notified ticker is not listed again.
SleepersUpdateNothing(w) == UNCHANGED <<wakers, count>>

\* Mutant: the waker is left on the list.
SleepersRemoveCount(w) == count' = count - 1 /\ UNCHANGED wakers

\* Sleepers::insert, update (of a ticker that is not listed) and remove
SleepersInsert(w) == count' = count + 1 /\ wakers' = Append(wakers, w)
SleepersUpdate(w) == wakers' = Append(wakers, w) /\ UNCHANGED count
SleepersRemove(w) ==
    LET i == SelectLastInSeq(wakers, LAMBDA v : v = w)
    IN  /\ count' = count - 1
        /\ wakers' = IF i = 0 THEN wakers ELSE RemoveAt(wakers, i)

\* Insert a ticker that was awake, update one that was notified meanwhile; a
\* ticker that is still listed is left alone.
Sleep(w) ==
    /\ pc[w] = "sleep"
    /\ slock = None
    /\ \/ /\ ~sleeping[w]
          /\ sleeping' = [sleeping EXCEPT ![w] = TRUE]
          /\ SleepersInsert(w)
          /\ slock' = w
          /\ Goto(w, "sleepflag")
       \/ /\ sleeping[w]
          /\ ~Contains(wakers, w)
          /\ SleepersUpdate(w)
          /\ slock' = w
          /\ Goto(w, "sleepflag")
          /\ UNCHANGED sleeping
       \/ /\ sleeping[w]
          /\ Contains(wakers, w)
          /\ Goto(w, "pending")
          /\ UNCHANGED sleepVars
    /\ UNCHANGED <<schedVars, tickVars, notified, ret, target, task>>

SleepFlag(w) ==
    /\ pc[w] = "sleepflag"
    /\ RefreshFlag
    /\ slock' = None
    /\ Goto(w, "pending")
    /\ UNCHANGED <<schedVars, tickVars, count, wakers, sleeping, ret, target,
                   task>>

\* Mutant: wake() takes every ticker for a sleeping one.
AsleepAnyway(w) == TRUE

Asleep(w) == sleeping[w]

\* Sleepers::remove; a ticker that was awake goes straight on to notify().
Wake(w) ==
    /\ pc[w] = "wake"
    /\ \/ /\ Asleep(w)
          /\ slock = None
          /\ slock' = w
          /\ sleeping' = [sleeping EXCEPT ![w] = FALSE]
          /\ SleepersRemove(w)
          /\ Goto(w, "wakeflag")
          /\ UNCHANGED ret
       \/ /\ ~Asleep(w)
          /\ Goto(w, "notify")
          /\ ret' = [ret EXCEPT ![w] = "bump"]
          /\ UNCHANGED sleepVars
    /\ UNCHANGED <<schedVars, tickVars, notified, target, task>>

WakeFlag(w) ==
    /\ pc[w] = "wakeflag"
    /\ RefreshFlag
    /\ slock' = None
    /\ Goto(w, "notify")
    /\ ret' = [ret EXCEPT ![w] = "bump"]
    /\ UNCHANGED <<schedVars, tickVars, count, wakers, sleeping, target, task>>

\* Mutant: no periodic steal from the global queue.
StealNever(w) == FALSE

StealDue(w) == ticks[w] = 0

\* Bump the ticker; every StealPeriod ticks take a share of the global queue.
Bump(w) ==
    /\ pc[w] = "bump"
    /\ ticks' = [ticks EXCEPT ![w] = (@ + 1) % StealPeriod]
    /\ \/ /\ StealDue(w)
          /\ BeginSteal(w, "global", Len(queue), "start")
       \/ /\ ~StealDue(w)
          /\ Goto(w, "start")
          /\ UNCHANGED <<source, left, ret>>
    /\ UNCHANGED <<schedVars, sleepVars, notified, target, hand, shards, batch,
                   run, task>>

SleepStep(w) == Sleep(w) \/ SleepFlag(w) \/ Wake(w) \/ WakeFlag(w) \/ Bump(w)

----------------------------------------------------------------------------
(* Ticker::run and runnable.run() *)

Start(w) ==
    /\ pc[w] = "start"
    /\ task' = [task EXCEPT ![hand[w]] = "running"]
    /\ Goto(w, "run")
    /\ UNCHANGED <<schedVars, sleepVars, tickVars, notified, ret, target>>

\* The task spawns or wakes another one.
RunWakes(w, t) ==
    /\ pc[w] = "run"
    /\ task[t] \in {"new", "idle"}
    /\ task' = [task EXCEPT ![t] = "queued"]
    /\ Schedule(w, t, "run")
    /\ UNCHANGED <<sleepVars, tickVars, notified, target>>

\* The poll is over; a task woken meanwhile is scheduled again.
RunReturns(w) ==
    LET t == hand[w]
    IN  /\ pc[w] = "run"
        /\ hand' = [hand EXCEPT ![w] = None]
        /\ \/ /\ task' = [task EXCEPT ![t] = "done"]
              /\ Goto(w, "next")
              /\ UNCHANGED <<schedVars, ret>>
           \/ /\ task[t] = "running"
              /\ task' = [task EXCEPT ![t] = "idle"]
              /\ Goto(w, "next")
              /\ UNCHANGED <<schedVars, ret>>
           \/ /\ task[t] = "rewoken"
              /\ task' = [task EXCEPT ![t] = "queued"]
              /\ Schedule(w, t, "next")
        /\ UNCHANGED <<sleepVars, notified, target, source, left, shards, ticks,
                       batch, run>>

\* YieldNow::poll wakes its own block_on and is pending, once.
YieldNow(w) == token' = [token EXCEPT ![w] = TRUE] /\ Goto(w, "pending")

\* The loop of 200 ticks.
NextTick(w) ==
    /\ pc[w] = "next"
    /\ \/ /\ batch[w] + 1 < BatchSize
          /\ batch' = [batch EXCEPT ![w] = @ + 1]
          /\ Goto(w, "search")
          /\ UNCHANGED token
       \/ /\ batch[w] + 1 = BatchSize
          /\ batch' = [batch EXCEPT ![w] = 0]
          /\ YieldNow(w)
    /\ UNCHANGED <<queue, local, sleepVars, notified, ret, target, hand, source,
                   left, shards, ticks, run, task>>

\* lib.rs: catch_unwind, then a new ticker under a new block_on; the run queue
\* stays with the thread.
Panic(w) ==
    /\ pc[w] = "run"
    /\ run[w] < MaxPanics
    /\ task' = [task EXCEPT ![hand[w]] = "done"]
    /\ hand' = [hand EXCEPT ![w] = None]
    /\ run' = [run EXCEPT ![w] = @ + 1]
    /\ token' = [token EXCEPT ![w] = FALSE]
    /\ ticks' = [ticks EXCEPT ![w] = 0]
    /\ batch' = [batch EXCEPT ![w] = 0]
    /\ Goto(w, "search")
    /\ UNCHANGED <<queue, local, sleepVars, notified, ret, target, source, left,
                   shards>>

RunStep(w) == Start(w) \/ RunReturns(w) \/ NextTick(w)

----------------------------------------------------------------------------
(* block_on around a pending ticker *)

\* The token is consumed; the thread may process I/O events before it polls
\* the ticker again.
Unparked(w) ==
    /\ pc[w] = "pending"
    /\ token[w]
    /\ token' = [token EXCEPT ![w] = FALSE]
    /\ Goto(w, "react")
    /\ UNCHANGED <<queue, local, sleepVars, tickVars, notified, ret, target, task>>

Repoll(w) ==
    /\ pc[w] = "react"
    /\ Goto(w, "search")
    /\ UNCHANGED <<schedVars, sleepVars, tickVars, notified, ret, target, task>>

\* The thread polls the reactor and finds the event task t waits for.
ReactorWakes(w, t) ==
    /\ pc[w] \in {"pending", "react"}
    /\ task[t] = "idle"
    /\ task' = [task EXCEPT ![t] = "queued"]
    /\ Schedule(w, t, pc[w])
    /\ UNCHANGED <<sleepVars, tickVars, notified, target>>

----------------------------------------------------------------------------

WorkerStep(w) ==
    \/ NotifyStep(w)
    \/ SearchStep(w)
    \/ SleepStep(w)
    \/ RunStep(w)
    \/ Unparked(w)
    \/ Repoll(w)

Next ==
    \/ \E w \in Workers : WorkerStep(w) \/ Panic(w)
    \/ \E w \in Workers, t \in Tasks : RunWakes(w, t) \/ ReactorWakes(w, t)
    \/ \E th \in Outsiders : NotifyStep(th)
    \/ \E th \in Outsiders, t \in Tasks : OutsiderWake(th, t)
    \/ \E t \in Tasks : Rewake(t)

\* Threads run, and the poll of a task returns.
Fairness ==
    /\ \A w \in Workers : WF_vars(WorkerStep(w))
    /\ \A th \in Outsiders : WF_vars(NotifyStep(th))

Spec == Init /\ [][Next]_vars

FairSpec == Spec /\ Fairness

----------------------------------------------------------------------------
(* Properties *)

WorkerPoints == {"search", "global", "stealglobal", "shards", "shardpop",
                 "steal", "sleep", "sleepflag", "wake", "wakeflag", "bump",
                 "start", "run", "next", "pending", "react", "notify",
                 "notifypop", "notifywake"}

OutsiderPoints == {"out", "notify", "notifypop", "notifywake"}

\* Every variable keeps its type; Sleepers.count is a usize that Sleepers::remove
\* never takes below zero, and every task a ticker may steal fits.
TypeOK ==
    /\ queue \in Seq(Tasks)
    /\ notified \in BOOLEAN
    /\ local \in [Workers -> Seq(Tasks)]
    /\ slock \in Workers \cup {None}
    /\ count \in Nat
    /\ wakers \in Seq(Workers)
    /\ sleeping \in [Workers -> BOOLEAN]
    /\ \A w \in Workers : pc[w] \in WorkerPoints
    /\ \A th \in Outsiders : pc[th] \in OutsiderPoints
    /\ \A th \in Threads : ret[th] \in WorkerPoints \cup {"out"}
    /\ \A th \in Threads : target[th] \in (Workers \cup {None}) \X (0..MaxPanics)
    /\ hand \in [Workers -> Tasks \cup {None}]
    /\ source \in [Workers -> Workers \cup {"global", None}]
    /\ left \in [Workers -> 0..LocalCap]
    /\ shards \in [Workers -> SUBSET Workers]
    /\ ticks \in [Workers -> 0..(StealPeriod - 1)]
    /\ batch \in [Workers -> 0..(BatchSize - 1)]
    /\ token \in [Workers -> BOOLEAN]
    /\ run \in [Workers -> 0..MaxPanics]
    /\ task \in [Tasks -> TaskStates]

\* The places a Runnable can be in: a position of the global queue or of a run
\* queue, or the hand of a ticker.
Places(t) ==
    {<<"global", i>> : i \in {j \in DOMAIN queue : queue[j] = t}}
      \cup {p \in Workers \X (1..LocalCap) :
                p[2] <= Len(local[p[1]]) /\ local[p[1]][p[2]] = t}
      \cup {<<w, 0>> : w \in {v \in Workers : hand[v] = t}}

\* Stealing, overflow to the global queue and re-scheduling move a Runnable but
\* never lose or duplicate it: exactly the tasks that are scheduled or running
\* are in one place, and a running one is in a ticker's hand.
RunnableOnce ==
    \A t \in Tasks :
        /\ task[t] \in {"new", "idle", "done"} => Places(t) = {}
        /\ task[t] \in {"queued", "running", "rewoken"} => Cardinality(Places(t)) = 1
        /\ task[t] \in {"running", "rewoken"} => \E w \in Workers : hand[w] = t

Sleeping == {w \in Workers : sleeping[w]}

\* The documented meaning of Sleepers, outside the critical sections too: count
\* is the number of sleeping tickers, and wakers lists each unnotified one once.
SleepersConsistent ==
    /\ count = Cardinality(Sleeping)
    /\ IsInjective(wakers)
    /\ Range(wakers) \subseteq Sleeping

\* A thread that has set the notified flag and still has to take a waker.
Notifying == \E th \in Threads : pc[th] = "notifypop"

\* The notified flag cannot wedge at true: while a ticker sleeps unnotified and
\* none is notified, a set flag means that a notification is on its way.
\* Otherwise every later State::notify would be swallowed.
FlagNeverWedged ==
    notified /\ slock = None =>
        count = 0 \/ count > Len(wakers) \/ Notifying

\* A ticker that is asleep and missing from the list of wakers has really been
\* woken: its thread is unparked, is going to be, or is already polling.
NotifiedTickerWakes ==
    \A w \in Workers :
        sleeping[w] /\ ~Contains(wakers, w) /\ pc[w] = "pending" =>
            \/ token[w]
            \/ \E th \in Threads :
                  pc[th] = "notifywake" /\ target[th] = <<w, run[w]>>

\* Worker w waits in its block_on, unnotified, although it has tasks to run.
SleepsOnWork(w) == pc[w] = "pending" /\ local[w] # <<>> /\ ~token[w]

\* In the block_on that created its run queue a worker does not sleep on it:
\* what it schedules onto it, from a task or from the reactor, wakes it.
LocalNotStranded == \A w \in Workers : run[w] = 0 => ~SleepsOnWork(w)

\* The same for every block_on of the worker: catch_unwind in lib.rs keeps the
\* thread and its run queue in service after a task has panicked.
PanicStrandsNothing == \A w \in Workers : ~SleepsOnWork(w)

\* The workers all sleep for good and no notification is on its way.
AllAsleep ==
    /\ \A w \in Workers : pc[w] = "pending" /\ ~token[w]
    /\ \A th \in Outsiders : pc[th] = "out"

\* Ticker "Runs tasks in a multi-threaded executor": a task that was pushed to
\* the global queue and announced with State::notify finds a worker awake.
GlobalNotStranded == ~(AllAsleep /\ queue # <<>>)

\* The comments "Steal tasks from the global queue to ensure fair task
\* scheduling" and "Notify another ticker now": as long as some worker runs
\* tasks again and again, every scheduled task gets its turn.
FairScheduling ==
    []<>(\E w \in Workers : pc[w] = "run") =>
        \A t \in Tasks : task[t] = "queued" ~> task[t] # "queued"
=============================================================================
