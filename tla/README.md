# Verification of awak

`awak` is a small async runtime for Rust: a multi-threaded executor, a reactor
over epoll, `block_on`, timers, sockets and a few utilities. Its `unsafe` and
its lock-free parts are few, its protocols between threads are many, and the
repository has no tests. This project models those protocols in TLA+, checks
them with TLC on small instances and proves what it can with TLAPS.

## The system

| Part | State | Operations | Meets |
|---|---|---|---|
| `parking.rs` Parker/Unparker | `state` (EMPTY, PARKED, NOTIFIED), a mutex, a condition variable | `park`, `park_timeout`, `unpark` | one owner, any number of unparkers |
| `executor.rs` `Local<T>` | `head`, `tail`, ring buffer of 512 | `push` (owner), `pop` (everybody), `len`, `steal` | the owner against thieves |
| `executor.rs` Executor, Ticker | global queue, run queue per thread, `notified` flag, `Sleepers` | `spawn` and its `schedule`, `notify`, `search`, `sleep`, `wake`, `tick`, `run` | worker threads, wakers on any thread, `catch_unwind` in `lib.rs` |
| `blocking.rs` `block_on` | a parker, `io_blocked`, thread-local `IO_POLLING` | poll, look at the token, take the reactor lock, react, give up, park | the reactor, its background thread, wakers |
| `io/reactor.rs` waiting | `lock`, `ticker`, `block_on_count`, `timers`, `timer_ops` | `react`, `process_timers`, `insert_timer`, `remove_timer`, the background thread | `block_on`, the poller |
| `io/reactor.rs` sources | slab of sources, per direction `wakers`, `tick`, `ticks` | `insert_io`, `remove_io`, `poll_ready`, the event loop of `react` | tasks, epoll |
| `io/poller` | `notified`, eventfd, timerfd, one-shot interest of epoll or kqueue | `insert`, `interest`, `remove`, `wait`, `notify` | the kernel |
| `queue.rs` | a `VecDeque` under a lock with a separate length | `push`, `pop`, `len` | global queue, `timer_ops` |
| `io/mod.rs` Async, Timer | a source and a handle; a deadline, a key and a waker | `read_with` and friends, `poll_timeout`, `reset`, drop | sources, timers |
| `time`, `idle_timeout.rs` | Delay, Interval, Timeout, IdleTimeout: a Timer, a period, an inner future, `last_visited` | `poll`, `reset`, drop | Timer |
| `copy_buffer.rs`, `copy_bidirectional.rs` | per direction a `TransferState`, a buffer with `pos`, `cap`, `read_done`, `need_flush`, `amt` | `poll` | two streams |
| `net` | sockets | wrappers around Async | Async |

What is hard about it, and what correctness means:

- *Parking.* A notification may arrive at any point of `park`. It must not be
  lost between the write of PARKED and the wait, and must be consumed once.
- *Run queue.* `pop` reads a slot before it has claimed it. A claimed slot must
  be the pushed one although the owner recycles slots and positions wrap.
- *Executor.* A Runnable moves between queues and hands, and must neither be
  lost nor duplicated. A worker must not sleep while it has work, and the
  bookkeeping of sleepers decides whether anybody is ever woken.
- *block_on and reactor.* Exactly one thread waits in epoll for all of them. A
  wake, a timer or an event that appears while that thread is about to wait
  must reach it, and the role has to be handed over without leaving a gap.
- *Sources.* Interest is one-shot and one registration serves two directions,
  several tasks and, over time, several sources. Whoever waits must be armed.
- *Timers.* A timer's entry is known by deadline and id, and inserted and removed
  through a bounded queue that several threads fill and empty. Resets, changed
  wakers and drops must leave exactly the current entry behind.
- *Copy.* Two directions share one task. Short reads and writes, flushes over
  several polls and half-closed streams must not lose, repeat or reorder a
  byte, and the task must leave its waker wherever progress can come from.

`PROJECT.json` lists the hazards line by line with the properties that cover
them.

## Modules

| Module | Models | Notes |
|---|---|---|
| `ParkToken` | abstract: what a parker promises | a single token |
| `Parking` | `Inner::park`, `Inner::unpark` | one action per atomic operation; refines `ParkToken` |
| `ParkingProofs` | theorems about `Parking` | and its refinement of `ParkToken` |
| `BoundedFifo` | abstract: what a run queue promises | a sequence with a capacity |
| `LocalQueue` | `Local<T>` | one action per access to `head`, `tail` or a slot; refines `BoundedFifo` |
| `LocalQueueProofs` | theorems about `LocalQueue` | and its refinement of `BoundedFifo` |
| `Executor` | the executor and its workers | run queues as `BoundedFifo`, parkers as `ParkToken` |
| `ExecutorProofs`, `RunnableProofs` | theorems about `Executor` | the second, about where Runnables are, builds on the invariant of the first |
| `BlockOn` | `block_on`, the waiting side of the reactor, Poller | parkers as `ParkToken` |
| `BlockOnProofs` | theorems about `BlockOn` | |
| `Sources` | readiness of I/O sources, over epoll and over kqueue | one reacting thread, as `BlockOn` has it |
| `SourcesProofs` | theorems about `Sources` | |
| `Timers` | `Timer`, `timer_ops` and the map of timers; Delay, Interval, Timeout, IdleTimeout; `Queue` | one thread that calls `react` again and again, as `BlockOn` shows; one that has timers of its own |
| `TimersProofs` | theorems about `Timers` | |
| `Pipe` | abstract: what `copy_bidirectional` promises | two pipes and a result |
| `Copy` | `CopyBuffer`, `CopyBidirectional` over two streams | refines `Pipe`; readiness of a stream as `Sources` has it |
| `CopyProofs` | theorems about `Copy` | and its refinement of `Pipe` |
| `MC...` | TLC instances | sets of model values and symmetry |

A module names its variables after the fields of the code. `pc` variables say
where a thread is inside a function; the comment above an action names the
statement. Operators that begin with "Mutant:" in their comment are variants of
an action with a plausible bug. They are not used by any specification, and are
there to show that each property can fail.

**Parking.** `pc` is the owner's position in `park`, `upc[u]` an unparker's in
`unpark`. The condition variable is the pair of points "asleep" (in the wait
set, mutex released) and "woken" (has to take the mutex again); spurious
wake-ups are an action without fairness. `drop(self.lock.lock())` is one step,
enabled when the mutex is free. The panics of `park` are the point "panicked".

**LocalQueue.** Items are the numbers 1, 2, ... in the order they are pushed. A
slot is `Torn` before it is first written and while it is being written, which
stands for whatever a racing read may return. `Modulus` is the range of
`usize`, `Origin` the start of the positions. The specification assumes that
`head` does not go all the way round while one thread is inside one `pop`
(`NoWholeTurn`: fewer pushes than `Modulus`); with 64-bit positions that is
centuries of pushes. `steal` is a reservation followed by pushes.

**Executor.** A task goes through "new", "idle", "queued", "running", "rewoken"
and "done": this is `async_task`, modelled from its use. `pc[w]` runs through
`search`, `sleep` or `wake`, `notify`, the periodic steal, the task, and the
loop of `run`. A worker's `block_on` is `pending` (waiting, in the parker or in
epoll) and `react` (about to poll its ticker again). A waker taken off the list
of sleepers carries the `block_on` call it belongs to (`run[w]`), because a
panic ends the call and the next one has a new parker. `Ticker::wake` clears
`sleeping`, which only its own thread reads, together with taking the lock.
A sleeper's id is its worker: ids are fresh, and the id of a ticker that wakes
leaves the list with it.

**BlockOn.** A future waits for an I/O event, a timer or a wake from outside;
each poll may end it or make it wait for something new. `reg` says whether the
waker is in `timer_ops`, registered, or held by `react`. Only the holder of the
reactor lock is inside `react`, so the locals of `react` are plain variables.
Time is abstract: `Happen` makes a deadline pass, `react` may find the next
timer due at once, and the 500 microseconds after which a thread gives up the
reactor are a choice. Atomics are sequentially consistent. For `io_blocked`,
which the code accesses with Release and Acquire only, this is an assumption;
the accesses to the parker before and after it are read-modify-write operations
with SeqCst. `timer_ops` is unbounded here and `remove_timer` takes effect at
once: what travels through the queue is the subject of `Timers`, how its
notification reaches the thread in epoll is the subject of `BlockOn`.

**Sources.** A source stands for one `Async`, opened and dropped once. Its
descriptor is armed for a set of directions, or for errors alone, and epoll
disarms what it reports. `poll_ready` is one action, since it runs under the
mutex of the source; its load of the reactor's ticker and its `epoll_ctl` may in
fact be separated by another thread's bump of the ticker, but not by a delivery
to this source. The history variable `seen` records that epoll has reported the
source since a task began to wait. `poller` chooses between the two pollers: with
epoll a registration covers both directions and errors and is disarmed as a
whole, with kqueue each direction is a one-shot filter of its own, an event
carries one direction, or both at the end of a stream, and a descriptor is
unknown until somebody is interested in it. Adding a descriptor may fail, and
`Cancel` is the drop of a waiting future, which leaves its waker behind as the
code does.

**Timers.** An owner is one future with one `Timer`; its kind decides what a
poll does around it. What a call sends to the reactor, an operation for
`timer_ops` or a notification, is kept in `todo[x]` and carried out one by one, so
that `react` and `Other`, a thread with timers of its own, come between any two
of them. A push that finds the queue full (`full`) takes the mutex of the map,
empties at most `OpsCap` operations into it and tries again. An entry whose
deadline is `now` is left in the map by `split_off` and makes the next timeout
zero, as in the code. `IdleTimeout` reads the clock a second time after its
`Delay` has returned; the step between the two is the operation "check". Its
`new` also reads the clock twice, for the deadline in `delay_for` and for
`last_visited`: `Create` and `Open` are the two readings, and the history variable
`lag` is the time between them until the deadline is renewed. Ids are small unused
numbers instead of an ever growing counter.

**Copy.** `inbox[d]` is what the reader of a direction can deliver, `kept[d]` what a
buffering writer holds back, `sock[d]` what is on its way to the peer. Each call
of `poll_read`, `poll_write`, `poll_flush` or `poll_close` is one step, and its
answer may be any the stream could give: fewer bytes than asked for, Pending, an
error. `reg` says which sides of the streams hold the task's waker. The writer
of "ab" buffers, loses what it keeps when it is closed, takes several polls to
flush, and answers Pending to a close while the connection is full; that of "ba"
is a socket, whose flush does nothing and whose close is immediate, as with all
streams of this repository. Peer B echoes, and
peer A may end at once or wait for its echo, which is the case the comment in
`poll_copy` about the reader that depends on a buffered writer speaks of.

## Runs

Passing:

| Run | Bounds | Checks |
|---|---|---|
| `parking` | 3 unparkers | `NoPanic`, `NoLostWakeup`, `ImplementsToken` (with fairness) |
| `local_queue` | 2 thieves, 2 slots, positions modulo 8 from 6, 4 pushes | `PopsInOrder`, `StealLosesNothing`, `ImplementsFifo` |
| `executor_safety` | 2 workers, 1 outsider, 2 tasks, run queues of 1, 1 panic per worker | `RunnableOnce`, `SleepersConsistent`, `FlagNeverWedged`, `NotifiedTickerWakes`, `LocalNotStranded` |
| `executor_live` | 1 worker, 1 outsider, 3 tasks | `FairScheduling` |
| `block_on_shared` | 2 callers, one with I/O and one with timers | `NotifiedFlagBacked`, `TimerReachesEpoll`, `EventServed` |
| `block_on_live` | 1 caller, every kind of future, 1 waking thread | `WakeReachesEpoll`, `WakeServed` |
| `sources` | epoll and kqueue, 2 sources that share 1 key, 2 tasks, 1 call of `react`, errors | `WaitersArmed` |
| `timers` | 1 owner of any kind, 2 wakers, another thread, a queue of 1, clock to 3 | `WaitersEntered`, `NothingLeaks`, `IdleNotEarly`, `DeadlineServed` |
| `copy` | 5 bytes, a buffer of 3, a writer that keeps 2, connections of 1 | `WaitsEverywhere`, `Completes`, `ImplementsPipe` |

Each module's `TypeOK` is an invariant of one of its runs.

Violated, each with a finding in `PROJECT.json`:

- `executor_global`, `GlobalNotStranded`. A task spawned from outside between a
  worker's search and its `sleep` is announced to nobody: there is no sleeper
  yet, `tick` does not search again after it has registered, and all workers
  wait while the task sits in the global queue. Some later notification or
  spawn rescues it.
- `executor_panic`, `PanicStrandsNothing`. A thread's run queue is created once
  and keeps the waker of the `block_on` that created it. After a panic the
  thread is in another `block_on`, and tasks that the reactor schedules onto
  the run queue wake the old one.
- `sources_stale`, `ReadyMeansEvent`. `react` stores `tick + 1`. An event
  reported for a source that has since been dropped is handed to the source
  that took over its key, and counts as an event for a task that began to wait
  after the report. With `tick` stored, as the comments describe, the property
  holds. Loops that retry on WouldBlock absorb it; `TcpStream::connect_addr`
  does not loop.

An observation without a run of its own: a descriptor is added to epoll with
key 0 before it has a key, so an error on it before anybody waits for it is
reported to the owner of key 0. `sources` includes this; it wakes the wrong
task, and no waiter is left unarmed by it.

Bounds. Two threads of each kind and one more show every pairwise race and the
one in which a third overtakes. A run queue of 1 overflows at once, and a period
and a batch of 2 make the periodic steal and the yield happen in every long
behaviour. Positions start two before the wrap, so every behaviour with three
pushes crosses it, and 4 pushes recycle both slots of the buffer. A `SleepLimit`
of 1 reaches the blocking lock of the background thread. One slab key for two
sources makes the second reuse the key of the first, and two tasks share a
direction of a source or wait for different ones. Within one call of `react` a
source can be waited for, reported, dropped, replaced and waited for again. A
wait that spans two calls needs `MaxTick` 2, which is feasible with one source; `WaitersArmed` holds there too.
In `timers` a queue of 1 is full after every push; one move, a reset, a change
of the waker or an operation of `Other`, may come at any point; the clock runs
past a whole period. An idle time of 2 with a check interval of 1
and a clock to 3 has polls that renew it, polls that do not, timeouts before and
after a renewal, and time that passes within `new`: without `lag` the bound is
broken by an `IdleTimeout` whose `last_visited` is later than its deadline less
the idle time. (With an interval of zero every poll renews it; `IdleNotEarly`
says what holds then too.) One owner is enough for what
concerns its own entries, since entries of different owners share only the
queue, the mutex and the bound on a round, which `Other` competes for. In `copy`
5 bytes fill the buffer of 3 twice with a shorter second read, exceed what the
writer keeps, and make every write short. `MaxPushes`, `MaxLength`, `MaxPanics`,
`MaxNow` and `MaxMoves` only bound the state space.

Deadlock is checked except for `Executor`, `Sources`, `Timers` and `Copy`, where
the system may really stop: all tasks done and all workers asleep, all sources
dropped and the last `react` over, the clock at its bound with nothing to wait
for, the copy over.

Fairness. A thread that can run does run: weak fairness of the steps of each
thread, and of the end of a poll. Nothing obliges a task to be woken, a future
to be created or an event to happen, and spurious wake-ups and interrupted
system calls are never relied on. Mutexes are not assumed to be fair. Therefore
`executor_live` has one worker (with two, one of them may lose every race for
the sleepers' mutex to the other, which weak fairness allows), and in `timers`
the operations of `Other` are bounded: a thread that refills the queue for ever
can keep another from ever inserting, which no code excludes. In `timers` the
reacting thread calls `react` again and again, which `EventServed` and
`WakeServed` of `BlockOn` are about, a woken future is polled, and the clock may
stop at any time. In `copy` a woken task is polled and runs, and the peers do
what they have to do: send their bytes, send back what they receive, and end
when everything is back. They may end earlier, and no call has to fail.

## Proofs

Every safety invariant that a passing run checks, the action property
`IdleNotEarly` and the three refinements are theorems, for every value of the
constants that satisfies the assumptions. Each module follows one pattern: an
inductive invariant `IInv`, a conjunction of named parts; a lemma per action that
the action preserves it; `...Invariant == Spec => []IInv`; and the properties as
its consequences. None of the properties is inductive as it stands. What each
`IInv` adds is the argument why the code is right:

**Parking** (`ParkingInvariant`, `ParkingTypeCorrect`, `ParkNeverPanics`,
`UnparkNeverLost`, `ParkingImplementsToken`). The owner holds the mutex exactly
between the second check of `state` and the wait (`LockInv`); `state` is PARKED
only while the owner has announced itself and not EMPTY from there on
(`AnnouncedInv`); the unparker of a notification which came before the wait has
not passed the mutex yet (`BeforeWaitInv`). The last is the argument of the
comment in `unpark`.

**LocalQueue** (`LocalQueueTypeCorrect`, `LocalQueuePopsInOrder`,
`LocalQueueStealLosesNothing`, `LocalQueueImplementsFifo`). `head` and `tail` are
the numbers of popped and pushed items plus `Origin`, modulo the word size, and
at most `Capacity` apart (`RingInv`); items in between are complete in their
slots (`SlotsInv`). A thread inside `pop` holds a position that `head` has had,
and if `head` is still there it reads, or has read, the item of that position
(`PopInv`): this is why the compare-and-swap is enough, and it needs
`NoWholeTurn`. While the owner writes a slot, the slot is free (`PushInv`), and
the room a steal reserved remains (`StealInv`). Lemmas about remainders show
that positions less than a capacity apart are in different slots, across the
wrap; that is where the capacity has to divide the word size.

**Executor** (`ExecutorTypeCorrect`, `SleepersAlwaysConsistent`,
`FlagIsNeverWedged`, `NotifiedTickersWake`, `LocalTasksNotStranded`). `CoreInv` has
the types, where a thread returns to after `notify` and `steal` and what a ticker
holds there. `SleepInv` joins `SleepersConsistent` and `FlagNeverWedged`, which
need each other, to what holds inside the two critical sections the model splits
(`SlockInv`) and to `WakeInv`: a ticker that left the list of wakers without
waking has its token or a thread that is about to set it, also while it is
itself inside `State::notify`. `LocalInv` adds that a worker which looks
elsewhere or falls asleep has found its own queue empty, and only it fills it.

**Runnables** (`RunnablesExactlyOnce`, in `RunnableProofs`). `OnceInv` says it without
counting: no queue holds a task twice, no two of the slots (the global queue, a
run queue, a hand) hold the same task, and a task is in a slot exactly while
`async_task` counts it as scheduled. One lemma about moving a task from its slot
to another serves all actions.

**BlockOn** (`BlockOnTypeCorrect`, `NotifiedFlagAlwaysBacked`,
`WakeAlwaysReachesEpoll`, `TimerAlwaysReachesEpoll`). One thread at a time is
where the reactor lock is held (`LockInv`); a caller inside `react` that may block
has announced itself in `io_blocked` before it looked at its token (`ReactInv`);
`WakeInv` is `WakeReachesEpoll` from that look on, before the thread is in epoll.

**Sources** (`SourcesTypeCorrect`, `WaitersAlwaysArmed`). Every key belongs to one
open source or to the free list (`SlabInv`); whoever is on a list of wakers is on
that of an open source whose key the poller knows, and the poller is armed for
the direction or has reported the source (`ArmedInv`); a sleeping task is on its
list or with `react` (`TaskInv`). Wakers left behind by cancelled waits are
covered, which is why `ArmedInv` speaks of the lists and not of the tasks. That no
remembered tick is ahead of the reactor (`TickInv`) is proved on top of these.

**Timers** (`TimersTypeCorrect`, `WaitersAlwaysEntered`, `TimersNothingLeaks`,
`IdleNeverEarly`). A Timer has a key exactly when it has a waker, and keys are
distinct (`KeyInv`). What a call has still to insert is the Timer's current entry
under an id nobody else has heard of, and comes last (`TodoInv`); the id of an
insertion in the queue occurs neither before it nor in the map (`QueueInv`), so
operations of different calls can be applied in any order the queue produces.
Every entry is current or its removal is on its way (`LeakInv`). A Timer that is
not yet due is entered, and one that is waited for is entered, taken out or
woken (`WaitInv`). The deadline of an IdleTimeout is `last_visited` plus the idle
time, less the time `new` took until the first renewal, and `last_visited` is behind
the last poll by less than the check interval, or the check is still to come
(`IdleInv`). All calls of an owner are
instances of one shape (`Call`), for which the parts are proved once.

**Copy** (`CopyTypeCorrect`, `CopyWaitsEverywhere`, `CopyImplementsPipe`). What lies
between `pos` and `cap` are bytes of the reader (`BufInv`), `Close` and `Done` are
reached with an empty buffer only (`StateInv`), every byte is in one place and
`amt` counts those the writer has taken (`CountInv`), the peers' echo agrees with
that (`EchoInv`), and a direction the poll has left waits somewhere unless the
task has been woken since (`PollInv`). For the refinement each step is shown to be
a step of `Pipe` on the bytes in the buffer and the writer, or to change nothing.

Assumptions. Those of the modules, all evaluated by TLC in the runs: capacities,
periods and batch sizes are positive, bounds are naturals, `None` and the names of
threads are distinct from each other, the capacity of a run queue divides the
word size (512 and a power of two), fewer pushes than a whole turn, and finitely
many workers, callers and owners of timers. The bounds (`MaxPushes`, `MaxPanics`,
`MaxNow`, `MaxMoves`, `MaxTick`, `MaxBytes`) are arbitrary.

Only model-checked:

- `WakeServed`, `EventServed`, `FairScheduling`, `DeadlineServed`, `Completes` and the
  liveness of `ParkToken`: properties under fairness, which need ENABLED.
- That the transition systems can do something at all, which the coverage of the
  runs shows: a safety proof does not.
- The violated properties `GlobalNotStranded`, `PanicStrandsNothing` and
  `ReadyMeansEvent`, which no proof can state.

## Not modelled

- Connecting, listeners and datagram sockets: one system call each inside
  `read_with` or `write_with`, whose waiting is `Sources`. `connect_addr` waits
  once for writability without a retry, so it rests on `WaitersArmed`, and the
  event of another source that `sources_stale` shows would end it early.
- kqueue's pair of streams: written and drained where epoll's eventfd is, so
  `BlockOn` stands for both; kevent's timeout replaces the timerfd.
- `Async::into_inner`: it removes the source and its drop removes it again. It
  is public, but nothing in the crate calls it and `Async::new` is not public.
- `waker_fn`: reference counts of a closure.
- Weak memory: see BlockOn above; `LocalQueue` takes acquire and release
  accesses as atomic steps and makes a racing slot read return `Torn`.
- Poisoned mutexes: a waker that panics inside `react` would poison the reactor
  lock, after which `try_lock` always fails and the background thread panics.
  The wakers of this runtime do not panic; those of another are outside the
  model.
- A failing `EPOLL_CTL_MOD`, which makes `react` return without calling the
  wakers it has collected: for a registered descriptor it fails for want of
  memory only. Other failing system calls of the reactor, and the drop of the
  static reactor.

## Plan

All planned components are modelled, checked and proved about. What could follow:

1. Consequences of the abstract specifications, stated where they are defined:
   that a `Pipe` delivers a prefix of its input, that a `BoundedFifo` pops each item
   once. The refinements carry them over.
2. The composition of `Executor` with the block_on of `BlockOn` instead of a token,
   so that the waking of a worker that waits in epoll is part of
   `NotifiedTickerWakes`.
3. Action properties whose invariant is already proved: that `react` takes out of
   the map only what is due, that a key of the slab is reused only after its
   source has been removed.
