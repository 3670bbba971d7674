--------------------------- MODULE BlockOnProofs ---------------------------
(***************************************************************************)
(* Proofs about block_on and the reactor it shares, for any number of      *)
(* callers and of threads that call wakers: one thread at a time is inside *)
(* react(), Poller.notified is never left behind, and neither a wake nor a *)
(* timer is lost on a thread that waits in epoll.                          *)
(***************************************************************************)
EXTENDS BlockOn, FiniteSetTheorems, TLAPS

----------------------------------------------------------------------------
(* The inductive invariant *)

PcInv == pc \in [Threads -> CallerPoints \cup ReactPoints \cup WakePoints \cup IoPoints]

\* Callers between add_block_on_count and sub_block_on_count.
Active == {b \in Callers : pc[b] \notin {"out", "exitunpark", "done"}}

CountInv == count = Cardinality(Active)

\* Where a thread holds the reactor lock.  Io calls wakers inside react(); a
\* caller that calls wakers there is IO_POLLING and does not notify.
LockedPoints == ReactPoints \cup {"polled", "loop", "check", "checkafter", "break",
                                  "again", "unlock", "giveup", "ioreacted"}

LockInv ==
    /\ \A th \in Reactors : pc[th] \in LockedPoints => lock = th
    /\ pc[Io] \in WakePoints => lock = Io

\* A caller in react() is IO_POLLING; unless it is only having a quick look, it
\* has announced itself in io_blocked before it looked at its token.
ReactInv ==
    /\ \A b \in Callers : pc[b] \in ReactPoints =>
          /\ b \in ioPolling
          /\ \/ back = "polled" /\ timeout = "zero"
             \/ back = "checkafter" /\ b \in ioBlocked
    /\ \A b \in Callers : pc[b] = "check" => b \in ioPolling /\ b \in ioBlocked
    /\ pc[Io] \in ReactPoints \cup WakePoints => back = "ioreacted"

\* WakeReachesEpoll from the moment the token has been looked at.
WakeInv ==
    \A b \in Callers :
        pc[b] \in {"react", "epoll"} /\ timeout # "zero" /\ token[b] =>
            \/ eventfd
            \/ Writing
            \/ \E th \in Threads : \/ pc[th] = "wakecheck" /\ target[th] = b
                                   \/ pc[th] = "notifycas"

IInv == /\ TypeOK /\ PcInv /\ CountInv /\ LockInv /\ ReactInv
        /\ NotifiedFlagBacked /\ WakeInv /\ TimerReachesEpoll

----------------------------------------------------------------------------
(* Every step preserves it *)

USE NamesAssumption, BoundsAssumption
    DEF Threads, Reactors, ReactPoints, WakePoints, CallerPoints, IoPoints,
        LockedPoints, Goto, flagVars, futVars, pollVars, ioVars, reactVars

\* A thread that moves outside react() and notify(), touching neither the poller
\* nor the timers, disturbs nobody who waits in epoll.
LEMMA QuietStep ==
    ASSUME IInv, NEW th \in Reactors, NEW q,
           pc' = [pc EXCEPT ![th] = q],
           pc[th] \notin ReactPoints \cup WakePoints,
           q \notin ReactPoints \cup WakePoints,
           \A b \in Callers : token'[b] => token[b],
           UNCHANGED <<target, notified, eventfd, timeout, timerfd, need, reg>>
    PROVE  NotifiedFlagBacked' /\ WakeInv' /\ TimerReachesEpoll'
<1> USE DEF IInv, TypeOK, PcInv
<1>1. NotifiedFlagBacked'
  BY DEF NotifiedFlagBacked, Writing
<1>2. WakeInv'
  BY DEF WakeInv, Writing
<1>3. TimerReachesEpoll'
  BY DEF TimerReachesEpoll, BlockedIn, Timers, Writing
<1>4. QED
  BY <1>1, <1>2, <1>3

\* A caller polls its future.  A timer it puts on the queue is followed by a
\* notify(), which is what TimerReachesEpoll rests on.
LEMMA CallerFutureInv ==
    ASSUME IInv, NEW b \in Callers,
           \/ PollReady(b) \/ (\E k \in Kinds[b] : PollWaits(b, k)) \/ PollPending(b)
           \/ InsertTimer(b) \/ Happen(b)
    PROVE  IInv'
<1>1. CASE PollReady(b)
  <2> USE <1>1 DEF PollReady, DropTimer
  <2>1. TypeOK' /\ PcInv'
    BY DEF IInv, TypeOK, PcInv, Needs, Regs
  <2>2. LockInv' /\ ReactInv'
    BY DEF IInv, TypeOK, PcInv, LockInv, ReactInv
  <2>3. CountInv'
    <3>1. Active' = Active /\ count' = count
      BY DEF IInv, TypeOK, PcInv, LockInv, ReactInv, Active
    <3>2. QED
      BY <3>1 DEF IInv, CountInv
  <2>4. NotifiedFlagBacked'
    BY DEF IInv, TypeOK, PcInv, NotifiedFlagBacked, Writing
  <2>5. WakeInv'
    BY DEF IInv, TypeOK, PcInv, LockInv, ReactInv, NotifiedFlagBacked, WakeInv, Writing
  <2>6. TimerReachesEpoll'
    BY DEF IInv, TypeOK, PcInv, LockInv, NotifiedFlagBacked, TimerReachesEpoll,
           BlockedIn, Timers, Writing
  <2>7. QED
    BY <2>1, <2>2, <2>3, <2>4, <2>5, <2>6 DEF IInv
<1>2. ASSUME NEW k \in Kinds[b], PollWaits(b, k)
      PROVE  IInv'
  <2> USE <1>2 DEF PollWaits, DropTimer
  <2>1. TypeOK' /\ PcInv'
    <3>1. k \in {"ext", "io", "timer"}
      BY KindsAssumption
    <3>2. QED
      BY <3>1 DEF IInv, TypeOK, PcInv, Needs, Regs
  <2>2. LockInv' /\ ReactInv'
    BY DEF IInv, TypeOK, PcInv, LockInv, ReactInv
  <2>3. CountInv'
    <3>1. Active' = Active /\ count' = count
      BY DEF IInv, TypeOK, PcInv, LockInv, ReactInv, Active
    <3>2. QED
      BY <3>1 DEF IInv, CountInv
  <2>4. NotifiedFlagBacked'
    BY DEF IInv, TypeOK, PcInv, NotifiedFlagBacked, Writing
  <2>5. WakeInv'
    BY DEF IInv, TypeOK, PcInv, LockInv, ReactInv, NotifiedFlagBacked, WakeInv, Writing
  <2>6. TimerReachesEpoll'
    BY DEF IInv, TypeOK, PcInv, LockInv, NotifiedFlagBacked, TimerReachesEpoll,
           BlockedIn, Timers, Writing
  <2>7. QED
    BY <2>1, <2>2, <2>3, <2>4, <2>5, <2>6 DEF IInv
<1>3. CASE PollPending(b)
  <2>1. TypeOK' /\ PcInv' /\ LockInv' /\ ReactInv'
    BY <1>3 DEF PollPending, IInv, TypeOK, PcInv, LockInv, ReactInv
  <2>2. Active' = Active /\ count' = count
    BY <1>3 DEF PollPending, IInv, PcInv, Active
  <2>3. QED
    BY <1>3, <2>1, <2>2, QuietStep DEF PollPending, IInv, CountInv, TypeOK
<1>4. CASE InsertTimer(b)
  <2> USE <1>4 DEF InsertTimer, PushThenNotify
  <2>1. TypeOK' /\ PcInv'
    BY DEF IInv, TypeOK, PcInv, Needs, Regs
  <2>2. LockInv' /\ ReactInv'
    BY DEF IInv, TypeOK, PcInv, LockInv, ReactInv
  <2>3. CountInv'
    <3>1. Active' = Active /\ count' = count
      BY DEF IInv, TypeOK, PcInv, LockInv, ReactInv, Active
    <3>2. QED
      BY <3>1 DEF IInv, CountInv
  <2>4. NotifiedFlagBacked'
    BY DEF IInv, TypeOK, PcInv, NotifiedFlagBacked, Writing
  <2>5. WakeInv'
    BY DEF IInv, TypeOK, PcInv, LockInv, ReactInv, NotifiedFlagBacked, WakeInv, Writing
  <2>6. TimerReachesEpoll'
    BY DEF IInv, TypeOK, PcInv, LockInv, NotifiedFlagBacked, TimerReachesEpoll,
           BlockedIn, Timers, Writing
  <2>7. QED
    BY <2>1, <2>2, <2>3, <2>4, <2>5, <2>6 DEF IInv
<1>5. CASE Happen(b)
  <2> USE <1>5 DEF Happen
  <2>1. TypeOK' /\ PcInv'
    BY DEF IInv, TypeOK, PcInv, Needs, Regs
  <2>2. LockInv' /\ ReactInv'
    BY DEF IInv, TypeOK, PcInv, LockInv, ReactInv
  <2>3. CountInv'
    <3>1. Active' = Active /\ count' = count
      BY DEF IInv, TypeOK, PcInv, LockInv, ReactInv, Active
    <3>2. QED
      BY <3>1 DEF IInv, CountInv
  <2>4. NotifiedFlagBacked'
    BY DEF IInv, TypeOK, PcInv, NotifiedFlagBacked, Writing
  <2>5. WakeInv'
    BY DEF IInv, TypeOK, PcInv, LockInv, ReactInv, NotifiedFlagBacked, WakeInv, Writing
  <2>6. TimerReachesEpoll'
    BY DEF IInv, TypeOK, PcInv, LockInv, NotifiedFlagBacked, TimerReachesEpoll,
           BlockedIn, Timers, Writing
  <2>7. QED
    BY <2>1, <2>2, <2>3, <2>4, <2>5, <2>6 DEF IInv
<1>6. QED
  BY <1>1, <1>2, <1>3, <1>4, <1>5

\* A caller tries to become the reacting thread.  It enters react() with its
\* token consumed and, if it is going to wait, with io_blocked set.
LEMMA CallerWaitInv ==
    ASSUME IInv, NEW b \in Callers,
           \/ ParkZero(b) \/ TryPoll(b) \/ Polled(b) \/ TryLock(b) \/ LoopHead(b)
           \/ CheckBefore(b) \/ CheckAfter(b)
    PROVE  IInv'
<1>1. CASE ParkZero(b)
  <2>1. TypeOK' /\ PcInv' /\ LockInv' /\ ReactInv'
    BY <1>1 DEF ParkZero, IInv, TypeOK, PcInv, LockInv, ReactInv
  <2>2. Active' = Active /\ count' = count
    BY <1>1 DEF ParkZero, IInv, PcInv, Active
  <2>3. QED
    BY <1>1, <2>1, <2>2, QuietStep, ZenonT(60) DEF ParkZero, IInv, CountInv, TypeOK
<1>2. CASE TryPoll(b)
  <2> USE <1>2 DEF TryPoll, BeginReact
  <2>1. TypeOK' /\ PcInv'
    BY DEF IInv, TypeOK, PcInv, Needs, Regs
  <2>2. LockInv' /\ ReactInv'
    BY DEF IInv, TypeOK, PcInv, LockInv, ReactInv
  <2>3. CountInv'
    <3>1. Active' = Active /\ count' = count
      BY DEF IInv, TypeOK, PcInv, LockInv, ReactInv, Active
    <3>2. QED
      BY <3>1 DEF IInv, CountInv
  <2>4. NotifiedFlagBacked'
    BY DEF IInv, TypeOK, PcInv, NotifiedFlagBacked, Writing
  <2>5. WakeInv'
    BY DEF IInv, TypeOK, PcInv, LockInv, ReactInv, NotifiedFlagBacked, WakeInv, Writing
  <2>6. TimerReachesEpoll'
    BY DEF IInv, TypeOK, PcInv, LockInv, NotifiedFlagBacked, TimerReachesEpoll,
           BlockedIn, Timers, Writing
  <2>7. QED
    BY <2>1, <2>2, <2>3, <2>4, <2>5, <2>6 DEF IInv
<1>3. CASE Polled(b)
  <2>1. TypeOK' /\ PcInv' /\ LockInv' /\ ReactInv'
    BY <1>3 DEF Polled, IInv, TypeOK, PcInv, LockInv, ReactInv
  <2>2. Active' = Active /\ count' = count
    BY <1>3 DEF Polled, IInv, PcInv, Active
  <2>3. QED
    BY <1>3, <2>1, <2>2, QuietStep DEF Polled, IInv, CountInv, TypeOK
<1>4. CASE TryLock(b)
  <2>1. TypeOK' /\ PcInv' /\ LockInv' /\ ReactInv'
    BY <1>4 DEF TryLock, IInv, TypeOK, PcInv, LockInv, ReactInv
  <2>2. Active' = Active /\ count' = count
    BY <1>4 DEF TryLock, IInv, PcInv, Active
  <2>3. QED
    BY <1>4, <2>1, <2>2, QuietStep, ZenonT(60) DEF TryLock, IInv, CountInv, TypeOK
<1>5. CASE LoopHead(b)
  <2>1. TypeOK' /\ PcInv' /\ LockInv' /\ ReactInv'
    BY <1>5 DEF LoopHead, IInv, TypeOK, PcInv, LockInv, ReactInv
  <2>2. Active' = Active /\ count' = count
    BY <1>5 DEF LoopHead, IInv, PcInv, Active
  <2>3. QED
    BY <1>5, <2>1, <2>2, QuietStep DEF LoopHead, IInv, CountInv, TypeOK
<1>6. CASE CheckBefore(b)
  <2> USE <1>6 DEF CheckBefore, BeginReact
  <2>1. TypeOK' /\ PcInv'
    BY DEF IInv, TypeOK, PcInv, Needs, Regs
  <2>2. LockInv' /\ ReactInv'
    BY DEF IInv, TypeOK, PcInv, LockInv, ReactInv
  <2>3. CountInv'
    <3>1. Active' = Active /\ count' = count
      BY DEF IInv, TypeOK, PcInv, LockInv, ReactInv, Active
    <3>2. QED
      BY <3>1 DEF IInv, CountInv
  <2>4. NotifiedFlagBacked'
    BY DEF IInv, TypeOK, PcInv, NotifiedFlagBacked, Writing
  <2>5. WakeInv'
    BY DEF IInv, TypeOK, PcInv, LockInv, ReactInv, NotifiedFlagBacked, WakeInv, Writing
  <2>6. TimerReachesEpoll'
    BY DEF IInv, TypeOK, PcInv, LockInv, NotifiedFlagBacked, TimerReachesEpoll,
           BlockedIn, Timers, Writing
  <2>7. QED
    BY <2>1, <2>2, <2>3, <2>4, <2>5, <2>6 DEF IInv
<1>7. CASE CheckAfter(b)
  <2>1. TypeOK' /\ PcInv' /\ LockInv' /\ ReactInv'
    BY <1>7 DEF CheckAfter, AfterWait, IInv, TypeOK, PcInv, LockInv, ReactInv
  <2>2. Active' = Active /\ count' = count
    BY <1>7 DEF CheckAfter, AfterWait, IInv, PcInv, Active
  <2>3. ASSUME NEW q \in {"break", "giveup", "again"}, pc' = [pc EXCEPT ![b] = q]
        PROVE  NotifiedFlagBacked' /\ WakeInv' /\ TimerReachesEpoll'
    BY <1>7, <2>3, QuietStep DEF CheckAfter, IInv, TypeOK
  <2>4. QED
    BY <1>7, <2>1, <2>2, <2>3 DEF CheckAfter, AfterWait, IInv, CountInv
<1>8. QED
  BY <1>1, <1>2, <1>3, <1>4, <1>5, <1>6, <1>7

\* A caller stops reacting, hands over to the background thread, and parks.
LEMMA CallerParkInv ==
    ASSUME IInv, NEW b \in Callers,
           \/ DropGuard(b, "break", "unlock") \/ DropGuard(b, "again", "loop")
           \/ DropGuard(b, "parked", "poll") \/ Unlock(b) \/ GiveUp(b) \/ UnparkIo(b)
           \/ Park(b, "parkinside", "parked") \/ Park(b, "park", "poll")
    PROVE  IInv'
<1>1. CASE DropGuard(b, "break", "unlock")
  <2>1. TypeOK' /\ PcInv' /\ LockInv' /\ ReactInv'
    BY <1>1 DEF DropGuard, IInv, TypeOK, PcInv, LockInv, ReactInv
  <2>2. Active' = Active /\ count' = count
    BY <1>1 DEF DropGuard, IInv, PcInv, Active
  <2>3. QED
    BY <1>1, <2>1, <2>2, QuietStep DEF DropGuard, IInv, CountInv, TypeOK
<1>2. CASE DropGuard(b, "again", "loop")
  <2>1. TypeOK' /\ PcInv' /\ LockInv' /\ ReactInv'
    BY <1>2 DEF DropGuard, IInv, TypeOK, PcInv, LockInv, ReactInv
  <2>2. Active' = Active /\ count' = count
    BY <1>2 DEF DropGuard, IInv, PcInv, Active
  <2>3. QED
    BY <1>2, <2>1, <2>2, QuietStep DEF DropGuard, IInv, CountInv, TypeOK
<1>3. CASE DropGuard(b, "parked", "poll")
  <2>1. TypeOK' /\ PcInv' /\ LockInv' /\ ReactInv'
    BY <1>3 DEF DropGuard, IInv, TypeOK, PcInv, LockInv, ReactInv
  <2>2. Active' = Active /\ count' = count
    BY <1>3 DEF DropGuard, IInv, PcInv, Active
  <2>3. QED
    BY <1>3, <2>1, <2>2, QuietStep DEF DropGuard, IInv, CountInv, TypeOK
<1>4. CASE Unlock(b)
  <2>1. TypeOK' /\ PcInv' /\ LockInv' /\ ReactInv'
    BY <1>4 DEF Unlock, IInv, TypeOK, PcInv, LockInv, ReactInv
  <2>2. Active' = Active /\ count' = count
    BY <1>4 DEF Unlock, IInv, PcInv, Active
  <2>3. QED
    BY <1>4, <2>1, <2>2, QuietStep DEF Unlock, IInv, CountInv, TypeOK
<1>5. CASE GiveUp(b)
  <2>1. TypeOK' /\ PcInv' /\ LockInv' /\ ReactInv'
    BY <1>5 DEF GiveUp, IInv, TypeOK, PcInv, LockInv, ReactInv
  <2>2. Active' = Active /\ count' = count
    BY <1>5 DEF GiveUp, IInv, PcInv, Active
  <2>3. QED
    BY <1>5, <2>1, <2>2, QuietStep DEF GiveUp, IInv, CountInv, TypeOK
<1>6. CASE UnparkIo(b)
  <2>1. TypeOK' /\ PcInv' /\ LockInv' /\ ReactInv'
    BY <1>6 DEF UnparkIo, IInv, TypeOK, PcInv, LockInv, ReactInv
  <2>2. Active' = Active /\ count' = count
    BY <1>6 DEF UnparkIo, IInv, PcInv, Active
  <2>3. \A c \in Callers : token'[c] => token[c]
    BY <1>6 DEF UnparkIo, IInv, TypeOK
  <2>4. QED
    BY <1>6, <2>1, <2>2, <2>3, QuietStep DEF UnparkIo, IInv, CountInv
<1>7. CASE Park(b, "parkinside", "parked")
  <2>1. TypeOK' /\ PcInv' /\ LockInv' /\ ReactInv'
    BY <1>7 DEF Park, IInv, TypeOK, PcInv, LockInv, ReactInv
  <2>2. Active' = Active /\ count' = count
    BY <1>7 DEF Park, IInv, PcInv, Active
  <2>3. QED
    BY <1>7, <2>1, <2>2, QuietStep DEF Park, IInv, CountInv, TypeOK
<1>8. CASE Park(b, "park", "poll")
  <2>1. TypeOK' /\ PcInv' /\ LockInv' /\ ReactInv'
    BY <1>8 DEF Park, IInv, TypeOK, PcInv, LockInv, ReactInv
  <2>2. Active' = Active /\ count' = count
    BY <1>8 DEF Park, IInv, PcInv, Active
  <2>3. QED
    BY <1>8, <2>1, <2>2, QuietStep DEF Park, IInv, CountInv, TypeOK
<1>9. QED
  BY <1>1, <1>2, <1>3, <1>4, <1>5, <1>6, <1>7, <1>8

\* block_on begins and ends: block_on_count is the number of calls in between.
LEMMA CallerEndsInv ==
    ASSUME IInv, NEW b \in Callers, Enter(b) \/ Exit(b) \/ ExitUnpark(b)
    PROVE  IInv'
<1>1. CASE Enter(b)
  <2>1. Active' = Active \cup {b} /\ b \notin Active
    BY <1>1 DEF Enter, IInv, PcInv, Active
  <2>2. IsFiniteSet(Active) /\ IsFiniteSet(Active') /\ Active' \subseteq Callers
    BY <2>1, FS_Subset DEF Active
  <2>3. count' = Cardinality(Active')
    BY <1>1, <2>1, <2>2, FS_AddElement DEF Enter, AddBlockOnCount, IInv, CountInv
  <2>4. count' \in 0..Cardinality(Callers)
    BY <2>2, <2>3, FS_Subset, FS_CardinalityType
  <2>5. TypeOK' /\ PcInv' /\ LockInv' /\ ReactInv'
    BY <1>1, <2>4 DEF Enter, IInv, TypeOK, PcInv, LockInv, ReactInv
  <2>6. QED
    BY <1>1, <2>3, <2>5, QuietStep DEF Enter, IInv, CountInv, TypeOK
<1>2. CASE Exit(b)
  <2>1. Active' = Active \ {b} /\ b \in Active
    BY <1>2 DEF Exit, IInv, PcInv, Active
  <2>2. IsFiniteSet(Active) /\ IsFiniteSet(Active') /\ Active' \subseteq Callers
    BY <2>1, FS_Subset DEF Active
  <2>3. count' = Cardinality(Active')
    BY <1>2, <2>1, <2>2, FS_RemoveElement DEF Exit, IInv, CountInv
  <2>4. count' \in 0..Cardinality(Callers)
    BY <2>2, <2>3, FS_Subset, FS_CardinalityType
  <2>5. TypeOK' /\ PcInv' /\ LockInv' /\ ReactInv'
    BY <1>2, <2>4 DEF Exit, IInv, TypeOK, PcInv, LockInv, ReactInv
  <2>6. QED
    BY <1>2, <2>3, <2>5, QuietStep DEF Exit, IInv, CountInv, TypeOK
<1>3. CASE ExitUnpark(b)
  <2>1. TypeOK' /\ PcInv' /\ LockInv' /\ ReactInv'
    BY <1>3 DEF ExitUnpark, IInv, TypeOK, PcInv, LockInv, ReactInv
  <2>2. Active' = Active /\ count' = count
    BY <1>3 DEF ExitUnpark, IInv, PcInv, Active
  <2>3. \A c \in Callers : token'[c] => token[c]
    BY <1>3 DEF ExitUnpark, IInv, TypeOK
  <2>4. QED
    BY <1>3, <2>1, <2>2, <2>3, QuietStep DEF ExitUnpark, IInv, CountInv
<1>4. QED
  BY <1>1, <1>2, <1>3

\* The background thread sleeps, watches the tick, and steps in.
LEMMA IoStepInv ==
    ASSUME IInv, IoStep
    PROVE  IInv'
<1>1. CASE IoTick
  <2>1. TypeOK'
    BY <1>1, ZenonT(60) DEF IoTick, Stalled, IInv, TypeOK, PcInv
  <2>2. PcInv' /\ LockInv' /\ ReactInv'
    BY <1>1 DEF IoTick, Stalled, IInv, TypeOK, PcInv, LockInv, ReactInv
  <2>3. Active' = Active /\ count' = count
    BY <1>1 DEF IoTick, Stalled, IInv, PcInv, Active
  <2>4. QED
    BY <1>1, <2>1, <2>2, <2>3, QuietStep DEF IoTick, Stalled, IInv, CountInv, TypeOK
<1>2. CASE IoLock
  <2> USE <1>2 DEF IoLock, BeginReact
  <2>1. TypeOK' /\ PcInv'
    BY DEF IInv, TypeOK, PcInv, Needs, Regs
  <2>2. LockInv' /\ ReactInv'
    BY DEF IInv, TypeOK, PcInv, LockInv, ReactInv
  <2>3. CountInv'
    <3>1. Active' = Active /\ count' = count
      BY DEF IInv, TypeOK, PcInv, LockInv, ReactInv, Active
    <3>2. QED
      BY <3>1 DEF IInv, CountInv
  <2>4. NotifiedFlagBacked'
    BY DEF IInv, TypeOK, PcInv, NotifiedFlagBacked, Writing
  <2>5. WakeInv'
    BY DEF IInv, TypeOK, PcInv, LockInv, ReactInv, NotifiedFlagBacked, WakeInv, Writing
  <2>6. TimerReachesEpoll'
    BY DEF IInv, TypeOK, PcInv, LockInv, NotifiedFlagBacked, TimerReachesEpoll,
           BlockedIn, Timers, Writing
  <2>7. QED
    BY <2>1, <2>2, <2>3, <2>4, <2>5, <2>6 DEF IInv
<1>3. CASE IoReacted
  <2>1. TypeOK'
    <3>1. sleeps' \in 0..SleepLimit
      BY <1>3 DEF IoReacted, IInv, TypeOK
    <3>2. moved' \in BOOLEAN
      BY <1>3, Zenon DEF IoReacted, IInv, TypeOK
    <3>3. token' \in [Reactors -> BOOLEAN]
      BY <1>3 DEF IoReacted, IInv, TypeOK
    <3>4. pc'[Io] \in IoPoints /\ \A th \in Callers \cup Wakers : pc'[th] = pc[th]
      BY <1>3 DEF IoReacted, IInv, PcInv
    <3>5. QED
      BY <1>3, <3>1, <3>2, <3>3, <3>4 DEF IoReacted, IInv, TypeOK
  <2>2. PcInv' /\ LockInv' /\ ReactInv'
    BY <1>3 DEF IoReacted, IInv, TypeOK, PcInv, LockInv, ReactInv
  <2>3. Active' = Active /\ count' = count
    BY <1>3 DEF IoReacted, IInv, PcInv, Active
  <2>4. QED
    BY <1>3, <2>1, <2>2, <2>3, QuietStep DEF IoReacted, IInv, CountInv, TypeOK
<1>4. CASE IoPark
  <2>1. TypeOK'
    <3>1. sleeps' \in 0..SleepLimit
      BY <1>4 DEF IoPark, IInv, TypeOK
    <3>2. moved' \in BOOLEAN
      BY <1>4, Zenon DEF IoPark, IInv, TypeOK
    <3>3. token' \in [Reactors -> BOOLEAN]
      BY <1>4 DEF IoPark, IInv, TypeOK
    <3>4. pc'[Io] \in IoPoints /\ \A th \in Callers \cup Wakers : pc'[th] = pc[th]
      BY <1>4 DEF IoPark, IInv, PcInv
    <3>5. QED
      BY <1>4, <3>1, <3>2, <3>3, <3>4 DEF IoPark, IInv, TypeOK
  <2>2. PcInv' /\ LockInv' /\ ReactInv'
    BY <1>4 DEF IoPark, IInv, TypeOK, PcInv, LockInv, ReactInv
  <2>3. Active' = Active /\ count' = count
    BY <1>4 DEF IoPark, IInv, PcInv, Active
  <2>4. QED
    BY <1>4, <2>1, <2>2, <2>3, QuietStep DEF IoPark, IInv, CountInv, TypeOK
<1>5. QED
  BY <1>1, <1>2, <1>3, <1>4 DEF IoStep

\* The thread inside react(): nobody else is there, so nobody else waits in
\* epoll while it drains the eventfd, resets the flag or collects timers.
LEMMA ReactStepInv ==
    ASSUME IInv, NEW th \in Reactors, ReactStep(th) \/ EpollInterrupted(th)
    PROVE  IInv'
<1>1. CASE ReactTimers(th)
  <2> USE <1>1 DEF ReactTimers, ProcessTimers, Queued, Due
  <2>1. TypeOK' /\ PcInv'
    <3>1. reg' \in [Callers -> Regs] /\ collected' \subseteq Callers
      BY DEF IInv, TypeOK, Regs, Timers
    <3>2. timerfd' \subseteq Callers \cup {None} /\ timeout' \in {"zero", "timed", "none"}
      BY DEF IInv, TypeOK, Timers
    <3>3. QED
      BY <3>1, <3>2 DEF IInv, TypeOK, PcInv
  <2>2. LockInv' /\ ReactInv'
    BY DEF IInv, TypeOK, PcInv, LockInv, ReactInv
  <2>3. CountInv'
    <3>1. Active' = Active /\ count' = count
      BY DEF IInv, TypeOK, PcInv, LockInv, ReactInv, Active
    <3>2. QED
      BY <3>1 DEF IInv, CountInv
  <2>4. NotifiedFlagBacked'
    BY DEF IInv, TypeOK, PcInv, NotifiedFlagBacked, Writing
  <2>5. WakeInv'
    BY DEF IInv, TypeOK, PcInv, LockInv, ReactInv, NotifiedFlagBacked, WakeInv, Writing
  <2>6. TimerReachesEpoll'
    BY DEF IInv, TypeOK, PcInv, LockInv, NotifiedFlagBacked, TimerReachesEpoll,
           BlockedIn, Timers, Writing
  <2>7. QED
    BY <2>1, <2>2, <2>3, <2>4, <2>5, <2>6 DEF IInv
<1>2. CASE EpollWait(th)
  <2> USE <1>2 DEF EpollWait, IoEvents
  <2>1. TypeOK' /\ PcInv'
    BY DEF IInv, TypeOK, PcInv, Needs, Regs
  <2>2. LockInv' /\ ReactInv'
    BY DEF IInv, TypeOK, PcInv, LockInv, ReactInv
  <2>3. CountInv'
    <3>1. Active' = Active /\ count' = count
      BY DEF IInv, TypeOK, PcInv, LockInv, ReactInv, Active
    <3>2. QED
      BY <3>1 DEF IInv, CountInv
  <2>4. NotifiedFlagBacked'
    BY DEF IInv, TypeOK, PcInv, NotifiedFlagBacked, Writing
  <2>5. WakeInv'
    BY DEF IInv, TypeOK, PcInv, LockInv, ReactInv, NotifiedFlagBacked, WakeInv, Writing
  <2>6. TimerReachesEpoll'
    BY DEF IInv, TypeOK, PcInv, LockInv, NotifiedFlagBacked, TimerReachesEpoll,
           BlockedIn, Timers, Writing
  <2>7. QED
    BY <2>1, <2>2, <2>3, <2>4, <2>5, <2>6 DEF IInv
<1>3. CASE EpollInterrupted(th)
  <2> USE <1>3 DEF EpollInterrupted
  <2>1. TypeOK' /\ PcInv'
    BY DEF IInv, TypeOK, PcInv, Needs, Regs
  <2>2. LockInv' /\ ReactInv'
    BY DEF IInv, TypeOK, PcInv, LockInv, ReactInv
  <2>3. CountInv'
    <3>1. Active' = Active /\ count' = count
      BY DEF IInv, TypeOK, PcInv, LockInv, ReactInv, Active
    <3>2. QED
      BY <3>1 DEF IInv, CountInv
  <2>4. NotifiedFlagBacked'
    BY DEF IInv, TypeOK, PcInv, NotifiedFlagBacked, Writing
  <2>5. WakeInv'
    BY DEF IInv, TypeOK, PcInv, LockInv, ReactInv, NotifiedFlagBacked, WakeInv, Writing
  <2>6. TimerReachesEpoll'
    BY DEF IInv, TypeOK, PcInv, LockInv, NotifiedFlagBacked, TimerReachesEpoll,
           BlockedIn, Timers, Writing
  <2>7. QED
    BY <2>1, <2>2, <2>3, <2>4, <2>5, <2>6 DEF IInv
<1>4. CASE Drain(th)
  <2> USE <1>4 DEF Drain
  <2>1. TypeOK' /\ PcInv'
    BY DEF IInv, TypeOK, PcInv, Needs, Regs
  <2>2. LockInv' /\ ReactInv'
    BY DEF IInv, TypeOK, PcInv, LockInv, ReactInv
  <2>3. CountInv'
    <3>1. Active' = Active /\ count' = count
      BY DEF IInv, TypeOK, PcInv, LockInv, ReactInv, Active
    <3>2. QED
      BY <3>1 DEF IInv, CountInv
  <2>4. NotifiedFlagBacked'
    BY DEF IInv, TypeOK, PcInv, NotifiedFlagBacked, Writing
  <2>5. WakeInv'
    BY DEF IInv, TypeOK, PcInv, LockInv, ReactInv, NotifiedFlagBacked, WakeInv, Writing
  <2>6. TimerReachesEpoll'
    BY DEF IInv, TypeOK, PcInv, LockInv, NotifiedFlagBacked, TimerReachesEpoll,
           BlockedIn, Timers, Writing
  <2>7. QED
    BY <2>1, <2>2, <2>3, <2>4, <2>5, <2>6 DEF IInv
<1>5. CASE Clear(th)
  <2> USE <1>5 DEF Clear, ResetNotified, ProcessTimers, Queued, Due
  <2>1. TypeOK' /\ PcInv'
    <3>1. reg' \in [Callers -> Regs] /\ collected' \subseteq Callers
      BY DEF IInv, TypeOK, Regs, Timers
    <3>2. QED
      BY <3>1 DEF IInv, TypeOK, PcInv
  <2>2. LockInv' /\ ReactInv'
    BY DEF IInv, TypeOK, PcInv, LockInv, ReactInv
  <2>3. CountInv'
    <3>1. Active' = Active /\ count' = count
      BY DEF IInv, TypeOK, PcInv, LockInv, ReactInv, Active
    <3>2. QED
      BY <3>1 DEF IInv, CountInv
  <2>4. NotifiedFlagBacked'
    BY DEF IInv, TypeOK, PcInv, NotifiedFlagBacked, Writing
  <2>5. WakeInv'
    BY DEF IInv, TypeOK, PcInv, LockInv, ReactInv, NotifiedFlagBacked, WakeInv, Writing
  <2>6. TimerReachesEpoll'
    BY DEF IInv, TypeOK, PcInv, LockInv, NotifiedFlagBacked, TimerReachesEpoll,
           BlockedIn, Timers, Writing
  <2>7. QED
    BY <2>1, <2>2, <2>3, <2>4, <2>5, <2>6 DEF IInv
<1>6. CASE WakeNext(th)
  <2> USE <1>6 DEF WakeNext, CallWaker
  <2>1. TypeOK' /\ PcInv'
    BY DEF IInv, TypeOK, PcInv, Needs, Regs
  <2>2. LockInv' /\ ReactInv'
    BY DEF IInv, TypeOK, PcInv, LockInv, ReactInv
  <2>3. CountInv'
    <3>1. Active' = Active /\ count' = count
      BY DEF IInv, TypeOK, PcInv, LockInv, ReactInv, Active
    <3>2. QED
      BY <3>1 DEF IInv, CountInv
  <2>4. NotifiedFlagBacked'
    BY DEF IInv, TypeOK, PcInv, NotifiedFlagBacked, Writing
  <2>5. WakeInv'
    BY DEF IInv, TypeOK, PcInv, LockInv, ReactInv, NotifiedFlagBacked, WakeInv, Writing
  <2>6. TimerReachesEpoll'
    BY DEF IInv, TypeOK, PcInv, LockInv, NotifiedFlagBacked, TimerReachesEpoll,
           BlockedIn, Timers, Writing
  <2>7. QED
    BY <2>1, <2>2, <2>3, <2>4, <2>5, <2>6 DEF IInv
<1>7. CASE WakeEnd(th)
  <2> USE <1>7 DEF WakeEnd
  <2>1. TypeOK' /\ PcInv'
    BY DEF IInv, TypeOK, PcInv, ReactInv
  <2>2. LockInv' /\ ReactInv'
    BY DEF IInv, TypeOK, PcInv, LockInv, ReactInv
  <2>3. CountInv'
    <3>1. Active' = Active /\ count' = count
      BY DEF IInv, TypeOK, PcInv, LockInv, ReactInv, Active
    <3>2. QED
      BY <3>1 DEF IInv, CountInv
  <2>4. NotifiedFlagBacked'
    BY DEF IInv, TypeOK, PcInv, NotifiedFlagBacked, Writing
  <2>5. WakeInv'
    BY DEF IInv, TypeOK, PcInv, LockInv, ReactInv, NotifiedFlagBacked, WakeInv, Writing
  <2>6. TimerReachesEpoll'
    BY DEF IInv, TypeOK, PcInv, LockInv, NotifiedFlagBacked, TimerReachesEpoll,
           BlockedIn, Timers, Writing
  <2>7. QED
    BY <2>1, <2>2, <2>3, <2>4, <2>5, <2>6 DEF IInv
<1>8. QED
  BY <1>1, <1>2, <1>3, <1>4, <1>5, <1>6, <1>7 DEF ReactStep

\* A waker on its way: it sees io_blocked and notifies, and a notify() that finds
\* the flag set leaves the wake to the one that set it.
LEMMA WakeStepInv ==
    ASSUME IInv, NEW th \in Threads, WakeStep(th)
    PROVE  IInv'
<1>1. CASE NotifyCas(th)
  <2> USE <1>1 DEF NotifyCas, Return
  <2>1. TypeOK' /\ PcInv'
    <3>1. notified' \in BOOLEAN
      BY DEF IInv, TypeOK
    <3>2. QED
      BY <3>1 DEF IInv, TypeOK, PcInv
  <2>2. LockInv' /\ ReactInv'
    BY DEF IInv, TypeOK, PcInv, LockInv, ReactInv
  <2>3. CountInv'
    <3>1. Active' = Active /\ count' = count
      BY DEF IInv, TypeOK, PcInv, LockInv, ReactInv, Active
    <3>2. QED
      BY <3>1 DEF IInv, CountInv
  <2>4. NotifiedFlagBacked'
    BY ZenonT(60) DEF IInv, TypeOK, PcInv, NotifiedFlagBacked, Writing
  <2>5. WakeInv'
    BY DEF IInv, TypeOK, PcInv, LockInv, ReactInv, NotifiedFlagBacked, WakeInv, Writing
  <2>6. TimerReachesEpoll'
    BY DEF IInv, TypeOK, PcInv, LockInv, NotifiedFlagBacked, TimerReachesEpoll,
           BlockedIn, Timers, Writing
  <2>7. QED
    BY <2>1, <2>2, <2>3, <2>4, <2>5, <2>6 DEF IInv
<1>2. CASE NotifyWrite(th)
  <2> USE <1>2 DEF NotifyWrite, Return
  <2>1. TypeOK' /\ PcInv'
    BY DEF IInv, TypeOK, PcInv, Needs, Regs
  <2>2. LockInv' /\ ReactInv'
    BY DEF IInv, TypeOK, PcInv, LockInv, ReactInv
  <2>3. CountInv'
    <3>1. Active' = Active /\ count' = count
      BY DEF IInv, TypeOK, PcInv, LockInv, ReactInv, Active
    <3>2. QED
      BY <3>1 DEF IInv, CountInv
  <2>4. NotifiedFlagBacked'
    BY DEF IInv, TypeOK, PcInv, NotifiedFlagBacked, Writing
  <2>5. WakeInv'
    BY DEF IInv, TypeOK, PcInv, LockInv, ReactInv, NotifiedFlagBacked, WakeInv, Writing
  <2>6. TimerReachesEpoll'
    BY DEF IInv, TypeOK, PcInv, LockInv, NotifiedFlagBacked, TimerReachesEpoll,
           BlockedIn, Timers, Writing
  <2>7. QED
    BY <2>1, <2>2, <2>3, <2>4, <2>5, <2>6 DEF IInv
<1>3. CASE WakeCheck(th)
  <2> USE <1>3 DEF WakeCheck, Return
  <2>1. TypeOK' /\ PcInv'
    BY DEF IInv, TypeOK, PcInv, Needs, Regs
  <2>2. LockInv' /\ ReactInv'
    BY DEF IInv, TypeOK, PcInv, LockInv, ReactInv
  <2>3. CountInv'
    <3>1. Active' = Active /\ count' = count
      BY DEF IInv, TypeOK, PcInv, LockInv, ReactInv, Active
    <3>2. QED
      BY <3>1 DEF IInv, CountInv
  <2>4. NotifiedFlagBacked'
    BY DEF IInv, TypeOK, PcInv, NotifiedFlagBacked, Writing
  <2>5. WakeInv'
    BY DEF IInv, TypeOK, PcInv, LockInv, ReactInv, NotifiedFlagBacked, WakeInv, Writing
  <2>6. TimerReachesEpoll'
    BY DEF IInv, TypeOK, PcInv, LockInv, NotifiedFlagBacked, TimerReachesEpoll,
           BlockedIn, Timers, Writing
  <2>7. QED
    BY <2>1, <2>2, <2>3, <2>4, <2>5, <2>6 DEF IInv
<1>4. QED
  BY <1>1, <1>2, <1>3 DEF WakeStep

\* Another thread sets the token of b and becomes responsible for its wake.
LEMMA ForeignWakeInv ==
    ASSUME IInv, NEW u \in Wakers, NEW b \in Callers, Wake(u, b)
    PROVE  IInv'
<1> USE DEF Wake, CallWaker
<1>1. TypeOK' /\ PcInv'
  BY DEF IInv, TypeOK, PcInv
<1>2. LockInv' /\ ReactInv'
  BY DEF IInv, TypeOK, PcInv, LockInv, ReactInv
<1>3. CountInv'
  <2>1. Active' = Active /\ count' = count
    BY DEF IInv, PcInv, Active
  <2>2. QED
    BY <2>1 DEF IInv, CountInv
<1>4. NotifiedFlagBacked'
  BY DEF IInv, TypeOK, PcInv, NotifiedFlagBacked, Writing
<1>5. WakeInv'
  BY DEF IInv, TypeOK, PcInv, WakeInv, Writing
<1>6. TimerReachesEpoll'
  BY DEF IInv, TypeOK, PcInv, TimerReachesEpoll, BlockedIn, Timers, Writing
<1>7. QED
  BY <1>1, <1>2, <1>3, <1>4, <1>5, <1>6 DEF IInv

\* IInv is an invariant of block_on and its reactor.
THEOREM BlockOnInvariant == Spec => []IInv
<1>1. Init => IInv
  <2> SUFFICES ASSUME Init PROVE IInv
    OBVIOUS
  <2> USE DEF Init
  <2>1. TypeOK
    <3>1. 0 \in 0..Cardinality(Callers) /\ 0 \in 0..SleepLimit
      BY FS_CardinalityType
    <3>2. QED
      BY <3>1 DEF TypeOK, Needs, Regs
  <2>2. CountInv
    <3>1. Active = {}
      BY DEF Active
    <3>2. QED
      BY <3>1, FS_EmptySet DEF CountInv
  <2>3. PcInv /\ LockInv /\ ReactInv
    BY DEF PcInv, LockInv, ReactInv
  <2>4. NotifiedFlagBacked /\ WakeInv /\ TimerReachesEpoll
    BY DEF NotifiedFlagBacked, WakeInv, TimerReachesEpoll, BlockedIn
  <2>5. QED
    BY <2>1, <2>2, <2>3, <2>4 DEF IInv
<1>2. IInv /\ [Next]_vars => IInv'
  <2> SUFFICES ASSUME IInv, [Next]_vars PROVE IInv'
    OBVIOUS
  <2>1. ASSUME NEW b \in Callers, Enter(b) \/ CallerStep(b) \/ Happen(b)
        PROVE  IInv'
    BY <2>1, CallerFutureInv, CallerWaitInv, CallerParkInv, CallerEndsInv
       DEF CallerStep
  <2>2. ASSUME NEW th \in Threads, WakeStep(th) PROVE IInv'
    BY <2>2, WakeStepInv
  <2>3. CASE UNCHANGED vars
    <3>1. Active' = Active
      BY <2>3 DEF vars, Active
    <3>2. QED
      BY <2>3, <3>1 DEF vars, IInv, TypeOK, PcInv, CountInv, LockInv, ReactInv,
                        NotifiedFlagBacked, WakeInv, TimerReachesEpoll, Writing,
                        BlockedIn, Timers
  <2>4. QED
    BY <2>1, <2>2, <2>3, IoStepInv, ReactStepInv, ForeignWakeInv DEF Next
<1>3. QED
  BY <1>1, <1>2, PTL DEF Spec

\* The variables of block_on keep their types; block_on_count never drops below
\* zero and never exceeds the number of callers.
THEOREM BlockOnTypeCorrect == Spec => []TypeOK
<1>1. IInv => TypeOK
  BY DEF IInv
<1>2. QED
  BY <1>1, BlockOnInvariant, PTL

\* A notify() that finds Poller.notified set is never swallowed: the eventfd has
\* been written, is about to be, or has just been read.
THEOREM NotifiedFlagAlwaysBacked == Spec => []NotifiedFlagBacked
<1>1. IInv => NotifiedFlagBacked
  BY DEF IInv
<1>2. QED
  BY <1>1, BlockOnInvariant, PTL

\* No wake is lost on a caller that waits in epoll: whoever set its token has
\* notified or is going to.
THEOREM WakeAlwaysReachesEpoll == Spec => []WakeReachesEpoll
<1>1. IInv => WakeReachesEpoll
  BY DEF IInv, WakeInv, WakeReachesEpoll, BlockedIn
<1>2. QED
  BY <1>1, BlockOnInvariant, PTL

\* No timer is lost on a thread that waits in epoll with a timeout computed
\* without it.
THEOREM TimerAlwaysReachesEpoll == Spec => []TimerReachesEpoll
<1>1. IInv => TimerReachesEpoll
  BY DEF IInv
<1>2. QED
  BY <1>1, BlockOnInvariant, PTL
=============================================================================
