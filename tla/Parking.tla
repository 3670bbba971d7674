------------------------------ MODULE Parking ------------------------------
(***************************************************************************)
(* The thread parker of src/src/parking.rs: an atomic word, a mutex and a  *)
(* condition variable.  One thread owns the Parker (block_on keeps its own *)
(* on its stack, the reactor thread moves its own into the thread), every  *)
(* thread in Unparkers holds a clone of the Unparker.  Each action is one  *)
(* atomic operation of Inner::park or Inner::unpark.                       *)
(***************************************************************************)
CONSTANTS Unparkers,  \* the threads that may call unpark()
          Nobody      \* the mutex is free

ASSUME NobodyAssumption == Nobody \notin Unparkers /\ Nobody # "parker"

VARIABLES state,    \* Inner.state: "EMPTY", "PARKED" or "NOTIFIED"
          lock,     \* holder of Inner.lock
          pc,       \* where the owner is in park()
          timeout,  \* the timeout of the owner's current park()
          upc,      \* upc[u]: where u is in unpark()
          answer    \* answer[u]: the value u's unpark() returns

vars == <<state, lock, pc, timeout, upc, answer>>

States == {"EMPTY", "PARKED", "NOTIFIED"}

Timeouts == {"none", "zero", "some"}

\* "asleep" is inside Condvar::wait with the mutex released; "woken" has left
\* the wait set and is taking the mutex again.
ParkPoints == {"out", "entry", "acquire", "announce", "consume", "wait",
               "asleep", "woken", "recheck", "panicked"}

UnparkPoints == {"out", "acquire", "notify"}

Init ==
    /\ state = "EMPTY"
    /\ lock = Nobody
    /\ pc = "out"
    /\ timeout = "none"
    /\ upc = [u \in Unparkers |-> "out"]
    /\ answer = [u \in Unparkers |-> FALSE]

----------------------------------------------------------------------------
(* Inner::park *)

Park(t) ==
    /\ pc = "out"
    /\ timeout' = t
    /\ pc' = "entry"
    /\ UNCHANGED <<state, lock, upc, answer>>

\* compare_exchange(NOTIFIED, EMPTY), then the zero-timeout early return.
ParkEntry ==
    /\ pc = "entry"
    /\ \/ /\ state = "NOTIFIED"
          /\ state' = "EMPTY"
          /\ pc' = "out"
       \/ /\ state # "NOTIFIED"
          /\ pc' = IF timeout = "zero" THEN "out" ELSE "acquire"
          /\ UNCHANGED state
    /\ UNCHANGED <<lock, timeout, upc, answer>>

ParkLock ==
    /\ pc = "acquire"
    /\ lock = Nobody
    /\ lock' = "parker"
    /\ pc' = "announce"
    /\ UNCHANGED <<state, timeout, upc, answer>>

\* Mutant: a notification between the two compare_exchange is not expected.
ParkAnnounceStrict ==
    /\ pc = "announce"
    /\ \/ /\ state = "EMPTY"
          /\ state' = "PARKED"
          /\ pc' = "wait"
       \/ /\ state # "EMPTY"
          /\ pc' = "panicked"
          /\ UNCHANGED state
    /\ UNCHANGED <<lock, timeout, upc, answer>>

\* compare_exchange(EMPTY, PARKED): a third value is "invalid park state".
ParkAnnounce ==
    /\ pc = "announce"
    /\ \/ /\ state = "EMPTY"
          /\ state' = "PARKED"
          /\ pc' = "wait"
       \/ /\ state # "EMPTY"
          /\ pc' = IF state = "NOTIFIED" THEN "consume" ELSE "panicked"
          /\ UNCHANGED state
    /\ UNCHANGED <<lock, timeout, upc, answer>>

\* swap(EMPTY) and assert_eq!(old, NOTIFIED); the guard drops the mutex.
ParkConsume ==
    /\ pc = "consume"
    /\ state' = "EMPTY"
    /\ lock' = Nobody
    /\ pc' = IF state = "NOTIFIED" THEN "out" ELSE "panicked"
    /\ UNCHANGED <<timeout, upc, answer>>

\* Condvar::wait and wait_timeout release the mutex and enter the wait set
\* in one step.
ParkWait ==
    /\ pc = "wait"
    /\ lock' = Nobody
    /\ pc' = "asleep"
    /\ UNCHANGED <<state, timeout, upc, answer>>

\* A condition variable may wake up spuriously, and wait_timeout by itself.
ParkSpurious ==
    /\ pc = "asleep"
    /\ pc' = "woken"
    /\ UNCHANGED <<state, lock, timeout, upc, answer>>

ParkTimeout ==
    /\ pc = "asleep"
    /\ timeout = "some"
    /\ pc' = "woken"
    /\ UNCHANGED <<state, lock, timeout, upc, answer>>

ParkRelock ==
    /\ pc = "woken"
    /\ lock = Nobody
    /\ lock' = "parker"
    /\ pc' = "recheck"
    /\ UNCHANGED <<state, timeout, upc, answer>>

\* park(): take the notification or wait again.
ParkRecheck ==
    /\ pc = "recheck"
    /\ timeout = "none"
    /\ \/ /\ state = "NOTIFIED"
          /\ state' = "EMPTY"
          /\ lock' = Nobody
          /\ pc' = "out"
       \/ /\ state # "NOTIFIED"
          /\ pc' = "wait"
          /\ UNCHANGED <<state, lock>>
    /\ UNCHANGED <<timeout, upc, answer>>

\* Mutant: park_timeout() returns without taking the notification.
ParkTimedLeaves ==
    /\ pc = "recheck"
    /\ timeout = "some"
    /\ state' = IF state = "PARKED" THEN "EMPTY" ELSE state
    /\ lock' = Nobody
    /\ pc' = "out"
    /\ UNCHANGED <<timeout, upc, answer>>

\* park_timeout(): swap(EMPTY) whatever woke us up; EMPTY is "inconsistent".
ParkTimedRecheck ==
    /\ pc = "recheck"
    /\ timeout = "some"
    /\ state' = "EMPTY"
    /\ lock' = Nobody
    /\ pc' = IF state \in {"NOTIFIED", "PARKED"} THEN "out" ELSE "panicked"
    /\ UNCHANGED <<timeout, upc, answer>>

----------------------------------------------------------------------------
(* Inner::unpark *)

\* swap(NOTIFIED): only a parked owner has to be woken.
Unpark(u) ==
    /\ upc[u] = "out"
    /\ state' = "NOTIFIED"
    /\ answer' = [answer EXCEPT ![u] = state # "NOTIFIED"]
    /\ upc' = [upc EXCEPT ![u] = IF state = "PARKED" THEN "acquire" ELSE "out"]
    /\ UNCHANGED <<lock, pc, timeout>>

\* Mutants: the mutex is not taken before notify_one, or not dropped.
UnparkSkipsLock(u) ==
    /\ upc[u] = "acquire"
    /\ upc' = [upc EXCEPT ![u] = "notify"]
    /\ UNCHANGED <<state, lock, pc, timeout, answer>>

UnparkKeepsLock(u) ==
    /\ upc[u] = "acquire"
    /\ lock = Nobody
    /\ lock' = u
    /\ upc' = [upc EXCEPT ![u] = "notify"]
    /\ UNCHANGED <<state, pc, timeout, answer>>

\* drop(self.lock.lock()): waits until the owner has let go of the mutex.
UnparkLock(u) ==
    /\ upc[u] = "acquire"
    /\ lock = Nobody
    /\ upc' = [upc EXCEPT ![u] = "notify"]
    /\ UNCHANGED <<state, lock, pc, timeout, answer>>

\* cvar.notify_one() is lost on a condition variable nobody waits on.
UnparkNotify(u) ==
    /\ upc[u] = "notify"
    /\ upc' = [upc EXCEPT ![u] = "out"]
    /\ pc' = IF pc = "asleep" THEN "woken" ELSE pc
    /\ UNCHANGED <<state, lock, timeout, answer>>

----------------------------------------------------------------------------

ParkStep ==
    \/ ParkEntry
    \/ ParkLock
    \/ ParkAnnounce
    \/ ParkConsume
    \/ ParkWait
    \/ ParkTimeout
    \/ ParkRelock
    \/ ParkRecheck
    \/ ParkTimedRecheck

Next ==
    \/ \E t \in Timeouts : Park(t)
    \/ ParkStep
    \/ ParkSpurious
    \/ \E u \in Unparkers : Unpark(u) \/ UnparkLock(u) \/ UnparkNotify(u)

\* A thread that has entered park() or unpark() keeps running, and a timeout
\* expires.  Calls and spurious wake-ups are under no obligation to happen.
Fairness ==
    /\ WF_vars(ParkStep)
    /\ \A u \in Unparkers : WF_vars(UnparkLock(u) \/ UnparkNotify(u))

Spec == Init /\ [][Next]_vars

FairSpec == Spec /\ Fairness

----------------------------------------------------------------------------
(* Properties *)

\* Every variable keeps its type: state is one of the three constants of
\* parking.rs, and no unparker is left holding the mutex.
TypeOK ==
    /\ state \in States
    /\ lock \in {Nobody, "parker"}
    /\ pc \in ParkPoints
    /\ timeout \in Timeouts
    /\ upc \in [Unparkers -> UnparkPoints]
    /\ answer \in [Unparkers -> BOOLEAN]

\* The three panic!/assert_eq! branches of park() ("invalid park state", "park
\* state changed unexpectedly", "inconsistent park_timeout state") are dead
\* whatever the unparkers do between the owner's atomic operations.
NoPanic == pc # "panicked"

\* The comment in unpark(): a notification that lands between the owner's
\* write of PARKED and its wait on cvar is not missed.  Whenever the owner
\* sleeps although state is NOTIFIED, some unparker still has to notify cvar.
NoLostWakeup ==
    pc = "asleep" /\ state = "NOTIFIED" =>
        \E u \in Unparkers : upc[u] \in {"acquire", "notify"}

\* What makes the two facts above inductive: the owner holds the mutex between
\* the check of state and the wait, state is PARKED or NOTIFIED exactly while
\* the owner is past its announcement, and the unparker of a notification that
\* came before the wait has not reached notify_one yet.
LockInv ==
    lock = "parker" <=> pc \in {"announce", "consume", "wait", "recheck"}

AnnouncedInv ==
    /\ pc \in {"wait", "asleep", "woken", "recheck"} => state # "EMPTY"
    /\ state = "PARKED" => pc \in {"wait", "asleep", "woken", "recheck"}
    /\ pc = "consume" => state = "NOTIFIED"
    /\ pc \in {"acquire", "announce", "consume", "wait", "asleep", "woken",
               "recheck"} => timeout # "zero"

BeforeWaitInv ==
    pc = "wait" /\ state = "NOTIFIED" =>
        \E u \in Unparkers : upc[u] = "acquire"

IInv ==
    /\ TypeOK
    /\ NoPanic
    /\ LockInv
    /\ AnnouncedInv
    /\ BeforeWaitInv
    /\ NoLostWakeup

\* Parking implements ParkToken: the token is the NOTIFIED value of state, an
\* owner that has not returned from park() is parked.
Token == INSTANCE ParkToken WITH
            token <- state = "NOTIFIED",
            parked <- IF pc = "out" THEN "no" ELSE timeout

\* park() and unpark() behave as the abstract token: true exactly for a token
\* consumed, false only in its absence, and no sleeping on a token left behind.
ImplementsToken == Token!Spec

\* The safety part alone.
ImplementsTokenSafety == Token!Safety
=============================================================================
