---------------------------- MODULE LocalQueue ----------------------------
(***************************************************************************)
(* Local<T> of src/src/executor.rs: the ring buffer that holds a worker's  *)
(* runnable tasks.  Only the worker that owns it pushes (ThreadLocal::get  *)
(* gives a thread its own queue), every worker pops.  The buffer is read   *)
(* before the slot is claimed, so a pop may read a slot while the owner    *)
(* overwrites it; the slot then holds Torn.  Each action is one atomic     *)
(* access to head or tail or one access to a slot.                         *)
(***************************************************************************)
EXTENDS Naturals, Sequences

CONSTANTS Owner,      \* the worker the queue belongs to
          Thieves,    \* the other workers
          Capacity,   \* buffer.len(), a power of two (512 in Ticker::run)
          Modulus,    \* usize wraps around at Modulus (2^64)
          Origin,     \* value of head and tail when the behaviour starts
          MaxPushes,  \* bound: pushes in a behaviour
          MaxLength,  \* bound: length of the queue a steal takes from
          Torn, Ok, Full, Empty

Threads == {Owner} \cup Thieves

\* Items are numbered in the order they are pushed.
Items == 1..MaxPushes

ASSUME CapacityAssumption ==
    /\ Capacity \in Nat \ {0}
    /\ Modulus \in Nat
    /\ \E k \in 1..Modulus : Modulus = k * Capacity
    /\ Origin \in 0..(Modulus - 1)

\* No thread stays inside one pop() while head goes all the way round.
ASSUME NoWholeTurn == MaxPushes \in Nat /\ MaxPushes < Modulus

ASSUME OwnerAssumption == Owner \notin Thieves

ASSUME AnswerAssumption ==
    /\ \A a \in {Torn, Ok, Full, Empty} : a \notin Nat
    /\ Torn \notin {Ok, Full, Empty}

VARIABLES head, tail, buffer,
          pc,       \* pc[t]: where t is in pop(), push() or steal()
          hd,       \* hd[t]: the head t has loaded
          value,    \* value[t]: what t has read from the slot
          steals,   \* items the owner may still steal in this steal()
          pushed,   \* history: the number of published items
          popped,   \* history: the items popped, in order
          dropped,  \* history: items a steal() could not push
          result    \* result[t]: what t's last operation returned

queueVars == <<head, tail, buffer>>
vars == <<head, tail, buffer, pc, hd, value, steals, pushed, popped, dropped,
          result>>

\* Mutant: positions grow without bound.
PlainAdd(a, b) == a + b

WrappingAdd(a, b) == (a + b) % Modulus
WrappingSub(a, b) == (a + Modulus - b) % Modulus

\* position & mask
Slot(position) == position % Capacity

Goto(t, point) == pc' = [pc EXCEPT ![t] = point]
Answer(t, a) == result' = [result EXCEPT ![t] = a]

Init ==
    /\ head = Origin
    /\ tail = Origin
    /\ buffer = [i \in 0..(Capacity - 1) |-> Torn]
    /\ pc = [t \in Threads |-> "idle"]
    /\ hd = [t \in Threads |-> Origin]
    /\ value = [t \in Threads |-> Torn]
    /\ steals = 0
    /\ pushed = 0
    /\ popped = <<>>
    /\ dropped = 0
    /\ result = [t \in Threads |-> Ok]

----------------------------------------------------------------------------
(* Local::pop *)

PopLoadHead(t) ==
    /\ pc[t] = "idle"
    /\ t = Owner => steals = 0
    /\ hd' = [hd EXCEPT ![t] = head]
    /\ Goto(t, "poptail")
    /\ UNCHANGED <<queueVars, value, steals, pushed, popped, dropped, result>>

PopLoadTail(t) ==
    /\ pc[t] = "poptail"
    /\ \/ /\ hd[t] = tail
          /\ Goto(t, "idle")
          /\ Answer(t, Empty)
       \/ /\ hd[t] # tail
          /\ Goto(t, "popread")
          /\ UNCHANGED result
    /\ UNCHANGED <<queueVars, hd, value, steals, pushed, popped, dropped>>

PopRead(t) ==
    /\ pc[t] = "popread"
    /\ value' = [value EXCEPT ![t] = buffer[Slot(hd[t])]]
    /\ Goto(t, "popclaim")
    /\ UNCHANGED <<queueVars, hd, steals, pushed, popped, dropped, result>>

\* Mutant: head is stored, whatever it has become since it was loaded.
PopStore(t) ==
    /\ pc[t] = "popclaim"
    /\ head' = WrappingAdd(hd[t], 1)
    /\ popped' = Append(popped, value[t])
    /\ Goto(t, "idle")
    /\ Answer(t, value[t])
    /\ UNCHANGED <<tail, buffer, hd, value, steals, pushed, dropped>>

\* compare_exchange(head, head + 1); a failure gives the current head.
PopClaim(t) ==
    /\ pc[t] = "popclaim"
    /\ \/ /\ head = hd[t]
          /\ head' = WrappingAdd(head, 1)
          /\ popped' = Append(popped, value[t])
          /\ Goto(t, "idle")
          /\ Answer(t, value[t])
          /\ UNCHANGED hd
       \/ /\ head # hd[t]
          /\ hd' = [hd EXCEPT ![t] = head]
          /\ Goto(t, "poptail")
          /\ UNCHANGED <<head, popped, result>>
    /\ UNCHANGED <<tail, buffer, value, steals, pushed, dropped>>

----------------------------------------------------------------------------
(* Local::push, by the owner; tail is its own *)

\* Mutant: one item too many.
HasRoomInclusive == WrappingSub(tail, head) <= Capacity

HasRoom == WrappingSub(tail, head) < Capacity

\* A push that finds the buffer full hands its item back to schedule(), which
\* puts it on the global queue; steal() ignores the error and loses the item.
PushLoadHead ==
    /\ pc[Owner] = "idle"
    /\ pushed < MaxPushes
    /\ \/ /\ HasRoom
          /\ Goto(Owner, "pushwrite")
          /\ UNCHANGED <<steals, dropped, result>>
       \/ /\ ~HasRoom
          /\ Answer(Owner, Full)
          /\ dropped' = IF steals > 0 THEN dropped + 1 ELSE dropped
          /\ steals' = IF steals > 0 THEN steals - 1 ELSE 0
          /\ UNCHANGED pc
    /\ UNCHANGED <<queueVars, hd, value, pushed, popped>>

\* Writing the slot is not atomic: it is Torn until the write is complete.
PushBeginWrite ==
    /\ pc[Owner] = "pushwrite"
    /\ buffer' = [buffer EXCEPT ![Slot(tail)] = Torn]
    /\ Goto(Owner, "pushfill")
    /\ UNCHANGED <<head, tail, hd, value, steals, pushed, popped, dropped,
                   result>>

PushEndWrite ==
    /\ pc[Owner] = "pushfill"
    /\ buffer' = [buffer EXCEPT ![Slot(tail)] = pushed + 1]
    /\ Goto(Owner, "pushpublish")
    /\ UNCHANGED <<head, tail, hd, value, steals, pushed, popped, dropped,
                   result>>

PushPublish ==
    /\ pc[Owner] = "pushpublish"
    /\ tail' = WrappingAdd(tail, 1)
    /\ pushed' = pushed + 1
    /\ steals' = IF steals > 0 THEN steals - 1 ELSE 0
    /\ Goto(Owner, "idle")
    /\ Answer(Owner, Ok)
    /\ UNCHANGED <<head, buffer, hd, value, popped, dropped>>

----------------------------------------------------------------------------
(* Local::steal, by the owner: reserve room, then push what the source gives *)

\* Local::len of the own queue: head is loaded, tail cannot move.
OwnLen ==
    LET length == WrappingSub(tail, head)
    IN  IF length <= Capacity THEN length ELSE Capacity

\* Mutant: the room left in the own queue is ignored.
StealHalf(length) ==
    /\ pc[Owner] = "idle"
    /\ steals = 0
    /\ steals' = (length + 1) \div 2
    /\ UNCHANGED <<queueVars, pc, hd, value, pushed, popped, dropped, result>>

StealReserve(length) ==
    LET half == (length + 1) \div 2
        room == Capacity - OwnLen
    IN  /\ pc[Owner] = "idle"
        /\ steals = 0
        /\ steals' = IF half <= room THEN half ELSE room
        /\ UNCHANGED <<queueVars, pc, hd, value, pushed, popped, dropped, result>>

\* The source has run dry before the reserved number was reached.
StealSourceEmpty ==
    /\ pc[Owner] = "idle"
    /\ steals > 0
    /\ steals' = 0
    /\ UNCHANGED <<queueVars, pc, hd, value, pushed, popped, dropped, result>>

----------------------------------------------------------------------------

PopStep(t) == PopLoadTail(t) \/ PopRead(t) \/ PopClaim(t)

PushStep == PushBeginWrite \/ PushEndWrite \/ PushPublish

Next ==
    \/ \E t \in Threads : PopLoadHead(t) \/ PopStep(t)
    \/ PushLoadHead
    \/ PushStep
    \/ \E length \in 1..MaxLength : StealReserve(length)
    \/ StealSourceEmpty

Spec == Init /\ [][Next]_vars

----------------------------------------------------------------------------
(* Properties *)

Points == {"idle", "poptail", "popread", "popclaim", "pushwrite", "pushfill",
           "pushpublish"}

Answers == Items \cup {Torn, Ok, Full, Empty}

\* Every variable keeps its type: head and tail stay machine words (wrapping_add),
\* slots hold pushed items or are not to be read.
TypeOK ==
    /\ head \in 0..(Modulus - 1)
    /\ tail \in 0..(Modulus - 1)
    /\ buffer \in [0..(Capacity - 1) -> Items \cup {Torn}]
    /\ pc \in [Threads -> Points]
    /\ hd \in [Threads -> 0..(Modulus - 1)]
    /\ value \in [Threads -> Items \cup {Torn}]
    /\ steals \in 0..Capacity
    /\ pushed \in 0..MaxPushes
    /\ popped \in Seq(Items \cup {Torn})
    /\ dropped \in Nat
    /\ result \in [Threads -> Answers]

\* assume_init() on a claimed slot: a pop that wins the race for head returns
\* the task pushed at that position, never a half-written or a recycled slot,
\* no matter how long it was delayed between its read and its claim.
PopsInOrder == \A i \in DOMAIN popped : popped[i] = i

\* steal() ignores the result of push (`let _ = self.push(t)`): a task it has
\* taken out of another queue always fits, because it reserved the room before.
StealLosesNothing == dropped = 0

\* The ring buffer is a linearizable bounded FIFO queue.
Fifo == INSTANCE BoundedFifo WITH
            queue <- [i \in 1..WrappingSub(tail, head) |->
                        buffer[Slot(head + i - 1)]]

\* Every push and pop takes effect at one instant as on a sequence: pops return
\* the oldest task, Empty and Full are answered only when they are true.
ImplementsFifo == Fifo!Spec
=============================================================================
