---------------------------- MODULE BoundedFifo ----------------------------
(***************************************************************************)
(* What a worker's run queue (Local<T> in src/src/executor.rs) promises: a *)
(* bounded first-in first-out queue.  Its owner pushes, the owner and the  *)
(* thieves pop, every operation happens at one instant and answers         *)
(* truthfully.  Module Executor uses run queues as this sequence; module   *)
(* LocalQueue shows that the lock-free ring buffer implements it.          *)
(***************************************************************************)
EXTENDS Naturals, Sequences

CONSTANTS Threads, Owner, Capacity, Items, Ok, Full, Empty

VARIABLES queue,   \* the queued items, oldest first
          result   \* result[t]: what t's last operation returned

fifoVars == <<queue, result>>

Init ==
    /\ queue = <<>>
    /\ result = [t \in Threads |-> Ok]

Push(x) ==
    /\ Len(queue) < Capacity
    /\ queue' = Append(queue, x)
    /\ result' = [result EXCEPT ![Owner] = Ok]

PushFull ==
    /\ Len(queue) = Capacity
    /\ result' = [result EXCEPT ![Owner] = Full]
    /\ UNCHANGED queue

Pop(t) ==
    /\ queue # <<>>
    /\ queue' = Tail(queue)
    /\ result' = [result EXCEPT ![t] = Head(queue)]

PopEmpty(t) ==
    /\ queue = <<>>
    /\ result' = [result EXCEPT ![t] = Empty]
    /\ UNCHANGED queue

Next ==
    \/ \E x \in Items : Push(x)
    \/ PushFull
    \/ \E t \in Threads : Pop(t) \/ PopEmpty(t)

Spec == Init /\ [][Next]_fifoVars
=============================================================================
