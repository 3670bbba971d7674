------------------------- MODULE LocalQueueProofs -------------------------
(***************************************************************************)
(* Proofs about the ring buffer Local<T>, for every capacity that divides  *)
(* the word size, every number of thieves and every starting position: the *)
(* inductive invariant, that a pop which wins its race returns the item    *)
(* pushed at that position, that steal() never loses an item, and that the *)
(* lock-free buffer implements BoundedFifo.                                *)
(***************************************************************************)
EXTENDS LocalQueue, Integers, SequenceTheorems, TLAPS

----------------------------------------------------------------------------
(* Arithmetic of positions and slots *)

\* The quotient and the remainder of a division by m.
LEMMA DivMod ==
    ASSUME NEW m \in Nat \ {0}, NEW a \in Nat
    PROVE  /\ a % m \in 0..(m - 1)
           /\ a \div m \in Nat
           /\ a = m * (a \div m) + (a % m)
OBVIOUS

\* A remainder is determined by any decomposition of the dividend.
LEMMA ModUnique ==
    ASSUME NEW m \in Nat \ {0}, NEW q \in Nat, NEW r \in 0..(m - 1)
    PROVE  (m * q + r) % m = r
OBVIOUS

\* Adding whole turns of m does not change a remainder.
LEMMA ModShift ==
    ASSUME NEW m \in Nat \ {0}, NEW a \in Nat, NEW k \in Nat
    PROVE  (a + k * m) % m = a % m
<1> DEFINE q == a \div m
           r == a % m
<1>1. r \in 0..(m - 1) /\ q \in Nat /\ a = m * q + r
  BY DivMod
<1> HIDE DEF q, r
<1>2. a + k * m = m * (q + k) + r /\ q + k \in Nat
  BY <1>1
<1>3. (m * (q + k) + r) % m = r
  BY <1>1, <1>2, ModUnique
<1>4. QED
  BY <1>2, <1>3 DEF r

\* Numbers less than m apart have different remainders: the positions in use
\* never share a slot (position & mask).
LEMMA ModDistinct ==
    ASSUME NEW m \in Nat \ {0}, NEW a \in Nat, NEW b \in Nat, a < b, b < a + m
    PROVE  a % m # b % m
<1> SUFFICES ASSUME a % m = b % m PROVE FALSE
  OBVIOUS
<1> DEFINE q == a \div m
           p == b \div m
           r == a % m
<1>1. r \in 0..(m - 1) /\ q \in Nat /\ p \in Nat /\ a = m * q + r /\ b = m * p + r
  BY DivMod
<1> HIDE DEF q, p, r
<1>2. p <= q => m * p <= m * q
  BY <1>1
<1>3. p >= q + 1 => m * p >= m * q + m
  BY <1>1
<1>4. QED
  BY <1>1, <1>2, <1>3

\* Reducing a number by the word size leaves its slot alone, because the
\* capacity divides the word size.
LEMMA SlotOfWord ==
    ASSUME NEW a \in Nat
    PROVE  (a % Modulus) % Capacity = a % Capacity
<1>1. PICK k \in 1..Modulus : Modulus = k * Capacity
  BY CapacityAssumption
<1>2. Modulus \in Nat \ {0} /\ Capacity \in Nat \ {0} /\ k \in Nat
  BY <1>1, CapacityAssumption
<1> DEFINE q == a \div Modulus
           r == a % Modulus
<1>3. r \in 0..(Modulus - 1) /\ q \in Nat /\ a = Modulus * q + r
  BY <1>2, DivMod
<1> HIDE DEF q, r
<1>4. r \in Nat /\ q * k \in Nat
  BY <1>2, <1>3
<1>5. Modulus * q = (q * k) * Capacity
  BY <1>1, <1>2, <1>3
<1>6. a = r + (q * k) * Capacity
  BY <1>2, <1>3, <1>4, <1>5
<1>7. (r + (q * k) * Capacity) % Capacity = r % Capacity
  BY <1>2, <1>4, ModShift
<1>8. QED
  BY <1>6, <1>7 DEF r

\* Reducing a number below two turns by the word size.
LEMMA WordValue ==
    ASSUME NEW a \in Nat, a < 2 * Modulus
    PROVE  a % Modulus = IF a < Modulus THEN a ELSE a - Modulus
BY CapacityAssumption

\* The machine word at which item n + 1 is pushed.
Position(n) == (Origin + n) % Modulus

\* Positions of one behaviour wrap around at most once.
LEMMA PositionValue ==
    ASSUME NEW n \in 0..MaxPushes
    PROVE  /\ Position(n) \in 0..(Modulus - 1)
           /\ Position(n) = IF Origin + n < Modulus THEN Origin + n
                                                    ELSE Origin + n - Modulus
BY CapacityAssumption, NoWholeTurn DEF Position

\* wrapping_add(1) moves to the next position.
LEMMA PositionNext ==
    ASSUME NEW n \in 0..MaxPushes, n < MaxPushes
    PROVE  WrappingAdd(Position(n), 1) = Position(n + 1)
<1>1. n + 1 \in 0..MaxPushes
  BY NoWholeTurn
<1> DEFINE p == Position(n)
           q == Position(n + 1)
<1>2. /\ p = IF Origin + n < Modulus THEN Origin + n ELSE Origin + n - Modulus
      /\ q = IF Origin + n + 1 < Modulus THEN Origin + n + 1
                                       ELSE Origin + n + 1 - Modulus
      /\ p \in 0..(Modulus - 1) /\ q \in 0..(Modulus - 1)
  BY <1>1, PositionValue, CapacityAssumption
<1> HIDE DEF p, q
<1> DEFINE r == p + 1
<1>3. r \in Nat /\ r < 2 * Modulus
  BY <1>2, CapacityAssumption
<1> HIDE DEF r
<1>4. r % Modulus = IF r < Modulus THEN r ELSE r - Modulus
  BY <1>3, WordValue
<1>5. r % Modulus = q
  BY <1>1, <1>2, <1>4, CapacityAssumption, NoWholeTurn DEF r
<1>6. QED
  BY <1>5 DEF p, q, r, WrappingAdd

\* wrapping_sub of two positions is their distance.
LEMMA PositionDistance ==
    ASSUME NEW a \in 0..MaxPushes, NEW b \in 0..MaxPushes, a <= b
    PROVE  WrappingSub(Position(b), Position(a)) = b - a
<1> DEFINE p == Position(a)
           q == Position(b)
           d == q + Modulus - p
<1>1. /\ p = IF Origin + a < Modulus THEN Origin + a ELSE Origin + a - Modulus
      /\ q = IF Origin + b < Modulus THEN Origin + b ELSE Origin + b - Modulus
      /\ p \in 0..(Modulus - 1) /\ q \in 0..(Modulus - 1)
  BY PositionValue
<1> HIDE DEF p, q
<1>2. d \in Nat /\ d < 2 * Modulus
  BY <1>1, CapacityAssumption
<1>3. d % Modulus = IF d < Modulus THEN d ELSE d - Modulus
  BY <1>2, WordValue
<1>4. d % Modulus = b - a
  BY <1>1, <1>2, <1>3, CapacityAssumption, NoWholeTurn
<1>5. QED
  BY <1>4 DEF p, q, WrappingSub

\* Different items have different positions: a compare_exchange on head
\* succeeds only at the very position that was loaded.
LEMMA PositionInjective ==
    ASSUME NEW a \in 0..MaxPushes, NEW b \in 0..MaxPushes,
           Position(a) = Position(b)
    PROVE  a = b
BY PositionValue, CapacityAssumption, NoWholeTurn

\* The slot of the item i places behind position n.
LEMMA SlotOfPosition ==
    ASSUME NEW n \in 0..MaxPushes, NEW i \in Nat
    PROVE  /\ Slot(Position(n) + i) = (Origin + n + i) % Capacity
           /\ Slot(Position(n)) = (Origin + n) % Capacity
           /\ Slot(Position(n)) \in 0..(Capacity - 1)
<1>1. PICK k \in 1..Modulus : Modulus = k * Capacity
  BY CapacityAssumption
<1>2. k \in Nat /\ Capacity \in Nat \ {0} /\ Origin \in Nat /\ n \in Nat
  BY <1>1, CapacityAssumption, NoWholeTurn
<1>3. Position(n) \in Nat
  BY PositionValue, CapacityAssumption
<1>4. Slot(Position(n)) = (Origin + n) % Capacity
  BY <1>2, SlotOfWord DEF Slot, Position
<1>5. CASE Origin + n < Modulus
  <2>1. Position(n) = Origin + n
    BY <1>5, PositionValue
  <2>2. QED
    BY <1>2, <1>4, <2>1, DivMod DEF Slot
<1>6. CASE ~(Origin + n < Modulus)
  <2>1. Origin + n + i = (Position(n) + i) + k * Capacity
    BY <1>1, <1>2, <1>6, PositionValue
  <2>2. ((Position(n) + i) + k * Capacity) % Capacity = (Position(n) + i) % Capacity
    BY <1>2, <1>3, ModShift
  <2>3. QED
    BY <1>2, <1>3, <1>4, <2>1, <2>2, DivMod DEF Slot
<1>7. QED
  BY <1>5, <1>6

----------------------------------------------------------------------------
(* The inductive invariant *)

\* head and tail are the positions of the next item to pop and to push, the
\* popped items are the first ones, and at most Capacity items are in between.
RingInv ==
    /\ PopsInOrder
    /\ Len(popped) <= pushed
    /\ pushed - Len(popped) <= Capacity
    /\ head = Position(Len(popped))
    /\ tail = Position(pushed)

\* Every item that is pushed and not popped is in its slot, complete.
SlotsInv ==
    \A i \in Items : Len(popped) < i /\ i <= pushed =>
        buffer[(Origin + (i - 1)) % Capacity] = i

\* A thread inside pop() has loaded a position head has had.  If head is still
\* there, the slot it is about to read, or has read, holds the item of that
\* position: the owner does not reuse a slot before head has moved past it.
PopInv ==
    \A t \in Threads :
        /\ \E n \in 0..Len(popped) : hd[t] = Position(n)
        /\ pc[t] \in {"popread", "popclaim"} /\ hd[t] = head =>
               Len(popped) < pushed
        /\ pc[t] = "popclaim" /\ hd[t] = head => value[t] = Len(popped) + 1

\* Only the owner pushes.  While it does, the slot at tail is free, and
\* complete when tail is about to be published.
PushInv ==
    /\ \A t \in Threads :
          pc[t] \in {"pushwrite", "pushfill", "pushpublish"} => t = Owner
    /\ pc[Owner] \in {"pushwrite", "pushfill", "pushpublish"} =>
          /\ pushed < MaxPushes
          /\ pushed - Len(popped) < Capacity
    /\ pc[Owner] = "pushpublish" => buffer[Slot(tail)] = pushed + 1

\* The room a steal() reserved is still there for every item it may yet push.
StealInv ==
    /\ StealLosesNothing
    /\ pushed - Len(popped) + steals <= Capacity

IInv == TypeOK /\ RingInv /\ SlotsInv /\ PopInv /\ PushInv /\ StealInv

----------------------------------------------------------------------------
(* Every step preserves it *)

\* The numbers the invariant relates, as bounds the arithmetic lemmas need.
LEMMA Bounds ==
    ASSUME IInv
    PROVE  /\ Len(popped) \in 0..MaxPushes
           /\ pushed \in 0..MaxPushes
           /\ Len(popped) <= pushed
           /\ Capacity \in Nat \ {0} /\ Origin \in Nat /\ MaxPushes \in Nat
           /\ WrappingSub(tail, head) = pushed - Len(popped)
           /\ Owner \in Threads
<1> USE DEF IInv, TypeOK, RingInv
<1>1. Len(popped) \in 0..MaxPushes /\ pushed \in 0..MaxPushes
  BY NoWholeTurn
<1>2. QED
  BY <1>1, PositionDistance, CapacityAssumption, NoWholeTurn DEF Threads

\* The slots of the items in the queue differ from the slot at tail.
LEMMA TailSlotFree ==
    ASSUME IInv, pushed - Len(popped) < Capacity,
           NEW i \in Items, Len(popped) < i, i <= pushed
    PROVE  (Origin + (i - 1)) % Capacity # Slot(tail)
<1>1. Slot(tail) = (Origin + pushed) % Capacity
  BY Bounds, SlotOfPosition, 0 \in Nat DEF IInv, RingInv
<1>2. /\ Origin + (i - 1) \in Nat /\ Origin + pushed \in Nat
      /\ Origin + (i - 1) < Origin + pushed
      /\ Origin + pushed < Origin + (i - 1) + Capacity
  BY Bounds DEF Items
<1>3. QED
  BY <1>1, <1>2, Bounds, ModDistinct

\* The slot at head holds the oldest item.
LEMMA HeadSlot ==
    ASSUME IInv, Len(popped) < pushed
    PROVE  buffer[Slot(head)] = Len(popped) + 1
<1>1. Slot(head) = (Origin + Len(popped)) % Capacity
  BY Bounds, SlotOfPosition, 0 \in Nat DEF IInv, RingInv
<1> DEFINE i == Len(popped) + 1
<1>2. i \in Items /\ Len(popped) < i /\ i <= pushed /\ i - 1 = Len(popped)
  BY Bounds DEF Items
<1>3. i \in Items /\ Len(popped) < i /\ i <= pushed
        => buffer[(Origin + (i - 1)) % Capacity] = i
  BY DEF IInv, SlotsInv
<1> HIDE DEF i
<1>4. QED
  BY <1>1, <1>2, <1>3 DEF i

\* pop(): a thread that finds head where it loaded it has read the oldest item.
LEMMA PopStepInv ==
    ASSUME IInv, NEW t \in Threads, PopLoadHead(t) \/ PopStep(t)
    PROVE  IInv'
<1> USE Bounds
<1>1. CASE PopLoadHead(t)
  <2> USE <1>1 DEF PopLoadHead, Goto, queueVars
  <2>1. TypeOK'
    BY DEF IInv, TypeOK, Points
  <2>2. RingInv' /\ SlotsInv' /\ PushInv' /\ StealInv'
    BY DEF IInv, TypeOK, RingInv, SlotsInv, PushInv, StealInv, PopsInOrder,
           StealLosesNothing, Slot
  <2>3. PopInv'
    BY DEF IInv, TypeOK, RingInv, PopInv
  <2>4. QED
    BY <2>1, <2>2, <2>3 DEF IInv
<1>2. CASE PopLoadTail(t)
  <2> USE <1>2 DEF PopLoadTail, Goto, Answer, queueVars
  <2>1. TypeOK'
    BY DEF IInv, TypeOK, Points, Answers
  <2>2. RingInv' /\ SlotsInv' /\ PushInv' /\ StealInv'
    BY DEF IInv, TypeOK, RingInv, SlotsInv, PushInv, StealInv, PopsInOrder,
           StealLosesNothing, Slot
  <2>3. hd[t] # tail /\ hd[t] = head => Len(popped) < pushed
    BY DEF IInv, RingInv
  <2>4. PopInv'
    BY <2>3 DEF IInv, TypeOK, PopInv
  <2>5. QED
    BY <2>1, <2>2, <2>4 DEF IInv
<1>3. CASE PopRead(t)
  <2> USE <1>3 DEF PopRead, Goto, queueVars
  <2>1. Slot(hd[t]) \in 0..(Capacity - 1)
    <3>1. hd[t] \in Nat /\ Capacity \in Nat \ {0}
      BY CapacityAssumption DEF IInv, TypeOK
    <3>2. QED
      BY <3>1, DivMod DEF Slot
  <2>2. TypeOK'
    BY <2>1 DEF IInv, TypeOK, Points
  <2>3. RingInv' /\ SlotsInv' /\ PushInv' /\ StealInv'
    BY DEF IInv, TypeOK, RingInv, SlotsInv, PushInv, StealInv, PopsInOrder,
           StealLosesNothing, Slot
  <2>4. hd[t] = head => Len(popped) < pushed /\ buffer[Slot(hd[t])] = Len(popped) + 1
    BY HeadSlot DEF IInv, PopInv
  <2>5. PopInv'
    BY <2>4 DEF IInv, TypeOK, PopInv
  <2>6. QED
    BY <2>2, <2>3, <2>5 DEF IInv
<1>4. CASE PopClaim(t)
  <2>1. CASE head # hd[t]
    <3> USE <1>4, <2>1 DEF PopClaim, Goto
    <3>1. TypeOK'
      BY DEF IInv, TypeOK, Points
    <3>2. RingInv' /\ SlotsInv' /\ PushInv' /\ StealInv'
      BY DEF IInv, TypeOK, RingInv, SlotsInv, PushInv, StealInv, PopsInOrder,
             StealLosesNothing, Slot
    <3>3. PopInv'
      BY DEF IInv, TypeOK, RingInv, PopInv
    <3>4. QED
      BY <3>1, <3>2, <3>3 DEF IInv
  <2>2. CASE head = hd[t]
    <3> USE <1>4, <2>2 DEF PopClaim, Goto, Answer
    <3> DEFINE np == Len(popped)
    <3>1. np < pushed /\ value[t] = np + 1 /\ np + 1 \in Items
      BY DEF IInv, PopInv, Items
    <3>2. /\ popped' = Append(popped, np + 1)
          /\ Len(popped') = np + 1
          /\ popped' \in Seq(Items \cup {Torn})
          /\ \A i \in 1..np : popped'[i] = popped[i]
          /\ popped'[np + 1] = np + 1
      <4>1. popped' = Append(popped, np + 1)
        BY <3>1
      <4>2. popped \in Seq(Items \cup {Torn})
        BY DEF IInv, TypeOK
      <4>3. QED
        BY <3>1, <4>1, <4>2, AppendProperties
    <3>3. head' = Position(np + 1)
      <4>1. head = Position(np) /\ np \in 0..MaxPushes /\ np < MaxPushes
        BY <3>1 DEF IInv, RingInv
      <4>2. WrappingAdd(Position(np), 1) = Position(np + 1)
        BY <4>1, PositionNext
      <4>3. QED
        BY <4>1, <4>2
    <3>4. head' \in 0..(Modulus - 1)
      BY <3>1, <3>3, PositionValue
    <3>5. TypeOK'
      BY <3>1, <3>2, <3>4 DEF IInv, TypeOK, Points, Answers
    <3>6. RingInv'
      BY <3>1, <3>2, <3>3, SMTT(30) DEF IInv, TypeOK, RingInv, PopsInOrder
    <3>7. SlotsInv' /\ PushInv' /\ StealInv'
      <4> USE <3>1, <3>2
      <4>1. SlotsInv'
        BY DEF IInv, TypeOK, SlotsInv, Items
      <4>2. PushInv'
        BY DEF IInv, TypeOK, PushInv, Slot
      <4>3. StealInv'
        BY DEF IInv, TypeOK, StealInv, StealLosesNothing
      <4>4. QED
        BY <4>1, <4>2, <4>3
    <3>8. ASSUME NEW u \in Threads PROVE hd'[u] # head'
      <4>1. PICK n \in 0..np : hd[u] = Position(n)
        BY DEF IInv, PopInv
      <4>2. n \in 0..MaxPushes /\ np + 1 \in 0..MaxPushes /\ n # np + 1
        BY <3>1
      <4>3. Position(n) # Position(np + 1)
        BY <4>2, PositionInjective
      <4>4. QED
        BY <3>3, <4>1, <4>3
    <3>9. PopInv'
      BY <3>1, <3>2, <3>8 DEF IInv, PopInv
    <3>10. QED
      BY <3>5, <3>6, <3>7, <3>9 DEF IInv
  <2>3. QED
    BY <2>1, <2>2
<1>5. QED
  BY <1>1, <1>2, <1>3, <1>4 DEF PopStep

\* push(): the owner finds room, fills the slot at tail, which no pop can claim
\* yet, and publishes it.
LEMMA PushStepInv ==
    ASSUME IInv, PushLoadHead \/ PushStep
    PROVE  IInv'
<1> USE Bounds
<1>1. CASE PushLoadHead
  <2> USE <1>1 DEF PushLoadHead, HasRoom, Goto, Answer, queueVars
  <2>1. ~HasRoom => steals = 0
    BY CapacityAssumption DEF IInv, TypeOK, StealInv
  <2>2. TypeOK' /\ dropped' = dropped /\ steals' = steals
    <3>1. CASE HasRoom
      BY <3>1 DEF IInv, TypeOK, Points
    <3>2. CASE ~HasRoom
      BY <2>1, <3>2, SMTT(30) DEF IInv, TypeOK, Answers
    <3>3. QED
      BY <3>1, <3>2
  <2>3. RingInv' /\ SlotsInv' /\ StealInv'
    BY <2>2 DEF IInv, TypeOK, RingInv, SlotsInv, StealInv, PopsInOrder,
           StealLosesNothing
  <2>4. PopInv'
    BY DEF IInv, TypeOK, PopInv
  <2>5. PushInv'
    BY DEF IInv, TypeOK, PushInv
  <2>6. QED
    BY <2>2, <2>3, <2>4, <2>5 DEF IInv
<1>2. ASSUME NEW v \in Items \cup {Torn},
             pc[Owner] \in {"pushwrite", "pushfill"},
             buffer' = [buffer EXCEPT ![Slot(tail)] = v],
             UNCHANGED <<popped, pushed>>
      PROVE  SlotsInv' /\ buffer' \in [0..(Capacity - 1) -> Items \cup {Torn}]
             /\ buffer'[Slot(tail)] = v
  <2>1. Slot(tail) \in 0..(Capacity - 1)
    BY SlotOfPosition, 0 \in Nat DEF IInv, RingInv
  <2>2. pushed - Len(popped) < Capacity
    BY <1>2 DEF IInv, PushInv
  <2>3. SlotsInv'
    BY <1>2, <2>1, <2>2, TailSlotFree DEF IInv, TypeOK, SlotsInv
  <2>4. QED
    BY <1>2, <2>1, <2>3 DEF IInv, TypeOK
<1>3. CASE PushBeginWrite
  <2> USE <1>3 DEF PushBeginWrite, Goto
  <2>1. SlotsInv' /\ buffer' \in [0..(Capacity - 1) -> Items \cup {Torn}]
    BY <1>2
  <2>2. TypeOK'
    BY <2>1 DEF IInv, TypeOK, Points
  <2>3. RingInv' /\ StealInv'
    BY DEF IInv, TypeOK, RingInv, StealInv, PopsInOrder, StealLosesNothing
  <2>4. PopInv'
    BY DEF IInv, TypeOK, PopInv
  <2>5. PushInv'
    BY DEF IInv, TypeOK, PushInv
  <2>6. QED
    BY <2>1, <2>2, <2>3, <2>4, <2>5 DEF IInv
<1>4. CASE PushEndWrite
  <2> USE <1>4 DEF PushEndWrite, Goto
  <2>1. pushed + 1 \in Items
    BY DEF IInv, PushInv, Items
  <2>2. /\ SlotsInv' /\ buffer' \in [0..(Capacity - 1) -> Items \cup {Torn}]
        /\ buffer'[Slot(tail)] = pushed + 1
    BY <1>2, <2>1
  <2>3. TypeOK'
    BY <2>2 DEF IInv, TypeOK, Points
  <2>4. RingInv' /\ StealInv'
    BY DEF IInv, TypeOK, RingInv, StealInv, PopsInOrder, StealLosesNothing
  <2>5. PopInv'
    BY DEF IInv, TypeOK, PopInv
  <2>6. PushInv'
    BY <2>2 DEF IInv, TypeOK, PushInv, Slot
  <2>7. QED
    BY <2>2, <2>3, <2>4, <2>5, <2>6 DEF IInv
<1>5. CASE PushPublish
  <2> USE <1>5 DEF PushPublish, Goto, Answer
  <2>1. pushed < MaxPushes /\ pushed - Len(popped) < Capacity
    BY DEF IInv, PushInv
  <2>2. tail' = Position(pushed + 1)
    <3>1. WrappingAdd(Position(pushed), 1) = Position(pushed + 1)
      BY <2>1, PositionNext
    <3>2. QED
      BY <3>1 DEF IInv, RingInv
  <2>3. tail' \in 0..(Modulus - 1)
    BY <2>1, <2>2, PositionValue
  <2>4. TypeOK'
    BY <2>1, <2>3 DEF IInv, TypeOK, Points, Answers
  <2>5. RingInv'
    BY <2>1, <2>2 DEF IInv, TypeOK, RingInv, PopsInOrder
  <2>6. buffer[(Origin + pushed) % Capacity] = pushed + 1
    <3>1. Slot(tail) = (Origin + pushed) % Capacity
      BY SlotOfPosition, 0 \in Nat DEF IInv, RingInv
    <3>2. QED
      BY <3>1 DEF IInv, PushInv
  <2>7. SlotsInv'
    <3> SUFFICES ASSUME NEW i \in Items, Len(popped) < i, i <= pushed + 1
                 PROVE  buffer[(Origin + (i - 1)) % Capacity] = i
      BY DEF SlotsInv
    <3>1. CASE i <= pushed
      BY <3>1 DEF IInv, SlotsInv
    <3>2. CASE i = pushed + 1
      <4>1. i - 1 = pushed
        BY <3>2
      <4>2. QED
        BY <2>6, <3>2, <4>1
    <3>3. QED
      BY <3>1, <3>2 DEF Items
  <2>8. StealInv'
    BY <2>1 DEF IInv, TypeOK, StealInv, StealLosesNothing
  <2>9. PopInv'
    BY DEF IInv, TypeOK, PopInv
  <2>10. PushInv'
    BY DEF IInv, TypeOK, PushInv
  <2>11. QED
    BY <2>4, <2>5, <2>7, <2>8, <2>9, <2>10 DEF IInv
<1>6. QED
  BY <1>1, <1>3, <1>4, <1>5 DEF PushStep

\* steal(): the room it reserves is what the queue has left.
LEMMA StealStepInv ==
    ASSUME IInv,
           (\E length \in 1..MaxLength : StealReserve(length)) \/ StealSourceEmpty
    PROVE  IInv'
<1> USE Bounds
<1>1. steals' \in 0..Capacity /\ pushed - Len(popped) + steals' <= Capacity
  <2>1. CASE StealSourceEmpty
    BY <2>1 DEF StealSourceEmpty, IInv, TypeOK, RingInv
  <2>2. ASSUME NEW length \in 1..MaxLength, StealReserve(length)
        PROVE  steals' \in 0..Capacity /\ pushed - Len(popped) + steals' <= Capacity
    <3>1. OwnLen = pushed - Len(popped)
      BY DEF OwnLen, IInv, RingInv
    <3>2. (length + 1) \div 2 \in Nat
      BY DivMod
    <3>3. QED
      BY <2>2, <3>1, <3>2 DEF StealReserve, IInv, TypeOK, RingInv
  <2>3. QED
    BY <2>1, <2>2
<1>2. UNCHANGED <<head, tail, buffer, pc, hd, value, pushed, popped, dropped, result>>
  BY DEF StealReserve, StealSourceEmpty, queueVars
<1>3. QED
  BY <1>1, <1>2 DEF IInv, TypeOK, RingInv, SlotsInv, PopInv, PushInv, StealInv,
                    PopsInOrder, StealLosesNothing, Slot

\* IInv is an invariant of the ring buffer.
THEOREM LocalQueueInvariant == Spec => []IInv
<1>1. Init => IInv
  <2> SUFFICES ASSUME Init PROVE IInv
    OBVIOUS
  <2> USE DEF Init
  <2>1. Origin = Position(0) /\ 0 \in 0..MaxPushes
    BY PositionValue, CapacityAssumption, NoWholeTurn
  <2>2. TypeOK
    BY CapacityAssumption, NoWholeTurn DEF TypeOK, Points, Answers
  <2>3. RingInv /\ SlotsInv /\ StealInv
    BY <2>1, CapacityAssumption, NoWholeTurn
       DEF RingInv, SlotsInv, StealInv, PopsInOrder, StealLosesNothing, Items
  <2>4. PopInv /\ PushInv
    BY <2>1 DEF PopInv, PushInv, Threads
  <2>5. QED
    BY <2>2, <2>3, <2>4 DEF IInv
<1>2. IInv /\ [Next]_vars => IInv'
  <2> SUFFICES ASSUME IInv, [Next]_vars PROVE IInv'
    OBVIOUS
  <2>1. CASE Next
    BY <2>1, PopStepInv, PushStepInv, StealStepInv DEF Next
  <2>2. CASE UNCHANGED vars
    BY <2>2 DEF vars, IInv, TypeOK, RingInv, SlotsInv, PopInv, PushInv, StealInv,
                PopsInOrder, StealLosesNothing, Slot
  <2>3. QED
    BY <2>1, <2>2
<1>3. QED
  BY <1>1, <1>2, PTL DEF Spec

\* The variables of the ring buffer keep their types; head and tail stay machine
\* words and steals never exceeds the capacity.
THEOREM LocalQueueTypeCorrect == Spec => []TypeOK
<1>1. IInv => TypeOK
  BY DEF IInv
<1>2. QED
  BY <1>1, LocalQueueInvariant, PTL

\* Whatever the interleaving of pop(), push() and steal(), a pop that wins the
\* race for head returns the item pushed at that position: every item is popped
\* once, in order, and assume_init() never sees a half-written slot.
THEOREM LocalQueuePopsInOrder == Spec => []PopsInOrder
<1>1. IInv => PopsInOrder
  BY DEF IInv, RingInv
<1>2. QED
  BY <1>1, LocalQueueInvariant, PTL

\* The push whose result steal() ignores never fails.
THEOREM LocalQueueStealLosesNothing == Spec => []StealLosesNothing
<1>1. IInv => StealLosesNothing
  BY DEF IInv, StealInv
<1>2. QED
  BY <1>1, LocalQueueInvariant, PTL

----------------------------------------------------------------------------
(* The ring buffer implements the bounded queue *)

\* The sequence the refinement mapping reads out of the buffer.
Queue == [i \in 1..WrappingSub(tail, head) |-> buffer[Slot(head + i - 1)]]

\* It holds exactly the items pushed and not yet popped, oldest first.
ItemsBetween(m, n) == [i \in 1..(n - m) |-> m + i]

QueueInv == Queue = ItemsBetween(Len(popped), pushed)

\* This follows from the invariant, in every state.
LEMMA QueueContents == IInv => QueueInv
<1> SUFFICES ASSUME IInv PROVE QueueInv
  OBVIOUS
<1> USE Bounds
<1>1. ASSUME NEW i \in 1..(pushed - Len(popped))
      PROVE  buffer[Slot(head + i - 1)] = Len(popped) + i
  <2> DEFINE j == Len(popped) + i
  <2>1. i - 1 \in Nat /\ head \in Nat /\ head + i - 1 = head + (i - 1)
    BY DEF IInv, TypeOK
  <2>2. Slot(head + (i - 1)) = (Origin + Len(popped) + (i - 1)) % Capacity
    BY <2>1, SlotOfPosition DEF IInv, RingInv
  <2>3. Origin + Len(popped) + (i - 1) = Origin + (j - 1)
    BY <2>1
  <2>4. j \in Items /\ Len(popped) < j /\ j <= pushed
    BY DEF Items
  <2> HIDE DEF j
  <2>5. buffer[(Origin + (j - 1)) % Capacity] = j
    BY <2>4 DEF IInv, SlotsInv
  <2>6. QED
    BY <2>1, <2>2, <2>3, <2>5 DEF j
<1>2. QED
  BY <1>1 DEF Queue, QueueInv, ItemsBetween

\* Pushing an item appends it to that sequence, popping one removes its head.
LEMMA QueueMoves ==
    ASSUME NEW a \in Nat, NEW b \in Nat, a <= b
    PROVE  /\ ItemsBetween(a, b) \in Seq(Nat)
           /\ Len(ItemsBetween(a, b)) = b - a
           /\ a = b => ItemsBetween(a, b) = <<>>
           /\ ItemsBetween(a, b + 1) = Append(ItemsBetween(a, b), b + 1)
           /\ a < b => /\ ItemsBetween(a, b) # <<>>
                      /\ Head(ItemsBetween(a, b)) = a + 1
                      /\ ItemsBetween(a + 1, b) = Tail(ItemsBetween(a, b))
<1> DEFINE Q == ItemsBetween(a, b)
<1> USE DEF ItemsBetween
<1>1. Q \in Seq(Nat) /\ Len(Q) = b - a
  OBVIOUS
<1>2. a = b => Q = <<>>
  OBVIOUS
<1>3. ItemsBetween(a, b + 1) = Append(Q, b + 1)
  OBVIOUS
<1>4. ASSUME a < b
      PROVE  Q # <<>> /\ Head(Q) = a + 1 /\ ItemsBetween(a + 1, b) = Tail(Q)
  <2>1. Q # <<>> /\ Head(Q) = a + 1
    BY <1>1, <1>4
  <2>2. /\ Tail(Q) \in Seq(Nat) /\ Len(Tail(Q)) = (b - a) - 1
        /\ \A i \in 1..Len(Tail(Q)) : Tail(Q)[i] = Q[i + 1]
    BY <1>1, <1>4, <2>1, HeadTailProperties
  <2>3. /\ ItemsBetween(a + 1, b) \in Seq(Nat)
        /\ Len(ItemsBetween(a + 1, b)) = b - (a + 1)
        /\ \A i \in 1..(b - (a + 1)) : ItemsBetween(a + 1, b)[i] = (a + 1) + i
    BY <1>4
  <2>4. \A i \in 1..(b - (a + 1)) : Q[i + 1] = a + (i + 1)
    BY <1>4
  <2> HIDE DEF ItemsBetween
  <2> DEFINE R == ItemsBetween(a + 1, b)
             T == Tail(Q)
  <2>5. /\ R \in Seq(Nat) /\ T \in Seq(Nat) /\ Len(R) = Len(T)
        /\ \A i \in 1..Len(R) : R[i] = T[i]
    BY <1>4, <2>2, <2>3, <2>4
  <2> HIDE DEF R, T
  <2>6. R = T
    BY <2>5, SeqEqual
  <2>7. QED
    BY <2>1, <2>6 DEF R, T
<1>5. QED
  BY <1>1, <1>2, <1>3, <1>4

\* Every step of the ring buffer, read through the refinement mapping, is a step
\* of the bounded queue or changes nothing of it: a push takes effect when tail
\* is published, a pop when head is claimed, an Empty answer when tail is
\* loaded and a Full one when head is.
LEMMA FifoStep ==
    ASSUME IInv, IInv', [Next]_vars
    PROVE  [Fifo!Next]_(Fifo!fifoVars)
<1> DEFINE np == Len(popped)
<1>1. /\ Queue = ItemsBetween(np, pushed)
      /\ Queue' = ItemsBetween(np', pushed')
  <2>1. QueueInv /\ QueueInv'
    BY QueueContents, PTL
  <2>2. QED
    BY <2>1 DEF QueueInv
<1>2. np \in Nat /\ pushed \in Nat /\ np <= pushed /\ Owner \in Threads
  BY Bounds, NoWholeTurn
<1> USE <1>1, <1>2, QueueMoves
<1>3. ASSUME NEW x \in Items, np' = np, pushed' = pushed + 1, x = pushed + 1,
             pushed - np < Capacity, result' = [result EXCEPT ![Owner] = Ok]
      PROVE  Fifo!Next
  BY <1>3, ZenonT(60) DEF Fifo!Next, Fifo!Push, Queue
<1>4. ASSUME pushed - np = Capacity, UNCHANGED <<pushed, popped>>,
             result' = [result EXCEPT ![Owner] = Full]
      PROVE  Fifo!Next
  BY <1>4 DEF Fifo!Next, Fifo!PushFull, Queue
<1>5. ASSUME NEW t \in Threads, np < pushed, np' = np + 1, pushed' = pushed,
             result' = [result EXCEPT ![t] = np + 1]
      PROVE  Fifo!Next
  BY <1>5 DEF Fifo!Next, Fifo!Pop, Queue
<1>6. ASSUME NEW t \in Threads, np = pushed, UNCHANGED <<pushed, popped>>,
             result' = [result EXCEPT ![t] = Empty]
      PROVE  Fifo!Next
  BY <1>6 DEF Fifo!Next, Fifo!PopEmpty, Queue
<1>7. ASSUME UNCHANGED <<pushed, popped, result>>
      PROVE  UNCHANGED Fifo!fifoVars
  BY <1>7 DEF Fifo!fifoVars, Queue
<1> HIDE <1>1, QueueMoves
<1>8. /\ np \in 0..MaxPushes /\ pushed \in 0..MaxPushes /\ MaxPushes \in Nat
      /\ HasRoom \/ pushed - np = Capacity
  BY Bounds DEF IInv, RingInv, HasRoom
<1> USE DEF IInv, TypeOK, RingInv
<1>9. ASSUME NEW t \in Threads, PopLoadHead(t) \/ PopStep(t)
      PROVE  [Fifo!Next]_(Fifo!fifoVars)
  <2>1. CASE PopLoadHead(t) \/ PopRead(t)
    BY <1>7, <2>1 DEF PopLoadHead, PopRead
  <2>2. CASE PopLoadTail(t)
    <3>1. CASE hd[t] = tail
      <4>1. PICK n \in 0..np : hd[t] = Position(n)
        BY DEF PopInv
      <4>2. n \in 0..MaxPushes /\ pushed \in 0..MaxPushes
        BY <1>8
      <4>3. n = pushed
        BY <3>1, <4>1, <4>2, PositionInjective
      <4>4. np = pushed
        BY <4>1, <4>3
      <4>5. QED
        BY <1>6, <2>2, <3>1, <4>4 DEF PopLoadTail, Answer
    <3>2. CASE hd[t] # tail
      BY <1>7, <2>2, <3>2 DEF PopLoadTail
    <3>3. QED
      BY <3>1, <3>2
  <2>3. CASE PopClaim(t)
    <3>1. CASE head = hd[t]
      <4>1. np < pushed /\ value[t] = np + 1
        BY <2>3, <3>1 DEF PopClaim, PopInv
      <4>2. popped' = Append(popped, np + 1) /\ pushed' = pushed
            /\ result' = [result EXCEPT ![t] = np + 1]
        BY <2>3, <3>1, <4>1 DEF PopClaim, Answer
      <4>3. np' = np + 1
        BY <4>1, <4>2
      <4>4. QED
        BY <1>5, <4>1, <4>2, <4>3
    <3>2. CASE head # hd[t]
      BY <1>7, <2>3, <3>2 DEF PopClaim
    <3>3. QED
      BY <3>1, <3>2
  <2>4. QED
    BY <1>9, <2>1, <2>2, <2>3 DEF PopStep
<1>10. CASE PushLoadHead
  <2>1. CASE HasRoom
    BY <1>7, <1>10, <2>1 DEF PushLoadHead
  <2>2. CASE ~HasRoom
    <3>1. pushed - np = Capacity
      BY <1>8, <2>2
    <3>2. QED
      BY <1>4, <1>10, <2>2, <3>1 DEF PushLoadHead, Answer
  <2>3. QED
    BY <2>1, <2>2
<1>11. CASE PushBeginWrite \/ PushEndWrite
  BY <1>7, <1>11 DEF PushBeginWrite, PushEndWrite
<1>12. CASE PushPublish
  <2>1. pushed + 1 \in Items /\ pushed - np < Capacity
    BY <1>8, <1>12 DEF PushPublish, PushInv, Items
  <2>2. np' = np /\ pushed' = pushed + 1
        /\ result' = [result EXCEPT ![Owner] = Ok]
    BY <1>12 DEF PushPublish, Answer
  <2>3. QED
    BY <1>3, <2>1, <2>2
<1>13. CASE (\E length \in 1..MaxLength : StealReserve(length)) \/ StealSourceEmpty
  BY <1>7, <1>13 DEF StealReserve, StealSourceEmpty
<1>14. CASE UNCHANGED vars
  BY <1>7, <1>14 DEF vars
<1>15. QED
  BY <1>9, <1>10, <1>11, <1>12, <1>13, <1>14 DEF Next, PushStep

\* The lock-free ring buffer implements a bounded FIFO queue: every operation
\* takes effect at one instant and answers truthfully.
THEOREM LocalQueueImplementsFifo == Spec => ImplementsFifo
<1>1. Init => Fifo!Init
  <2> SUFFICES ASSUME Init PROVE Fifo!Init
    OBVIOUS
  <2>1. WrappingSub(tail, head) = 0
    BY CapacityAssumption DEF Init, WrappingSub
  <2>2. QED
    BY <2>1 DEF Init, Fifo!Init
<1>2. IInv /\ IInv' /\ [Next]_vars => [Fifo!Next]_(Fifo!fifoVars)
  BY FifoStep
<1>3. QED
  BY <1>1, <1>2, LocalQueueInvariant, PTL DEF Spec, ImplementsFifo, Fifo!Spec
=============================================================================
