--------------------------- MODULE RunnableProofs ---------------------------
(***************************************************************************)
(* RunnableOnce, for every instance of the executor: no interleaving of the *)
(* schedule closure, the steals and the tickers loses or duplicates a       *)
(* Runnable.                                                                *)
(***************************************************************************)
EXTENDS ExecutorProofs

\* A pop: the head leaves the queue, the others stay.
LEMMA ListTail ==
    ASSUME NEW S, NEW s \in Seq(S), s # <<>>, IsInjective(s)
    PROVE  /\ Tail(s) \in Seq(S) /\ Head(s) \in S
           /\ IsInjective(Tail(s))
           /\ Contains(s, Head(s))
           /\ \A y : Contains(Tail(s), y) <=> Contains(s, y) /\ y # Head(s)
<1> DEFINE t == Tail(s)
<1>1. /\ t \in Seq(S) /\ Len(t) = Len(s) - 1 /\ Len(s) \in Nat \ {0}
      /\ Head(s) = s[1] /\ Head(s) \in S
      /\ \A i \in 1..Len(t) : t[i] = s[i + 1]
  BY HeadTailProperties, LenProperties, EmptySeq
<1> HIDE DEF t
<1>2. \A i, j \in 1..Len(s) : s[i] = s[j] => i = j
  BY InjectiveSeq
<1>3. \A i, j \in 1..Len(t) : t[i] = t[j] => i = j
  BY <1>1, <1>2
<1>4. IsInjective(t)
  BY <1>1, <1>3, InjectiveSeq
<1>5. Contains(s, Head(s))
  BY <1>1 DEF Contains
<1>6. ASSUME NEW y, Contains(s, y), y # Head(s) PROVE Contains(t, y)
  <2>1. PICK i \in 1..Len(s) : s[i] = y
    BY <1>6 DEF Contains
  <2>2. i - 1 \in 1..Len(t) /\ t[i - 1] = y
    BY <1>1, <1>6, <2>1
  <2>3. QED
    BY <2>2 DEF Contains
<1>7. ASSUME NEW y, Contains(t, y) PROVE Contains(s, y) /\ y # Head(s)
  <2>1. PICK i \in 1..Len(t) : t[i] = y
    BY <1>7 DEF Contains
  <2>2. i + 1 \in 1..Len(s) /\ s[i + 1] = y /\ i + 1 # 1
    BY <1>1, <2>1
  <2>3. QED
    BY <1>1, <1>2, <2>2 DEF Contains
<1>8. QED
  BY <1>1, <1>4, <1>5, <1>6, <1>7 DEF t

----------------------------------------------------------------------------
(* The inductive invariant *)

\* The slots a Runnable can be in: the global queue, a run queue, a hand.
Slots == {<<None, "queue">>} \cup (Workers \X {"local", "hand"})

Holds(p, t) ==
    \/ p[2] = "queue" /\ Contains(queue, t)
    \/ p[2] = "local" /\ Contains(local[p[1]], t)
    \/ p[2] = "hand"  /\ hand[p[1]] = t

Scheduled == {"queued", "running", "rewoken"}

\* A Runnable is in one slot at most and there once; it is in one exactly while
\* async_task counts it as scheduled, and in a hand while it runs.
OnceInv ==
    /\ IsInjective(queue)
    /\ \A w \in Workers : IsInjective(local[w])
    /\ \A t \in Tasks : \A p, q \in Slots : Holds(p, t) /\ Holds(q, t) => p = q
    /\ \A t \in Tasks : task[t] \in Scheduled <=> \E p \in Slots : Holds(p, t)
    /\ \A t \in Tasks :
          task[t] \in {"running", "rewoken"} => \E w \in Workers : hand[w] = t

\* A step that takes task t0 from wherever it was to the slot in D, if any.
LEMMA OnceMove ==
    ASSUME OnceInv, NEW t0 \in Tasks, NEW D \in SUBSET Slots, \A p, q \in D : p = q,
           IsInjective(queue'), \A w \in Workers : IsInjective(local'[w]),
           \A t \in Tasks : Contains(queue', t) <=>
               IF t = t0 THEN <<None, "queue">> \in D ELSE Contains(queue, t),
           \A w \in Workers, t \in Tasks : Contains(local'[w], t) <=>
               IF t = t0 THEN <<w, "local">> \in D ELSE Contains(local[w], t),
           \A w \in Workers, t \in Tasks : hand'[w] = t <=>
               IF t = t0 THEN <<w, "hand">> \in D ELSE hand[w] = t,
           \A t \in Tasks : t # t0 => task'[t] = task[t],
           D = {} => task'[t0] \in {"idle", "done"},
           D # {} => task'[t0] = "queued"
    PROVE  OnceInv'
<1>1. ASSUME NEW p \in Slots, NEW t \in Tasks
      PROVE  Holds(p, t)' <=> IF t = t0 THEN p \in D ELSE Holds(p, t)
  <2>1. CASE p = <<None, "queue">>
    BY <2>1 DEF Holds
  <2>2. ASSUME NEW w \in Workers, p = <<w, "local">>
        PROVE  Holds(p, t)' <=> IF t = t0 THEN p \in D ELSE Holds(p, t)
    BY <2>2 DEF Holds
  <2>3. ASSUME NEW w \in Workers, p = <<w, "hand">>
        PROVE  Holds(p, t)' <=> IF t = t0 THEN p \in D ELSE Holds(p, t)
    BY <2>3 DEF Holds
  <2>4. QED
    BY <2>1, <2>2, <2>3 DEF Slots
<1>2. ASSUME NEW t \in Tasks, NEW p \in Slots, NEW q \in Slots, Holds(p, t)', Holds(q, t)'
      PROVE  p = q
  BY <1>1, <1>2 DEF OnceInv
<1>3. ASSUME NEW t \in Tasks
      PROVE  task'[t] \in Scheduled <=> \E p \in Slots : Holds(p, t)'
  <2>1. CASE t = t0
    BY <1>1, <2>1 DEF Scheduled
  <2>2. CASE t # t0
    BY <1>1, <2>2 DEF OnceInv
  <2>3. QED
    BY <2>1, <2>2
<1>4. ASSUME NEW t \in Tasks, task'[t] \in {"running", "rewoken"}
      PROVE  \E w \in Workers : hand'[w] = t
  <2>1. t # t0
    BY <1>4
  <2>2. PICK w \in Workers : hand[w] = t
    BY <1>4, <2>1 DEF OnceInv
  <2>3. QED
    BY <2>1, <2>2
<1>5. QED
  BY <1>2, <1>3, <1>4 DEF OnceInv

\* A step that moves no Runnable.
LEMMA OnceStays ==
    ASSUME OnceInv, UNCHANGED <<queue, local, hand>>,
           \A t \in Tasks : task'[t] \in Scheduled <=> task[t] \in Scheduled,
           \A t \in Tasks : task'[t] \in {"running", "rewoken"} =>
               task[t] \in {"running", "rewoken"} \/ \E w \in Workers : hand[w] = t
    PROVE  OnceInv'
<1>1. \A t \in Tasks, p \in Slots : Holds(p, t)' <=> Holds(p, t)
  BY DEF Holds
<1>2. QED
  BY <1>1 DEF OnceInv

\* What is in a queue waits for a ticker.
LEMMA QueuedTask ==
    ASSUME OnceInv, NEW t \in Tasks,
           Contains(queue, t) \/ \E w \in Workers : Contains(local[w], t)
    PROVE  /\ \A w \in Workers : hand[w] # t
           /\ task[t] \in Scheduled \ {"running", "rewoken"}
           /\ Contains(queue, t) => \A w \in Workers : ~Contains(local[w], t)
           /\ \A v, w \in Workers : Contains(local[v], t) /\ Contains(local[w], t) => v = w
<1>1. PICK p \in Slots : Holds(p, t) /\ p[2] # "hand"
  <2>1. CASE Contains(queue, t)
    <3>1. <<None, "queue">> \in Slots /\ Holds(<<None, "queue">>, t)
      BY <2>1 DEF Slots, Holds
    <3>2. QED
      BY <3>1
  <2>2. ASSUME NEW w \in Workers, Contains(local[w], t)
        PROVE  \E p \in Slots : Holds(p, t) /\ p[2] # "hand"
    <3>1. <<w, "local">> \in Slots /\ Holds(<<w, "local">>, t)
      BY <2>2 DEF Slots, Holds
    <3>2. QED
      BY <3>1
  <2>3. QED
    BY <2>1, <2>2
<1>2. \A w \in Workers : /\ <<w, "hand">> \in Slots /\ (hand[w] = t => Holds(<<w, "hand">>, t))
                         /\ <<w, "local">> \in Slots
                         /\ Contains(local[w], t) => Holds(<<w, "local">>, t)
  BY DEF Slots, Holds
<1>3. <<None, "queue">> \in Slots /\ (Contains(queue, t) => Holds(<<None, "queue">>, t))
  BY DEF Slots, Holds
<1>4. \A q \in Slots : Holds(q, t) => q = p
  BY <1>1 DEF OnceInv
<1>5. ASSUME NEW w \in Workers, hand[w] = t PROVE FALSE
  <2>1. <<w, "hand">> = p
    BY <1>2, <1>4, <1>5
  <2>2. QED
    BY <1>1, <2>1
<1>6. task[t] \in Scheduled \ {"running", "rewoken"}
  BY <1>1, <1>5 DEF OnceInv
<1>7. ASSUME Contains(queue, t), NEW w \in Workers, Contains(local[w], t) PROVE FALSE
  <2>1. <<None, "queue">> = p /\ <<w, "local">> = p
    BY <1>2, <1>3, <1>4, <1>7
  <2>2. p[2] = "queue" /\ p[2] = "local"
    BY <2>1
  <2>3. QED
    BY <2>2
<1>8. ASSUME NEW v \in Workers, NEW w \in Workers, Contains(local[v], t), Contains(local[w], t)
      PROVE  v = w
  <2>1. <<v, "local">> = p /\ <<w, "local">> = p
    BY <1>2, <1>4, <1>8
  <2>2. p[1] = v /\ p[1] = w
    BY <2>1
  <2>3. QED
    BY <2>2
<1>9. QED
  BY <1>5, <1>6, <1>7, <1>8

\* What a ticker holds is in no queue and no other hand.
LEMMA HeldTask ==
    ASSUME OnceInv, NEW w \in Workers, NEW t \in Tasks, hand[w] = t
    PROVE  /\ ~Contains(queue, t) /\ \A v \in Workers : ~Contains(local[v], t)
           /\ \A v \in Workers : hand[v] = t => v = w
           /\ task[t] \in Scheduled
<1>1. \A v \in Workers : /\ <<v, "hand">> \in Slots /\ (hand[v] = t => Holds(<<v, "hand">>, t))
  BY DEF Slots, Holds
<1>2. ASSUME NEW v \in Workers, hand[v] = t PROVE v = w
  <2>1. <<v, "hand">> = <<w, "hand">>
    BY <1>1, <1>2 DEF OnceInv
  <2>2. QED
    BY <2>1
<1>3. task[t] \in Scheduled
  <2>1. \E p \in Slots : Holds(p, t)
    BY <1>1
  <2>2. QED
    BY <2>1 DEF OnceInv
<1>4. QED
  BY <1>2, <1>3, QueuedTask

\* What is not scheduled is nowhere.
LEMMA IdleTask ==
    ASSUME OnceInv, NEW t \in Tasks, task[t] \notin Scheduled
    PROVE  /\ ~Contains(queue, t) /\ \A w \in Workers : ~Contains(local[w], t)
           /\ \A w \in Workers : hand[w] # t
BY HeldTask, QueuedTask

\* The four ways a step moves task t0: to the global queue, ...
LEMMA ToQueue ==
    ASSUME OnceInv, NEW t0 \in Tasks,
           IsInjective(queue'), \A w \in Workers : IsInjective(local'[w]),
           \A t \in Tasks : Contains(queue', t) <=> t = t0 \/ Contains(queue, t),
           \A w \in Workers, t \in Tasks :
               Contains(local'[w], t) <=> t # t0 /\ Contains(local[w], t),
           \A w \in Workers, t \in Tasks : hand'[w] = t <=> t # t0 /\ hand[w] = t,
           \A t \in Tasks : t # t0 => task'[t] = task[t], task'[t0] = "queued"
    PROVE  OnceInv'
<1> DEFINE D == {<<None, "queue">>}
<1>1. D \in SUBSET Slots /\ D # {} /\ <<None, "queue">> \in D /\ \A p, q \in D : p = q
  BY DEF Slots
<1>2. \A w \in Workers : <<w, "local">> \notin D /\ <<w, "hand">> \notin D
  OBVIOUS
<1> HIDE DEF D
<1>3. QED
  BY <1>1, <1>2, OnceMove

\* ... to a run queue, ...
LEMMA ToLocal ==
    ASSUME OnceInv, NEW t0 \in Tasks, NEW w0 \in Workers,
           IsInjective(queue'), \A w \in Workers : IsInjective(local'[w]),
           \A t \in Tasks : Contains(queue', t) <=> t # t0 /\ Contains(queue, t),
           \A w \in Workers, t \in Tasks : Contains(local'[w], t) <=>
               IF t = t0 THEN w = w0 ELSE Contains(local[w], t),
           \A w \in Workers, t \in Tasks : hand'[w] = t <=> t # t0 /\ hand[w] = t,
           \A t \in Tasks : t # t0 => task'[t] = task[t], task'[t0] = "queued"
    PROVE  OnceInv'
<1> DEFINE D == {<<w0, "local">>}
<1>1. D \in SUBSET Slots /\ D # {} /\ <<None, "queue">> \notin D /\ \A p, q \in D : p = q
  BY DEF Slots
<1>2. \A w \in Workers : (<<w, "local">> \in D <=> w = w0) /\ <<w, "hand">> \notin D
  OBVIOUS
<1> HIDE DEF D
<1>3. \A t \in Tasks : Contains(queue', t) <=>
          IF t = t0 THEN <<None, "queue">> \in D ELSE Contains(queue, t)
  BY <1>1
<1>4. \A w \in Workers, t \in Tasks : Contains(local'[w], t) <=>
          IF t = t0 THEN <<w, "local">> \in D ELSE Contains(local[w], t)
  BY <1>2
<1>5. \A w \in Workers, t \in Tasks : hand'[w] = t <=>
          IF t = t0 THEN <<w, "hand">> \in D ELSE hand[w] = t
  BY <1>2
<1>6. QED
  BY <1>1, <1>3, <1>4, <1>5, OnceMove

\* ... into a ticker's hand, ...
LEMMA ToHand ==
    ASSUME OnceInv, NEW t0 \in Tasks, NEW w0 \in Workers,
           IsInjective(queue'), \A w \in Workers : IsInjective(local'[w]),
           \A t \in Tasks : Contains(queue', t) <=> t # t0 /\ Contains(queue, t),
           \A w \in Workers, t \in Tasks :
               Contains(local'[w], t) <=> t # t0 /\ Contains(local[w], t),
           \A w \in Workers, t \in Tasks : hand'[w] = t <=>
               IF t = t0 THEN w = w0 ELSE hand[w] = t,
           \A t \in Tasks : t # t0 => task'[t] = task[t], task'[t0] = "queued"
    PROVE  OnceInv'
<1> DEFINE D == {<<w0, "hand">>}
<1>1. D \in SUBSET Slots /\ D # {} /\ <<None, "queue">> \notin D /\ \A p, q \in D : p = q
  BY DEF Slots
<1>2. \A w \in Workers : (<<w, "hand">> \in D <=> w = w0) /\ <<w, "local">> \notin D
  OBVIOUS
<1> HIDE DEF D
<1>3. \A t \in Tasks : Contains(queue', t) <=>
          IF t = t0 THEN <<None, "queue">> \in D ELSE Contains(queue, t)
  BY <1>1
<1>4. \A w \in Workers, t \in Tasks : Contains(local'[w], t) <=>
          IF t = t0 THEN <<w, "local">> \in D ELSE Contains(local[w], t)
  BY <1>2
<1>5. \A w \in Workers, t \in Tasks : hand'[w] = t <=>
          IF t = t0 THEN <<w, "hand">> \in D ELSE hand[w] = t
  BY <1>2
<1>6. QED
  BY <1>1, <1>3, <1>4, <1>5, OnceMove

\* ... and, its poll over, out of it.
LEMMA ToNowhere ==
    ASSUME IInv, OnceInv, NEW w \in Workers, NEW t0 \in Tasks, hand[w] = t0,
           UNCHANGED <<queue, local>>, hand' = [hand EXCEPT ![w] = None],
           task' \in {[task EXCEPT ![t0] = "idle"], [task EXCEPT ![t0] = "done"]}
    PROVE  OnceInv'
<1> DEFINE D == {}
<1>1. D \in SUBSET Slots /\ D = {} /\ (\A p, q \in D : p = q) /\ (\A p : p \notin D)
  OBVIOUS
<1> HIDE DEF D
<1>2. /\ ~Contains(queue, t0) /\ \A v \in Workers : ~Contains(local[v], t0)
      /\ \A v \in Workers : hand[v] = t0 => v = w
  BY HeldTask
<1>3. hand \in [Workers -> Tasks \cup {None}] /\ task \in [Tasks -> TaskStates]
  BY DEF IInv, CoreInv, TypeOK
<1>4. \A v \in Workers, t \in Tasks : hand'[v] = t <=> IF t = t0 THEN FALSE ELSE hand[v] = t
  BY <1>2, <1>3, NamesAssumption
<1>5. /\ \A t \in Tasks : t # t0 => task'[t] = task[t]
      /\ task'[t0] \in {"idle", "done"}
  BY <1>3
<1>6. IsInjective(queue') /\ \A v \in Workers : IsInjective(local'[v])
  BY DEF OnceInv
<1>7. \A t \in Tasks : Contains(queue', t) <=>
          IF t = t0 THEN <<None, "queue">> \in D ELSE Contains(queue, t)
  BY <1>1, <1>2
<1>8. \A v \in Workers, t \in Tasks : Contains(local'[v], t) <=>
          IF t = t0 THEN <<v, "local">> \in D ELSE Contains(local[v], t)
  BY <1>1, <1>2
<1>9. \A v \in Workers, t \in Tasks : hand'[v] = t <=>
          IF t = t0 THEN <<v, "hand">> \in D ELSE hand[v] = t
  BY <1>1, <1>4
<1>10. QED
  BY <1>1, <1>5, <1>6, <1>7, <1>8, <1>9, OnceMove

----------------------------------------------------------------------------
(* The steps *)

\* Ticker::search takes a task from the ticker's own run queue.
LEMMA OnceSearchLocal ==
    ASSUME IInv, OnceInv, NEW w \in Workers, SearchLocal(w) \/ SearchShardPop(w)
    PROVE  OnceInv'
<1>0. UNCHANGED <<queue, task>>
  BY DEF SearchLocal, SearchShardPop
<1>1. CASE local[w] # <<>>
  <2> DEFINE t0 == Head(local[w])
  <2>1. /\ local' = [local EXCEPT ![w] = Tail(local[w])]
        /\ hand' = [hand EXCEPT ![w] = t0]
    BY <1>1 DEF SearchLocal, SearchShardPop, Take
  <2>2. /\ local \in [Workers -> Seq(Tasks)] /\ hand \in [Workers -> Tasks \cup {None}]
        /\ hand[w] = None
    BY DEF IInv, CoreInv, TypeOK, ControlInv, HoldsAt, NotifyPoints, SearchLocal,
           SearchShardPop
  <2>3. /\ t0 \in Tasks /\ IsInjective(Tail(local[w])) /\ Contains(local[w], t0)
        /\ \A y : Contains(Tail(local[w]), y) <=> Contains(local[w], y) /\ y # t0
    <3>1. local[w] \in Seq(Tasks) /\ IsInjective(local[w])
      BY <2>2 DEF OnceInv
    <3>2. QED
      BY <1>1, <3>1, ListTail
  <2> HIDE DEF t0
  <2>4. /\ \A v \in Workers : hand[v] # t0
        /\ task[t0] = "queued" /\ ~Contains(queue, t0)
        /\ \A v \in Workers : Contains(local[v], t0) => v = w
    BY <2>3, QueuedTask DEF Scheduled
  <2>5. /\ local'[w] = Tail(local[w]) /\ hand'[w] = t0
        /\ \A v \in Workers : v # w => local'[v] = local[v] /\ hand'[v] = hand[v]
    BY <2>1, <2>2
  <2>6. IsInjective(queue') /\ \A v \in Workers : IsInjective(local'[v])
    BY <1>0, <2>3, <2>5 DEF OnceInv
  <2>7. \A v \in Workers, t \in Tasks :
            Contains(local'[v], t) <=> t # t0 /\ Contains(local[v], t)
    BY <2>3, <2>4, <2>5
  <2>8. \A v \in Workers, t \in Tasks :
            hand'[v] = t <=> IF t = t0 THEN v = w ELSE hand[v] = t
    BY <2>2, <2>4, <2>5, NamesAssumption
  <2>9. QED
    BY <1>0, <2>3, <2>4, <2>6, <2>7, <2>8, ToHand
<1>2. CASE local[w] = <<>>
  BY <1>0, <1>2, OnceStays DEF SearchLocal, SearchShardPop
<1>3. QED
  BY <1>1, <1>2

\* Ticker::search takes a task from the global queue.
LEMMA OnceSearchGlobal ==
    ASSUME IInv, OnceInv, NEW w \in Workers, SearchGlobal(w)
    PROVE  OnceInv'
<1>0. UNCHANGED <<local, task>>
  BY DEF SearchGlobal
<1>1. CASE queue # <<>>
  <2> DEFINE t0 == Head(queue)
  <2>1. queue' = Tail(queue) /\ hand' = [hand EXCEPT ![w] = t0]
    BY <1>1 DEF SearchGlobal, Take
  <2>2. /\ queue \in Seq(Tasks) /\ hand \in [Workers -> Tasks \cup {None}]
        /\ hand[w] = None
    BY DEF IInv, CoreInv, TypeOK, ControlInv, HoldsAt, NotifyPoints, SearchGlobal
  <2>3. /\ t0 \in Tasks /\ IsInjective(queue') /\ Contains(queue, t0)
        /\ \A y : Contains(queue', y) <=> Contains(queue, y) /\ y # t0
    <3>1. IsInjective(queue)
      BY DEF OnceInv
    <3>2. QED
      BY <1>1, <2>1, <2>2, <3>1, ListTail
  <2> HIDE DEF t0
  <2>4. /\ \A v \in Workers : hand[v] # t0
        /\ task[t0] = "queued"
        /\ \A v \in Workers : ~Contains(local[v], t0)
    BY <2>3, QueuedTask DEF Scheduled
  <2>5. hand'[w] = t0 /\ \A v \in Workers : v # w => hand'[v] = hand[v]
    BY <2>1, <2>2
  <2>6. \A v \in Workers : IsInjective(local'[v])
    BY <1>0 DEF OnceInv
  <2>7. \A v \in Workers, t \in Tasks :
            Contains(local'[v], t) <=> t # t0 /\ Contains(local[v], t)
    BY <1>0, <2>4
  <2>8. \A v \in Workers, t \in Tasks :
            hand'[v] = t <=> IF t = t0 THEN v = w ELSE hand[v] = t
    BY <2>2, <2>4, <2>5, NamesAssumption
  <2>9. QED
    BY <1>0, <2>3, <2>4, <2>6, <2>7, <2>8, ToHand
<1>2. CASE queue = <<>>
  BY <1>0, <1>2, OnceStays DEF SearchGlobal
<1>3. QED
  BY <1>1, <1>2

\* Local::steal: the task it pops from the source always fits its own run queue.
LEMMA OnceStealOne ==
    ASSUME IInv, OnceInv, NEW w \in Workers, StealOne(w)
    PROVE  OnceInv'
<1> DEFINE from == IF source[w] = "global" THEN queue ELSE local[source[w]]
           rest == IF source[w] = "global" THEN local
                   ELSE [local EXCEPT ![source[w]] = Tail(@)]
           s == source[w]
           t0 == Head(from)
<1>1. s \in Workers \cup {"global"} /\ s # w /\ "global" \notin Workers
  BY NamesAssumption DEF StealOne, IInv, CoreInv, ControlInv
<1>2. /\ queue \in Seq(Tasks) /\ local \in [Workers -> Seq(Tasks)]
      /\ hand' = hand /\ task' = task
      /\ IsInjective(queue) /\ \A v \in Workers : IsInjective(local[v])
  BY DEF IInv, CoreInv, TypeOK, StealOne, OnceInv
<1>3. from \in Seq(Tasks) /\ from # <<>> /\ IsInjective(from)
  BY <1>1, <1>2 DEF StealOne
<1>4. Len(local[w]) < LocalCap
  <2>1. Len(local[w]) \in Nat /\ LocalCap \in Nat /\ left[w] \in Nat
    BY <1>2, BoundsAssumption, LenProperties DEF IInv, CoreInv, TypeOK
  <2>2. left[w] > 0 /\ Len(local[w]) + left[w] <= LocalCap
    BY DEF StealOne, IInv, CoreInv, CapInv
  <2>3. QED
    BY <2>1, <2>2
<1>5. /\ local' = [rest EXCEPT ![w] = Append(@, t0)]
      /\ queue' = IF s = "global" THEN Tail(from) ELSE queue
  BY <1>4 DEF StealOne
<1>6. /\ t0 \in Tasks /\ IsInjective(Tail(from)) /\ Contains(from, t0)
      /\ \A y : Contains(Tail(from), y) <=> Contains(from, y) /\ y # t0
  BY <1>3, ListTail
<1>7. Contains(queue, t0) \/ \E v \in Workers : Contains(local[v], t0)
  BY <1>1, <1>6
<1>8. rest = IF s = "global" THEN local ELSE [local EXCEPT ![s] = Tail(from)]
  BY <1>1
<1>9. from = IF s = "global" THEN queue ELSE local[s]
  OBVIOUS
<1> HIDE DEF rest, from, s, t0
<1>10. /\ task[t0] = "queued" /\ \A v \in Workers : hand[v] # t0
       /\ Contains(queue, t0) => \A v \in Workers : ~Contains(local[v], t0)
       /\ \A u, v \in Workers : Contains(local[u], t0) /\ Contains(local[v], t0) => u = v
  BY <1>6, <1>7, QueuedTask DEF Scheduled
<1>11. ~Contains(local[w], t0)
  BY <1>1, <1>6, <1>9, <1>10
<1>12. /\ IsInjective(Append(local[w], t0))
       /\ \A y : Contains(Append(local[w], t0), y) <=> Contains(local[w], y) \/ y = t0
  <2>1. local[w] \in Seq(Tasks) /\ IsInjective(local[w])
    BY <1>2
  <2>2. QED
    BY <1>6, <1>11, <2>1, ListAppend
<1>13. CASE s = "global"
  <2>1. /\ queue' = Tail(from) /\ local' = [local EXCEPT ![w] = Append(local[w], t0)]
        /\ from = queue
    BY <1>5, <1>8, <1>9, <1>13
  <2>2. /\ local'[w] = Append(local[w], t0)
        /\ \A v \in Workers : v # w => local'[v] = local[v]
    BY <1>2, <2>1
  <2>3. /\ \A v \in Workers : ~Contains(local[v], t0)
        /\ \A t \in Tasks : Contains(queue', t) <=> t # t0 /\ Contains(queue, t)
        /\ IsInjective(queue')
    BY <1>6, <1>10, <2>1
  <2>4. \A v \in Workers, t \in Tasks : Contains(local'[v], t) <=>
            IF t = t0 THEN v = w ELSE Contains(local[v], t)
    BY <1>12, <2>2, <2>3
  <2>5. \A v \in Workers : IsInjective(local'[v])
    BY <1>2, <1>12, <2>2
  <2>6. QED
    BY <1>2, <1>6, <1>10, <2>3, <2>4, <2>5, ToLocal
<1>14. CASE s \in Workers
  <2>1. queue' = queue /\ from = local[s] /\ rest = [local EXCEPT ![s] = Tail(from)]
    BY <1>1, <1>5, <1>8, <1>9, <1>14
  <2>2. /\ local'[w] = Append(local[w], t0) /\ local'[s] = Tail(from)
        /\ \A v \in Workers : v # w /\ v # s => local'[v] = local[v]
    <3>1. rest[w] = local[w] /\ DOMAIN rest = Workers
      BY <1>1, <1>2, <2>1
    <3>2. local' = [rest EXCEPT ![w] = Append(local[w], t0)]
      BY <1>5, <3>1
    <3>3. QED
      BY <1>1, <1>2, <1>14, <2>1, <3>1, <3>2
  <2>3. /\ ~Contains(queue, t0) /\ IsInjective(queue')
        /\ \A v \in Workers : Contains(local[v], t0) => v = s
    BY <1>2, <1>6, <1>10, <1>14, <2>1
  <2>4. \A v \in Workers, t \in Tasks : Contains(local'[v], t) <=>
            IF t = t0 THEN v = w ELSE Contains(local[v], t)
    BY <1>1, <1>6, <1>12, <2>1, <2>2, <2>3
  <2>5. \A v \in Workers : IsInjective(local'[v])
    BY <1>2, <1>6, <1>12, <2>2
  <2>6. \A t \in Tasks : Contains(queue', t) <=> t # t0 /\ Contains(queue, t)
    BY <2>1, <2>3
  <2>7. QED
    BY <1>2, <1>6, <1>10, <2>3, <2>4, <2>5, <2>6, ToLocal
<1>15. QED
  BY <1>1, <1>13, <1>14

\* The schedule closure: a Runnable that is in no queue goes to the run queue, or
\* to the global queue when ErrorFull hands it back.
LEMMA OnceSchedule ==
    ASSUME IInv, OnceInv, NEW th \in Threads, NEW t0 \in Tasks, NEW next,
           \/ th \in Workers /\ Schedule(th, t0, next)
           \/ ScheduleGlobal(th, t0, next),
           task' = [task EXCEPT ![t0] = "queued"],
           ~Contains(queue, t0), \A w \in Workers : ~Contains(local[w], t0),
           \A w \in Workers, t \in Tasks : hand'[w] = t <=> t # t0 /\ hand[w] = t
    PROVE  OnceInv'
<1>1. /\ queue \in Seq(Tasks) /\ local \in [Workers -> Seq(Tasks)]
      /\ task \in [Tasks -> TaskStates]
      /\ IsInjective(queue) /\ \A v \in Workers : IsInjective(local[v])
  BY DEF IInv, CoreInv, TypeOK, OnceInv
<1>2. task'[t0] = "queued" /\ \A t \in Tasks : t # t0 => task'[t] = task[t]
  BY <1>1
<1>3. CASE ScheduleGlobal(th, t0, next)
  <2>1. queue' = Append(queue, t0) /\ local' = local
    BY <1>3 DEF ScheduleGlobal
  <2>2. IsInjective(queue') /\ \A y : Contains(queue', y) <=> Contains(queue, y) \/ y = t0
    BY <1>1, <2>1, ListAppend
  <2>3. /\ \A w \in Workers : IsInjective(local'[w])
        /\ \A t \in Tasks : Contains(queue', t) <=> t = t0 \/ Contains(queue, t)
        /\ \A w \in Workers, t \in Tasks :
              Contains(local'[w], t) <=> t # t0 /\ Contains(local[w], t)
    BY <1>1, <2>1, <2>2
  <2>4. QED
    BY <1>2, <2>2, <2>3, ToQueue
<1>4. CASE th \in Workers /\ ScheduleLocal(th, t0, next)
  <2>1. queue' = queue /\ local' = [local EXCEPT ![th] = Append(local[th], t0)]
    BY <1>4 DEF ScheduleLocal
  <2>2. /\ local'[th] = Append(local[th], t0)
        /\ \A v \in Workers : v # th => local'[v] = local[v]
    BY <1>1, <1>4, <2>1
  <2>3. /\ IsInjective(Append(local[th], t0))
        /\ \A y : Contains(Append(local[th], t0), y) <=> Contains(local[th], y) \/ y = t0
    <3>1. local[th] \in Seq(Tasks) /\ IsInjective(local[th]) /\ ~Contains(local[th], t0)
      BY <1>1, <1>4
    <3>2. QED
      BY <3>1, ListAppend
  <2>4. \A v \in Workers : IsInjective(local'[v])
    BY <1>1, <2>2, <2>3
  <2>5. \A v \in Workers, t \in Tasks : Contains(local'[v], t) <=>
            IF t = t0 THEN v = th ELSE Contains(local[v], t)
    BY <2>2, <2>3
  <2>6. IsInjective(queue') /\ \A t \in Tasks : Contains(queue', t) <=> t # t0 /\ Contains(queue, t)
    BY <1>1, <2>1
  <2>7. QED
    BY <1>2, <1>4, <2>4, <2>5, <2>6, ToLocal
<1>5. QED
  BY <1>3, <1>4 DEF Schedule

LEMMA OnceWakes ==
    ASSUME IInv, OnceInv, NEW th \in Threads, NEW t \in Tasks,
           \/ th \in Workers /\ (RunWakes(th, t) \/ ReactorWakes(th, t))
           \/ OutsiderWake(th, t)
    PROVE  OnceInv'
<1>1. /\ task' = [task EXCEPT ![t] = "queued"] /\ task[t] \notin Scheduled
      /\ UNCHANGED hand
      /\ \E next : \/ th \in Workers /\ Schedule(th, t, next)
                   \/ ScheduleGlobal(th, t, next)
  BY DEF RunWakes, ReactorWakes, OutsiderWake, Scheduled, tickVars
<1>2. /\ ~Contains(queue, t) /\ \A w \in Workers : ~Contains(local[w], t)
      /\ \A w \in Workers : hand[w] # t
  BY <1>1, IdleTask
<1>3. QED
  BY <1>1, <1>2, OnceSchedule

\* The end of a poll, by return or by panic.
LEMMA OnceRunEnds ==
    ASSUME IInv, OnceInv, NEW w \in Workers, RunReturns(w) \/ Panic(w)
    PROVE  OnceInv'
<1> DEFINE t0 == hand[w]
<1>1. /\ t0 \in Tasks /\ hand' = [hand EXCEPT ![w] = None]
      /\ hand \in [Workers -> Tasks \cup {None}]
  BY DEF RunReturns, Panic, IInv, CoreInv, TypeOK, ControlInv, HoldsAt
<1>2. CASE /\ UNCHANGED <<queue, local>>
           /\ task' \in {[task EXCEPT ![t0] = "idle"], [task EXCEPT ![t0] = "done"]}
  BY <1>1, <1>2, ToNowhere
<1>3. CASE /\ task' = [task EXCEPT ![t0] = "queued"] /\ Schedule(w, t0, "next")
  <2>1. /\ ~Contains(queue, t0) /\ \A v \in Workers : ~Contains(local[v], t0)
        /\ \A v \in Workers : hand[v] = t0 => v = w
    BY <1>1, HeldTask
  <2>2. \A v \in Workers, t \in Tasks : hand'[v] = t <=> t # t0 /\ hand[v] = t
    BY <1>1, <2>1, NamesAssumption
  <2> HIDE DEF t0
  <2>3. w \in Threads
    BY DEF Threads
  <2>4. QED
    BY <1>1, <1>3, <2>1, <2>2, <2>3, OnceSchedule
<1>4. QED
  BY <1>2, <1>3 DEF RunReturns, Panic, schedVars

\* Every other step leaves the queues and the hands alone.
LEMMA OnceElsewhere ==
    ASSUME IInv, OnceInv,
           \/ \E th \in Threads : NotifyStep(th)
           \/ \E w \in Workers : \/ SearchStealGlobal(w) \/ SearchShard(w) \/ StealEnd(w)
                                 \/ SleepStep(w) \/ Start(w) \/ NextTick(w)
                                 \/ Unparked(w) \/ Repoll(w)
           \/ \E t \in Tasks : Rewake(t)
           \/ UNCHANGED vars
    PROVE  OnceInv'
<1>1. task \in [Tasks -> TaskStates]
  BY DEF IInv, CoreInv, TypeOK
<1>2. CASE UNCHANGED <<queue, local, hand, task>>
  BY <1>2, OnceStays
<1>3. ASSUME NEW w \in Workers, Start(w) PROVE OnceInv'
  <2>1. /\ hand[w] \in Tasks /\ task' = [task EXCEPT ![hand[w]] = "running"]
        /\ UNCHANGED <<queue, local, hand>>
    BY <1>3 DEF Start, schedVars, tickVars, IInv, CoreInv, ControlInv, HoldsAt
  <2>2. task[hand[w]] \in Scheduled
    BY <2>1, HeldTask
  <2>3. QED
    BY <1>1, <2>1, <2>2, OnceStays DEF Scheduled
<1>4. ASSUME NEW t \in Tasks, Rewake(t) PROVE OnceInv'
  BY <1>1, <1>4, OnceStays DEF Rewake, schedVars, tickVars, Scheduled
<1>5. ASSUME NEW th \in Threads, NotifyStep(th) PROVE UNCHANGED <<queue, local, hand, task>>
  BY <1>5 DEF NotifyStep, NotifyFlag, NotifyPop, NotifyWake, schedVars, tickVars
<1>6. ASSUME NEW w \in Workers, SearchStealGlobal(w) \/ SearchShard(w) \/ StealEnd(w)
      PROVE  UNCHANGED <<queue, local, hand, task>>
  BY <1>6 DEF SearchStealGlobal, SearchShard, StealEnd, schedVars
<1>7. ASSUME NEW w \in Workers, SleepStep(w) PROVE UNCHANGED <<queue, local, hand, task>>
  BY <1>7 DEF SleepStep, Sleep, SleepFlag, Wake, WakeFlag, Bump, schedVars, tickVars
<1>8. ASSUME NEW w \in Workers, NextTick(w) \/ Unparked(w) \/ Repoll(w)
      PROVE  UNCHANGED <<queue, local, hand, task>>
  BY <1>8 DEF NextTick, Unparked, Repoll, schedVars, tickVars
<1>9. CASE UNCHANGED vars
  BY <1>2, <1>9 DEF vars
<1>10. QED
  BY <1>2, <1>3, <1>4, <1>5, <1>6, <1>7, <1>8, <1>9

----------------------------------------------------------------------------
(* The theorems *)

LEMMA InitOnce == Init => OnceInv
<1> SUFFICES ASSUME Init PROVE OnceInv
  OBVIOUS
<1>1. IsInjective(<<>>) /\ \A t : ~Contains(<<>>, t)
  BY DEF IsInjective, Contains
<1>2. ASSUME NEW p \in Slots, NEW t \in Tasks PROVE ~Holds(p, t)
  BY <1>1, NamesAssumption DEF Init, Slots, Holds
<1>3. \A t \in Tasks : task[t] = "new"
  BY DEF Init
<1>4. QED
  BY <1>1, <1>2, <1>3 DEF Init, OnceInv, Scheduled

LEMMA NextOnce == IInv /\ OnceInv /\ [Next]_vars => OnceInv'
<1> SUFFICES ASSUME IInv, OnceInv, [Next]_vars PROVE OnceInv'
  OBVIOUS
<1>1. ASSUME NEW w \in Workers, WorkerStep(w) \/ Panic(w) PROVE OnceInv'
  BY <1>1, OnceSearchLocal, OnceSearchGlobal, OnceStealOne, OnceRunEnds, OnceElsewhere
     DEF WorkerStep, SearchStep, RunStep, Threads
<1>2. ASSUME NEW w \in Workers, NEW t \in Tasks, RunWakes(w, t) \/ ReactorWakes(w, t)
      PROVE  OnceInv'
  BY <1>2, OnceWakes DEF Threads
<1>3. ASSUME NEW th \in Outsiders, NEW t \in Tasks, OutsiderWake(th, t) PROVE OnceInv'
  BY <1>3, OnceWakes DEF Threads
<1>4. ASSUME \/ \E th \in Outsiders : NotifyStep(th)
             \/ \E t \in Tasks : Rewake(t)
             \/ UNCHANGED vars
      PROVE  OnceInv'
  BY <1>4, OnceElsewhere DEF Threads
<1>5. QED
  BY <1>1, <1>2, <1>3, <1>4 DEF Next

\* A Runnable in a slot has one place in it.
LEMMA OncePlace ==
    ASSUME IInv, OnceInv, NEW t \in Tasks, task[t] \in Scheduled
    PROVE  \E x : Places(t) = {x}
<1>1. /\ queue \in Seq(Tasks) /\ local \in [Workers -> Seq(Tasks)]
      /\ \A w \in Workers : Len(local[w]) <= LocalCap /\ Len(local[w]) \in Nat
      /\ LocalCap \in Nat
      /\ DOMAIN queue = 1..Len(queue)
  BY BoundsAssumption, LenProperties DEF IInv, CoreInv, TypeOK, CapInv
<1>2. \A w \in Workers : local[w] \in Seq(Tasks) /\ DOMAIN local[w] = 1..Len(local[w])
  BY <1>1
<1> DEFINE G == {<<"global", i>> : i \in {j \in DOMAIN queue : queue[j] = t}}
           L == {p \in Workers \X (1..LocalCap) :
                     p[2] <= Len(local[p[1]]) /\ local[p[1]][p[2]] = t}
           H == {<<w, 0>> : w \in {v \in Workers : hand[v] = t}}
<1>3. Places(t) = G \cup L \cup H
  BY DEF Places
<1>4. ~Contains(queue, t) => G = {}
  BY <1>1 DEF Contains
<1>5. (\A w \in Workers : ~Contains(local[w], t)) => L = {}
  <2> SUFFICES ASSUME NEW p \in L PROVE \E w \in Workers : Contains(local[w], t)
    OBVIOUS
  <2>1. p[1] \in Workers /\ p[2] \in 1..Len(local[p[1]]) /\ local[p[1]][p[2]] = t
    BY <1>1
  <2>2. QED
    BY <2>1 DEF Contains
<1>6. (\A w \in Workers : hand[w] # t) => H = {}
  OBVIOUS
<1>7. CASE Contains(queue, t)
  <2>1. PICK i \in 1..Len(queue) : queue[i] = t
    BY <1>7 DEF Contains
  <2>2. \A j \in 1..Len(queue) : queue[j] = t => j = i
    BY <1>1, <2>1, InjectiveSeq DEF OnceInv
  <2>3. G = {<<"global", i>>}
    BY <1>1, <2>1, <2>2
  <2>4. L = {} /\ H = {}
    BY <1>5, <1>6, <1>7, QueuedTask
  <2> HIDE DEF G, L, H
  <2>5. QED
    BY <1>3, <2>3, <2>4
<1>8. ASSUME NEW w \in Workers, Contains(local[w], t)
      PROVE  \E x : Places(t) = {x}
  <2>1. PICK i \in 1..Len(local[w]) : local[w][i] = t
    BY <1>8 DEF Contains
  <2>2. IsInjective(local[w])
    BY DEF OnceInv
  <2>3. \A j \in 1..Len(local[w]) : local[w][j] = t => j = i
    BY <1>2, <2>1, <2>2, InjectiveSeq
  <2>4. ~Contains(queue, t) /\ (\A v \in Workers : hand[v] # t)
        /\ \A v \in Workers : Contains(local[v], t) => v = w
    BY <1>8, QueuedTask
  <2>5. L = {<<w, i>>}
    <3>1. <<w, i>> \in L
      BY <1>1, <2>1
    <3>2. ASSUME NEW p \in L PROVE p = <<w, i>>
      <4>1. /\ p = <<p[1], p[2]>> /\ p[1] \in Workers /\ p[2] \in 1..Len(local[p[1]])
            /\ local[p[1]][p[2]] = t
        BY <1>1
      <4>2. p[1] = w
        BY <2>4, <4>1 DEF Contains
      <4>3. p[2] = i
        BY <2>3, <4>1, <4>2
      <4>4. QED
        BY <4>1, <4>2, <4>3
    <3>3. QED
      BY <3>1, <3>2
  <2>6. G = {} /\ H = {}
    BY <1>4, <1>6, <2>4
  <2> HIDE DEF G, L, H
  <2>7. QED
    BY <1>3, <2>5, <2>6
<1>9. ASSUME NEW w \in Workers, hand[w] = t
      PROVE  \E x : Places(t) = {x}
  <2>1. /\ ~Contains(queue, t) /\ \A v \in Workers : ~Contains(local[v], t)
        /\ \A v \in Workers : hand[v] = t => v = w
    BY <1>9, HeldTask
  <2>2. H = {<<w, 0>>}
    BY <1>9, <2>1
  <2>3. G = {} /\ L = {}
    BY <1>4, <1>5, <2>1
  <2> HIDE DEF G, L, H
  <2>4. QED
    BY <1>3, <2>2, <2>3
<1>10. \/ Contains(queue, t)
       \/ \E w \in Workers : Contains(local[w], t) \/ hand[w] = t
  <2>1. PICK p \in Slots : Holds(p, t)
    BY DEF OnceInv
  <2>2. QED
    BY <2>1 DEF Slots, Holds
<1>11. QED
  BY <1>7, <1>8, <1>9, <1>10

\* A task that is not scheduled has no Runnable anywhere.
LEMMA NoPlace ==
    ASSUME IInv, OnceInv, NEW t \in Tasks, task[t] \notin Scheduled
    PROVE  Places(t) = {}
<1>1. /\ queue \in Seq(Tasks) /\ local \in [Workers -> Seq(Tasks)]
      /\ \A w \in Workers : Len(local[w]) \in Nat
      /\ LocalCap \in Nat /\ DOMAIN queue = 1..Len(queue)
  BY BoundsAssumption, LenProperties DEF IInv, CoreInv, TypeOK
<1>2. /\ ~Contains(queue, t) /\ \A w \in Workers : ~Contains(local[w], t)
      /\ \A w \in Workers : hand[w] # t
  BY IdleTask
<1>3. \A j \in DOMAIN queue : queue[j] # t
  BY <1>1, <1>2 DEF Contains
<1>4. ASSUME NEW p \in Workers \X (1..LocalCap), p[2] <= Len(local[p[1]])
      PROVE  local[p[1]][p[2]] # t
  <2>1. p[1] \in Workers /\ p[2] \in 1..Len(local[p[1]])
    BY <1>1, <1>4
  <2>2. QED
    BY <1>2, <2>1 DEF Contains
<1>5. QED
  BY <1>2, <1>3, <1>4 DEF Places

\* Every Runnable is in one slot, together with the executor's invariant.
THEOREM OnceInvariant == Spec => [](IInv /\ OnceInv)
<1>1. QED
  BY ExecutorInvariant, InitOnce, NextOnce, PTL DEF Spec

\* Stealing, overflow to the global queue, re-scheduling and panics never lose or
\* duplicate a Runnable: exactly the scheduled tasks are in one place.
THEOREM RunnablesExactlyOnce == Spec => []RunnableOnce
<1>1. ASSUME IInv, OnceInv, NEW t \in Tasks
      PROVE  /\ task[t] \in {"new", "idle", "done"} => Places(t) = {}
             /\ task[t] \in {"queued", "running", "rewoken"} => Cardinality(Places(t)) = 1
             /\ task[t] \in {"running", "rewoken"} => \E w \in Workers : hand[w] = t
  <2>1. task[t] \in {"new", "idle", "done"} => Places(t) = {}
    BY <1>1, NoPlace DEF Scheduled
  <2>2. task[t] \in {"queued", "running", "rewoken"} => Cardinality(Places(t)) = 1
    BY <1>1, OncePlace, FS_Singleton DEF Scheduled
  <2>3. task[t] \in {"running", "rewoken"} => \E w \in Workers : hand[w] = t
    BY <1>1 DEF OnceInv
  <2>4. QED
    BY <2>1, <2>2, <2>3
<1>2. IInv /\ OnceInv => RunnableOnce
  BY <1>1 DEF RunnableOnce
<1>3. QED
  BY <1>2, OnceInvariant, PTL
=============================================================================
