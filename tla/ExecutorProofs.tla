--------------------------- MODULE ExecutorProofs ---------------------------
(***************************************************************************)
(* Proofs about the executor, for any number of workers, outside threads    *)
(* and tasks, every capacity and every period.                              *)
(***************************************************************************)
EXTENDS Executor, SequenceTheorems, FiniteSetTheorems, TLAPS

----------------------------------------------------------------------------
(* The list of wakers *)

\* Every value in s is there once.
LEMMA InjectiveSeq ==
    ASSUME NEW S, NEW s \in Seq(S)
    PROVE  /\ IsInjective(s) <=> \A i, j \in 1..Len(s) : s[i] = s[j] => i = j
           /\ \A x : x \in Range(s) <=> Contains(s, x)
BY DEF IsInjective, Range, Contains

\* Sleepers::insert and update: the new waker is listed once if it was not there.
LEMMA ListAppend ==
    ASSUME NEW S, NEW s \in Seq(S), NEW x \in S, IsInjective(s), ~Contains(s, x)
    PROVE  /\ Append(s, x) \in Seq(S)
           /\ IsInjective(Append(s, x))
           /\ \A y : Contains(Append(s, x), y) <=> Contains(s, y) \/ y = x
<1> DEFINE t == Append(s, x)
<1>1. /\ t \in Seq(S) /\ Len(t) = Len(s) + 1 /\ Len(s) \in Nat
      /\ \A i \in 1..Len(s) : t[i] = s[i]
      /\ t[Len(s) + 1] = x
  BY AppendProperties, LenProperties
<1> HIDE DEF t
<1>2. \A y : Contains(t, y) <=> Contains(s, y) \/ y = x
  BY <1>1 DEF Contains
<1>3. \A i, j \in 1..Len(t) : t[i] = t[j] => i = j
  BY <1>1, InjectiveSeq DEF Contains
<1>4. IsInjective(t)
  BY <1>1, <1>3, InjectiveSeq
<1>5. QED
  BY <1>1, <1>2, <1>4 DEF t

\* Sleepers::notify: the last waker leaves the list, the others stay.
LEMMA ListFront ==
    ASSUME NEW S, NEW s \in Seq(S), s # <<>>, IsInjective(s)
    PROVE  /\ Front(s) \in Seq(S) /\ Len(Front(s)) = Len(s) - 1 /\ Last(s) \in S
           /\ IsInjective(Front(s))
           /\ Contains(s, Last(s))
           /\ \A y : Contains(Front(s), y) <=> Contains(s, y) /\ y # Last(s)
<1> DEFINE t == Front(s)
<1>1. Len(s) \in Nat \ {0} /\ Last(s) = s[Len(s)] /\ Last(s) \in S
  BY LenProperties, EmptySeq, ElementOfSeq DEF Last
<1>2. /\ t \in Seq(S) /\ Len(t) = Len(s) - 1
      /\ \A i \in 1..Len(t) : t[i] = s[i]
  BY <1>1 DEF Front
<1> HIDE DEF t
<1>3. \A i, j \in 1..Len(s) : s[i] = s[j] => i = j
  BY InjectiveSeq
<1>4. \A i, j \in 1..Len(t) : t[i] = t[j] => i = j
  BY <1>1, <1>2, <1>3
<1>5. IsInjective(t)
  BY <1>2, <1>4, InjectiveSeq
<1>6. Contains(s, Last(s)) /\ \A y : Contains(t, y) <=> Contains(s, y) /\ y # Last(s)
  BY <1>1, <1>2, <1>3 DEF Contains
<1>7. QED
  BY <1>1, <1>2, <1>5, <1>6 DEF t

\* What Sleepers::remove does to the list.
WithoutLast(s, x) ==
    LET i == SelectLastInSeq(s, LAMBDA v : v = x)
    IN  IF i = 0 THEN s ELSE RemoveAt(s, i)

\* Sleepers::remove: the waker, listed once at most, is gone and the others stay.
LEMMA ListRemove ==
    ASSUME NEW S, NEW s \in Seq(S), NEW x \in S, IsInjective(s)
    PROVE  /\ WithoutLast(s, x) \in Seq(S)
           /\ IsInjective(WithoutLast(s, x))
           /\ \A y : Contains(WithoutLast(s, x), y) <=> Contains(s, y) /\ y # x
<1> DEFINE I == {i \in 1..Len(s) : s[i] = x}
           t == WithoutLast(s, x)
<1>1. \A i, j \in 1..Len(s) : s[i] = s[j] => i = j
  BY InjectiveSeq
<1>2. CASE I = {}
  <2>1. t = s
    BY <1>2 DEF WithoutLast, SelectLastInSeq
  <2>2. QED
    BY <1>2, <2>1 DEF Contains
<1>3. ASSUME NEW k \in I PROVE /\ t \in Seq(S) /\ IsInjective(t)
                               /\ \A y : Contains(t, y) <=> Contains(s, y) /\ y # x
  <2>1. k \in 1..Len(s) /\ s[k] = x /\ I = {k} /\ Len(s) \in Nat
    BY <1>1, LenProperties
  <2>2. Max(I) = k
    BY <2>1 DEF Max
  <2>3. t = RemoveAt(s, k)
    BY <2>1, <2>2 DEF WithoutLast, SelectLastInSeq
  <2> DEFINE a == SubSeq(s, 1, k - 1)
             b == SubSeq(s, k + 1, Len(s))
  <2>4. /\ a \in Seq(S) /\ Len(a) = k - 1 /\ \A i \in 1..(k - 1) : a[i] = s[i]
        /\ b \in Seq(S) /\ Len(b) = Len(s) - k
        /\ \A i \in 1..(Len(s) - k) : b[i] = s[k + i]
    BY <2>1
  <2>5. t = a \o b
    BY <2>3 DEF RemoveAt
  <2> HIDE DEF a, b, t
  <2>6. /\ t \in Seq(S) /\ Len(t) = Len(s) - 1
        /\ \A i \in 1..Len(t) : t[i] = IF i < k THEN s[i] ELSE s[i + 1]
    <3>1. /\ t \in Seq(S) /\ Len(t) = Len(a) + Len(b)
          /\ \A i \in 1..(Len(a) + Len(b)) :
                t[i] = IF i <= Len(a) THEN a[i] ELSE b[i - Len(a)]
      BY <2>4, <2>5, ConcatProperties
    <3>2. Len(t) = Len(s) - 1
      BY <2>1, <2>4, <3>1
    <3>3. ASSUME NEW i \in 1..Len(t)
          PROVE  t[i] = IF i < k THEN s[i] ELSE s[i + 1]
      <4>1. CASE i < k
        BY <2>1, <2>4, <3>1, <4>1
      <4>2. CASE ~(i < k)
        <5>1. i - Len(a) \in 1..(Len(s) - k) /\ k + (i - Len(a)) = i + 1
          BY <2>1, <2>4, <3>2, <4>2
        <5>2. t[i] = b[i - Len(a)]
          BY <2>1, <2>4, <3>1, <4>2
        <5>3. b[i - Len(a)] = s[k + (i - Len(a))]
          BY <2>4, <5>1
        <5>4. QED
          BY <4>2, <5>1, <5>2, <5>3
      <4>3. QED
        BY <4>1, <4>2
    <3>4. QED
      BY <3>1, <3>2, <3>3
  <2>7. \A i, j \in 1..Len(t) : t[i] = t[j] => i = j
    BY <1>1, <2>1, <2>6
  <2>8. IsInjective(t)
    BY <2>6, <2>7, InjectiveSeq
  <2>9. ASSUME NEW y, Contains(s, y), y # x PROVE Contains(t, y)
    <3>1. PICK i \in 1..Len(s) : s[i] = y
      BY <2>9 DEF Contains
    <3>2. CASE i < k
      BY <2>1, <2>6, <3>1, <3>2 DEF Contains
    <3>3. CASE i > k
      <4>1. i - 1 \in 1..Len(t) /\ t[i - 1] = s[i]
        BY <2>1, <2>6, <3>1, <3>3
      <4>2. QED
        BY <3>1, <4>1 DEF Contains
    <3>4. QED
      BY <2>1, <2>9, <3>1, <3>2, <3>3
  <2>10. ASSUME NEW y, Contains(t, y) PROVE Contains(s, y) /\ y # x
    BY <1>1, <2>1, <2>6, <2>10 DEF Contains
  <2>11. QED
    BY <2>6, <2>8, <2>9, <2>10
<1>4. QED
  BY <1>2, <1>3

\* A list without repetition of members of a finite set is no longer than the
\* set is large.
LEMMA ListLength ==
    ASSUME NEW S, IsFiniteSet(S), NEW s \in Seq(S), IsInjective(s)
    PROVE  Len(s) <= Cardinality(S)
<1>1. s \in Injection(1..Len(s), S)
  BY DEF Injection
<1>2. Cardinality(1..Len(s)) <= Cardinality(S)
  BY <1>1, FS_Injection
<1>3. Cardinality(1..Len(s)) = Len(s)
  <2>1. 1 \in Int /\ Len(s) \in Int /\ Len(s) >= 0
    BY LenProperties
  <2>2. Cardinality(1..Len(s)) = IF 1 > Len(s) THEN 0 ELSE Len(s) - 1 + 1
    BY <2>1, FS_Interval
  <2>3. QED
    BY <2>1, <2>2
<1>4. QED
  BY <1>2, <1>3

----------------------------------------------------------------------------
(* The inductive invariant *)

\* The domains that TypeOK leaves out.
ShapeInv ==
    /\ pc \in [Threads -> WorkerPoints \cup {"out"}]
    /\ ret \in [Threads -> WorkerPoints \cup {"out"}]
    /\ target \in [Threads -> (Workers \cup {None}) \X (0..MaxPanics)]

NotifyPoints == {"notify", "notifypop", "notifywake"}

\* A ticker at point p, to go on at r after notify() or steal(), has taken a
\* Runnable out of a queue and has not finished running it.
HoldsAt(p, r) ==
    \/ p \in {"stealglobal", "wake", "wakeflag", "bump", "start", "run"}
    \/ p \in NotifyPoints /\ r \in {"bump", "run"}
    \/ p = "steal" /\ r \in {"wake", "start"}

\* Where a worker at point p may go on after notify() and steal().
ReturnsTo(p, r) ==
    /\ p \in NotifyPoints => r \in {"bump", "run", "next", "pending", "react"}
    /\ p = "steal" => r \in {"wake", "shardpop", "start"}

\* Where a thread goes on after notify() and steal(), what a ticker holds, and
\* where it steals from.
ControlInv ==
    /\ \A th \in Outsiders : ret[th] = "out"
    /\ \A w \in Workers :
          /\ ReturnsTo(pc[w], ret[w])
          /\ HoldsAt(pc[w], ret[w]) => hand[w] \in Tasks
          /\ ~HoldsAt(pc[w], ret[w]) => hand[w] = None
          /\ pc[w] = "steal" => source[w] \in Workers \cup {"global"}
          /\ w \notin shards[w]
          /\ source[w] # w

\* No run queue overflows, and a steal in progress has the room it reserved.
CapInv ==
    \A w \in Workers :
        /\ Len(local[w]) <= LocalCap
        /\ pc[w] = "steal" => Len(local[w]) + left[w] <= LocalCap

\* The two critical sections of Sleepers that the model splits.
SlockInv ==
    \A w \in Workers : pc[w] \in {"sleepflag", "wakeflag"} => slock = w

\* A worker at point p waits in its block_on, or is about to after a notify().
WaitsAt(p, r) == p = "pending" \/ (p \in NotifyPoints /\ r = "pending")

\* NotifiedTickerWakes, for a worker inside State::notify too; and nobody can
\* take the waker off the list before Ticker::sleep is over.
WakeInv ==
    \A w \in Workers :
        /\ sleeping[w] /\ ~Contains(wakers, w) /\ WaitsAt(pc[w], ret[w]) =>
              \/ token[w]
              \/ \E th \in Threads :
                    pc[th] = "notifywake" /\ target[th] = <<w, run[w]>>
        /\ pc[w] = "sleepflag" => Contains(wakers, w)

\* LocalNotStranded, for a worker inside State::notify too; and a worker that
\* looks elsewhere or falls asleep has found its own queue empty, which only it
\* fills.
LocalInv ==
    \A w \in Workers :
        /\ pc[w] \in {"global", "shards", "sleep", "sleepflag"} => local[w] = <<>>
        /\ run[w] = 0 /\ WaitsAt(pc[w], ret[w]) /\ local[w] # <<>> => token[w]

\* Types and control.
CoreInv == TypeOK /\ ShapeInv /\ ControlInv /\ CapInv

\* The list of sleepers and the wakes that depend on it.
SleepInv == SleepersConsistent /\ SlockInv /\ FlagNeverWedged /\ WakeInv

IInv == CoreInv /\ SleepInv /\ LocalInv

----------------------------------------------------------------------------
(* What a step of one worker has to respect *)

\* Worker w goes to point q, and on to r from there.
Moves(w, q, r) ==
    /\ pc' = [pc EXCEPT ![w] = q]
    /\ ret' = [ret EXCEPT ![w] = r]

\* Control: the worker holds a Runnable exactly where it should.
LEMMA ControlMove ==
    ASSUME CoreInv, NEW w \in Workers, NEW q \in WorkerPoints,
           NEW r \in WorkerPoints \cup {"out"}, Moves(w, q, r),
           NEW h, hand' = [hand EXCEPT ![w] = h],
           ReturnsTo(q, r),
           HoldsAt(q, r) => h \in Tasks, ~HoldsAt(q, r) => h = None,
           UNCHANGED target,
           \A v \in Workers : v # w => source'[v] = source[v] /\ shards'[v] = shards[v],
           q = "steal" => source'[w] \in Workers \cup {"global"},
           w \notin shards'[w], source'[w] # w
    PROVE  /\ ShapeInv' /\ ControlInv'
           /\ \A v \in Workers : pc'[v] \in WorkerPoints
           /\ \A th \in Outsiders : pc'[th] \in OutsiderPoints
           /\ hand' \in [Workers -> Tasks \cup {None}]
<1> USE NamesAssumption DEF CoreInv, TypeOK, ShapeInv, Moves, Threads
<1>1. \A v \in Workers : v # w => pc'[v] = pc[v] /\ ret'[v] = ret[v] /\ hand'[v] = hand[v]
  OBVIOUS
<1>2. pc'[w] = q /\ ret'[w] = r /\ hand'[w] = h
  OBVIOUS
<1>3. \A th \in Outsiders : pc'[th] = pc[th] /\ ret'[th] = ret[th]
  OBVIOUS
<1>4. ControlInv'
  BY <1>1, <1>2, <1>3, SMTT(30) DEF ControlInv
<1>5. ShapeInv'
  OBVIOUS
<1>6. hand' \in [Workers -> Tasks \cup {None}]
  OBVIOUS
<1>7. QED
  BY <1>1, <1>2, <1>3, <1>4, <1>5, <1>6

\* Room: a worker fills only its own run queue, within its capacity.
LEMMA CapMove ==
    ASSUME CoreInv, NEW w \in Workers, NEW q, pc' = [pc EXCEPT ![w] = q],
           \A v \in Workers : v # w => Len(local'[v]) <= Len(local[v]) /\ left'[v] = left[v],
           local' \in [Workers -> Seq(Tasks)], left' \in [Workers -> 0..LocalCap],
           Len(local'[w]) <= LocalCap,
           q = "steal" => Len(local'[w]) + left'[w] <= LocalCap
    PROVE  CapInv'
<1> SUFFICES ASSUME NEW v \in Workers
             PROVE  /\ Len(local'[v]) <= LocalCap
                    /\ pc'[v] = "steal" => Len(local'[v]) + left'[v] <= LocalCap
  BY DEF CapInv
<1>1. Len(local[v]) \in Nat /\ Len(local'[v]) \in Nat /\ LocalCap \in Nat
      /\ left[v] \in Nat /\ left'[v] \in Nat
  BY BoundsAssumption, LenProperties DEF CoreInv, TypeOK
<1>2. CASE v = w
  BY <1>2 DEF CoreInv, ShapeInv, Threads
<1>3. CASE v # w
  <2>1. pc'[v] = pc[v]
    BY <1>3 DEF CoreInv, ShapeInv, Threads
  <2>2. Len(local[v]) <= LocalCap /\ (pc[v] = "steal" => Len(local[v]) + left[v] <= LocalCap)
    BY DEF CoreInv, CapInv
  <2>3. QED
    BY <1>1, <1>3, <2>1, <2>2
<1>4. QED
  BY <1>2, <1>3

\* Run queues: who waits has nothing to run, or its token.
LEMMA LocalMove ==
    ASSUME IInv, NEW w \in Workers, NEW q, NEW r, Moves(w, q, r),
           \A v \in Workers : v # w =>
               /\ local[v] = <<>> => local'[v] = <<>>
               /\ token[v] => token'[v]
               /\ run'[v] = run[v],
           q \in {"global", "shards", "sleep", "sleepflag"} => local'[w] = <<>>,
           run'[w] = 0 /\ WaitsAt(q, r) /\ local'[w] # <<>> => token'[w]
    PROVE  LocalInv'
<1>1. pc'[w] = q /\ ret'[w] = r
  BY DEF IInv, CoreInv, ShapeInv, Threads, Moves
<1>2. \A v \in Workers : v # w => pc'[v] = pc[v] /\ ret'[v] = ret[v]
  BY DEF IInv, CoreInv, ShapeInv, Threads, Moves
<1>3. QED
  BY <1>1, <1>2 DEF IInv, LocalInv

\* Sleepers: a step outside Sleepers and notify() leaves them alone, and the
\* worker does not begin to wait without its token.
LEMMA SleepMove ==
    ASSUME IInv, NEW w \in Workers, NEW q, NEW r, Moves(w, q, r),
           pc[w] \notin {"notifypop", "notifywake", "sleepflag", "wakeflag"},
           q \notin {"notifypop", "notifywake", "sleepflag", "wakeflag"},
           UNCHANGED <<slock, count, wakers, sleeping, notified, target>>,
           \A v \in Workers : v # w => (token[v] => token'[v]) /\ run'[v] = run[v],
           WaitsAt(q, r) => \/ token'[w]
                            \/ /\ WaitsAt(pc[w], ret[w])
                               /\ token[w] => token'[w]
                               /\ run'[w] = run[w]
    PROVE  SleepInv'
<1> USE DEF IInv, SleepInv
<1>1. pc'[w] = q /\ ret'[w] = r
  BY DEF CoreInv, ShapeInv, Threads, Moves
<1>2. \A th \in Threads : th # w => pc'[th] = pc[th] /\ ret'[th] = ret[th]
  BY DEF CoreInv, ShapeInv, Moves
<1>3. SleepersConsistent'
  BY DEF SleepersConsistent, Sleeping
<1>4. SlockInv'
  BY <1>1, <1>2 DEF SlockInv, Threads
<1>5. Notifying => Notifying'
  BY <1>1, <1>2 DEF Notifying
<1>6. FlagNeverWedged'
  BY <1>5 DEF FlagNeverWedged
<1>7. ASSUME NEW v \in Workers, sleeping[v], ~Contains(wakers, v),
             WaitsAt(pc'[v], ret'[v])
      PROVE  \/ token'[v]
             \/ \E th \in Threads : pc'[th] = "notifywake" /\ target'[th] = <<v, run'[v]>>
  <2>1. token'[v] \/ (WaitsAt(pc[v], ret[v]) /\ (token[v] => token'[v]) /\ run'[v] = run[v])
    BY <1>1, <1>2, <1>7 DEF Threads
  <2>2. WaitsAt(pc[v], ret[v]) =>
            \/ token[v]
            \/ \E th \in Threads : pc[th] = "notifywake" /\ target[th] = <<v, run[v]>>
    BY <1>7 DEF WakeInv
  <2>3. \A th \in Threads : pc[th] = "notifywake" => pc'[th] = "notifywake" /\ target'[th] = target[th]
    BY <1>2
  <2>4. QED
    BY <2>1, <2>2, <2>3
<1>8. \A v \in Workers : pc'[v] = "sleepflag" => Contains(wakers', v)
  BY <1>1, <1>2 DEF WakeInv, Threads
<1>9. WakeInv'
  BY <1>7, <1>8 DEF WakeInv
<1>10. QED
  BY <1>3, <1>4, <1>6, <1>9

\* The types of what only the tickers and the schedule closure change.
DataInv ==
    /\ queue \in Seq(Tasks)
    /\ local \in [Workers -> Seq(Tasks)]
    /\ source \in [Workers -> Workers \cup {"global", None}]
    /\ left \in [Workers -> 0..LocalCap]
    /\ shards \in [Workers -> SUBSET Workers]
    /\ ticks \in [Workers -> 0..(StealPeriod - 1)]
    /\ batch \in [Workers -> 0..(BatchSize - 1)]
    /\ token \in [Workers -> BOOLEAN]
    /\ run \in [Workers -> 0..MaxPanics]
    /\ task \in [Tasks -> TaskStates]

\* A step of w that touches neither Sleepers nor the notified flag and takes
\* from the other workers no more than tasks of their run queues.
OwnStep(w) ==
    /\ UNCHANGED <<slock, count, wakers, sleeping, notified, target>>
    /\ \A v \in Workers : v # w =>
          /\ Len(local'[v]) <= Len(local[v])
          /\ left'[v] = left[v] /\ source'[v] = source[v] /\ shards'[v] = shards[v]
          /\ token[v] => token'[v]
          /\ run'[v] = run[v]

\* Points inside Sleepers or with a notification on its way.
SleeperPoints == {"notifypop", "notifywake", "sleepflag", "wakeflag"}

\* The three frames above together: what a step of a ticker that stays out of
\* Sleepers has to respect.
LEMMA OwnMove ==
    ASSUME IInv, NEW w \in Workers, OwnStep(w), DataInv',
           NEW q \in WorkerPoints, NEW r \in WorkerPoints \cup {"out"}, Moves(w, q, r),
           pc[w] \notin SleeperPoints, q \notin SleeperPoints,
           NEW h, hand' = [hand EXCEPT ![w] = h],
           ReturnsTo(q, r),
           HoldsAt(q, r) => h \in Tasks, ~HoldsAt(q, r) => h = None,
           q = "steal" => source'[w] \in Workers \cup {"global"},
           w \notin shards'[w], source'[w] # w,
           Len(local'[w]) <= LocalCap,
           q = "steal" => Len(local'[w]) + left'[w] <= LocalCap,
           q \in {"global", "shards", "sleep", "sleepflag"} => local'[w] = <<>>,
           run'[w] = 0 /\ WaitsAt(q, r) /\ local'[w] # <<>> => token'[w],
           WaitsAt(q, r) => \/ token'[w]
                            \/ /\ WaitsAt(pc[w], ret[w])
                               /\ token[w] => token'[w]
                               /\ run'[w] = run[w]
    PROVE  IInv'
<1>0. CoreInv
  BY DEF IInv
<1>1. /\ ShapeInv' /\ ControlInv'
      /\ \A v \in Workers : pc'[v] \in WorkerPoints
      /\ \A th \in Outsiders : pc'[th] \in OutsiderPoints
      /\ hand' \in [Workers -> Tasks \cup {None}]
  <2>1. /\ UNCHANGED target
        /\ \A v \in Workers : v # w => source'[v] = source[v] /\ shards'[v] = shards[v]
    BY DEF OwnStep
  <2>2. QED
    BY <1>0, <2>1, ControlMove
<1>2. TypeOK'
  BY <1>0, <1>1 DEF CoreInv, TypeOK, ShapeInv, DataInv, OwnStep
<1>3. CapInv'
  <2>1. /\ \A v \in Workers : v # w => Len(local'[v]) <= Len(local[v]) /\ left'[v] = left[v]
        /\ local' \in [Workers -> Seq(Tasks)] /\ left' \in [Workers -> 0..LocalCap]
        /\ pc' = [pc EXCEPT ![w] = q]
    BY DEF OwnStep, DataInv, Moves
  <2>2. QED
    BY <1>0, <2>1, CapMove
<1>4. SleepInv'
  <2>1. /\ UNCHANGED <<slock, count, wakers, sleeping, notified, target>>
        /\ \A v \in Workers : v # w => (token[v] => token'[v]) /\ run'[v] = run[v]
    BY DEF OwnStep
  <2>2. QED
    BY <2>1, SleepMove DEF SleeperPoints
<1>5. LocalInv'
  <2>1. ASSUME NEW v \in Workers, v # w
        PROVE  /\ local[v] = <<>> => local'[v] = <<>>
               /\ token[v] => token'[v]
               /\ run'[v] = run[v]
    <3>1. local[v] \in Seq(Tasks) /\ local'[v] \in Seq(Tasks)
      BY <1>0, <1>2 DEF CoreInv, TypeOK
    <3>2. Len(local'[v]) <= Len(local[v]) /\ (token[v] => token'[v]) /\ run'[v] = run[v]
      BY <2>1 DEF OwnStep
    <3>3. local[v] = <<>> => Len(local'[v]) = 0
      BY <3>1, <3>2, EmptySeq, LenProperties
    <3>4. QED
      BY <3>1, <3>2, <3>3, EmptySeq
  <2>2. QED
    BY <2>1, LocalMove
<1>6. QED
  BY <1>1, <1>2, <1>3, <1>4, <1>5 DEF IInv, CoreInv

----------------------------------------------------------------------------
(* Ticker::search *)

LEMMA SearchLocalStep ==
    ASSUME IInv, NEW w \in Workers, SearchLocal(w) \/ SearchShardPop(w)
    PROVE  IInv'
<1> USE DEF SearchLocal, SearchShardPop, Take, Goto, IInv, CoreInv, TypeOK, ShapeInv,
            Threads
<1>1. CASE local[w] # <<>>
  <2>1. Moves(w, "wake", ret[w]) /\ hand' = [hand EXCEPT ![w] = Head(local[w])]
    BY <1>1 DEF Moves
  <2>2. /\ Head(local[w]) \in Tasks /\ Tail(local[w]) \in Seq(Tasks)
        /\ Len(Tail(local[w])) = Len(local[w]) - 1 /\ Len(local[w]) \in Nat
    BY <1>1, HeadTailProperties, LenProperties
  <2>3. local' = [local EXCEPT ![w] = Tail(local[w])]
    BY <1>1
  <2>4. DataInv' /\ OwnStep(w) /\ local'[w] = Tail(local[w])
    <3>1. local' \in [Workers -> Seq(Tasks)]
      BY <2>2, <2>3
    <3>2. local'[w] = Tail(local[w]) /\ \A v \in Workers : v # w => local'[v] = local[v]
      BY <2>3
    <3>3. DataInv'
      BY <3>1 DEF DataInv
    <3>4. OwnStep(w)
      BY <3>2 DEF OwnStep, sleepVars
    <3>5. QED
      BY <3>2, <3>3, <3>4
  <2>5. /\ Len(local'[w]) <= LocalCap
        /\ w \notin shards'[w] /\ source'[w] # w
        /\ pc[w] \notin SleeperPoints /\ ret[w] \in WorkerPoints \cup {"out"}
    BY BoundsAssumption, <2>2, <2>4, SMTT(30) DEF ControlInv, CapInv, SleeperPoints
  <2> HIDE DEF SearchLocal, SearchShardPop, IInv
  <2>6. QED
    BY <2>1, <2>2, <2>4, <2>5, OwnMove
       DEF ReturnsTo, HoldsAt, WaitsAt, WorkerPoints, SleeperPoints, NotifyPoints
<1>2. CASE local[w] = <<>>
  <2> DEFINE q == IF pc[w] = "search" THEN "global" ELSE "shards"
  <2>1. Moves(w, q, ret[w]) /\ hand' = [hand EXCEPT ![w] = hand[w]]
    BY <1>2 DEF Moves
  <2>2. hand[w] = None
    BY DEF ControlInv, HoldsAt, NotifyPoints
  <2>4. DataInv' /\ OwnStep(w)
    BY <1>2, SMTT(30) DEF DataInv, OwnStep, sleepVars
  <2>5. /\ Len(local'[w]) <= LocalCap /\ local'[w] = <<>>
        /\ w \notin shards'[w] /\ source'[w] # w
        /\ pc[w] \notin SleeperPoints /\ ret[w] \in WorkerPoints \cup {"out"}
    BY BoundsAssumption, <1>2 DEF ControlInv, CapInv, SleeperPoints
  <2> HIDE DEF SearchLocal, SearchShardPop, IInv
  <2>6. QED
    BY <2>1, <2>2, <2>4, <2>5, OwnMove
       DEF ReturnsTo, HoldsAt, WaitsAt, WorkerPoints, SleeperPoints, NotifyPoints
<1>3. QED
  BY <1>1, <1>2

LEMMA SearchGlobalStep ==
    ASSUME IInv, NEW w \in Workers, SearchGlobal(w)
    PROVE  IInv'
<1> USE DEF SearchGlobal, Take, Goto, IInv, CoreInv, TypeOK, ShapeInv, Threads
<1>1. CASE queue # <<>>
  <2>1. Moves(w, "stealglobal", ret[w]) /\ hand' = [hand EXCEPT ![w] = Head(queue)]
    BY <1>1 DEF Moves
  <2>2. Head(queue) \in Tasks /\ Tail(queue) \in Seq(Tasks)
    BY <1>1, HeadTailProperties
  <2>3. DataInv' /\ OwnStep(w)
    <3>1. queue' \in Seq(Tasks) /\ shards' = shards
      BY <1>1, <2>2
    <3>2. DataInv'
      BY <3>1 DEF DataInv
    <3>3. OwnStep(w)
      BY <3>1, LenProperties DEF OwnStep, sleepVars
    <3>4. QED
      BY <3>2, <3>3
  <2>4. /\ Len(local'[w]) <= LocalCap
        /\ w \notin shards'[w] /\ source'[w] # w
        /\ pc[w] \notin SleeperPoints /\ ret[w] \in WorkerPoints \cup {"out"}
    BY <1>1 DEF ControlInv, CapInv, SleeperPoints
  <2> HIDE DEF SearchGlobal, IInv
  <2>5. QED
    BY <2>1, <2>2, <2>3, <2>4, OwnMove
       DEF ReturnsTo, HoldsAt, WaitsAt, WorkerPoints, SleeperPoints, NotifyPoints
<1>2. CASE queue = <<>>
  <2>1. Moves(w, "shards", ret[w]) /\ hand' = [hand EXCEPT ![w] = hand[w]]
    BY <1>2 DEF Moves
  <2>2. hand[w] = None
    BY DEF ControlInv, HoldsAt, NotifyPoints
  <2>3. /\ shards' \in [Workers -> SUBSET Workers] /\ w \notin shards'[w]
        /\ \A v \in Workers : v # w => shards'[v] = shards[v]
    <3>1. shards' = [shards EXCEPT ![w] = Workers \ {w}]
      BY <1>2
    <3>2. shards \in [Workers -> SUBSET Workers]
      OBVIOUS
    <3> HIDE DEF SearchGlobal, IInv
    <3>3. QED
      BY <3>1, <3>2
  <2>4. DataInv' /\ OwnStep(w)
    <3>1. queue' = queue
      BY <1>2
    <3>2. DataInv'
      BY <2>3, <3>1 DEF DataInv
    <3>3. OwnStep(w)
      BY <2>3, LenProperties DEF OwnStep, sleepVars
    <3>4. QED
      BY <3>2, <3>3
  <2>5. /\ Len(local'[w]) <= LocalCap /\ local'[w] = <<>> /\ source'[w] # w
        /\ pc[w] \notin SleeperPoints /\ ret[w] \in WorkerPoints \cup {"out"}
    BY <1>2 DEF ControlInv, CapInv, SleeperPoints, LocalInv
  <2> HIDE DEF SearchGlobal, IInv
  <2>6. QED
    BY <2>1, <2>2, <2>3, <2>4, <2>5, OwnMove
       DEF ReturnsTo, HoldsAt, WaitsAt, WorkerPoints, SleeperPoints, NotifyPoints
<1>3. QED
  BY <1>1, <1>2

\* The share that Local::steal takes fits a run queue of capacity c that holds l.
LEMMA StealShare ==
    ASSUME NEW half \in Nat, NEW l \in Nat, NEW c \in Nat, l <= c
    PROVE  LET n == IF half <= c - l THEN half ELSE c - l
           IN  n \in 0..c /\ l + n <= c
OBVIOUS

\* Local::steal reserves no more than its own run queue has room for.
LEMMA BeginStealStep ==
    ASSUME IInv, NEW w \in Workers,
           NEW from \in Workers \cup {"global"}, from # w, NEW length \in Nat,
           NEW next \in {"wake", "shardpop", "start"},
           BeginSteal(w, from, length, next),
           pc[w] \in {"stealglobal", "shards", "bump"},
           HoldsAt("steal", next) <=> HoldsAt(pc[w], ret[w]),
           UNCHANGED <<schedVars, sleepVars, notified, target, hand, batch, run, task>>,
           ticks' \in [Workers -> 0..(StealPeriod - 1)],
           shards' \in [Workers -> SUBSET Workers], w \notin shards'[w],
           \A v \in Workers : v # w => shards'[v] = shards[v]
    PROVE  IInv'
<1> USE DEF IInv, CoreInv, TypeOK, ShapeInv, Threads
<1> DEFINE half == (length + 1) \div 2
           room == LocalCap - Len(local[w])
           n    == IF half <= room THEN half ELSE room
<1>1. Moves(w, "steal", next) /\ hand' = [hand EXCEPT ![w] = hand[w]]
  BY DEF Moves, BeginSteal, Goto
<1>2. n \in 0..LocalCap /\ Len(local[w]) + n <= LocalCap /\ Len(local[w]) <= LocalCap
  <2>1. half \in Nat
    OBVIOUS
  <2>2. Len(local[w]) \in Nat /\ Len(local[w]) <= LocalCap /\ LocalCap \in Nat
    BY BoundsAssumption, LenProperties DEF CapInv
  <2> HIDE DEF half, IInv
  <2>3. QED
    BY <2>1, <2>2, StealShare
<1>3. left' = [left EXCEPT ![w] = n] /\ source' = [source EXCEPT ![w] = from]
  BY DEF BeginSteal
<1> HIDE DEF n
<1>4. /\ left' \in [Workers -> 0..LocalCap] /\ left'[w] = n
      /\ \A v \in Workers : v # w => left'[v] = left[v]
  BY <1>2, <1>3
<1>5. /\ source' \in [Workers -> Workers \cup {"global", None}] /\ source'[w] = from
      /\ \A v \in Workers : v # w => source'[v] = source[v]
  BY <1>3
<1>6. DataInv' /\ OwnStep(w)
  <2>1. DataInv'
    BY <1>4, <1>5 DEF DataInv, schedVars
  <2>2. OwnStep(w)
    BY <1>4, <1>5, LenProperties DEF OwnStep, schedVars, sleepVars
  <2>3. QED
    BY <2>1, <2>2
<1>7. /\ HoldsAt("steal", next) => hand[w] \in Tasks
      /\ ~HoldsAt("steal", next) => hand[w] = None
  BY DEF ControlInv
<1>8. pc[w] \notin SleeperPoints /\ local'[w] = local[w]
  BY DEF SleeperPoints, schedVars
<1>9. /\ ReturnsTo("steal", next) /\ ~WaitsAt("steal", next)
      /\ "steal" \in WorkerPoints \ SleeperPoints /\ next \in WorkerPoints
  BY DEF ReturnsTo, WaitsAt, WorkerPoints, SleeperPoints, NotifyPoints
<1>10. Len(local'[w]) <= LocalCap /\ Len(local'[w]) + left'[w] <= LocalCap
  BY <1>2, <1>4, <1>8
<1> HIDE DEF IInv
<1>11. QED
  BY <1>1, <1>5, <1>6, <1>7, <1>8, <1>9, <1>10, OwnMove

LEMMA SearchStealStep ==
    ASSUME IInv, NEW w \in Workers, SearchStealGlobal(w) \/ SearchShard(w)
    PROVE  IInv'
<1> USE DEF IInv, CoreInv, TypeOK, ShapeInv, Threads
<1>1. CASE SearchStealGlobal(w)
  <2>1. /\ Len(queue) \in Nat /\ "global" # w
        /\ HoldsAt("steal", "wake") <=> HoldsAt(pc[w], ret[w])
    BY <1>1, NamesAssumption, LenProperties DEF SearchStealGlobal, HoldsAt
  <2>2. /\ ticks' \in [Workers -> 0..(StealPeriod - 1)]
        /\ shards' \in [Workers -> SUBSET Workers] /\ w \notin shards'[w]
        /\ \A v \in Workers : v # w => shards'[v] = shards[v]
    BY <1>1 DEF SearchStealGlobal, ControlInv
  <2> HIDE DEF IInv
  <2>3. QED
    BY <1>1, <2>1, <2>2, BeginStealStep DEF SearchStealGlobal
<1>2. ASSUME NEW v \in shards[w], pc[w] = "shards",
             shards' = [shards EXCEPT ![w] = @ \ {v}],
             BeginSteal(w, v, Len(local[v]), "shardpop"),
             UNCHANGED <<schedVars, sleepVars, notified, target, hand, ticks, batch,
                         run, task>>
      PROVE  IInv'
  <2>1. /\ v \in Workers /\ v # w /\ Len(local[v]) \in Nat
        /\ HoldsAt("steal", "shardpop") <=> HoldsAt(pc[w], ret[w])
    BY <1>2, LenProperties DEF HoldsAt, NotifyPoints, ControlInv
  <2>2. /\ ticks' \in [Workers -> 0..(StealPeriod - 1)]
        /\ shards' \in [Workers -> SUBSET Workers] /\ w \notin shards'[w]
        /\ \A x \in Workers : x # w => shards'[x] = shards[x]
    BY <1>2 DEF ControlInv
  <2> HIDE DEF IInv
  <2>3. QED
    BY <1>2, <2>1, <2>2, BeginStealStep
<1>3. CASE /\ pc[w] = "shards" /\ Goto(w, "sleep")
           /\ UNCHANGED <<shards, source, left, ret>>
           /\ UNCHANGED <<schedVars, sleepVars, notified, target, hand, ticks, batch,
                          run, task>>
  <2>1. Moves(w, "sleep", ret[w]) /\ hand' = [hand EXCEPT ![w] = hand[w]]
    BY <1>3 DEF Moves, Goto
  <2>2. hand[w] = None
    BY <1>3 DEF ControlInv, HoldsAt, NotifyPoints
  <2>3. DataInv' /\ OwnStep(w)
    BY <1>3, LenProperties DEF DataInv, OwnStep, schedVars, sleepVars
  <2>4. /\ Len(local'[w]) <= LocalCap /\ local'[w] = <<>>
        /\ source'[w] # w /\ w \notin shards'[w]
        /\ pc[w] \notin SleeperPoints /\ ret[w] \in WorkerPoints \cup {"out"}
    BY <1>3 DEF ControlInv, CapInv, SleeperPoints, LocalInv, schedVars
  <2> HIDE DEF IInv
  <2>5. QED
    BY <2>1, <2>2, <2>3, <2>4, OwnMove
       DEF ReturnsTo, HoldsAt, WaitsAt, WorkerPoints, SleeperPoints, NotifyPoints
<1>4. QED
  BY <1>1, <1>2, <1>3 DEF SearchShard

\* Local::steal moves one task: its own run queue has room for it, and only the
\* victim's gets shorter.
LEMMA StealOneStep ==
    ASSUME IInv, NEW w \in Workers, StealOne(w)
    PROVE  IInv'
<1> USE DEF IInv, CoreInv, TypeOK, ShapeInv, Threads
<1> DEFINE from == IF source[w] = "global" THEN queue ELSE local[source[w]]
           rest == IF source[w] = "global" THEN local
                   ELSE [local EXCEPT ![source[w]] = Tail(@)]
           s == source[w]
<1>1. s \in Workers \cup {"global"} /\ s # w /\ w # "global"
  BY NamesAssumption DEF StealOne, ControlInv
<1>2. from \in Seq(Tasks) /\ from # <<>>
  BY <1>1 DEF StealOne
<1>3. /\ Head(from) \in Tasks /\ Tail(from) \in Seq(Tasks)
      /\ Len(Tail(from)) = Len(from) - 1 /\ Len(from) \in Nat
  BY <1>2, HeadTailProperties, LenProperties
<1>4. queue' \in Seq(Tasks)
  BY <1>3 DEF StealOne
<1>5. /\ rest \in [Workers -> Seq(Tasks)] /\ rest[w] = local[w]
      /\ \A v \in Workers : v # w => Len(rest[v]) <= Len(local[v])
  <2>1. CASE s = "global"
    BY <2>1, LenProperties
  <2>2. CASE s \in Workers
    <3>1. from = local[s] /\ rest = [local EXCEPT ![s] = Tail(from)]
      BY <2>2, NamesAssumption
    <3> HIDE DEF rest, from
    <3>2. /\ rest \in [Workers -> Seq(Tasks)] /\ rest[s] = Tail(from)
          /\ \A v \in Workers : v # s => rest[v] = local[v]
      BY <2>2, <1>3, <3>1
    <3>3. QED
      BY <1>1, <1>3, <2>2, <3>1, <3>2, LenProperties
  <2>3. QED
    BY <1>1, <2>1, <2>2
<1>6. /\ Len(local[w]) \in Nat /\ left[w] \in 1..LocalCap /\ LocalCap \in Nat
      /\ Len(local[w]) + left[w] <= LocalCap
  BY BoundsAssumption, LenProperties DEF StealOne, CapInv
<1>7. local' = [rest EXCEPT ![w] = Append(local[w], Head(from))]
  <2>1. local' = [rest EXCEPT ![w] = Append(@, Head(from))]
    BY <1>6 DEF StealOne
  <2> HIDE DEF rest, from
  <2>2. QED
    BY <1>5, <2>1
<1>8. /\ left' \in [Workers -> 0..LocalCap] /\ left'[w] = left[w] - 1
      /\ \A v \in Workers : v # w => left'[v] = left[v]
  <2>1. left' = [left EXCEPT ![w] = left[w] - 1] /\ left \in [Workers -> 0..LocalCap]
    BY DEF StealOne
  <2>2. left[w] - 1 \in 0..LocalCap
    BY <1>6
  <2> HIDE DEF IInv
  <2>3. QED
    BY <2>1, <2>2
<1> HIDE DEF rest, from
<1>9. /\ Append(local[w], Head(from)) \in Seq(Tasks)
      /\ Len(Append(local[w], Head(from))) = Len(local[w]) + 1
  BY <1>3, AppendProperties
<1>10. /\ local' \in [Workers -> Seq(Tasks)] /\ Len(local'[w]) = Len(local[w]) + 1
       /\ \A v \in Workers : v # w => Len(local'[v]) <= Len(local[v])
  BY <1>5, <1>7, <1>9
<1>11. DataInv'
  BY <1>4, <1>8, <1>10 DEF StealOne, DataInv
<1>12. OwnStep(w)
  BY <1>8, <1>10 DEF StealOne, OwnStep, sleepVars
<1>13. Moves(w, "steal", ret[w]) /\ hand' = [hand EXCEPT ![w] = hand[w]] /\ pc[w] = "steal"
  BY DEF StealOne, Moves
<1>14. /\ ReturnsTo("steal", ret[w])
       /\ HoldsAt("steal", ret[w]) => hand[w] \in Tasks
       /\ ~HoldsAt("steal", ret[w]) => hand[w] = None
       /\ source'[w] = s /\ w \notin shards'[w]
  <2>1. source'[w] = s /\ w \notin shards'[w]
    BY DEF StealOne, ControlInv
  <2>2. QED
    BY <1>13, <2>1 DEF ControlInv
<1>15. Len(local'[w]) <= LocalCap /\ Len(local'[w]) + left'[w] <= LocalCap
  BY <1>6, <1>8, <1>10, SMTT(30)
<1>16. ret[w] \in WorkerPoints \cup {"out"}
  OBVIOUS
<1> HIDE DEF IInv, s
<1>17. QED
  BY <1>1, <1>11, <1>12, <1>13, <1>14, <1>15, <1>16, OwnMove
     DEF WaitsAt, WorkerPoints, SleeperPoints, NotifyPoints

LEMMA StealEndStep ==
    ASSUME IInv, NEW w \in Workers, StealEnd(w)
    PROVE  IInv'
<1> USE DEF IInv, CoreInv, TypeOK, ShapeInv, Threads
<1>1. /\ pc[w] = "steal" /\ ret[w] \in {"wake", "shardpop", "start"}
      /\ Moves(w, ret[w], ret[w]) /\ hand' = [hand EXCEPT ![w] = hand[w]]
  BY DEF StealEnd, ControlInv, ReturnsTo, Moves, Goto
<1>2. /\ HoldsAt(ret[w], ret[w]) => hand[w] \in Tasks
      /\ ~HoldsAt(ret[w], ret[w]) => hand[w] = None
  BY <1>1 DEF ControlInv, HoldsAt, NotifyPoints
<1>3. /\ left' \in [Workers -> 0..LocalCap]
      /\ source' \in [Workers -> Workers \cup {"global", None}]
      /\ source'[w] = None /\ None # w
      /\ \A v \in Workers : v # w => left'[v] = left[v] /\ source'[v] = source[v]
  BY BoundsAssumption, NamesAssumption DEF StealEnd
<1>4. DataInv'
  BY <1>3 DEF StealEnd, DataInv, schedVars
<1>5. OwnStep(w)
  BY <1>3, LenProperties DEF StealEnd, OwnStep, schedVars, sleepVars
<1>6. /\ Len(local'[w]) <= LocalCap /\ w \notin shards'[w]
      /\ pc[w] \notin SleeperPoints /\ ret[w] \in WorkerPoints
  BY <1>1 DEF StealEnd, ControlInv, CapInv, SleeperPoints, WorkerPoints, schedVars
<1> HIDE DEF IInv
<1>7. QED
  BY <1>1, <1>2, <1>3, <1>4, <1>5, <1>6, OwnMove
     DEF ReturnsTo, WaitsAt, SleeperPoints, NotifyPoints

----------------------------------------------------------------------------
(* Ticker::run, the schedule closure and block_on *)

LEMMA BumpStep ==
    ASSUME IInv, NEW w \in Workers, Bump(w)
    PROVE  IInv'
<1> USE DEF IInv, CoreInv, TypeOK, ShapeInv, Threads
<1>1. ticks' \in [Workers -> 0..(StealPeriod - 1)]
  <2>1. /\ ticks' = [ticks EXCEPT ![w] = (ticks[w] + 1) % StealPeriod]
        /\ ticks \in [Workers -> 0..(StealPeriod - 1)]
    BY DEF Bump
  <2>2. (ticks[w] + 1) % StealPeriod \in 0..(StealPeriod - 1)
    <3>1. ticks[w] \in 0..(StealPeriod - 1) /\ StealPeriod \in Nat \ {0}
      BY BoundsAssumption
    <3> HIDE DEF IInv
    <3>2. QED
      BY <3>1
  <2> HIDE DEF IInv
  <2>3. QED
    BY <2>1, <2>2
<1>2. /\ shards' \in [Workers -> SUBSET Workers] /\ w \notin shards'[w]
      /\ \A v \in Workers : v # w => shards'[v] = shards[v]
  BY DEF Bump, ControlInv
<1>3. CASE StealDue(w)
  <2>1. /\ Len(queue) \in Nat /\ "global" # w /\ pc[w] = "bump"
        /\ HoldsAt("steal", "start") <=> HoldsAt(pc[w], ret[w])
    BY NamesAssumption, LenProperties DEF Bump, HoldsAt
  <2> HIDE DEF IInv
  <2>2. QED
    BY <1>1, <1>2, <1>3, <2>1, BeginStealStep DEF Bump
<1>4. CASE ~StealDue(w)
  <2>1. /\ Moves(w, "start", ret[w]) /\ hand' = [hand EXCEPT ![w] = hand[w]]
        /\ pc[w] = "bump" /\ ret[w] \in WorkerPoints \cup {"out"}
        /\ UNCHANGED <<source, left>>
    BY <1>4 DEF Bump, Moves, Goto
  <2>2. HoldsAt("start", ret[w]) /\ hand[w] \in Tasks
    BY <2>1 DEF ControlInv, HoldsAt
  <2>3. DataInv'
    BY <1>1, <2>1 DEF Bump, DataInv, schedVars
  <2>4. OwnStep(w)
    BY <2>1, LenProperties DEF Bump, OwnStep, schedVars, sleepVars
  <2>5. Len(local'[w]) <= LocalCap /\ source'[w] # w
    BY <2>1 DEF Bump, ControlInv, CapInv, schedVars
  <2> HIDE DEF IInv
  <2>6. QED
    BY <1>2, <2>1, <2>2, <2>3, <2>4, <2>5, OwnMove
       DEF ReturnsTo, WaitsAt, WorkerPoints, SleeperPoints, NotifyPoints
<1>5. QED
  BY <1>3, <1>4

LEMMA StartStep ==
    ASSUME IInv, NEW w \in Workers, Start(w)
    PROVE  IInv'
<1> USE DEF IInv, CoreInv, TypeOK, ShapeInv, Threads
<1>1. /\ Moves(w, "run", ret[w]) /\ hand' = [hand EXCEPT ![w] = hand[w]]
      /\ pc[w] = "start" /\ ret[w] \in WorkerPoints \cup {"out"}
  BY DEF Start, Moves, Goto, tickVars
<1>2. HoldsAt("run", ret[w]) /\ hand[w] \in Tasks
  BY <1>1 DEF ControlInv, HoldsAt
<1>3. task' \in [Tasks -> TaskStates]
  BY <1>2 DEF Start, TaskStates
<1>4. DataInv'
  BY <1>3 DEF Start, DataInv, schedVars, tickVars
<1>5. OwnStep(w)
  BY LenProperties DEF Start, OwnStep, schedVars, sleepVars, tickVars
<1>6. Len(local'[w]) <= LocalCap /\ source'[w] # w /\ w \notin shards'[w]
  BY DEF Start, ControlInv, CapInv, schedVars, tickVars
<1> HIDE DEF IInv
<1>7. QED
  BY <1>1, <1>2, <1>4, <1>5, <1>6, OwnMove
     DEF ReturnsTo, WaitsAt, WorkerPoints, SleeperPoints, NotifyPoints

\* The schedule closure on a worker: the Runnable goes to the run queue, whose
\* owner is woken, or to the global queue, which is announced.
LEMMA ScheduleStep ==
    ASSUME IInv, NEW w \in Workers, NEW t \in Tasks,
           NEW next \in {"run", "next", "pending", "react"}, Schedule(w, t, next),
           pc[w] \in {"run", "pending", "react"},
           next = "pending" => pc[w] = "pending",
           NEW h, hand' = [hand EXCEPT ![w] = h],
           next = "run" => h \in Tasks, next # "run" => h = None,
           task' \in [Tasks -> TaskStates],
           UNCHANGED <<sleepVars, notified, target, source, left, shards, ticks,
                       batch, run>>
    PROVE  IInv'
<1> USE DEF IInv, CoreInv, TypeOK, ShapeInv, Threads
<1>1. /\ next \in WorkerPoints \ SleeperPoints /\ "notify" \in WorkerPoints \ SleeperPoints
      /\ pc[w] \notin SleeperPoints
      /\ ReturnsTo("notify", next) /\ ReturnsTo(next, ret[w])
      /\ HoldsAt(next, ret[w]) <=> next = "run"
      /\ HoldsAt("notify", next) <=> next = "run"
      /\ WaitsAt(next, ret[w]) <=> next = "pending"
      /\ WaitsAt("notify", next) <=> next = "pending"
      /\ pc[w] = "pending" => WaitsAt(pc[w], ret[w])
  BY DEF WorkerPoints, SleeperPoints, ReturnsTo, HoldsAt, WaitsAt, NotifyPoints
<1>2. source'[w] # w /\ w \notin shards'[w] /\ ret[w] \in WorkerPoints \cup {"out"}
  BY DEF ControlInv
<1>3. /\ Len(local[w]) \in Nat /\ Len(local[w]) <= LocalCap /\ LocalCap \in Nat
      /\ local[w] \in Seq(Tasks)
  BY BoundsAssumption, LenProperties DEF CapInv
<1>4. CASE Len(local[w]) < LocalCap /\ ScheduleLocal(w, t, next)
  <2>1. Moves(w, next, ret[w])
    BY <1>4 DEF ScheduleLocal, Moves, Goto
  <2>2. local' = [local EXCEPT ![w] = Append(local[w], t)]
    BY <1>4 DEF ScheduleLocal
  <2>3. Append(local[w], t) \in Seq(Tasks) /\ Len(Append(local[w], t)) = Len(local[w]) + 1
    BY <1>3, AppendProperties
  <2>4. /\ local' \in [Workers -> Seq(Tasks)] /\ Len(local'[w]) <= LocalCap
        /\ \A v \in Workers : v # w => local'[v] = local[v]
    BY <1>3, <1>4, <2>2, <2>3
  <2>5. /\ token' \in [Workers -> BOOLEAN]
        /\ \A v \in Workers : token[v] => token'[v]
        /\ run[w] = 0 => token'[w]
    <3>1. CASE run[w] = 0
      <4>1. token' = [token EXCEPT ![w] = TRUE] /\ token \in [Workers -> BOOLEAN]
        BY <1>4, <3>1 DEF ScheduleLocal, WakeLocal
      <4> HIDE DEF IInv
      <4>2. QED
        BY <4>1
    <3>2. CASE run[w] # 0
      BY <1>4, <3>2 DEF ScheduleLocal, WakeLocal
    <3>3. QED
      BY <3>1, <3>2
  <2>6. DataInv'
    BY <1>4, <2>4, <2>5 DEF ScheduleLocal, DataInv
  <2>7. OwnStep(w)
    BY <2>4, <2>5, LenProperties, SMTT(30) DEF OwnStep, sleepVars
  <2>8. run'[w] = run[w] /\ next # "steal"
    OBVIOUS
  <2> HIDE DEF IInv
  <2>9. ASSUME next \in {"global", "shards", "sleep", "sleepflag"} PROVE FALSE
    BY <2>9
  <2>10. QED
    BY <1>1, <1>2, <2>1, <2>4, <2>5, <2>6, <2>7, <2>8, <2>9, OwnMove
<1>5. CASE ScheduleGlobal(w, t, next)
  <2>1. Moves(w, "notify", next) /\ UNCHANGED <<local, token>>
    BY <1>5 DEF ScheduleGlobal, Moves, Goto
  <2>2. queue' \in Seq(Tasks)
    BY <1>5, AppendProperties DEF ScheduleGlobal
  <2>3. DataInv'
    BY <2>1, <2>2 DEF DataInv
  <2>4. OwnStep(w)
    BY <2>1, LenProperties DEF OwnStep, sleepVars
  <2>5. run'[w] = 0 /\ pc[w] = "pending" /\ local'[w] # <<>> => token'[w]
    BY <1>1, <2>1 DEF LocalInv
  <2>6. run'[w] = run[w] /\ token'[w] = token[w] /\ Len(local'[w]) <= LocalCap
    BY <1>3, <2>1
  <2> HIDE DEF IInv
  <2>7. QED
    BY <1>1, <1>2, <2>1, <2>3, <2>4, <2>5, <2>6, OwnMove
<1>6. QED
  BY <1>4, <1>5 DEF Schedule

LEMMA RunWakesStep ==
    ASSUME IInv, NEW w \in Workers, NEW t \in Tasks, RunWakes(w, t) \/ ReactorWakes(w, t)
    PROVE  IInv'
<1> USE DEF IInv, CoreInv, TypeOK, ShapeInv, Threads
<1>1. /\ hand' = [hand EXCEPT ![w] = hand[w]]
      /\ pc[w] \in {"run", "pending", "react"} /\ Schedule(w, t, pc[w])
      /\ UNCHANGED <<sleepVars, notified, target, source, left, shards, ticks,
                     batch, run>>
  BY DEF RunWakes, ReactorWakes, tickVars
<1>2. task' \in [Tasks -> TaskStates]
  BY DEF RunWakes, ReactorWakes, TaskStates
<1>3. (pc[w] = "run" => hand[w] \in Tasks) /\ (pc[w] # "run" => hand[w] = None)
  BY <1>1 DEF ControlInv, HoldsAt, NotifyPoints
<1> HIDE DEF IInv
<1>4. QED
  BY <1>1, <1>2, <1>3, ScheduleStep

LEMMA RunReturnsStep ==
    ASSUME IInv, NEW w \in Workers, RunReturns(w)
    PROVE  IInv'
<1> USE DEF IInv, CoreInv, TypeOK, ShapeInv, Threads
<1>1. /\ hand' = [hand EXCEPT ![w] = None] /\ pc[w] = "run"
      /\ UNCHANGED <<sleepVars, notified, target, source, left, shards, ticks, batch,
                     run>>
  BY DEF RunReturns
<1>2. hand[w] \in Tasks
  BY <1>1 DEF ControlInv, HoldsAt
<1>3. task' \in [Tasks -> TaskStates]
  BY <1>2 DEF RunReturns, TaskStates
<1>4. CASE Goto(w, "next") /\ UNCHANGED <<schedVars, ret>>
  <2>1. Moves(w, "next", ret[w]) /\ ret[w] \in WorkerPoints \cup {"out"}
    BY <1>4 DEF Moves, Goto
  <2>2. DataInv'
    BY <1>1, <1>3, <1>4 DEF DataInv, schedVars
  <2>3. OwnStep(w)
    BY <1>1, <1>4, LenProperties DEF OwnStep, schedVars, sleepVars
  <2>4. Len(local'[w]) <= LocalCap /\ source'[w] # w /\ w \notin shards'[w]
    BY <1>1, <1>4 DEF ControlInv, CapInv, schedVars
  <2> HIDE DEF IInv
  <2>5. QED
    BY <1>1, <2>1, <2>2, <2>3, <2>4, OwnMove
       DEF ReturnsTo, HoldsAt, WaitsAt, WorkerPoints, SleeperPoints, NotifyPoints
<1>5. CASE Schedule(w, hand[w], "next")
  <2> HIDE DEF IInv
  <2>1. QED
    BY <1>1, <1>2, <1>3, <1>5, ScheduleStep
<1>6. QED
  BY <1>4, <1>5 DEF RunReturns

LEMMA NextTickStep ==
    ASSUME IInv, NEW w \in Workers, NextTick(w)
    PROVE  IInv'
<1> USE DEF IInv, CoreInv, TypeOK, ShapeInv, Threads
<1>1. hand' = [hand EXCEPT ![w] = None] /\ pc[w] = "next"
  BY ZenonT(60) DEF NextTick, ControlInv, HoldsAt, NotifyPoints
<1>2. batch' \in [Workers -> 0..(BatchSize - 1)]
  <2>1. \E b \in 0..(BatchSize - 1) : batch' = [batch EXCEPT ![w] = b]
    <3>1. batch[w] \in 0..(BatchSize - 1) /\ BatchSize \in Nat \ {0}
      BY BoundsAssumption
    <3>2. CASE batch[w] + 1 < BatchSize
      BY <3>1, <3>2 DEF NextTick
    <3>3. CASE batch[w] + 1 = BatchSize
      BY <3>1, <3>3 DEF NextTick
    <3>4. QED
      BY <3>2, <3>3 DEF NextTick
  <2>2. batch \in [Workers -> 0..(BatchSize - 1)]
    OBVIOUS
  <2> HIDE DEF IInv
  <2>3. QED
    BY <2>1, <2>2
<1>3. /\ source'[w] # w /\ w \notin shards'[w] /\ Len(local'[w]) <= LocalCap
      /\ ret[w] \in WorkerPoints \cup {"out"}
  BY DEF NextTick, ControlInv, CapInv
<1>4. CASE Goto(w, "search") /\ UNCHANGED token
  <2>1. Moves(w, "search", ret[w])
    BY <1>4 DEF NextTick, Moves, Goto
  <2>2. DataInv'
    BY <1>2, <1>4 DEF NextTick, DataInv
  <2>3. OwnStep(w)
    BY <1>4, LenProperties DEF NextTick, OwnStep, sleepVars
  <2> HIDE DEF IInv
  <2>4. QED
    BY <1>1, <1>3, <2>1, <2>2, <2>3, OwnMove
       DEF ReturnsTo, HoldsAt, WaitsAt, WorkerPoints, SleeperPoints, NotifyPoints
<1>5. CASE YieldNow(w)
  <2>1. Moves(w, "pending", ret[w])
    BY <1>5 DEF NextTick, Moves, Goto, YieldNow
  <2>2. /\ token' \in [Workers -> BOOLEAN] /\ token'[w]
        /\ \A v \in Workers : v # w => token'[v] = token[v]
    <3>1. token' = [token EXCEPT ![w] = TRUE] /\ token \in [Workers -> BOOLEAN]
      BY <1>5 DEF YieldNow
    <3> HIDE DEF IInv
    <3>2. QED
      BY <3>1
  <2>3. DataInv'
    BY <1>2, <2>2 DEF NextTick, DataInv
  <2>4. OwnStep(w)
    BY <2>2, LenProperties DEF NextTick, OwnStep, sleepVars
  <2> HIDE DEF IInv
  <2>5. QED
    BY <1>1, <1>3, <2>1, <2>2, <2>3, <2>4, OwnMove
       DEF ReturnsTo, HoldsAt, WaitsAt, WorkerPoints, SleeperPoints, NotifyPoints
<1>6. QED
  BY <1>4, <1>5 DEF NextTick

LEMMA PanicStep ==
    ASSUME IInv, NEW w \in Workers, Panic(w)
    PROVE  IInv'
<1> USE DEF IInv, CoreInv, TypeOK, ShapeInv, Threads
<1>1. /\ Moves(w, "search", ret[w]) /\ hand' = [hand EXCEPT ![w] = None]
      /\ pc[w] = "run" /\ ret[w] \in WorkerPoints \cup {"out"}
  BY DEF Panic, Moves, Goto
<1>2. task' \in [Tasks -> TaskStates]
  BY <1>1 DEF Panic, TaskStates, ControlInv, HoldsAt
<1>3. /\ run' \in [Workers -> 0..MaxPanics]
      /\ \A v \in Workers : v # w => run'[v] = run[v]
  <2>1. /\ run' = [run EXCEPT ![w] = run[w] + 1] /\ run \in [Workers -> 0..MaxPanics]
        /\ run[w] + 1 \in 0..MaxPanics
    BY BoundsAssumption, SMTT(30) DEF Panic
  <2> HIDE DEF IInv
  <2>2. QED
    BY <2>1
<1>4. /\ token' \in [Workers -> BOOLEAN]
      /\ \A v \in Workers : v # w => token'[v] = token[v]
  <2>1. token' = [token EXCEPT ![w] = FALSE] /\ token \in [Workers -> BOOLEAN]
    BY DEF Panic
  <2> HIDE DEF IInv
  <2>2. QED
    BY <2>1
<1>5. ticks' \in [Workers -> 0..(StealPeriod - 1)] /\ batch' \in [Workers -> 0..(BatchSize - 1)]
  <2>1. /\ ticks' = [ticks EXCEPT ![w] = 0] /\ batch' = [batch EXCEPT ![w] = 0]
        /\ ticks \in [Workers -> 0..(StealPeriod - 1)] /\ batch \in [Workers -> 0..(BatchSize - 1)]
        /\ 0 \in 0..(StealPeriod - 1) /\ 0 \in 0..(BatchSize - 1)
    BY BoundsAssumption DEF Panic
  <2> HIDE DEF IInv
  <2>2. QED
    BY <2>1
<1>6. DataInv'
  BY <1>2, <1>3, <1>4, <1>5 DEF Panic, DataInv
<1>7. OwnStep(w)
  BY <1>3, <1>4, LenProperties DEF Panic, OwnStep, sleepVars
<1>8. source'[w] # w /\ w \notin shards'[w] /\ Len(local'[w]) <= LocalCap
  BY DEF Panic, ControlInv, CapInv
<1> HIDE DEF IInv
<1>9. QED
  BY <1>1, <1>6, <1>7, <1>8, OwnMove
     DEF ReturnsTo, HoldsAt, WaitsAt, WorkerPoints, SleeperPoints, NotifyPoints

LEMMA RepollStep ==
    ASSUME IInv, NEW w \in Workers, Unparked(w) \/ Repoll(w)
    PROVE  IInv'
<1> USE DEF IInv, CoreInv, TypeOK, ShapeInv, Threads
<1> DEFINE q == IF pc[w] = "pending" THEN "react" ELSE "search"
<1>1. /\ Moves(w, q, ret[w]) /\ pc[w] \in {"pending", "react"}
      /\ ret[w] \in WorkerPoints \cup {"out"}
  BY DEF Unparked, Repoll, Moves, Goto
<1>2. hand' = [hand EXCEPT ![w] = None]
  BY <1>1 DEF Unparked, Repoll, tickVars, ControlInv, HoldsAt, NotifyPoints
<1>3. /\ token' \in [Workers -> BOOLEAN]
      /\ \A v \in Workers : v # w => token'[v] = token[v]
  <2>1. /\ token' = [token EXCEPT ![w] = FALSE] \/ token' = token
        /\ token \in [Workers -> BOOLEAN]
    BY DEF Unparked, Repoll, schedVars
  <2> HIDE DEF IInv
  <2>2. QED
    BY <2>1
<1>4. DataInv'
  BY <1>3 DEF Unparked, Repoll, DataInv, schedVars, tickVars
<1>5. OwnStep(w)
  BY <1>3, LenProperties DEF Unparked, Repoll, OwnStep, schedVars, sleepVars, tickVars
<1>6. source'[w] # w /\ w \notin shards'[w] /\ Len(local'[w]) <= LocalCap
  BY DEF Unparked, Repoll, ControlInv, CapInv, schedVars, tickVars
<1> HIDE DEF IInv
<1>7. QED
  BY <1>1, <1>2, <1>4, <1>5, <1>6, OwnMove
     DEF ReturnsTo, HoldsAt, WaitsAt, WorkerPoints, SleeperPoints, NotifyPoints

----------------------------------------------------------------------------
(* Ticker::sleep and Ticker::wake *)

\* What a step inside Sleepers leaves alone: the ticker holds what it held and
\* its run queue is what it was.
LEMMA SleeperCore ==
    ASSUME IInv, NEW w \in Workers, NEW q \in WorkerPoints \ {"steal"},
           NEW r \in WorkerPoints \cup {"out"}, Moves(w, q, r),
           UNCHANGED <<schedVars, tickVars, target, task>>,
           ReturnsTo(q, r), HoldsAt(q, r) <=> HoldsAt(pc[w], ret[w]),
           slock' \in Workers \cup {None}, count' \in Nat, notified' \in BOOLEAN,
           wakers' \in Seq(Workers), sleeping' \in [Workers -> BOOLEAN],
           q \in {"global", "shards", "sleep", "sleepflag"} => local[w] = <<>>,
           run[w] = 0 /\ WaitsAt(q, r) /\ local[w] # <<>> => token[w]
    PROVE  CoreInv' /\ LocalInv'
<1>0. CoreInv
  BY DEF IInv
<1>1. /\ ShapeInv' /\ ControlInv'
      /\ \A v \in Workers : pc'[v] \in WorkerPoints
      /\ \A th \in Outsiders : pc'[th] \in OutsiderPoints
      /\ hand' \in [Workers -> Tasks \cup {None}]
  <2>1. /\ hand' = [hand EXCEPT ![w] = hand[w]]
        /\ HoldsAt(q, r) => hand[w] \in Tasks
        /\ ~HoldsAt(q, r) => hand[w] = None
        /\ \A v \in Workers : v # w => source'[v] = source[v] /\ shards'[v] = shards[v]
        /\ w \notin shards'[w] /\ source'[w] # w /\ UNCHANGED target
    BY <1>0 DEF CoreInv, TypeOK, ControlInv, tickVars
  <2>2. QED
    BY <1>0, <2>1, ControlMove
<1>2. TypeOK'
  BY <1>0, <1>1 DEF CoreInv, TypeOK, ShapeInv, schedVars, tickVars
<1>3. CapInv'
  <2>1. /\ UNCHANGED <<local, left>> /\ pc' = [pc EXCEPT ![w] = q] /\ q # "steal"
        /\ local \in [Workers -> Seq(Tasks)] /\ left \in [Workers -> 0..LocalCap]
        /\ \A v \in Workers : Len(local[v]) <= LocalCap
    BY <1>0 DEF CoreInv, TypeOK, CapInv, schedVars, tickVars, Moves
  <2>2. \A v \in Workers : v # w => Len(local'[v]) <= Len(local[v]) /\ left'[v] = left[v]
    BY <2>1, LenProperties
  <2>3. QED
    BY <1>0, <2>1, <2>2, CapMove
<1>4. LocalInv'
  <2>1. UNCHANGED <<local, token, run>>
    BY DEF schedVars, tickVars
  <2>2. QED
    BY <2>1, LocalMove
<1>5. QED
  BY <1>1, <1>2, <1>3, <1>4 DEF CoreInv

\* Nobody but the holder of the mutex is in a critical section.
LEMMA SleeperLock ==
    ASSUME IInv, NEW w \in Workers, NEW q, pc' = [pc EXCEPT ![w] = q],
           \/ slock \in {None, w}
           \/ UNCHANGED slock,
           q \in {"sleepflag", "wakeflag"} => slock' = w
    PROVE  SlockInv'
BY NamesAssumption DEF IInv, CoreInv, ShapeInv, SleepInv, SlockInv, Threads

\* A ticker that falls asleep is on the list of wakers, and stays on it until a
\* notification takes it off.
LEMMA SleeperWake ==
    ASSUME IInv, NEW w \in Workers, NEW q, NEW r, Moves(w, q, r),
           pc[w] # "notifywake", UNCHANGED <<target, token, run>>,
           \A v \in Workers : v # w =>
               /\ sleeping'[v] => sleeping[v]
               /\ Contains(wakers, v) => Contains(wakers', v),
           sleeping'[w] /\ WaitsAt(q, r) => Contains(wakers', w),
           q = "sleepflag" => Contains(wakers', w)
    PROVE  WakeInv'
<1>1. pc'[w] = q /\ ret'[w] = r
  BY DEF IInv, CoreInv, ShapeInv, Threads, Moves
<1>2. \A th \in Threads : th # w => pc'[th] = pc[th] /\ ret'[th] = ret[th]
  BY DEF IInv, CoreInv, ShapeInv, Moves
<1>3. ASSUME NEW v \in Workers, sleeping'[v], ~Contains(wakers', v),
             WaitsAt(pc'[v], ret'[v])
      PROVE  \/ token'[v]
             \/ \E th \in Threads : pc'[th] = "notifywake" /\ target'[th] = <<v, run'[v]>>
  <2>1. v # w /\ sleeping[v] /\ ~Contains(wakers, v)
    BY <1>1, <1>3
  <2>2. WaitsAt(pc[v], ret[v])
    BY <1>2, <1>3, <2>1 DEF Threads
  <2>3. \/ token[v]
        \/ \E th \in Threads : pc[th] = "notifywake" /\ target[th] = <<v, run[v]>>
    BY <2>1, <2>2 DEF IInv, SleepInv, WakeInv
  <2>4. QED
    BY <1>2, <2>3
<1>4. ASSUME NEW v \in Workers, pc'[v] = "sleepflag" PROVE Contains(wakers', v)
  BY <1>1, <1>2, <1>4 DEF IInv, SleepInv, WakeInv, Threads
<1>5. QED
  BY <1>3, <1>4 DEF WakeInv

\* The sleepers are finitely many, and the list has no more entries than that.
LEMMA SleepersFinite ==
    ASSUME IInv
    PROVE  /\ IsFiniteSet(Sleeping) /\ count = Cardinality(Sleeping) /\ count \in Nat
           /\ wakers \in Seq(Workers) /\ Len(wakers) \in Nat /\ Len(wakers) <= count
           /\ IsInjective(wakers)
           /\ \A v : Contains(wakers, v) => v \in Sleeping
<1> USE DEF IInv, CoreInv, SleepInv
<1>1. IsFiniteSet(Sleeping)
  BY BoundsAssumption, FS_Subset DEF Sleeping
<1>2. wakers \in Seq(Workers) /\ Len(wakers) \in Nat /\ count \in Nat
  BY LenProperties DEF TypeOK
<1>3. count = Cardinality(Sleeping) /\ IsInjective(wakers) /\ Range(wakers) \subseteq Sleeping
  BY DEF SleepersConsistent
<1> HIDE DEF IInv
<1>4. \A v : Contains(wakers, v) => v \in Sleeping
  BY <1>2, <1>3, InjectiveSeq
<1>5. wakers \in Seq(Sleeping)
  <2>1. \A i \in 1..Len(wakers) : wakers[i] \in Sleeping
    BY <1>4 DEF Contains
  <2>2. wakers \in [1..Len(wakers) -> Sleeping]
    BY <1>2, <2>1
  <2>3. QED
    BY <1>2, <2>2
<1>6. Len(wakers) <= Cardinality(Sleeping)
  BY <1>1, <1>3, <1>5, ListLength
<1>7. QED
  BY <1>1, <1>2, <1>3, <1>4, <1>6

\* The list after a step, from what it contains.
LEMMA SleepersListed ==
    ASSUME wakers' \in Seq(Workers), IsInjective(wakers'),
           \A v : Contains(wakers', v) => v \in Sleeping',
           count' = Cardinality(Sleeping')
    PROVE  SleepersConsistent'
<1>1. \A v : v \in Range(wakers') <=> Contains(wakers', v)
  BY InjectiveSeq
<1>2. QED
  BY <1>1 DEF SleepersConsistent

LEMMA SleepStepInv ==
    ASSUME IInv, NEW w \in Workers, Sleep(w)
    PROVE  IInv'
<1>0. /\ UNCHANGED <<schedVars, tickVars, notified, ret, target, task>>
      /\ UNCHANGED <<token, run, local>>
      /\ pc[w] = "sleep" /\ slock = None /\ w # None
  BY NamesAssumption DEF Sleep, schedVars, tickVars
<1>1. /\ notified \in BOOLEAN /\ sleeping \in [Workers -> BOOLEAN] /\ pc \in [Threads -> WorkerPoints \cup {"out"}]
      /\ ret[w] \in WorkerPoints \cup {"out"} /\ local[w] = <<>>
      /\ ret = [ret EXCEPT ![w] = ret[w]]
  BY <1>0 DEF IInv, CoreInv, TypeOK, ShapeInv, LocalInv, Threads
<1>2. /\ "sleepflag" \in WorkerPoints \ {"steal"} /\ "pending" \in WorkerPoints \ {"steal"}
      /\ ReturnsTo("sleepflag", ret[w]) /\ ReturnsTo("pending", ret[w])
      /\ ~HoldsAt("sleepflag", ret[w]) /\ ~HoldsAt("pending", ret[w])
      /\ ~HoldsAt(pc[w], ret[w]) /\ ~WaitsAt("sleepflag", ret[w])
  BY <1>0 DEF WorkerPoints, ReturnsTo, HoldsAt, WaitsAt, NotifyPoints
<1>3. ASSUME ~Contains(wakers, w), wakers' = Append(wakers, w),
             sleeping' = [sleeping EXCEPT ![w] = TRUE],
             count' = Cardinality(Sleeping'), count' \in Nat,
             slock' = w, Goto(w, "sleepflag")
      PROVE  IInv'
  <2>1. Moves(w, "sleepflag", ret[w]) /\ pc' = [pc EXCEPT ![w] = "sleepflag"]
    BY <1>0, <1>1, <1>3 DEF Moves, Goto
  <2>2. /\ wakers' \in Seq(Workers) /\ IsInjective(wakers')
        /\ \A v : Contains(wakers', v) <=> Contains(wakers, v) \/ v = w
    <3>1. wakers \in Seq(Workers) /\ IsInjective(wakers)
      BY SleepersFinite
    <3>2. QED
      BY <1>3, <3>1, ListAppend
  <2>3. /\ sleeping' \in [Workers -> BOOLEAN] /\ sleeping'[w]
        /\ \A v \in Workers : v # w => sleeping'[v] = sleeping[v]
    BY <1>1, <1>3
  <2>4. CoreInv' /\ LocalInv'
    BY <1>0, <1>1, <1>2, <1>3, <2>1, <2>2, <2>3, SleeperCore
  <2>5. SleepersConsistent'
    <3>1. \A v : Contains(wakers, v) => v \in Sleeping
      BY SleepersFinite
    <3>2. Sleeping \subseteq Sleeping' /\ w \in Sleeping'
      BY <2>3 DEF Sleeping
    <3>3. QED
      BY <1>3, <2>2, <3>1, <3>2, SleepersListed
  <2>6. SlockInv'
    BY <1>0, <1>3, <2>1, SleeperLock
  <2>7. FlagNeverWedged'
    BY <1>0, <1>3 DEF FlagNeverWedged
  <2>8. WakeInv'
    BY <1>0, <1>2, <2>1, <2>2, <2>3, SleeperWake
  <2>9. QED
    BY <2>4, <2>5, <2>6, <2>7, <2>8 DEF IInv, SleepInv
<1>4. CASE ~sleeping[w]
  <2>1. /\ sleeping' = [sleeping EXCEPT ![w] = TRUE] /\ count' = count + 1
        /\ wakers' = Append(wakers, w) /\ slock' = w /\ Goto(w, "sleepflag")
    BY <1>4 DEF Sleep, SleepersInsert
  <2>2. Sleeping' = Sleeping \cup {w} /\ w \notin Sleeping
    BY <1>1, <1>4, <2>1 DEF Sleeping
  <2>3. /\ Cardinality(Sleeping \cup {w}) = Cardinality(Sleeping) + 1
        /\ count = Cardinality(Sleeping) /\ count \in Nat
    BY <2>2, SleepersFinite, FS_AddElement
  <2>4. ~Contains(wakers, w)
    BY <2>2, SleepersFinite
  <2>5. QED
    BY <1>3, <2>1, <2>2, <2>3, <2>4
<1>5. CASE sleeping[w] /\ ~Contains(wakers, w)
  <2>1. /\ UNCHANGED <<sleeping, count>>
        /\ wakers' = Append(wakers, w) /\ slock' = w /\ Goto(w, "sleepflag")
    BY <1>5 DEF Sleep, SleepersUpdate
  <2>2. sleeping' = [sleeping EXCEPT ![w] = TRUE] /\ Sleeping' = Sleeping
    BY <1>1, <1>5, <2>1 DEF Sleeping
  <2>3. count = Cardinality(Sleeping) /\ count \in Nat
    BY SleepersFinite
  <2>4. QED
    BY <1>3, <1>5, <2>1, <2>2, <2>3
<1>6. CASE sleeping[w] /\ Contains(wakers, w)
  <2>1. UNCHANGED <<slock, count, wakers, sleeping>> /\ Goto(w, "pending")
    BY <1>6 DEF Sleep, sleepVars
  <2>2. Moves(w, "pending", ret[w]) /\ pc' = [pc EXCEPT ![w] = "pending"]
    BY <1>0, <1>1, <2>1 DEF Moves, Goto
  <2>3. /\ slock \in Workers \cup {None} /\ count \in Nat /\ wakers \in Seq(Workers)
        /\ SleepersConsistent /\ FlagNeverWedged
    BY DEF IInv, CoreInv, TypeOK, SleepInv
  <2>4. CoreInv' /\ LocalInv'
    BY <1>0, <1>1, <1>2, <2>1, <2>2, <2>3, SleeperCore
  <2>5. SleepersConsistent'
    BY <2>1, <2>3 DEF SleepersConsistent, Sleeping
  <2>6. SlockInv'
    BY <1>0, <2>1, <2>2, SleeperLock
  <2>7. FlagNeverWedged'
    <3>1. Notifying => Notifying'
      BY <1>0, <1>1, <2>2 DEF Notifying
    <3>2. QED
      BY <1>0, <2>1, <2>3, <3>1 DEF FlagNeverWedged
  <2>8. WakeInv'
    BY <1>0, <1>2, <1>6, <2>1, <2>2, SleeperWake
  <2>9. QED
    BY <2>4, <2>5, <2>6, <2>7, <2>8 DEF IInv, SleepInv
<1>7. QED
  BY <1>4, <1>5, <1>6

\* The end of the critical sections of Ticker::sleep and Ticker::wake: the flag is
\* recomputed from the list before the mutex is released.
LEMMA RefreshStep ==
    ASSUME IInv, NEW w \in Workers, SleepFlag(w) \/ WakeFlag(w)
    PROVE  IInv'
<1> DEFINE q == IF pc[w] = "sleepflag" THEN "pending" ELSE "notify"
           r == IF pc[w] = "sleepflag" THEN ret[w] ELSE "bump"
<1>0. /\ UNCHANGED <<schedVars, tickVars, count, wakers, sleeping, target, task>>
      /\ UNCHANGED <<token, run, local>>
      /\ pc[w] \in {"sleepflag", "wakeflag"}
      /\ slock' = None /\ notified' = IsNotified
  BY DEF SleepFlag, WakeFlag, schedVars, tickVars, RefreshFlag
<1>1. Moves(w, q, r) /\ pc' = [pc EXCEPT ![w] = q] /\ ret[w] \in WorkerPoints \cup {"out"}
  BY DEF SleepFlag, WakeFlag, Moves, Goto, IInv, CoreInv, ShapeInv, Threads
<1>2. /\ slock = w /\ (pc[w] = "sleepflag" => local[w] = <<>> /\ Contains(wakers, w))
      /\ count \in Nat /\ wakers \in Seq(Workers) /\ sleeping \in [Workers -> BOOLEAN]
      /\ SleepersConsistent
  BY <1>0 DEF IInv, CoreInv, TypeOK, SleepInv, SlockInv, WakeInv, LocalInv
<1>3. /\ q \in WorkerPoints \ {"steal"} /\ r \in WorkerPoints \cup {"out"} /\ ReturnsTo(q, r)
      /\ HoldsAt(q, r) <=> HoldsAt(pc[w], ret[w])
      /\ WaitsAt(q, r) <=> pc[w] = "sleepflag"
      /\ q \notin {"global", "shards", "sleep", "sleepflag", "wakeflag"}
  BY <1>0, <1>1 DEF WorkerPoints, ReturnsTo, HoldsAt, WaitsAt, NotifyPoints
<1> HIDE DEF q, r
<1>4. notified' \in BOOLEAN
  BY <1>0 DEF IsNotified
<1>5. CoreInv' /\ LocalInv'
  BY <1>0, <1>1, <1>2, <1>3, <1>4, SleeperCore
<1>6. SleepersConsistent'
  BY <1>0, <1>2 DEF SleepersConsistent, Sleeping
<1>7. SlockInv'
  BY <1>1, <1>2, <1>3, SleeperLock
<1>8. FlagNeverWedged'
  BY <1>0 DEF FlagNeverWedged, IsNotified
<1>9. WakeInv'
  BY <1>0, <1>1, <1>2, <1>3, SleeperWake
<1>10. QED
  BY <1>5, <1>6, <1>7, <1>8, <1>9 DEF IInv, SleepInv

LEMMA WakeStepInv ==
    ASSUME IInv, NEW w \in Workers, Wake(w)
    PROVE  IInv'
<1>0. /\ UNCHANGED <<schedVars, tickVars, notified, target, task>>
      /\ UNCHANGED <<token, run, local>>
      /\ pc[w] = "wake" /\ w # None
  BY NamesAssumption DEF Wake, schedVars, tickVars
<1>1. /\ notified \in BOOLEAN /\ sleeping \in [Workers -> BOOLEAN]
      /\ pc \in [Threads -> WorkerPoints \cup {"out"}]
      /\ ret[w] \in WorkerPoints \cup {"out"} /\ ret = [ret EXCEPT ![w] = ret[w]]
  BY DEF IInv, CoreInv, TypeOK, ShapeInv, Threads
<1>2. /\ "wakeflag" \in WorkerPoints \ {"steal"} /\ "notify" \in WorkerPoints \ {"steal"}
      /\ "bump" \in WorkerPoints
      /\ ReturnsTo("wakeflag", ret[w]) /\ ReturnsTo("notify", "bump")
      /\ HoldsAt("wakeflag", ret[w]) /\ HoldsAt("notify", "bump") /\ HoldsAt(pc[w], ret[w])
      /\ ~WaitsAt("wakeflag", ret[w]) /\ ~WaitsAt("notify", "bump")
  BY <1>0 DEF WorkerPoints, ReturnsTo, HoldsAt, WaitsAt, NotifyPoints
<1>3. CASE sleeping[w]
  <2>1. /\ slock = None /\ slock' = w /\ sleeping' = [sleeping EXCEPT ![w] = FALSE]
        /\ count' = count - 1 /\ wakers' = WithoutLast(wakers, w)
        /\ Goto(w, "wakeflag") /\ UNCHANGED ret
    BY <1>3 DEF Wake, Asleep, SleepersRemove, WithoutLast
  <2>2. Moves(w, "wakeflag", ret[w]) /\ pc' = [pc EXCEPT ![w] = "wakeflag"]
    BY <1>1, <2>1 DEF Moves, Goto
  <2>3. /\ wakers' \in Seq(Workers) /\ IsInjective(wakers')
        /\ \A v : Contains(wakers', v) <=> Contains(wakers, v) /\ v # w
    <3>1. wakers \in Seq(Workers) /\ IsInjective(wakers)
      BY SleepersFinite
    <3>2. QED
      BY <2>1, <3>1, ListRemove
  <2>4. /\ sleeping' \in [Workers -> BOOLEAN] /\ ~sleeping'[w]
        /\ \A v \in Workers : v # w => sleeping'[v] = sleeping[v]
    BY <1>1, <2>1
  <2>5. Sleeping' = Sleeping \ {w} /\ w \in Sleeping
    BY <1>3, <2>4 DEF Sleeping
  <2>6. count' = Cardinality(Sleeping') /\ count' \in Nat
    <3>1. IsFiniteSet(Sleeping) /\ count = Cardinality(Sleeping)
      BY SleepersFinite
    <3>2. /\ IsFiniteSet(Sleeping \ {w})
          /\ Cardinality(Sleeping \ {w}) = Cardinality(Sleeping) - 1
      BY <2>5, <3>1, FS_RemoveElement
    <3>3. Cardinality(Sleeping \ {w}) \in Nat
      BY <3>2, FS_CardinalityType
    <3>4. QED
      BY <2>1, <2>5, <3>1, <3>2, <3>3
  <2>7. CoreInv' /\ LocalInv'
    BY <1>0, <1>1, <1>2, <2>1, <2>2, <2>3, <2>4, <2>6, SleeperCore
  <2>8. SleepersConsistent'
    <3>1. \A v : Contains(wakers, v) => v \in Sleeping
      BY SleepersFinite
    <3>2. QED
      BY <2>3, <2>5, <2>6, <3>1, SleepersListed
  <2>9. SlockInv'
    BY <2>1, <2>2, SleeperLock
  <2>10. FlagNeverWedged'
    BY <1>0, <2>1 DEF FlagNeverWedged
  <2>11. WakeInv'
    BY <1>0, <1>2, <2>2, <2>3, <2>4, SleeperWake
  <2>12. QED
    BY <2>7, <2>8, <2>9, <2>10, <2>11 DEF IInv, SleepInv
<1>4. CASE ~sleeping[w]
  <2>1. UNCHANGED <<slock, count, wakers, sleeping>> /\ Moves(w, "notify", "bump")
    BY <1>4 DEF Wake, Asleep, sleepVars, Moves, Goto
  <2>2. /\ slock \in Workers \cup {None} /\ count \in Nat /\ wakers \in Seq(Workers)
    BY DEF IInv, CoreInv, TypeOK
  <2>3. CoreInv' /\ LocalInv'
    BY <1>0, <1>1, <1>2, <2>1, <2>2, SleeperCore
  <2>4. SleepInv'
    BY <1>0, <1>2, <2>1, SleepMove
  <2>5. QED
    BY <2>3, <2>4 DEF IInv
<1>5. QED
  BY <1>3, <1>4

----------------------------------------------------------------------------
(* State::notify *)

\* A thread inside State::notify holds what it held before and waits, or not,
\* where it goes on.
LEMMA NotifyCore ==
    ASSUME IInv, NEW th \in Threads, pc[th] \in NotifyPoints,
           NEW q \in NotifyPoints \cup {ret[th]}, pc' = [pc EXCEPT ![th] = q],
           UNCHANGED <<queue, local, tickVars, ret, task, slock, count, sleeping>>,
           notified' \in BOOLEAN, wakers' \in Seq(Workers),
           target' \in [Threads -> (Workers \cup {None}) \X (0..MaxPanics)],
           token' \in [Workers -> BOOLEAN], \A v \in Workers : token[v] => token'[v]
    PROVE  /\ CoreInv' /\ LocalInv' /\ SlockInv'
           /\ \A v \in Workers : WaitsAt(pc'[v], ret'[v]) <=> WaitsAt(pc[v], ret[v])
           /\ pc'[th] = q /\ \A x \in Threads : x # th => pc'[x] = pc[x]
<1>0. /\ UNCHANGED <<hand, source, left, shards, ticks, batch, run>>
      /\ pc \in [Threads -> WorkerPoints \cup {"out"}]
  BY DEF tickVars, IInv, CoreInv, ShapeInv
<1>1. pc'[th] = q /\ \A x \in Threads : x # th => pc'[x] = pc[x]
  BY <1>0
<1>2. CASE th \in Outsiders
  <2>1. q \in OutsiderPoints /\ q \in WorkerPoints \cup {"out"}
    BY <1>2 DEF IInv, CoreInv, ControlInv, OutsiderPoints, NotifyPoints, WorkerPoints
  <2>2. \A v \in Workers : pc'[v] = pc[v]
    BY <1>1, <1>2, NamesAssumption DEF Threads
  <2>3. \A x \in Outsiders : pc'[x] \in OutsiderPoints
    BY <1>1, <2>1 DEF IInv, CoreInv, TypeOK, Threads
  <2>4. ShapeInv'
    BY <1>0, <2>1 DEF IInv, CoreInv, ShapeInv
  <2>5. TypeOK'
    BY <1>0, <2>2, <2>3, <2>4 DEF IInv, CoreInv, TypeOK, ShapeInv
  <2>6. ControlInv' /\ CapInv'
    BY <1>0, <2>2 DEF IInv, CoreInv, ControlInv, CapInv
  <2>7. LocalInv' /\ SlockInv'
    BY <1>0, <2>2 DEF IInv, LocalInv, SleepInv, SlockInv
  <2>8. QED
    BY <1>1, <2>2, <2>4, <2>5, <2>6, <2>7 DEF CoreInv
<1>3. CASE th \in Workers
  <2>1. /\ ReturnsTo(pc[th], ret[th])
        /\ HoldsAt(pc[th], ret[th]) => hand[th] \in Tasks
        /\ ~HoldsAt(pc[th], ret[th]) => hand[th] = None
    BY <1>3 DEF IInv, CoreInv, ControlInv
  <2>2. /\ ret[th] \in {"bump", "run", "next", "pending", "react"}
        /\ ReturnsTo(q, ret[th])
        /\ HoldsAt(q, ret[th]) <=> HoldsAt(pc[th], ret[th])
        /\ WaitsAt(q, ret[th]) <=> WaitsAt(pc[th], ret[th])
        /\ q \in WorkerPoints
        /\ q \notin {"global", "shards", "sleep", "sleepflag", "wakeflag", "steal"}
    BY <2>1 DEF ReturnsTo, HoldsAt, WaitsAt, NotifyPoints, WorkerPoints
  <2>3. /\ \A v \in Workers : v # th => pc'[v] = pc[v]
        /\ \A v \in Workers : pc'[v] \in WorkerPoints
        /\ \A x \in Outsiders : pc'[x] = pc[x]
    BY <1>1, <1>3, <2>2, NamesAssumption DEF Threads, IInv, CoreInv, TypeOK
  <2>4. ShapeInv'
    BY <1>0, <2>2 DEF IInv, CoreInv, ShapeInv
  <2>5. TypeOK'
    BY <1>0, <2>3, <2>4 DEF IInv, CoreInv, TypeOK, ShapeInv
  <2>6. ControlInv'
    BY <1>0, <1>1, <2>1, <2>2, <2>3 DEF IInv, CoreInv, ControlInv
  <2>7. CapInv'
    BY <1>0, <1>1, <2>2, <2>3 DEF IInv, CoreInv, CapInv
  <2>8. \A v \in Workers : WaitsAt(pc'[v], ret'[v]) <=> WaitsAt(pc[v], ret[v])
    BY <1>1, <2>2, <2>3
  <2>9. LocalInv'
    BY <1>0, <1>1, <2>2, <2>3, <2>8 DEF IInv, LocalInv
  <2>10. SlockInv'
    BY <1>1, <2>2, <2>3 DEF IInv, SleepInv, SlockInv
  <2>11. QED
    BY <1>1, <2>4, <2>5, <2>6, <2>7, <2>8, <2>9, <2>10 DEF CoreInv
<1>4. QED
  BY <1>2, <1>3 DEF Threads

\* A waker that is off the list stays on its way, or has arrived.
LEMMA NotifyWakes ==
    ASSUME IInv, NEW th \in Threads,
           \A x \in Threads : x # th => pc'[x] = pc[x] /\ target'[x] = target[x],
           \A v \in Workers : WaitsAt(pc'[v], ret'[v]) <=> WaitsAt(pc[v], ret[v]),
           UNCHANGED <<sleeping, run>>,
           \A v \in Workers : token[v] => token'[v],
           \A v \in Workers : Contains(wakers, v) =>
               \/ Contains(wakers', v)
               \/ slock = None /\ pc'[th] = "notifywake" /\ target'[th] = <<v, run[v]>>,
           \A v \in Workers : pc[th] = "notifywake" /\ target[th] = <<v, run[v]>> => token'[v],
           pc'[th] # "sleepflag"
    PROVE  WakeInv'
<1>1. ASSUME NEW v \in Workers, sleeping'[v], ~Contains(wakers', v),
             WaitsAt(pc'[v], ret'[v])
      PROVE  \/ token'[v]
             \/ \E x \in Threads : pc'[x] = "notifywake" /\ target'[x] = <<v, run'[v]>>
  <2>1. CASE Contains(wakers, v)
    BY <1>1, <2>1
  <2>2. CASE ~Contains(wakers, v)
    <3>1. \/ token[v]
          \/ \E x \in Threads : pc[x] = "notifywake" /\ target[x] = <<v, run[v]>>
      BY <1>1, <2>2 DEF IInv, SleepInv, WakeInv
    <3>2. QED
      BY <3>1
  <2>3. QED
    BY <2>1, <2>2
<1>2. ASSUME NEW v \in Workers, pc'[v] = "sleepflag" PROVE Contains(wakers', v)
  <2>1. v # th /\ pc[v] = "sleepflag"
    BY <1>2 DEF Threads
  <2>2. Contains(wakers, v) /\ slock = v /\ v # None
    BY <2>1, NamesAssumption DEF IInv, SleepInv, WakeInv, SlockInv
  <2>3. QED
    BY <2>2
<1>3. QED
  BY <1>1, <1>2 DEF WakeInv

LEMMA NotifyFlagStep ==
    ASSUME IInv, NEW th \in Threads, NotifyFlag(th)
    PROVE  IInv'
<1> DEFINE q == IF notified THEN ret[th] ELSE "notifypop"
<1>1. /\ UNCHANGED <<queue, local, tickVars, ret, task, slock, count, sleeping>>
      /\ UNCHANGED <<token, run, wakers, target>>
      /\ pc[th] = "notify" /\ pc' = [pc EXCEPT ![th] = q]
  BY DEF NotifyFlag, schedVars, sleepVars, tickVars, Goto
<1>2. /\ notified \in BOOLEAN /\ wakers \in Seq(Workers) /\ token \in [Workers -> BOOLEAN]
      /\ target \in [Threads -> (Workers \cup {None}) \X (0..MaxPanics)]
      /\ SleepersConsistent /\ FlagNeverWedged
  BY DEF IInv, CoreInv, TypeOK, ShapeInv, SleepInv
<1>3. notified' = TRUE
  BY <1>2 DEF NotifyFlag
<1>4. pc[th] \in NotifyPoints /\ q \in NotifyPoints \cup {ret[th]} /\ notified' \in BOOLEAN
  BY <1>1, <1>3 DEF NotifyPoints
<1>5. /\ CoreInv' /\ LocalInv' /\ SlockInv'
      /\ \A v \in Workers : WaitsAt(pc'[v], ret'[v]) <=> WaitsAt(pc[v], ret[v])
      /\ pc'[th] = q /\ \A x \in Threads : x # th => pc'[x] = pc[x]
  BY <1>1, <1>2, <1>4, NotifyCore
<1>6. SleepersConsistent'
  BY <1>1, <1>2 DEF SleepersConsistent, Sleeping
<1>7. FlagNeverWedged'
  <2>1. CASE notified
    BY <1>1, <1>2, <1>5, <2>1 DEF FlagNeverWedged, Notifying
  <2>2. CASE ~notified
    BY <1>5, <2>2 DEF FlagNeverWedged, Notifying
  <2>3. QED
    BY <2>1, <2>2
<1>8. pc'[th] # "sleepflag"
  <2>1. CASE th \in Workers
    BY <1>1, <1>5, <2>1 DEF IInv, CoreInv, ControlInv, ReturnsTo, NotifyPoints
  <2>2. CASE th \in Outsiders
    BY <1>5, <2>2 DEF IInv, CoreInv, ControlInv
  <2>3. QED
    BY <2>1, <2>2 DEF Threads
<1>9. WakeInv'
  BY <1>1, <1>5, <1>8, NotifyWakes
<1>10. QED
  BY <1>5, <1>6, <1>7, <1>9 DEF IInv, SleepInv

\* Sleepers::notify: when every sleeper is unnotified the last waker is taken, and
\* the list is shorter than the count; otherwise it already was.
LEMMA NotifyPopStep ==
    ASSUME IInv, NEW th \in Threads, NotifyPop(th)
    PROVE  IInv'
<1>0. /\ UNCHANGED <<queue, local, tickVars, ret, task, slock, count, sleeping>>
      /\ UNCHANGED <<token, run, notified>>
      /\ pc[th] = "notifypop" /\ slock = None /\ pc[th] \in NotifyPoints
  BY DEF NotifyPop, schedVars, tickVars, NotifyPoints
<1>1. /\ notified \in BOOLEAN /\ wakers \in Seq(Workers) /\ token \in [Workers -> BOOLEAN]
      /\ target \in [Threads -> (Workers \cup {None}) \X (0..MaxPanics)]
      /\ run \in [Workers -> 0..MaxPanics]
      /\ SleepersConsistent
  BY DEF IInv, CoreInv, TypeOK, ShapeInv, SleepInv
<1>2. /\ IsInjective(wakers) /\ Len(wakers) \in Nat /\ count \in Nat /\ Len(wakers) <= count
      /\ count = Cardinality(Sleeping)
      /\ \A v : Contains(wakers, v) => v \in Sleeping
  BY SleepersFinite
<1>3. Sleeping' = Sleeping
  BY <1>0 DEF Sleeping
<1>4. CASE /\ Len(wakers) = count /\ wakers # <<>>
           /\ target' = [target EXCEPT ![th] = <<Last(wakers), run[Last(wakers)]>>]
           /\ wakers' = Front(wakers) /\ Goto(th, "notifywake")
  <2> DEFINE last == Last(wakers)
  <2>1. /\ wakers' \in Seq(Workers) /\ Len(wakers') = Len(wakers) - 1 /\ last \in Workers
        /\ IsInjective(wakers')
        /\ \A y : Contains(wakers', y) <=> Contains(wakers, y) /\ y # last
    BY <1>1, <1>2, <1>4, ListFront
  <2>2. pc' = [pc EXCEPT ![th] = "notifywake"] /\ "notifywake" \in NotifyPoints \cup {ret[th]}
    BY <1>4 DEF Goto, NotifyPoints
  <2>3. target' = [target EXCEPT ![th] = <<last, run[last]>>]
    BY <1>4
  <2> HIDE DEF last
  <2>4. /\ target' \in [Threads -> (Workers \cup {None}) \X (0..MaxPanics)]
        /\ target'[th] = <<last, run[last]>>
        /\ \A x \in Threads : x # th => target'[x] = target[x]
    BY <1>1, <2>1, <2>3
  <2>5. /\ CoreInv' /\ LocalInv' /\ SlockInv'
        /\ \A v \in Workers : WaitsAt(pc'[v], ret'[v]) <=> WaitsAt(pc[v], ret[v])
        /\ pc'[th] = "notifywake" /\ \A x \in Threads : x # th => pc'[x] = pc[x]
    BY <1>0, <1>1, <2>1, <2>2, <2>4, NotifyCore
  <2>6. SleepersConsistent'
    BY <1>0, <1>2, <1>3, <2>1, SleepersListed
  <2>7. FlagNeverWedged'
    BY <1>0, <1>2, <1>4, <2>1 DEF FlagNeverWedged
  <2>8. WakeInv'
    BY <1>0, <2>1, <2>4, <2>5, NotifyWakes
  <2>9. QED
    BY <2>5, <2>6, <2>7, <2>8 DEF IInv, SleepInv
<1>5. CASE /\ Len(wakers) # count \/ wakers = <<>>
           /\ Goto(th, ret[th]) /\ UNCHANGED <<target, wakers>>
  <2>1. pc' = [pc EXCEPT ![th] = ret[th]]
    BY <1>5 DEF Goto
  <2>2. /\ CoreInv' /\ LocalInv' /\ SlockInv'
        /\ \A v \in Workers : WaitsAt(pc'[v], ret'[v]) <=> WaitsAt(pc[v], ret[v])
        /\ pc'[th] = ret[th] /\ \A x \in Threads : x # th => pc'[x] = pc[x]
    BY <1>0, <1>1, <1>5, <2>1, NotifyCore
  <2>3. SleepersConsistent'
    BY <1>0, <1>1, <1>3, <1>5 DEF SleepersConsistent
  <2>4. FlagNeverWedged'
    <3>1. count = 0 \/ count > Len(wakers)
      BY <1>2, <1>5, EmptySeq
    <3>2. QED
      BY <1>0, <1>5, <3>1 DEF FlagNeverWedged
  <2>5. pc'[th] # "sleepflag"
    <3>1. CASE th \in Workers
      BY <1>0, <2>2, <3>1 DEF IInv, CoreInv, ControlInv, ReturnsTo, NotifyPoints
    <3>2. CASE th \in Outsiders
      BY <2>2, <3>2 DEF IInv, CoreInv, ControlInv
    <3>3. QED
      BY <3>1, <3>2 DEF Threads
  <2>6. WakeInv'
    BY <1>0, <1>5, <2>2, <2>5, NotifyWakes
  <2>7. QED
    BY <2>2, <2>3, <2>4, <2>6 DEF IInv, SleepInv
<1>6. QED
  BY <1>4, <1>5 DEF NotifyPop

LEMMA NotifyWakeStep ==
    ASSUME IInv, NEW th \in Threads, NotifyWake(th)
    PROVE  IInv'
<1> DEFINE w == target[th][1]
<1>0. /\ UNCHANGED <<queue, local, tickVars, ret, task, slock, count, sleeping>>
      /\ UNCHANGED <<run, notified, wakers>>
      /\ pc[th] = "notifywake" /\ pc[th] \in NotifyPoints
      /\ pc' = [pc EXCEPT ![th] = ret[th]]
      /\ target' = [target EXCEPT ![th] = <<None, 0>>]
      /\ token' = IF run[w] = target[th][2] THEN [token EXCEPT ![w] = TRUE] ELSE token
  BY DEF NotifyWake, sleepVars, tickVars, NotifyPoints, Goto
<1>1. /\ notified \in BOOLEAN /\ wakers \in Seq(Workers) /\ token \in [Workers -> BOOLEAN]
      /\ target \in [Threads -> (Workers \cup {None}) \X (0..MaxPanics)]
      /\ SleepersConsistent /\ FlagNeverWedged
  BY DEF IInv, CoreInv, TypeOK, ShapeInv, SleepInv
<1>2. /\ token' \in [Workers -> BOOLEAN]
      /\ \A v \in Workers : token[v] => token'[v]
      /\ \A v \in Workers : target[th] = <<v, run[v]>> => token'[v]
  <2>1. CASE run[w] = target[th][2]
    <3>1. token' = [token EXCEPT ![w] = TRUE]
      BY <1>0, <2>1
    <3>2. \A v \in Workers : target[th] = <<v, run[v]>> => w = v
      OBVIOUS
    <3> HIDE DEF w
    <3>3. QED
      BY <1>1, <3>1, <3>2
  <2>2. CASE run[w] # target[th][2]
    <3>1. token' = token
      BY <1>0, <2>2
    <3>2. \A v \in Workers : target[th] # <<v, run[v]>>
      BY <2>2
    <3>3. QED
      BY <1>1, <3>1, <3>2
  <2>3. QED
    BY <2>1, <2>2
<1>3. /\ target' \in [Threads -> (Workers \cup {None}) \X (0..MaxPanics)]
      /\ \A x \in Threads : x # th => target'[x] = target[x]
  <2>1. <<None, 0>> \in (Workers \cup {None}) \X (0..MaxPanics)
    BY BoundsAssumption
  <2>2. QED
    BY <1>0, <1>1, <2>1
<1>4. /\ CoreInv' /\ LocalInv' /\ SlockInv'
      /\ \A v \in Workers : WaitsAt(pc'[v], ret'[v]) <=> WaitsAt(pc[v], ret[v])
      /\ pc'[th] = ret[th] /\ \A x \in Threads : x # th => pc'[x] = pc[x]
  BY <1>0, <1>1, <1>2, <1>3, NotifyCore
<1>5. SleepersConsistent'
  BY <1>0, <1>1 DEF SleepersConsistent, Sleeping
<1>6. FlagNeverWedged'
  BY <1>0, <1>1, <1>4 DEF FlagNeverWedged, Notifying
<1>7. pc'[th] # "sleepflag"
  <2>1. CASE th \in Workers
    BY <1>0, <1>4, <2>1 DEF IInv, CoreInv, ControlInv, ReturnsTo, NotifyPoints
  <2>2. CASE th \in Outsiders
    BY <1>4, <2>2 DEF IInv, CoreInv, ControlInv
  <2>3. QED
    BY <2>1, <2>2 DEF Threads
<1>8. WakeInv'
  BY <1>0, <1>2, <1>3, <1>4, <1>7, NotifyWakes
<1>9. QED
  BY <1>4, <1>5, <1>6, <1>8 DEF IInv, SleepInv

----------------------------------------------------------------------------
(* Wakes from outside *)

LEMMA OutsiderWakeStep ==
    ASSUME IInv, NEW th \in Outsiders, NEW t \in Tasks, OutsiderWake(th, t)
    PROVE  IInv'
<1>0. /\ UNCHANGED <<local, token, sleepVars, tickVars, notified, target>>
      /\ UNCHANGED <<slock, count, wakers, sleeping, hand, source, left, shards, ticks,
                     batch, run>>
      /\ pc[th] = "out" /\ pc' = [pc EXCEPT ![th] = "notify"]
      /\ ret' = [ret EXCEPT ![th] = "out"]
      /\ queue' = Append(queue, t) /\ task' = [task EXCEPT ![t] = "queued"]
  BY DEF OutsiderWake, ScheduleGlobal, sleepVars, tickVars, Goto
<1>1. /\ \A v \in Workers : pc'[v] = pc[v] /\ ret'[v] = ret[v]
      /\ \A x \in Outsiders : pc'[x] \in OutsiderPoints /\ ret'[x] = "out"
      /\ \A x \in Threads : x # th => pc'[x] = pc[x]
  BY <1>0, NamesAssumption DEF IInv, CoreInv, TypeOK, ShapeInv, ControlInv, Threads, OutsiderPoints
<1>2. ShapeInv'
  BY <1>0 DEF IInv, CoreInv, ShapeInv, WorkerPoints
<1>3. queue' \in Seq(Tasks) /\ task' \in [Tasks -> TaskStates]
  BY <1>0, AppendProperties DEF IInv, CoreInv, TypeOK, TaskStates
<1>4. TypeOK'
  BY <1>0, <1>1, <1>2, <1>3 DEF IInv, CoreInv, TypeOK, ShapeInv
<1>5. ControlInv' /\ CapInv'
  BY <1>0, <1>1 DEF IInv, CoreInv, ControlInv, CapInv
<1>6. LocalInv' /\ SlockInv'
  BY <1>0, <1>1 DEF IInv, LocalInv, SleepInv, SlockInv
<1>7. SleepersConsistent'
  BY <1>0 DEF IInv, SleepInv, SleepersConsistent, Sleeping
<1>8. FlagNeverWedged'
  BY <1>0, <1>1 DEF IInv, SleepInv, FlagNeverWedged, Notifying
<1>9. WakeInv'
  <2>1. \A v \in Workers : WaitsAt(pc'[v], ret'[v]) <=> WaitsAt(pc[v], ret[v])
    BY <1>1
  <2>2. th \in Threads /\ pc'[th] = "notify"
    BY <1>0 DEF IInv, CoreInv, ShapeInv, Threads
  <2>3. QED
    BY <1>0, <1>1, <2>1, <2>2, NotifyWakes
<1>10. QED
  BY <1>2, <1>4, <1>5, <1>6, <1>7, <1>8, <1>9 DEF IInv, CoreInv, SleepInv

LEMMA RewakeStep ==
    ASSUME IInv, NEW t \in Tasks, Rewake(t)
    PROVE  IInv'
<1>0. /\ UNCHANGED <<queue, local, token, slock, count, wakers, sleeping, notified, pc,
                     ret, target, hand, source, left, shards, ticks, batch, run>>
      /\ task' = [task EXCEPT ![t] = "rewoken"]
  BY DEF Rewake, schedVars, sleepVars, tickVars
<1>1. task' \in [Tasks -> TaskStates]
  BY <1>0 DEF IInv, CoreInv, TypeOK, TaskStates
<1>2. TypeOK' /\ ShapeInv'
  BY <1>0, <1>1 DEF IInv, CoreInv, TypeOK, ShapeInv
<1>3. ControlInv' /\ CapInv' /\ LocalInv'
  BY <1>0 DEF IInv, CoreInv, ControlInv, CapInv, LocalInv
<1>4. SleepInv'
  BY <1>0 DEF IInv, SleepInv, SleepersConsistent, Sleeping, SlockInv, FlagNeverWedged,
              Notifying, WakeInv
<1>5. QED
  BY <1>2, <1>3, <1>4 DEF IInv, CoreInv

----------------------------------------------------------------------------
(* The theorems *)

LEMMA InitIInv == Init => IInv
<1> SUFFICES ASSUME Init PROVE IInv
  OBVIOUS
<1> USE NamesAssumption DEF Init
<1>1. \A w \in Workers : pc[w] = "search"
  BY DEF Threads
<1>2. \A th \in Outsiders : pc[th] = "out"
  BY DEF Threads
<1>3. \A th \in Threads : ret[th] = "out" /\ target[th] = <<None, 0>>
  OBVIOUS
<1>4. <<None, 0>> \in (Workers \cup {None}) \X (0..MaxPanics)
  BY BoundsAssumption
<1>5. TypeOK
  <2>1. /\ queue \in Seq(Tasks) /\ local \in [Workers -> Seq(Tasks)]
        /\ wakers \in Seq(Workers) /\ slock \in Workers \cup {None} /\ count \in Nat
    OBVIOUS
  <2>2. /\ notified \in BOOLEAN /\ sleeping \in [Workers -> BOOLEAN]
        /\ token \in [Workers -> BOOLEAN]
    OBVIOUS
  <2>3. /\ \A w \in Workers : pc[w] \in WorkerPoints
        /\ \A th \in Outsiders : pc[th] \in OutsiderPoints
        /\ \A th \in Threads : ret[th] \in WorkerPoints \cup {"out"}
        /\ \A th \in Threads : target[th] \in (Workers \cup {None}) \X (0..MaxPanics)
    BY <1>1, <1>2, <1>3, <1>4 DEF WorkerPoints, OutsiderPoints
  <2>4. /\ hand \in [Workers -> Tasks \cup {None}]
        /\ source \in [Workers -> Workers \cup {"global", None}]
        /\ shards \in [Workers -> SUBSET Workers]
        /\ task \in [Tasks -> TaskStates]
    BY DEF TaskStates
  <2>5. /\ left \in [Workers -> 0..LocalCap] /\ run \in [Workers -> 0..MaxPanics]
        /\ ticks \in [Workers -> 0..(StealPeriod - 1)]
        /\ batch \in [Workers -> 0..(BatchSize - 1)]
    BY BoundsAssumption
  <2>6. QED
    BY <2>1, <2>2, <2>3, <2>4, <2>5 DEF TypeOK
<1>6. ShapeInv
  BY <1>4 DEF ShapeInv, WorkerPoints, Threads
<1>7. ControlInv
  BY <1>1, <1>3 DEF ControlInv, ReturnsTo, HoldsAt, NotifyPoints, Threads
<1>8. CapInv /\ LocalInv
  BY <1>1, <1>3, BoundsAssumption DEF CapInv, LocalInv, WaitsAt, NotifyPoints
<1>9. SleepersConsistent
  <2>1. Sleeping = {} /\ Cardinality({}) = 0
    BY FS_EmptySet DEF Sleeping
  <2>2. IsInjective(wakers) /\ Range(wakers) = {}
    BY DEF IsInjective, Range
  <2>3. QED
    BY <2>1, <2>2 DEF SleepersConsistent
<1>10. SlockInv /\ FlagNeverWedged /\ WakeInv
  BY <1>1 DEF SlockInv, FlagNeverWedged, WakeInv, WaitsAt, NotifyPoints
<1>11. QED
  BY <1>5, <1>6, <1>7, <1>8, <1>9, <1>10 DEF IInv, CoreInv, SleepInv

LEMMA NextIInv == IInv /\ [Next]_vars => IInv'
<1> SUFFICES ASSUME IInv, [Next]_vars PROVE IInv'
  OBVIOUS
<1>1. ASSUME NEW th \in Threads, NotifyStep(th) PROVE IInv'
  BY <1>1, NotifyFlagStep, NotifyPopStep, NotifyWakeStep DEF NotifyStep
<1>2. ASSUME NEW w \in Workers, SearchStep(w) PROVE IInv'
  BY <1>2, SearchLocalStep, SearchGlobalStep, SearchStealStep, StealOneStep, StealEndStep
     DEF SearchStep
<1>3. ASSUME NEW w \in Workers, SleepStep(w) PROVE IInv'
  BY <1>3, SleepStepInv, RefreshStep, WakeStepInv, BumpStep DEF SleepStep
<1>4. ASSUME NEW w \in Workers, RunStep(w) PROVE IInv'
  BY <1>4, StartStep, RunReturnsStep, NextTickStep DEF RunStep
<1>5. ASSUME NEW w \in Workers, WorkerStep(w) \/ Panic(w) PROVE IInv'
  BY <1>1, <1>2, <1>3, <1>4, <1>5, RepollStep, PanicStep DEF WorkerStep, Threads
<1>6. ASSUME NEW w \in Workers, NEW t \in Tasks, RunWakes(w, t) \/ ReactorWakes(w, t)
      PROVE  IInv'
  BY <1>6, RunWakesStep
<1>7. ASSUME NEW th \in Outsiders, NEW t \in Tasks, OutsiderWake(th, t) PROVE IInv'
  BY <1>7, OutsiderWakeStep
<1>8. ASSUME NEW t \in Tasks, Rewake(t) PROVE IInv'
  BY <1>8, RewakeStep
<1>9. CASE UNCHANGED vars
  <2>1. UNCHANGED <<queue, notified, local, slock, count, wakers, sleeping, pc, ret, target,
                    hand, source, left, shards, ticks, batch, token, run, task>>
    BY <1>9 DEF vars
  <2>2. CoreInv'
    BY <2>1 DEF IInv, CoreInv, TypeOK, ShapeInv, ControlInv, CapInv
  <2>3. SleepInv' /\ LocalInv'
    BY <2>1 DEF IInv, SleepInv, SleepersConsistent, Sleeping, SlockInv, FlagNeverWedged,
                Notifying, WakeInv, LocalInv
  <2>4. QED
    BY <2>2, <2>3 DEF IInv
<1>10. QED
  BY <1>1, <1>5, <1>6, <1>7, <1>8, <1>9 DEF Next, Threads

\* Types, the list of sleepers, the wakes in flight and the run queues, together:
\* the inductive invariant of the executor.
THEOREM ExecutorInvariant == Spec => []IInv
<1>1. QED
  BY InitIInv, NextIInv, PTL DEF Spec

\* Every variable keeps its type: Sleepers.count never goes below zero, and no
\* ticker reserves more than its run queue can hold.
THEOREM ExecutorTypeCorrect == Spec => []TypeOK
<1>1. IInv => TypeOK
  BY DEF IInv, CoreInv
<1>2. QED
  BY <1>1, ExecutorInvariant, PTL

\* Sleepers.count is the number of sleeping tickers and Sleepers.wakers lists
\* each unnotified one once, after every interleaving of sleep(), wake() and
\* notify().
THEOREM SleepersAlwaysConsistent == Spec => []SleepersConsistent
<1>1. IInv => SleepersConsistent
  BY DEF IInv, SleepInv
<1>2. QED
  BY <1>1, ExecutorInvariant, PTL

\* State.notified is never left at true with every sleeper unnotified and nobody
\* about to wake one.
THEOREM FlagIsNeverWedged == Spec => []FlagNeverWedged
<1>1. IInv => FlagNeverWedged
  BY DEF IInv, SleepInv
<1>2. QED
  BY <1>1, ExecutorInvariant, PTL

\* A sleeping ticker whose waker was taken off the list by Sleepers::notify is
\* unparked, or the thread that took it is about to unpark it.
THEOREM NotifiedTickersWake == Spec => []NotifiedTickerWakes
<1>1. IInv => NotifiedTickerWakes
  BY DEF IInv, SleepInv, WakeInv, NotifiedTickerWakes, WaitsAt
<1>2. QED
  BY <1>1, ExecutorInvariant, PTL

\* Until a task panics on it, a worker never parks with tasks in its own run
\* queue.
THEOREM LocalTasksNotStranded == Spec => []LocalNotStranded
<1>1. IInv => LocalNotStranded
  BY DEF IInv, LocalInv, LocalNotStranded, SleepsOnWork, WaitsAt
<1>2. QED
  BY <1>1, ExecutorInvariant, PTL
=============================================================================
