---------------------------- MODULE TimersProofs ----------------------------
(***************************************************************************)
(* Proofs about the timers, for any number of owners and wakers, any size   *)
(* of the queue, and any interleaving of owners, reacting thread and others *)
(* that empty the queue: no timer is lost, none is left behind, and an      *)
(* IdleTimeout does not give up early.                                      *)
(***************************************************************************)
EXTENDS Timers, FiniteSetTheorems, SequenceTheorems, TLAPS

----------------------------------------------------------------------------
(* The inductive invariant *)

Insertions == [op : {"insert"}, when : Nat, id : Nat \ {0}, waker : Wakers]
Removals   == [op : {"remove"}, when : Nat, id : Nat]
Signals    == [op : {"notify", "check"}]
Entry      == [when : Nat, id : Nat \ {0}, waker : Wakers]

\* The types of the reactor ...
ReactorShape ==
    /\ now \in 0..MaxNow
    /\ timerOps \in Seq(Insertions \cup Removals)
    /\ Len(timerOps) <= OpsCap
    /\ timers \subseteq Entry
    /\ IsFiniteSet(timers)
    /\ tlock \in Owners \cup {Reactor, Other, None}
    /\ rounds \in 0..OpsCap
    /\ rpc \in {"out", "first", "wait", "second", "wake"}
    /\ kicked \in BOOLEAN
    /\ collected \subseteq Wakers

\* ... of the Timers ...
TimerShape ==
    /\ kind \in [Owners -> Kinds]
    /\ life \in [Owners -> {"new", "opening", "live", "done", "dropped"}]
    /\ deadline \in [Owners -> Nat]
    /\ key \in [Owners -> Nat]
    /\ waker \in [Owners -> Wakers \cup {None}]
    /\ todo \in [Owners -> Seq(Insertions \cup Removals \cup Signals)]

\* ... and of the polls.
PollShape ==
    /\ last \in [Owners -> 0..MaxNow]
    /\ lag \in [Owners -> 0..MaxNow]
    /\ cur \in [Owners -> Wakers \cup {None}]
    /\ polled \in [Owners -> 0..MaxNow]
    /\ waits \subseteq Owners
    /\ woken \subseteq Owners
    /\ inner \subseteq Owners
    /\ full \subseteq Owners \cup {Other}
    /\ moves \in 0..MaxMoves

\* The operations on their way, and the entries and ids they remove
Sent == Elems(timerOps) \cup UNION {Elems(todo[x]) : x \in Owners}

Leaving    == {<<o.when, o.id>> : o \in {p \in Sent : p.op = "remove"}}
RemovalIds == {o.id : o \in {p \in Sent : p.op = "remove"}}

\* A Timer has a waker exactly when it has a key, and no two have the same key.
KeyInv ==
    /\ \A x \in Owners : waker[x] = None <=> key[x] = 0
    /\ \A x, y \in Owners : key[x] = key[y] /\ x # y => key[x] = 0
    /\ \A x \in Owners :
          life[x] \in {"new", "opening"} => key[x] = 0 /\ todo[x] = <<>> /\ x \notin waits

\* After an insertion a call neither inserts nor removes anything.
InsertLast(s) ==
    \A i, j \in 1..Len(s) :
        i < j /\ s[i].op = "insert" => s[j].op \notin {"insert", "remove"}

\* What a call has yet to insert is the current entry of its Timer, under an id
\* that nobody else has heard of.
TodoInv ==
    \A x \in Owners :
        /\ InsertLast(todo[x])
        /\ \A o \in Elems(todo[x]) :
              /\ o.op = "insert" =>
                    /\ o.when = deadline[x] /\ o.id = key[x] /\ o.waker = waker[x]
                    /\ life[x] = "live"
                    /\ key[x] \notin {e.id : e \in timers}
                    /\ \A p \in Elems(timerOps) : p.id # key[x]
                    /\ key[x] \notin RemovalIds
              /\ o.op = "check" => life[x] = "live" /\ waker[x] # None /\ kind[x] = "idle"

\* The id of an insertion in the queue occurs neither before it nor in the map.
QueueInv ==
    /\ \A i, j \in 1..Len(timerOps) :
          i < j /\ timerOps[j].op = "insert" => timerOps[i].id # timerOps[j].id
    /\ \A o \in Elems(timerOps) : o.op = "insert" => \A e \in timers : e.id # o.id
    /\ \A e, f \in timers : e.id = f.id => e = f

\* The entry is that of a Timer that exists.
Owned(when, id, w) ==
    \E x \in Owners : /\ life[x] \in {"live", "done"}
                      /\ when = deadline[x] /\ id = key[x] /\ w = waker[x]

LeakInv ==
    /\ \A e \in timers : Owned(e.when, e.id, e.waker) \/ <<e.when, e.id>> \in Leaving
    /\ \A o \in Elems(timerOps) :
          o.op = "insert" => Owned(o.when, o.id, o.waker) \/ <<o.when, o.id>> \in Leaving

\* The current entry of x is in the map or on its way, and is going to stay.
InMap(x) ==
    \/ \E e \in timers : e.when = deadline[x] /\ e.id = key[x] /\ e.waker = waker[x]
    \/ \E o \in Elems(timerOps) :
          o.op = "insert" /\ o.when = deadline[x] /\ o.id = key[x] /\ o.waker = waker[x]

Entered(x) ==
    /\ InMap(x) \/ \E o \in Elems(todo[x]) : o.op = "insert"
    /\ key[x] \notin RemovalIds

\* A Timer that can still become due is entered, and so is one that is waited
\* for, unless it has been taken out to be woken.
WaitInv ==
    /\ \A x \in Owners :
          life[x] = "live" /\ waker[x] # None /\ now < deadline[x] => Entered(x)
    /\ \A x \in waits :
          /\ life[x] = "live" /\ waker[x] # None /\ cur[x] = waker[x]
          /\ Entered(x) \/ cur[x] \in collected \/ x \in woken

\* The deadline of an IdleTimeout belongs to last_visited, or to a clock read lag
\* earlier, and last_visited is behind the last poll by less than check_interval
\* once that poll is over.  While new() is under way there is only the deadline.
IdleInv ==
    \A x \in Owners :
        /\ kind[x] = "idle" /\ life[x] = "live" =>
              /\ deadline[x] + lag[x] = last[x] + Idle
              /\ last[x] <= now /\ polled[x] <= now
              /\ \/ polled[x] - last[x] < Check
                 \/ polled[x] <= last[x]
                 \/ \E o \in Elems(todo[x]) : o.op = "check"
        /\ life[x] = "opening" =>
              kind[x] = "idle" /\ Idle <= deadline[x] /\ deadline[x] <= now + Idle

ShapeInv == ReactorShape /\ TimerShape /\ PollShape

EntryInv == KeyInv /\ TodoInv /\ QueueInv /\ LeakInv

IInv == ShapeInv /\ EntryInv /\ WaitInv /\ IdleInv

USE BoundsAssumption, NamesAssumption

----------------------------------------------------------------------------
(* Operations in sequences *)

LEMMA ElemsIn ==
    ASSUME NEW S, NEW s \in Seq(S)
    PROVE  /\ Elems(s) \subseteq S
           /\ \A i \in 1..Len(s) : s[i] \in Elems(s)
           /\ \A o \in Elems(s) : \E i \in 1..Len(s) : o = s[i]
BY DEF Elems

LEMMA ElemsEmpty == Elems(<<>>) = {}
BY DEF Elems

LEMMA ElemsTail ==
    ASSUME NEW S, NEW s \in Seq(S), s # <<>>
    PROVE  /\ Tail(s) \in Seq(S) /\ Head(s) \in S
           /\ Elems(s) = {Head(s)} \cup Elems(Tail(s))
<1> DEFINE l == Len(s)
           t == Tail(s)
           h == Head(s)
<1>1. /\ h \in S /\ t \in Seq(S) /\ l \in Nat /\ Len(t) = l - 1 /\ h = s[1] /\ l # 0
      /\ \A i \in 1..Len(t) : t[i] = s[i + 1]
  BY HeadTailProperties, EmptySeq, LenProperties
<1>2. DOMAIN s = 1..l /\ DOMAIN t = 1..(l - 1)
  BY <1>1, LenProperties
<1> HIDE DEF l, t, h
<1>3. \A i \in 1..(l - 1) : t[i] = s[i + 1]
  BY <1>1
<1>4. ASSUME NEW o \in Elems(s) PROVE o \in {h} \cup Elems(t)
  <2>1. PICK i \in 1..l : o = s[i]
    BY <1>2, <1>4 DEF Elems
  <2>2. CASE i = 1
    BY <1>1, <2>1, <2>2
  <2>3. CASE i # 1
    <3>1. i - 1 \in 1..(l - 1) /\ (i - 1) + 1 = i
      BY <1>1, <2>3
    <3>2. t[i - 1] = o
      BY <1>3, <2>1, <3>1
    <3>3. QED
      BY <1>2, <3>1, <3>2 DEF Elems
  <2>4. QED
    BY <2>2, <2>3
<1>5. ASSUME NEW o \in {h} \cup Elems(t) PROVE o \in Elems(s)
  <2>1. CASE o = h
    <3>1. 1 \in 1..l
      BY <1>1
    <3>2. QED
      BY <1>1, <1>2, <2>1, <3>1 DEF Elems
  <2>2. CASE o \in Elems(t)
    <3>1. PICK i \in 1..(l - 1) : o = t[i]
      BY <1>2, <2>2 DEF Elems
    <3>2. i + 1 \in 1..l /\ o = s[i + 1]
      BY <1>1, <1>3, <3>1
    <3>3. QED
      BY <1>2, <3>2 DEF Elems
  <2>3. QED
    BY <1>5, <2>1, <2>2
<1>6. Elems(s) = {h} \cup Elems(t)
  BY <1>4, <1>5
<1>7. QED
  BY <1>1, <1>6 DEF h, t

LEMMA ElemsAppend ==
    ASSUME NEW S, NEW s \in Seq(S), NEW o \in S
    PROVE  /\ Append(s, o) \in Seq(S) /\ Len(Append(s, o)) = Len(s) + 1
           /\ Elems(Append(s, o)) = Elems(s) \cup {o}
           /\ \A i \in 1..Len(s) : Append(s, o)[i] = s[i]
           /\ Append(s, o)[Len(s) + 1] = o
<1> DEFINE l == Len(s)
           a == Append(s, o)
<1>1. /\ a \in Seq(S) /\ l \in Nat /\ Len(a) = l + 1 /\ a[l + 1] = o
      /\ \A i \in 1..l : a[i] = s[i]
  BY AppendProperties, LenProperties
<1>2. DOMAIN s = 1..l /\ DOMAIN a = 1..(l + 1)
  BY <1>1, LenProperties
<1> HIDE DEF l, a
<1>3. ASSUME NEW p \in Elems(a) PROVE p \in Elems(s) \cup {o}
  <2>1. PICK i \in 1..(l + 1) : p = a[i]
    BY <1>2, <1>3 DEF Elems
  <2>2. i \in 1..l \/ i = l + 1
    BY <1>1
  <2>3. QED
    BY <1>1, <1>2, <2>1, <2>2 DEF Elems
<1>4. ASSUME NEW p \in Elems(s) \cup {o} PROVE p \in Elems(a)
  <2>1. CASE p = o
    <3>1. l + 1 \in 1..(l + 1)
      BY <1>1
    <3>2. QED
      BY <1>1, <1>2, <2>1, <3>1 DEF Elems
  <2>2. CASE p \in Elems(s)
    <3>1. PICK i \in 1..l : p = s[i]
      BY <1>2, <2>2 DEF Elems
    <3>2. i \in 1..(l + 1)
      BY <1>1
    <3>3. QED
      BY <1>1, <1>2, <3>1, <3>2 DEF Elems
  <2>3. QED
    BY <1>4, <2>1, <2>2
<1>5. Elems(a) = Elems(s) \cup {o}
  BY <1>3, <1>4
<1>6. QED
  BY <1>1, <1>5 DEF a, l

LEMMA ElemsConcat ==
    ASSUME NEW S, NEW s \in Seq(S), NEW t \in Seq(S)
    PROVE  s \o t \in Seq(S) /\ Elems(s \o t) = Elems(s) \cup Elems(t)
<1> DEFINE l == Len(s)
           m == Len(t)
           c == s \o t
<1>1. /\ c \in Seq(S) /\ l \in Nat /\ m \in Nat /\ Len(c) = l + m
      /\ \A i \in 1..(l + m) : c[i] = IF i <= l THEN s[i] ELSE t[i - l]
  BY ConcatProperties, LenProperties
<1>2. DOMAIN s = 1..l /\ DOMAIN t = 1..m /\ DOMAIN c = 1..(l + m)
  BY <1>1, LenProperties
<1> HIDE DEF l, m, c
<1>3. ASSUME NEW p \in Elems(c) PROVE p \in Elems(s) \cup Elems(t)
  <2>1. PICK i \in 1..(l + m) : p = c[i]
    BY <1>2, <1>3 DEF Elems
  <2>2. CASE i <= l
    <3>1. i \in 1..l
      BY <1>1, <2>2
    <3>2. QED
      BY <1>1, <1>2, <2>1, <2>2, <3>1 DEF Elems
  <2>3. CASE ~(i <= l)
    <3>1. i - l \in 1..m
      BY <1>1, <2>3
    <3>2. QED
      BY <1>1, <1>2, <2>1, <2>3, <3>1 DEF Elems
  <2>4. QED
    BY <2>2, <2>3
<1>4. ASSUME NEW p \in Elems(s) \cup Elems(t) PROVE p \in Elems(c)
  <2>1. CASE p \in Elems(s)
    <3>1. PICK i \in 1..l : p = s[i]
      BY <1>2, <2>1 DEF Elems
    <3>2. i \in 1..(l + m) /\ i <= l
      BY <1>1
    <3>3. QED
      BY <1>1, <1>2, <3>1, <3>2 DEF Elems
  <2>2. CASE p \in Elems(t)
    <3>1. PICK i \in 1..m : p = t[i]
      BY <1>2, <2>2 DEF Elems
    <3>2. l + i \in 1..(l + m) /\ ~(l + i <= l) /\ (l + i) - l = i
      BY <1>1
    <3>3. c[l + i] = p
      BY <1>1, <3>1, <3>2
    <3>4. QED
      BY <1>2, <3>2, <3>3 DEF Elems
  <2>3. QED
    BY <1>4, <2>1, <2>2
<1>5. Elems(c) = Elems(s) \cup Elems(t)
  BY <1>3, <1>4
<1>6. QED
  BY <1>1, <1>5 DEF c

----------------------------------------------------------------------------
(* Fresh ids *)

LEMMA ImageFinite ==
    ASSUME NEW S, NEW f, IsFiniteSet(S)
    PROVE  IsFiniteSet({f[x] : x \in S})
<1> DEFINE T == {f[x] : x \in S}
           g == [x \in S |-> f[x]]
<1>1. g \in Surjection(S, T)
  BY DEF Surjection
<1>2. QED
  BY <1>1, FS_Surjection

LEMMA IdsFinite ==
    ASSUME NEW S, NEW s \in Seq(S)
    PROVE  IsFiniteSet(IdsOf(s))
<1> DEFINE D == 1..Len(s)
           f == [i \in D |-> s[i].id]
<1>1. Len(s) \in Nat /\ DOMAIN s = D
  BY LenProperties
<1>2. IsFiniteSet(D)
  BY <1>1, FS_Interval
<1>3. IsFiniteSet({f[i] : i \in D})
  BY <1>2, ImageFinite, ZenonT(60)
<1>4. IdsOf(s) \subseteq {f[i] : i \in D}
  BY <1>1 DEF IdsOf, Elems
<1>5. QED
  BY <1>3, <1>4, FS_Subset

LEMMA FreshIsNew ==
    ASSUME ShapeInv
    PROVE  FreshId \in Nat \ {0} /\ FreshId \notin UsedIds
<1> DEFINE A == {key[x] : x \in Owners}
           B == {e.id : e \in timers}
           C == IdsOf(timerOps)
           D == UNION {IdsOf(todo[x]) : x \in Owners}
<1>1. IsFiniteSet(A)
  BY ImageFinite
<1>2. IsFiniteSet(B)
  <2> DEFINE f == [e \in timers |-> e.id]
  <2>1. IsFiniteSet(timers)
    BY DEF ShapeInv, ReactorShape
  <2>2. IsFiniteSet({f[e] : e \in timers})
    BY <2>1, ImageFinite
  <2>3. {f[e] : e \in timers} = B
    OBVIOUS
  <2>4. QED
    BY <2>2, <2>3
<1>3. IsFiniteSet(C)
  BY IdsFinite DEF ShapeInv, ReactorShape
<1>4. IsFiniteSet(D)
  <2> DEFINE f == [x \in Owners |-> IdsOf(todo[x])]
             E == {f[x] : x \in Owners}
  <2>1. IsFiniteSet(E)
    BY ImageFinite
  <2>2. \A x \in Owners : IsFiniteSet(f[x])
    BY IdsFinite DEF ShapeInv, TimerShape
  <2>3. IsFiniteSet(UNION E)
    BY <2>1, <2>2, FS_UNION
  <2>4. E = {IdsOf(todo[x]) : x \in Owners}
    OBVIOUS
  <2>5. QED
    BY <2>3, <2>4
<1>5. IsFiniteSet(UsedIds)
  <2> HIDE DEF A, B, C, D
  <2>1. IsFiniteSet(((A \cup B) \cup C) \cup D)
    BY <1>1, <1>2, <1>3, <1>4, FS_Union
  <2>2. QED
    BY <2>1 DEF UsedIds, A, B, C, D
<1> DEFINE n == Cardinality(UsedIds)
<1>6. n \in Nat
  BY <1>5, FS_CardinalityType
<1> HIDE DEF n
<1>7. Cardinality(1..(n + 1)) = n + 1
  BY <1>6, FS_Interval
<1>8. \E i \in 1..(n + 1) : i \notin UsedIds
  <2> SUFFICES ASSUME 1..(n + 1) \subseteq UsedIds PROVE FALSE
    OBVIOUS
  <2>1. Cardinality(1..(n + 1)) <= n
    BY <1>5, FS_Subset DEF n
  <2>2. QED
    BY <1>6, <1>7, <2>1
<1>9. FreshId \in 1..(n + 1) /\ FreshId \notin UsedIds
  BY <1>8 DEF FreshId, n
<1>10. QED
  BY <1>6, <1>9

\* Every id that is around
LEMMA UsedFacts ==
    ASSUME ShapeInv
    PROVE  /\ \A y \in Owners : key[y] \in UsedIds
           /\ \A e \in timers : e.id \in UsedIds
           /\ \A o \in Elems(timerOps) : o.id \in UsedIds /\ o.op \in {"insert", "remove"}
           /\ \A y \in Owners : \A o \in Elems(todo[y]) :
                 o.op \in {"insert", "remove"} => o.id \in UsedIds
<1>1. \A o \in Elems(timerOps) : o.op \in {"insert", "remove"}
  <2>1. Elems(timerOps) \subseteq Insertions \cup Removals
    BY ElemsIn DEF ShapeInv, ReactorShape
  <2>2. QED
    BY <2>1 DEF Insertions, Removals
<1>2. \A o \in Elems(timerOps) : o.id \in IdsOf(timerOps)
  BY <1>1 DEF IdsOf
<1>3. \A y \in Owners : \A o \in Elems(todo[y]) :
         o.op \in {"insert", "remove"} => o.id \in IdsOf(todo[y])
  BY DEF IdsOf
<1>4. QED
  BY <1>1, <1>2, <1>3 DEF UsedIds

----------------------------------------------------------------------------
(* A call of an owner *)

\* A step changes no Timer but that of x, and neither the queue nor the map.
OnlyTimer(x) ==
    /\ UNCHANGED <<timerOps, timers, kind>>
    /\ \A y \in Owners : y # x =>
          /\ deadline'[y] = deadline[y] /\ key'[y] = key[y] /\ waker'[y] = waker[y]
          /\ life'[y] = life[y] /\ todo'[y] = todo[y]

\* What the call of x is going to send: the removal of the entry it had, and the
\* insertion of the one it has now.
CallOps(x) ==
    /\ InsertLast(todo'[x])
    /\ \A o \in Elems(todo'[x]) :
          /\ o.op = "remove" => o.when = deadline[x] /\ o.id = key[x] /\ key[x] # 0
          /\ o.op = "insert" =>
                /\ o.when = deadline'[x] /\ o.id = key'[x] /\ o.waker = waker'[x]
                /\ life'[x] = "live" /\ key'[x] \notin UsedIds
          /\ o.op = "check" => life'[x] = "live" /\ waker'[x] # None /\ kind[x] = "idle"

\* The Timer keeps its entry, had none, or removes it.
KeepsEntry(x) ==
    /\ deadline'[x] = deadline[x] /\ key'[x] = key[x] /\ waker'[x] = waker[x]
    /\ life'[x] \in {"live", "done"}

RemovesEntry(x) ==
    \E o \in Elems(todo'[x]) : o.op = "remove" /\ o.when = deadline[x] /\ o.id = key[x]

Quiet(x) == \A o \in Elems(todo[x]) : o.op \notin {"insert", "remove"}

Call(x) ==
    /\ OnlyTimer(x)
    /\ CallOps(x)
    /\ Quiet(x)
    /\ KeepsEntry(x) \/ key[x] = 0 \/ RemovesEntry(x)
    /\ key'[x] = key[x] \/ key'[x] = 0 \/ key'[x] \notin UsedIds
    /\ waker'[x] = None <=> key'[x] = 0
    /\ life'[x] # "new"
    /\ life'[x] = "opening" => key'[x] = 0 /\ todo'[x] = <<>> /\ x \notin waits'

LEMMA CallRemovals ==
    ASSUME ShapeInv, NEW x \in Owners, Call(x), NEW id \in RemovalIds'
    PROVE  /\ id \in RemovalIds \/ (id = key[x] /\ key[x] # 0)
           /\ id \in UsedIds
<1>1. PICK o \in Sent' : o.op = "remove" /\ o.id = id
  BY DEF RemovalIds
<1>2. CASE o \in Elems(timerOps')
  <2>1. o \in Elems(timerOps)
    BY <1>2 DEF Call, OnlyTimer
  <2>2. QED
    BY <1>1, <2>1, UsedFacts DEF RemovalIds, Sent
<1>3. ASSUME NEW y \in Owners, o \in Elems(todo'[y])
      PROVE  /\ id \in RemovalIds \/ (id = key[x] /\ key[x] # 0)
             /\ id \in UsedIds
  <2>1. CASE y = x
    BY <1>1, <1>3, <2>1, UsedFacts DEF Call, CallOps
  <2>2. CASE y # x
    <3>1. o \in Elems(todo[y])
      BY <1>3, <2>2 DEF Call, OnlyTimer
    <3>2. QED
      BY <1>1, <3>1, UsedFacts DEF RemovalIds, Sent
  <2>3. QED
    BY <2>1, <2>2
<1>4. QED
  BY <1>1, <1>2, <1>3 DEF Sent

\* A removal that was on its way still is: the call sends everything it had to.
LEMMA CallLeaving ==
    ASSUME NEW x \in Owners, Call(x)
    PROVE  Leaving \subseteq Leaving'
<1> SUFFICES ASSUME NEW o \in Sent, o.op = "remove" PROVE o \in Sent'
  BY DEF Leaving
<1>1. CASE o \in Elems(timerOps)
  BY <1>1 DEF Call, OnlyTimer, Sent
<1>2. ASSUME NEW y \in Owners, o \in Elems(todo[y]) PROVE o \in Sent'
  <2>1. y # x
    BY <1>2 DEF Call, Quiet
  <2>2. todo'[y] = todo[y]
    BY <2>1 DEF Call, OnlyTimer
  <2>3. QED
    BY <1>2, <2>2 DEF Sent
<1>3. QED
  BY <1>1, <1>2 DEF Sent

LEMMA CallKeyInv ==
    ASSUME ShapeInv, KeyInv, NEW x \in Owners, Call(x), waits' \subseteq waits \cup {x}
    PROVE  KeyInv'
<1>1. \A y \in Owners : waker'[y] = None <=> key'[y] = 0
  BY DEF KeyInv, Call, OnlyTimer
<1>2. ASSUME NEW y \in Owners, NEW z \in Owners, key'[y] = key'[z], y # z
      PROVE  key'[y] = 0
  BY <1>2, UsedFacts DEF KeyInv, Call, OnlyTimer
<1>3. \A y \in Owners :
         life'[y] \in {"new", "opening"} => key'[y] = 0 /\ todo'[y] = <<>> /\ y \notin waits'
  BY DEF KeyInv, Call, OnlyTimer
<1>4. QED
  BY <1>1, <1>2, <1>3 DEF KeyInv

LEMMA CallTodoInv ==
    ASSUME ShapeInv, KeyInv, TodoInv, NEW x \in Owners, Call(x)
    PROVE  TodoInv'
<1> SUFFICES ASSUME NEW y \in Owners
             PROVE  /\ InsertLast(todo'[y])
                    /\ \A o \in Elems(todo'[y]) :
                         /\ o.op = "insert" =>
                               /\ o.when = deadline'[y] /\ o.id = key'[y] /\ o.waker = waker'[y]
                               /\ life'[y] = "live"
                               /\ key'[y] \notin {e.id : e \in timers'}
                               /\ \A p \in Elems(timerOps') : p.id # key'[y]
                               /\ key'[y] \notin RemovalIds'
                         /\ o.op = "check" => /\ life'[y] = "live" /\ waker'[y] # None
                                              /\ kind'[y] = "idle"
  BY DEF TodoInv, InsertLast
<1>1. UNCHANGED <<timers, timerOps, kind>>
  BY DEF Call, OnlyTimer
<1>2. CASE y = x
  <2>1. CallOps(x)
    BY DEF Call
  <2>2. ASSUME key'[x] \notin UsedIds
        PROVE  /\ key'[x] \notin {e.id : e \in timers'}
               /\ \A p \in Elems(timerOps') : p.id # key'[x]
               /\ key'[x] \notin RemovalIds'
    <3>1. /\ key'[x] \notin {e.id : e \in timers'}
          /\ \A p \in Elems(timerOps') : p.id # key'[x]
      BY <1>1, <2>2, UsedFacts
    <3>2. QED
      BY <2>2, <3>1, CallRemovals
  <2>3. QED
    BY <1>1, <1>2, <2>1, <2>2 DEF CallOps
<1>3. CASE y # x
  <2>1. /\ deadline'[y] = deadline[y] /\ key'[y] = key[y] /\ waker'[y] = waker[y]
        /\ life'[y] = life[y] /\ todo'[y] = todo[y]
    BY <1>3 DEF Call, OnlyTimer
  <2>2. ASSUME NEW o \in Elems(todo[y]), o.op = "insert", key[y] \in RemovalIds'
        PROVE  FALSE
    <3>1. o.id = key[y] /\ key[y] \notin RemovalIds
      BY <2>2 DEF TodoInv
    <3>2. key[y] # 0
      <4>1. o \in Insertions \cup Removals \cup Signals
        BY <2>2, ElemsIn DEF ShapeInv, TimerShape
      <4>2. QED
        BY <2>2, <3>1, <4>1 DEF Insertions, Removals, Signals
    <3>3. key[y] = key[x]
      BY <2>2, <3>1, CallRemovals
    <3>4. QED
      BY <1>3, <3>2, <3>3 DEF KeyInv
  <2>3. QED
    BY <1>1, <2>1, <2>2 DEF TodoInv
<1>4. QED
  BY <1>2, <1>3

LEMMA CallLeakInv ==
    ASSUME ShapeInv, KeyInv, LeakInv, NEW x \in Owners, Call(x)
    PROVE  LeakInv'
<1>1. ASSUME NEW when, NEW id, NEW w, Owned(when, id, w) \/ <<when, id>> \in Leaving, id # 0
      PROVE  (Owned(when, id, w) \/ <<when, id>> \in Leaving)'
  <2>1. CASE <<when, id>> \in Leaving
    BY <2>1, CallLeaving
  <2>2. ASSUME NEW y \in Owners, life[y] \in {"live", "done"},
               when = deadline[y], id = key[y], w = waker[y]
        PROVE  (Owned(when, id, w) \/ <<when, id>> \in Leaving)'
    <3>1. CASE y # x
      BY <2>2, <3>1 DEF Call, OnlyTimer, Owned
    <3>2. CASE y = x /\ KeepsEntry(x)
      BY <2>2, <3>2 DEF KeepsEntry, Owned
    <3>3. CASE y = x /\ RemovesEntry(x)
      BY <2>2, <3>3 DEF RemovesEntry, Leaving, Sent
    <3>4. QED
      BY <1>1, <2>2, <3>1, <3>2, <3>3 DEF Call
  <2>3. QED
    BY <1>1, <2>1, <2>2 DEF Owned
<1>2. timers' = timers /\ timerOps' = timerOps
  BY DEF Call, OnlyTimer
<1>3. \A e \in timers : e.id # 0
  BY DEF ShapeInv, ReactorShape, Entry
<1>4. \A o \in Elems(timerOps) : o.op = "insert" => o.id # 0
  <2>1. Elems(timerOps) \subseteq Insertions \cup Removals
    BY ElemsIn DEF ShapeInv, ReactorShape
  <2>2. QED
    BY <2>1 DEF Insertions, Removals
<1>5. ASSUME NEW e \in timers'
      PROVE  (Owned(e.when, e.id, e.waker) \/ <<e.when, e.id>> \in Leaving)'
  <2> DEFINE when == e.when
             id == e.id
             w == e.waker
  <2>1. (Owned(when, id, w) \/ <<when, id>> \in Leaving) /\ id # 0
    BY <1>2, <1>3, <1>5 DEF LeakInv
  <2> HIDE DEF when, id, w
  <2>2. (Owned(when, id, w) \/ <<when, id>> \in Leaving)'
    BY <1>1, <2>1
  <2>3. QED
    BY <2>2 DEF when, id, w
<1>6. QED
  BY <1>1, <1>2, <1>3, <1>4, <1>5 DEF LeakInv

LEMMA CallEntered ==
    ASSUME ShapeInv, KeyInv, NEW x \in Owners, Call(x),
           NEW y \in Owners, y # x, waker[y] # None, Entered(y)
    PROVE  Entered(y)'
<1>1. /\ deadline'[y] = deadline[y] /\ key'[y] = key[y] /\ waker'[y] = waker[y]
      /\ todo'[y] = todo[y] /\ timers' = timers /\ timerOps' = timerOps
  BY DEF Call, OnlyTimer
<1>2. key[y] # 0 /\ key[y] # key[x]
  BY DEF KeyInv
<1>3. key[y] \notin RemovalIds'
  BY <1>2, CallRemovals DEF Entered
<1>4. QED
  BY <1>1, <1>3 DEF Entered, InMap

\* The entry of x itself: a new one, or the old one.
LEMMA CallEnters ==
    ASSUME ShapeInv, NEW x \in Owners, Call(x), \E o \in Elems(todo'[x]) : o.op = "insert"
    PROVE  Entered(x)'
<1>1. key'[x] \notin UsedIds
  BY DEF Call, CallOps
<1>2. QED
  BY <1>1, CallRemovals DEF Entered

LEMMA CallStaysEntered ==
    ASSUME ShapeInv, NEW x \in Owners, Call(x), KeepsEntry(x), Entered(x),
           \A o \in Elems(todo'[x]) : o.op # "remove"
    PROVE  Entered(x)'
<1>1. timers' = timers /\ timerOps' = timerOps
  BY DEF Call, OnlyTimer
<1>2. InMap(x)
  BY DEF Entered, Call, Quiet
<1>3. InMap(x)'
  BY <1>1, <1>2 DEF InMap, KeepsEntry
<1>4. RemovalIds' \subseteq RemovalIds
  <2> SUFFICES ASSUME NEW o \in Sent', o.op = "remove" PROVE o \in Sent
    BY DEF RemovalIds
  <2>1. CASE o \in Elems(timerOps')
    BY <1>1, <2>1 DEF Sent
  <2>2. ASSUME NEW y \in Owners, o \in Elems(todo'[y]) PROVE o \in Sent
    <3>1. y # x
      BY <2>2
    <3>2. o \in Elems(todo[y])
      BY <2>2, <3>1 DEF Call, OnlyTimer
    <3>3. QED
      BY <3>2 DEF Sent
  <2>3. QED
    BY <2>1, <2>2 DEF Sent
<1>5. QED
  BY <1>3, <1>4 DEF Entered, KeepsEntry

LEMMA CallWaitInv ==
    ASSUME ShapeInv, KeyInv, WaitInv, NEW x \in Owners, Call(x),
           UNCHANGED <<now, collected>>,
           \A y \in Owners : y # x => /\ cur'[y] = cur[y]
                                      /\ y \in waits' => y \in waits
                                      /\ y \in woken => y \in woken',
           waits' \subseteq Owners,
           life'[x] = "live" /\ waker'[x] # None /\ now < deadline'[x] => Entered(x)',
           x \in waits' =>
              /\ life'[x] = "live" /\ waker'[x] # None /\ cur'[x] = waker'[x]
              /\ Entered(x)' \/ cur'[x] \in collected \/ x \in woken'
    PROVE  WaitInv'
<1>1. ASSUME NEW y \in Owners, y # x
      PROVE  /\ deadline'[y] = deadline[y] /\ waker'[y] = waker[y] /\ life'[y] = life[y]
             /\ waker[y] # None /\ Entered(y) => Entered(y)'
  BY <1>1, CallEntered DEF Call, OnlyTimer
<1>2. ASSUME NEW y \in Owners, life'[y] = "live", waker'[y] # None, now' < deadline'[y]
      PROVE  Entered(y)'
  <2>1. CASE y = x
    BY <1>2, <2>1
  <2>2. CASE y # x
    BY <1>1, <1>2, <2>2 DEF WaitInv
  <2>3. QED
    BY <2>1, <2>2
<1>3. ASSUME NEW y \in waits'
      PROVE  /\ life'[y] = "live" /\ waker'[y] # None /\ cur'[y] = waker'[y]
             /\ Entered(y)' \/ cur'[y] \in collected' \/ y \in woken'
  <2>1. CASE y = x
    BY <1>3, <2>1
  <2>2. CASE y # x
    BY <1>1, <1>3, <2>2 DEF WaitInv
  <2>3. QED
    BY <2>1, <2>2
<1>4. QED
  BY <1>2, <1>3 DEF WaitInv

\* The IdleTimeouts of the others
LEMMA CallIdleInv ==
    ASSUME IdleInv, NEW x \in Owners, Call(x), UNCHANGED now,
           \A y \in Owners : y # x => last'[y] = last[y] /\ lag'[y] = lag[y] /\ polled'[y] = polled[y],
           kind[x] = "idle" /\ life'[x] = "live" =>
              /\ deadline'[x] + lag'[x] = last'[x] + Idle
              /\ last'[x] <= now /\ polled'[x] <= now
              /\ \/ polled'[x] - last'[x] < Check
                 \/ polled'[x] <= last'[x]
                 \/ \E o \in Elems(todo'[x]) : o.op = "check",
           life'[x] = "opening" =>
              kind[x] = "idle" /\ Idle <= deadline'[x] /\ deadline'[x] <= now + Idle
    PROVE  IdleInv'
<1> DEFINE Idles(y) ==
             kind'[y] = "idle" /\ life'[y] = "live" =>
                /\ deadline'[y] + lag'[y] = last'[y] + Idle
                /\ last'[y] <= now' /\ polled'[y] <= now'
                /\ \/ polled'[y] - last'[y] < Check
                   \/ polled'[y] <= last'[y]
                   \/ \E o \in Elems(todo'[y]) : o.op = "check"
           Opens(y) ==
             life'[y] = "opening" =>
                kind'[y] = "idle" /\ Idle <= deadline'[y] /\ deadline'[y] <= now' + Idle
<1> SUFFICES ASSUME NEW y \in Owners PROVE Idles(y) /\ Opens(y)
  BY DEF IdleInv
<1>1. kind' = kind
  BY DEF Call, OnlyTimer
<1>2. CASE y = x
  BY <1>1, <1>2
<1>3. CASE y # x
  <2>1. /\ deadline'[y] = deadline[y] /\ life'[y] = life[y] /\ todo'[y] = todo[y]
        /\ last'[y] = last[y] /\ lag'[y] = lag[y] /\ polled'[y] = polled[y]
    BY <1>3 DEF Call, OnlyTimer
  <2>2. QED
    BY <1>1, <2>1 DEF IdleInv
<1>4. QED
  BY <1>2, <1>3

----------------------------------------------------------------------------
(* The operations of a call *)

Op == Insertions \cup Removals \cup Signals

LEMMA InsertLastConcat ==
    ASSUME NEW s \in Seq(Op), NEW t \in Seq(Op), InsertLast(s), InsertLast(t),
           \/ \A o \in Elems(s) : o.op # "insert"
           \/ \A o \in Elems(t) : o.op \notin {"insert", "remove"}
    PROVE  InsertLast(s \o t)
<1> DEFINE l == Len(s)
           m == Len(t)
           c == s \o t
<1>1. /\ l \in Nat /\ m \in Nat /\ Len(c) = l + m
      /\ \A i \in 1..(l + m) : c[i] = IF i <= l THEN s[i] ELSE t[i - l]
  BY ConcatProperties, LenProperties
<1>2. /\ \A i \in 1..l : s[i] \in Elems(s)
      /\ \A i \in 1..m : t[i] \in Elems(t)
  BY ElemsIn
<1>3. /\ \A i, j \in 1..l : i < j /\ s[i].op = "insert" => s[j].op \notin {"insert", "remove"}
      /\ \A i, j \in 1..m : i < j /\ t[i].op = "insert" => t[j].op \notin {"insert", "remove"}
  BY DEF InsertLast
<1> HIDE DEF l, m, c
<1>4. ASSUME NEW i \in 1..(l + m), NEW j \in 1..(l + m), i < j, c[i].op = "insert"
      PROVE  c[j].op \notin {"insert", "remove"}
  <2>1. CASE j <= l
    <3>1. i <= l /\ i \in 1..l /\ j \in 1..l
      BY <1>1, <1>4, <2>1
    <3>2. c[i] = s[i] /\ c[j] = s[j]
      BY <1>1, <2>1, <3>1
    <3>3. QED
      BY <1>3, <1>4, <3>1, <3>2
  <2>2. CASE ~(i <= l)
    <3>1. ~(j <= l) /\ i - l \in 1..m /\ j - l \in 1..m /\ i - l < j - l
      BY <1>1, <1>4, <2>2
    <3>2. c[i] = t[i - l] /\ c[j] = t[j - l]
      BY <1>1, <2>2, <3>1
    <3>3. QED
      BY <1>3, <1>4, <3>1, <3>2
  <2>3. CASE i <= l /\ ~(j <= l)
    <3>1. i \in 1..l /\ j - l \in 1..m
      BY <1>1, <2>3
    <3>2. c[i] = s[i] /\ c[j] = t[j - l]
      BY <1>1, <2>3, <3>1
    <3>3. c[i] \in Elems(s) /\ c[j] \in Elems(t)
      BY <1>2, <3>1, <3>2
    <3>4. QED
      BY <1>4, <3>3
  <2>4. QED
    BY <2>1, <2>2, <2>3
<1>5. QED
  BY <1>1, <1>4 DEF InsertLast, c

LEMMA ShortOps ==
    /\ \A o \in Op : <<o>> \in Seq(Op) /\ Elems(<<o>>) = {o} /\ InsertLast(<<o>>)
    /\ <<>> \in Seq(Op) /\ Elems(<<>>) = {} /\ InsertLast(<<>>)
    /\ \A o \in Op, p \in Signals : /\ <<o, p>> \in Seq(Op) /\ Elems(<<o, p>>) = {o, p}
                                    /\ InsertLast(<<o, p>>)
<1>1. ASSUME NEW o \in Op
      PROVE  <<o>> \in Seq(Op) /\ Elems(<<o>>) = {o} /\ InsertLast(<<o>>)
  BY DEF Elems, InsertLast
<1>2. <<>> \in Seq(Op) /\ Elems(<<>>) = {} /\ InsertLast(<<>>)
  BY DEF Elems, InsertLast
<1>3. ASSUME NEW o \in Op, NEW p \in Signals
      PROVE  /\ <<o, p>> \in Seq(Op) /\ Elems(<<o, p>>) = {o, p}
             /\ InsertLast(<<o, p>>)
  <2>1. p \in Op /\ p.op \notin {"insert", "remove"}
    BY DEF Op, Signals
  <2> DEFINE s == <<o, p>>
  <2>2. s \in Seq(Op) /\ Len(s) = 2 /\ s[1] = o /\ s[2] = p /\ DOMAIN s = 1..2
    BY <2>1
  <2> HIDE DEF s
  <2>3. Elems(s) = {o, p}
    <3>1. \A i \in 1..2 : i = 1 \/ i = 2
      OBVIOUS
    <3>2. QED
      BY <2>2, <3>1 DEF Elems
  <2>4. InsertLast(s)
    <3>1. \A i, j \in 1..2 : i < j => j = 2
      OBVIOUS
    <3>2. QED
      BY <2>1, <2>2, <3>1 DEF InsertLast
  <2>5. QED
    BY <2>2, <2>3, <2>4 DEF s
<1>4. QED
  BY <1>1, <1>2, <1>3

\* The three parts of a call's operations
LEMMA CallSequence ==
    ASSUME NEW r \in Seq(Op), InsertLast(r), \A o \in Elems(r) : o.op = "remove",
           NEW when \in Nat, NEW id \in Nat \ {0}, NEW w \in Wakers,
           NEW a \in Seq(Op), InsertLast(a), \A o \in Elems(a) : o.op = "check"
    PROVE  LET i == [op |-> "insert", when |-> when, id |-> id, waker |-> w]
               n == [op |-> "notify"]
               s == (r \o InsertOp(when, id, w)) \o a
           IN  /\ s \in Seq(Op) /\ InsertLast(s)
               /\ Elems(s) = (Elems(r) \cup {i, n}) \cup Elems(a)
<1> DEFINE i == [op |-> "insert", when |-> when, id |-> id, waker |-> w]
           n == [op |-> "notify"]
           t == InsertOp(when, id, w)
<1>1. i \in Op /\ n \in Signals
  BY DEF Op, Insertions, Signals
<1>2. t = <<i, n>>
  BY DEF InsertOp
<1>3. t \in Seq(Op) /\ Elems(t) = {i, n} /\ InsertLast(t)
  BY <1>1, <1>2, ShortOps
<1> HIDE DEF i, n, t
<1>4. r \o t \in Seq(Op) /\ Elems(r \o t) = Elems(r) \cup {i, n}
  BY <1>3, ElemsConcat
<1>5. \A o \in Elems(r) : o.op # "insert"
  OBVIOUS
<1>6. InsertLast(r \o t)
  BY <1>3, <1>5, InsertLastConcat
<1> DEFINE rt == r \o t
<1> HIDE DEF rt
<1>7. rt \o a \in Seq(Op) /\ Elems(rt \o a) = (Elems(r) \cup {i, n}) \cup Elems(a)
  <2>1. rt \in Seq(Op) /\ Elems(rt) = Elems(r) \cup {i, n}
    BY <1>4 DEF rt
  <2>2. QED
    BY <2>1, ElemsConcat
<1>8. \A o \in Elems(a) : o.op \notin {"insert", "remove"}
  OBVIOUS
<1>9. InsertLast(rt \o a)
  BY <1>4, <1>6, <1>8, InsertLastConcat DEF rt
<1>10. QED
  BY <1>7, <1>9 DEF rt, t, i, n

----------------------------------------------------------------------------
(* What the calls have in common *)

Rem(x) == [op |-> "remove", when |-> deadline[x], id |-> key[x]]

LEMMA RemFacts ==
    ASSUME ShapeInv, NEW x \in Owners
    PROVE  /\ RemoveOp(x) \in Seq(Op) /\ Elems(RemoveOp(x)) = {Rem(x)}
           /\ InsertLast(RemoveOp(x))
           /\ ReadyOps(x) \in Seq(Op) /\ Elems(ReadyOps(x)) \subseteq {Rem(x)}
           /\ InsertLast(ReadyOps(x))
           /\ key[x] # 0 => Elems(ReadyOps(x)) = {Rem(x)}
           /\ key[x] = 0 => ReadyOps(x) = <<>>
<1>1. Rem(x) \in Op
  BY DEF Rem, Op, Removals, ShapeInv, TimerShape
<1>2. RemoveOp(x) = <<Rem(x)>>
  BY DEF RemoveOp, Rem
<1>3. RemoveOp(x) \in Seq(Op) /\ Elems(RemoveOp(x)) = {Rem(x)} /\ InsertLast(RemoveOp(x))
  BY <1>1, <1>2, ShortOps
<1>4. key[x] \in Nat
  BY DEF ShapeInv, TimerShape
<1>5. CASE key[x] > 0
  <2>1. ReadyOps(x) = RemoveOp(x) /\ key[x] # 0
    BY <1>4, <1>5 DEF ReadyOps
  <2>2. QED
    BY <1>3, <2>1
<1>6. CASE ~(key[x] > 0)
  <2>1. ReadyOps(x) = <<>> /\ key[x] = 0
    BY <1>4, <1>6 DEF ReadyOps
  <2>2. QED
    BY <1>3, <2>1, ShortOps
<1>7. QED
  BY <1>5, <1>6

LEMMA ThreeParts ==
    ASSUME NEW s \in Seq(Op), NEW t \in Seq(Op), NEW u \in Seq(Op)
    PROVE  (s \o t) \o u = s \o (t \o u)
BY ConcatAssociative, SMTT(30)

\* A call that gives the Timer of x a new entry, and removes the one it had.
LEMMA NewEntry ==
    ASSUME ShapeInv, KeyInv, NEW x \in Owners, NEW w \in Wakers, NEW when \in Nat,
           NEW r \in Seq(Op), InsertLast(r), Elems(r) \subseteq {Rem(x)},
           waker[x] # None => Rem(x) \in Elems(r), waker[x] = None => Elems(r) = {},
           NEW a \in Seq(Op), InsertLast(a), \A o \in Elems(a) : o.op = "check",
           Elems(a) # {} => kind[x] = "idle",
           OnlyTimer(x), Quiet(x), life'[x] = "live",
           deadline'[x] = when, key'[x] = FreshId, waker'[x] = w,
           todo'[x] = (r \o InsertOp(when, FreshId, w)) \o a
    PROVE  /\ Call(x) /\ Entered(x)'
           /\ todo'[x] \in Seq(Op) /\ key'[x] \in Nat /\ Elems(a) \subseteq Elems(todo'[x])
<1>1. FreshId \in Nat \ {0} /\ FreshId \notin UsedIds
  BY FreshIsNew
<1> DEFINE id == FreshId
           i == [op |-> "insert", when |-> when, id |-> id, waker |-> w]
           n == [op |-> "notify"]
<1>2. \A o \in Elems(r) : o.op = "remove" /\ o.when = deadline[x] /\ o.id = key[x] /\ key[x] # 0
  BY DEF Rem, KeyInv
<1>3. /\ todo'[x] \in Seq(Op) /\ InsertLast(todo'[x])
      /\ Elems(todo'[x]) = (Elems(r) \cup {i, n}) \cup Elems(a)
  <2> HIDE DEF id
  <2>1. id \in Nat \ {0} /\ todo'[x] = (r \o InsertOp(when, id, w)) \o a
    BY <1>1 DEF id
  <2>2. QED
    BY <1>2, <2>1, CallSequence
<1>4. w # None
  OBVIOUS
<1>5. CallOps(x)
  <2>1. ASSUME NEW o \in Elems(todo'[x])
        PROVE  /\ o.op = "remove" => o.when = deadline[x] /\ o.id = key[x] /\ key[x] # 0
               /\ o.op = "insert" =>
                     /\ o.when = deadline'[x] /\ o.id = key'[x] /\ o.waker = waker'[x]
                     /\ life'[x] = "live" /\ key'[x] \notin UsedIds
               /\ o.op = "check" => life'[x] = "live" /\ waker'[x] # None /\ kind[x] = "idle"
    <3>1. CASE o \in Elems(r)
      BY <1>2, <3>1
    <3>2. CASE o \in Elems(a)
      BY <1>4, <3>2
    <3>3. CASE o = i
      BY <1>1, <3>3
    <3>4. CASE o = n
      BY <3>4
    <3>5. QED
      BY <1>3, <2>1, <3>1, <3>2, <3>3, <3>4
  <2>2. QED
    BY <1>3, <2>1 DEF CallOps
<1>6. key[x] = 0 \/ RemovesEntry(x)
  <2>1. waker[x] # None => Rem(x) \in Elems(todo'[x])
    BY <1>3
  <2>2. QED
    BY <2>1 DEF KeyInv, RemovesEntry, Rem
<1>7. Call(x)
  BY <1>1, <1>4, <1>5, <1>6 DEF Call
<1>8. \E o \in Elems(todo'[x]) : o.op = "insert"
  <2>1. i \in Elems(todo'[x]) /\ i.op = "insert"
    BY <1>3
  <2>2. QED
    BY <2>1
<1>9. QED
  BY <1>1, <1>3, <1>7, <1>8, CallEnters

\* Timer::reset
LEMMA ResetCall ==
    ASSUME ShapeInv, KeyInv, NEW x \in Owners, NEW when \in Nat,
           NEW b, b \in {<<>>, ReadyOps(x)},
           ResetTo(x, when, b), UNCHANGED <<timerOps, timers, kind, life>>,
           Quiet(x), life[x] = "live"
    PROVE  /\ Call(x) /\ deadline'[x] = when /\ waker'[x] = waker[x]
           /\ waker[x] # None => Entered(x)'
           /\ TimerShape'
<1>0. TimerShape
  BY DEF ShapeInv
<1>1. /\ deadline' = [deadline EXCEPT ![x] = when] /\ waker' = waker
  BY DEF ResetTo
<1>2. CASE waker[x] # None
  <2>1. /\ key' = [key EXCEPT ![x] = FreshId]
        /\ todo' = [todo EXCEPT ![x] = b \o ResetOps(x, when)]
    BY <1>2 DEF ResetTo
  <2>2. OnlyTimer(x) /\ deadline'[x] = when /\ key'[x] = FreshId /\ waker'[x] = waker[x]
        /\ todo'[x] = b \o ResetOps(x, when)
    BY <1>0, <1>1, <2>1 DEF OnlyTimer, TimerShape
  <2>3. waker[x] \in Wakers /\ FreshId \in Nat \ {0}
    BY <1>0, <1>2, FreshIsNew DEF TimerShape
  <2> DEFINE i == InsertOp(when, FreshId, waker[x])
             m == RemoveOp(x)
             r == b \o m
  <2>4. m \in Seq(Op) /\ Elems(m) = {Rem(x)} /\ InsertLast(m)
    BY RemFacts
  <2>5. b \in Seq(Op) /\ Elems(b) \subseteq {Rem(x)} /\ InsertLast(b)
    BY RemFacts, ShortOps, ZenonT(60)
  <2>6. i \in Seq(Op)
    <3> DEFINE ii == [op |-> "insert", when |-> when, id |-> FreshId, waker |-> waker[x]]
               nn == [op |-> "notify"]
    <3>1. ii \in Op /\ nn \in Signals
      BY <2>3 DEF Op, Insertions, Signals
    <3>2. i = <<ii, nn>>
      BY DEF InsertOp
    <3>3. QED
      BY <3>1, <3>2, ShortOps
  <2>7. todo'[x] = b \o (m \o i)
    BY <2>2 DEF ResetOps
  <2> HIDE DEF i, m
  <2>8. r \in Seq(Op) /\ Elems(r) = {Rem(x)} /\ InsertLast(r)
    <3>1. \A o \in Elems(b) : o.op # "insert"
      BY <2>5 DEF Rem
    <3>2. QED
      BY <2>4, <2>5, <3>1, ElemsConcat, InsertLastConcat
  <2>9. b \o (m \o i) = r \o i
    <3>1. (b \o m) \o i = b \o (m \o i)
      <4> HIDE DEF r
      <4>1. b \in Seq(Op) /\ m \in Seq(Op) /\ i \in Seq(Op)
        BY <2>4, <2>5, <2>6
      <4>2. QED
        BY <4>1, ThreeParts, SMTT(30)
    <3>2. QED
      BY <3>1, Zenon DEF r
  <2>10. (r \o i) \o <<>> = r \o i
    <3> HIDE DEF r
    <3>1. r \o i \in Seq(Op)
      BY <2>6, <2>8, ConcatProperties
    <3>2. QED
      BY <3>1, ConcatEmptySeq
  <2> HIDE DEF r
  <2>11. todo'[x] = (r \o i) \o <<>>
    BY <2>7, <2>9, <2>10
  <2>12. /\ Call(x) /\ Entered(x)' /\ todo'[x] \in Seq(Op) /\ key'[x] \in Nat
    <3>1. PICK a : a = <<>>
      OBVIOUS
    <3>2. PICK v : v = waker[x]
      OBVIOUS
    <3>3. /\ a \in Seq(Op) /\ InsertLast(a) /\ Elems(a) = {}
          /\ \A o \in Elems(a) : o.op = "check"
      BY <3>1, ShortOps
    <3>4. /\ Elems(r) \subseteq {Rem(x)} /\ r \in Seq(Op) /\ InsertLast(r)
          /\ waker[x] # None => Rem(x) \in Elems(r)
          /\ waker[x] = None => Elems(r) = {}
      BY <1>2, <2>8
    <3>5. /\ v \in Wakers /\ OnlyTimer(x) /\ life'[x] = "live"
          /\ deadline'[x] = when /\ key'[x] = FreshId /\ waker'[x] = v
      BY <2>2, <2>3, <3>2
    <3>6. todo'[x] = (r \o InsertOp(when, FreshId, v)) \o a
      BY <2>11, <3>1, <3>2 DEF i
    <3>7. QED
      BY <3>3, <3>4, <3>5, <3>6, NewEntry
  <2>13. TimerShape'
    BY <1>0, <1>1, <2>1, <2>2, <2>12 DEF TimerShape, Op
  <2>14. QED
    BY <2>2, <2>12, <2>13
<1>3. CASE waker[x] = None
  <2>1. key' = key /\ todo' = [todo EXCEPT ![x] = b]
    BY <1>3 DEF ResetTo
  <2>2. key[x] = 0 /\ b = <<>>
    BY <1>3, RemFacts DEF KeyInv
  <2>3. OnlyTimer(x) /\ deadline'[x] = when /\ todo'[x] = <<>>
    BY <1>0, <1>1, <2>1, <2>2 DEF OnlyTimer, TimerShape
  <2>4. CallOps(x)
    BY <2>3, ShortOps DEF CallOps
  <2>5. Call(x)
    BY <1>1, <1>3, <2>1, <2>2, <2>3, <2>4 DEF Call
  <2>6. TimerShape'
    BY <1>0, <1>1, <2>1, <2>2 DEF TimerShape
  <2>7. QED
    BY <1>1, <1>3, <2>3, <2>5, <2>6
<1>4. QED
  BY <1>2, <1>3

LEMMA PollingFacts ==
    ASSUME ShapeInv, NEW x \in Owners, NEW w \in Wakers, NEW p \in BOOLEAN, Polling(x, w, p)
    PROVE  /\ ReactorShape'
           /\ cur' \in [Owners -> Wakers \cup {None}] /\ polled' \in [Owners -> 0..MaxNow]
           /\ waits' \subseteq Owners /\ woken' \subseteq Owners /\ inner' \subseteq Owners
           /\ full' \subseteq Owners \cup {Other} /\ moves' \in 0..MaxMoves
           /\ UNCHANGED <<now, collected, timerOps, timers, kind>>
           /\ cur'[x] = w /\ polled'[x] = IdleTime(x) /\ (x \in waits' <=> p)
           /\ \A y \in Owners : y # x => /\ cur'[y] = cur[y] /\ polled'[y] = polled[y]
                                         /\ y \in waits' => y \in waits
                                         /\ y \in woken => y \in woken'
           /\ life[x] = "live" /\ todo[x] = <<>> /\ Quiet(x)
<1>0. ReactorShape /\ PollShape
  BY DEF ShapeInv
<1>1. UNCHANGED <<now, timerOps, timers, tlock, rounds, rpc, until, collected, kicked, kind,
                  inner, full>>
  BY DEF Polling, mapVars, reactVars
<1>2. ReactorShape'
  BY <1>0, <1>1 DEF ReactorShape
<1>3. IdleTime(x) \in 0..MaxNow
  BY <1>0 DEF ReactorShape, IdleTime
<1>4. /\ cur' = [cur EXCEPT ![x] = w] /\ polled' = [polled EXCEPT ![x] = IdleTime(x)]
      /\ woken' = woken \ {x} /\ waits' = IF p THEN waits \cup {x} ELSE waits \ {x}
      /\ life[x] = "live" /\ todo[x] = <<>>
  BY DEF Polling, Free
<1>5. /\ cur' \in [Owners -> Wakers \cup {None}] /\ cur'[x] = w
      /\ \A y \in Owners : y # x => cur'[y] = cur[y]
  BY <1>0, <1>4 DEF PollShape
<1>6. /\ polled' \in [Owners -> 0..MaxNow] /\ polled'[x] = IdleTime(x)
      /\ \A y \in Owners : y # x => polled'[y] = polled[y]
  BY <1>0, <1>3, <1>4 DEF PollShape
<1>7. moves' \in 0..MaxMoves
  <2>1. moves \in 0..MaxMoves
    BY <1>0 DEF PollShape
  <2>2. CASE cur[x] \in {None, w}
    BY <2>1, <2>2 DEF Polling
  <2>3. CASE cur[x] \notin {None, w}
    <3>1. moves < MaxMoves /\ moves' = moves + 1
      BY <2>3 DEF Polling
    <3>2. QED
      BY <2>1, <3>1
  <2>4. QED
    BY <2>2, <2>3
<1>8. Quiet(x)
  BY <1>4, ElemsEmpty DEF Quiet
<1>9. QED
  BY <1>0, <1>1, <1>2, <1>4, <1>5, <1>6, <1>7, <1>8 DEF PollShape

\* A call preserves the invariant when it does so for the Timer of its owner.
LEMMA CallIInv ==
    ASSUME IInv, NEW x \in Owners, Call(x), ReactorShape', TimerShape', PollShape',
           UNCHANGED <<now, collected>>,
           \A y \in Owners : y # x => /\ cur'[y] = cur[y]
                                      /\ last'[y] = last[y] /\ lag'[y] = lag[y] /\ polled'[y] = polled[y]
                                      /\ y \in waits' => y \in waits
                                      /\ y \in woken => y \in woken',
           life'[x] = "live" /\ waker'[x] # None /\ now < deadline'[x] => Entered(x)',
           x \in waits' =>
              /\ life'[x] = "live" /\ waker'[x] # None /\ cur'[x] = waker'[x]
              /\ Entered(x)' \/ cur'[x] \in collected \/ x \in woken',
           kind[x] = "idle" /\ life'[x] = "live" =>
              /\ deadline'[x] + lag'[x] = last'[x] + Idle
              /\ last'[x] <= now /\ polled'[x] <= now
              /\ \/ polled'[x] - last'[x] < Check
                 \/ polled'[x] <= last'[x]
                 \/ \E o \in Elems(todo'[x]) : o.op = "check",
           life'[x] = "opening" =>
              kind[x] = "idle" /\ Idle <= deadline'[x] /\ deadline'[x] <= now + Idle
    PROVE  IInv'
<1>1. ShapeInv /\ KeyInv /\ TodoInv /\ QueueInv /\ LeakInv /\ WaitInv /\ IdleInv
  BY DEF IInv, EntryInv
<1>2. ShapeInv'
  BY DEF ShapeInv
<1>3. waits' \subseteq Owners
  BY DEF PollShape
<1>4. waits' \subseteq waits \cup {x}
  BY <1>3
<1>5. KeyInv' /\ TodoInv' /\ LeakInv'
  BY <1>1, <1>4, CallKeyInv, CallTodoInv, CallLeakInv
<1>6. QueueInv'
  <2>1. UNCHANGED <<timers, timerOps>>
    BY DEF Call, OnlyTimer
  <2>2. QED
    BY <1>1, <2>1 DEF QueueInv
<1>7. WaitInv'
  BY <1>1, <1>3, CallWaitInv
<1>8. IdleInv'
  BY <1>1, CallIdleInv
<1>9. QED
  BY <1>2, <1>5, <1>6, <1>7, <1>8 DEF IInv, EntryInv

----------------------------------------------------------------------------
(* The calls *)

LEMMA CreateInv ==
    ASSUME IInv, NEW x \in Owners, NEW when \in now..MaxNow, Create(x, when)
    PROVE  IInv'
<1>0. ShapeInv /\ KeyInv /\ ReactorShape /\ TimerShape /\ PollShape
  BY DEF IInv, EntryInv, ShapeInv
<1>1. now \in 0..MaxNow /\ when \in Nat
  BY <1>0 DEF ReactorShape
<1>2. UNCHANGED <<now, timerOps, timers, tlock, rounds, rpc, until, collected, kicked, kind,
                  key, waker, inner, last, lag, cur, polled, waits, woken, todo, full, moves>>
  BY DEF Create, mapVars, reactVars, pollVars
<1>3. life[x] = "new" /\ key[x] = 0 /\ waker[x] = None /\ todo[x] = <<>> /\ x \notin waits
  BY <1>0 DEF Create, KeyInv
<1>4. /\ life' = [life EXCEPT ![x] = IF kind[x] = "idle" THEN "opening" ELSE "live"]
      /\ deadline' = [deadline EXCEPT ![x] = when]
      /\ kind[x] = "idle" => when = now + Idle
  BY DEF Create
<1>5. /\ OnlyTimer(x) /\ life'[x] = (IF kind[x] = "idle" THEN "opening" ELSE "live")
      /\ deadline'[x] = when
  BY <1>0, <1>2, <1>4 DEF OnlyTimer, TimerShape
<1>6. Call(x)
  <2>1. CallOps(x) /\ Quiet(x)
    BY <1>2, <1>3, ShortOps DEF CallOps, Quiet
  <2>2. QED
    BY <1>2, <1>3, <1>5, <2>1 DEF Call
<1>7. ReactorShape' /\ TimerShape' /\ PollShape'
  BY <1>0, <1>1, <1>2, <1>4 DEF ReactorShape, TimerShape, PollShape
<1>8. life'[x] = "opening" =>
         kind[x] = "idle" /\ Idle <= deadline'[x] /\ deadline'[x] <= now + Idle
  BY <1>1, <1>4, <1>5
<1>9. ~(kind[x] = "idle" /\ life'[x] = "live")
  BY <1>5
<1>10. QED
  BY <1>2, <1>3, <1>6, <1>7, <1>8, <1>9, CallIInv

LEMMA OpenInv ==
    ASSUME IInv, NEW x \in Owners, Open(x)
    PROVE  IInv'
<1>0. ShapeInv /\ KeyInv /\ IdleInv /\ ReactorShape /\ TimerShape /\ PollShape
  BY DEF IInv, EntryInv, ShapeInv
<1>1. UNCHANGED <<now, timerOps, timers, tlock, rounds, rpc, until, collected, kicked, kind,
                  deadline, key, waker, inner, cur, waits, woken, todo, full, moves>>
  BY DEF Open, mapVars, reactVars
<1>2. /\ life[x] = "opening" /\ key[x] = 0 /\ waker[x] = None /\ todo[x] = <<>>
      /\ x \notin waits
  BY <1>0 DEF Open, KeyInv
<1>3. /\ life' = [life EXCEPT ![x] = "live"] /\ last' = [last EXCEPT ![x] = now]
      /\ lag' = [lag EXCEPT ![x] = now + Idle - deadline[x]]
      /\ polled' = [polled EXCEPT ![x] = now]
  BY DEF Open
<1>4. /\ now \in 0..MaxNow /\ deadline[x] \in Nat
      /\ Idle <= deadline[x] /\ deadline[x] <= now + Idle
  BY <1>0, <1>2 DEF ReactorShape, TimerShape, IdleInv
<1>5. now + Idle - deadline[x] \in 0..MaxNow
  BY <1>4
<1>6. OnlyTimer(x) /\ life'[x] = "live"
  BY <1>0, <1>1, <1>3 DEF OnlyTimer, TimerShape
<1>7. Call(x)
  <2>1. CallOps(x) /\ Quiet(x)
    BY <1>1, <1>2, ShortOps DEF CallOps, Quiet
  <2>2. QED
    BY <1>1, <1>2, <1>6, <2>1 DEF Call
<1>8. ReactorShape' /\ TimerShape'
  BY <1>0, <1>1, <1>3 DEF ReactorShape, TimerShape
<1>9. /\ PollShape' /\ last'[x] = now /\ polled'[x] = now
      /\ lag'[x] = now + Idle - deadline[x]
      /\ \A y \in Owners : y # x => last'[y] = last[y] /\ lag'[y] = lag[y] /\ polled'[y] = polled[y]
  BY <1>0, <1>1, <1>3, <1>4, <1>5 DEF PollShape
<1>10. /\ deadline'[x] + lag'[x] = last'[x] + Idle
       /\ last'[x] <= now /\ polled'[x] <= now /\ polled'[x] <= last'[x]
  BY <1>1, <1>4, <1>9
<1>11. QED
  BY <1>1, <1>2, <1>6, <1>7, <1>8, <1>9, <1>10, CallIInv

\* A poll of x with waker w: what is left to show is about its Timer.
LEMMA PollIInv ==
    ASSUME IInv, NEW x \in Owners, NEW w \in Wakers, NEW p \in BOOLEAN, Polling(x, w, p),
           Call(x), TimerShape', UNCHANGED <<last, lag>>,
           life'[x] = "live" /\ waker'[x] # None /\ now < deadline'[x] => Entered(x)',
           p => life'[x] = "live" /\ waker'[x] = w /\ Entered(x)',
           kind[x] = "idle" /\ life'[x] = "live" =>
              /\ deadline'[x] = deadline[x]
              /\ \E o \in Elems(todo'[x]) : o.op = "check",
           life'[x] # "opening"
    PROVE  IInv'
<1>0. ShapeInv /\ ReactorShape /\ TimerShape /\ PollShape /\ IdleInv
  BY DEF IInv, ShapeInv
<1>1. /\ ReactorShape'
      /\ cur' \in [Owners -> Wakers \cup {None}] /\ polled' \in [Owners -> 0..MaxNow]
      /\ waits' \subseteq Owners /\ woken' \subseteq Owners /\ inner' \subseteq Owners
      /\ full' \subseteq Owners \cup {Other} /\ moves' \in 0..MaxMoves
      /\ UNCHANGED <<now, collected, timerOps, timers, kind>>
      /\ cur'[x] = w /\ polled'[x] = IdleTime(x) /\ (x \in waits' <=> p)
      /\ \A y \in Owners : y # x => /\ cur'[y] = cur[y] /\ polled'[y] = polled[y]
                                    /\ y \in waits' => y \in waits
                                    /\ y \in woken => y \in woken'
      /\ life[x] = "live"
  BY <1>0, PollingFacts
<1>2. PollShape'
  BY <1>0, <1>1 DEF PollShape
<1>3. x \in waits' => /\ life'[x] = "live" /\ waker'[x] # None /\ cur'[x] = waker'[x]
                      /\ Entered(x)'
  BY <1>1
<1>4. kind[x] = "idle" /\ life'[x] = "live" =>
         /\ deadline'[x] + lag'[x] = last'[x] + Idle
         /\ last'[x] <= now /\ polled'[x] <= now
         /\ \E o \in Elems(todo'[x]) : o.op = "check"
  <2> SUFFICES ASSUME kind[x] = "idle", life'[x] = "live"
               PROVE  /\ deadline'[x] + lag'[x] = last'[x] + Idle
                      /\ last'[x] <= now /\ polled'[x] <= now
                      /\ \E o \in Elems(todo'[x]) : o.op = "check"
    OBVIOUS
  <2>1. deadline[x] + lag[x] = last[x] + Idle /\ last[x] <= now
    BY <1>0, <1>1 DEF IdleInv
  <2>2. polled'[x] = now /\ now \in Nat
    BY <1>0, <1>1 DEF IdleTime, ReactorShape
  <2>3. polled'[x] <= now
    BY <2>2
  <2>4. QED
    BY <2>1, <2>3
<1>5. QED
  BY <1>1, <1>2, <1>3, <1>4, CallIInv

LEMMA PollInnerInv ==
    ASSUME IInv, NEW x \in Owners, NEW w \in Wakers, PollInner(x, w)
    PROVE  IInv'
<1>0. ShapeInv /\ KeyInv /\ TimerShape
  BY DEF IInv, EntryInv, ShapeInv
<1>1. Polling(x, w, FALSE) /\ UNCHANGED <<deadline, key, waker, last, lag, todo>>
      /\ life' = [life EXCEPT ![x] = "done"]
  BY DEF PollInner
<1>2. UNCHANGED <<timerOps, timers, kind>> /\ todo[x] = <<>> /\ Quiet(x)
  BY <1>0, <1>1, PollingFacts
<1>3. OnlyTimer(x) /\ life'[x] = "done"
  BY <1>0, <1>1, <1>2 DEF OnlyTimer, TimerShape
<1>4. CallOps(x)
  BY <1>1, <1>2, ShortOps DEF CallOps
<1>5. Call(x)
  BY <1>0, <1>1, <1>2, <1>3, <1>4 DEF Call, KeepsEntry, KeyInv
<1>6. TimerShape'
  BY <1>0, <1>1, <1>2 DEF TimerShape
<1>7. QED
  BY <1>1, <1>3, <1>5, <1>6, PollIInv

LEMMA PollElapsedInv ==
    ASSUME IInv, NEW x \in Owners, NEW w \in Wakers, PollElapsed(x, w)
    PROVE  IInv'
<1>0. ShapeInv /\ KeyInv /\ TimerShape /\ ReactorShape
  BY DEF IInv, EntryInv, ShapeInv
<1>1. /\ Polling(x, w, FALSE) /\ UNCHANGED <<deadline, key, waker, last, lag>>
      /\ life' = [life EXCEPT ![x] = IF kind[x] = "delay" THEN "live" ELSE "done"]
      /\ todo' = [todo EXCEPT ![x] = ReadyOps(x)]
      /\ deadline[x] <= now
  BY DEF PollElapsed, Expired
<1>2. UNCHANGED <<timerOps, timers, kind>> /\ Quiet(x)
  BY <1>0, <1>1, PollingFacts
<1>3. /\ OnlyTimer(x) /\ life'[x] = (IF kind[x] = "delay" THEN "live" ELSE "done")
      /\ todo'[x] = ReadyOps(x)
  BY <1>0, <1>1, <1>2 DEF OnlyTimer, TimerShape
<1>4. CallOps(x)
  <2>1. InsertLast(todo'[x]) /\ \A o \in Elems(todo'[x]) : o = Rem(x) /\ key[x] # 0
    BY <1>0, <1>3, RemFacts, ShortOps
  <2>2. QED
    BY <2>1 DEF CallOps, Rem
<1>5. Call(x)
  BY <1>0, <1>1, <1>2, <1>3, <1>4 DEF Call, KeepsEntry, KeyInv
<1>6. TimerShape'
  <2>1. ReadyOps(x) \in Seq(Op)
    BY <1>0, RemFacts
  <2>2. QED
    BY <1>0, <1>1, <1>2, <2>1 DEF TimerShape, Op
<1>7. ~(now < deadline'[x])
  BY <1>0, <1>1 DEF ReactorShape, TimerShape
<1>8. (kind[x] = "idle" => life'[x] # "live") /\ life'[x] # "opening"
  BY <1>3
<1>9. QED
  BY <1>1, <1>5, <1>6, <1>7, <1>8, PollIInv

LEMMA PollTickInv ==
    ASSUME IInv, NEW x \in Owners, NEW w \in Wakers, PollTick(x, w)
    PROVE  IInv'
<1>0. ShapeInv /\ KeyInv /\ TimerShape
  BY DEF IInv, EntryInv, ShapeInv
<1>1. /\ Polling(x, w, FALSE) /\ UNCHANGED <<life, last, lag>> /\ kind[x] = "interval"
      /\ ResetTo(x, deadline[x] + Period, ReadyOps(x))
  BY DEF PollTick
<1>2. UNCHANGED <<timerOps, timers, kind>> /\ Quiet(x) /\ life[x] = "live"
  BY <1>0, <1>1, PollingFacts
<1>3. deadline[x] + Period \in Nat
  BY <1>0 DEF TimerShape
<1>4. Call(x) /\ waker'[x] = waker[x] /\ (waker[x] # None => Entered(x)') /\ TimerShape'
  BY <1>0, <1>1, <1>2, <1>3, ResetCall
<1>5. QED
  BY <1>1, <1>2, <1>4, PollIInv

LEMMA PollPendingInv ==
    ASSUME IInv, NEW x \in Owners, NEW w \in Wakers, PollPending(x, w)
    PROVE  IInv'
<1> DEFINE c == [op |-> "check"]
           a == IF kind[x] = "idle" THEN <<c>> ELSE <<>>
<1>0. ShapeInv /\ KeyInv /\ TimerShape /\ ReactorShape /\ WaitInv
  BY DEF IInv, EntryInv, ShapeInv
<1>1. /\ Polling(x, w, TRUE) /\ UNCHANGED <<life, last, lag, deadline>>
      /\ PollTimeoutPending(x, w, a) /\ ~(deadline[x] <= now)
  BY DEF PollPending, Expired, PollTimeoutPending
<1>2. UNCHANGED <<timerOps, timers, kind>> /\ Quiet(x) /\ life[x] = "live" /\ todo[x] = <<>>
  BY <1>0, <1>1, PollingFacts
<1>3. /\ a \in Seq(Op) /\ InsertLast(a) /\ \A o \in Elems(a) : o = c
      /\ Elems(a) # {} => kind[x] = "idle"
      /\ kind[x] = "idle" => c \in Elems(a)
  <2>1. c \in Op
    BY DEF Op, Signals
  <2> HIDE DEF c
  <2>2. CASE kind[x] = "idle"
    BY <2>1, <2>2, ShortOps
  <2>3. CASE kind[x] # "idle"
    BY <2>1, <2>3, ShortOps
  <2>4. QED
    BY <2>2, <2>3
<1>4. c.op = "check"
  OBVIOUS
<1>5. deadline[x] \in Nat /\ now < deadline[x] /\ life'[x] = "live" /\ w # None
  BY <1>0, <1>1, <1>2 DEF TimerShape, ReactorShape
<1> HIDE DEF c, a
<1>6. CASE WillWake(x, w)
  <2>1. todo' = [todo EXCEPT ![x] = a] /\ UNCHANGED <<key, waker>> /\ waker[x] = w
    BY <1>1, <1>6 DEF PollTimeoutPending, WillWake
  <2>2. OnlyTimer(x) /\ todo'[x] = a
    BY <1>0, <1>1, <1>2, <2>1 DEF OnlyTimer, TimerShape
  <2>3. CallOps(x)
    <3>1. \A o \in Elems(todo'[x]) : o.op = "check" /\ kind[x] = "idle"
      BY <1>3, <1>4, <2>2
    <3>2. QED
      BY <1>3, <1>5, <2>1, <2>2, <3>1 DEF CallOps
  <2>4. KeepsEntry(x)
    BY <1>1, <1>5, <2>1 DEF KeepsEntry
  <2>5. Call(x)
    BY <1>0, <1>2, <1>5, <2>1, <2>2, <2>3, <2>4 DEF Call, KeyInv
  <2>6. Entered(x)
    BY <1>0, <1>1, <1>5, <2>1 DEF WaitInv
  <2>7. Entered(x)'
    <3>1. \A o \in Elems(todo'[x]) : o.op # "remove"
      BY <1>3, <1>4, <2>2
    <3>2. QED
      BY <1>0, <2>4, <2>5, <2>6, <3>1, CallStaysEntered
  <2>8. TimerShape'
    BY <1>0, <1>1, <1>2, <1>3, <2>1 DEF TimerShape, Op
  <2>9. kind[x] = "idle" => \E o \in Elems(todo'[x]) : o.op = "check"
    BY <1>3, <1>4, <2>2
  <2>10. QED
    BY <1>1, <1>5, <2>1, <2>5, <2>7, <2>8, <2>9, PollIInv
<1>7. CASE ~WillWake(x, w)
  <2> DEFINE r == IF waker[x] = None THEN <<>> ELSE RemoveOp(x)
  <2>1. /\ key' = [key EXCEPT ![x] = FreshId] /\ waker' = [waker EXCEPT ![x] = w]
        /\ todo' = [todo EXCEPT ![x] = r \o InsertOp(deadline[x], FreshId, w) \o a]
    BY <1>1, <1>7 DEF PollTimeoutPending
  <2>2. /\ r \in Seq(Op) /\ InsertLast(r) /\ Elems(r) \subseteq {Rem(x)}
        /\ waker[x] # None => Rem(x) \in Elems(r)
        /\ waker[x] = None => Elems(r) = {}
    BY <1>0, RemFacts, ShortOps
  <2> HIDE DEF r
  <2>3. /\ OnlyTimer(x) /\ key'[x] = FreshId /\ waker'[x] = w /\ deadline'[x] = deadline[x]
        /\ todo'[x] = (r \o InsertOp(deadline[x], FreshId, w)) \o a
    BY <1>0, <1>1, <1>2, <2>1 DEF OnlyTimer, TimerShape
  <2>4. \A o \in Elems(a) : o.op = "check"
    BY <1>3, <1>4
  <2>5. PICK when : when = deadline[x]
    OBVIOUS
  <2>6. /\ when \in Nat /\ deadline'[x] = when
        /\ todo'[x] = (r \o InsertOp(when, FreshId, w)) \o a
    BY <1>5, <2>3, <2>5
  <2>7. /\ Call(x) /\ Entered(x)'
        /\ todo'[x] \in Seq(Op) /\ key'[x] \in Nat /\ Elems(a) \subseteq Elems(todo'[x])
    BY <1>0, <1>2, <1>3, <1>5, <2>2, <2>3, <2>4, <2>6, NewEntry
  <2>8. TimerShape'
    <3>1. key' \in [Owners -> Nat] /\ waker' \in [Owners -> Wakers \cup {None}]
      BY <1>0, <2>1, <2>3, <2>7 DEF TimerShape
    <3>2. todo' \in [Owners -> Seq(Op)]
      <4>1. todo \in [Owners -> Seq(Op)]
        BY <1>0 DEF TimerShape, Op
      <4>2. QED
        BY <2>1, <2>3, <2>7, <4>1
    <3>3. QED
      BY <1>0, <1>1, <1>2, <3>1, <3>2 DEF TimerShape, Op
  <2>9. kind[x] = "idle" => \E o \in Elems(todo'[x]) : o.op = "check"
    BY <1>3, <1>4, <2>7
  <2>10. QED
    BY <1>1, <1>5, <2>3, <2>7, <2>8, <2>9, PollIInv
<1>8. QED
  BY <1>6, <1>7

\* A poll that is over looks at the time once more.
LEMMA IdleCheckInv ==
    ASSUME IInv, NEW x \in Owners, IdleCheck(x)
    PROVE  IInv'
<1> DEFINE c == [op |-> "check"]
<1>0. /\ ShapeInv /\ KeyInv /\ TodoInv /\ WaitInv /\ IdleInv
      /\ ReactorShape /\ TimerShape /\ PollShape
  BY DEF IInv, EntryInv, ShapeInv
<1>1. UNCHANGED <<now, timerOps, timers, tlock, rounds, rpc, until, collected, kicked, kind,
                  life, inner, cur, polled, waits, woken, full, moves>>
  BY DEF IdleCheck, mapVars, reactVars
<1>2. todo[x] = <<c>>
  BY DEF IdleCheck
<1>3. Elems(todo[x]) = {c} /\ Quiet(x)
  <2>1. c \in Op
    BY DEF Op, Signals
  <2>2. Elems(<<c>>) = {c}
    BY <2>1, ShortOps
  <2>3. QED
    BY <1>2, <2>2 DEF Quiet
<1>4. life[x] = "live" /\ waker[x] # None /\ kind[x] = "idle"
  <2>1. c \in Elems(todo[x]) /\ c.op = "check"
    BY <1>3
  <2> HIDE DEF c
  <2>2. QED
    BY <1>0, <2>1 DEF TodoInv
<1>5. now \in 0..MaxNow /\ last[x] \in Nat /\ polled[x] \in Nat
  BY <1>0 DEF ReactorShape, PollShape
<1>6. deadline[x] + lag[x] = last[x] + Idle /\ last[x] <= now /\ polled[x] <= now
  BY <1>0, <1>4 DEF IdleInv
<1>7. x \in waits => cur[x] = waker[x] /\ (Entered(x) \/ cur[x] \in collected \/ x \in woken)
  BY <1>0 DEF WaitInv
<1>8. ReactorShape'
  BY <1>0, <1>1 DEF ReactorShape
<1>9. CASE CheckDue(x)
  <2>1. /\ last' = [last EXCEPT ![x] = now] /\ lag' = [lag EXCEPT ![x] = 0]
        /\ ResetTo(x, now + Idle, <<>>)
    BY <1>9 DEF IdleCheck
  <2>2. now + Idle \in Nat
    BY <1>5
  <2>3. /\ Call(x) /\ deadline'[x] = now + Idle /\ waker'[x] = waker[x] /\ Entered(x)'
        /\ TimerShape'
    BY <1>0, <1>1, <1>3, <1>4, <2>1, <2>2, ResetCall
  <2>4. /\ PollShape' /\ last'[x] = now /\ lag'[x] = 0
        /\ \A y \in Owners : y # x => last'[y] = last[y] /\ lag'[y] = lag[y]
    BY <1>0, <1>1, <1>5, <2>1 DEF PollShape
  <2>5. deadline'[x] + lag'[x] = last'[x] + Idle /\ last'[x] <= now /\ polled'[x] <= last'[x]
    BY <1>1, <1>5, <1>6, <2>3, <2>4
  <2>6. QED
    BY <1>1, <1>4, <1>6, <1>7, <1>8, <2>3, <2>4, <2>5, CallIInv
<1>10. CASE ~CheckDue(x)
  <2>1. todo' = [todo EXCEPT ![x] = <<>>] /\ UNCHANGED <<last, lag, deadline, key, waker>>
    BY <1>10 DEF IdleCheck
  <2>2. OnlyTimer(x) /\ todo'[x] = <<>> /\ TimerShape'
    BY <1>0, <1>1, <2>1 DEF OnlyTimer, TimerShape
  <2>3. CallOps(x) /\ KeepsEntry(x) /\ \A o \in Elems(todo'[x]) : o.op # "remove"
    BY <1>1, <1>4, <2>1, <2>2, ShortOps DEF CallOps, KeepsEntry
  <2>4. Call(x)
    BY <1>0, <1>1, <1>3, <1>4, <2>1, <2>2, <2>3 DEF Call, KeyInv
  <2>5. Entered(x) => Entered(x)'
    BY <1>0, <2>3, <2>4, CallStaysEntered
  <2>6. PollShape'
    BY <1>0, <1>1, <2>1 DEF PollShape
  <2>7. polled'[x] - last'[x] < Check
    <3>1. now - last[x] < Check
      BY <1>5, <1>10 DEF CheckDue
    <3>2. polled[x] - last[x] < Check
      BY <1>5, <1>6, <3>1
    <3>3. QED
      BY <1>1, <2>1, <3>2
  <2>8. life'[x] = "live" /\ waker'[x] # None /\ now < deadline'[x] => Entered(x)'
    BY <1>0, <1>1, <2>1, <2>5 DEF WaitInv
  <2>9. QED
    BY <1>1, <1>4, <1>6, <1>7, <1>8, <2>1, <2>2, <2>4, <2>5, <2>6, <2>7, <2>8, CallIInv
<1>11. QED
  BY <1>9, <1>10

LEMMA ResetInv ==
    ASSUME IInv, NEW x \in Owners, NEW when \in now..MaxNow, Reset(x, when)
    PROVE  IInv'
<1>0. /\ ShapeInv /\ KeyInv /\ WaitInv /\ ReactorShape /\ TimerShape /\ PollShape
  BY DEF IInv, EntryInv, ShapeInv
<1>1. /\ UNCHANGED <<now, timerOps, timers, tlock, rounds, rpc, until, collected, kicked, kind,
                     life, inner, last, lag, cur, polled, waits, woken, full>>
      /\ ResetTo(x, when, <<>>) /\ kind[x] = "delay" /\ life[x] = "live" /\ todo[x] = <<>>
      /\ moves < MaxMoves /\ moves' = moves + 1
  BY DEF Reset, Free, mapVars, reactVars, pollVars
<1>2. when \in Nat
  BY <1>0 DEF ReactorShape
<1>3. Quiet(x)
  BY <1>1, ElemsEmpty DEF Quiet
<1>4. Call(x) /\ waker'[x] = waker[x] /\ (waker[x] # None => Entered(x)') /\ TimerShape'
  BY <1>0, <1>1, <1>2, <1>3, ResetCall
<1>5. ReactorShape'
  BY <1>0, <1>1 DEF ReactorShape
<1>6. PollShape'
  <2>1. moves' \in 0..MaxMoves
    BY <1>0, <1>1 DEF PollShape
  <2>2. QED
    BY <1>0, <1>1, <2>1 DEF PollShape
<1>7. x \in waits => waker[x] # None /\ cur[x] = waker[x]
  BY <1>0 DEF WaitInv
<1>8. QED
  BY <1>1, <1>4, <1>5, <1>6, <1>7, CallIInv

LEMMA DropInv ==
    ASSUME IInv, NEW x \in Owners, Drop(x)
    PROVE  IInv'
<1> DEFINE r == IF waker[x] = None THEN <<>> ELSE RemoveOp(x)
<1>0. /\ ShapeInv /\ KeyInv /\ ReactorShape /\ TimerShape /\ PollShape
  BY DEF IInv, EntryInv, ShapeInv
<1>1. UNCHANGED <<now, timerOps, timers, tlock, rounds, rpc, until, collected, kicked, kind,
                  full, moves>>
  BY DEF Drop, mapVars, reactVars
<1>2. /\ r \in Seq(Op) /\ InsertLast(r) /\ Elems(r) \subseteq {Rem(x)}
      /\ waker[x] # None => Rem(x) \in Elems(r)
      /\ waker[x] = None => Elems(r) = {}
  BY <1>0, RemFacts, ShortOps
<1>3. /\ life' = [life EXCEPT ![x] = "dropped"] /\ todo' = [todo EXCEPT ![x] = r]
      /\ deadline' = [deadline EXCEPT ![x] = 0] /\ key' = [key EXCEPT ![x] = 0]
      /\ waker' = [waker EXCEPT ![x] = None] /\ todo[x] = <<>>
  BY DEF Drop, Free
<1>4. /\ last' = [last EXCEPT ![x] = 0] /\ lag' = [lag EXCEPT ![x] = 0] /\ cur' = [cur EXCEPT ![x] = None]
      /\ polled' = [polled EXCEPT ![x] = 0] /\ waits' = waits \ {x}
      /\ woken' = woken \ {x} /\ inner' = inner \ {x}
  BY DEF Drop
<1> HIDE DEF r
<1>5. /\ OnlyTimer(x) /\ life'[x] = "dropped" /\ todo'[x] = r /\ key'[x] = 0 /\ waker'[x] = None
  BY <1>0, <1>1, <1>3 DEF OnlyTimer, TimerShape
<1>6. TimerShape'
  BY <1>0, <1>1, <1>2, <1>3 DEF TimerShape, Op
<1>7. ReactorShape'
  BY <1>0, <1>1 DEF ReactorShape
<1>8. PollShape' /\ \A y \in Owners : y # x => /\ cur'[y] = cur[y]
                                               /\ last'[y] = last[y] /\ lag'[y] = lag[y] /\ polled'[y] = polled[y]
  BY <1>0, <1>1, <1>4 DEF PollShape
<1>9. key[x] = 0 <=> waker[x] = None
  BY <1>0 DEF KeyInv
<1>10. CallOps(x)
  <2>1. \A o \in Elems(todo'[x]) : o = Rem(x) /\ key[x] # 0
    BY <1>2, <1>5, <1>9
  <2>2. QED
    BY <1>2, <1>5, <2>1 DEF CallOps, Rem
<1>11. key[x] = 0 \/ RemovesEntry(x)
  BY <1>2, <1>5, <1>9 DEF RemovesEntry, Rem
<1>12. Call(x)
  <2>1. Quiet(x)
    BY <1>3, ElemsEmpty DEF Quiet
  <2>2. QED
    BY <1>5, <1>10, <1>11, <2>1 DEF Call
<1>13. QED
  BY <1>1, <1>4, <1>5, <1>6, <1>7, <1>8, <1>12, CallIInv

----------------------------------------------------------------------------
(* Steps that change no Timer, nor the queue, nor the map *)

LEMMA StillInv ==
    ASSUME IInv, ShapeInv', now <= now',
           UNCHANGED <<timerOps, timers, kind, life, deadline, key, waker, todo,
                       last, lag, cur, polled, waits>>,
           \A x \in waits : x \in woken \/ cur[x] \in collected =>
                               x \in woken' \/ cur[x] \in collected'
    PROVE  IInv'
<1>0. /\ ShapeInv /\ KeyInv /\ TodoInv /\ QueueInv /\ LeakInv /\ WaitInv /\ IdleInv
      /\ ReactorShape /\ TimerShape /\ PollShape
  BY DEF IInv, EntryInv, ShapeInv
<1>1. now \in Nat /\ now' \in Nat
  BY <1>0 DEF ShapeInv, ReactorShape
<1>2. Sent' = Sent
  BY DEF Sent
<1>3. RemovalIds' = RemovalIds /\ Leaving' = Leaving
  BY <1>2 DEF RemovalIds, Leaving
<1>4. KeyInv'
  BY <1>0 DEF KeyInv
<1>5. TodoInv'
  BY <1>0, <1>3 DEF TodoInv, InsertLast
<1>6. QueueInv'
  BY <1>0 DEF QueueInv
<1>7. LeakInv'
  BY <1>0, <1>3 DEF LeakInv, Owned
<1>8. \A x : Entered(x)' <=> Entered(x)
  BY <1>3 DEF Entered, InMap
<1>9. WaitInv'
  <2>1. ASSUME NEW x \in Owners, life'[x] = "live", waker'[x] # None, now' < deadline'[x]
        PROVE  Entered(x)'
    <3>1. now < deadline[x]
      BY <1>0, <1>1, <2>1 DEF TimerShape
    <3>2. QED
      BY <1>0, <1>8, <2>1, <3>1 DEF WaitInv
  <2>2. ASSUME NEW x \in waits'
        PROVE  /\ life'[x] = "live" /\ waker'[x] # None /\ cur'[x] = waker'[x]
               /\ Entered(x)' \/ cur'[x] \in collected' \/ x \in woken'
    BY <1>0, <1>8, <2>2 DEF WaitInv
  <2>3. QED
    BY <2>1, <2>2 DEF WaitInv
<1>10. IdleInv'
  <2>1. ASSUME NEW x \in Owners, kind[x] = "idle", life[x] = "live"
        PROVE  /\ deadline[x] + lag[x] = last[x] + Idle
               /\ last[x] <= now' /\ polled[x] <= now'
               /\ \/ polled[x] - last[x] < Check
                  \/ polled[x] <= last[x]
                  \/ \E o \in Elems(todo[x]) : o.op = "check"
    <3>1. /\ deadline[x] + lag[x] = last[x] + Idle
          /\ last[x] <= now /\ polled[x] <= now
          /\ \/ polled[x] - last[x] < Check
             \/ polled[x] <= last[x]
             \/ \E o \in Elems(todo[x]) : o.op = "check"
      BY <1>0, <2>1 DEF IdleInv
    <3>2. last[x] \in Nat /\ polled[x] \in Nat
      BY <1>0 DEF PollShape
    <3>3. last[x] <= now' /\ polled[x] <= now'
      BY <1>1, <3>1, <3>2
    <3>4. QED
      BY <3>1, <3>3
  <2>2. ASSUME NEW x \in Owners, life[x] = "opening"
        PROVE  kind[x] = "idle" /\ Idle <= deadline[x] /\ deadline[x] <= now' + Idle
    <3>1. kind[x] = "idle" /\ Idle <= deadline[x] /\ deadline[x] <= now + Idle
      BY <1>0, <2>2 DEF IdleInv
    <3>2. deadline[x] \in Nat
      BY <1>0 DEF TimerShape
    <3>3. QED
      BY <1>1, <3>1, <3>2
  <2>3. QED
    BY <2>1, <2>2 DEF IdleInv
<1>11. QED
  BY <1>4, <1>5, <1>6, <1>7, <1>9, <1>10 DEF IInv, EntryInv

LEMMA ReactInv ==
    ASSUME IInv, React \/ WaitEnds \/ WaitEvents
    PROVE  IInv'
<1>0. ReactorShape /\ TimerShape /\ PollShape
  BY DEF IInv, ShapeInv
<1>1. /\ UNCHANGED <<now, timerOps, timers, tlock, rounds, collected, kind, life, deadline, key,
                     waker, inner, last, lag, cur, polled, waits, woken, todo, full, moves>>
      /\ rpc' \in {"first", "wake", "second"} /\ kicked' \in BOOLEAN
  BY <1>0 DEF React, WaitEnds, WaitEvents, mapVars, timerVars, pollVars, ReactorShape
<1>2. ReactorShape' /\ TimerShape' /\ PollShape'
  BY <1>0, <1>1 DEF ReactorShape, TimerShape, PollShape
<1>3. now <= now'
  BY <1>0, <1>1 DEF ReactorShape
<1>4. ShapeInv'
  BY <1>2 DEF ShapeInv
<1>5. QED
  BY <1>1, <1>3, <1>4, StillInv

LEMMA LockInv ==
    ASSUME IInv, NEW th \in Owners \cup {Reactor, Other}, LockTimers(th) \/ Unlock(th)
    PROVE  IInv'
<1>0. ReactorShape /\ TimerShape /\ PollShape
  BY DEF IInv, ShapeInv
<1>1. /\ UNCHANGED <<now, timerOps, timers, collected, kind, life, deadline, key, kicked, rpc,
                     waker, inner, last, lag, cur, polled, waits, woken, todo, moves>>
      /\ tlock' \in {th, None} /\ rounds' \in {0, OpsCap} /\ full' \subseteq full
  BY DEF LockTimers, Unlock, reactVars, timerVars, pollVars
<1>2. ReactorShape' /\ TimerShape' /\ PollShape'
  <2>1. rounds' \in 0..OpsCap /\ tlock' \in Owners \cup {Reactor, Other, None}
    BY <1>1
  <2>2. ReactorShape'
    BY <1>0, <1>1, <2>1 DEF ReactorShape
  <2>3. QED
    BY <1>0, <1>1, <2>2 DEF TimerShape, PollShape
<1>3. now <= now'
  BY <1>0, <1>1 DEF ReactorShape
<1>4. ShapeInv'
  BY <1>2 DEF ShapeInv
<1>5. QED
  BY <1>1, <1>3, <1>4, StillInv

LEMMA WakeInv ==
    ASSUME IInv, Wake
    PROVE  IInv'
<1>0. ReactorShape /\ TimerShape /\ PollShape
  BY DEF IInv, ShapeInv
<1>1. /\ UNCHANGED <<now, timerOps, timers, tlock, rounds, kicked, kind, life, deadline, key,
                     waker, inner, last, lag, cur, polled, waits, todo, full, moves>>
      /\ woken' = woken \cup {x \in waits : cur[x] \in collected}
      /\ collected' = {} /\ rpc' = "out"
  BY DEF Wake, mapVars, timerVars
<1>2. ReactorShape' /\ TimerShape' /\ PollShape'
  BY <1>0, <1>1 DEF ReactorShape, TimerShape, PollShape
<1>3. now <= now'
  BY <1>0, <1>1 DEF ReactorShape
<1>4. ShapeInv'
  BY <1>2 DEF ShapeInv
<1>5. QED
  BY <1>1, <1>3, <1>4, StillInv

LEMMA TickInv ==
    ASSUME IInv, Tick \/ \E x \in Owners : InnerReady(x)
    PROVE  IInv'
<1>0. ReactorShape /\ TimerShape /\ PollShape
  BY DEF IInv, ShapeInv
<1>1. /\ UNCHANGED <<timerOps, timers, tlock, rounds, rpc, collected, kicked, kind, life,
                     deadline, key, waker, last, lag, cur, polled, waits, todo, full, moves>>
      /\ now' \in 0..MaxNow /\ now <= now'
      /\ woken \subseteq woken' /\ woken' \subseteq Owners /\ inner' \subseteq Owners
  <2>1. CASE Tick
    BY <1>0, <2>1 DEF Tick, mapVars, reactVars, timerVars, pollVars, ReactorShape, PollShape
  <2>2. CASE \E x \in Owners : InnerReady(x)
    BY <1>0, <2>2 DEF InnerReady, mapVars, reactVars, timerVars, ReactorShape, PollShape
  <2>3. QED
    BY <2>1, <2>2
<1>2. ReactorShape' /\ TimerShape' /\ PollShape'
  BY <1>0, <1>1 DEF ReactorShape, TimerShape, PollShape
<1>3. ShapeInv'
  BY <1>2 DEF ShapeInv
<1>4. QED
  BY <1>1, <1>3, StillInv

----------------------------------------------------------------------------
(* Sending *)

LEMMA InsertLastTail ==
    ASSUME NEW s \in Seq(Op), s # <<>>, InsertLast(s)
    PROVE  /\ InsertLast(Tail(s))
           /\ Head(s).op = "insert" => \A o \in Elems(Tail(s)) : o.op \notin {"insert", "remove"}
<1> DEFINE l == Len(s)
           t == Tail(s)
           h == Head(s)
<1>1. /\ t \in Seq(Op) /\ l \in Nat /\ Len(t) = l - 1 /\ h = s[1] /\ l # 0
      /\ \A i \in 1..Len(t) : t[i] = s[i + 1]
  BY HeadTailProperties, EmptySeq, LenProperties
<1>2. \A i, j \in 1..l : i < j /\ s[i].op = "insert" => s[j].op \notin {"insert", "remove"}
  BY DEF InsertLast
<1>3. \A o \in Elems(t) : \E i \in 1..Len(t) : o = t[i]
  BY <1>1, ElemsIn
<1> HIDE DEF l, t, h
<1>4. \A i \in 1..(l - 1) : t[i] = s[i + 1]
  BY <1>1
<1>5. ASSUME NEW i \in 1..(l - 1), NEW j \in 1..(l - 1), i < j, t[i].op = "insert"
      PROVE  t[j].op \notin {"insert", "remove"}
  <2>1. i + 1 \in 1..l /\ j + 1 \in 1..l /\ i + 1 < j + 1
    BY <1>1, <1>5
  <2>2. t[i] = s[i + 1] /\ t[j] = s[j + 1]
    BY <1>4
  <2>3. QED
    BY <1>2, <1>5, <2>1, <2>2
<1>6. InsertLast(t)
  BY <1>1, <1>5 DEF InsertLast
<1>7. ASSUME h.op = "insert", NEW o \in Elems(t) PROVE o.op \notin {"insert", "remove"}
  <2>1. PICK i \in 1..(l - 1) : o = t[i]
    BY <1>1, <1>3, <1>7
  <2>2. 1 \in 1..l /\ i + 1 \in 1..l /\ 1 < i + 1 /\ o = s[i + 1]
    BY <1>1, <1>4, <2>1
  <2>3. QED
    BY <1>1, <1>2, <1>7, <2>2
<1>8. QED
  BY <1>6, <1>7 DEF t, h

\* An operation leaves the list of its owner x.
Sends(x) ==
    /\ todo[x] # <<>>
    /\ todo' = [todo EXCEPT ![x] = Tail(@)]
    /\ UNCHANGED <<now, timers, tlock, rounds, rpc, until, collected, kind, life, deadline, key,
                   waker, inner, last, lag, cur, polled, waits, woken, full, moves>>

LEMMA SendsFacts ==
    ASSUME ShapeInv, TodoInv, NEW x \in Owners, Sends(x)
    PROVE  /\ Head(todo[x]) \in Op /\ Head(todo[x]) \in Elems(todo[x])
           /\ Elems(todo[x]) = {Head(todo[x])} \cup Elems(todo'[x])
           /\ \A y \in Owners : y # x => todo'[y] = todo[y]
           /\ \A y \in Owners : InsertLast(todo'[y])
           /\ TimerShape' /\ PollShape'
           /\ Head(todo[x]).op = "insert" =>
                 \A o \in Elems(todo'[x]) : o.op \notin {"insert", "remove"}
<1>0. TimerShape /\ PollShape
  BY DEF ShapeInv
<1>1. todo[x] \in Seq(Op) /\ todo[x] # <<>> /\ InsertLast(todo[x])
  BY <1>0 DEF Sends, TodoInv, TimerShape, Op
<1>2. todo'[x] = Tail(todo[x]) /\ \A y \in Owners : y # x => todo'[y] = todo[y]
  BY <1>0 DEF Sends, TimerShape
<1>3. /\ Tail(todo[x]) \in Seq(Op) /\ Head(todo[x]) \in Op
      /\ Elems(todo[x]) = {Head(todo[x])} \cup Elems(Tail(todo[x]))
  BY <1>1, ElemsTail
<1>4. /\ InsertLast(Tail(todo[x]))
      /\ Head(todo[x]).op = "insert" =>
            \A o \in Elems(Tail(todo[x])) : o.op \notin {"insert", "remove"}
  BY <1>1, InsertLastTail
<1>5. \A y \in Owners : InsertLast(todo'[y])
  <2>1. \A y \in Owners : InsertLast(todo[y])
    BY DEF TodoInv
  <2>2. QED
    BY <1>2, <1>4, <2>1
<1>6. TimerShape'
  <2>1. todo' \in [Owners -> Seq(Op)]
    <3>1. todo \in [Owners -> Seq(Op)]
      BY <1>0 DEF TimerShape, Op
    <3>2. QED
      BY <1>3, <3>1 DEF Sends
  <2>2. QED
    BY <1>0, <2>1 DEF TimerShape, Sends, Op
<1>7. PollShape'
  BY <1>0 DEF PollShape, Sends
<1>8. QED
  BY <1>2, <1>3, <1>4, <1>5, <1>6, <1>7

\* The IdleTimeouts do not notice, unless it is the check itself.
LEMMA SendsIdleInv ==
    ASSUME ShapeInv, TodoInv, IdleInv, NEW x \in Owners, Sends(x), Head(todo[x]).op # "check"
    PROVE  IdleInv'
<1>1. ASSUME NEW y \in Owners, kind[y] = "idle", life[y] = "live"
      PROVE  /\ deadline[y] + lag[y] = last[y] + Idle
             /\ last[y] <= now /\ polled[y] <= now
             /\ \/ polled[y] - last[y] < Check
                \/ polled[y] <= last[y]
                \/ \E o \in Elems(todo'[y]) : o.op = "check"
  <2>1. /\ deadline[y] + lag[y] = last[y] + Idle
        /\ last[y] <= now /\ polled[y] <= now
        /\ \/ polled[y] - last[y] < Check
           \/ polled[y] <= last[y]
           \/ \E o \in Elems(todo[y]) : o.op = "check"
    BY <1>1 DEF IdleInv
  <2>2. ASSUME NEW o \in Elems(todo[y]), o.op = "check" PROVE o \in Elems(todo'[y])
    BY <2>2, SendsFacts
  <2>3. QED
    BY <2>1, <2>2
<1>2. \A y \in Owners :
         life[y] = "opening" =>
            kind[y] = "idle" /\ Idle <= deadline[y] /\ deadline[y] <= now + Idle
  BY DEF IdleInv
<1>3. UNCHANGED <<now, kind, life, deadline, last, lag, polled>>
  BY DEF Sends
<1>4. QED
  BY <1>1, <1>2, <1>3 DEF IdleInv

LEMMA PushInv ==
    ASSUME IInv, NEW x \in Owners, Sends(x), Head(todo[x]).op \in {"insert", "remove"},
           Push(Head(todo[x])), UNCHANGED kicked
    PROVE  IInv'
<1> DEFINE h == Head(todo[x])
           l == Len(timerOps)
<1>0. /\ ShapeInv /\ KeyInv /\ TodoInv /\ QueueInv /\ LeakInv /\ WaitInv /\ IdleInv
      /\ ReactorShape /\ TimerShape /\ PollShape
  BY DEF IInv, EntryInv, ShapeInv
<1>1. /\ h \in Op /\ h \in Elems(todo[x])
      /\ Elems(todo[x]) = {h} \cup Elems(todo'[x])
      /\ \A y \in Owners : y # x => todo'[y] = todo[y]
      /\ \A y \in Owners : InsertLast(todo'[y])
      /\ TimerShape' /\ PollShape'
      /\ h.op = "insert" => \A o \in Elems(todo'[x]) : o.op \notin {"insert", "remove"}
  BY <1>0, SendsFacts
<1>2. UNCHANGED <<now, timers, tlock, rounds, rpc, until, collected, kicked, kind, life,
                  deadline, key, waker, last, lag, cur, polled, waits, woken>>
  BY DEF Sends
<1>3. h.op \in {"insert", "remove"} /\ l < OpsCap /\ timerOps' = Append(timerOps, h)
  BY DEF Push
<1> HIDE DEF h
<1>4. h \in Insertions \cup Removals
  BY <1>1, <1>3 DEF Op, Signals
<1>5. /\ timerOps' \in Seq(Insertions \cup Removals) /\ Len(timerOps') = l + 1
      /\ Elems(timerOps') = Elems(timerOps) \cup {h}
      /\ \A i \in 1..l : timerOps'[i] = timerOps[i]
      /\ timerOps'[l + 1] = h
  BY <1>0, <1>3, <1>4, ElemsAppend DEF ReactorShape
<1>6. l \in Nat
  BY <1>0, LenProperties DEF ReactorShape
<1>7. \A i \in 1..l : timerOps[i] \in Elems(timerOps)
  BY <1>0, ElemsIn DEF ReactorShape
<1> HIDE DEF l
<1>8. ShapeInv'
  <2>1. l + 1 <= OpsCap
    BY <1>3, <1>6
  <2>2. ReactorShape'
    BY <1>0, <1>2, <1>5, <2>1 DEF ReactorShape
  <2>3. QED
    BY <1>1, <2>2 DEF ShapeInv
<1>9. Sent' = Sent
  <2>1. ASSUME NEW o \in Sent PROVE o \in Sent'
    <3>1. CASE o \in Elems(timerOps)
      BY <1>5, <3>1 DEF Sent
    <3>2. ASSUME NEW y \in Owners, o \in Elems(todo[y]) PROVE o \in Sent'
      BY <1>1, <1>5, <3>2 DEF Sent
    <3>3. QED
      BY <2>1, <3>1, <3>2 DEF Sent
  <2>2. ASSUME NEW o \in Sent' PROVE o \in Sent
    <3>1. CASE o \in Elems(timerOps')
      BY <1>1, <1>5, <3>1 DEF Sent
    <3>2. ASSUME NEW y \in Owners, o \in Elems(todo'[y]) PROVE o \in Sent
      BY <1>1, <3>2 DEF Sent
    <3>3. QED
      BY <2>2, <3>1, <3>2 DEF Sent
  <2>3. QED
    BY <2>1, <2>2
<1>10. RemovalIds' = RemovalIds /\ Leaving' = Leaving
  BY <1>9 DEF RemovalIds, Leaving
<1>11. h.op = "remove" => h.id \in RemovalIds
  BY <1>1 DEF RemovalIds, Sent
<1>12. h.op = "insert" =>
          /\ h.when = deadline[x] /\ h.id = key[x] /\ h.waker = waker[x] /\ h.id # 0
          /\ life[x] = "live"
          /\ key[x] \notin {e.id : e \in timers}
          /\ \A p \in Elems(timerOps) : p.id # key[x]
  <2>1. h.op = "insert" => h.id # 0
    BY <1>4 DEF Insertions, Removals
  <2>2. QED
    BY <1>0, <1>1, <2>1 DEF TodoInv
<1>13. KeyInv'
  <2>1. life[x] \notin {"new", "opening"}
    BY <1>0 DEF KeyInv, Sends
  <2>2. QED
    BY <1>0, <1>1, <1>2, <2>1 DEF KeyInv
<1>14. TodoInv'
  <2>1. ASSUME NEW y \in Owners, NEW o \in Elems(todo'[y])
        PROVE  /\ o.op = "insert" =>
                     /\ o.when = deadline[y] /\ o.id = key[y] /\ o.waker = waker[y]
                     /\ life[y] = "live"
                     /\ key[y] \notin {e.id : e \in timers}
                     /\ \A p \in Elems(timerOps') : p.id # key[y]
                     /\ key[y] \notin RemovalIds
               /\ o.op = "check" => life[y] = "live" /\ waker[y] # None /\ kind[y] = "idle"
    <3>1. o \in Elems(todo[y])
      BY <1>1, <2>1
    <3>2. ASSUME o.op = "insert" PROVE h.id # key[y]
      <4>1. CASE h.op = "remove"
        BY <1>0, <1>11, <3>1, <3>2, <4>1 DEF TodoInv
      <4>2. CASE h.op = "insert"
        <5>1. y # x
          BY <1>1, <2>1, <3>2, <4>2
        <5>2. QED
          BY <1>0, <1>12, <4>2, <5>1 DEF KeyInv
      <4>3. QED
        BY <1>3, <4>1, <4>2
    <3>3. QED
      BY <1>0, <1>5, <3>1, <3>2 DEF TodoInv
  <2>2. QED
    BY <1>1, <1>2, <1>10, <2>1 DEF TodoInv
<1>15. QueueInv'
  <2>1. ASSUME NEW i \in 1..(l + 1), NEW j \in 1..(l + 1), i < j, timerOps'[j].op = "insert"
        PROVE  timerOps'[i].id # timerOps'[j].id
    <3>1. i \in 1..l /\ timerOps'[i] = timerOps[i]
      BY <1>5, <1>6, <2>1
    <3>2. CASE j \in 1..l
      <4>1. timerOps'[j] = timerOps[j]
        BY <1>5, <3>2
      <4>2. QED
        BY <1>0, <2>1, <3>1, <3>2, <4>1 DEF QueueInv, l
    <3>3. CASE j = l + 1
      <4>1. timerOps'[j] = h /\ timerOps[i] \in Elems(timerOps)
        BY <1>5, <1>7, <3>1, <3>3
      <4>2. QED
        BY <1>12, <2>1, <3>1, <4>1
    <3>4. j \in 1..l \/ j = l + 1
      BY <1>6
    <3>5. QED
      BY <3>2, <3>3, <3>4
  <2>2. ASSUME NEW o \in Elems(timerOps'), o.op = "insert", NEW e \in timers
        PROVE  e.id # o.id
    BY <1>0, <1>5, <1>12, <2>2 DEF QueueInv
  <2>3. QED
    BY <1>0, <1>2, <1>5, <2>1, <2>2 DEF QueueInv
<1>16. LeakInv'
  <2>1. \A when, id, w : Owned(when, id, w)' <=> Owned(when, id, w)
    BY <1>2 DEF Owned
  <2>2. h.op = "insert" => Owned(h.when, h.id, h.waker)
    BY <1>12 DEF Owned
  <2>3. \A o \in Elems(timerOps') :
           o.op = "insert" => Owned(o.when, o.id, o.waker) \/ <<o.when, o.id>> \in Leaving
    BY <1>0, <1>5, <2>2 DEF LeakInv
  <2>4. QED
    BY <1>0, <1>2, <1>10, <2>1, <2>3 DEF LeakInv
<1>17. ASSUME NEW y \in Owners, Entered(y) PROVE Entered(y)'
  <2>1. CASE InMap(y)
    BY <1>2, <1>5, <1>10, <1>17, <2>1 DEF Entered, InMap
  <2>2. ASSUME NEW o \in Elems(todo[y]), o.op = "insert" PROVE Entered(y)'
    <3>1. CASE o \in Elems(todo'[y])
      BY <1>2, <1>10, <1>17, <2>2, <3>1 DEF Entered
    <3>2. CASE o \notin Elems(todo'[y])
      <4>1. y = x /\ o = h
        BY <1>1, <2>2, <3>2
      <4>2. InMap(y)'
        BY <1>2, <1>5, <1>12, <2>2, <4>1 DEF InMap
      <4>3. QED
        BY <1>2, <1>10, <1>17, <4>2 DEF Entered
    <3>3. QED
      BY <3>1, <3>2
  <2>3. QED
    BY <1>17, <2>1, <2>2 DEF Entered
<1>18. WaitInv'
  <2>1. waits \subseteq Owners
    BY <1>0 DEF PollShape
  <2>2. QED
    BY <1>0, <1>2, <1>17, <2>1 DEF WaitInv
<1>19. IdleInv'
  <2>1. h.op # "check"
    BY <1>3
  <2>2. QED
    BY <1>0, <2>1, SendsIdleInv DEF h
<1>20. QED
  BY <1>8, <1>13, <1>14, <1>15, <1>16, <1>18, <1>19 DEF IInv, EntryInv

LEMMA SendOpInv ==
    ASSUME IInv, NEW x \in Owners, SendOp(x)
    PROVE  IInv'
<1>0. ReactorShape /\ TimerShape /\ PollShape
  BY DEF IInv, ShapeInv
<1>1. UNCHANGED <<now, timers, tlock, rounds, rpc, until, collected, kicked, kind, life,
                  deadline, key, waker, inner, last, lag, cur, polled, waits, woken, moves>>
  BY DEF SendOp, mapVars, reactVars, timerVars, pollVars
<1>2. todo[x] # <<>> /\ Head(todo[x]).op \in {"insert", "remove"}
  BY DEF SendOp, Sending
<1>3. CASE /\ Push(Head(todo[x])) /\ UNCHANGED full
           /\ todo' = [todo EXCEPT ![x] = Tail(@)]
  <2>1. Sends(x)
    BY <1>1, <1>2, <1>3 DEF Sends
  <2>2. QED
    BY <1>1, <1>2, <1>3, <2>1, PushInv
<1>4. CASE full' = full \cup {x} /\ UNCHANGED <<timerOps, todo>>
  <2>1. ReactorShape' /\ TimerShape' /\ PollShape'
    BY <1>0, <1>1, <1>4 DEF ReactorShape, TimerShape, PollShape
  <2>2. now <= now'
    BY <1>0, <1>1 DEF ReactorShape
  <2>3. ShapeInv'
    BY <2>1 DEF ShapeInv
  <2>4. QED
    BY <1>1, <1>4, <2>2, <2>3, StillInv
<1>5. QED
  BY <1>3, <1>4 DEF SendOp

LEMMA NotifyInv ==
    ASSUME IInv, NEW x \in Owners, Notify(x)
    PROVE  IInv'
<1> DEFINE h == Head(todo[x])
<1>0. /\ ShapeInv /\ KeyInv /\ TodoInv /\ QueueInv /\ LeakInv /\ WaitInv /\ IdleInv
      /\ ReactorShape /\ TimerShape /\ PollShape
  BY DEF IInv, EntryInv, ShapeInv
<1>1. /\ Sends(x) /\ h.op = "notify" /\ kicked' = TRUE
      /\ UNCHANGED timerOps
  BY DEF Notify, Sends, mapVars, reactVars, timerVars, pollVars
<1>2. UNCHANGED <<now, timers, tlock, rounds, rpc, until, collected, kind, life,
                  deadline, key, waker, last, lag, cur, polled, waits, woken>>
  BY <1>1 DEF Sends
<1>3. /\ Elems(todo[x]) = {h} \cup Elems(todo'[x])
      /\ \A y \in Owners : y # x => todo'[y] = todo[y]
      /\ \A y \in Owners : InsertLast(todo'[y])
      /\ TimerShape' /\ PollShape'
  BY <1>0, <1>1, SendsFacts
<1> HIDE DEF h
<1>4. ShapeInv'
  <2>1. ReactorShape'
    BY <1>0, <1>1, <1>2 DEF ReactorShape
  <2>2. QED
    BY <1>3, <2>1 DEF ShapeInv
<1>5. \A y \in Owners : Elems(todo'[y]) \subseteq Elems(todo[y])
  BY <1>3
<1>6. \A y \in Owners : \A o \in Elems(todo[y]) : o.op # "notify" => o \in Elems(todo'[y])
  BY <1>1, <1>3
<1>7. Sent' \subseteq Sent /\ \A o \in Sent : o.op = "remove" => o \in Sent'
  <2>1. ASSUME NEW o \in Sent' PROVE o \in Sent
    <3>1. CASE o \in Elems(timerOps')
      BY <1>1, <3>1 DEF Sent
    <3>2. ASSUME NEW y \in Owners, o \in Elems(todo'[y]) PROVE o \in Sent
      BY <1>5, <3>2 DEF Sent
    <3>3. QED
      BY <2>1, <3>1, <3>2 DEF Sent
  <2>2. ASSUME NEW o \in Sent, o.op = "remove" PROVE o \in Sent'
    <3>1. CASE o \in Elems(timerOps)
      BY <1>1, <3>1 DEF Sent
    <3>2. ASSUME NEW y \in Owners, o \in Elems(todo[y]) PROVE o \in Sent'
      BY <1>6, <2>2, <3>2 DEF Sent
    <3>3. QED
      BY <2>2, <3>1, <3>2 DEF Sent
  <2>3. QED
    BY <2>1, <2>2
<1>8. RemovalIds' = RemovalIds
  BY <1>7 DEF RemovalIds
<1>9. Leaving' = Leaving
  BY <1>7 DEF Leaving
<1>10. KeyInv'
  <2>1. life[x] \notin {"new", "opening"}
    BY <1>0, <1>1 DEF KeyInv, Sends
  <2>2. QED
    BY <1>0, <1>2, <1>3, <2>1 DEF KeyInv
<1>11. TodoInv'
  BY <1>0, <1>1, <1>2, <1>3, <1>5, <1>8 DEF TodoInv
<1>12. QueueInv'
  BY <1>0, <1>1, <1>2 DEF QueueInv
<1>13. LeakInv'
  BY <1>0, <1>1, <1>2, <1>9 DEF LeakInv, Owned
<1>14. ASSUME NEW y \in Owners, Entered(y) PROVE Entered(y)'
  <2>1. (\E o \in Elems(todo[y]) : o.op = "insert") => \E o \in Elems(todo'[y]) : o.op = "insert"
    BY <1>6
  <2>2. QED
    BY <1>1, <1>2, <1>8, <1>14, <2>1 DEF Entered, InMap
<1>15. WaitInv'
  <2>1. waits \subseteq Owners
    BY <1>0 DEF PollShape
  <2>2. QED
    BY <1>0, <1>2, <1>14, <2>1 DEF WaitInv
<1>16. IdleInv'
  <2>1. h.op # "check"
    BY <1>1
  <2>2. QED
    BY <1>0, <1>1, <2>1, SendsIdleInv DEF h
<1>17. QED
  BY <1>4, <1>10, <1>11, <1>12, <1>13, <1>15, <1>16 DEF IInv, EntryInv

LEMMA OtherSendsInv ==
    ASSUME IInv, OtherSends
    PROVE  IInv'
<1> DEFINE h == [op |-> "remove", when |-> 0, id |-> 0]
           l == Len(timerOps)
<1>0. /\ ShapeInv /\ KeyInv /\ TodoInv /\ QueueInv /\ LeakInv /\ WaitInv /\ IdleInv
      /\ ReactorShape /\ TimerShape /\ PollShape
  BY DEF IInv, EntryInv, ShapeInv
<1>1. UNCHANGED <<now, timers, tlock, rounds, rpc, until, collected, kicked, kind, life,
                  deadline, key, waker, inner, last, lag, cur, polled, waits, woken, todo>>
  BY DEF OtherSends, mapVars, reactVars, timerVars, pollVars
<1>2. l \in Nat
  BY <1>0, LenProperties DEF ReactorShape
<1>3. CASE Push(h) /\ moves' = moves + 1 /\ UNCHANGED full /\ moves < MaxMoves
  <2>1. h \in Insertions \cup Removals /\ h.op = "remove" /\ h.id = 0
    BY DEF Removals
  <2>2. l < OpsCap /\ timerOps' = Append(timerOps, h)
    BY <1>3 DEF Push
  <2> HIDE DEF h
  <2>3. /\ timerOps' \in Seq(Insertions \cup Removals) /\ Len(timerOps') = l + 1
        /\ Elems(timerOps') = Elems(timerOps) \cup {h}
        /\ \A i \in 1..l : timerOps'[i] = timerOps[i]
        /\ timerOps'[l + 1] = h
    BY <1>0, <2>1, <2>2, ElemsAppend DEF ReactorShape
  <2> HIDE DEF l
  <2>4. ShapeInv'
    <3>1. l + 1 <= OpsCap
      BY <1>2, <2>2
    <3>2. ReactorShape'
      BY <1>0, <1>1, <2>3, <3>1 DEF ReactorShape
    <3>3. moves' \in 0..MaxMoves
      BY <1>0, <1>3 DEF PollShape
    <3>4. TimerShape' /\ PollShape'
      BY <1>0, <1>1, <1>3, <3>3 DEF TimerShape, PollShape
    <3>5. QED
      BY <3>2, <3>4 DEF ShapeInv
  <2>5. Sent' = Sent \cup {h}
    BY <1>1, <2>3 DEF Sent
  <2>6. RemovalIds' = RemovalIds \cup {0}
    BY <2>1, <2>5 DEF RemovalIds
  <2>7. Leaving \subseteq Leaving'
    BY <2>5 DEF Leaving
  <2>8. KeyInv'
    BY <1>0, <1>1 DEF KeyInv
  <2>9. TodoInv'
    <3>1. ASSUME NEW y \in Owners, NEW o \in Elems(todo[y]), o.op = "insert"
          PROVE  key[y] # 0
      <4>1. o \in Op
        BY <1>0, <3>1, ElemsIn DEF TimerShape, Op
      <4>2. o.id # 0 /\ o.id = key[y]
        BY <1>0, <3>1, <4>1 DEF TodoInv, Op, Insertions, Removals, Signals
      <4>3. QED
        BY <4>2
    <3>2. QED
      BY <1>0, <1>1, <2>1, <2>3, <2>6, <3>1 DEF TodoInv, InsertLast
  <2>10. QueueInv'
    <3>1. ASSUME NEW i \in 1..(l + 1), NEW j \in 1..(l + 1), i < j, timerOps'[j].op = "insert"
          PROVE  timerOps'[i].id # timerOps'[j].id
      <4>1. j # l + 1
        BY <2>1, <2>3, <3>1
      <4>2. i \in 1..l /\ j \in 1..l
        BY <1>2, <3>1, <4>1
      <4>3. timerOps'[i] = timerOps[i] /\ timerOps'[j] = timerOps[j]
        BY <2>3, <4>2
      <4>4. QED
        BY <1>0, <3>1, <4>2, <4>3 DEF QueueInv, l
    <3>2. ASSUME NEW o \in Elems(timerOps'), o.op = "insert", NEW e \in timers
          PROVE  e.id # o.id
      BY <1>0, <2>1, <2>3, <3>2 DEF QueueInv
    <3>3. QED
      BY <1>0, <1>1, <2>3, <3>1, <3>2 DEF QueueInv
  <2>11. LeakInv'
    <3>1. \A when, id, w : Owned(when, id, w)' <=> Owned(when, id, w)
      BY <1>1 DEF Owned
    <3>2. \A o \in Elems(timerOps') :
             o.op = "insert" => Owned(o.when, o.id, o.waker) \/ <<o.when, o.id>> \in Leaving
      BY <1>0, <2>1, <2>3 DEF LeakInv
    <3>3. QED
      BY <1>0, <1>1, <2>7, <3>1, <3>2 DEF LeakInv
  <2>12. ASSUME NEW y \in Owners, Entered(y), waker[y] # None PROVE Entered(y)'
    <3>1. key[y] # 0
      BY <1>0, <2>12 DEF KeyInv
    <3>2. QED
      BY <1>1, <2>3, <2>6, <2>12, <3>1 DEF Entered, InMap
  <2>13. WaitInv'
    <3>1. waits \subseteq Owners
      BY <1>0 DEF PollShape
    <3>2. QED
      BY <1>0, <1>1, <2>12, <3>1 DEF WaitInv
  <2>14. IdleInv'
    BY <1>0, <1>1 DEF IdleInv
  <2>15. QED
    BY <2>4, <2>8, <2>9, <2>10, <2>11, <2>13, <2>14 DEF IInv, EntryInv
<1>4. CASE full' = full \cup {Other} /\ UNCHANGED <<timerOps, moves>>
  <2>1. ReactorShape' /\ TimerShape' /\ PollShape'
    BY <1>0, <1>1, <1>4 DEF ReactorShape, TimerShape, PollShape
  <2>2. now <= now'
    BY <1>0, <1>1 DEF ReactorShape
  <2>3. ShapeInv'
    BY <2>1 DEF ShapeInv
  <2>4. QED
    BY <1>1, <1>4, <2>2, <2>3, StillInv
<1>5. QED
  BY <1>3, <1>4 DEF OtherSends

----------------------------------------------------------------------------
(* Emptying the queue, and the entries that are due *)

LEMMA ProcessOpInv ==
    ASSUME IInv, NEW th \in Owners \cup {Reactor, Other}, ProcessOp(th)
    PROVE  IInv'
<1> DEFINE h == Head(timerOps)
           l == Len(timerOps)
           n == [when |-> h.when, id |-> h.id, waker |-> h.waker]
<1>0. /\ ShapeInv /\ KeyInv /\ TodoInv /\ QueueInv /\ LeakInv /\ WaitInv /\ IdleInv
      /\ ReactorShape /\ TimerShape /\ PollShape
  BY DEF IInv, EntryInv, ShapeInv
<1>1. UNCHANGED <<now, tlock, rpc, until, collected, kicked, kind, life, deadline, key, waker,
                  inner, last, lag, cur, polled, waits, woken, todo, full, moves>>
  BY DEF ProcessOp, reactVars, timerVars, pollVars
<1>2. /\ timerOps # <<>> /\ timerOps' = Tail(timerOps) /\ rounds > 0 /\ rounds' = rounds - 1
      /\ timers' = Applied(h)
  BY DEF ProcessOp, Pop
<1>3. timerOps \in Seq(Insertions \cup Removals)
  BY <1>0 DEF ReactorShape
<1>4. /\ timerOps' \in Seq(Insertions \cup Removals) /\ h \in Insertions \cup Removals
      /\ Elems(timerOps) = {h} \cup Elems(timerOps')
  BY <1>2, <1>3, ElemsTail
<1>5. /\ l \in Nat /\ l # 0 /\ Len(timerOps') = l - 1 /\ h = timerOps[1]
      /\ \A i \in 1..Len(timerOps') : timerOps'[i] = timerOps[i + 1]
  BY <1>2, <1>3, HeadTailProperties, EmptySeq, LenProperties
<1>6. \A o \in Elems(timerOps') : \E i \in 1..Len(timerOps') : o = timerOps'[i]
  BY <1>4, ElemsIn
<1>7. h.op \in {"insert", "remove"} /\ (h.op = "insert" => n \in Entry)
  BY <1>4 DEF Insertions, Removals, Entry
<1>8. h.op = "remove" => timers' = {e \in timers : <<e.when, e.id>> # <<h.when, h.id>>}
  BY <1>2 DEF Applied
<1>9. h.op = "insert" => timers' = timers \cup {n}
  <2> SUFFICES ASSUME h.op = "insert" PROVE timers' = timers \cup {n}
    OBVIOUS
  <2>1. timers' = {e \in timers : <<e.when, e.id>> # <<h.when, h.id>>} \cup {n}
    BY <1>2 DEF Applied
  <2>2. \A e \in timers : e.id # h.id
    BY <1>0, <1>4 DEF QueueInv
  <2> HIDE DEF h, n
  <2>3. QED
    BY <2>1, <2>2
<1>10. n.when = h.when /\ n.id = h.id /\ n.waker = h.waker
  OBVIOUS
<1> HIDE DEF h, l, n
<1>11. timers' \subseteq timers \cup {n} /\ (h.op = "remove" => timers' \subseteq timers)
  BY <1>7, <1>8, <1>9
<1>12. IsFiniteSet(timers')
  <2>1. IsFiniteSet(timers)
    BY <1>0 DEF ReactorShape
  <2>2. IsFiniteSet(timers \cup {n})
    BY <2>1, FS_AddElement
  <2>3. QED
    BY <1>11, <2>2, FS_Subset
<1>13. ShapeInv'
  <2>1. Len(timerOps') <= OpsCap
    BY <1>0, <1>5 DEF ReactorShape, l
  <2>2. rounds' \in 0..OpsCap
    BY <1>0, <1>2 DEF ReactorShape
  <2>3. timers' \subseteq Entry
    BY <1>0, <1>7, <1>8, <1>9 DEF ReactorShape
  <2>4. ReactorShape'
    BY <1>0, <1>1, <1>4, <1>12, <2>1, <2>2, <2>3 DEF ReactorShape
  <2>5. TimerShape' /\ PollShape'
    BY <1>0, <1>1 DEF TimerShape, PollShape
  <2>6. QED
    BY <2>4, <2>5 DEF ShapeInv
<1>14. Sent = Sent' \cup {h}
  BY <1>1, <1>4 DEF Sent
<1>15. RemovalIds' \subseteq RemovalIds /\ (h.op = "remove" => h.id \in RemovalIds)
  BY <1>14 DEF RemovalIds
<1>16. ASSUME NEW when, NEW id, <<when, id>> \in Leaving
       PROVE  <<when, id>> \in Leaving' \/ (h.op = "remove" /\ when = h.when /\ id = h.id)
  <2>1. PICK o \in Sent : o.op = "remove" /\ o.when = when /\ o.id = id
    BY <1>16 DEF Leaving
  <2>2. CASE o \in Sent'
    BY <2>1, <2>2 DEF Leaving
  <2>3. CASE o = h
    BY <2>1, <2>3
  <2>4. QED
    BY <1>14, <2>1, <2>2, <2>3
<1>17. \A o \in Elems(timerOps') : o.op = "insert" => o.id # h.id
  <2> SUFFICES ASSUME NEW o \in Elems(timerOps'), o.op = "insert" PROVE o.id # h.id
    OBVIOUS
  <2>1. PICK i \in 1..(l - 1) : o = timerOps[i + 1]
    BY <1>5, <1>6
  <2>2. 1 \in 1..l /\ i + 1 \in 1..l /\ 1 < i + 1
    BY <1>5, <2>1
  <2>3. QED
    BY <1>0, <1>5, <2>1, <2>2 DEF QueueInv, l
<1>18. KeyInv'
  BY <1>0, <1>1 DEF KeyInv
<1>19. TodoInv'
  <2>1. ASSUME NEW y \in Owners, NEW o \in Elems(todo[y]), o.op = "insert"
        PROVE  /\ key[y] \notin {e.id : e \in timers'}
               /\ \A p \in Elems(timerOps') : p.id # key[y]
               /\ key[y] \notin RemovalIds'
    <3>1. /\ key[y] \notin {e.id : e \in timers}
          /\ \A p \in Elems(timerOps) : p.id # key[y]
          /\ key[y] \notin RemovalIds
      BY <1>0, <2>1 DEF TodoInv
    <3>2. n.id # key[y]
      BY <1>4, <1>10, <3>1
    <3>3. QED
      BY <1>4, <1>11, <1>15, <3>1, <3>2
  <2>2. QED
    BY <1>0, <1>1, <2>1 DEF TodoInv, InsertLast
<1>20. QueueInv'
  <2>1. ASSUME NEW i \in 1..(l - 1), NEW j \in 1..(l - 1), i < j, timerOps'[j].op = "insert"
        PROVE  timerOps'[i].id # timerOps'[j].id
    <3>1. timerOps'[i] = timerOps[i + 1] /\ timerOps'[j] = timerOps[j + 1]
      BY <1>5
    <3>2. i + 1 \in 1..l /\ j + 1 \in 1..l /\ i + 1 < j + 1
      BY <1>5, <2>1
    <3>3. QED
      BY <1>0, <2>1, <3>1, <3>2 DEF QueueInv, l
  <2>2. ASSUME NEW o \in Elems(timerOps'), o.op = "insert", NEW e \in timers'
        PROVE  e.id # o.id
    <3>1. CASE e \in timers
      BY <1>0, <1>4, <2>2, <3>1 DEF QueueInv
    <3>2. CASE e = n
      BY <1>10, <1>17, <2>2, <3>2
    <3>3. QED
      BY <1>11, <2>2, <3>1, <3>2
  <2>3. ASSUME NEW e \in timers', NEW f \in timers', e.id = f.id PROVE e = f
    <3>1. h.op = "insert" => \A g \in timers : g.id # n.id
      BY <1>0, <1>4, <1>10 DEF QueueInv
    <3>2. QED
      BY <1>0, <1>7, <1>8, <1>9, <2>3, <3>1 DEF QueueInv
  <2>4. QED
    BY <1>5, <2>1, <2>2, <2>3 DEF QueueInv
<1>21. LeakInv'
  <2>1. \A when, id, w : Owned(when, id, w)' <=> Owned(when, id, w)
    BY <1>1 DEF Owned
  <2>2. ASSUME NEW e \in timers'
        PROVE  Owned(e.when, e.id, e.waker) \/ <<e.when, e.id>> \in Leaving'
    <3>1. CASE h.op = "remove"
      <4>1. e \in timers /\ ~(e.when = h.when /\ e.id = h.id)
        BY <1>8, <2>2, <3>1
      <4>2. QED
        BY <1>0, <1>16, <4>1 DEF LeakInv
    <3>2. CASE h.op = "insert" /\ e \in timers
      BY <1>0, <1>16, <3>2 DEF LeakInv
    <3>3. CASE h.op = "insert" /\ e = n
      <4>1. Owned(h.when, h.id, h.waker) \/ <<h.when, h.id>> \in Leaving
        BY <1>0, <1>4, <3>3 DEF LeakInv
      <4>2. QED
        BY <1>10, <1>16, <3>3, <4>1
    <3>4. QED
      BY <1>7, <1>9, <2>2, <3>1, <3>2, <3>3
  <2>3. ASSUME NEW o \in Elems(timerOps'), o.op = "insert"
        PROVE  Owned(o.when, o.id, o.waker) \/ <<o.when, o.id>> \in Leaving'
    <3>1. Owned(o.when, o.id, o.waker) \/ <<o.when, o.id>> \in Leaving
      BY <1>0, <1>4, <2>3 DEF LeakInv
    <3>2. QED
      BY <1>16, <1>17, <2>3, <3>1
  <2>4. QED
    BY <2>1, <2>2, <2>3 DEF LeakInv
<1>22. ASSUME NEW y \in Owners, Entered(y) PROVE Entered(y)'
  <2>1. key[y] \notin RemovalIds /\ key[y] \notin RemovalIds'
    BY <1>15, <1>22 DEF Entered
  <2>2. CASE \E o \in Elems(todo[y]) : o.op = "insert"
    BY <1>1, <2>1, <2>2 DEF Entered
  <2>3. ASSUME NEW e \in timers, e.when = deadline[y], e.id = key[y], e.waker = waker[y]
        PROVE  InMap(y)'
    <3>1. h.op = "remove" => e.id # h.id
      BY <1>15, <2>1, <2>3
    <3>2. e \in timers'
      BY <1>7, <1>8, <1>9, <3>1
    <3>3. QED
      BY <1>1, <2>3, <3>2 DEF InMap
  <2>4. ASSUME NEW o \in Elems(timerOps), o.op = "insert",
               o.when = deadline[y], o.id = key[y], o.waker = waker[y]
        PROVE  InMap(y)'
    <3>1. CASE o \in Elems(timerOps')
      BY <1>1, <2>4, <3>1 DEF InMap
    <3>2. CASE o = h
      <4>1. n \in timers'
        BY <1>9, <2>4, <3>2
      <4>2. QED
        BY <1>1, <1>10, <2>4, <3>2, <4>1 DEF InMap
    <3>3. QED
      BY <1>4, <2>4, <3>1, <3>2
  <2>5. QED
    BY <1>1, <1>22, <2>1, <2>2, <2>3, <2>4 DEF Entered, InMap
<1>23. WaitInv'
  <2>1. waits \subseteq Owners
    BY <1>0 DEF PollShape
  <2>2. QED
    BY <1>0, <1>1, <1>22, <2>1 DEF WaitInv
<1>24. IdleInv'
  BY <1>0, <1>1 DEF IdleInv
<1>25. QED
  BY <1>13, <1>18, <1>19, <1>20, <1>21, <1>23, <1>24 DEF IInv, EntryInv

LEMMA SplitOffInv ==
    ASSUME IInv, SplitOff
    PROVE  IInv'
<1>0. /\ ShapeInv /\ KeyInv /\ TodoInv /\ QueueInv /\ LeakInv /\ WaitInv /\ IdleInv
      /\ ReactorShape /\ TimerShape /\ PollShape
  BY DEF IInv, EntryInv, ShapeInv
<1>1. UNCHANGED <<now, timerOps, kicked, kind, life, deadline, key, waker,
                  inner, last, lag, cur, polled, waits, woken, todo, full, moves>>
  BY DEF SplitOff, timerVars, pollVars
<1>2. /\ timers' = timers \ Due /\ collected' = collected \cup {e.waker : e \in Due}
      /\ tlock' = None /\ rounds' = 0 /\ rpc' \in {"wait", "wake"}
  BY DEF SplitOff
<1>3. ShapeInv'
  <2>1. {e.waker : e \in Due} \subseteq Wakers
    BY <1>0 DEF Due, ReactorShape, Entry
  <2>2. IsFiniteSet(timers')
    BY <1>0, <1>2, FS_Subset DEF ReactorShape
  <2>3. 0 \in 0..OpsCap
    OBVIOUS
  <2>4. ReactorShape'
    BY <1>0, <1>1, <1>2, <2>1, <2>2, <2>3 DEF ReactorShape
  <2>5. TimerShape' /\ PollShape'
    BY <1>0, <1>1 DEF TimerShape, PollShape
  <2>6. QED
    BY <2>4, <2>5 DEF ShapeInv
<1>4. RemovalIds' = RemovalIds /\ Leaving' = Leaving
  <2>1. Sent' = Sent
    BY <1>1 DEF Sent
  <2>2. QED
    BY <2>1 DEF RemovalIds, Leaving
<1>5. KeyInv'
  BY <1>0, <1>1 DEF KeyInv
<1>6. TodoInv'
  <2>1. {e.id : e \in timers'} \subseteq {e.id : e \in timers}
    BY <1>2
  <2>2. QED
    BY <1>0, <1>1, <1>4, <2>1, SMTT(30) DEF TodoInv, InsertLast
<1>7. QueueInv'
  BY <1>0, <1>1, <1>2 DEF QueueInv
<1>8. LeakInv'
  BY <1>0, <1>1, <1>2, <1>4 DEF LeakInv, Owned
<1>9. ASSUME NEW x \in Owners, Entered(x)
      PROVE  Entered(x)' \/ (deadline[x] < now /\ waker[x] \in collected')
  <2>1. CASE \E e \in Due : e.when = deadline[x] /\ e.id = key[x] /\ e.waker = waker[x]
    BY <1>2, <2>1 DEF Due
  <2>2. CASE ~\E e \in Due : e.when = deadline[x] /\ e.id = key[x] /\ e.waker = waker[x]
    BY <1>1, <1>2, <1>4, <1>9, <2>2 DEF Entered, InMap
  <2>3. QED
    BY <2>1, <2>2
<1>10. WaitInv'
  <2>1. waits \subseteq Owners /\ collected \subseteq collected'
    BY <1>0, <1>2 DEF PollShape
  <2>2. \A x \in Owners : now < deadline[x] => ~(deadline[x] < now)
    BY <1>0 DEF ReactorShape, TimerShape
  <2>3. QED
    BY <1>0, <1>1, <1>9, <2>1, <2>2 DEF WaitInv
<1>11. IdleInv'
  BY <1>0, <1>1 DEF IdleInv
<1>12. QED
  BY <1>3, <1>5, <1>6, <1>7, <1>8, <1>10, <1>11 DEF IInv, EntryInv

----------------------------------------------------------------------------
(* The theorems *)

LEMMA InitIInv == Init => IInv
<1> SUFFICES ASSUME Init PROVE IInv
  OBVIOUS
<1>1. \A x \in Owners : todo[x] = <<>> /\ Elems(todo[x]) = {}
  BY ElemsEmpty DEF Init
<1>2. Elems(timerOps) = {} /\ timerOps = <<>> /\ timers = {} /\ waits = {}
  BY ElemsEmpty DEF Init
<1>3. ReactorShape
  <2>1. IsFiniteSet(timers)
    BY <1>2, FS_EmptySet
  <2>2. timerOps \in Seq(Insertions \cup Removals) /\ Len(timerOps) <= OpsCap
    BY <1>2
  <2>3. 0 \in 0..MaxNow /\ 0 \in 0..OpsCap
    OBVIOUS
  <2>4. QED
    BY <2>1, <2>2, <2>3 DEF Init, ReactorShape
<1>4. TimerShape
  BY DEF Init, TimerShape
<1>5. PollShape
  BY DEF Init, PollShape
<1>6. KeyInv
  BY <1>2 DEF Init, KeyInv
<1>7. TodoInv
  BY <1>1, ShortOps DEF TodoInv
<1>8. QueueInv
  BY <1>2 DEF QueueInv
<1>9. LeakInv
  BY <1>2 DEF LeakInv
<1>10. WaitInv
  BY <1>2 DEF Init, WaitInv
<1>11. IdleInv
  BY DEF Init, IdleInv
<1>12. QED
  BY <1>3, <1>4, <1>5, <1>6, <1>7, <1>8, <1>9, <1>10, <1>11 DEF IInv, ShapeInv, EntryInv

LEMMA NextIInv == IInv /\ [Next]_vars => IInv'
<1> SUFFICES ASSUME IInv, [Next]_vars PROVE IInv'
  OBVIOUS
<1>1. ASSUME NEW x \in Owners, NEW when \in now..MaxNow, Create(x, when) PROVE IInv'
  BY <1>1, CreateInv
<1>0. ASSUME NEW x \in Owners, Open(x) PROVE IInv'
  BY <1>0, OpenInv
<1>2. ASSUME NEW x \in Owners, NEW when \in now..MaxNow, Reset(x, when) PROVE IInv'
  BY <1>2, ResetInv
<1>3. ASSUME NEW x \in Owners, NEW w \in Wakers, Poll(x, w) PROVE IInv'
  BY <1>3, PollInnerInv, PollElapsedInv, PollTickInv, PollPendingInv DEF Poll
<1>4. ASSUME NEW x \in Owners, Drop(x) PROVE IInv'
  BY <1>4, DropInv
<1>5. ASSUME NEW x \in Owners, InnerReady(x) PROVE IInv'
  BY <1>5, TickInv
<1>6. ASSUME NEW th \in Owners \cup {Reactor, Other}, DrainStep(th) PROVE IInv'
  BY <1>6, LockInv, ProcessOpInv DEF DrainStep
<1>7. ASSUME NEW x \in Owners, OwnerStep(x) PROVE IInv'
  BY <1>6, <1>7, SendOpInv, NotifyInv, IdleCheckInv DEF OwnerStep
<1>8. ASSUME OtherSends \/ DrainStep(Other) PROVE IInv'
  BY <1>6, <1>8, OtherSendsInv
<1>9. ASSUME ReactStep PROVE IInv'
  BY <1>9, ReactInv, LockInv, ProcessOpInv, SplitOffInv, WakeInv DEF ReactStep
<1>10. CASE WaitEvents
  BY <1>10, ReactInv
<1>11. CASE Tick
  BY <1>11, TickInv
<1>12. CASE UNCHANGED vars
  <2>1. UNCHANGED <<now, timerOps, timers, tlock, rounds, rpc, kicked, collected, kind, life,
                    deadline, key, waker, last, lag, inner, cur, polled, waits, woken, todo, full,
                    moves>>
    BY <1>12 DEF vars
  <2>2. ReactorShape /\ TimerShape /\ PollShape
    BY DEF IInv, ShapeInv
  <2>3. ReactorShape' /\ TimerShape' /\ PollShape'
    BY <2>1, <2>2 DEF ReactorShape, TimerShape, PollShape
  <2>4. ShapeInv' /\ now <= now'
    BY <2>1, <2>2, <2>3 DEF ShapeInv, ReactorShape
  <2>5. QED
    BY <2>1, <2>4, StillInv
<1>13. QED
  BY <1>0, <1>1, <1>2, <1>3, <1>4, <1>5, <1>7, <1>8, <1>9, <1>10, <1>11, <1>12 DEF Next

\* The invariant holds in every reachable state of the timers.
THEOREM TimersInvariant == Spec => []IInv
BY InitIInv, NextIInv, PTL DEF Spec

\* Every variable keeps its type, no two entries of the map share an id, and the
\* queue of Reactor::insert_timer and remove_timer stays within its capacity.
THEOREM TimersTypeCorrect == Spec => []TypeOK
<1>1. ASSUME IInv PROVE TypeOK
  <2>1. ReactorShape /\ TimerShape /\ PollShape /\ QueueInv
    BY <1>1 DEF IInv, ShapeInv, EntryInv
  <2>2. QED
    BY <2>1 DEF TypeOK, ReactorShape, TimerShape, PollShape, QueueInv
<1>2. IInv => TypeOK
  BY <1>1
<1>3. QED
  BY <1>2, TimersInvariant, PTL

\* No pending future loses its timer: Timer::poll_timeout, reset and react() leave
\* it in the map, on its way there, or about to be woken.
THEOREM WaitersAlwaysEntered == Spec => []WaitersEntered
<1>1. ASSUME IInv PROVE WaitersEntered
  <2>0. ReactorShape /\ TimerShape /\ PollShape /\ WaitInv
    BY <1>1 DEF IInv, ShapeInv
  <2>1. ASSUME NEW x \in waits, Free(x), x \notin woken, cur[x] \notin collected
        PROVE  [when |-> deadline[x], id |-> key[x], waker |-> cur[x]] \in Entries
    <3> DEFINE r == [when |-> deadline[x], id |-> key[x], waker |-> cur[x]]
               put == timers \cup {[when |-> o.when, id |-> o.id, waker |-> o.waker] :
                                      o \in {p \in Elems(timerOps) : p.op = "insert"}}
    <3>1. x \in Owners /\ Entered(x) /\ cur[x] = waker[x]
      BY <2>0, <2>1 DEF WaitInv, PollShape
    <3>2. InMap(x) /\ key[x] \notin RemovalIds
      <4>1. Elems(todo[x]) = {}
        BY <2>1, ElemsEmpty DEF Free
      <4>2. QED
        BY <3>1, <4>1 DEF Entered
    <3>3. ASSUME NEW e \in timers, e.when = deadline[x], e.id = key[x], e.waker = waker[x]
          PROVE  r \in put
      <4>1. e \in Entry
        BY <2>0 DEF ReactorShape
      <4>2. e = r
        BY <3>1, <3>3, <4>1 DEF Entry
      <4>3. QED
        BY <4>2
    <3>4. ASSUME NEW o \in Elems(timerOps), o.op = "insert",
                 o.when = deadline[x], o.id = key[x], o.waker = waker[x]
          PROVE  r \in put
      BY <3>1, <3>4
    <3>5. r \in put
      BY <3>2, <3>3, <3>4 DEF InMap
    <3>6. <<r.when, r.id>> \notin Leaving
      <4>1. r.id = key[x]
        OBVIOUS
      <4>2. \A when, id : <<when, id>> \in Leaving => id \in RemovalIds
        BY DEF Leaving, RemovalIds
      <4>3. QED
        BY <3>2, <4>1, <4>2
    <3>7. Entries = {e \in put : <<e.when, e.id>> \notin Leaving}
      BY DEF Entries, Leaving, Sent
    <3>8. QED
      BY <3>5, <3>6, <3>7
  <2>2. QED
    BY <2>1 DEF WaitersEntered
<1>2. IInv => WaitersEntered
  BY <1>1
<1>3. QED
  BY <1>2, TimersInvariant, PTL

\* No entry outlives its Timer: what reset, a poll with another waker and drop
\* replace is removed, in whatever order the operations are applied.
THEOREM TimersNothingLeaks == Spec => []NothingLeaks
<1>1. ASSUME IInv PROVE NothingLeaks
  <2>0. ReactorShape /\ LeakInv
    BY <1>1 DEF IInv, ShapeInv, EntryInv
  <2>1. ASSUME NEW e \in Entries
        PROVE  \E x \in Owners :
                  /\ life[x] \in {"live", "done"}
                  /\ e = [when |-> deadline[x], id |-> key[x], waker |-> waker[x]]
    <3> DEFINE put == timers \cup {[when |-> o.when, id |-> o.id, waker |-> o.waker] :
                                      o \in {p \in Elems(timerOps) : p.op = "insert"}}
    <3>1. Entries = {f \in put : <<f.when, f.id>> \notin Leaving}
      BY DEF Entries, Leaving, Sent
    <3>2. e \in put /\ <<e.when, e.id>> \notin Leaving
      BY <2>1, <3>1
    <3>3. CASE e \in timers
      <4>1. Owned(e.when, e.id, e.waker) /\ e \in Entry
        BY <2>0, <3>2, <3>3 DEF LeakInv, ReactorShape
      <4>2. e = [when |-> e.when, id |-> e.id, waker |-> e.waker]
        BY <4>1 DEF Entry
      <4>3. PICK x \in Owners : /\ life[x] \in {"live", "done"}
                                /\ e.when = deadline[x] /\ e.id = key[x] /\ e.waker = waker[x]
        BY <4>1 DEF Owned
      <4>4. e = [when |-> deadline[x], id |-> key[x], waker |-> waker[x]]
        BY <4>2, <4>3
      <4>5. QED
        BY <4>3, <4>4
    <3>4. ASSUME NEW o \in Elems(timerOps), o.op = "insert",
                 e = [when |-> o.when, id |-> o.id, waker |-> o.waker]
          PROVE  \E x \in Owners :
                    /\ life[x] \in {"live", "done"}
                    /\ e = [when |-> deadline[x], id |-> key[x], waker |-> waker[x]]
      <4>1. e.when = o.when /\ e.id = o.id
        BY <3>4
      <4>2. Owned(o.when, o.id, o.waker)
        BY <2>0, <3>2, <3>4, <4>1 DEF LeakInv
      <4>3. PICK x \in Owners : /\ life[x] \in {"live", "done"}
                                /\ o.when = deadline[x] /\ o.id = key[x] /\ o.waker = waker[x]
        BY <4>2 DEF Owned
      <4>4. e = [when |-> deadline[x], id |-> key[x], waker |-> waker[x]]
        BY <3>4, <4>3
      <4>5. QED
        BY <4>3, <4>4
    <3>5. QED
      BY <3>2, <3>3, <3>4
  <2>2. QED
    BY <2>1 DEF NothingLeaks
<1>2. IInv => NothingLeaks
  BY <1>1
<1>3. QED
  BY <1>2, TimersInvariant, PTL

\* The arithmetic of the leeway
LEMMA Leeway ==
    ASSUME NEW t \in Nat, NEW due \in Nat, NEW v \in Nat, NEW p \in Nat, NEW g \in Nat,
           NEW i \in Nat, NEW c \in Nat, due <= t, due + g = v + i, p - v < c \/ p <= v
    PROVE  t - p + g > i - c \/ t - p + g >= i
OBVIOUS

\* IdleTimeout::poll: no future that was polled within the leeway is given up,
\* whichever polls moved the deadline and whichever left it, but for the time that
\* IdleTimeout::new took between its two readings of the clock.
THEOREM IdleNeverEarly == Spec => IdleNotEarly
<1>1. ASSUME IInv, [Next]_vars, NEW x \in Owners, kind[x] = "idle", life[x] = "live",
             life'[x] = "done", x \notin inner
      PROVE  \/ now - polled[x] + lag[x] > Idle - Check
             \/ now - polled[x] + lag[x] >= Idle
  <2>0. ReactorShape /\ TimerShape /\ PollShape /\ IdleInv
    BY <1>1 DEF IInv, ShapeInv
  <2>1. life \in [Owners -> {"new", "opening", "live", "done", "dropped"}]
    BY <2>0 DEF TimerShape
  <2>2. \E w \in Wakers : PollElapsed(x, w)
    <3>1. ~UNCHANGED life
      BY <1>1
    <3>2. \A y \in Owners, when \in now..MaxNow : ~Create(y, when)
      BY <1>1, <2>1 DEF Create
    <3>3. \A y \in Owners, when \in now..MaxNow : ~Reset(y, when)
      BY <3>1 DEF Reset
    <3>4. \A y \in Owners : ~Drop(y) /\ ~Open(y)
      BY <1>1, <2>1 DEF Drop, Open
    <3>5. \A th : ~DrainStep(th)
      BY <3>1 DEF DrainStep, LockTimers, ProcessOp, Unlock, timerVars
    <3>6. \A y \in Owners : ~InnerReady(y) /\ ~OwnerStep(y)
      BY <3>1, <3>5 DEF InnerReady, OwnerStep, SendOp, Notify, IdleCheck, timerVars
    <3>7. ~OtherSends /\ ~WaitEvents /\ ~Tick
      BY <3>1 DEF OtherSends, WaitEvents, Tick, timerVars
    <3>8. ~ReactStep
      BY <3>1, <3>5 DEF ReactStep, React, SplitOff, WaitEnds, Wake, DrainStep, timerVars
    <3>9. Next
      BY <1>1, <3>1 DEF vars
    <3>10. PICK y \in Owners, w \in Wakers : Poll(y, w)
      BY <3>2, <3>3, <3>4, <3>5, <3>6, <3>7, <3>8, <3>9 DEF Next
    <3>11. ~PollInner(y, w)
      BY <1>1, <2>1 DEF PollInner
    <3>12. ~PollTick(y, w) /\ ~PollPending(y, w)
      BY <3>1 DEF PollTick, PollPending
    <3>13. PollElapsed(y, w)
      BY <3>10, <3>11, <3>12 DEF Poll
    <3>14. y = x
      BY <1>1, <2>1, <3>13 DEF PollElapsed
    <3>15. QED
      BY <3>13, <3>14
  <2>3. deadline[x] <= now /\ todo[x] = <<>>
    BY <2>2 DEF PollElapsed, Expired, Polling, Free
  <2>4. Elems(todo[x]) = {}
    BY <2>3, ElemsEmpty
  <2>5. deadline[x] + lag[x] = last[x] + Idle /\ (polled[x] - last[x] < Check \/ polled[x] <= last[x])
    BY <1>1, <2>0, <2>4 DEF IdleInv
  <2>6. deadline[x] \in Nat /\ now \in Nat /\ last[x] \in Nat /\ lag[x] \in Nat /\ polled[x] \in Nat
    BY <2>0 DEF ReactorShape, TimerShape, PollShape
  <2>7. Idle \in Nat /\ Check \in Nat
    OBVIOUS
  <2>8. QED
    BY <2>3, <2>5, <2>6, <2>7, Leeway
<1>2. IInv /\ [Next]_vars =>
         [\A x \in Owners :
             kind[x] = "idle" /\ life[x] = "live" /\ life'[x] = "done" /\ x \notin inner =>
                 LET leeway == now - polled[x] + lag[x]
                 IN  leeway > Idle - Check \/ leeway >= Idle]_vars
  BY <1>1
<1>3. QED
  BY <1>2, TimersInvariant, PTL DEF Spec, IdleNotEarly
=============================================================================
