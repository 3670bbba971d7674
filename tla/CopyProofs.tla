----------------------------- MODULE CopyProofs -----------------------------
(***************************************************************************)
(* Proofs about copy_bidirectional, for every size of the buffers and of    *)
(* the connections, any number of bytes, and writers that keep bytes back   *)
(* or not: it implements a pair of pipes, and a task that waits has left    *)
(* its waker wherever it can go on.                                         *)
(***************************************************************************)
EXTENDS Copy, SequenceTheorems, TLAPS

----------------------------------------------------------------------------
(* The inductive invariant *)

Byte == 1..MaxBytes

\* The types of the copy ...
CopyShape ==
    /\ state \in [Dirs -> {"Running", "Close", "Done"}]
    /\ readDone \in [Dirs -> BOOLEAN]
    /\ needFlush \in [Dirs -> BOOLEAN]
    /\ pos \in [Dirs -> 0..BufSize]
    /\ cap \in [Dirs -> 0..BufSize]
    /\ amt \in [Dirs -> Nat]
    /\ buf \in [Dirs -> [1..BufSize -> 0..MaxBytes]]

\* ... of the task ...
TaskShape ==
    /\ task \in {"asleep", "poll", "done", "failed"}
    /\ cur \in Dirs
    /\ flushing \in BOOLEAN
    /\ woken \in BOOLEAN
    /\ reg \subseteq Dirs \X {"reader", "writer"}

\* ... and of the streams.
StreamShape ==
    /\ ended \subseteq Dirs
    /\ closed \subseteq Dirs
    /\ inbox \in [Dirs -> Seq(Byte)]
    /\ kept \in [Dirs -> Seq(Byte)]
    /\ sock \in [Dirs -> Seq(Byte)]
    /\ got \in [Dirs -> Seq(Byte)]
    /\ sent \in [Dirs -> Nat]

ShapeInv == CopyShape /\ TaskShape /\ StreamShape

\* The part of the buffer that is still to be written holds bytes of the reader,
\* and the writer and the connection stay within their capacities.
BufInv(d) ==
    /\ pos[d] <= cap[d]
    /\ \A i \in (pos[d] + 1)..cap[d] : buf[d][i] \in Byte
    /\ Len(kept[d]) <= KeepCap
    /\ Len(sock[d]) <= SockCap
    /\ d \notin Buffered => kept[d] = <<>>

\* What has been reached at each TransferState.
StateInv(d) ==
    /\ state[d] = "Done" <=> d \in closed
    /\ state[d] # "Running" => readDone[d] /\ kept[d] = <<>>
    /\ readDone[d] => d \in ended /\ inbox[d] = <<>> /\ pos[d] = cap[d]

\* Every byte is somewhere, and amt counts those the writer has taken.
CountInv(d) ==
    /\ amt[d] = Len(got[d]) + Len(sock[d]) + Len(kept[d])
    /\ sent[d] = Len(inbox[d]) + (cap[d] - pos[d]) + amt[d]

DirInv == \A d \in Dirs : BufInv(d) /\ StateInv(d) /\ CountInv(d)

\* The peers: B sends back what it has received, and ends when that is all.
EchoInv ==
    /\ sent["ab"] <= MaxBytes
    /\ sent["ba"] <= Len(got["ab"])
    /\ "ba" \in ended => /\ "ab" \in closed
                         /\ sock["ab"] = <<>>
                         /\ sent["ba"] = Len(got["ab"])

\* Direction d has left the waker where it can go on.
Waits(d) ==
    state[d] # "Done" =>
        /\ pos[d] < cap[d] \/ readDone[d] \/ needFlush[d] => <<d, "writer">> \in reg
        /\ pos[d] = cap[d] /\ ~readDone[d] => <<d, "reader">> \in reg

\* A poll goes from "ab" to "ba"; a direction it has left waits, unless the task
\* has been woken meanwhile.
PollInv ==
    /\ task = "asleep" => cur = "ab" /\ ~flushing
    /\ task = "poll" /\ flushing =>
          /\ state[cur] = "Running"
          /\ pos[cur] = cap[cur]
          /\ ~readDone[cur]
          /\ woken \/ <<cur, "reader">> \in reg
    /\ task = "asleep" /\ ~woken => Waits("ab") /\ Waits("ba")
    /\ task = "poll" /\ cur = "ba" /\ ~woken => Waits("ab")

IInv == ShapeInv /\ DirInv /\ EchoInv /\ PollInv

USE BoundsAssumption DEF Dirs

----------------------------------------------------------------------------
(* Frames *)

\* A step leaves direction e alone.
SameDir(e) ==
    /\ state'[e] = state[e] /\ readDone'[e] = readDone[e] /\ needFlush'[e] = needFlush[e]
    /\ pos'[e] = pos[e] /\ cap'[e] = cap[e] /\ amt'[e] = amt[e] /\ buf'[e] = buf[e]
    /\ inbox'[e] = inbox[e] /\ kept'[e] = kept[e] /\ sock'[e] = sock[e]
    /\ got'[e] = got[e] /\ sent'[e] = sent[e]
    /\ e \in ended' <=> e \in ended
    /\ e \in closed' <=> e \in closed

LEMMA DirFrame ==
    ASSUME DirInv, NEW d \in Dirs, BufInv(d)', StateInv(d)', CountInv(d)',
           \A e \in Dirs : e # d => SameDir(e)
    PROVE  DirInv'
<1> SUFFICES ASSUME NEW e \in Dirs, e # d PROVE BufInv(e)' /\ StateInv(e)' /\ CountInv(e)'
  BY DEF DirInv
<1>1. SameDir(e) /\ BufInv(e) /\ StateInv(e) /\ CountInv(e)
  BY DEF DirInv
<1>2. BufInv(e)'
  BY <1>1 DEF SameDir, BufInv
<1>3. StateInv(e)'
  BY <1>1 DEF SameDir, StateInv
<1>4. CountInv(e)'
  BY <1>1 DEF SameDir, CountInv
<1>5. QED
  BY <1>2, <1>3, <1>4

\* The copy neither sends nor receives, and passes nothing on after a close.
LEMMA EchoFrame ==
    ASSUME EchoInv, UNCHANGED <<sent, got, ended>>, closed \subseteq closed',
           \A e \in closed : sock'[e] = sock[e]
    PROVE  EchoInv'
BY DEF EchoInv

\* A call that did not end the turn of direction d.
LEMMA PollFrame ==
    ASSUME PollInv, NEW d \in Dirs, task = "poll", cur = d, ~flushing, Same,
           UNCHANGED <<woken, reg>>, \A e \in Dirs : e # d => SameDir(e)
    PROVE  PollInv'
<1>1. task' = "poll" /\ cur' = d /\ ~flushing' /\ woken' = woken /\ reg' = reg
  BY DEF Same
<1>2. d = "ba" /\ Waits("ab") => Waits("ab")'
  BY <1>1 DEF Waits, SameDir
<1>3. QED
  BY <1>1, <1>2 DEF PollInv

\* A call that did: the direction has left its waker.
LEMMA TurnFrame ==
    ASSUME PollInv, NEW d \in Dirs, task = "poll", cur = d, NextDirection(d),
           UNCHANGED woken, reg \subseteq reg', woken \/ Waits(d)',
           \A e \in Dirs : e # d => SameDir(e)
    PROVE  PollInv'
<1>1. CASE d = "ab"
  <2>1. task' = "poll" /\ cur' = "ba" /\ flushing' = FALSE
    BY <1>1 DEF NextDirection, Follows
  <2>2. QED
    BY <1>1, <2>1 DEF PollInv
<1>2. CASE d = "ba"
  <2>1. task' \in {"done", "asleep"} /\ cur' = "ab" /\ flushing' = FALSE
    BY <1>2 DEF NextDirection, Follows
  <2>2. ~woken => Waits("ab")'
    <3>1. SameDir("ab") /\ (~woken => Waits("ab"))
      BY <1>2 DEF PollInv
    <3>2. QED
      BY <3>1 DEF Waits, SameDir
  <2>3. QED
    BY <1>2, <2>1, <2>2 DEF PollInv
<1>3. QED
  BY <1>1, <1>2

\* A waker that is taken away has been called.
LEMMA PeerFrame ==
    ASSUME PollInv, TaskShape, NEW d \in Dirs, NEW side, Ready(d, side),
           UNCHANGED <<copyVars, task, cur, flushing>>
    PROVE  PollInv' /\ TaskShape'
<1>1. woken' \in BOOLEAN /\ TaskShape'
  BY DEF Ready, TaskShape
<1>2. ~woken' => ~woken /\ reg' = reg
  BY DEF Ready, TaskShape
<1>3. UNCHANGED <<state, readDone, pos, cap, needFlush>>
  BY DEF copyVars
<1>4. ~woken' => \A e \in Dirs : Waits(e) => Waits(e)'
  BY <1>2, <1>3 DEF Waits
<1>5. QED
  BY <1>1, <1>2, <1>3, <1>4 DEF PollInv

----------------------------------------------------------------------------
(* CopyBuffer::poll_copy *)

LEMMA ReadStep ==
    ASSUME IInv, NEW d \in Dirs, Read(d)
    PROVE  IInv'
<1>0. ShapeInv /\ CopyShape /\ TaskShape /\ StreamShape /\ DirInv /\ EchoInv /\ PollInv
  BY DEF IInv, ShapeInv
<1>1. PICK n \in 1..Least(BufSize, Len(inbox[d])) :
          /\ PollRead(d, n)
          /\ pos' = [pos EXCEPT ![d] = 0]
          /\ cap' = [cap EXCEPT ![d] = n]
  BY DEF Read
<1>2. /\ inbox[d] \in Seq(Byte) /\ Len(inbox[d]) \in Nat
      /\ n \in Nat /\ n <= BufSize /\ n <= Len(inbox[d])
  BY <1>0, <1>1, LenProperties DEF StreamShape, Least
<1>3. /\ SubSeq(inbox[d], n + 1, Len(inbox[d])) \in Seq(Byte)
      /\ Len(SubSeq(inbox[d], n + 1, Len(inbox[d]))) = Len(inbox[d]) - n
  BY <1>2
<1>4. \A i \in 1..n : inbox[d][i] \in Byte
  BY <1>2
<1> DEFINE b == [i \in 1..BufSize |-> IF i <= n THEN inbox[d][i] ELSE buf[d][i]]
           rest == SubSeq(inbox[d], n + 1, Len(inbox[d]))
<1>5. buf' = [buf EXCEPT ![d] = b] /\ inbox' = [inbox EXCEPT ![d] = rest]
  BY <1>1 DEF PollRead
<1>6. b \in [1..BufSize -> 0..MaxBytes] /\ \A i \in 1..n : b[i] \in Byte
  <2>1. buf[d] \in [1..BufSize -> 0..MaxBytes]
    BY <1>0 DEF CopyShape
  <2>2. \A i \in 1..n : i \in 1..BufSize /\ inbox[d][i] \in Byte
    BY <1>2, <1>4
  <2>3. \A x \in Byte : x \in 0..MaxBytes
    BY DEF Byte
  <2>4. \A i \in 1..BufSize : i <= n => i \in 1..n
    BY <1>2
  <2>5. ASSUME NEW i \in 1..BufSize
        PROVE  (IF i <= n THEN inbox[d][i] ELSE buf[d][i]) \in 0..MaxBytes
    BY <2>1, <2>2, <2>3, <2>4
  <2>6. b \in [1..BufSize -> 0..MaxBytes]
    BY <2>5
  <2>7. \A i \in 1..n : b[i] = inbox[d][i]
    BY <1>2, <2>2
  <2> HIDE DEF b
  <2>8. QED
    BY <2>2, <2>6, <2>7
<1> HIDE DEF b, rest
<1>7. /\ UNCHANGED <<state, readDone, amt, needFlush, woken, reg, ended, got, sent>>
      /\ UNCHANGED <<kept, sock, closed>> /\ Same
      /\ task = "poll" /\ cur = d /\ state[d] = "Running" /\ ~flushing
      /\ pos[d] = cap[d] /\ ~readDone[d]
  BY DEF Read, sinkVars, AtRead, At
<1>8. /\ buf'[d] = b /\ inbox'[d] = rest /\ pos'[d] = 0 /\ cap'[d] = n
      /\ \A e \in Dirs : e # d => SameDir(e)
  BY <1>0, <1>1, <1>5, <1>7 DEF CopyShape, StreamShape, SameDir
<1>9. ShapeInv'
  <2>1. CopyShape'
    BY <1>0, <1>1, <1>2, <1>5, <1>6, <1>7 DEF CopyShape
  <2>2. inbox' \in [Dirs -> Seq(Byte)]
    BY <1>0, <1>3, <1>5 DEF StreamShape, rest
  <2>3. StreamShape'
    BY <1>0, <1>7, <2>2 DEF StreamShape
  <2>4. TaskShape'
    BY <1>0, <1>7 DEF TaskShape, Same
  <2>5. QED
    BY <2>1, <2>3, <2>4 DEF ShapeInv
<1>10. BufInv(d) /\ StateInv(d) /\ CountInv(d)
  BY <1>0 DEF DirInv
<1>11. BufInv(d)'
  BY <1>2, <1>6, <1>7, <1>8, <1>10 DEF BufInv
<1>12. StateInv(d)'
  BY <1>7, <1>10 DEF StateInv
<1>13. CountInv(d)'
  <2>1. amt[d] \in Nat /\ cap[d] \in Nat /\ pos[d] \in Nat
    BY <1>0 DEF CopyShape
  <2>2. Len(inbox'[d]) = Len(inbox[d]) - n
    BY <1>3, <1>8 DEF rest
  <2>3. amt[d] = Len(got[d]) + Len(sock[d]) + Len(kept[d]) /\ sent[d] = Len(inbox[d]) + amt[d]
    <3>1. cap[d] - pos[d] = 0
      BY <1>7, <2>1
    <3>2. /\ amt[d] = Len(got[d]) + Len(sock[d]) + Len(kept[d])
          /\ sent[d] = Len(inbox[d]) + (cap[d] - pos[d]) + amt[d]
      BY <1>10 DEF CountInv
    <3>3. Len(inbox[d]) + (cap[d] - pos[d]) + amt[d] = Len(inbox[d]) + amt[d]
      BY <1>2, <2>1, <3>1
    <3>4. QED
      BY <3>2, <3>3
  <2>4. Len(inbox'[d]) + (cap'[d] - pos'[d]) + amt'[d] = Len(inbox[d]) + amt[d]
    BY <1>2, <1>7, <1>8, <2>1, <2>2
  <2>5. QED
    BY <1>7, <2>3, <2>4 DEF CountInv
<1>14. DirInv'
  BY <1>0, <1>8, <1>11, <1>12, <1>13, DirFrame
<1>15. EchoInv'
  BY <1>0, <1>7, EchoFrame
<1>16. PollInv'
  BY <1>0, <1>7, <1>8, PollFrame
<1>17. QED
  BY <1>9, <1>14, <1>15, <1>16 DEF IInv

LEMMA ReadEndStep ==
    ASSUME IInv, NEW d \in Dirs, ReadEnd(d)
    PROVE  IInv'
<1>0. ShapeInv /\ CopyShape /\ TaskShape /\ StreamShape /\ DirInv /\ EchoInv /\ PollInv
  BY DEF IInv, ShapeInv
<1>1. /\ UNCHANGED <<state, pos, cap, amt, needFlush, buf, woken, reg>>
      /\ UNCHANGED <<inbox, ended, got, sent, kept, sock, closed>> /\ Same
      /\ task = "poll" /\ cur = d /\ state[d] = "Running" /\ ~flushing
      /\ pos[d] = cap[d] /\ inbox[d] = <<>> /\ d \in ended
      /\ readDone' = [readDone EXCEPT ![d] = TRUE]
  BY DEF ReadEnd, peerVars, sinkVars, AtRead, At
<1>2. readDone' \in [Dirs -> BOOLEAN] /\ readDone'[d]
      /\ \A e \in Dirs : e # d => readDone'[e] = readDone[e]
  BY <1>0, <1>1 DEF CopyShape
<1>3. \A e \in Dirs : e # d => SameDir(e)
  BY <1>1, <1>2 DEF SameDir
<1>4. CopyShape'
  BY <1>0, <1>1, <1>2 DEF CopyShape
<1>5. StreamShape' /\ TaskShape'
  BY <1>0, <1>1 DEF StreamShape, TaskShape, Same
<1>6. BufInv(d) /\ StateInv(d) /\ CountInv(d)
  BY <1>0 DEF DirInv
<1>7. BufInv(d)' /\ CountInv(d)'
  BY <1>1, <1>6 DEF BufInv, CountInv
<1>8. StateInv(d)'
  BY <1>1, <1>2, <1>6 DEF StateInv
<1>9. DirInv'
  BY <1>0, <1>3, <1>7, <1>8, DirFrame
<1>10. EchoInv'
  BY <1>0, <1>1, EchoFrame
<1>11. PollInv'
  BY <1>0, <1>1, <1>3, PollFrame
<1>12. QED
  BY <1>4, <1>5, <1>9, <1>10, <1>11 DEF IInv, ShapeInv

\* A step that only leaves a waker behind, or goes on to the flush.
LEMMA PendingStep ==
    ASSUME IInv, NEW d \in Dirs, ReadPending(d) \/ WritePending(d)
    PROVE  IInv'
<1>0. ShapeInv /\ CopyShape /\ TaskShape /\ StreamShape /\ DirInv /\ EchoInv /\ PollInv
  BY DEF IInv, ShapeInv
<1> DEFINE side == IF pos[d] = cap[d] THEN "reader" ELSE "writer"
<1>1. /\ UNCHANGED <<state, readDone, pos, cap, amt, needFlush, buf, woken>>
      /\ UNCHANGED <<inbox, ended, got, sent, kept, sock, closed>>
      /\ task = "poll" /\ cur = d /\ state[d] = "Running"
      /\ reg' = reg \cup {<<d, side>>}
  <2>1. CASE ReadPending(d)
    BY <2>1 DEF ReadPending, Pending, copyVars, peerVars, sinkVars, AtRead, At
  <2>2. CASE WritePending(d)
    <3>1. pos[d] # cap[d]
      BY <2>2, <1>0 DEF WritePending, AtWrite, CopyShape
    <3>2. QED
      BY <2>2, <3>1 DEF WritePending, Pending, copyVars, peerVars, sinkVars, AtWrite, At
  <2>3. QED
    BY <2>1, <2>2
<1>2. \A e \in Dirs : SameDir(e)
  BY <1>1 DEF SameDir
<1>3. CopyShape' /\ StreamShape'
  BY <1>0, <1>1 DEF CopyShape, StreamShape
<1>4. TaskShape'
  <2>1. task' \in {"asleep", "poll", "done"} /\ cur' \in Dirs /\ flushing' \in BOOLEAN
    BY <1>0, <1>1 DEF ReadPending, WritePending, NextDirection, TaskShape
  <2>2. reg' \subseteq Dirs \X {"reader", "writer"}
    BY <1>0, <1>1 DEF TaskShape
  <2>3. QED
    BY <1>0, <1>1, <2>1, <2>2 DEF TaskShape
<1>5. BufInv(d)' /\ CountInv(d)' /\ StateInv(d)'
  BY <1>0, <1>1 DEF DirInv, BufInv, CountInv, StateInv
<1>6. DirInv'
  BY <1>0, <1>2, <1>5, DirFrame
<1>7. EchoInv'
  BY <1>0, <1>1, EchoFrame
<1>8. PollInv'
  <2>1. CASE /\ ReadPending(d) /\ needFlush[d]
             /\ flushing' = TRUE /\ UNCHANGED <<task, cur, counts>>
    <3>1. pos[d] = cap[d] /\ ~readDone[d] /\ <<d, "reader">> \in reg'
      BY <1>1, <2>1 DEF ReadPending, AtRead
    <3>2. d = "ba" /\ ~woken => Waits("ab")'
      BY <1>0, <1>1 DEF PollInv, Waits
    <3>3. QED
      BY <1>1, <2>1, <3>1, <3>2 DEF PollInv
  <2>2. CASE ReadPending(d) /\ ~needFlush[d] /\ NextDirection(d)
    <3>1. Waits(d)'
      BY <1>0, <1>1, <2>2 DEF ReadPending, AtRead, Waits, CopyShape
    <3>2. QED
      BY <1>0, <1>1, <1>2, <2>2, <3>1, TurnFrame
  <2>3. CASE WritePending(d)
    <3>1. pos[d] # cap[d]
      BY <2>3, <1>0 DEF WritePending, AtWrite, CopyShape
    <3>2. Waits(d)'
      BY <1>1, <3>1 DEF Waits
    <3>3. QED
      BY <1>0, <1>1, <1>2, <2>3, <3>2, TurnFrame DEF WritePending
  <2>4. QED
    BY <2>1, <2>2, <2>3 DEF ReadPending
<1>9. QED
  BY <1>3, <1>4, <1>6, <1>7, <1>8 DEF IInv, ShapeInv

\* The bytes of the buffer that are still to be written
LEMMA SliceFacts ==
    ASSUME IInv, NEW d \in Dirs
    PROVE  /\ Slice(d) \in Seq(Byte) /\ Len(Slice(d)) = cap[d] - pos[d]
           /\ \A i \in 1..(cap[d] - pos[d]) : Slice(d)[i] = buf[d][pos[d] + i]
<1>1. /\ buf[d] \in [1..BufSize -> 0..MaxBytes] /\ pos[d] \in Nat /\ cap[d] \in Nat
      /\ cap[d] <= BufSize /\ pos[d] <= cap[d]
      /\ \A i \in (pos[d] + 1)..cap[d] : buf[d][i] \in Byte
  BY DEF IInv, ShapeInv, CopyShape, DirInv, BufInv
<1>2. buf[d] \in Seq(0..MaxBytes) /\ Len(buf[d]) = BufSize
  BY <1>1
<1> DEFINE b == buf[d]
           p == pos[d]
           c == cap[d]
           s == SubSeq(b, p + 1, c)
<1> HIDE DEF b, p, c
<1>3. /\ b \in Seq(0..MaxBytes) /\ Len(b) = BufSize /\ p \in Nat /\ c \in Nat
      /\ c <= BufSize /\ p <= c /\ \A i \in (p + 1)..c : b[i] \in Byte
  BY <1>1, <1>2 DEF b, p, c
<1>4. /\ s \in Seq(0..MaxBytes) /\ Len(s) = c - p
      /\ \A i \in 1..(c - p) : s[i] = b[p + i]
  BY <1>3
<1> HIDE DEF s
<1>5. \A i \in 1..Len(s) : s[i] \in Byte
  <2> TAKE i \in 1..Len(s)
  <2>1. p + i \in (p + 1)..c
    BY <1>3, <1>4
  <2>2. QED
    BY <1>3, <1>4, <2>1
<1>6. s \in [1..Len(s) -> Byte] /\ Len(s) \in Nat
  BY <1>3, <1>4, <1>5
<1>7. s \in Seq(Byte)
  BY <1>6
<1>8. s = Slice(d)
  BY DEF s, b, p, c, Slice
<1>9. QED
  BY <1>4, <1>7, <1>8 DEF b, p, c

\* Cutting a sequence in two
LEMMA Cut ==
    ASSUME NEW S, NEW s \in Seq(S), NEW n \in 0..Len(s)
    PROVE  /\ SubSeq(s, 1, n) \in Seq(S) /\ Len(SubSeq(s, 1, n)) = n
           /\ \A i \in 1..n : SubSeq(s, 1, n)[i] = s[i]
           /\ SubSeq(s, n + 1, Len(s)) \in Seq(S)
           /\ Len(SubSeq(s, n + 1, Len(s))) = Len(s) - n
           /\ \A i \in 1..(Len(s) - n) : SubSeq(s, n + 1, Len(s))[i] = s[n + i]
<1>1. Len(s) \in Nat /\ n \in Nat /\ n <= Len(s)
  BY LenProperties
<1>2. QED
  BY <1>1

\* Sizes
LEMMA LeastBounds ==
    ASSUME NEW m \in Nat, NEW c \in Nat, NEW l \in Nat, l <= c
    PROVE  Least(m, c - l) \in Nat /\ Least(m, c - l) <= m /\ Least(m, c - l) <= c - l
BY DEF Least

LEMMA Moved ==
    ASSUME NEW g \in Nat, NEW s \in Nat, NEW k \in Nat, NEW n \in Nat, n <= k
    PROVE  g + (s + n) + (k - n) = g + s + k
OBVIOUS

LEMMA Added ==
    ASSUME NEW g \in Nat, NEW s \in Nat, NEW k \in Nat, NEW i \in Nat
    PROVE  /\ g + (s + i) + k = (g + s + k) + i
           /\ g + s + (k + i) = (g + s + k) + i
OBVIOUS

\* poll_flush: the first bytes kept go out, as many as there is room for.
LEMMA FlushFacts ==
    ASSUME IInv, NEW d \in Dirs, PollFlush(d)
    PROVE  /\ kept' \in [Dirs -> Seq(Byte)] /\ sock' \in [Dirs -> Seq(Byte)]
           /\ UNCHANGED closed
           /\ \A e \in Dirs : e # d => kept'[e] = kept[e] /\ sock'[e] = sock[e]
           /\ \E n \in Nat :
                 /\ n <= Len(kept[d]) /\ n <= SockCap - Len(sock[d])
                 /\ kept'[d] = SubSeq(kept[d], n + 1, Len(kept[d]))
                 /\ sock'[d] = sock[d] \o SubSeq(kept[d], 1, n)
                 /\ Len(kept'[d]) = Len(kept[d]) - n /\ Len(sock'[d]) = Len(sock[d]) + n
<1>0. /\ kept \in [Dirs -> Seq(Byte)] /\ sock \in [Dirs -> Seq(Byte)]
      /\ Len(sock[d]) <= SockCap
  BY DEF IInv, ShapeInv, StreamShape, DirInv, BufInv
<1>1. Len(kept[d]) \in Nat /\ Len(sock[d]) \in Nat /\ SockCap \in Nat
  BY <1>0, LenProperties
<1> DEFINE n == Least(Len(kept[d]), SockCap - Len(sock[d]))
           k == SubSeq(kept[d], n + 1, Len(kept[d]))
           out == SubSeq(kept[d], 1, n)
<1>2. /\ kept' = [kept EXCEPT ![d] = k]
      /\ sock' = [sock EXCEPT ![d] = sock[d] \o out]
      /\ UNCHANGED closed
  BY DEF PollFlush
<1>3. n \in Nat /\ n <= Len(kept[d]) /\ n <= SockCap - Len(sock[d])
  BY <1>0, <1>1, LeastBounds
<1> HIDE DEF n
<1>4. k \in Seq(Byte) /\ Len(k) = Len(kept[d]) - n /\ out \in Seq(Byte) /\ Len(out) = n
  <2>1. kept[d] \in Seq(Byte) /\ n \in 0..Len(kept[d])
    BY <1>0, <1>1, <1>3
  <2>2. QED
    BY <2>1, Cut
<1>5. sock[d] \o out \in Seq(Byte) /\ Len(sock[d] \o out) = Len(sock[d]) + n
  <2>1. sock[d] \in Seq(Byte)
    BY <1>0
  <2> HIDE DEF out
  <2>2. QED
    BY <1>4, <2>1, ConcatProperties
<1>6. kept'[d] = k /\ sock'[d] = sock[d] \o out
      /\ \A e \in Dirs : e # d => kept'[e] = kept[e] /\ sock'[e] = sock[e]
  BY <1>0, <1>2
<1>7. kept' \in [Dirs -> Seq(Byte)] /\ sock' \in [Dirs -> Seq(Byte)]
  <2> HIDE DEF k, out
  <2>1. QED
    BY <1>0, <1>2, <1>4, <1>5
<1>8. /\ kept'[d] = SubSeq(kept[d], n + 1, Len(kept[d]))
      /\ sock'[d] = sock[d] \o SubSeq(kept[d], 1, n)
      /\ Len(kept'[d]) = Len(kept[d]) - n /\ Len(sock'[d]) = Len(sock[d]) + n
  BY <1>4, <1>5, <1>6
<1>9. QED
  BY <1>2, <1>3, <1>6, <1>7, <1>8

\* A flush moves bytes of its direction from the writer to the connection.
LEMMA FlushDir ==
    ASSUME IInv, NEW d \in Dirs, PollFlush(d),
           UNCHANGED <<pos, cap, amt, buf, readDone, inbox, ended, got, sent>>
    PROVE  /\ BufInv(d)' /\ CountInv(d)' /\ StreamShape'
           /\ \A e \in Dirs : e # d => kept'[e] = kept[e] /\ sock'[e] = sock[e]
           /\ kept[d] = <<>> => kept'[d] = <<>>
           /\ UNCHANGED closed
<1>1. PICK n \in Nat :
          /\ n <= Len(kept[d]) /\ n <= SockCap - Len(sock[d])
          /\ Len(kept'[d]) = Len(kept[d]) - n /\ Len(sock'[d]) = Len(sock[d]) + n
  BY FlushFacts
<1>2. /\ kept' \in [Dirs -> Seq(Byte)] /\ sock' \in [Dirs -> Seq(Byte)]
      /\ UNCHANGED closed
      /\ \A e \in Dirs : e # d => kept'[e] = kept[e] /\ sock'[e] = sock[e]
  BY FlushFacts
<1>3. StreamShape'
  BY <1>2 DEF IInv, ShapeInv, StreamShape
<1>4. /\ Len(kept[d]) \in Nat /\ Len(sock[d]) \in Nat /\ Len(got[d]) \in Nat
      /\ kept[d] \in Seq(Byte) /\ kept'[d] \in Seq(Byte)
      /\ KeepCap \in Nat /\ SockCap \in Nat
  BY <1>2, LenProperties DEF IInv, ShapeInv, StreamShape
<1>5. BufInv(d) /\ CountInv(d)
  BY DEF IInv, DirInv
<1>6. kept[d] = <<>> => kept'[d] = <<>>
  <2>1. kept[d] = <<>> => Len(kept'[d]) = 0
    BY <1>1, <1>4, EmptySeq
  <2>2. QED
    BY <1>4, <2>1, EmptySeq
<1>7. BufInv(d)'
  <2>1. Len(kept'[d]) <= KeepCap /\ Len(sock'[d]) <= SockCap
    BY <1>1, <1>4, <1>5 DEF BufInv
  <2>2. QED
    BY <1>5, <1>6, <2>1 DEF BufInv
<1>8. CountInv(d)'
  <2>1. Len(got[d]) + (Len(sock[d]) + n) + (Len(kept[d]) - n)
          = Len(got[d]) + Len(sock[d]) + Len(kept[d])
    <3> DEFINE g == Len(got[d])
               s == Len(sock[d])
               k == Len(kept[d])
    <3>1. g \in Nat /\ s \in Nat /\ k \in Nat /\ n <= k
      BY <1>1, <1>4
    <3> HIDE DEF g, s, k
    <3>2. g + (s + n) + (k - n) = g + s + k
      BY <3>1, Moved
    <3>3. QED
      BY <3>2 DEF g, s, k
  <2>2. amt[d] = Len(got[d]) + Len(sock'[d]) + Len(kept'[d])
    BY <1>1, <1>5, <2>1 DEF CountInv
  <2>3. QED
    BY <1>5, <2>2 DEF CountInv
<1>9. QED
  BY <1>2, <1>3, <1>6, <1>7, <1>8

\* No poll is at its flush while bytes are left to write.
LEMMA NotFlushing ==
    ASSUME IInv, NEW d \in Dirs, AtWrite(d)
    PROVE  /\ ~flushing /\ task = "poll" /\ cur = d /\ state[d] = "Running"
           /\ pos[d] < cap[d] /\ ~readDone[d] /\ d \notin closed
BY DEF IInv, PollInv, ShapeInv, CopyShape, AtWrite, At, DirInv, StateInv

LEMMA WriteStep ==
    ASSUME IInv, NEW d \in Dirs, Write(d)
    PROVE  IInv'
<1>0. ShapeInv /\ CopyShape /\ TaskShape /\ StreamShape /\ DirInv /\ EchoInv /\ PollInv
  BY DEF IInv, ShapeInv
<1>1. PICK i \in 1..Least(Len(Slice(d)), Room(d)) :
          /\ PollWrite(d, SubSeq(Slice(d), 1, i))
          /\ pos' = [pos EXCEPT ![d] = @ + i]
          /\ Count(d, i)
  BY DEF Write
<1>2. /\ ~flushing /\ task = "poll" /\ cur = d /\ state[d] = "Running"
      /\ ~readDone[d] /\ d \notin closed
  BY NotFlushing DEF Write
<1>3. /\ needFlush' = [needFlush EXCEPT ![d] = TRUE] /\ Same
      /\ UNCHANGED <<state, readDone, cap, buf, woken, reg, closed>>
      /\ UNCHANGED <<inbox, ended, got, sent>>
  BY DEF Write, peerVars
<1>4. /\ Len(kept[d]) \in Nat /\ Len(sock[d]) \in Nat /\ Len(got[d]) \in Nat
      /\ Len(inbox[d]) \in Nat /\ KeepCap \in Nat /\ SockCap \in Nat
      /\ kept[d] \in Seq(Byte) /\ sock[d] \in Seq(Byte)
      /\ pos[d] \in Nat /\ cap[d] \in Nat /\ amt[d] \in Nat /\ cap[d] <= BufSize
      /\ pos[d] <= cap[d]
  <2>1. /\ kept[d] \in Seq(Byte) /\ sock[d] \in Seq(Byte) /\ got[d] \in Seq(Byte)
        /\ inbox[d] \in Seq(Byte)
    BY <1>0 DEF StreamShape
  <2>2. pos[d] \in 0..BufSize /\ cap[d] \in 0..BufSize /\ amt[d] \in Nat /\ pos[d] <= cap[d]
    BY <1>0 DEF CopyShape, DirInv, BufInv
  <2>3. QED
    BY <2>1, <2>2, LenProperties, SMTT(30)
<1>5. Slice(d) \in Seq(Byte) /\ Len(Slice(d)) = cap[d] - pos[d]
  BY SliceFacts
<1>6. Room(d) \in Int
  BY <1>4 DEF Room
<1>7. i \in Nat /\ i <= cap[d] - pos[d] /\ i <= Room(d) /\ i > 0
  BY <1>1, <1>4, <1>5, <1>6 DEF Least
<1> DEFINE bytes == SubSeq(Slice(d), 1, i)
<1>8. bytes \in Seq(Byte) /\ Len(bytes) = i
  <2>1. i \in 0..Len(Slice(d))
    BY <1>4, <1>5, <1>7
  <2>2. QED
    BY <1>5, <2>1, Cut
<1>9. PollWrite(d, bytes)
  BY <1>1
<1> HIDE DEF bytes
<1>10. /\ kept' \in [Dirs -> Seq(Byte)] /\ sock' \in [Dirs -> Seq(Byte)]
       /\ \A e \in Dirs : e # d => kept'[e] = kept[e] /\ sock'[e] = sock[e]
       /\ Len(kept'[d]) \in Nat /\ Len(sock'[d]) \in Nat
       /\ Len(got[d]) + Len(sock'[d]) + Len(kept'[d])
            = (Len(got[d]) + Len(sock[d]) + Len(kept[d])) + i
       /\ Len(kept'[d]) <= KeepCap /\ Len(sock'[d]) <= SockCap
       /\ d \notin Buffered => kept'[d] = <<>>
  <2>0. BufInv(d)
    BY <1>0 DEF DirInv
  <2>1. CASE d \in Buffered
    <3>1. kept' = [kept EXCEPT ![d] = kept[d] \o bytes] /\ sock' = sock
      BY <1>9, <2>1 DEF PollWrite
    <3>2. kept[d] \o bytes \in Seq(Byte) /\ Len(kept[d] \o bytes) = Len(kept[d]) + i
      BY <1>4, <1>8, ConcatProperties
    <3>3. i <= KeepCap - Len(kept[d])
      BY <1>7, <2>1 DEF Room
    <3>4. /\ kept' \in [Dirs -> Seq(Byte)] /\ kept'[d] = kept[d] \o bytes
          /\ \A e \in Dirs : e # d => kept'[e] = kept[e]
      BY <1>0, <3>1, <3>2 DEF StreamShape
    <3>5. Len(kept'[d]) = Len(kept[d]) + i
      BY <3>2, <3>4
    <3>6. Len(kept'[d]) \in Nat /\ Len(kept'[d]) <= KeepCap
      BY <1>4, <1>7, <3>3, <3>5
    <3>7. Len(got[d]) + Len(sock'[d]) + Len(kept'[d])
            = (Len(got[d]) + Len(sock[d]) + Len(kept[d])) + i
      <4> DEFINE g == Len(got[d])
                 s == Len(sock[d])
                 k == Len(kept[d])
      <4>1. g \in Nat /\ s \in Nat /\ k \in Nat /\ i \in Nat
        BY <1>4, <1>7
      <4> HIDE DEF g, s, k
      <4>2. g + s + (k + i) = (g + s + k) + i
        BY <4>1, Added
      <4>3. QED
        BY <3>1, <3>5, <4>2 DEF g, s, k
    <3>8. QED
      BY <1>0, <1>4, <2>0, <2>1, <3>1, <3>4, <3>6, <3>7 DEF StreamShape, BufInv
  <2>2. CASE d \notin Buffered
    <3>1. sock' = [sock EXCEPT ![d] = sock[d] \o bytes] /\ kept' = kept
      BY <1>9, <2>2 DEF PollWrite
    <3>2. sock[d] \o bytes \in Seq(Byte) /\ Len(sock[d] \o bytes) = Len(sock[d]) + i
      BY <1>4, <1>8, ConcatProperties
    <3>3. i <= SockCap - Len(sock[d])
      BY <1>7, <2>2 DEF Room
    <3>4. /\ sock' \in [Dirs -> Seq(Byte)] /\ sock'[d] = sock[d] \o bytes
          /\ \A e \in Dirs : e # d => sock'[e] = sock[e]
      BY <1>0, <3>1, <3>2 DEF StreamShape
    <3>5. Len(sock'[d]) = Len(sock[d]) + i
      BY <3>2, <3>4
    <3>6. Len(sock'[d]) \in Nat /\ Len(sock'[d]) <= SockCap
      BY <1>4, <1>7, <3>3, <3>5
    <3>7. Len(got[d]) + Len(sock'[d]) + Len(kept'[d])
            = (Len(got[d]) + Len(sock[d]) + Len(kept[d])) + i
      <4> DEFINE g == Len(got[d])
                 s == Len(sock[d])
                 k == Len(kept[d])
      <4>1. g \in Nat /\ s \in Nat /\ k \in Nat /\ i \in Nat
        BY <1>4, <1>7
      <4> HIDE DEF g, s, k
      <4>2. g + (s + i) + k = (g + s + k) + i
        BY <4>1, Added
      <4>3. QED
        BY <3>1, <3>5, <4>2 DEF g, s, k
    <3>8. QED
      BY <1>0, <1>4, <2>0, <2>2, <3>1, <3>4, <3>6, <3>7 DEF StreamShape, BufInv
  <2>3. QED
    BY <2>1, <2>2
<1>11. /\ pos' = [pos EXCEPT ![d] = pos[d] + i] /\ pos[d] + i \in 0..BufSize
       /\ amt' = [amt EXCEPT ![d] = amt[d] + i] /\ amt[d] + i \in Nat
  BY <1>1, <1>4, <1>7, SMTT(30) DEF Count
<1>12. /\ pos' \in [Dirs -> 0..BufSize] /\ pos'[d] = pos[d] + i
       /\ amt' \in [Dirs -> Nat] /\ amt'[d] = amt[d] + i
       /\ needFlush' \in [Dirs -> BOOLEAN]
       /\ \A e \in Dirs : e # d => /\ pos'[e] = pos[e] /\ amt'[e] = amt[e]
                                   /\ needFlush'[e] = needFlush[e]
  BY <1>0, <1>3, <1>11 DEF CopyShape
<1>13. \A e \in Dirs : e # d => SameDir(e)
  BY <1>3, <1>10, <1>12 DEF SameDir
<1>14. CopyShape'
  BY <1>0, <1>3, <1>12 DEF CopyShape
<1>15. StreamShape'
  BY <1>0, <1>3, <1>10 DEF StreamShape
<1>16. TaskShape'
  BY <1>0, <1>3 DEF TaskShape, Same
<1>17. BufInv(d) /\ StateInv(d) /\ CountInv(d)
  BY <1>0 DEF DirInv
<1>18. BufInv(d)'
  <2>1. pos[d] + i <= cap[d] /\ \A j \in (pos[d] + i + 1)..cap[d] : j \in (pos[d] + 1)..cap[d]
    BY <1>4, <1>7
  <2>2. pos'[d] <= cap'[d] /\ \A j \in (pos'[d] + 1)..cap'[d] : buf'[d][j] \in Byte
    BY <1>3, <1>12, <1>17, <2>1 DEF BufInv
  <2>3. QED
    BY <1>10, <2>2 DEF BufInv
<1>19. StateInv(d)'
  BY <1>2, <1>3, <1>17 DEF StateInv
<1>20. CountInv(d)'
  <2>1. /\ amt[d] = Len(got[d]) + Len(sock[d]) + Len(kept[d])
        /\ sent[d] = Len(inbox[d]) + (cap[d] - pos[d]) + amt[d]
    BY <1>17 DEF CountInv
  <2>2. amt[d] + i = Len(got[d]) + Len(sock'[d]) + Len(kept'[d])
    BY <1>10, <2>1
  <2>3. Len(inbox[d]) + (cap[d] - pos[d]) + amt[d]
          = Len(inbox[d]) + (cap[d] - (pos[d] + i)) + (amt[d] + i)
    BY <1>4, <1>7, SMTT(30)
  <2>4. QED
    BY <1>3, <1>12, <2>1, <2>2, <2>3 DEF CountInv
<1>21. DirInv'
  BY <1>0, <1>13, <1>18, <1>19, <1>20, DirFrame
<1>22. EchoInv'
  BY <1>0, <1>2, <1>3, <1>10, EchoFrame DEF StreamShape
<1>23. PollInv'
  BY <1>0, <1>2, <1>3, <1>13, PollFrame
<1>24. QED
  BY <1>14, <1>15, <1>16, <1>21, <1>22, <1>23 DEF IInv, ShapeInv

LEMMA WriteOutStep ==
    ASSUME IInv, NEW d \in Dirs, WriteOut(d)
    PROVE  IInv'
<1>0. ShapeInv /\ CopyShape /\ TaskShape /\ StreamShape /\ DirInv /\ EchoInv /\ PollInv
  BY DEF IInv, ShapeInv
<1>1. /\ ~flushing /\ task = "poll" /\ cur = d /\ state[d] = "Running"
      /\ ~readDone[d] /\ d \notin closed
  BY NotFlushing DEF WriteOut
<1>2. /\ UNCHANGED <<state, readDone, pos, cap, amt, needFlush, buf, woken, reg>>
      /\ UNCHANGED <<inbox, ended, got, sent>> /\ Same /\ PollFlush(d)
  BY DEF WriteOut, copyVars, peerVars
<1>3. /\ BufInv(d)' /\ CountInv(d)' /\ StreamShape'
      /\ \A e \in Dirs : e # d => kept'[e] = kept[e] /\ sock'[e] = sock[e]
      /\ UNCHANGED closed
  BY <1>2, FlushDir
<1>4. \A e \in Dirs : e # d => SameDir(e)
  BY <1>2, <1>3 DEF SameDir
<1>5. CopyShape' /\ TaskShape'
  BY <1>0, <1>2 DEF CopyShape, TaskShape, Same
<1>6. StateInv(d)'
  BY <1>0, <1>1, <1>2, <1>3 DEF DirInv, StateInv
<1>7. DirInv'
  BY <1>0, <1>3, <1>4, <1>6, DirFrame
<1>8. EchoInv'
  BY <1>0, <1>1, <1>2, <1>3, EchoFrame DEF StreamShape
<1>9. PollInv'
  BY <1>0, <1>1, <1>2, <1>4, PollFrame
<1>10. QED
  BY <1>3, <1>5, <1>7, <1>8, <1>9 DEF IInv, ShapeInv

\* The flush after a pending read leaves the reader's waker where it is.
LEMMA FlushWaitingStep ==
    ASSUME IInv, NEW d \in Dirs, FlushWaiting(d)
    PROVE  IInv'
<1>0. ShapeInv /\ CopyShape /\ TaskShape /\ StreamShape /\ DirInv /\ EchoInv /\ PollInv
  BY DEF IInv, ShapeInv
<1>1. /\ flushing /\ task = "poll" /\ cur = d /\ state[d] = "Running"
      /\ PollFlush(d) /\ FlushAnswered(d) /\ NextDirection(d)
      /\ UNCHANGED <<woken, inbox, ended, got, sent>>
  BY DEF FlushWaiting, At, peerVars
<1>2. UNCHANGED <<state, readDone, pos, cap, amt, buf>>
  BY <1>1 DEF FlushAnswered, Pending, copyVars
<1>3. /\ pos[d] = cap[d] /\ ~readDone[d] /\ (woken \/ <<d, "reader">> \in reg)
      /\ d \notin closed
  BY <1>0, <1>1 DEF PollInv, DirInv, StateInv
<1>4. /\ \/ /\ needFlush' = [needFlush EXCEPT ![d] = FALSE] /\ reg' = reg
         \/ /\ needFlush' = needFlush /\ reg' = reg \cup {<<d, "writer">>}
  BY <1>1 DEF FlushAnswered, Pending, copyVars
<1>5. /\ needFlush' \in [Dirs -> BOOLEAN] /\ reg \subseteq reg'
      /\ reg' \subseteq Dirs \X {"reader", "writer"}
      /\ \A e \in Dirs : e # d => needFlush'[e] = needFlush[e]
      /\ needFlush'[d] => <<d, "writer">> \in reg'
  <2>1. CASE needFlush' = [needFlush EXCEPT ![d] = FALSE] /\ reg' = reg
    BY <1>0, <2>1 DEF CopyShape, TaskShape
  <2>2. CASE needFlush' = needFlush /\ reg' = reg \cup {<<d, "writer">>}
    BY <1>0, <2>2 DEF CopyShape, TaskShape
  <2>3. QED
    BY <1>4, <2>1, <2>2
<1>6. /\ BufInv(d)' /\ CountInv(d)' /\ StreamShape'
      /\ \A e \in Dirs : e # d => kept'[e] = kept[e] /\ sock'[e] = sock[e]
      /\ UNCHANGED closed
  BY <1>1, <1>2, FlushDir
<1>7. \A e \in Dirs : e # d => SameDir(e)
  BY <1>1, <1>2, <1>5, <1>6 DEF SameDir
<1>8. CopyShape'
  BY <1>0, <1>2, <1>5 DEF CopyShape
<1>9. TaskShape'
  <2>1. task' \in {"asleep", "poll", "done"} /\ cur' \in Dirs /\ flushing' \in BOOLEAN
    BY <1>1 DEF NextDirection
  <2>2. QED
    BY <1>0, <1>1, <1>5, <2>1 DEF TaskShape
<1>10. StateInv(d)'
  BY <1>0, <1>1, <1>2, <1>3, <1>6 DEF DirInv, StateInv
<1>11. DirInv'
  BY <1>0, <1>6, <1>7, <1>10, DirFrame
<1>12. EchoInv'
  BY <1>0, <1>1, <1>3, <1>6, EchoFrame DEF StreamShape
<1>13. woken \/ Waits(d)'
  <2>1. pos'[d] = cap'[d] /\ ~readDone'[d] /\ (woken \/ <<d, "reader">> \in reg')
        /\ ~(pos'[d] < cap'[d])
    BY <1>0, <1>2, <1>3, <1>5 DEF CopyShape
  <2>2. QED
    BY <1>5, <2>1 DEF Waits
<1>14. PollInv'
  BY <1>0, <1>1, <1>5, <1>7, <1>13, TurnFrame
<1>15. QED
  BY <1>6, <1>8, <1>9, <1>11, <1>12, <1>14 DEF IInv, ShapeInv

\* The last flush: the writer is closed only when nothing is kept back any more.
LEMMA FinalFlushStep ==
    ASSUME IInv, NEW d \in Dirs, FinalFlush(d)
    PROVE  IInv'
<1>0. ShapeInv /\ CopyShape /\ TaskShape /\ StreamShape /\ DirInv /\ EchoInv /\ PollInv
  BY DEF IInv, ShapeInv
<1>1. /\ ~flushing /\ task = "poll" /\ cur = d /\ state[d] = "Running"
      /\ PollFlush(d) /\ UNCHANGED <<woken, inbox, ended, got, sent>>
      /\ pos[d] = cap[d] /\ readDone[d]
  BY DEF FinalFlush, AtFlush, At, peerVars
<1>2. UNCHANGED <<readDone, pos, cap, amt, buf, needFlush>>
  BY DEF FinalFlush, Pending, copyVars
<1>3. /\ BufInv(d)' /\ CountInv(d)' /\ StreamShape'
      /\ \A e \in Dirs : e # d => kept'[e] = kept[e] /\ sock'[e] = sock[e]
      /\ UNCHANGED closed
  BY <1>1, <1>2, FlushDir
<1>4. StateInv(d) /\ d \notin closed
  BY <1>0, <1>1 DEF DirInv, StateInv
<1>5. EchoInv'
  BY <1>0, <1>1, <1>3, <1>4, EchoFrame DEF StreamShape
<1>6. CASE /\ Flushed(d) /\ state' = [state EXCEPT ![d] = "Close"] /\ Same
           /\ UNCHANGED reg
  <2>1. /\ state' \in [Dirs -> {"Running", "Close", "Done"}] /\ state'[d] = "Close"
        /\ \A e \in Dirs : e # d => state'[e] = state[e]
    BY <1>0, <1>6 DEF CopyShape
  <2>2. \A e \in Dirs : e # d => SameDir(e)
    BY <1>1, <1>2, <1>3, <2>1 DEF SameDir
  <2>3. CopyShape' /\ TaskShape'
    BY <1>0, <1>1, <1>2, <1>6, <2>1 DEF CopyShape, TaskShape, Same
  <2>4. StateInv(d)'
    BY <1>1, <1>2, <1>3, <1>4, <1>6, <2>1 DEF StateInv, Flushed
  <2>5. DirInv'
    BY <1>0, <1>3, <2>2, <2>4, DirFrame
  <2>6. PollInv'
    BY <1>0, <1>1, <1>6, <2>2, PollFrame
  <2>7. QED
    BY <1>3, <1>5, <2>3, <2>5, <2>6 DEF IInv, ShapeInv
<1>7. CASE Pending(d, "writer") /\ NextDirection(d)
  <2>1. state' = state /\ reg' = reg \cup {<<d, "writer">>}
    BY <1>7 DEF Pending, copyVars
  <2>2. \A e \in Dirs : e # d => SameDir(e)
    BY <1>1, <1>2, <1>3, <2>1 DEF SameDir
  <2>3. CopyShape'
    BY <1>0, <1>2, <2>1 DEF CopyShape
  <2>4. TaskShape'
    <3>1. task' \in {"asleep", "poll", "done"} /\ cur' \in Dirs /\ flushing' \in BOOLEAN
      BY <1>1, <1>7 DEF NextDirection
    <3>2. reg' \subseteq Dirs \X {"reader", "writer"}
      BY <1>0, <2>1 DEF TaskShape
    <3>3. QED
      BY <1>0, <1>1, <3>1, <3>2 DEF TaskShape
  <2>5. StateInv(d)'
    BY <1>1, <1>2, <1>3, <1>4, <2>1 DEF StateInv
  <2>6. DirInv'
    BY <1>0, <1>3, <2>2, <2>5, DirFrame
  <2>7. Waits(d)'
    BY <1>1, <1>2, <2>1 DEF Waits
  <2>8. PollInv'
    BY <1>0, <1>1, <1>7, <2>1, <2>2, <2>7, TurnFrame
  <2>9. QED
    BY <1>3, <1>5, <2>3, <2>4, <2>6, <2>8 DEF IInv, ShapeInv
<1>8. QED
  BY <1>6, <1>7 DEF FinalFlush

----------------------------------------------------------------------------
(* transfer_one_direction after the copy, and the poll around it *)

LEMMA CloseStep ==
    ASSUME IInv, NEW d \in Dirs, Close(d)
    PROVE  IInv'
<1>0. ShapeInv /\ CopyShape /\ TaskShape /\ StreamShape /\ DirInv /\ EchoInv /\ PollInv
  BY DEF IInv, ShapeInv
<1>1. /\ task = "poll" /\ cur = d /\ state[d] = "Close" /\ Same
      /\ UNCHANGED <<readDone, pos, cap, amt, needFlush, buf, woken, reg>>
      /\ UNCHANGED <<inbox, ended, got, sent, sock>>
      /\ closed' = closed \cup {d} /\ kept' = [kept EXCEPT ![d] = <<>>]
      /\ state' = [state EXCEPT ![d] = "Done"]
  BY DEF Close, At, PollClose, peerVars
<1>2. ~flushing
  BY <1>0, <1>1 DEF PollInv, TaskShape
<1>3. StateInv(d) /\ BufInv(d) /\ CountInv(d)
  BY <1>0 DEF DirInv
<1>4. kept[d] = <<>> /\ readDone[d]
  BY <1>1, <1>3 DEF StateInv
<1>5. kept' = kept
  BY <1>0, <1>1, <1>4 DEF StreamShape
<1>6. /\ state' \in [Dirs -> {"Running", "Close", "Done"}] /\ state'[d] = "Done"
      /\ \A e \in Dirs : e # d => state'[e] = state[e]
  BY <1>0, <1>1 DEF CopyShape
<1>7. \A e \in Dirs : e # d => SameDir(e)
  BY <1>1, <1>5, <1>6 DEF SameDir
<1>8. CopyShape' /\ TaskShape'
  BY <1>0, <1>1, <1>6 DEF CopyShape, TaskShape, Same
<1>9. StreamShape'
  BY <1>0, <1>1, <1>5 DEF StreamShape
<1>10. BufInv(d)' /\ CountInv(d)'
  BY <1>1, <1>3, <1>5 DEF BufInv, CountInv
<1>11. StateInv(d)'
  BY <1>1, <1>3, <1>4, <1>5, <1>6 DEF StateInv
<1>12. DirInv'
  BY <1>0, <1>7, <1>10, <1>11, DirFrame
<1>13. EchoInv'
  BY <1>0, <1>1, EchoFrame
<1>14. PollInv'
  BY <1>0, <1>1, <1>2, <1>7, PollFrame
<1>15. QED
  BY <1>8, <1>9, <1>12, <1>13, <1>14 DEF IInv, ShapeInv

LEMMA ClosePendingStep ==
    ASSUME IInv, NEW d \in Dirs, ClosePending(d)
    PROVE  IInv'
<1>0. ShapeInv /\ CopyShape /\ TaskShape /\ StreamShape /\ DirInv /\ EchoInv /\ PollInv
  BY DEF IInv, ShapeInv
<1>1. /\ UNCHANGED <<state, readDone, pos, cap, amt, needFlush, buf, woken>>
      /\ UNCHANGED <<inbox, ended, got, sent, kept, sock, closed>>
      /\ task = "poll" /\ cur = d /\ state[d] = "Close"
      /\ reg' = reg \cup {<<d, "writer">>} /\ NextDirection(d)
  BY DEF ClosePending, Pending, copyVars, peerVars, sinkVars, At
<1>2. \A e \in Dirs : SameDir(e)
  BY <1>1 DEF SameDir
<1>3. CopyShape' /\ StreamShape'
  BY <1>0, <1>1 DEF CopyShape, StreamShape
<1>4. TaskShape'
  <2>1. task' \in {"asleep", "poll", "done"} /\ cur' \in Dirs /\ flushing' \in BOOLEAN
    BY <1>0, <1>1 DEF NextDirection, TaskShape
  <2>2. reg' \subseteq Dirs \X {"reader", "writer"}
    BY <1>0, <1>1 DEF TaskShape
  <2>3. QED
    BY <1>0, <1>1, <2>1, <2>2 DEF TaskShape
<1>5. BufInv(d)' /\ CountInv(d)' /\ StateInv(d)'
  BY <1>0, <1>1 DEF DirInv, BufInv, CountInv, StateInv
<1>6. DirInv'
  BY <1>0, <1>2, <1>5, DirFrame
<1>7. EchoInv'
  BY <1>0, <1>1, EchoFrame
<1>8. Waits(d)'
  <2>1. readDone[d]
    BY <1>0, <1>1 DEF DirInv, StateInv
  <2>2. QED
    BY <1>1, <2>1 DEF Waits
<1>9. PollInv'
  BY <1>0, <1>1, <1>2, <1>8, TurnFrame
<1>10. QED
  BY <1>3, <1>4, <1>6, <1>7, <1>9 DEF IInv, ShapeInv

\* A step of the poll that touches neither the copies nor the streams.
LEMMA PollStep ==
    ASSUME IInv, (\E d \in Dirs : Done(d)) \/ Fail \/ BeginPoll
    PROVE  IInv'
<1>0. ShapeInv /\ CopyShape /\ TaskShape /\ StreamShape /\ DirInv /\ EchoInv /\ PollInv
  BY DEF IInv, ShapeInv
<1>1. /\ UNCHANGED <<state, readDone, pos, cap, amt, needFlush, buf, reg>>
      /\ UNCHANGED <<inbox, ended, got, sent, kept, sock, closed>>
  BY DEF Done, Fail, BeginPoll, copyVars, peerVars, sinkVars
<1>2. \A e \in Dirs : SameDir(e)
  BY <1>1 DEF SameDir
<1>3. CopyShape' /\ StreamShape'
  BY <1>0, <1>1 DEF CopyShape, StreamShape
<1>4. DirInv'
  BY <1>0, <1>1 DEF DirInv, BufInv, StateInv, CountInv
<1>5. EchoInv'
  BY <1>0, <1>1, EchoFrame
<1>6. TaskShape' /\ PollInv'
  <2>1. CASE Fail
    <3>1. task' = "failed" /\ UNCHANGED <<cur, flushing, woken>>
      BY <2>1 DEF Fail
    <3>2. QED
      BY <1>0, <1>1, <3>1 DEF TaskShape, PollInv
  <2>2. CASE BeginPoll
    <3>1. task = "asleep" /\ task' = "poll" /\ woken' = FALSE /\ UNCHANGED <<cur, flushing>>
      BY <2>2 DEF BeginPoll
    <3>2. QED
      BY <1>0, <1>1, <3>1 DEF TaskShape, PollInv
  <2>3. ASSUME NEW d \in Dirs, Done(d)
        PROVE  TaskShape' /\ PollInv'
    <3>1. /\ task = "poll" /\ cur = d /\ state[d] = "Done" /\ NextDirection(d)
          /\ UNCHANGED woken
      BY <2>3 DEF Done, At
    <3>2. task' \in {"asleep", "poll", "done"} /\ cur' \in Dirs /\ flushing' \in BOOLEAN
      BY <3>1 DEF NextDirection
    <3>3. TaskShape'
      BY <1>0, <1>1, <3>1, <3>2 DEF TaskShape
    <3>4. Waits(d)'
      BY <1>1, <3>1 DEF Waits
    <3>5. QED
      BY <1>0, <1>1, <1>2, <3>1, <3>3, <3>4, TurnFrame
  <2>4. QED
    BY <2>1, <2>2, <2>3
<1>7. QED
  BY <1>3, <1>4, <1>5, <1>6 DEF IInv, ShapeInv

----------------------------------------------------------------------------
(* The streams and the peers *)

\* A byte for a reader that has not ended.
LEMMA SendDir ==
    ASSUME IInv, NEW d \in Dirs, NEW b \in Byte, d \notin ended, Send(d, b)
    PROVE  /\ ShapeInv' /\ DirInv' /\ PollInv'
           /\ sent'[d] = sent[d] + 1 /\ \A e \in Dirs : e # d => sent'[e] = sent[e]
           /\ UNCHANGED <<ended, got, closed, sock>>
<1>0. ShapeInv /\ CopyShape /\ TaskShape /\ StreamShape /\ DirInv /\ EchoInv /\ PollInv
  BY DEF IInv, ShapeInv
<1>1. /\ inbox' = [inbox EXCEPT ![d] = Append(inbox[d], b)]
      /\ sent' = [sent EXCEPT ![d] = sent[d] + 1]
      /\ Ready(d, "reader")
      /\ UNCHANGED <<copyVars, task, cur, flushing, ended, got, kept, sock, closed>>
      /\ UNCHANGED <<state, readDone, pos, cap, amt, needFlush, buf>>
  BY DEF Send, sinkVars, copyVars
<1>2. PollInv' /\ TaskShape'
  BY <1>0, <1>1, PeerFrame
<1>3. inbox[d] \in Seq(Byte) /\ sent[d] \in Nat
  BY <1>0 DEF StreamShape
<1>4. Append(inbox[d], b) \in Seq(Byte) /\ Len(Append(inbox[d], b)) = Len(inbox[d]) + 1
  BY <1>3, AppendProperties
<1>5. /\ inbox' \in [Dirs -> Seq(Byte)] /\ inbox'[d] = Append(inbox[d], b)
      /\ sent' \in [Dirs -> Nat] /\ sent'[d] = sent[d] + 1
      /\ \A e \in Dirs : e # d => inbox'[e] = inbox[e] /\ sent'[e] = sent[e]
  <2>1. inbox \in [Dirs -> Seq(Byte)] /\ sent \in [Dirs -> Nat] /\ sent[d] + 1 \in Nat
    BY <1>0, <1>3 DEF StreamShape
  <2>2. /\ inbox' \in [Dirs -> Seq(Byte)] /\ inbox'[d] = Append(inbox[d], b)
        /\ \A e \in Dirs : e # d => inbox'[e] = inbox[e]
    BY <1>1, <1>4, <2>1
  <2>3. /\ sent' \in [Dirs -> Nat] /\ sent'[d] = sent[d] + 1
        /\ \A e \in Dirs : e # d => sent'[e] = sent[e]
    BY <1>1, <2>1
  <2>4. QED
    BY <2>2, <2>3
<1>6. CopyShape' /\ StreamShape'
  BY <1>0, <1>1, <1>5 DEF CopyShape, StreamShape
<1>7. BufInv(d) /\ StateInv(d) /\ CountInv(d)
  BY <1>0 DEF DirInv
<1>8. BufInv(d)' /\ StateInv(d)'
  BY <1>1, <1>7 DEF BufInv, StateInv
<1>9. CountInv(d)'
  <2>1. sent[d] + 1 = (Len(inbox[d]) + 1) + (cap[d] - pos[d]) + amt[d]
    <3> DEFINE l == Len(inbox[d])
               c == cap[d]
               p == pos[d]
               a == amt[d]
               t == sent[d]
    <3>1. l \in Nat /\ c \in Nat /\ p \in Nat /\ a \in Nat /\ t = l + (c - p) + a
      <4>1. l \in Nat
        BY <1>3, LenProperties
      <4>2. c \in Nat /\ p \in Nat /\ a \in Nat
        BY <1>0 DEF CopyShape
      <4>3. t = l + (c - p) + a
        BY <1>7 DEF CountInv
      <4>4. QED
        BY <4>1, <4>2, <4>3
    <3> HIDE DEF l, c, p, a, t
    <3>2. t + 1 = (l + 1) + (c - p) + a
      BY <3>1
    <3>3. QED
      BY <3>2 DEF l, c, p, a, t
  <2>2. Len(inbox'[d]) = Len(inbox[d]) + 1
    BY <1>4, <1>5
  <2>3. QED
    BY <1>1, <1>5, <1>7, <2>1, <2>2 DEF CountInv
<1>10. \A e \in Dirs : e # d => SameDir(e)
  BY <1>1, <1>5 DEF SameDir
<1>11. DirInv'
  BY <1>0, <1>8, <1>9, <1>10, DirFrame
<1>12. QED
  BY <1>1, <1>2, <1>5, <1>6, <1>11 DEF ShapeInv

LEMMA SendAStep ==
    ASSUME IInv, SendA
    PROVE  IInv'
<1>1. sent["ab"] \in Nat /\ sent["ab"] < MaxBytes /\ "ab" \notin ended
      /\ Send("ab", sent["ab"] + 1)
  BY DEF IInv, ShapeInv, StreamShape, SendA
<1>2. sent["ab"] + 1 \in Byte
  BY <1>1 DEF Byte
<1>3. /\ ShapeInv' /\ DirInv' /\ PollInv'
      /\ sent'["ab"] = sent["ab"] + 1 /\ sent'["ba"] = sent["ba"]
      /\ UNCHANGED <<ended, got, closed, sock>>
  BY <1>1, <1>2, SendDir
<1>4. sent'["ab"] <= MaxBytes
  BY <1>1, <1>3
<1>5. EchoInv'
  BY <1>3, <1>4 DEF IInv, EchoInv
<1>6. QED
  BY <1>3, <1>5 DEF IInv

LEMMA EchoBStep ==
    ASSUME IInv, EchoB
    PROVE  IInv' /\ "ba" \notin ended /\ got["ab"][sent["ba"] + 1] \in Byte
<1> DEFINE s == sent["ba"]
           l == Len(got["ab"])
<1>1. /\ s \in Nat /\ l \in Nat /\ s < l /\ got["ab"] \in Seq(Byte)
      /\ Send("ba", got["ab"][s + 1])
  BY LenProperties DEF IInv, ShapeInv, StreamShape, EchoB
<1>2. s + 1 \in 1..l
  <2> HIDE DEF s, l
  <2>1. QED
    BY <1>1
<1>3. got["ab"][s + 1] \in Byte
  BY <1>1, <1>2, ElementOfSeq
<1>4. "ba" \notin ended
  <2>1. s # l
    <3> HIDE DEF s, l
    <3>1. QED
      BY <1>1
  <2>2. QED
    BY <2>1 DEF IInv, EchoInv
<1>5. /\ ShapeInv' /\ DirInv' /\ PollInv'
      /\ sent'["ba"] = s + 1 /\ sent'["ab"] = sent["ab"]
      /\ UNCHANGED <<ended, got, closed, sock>>
  BY <1>1, <1>3, <1>4, SendDir
<1>6. s + 1 <= l
  <2> HIDE DEF s, l
  <2>1. QED
    BY <1>1
<1>7. EchoInv'
  BY <1>4, <1>5, <1>6 DEF IInv, EchoInv
<1>8. QED
  BY <1>3, <1>4, <1>5, <1>7 DEF IInv

\* B has ended only when all it received has been sent back.
LEMMA EndStep ==
    ASSUME IInv, HangUp \/ EndA \/ EndB
    PROVE  IInv'
<1>0. ShapeInv /\ CopyShape /\ TaskShape /\ StreamShape /\ DirInv /\ EchoInv /\ PollInv
  BY DEF IInv, ShapeInv
<1>1. PICK d \in Dirs : /\ End(d)
                        /\ d = "ba" => /\ "ab" \in closed /\ sock["ab"] = <<>>
                                       /\ sent["ba"] = Len(got["ab"])
  BY DEF HangUp, EndA, EndB
<1>2. /\ ended' = ended \cup {d} /\ Ready(d, "reader")
      /\ UNCHANGED <<copyVars, task, cur, flushing, inbox, got, sent, kept, sock, closed>>
      /\ UNCHANGED <<state, readDone, pos, cap, amt, needFlush, buf>>
  BY <1>1 DEF End, sinkVars, copyVars
<1>3. PollInv' /\ TaskShape'
  BY <1>0, <1>2, PeerFrame
<1>4. CopyShape' /\ StreamShape'
  BY <1>0, <1>2 DEF CopyShape, StreamShape
<1>5. DirInv'
  BY <1>0, <1>2 DEF DirInv, BufInv, StateInv, CountInv
<1>6. EchoInv'
  BY <1>0, <1>1, <1>2 DEF EchoInv
<1>7. QED
  BY <1>3, <1>4, <1>5, <1>6 DEF IInv, ShapeInv

LEMMA ReceiveStep ==
    ASSUME IInv, NEW d \in Dirs, Receive(d)
    PROVE  IInv'
<1>0. ShapeInv /\ CopyShape /\ TaskShape /\ StreamShape /\ DirInv /\ EchoInv /\ PollInv
  BY DEF IInv, ShapeInv
<1>1. /\ sock[d] # <<>> /\ Ready(d, "writer")
      /\ sock' = [sock EXCEPT ![d] = Tail(sock[d])]
      /\ got' = [got EXCEPT ![d] = Append(got[d], Head(sock[d]))]
      /\ UNCHANGED <<copyVars, task, cur, flushing, inbox, ended, sent, kept, closed>>
      /\ UNCHANGED <<state, readDone, pos, cap, amt, needFlush, buf>>
  BY DEF Receive, copyVars
<1>2. PollInv' /\ TaskShape'
  BY <1>0, <1>1, PeerFrame
<1>3. sock[d] \in Seq(Byte) /\ got[d] \in Seq(Byte) /\ kept[d] \in Seq(Byte)
  BY <1>0 DEF StreamShape
<1>4. /\ Tail(sock[d]) \in Seq(Byte) /\ Len(Tail(sock[d])) = Len(sock[d]) - 1
      /\ Head(sock[d]) \in Byte
  BY <1>1, <1>3, HeadTailProperties
<1>5. /\ Append(got[d], Head(sock[d])) \in Seq(Byte)
      /\ Len(Append(got[d], Head(sock[d]))) = Len(got[d]) + 1
  BY <1>3, <1>4, AppendProperties
<1>6. /\ sock' \in [Dirs -> Seq(Byte)] /\ Len(sock'[d]) = Len(sock[d]) - 1
      /\ got' \in [Dirs -> Seq(Byte)] /\ Len(got'[d]) = Len(got[d]) + 1
      /\ \A e \in Dirs : e # d => sock'[e] = sock[e] /\ got'[e] = got[e]
  BY <1>0, <1>1, <1>4, <1>5 DEF StreamShape
<1>7. CopyShape' /\ StreamShape'
  BY <1>0, <1>1, <1>6 DEF CopyShape, StreamShape
<1>8. BufInv(d) /\ StateInv(d) /\ CountInv(d)
  BY <1>0 DEF DirInv
<1> DEFINE s == Len(sock[d])
           g == Len(got[d])
           k == Len(kept[d])
<1>9. s \in Nat /\ g \in Nat /\ k \in Nat /\ SockCap \in Nat /\ s <= SockCap
  BY <1>3, <1>8, LenProperties DEF BufInv
<1>10. s - 1 <= SockCap /\ (g + 1) + (s - 1) + k = g + s + k /\ g <= g + 1
  <2> HIDE DEF s, g, k
  <2>1. QED
    BY <1>9
<1>11. BufInv(d)' /\ StateInv(d)'
  BY <1>1, <1>6, <1>8, <1>10 DEF BufInv, StateInv
<1>12. CountInv(d)'
  BY <1>1, <1>6, <1>8, <1>10 DEF CountInv
<1>13. \A e \in Dirs : e # d => SameDir(e)
  BY <1>1, <1>6 DEF SameDir
<1>14. DirInv'
  BY <1>0, <1>11, <1>12, <1>13, DirFrame
<1>15. EchoInv'
  <2>1. CASE d = "ab"
    <3>1. "ba" \notin ended
      BY <1>0, <1>1, <2>1 DEF EchoInv
    <3>2. sent["ba"] <= Len(got'["ab"])
      <4> DEFINE t == sent["ba"]
      <4>1. t \in Nat /\ t <= g /\ Len(got'["ab"]) = g + 1
        BY <1>0, <1>6, <2>1 DEF StreamShape, EchoInv
      <4> HIDE DEF t, g
      <4>2. t <= g + 1
        BY <1>9, <4>1
      <4>3. QED
        BY <4>1, <4>2 DEF t
    <3>3. QED
      BY <1>0, <1>1, <3>1, <3>2 DEF EchoInv
  <2>2. CASE d = "ba"
    BY <1>0, <1>1, <1>6, <2>2 DEF EchoInv
  <2>3. QED
    BY <2>1, <2>2
<1>16. QED
  BY <1>2, <1>7, <1>14, <1>15 DEF IInv, ShapeInv

----------------------------------------------------------------------------
(* The invariant holds *)

LEMMA InitIInv == Init => IInv
<1> SUFFICES ASSUME Init PROVE IInv
  OBVIOUS
<1>1. CopyShape
  BY DEF Init, CopyShape
<1>2. TaskShape
  BY DEF Init, TaskShape
<1>3. StreamShape
  BY DEF Init, StreamShape
<1>4. ASSUME NEW d \in Dirs PROVE BufInv(d) /\ StateInv(d) /\ CountInv(d)
  <2>1. /\ pos[d] = 0 /\ cap[d] = 0 /\ amt[d] = 0 /\ sent[d] = 0
        /\ kept[d] = <<>> /\ sock[d] = <<>> /\ got[d] = <<>> /\ inbox[d] = <<>>
        /\ state[d] = "Running" /\ ~readDone[d] /\ closed = {}
    BY DEF Init
  <2>2. Len(kept[d]) = 0 /\ Len(sock[d]) = 0 /\ Len(got[d]) = 0 /\ Len(inbox[d]) = 0
    BY <2>1
  <2>3. BufInv(d)
    BY <2>1, <2>2 DEF BufInv
  <2>4. StateInv(d)
    BY <2>1 DEF StateInv
  <2>5. CountInv(d)
    BY <2>1, <2>2 DEF CountInv
  <2>6. QED
    BY <2>3, <2>4, <2>5
<1>5. EchoInv
  <2>1. /\ sent["ab"] = 0 /\ sent["ba"] = 0 /\ got["ab"] = <<>> /\ ended = {}
    BY DEF Init
  <2>2. Len(got["ab"]) = 0
    BY <2>1
  <2>3. QED
    BY <2>1, <2>2 DEF EchoInv
<1>6. PollInv
  BY DEF Init, PollInv
<1>7. QED
  BY <1>1, <1>2, <1>3, <1>4, <1>5, <1>6 DEF IInv, ShapeInv, DirInv

LEMMA NextIInv == IInv /\ [Next]_vars => IInv'
<1> SUFFICES ASSUME IInv, [Next]_vars PROVE IInv'
  OBVIOUS
<1>1. CASE Next
  <2>1. ASSUME NEW d \in Dirs, DirStep(d) PROVE IInv'
    <3>1. CASE Read(d)  BY <3>1, ReadStep
    <3>2. CASE ReadEnd(d)  BY <3>2, ReadEndStep
    <3>3. CASE ReadPending(d) \/ WritePending(d)  BY <3>3, PendingStep
    <3>4. CASE Write(d)  BY <3>4, WriteStep
    <3>5. CASE WriteOut(d)  BY <3>5, WriteOutStep
    <3>6. CASE FlushWaiting(d)  BY <3>6, FlushWaitingStep
    <3>7. CASE FinalFlush(d)  BY <3>7, FinalFlushStep
    <3>8. CASE Close(d)  BY <3>8, CloseStep
    <3>9. CASE ClosePending(d)  BY <3>9, ClosePendingStep
    <3>10. CASE Done(d)  BY <3>10, PollStep
    <3>11. QED
      BY <2>1, <3>1, <3>2, <3>3, <3>4, <3>5, <3>6, <3>7, <3>8, <3>9, <3>10 DEF DirStep
  <2>2. CASE Fail \/ BeginPoll  BY <2>2, PollStep
  <2>3. CASE SendA  BY <2>3, SendAStep
  <2>4. CASE EchoB  BY <2>4, EchoBStep
  <2>5. CASE HangUp \/ EndA \/ EndB  BY <2>5, EndStep
  <2>6. ASSUME NEW d \in Dirs, Receive(d) PROVE IInv'
    BY <2>6, ReceiveStep
  <2>7. QED
    BY <1>1, <2>1, <2>2, <2>3, <2>4, <2>5, <2>6 DEF Next, TaskStep, PeerStep
<1>2. CASE UNCHANGED vars
  BY <1>2, ZenonT(60) DEF vars, copyVars, peerVars, sinkVars, IInv, ShapeInv, CopyShape, TaskShape,
     StreamShape, DirInv, BufInv, StateInv, CountInv, EchoInv, PollInv, Waits
<1>3. QED
  BY <1>1, <1>2

\* The inductive invariant of copy_bidirectional.
THEOREM CopyInvariant == Spec => []IInv
<1>1. Init => IInv
  BY InitIInv
<1>2. IInv /\ [Next]_vars => IInv'
  BY NextIInv
<1>3. QED
  BY <1>1, <1>2, PTL DEF Spec

\* The bytes a direction has counted have been sent by peer A.
LEMMA CountsBounded ==
    ASSUME IInv
    PROVE  amt \in [Dirs -> 0..MaxBytes]
<1> DEFINE ga == Len(got["ab"])
           sa == Len(sock["ab"])
           ka == Len(kept["ab"])
           ia == Len(inbox["ab"])
           ib == Len(inbox["ba"])
           pa == pos["ab"]
           ca == cap["ab"]
           pb == pos["ba"]
           cb == cap["ba"]
           a == amt["ab"]
           b == amt["ba"]
           ta == sent["ab"]
           tb == sent["ba"]
<1>1. amt \in [Dirs -> Nat] /\ a \in Nat /\ b \in Nat
  BY DEF IInv, ShapeInv, CopyShape
<1>2. pa \in Nat /\ ca \in Nat /\ pb \in Nat /\ cb \in Nat
  BY DEF IInv, ShapeInv, CopyShape
<1>3. ga \in Nat /\ sa \in Nat /\ ka \in Nat /\ ia \in Nat /\ ib \in Nat
  BY LenProperties DEF IInv, ShapeInv, StreamShape
<1>4. pa <= ca /\ pb <= cb
  BY DEF IInv, DirInv, BufInv
<1>5. a = ga + sa + ka /\ ta = ia + (ca - pa) + a /\ tb = ib + (cb - pb) + b
  BY DEF IInv, DirInv, CountInv
<1>6. ta <= MaxBytes /\ tb <= ga
  BY DEF IInv, EchoInv
<1>7. a <= MaxBytes /\ b <= MaxBytes
  <2> HIDE DEF ga, sa, ka, ia, ib, pa, ca, pb, cb, a, b, ta, tb
  <2>1. a <= ta /\ ga <= a
    BY <1>1, <1>2, <1>3, <1>4, <1>5
  <2>2. b <= tb
    BY <1>1, <1>2, <1>3, <1>4, <1>5
  <2>3. ta \in Int /\ tb \in Int /\ MaxBytes \in Nat
    BY <1>1, <1>2, <1>3, <1>5
  <2>4. QED
    BY <1>1, <1>3, <1>6, <2>1, <2>2, <2>3
<1>8. \A d \in Dirs : amt[d] \in 0..MaxBytes
  BY <1>1, <1>7
<1>9. QED
  BY <1>1, <1>8

\* TypeOK: the positions of a CopyBuffer are positions of its buffer, and the
\* writers and connections stay within their capacities, for all of them.
THEOREM CopyTypeCorrect == Spec => []TypeOK
<1>1. IInv => TypeOK
  <2> SUFFICES ASSUME IInv PROVE TypeOK
    OBVIOUS
  <2>1. amt \in [Dirs -> 0..MaxBytes]
    BY CountsBounded
  <2>2. \A d \in Dirs : pos[d] \in 0..cap[d]
    <3> TAKE d \in Dirs
    <3>1. pos[d] \in 0..BufSize /\ cap[d] \in 0..BufSize /\ pos[d] <= cap[d]
      BY DEF IInv, ShapeInv, CopyShape, DirInv, BufInv
    <3>2. QED
      BY <3>1
  <2>3. ended \cup closed \subseteq Dirs
    BY DEF IInv, ShapeInv, StreamShape
  <2>4. \A d \in Dirs : Len(kept[d]) <= KeepCap /\ Len(sock[d]) <= SockCap
    BY DEF IInv, DirInv, BufInv
  <2>5. QED
    BY <2>1, <2>2, <2>3, <2>4 DEF IInv, ShapeInv, CopyShape, TaskShape, TypeOK
<1>2. QED
  BY <1>1, CopyInvariant, PTL

\* WaitsEverywhere: a task that sleeps in CopyBidirectional::poll has left its
\* waker at the writer of every direction with bytes to write or to flush and at
\* the reader of every one that waits for bytes.
THEOREM CopyWaitsEverywhere == Spec => []WaitsEverywhere
<1>1. IInv => WaitsEverywhere
  BY DEF IInv, PollInv, Waits, WaitsEverywhere
<1>2. QED
  BY <1>1, CopyInvariant, PTL

----------------------------------------------------------------------------
(* Sequences that are cut and joined *)

LEMMA ConcatOf ==
    ASSUME NEW S, NEW s \in Seq(S), NEW t \in Seq(S), NEW m, NEW n, Len(s) = m, Len(t) = n
    PROVE  /\ s \o t \in Seq(S) /\ Len(s \o t) = m + n
           /\ \A i \in 1..(m + n) : (s \o t)[i] = IF i <= m THEN s[i] ELSE t[i - m]
BY ConcatProperties

LEMMA Joined ==
    ASSUME NEW S, NEW s \in Seq(S), NEW n \in 0..Len(s)
    PROVE  SubSeq(s, 1, n) \o SubSeq(s, n + 1, Len(s)) = s
<1> DEFINE l == Len(s)
           x == SubSeq(s, 1, n)
           y == SubSeq(s, n + 1, Len(s))
<1>1. l \in Nat /\ n \in Nat /\ n <= l
  BY LenProperties
<1>2. /\ x \in Seq(S) /\ Len(x) = n /\ \A i \in 1..n : x[i] = s[i]
      /\ y \in Seq(S) /\ Len(y) = l - n /\ \A i \in 1..(l - n) : y[i] = s[n + i]
  BY Cut
<1> HIDE DEF l, x, y
<1>3. /\ x \o y \in Seq(S) /\ Len(x \o y) = l
      /\ \A i \in 1..l : (x \o y)[i] = IF i <= n THEN x[i] ELSE y[i - n]
  <2>1. n + (l - n) = l
    BY <1>1
  <2>2. /\ x \o y \in Seq(S) /\ Len(x \o y) = n + (l - n)
        /\ \A i \in 1..(n + (l - n)) : (x \o y)[i] = IF i <= n THEN x[i] ELSE y[i - n]
    BY <1>2, ConcatOf, SMTT(30)
  <2>3. QED
    BY <2>1, <2>2
<1>4. \A i \in 1..l : (x \o y)[i] = s[i]
  <2> TAKE i \in 1..l
  <2>1. CASE i <= n
    <3>1. i \in 1..n
      BY <1>1, <2>1
    <3>2. QED
      BY <1>2, <1>3, <2>1, <3>1
  <2>2. CASE ~(i <= n)
    <3>1. i - n \in 1..(l - n) /\ n + (i - n) = i
      BY <1>1, <2>2
    <3>2. QED
      BY <1>2, <1>3, <2>2, <3>1
  <2>3. QED
    BY <2>1, <2>2
<1>5. x \o y = s
  BY <1>3, <1>4, SeqEqual DEF l
<1>6. QED
  BY <1>5 DEF x, y

\* Cutting a concatenation within its first part
LEMMA CutConcat ==
    ASSUME NEW S, NEW s \in Seq(S), NEW t \in Seq(S), NEW n \in 0..Len(s)
    PROVE  /\ SubSeq(s \o t, 1, n) = SubSeq(s, 1, n)
           /\ SubSeq(s \o t, n + 1, Len(s \o t)) = SubSeq(s, n + 1, Len(s)) \o t
<1> DEFINE l == Len(s)
           m == Len(t)
           st == s \o t
           x == SubSeq(s, 1, n)
           y == SubSeq(s, n + 1, Len(s))
           u == SubSeq(st, 1, n)
           v == SubSeq(st, n + 1, Len(st))
<1>1. l \in Nat /\ m \in Nat /\ n \in Nat /\ n <= l
  BY LenProperties
<1>2. /\ x \in Seq(S) /\ Len(x) = n /\ \A i \in 1..n : x[i] = s[i]
      /\ y \in Seq(S) /\ Len(y) = l - n /\ \A i \in 1..(l - n) : y[i] = s[n + i]
  BY Cut, ZenonT(60)
<1>3. /\ st \in Seq(S) /\ Len(st) = l + m
      /\ \A i \in 1..(l + m) : st[i] = IF i <= l THEN s[i] ELSE t[i - l]
  BY ConcatProperties
<1> HIDE DEF l, m, st, x, y
<1>4. n \in 0..Len(st)
  BY <1>1, <1>3
<1>5. /\ u \in Seq(S) /\ Len(u) = n /\ \A i \in 1..n : u[i] = st[i]
      /\ v \in Seq(S) /\ Len(v) = Len(st) - n
      /\ \A i \in 1..(Len(st) - n) : v[i] = st[n + i]
  BY <1>3, <1>4, Cut
<1> HIDE DEF u, v
<1>6. u = x
  <2>1. \A i \in 1..n : u[i] = x[i]
    <3> TAKE i \in 1..n
    <3>1. i \in 1..(l + m) /\ i <= l
      BY <1>1
    <3>2. QED
      BY <1>2, <1>3, <1>5, <3>1
  <2>2. QED
    BY <1>2, <1>5, <2>1, SeqEqual
<1>7. /\ y \o t \in Seq(S) /\ Len(y \o t) = (l - n) + m
      /\ \A i \in 1..((l - n) + m) : (y \o t)[i] = IF i <= l - n THEN y[i] ELSE t[i - (l - n)]
  <2>1. t \in Seq(S) /\ Len(t) = m
    BY DEF m
  <2>2. QED
    BY <1>2, <2>1, ConcatOf
<1>8. v = y \o t
  <2>1. Len(v) = (l - n) + m
    BY <1>1, <1>3, <1>5
  <2>2. \A i \in 1..((l - n) + m) : v[i] = (y \o t)[i]
    <3> TAKE i \in 1..((l - n) + m)
    <3>1. i \in 1..(Len(st) - n) /\ n + i \in 1..(l + m)
      BY <1>1, <1>3
    <3>2. v[i] = st[n + i] /\ st[n + i] = IF n + i <= l THEN s[n + i] ELSE t[(n + i) - l]
      BY <1>3, <1>5, <3>1
    <3>3. CASE i <= l - n
      <4>1. i \in 1..(l - n) /\ n + i <= l
        BY <1>1, <3>3
      <4>2. QED
        BY <1>2, <1>7, <3>2, <3>3, <4>1
    <3>4. CASE ~(i <= l - n)
      <4>1. ~(n + i <= l) /\ (n + i) - l = i - (l - n)
        BY <1>1, <3>4
      <4>2. QED
        BY <1>7, <3>2, <3>4, <4>1
    <3>5. QED
      BY <3>3, <3>4
  <2>3. QED
    BY <1>5, <1>7, <2>1, <2>2, SeqEqual
<1>9. QED
  BY <1>6, <1>8 DEF u, v, x, y, st

\* The first byte of a connection goes to the end of what has arrived.
LEMMA HeadOver ==
    ASSUME NEW S, NEW g \in Seq(S), NEW s \in Seq(S), s # <<>>
    PROVE  Append(g, Head(s)) \o Tail(s) = g \o s
<1> DEFINE h == Head(s)
           t == Tail(s)
           a == Append(g, h)
           l == Len(g)
           m == Len(s)
<1>1. l \in Nat /\ m \in Nat /\ m # 0
  BY LenProperties, EmptySeq
<1>2. /\ h \in S /\ t \in Seq(S) /\ Len(t) = m - 1 /\ \A i \in 1..(m - 1) : t[i] = s[i + 1]
      /\ h = s[1]
  BY HeadTailProperties
<1> HIDE DEF h, t
<1>3. /\ a \in Seq(S) /\ Len(a) = l + 1 /\ \A i \in 1..l : a[i] = g[i]
      /\ a[l + 1] = h
  BY <1>2, AppendProperties
<1> HIDE DEF a, l, m
<1>4. /\ a \o t \in Seq(S) /\ Len(a \o t) = l + m
      /\ \A i \in 1..(l + m) : (a \o t)[i] = IF i <= l + 1 THEN a[i] ELSE t[i - (l + 1)]
  <2>1. (l + 1) + (m - 1) = l + m
    BY <1>1
  <2>2. /\ a \o t \in Seq(S) /\ Len(a \o t) = (l + 1) + (m - 1)
        /\ \A i \in 1..((l + 1) + (m - 1)) :
               (a \o t)[i] = IF i <= l + 1 THEN a[i] ELSE t[i - (l + 1)]
    BY <1>2, <1>3, ConcatOf, SMTT(30)
  <2>3. QED
    BY <2>1, <2>2
<1>5. /\ g \o s \in Seq(S) /\ Len(g \o s) = l + m
      /\ \A i \in 1..(l + m) : (g \o s)[i] = IF i <= l THEN g[i] ELSE s[i - l]
  BY ConcatProperties DEF l, m
<1>6. \A i \in 1..(l + m) : (a \o t)[i] = (g \o s)[i]
  <2> TAKE i \in 1..(l + m)
  <2>1. CASE i <= l
    <3>1. i <= l + 1 /\ i \in 1..l
      BY <1>1, <2>1
    <3>2. QED
      BY <1>3, <1>4, <1>5, <2>1, <3>1
  <2>2. CASE i = l + 1
    <3>1. ~(i <= l) /\ i - l = 1 /\ i <= l + 1
      BY <1>1, <2>2
    <3>2. (a \o t)[i] = h /\ (g \o s)[i] = s[1]
      BY <1>3, <1>4, <1>5, <2>2, <3>1
    <3>3. QED
      BY <1>2, <3>2
  <2>3. CASE ~(i <= l + 1)
    <3>1. ~(i <= l) /\ i - (l + 1) \in 1..(m - 1) /\ (i - (l + 1)) + 1 = i - l
      BY <1>1, <2>3
    <3>2. (a \o t)[i] = t[i - (l + 1)] /\ (g \o s)[i] = s[i - l]
      BY <1>4, <1>5, <2>3, <3>1
    <3>3. t[i - (l + 1)] = s[(i - (l + 1)) + 1]
      BY <1>2, <3>1
    <3>4. QED
      BY <3>1, <3>2, <3>3
  <2>4. i <= l \/ i = l + 1 \/ ~(i <= l + 1)
    BY <1>1
  <2>5. QED
    BY <2>1, <2>2, <2>3, <2>4
<1>7. a \o t = g \o s
  BY <1>4, <1>5, <1>6, SeqEqual
<1>8. QED
  BY <1>7 DEF a, t, h

----------------------------------------------------------------------------
(* The refinement of Pipe *)

\* What the pipe of direction d holds, what it has handed on, and its status.
Transit(d) == kept[d] \o Slice(d)
Output(d)  == got[d] \o sock[d]
Status     == IF task \in {"done", "failed"} THEN task ELSE "open"

\* A step leaves the pipe of direction e alone.
SamePipe(e) == Transit(e)' = Transit(e) /\ Output(e)' = Output(e)

LEMMA SamePipeDir ==
    ASSUME NEW e \in Dirs, SameDir(e)
    PROVE  SamePipe(e)
BY DEF SameDir, SamePipe, Transit, Output, Slice

\* The steps of the pipe, in these terms
LEMMA PipeStutter ==
    ASSUME UNCHANGED <<inbox, ended, closed, counts>>, Status' = Status,
           \A e \in Dirs : SamePipe(e)
    PROVE  UNCHANGED P!pipeVars
BY DEF P!pipeVars, SamePipe, Transit, Output, Slice, Status

LEMMA PipeTake ==
    ASSUME NEW d \in Dirs, NEW n \in 1..(BufSize + KeepCap),
           Status = "open", Status' = "open", n <= Len(inbox[d]),
           Len(Transit(d)) + n <= BufSize + KeepCap,
           inbox' = [inbox EXCEPT ![d] = SubSeq(@, n + 1, Len(@))],
           Transit(d)' = Transit(d) \o SubSeq(inbox[d], 1, n), Output(d)' = Output(d),
           \A e \in Dirs : e # d => SamePipe(e),
           UNCHANGED <<ended, closed, counts>>
    PROVE  P!Next
<1>1. P!Take(d, n)
  BY DEF P!Take, SamePipe, Transit, Output, Slice, Status
<1>2. QED
  BY <1>1 DEF P!Next

LEMMA PipeHandOn ==
    ASSUME NEW d \in Dirs, NEW n \in 1..(BufSize + KeepCap),
           Status = "open", Status' = "open", d \notin closed, n <= Len(Transit(d)),
           Transit(d)' = SubSeq(Transit(d), n + 1, Len(Transit(d))),
           Output(d)' = Output(d) \o SubSeq(Transit(d), 1, n),
           \A e \in Dirs : e # d => SamePipe(e),
           UNCHANGED <<inbox, ended, closed, counts>>
    PROVE  P!Next
<1>1. P!HandOn(d, n)
  BY DEF P!HandOn, SamePipe, Transit, Output, Slice, Status
<1>2. QED
  BY <1>1 DEF P!Next

LEMMA PipeClose ==
    ASSUME NEW d \in Dirs, Status = "open", Status' = "open",
           d \in ended, inbox[d] = <<>>, Transit(d) = <<>>,
           closed' = closed \cup {d}, \A e \in Dirs : SamePipe(e),
           UNCHANGED <<inbox, ended, counts>>
    PROVE  P!Next
<1>1. P!Close(d)
  BY DEF P!Close, SamePipe, Transit, Output, Slice, Status
<1>2. QED
  BY <1>1 DEF P!Next

LEMMA PipeFinish ==
    ASSUME Status = "open", Status' = "done", closed = Dirs,
           counts' = [d \in Dirs |-> Len(Output(d))],
           \A e \in Dirs : SamePipe(e),
           UNCHANGED <<inbox, ended, closed>>
    PROVE  P!Next
<1>1. P!Finish
  BY DEF P!Finish, SamePipe, Transit, Output, Slice, Status
<1>2. QED
  BY <1>1 DEF P!Next

LEMMA PipeFail ==
    ASSUME Status = "open", Status' = "failed", \A e \in Dirs : SamePipe(e),
           UNCHANGED <<inbox, ended, closed, counts>>
    PROVE  P!Next
<1>1. P!Fail
  BY DEF P!Fail, SamePipe, Transit, Output, Slice, Status
<1>2. QED
  BY <1>1 DEF P!Next

LEMMA PipeArrive ==
    ASSUME NEW d \in Dirs, NEW b \in Byte, d \notin ended,
           inbox' = [inbox EXCEPT ![d] = Append(@, b)],
           Status' = Status, \A e \in Dirs : SamePipe(e),
           UNCHANGED <<ended, closed, counts>>
    PROVE  P!Next
<1>1. P!Arrive(d, b)
  BY DEF P!Arrive, SamePipe, Transit, Output, Slice, Status
<1>2. QED
  BY <1>1 DEF P!Next, Byte

LEMMA PipeEnd ==
    ASSUME NEW d \in Dirs, ended' = ended \cup {d},
           Status' = Status, \A e \in Dirs : SamePipe(e),
           UNCHANGED <<inbox, closed, counts>>
    PROVE  P!Next
<1>1. P!End(d)
  BY DEF P!End, SamePipe, Transit, Output, Slice, Status
<1>2. QED
  BY <1>1 DEF P!Next

----------------------------------------------------------------------------
(* Every step of the copy is a step of the pipe or leaves it alone *)

PipeStep == P!Next \/ UNCHANGED P!pipeVars

LEMMA StreamFacts ==
    ASSUME IInv, NEW d \in Dirs
    PROVE  /\ kept[d] \in Seq(Byte) /\ sock[d] \in Seq(Byte) /\ got[d] \in Seq(Byte)
           /\ inbox[d] \in Seq(Byte) /\ Slice(d) \in Seq(Byte)
           /\ Transit(d) \in Seq(Byte) /\ Output(d) \in Seq(Byte)
           /\ Len(kept[d]) \in Nat /\ Len(kept[d]) <= KeepCap /\ Len(inbox[d]) \in Nat
           /\ pos[d] \in Nat /\ cap[d] \in Nat /\ cap[d] <= BufSize /\ pos[d] <= cap[d]
           /\ Len(Slice(d)) = cap[d] - pos[d]
<1>1. /\ kept[d] \in Seq(Byte) /\ sock[d] \in Seq(Byte) /\ got[d] \in Seq(Byte)
      /\ inbox[d] \in Seq(Byte)
  BY DEF IInv, ShapeInv, StreamShape
<1>2. Slice(d) \in Seq(Byte) /\ Len(Slice(d)) = cap[d] - pos[d]
  BY SliceFacts
<1>3. Transit(d) \in Seq(Byte) /\ Output(d) \in Seq(Byte)
  BY <1>1, <1>2, ConcatProperties DEF Transit, Output
<1>4. Len(kept[d]) <= KeepCap /\ pos[d] <= cap[d]
  BY DEF IInv, DirInv, BufInv
<1>5. pos[d] \in 0..BufSize /\ cap[d] \in 0..BufSize
  BY DEF IInv, ShapeInv, CopyShape
<1>6. Len(kept[d]) \in Nat /\ Len(inbox[d]) \in Nat
  BY <1>1, LenProperties
<1>7. QED
  BY <1>1, <1>2, <1>3, <1>4, <1>5, <1>6

LEMMA ThreeParts ==
    ASSUME NEW s \in Seq(Byte), NEW t \in Seq(Byte), NEW u \in Seq(Byte)
    PROVE  (s \o t) \o u = s \o (t \o u)
BY ConcatAssociative, SMTT(30)

\* poll_read puts the bytes behind those that are kept.
LEMMA ReadPipe ==
    ASSUME IInv, NEW d \in Dirs, Read(d)
    PROVE  PipeStep
<1>1. PICK n \in 1..Least(BufSize, Len(inbox[d])) :
          /\ PollRead(d, n)
          /\ pos' = [pos EXCEPT ![d] = 0]
          /\ cap' = [cap EXCEPT ![d] = n]
  BY DEF Read
<1>2. /\ UNCHANGED <<state, readDone, amt, needFlush, ended, got, sent, kept, sock, closed>>
      /\ UNCHANGED <<task, counts>> /\ task = "poll" /\ pos[d] = cap[d]
  BY DEF Read, sinkVars, AtRead, At, Same
<1>3. /\ inbox[d] \in Seq(Byte) /\ kept[d] \in Seq(Byte) /\ Slice(d) \in Seq(Byte)
      /\ Len(inbox[d]) \in Nat /\ Len(kept[d]) \in Nat /\ Len(kept[d]) <= KeepCap
      /\ pos[d] \in Nat /\ cap[d] \in Nat
  BY StreamFacts
<1>4. n \in Nat /\ n <= BufSize /\ n <= Len(inbox[d]) /\ n # 0
  BY <1>1, <1>3 DEF Least
<1>5. /\ buf \in [Dirs -> [1..BufSize -> 0..MaxBytes]] /\ pos \in [Dirs -> 0..BufSize]
      /\ cap \in [Dirs -> 0..BufSize] /\ inbox \in [Dirs -> Seq(Byte)]
  BY DEF IInv, ShapeInv, CopyShape, StreamShape
<1> DEFINE b == [i \in 1..BufSize |-> IF i <= n THEN inbox[d][i] ELSE buf[d][i]]
<1>6. /\ buf' = [buf EXCEPT ![d] = b]
      /\ inbox' = [inbox EXCEPT ![d] = SubSeq(@, n + 1, Len(@))]
  BY <1>1 DEF PollRead
<1>7. \A i \in 1..n : i \in 1..BufSize /\ i \in 1..Len(inbox[d])
  BY <1>3, <1>4
<1>8. \A i \in 1..n : b[i] = inbox[d][i]
  BY <1>7
<1> HIDE DEF b
<1>9. buf'[d] = b /\ pos'[d] = 0 /\ cap'[d] = n
      /\ \A e \in Dirs : e # d => SameDir(e)
  BY <1>1, <1>2, <1>5, <1>6 DEF SameDir
<1>10. SubSeq(b, 1, n) = SubSeq(inbox[d], 1, n)
  <2>1. \A i \in 1..n : b[i] \in Byte /\ inbox[d][i] \in Byte
    BY <1>3, <1>7, <1>8, ElementOfSeq
  <2>2. 1 \in Int /\ n \in Int /\ n - 1 + 1 = n /\ 1 <= n /\ \A i \in 1..n : 1 + i - 1 = i
    BY <1>4
  <2> DEFINE x == SubSeq(b, 1, n)
             y == SubSeq(inbox[d], 1, n)
  <2>3. /\ x \in Seq(Byte) /\ Len(x) = n - 1 + 1
        /\ \A i \in 1..(n - 1 + 1) : x[i] = b[1 + i - 1]
    BY <2>1, <2>2, SubSeqProperties
  <2>4. /\ y \in Seq(Byte) /\ Len(y) = n - 1 + 1
        /\ \A i \in 1..(n - 1 + 1) : y[i] = inbox[d][1 + i - 1]
    BY <2>1, <2>2, SubSeqProperties
  <2> HIDE DEF x, y
  <2>5. Len(x) = n /\ Len(y) = n /\ \A i \in 1..n : x[i] = y[i]
    BY <1>8, <2>2, <2>3, <2>4
  <2>6. x = y
    BY <2>3, <2>4, <2>5, SeqEqual
  <2>7. QED
    BY <2>6 DEF x, y
<1>11. Slice(d) = <<>>
  <2>1. pos[d] + 1 \in Int /\ cap[d] \in Int /\ cap[d] < pos[d] + 1
    BY <1>2, <1>3
  <2>2. QED
    BY <2>1, SubSeqEmpty DEF Slice
<1>12. Transit(d) = kept[d]
  BY <1>3, <1>11, ConcatEmptySeq DEF Transit
<1>13. Transit(d)' = Transit(d) \o SubSeq(inbox[d], 1, n)
  <2>1. Slice(d)' = SubSeq(b, 1, n)
    BY <1>9 DEF Slice
  <2>2. Transit(d)' = kept[d] \o Slice(d)'
    BY <1>2 DEF Transit
  <2>3. QED
    BY <1>10, <1>12, <2>1, <2>2
<1>14. n \in 1..(BufSize + KeepCap) /\ Len(kept[d]) + n <= BufSize + KeepCap
  <2> DEFINE k == Len(kept[d])
  <2>1. k \in Nat /\ k <= KeepCap /\ BufSize \in Nat /\ KeepCap \in Nat
    BY <1>3
  <2> HIDE DEF k
  <2>2. n \in 1..(BufSize + KeepCap) /\ k + n <= BufSize + KeepCap
    BY <1>4, <2>1
  <2>3. QED
    BY <2>2 DEF k
<1>15. Output(d)' = Output(d) /\ Status = "open" /\ Status' = "open"
  BY <1>2 DEF Output, Status
<1>16. \A e \in Dirs : e # d => SamePipe(e)
  BY <1>9, SamePipeDir
<1>17. P!Next
  BY <1>2, <1>4, <1>6, <1>12, <1>13, <1>14, <1>15, <1>16, PipeTake
<1>18. QED
  BY <1>17 DEF PipeStep

\* What is left of the buffer after i of its bytes have been written
LEMMA SliceRest ==
    ASSUME NEW S, NEW b \in Seq(S), NEW p \in Nat, NEW c \in Nat, NEW i \in Nat,
           c <= Len(b), p + i <= c
    PROVE  SubSeq(b, (p + i) + 1, c) = SubSeq(SubSeq(b, p + 1, c), i + 1, c - p)
<1> DEFINE l == Len(b)
           s == SubSeq(b, p + 1, c)
           x == SubSeq(b, (p + i) + 1, c)
           y == SubSeq(s, i + 1, c - p)
<1>1. l \in Nat /\ c <= l
  BY LenProperties
<1>2. /\ s \in Seq(S) /\ Len(s) = c - p /\ \A j \in 1..(c - p) : s[j] = b[p + j]
  BY <1>1
<1>3. /\ x \in Seq(S) /\ Len(x) = (c - p) - i
      /\ \A j \in 1..((c - p) - i) : x[j] = b[(p + i) + j]
  BY <1>1
<1> HIDE DEF s, x
<1>4. i \in 0..Len(s)
  BY <1>2
<1>5. /\ y \in Seq(S) /\ Len(y) = Len(s) - i
      /\ \A j \in 1..(Len(s) - i) : y[j] = s[i + j]
  <2>1. y = SubSeq(s, i + 1, Len(s))
    BY <1>2
  <2> DEFINE z == SubSeq(s, i + 1, Len(s))
  <2>2. /\ z \in Seq(S) /\ Len(z) = Len(s) - i
        /\ \A j \in 1..(Len(s) - i) : z[j] = s[i + j]
    BY <1>2, <1>4, Cut
  <2> HIDE DEF y, z
  <2>3. y = z
    BY <2>1 DEF z
  <2>4. QED
    BY <2>2, <2>3
<1> HIDE DEF y
<1>6. \A j \in 1..((c - p) - i) : x[j] = y[j]
  <2> TAKE j \in 1..((c - p) - i)
  <2>1. i + j \in 1..(c - p) /\ p + (i + j) = (p + i) + j
    OBVIOUS
  <2>2. y[j] = s[i + j] /\ s[i + j] = b[p + (i + j)]
    BY <1>2, <1>5, <2>1
  <2>3. QED
    BY <1>3, <2>1, <2>2
<1>7. x = y
  BY <1>2, <1>3, <1>5, <1>6, SeqEqual
<1>8. QED
  BY <1>7 DEF x, y, s

\* poll_write moves the first bytes of the buffer behind those that are kept,
\* which the pipe does not see, or hands them on.
LEMMA WritePipe ==
    ASSUME IInv, NEW d \in Dirs, Write(d)
    PROVE  PipeStep
<1>1. PICK i \in 1..Least(Len(Slice(d)), Room(d)) :
          /\ PollWrite(d, SubSeq(Slice(d), 1, i))
          /\ pos' = [pos EXCEPT ![d] = @ + i]
          /\ Count(d, i)
  BY DEF Write
<1>2. task = "poll" /\ d \notin closed
  BY NotFlushing DEF Write
<1>3. /\ needFlush' = [needFlush EXCEPT ![d] = TRUE] /\ UNCHANGED <<task, counts>>
      /\ UNCHANGED <<state, readDone, cap, buf, closed, inbox, ended, got, sent>>
  BY DEF Write, peerVars, Same
<1>4. /\ kept[d] \in Seq(Byte) /\ sock[d] \in Seq(Byte) /\ got[d] \in Seq(Byte)
      /\ Slice(d) \in Seq(Byte) /\ Len(kept[d]) \in Nat
      /\ pos[d] \in Nat /\ cap[d] \in Nat /\ cap[d] <= BufSize /\ pos[d] <= cap[d]
      /\ Len(Slice(d)) = cap[d] - pos[d]
  BY StreamFacts
<1>5. /\ buf[d] \in [1..BufSize -> 0..MaxBytes] /\ pos \in [Dirs -> 0..BufSize]
      /\ amt \in [Dirs -> Nat] /\ needFlush \in [Dirs -> BOOLEAN]
      /\ kept \in [Dirs -> Seq(Byte)] /\ sock \in [Dirs -> Seq(Byte)]
      /\ d \notin Buffered => kept[d] = <<>>
  BY DEF IInv, ShapeInv, CopyShape, StreamShape, DirInv, BufInv
<1>6. Room(d) \in Int
  <2>1. Len(sock[d]) \in Nat
    BY <1>4, LenProperties
  <2>2. QED
    BY <1>4, <2>1 DEF Room
<1>7. i \in Nat /\ i <= cap[d] - pos[d] /\ i # 0
  BY <1>1, <1>4, <1>6 DEF Least
<1> DEFINE bytes == SubSeq(Slice(d), 1, i)
           rest == SubSeq(Slice(d), i + 1, Len(Slice(d)))
<1>8. i \in 0..Len(Slice(d))
  BY <1>4, <1>7
<1>9. bytes \in Seq(Byte) /\ rest \in Seq(Byte) /\ bytes \o rest = Slice(d)
  BY <1>4, <1>8, Cut, Joined
<1>10. Slice(d)' = rest
  <2> DEFINE b == buf[d]
             p == pos[d]
             c == cap[d]
  <2>0. b \in [1..BufSize -> 0..MaxBytes]
    BY <1>5
  <2> HIDE DEF b, p, c
  <2>1. b \in Seq(0..MaxBytes) /\ Len(b) = BufSize
    BY <2>0
  <2>2. p \in Nat /\ c \in Nat /\ c <= Len(b) /\ p + i <= c
    BY <1>4, <1>7, <2>1 DEF p, c
  <2>3. SubSeq(b, (p + i) + 1, c) = SubSeq(SubSeq(b, p + 1, c), i + 1, c - p)
    BY <1>7, <2>1, <2>2, SliceRest
  <2>4. pos'[d] = p + i /\ cap'[d] = c /\ buf'[d] = b
    BY <1>1, <1>3, <1>5 DEF b, p, c
  <2>5. Slice(d)' = SubSeq(b, (p + i) + 1, c)
    BY <2>4 DEF Slice
  <2>6. Slice(d) = SubSeq(b, p + 1, c) /\ Len(Slice(d)) = c - p
    BY <1>4 DEF Slice, b, p, c
  <2>7. QED
    BY <2>3, <2>5, <2>6
<1>11. PollWrite(d, bytes)
  BY <1>1
<1> HIDE DEF bytes, rest
<1>12. Status = "open" /\ Status' = "open"
  BY <1>2, <1>3 DEF Status
<1>13. /\ \A e \in Dirs : e # d => pos'[e] = pos[e] /\ amt'[e] = amt[e]
       /\ \A e \in Dirs : e # d => needFlush'[e] = needFlush[e]
  BY <1>1, <1>3, <1>5 DEF Count
<1>14. CASE d \in Buffered
  <2>1. kept' = [kept EXCEPT ![d] = kept[d] \o bytes] /\ sock' = sock
    BY <1>11, <1>14 DEF PollWrite
  <2>2. kept'[d] = kept[d] \o bytes /\ \A e \in Dirs : e # d => kept'[e] = kept[e]
    BY <1>5, <2>1
  <2>3. \A e \in Dirs : e # d => SameDir(e)
    BY <1>3, <1>13, <2>1, <2>2 DEF SameDir
  <2>4. (kept[d] \o bytes) \o rest = kept[d] \o (bytes \o rest)
    BY <1>4, <1>9, ThreeParts, ZenonT(60)
  <2>5. Transit(d)' = Transit(d)
    <3>1. Transit(d)' = kept'[d] \o Slice(d)'
      BY DEF Transit
    <3>2. Transit(d) = kept[d] \o Slice(d)
      BY DEF Transit
    <3>3. QED
      BY <1>9, <1>10, <2>2, <2>4, <3>1, <3>2
  <2>6. Output(d)' = Output(d)
    BY <1>3, <2>1 DEF Output
  <2>7. \A e \in Dirs : SamePipe(e)
    BY <2>3, <2>5, <2>6, SamePipeDir DEF SamePipe
  <2>8. UNCHANGED P!pipeVars
    BY <1>3, <1>12, <2>7, PipeStutter
  <2>9. QED
    BY <2>8 DEF PipeStep
<1>15. CASE d \notin Buffered
  <2>1. sock' = [sock EXCEPT ![d] = sock[d] \o bytes] /\ kept' = kept /\ kept[d] = <<>>
    BY <1>5, <1>11, <1>15 DEF PollWrite
  <2>2. sock'[d] = sock[d] \o bytes /\ \A e \in Dirs : e # d => sock'[e] = sock[e]
    BY <1>5, <2>1
  <2>3. \A e \in Dirs : e # d => SamePipe(e)
    <3>1. \A e \in Dirs : e # d => SameDir(e)
      BY <1>3, <1>13, <2>1, <2>2 DEF SameDir
    <3>2. QED
      BY <3>1, SamePipeDir
  <2>4. Transit(d) = Slice(d)
    BY <1>4, <2>1, ConcatEmptySeq DEF Transit
  <2>5. Transit(d)' = rest
    <3>1. Transit(d)' = kept'[d] \o Slice(d)'
      BY DEF Transit
    <3>2. QED
      BY <1>9, <1>10, <2>1, <3>1, ConcatEmptySeq
  <2>6. Output(d)' = Output(d) \o bytes
    <3>1. (got[d] \o sock[d]) \o bytes = got[d] \o (sock[d] \o bytes)
      BY <1>4, <1>9, ThreeParts, Zenon
    <3>2. QED
      BY <1>3, <2>2, <3>1 DEF Output
  <2>7. i \in 1..(BufSize + KeepCap) /\ i <= Len(Slice(d))
    BY <1>4, <1>7
  <2>8. /\ Transit(d)' = SubSeq(Transit(d), i + 1, Len(Transit(d)))
        /\ Output(d)' = Output(d) \o SubSeq(Transit(d), 1, i)
        /\ i <= Len(Transit(d))
    BY <2>4, <2>5, <2>6, <2>7 DEF bytes, rest
  <2>9. P!Next
    BY <1>2, <1>3, <1>12, <2>3, <2>7, <2>8, PipeHandOn
  <2>10. QED
    BY <2>9 DEF PipeStep
<1>16. QED
  BY <1>14, <1>15

\* poll_flush hands on the first bytes of those kept.
LEMMA FlushPipe ==
    ASSUME IInv, NEW d \in Dirs, PollFlush(d), d \notin closed,
           UNCHANGED <<pos, cap, buf, got, inbox, ended, counts>>,
           Status = "open", Status' = "open"
    PROVE  PipeStep
<1>1. PICK n \in Nat :
          /\ n <= Len(kept[d])
          /\ kept'[d] = SubSeq(kept[d], n + 1, Len(kept[d]))
          /\ sock'[d] = sock[d] \o SubSeq(kept[d], 1, n)
  BY FlushFacts
<1>2. /\ UNCHANGED closed
      /\ \A e \in Dirs : e # d => kept'[e] = kept[e] /\ sock'[e] = sock[e]
  BY FlushFacts
<1>3. /\ kept[d] \in Seq(Byte) /\ sock[d] \in Seq(Byte) /\ got[d] \in Seq(Byte)
      /\ Slice(d) \in Seq(Byte) /\ Len(kept[d]) \in Nat /\ Len(kept[d]) <= KeepCap
      /\ pos[d] \in Nat /\ cap[d] \in Nat /\ pos[d] <= cap[d]
      /\ Len(Slice(d)) = cap[d] - pos[d]
  BY StreamFacts
<1>4. Slice(d)' = Slice(d)
  BY DEF Slice
<1>5. \A e \in Dirs : e # d => SamePipe(e)
  BY <1>2 DEF SamePipe, Transit, Output, Slice
<1> DEFINE k == kept[d]
           s == Slice(d)
           out == SubSeq(k, 1, n)
<1>6. n \in 0..Len(k) /\ k \in Seq(Byte) /\ s \in Seq(Byte)
  BY <1>1, <1>3
<1> HIDE DEF k, s
<1>7. /\ SubSeq(k \o s, 1, n) = out
      /\ SubSeq(k \o s, n + 1, Len(k \o s)) = SubSeq(k, n + 1, Len(k)) \o s
      /\ out \in Seq(Byte)
  BY <1>6, CutConcat, Cut
<1> HIDE DEF out
<1>8. Transit(d) = k \o s
  BY DEF Transit, k, s
<1>9. Transit(d)' = SubSeq(Transit(d), n + 1, Len(Transit(d)))
  <2>1. Transit(d)' = kept'[d] \o Slice(d)'
    BY DEF Transit
  <2>2. kept'[d] = SubSeq(k, n + 1, Len(k)) /\ Slice(d)' = s
    BY <1>1, <1>4 DEF k, s
  <2>3. QED
    BY <1>7, <1>8, <2>1, <2>2
<1>10. Output(d)' = Output(d) \o SubSeq(Transit(d), 1, n)
  <2>1. sock'[d] = sock[d] \o out
    BY <1>1 DEF out, k
  <2>2. (got[d] \o sock[d]) \o out = got[d] \o (sock[d] \o out)
    BY <1>3, <1>7, ThreeParts, ZenonT(60)
  <2>3. Output(d)' = Output(d) \o out
    BY <2>1, <2>2 DEF Output
  <2>4. QED
    BY <1>7, <1>8, <2>3
<1>11. CASE n = 0
  <2>1. Transit(d) \in Seq(Byte) /\ Output(d) \in Seq(Byte)
    BY StreamFacts
  <2>2. SubSeq(Transit(d), 1, Len(Transit(d))) = Transit(d)
    BY <2>1, SubSeqFull
  <2>3. SubSeq(Transit(d), 1, 0) = <<>>
    BY SubSeqEmpty
  <2>4. Output(d) \o <<>> = Output(d)
    BY <2>1, ConcatEmptySeq
  <2>5. SamePipe(d)
    <3>1. n + 1 = 1
      BY <1>11
    <3>2. Transit(d)' = SubSeq(Transit(d), 1, Len(Transit(d)))
      BY <1>9, <3>1
    <3>3. Output(d)' = Output(d) \o SubSeq(Transit(d), 1, 0)
      BY <1>10, <1>11
    <3>4. QED
      BY <2>2, <2>3, <2>4, <3>2, <3>3 DEF SamePipe
  <2>6. UNCHANGED P!pipeVars
    BY <1>2, <1>5, <2>5, PipeStutter
  <2>7. QED
    BY <2>6 DEF PipeStep
<1>12. CASE n # 0
  <2>1. n \in 1..(BufSize + KeepCap) /\ n <= Len(k) + Len(s)
    <3>1. Len(k) \in Nat /\ Len(s) \in Nat /\ Len(k) <= KeepCap /\ n <= Len(k)
      BY <1>1, <1>3 DEF k, s
    <3>2. QED
      BY <1>12, <3>1
  <2>2. Len(Transit(d)) = Len(k) + Len(s)
    BY <1>6, <1>8, ConcatProperties
  <2>3. P!Next
    BY <1>2, <1>5, <1>9, <1>10, <2>1, <2>2, PipeHandOn
  <2>4. QED
    BY <2>3 DEF PipeStep
<1>13. QED
  BY <1>11, <1>12

\* A direction that is not through does not end the poll of the task.
LEMMA NotOver ==
    ASSUME NEW d \in Dirs, NextDirection(d), task = "poll", state'[d] # "Done"
    PROVE  Status = "open" /\ Status' = "open" /\ UNCHANGED counts
<1>1. task' \in {"poll", "asleep"} /\ UNCHANGED counts
  BY DEF NextDirection
<1>2. QED
  BY <1>1 DEF Status

\* A step that moves no byte.
LEMMA NothingMoved ==
    ASSUME UNCHANGED <<pos, cap, buf, kept, sock, got>>
    PROVE  \A e \in Dirs : SamePipe(e)
BY DEF SamePipe, Transit, Output, Slice

LEMMA WaitPipe ==
    ASSUME IInv, NEW d \in Dirs,
           ReadEnd(d) \/ ReadPending(d) \/ WritePending(d) \/ ClosePending(d)
    PROVE  PipeStep
<1>1. /\ UNCHANGED <<pos, cap, buf, kept, sock, got>> /\ UNCHANGED <<inbox, ended, closed>>
      /\ UNCHANGED state /\ task = "poll" /\ state[d] # "Done"
  BY DEF ReadEnd, ReadPending, WritePending, ClosePending, Pending, copyVars, peerVars, sinkVars,
     AtRead, AtWrite, At
<1>2. \/ UNCHANGED <<task, counts>>
      \/ NextDirection(d)
  BY DEF ReadEnd, ReadPending, WritePending, ClosePending, Same
<1>3. Status' = Status /\ UNCHANGED counts
  <2>1. CASE UNCHANGED <<task, counts>>
    BY <2>1 DEF Status
  <2>2. CASE NextDirection(d)
    BY <1>1, <2>2, NotOver
  <2>3. QED
    BY <1>2, <2>1, <2>2
<1>4. UNCHANGED P!pipeVars
  BY <1>1, <1>3, NothingMoved, PipeStutter
<1>5. QED
  BY <1>4 DEF PipeStep

LEMMA FlushesPipe ==
    ASSUME IInv, NEW d \in Dirs, WriteOut(d) \/ FlushWaiting(d) \/ FinalFlush(d)
    PROVE  PipeStep
<1>1. /\ PollFlush(d) /\ UNCHANGED <<inbox, ended, got>>
      /\ task = "poll" /\ state[d] = "Running"
  BY DEF WriteOut, FlushWaiting, FinalFlush, AtWrite, AtFlush, At, peerVars
<1>2. UNCHANGED <<pos, cap, buf>> /\ state'[d] # "Done"
  <2>1. CASE WriteOut(d)
    BY <1>1, <2>1 DEF WriteOut, copyVars
  <2>2. CASE FlushWaiting(d)
    BY <1>1, <2>2 DEF FlushWaiting, FlushAnswered, Pending, copyVars
  <2>3. CASE FinalFlush(d)
    <3>1. state \in [Dirs -> {"Running", "Close", "Done"}]
      BY DEF IInv, ShapeInv, CopyShape
    <3>2. QED
      BY <1>1, <2>3, <3>1 DEF FinalFlush, Pending, copyVars
  <2>4. QED
    BY <2>1, <2>2, <2>3
<1>3. UNCHANGED <<task, counts>> \/ NextDirection(d)
  BY DEF WriteOut, FlushWaiting, FinalFlush, Same
<1>4. Status = "open" /\ Status' = "open" /\ UNCHANGED counts
  <2>1. CASE UNCHANGED <<task, counts>>
    BY <1>1, <2>1 DEF Status
  <2>2. CASE NextDirection(d)
    BY <1>1, <1>2, <2>2, NotOver
  <2>3. QED
    BY <1>3, <2>1, <2>2
<1>5. d \notin closed
  BY <1>1 DEF IInv, DirInv, StateInv
<1>6. QED
  BY <1>1, <1>2, <1>4, <1>5, FlushPipe

\* The writer is closed when nothing is left to read, to write or to flush.
LEMMA ClosePipe ==
    ASSUME IInv, NEW d \in Dirs, Close(d)
    PROVE  PipeStep
<1>1. /\ task = "poll" /\ state[d] = "Close" /\ UNCHANGED <<task, counts>>
      /\ UNCHANGED <<pos, cap, buf, inbox, ended, got, sock>>
      /\ closed' = closed \cup {d} /\ kept' = [kept EXCEPT ![d] = <<>>]
  BY DEF Close, At, PollClose, peerVars, Same
<1>2. /\ kept[d] = <<>> /\ d \in ended /\ inbox[d] = <<>> /\ pos[d] = cap[d]
  BY <1>1 DEF IInv, DirInv, StateInv
<1>3. kept' = kept
  BY <1>1, <1>2 DEF IInv, ShapeInv, StreamShape
<1>4. Transit(d) = <<>>
  <2>1. pos[d] \in Nat /\ cap[d] \in Nat /\ Slice(d) \in Seq(Byte)
    BY StreamFacts
  <2>2. pos[d] + 1 \in Int /\ cap[d] \in Int /\ cap[d] < pos[d] + 1
    BY <1>2, <2>1
  <2>3. Slice(d) = <<>>
    BY <2>2, SubSeqEmpty DEF Slice
  <2>4. QED
    BY <1>2, <2>1, <2>3, ConcatEmptySeq DEF Transit
<1>5. \A e \in Dirs : SamePipe(e)
  BY <1>1, <1>3, NothingMoved
<1>6. Status = "open" /\ Status' = "open"
  BY <1>1 DEF Status
<1>7. P!Next
  BY <1>1, <1>2, <1>4, <1>5, <1>6, PipeClose
<1>8. QED
  BY <1>7 DEF PipeStep

\* The result is the number of bytes handed on in each direction.
LEMMA DonePipe ==
    ASSUME IInv, NEW d \in Dirs, Done(d)
    PROVE  PipeStep
<1>1. /\ UNCHANGED <<pos, cap, buf, kept, sock, got>>
      /\ UNCHANGED <<state, amt, inbox, ended, closed>>
      /\ task = "poll" /\ NextDirection(d)
  BY DEF Done, At, copyVars, peerVars, sinkVars
<1>2. \A e \in Dirs : SamePipe(e)
  BY <1>1, NothingMoved
<1>3. CASE UNCHANGED counts /\ task' \in {"poll", "asleep"}
  <2>1. Status' = Status
    BY <1>1, <1>3 DEF Status
  <2>2. UNCHANGED P!pipeVars
    BY <1>1, <1>2, <1>3, <2>1, PipeStutter
  <2>3. QED
    BY <2>2 DEF PipeStep
<1>4. CASE task' = "done" /\ counts' = amt' /\ \A e \in Dirs : state'[e] = "Done"
  <2>1. Status = "open" /\ Status' = "done"
    BY <1>1, <1>4 DEF Status
  <2>2. \A e \in Dirs : e \in closed /\ kept[e] = <<>>
    BY <1>1, <1>4 DEF IInv, DirInv, StateInv
  <2>3. closed = Dirs
    BY <2>2 DEF IInv, ShapeInv, StreamShape
  <2>4. ASSUME NEW e \in Dirs PROVE amt[e] = Len(Output(e))
    <3>1. got[e] \in Seq(Byte) /\ sock[e] \in Seq(Byte)
      BY StreamFacts
    <3>2. Len(Output(e)) = Len(got[e]) + Len(sock[e])
      BY <3>1, ConcatProperties DEF Output
    <3>3. amt[e] = Len(got[e]) + Len(sock[e]) + Len(kept[e]) /\ Len(kept[e]) = 0
      <4>1. kept[e] = <<>> /\ Len(<<>>) = 0
        BY <2>2
      <4>2. amt[e] = Len(got[e]) + Len(sock[e]) + Len(kept[e])
        BY DEF IInv, DirInv, CountInv
      <4>3. QED
        BY <4>1, <4>2
    <3> DEFINE g == Len(got[e])
               s == Len(sock[e])
    <3>4. g \in Nat /\ s \in Nat
      BY <3>1, LenProperties
    <3> HIDE DEF g, s
    <3>5. g + s + 0 = g + s
      BY <3>4
    <3>6. QED
      BY <3>2, <3>3, <3>5 DEF g, s
  <2>5. amt = [e \in Dirs |-> Len(Output(e))]
    <3>1. amt \in [Dirs -> Nat]
      BY DEF IInv, ShapeInv, CopyShape
    <3>2. QED
      BY <2>4, <3>1
  <2>6. counts' = [e \in Dirs |-> Len(Output(e))]
    BY <1>1, <1>4, <2>5
  <2>7. P!Next
    BY <1>1, <1>2, <2>1, <2>3, <2>6, PipeFinish
  <2>8. QED
    BY <2>7 DEF PipeStep
<1>5. QED
  BY <1>1, <1>3, <1>4 DEF NextDirection

\* The streams and the peers; a byte on its way to the peer has been handed on.
LEMMA PeerPipe ==
    ASSUME IInv, SendA \/ EchoB \/ HangUp \/ EndA \/ EndB \/ \E d \in Dirs : Receive(d)
    PROVE  PipeStep
<1>1. ASSUME NEW d \in Dirs, NEW b \in Byte, d \notin ended, Send(d, b)
      PROVE  PipeStep
  <2>1. /\ UNCHANGED <<pos, cap, buf, kept, sock, got>>
        /\ UNCHANGED <<task, counts, ended, closed>>
        /\ inbox' = [inbox EXCEPT ![d] = Append(@, b)]
    BY <1>1 DEF Send, copyVars, sinkVars
  <2>2. Status' = Status /\ \A e \in Dirs : SamePipe(e)
    BY <2>1, NothingMoved DEF Status
  <2>3. P!Next
    BY <1>1, <2>1, <2>2, PipeArrive
  <2>4. QED
    BY <2>3 DEF PipeStep
<1>2. ASSUME NEW d \in Dirs, End(d)
      PROVE  PipeStep
  <2>1. /\ UNCHANGED <<pos, cap, buf, kept, sock, got>>
        /\ UNCHANGED <<task, counts, inbox, closed>> /\ ended' = ended \cup {d}
    BY <1>2 DEF End, copyVars, sinkVars
  <2>2. Status' = Status /\ \A e \in Dirs : SamePipe(e)
    BY <2>1, NothingMoved DEF Status
  <2>3. P!Next
    BY <2>1, <2>2, PipeEnd
  <2>4. QED
    BY <2>3 DEF PipeStep
<1>3. ASSUME NEW d \in Dirs, Receive(d)
      PROVE  PipeStep
  <2>1. /\ UNCHANGED <<pos, cap, buf, kept, task, counts, inbox, ended, closed>>
        /\ sock[d] # <<>> /\ sock' = [sock EXCEPT ![d] = Tail(sock[d])]
        /\ got' = [got EXCEPT ![d] = Append(got[d], Head(sock[d]))]
    BY <1>3 DEF Receive, copyVars
  <2>2. sock \in [Dirs -> Seq(Byte)] /\ got \in [Dirs -> Seq(Byte)]
    BY DEF IInv, ShapeInv, StreamShape
  <2>3. /\ sock'[d] = Tail(sock[d]) /\ got'[d] = Append(got[d], Head(sock[d]))
        /\ \A e \in Dirs : e # d => sock'[e] = sock[e] /\ got'[e] = got[e]
    BY <2>1, <2>2
  <2>4. sock[d] \in Seq(Byte) /\ got[d] \in Seq(Byte)
    BY <2>2
  <2>5. Append(got[d], Head(sock[d])) \o Tail(sock[d]) = got[d] \o sock[d]
    BY <2>1, <2>4, HeadOver
  <2>6. Output(d)' = Output(d)
    BY <2>3, <2>5 DEF Output
  <2>7. \A e \in Dirs : Transit(e)' = Transit(e)
    BY <2>1 DEF Transit, Slice
  <2>8. \A e \in Dirs : e # d => Output(e)' = Output(e)
    BY <2>3 DEF Output
  <2>9. Status' = Status
    BY <2>1 DEF Status
  <2>10. UNCHANGED P!pipeVars
    BY <2>1, <2>6, <2>7, <2>8, <2>9, PipeStutter DEF SamePipe
  <2>11. QED
    BY <2>10 DEF PipeStep
<1>4. CASE SendA
  <2>1. sent["ab"] \in Nat /\ sent["ab"] < MaxBytes
    BY <1>4 DEF IInv, ShapeInv, StreamShape, SendA
  <2>2. sent["ab"] + 1 \in Byte
    BY <2>1 DEF Byte
  <2>3. QED
    BY <1>1, <1>4, <2>2 DEF SendA
<1>5. CASE EchoB
  BY <1>1, <1>5, EchoBStep DEF EchoB
<1>6. CASE HangUp \/ EndA \/ EndB
  BY <1>2, <1>6 DEF HangUp, EndA, EndB
<1>7. QED
  BY <1>3, <1>4, <1>5, <1>6

LEMMA NextPipe == IInv /\ [Next]_vars => [P!Next]_(P!pipeVars)
<1> SUFFICES ASSUME IInv, [Next]_vars PROVE PipeStep
  BY DEF PipeStep
<1>1. ASSUME NEW d \in Dirs, DirStep(d) PROVE PipeStep
  <2>1. CASE Read(d)  BY <2>1, ReadPipe
  <2>2. CASE Write(d)  BY <2>2, WritePipe
  <2>3. CASE ReadEnd(d) \/ ReadPending(d) \/ WritePending(d) \/ ClosePending(d)
    BY <2>3, WaitPipe
  <2>4. CASE WriteOut(d) \/ FlushWaiting(d) \/ FinalFlush(d)  BY <2>4, FlushesPipe
  <2>5. CASE Close(d)  BY <2>5, ClosePipe
  <2>6. CASE Done(d)  BY <2>6, DonePipe
  <2>7. QED
    BY <1>1, <2>1, <2>2, <2>3, <2>4, <2>5, <2>6 DEF DirStep
<1>2. CASE BeginPoll \/ UNCHANGED vars
  <2>1. /\ UNCHANGED <<pos, cap, buf, kept, sock, got>>
        /\ UNCHANGED <<counts, inbox, ended, closed>>
    BY <1>2 DEF BeginPoll, vars, copyVars, peerVars, sinkVars
  <2>2. Status' = Status
    BY <1>2 DEF BeginPoll, vars, Status
  <2>3. UNCHANGED P!pipeVars
    BY <2>1, <2>2, NothingMoved, PipeStutter
  <2>4. QED
    BY <2>3 DEF PipeStep
<1>3. CASE Fail
  <2>1. /\ UNCHANGED <<pos, cap, buf, kept, sock, got>>
        /\ UNCHANGED <<counts, inbox, ended, closed>>
    BY <1>3 DEF Fail, copyVars, peerVars, sinkVars
  <2>2. Status = "open" /\ Status' = "failed"
    BY <1>3 DEF Fail, Status
  <2>3. P!Next
    BY <2>1, <2>2, NothingMoved, PipeFail
  <2>4. QED
    BY <2>3 DEF PipeStep
<1>4. CASE HangUp \/ PeerStep
  BY <1>4, PeerPipe DEF PeerStep
<1>5. QED
  BY <1>1, <1>2, <1>3, <1>4 DEF Next, TaskStep

LEMMA InitPipe == Init => P!Init
<1> SUFFICES ASSUME Init PROVE P!Init
  OBVIOUS
<1>1. ASSUME NEW d \in Dirs PROVE Transit(d) = <<>> /\ Output(d) = <<>>
  <2>1. /\ kept[d] = <<>> /\ got[d] = <<>> /\ sock[d] = <<>> /\ pos[d] = 0 /\ cap[d] = 0
    BY DEF Init
  <2>2. Slice(d) = <<>>
    BY <2>1, SubSeqEmpty DEF Slice
  <2>3. <<>> \o <<>> = <<>>
    BY EmptySeq, ConcatEmptySeq
  <2>4. QED
    BY <2>1, <2>2, <2>3 DEF Transit, Output
<1>2. Status = "open"
  BY DEF Init, Status
<1>3. QED
  BY <1>1, <1>2 DEF Init, P!Init, Transit, Output, Slice, Status

\* ImplementsPipe: copy_bidirectional is a pair of pipes, whatever the sizes of
\* the buffers and the interleaving with the peers: no byte is lost, repeated or
\* reordered, a writer is closed after its last byte, and the counts are right.
THEOREM CopyImplementsPipe == Spec => ImplementsPipe
<1>1. Init => P!Init
  BY InitPipe
<1>2. IInv /\ [Next]_vars => [P!Next]_(P!pipeVars)
  BY NextPipe
<1>3. QED
  BY <1>1, <1>2, CopyInvariant, PTL DEF Spec, ImplementsPipe, P!Spec
=============================================================================
