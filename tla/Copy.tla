-------------------------------- MODULE Copy --------------------------------
(***************************************************************************)
(* CopyBuffer and CopyBidirectional of src/src/util: one task moves bytes  *)
(* both ways between two streams.  Every step of the task is one call of   *)
(* poll_read, poll_write, poll_flush or poll_close together with what the  *)
(* code does with the answer; the streams change between the calls.        *)
(*                                                                         *)
(* The writer of a direction in Buffered keeps bytes back until it is      *)
(* flushed or full, loses them when it is closed, and closes only when the *)
(* connection has room for a last word; the others are like TcpStream,     *)
(* whose flush has nothing to do and whose close is immediate.  Peer A     *)
(* sends bytes, and may wait for all of them to come back before it ends;  *)
(* peer B sends back what it receives.  The reader of "ba" thus depends on *)
(* what the writer of "ab" lets through.                                   *)
(***************************************************************************)
EXTENDS Naturals, Sequences

CONSTANTS BufSize,   \* length of CopyBuffer.buf (2048)
          KeepCap,   \* bytes a buffered writer keeps back
          SockCap,   \* bytes a connection holds on the way to the peer
          MaxBytes,  \* bound: bytes sent by peer A
          Buffered   \* directions with a buffered writer

ASSUME BoundsAssumption ==
    /\ {BufSize, SockCap} \subseteq Nat \ {0}
    /\ {KeepCap, MaxBytes} \subseteq Nat
    /\ Buffered \subseteq {"ab", "ba"}

VARIABLES state,      \* state[d]: TransferState of direction d
          readDone, pos, cap, amt, needFlush, buf,  \* CopyBuffer of d
          task,       \* "asleep", "poll", "done" or "failed"
          cur,        \* direction the current poll is at
          flushing,   \* it is at the flush after a pending read
          woken,      \* the waker of the task has been called
          reg,        \* readers and writers that hold its waker
          counts,     \* the result
          inbox,      \* inbox[d]: bytes the reader of d has
          ended,      \* directions whose reader reports the end after them
          kept, sock, \* bytes in the writer of d and on the way to the peer
          closed,     \* directions whose writer is closed
          got,        \* got[d]: bytes the peer has received
          sent        \* sent[d]: number of bytes sent to the reader of d

Dirs == {"ab", "ba"}

copyVars == <<state, readDone, pos, cap, amt, needFlush, buf>>
peerVars == <<inbox, ended, got, sent>>
sinkVars == <<kept, sock, closed>>
vars == <<copyVars, task, cur, flushing, woken, reg, counts, peerVars, sinkVars>>

Init ==
    /\ state = [d \in Dirs |-> "Running"]
    /\ readDone = [d \in Dirs |-> FALSE]
    /\ pos = [d \in Dirs |-> 0]
    /\ cap = [d \in Dirs |-> 0]
    /\ amt = [d \in Dirs |-> 0]
    /\ needFlush = [d \in Dirs |-> FALSE]
    /\ buf = [d \in Dirs |-> [i \in 1..BufSize |-> 0]]
    /\ task = "poll"
    /\ cur = "ab"
    /\ flushing = FALSE
    /\ woken = FALSE
    /\ reg = {}
    /\ counts = <<>>
    /\ inbox = [d \in Dirs |-> <<>>]
    /\ ended = {}
    /\ kept = [d \in Dirs |-> <<>>]
    /\ sock = [d \in Dirs |-> <<>>]
    /\ closed = {}
    /\ got = [d \in Dirs |-> <<>>]
    /\ sent = [d \in Dirs |-> 0]

Least(m, n) == IF m < n THEN m ELSE n

----------------------------------------------------------------------------
(* CopyBidirectional::poll around the directions *)

\* Mutant: a direction that waits ends the poll.
FollowsIfReady(d) == d = "ab" /\ state'[d] = "Done"

\* a to b is followed by b to a, whatever came of it.
Follows(d) == d = "ab"

\* Direction d has returned.
NextDirection(d) ==
    /\ flushing' = FALSE
    /\ \/ /\ Follows(d)
          /\ cur' = "ba"
          /\ UNCHANGED <<task, counts>>
       \/ /\ ~Follows(d)
          /\ cur' = "ab"
          /\ \/ /\ \A e \in Dirs : state'[e] = "Done"
                /\ task' = "done"
                /\ counts' = amt'
             \/ /\ \E e \in Dirs : state'[e] # "Done"
                /\ task' = "asleep"
                /\ UNCHANGED counts

\* The call of d has returned Pending, with the waker left at its reader or writer.
Pending(d, side) ==
    /\ reg' = reg \cup {<<d, side>>}
    /\ UNCHANGED copyVars

Same == UNCHANGED <<task, cur, flushing, counts>>

At(d, st) == task = "poll" /\ cur = d /\ state[d] = st

\* A poll, because the task was woken or for any other reason
BeginPoll ==
    /\ task = "asleep"
    /\ task' = "poll"
    /\ woken' = FALSE
    /\ UNCHANGED <<copyVars, cur, flushing, reg, counts, peerVars, sinkVars>>

----------------------------------------------------------------------------
(* CopyBuffer::poll_copy *)

AtRead(d)  == At(d, "Running") /\ ~flushing /\ pos[d] = cap[d] /\ ~readDone[d]
AtWrite(d) == At(d, "Running") /\ pos[d] < cap[d]
AtFlush(d) == At(d, "Running") /\ ~flushing /\ pos[d] = cap[d] /\ readDone[d]

\* poll_read: n bytes overwrite the start of the buffer.
PollRead(d, n) ==
    /\ buf' = [buf EXCEPT ![d] = [i \in 1..BufSize |->
                                    IF i <= n THEN inbox[d][i] ELSE @[i]]]
    /\ inbox' = [inbox EXCEPT ![d] = SubSeq(@, n + 1, Len(@))]

Read(d) ==
    /\ AtRead(d)
    /\ \E n \in 1..Least(BufSize, Len(inbox[d])) :
          /\ PollRead(d, n)
          /\ pos' = [pos EXCEPT ![d] = 0]
          /\ cap' = [cap EXCEPT ![d] = n]
    /\ Same
    /\ UNCHANGED <<state, readDone, amt, needFlush, woken, reg, ended, got, sent, sinkVars>>

ReadEnd(d) ==
    /\ AtRead(d)
    /\ inbox[d] = <<>>
    /\ d \in ended
    /\ readDone' = [readDone EXCEPT ![d] = TRUE]
    /\ Same
    /\ UNCHANGED <<state, pos, cap, amt, needFlush, buf, woken, reg, peerVars, sinkVars>>

ReadPending(d) ==
    /\ AtRead(d)
    /\ inbox[d] = <<>>
    /\ d \notin ended
    /\ Pending(d, "reader")
    /\ \/ /\ needFlush[d]
          /\ flushing' = TRUE
          /\ UNCHANGED <<task, cur, counts>>
       \/ /\ ~needFlush[d]
          /\ NextDirection(d)
    /\ UNCHANGED <<woken, peerVars, sinkVars>>

\* The bytes offered to the writer
Slice(d) == SubSeq(buf[d], pos[d] + 1, cap[d])

\* Mutant: the bytes offered are counted.
CountOffered(d, i) == amt' = [amt EXCEPT ![d] = @ + Len(Slice(d))]

Count(d, i) == amt' = [amt EXCEPT ![d] = @ + i]

\* What the writer of d can do with some bytes: keep them or pass them on
Room(d) ==
    IF d \in Buffered THEN KeepCap - Len(kept[d]) ELSE SockCap - Len(sock[d])

\* poll_write
PollWrite(d, bytes) ==
    \/ /\ d \in Buffered
       /\ kept' = [kept EXCEPT ![d] = @ \o bytes]
       /\ UNCHANGED sock
    \/ /\ d \notin Buffered
       /\ sock' = [sock EXCEPT ![d] = @ \o bytes]
       /\ UNCHANGED kept

Write(d) ==
    /\ AtWrite(d)
    /\ \E i \in 1..Least(Len(Slice(d)), Room(d)) :
          /\ PollWrite(d, SubSeq(Slice(d), 1, i))
          /\ pos' = [pos EXCEPT ![d] = @ + i]
          /\ Count(d, i)
    /\ needFlush' = [needFlush EXCEPT ![d] = TRUE]
    /\ Same
    /\ UNCHANGED <<state, readDone, cap, buf, woken, reg, closed, peerVars>>

\* poll_flush: part of what is kept goes out, and it is Ready when that is all.
PollFlush(d) ==
    LET n == Least(Len(kept[d]), SockCap - Len(sock[d]))
    IN  /\ kept' = [kept EXCEPT ![d] = SubSeq(@, n + 1, Len(@))]
        /\ sock' = [sock EXCEPT ![d] = @ \o SubSeq(kept[d], 1, n)]
        /\ UNCHANGED closed

Flushed(d) == kept'[d] = <<>>

\* A buffered writer that is full writes out what it keeps before it takes more.
WriteOut(d) ==
    /\ AtWrite(d)
    /\ d \in Buffered
    /\ Room(d) = 0
    /\ Len(sock[d]) < SockCap
    /\ PollFlush(d)
    /\ Same
    /\ UNCHANGED <<copyVars, woken, reg, peerVars>>

WritePending(d) ==
    /\ AtWrite(d)
    /\ Room(d) = 0
    /\ Len(sock[d]) = SockCap
    /\ Pending(d, "writer")
    /\ NextDirection(d)
    /\ UNCHANGED <<woken, peerVars, sinkVars>>

\* Mutant: the flag is cleared before the flush is through.
FlushAskedOnce(d) ==
    /\ needFlush' = [needFlush EXCEPT ![d] = FALSE]
    /\ reg' = IF Flushed(d) THEN reg ELSE reg \cup {<<d, "writer">>}
    /\ UNCHANGED <<state, readDone, pos, cap, amt, buf>>

FlushAnswered(d) ==
    \/ /\ Flushed(d)
       /\ needFlush' = [needFlush EXCEPT ![d] = FALSE]
       /\ UNCHANGED <<state, readDone, pos, cap, amt, buf, reg>>
    \/ /\ ~Flushed(d)
       /\ Pending(d, "writer")

\* The flush after a pending read
FlushWaiting(d) ==
    /\ At(d, "Running")
    /\ flushing
    /\ PollFlush(d)
    /\ FlushAnswered(d)
    /\ NextDirection(d)
    /\ UNCHANGED <<woken, peerVars>>

\* Mutant: the end of the reader ends the transfer.
FinalFlushSkipped(d) ==
    /\ AtFlush(d)
    /\ state' = [state EXCEPT ![d] = "Close"]
    /\ Same
    /\ UNCHANGED <<readDone, pos, cap, amt, needFlush, buf, reg, woken, peerVars, sinkVars>>

\* The flush at the end; TransferState becomes Close.
FinalFlush(d) ==
    /\ AtFlush(d)
    /\ PollFlush(d)
    /\ \/ /\ Flushed(d)
          /\ state' = [state EXCEPT ![d] = "Close"]
          /\ Same
          /\ UNCHANGED <<readDone, pos, cap, amt, needFlush, buf, reg>>
       \/ /\ ~Flushed(d)
          /\ Pending(d, "writer")
          /\ NextDirection(d)
    /\ UNCHANGED <<woken, peerVars>>

----------------------------------------------------------------------------
(* transfer_one_direction after the copy *)

\* poll_close: shutdown(Shutdown::Write) of a TcpStream
PollClose(d) ==
    /\ closed' = closed \cup {d}
    /\ kept' = [kept EXCEPT ![d] = <<>>]
    /\ UNCHANGED sock

CloseWaits(d) == d \in Buffered /\ Len(sock[d]) = SockCap

Close(d) ==
    /\ At(d, "Close")
    /\ ~CloseWaits(d)
    /\ PollClose(d)
    /\ state' = [state EXCEPT ![d] = "Done"]
    /\ Same
    /\ UNCHANGED <<readDone, pos, cap, amt, needFlush, buf, woken, reg, peerVars>>

ClosePending(d) ==
    /\ At(d, "Close")
    /\ CloseWaits(d)
    /\ Pending(d, "writer")
    /\ NextDirection(d)
    /\ UNCHANGED <<woken, peerVars, sinkVars>>

Done(d) ==
    /\ At(d, "Done")
    /\ UNCHANGED copyVars
    /\ NextDirection(d)
    /\ UNCHANGED <<woken, reg, peerVars, sinkVars>>

\* An error of any call, a write of zero bytes included, ends the whole poll.
Fail ==
    /\ task = "poll"
    /\ state[cur] # "Done"
    /\ task' = "failed"
    /\ UNCHANGED <<copyVars, cur, flushing, woken, reg, counts, peerVars, sinkVars>>

DirStep(d) ==
    \/ Read(d) \/ ReadEnd(d) \/ ReadPending(d)
    \/ Write(d) \/ WriteOut(d) \/ WritePending(d)
    \/ FlushWaiting(d) \/ FinalFlush(d)
    \/ Close(d) \/ ClosePending(d) \/ Done(d)

TaskStep == \E d \in Dirs : DirStep(d)

----------------------------------------------------------------------------
(* The streams and the peers *)

\* The stream calls the wakers left at one of its sides.
Ready(d, side) ==
    /\ woken' = (woken \/ <<d, side>> \in reg)
    /\ reg' = reg \ {<<d, side>>}

\* The peer behind the reader of d sends byte b.
Send(d, b) ==
    /\ inbox' = [inbox EXCEPT ![d] = Append(@, b)]
    /\ sent' = [sent EXCEPT ![d] = @ + 1]
    /\ Ready(d, "reader")
    /\ UNCHANGED <<copyVars, task, cur, flushing, counts, ended, got, sinkVars>>

SendA == sent["ab"] < MaxBytes /\ "ab" \notin ended /\ Send("ab", sent["ab"] + 1)

EchoB == sent["ba"] < Len(got["ab"]) /\ Send("ba", got["ab"][sent["ba"] + 1])

\* It sends no more.
End(d) ==
    /\ d \notin ended
    /\ ended' = ended \cup {d}
    /\ Ready(d, "reader")
    /\ UNCHANGED <<copyVars, task, cur, flushing, counts, inbox, got, sent, sinkVars>>

\* A may end at any time and has to when everything has come back.
HangUp == End("ab")

EndA == Len(got["ba"]) = MaxBytes /\ End("ab")

EndB ==
    /\ "ab" \in closed
    /\ sock["ab"] = <<>>
    /\ sent["ba"] = Len(got["ab"])
    /\ End("ba")

\* A byte reaches the peer of d; the connection has room again.
Receive(d) ==
    /\ sock[d] # <<>>
    /\ sock' = [sock EXCEPT ![d] = Tail(@)]
    /\ got' = [got EXCEPT ![d] = Append(@, Head(sock[d]))]
    /\ Ready(d, "writer")
    /\ UNCHANGED <<copyVars, task, cur, flushing, counts, inbox, ended, sent, kept, closed>>

PeerStep == SendA \/ EchoB \/ EndA \/ EndB \/ \E d \in Dirs : Receive(d)

Next == BeginPoll \/ TaskStep \/ Fail \/ HangUp \/ PeerStep

\* A task that is woken is polled and runs, and peers do what they have to do.
Fairness ==
    /\ WF_vars(TaskStep)
    /\ WF_vars(woken /\ BeginPoll)
    /\ WF_vars(PeerStep)

Spec == Init /\ [][Next]_vars /\ Fairness

----------------------------------------------------------------------------
(* Properties *)

\* Every variable keeps its type, and the positions of a CopyBuffer are
\* positions of its buffer.
TypeOK ==
    /\ state \in [Dirs -> {"Running", "Close", "Done"}]
    /\ readDone \in [Dirs -> BOOLEAN]
    /\ needFlush \in [Dirs -> BOOLEAN]
    /\ cap \in [Dirs -> 0..BufSize]
    /\ \A d \in Dirs : pos[d] \in 0..cap[d]
    /\ amt \in [Dirs -> 0..MaxBytes]
    /\ buf \in [Dirs -> [1..BufSize -> 0..MaxBytes]]
    /\ task \in {"asleep", "poll", "done", "failed"}
    /\ cur \in Dirs
    /\ flushing \in BOOLEAN
    /\ woken \in BOOLEAN
    /\ reg \subseteq Dirs \X {"reader", "writer"}
    /\ ended \cup closed \subseteq Dirs
    /\ \A d \in Dirs : Len(kept[d]) <= KeepCap /\ Len(sock[d]) <= SockCap

\* A task that sleeps has left its waker wherever something can happen that lets
\* it go on, in both directions: at the writer while bytes are not written or not
\* flushed or the writer not closed, and at the reader while it has not ended and
\* the buffer is empty.
WaitsEverywhere ==
    task = "asleep" /\ ~woken =>
        \A d \in {e \in Dirs : state[e] # "Done"} :
            /\ pos[d] < cap[d] \/ readDone[d] \/ needFlush[d] => <<d, "writer">> \in reg
            /\ pos[d] = cap[d] /\ ~readDone[d] => <<d, "reader">> \in reg

\* Two peers that wait for each other's bytes, with the copy between them, are
\* done in the end: no byte stays in a buffer while the reader is waited for.
Completes == <>(task \in {"done", "failed"})

P == INSTANCE Pipe WITH
        Bytes    <- 1..MaxBytes,
        Capacity <- BufSize + KeepCap,
        input    <- inbox,
        transit  <- [d \in Dirs |-> kept[d] \o SubSeq(buf[d], pos[d] + 1, cap[d])],
        output   <- [d \in Dirs |-> got[d] \o sock[d]],
        status   <- IF task \in {"done", "failed"} THEN task ELSE "open"

\* The copy is a pair of pipes: short reads and writes, a stale rest of the
\* buffer, flushes that take several polls and the closing of one direction
\* while the other goes on neither lose, repeat nor reorder a byte, a writer is
\* closed after the last byte, and the counts are those of the bytes moved.
ImplementsPipe == P!Spec
=============================================================================
