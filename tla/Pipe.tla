-------------------------------- MODULE Pipe --------------------------------
(***************************************************************************)
(* What copy_bidirectional of src/src/util/copy_bidirectional.rs promises: *)
(* in each direction the bytes of the reader come out at the writer, all   *)
(* of them, once and in order; the writer is closed after the last of      *)
(* them; and the result says how many there were.  After an error nothing  *)
(* more is moved.                                                          *)
(***************************************************************************)
EXTENDS Naturals, Sequences

CONSTANTS Dirs,
          Bytes,
          Capacity   \* bytes one direction can hold

VARIABLES input,    \* input[d]: bytes the reader of d has and that are not taken
          ended,    \* directions whose reader has no more to come
          transit,  \* taken and not yet handed on
          output,   \* everything handed on
          closed,   \* directions whose writer is closed
          status,   \* "open", "done" or "failed"
          counts    \* the result

pipeVars == <<input, ended, transit, output, closed, status, counts>>

Init ==
    /\ input = [d \in Dirs |-> <<>>]
    /\ ended = {}
    /\ transit = [d \in Dirs |-> <<>>]
    /\ output = [d \in Dirs |-> <<>>]
    /\ closed = {}
    /\ status = "open"
    /\ counts = <<>>

\* The other side of the reader
Arrive(d, b) ==
    /\ d \notin ended
    /\ input' = [input EXCEPT ![d] = Append(@, b)]
    /\ UNCHANGED <<ended, transit, output, closed, status, counts>>

End(d) ==
    /\ ended' = ended \cup {d}
    /\ UNCHANGED <<input, transit, output, closed, status, counts>>

Take(d, n) ==
    /\ status = "open"
    /\ n <= Len(input[d])
    /\ Len(transit[d]) + n <= Capacity
    /\ input' = [input EXCEPT ![d] = SubSeq(@, n + 1, Len(@))]
    /\ transit' = [transit EXCEPT ![d] = @ \o SubSeq(input[d], 1, n)]
    /\ UNCHANGED <<ended, output, closed, status, counts>>

HandOn(d, n) ==
    /\ status = "open"
    /\ d \notin closed
    /\ n <= Len(transit[d])
    /\ transit' = [transit EXCEPT ![d] = SubSeq(@, n + 1, Len(@))]
    /\ output' = [output EXCEPT ![d] = @ \o SubSeq(transit[d], 1, n)]
    /\ UNCHANGED <<input, ended, closed, status, counts>>

Close(d) ==
    /\ status = "open"
    /\ d \in ended
    /\ input[d] = <<>>
    /\ transit[d] = <<>>
    /\ closed' = closed \cup {d}
    /\ UNCHANGED <<input, ended, transit, output, status, counts>>

Finish ==
    /\ status = "open"
    /\ closed = Dirs
    /\ status' = "done"
    /\ counts' = [d \in Dirs |-> Len(output[d])]
    /\ UNCHANGED <<input, ended, transit, output, closed>>

Fail ==
    /\ status = "open"
    /\ status' = "failed"
    /\ UNCHANGED <<input, ended, transit, output, closed, counts>>

Next ==
    \/ \E d \in Dirs : End(d) \/ Close(d)
    \/ \E d \in Dirs, b \in Bytes : Arrive(d, b)
    \/ \E d \in Dirs, n \in 1..Capacity : Take(d, n) \/ HandOn(d, n)
    \/ Finish
    \/ Fail

Spec == Init /\ [][Next]_pipeVars
=============================================================================
