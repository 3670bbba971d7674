----------------------------- MODULE ParkToken -----------------------------
(***************************************************************************)
(* What a Parker/Unparker pair (src/src/parking.rs) promises its callers:  *)
(* one thread parks, any number of threads unpark, and between them lies   *)
(* a single token.                                                         *)
(*   - unpark() leaves the token behind and answers whether it was the     *)
(*     call that put it there;                                             *)
(*   - a park that returns true took the token, exactly one;               *)
(*   - a park that returns false gave up because of its timeout, and only  *)
(*     while there was no token to take;                                   *)
(*   - a park does not sleep on a token that nobody takes.                 *)
(* block_on() and the reactor thread are modelled over this specification; *)
(* module Parking shows that the code implements it.                       *)
(***************************************************************************)
CONSTANT Unparkers

VARIABLES token,   \* a notification is waiting to be consumed
          parked,  \* the owner is inside park(): its timeout, or "no"
          answer   \* answer[u]: what u's last unpark() returned

tokenVars == <<token, parked, answer>>

\* park() has no timeout; park_timeout(Some(d)) is "zero" or "some" by d = 0.
Timeouts == {"none", "zero", "some"}

Init ==
    /\ token = FALSE
    /\ parked = "no"
    /\ answer = [u \in Unparkers |-> FALSE]

Unpark(u) ==
    /\ token' = TRUE
    /\ answer' = [answer EXCEPT ![u] = ~token]
    /\ UNCHANGED parked

BeginPark(timeout) ==
    /\ parked = "no"
    /\ parked' = timeout
    /\ UNCHANGED <<token, answer>>

TakeToken ==
    /\ parked # "no"
    /\ token
    /\ token' = FALSE
    /\ parked' = "no"
    /\ UNCHANGED answer

GiveUp ==
    /\ parked \in {"zero", "some"}
    /\ ~token
    /\ parked' = "no"
    /\ UNCHANGED <<token, answer>>

Next ==
    \/ \E u \in Unparkers : Unpark(u)
    \/ \E timeout \in Timeouts : BeginPark(timeout)
    \/ TakeToken
    \/ GiveUp

Safety == Init /\ [][Next]_tokenVars

Spec == Safety /\ WF_tokenVars(TakeToken)
=============================================================================
