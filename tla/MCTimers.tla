----------------------------- MODULE MCTimers -----------------------------
(* TLC instance of Timers. *)
EXTENDS Timers

CONSTANTS x1, w1, w2
=============================================================================
