------------------------------ MODULE MCCopy ------------------------------
(* TLC instance of Copy. *)
EXTENDS Copy
=============================================================================
