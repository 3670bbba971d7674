----------------------------- MODULE MCParking -----------------------------
(* TLC instance of Parking: one owner, three unparkers. *)
EXTENDS Parking

CONSTANTS u1, u2, u3

MCUnparkers == {u1, u2, u3}
=============================================================================
