---------------------------- MODULE MCBlockOn ----------------------------
(* TLC instances of BlockOn. *)
EXTENDS BlockOn, TLC

CONSTANTS b1, b2, u1

MCIoAndTimer == b1 :> {"io"} @@ b2 :> {"timer"}

MCAnything == b1 :> {"ext", "io", "timer"}
=============================================================================
