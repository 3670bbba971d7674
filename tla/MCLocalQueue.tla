--------------------------- MODULE MCLocalQueue ---------------------------
(* TLC instance of LocalQueue: one owner, two thieves, a buffer of two slots *)
(* whose positions wrap around in the middle of every behaviour.            *)
EXTENDS LocalQueue, TLC

CONSTANTS w, t1, t2

MCThieves == {t1, t2}

MCSymmetry == Permutations(MCThieves)
=============================================================================
