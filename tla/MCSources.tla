---------------------------- MODULE MCSources ----------------------------
(* TLC instances of Sources. *)
EXTENDS Sources, TLC

CONSTANTS s1, s2, t1, t2

MCSymmetry == Permutations({s1, s2}) \cup Permutations({t1, t2})
=============================================================================
