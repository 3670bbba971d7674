---------------------------- MODULE MCExecutor ----------------------------
(* TLC instances of Executor: small sets of threads and tasks. *)
EXTENDS Executor, TLC

CONSTANTS w1, w2, o1, t1, t2, t3

MCOneWorker == {w1}
MCTwoWorkers == {w1, w2}
MCOutsiders == {o1}
MCTwoTasks == {t1, t2}
MCThreeTasks == {t1, t2, t3}

MCSymmetry == Permutations({w1, w2}) \cup Permutations({t1, t2})
=============================================================================
