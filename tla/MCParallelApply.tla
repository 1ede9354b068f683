-------------------------- MODULE MCParallelApply --------------------------
(* ParallelApply for TLC: two processes of two threads, or one process     *)
(* with four threads.                                                      *)
EXTENDS ParallelApply

CONSTANTS p1, p2, t1, t2

TwoProcs == {p1, p2}
TwoThreads == {t1, t2}
=============================================================================
