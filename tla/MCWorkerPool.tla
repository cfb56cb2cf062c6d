---------------------------- MODULE MCWorkerPool ----------------------------
(* TLC instances of the worker pool.                                         *)
EXTENDS WorkerPool, TLC

Symmetry == Permutations(Workers)
=============================================================================
