---------------------------- MODULE MCWorkerPool ----------------------------
(* WorkerPool for TLC: the configurations of its runs.                     *)
EXTENDS WorkerPool

Cfg(concurrency, handlerScript, maxWorkerRestarts) ==
    [concurrency |-> concurrency, handlerScript |-> handlerScript,
     maxWorkerRestarts |-> maxWorkerRestarts]

\* A pool that replaces its worker, one that does not, and one of two workers.
SmallPools == {Cfg(1, TRUE, 1), Cfg(1, FALSE, 0), Cfg(2, TRUE, 1)}

OnePool == {Cfg(1, TRUE, 1)}

=============================================================================
