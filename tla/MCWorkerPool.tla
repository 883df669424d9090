---------------------------- MODULE MCWorkerPool ----------------------------
(* Finite instances of WorkerPool; the bounds are the sizes of Jobs and
   Workers (a worker that died never returns, so Workers bounds restarts). *)
EXTENDS WorkerPool, TLC

CONSTANTS MaxJobs

MCJobs == 1 .. MaxJobs

WorkerSymmetry == Permutations(Workers \ Flaky)
=============================================================================
