---------------------------- MODULE MCWorkerPool ----------------------------
(* One worker, so a channel of two jobs: a third Submit may have to wait.   *)
EXTENDS WorkerPool

CONSTANTS w1, j1, j2, j3, s1, s2

OneWorker == {w1}
ThreeJobs == {j1, j2, j3}
TwoStoppers == {s1, s2}
=============================================================================
