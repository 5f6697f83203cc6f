---- MODULE MCWorkerPool ----
(***************************************************************************)
(* Values of WorkerPool's constants for TLC.                               *)
(***************************************************************************)
EXTENDS WorkerPool

CONSTANTS w1, w2

TwoWorkers == {w1, w2}
====
