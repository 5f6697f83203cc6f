---- MODULE MCNotFound ----
(***************************************************************************)
(* Values of NotFound's constants for TLC.                                 *)
(***************************************************************************)
EXTENDS NotFound

CONSTANTS w1, w2

TwoWorkers == {w1, w2}
ThreeSizes == 0 .. 2
AllKinds   == {"file", "dir", "absent"}
====
