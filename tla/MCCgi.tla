---- MODULE MCCgi ----
(* Programs for TLC. *)
EXTENDS Cgi

Run(script, post, length, early, expect) ==
  [script |-> script, post |-> post, length |-> length, early |-> early, expect |-> expect]

Requests == {Run(<<"head", "out">>, FALSE, 0, 0, "none"),          \* reads nothing
             Run(<<"read", "bad">>, TRUE, 2, 1, "none"),           \* reads less than was announced
             Run(<<"drain", "head">>, TRUE, 1, 0, "none"),         \* reads to the end
             Run(<<"head">>, TRUE, 1, 1, "other"),                 \* has its client wait
             Run(<<"head", "out", "read">>, TRUE, 2, 2, "none")}   \* writes first
====
