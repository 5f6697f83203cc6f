---- MODULE MCConfig ----
(***************************************************************************)
(* Values of Config's constants for TLC: files made of the documented      *)
(* options, with values of the right and of the wrong type.                *)
(***************************************************************************)
EXTENDS Config

Words == proportions \cup {"./", "sample", "gone", "404.png", "stretch"}
Exist == {"./", "sample"}

Absent    == [type |-> "absent", n |-> 0, s |-> "./"]
Other     == [type |-> "other", n |-> 0, s |-> "./"]
Num(v)    == [type |-> "number", n |-> v, s |-> "./"]
Bool(v)   == [type |-> "boolean", n |-> v, s |-> "./"]
Str(w)    == [type |-> "string", n |-> 0, s |-> w]
File(p, r, m, b, u, l, f, d, e, a) ==
  [o \in Option |-> CASE o = "port" -> p [] o = "img_root" -> r [] o = "proportion" -> m
                      [] o = "true_bmp" -> b [] o = "no_support" -> u [] o = "log_level" -> l
                      [] o = "log_file" -> f [] o = "disk" -> d [] o = "404" -> e [] o = "max_age" -> a]

\* 1210 is the port of the sample file; 70000 and 70000 as a flag fill more than two bytes.
AnyFile ==
  {File(p, r, m, b, u, l, f, d, e, Num(86400)) :
     p \in {Absent, Num(1210), Num(70000)},
     r \in {Absent, Str("sample")},
     m \in {Absent, Num(1)} \cup {Str(w) : w \in proportions \cup {"stretch"}},
     b \in {Absent, Num(1), Num(70000)},
     u \in {Absent, Other, Str("gone")},
     l \in {Num(2)},
     f \in {Str("gone")},
     d \in {Absent, Bool(0), Num(0), Num(256)},
     e \in {Str("404.png"), Str("./")}}
====
