---- MODULE MCFileServer ----
(* A tree and requests for TLC: d/i is the index of d, s includes itself and f. *)
EXTENDS FileServer, TLC

Paths   == {"f", "d", "di", "s", "n", "nf"}
Parents == [p \in Paths |-> CASE p = "di" -> "d" [] p = "nf" -> "n" [] OTHER -> "root"]
Aboves  == [p \in Paths |-> CASE p = "di" -> <<"d">> [] p = "nf" -> <<"n">> [] OTHER -> <<>>]
Indexes == [p \in Paths |-> CASE p = "d" -> <<"di">> [] OTHER -> <<>>]
There(kind, data) == [kind |-> kind, data |-> data]
Trees   == [p \in Paths |-> CASE p = "d" -> There("dir", <<>>)
                              [] p = "f" -> There("file", <<Byte(0), Byte(0)>>)
                              [] p = "s" -> There("file", <<Include("s"), Byte(0), Include("f"), Include("s")>>)
                              [] OTHER   -> There("none", <<>>)]

Get(p) == [method |-> "GET", path |-> p, slash |-> FALSE, range |-> [n |-> 0, r1 |-> 0, r2 |-> 0],
           cond |-> "none", user |-> TRUE, redir |-> FALSE, length |-> 0, by |-> 0, at |-> 0, early |-> 0,
           expect |-> "none"]
Range(n, a, b) == [Get("f") EXCEPT !.range = [n |-> n, r1 |-> a, r2 |-> b]]
Put(p, len)    == [Get(p) EXCEPT !.method = "PUT", !.length = len, !.by = 1]

Requests ==
  {Get("f"), [Get("f") EXCEPT !.method = "HEAD"], Range(2, 0, 1), Range(2, 1, 3),
   [Get("f") EXCEPT !.cond = "tag"], [Get("f") EXCEPT !.cond = "since"],
   Get("d"), [Get("d") EXCEPT !.slash = TRUE], [Get("n") EXCEPT !.slash = TRUE], Get("s"), Get("di"),
   [Get("f") EXCEPT !.user = FALSE], [Get("f") EXCEPT !.redir = TRUE],
   [Get("f") EXCEPT !.method = "OPTIONS"], [Get("f") EXCEPT !.method = "PROPFIND"],
   Put("f", 2), [Put("f", 2) EXCEPT !.early = 1], [Put("f", 1) EXCEPT !.by = 2, !.early = 1], [Put("f", 1) EXCEPT !.at = 1], [Put("f", 0) EXCEPT !.at = 1],
   Put("f", -1), [Put("f", 1) EXCEPT !.expect = "other"],
   Put("nf", 1), [Put("n", 0) EXCEPT !.slash = TRUE], Put("di", 1), [Put("f", 1) EXCEPT !.user = FALSE],
   [Get("f") EXCEPT !.method = "DELETE"], [Get("d") EXCEPT !.method = "DELETE"]}

Later == {r \in Requests : r.cond # "none"}
Alike == Permutations(Worker)
====
