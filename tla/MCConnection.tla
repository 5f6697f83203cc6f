---- MODULE MCConnection ----
(* Values of Connection's constants for TLC. *)
EXTENDS Connection

R(head, version, connection, body, length, posts, reads) ==
  [head |-> head, version |-> version, connection |-> connection, body |-> body, length |-> length,
   posts |-> posts, uri |-> TRUE, reads |-> reads, user |-> FALSE, closes |-> FALSE]

Get     == R("ok", "1.1", "none", 0, FALSE, FALSE, FALSE)
Post    == R("ok", "1.1", "none", 2, TRUE, TRUE, TRUE)
Image   == R("ok", "1.1", "none", 1, TRUE, TRUE, FALSE)
Chunked == R("ok", "1.1", "none", 1, FALSE, TRUE, TRUE)
Newer   == R("ok", "1.2", "keep-alive", 0, FALSE, FALSE, FALSE)
Signed  == [Get EXCEPT !.user = TRUE]
Bad     == R("malformed", "1.1", "none", 0, FALSE, FALSE, FALSE)
Binary  == R("control", "1.1", "none", 0, FALSE, FALSE, FALSE)
Huge    == R("endless", "1.1", "none", 0, FALSE, FALSE, FALSE)

All == {Get, Post, Image, Chunked, Newer, Signed, Bad, Binary, Huge}
Plain == {Get}
====
