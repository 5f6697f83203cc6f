---- MODULE MCShowImage ----
(***************************************************************************)
(* Values of ShowImage's constants for TLC.  The names are those of the    *)
(* README's example: a stored base, and directives r, o and q on it.       *)
(***************************************************************************)
EXTENDS ShowImage, TLC

CONSTANTS w1, w2

TwoWorkers == {w1, w2}
AnyOrder   == Permutations(TwoWorkers)
Segs       == {"a", "b", "r", "o", "q"}
Good       == {"good"}

Nm(s, e) == [segs |-> s, ext |-> e]

\* A chain long enough for the search to give up before the base, with fallback
\* files that keep it going, and derivatives of another base.  No derivative is a
\* source of another.
ServeRequests == {Nm(<<"a", "r", "o", "q", "r", "o">>, "gif"), Nm(<<"b", "r">>, "bmp"), Nm(<<"b">>, "")}
ServeSource   == {Nm(<<"a", "r", "o", "q", "r">>, "bmp"), Nm(<<"a", "r", "o">>, "png"),
                  Nm(<<"a">>, "tiff"), Nm(<<"b">>, "jpg")}

\* A derivative, and a derivative of that derivative.  A tiff is found from the one
\* and, as the last format tried, from the other when the first is not there.
NestedRequests == {Nm(<<"a", "r">>, "png"), Nm(<<"a", "r", "q">>, "png")}
NestedSource   == {Nm(<<"a">>, "tiff"), Nm(<<"a", "r">>, "png")}

\* Derivatives of stored images only.
FlatRequests == {Nm(<<"a", "r">>, "png"), Nm(<<"a", "q">>, "jpg"), Nm(<<"a">>, "png")}
FlatSource   == {Nm(<<"a">>, "png"), Nm(<<"a">>, "gif")}
====
