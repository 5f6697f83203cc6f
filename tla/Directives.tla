------------------------------ MODULE Directives ------------------------------
(***************************************************************************)
(* apophnia.c: what the directives of a name make of their text, the check *)
(* for changed sources, which nothing calls, and the reading of inotify    *)
(* events.  Numbers stay below ten, so that int does not overflow.         *)
(***************************************************************************)
EXTENDS Text

Digits == <<"0", "1", "2", "3", "4", "5", "6", "7", "8", "9">>
IsDigit(c) == c \in ToSet(Digits)

\* The number in digits, atoi; 0 if there are none.
Value(digits) == FoldLeft(LAMBDA n, c : 10 * n + (CHOOSE d \in 0 .. 9 : Digits[d + 1] = c), 0, digits)
Atoi(s)       == Value(SubSeq(s, 1, Past(s, 1, ToSet(Digits)) - 1))

\* atoi_ptr: p or m, then digits, which it passes.  Mutant: m is passed and forgotten.
AtoiPtrWith(s, minus) ==
  LET first == IF At(s, 1) \in {"p", "m"} THEN 2 ELSE 1
      rest  == From(s, first)
  IN [n |-> (IF At(s, 1) = "m" THEN minus ELSE 1) * Atoi(rest), rest |-> From(rest, Past(rest, 1, ToSet(Digits)))]

AtoiPtr_NoSign(s) == AtoiPtrWith(s, 1)

AtoiPtr(s) == AtoiPtrWith(s, -1)

\* image_offset: the arguments of MagickCropImage, columns, rows, x and y, or <<>>.
ImageOffset(s) ==
  LET height == AtoiPtr(s)
      width  == AtoiPtr(Tail(height.rest))
      y      == AtoiPtr(width.rest)
      x      == AtoiPtr(y.rest)
  IN IF At(height.rest, 1) # "x" THEN <<>> ELSE <<width.n, height.n, x.n, y.n>>

\* image_quality.
ImageQuality(s) == Atoi(s)

\* image_resize: the arguments of MagickResizeImage, columns and rows.  Each x ends a height, what is
\* behind the last is the width, which is the height too when there is no x.
ImageResize(s) ==
  LET xs == {i \in DOMAIN s : s[i] = "x"}
      before == {i \in xs : i < Max(xs)}
      height == Atoi(From(s, IF before = {} THEN 1 ELSE Max(before) + 1))
      width  == Atoi(From(s, IF xs = {} THEN 1 ELSE Max(xs) + 1))
  IN [columns |-> IF xs = {} THEN width ELSE height, rows |-> width]

-----------------------------------------------------------------------------
(* check_for_change.  A name is base and directives; its file of length 0 is the source's.  files *)
(* gives the times of those that exist, by the number of directives.                              *)

\* The shorter names that were found, one after the other, until one is missing.
Found(n, files, most) ==
  {k \in 0 .. n - 1 : n - k <= most /\ \A j \in k .. n - 1 : j \in DOMAIN files}

\* What it unlinks.  If the first shorter name is missing, or there is none, test is not filled in:
\* garbage says whether it seems newer.  The last one found is kept.
Unlinked(n, time, files, most, garbage) ==
  LET found == Found(n, files, most)
      newer == IF found = {} THEN garbage ELSE files[Min(found)] > time
  IN IF newer THEN {n} \cup {k \in found : k > Min(found)} ELSE {}

-----------------------------------------------------------------------------
\* main_loop: events are given by their sizes, reads by their events.  The index i goes on from
\* where the last read ended; when that is not the edge of an event, what is read there is no event.
EdgesOf(events) == {FoldLeft(+, 0, SubSeq(events, 1, k)) : k \in 0 .. Len(events) - 1}
Length(events)  == FoldLeft(+, 0, events)

ReadEvents(m, events) ==
  CASE m.adrift                  -> m
    [] ~ m.adrift /\ m.i >= Length(events) -> [m EXCEPT !.seen = Append(@, {})]
    [] ~ m.adrift /\ m.i < Length(events) /\ m.i \in EdgesOf(events) ->
         [m EXCEPT !.i = Length(events), !.seen = Append(@, {e \in EdgesOf(events) : e >= m.i})]
    [] OTHER                     -> [m EXCEPT !.adrift = TRUE]

MainLoop(reads) == FoldLeft(ReadEvents, [i |-> 0, adrift |-> FALSE, seen |-> <<>>], reads)
====
