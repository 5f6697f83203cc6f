-------------------------------- MODULE Buffers --------------------------------
(***************************************************************************)
(* The functions of mongoose.c that cut a stream into buffers or fill one, *)
(* beside those of Scans: formatted output, the throttle, uploads, base64. *)
(* Sizes are parameters, far smaller than in the code, so that every       *)
(* boundary is met.                                                        *)
(***************************************************************************)
EXTENDS Text

\* alloc_vprintf and mg_vprintf: of len bytes handed to mg_write, how many are the message's.
Printed(len, size) == IF len > size THEN len ELSE Min({len, size - 1})

\* mg_write under a throttle, when the client takes what it is sent: the pieces sent, the first two
\* of them at once.  used counts the bytes of the current second.  allowed may be below 0; push
\* then sends nothing and the loop is skipped.  Mutant: what is left over is not cut.
RECURSIVE PiecesOf(_, _)
PiecesOf(len, throttle) == IF len = 0 THEN <<>>
                           ELSE LET n == Min({len, throttle}) IN <<n>> \o PiecesOf(len - n, throttle)

ThrottledWith(len, throttle, used, most) ==
  LET allowed == Min({throttle - used, len})
  IN IF allowed < 0 THEN <<>> ELSE <<allowed>> \o PiecesOf(len - allowed, most)

Throttled_OnlyFirst(len, throttle, used) == ThrottledWith(len, throttle, used, len + 1)

Throttled(len, throttle, used) == ThrottledWith(len, throttle, used, throttle)

-----------------------------------------------------------------------------
(* mg_upload.  A part's head is one character, "\r\n--boundary" the two of Edge. *)

Edge == <<"e1", "e2">>

\* mg_read until the buffer is full or the body ends.
Filled(u) == LET n == Min({Len(u.in), u.size - Len(u.buf)})
             IN [u EXCEPT !.buf = @ \o SubSeq(u.in, 1, n), !.in = From(u.in, n + 1)]

Write(u, n, skip) == [u EXCEPT !.files[Len(u.files)] = @ \o SubSeq(u.buf, 1, n), !.buf = From(u.buf, n + skip + 1)]

\* The loop over a file: the first boundary that has something behind it ends the data; then
\* all is written but what may be the front of a boundary.
RECURSIVE CopyFile(_)
CopyFile(u) ==
  LET edges == {i \in 1 .. Len(u.buf) - Len(Edge) : StartsAt(u.buf, i, Edge)}
      v == IF edges = {} THEN u ELSE [Write(u, Min(edges) - 1, Len(Edge)) EXCEPT !.uploaded = @ + 1]
      w == IF Len(v.buf) > Len(Edge) THEN Write(v, Len(v.buf) - Len(Edge), 0) ELSE v
      more == Filled(w)
  IN IF more = w THEN w ELSE CopyFile(more)

RECURSIVE UploadFrom(_)
UploadFrom(u) ==
  LET full == Filled(u)
  IN IF At(full.buf, 1) # "head" THEN full
     ELSE UploadFrom(CopyFile([full EXCEPT !.buf = Tail(@), !.files = Append(@, <<>>)]))

Upload(body, size) == UploadFrom([in |-> body, buf |-> <<>>, size |-> size, files |-> <<>>, uploaded |-> 0])

-----------------------------------------------------------------------------
\* base64_encode, in numbers below 64; Pad is "=".
Pad == 64
Base64(src) ==
  LET Byte(i)  == IF i \in DOMAIN src THEN src[i] ELSE 0
      Group(i) == LET a == Byte(i) b == Byte(i + 1) c == Byte(i + 2)
                  IN <<a \div 4, ((a % 4) * 16) + (b \div 16)>>
                     \o (IF i + 1 <= Len(src) THEN <<((b % 16) * 4) + (c \div 64)>> ELSE <<Pad>>)
                     \o (IF i + 2 <= Len(src) THEN <<c % 64>> ELSE <<Pad>>)
  IN FlattenSeq([k \in 1 .. (Len(src) + 2) \div 3 |-> Group(3 * k - 2)])

\* The numbers whose bits are those of the bytes.
Sextets(src) ==
  LET Bit(n) == LET byte == (n \div 8) + 1
                IN IF byte > Len(src) THEN 0 ELSE (src[byte] \div (2 ^ (7 - (n % 8)))) % 2
  IN [k \in 1 .. (8 * Len(src) + 5) \div 6 |->
        MapThenSumSet(LAMBDA n : Bit(6 * (k - 1) + n) * 2 ^ (5 - n), 0 .. 5)]
====
