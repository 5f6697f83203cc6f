---------------------------------- MODULE Uri ----------------------------------
(***************************************************************************)
(* What mongoose.c makes of a URI, a query, a cookie, a date and an        *)
(* address, each function followed by what it ought to be.  A character is *)
(* written with two hexadecimal digits; "%" escapes it.                    *)
(***************************************************************************)
EXTENDS Text

CONSTANTS
  Hex,     \* the characters that are hexadecimal digits
  CharOf,  \* the character two digits stand for
  HexOf,   \* the two digits url_encode writes for a character
  Plain    \* what url_encode does not escape

ASSUME HexAssumption == \A c \in DOMAIN HexOf : HexOf[c] \in Hex \X Hex /\ CharOf[HexOf[c]] = c

\* url_decode of the len characters of src from i on; the digits are looked for beyond them.
\* -1 when room - 1 is not enough.
RECURSIVE DecodeFrom(_, _, _, _, _, _)
DecodeFrom(src, len, i, out, room, form) ==
  LET Go(n, c) == DecodeFrom(src, len, i + n, Append(out, c), room, form)
  IN IF i > len \/ Len(out) >= room - 1 THEN [text |-> out, n |-> IF i > len THEN Len(out) ELSE -1]
     ELSE IF src[i] = "%" /\ At(src, i + 1) \in Hex /\ At(src, i + 2) \in Hex
     THEN Go(3, CharOf[<<src[i + 1], src[i + 2]>>])
     ELSE Go(1, IF form /\ src[i] = "+" THEN " " ELSE src[i])

\* Mutant of UrlDecode: + is a space in every URI.
UrlDecode_Plus(src, len, room, form) == DecodeFrom(src, len, 1, <<>>, room, TRUE)

UrlDecode(src, len, room, form) == DecodeFrom(src, len, 1, <<>>, room, form)

UrlEncode(src) ==
  FlattenSeq([i \in DOMAIN src |-> IF src[i] \in Plain THEN <<src[i]>> ELSE <<"%">> \o HexOf[src[i]]])

\* The loop of mg_get_var: the variable is found by the = behind its name.
GetVar(data, name, room) ==
  LET found == {p \in 1 .. Len(data) - Len(name) :
                  (p = 1 \/ data[p - 1] = "&") /\ data[p + Len(name)] = "=" /\ StartsAt(data, p, name)}
      p == Min(found) + Len(name) + 1
      value == UrlDecode(From(data, p), Until(data, p, {"&"}) - p, room, TRUE)
  IN IF found = {} THEN [text |-> <<>>, n |-> -1]
     ELSE IF value.n = -1 THEN [value EXCEPT !.n = -2] ELSE value

\* The pieces between separators.
RECURSIVE Pieces(_, _)
Pieces(s, c) ==
  LET end == Until(s, 1, {c})
  IN <<SubSeq(s, 1, end - 1)>> \o (IF end > Len(s) THEN <<>> ELSE Pieces(From(s, end + 1), c))

\* The value of the first name=value among the pieces.
VarOf(data, name) ==
  LET piece == Pieces(data, "&")
      found == {k \in DOMAIN piece : StartsAt(piece[k], 1, name \o <<"=">>)}
  IN IF found = {} THEN <<>> ELSE <<From(piece[Min(found)], Len(name) + 2)>>

\* Two quotation marks around a value are no part of it; one alone is.
Unquoted(v) == IF Len(v) >= 2 /\ Head(v) = "q" /\ Last(v) = "q" THEN SubSeq(v, 2, Len(v) - 1) ELSE v

\* The loop of mg_get_cookie: strstr finds the name in the middle of another one, too.
RECURSIVE CookieFrom(_, _, _)
CookieFrom(s, name, from) ==
  LET found == {i \in from .. Len(s) : StartsAt(s, i, name)}
      at    == Min(found) + Len(name)
      p     == Until(s, at + 1, {" "})
      end   == IF At(s, p - 1) = ";" THEN p - 2 ELSE p - 1
      v     == SubSeq(s, at + 1, end)
  IN IF found = {} THEN [value |-> <<>>, n |-> -1]
     ELSE IF At(s, at) # "=" THEN CookieFrom(s, name, at)
     ELSE [value |-> Unquoted(v), n |-> Len(Unquoted(v))]

GetCookie(s, name) == CookieFrom(s, name, 1)

\* convert_uri_to_file_name below the root, with the files that exist: the longest program
\* in front of a slash gets the rest as path_info.
FileName(uri, files, cgi) ==
  LET cuts == {p \in 2 .. Len(uri) : /\ uri[p] = "/" /\ SubSeq(uri, 1, p - 1) \in files
                                     /\ MatchPrefix(cgi, SubSeq(uri, 1, p - 1)) > 0}
  IN IF uri \in files \/ cuts = {} THEN [path |-> uri, info |-> <<>>]
     ELSE [path |-> SubSeq(uri, 1, Max(cuts) - 1), info |-> From(uri, Max(cuts))]

-----------------------------------------------------------------------------
(* Addresses, of Bits bits, and dates. *)

Bits == 3

\* parse_net leaves the bits behind the mask in net.
ParseNet(rule) == [net |-> rule.net, low |-> 2 ^ (Bits - rule.slash)]

\* The last rule that fits decides.  A malformed rule, -1, is left out.
CheckAcl(rules, ip) ==
  LET fits == {k \in DOMAIN rules : LET n == ParseNet(rules[k]) IN n.net = ip - (ip % n.low)}
  IN IF rules = <<>> THEN TRUE ELSE fits # {} /\ rules[Max(fits)].flag = "+"

DaysBefore  == <<0, 31, 59, 90, 120, 151, 181, 212, 243, 273, 304, 334>>
LeapYears(y) == (y \div 4) - (y \div 100) + (y \div 400)

\* parse_date_string in days: the result is this times 86400, in an int, and the time of day.
DateDays(y, m, d) ==
  IF y > 1970 THEN (y - 1970) * 365 + DaysBefore[m] + (d - 1) + LeapYears(y) - LeapYears(1970) ELSE 0

IsLeap(y) == y % 4 = 0 /\ (y % 100 # 0 \/ y % 400 = 0)

\* The days since the epoch, counted.
MonthDays(y, m) == CASE m \in {4, 6, 9, 11} -> 30 [] m = 2 -> IF IsLeap(y) THEN 29 ELSE 28 [] OTHER -> 31
EpochDays(y, m, d) == MapThenSumSet(LAMBDA n : IF IsLeap(n) THEN 366 ELSE 365, 1970 .. y - 1)
                      + MapThenSumSet(LAMBDA n : MonthDays(y, n), 1 .. m - 1) + d - 1
====
