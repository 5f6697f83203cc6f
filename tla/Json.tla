--------------------------------- MODULE Json ---------------------------------
(***************************************************************************)
(* cJSON.c: the parser and the printer.  A text is a sequence of           *)
(* characters; "q" is the quotation mark, "\\" the backslash, "nl" and     *)
(* "tab" control characters with an escape, "ctl" one without.             *)
(*                                                                         *)
(* A parser returns the item and the place it stopped at, or Fail.  It     *)
(* never looks for the end of the text before it steps: Beyond says that   *)
(* it has gone past it.  Doubles are a mantissa and a power of ten.        *)
(***************************************************************************)
EXTENDS Integers, Sequences, SequencesExt, FiniteSetsExt

Digits  == <<"0", "1", "2", "3", "4", "5", "6", "7", "8", "9">>
IsDigit(c) == c \in ToSet(Digits)
DigitOf(c) == CHOOSE d \in 0 .. 9 : Digits[d + 1] = c

Escape   == [nl |-> "n", tab |-> "t", q |-> "q"] @@ ("\\" :> "\\")    \* what print_string_ptr writes
Control  == {"nl", "tab", "ctl", "end"}                               \* below the space; "end" is the NUL
White    == {" ", "nl", "tab", "ctl"}                                 \* and the NUL, which skip passes too

At(s, i)   == IF i \in DOMAIN s THEN s[i] ELSE "end"
Item(type) == [type |-> type, text |-> <<>>, num |-> <<0, 0>>, kids |-> <<>>, key |-> <<>>]
Str(text)  == [Item("string") EXCEPT !.text = text]
List(type, kids) == [Item(type) EXCEPT !.kids = kids]
Null       == Item("null")
Fail       == [item |-> Null, at |-> 0]
Beyond     == [item |-> Null, at |-> -1]
Got(item, at) == [item |-> item, at |-> at]

\* skip: the NUL is white to it, so at the end of the text it leaves the text.
Skip(s, i) ==
  LET dark == {j \in i .. Len(s) : s[j] \notin White}
  IN IF i <= 0 THEN i ELSE IF dark = {} THEN -1 ELSE Min(dark)

-----------------------------------------------------------------------------
(* Numbers and strings. *)

RECURSIVE DigitsFrom(_, _, _)
DigitsFrom(s, i, n) == IF IsDigit(At(s, i)) THEN DigitsFrom(s, i + 1, n * 10 + DigitOf(s[i])) ELSE [n |-> n, at |-> i]

\* What a character counts for as a digit: its code, less that of 0.
Codes    == [c \in {"nl", "tab", "ctl"} |-> IF c = "nl" THEN -38 ELSE IF c = "tab" THEN -39 ELSE -47]
            @@ (" " :> -16) @@ ("q" :> -14) @@ ("+" :> -5) @@ ("," :> -4) @@ ("-" :> -3) @@ ("." :> -2)
            @@ (":" :> 10) @@ ("E" :> 21) @@ ("[" :> 43) @@ ("\\" :> 44) @@ ("]" :> 45) @@ ("e" :> 53)
            @@ ("n" :> 62) @@ ("{" :> 75) @@ ("}" :> 77)
Count(c) == IF IsDigit(c) THEN DigitOf(c) ELSE Codes[c]

\* parse_number.  Behind a point one character is taken, whatever it is.
ParseNumber(s, i) ==
  LET neg   == At(s, i) = "-"
      first == IF neg THEN i + 1 ELSE i
      zero  == IF At(s, first) = "0" THEN first + 1 ELSE first
      whole == IF At(s, zero) \in ToSet(Digits) \ {"0"} THEN DigitsFrom(s, zero, 0) ELSE [n |-> 0, at |-> zero]
      point == At(s, whole.at) = "."
      taken == whole.at + 1
      frac  == IF point THEN DigitsFrom(s, taken + 1, whole.n * 10 + Count(s[taken])) ELSE whole
      scale == IF point THEN taken - frac.at ELSE 0
      e     == At(s, frac.at) \in {"e", "E"}
      sign  == IF e /\ At(s, frac.at + 1) = "-" THEN -1 ELSE 1
      exp   == IF e THEN DigitsFrom(s, frac.at + (IF At(s, frac.at + 1) \in {"+", "-"} THEN 2 ELSE 1), 0)
               ELSE [n |-> 0, at |-> frac.at]
  IN IF point /\ At(s, taken) = "end" THEN Beyond
     ELSE Got([Item("number") EXCEPT !.num = <<IF neg THEN -frac.n ELSE frac.n, scale + sign * exp.n>>], exp.at)

\* parse_string from the character behind the quotation mark.  An escape takes the next
\* character, the NUL too; \u is left out.  Without its closing mark a string is accepted.
RECURSIVE StringFrom(_, _, _)
StringFrom(s, i, out) ==
  LET c == At(s, i)
      next == At(s, i + 1)
  IN CASE c = "q"        -> Got(Str(out), i + 1)
       [] c \in Control  -> Got(Str(out), i)
       [] c = "\\" /\ next = "end" -> Beyond
       [] c = "\\" /\ next # "end" ->
            StringFrom(s, i + 2, Append(out, CASE next = "n" -> "nl" [] next = "t" -> "tab" [] OTHER -> next))
       [] OTHER          -> StringFrom(s, i + 1, Append(out, c))

ParseString(s, i) == IF At(s, i) = "q" THEN StringFrom(s, i + 1, <<>>) ELSE Fail

\* print_string_ptr.  Mutant: the backslash is not escaped.
PrintStringWith(text, plain) ==
  LET Written(c) == IF c \in plain \/ c \notin DOMAIN Escape \cup Control THEN <<c>>
                    ELSE IF c \in DOMAIN Escape THEN <<"\\", Escape[c]>> ELSE <<>>
  IN <<"q">> \o FlattenSeq([i \in DOMAIN text |-> Written(text[i])]) \o <<"q">>

PrintString_NoEscape(text) == PrintStringWith(text, {"\\"})

PrintString(text) == PrintStringWith(text, {})

\* What it allocates for that.
StringRoom(text) == Len(text) + Cardinality({i \in DOMAIN text : text[i] \in DOMAIN Escape \cup Control}) + 3

\* sprintf %d of print_number.
RECURSIVE DigitsOf(_)
DigitsOf(n) == IF n < 10 THEN <<Digits[n + 1]>> ELSE DigitsOf(n \div 10) \o <<Digits[(n % 10) + 1]>>
PrintNumber(n) == IF n < 0 THEN <<"-">> \o DigitsOf(-n) ELSE DigitsOf(n)

-----------------------------------------------------------------------------
(* Values. *)

StartsAt(s, i, t) == i + Len(t) <= Len(s) + 1 /\ SubSeq(s, i, i + Len(t) - 1) = t
Words == [null |-> <<"n", "u", "l", "l">>, false |-> <<"f", "a", "l", "s", "e">>, true |-> <<"t", "r", "u", "e">>]

RECURSIVE ParseValue(_, _), ElementsFrom(_, _, _, _)

\* parse_array and parse_object from the character behind the bracket; an empty one ends at once.
ParseList(s, i, type) ==
  LET close == IF type = "array" THEN "]" ELSE "}"
      start == Skip(s, i + 1)
  IN IF start <= 0 THEN [Fail EXCEPT !.at = start]
     ELSE IF At(s, start) = close THEN Got(Item(type), start + 1)
     ELSE ElementsFrom(s, start, type, <<>>)

\* Their loops: a key and a colon in an object, a value, then a comma or the end.
ElementsFrom(s, i, type, items) ==
  LET close == IF type = "array" THEN "]" ELSE "}"
      key   == IF type = "object" THEN ParseString(s, i) ELSE Got(Null, i)
      colon == IF type = "object" THEN Skip(s, key.at) ELSE i
      v     == ParseValue(s, IF type = "object" THEN Skip(s, colon + 1) ELSE i)
      next  == Skip(s, v.at)
      all   == Append(items, [v.item EXCEPT !.key = IF type = "object" THEN key.item.text ELSE <<>>])
  IN CASE colon <= 0                                               -> [Fail EXCEPT !.at = colon]
       [] colon > 0 /\ type = "object" /\ At(s, colon) # ":"       -> Fail
       [] colon > 0 /\ (type = "object" => At(s, colon) = ":") ->
            CASE next <= 0                                -> [Fail EXCEPT !.at = next]
              [] next > 0 /\ At(s, next) = ","            -> LET k == Skip(s, next + 1) IN
                   IF k <= 0 THEN [Fail EXCEPT !.at = k] ELSE ElementsFrom(s, k, type, all)
              [] next > 0 /\ At(s, next) = close          -> Got(List(type, all), next + 1)
              [] OTHER                                    -> Fail

ParseValue(s, i) ==
  LET word == {w \in DOMAIN Words : StartsAt(s, i, Words[w])}
  IN CASE i <= 0                             -> [Fail EXCEPT !.at = i]
       [] i > 0 /\ word # {}                 -> LET w == CHOOSE w \in word : TRUE
                                                IN Got(Item(w), i + Len(Words[w]))
       [] i > 0 /\ At(s, i) = "q"            -> ParseString(s, i)
       [] i > 0 /\ (At(s, i) = "-" \/ IsDigit(At(s, i))) -> ParseNumber(s, i)
       [] i > 0 /\ At(s, i) = "["            -> ParseList(s, i, "array")
       [] i > 0 /\ At(s, i) = "{"            -> ParseList(s, i, "object")
       [] OTHER                              -> Fail

Parse(s) == ParseValue(s, Skip(s, 1))

\* print_value at a depth, with spaces if fmt.  Numbers are whole.
RECURSIVE PrintValue(_, _, _)

If(c, text) == IF c THEN text ELSE <<>>
Tabs(k)     == [j \in 1 .. k |-> "tab"]

PrintArray(kids, depth, fmt) ==
  <<"[">> \o FlattenSeq([i \in DOMAIN kids |-> PrintValue(kids[i], depth + 1, fmt)
                           \o If(i # Len(kids), <<",">> \o If(fmt, <<" ">>))]) \o <<"]">>

PrintObject(kids, depth, fmt) ==
  <<"{">> \o If(fmt, <<"nl">>)
    \o FlattenSeq([i \in DOMAIN kids |->
         If(fmt, Tabs(depth + 1)) \o PrintString(kids[i].key) \o <<":">> \o If(fmt, <<"tab">>)
           \o PrintValue(kids[i], depth + 1, fmt) \o If(i # Len(kids), <<",">>) \o If(fmt, <<"nl">>)])
    \o If(fmt, Tabs(depth)) \o <<"}">>

PrintValue(item, depth, fmt) ==
  CASE item.type \in DOMAIN Words -> Words[item.type]
    [] item.type = "number"       -> PrintNumber(item.num[1])
    [] item.type = "string"       -> PrintString(item.text)
    [] item.type = "array"        -> PrintArray(item.kids, depth, fmt)
    [] item.type = "object"       -> PrintObject(item.kids, depth, fmt)

\* What they allocate: len in print_array and in print_object.
ArrayRoom(kids, depth, fmt) ==
  FoldLeft(LAMBDA n, kid : n + Len(PrintValue(kid, depth + 1, fmt)) + (IF fmt THEN 3 ELSE 2), 5, kids)

ObjectRoom(kids, depth, fmt) ==
  FoldLeft(LAMBDA n, kid : n + Len(PrintValue(kid, depth + 1, fmt)) + Len(PrintString(kid.key))
                             + (IF fmt THEN 4 + depth + 1 ELSE 2),
           IF fmt THEN 7 + depth + 1 ELSE 7, kids)

RoomOf(item, depth, fmt) ==
  CASE item.type \in DOMAIN Words -> Len(Words[item.type]) + 1
    [] item.type = "number"       -> 21
    [] item.type = "string"       -> StringRoom(item.text)
    [] item.type = "array"        -> ArrayRoom(item.kids, depth, fmt)
    [] item.type = "object"       -> ObjectRoom(item.kids, depth, fmt)

\* Every text printed on the way, with its NUL, fits what was allocated for it.
RECURSIVE Fits(_, _, _)
Fits(item, depth, fmt) ==
  /\ Len(PrintValue(item, depth, fmt)) + 1 <= RoomOf(item, depth, fmt)
  /\ \A i \in DOMAIN item.kids :
       /\ Fits(item.kids[i], depth + 1, fmt)
       /\ Len(PrintString(item.kids[i].key)) + 1 <= StringRoom(item.kids[i].key)

\* The item without the characters print_string_ptr leaves out.
RECURSIVE Printable(_)
Printable(item) ==
  LET Clean(text) == SelectSeq(text, LAMBDA c : c # "ctl")
  IN [item EXCEPT !.key = Clean(@), !.text = Clean(@), !.kids = [i \in DOMAIN @ |-> Printable(@[i])]]

\* An item whose numbers are whole: print_number writes them as they were read.
RECURSIVE Whole(_)
Whole(item) == item.num[2] = 0 /\ \A i \in DOMAIN item.kids : Whole(item.kids[i])

-----------------------------------------------------------------------------
\* How deep in brackets a text ends, and whether in a string, behind a backslash there, or behind
\* a point, which takes a character of whatever kind.  A control character ends a string.
Step(m, c) ==
  CASE m.in = "escape" -> [m EXCEPT !.in = "string"]
    [] m.in = "string" -> [m EXCEPT !.in = CASE c = "\\" -> "escape" [] c \in Control \cup {"q"} -> "none" [] OTHER -> @]
    [] m.in = "point"  -> [m EXCEPT !.in = "none"]
    [] OTHER -> [depth |-> m.depth + (IF c \in {"[", "{"} THEN 1 ELSE IF c \in {"]", "}"} THEN -1 ELSE 0),
                 in    |-> CASE c = "q" -> "string" [] c = "." -> "point" [] OTHER -> "none"]

EndOf(s) == FoldLeft(Step, [depth |-> 0, in |-> "none"], s)

\* A text that is blank, or breaks off in a list, an escape or a fraction.
Cut(s) == ToSet(s) \subseteq White \/ EndOf(s).depth > 0 \/ EndOf(s).in \in {"escape", "point"}
====
