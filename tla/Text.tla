--------------------------------- MODULE Text ---------------------------------
(***************************************************************************)
(* The functions of mongoose.c that take text apart: words, headers,       *)
(* options, patterns, variables, cookies, paths, addresses and dates.      *)
(* A definition is followed by what it ought to be, said in another way.   *)
(***************************************************************************)
EXTENDS Scans

-----------------------------------------------------------------------------
(* Words and headers. *)

\* The loop of skip_quoted: the word ends in the quote, so the delimiter belongs to it.
RECURSIVE Unquote(_, _, _, _, _)
Unquote(word, s, end, delimiters, quote) ==
  IF word = <<>> \/ Last(word) # quote THEN [word |-> word, end |-> end]
  ELSE IF end > Len(s) THEN [word |-> Front(word), end |-> end]
  ELSE LET next == Until(s, end + 1, delimiters)
       IN Unquote(Front(word) \o SubSeq(s, end, next - 1), s, next, delimiters, quote)

SkipQuoted(s, delimiters, white, quote) ==
  LET first == Until(s, 1, delimiters)
      u     == Unquote(SubSeq(s, 1, first - 1), s, first, delimiters, quote)
  IN [word |-> u.word, rest |-> IF u.end > Len(s) THEN <<>> ELSE From(s, Past(s, u.end + 1, white))]

\* A delimiter behind a quote is a character of the word, and the quote is not.
QuotedWord(s, delimiters, quote) ==
  LET Literal(i) == At(s, i) \in delimiters /\ At(s, i - 1) = quote
      end == Min({i \in 1 .. Len(s) + 1 : i = Len(s) + 1 \/ (s[i] \in delimiters /\ ~ Literal(i))})
      keep == {i \in 1 .. end - 1 : ~ (s[i] = quote /\ (Literal(i + 1) \/ i = Len(s)))}
  IN [k \in 1 .. Cardinality(keep) |-> s[CHOOSE i \in keep : Cardinality({j \in keep : j <= i}) = k]]

EOL == {"cr", "lf"}

\* room is the number of headers the request info holds.
RECURSIVE ParseHttpHeaders(_, _)
ParseHttpHeaders(s, room) ==
  LET name  == SkipQuoted(s, {":"}, {" "}, NUL)
      value == SkipQuoted(name.rest, EOL, EOL, NUL)
  IN IF room = 0 \/ name.word = <<>> THEN <<>>
     ELSE <<[name |-> name.word, value |-> value.word]>> \o ParseHttpHeaders(value.rest, room - 1)

HeaderText(headers) ==
  FlattenSeq([i \in DOMAIN headers |-> headers[i].name \o <<":", " ">> \o headers[i].value \o <<"cr", "lf">>])

-----------------------------------------------------------------------------
(* Lists of options, and patterns. *)

NextOption(list) ==
  LET end == Until(list, 1, {","})
      val == SubSeq(list, 1, end - 1)
      eq  == Until(val, 1, {"="})
  IN [val |-> SubSeq(val, 1, eq - 1), eq_val |-> From(val, eq + 1), rest |-> From(list, end + 1)]

\* The loop around next_option that all its callers have.
RECURSIVE Options(_)
Options(list) ==
  IF list = <<>> THEN <<>>
  ELSE LET o == NextOption(list) IN <<[val |-> o.val, eq_val |-> o.eq_val]>> \o Options(o.rest)

OptionText(options) ==
  FlattenSeq([i \in DOMAIN options |->
    options[i].val \o (IF options[i].eq_val = <<>> THEN <<>> ELSE <<"=">> \o options[i].eq_val)
                   \o (IF i = Len(options) THEN <<>> ELSE <<",">>)])

\* match_prefix of a pattern without |, at the front of s.  More or -1.
RECURSIVE MatchOne(_, _)
MatchOne(p, s) ==
  LET More(n, r) == IF r = -1 THEN -1 ELSE n + r
      deep == At(p, 2) = "*"
      rest == From(p, IF deep THEN 3 ELSE 2)
      len  == IF deep THEN Len(s) ELSE Until(s, 1, {"/"}) - 1
      tried == {k \in 0 .. len : MatchOne(rest, From(s, k + 1)) # -1}
  IN CASE p = <<>>                           -> 0
       [] p # <<>> /\ p[1] = "?" /\ s # <<>> -> More(1, MatchOne(Tail(p), Tail(s)))
       [] p # <<>> /\ p[1] = "$"             -> IF s = <<>> THEN 0 ELSE -1
       [] p # <<>> /\ p[1] = "*"             ->
            CASE rest = <<>>                -> len
              [] rest # <<>> /\ tried = {}  -> -1
              [] OTHER -> Max(tried) + MatchOne(rest, From(s, Max(tried) + 1))
       [] p # <<>> /\ p[1] \notin {"?", "$", "*"} /\ At(s, 1) = p[1] -> More(1, MatchOne(Tail(p), Tail(s)))
       [] OTHER -> -1

\* An alternative that matches the empty text is no match.
RECURSIVE MatchPrefix(_, _)
MatchPrefix(p, s) ==
  LET bar   == Until(p, 1, {"|"})
      first == MatchOne(SubSeq(p, 1, bar - 1), s)
  IN IF bar > Len(p) \/ first > 0 THEN first ELSE MatchPrefix(From(p, bar + 1), s)

\* How much of s each way to match p takes.
RECURSIVE Matches(_, _)
Matches(p, s) ==
  LET deep == At(p, 2) = "*"
  IN CASE p = <<>>     -> {0}
       [] p # <<>> /\ p[1] = "$" -> IF s = <<>> THEN {0} ELSE {}
       [] p # <<>> /\ p[1] = "*" ->
            UNION {{k + n : n \in Matches(From(p, IF deep THEN 3 ELSE 2), From(s, k + 1))} :
                     k \in {k \in 0 .. Len(s) : deep \/ "/" \notin ToSet(SubSeq(s, 1, k))}}
       [] OTHER -> IF s # <<>> /\ p[1] \in {"?", s[1]}
                   THEN {1 + n : n \in Matches(Tail(p), Tail(s))} ELSE {}
====
