--------------------------------- MODULE Forms ---------------------------------
(***************************************************************************)
(* The calls of the pure functions of the repository on every input of     *)
(* some small sets, one call to a behaviour, and what each result ought to *)
(* be; and, beside them, the list operations of cJSON.                     *)
(***************************************************************************)
EXTENDS Uri, JsonList

B == INSTANCE Buffers
J == INSTANCE Json
D == INSTANCE Directives

CONSTANTS
  Uris, Queries, Names, Cookies, Patterns, Paths, Files, Heads, Lists, Quoted,  \* texts and what they are made of
  Rules,           \* access lists
  Years, Days,     \* dates: years, and pairs of a month and a day
  Lengths,         \* the lengths of variables for the CGI environment
  Pages,           \* files with SSI tags
  Parts,           \* the data of the files uploaded at once
  Bytes,           \* inputs of base64
  Items, Texts,    \* JSON values and texts
  Commands,        \* the numbers of a directive
  Sources,         \* the files check_for_change finds
  Reads,           \* what main_loop reads
  Sizes            \* sizes of buffers

VARIABLE call      \* the function called, its arguments and its result

vars == <<call, listVars>>

None == [fn |-> "none", args |-> <<>>, result |-> <<>>]
Init == call = None /\ ListInit

Ready == call = None /\ ops = 0
Call(fn, args, result) == /\ call' = [fn |-> fn, args |-> args, result |-> result]
                          /\ UNCHANGED listVars

\* name=value; name=value
CookieText(c) ==
  FlattenSeq([i \in DOMAIN c |-> c[i].name \o <<"=">> \o c[i].value \o IF i = Len(c) THEN <<>> ELSE <<";", " ">>])

\* 40x30p2m1 and shorter
Signed(n)      == IF n < 0 THEN <<"m">> \o J!DigitsOf(-n) ELSE <<"p">> \o J!DigitsOf(n)
CommandText(c) == J!DigitsOf(c[1]) \o (IF Len(c) > 1 THEN <<"x">> \o J!DigitsOf(c[2]) ELSE <<>>)
                  \o FlattenSeq(IF Len(c) <= 2 THEN <<>> ELSE [i \in 1 .. Len(c) - 2 |-> Signed(c[i + 2])])

CallDecode == \E u \in Uris, room \in Sizes, form \in BOOLEAN :
  Call("url_decode", <<u, room, form>>, UrlDecode(u, Len(u), room, form))
CallEncode == \E u \in Paths : Call("url_encode", <<u>>, UrlEncode(u))
CallVar    == \E q \in Queries, n \in Names : Call("mg_get_var", <<q, n>>, GetVar(q, n, Len(q) + 1))
CallCookie == \E c \in Cookies, n \in Names : Call("mg_get_cookie", <<c, n>>, GetCookie(CookieText(c), n))
CallDots   == \E u \in Uris : Call("remove_double_dots", <<u>>, RemoveDots(u))
CallMatch  == \E p \in Patterns, u \in Paths : Call("match_prefix", <<p, u>>, MatchPrefix(p, u))
CallName   == \E u \in Paths, f \in SUBSET Files : Call("file_name", <<u, f>>, FileName(u, f, <<"*", "*", "c", "$">>))
CallHead   == \E h \in Heads, room \in Sizes : Call("headers", <<h, room>>, ParseHttpHeaders(HeaderText(h) \o (IF h = <<>> THEN <<>> ELSE <<"cr">>), room))
CallOption == \E l \in Lists : Call("next_option", <<l>>, Options(OptionText(l)))
CallQuoted == \E s \in Quoted : Call("skip_quoted", <<s>>, SkipQuoted(s, {"q"}, {" "}, "back"))
CallAcl    == \E r \in Rules, ip \in 0 .. 2 ^ Bits - 1 : Call("check_acl", <<r, ip>>, CheckAcl(r, ip))
CallDate   == \E y \in Years, md \in Days : Call("date", <<y, md>>, DateDays(y, md[1], md[2]))

TextNext == \/ CallDecode \/ CallEncode \/ CallVar \/ CallCookie \/ CallDots \/ CallMatch
            \/ CallName \/ CallHead \/ CallOption \/ CallQuoted \/ CallAcl \/ CallDate

CallThrottle == \E len, throttle, used \in 1 .. 6 : Call("mg_write", <<len, throttle, used - 1>>, B!Throttled(len, throttle, used - 1))
CallPrintf   == \E len \in 0 .. 8, size \in Sizes : Call("mg_printf", <<len, size>>, B!Printed(len, size))
CallEnv      == \E ls \in Lengths, size \in Sizes \ {1}, slots \in 2 .. 5 : Call("environment", <<ls>>, B!Environment(ls, size, slots))
CallSsi      == \E p \in Pages, size \in {4, 6} : Call("send_ssi_file", <<p, size>>, B!SendSsi(p, size))
\* Each part has a head and ends in a boundary.
BodyText(ps) == FlattenSeq([i \in DOMAIN ps |-> <<"head">> \o ps[i] \o B!Edge]) \o <<"end">>
CallUpload   == \E ps \in Parts, size \in 4 .. 7 : Call("mg_upload", <<ps>>, B!Upload(BodyText(ps), size))
CallBase64   == \E b \in Bytes : Call("base64_encode", <<b>>, B!Base64(b))

BufferNext == CallThrottle \/ CallPrintf \/ CallEnv \/ CallSsi \/ CallUpload \/ CallBase64

CallJson  == \E i \in Items, fmt \in BOOLEAN : Call("print", <<i, fmt>>, J!PrintValue(i, 0, fmt))
CallParse == \E t \in Texts : Call("parse", <<t>>, J!Parse(t))

CallOffset  == \E c \in Commands : Call("image_offset", <<c>>, D!ImageOffset(CommandText(c)))
CallResize  == \E c \in Commands : Len(c) <= 2 /\ Call("image_resize", <<c>>, D!ImageResize(CommandText(c)))
CallQuality == \E c \in Commands : Len(c) = 1 /\ Call("image_quality", <<c>>, D!ImageQuality(CommandText(c)))
CallChange  == \E n \in 0 .. 3, time \in 0 .. 1, f \in Sources, most \in 2 .. 3, garbage \in BOOLEAN :
  Call("check_for_change", <<n, time, f, most>>, D!Unlinked(n, time, f, most, garbage))
CallEvents  == \E r \in Reads : Call("main_loop", <<r>>, D!MainLoop(r))

DirectiveNext == CallOffset \/ CallResize \/ CallQuality \/ CallChange \/ CallEvents

Next == \/ Ready /\ (TextNext \/ BufferNext \/ CallJson \/ CallParse \/ DirectiveNext)
        \/ (call = None /\ ListNext /\ UNCHANGED call)

Spec == Init /\ [][Next]_vars

-----------------------------------------------------------------------------
Called(fn) == call.fn = fn
arg(k)     == call.args[k]
out        == call.result

\* What url_decode writes is a front part of the whole, all of it exactly if it says so, and it
\* undoes url_encode (mongoose.c 1627, 2487); mg_get_var and mg_get_cookie (1652, 1699) find the
\* value if there is one, the cookie's without the quotation marks around it, unless the wanted name
\* and = come earlier, in another name or value; cleaned paths
\* never climb and do not change again (1854); path and path_info are the URI (1738).
UriMeaning ==
  /\ Called("url_decode") =>
       LET whole == UrlDecode(arg(1), Len(arg(1)), Len(arg(1)) + 1, arg(3)).text
       IN /\ IsPrefix(out.text, whole) /\ Len(out.text) < arg(2)
          /\ out.n = IF out.text = whole THEN Len(whole) ELSE -1
          /\ ~ arg(3) /\ "%" \notin ToSet(arg(1)) => whole = arg(1)
  /\ Called("url_encode") =>
       /\ ToSet(out) \subseteq Plain \cup Hex \cup {"%"}
       /\ UrlDecode(out, Len(out), Len(out) + 1, FALSE).text = arg(1)
  /\ Called("mg_get_var") =>
       LET v == VarOf(arg(1), arg(2)) IN
       IF v = <<>> THEN out.n = -1 ELSE out = UrlDecode(v[1], Len(v[1]), Len(v[1]) + 1, TRUE)
  /\ Called("mg_get_cookie") =>
       LET Hit(k) == LET t == arg(1)[k].name \o <<"=">> \o arg(1)[k].value
                     IN \E i \in DOMAIN t : StartsAt(t, i, arg(2) \o <<"=">>)
           hits == {k \in DOMAIN arg(1) : Hit(k)}
       IN IF hits = {} THEN out.n = -1
          ELSE LET c == arg(1)[Min(hits)] IN c.name = arg(2) => out = [value |-> Unquoted(c.value), n |-> Len(out.value)]
  /\ Called("remove_double_dots") =>
       /\ At(arg(1), 1) \in Slash => Contained(out) /\ out # <<>>
       /\ RemoveDots(out) = out
       /\ Contained(arg(1)) => out = arg(1)
  /\ Called("file_name") =>
       /\ out.path \o out.info = arg(1)
       /\ out.info # <<>> => out.path \in arg(2) /\ arg(1) \notin arg(2) /\ Head(out.info) = "/"

\* match_prefix (846) is as greedy as can be, a list of alternatives matches if one of them takes
\* something; words, headers and options (742, 2820, 813) are read as they were written, but for a last
\* empty option; the last rule that holds the address decides (4408), a rule with bits behind its mask
\* holding none; a date is right except in January and February of a leap year, a day late (1845).
WordMeaning ==
  /\ Called("match_prefix") =>
       LET takes == UNION {Matches(alt, arg(2)) : alt \in ToSet(Pieces(arg(1), "|"))}
       IN IF "|" \in ToSet(arg(1)) THEN (out > 0) = (\E n \in takes : n > 0)
          ELSE out = IF takes = {} THEN -1 ELSE Max(takes)
  /\ Called("skip_quoted") => out.word = QuotedWord(arg(1), {"q"}, "back")
  /\ Called("headers") => out = SubSeq(arg(1), 1, Min({Len(arg(1)), arg(2)}))
  /\ Called("next_option") =>
       LET l == arg(1) IN out = IF l = <<>> \/ Last(l) # [val |-> <<>>, eq_val |-> <<>>] THEN l ELSE Front(l)
  /\ Called("check_acl") =>
       LET Holds(r) == \E b \in 0 .. 2 ^ (Bits - r.slash) - 1 : r.net % 2 ^ (Bits - r.slash) = 0 /\ arg(2) = r.net + b
           held == SelectSeq(arg(1), Holds)
       IN out <=> (arg(1) = <<>> \/ (held # <<>> /\ Last(held).flag = "+"))
  /\ Called("date") =>
       LET y == arg(1) m == arg(2)[1] d == arg(2)[2]
       IN /\ out = EpochDays(y, m, d) + IF IsLeap(y) /\ m <= 2 THEN 1 ELSE 0
          /\ y < 2038 => out * 24 < 2147483647 \div 3600

TextMeaning == UriMeaning /\ WordMeaning

\* A throttled write sends all in pieces no longer than the throttle, or nothing when the second's
\* allowance is overdrawn (1537); mg_printf loses a character of a message as long as its buffer, and
\* only of that (1590); the CGI environment holds whole variables and its assertions (3029, 3160); SSI
\* sends or obeys every character once unless a tag is longer than the buffer (3451); an uploaded file is
\* its data however the boundary falls across the buffer, but of several in one body all go into the first
\* one's file (4122-4147); base64 is the bits of its input (3727).
BuffersMeaning ==
  /\ Called("mg_write") =>
       LET sent == FoldLeft(+, 0, out) IN
       /\ \A i \in DOMAIN out : out[i] <= arg(2)
       /\ sent = IF arg(3) > arg(2) THEN 0 ELSE arg(1)
  /\ Called("mg_printf") => out = IF arg(1) = arg(2) THEN arg(1) - 1 ELSE arg(1)
  /\ Called("environment") =>
       /\ B!Asserted(out)
       /\ B!Whole(out.kept, arg(1), Len(arg(1)))
  /\ Called("send_ssi_file") =>
       /\ out.high <= arg(2)
       /\ IF out.lost THEN B!TooLong(arg(1), arg(2), Len(arg(1))) ELSE FlattenSeq(B!TextsOf(out.done)) = arg(1)
       /\ B!Tags(out.done)
  /\ Called("mg_upload") =>
       LET ps == arg(1) IN
       /\ Len(out.files) = 1 /\ IsPrefix(ps[1], out.files[1])
       /\ (out.files = <<ps[1]>> /\ out.uploaded = 1) <=> Len(ps) = 1
  /\ Called("base64_encode") =>
       Len(out) % 4 = 0 /\ SelectSeq(out, LAMBDA c : c # B!Pad) = B!Sextets(arg(1))

\* What cJSON prints fits the memory counted for it and parses to the same value, without the
\* characters that have no escape (cJSON.c 187, 311, 398, 236).  What it parses from any text ends in the
\* text, with its lists closed, and prints to itself; and the parser leaves the text only behind a blank
\* one, or one that breaks off in a list (skip, 233, passes the NUL), an escape or a fraction.
JsonMeaning ==
  /\ Called("print") => J!Fits(arg(1), 0, arg(2)) /\ J!Parse(out) = J!Got(J!Printable(arg(1)), Len(out) + 1)
  /\ Called("parse") /\ out.at > 0 =>
       /\ out.at <= Len(arg(1)) + 1 /\ J!EndOf(SubSeq(arg(1), 1, out.at - 1)).depth = 0
       /\ J!Whole(out.item) => LET text == J!PrintValue(out.item, 0, TRUE) IN
            J!Parse(text) = J!Got(J!Printable(out.item), Len(text) + 1)
  /\ Called("parse") /\ out.at < 0 => J!Cut(arg(1))

\* A directive's numbers reach the library whole and with their signs: 40x30p2m1 crops 30 columns and
\* 40 rows at column -1 and row 2 (apophnia.c 413).  40x30 resizes to 40 columns and 30 rows (472),
\* against README.md 35, which documents r[HEIGHT(xWIDTH)] and so 30 columns and 40 rows.
\* check_for_change (312) unlinks the name it is given first of all, no source but one it is given,
\* and never without a newer file unless none was found.  main_loop (804) looks at the events behind
\* the longest read before, as long as that falls on an event.
DirectivesMeaning ==
  /\ Called("image_offset") =>
       LET c == arg(1) IN
       out = IF Len(c) = 1 THEN <<>>
             ELSE <<c[2], c[1], IF Len(c) > 3 THEN c[4] ELSE 0, IF Len(c) > 2 THEN c[3] ELSE 0>>
  /\ Called("image_resize") => out = [columns |-> arg(1)[1], rows |-> Last(arg(1))]
  /\ Called("image_quality") => out = arg(1)[1]
  /\ Called("check_for_change") =>
       LET n == arg(1) files == arg(3) IN
       /\ out # {} => n \in out /\ \A k \in out \ {n} : k \in DOMAIN files
       /\ 0 \in out => n = 0
       /\ out # {} /\ n > 0 /\ n - 1 \in DOMAIN files => \E k \in DOMAIN files : k < n /\ files[k] > arg(2)
  /\ Called("main_loop") =>
       \A k \in DOMAIN out.seen :
         LET before == {0} \cup {D!Length(arg(1)[j]) : j \in 1 .. k - 1}
         IN out.seen[k] = {e \in D!EdgesOf(arg(1)[k]) : e >= Max(before)}
====
