---- MODULE MCForms ----
(* Inputs for TLC: all short texts over the characters each function tells apart. *)
EXTENDS Forms

Hexes   == {"2", "f"}
Chars   == [p \in Hexes \X Hexes |-> CASE p = <<"2", "f">> -> "/" [] p = <<"f", "2">> -> "high"
                                       [] p = <<"2", "2">> -> "q" [] OTHER -> "ff"]
Codes   == "/" :> <<"2", "f">> @@ "high" :> <<"f", "2">> @@ "q" :> <<"2", "2">>
Unescaped == {".", "a", "c", "back"}

Text_(S, n)  == BoundedSeq(S, n)
Escapes   == Text_({"%", "2", "f", "+"}, 4)
SomeUris  == Escapes \cup {<<c>> \o t : c \in {"/", "."}, t \in Text_({"/", "back", ".", "a"}, 4)}
SomePaths == {<<"/">> \o t : t \in Text_({"/", "a", "c"}, 3)} \cup {<<"/", "high", "q", "a">>}
SomeFiles == {<<"/", "a">>, <<"/", "c">>, <<"/", "a", "c">>, <<"/", "c", "/", "c">>}
SomeQueries == Text_({"a", "b", "=", "&"}, 5) \cup {<<"a", "=", "%", "2", "f">>, <<"a", "=", "%", "2", "&", "b">>}
SomeNames == {<<"a">>, <<"b">>, <<"a", "b">>}
Cookie(n, v) == [name |-> n, value |-> v]
SomeCookies == Text_({Cookie(n, v) : n \in SomeNames, v \in {<<>>, <<"1">>, <<"q">>, <<"q", "q">>, <<"q", "1", "q">>, <<"a", "=">>}}, 3)
SomePatterns == Text_({"*", "?", "a", "/", "$"}, 4) \cup
                {p \o <<"|">> \o r : p, r \in Text_({"*", "a", "$"}, 2)}
Header(n, v) == [name |-> n, value |-> v]
SomeHeads == Text_({Header(<<"a">>, <<"x">>), Header(<<"b", "c">>, <<>>), Header(<<"a">>, <<"x", ":", " ", "y">>)}, 3)
SomeLists == Text_({[val |-> v, eq_val |-> e] : v \in {<<>>, <<"a">>, <<"a", "b">>}, e \in {<<>>, <<"c">>, <<"=">>}}, 3)
SomeQuoted == Text_({"q", "back", "a", " "}, 6)
SomeRules == Text_({[flag |-> f, net |-> n, slash |-> s] : f \in {"+", "-"}, n \in {0, 2, 4}, s \in {0, 1, 2, 3}}, 2)
SomeYears == {1971, 1972, 1999, 2000, 2001, 2012, 2037}
SomeDays  == {<<1, 1>>, <<2, 28>>, <<2, 29>>, <<3, 1>>, <<12, 31>>}
SomeLengths == Text_({1, 2, 4, 5}, 4)
SomePages == Text_({"<", "#", ">", "a"}, 6)
SomeParts == {<<p>> : p \in Text_({"e1", "a", "b"}, 6)} \cup {<<p, q>> : p, q \in Text_({"e1", "a"}, 3)}
SomeBytes == Text_({0, 1, 77, 128, 255}, 4)
Str(t)    == J!Str(t)
Num(n)    == [J!Item("number") EXCEPT !.num = <<n, 0>>]
Word_     == J!Item("true")
Leaves    == {Word_, Num(0), Num(-12)} \cup {Str(t) : t \in Text_({"a", "q", "\\", "nl", "ctl"}, 2)}
Few       == {Word_, Num(107), Str(<<"q">>)}
List(S, n, keys) == {J!List("array", v) : v \in Text_(S, n)}
              \cup {J!List("object", [i \in DOMAIN v |-> [v[i] EXCEPT !.key = k]]) : v \in Text_(S, n), k \in keys}
SomeItems == Leaves \cup List(Leaves, 1, {<<"a">>}) \cup List(Few, 2, {<<>>, <<"\\", "ctl">>})
             \cup List(List(Few, 1, {<<"a">>}), 2, {<<"a">>})
SomeTexts == Text_({"[", "]", "{", "}", ",", ":", "q", "1", " "}, 4) \cup Text_({"q", "\\", "n", "[", "]"}, 5)
             \cup Text_({"q", "nl", "1", "[", "]"}, 4) \cup Text_({"[", "1", ".", "]", ","}, 5)
             \cup Text_({"-", "0", "1", ".", "e"}, 4)
SomeCommands == {<<a>> : a \in {0, 7, 40}} \cup {<<a, b>> : a, b \in {0, 7, 40}}
                \cup {<<40, 7, a>> : a \in {-3, 0, 12}} \cup {<<40, 7, a, b>> : a, b \in {-3, 0, 12}}
SomeSources == UNION {[S -> 0 .. 2] : S \in SUBSET (0 .. 2)}
SomeReads == Text_(Text_(1 .. 2, 3) \ {<<>>}, 3)
====
