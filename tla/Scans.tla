-------------------------------- MODULE Scans --------------------------------
(***************************************************************************)
(* The loops of mongoose.c that go through a text or a list once: the      *)
(* cleaning of a path, the CGI environment, SSI.  Each is the function its *)
(* recursion describes, from a place to the next, so that it can be        *)
(* reasoned about for every text.  Sizes are parameters.                   *)
(*                                                                         *)
(* A text is a sequence of characters, each a string; what the C code sees *)
(* at its end is NUL.                                                      *)
(***************************************************************************)
EXTENDS Integers, Sequences, SequencesExt, FiniteSetsExt

NUL == "NUL"

At(s, i)       == IF i \in DOMAIN s THEN s[i] ELSE NUL
From(s, i)     == SubSeq(s, i, Len(s))
Until(s, i, S) == Min({j \in i .. Len(s) + 1 : At(s, j) \in S \cup {NUL}})  \* strcspn
Past(s, i, S)  == Min({j \in i .. Len(s) + 1 : At(s, j) \notin S})          \* strspn
StartsAt(s, i, t) == i + Len(t) <= Len(s) + 1 /\ SubSeq(s, i, i + Len(t) - 1) = t  \* memcmp

-----------------------------------------------------------------------------
(* remove_double_dots_and_double_slashes. *)

Slash == {"/", "back"}
Dots(s, i) == At(s, i) = "." /\ At(s, i + 1) = "."

\* Where its inner loop ends that begins at i.
Behind(s) ==
  LET behind[i \in 1 .. Len(s) + 1] ==
        IF At(s, i) \in Slash THEN behind[i + 1] ELSE IF Dots(s, i) THEN behind[i + 2] ELSE i
  IN behind

\* What is left of the text from i on.
Kept(s) ==
  LET kept[i \in 1 .. Len(s) + 1] ==
        IF i > Len(s) THEN <<>>
        ELSE <<s[i]>> \o kept[IF s[i] \in Slash THEN Behind(s)[i + 1] ELSE i + 1]
  IN kept

RemoveDots(s) == Kept(s)[1]

\* What begins with a slash stays in the directory: no piece of it is empty or begins with two dots.
Contained(s) == \A k \in DOMAIN s : s[k] \in Slash => At(s, k + 1) \notin Slash /\ ~ Dots(s, k + 1)

-----------------------------------------------------------------------------
(* The CGI environment. *)

\* mg_vsnprintf of a text of n characters: what it leaves in a buffer of size.
Formatted(n, size) == IF size = 0 THEN 0 ELSE IF n >= size THEN size - 1 ELSE n

\* addenv of a variable of n characters.
Space(b) == b.size - b.len - 2

AddEnv(b, n) ==
  LET m == Formatted(n, Space(b))
  IN IF m > 0 /\ m + 1 < Space(b) /\ Len(b.kept) < b.slots - 2
     THEN [b EXCEPT !.len = @ + m + 1, !.kept = Append(@, m)] ELSE b

\* prepare_cgi_environment: the variables in turn, then the two terminators, with its assertions.
Environments(lengths, size, slots) ==
  LET after[k \in 0 .. Len(lengths)] ==
        IF k = 0 THEN [size |-> size, slots |-> slots, len |-> 0, kept |-> <<>>, ok |-> TRUE]
        ELSE LET b == after[k - 1] IN [AddEnv(b, lengths[k]) EXCEPT !.ok = @ /\ Space(b) >= 0]
  IN after

Environment(lengths, size, slots) == Environments(lengths, size, slots)[Len(lengths)]

\* What it keeps are some of the first k variables, whole and in their order.
Whole(kept, lengths, k) ==
  \E at \in [1 .. Len(kept) -> 1 .. k] :
    \A i \in 1 .. Len(kept) : kept[i] = lengths[at[i]] /\ (i > 1 => at[i - 1] < at[i])

Asserted(b) == b.ok /\ Len(b.kept) + 1 < b.slots /\ b.len + 1 < b.size

-----------------------------------------------------------------------------
(* SSI.  "<!--#" is short: the mark. *)

Mark == <<"<", "#">>

\* One turn of the loop of send_ssi_file; done are the pieces sent and the tags obeyed.
SsiChar(b, ch) ==
  LET long  == Len(b.buf) = b.size - 2
      added == Append(b.buf, ch)
      Done(k, text) == Append(b.done, [k |-> k, text |-> text])
      tagged == Len(added) >= Len(Mark) + 1 /\ IsPrefix(Mark, added)
  IN CASE b.tag /\ ch = ">" ->
            [b EXCEPT !.tag = FALSE, !.buf = <<>>, !.done = Done(IF tagged THEN "tag" ELSE "sent", added)]
       [] b.tag /\ ch # ">" /\ Len(b.buf) = Len(Mark) /\ b.buf # Mark -> [b EXCEPT !.tag = FALSE, !.buf = added]
       [] b.tag /\ ch # ">" /\ ~ (Len(b.buf) = Len(Mark) /\ b.buf # Mark) ->
            IF long THEN [b EXCEPT !.buf = <<ch>>, !.lost = TRUE] ELSE [b EXCEPT !.buf = added]
       [] ~ b.tag /\ ch = "<" -> [b EXCEPT !.tag = TRUE, !.buf = <<ch>>,
                                           !.done = IF b.buf = <<>> THEN @ ELSE Done("sent", b.buf)]
       [] OTHER -> IF Len(added) = b.size THEN [b EXCEPT !.buf = <<>>, !.done = Done("sent", added)]
                   ELSE [b EXCEPT !.buf = added]

\* The turns; high is the most of the buffer that was ever written, with the NUL behind a tag.
SsiTurns(text, size) ==
  LET after[k \in 0 .. Len(text)] ==
        IF k = 0 THEN [tag |-> FALSE, buf |-> <<>>, done |-> <<>>, lost |-> FALSE, high |-> 0, size |-> size]
        ELSE LET b == after[k - 1]
                 n == Len(b.buf) + IF b.tag /\ text[k] = ">" THEN 2 ELSE 1
             IN [SsiChar(b, text[k]) EXCEPT !.high = IF n > @ THEN n ELSE @]
  IN after

\* The whole file: what is in the buffer at its end is sent.
SendSsi(text, size) ==
  LET end == SsiTurns(text, size)[Len(text)]
  IN [end EXCEPT !.done = IF end.buf = <<>> THEN @ ELSE Append(@, [k |-> "sent", text |-> end.buf])]

\* What the pieces hold; the tags obeyed begin with the mark and end.
TextsOf(done) == [i \in DOMAIN done |-> done[i].text]
Tags(done)  == \A i \in DOMAIN done : done[i].k = "tag" => IsPrefix(Mark, done[i].text) /\ Last(done[i].text) = ">"

\* Among the first k characters is a tag, all but its end, that is longer than the buffer.
TooLong(text, size, k) ==
  \E i \in 1 .. k : /\ i + size - 2 <= k /\ text[i] = Mark[1] /\ text[i + 1] = Mark[2]
                     /\ \A j \in i .. i + size - 2 : text[j] # ">"
====
