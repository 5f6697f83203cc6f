-------------------------- MODULE FileServerProofs --------------------------
(***************************************************************************)
(* Proofs about FileServer, for any tree, requests and workers: each way   *)
(* through handle_request leaves one answer and no open file (IInv), and   *)
(* what a GET sends, what a 304 tells and what a PUT stores, from what the *)
(* handlers know of a tree that others change meanwhile (KnowInv).         *)
(***************************************************************************)
EXTENDS FileServer, FiniteSetTheorems, SequenceTheorems, TLAPS

Fields == {"pc", "req", "path", "st", "ver", "seen", "copy", "todo", "open", "want", "announced",
           "body", "answers", "must_close", "pend", "rival", "ino", "fault"}

\* Where nothing is open yet and nothing is answered; and what only a PUT comes to.
Before  == {"idle", "route", "index", "list", "propfind", "open", "ssi", "PUT", "above", "mkdir",
            "create", "DELETE"}
Storing == {"PUT", "above", "mkdir", "create", "body", "flush"}

\* An answer without a length needs an excuse.
Excused(l, status, framed) ==
  \/ framed \/ l.must_close
  \/ status \in {301, 302} \/ l.req.method = "OPTIONS"
  \/ l.req.method = "PUT" /\ status \in {200, 201, 206}

Replied(l) == Len(l.answers) = 1 /\ Excused(l, l.answers[1].status, l.answers[1].framed)

\* A file that is not for SSI includes nothing, so only the innermost may be beyond the levels.
Nested(open) ==
  /\ \E S : open \in Seq(S)
  /\ Len(open) \in 1 .. IncludeLevels + 2
  /\ \A i \in 1 .. Len(open) : i > IncludeLevels + 1 => ~ open[i].ssi

Orderly(l) ==
  /\ DOMAIN l = Fields
  /\ l.pc \in Before \cup {"send", "close", "include", "body", "flush", "done"}
  /\ l.pc \in Before \cup {"done"} => l.open = <<>>
  /\ l.pc \in {"send", "close", "body", "flush"} => \E f : l.open = <<f>>
  /\ l.pc \in Before \cup {"body"} => l.answers = <<>>
  /\ l.pc \in {"send", "close", "include", "flush", "done"} => Replied(l)
  /\ l.pc \in {"propfind", "include"} => l.must_close
  /\ l.pc \in Storing => l.req.method = "PUT"
  /\ l.pc = "include" => Nested(l.open)

IInv == DOMAIN local = Worker /\ \A w \in Worker : Orderly(local[w])
-----------------------------------------------------------------------------
\* What an answer changes.
LEMMA AnswerEffect ==
  ASSUME NEW l, DOMAIN l = Fields, l.answers = <<>>, NEW status, NEW framed \in BOOLEAN
  PROVE  LET r == Answer(l, status, framed)
         IN /\ DOMAIN r = Fields /\ r.pc = "done" /\ r.answers = <<[status |-> status, framed |-> framed]>>
            /\ r.open = l.open /\ r.must_close = l.must_close /\ r.req = l.req
<1>1. Append(l.answers, [status |-> status, framed |-> framed]) = <<[status |-> status, framed |-> framed]>>
  OBVIOUS
<1> QED
  BY <1>1 DEF Answer, Fields

\* A handler with nothing open may answer with a length, or with an excuse.
LEMMA Ends ==
  ASSUME NEW l, DOMAIN l = Fields, l.open = <<>>, l.answers = <<>>,
         NEW status, NEW framed \in BOOLEAN, Excused(l, status, framed)
  PROVE  Orderly(Answer(l, status, framed))
<1> DEFINE r == Answer(l, status, framed)
<1>1. /\ DOMAIN r = Fields /\ r.pc = "done" /\ r.answers = <<[status |-> status, framed |-> framed]>>
      /\ r.open = <<>> /\ r.must_close = l.must_close /\ r.req = l.req
  BY AnswerEffect
<1> HIDE DEF r
<1>2. Replied(r)
  BY <1>1 DEF Replied, Excused
<1> QED
  BY <1>1, <1>2 DEF Orderly, Before, Storing, r

\* The same with send_http_error.
LEMMA EndsInError ==
  ASSUME NEW l, DOMAIN l = Fields, l.open = <<>>, l.answers = <<>>, NEW status
  PROVE  Orderly(HttpError(l, status))
BY Ends DEF HttpError, Excused

\* A handler that has not answered goes on to another place, whatever it learns on its way.
LEMMA GoesOn ==
  ASSUME NEW l, NEW r, Orderly(l), l.pc \in Before, DOMAIN r = Fields, r.pc \in Before,
         r.open = l.open, r.answers = l.answers,
         r.pc = "propfind" => r.must_close, r.pc \in Storing => r.req.method = "PUT"
  PROVE  Orderly(r)
BY DEF Orderly, Before, Storing

\* A step of one worker leaves the others as they are.
LEMMA OneMoves ==
  ASSUME IInv, NEW w \in Worker, NEW l, Orderly(l), Set(w, l)
  PROVE  IInv'
BY DEF IInv, Set

\* The initial state satisfies the invariant.
LEMMA InitInv ==
  ASSUME Init
  PROVE  IInv
<1>1. DOMAIN Blank = Fields /\ Blank.pc = "idle" /\ Blank.open = <<>> /\ Blank.answers = <<>>
  BY DEF Blank, Fields
<1>2. Orderly(Blank)
  BY <1>1 DEF Orderly, Before, Storing
<1> QED
  BY <1>2 DEF Init, IInv

-----------------------------------------------------------------------------
\* The chain of conditions at the start of handle_request.
LEMMA ServesPath ==
  ASSUME NEW l, Orderly(l), l.pc \in Before
  PROVE  Orderly(ServePath(l))
<1>1. DOMAIN l = Fields /\ l.open = <<>> /\ l.answers = <<>>
  BY DEF Orderly
<1>2. Orderly(HttpError(l, 304))
  BY <1>1, EndsInError
<1>3. Orderly([l EXCEPT !.pc = "ssi"])
  BY <1>1, GoesOn DEF Fields, Before, Storing
<1>4. Orderly([l EXCEPT !.pc = "open"])
  BY <1>1, GoesOn DEF Fields, Before, Storing
<1> QED
  BY <1>2, <1>3, <1>4 DEF ServePath

\* From handle_request's checks on, a request goes its way or is answered.
LEMMA Routes ==
  ASSUME NEW l, Orderly(l), l.pc = "route"
  PROVE  Orderly(Routed(l))
<1>1. DOMAIN l = Fields /\ l.open = <<>> /\ l.answers = <<>> /\ l.pc \in Before
  BY DEF Orderly, Before
<1>2. /\ Orderly(Answer(l, 302, FALSE)) /\ Orderly(Answer(l, 301, FALSE))
      /\ Orderly(Answer(l, 401, TRUE)) /\ Orderly(HttpError(l, 404))
  <2>1. ASSUME NEW status \in {301, 302}
        PROVE  Orderly(Answer(l, status, FALSE))
    <3>1. Excused(l, status, FALSE)
      BY DEF Excused
    <3> QED
      BY <1>1, <3>1, Ends
  <2>2. ASSUME NEW status
        PROVE  Orderly(HttpError(l, status))
    BY <1>1, EndsInError
  <2>3. Orderly(Answer(l, 302, FALSE)) /\ Orderly(Answer(l, 301, FALSE))
    BY <2>1
  <2>4. Orderly(HttpError(l, 401)) /\ Orderly(HttpError(l, 404))
    BY <2>2
  <2>5. Orderly(Answer(l, 401, TRUE))
    BY <2>4 DEF HttpError
  <2> QED
    BY <2>3, <2>4, <2>5
<1>3. l.req.method = "OPTIONS" => Orderly(Answer(l, 200, FALSE))
  <2>1. ASSUME NEW status, l.req.method = "OPTIONS"
        PROVE  Orderly(Answer(l, status, FALSE))
    <3>1. Excused(l, status, FALSE)
      BY <2>1 DEF Excused
    <3> QED
      BY <1>1, <3>1, Ends
  <2> QED
    BY <2>1
<1>4. ASSUME Changes(l.req)
      PROVE  Orderly([l EXCEPT !.pc = l.req.method])
  <2> DEFINE r == [l EXCEPT !.pc = l.req.method]
  <2>1. /\ DOMAIN r = Fields /\ r.pc = l.req.method /\ r.open = l.open /\ r.answers = l.answers
        /\ r.req = l.req
    BY <1>1 DEF Fields
  <2>2. r.pc \in {"PUT", "DELETE"}
    BY <1>4, <2>1 DEF Changes
  <2> HIDE DEF r
  <2>3. Orderly(r)
    BY <1>1, <2>1, <2>2, GoesOn DEF Before, Storing
  <2> QED
    BY <2>3 DEF r
<1>5. Orderly([l EXCEPT !.pc = "propfind", !.must_close = TRUE])
  <2> DEFINE r == [l EXCEPT !.pc = "propfind", !.must_close = TRUE]
  <2>1. DOMAIN r = Fields /\ r.pc = "propfind" /\ r.must_close /\ r.open = l.open /\ r.answers = l.answers
    BY <1>1 DEF Fields
  <2> HIDE DEF r
  <2>2. Orderly(r)
    BY <1>1, <2>1, GoesOn DEF Before, Storing
  <2> QED
    BY <2>2 DEF r
<1>6. Orderly([l EXCEPT !.pc = "index", !.todo = Index[l.path]])
  <2> DEFINE r == [l EXCEPT !.pc = "index", !.todo = Index[l.path]]
  <2>1. DOMAIN r = Fields /\ r.pc = "index" /\ r.open = l.open /\ r.answers = l.answers
    BY <1>1 DEF Fields
  <2> HIDE DEF r
  <2>2. Orderly(r)
    BY <1>1, <2>1, GoesOn DEF Before, Storing
  <2> QED
    BY <2>2 DEF r
<1>7. Orderly(ServePath(l))
  BY <1>1, ServesPath
<1> QED
  BY <1>2, <1>3, <1>4, <1>5, <1>6, <1>7 DEF Routed

\* The worker's locals are in order, and hold nothing yet.
LEMMA AtStart ==
  ASSUME IInv, NEW w \in Worker, local[w].pc \in Before
  PROVE  /\ Orderly(local[w]) /\ DOMAIN local[w] = Fields
         /\ local[w].open = <<>> /\ local[w].answers = <<>>
BY DEF IInv, Orderly

\* A call is refused, and the handler answers 500.
LEMMA RefuseStep ==
  ASSUME IInv, NEW w \in Worker, Refuse(w)
  PROVE  IInv'
<1> DEFINE l == local[w]
           m == [l EXCEPT !.fault = TRUE]
<1>1. l.pc \in Before /\ Set(w, HttpError(m, 500))
  BY DEF Refuse, Before
<1>2. DOMAIN l = Fields /\ l.open = <<>> /\ l.answers = <<>>
  BY <1>1, AtStart
<1>3. DOMAIN m = Fields /\ m.open = <<>> /\ m.answers = <<>>
  BY <1>2 DEF Fields
<1> HIDE DEF m
<1>4. Orderly(HttpError(m, 500))
  BY <1>3, EndsInError
<1> QED
  BY <1>1, <1>4, OneMoves

\* From the beginning to the file, index or list.
LEMMA RoutingStep ==
  ASSUME IInv, NEW w \in Worker,
         (\E r \in Request : Begin(w, r)) \/ Route(w) \/ TryIndex(w) \/ NoIndex(w) \/ ListDir(w) \/ Propfind(w)
  PROVE  IInv'
<1> DEFINE l == local[w]
<1>1. ASSUME NEW r \in Request, Begin(w, r)
      PROVE  IInv'
  <2>1. PICK c : Set(w, [Blank EXCEPT !.pc = "route", !.req = r, !.path = r.path, !.st = Stat(r.path), !.copy = c,
                            !.ver = [p \in Path |-> Len(changed[p])], !.seen = DataAt(r.path)])
    BY <1>1 DEF Begin
  <2> DEFINE n == [Blank EXCEPT !.pc = "route", !.req = r, !.path = r.path, !.st = Stat(r.path), !.copy = c,
                            !.ver = [p \in Path |-> Len(changed[p])], !.seen = DataAt(r.path)]
  <2>2. DOMAIN n = Fields /\ n.pc = "route" /\ n.open = <<>> /\ n.answers = <<>>
    BY DEF Blank, Fields
  <2> HIDE DEF n
  <2>3. Orderly(n)
    BY <2>2 DEF Orderly, Before, Storing
  <2> QED
    BY <2>1, <2>3, OneMoves DEF n
<1>2. CASE Route(w)
  <2>1. l.pc = "route" /\ Set(w, Routed(l))
    BY <1>2 DEF Route
  <2>2. Orderly(Routed(l))
    BY <2>1, AtStart, Routes DEF Before
  <2> QED
    BY <2>1, <2>2, OneMoves
<1>3. CASE TryIndex(w)
  <2> DEFINE p == Head(l.todo)
             a == [l EXCEPT !.path = p, !.st = Stat(p), !.seen = DataAt(p), !.todo = <<>>,
                            !.ver = [q \in Path |-> Len(changed[q])]]
             b == [l EXCEPT !.todo = Tail(@)]
  <2>1. l.pc = "index" /\ Set(w, IF Stat(p).found THEN ServePath(a) ELSE b)
    BY <1>3 DEF TryIndex
  <2>2. Orderly(l) /\ DOMAIN l = Fields /\ l.pc \in Before
    BY <2>1, AtStart DEF Before
  <2>3. /\ DOMAIN a = Fields /\ a.pc = l.pc /\ a.open = l.open /\ a.answers = l.answers
        /\ DOMAIN b = Fields /\ b.pc = l.pc /\ b.open = l.open /\ b.answers = l.answers
    BY <2>2 DEF Fields
  <2> HIDE DEF a, b, l
  <2>4. Orderly(a) /\ Orderly(b)
    BY <2>1, <2>2, <2>3, GoesOn DEF Storing
  <2>5. Orderly(ServePath(a))
    BY <2>2, <2>3, <2>4, ServesPath
  <2> QED
    BY <2>1, <2>4, <2>5, OneMoves
<1>4. CASE NoIndex(w)
  <2> DEFINE a == [l EXCEPT !.pc = "list"]
  <2>1. l.pc = "index" /\ Set(w, IF Listing THEN a ELSE HttpError(l, 403))
    BY <1>4 DEF NoIndex
  <2>2. Orderly(l) /\ DOMAIN l = Fields /\ l.pc \in Before /\ l.open = <<>> /\ l.answers = <<>>
    BY <2>1, AtStart DEF Before
  <2>3. DOMAIN a = Fields /\ a.pc = "list" /\ a.open = l.open /\ a.answers = l.answers
    BY <2>2 DEF Fields
  <2> HIDE DEF a, l
  <2>4. Orderly(a)
    BY <2>2, <2>3, GoesOn DEF Before, Storing
  <2>5. Orderly(HttpError(l, 403))
    BY <2>2, EndsInError
  <2> QED
    BY <2>1, <2>4, <2>5, OneMoves
<1>5. CASE ListDir(w)
  <2> DEFINE a == [l EXCEPT !.must_close = TRUE]
  <2>1. l.pc = "list" /\ Set(w, IF Scanned(l) THEN Answer(a, 200, FALSE) ELSE HttpError(l, 500))
    BY <1>5 DEF ListDir
  <2>2. DOMAIN l = Fields /\ l.open = <<>> /\ l.answers = <<>>
    BY <2>1, AtStart DEF Before
  <2>3. DOMAIN a = Fields /\ a.must_close /\ a.open = <<>> /\ a.answers = <<>>
    BY <2>2 DEF Fields
  <2> HIDE DEF a, l
  <2>4. Excused(a, 200, FALSE)
    BY <2>3 DEF Excused
  <2>5. Orderly(Answer(a, 200, FALSE))
    BY <2>3, <2>4, Ends
  <2>6. Orderly(HttpError(l, 500))
    BY <2>2, EndsInError
  <2> QED
    BY <2>1, <2>5, <2>6, OneMoves
<1>6. CASE Propfind(w)
  <2>1. l.pc = "propfind" /\ Set(w, Answer(l, 207, FALSE))
    BY <1>6 DEF Propfind
  <2>2. Orderly(l) /\ DOMAIN l = Fields /\ l.open = <<>> /\ l.answers = <<>>
    BY <2>1, AtStart DEF Before
  <2>3. Excused(l, 207, FALSE)
    BY <2>1, <2>2 DEF Orderly, Excused
  <2>4. Orderly(Answer(l, 207, FALSE))
    BY <2>2, <2>3, Ends
  <2> QED
    BY <2>1, <2>4, OneMoves
<1> QED
  BY <1>1, <1>2, <1>3, <1>4, <1>5, <1>6

\* A file is sent under a length that was announced.
LEMMA SendingStep ==
  ASSUME IInv, NEW w \in Worker, FileOpen(w) \/ FileSend(w) \/ FileClose(w)
  PROVE  IInv'
<1> DEFINE l == local[w]
<1>1. CASE FileOpen(w)
  <2>1. l.pc = "open"
    BY <1>1 DEF FileOpen
  <2>2. Orderly(l) /\ DOMAIN l = Fields /\ l.open = <<>> /\ l.answers = <<>>
    BY <2>1, AtStart DEF Before
  <2>3. Orderly(HttpError(l, 500))
    BY <2>2, EndsInError
  <2>4. ASSUME NEW status, NEW next \in {"close", "send"}, NEW cl, NEW f
        PROVE  Orderly([Answer(l, status, TRUE) EXCEPT
                          !.pc = next, !.announced = cl, !.want = cl, !.open = <<f>>])
    <3> DEFINE a == Answer(l, status, TRUE)
               r == [a EXCEPT !.pc = next, !.announced = cl, !.want = cl, !.open = <<f>>]
    <3>1. DOMAIN a = Fields /\ a.answers = <<[status |-> status, framed |-> TRUE]>>
      BY <2>2, AnswerEffect
    <3> HIDE DEF a
    <3>2. DOMAIN r = Fields /\ r.pc = next /\ r.open = <<f>> /\ r.answers = <<[status |-> status, framed |-> TRUE]>>
      BY <3>1 DEF Fields
    <3> HIDE DEF r
    <3>3. Replied(r)
      BY <3>2 DEF Replied, Excused
    <3>4. Orderly(r)
      BY <3>2, <3>3 DEF Orderly, Before, Storing
    <3> QED
      BY <3>4 DEF a, r
  <2> DEFINE cl == IF Ranged(l) THEN RangeLength(l.req.range, l.st.size) ELSE l.st.size
             at == IF Ranged(l) THEN l.req.range.r1 ELSE 0
             status == IF Ranged(l) THEN 206 ELSE 200
             next == IF l.req.method = "HEAD" THEN "close" ELSE "send"
             f == [ino |-> fs[l.path], off |-> at]
             r == [Answer(l, status, TRUE) EXCEPT !.pc = next, !.announced = cl, !.want = cl, !.open = <<f>>]
  <2>5. Orderly(r)
    <3>1. next \in {"close", "send"}
      OBVIOUS
    <3> HIDE DEF status, next, cl, f
    <3> QED
      BY <2>4, <3>1
  <2>6. Set(w, IF fs[l.path] = 0 THEN HttpError(l, 500) ELSE r)
    BY <1>1 DEF FileOpen
  <2> HIDE DEF r
  <2> QED
    BY <2>3, <2>5, <2>6, OneMoves
<1>2. CASE FileSend(w)
  <2> DEFINE f == l.open[1]
             more == l.want > 0 /\ f.off < Len(disk[f.ino].data)
             a == [l EXCEPT !.body = Append(@, disk[f.ino].data[f.off + 1]),
                            !.open[1].off = @ + 1, !.want = @ - 1]
             b == [l EXCEPT !.pc = "close"]
  <2>1. l.pc = "send" /\ Set(w, IF more THEN a ELSE b)
    BY <1>2 DEF FileSend
  <2>2. Orderly(l) /\ DOMAIN l = Fields /\ Replied(l)
    BY <2>1 DEF IInv, Orderly
  <2>3. PICK g : l.open = <<g>>
    BY <2>1, <2>2 DEF Orderly
  <2>4. /\ DOMAIN a = Fields /\ a.pc = l.pc /\ a.answers = l.answers /\ a.must_close = l.must_close /\ a.req = l.req
        /\ a.open = [l.open EXCEPT ![1] = [l.open[1] EXCEPT !.off = @ + 1]]
        /\ DOMAIN b = Fields /\ b.pc = "close" /\ b.answers = l.answers /\ b.must_close = l.must_close /\ b.req = l.req
        /\ b.open = l.open
    BY <2>2 DEF Fields
  <2> HIDE DEF a, b, l
  <2>5. a.open = <<[g EXCEPT !.off = @ + 1]>>
    BY <2>3, <2>4
  <2>6. Replied(a) /\ Replied(b)
    BY <2>2, <2>4 DEF Replied, Excused
  <2>7. Orderly(a)
    BY <2>1, <2>4, <2>5, <2>6 DEF Orderly, Before, Storing
  <2>8. Orderly(b)
    BY <2>3, <2>4, <2>6 DEF Orderly, Before, Storing
  <2> QED
    BY <2>1, <2>7, <2>8, OneMoves
<1>3. CASE FileClose(w)
  <2> DEFINE a == [l EXCEPT !.pc = "done", !.open = <<>>]
  <2>1. l.pc = "close" /\ Set(w, a)
    BY <1>3 DEF FileClose
  <2>2. DOMAIN l = Fields /\ Replied(l)
    BY <2>1 DEF IInv, Orderly
  <2>3. /\ DOMAIN a = Fields /\ a.pc = "done" /\ a.answers = l.answers /\ a.must_close = l.must_close /\ a.req = l.req
        /\ a.open = <<>>
    BY <2>2 DEF Fields
  <2> HIDE DEF a, l
  <2>4. Replied(a)
    BY <2>2, <2>3 DEF Replied, Excused
  <2>5. Orderly(a)
    BY <2>3, <2>4 DEF Orderly, Before, Storing
  <2> QED
    BY <2>1, <2>5, OneMoves
<1> QED
  BY <1>1, <1>2, <1>3

\* Files that include files: the stack of open ones has a bound.
LEMMA IncludingStep ==
  ASSUME IInv, NEW w \in Worker, SsiOpen(w) \/ SsiNext(w) \/ SsiRefuse(w)
  PROVE  IInv'
<1> DEFINE l == local[w]
<1>1. CASE SsiOpen(w)
  <2> DEFINE a == Answer(l, 200, FALSE)
             f == [ino |-> fs[l.path], off |-> 0, ssi |-> TRUE]
             r == [a EXCEPT !.pc = "include", !.must_close = TRUE, !.open = <<f>>]
  <2>1. l.pc = "ssi" /\ Set(w, IF fs[l.path] = 0 THEN HttpError(l, 500) ELSE r)
    BY <1>1 DEF SsiOpen, SsiOpenWith
  <2>2. DOMAIN l = Fields /\ l.open = <<>> /\ l.answers = <<>>
    BY <2>1, AtStart DEF Before
  <2>3. Orderly(HttpError(l, 500))
    BY <2>2, EndsInError
  <2>4. DOMAIN a = Fields /\ a.answers = <<[status |-> 200, framed |-> FALSE]>>
    <3> HIDE DEF l, f, r, a
    <3>1. ASSUME NEW framed \in BOOLEAN
          PROVE  DOMAIN Answer(l, 200, framed) = Fields /\ Answer(l, 200, framed).answers = <<[status |-> 200, framed |-> framed]>>
      BY <2>2, AnswerEffect
    <3> QED
      BY <3>1 DEF a
  <2> HIDE DEF a, f
  <2>5. /\ DOMAIN r = Fields /\ r.pc = "include" /\ r.must_close /\ r.open = <<f>>
        /\ r.answers = <<[status |-> 200, framed |-> FALSE]>>
    BY <2>4 DEF Fields
  <2> HIDE DEF r
  <2>6. Replied(r)
    BY <2>5 DEF Replied, Excused
  <2>7. Nested(r.open)
    <3>1. <<f>> \in Seq({f}) /\ Len(<<f>>) = 1
      OBVIOUS
    <3>2. Len(<<f>>) \in 1 .. IncludeLevels + 2
      BY <3>1, LevelAssumption
    <3>3. \A i \in 1 .. Len(<<f>>) : ~ (i > IncludeLevels + 1)
      BY <3>1, LevelAssumption
    <3> QED
      BY <2>5, <3>1, <3>2, <3>3 DEF Nested
  <2>8. Orderly(r)
    BY <2>5, <2>6, <2>7 DEF Orderly, Before, Storing
  <2> QED
    BY <2>1, <2>3, <2>8, OneMoves
<1>2. CASE SsiNext(w) \/ SsiRefuse(w)
  <2> DEFINE n   == Len(l.open)
             g   == l.open[n]
             tok == disk[g.ino].data[g.off + 1]
             on  == [l EXCEPT !.open[n].off = @ + 1]
             end == [l EXCEPT !.open = SubSeq(@, 1, n - 1), !.pc = IF n = 1 THEN "done" ELSE "include"]
             say == [on EXCEPT !.body = Append(@, tok)]
  <2>1. l.pc = "include"
    BY <1>2 DEF SsiNext, SsiRefuse
  <2>2. /\ Set(w, on) \/ Set(w, end) \/ Set(w, say) \/ (g.ssi /\ Set(w, Included(on, tok.to)))
    BY <1>2 DEF SsiNext, SsiRefuse
  <2>3. DOMAIN l = Fields /\ Replied(l) /\ l.must_close /\ Nested(l.open)
    BY <2>1 DEF IInv, Orderly
  <2>4. PICK S : l.open \in Seq(S)
    BY <2>3 DEF Nested
  <2>5. n \in 1 .. IncludeLevels + 2 /\ \A i \in 1 .. n : i > IncludeLevels + 1 => ~ l.open[i].ssi
    BY <2>3 DEF Nested
  <2> DEFINE moved == [g EXCEPT !.off = @ + 1]
  <2>6. /\ DOMAIN on = Fields /\ on.pc = l.pc /\ on.answers = l.answers /\ on.must_close = l.must_close /\ on.req = l.req
        /\ on.open = [l.open EXCEPT ![n] = moved]
    BY <2>3 DEF Fields
  <2>7. /\ DOMAIN end = Fields /\ end.pc = (IF n = 1 THEN "done" ELSE "include") /\ end.answers = l.answers
        /\ end.must_close = l.must_close /\ end.req = l.req /\ end.open = SubSeq(l.open, 1, n - 1)
    BY <2>3 DEF Fields
  <2> HIDE DEF on
  <2>8. /\ DOMAIN say = Fields /\ say.pc = on.pc /\ say.answers = on.answers
        /\ say.must_close = on.must_close /\ say.req = on.req /\ say.open = on.open
    BY <2>6 DEF Fields
  <2> HIDE DEF end, say
  <2>9. moved.ssi = g.ssi
    OBVIOUS
  <2>10. /\ on.open \in Seq(S \cup {moved}) /\ Len(on.open) = n
         /\ \A i \in 1 .. n : i > IncludeLevels + 1 => ~ on.open[i].ssi
    <3> HIDE DEF moved, g, n
    <3>1. n \in 1 .. Len(l.open)
      BY <2>4, <2>5 DEF n
    <3>2. on.open \in Seq(S \cup {moved}) /\ Len(on.open) = Len(l.open)
      BY <2>4, <2>6, <3>1
    <3>3. \A i \in 1 .. n : on.open[i] = IF i = n THEN moved ELSE l.open[i]
      BY <2>4, <2>6, <3>1
    <3>4. \A i \in 1 .. n : i > IncludeLevels + 1 => ~ on.open[i].ssi
      BY <2>5, <2>9, <3>3 DEF g
    <3> QED
      BY <3>2, <3>4 DEF n
  <2>11. Nested(on.open) /\ Replied(on)
    BY <2>3, <2>5, <2>6, <2>10 DEF Nested, Replied, Excused
  <2>12. Orderly(say) /\ Orderly(on)
    <3>1. Replied(say)
      BY <2>8, <2>11 DEF Replied, Excused
    <3> QED
      BY <2>1, <2>3, <2>6, <2>8, <2>11, <3>1 DEF Orderly, Before, Storing
  <2>13. Orderly(end)
    <3>1. Replied(end)
      BY <2>3, <2>7 DEF Replied, Excused
    <3>2. CASE n = 1
      <4>1. end.open = <<>>
        BY <2>4, <2>7, <3>2
      <4> QED
        BY <2>7, <3>1, <3>2, <4>1 DEF Orderly, Before, Storing
    <3>3. CASE n # 1
      <4>1. end.open \in Seq(S) /\ Len(end.open) = n - 1 /\ \A i \in 1 .. n - 1 : end.open[i] = l.open[i]
        BY <2>4, <2>5, <2>7, LevelAssumption
      <4>2. Nested(end.open)
        <5> HIDE DEF n
        <5>1. n - 1 \in 1 .. IncludeLevels + 2
          BY <2>5, <3>3, LevelAssumption
        <5>2. \A i \in 1 .. n - 1 : i > IncludeLevels + 1 => ~ end.open[i].ssi
          BY <2>5, <4>1
        <5> QED
          BY <4>1, <5>1, <5>2 DEF Nested
      <4> QED
        BY <2>3, <2>7, <3>1, <3>3, <4>2 DEF Orderly, Before, Storing
    <3> QED
      BY <3>2, <3>3
  <2>14. ASSUME NEW to, g.ssi
         PROVE  Orderly(Included(on, to))
    <3> DEFINE f == [ino |-> fs[to], off |-> 0, ssi |-> to \in Ssi]
               r == [on EXCEPT !.open = Append(@, f)]
    <3>1. CASE fs[to] = 0 \/ (to \in Ssi /\ Len(on.open) > IncludeLevels)
      BY <2>12, <3>1 DEF Included
    <3>2. CASE ~ (fs[to] = 0 \/ (to \in Ssi /\ Len(on.open) > IncludeLevels))
      <4>1. Included(on, to) = r
        BY <3>2 DEF Included
      <4>2. /\ DOMAIN r = Fields /\ r.pc = on.pc /\ r.answers = on.answers /\ r.must_close = on.must_close
            /\ r.req = on.req /\ r.open = Append(on.open, f)
        BY <2>6 DEF Fields
      <4>3. f.ssi => Len(on.open) <= IncludeLevels
        <5>1. f.ssi <=> to \in Ssi
          OBVIOUS
        <5>2. Len(on.open) \in Nat /\ IncludeLevels \in Nat
          BY <2>5, <2>10, LevelAssumption
        <5>3. to \in Ssi => ~ (Len(on.open) > IncludeLevels)
          BY <3>2
        <5> HIDE DEF f
        <5> QED
          BY <5>1, <5>2, <5>3
      <4>4. n <= IncludeLevels + 1
        BY <2>5, <2>14, LevelAssumption
      <4> HIDE DEF f, r, n
      <4>5. /\ r.open \in Seq((S \cup {moved}) \cup {f}) /\ Len(r.open) = n + 1 /\ r.open[n + 1] = f
            /\ \A i \in 1 .. n : r.open[i] = on.open[i]
        BY <2>10, <4>2
      <4>6. Nested(r.open)
        BY <2>5, <2>10, <4>3, <4>4, <4>5, LevelAssumption DEF Nested
      <4>7. Replied(r)
        BY <2>11, <4>2 DEF Replied, Excused
      <4>8. Orderly(r)
        BY <2>1, <2>3, <2>6, <4>2, <4>6, <4>7 DEF Orderly, Before, Storing
      <4> QED
        BY <4>1, <4>8
    <3> QED
      BY <3>1, <3>2
  <2> QED
    BY <2>2, <2>12, <2>13, <2>14, OneMoves
<1> QED
  BY <1>1, <1>2

\* A PUT up to its last directory.
LEMMA AboveStep ==
  ASSUME IInv, NEW w \in Worker, PutStat(w) \/ AboveStat(w) \/ Mkdir(w)
  PROVE  IInv'
<1> DEFINE l == local[w]
<1>1. l.pc \in {"PUT", "above", "mkdir"}
  BY DEF PutStat, AboveStat, Mkdir
<1>2. /\ Orderly(l) /\ DOMAIN l = Fields /\ l.open = <<>> /\ l.answers = <<>> /\ l.pc \in Before
      /\ l.req.method = "PUT"
  BY <1>1, AtStart DEF Before, Storing, Orderly
<1>3. Orderly(HttpError(l, 500))
  BY <1>2, EndsInError
<1>4. ASSUME NEW r, DOMAIN r = Fields, r.pc \in {"above", "mkdir", "create"}, r.open = l.open,
             r.answers = l.answers, r.req = l.req
      PROVE  Orderly(r)
  BY <1>2, <1>4, GoesOn DEF Before, Storing
<1>5. CASE PutStat(w)
  <2> DEFINE t == Above[l.path] \o IF l.req.slash THEN <<l.path>> ELSE <<>>
             r == [l EXCEPT !.pc = "above", !.st = Stat(l.path), !.todo = t]
  <2>1. Set(w, r)
    BY <1>5 DEF PutStat
  <2> HIDE DEF t
  <2>2. DOMAIN r = Fields /\ r.pc = "above" /\ r.open = l.open /\ r.answers = l.answers /\ r.req = l.req
    BY <1>2 DEF Fields
  <2> HIDE DEF r
  <2>3. Orderly(r)
    BY <1>4, <2>2
  <2> QED
    BY <2>1, <2>3, OneMoves
<1>6. CASE AboveStat(w)
  <2> DEFINE a == [l EXCEPT !.todo = Tail(@)]
             b == [l EXCEPT !.pc = "mkdir"]
             c == [l EXCEPT !.pc = "create"]
  <2>1. l.pc = "above" /\ (Set(w, a) \/ Set(w, b) \/ Set(w, c) \/ Set(w, Answer(l, Done(l), FALSE)))
    BY <1>6 DEF AboveStat
  <2>2. /\ DOMAIN a = Fields /\ a.pc = l.pc /\ a.open = l.open /\ a.answers = l.answers /\ a.req = l.req
        /\ DOMAIN b = Fields /\ b.pc = "mkdir" /\ b.open = l.open /\ b.answers = l.answers /\ b.req = l.req
        /\ DOMAIN c = Fields /\ c.pc = "create" /\ c.open = l.open /\ c.answers = l.answers /\ c.req = l.req
    BY <1>2 DEF Fields
  <2> HIDE DEF a, b, c, l
  <2>3. Orderly(a) /\ Orderly(b) /\ Orderly(c)
    BY <1>4, <2>1, <2>2
  <2>4. Excused(l, Done(l), FALSE)
    BY <1>2 DEF Excused, Done
  <2>5. Orderly(Answer(l, Done(l), FALSE))
    BY <1>2, <2>4, Ends
  <2> QED
    BY <2>1, <2>3, <2>5, OneMoves
<1>7. CASE Mkdir(w)
  <2> DEFINE r == [l EXCEPT !.pc = "above", !.todo = Tail(@)]
  <2>1. Set(w, r) \/ Set(w, HttpError(l, 500))
    BY <1>7 DEF Mkdir
  <2>2. DOMAIN r = Fields /\ r.pc = "above" /\ r.open = l.open /\ r.answers = l.answers /\ r.req = l.req
    BY <1>2 DEF Fields
  <2> HIDE DEF r
  <2>3. Orderly(r)
    BY <1>4, <2>2
  <2> QED
    BY <1>3, <2>1, <2>3, OneMoves
<1> QED
  BY <1>5, <1>6, <1>7

\* The file of a PUT is opened; other workers that have it open learn of it.
LEMMA CreateStep ==
  ASSUME IInv, NEW w \in Worker, PutOpen(w)
  PROVE  IInv'
<1> DEFINE l == local[w]
           i == IF fs[l.path] = 0 THEN Len(disk) + 1 ELSE fs[l.path]
           g == [ino |-> i, off |-> l.req.at]
           f == [l EXCEPT !.open = <<g>>, !.ino = i, !.pc = "body"]
           rivals == {u \in Worker : local[u].ino = i}
           own == IF l.req.length = -1 THEN HttpError(f, 411)
                  ELSE IF l.req.expect = "other" THEN HttpError(f, 417) ELSE f
           mine == [own EXCEPT !.rival = rivals # {}, !.pc = IF @ = "done" THEN "flush" ELSE @]
           other(u) == [local[u] EXCEPT !.rival = @ \/ u \in rivals]
<1>1. l.pc = "create"
  BY DEF PutOpen, PutOpenWith
<1>2. DOMAIN l = Fields /\ l.open = <<>> /\ l.answers = <<>> /\ l.req.method = "PUT"
  BY <1>1, AtStart DEF Before, Storing, Orderly
<1>3. \/ Set(w, HttpError(l, 500))
      \/ local' = [u \in Worker |-> CASE u = w -> mine [] u # w -> other(u)]
  BY DEF PutOpen, PutOpenWith
<1>4. Orderly(HttpError(l, 500))
  BY <1>2, EndsInError
<1>5. Orderly(mine)
  <2> HIDE DEF i, g, rivals, l
  <2>1. DOMAIN f = Fields /\ f.open = <<g>> /\ f.pc = "body" /\ f.answers = <<>> /\ f.req = l.req
    BY <1>2 DEF Fields
  <2> HIDE DEF f
  <2>2. own = f \/ \E status : own = Answer(f, status, TRUE)
    <3>1. own = f \/ own = Answer(f, 411, TRUE) \/ own = Answer(f, 417, TRUE)
      BY DEF HttpError
    <3> HIDE DEF own
    <3> QED
      BY <3>1
  <2>3. ASSUME NEW status
        PROVE  LET r == Answer(f, status, TRUE)
               IN /\ DOMAIN r = Fields /\ r.pc = "done" /\ r.open = <<g>> /\ r.req = l.req
                  /\ r.answers = <<[status |-> status, framed |-> TRUE]>>
    BY ZenonT(40), <2>1, AnswerEffect
  <2>4. /\ DOMAIN own = Fields /\ own.open = <<g>> /\ own.req = l.req
        /\ \/ own.pc = "body" /\ own.answers = <<>>
           \/ own.pc = "done" /\ \E status : own.answers = <<[status |-> status, framed |-> TRUE]>>
    <3> HIDE DEF own
    <3>1. CASE own = f
      BY <2>1, <3>1
    <3>2. ASSUME NEW status, own = Answer(f, status, TRUE)
          PROVE  /\ DOMAIN own = Fields /\ own.open = <<g>> /\ own.req = l.req
                 /\ own.pc = "done" /\ own.answers = <<[status |-> status, framed |-> TRUE]>>
      BY <2>3, <3>2
    <3> QED
      BY <2>2, <3>1, <3>2
  <2> HIDE DEF own
  <2>5. /\ DOMAIN mine = Fields /\ mine.open = <<g>> /\ mine.req = l.req /\ mine.answers = own.answers
        /\ mine.pc = IF own.pc = "done" THEN "flush" ELSE own.pc
    BY <2>4 DEF Fields
  <2> HIDE DEF mine
  <2>6. CASE own.pc = "body" /\ own.answers = <<>>
    BY <1>2, <2>5, <2>6 DEF Orderly, Before, Storing
  <2>7. CASE own.pc = "done" /\ \E status : own.answers = <<[status |-> status, framed |-> TRUE]>>
    <3>1. Replied(mine)
      BY <2>5, <2>7 DEF Replied, Excused
    <3> QED
      BY <1>2, <2>5, <2>7, <3>1 DEF Orderly, Before, Storing
  <2> QED
    BY <2>4, <2>6, <2>7
<1>6. ASSUME NEW u \in Worker
      PROVE  Orderly(other(u))
  <2> DEFINE v == local[u]
  <2>1. Orderly(v)
    BY DEF IInv
  <2>2. \A x : LET r == [v EXCEPT !.rival = x]
               IN /\ DOMAIN r = Fields /\ r.pc = v.pc /\ r.open = v.open /\ r.answers = v.answers
                  /\ r.must_close = v.must_close /\ r.req = v.req
    BY <2>1 DEF Orderly, Fields
  <2> DEFINE r == other(u)
  <2>3. /\ DOMAIN r = Fields /\ r.pc = v.pc /\ r.open = v.open /\ r.answers = v.answers
        /\ r.must_close = v.must_close /\ r.req = v.req
    BY <2>2
  <2> HIDE DEF r, v
  <2>4. Replied(v) => Replied(r)
    BY <2>3 DEF Replied, Excused
  <2>5. Orderly(r)
    BY <2>1, <2>3, <2>4 DEF Orderly, Nested
  <2> QED
    BY <2>5 DEF r
<1>7. CASE Set(w, HttpError(l, 500))
  BY <1>4, <1>7, OneMoves
<1>8. CASE local' = [u \in Worker |-> CASE u = w -> mine [] u # w -> other(u)]
  <2> HIDE DEF mine, other
  <2> QED
    BY <1>5, <1>6, <1>8 DEF IInv
<1> QED
  BY <1>3, <1>7, <1>8

\* The body of a PUT is stored and the file closed; or a file is deleted.
LEMMA StoringStep ==
  ASSUME IInv, NEW w \in Worker,
         \/ PutBody(w) \/ PutLost(w) \/ Spill(w) \/ SpillFail(w)
         \/ PutClose(w) \/ CloseFail(w) \/ Delete(w)
  PROVE  IInv'
<1> DEFINE l == local[w]
<1>1. Orderly(l) /\ DOMAIN l = Fields
  BY DEF IInv, Orderly
<1>2. ASSUME NEW m, Orderly(m), m.pc = "body", NEW status, NEW framed \in BOOLEAN,
             framed \/ status \in {200, 201, 206}
      PROVE  Orderly([Answer(m, status, framed) EXCEPT !.pc = "flush"])
  <2> DEFINE a == Answer(m, status, framed)
             r == [a EXCEPT !.pc = "flush"]
  <2>1. PICK f : m.open = <<f>>
    BY <1>2 DEF Orderly
  <2>2. DOMAIN m = Fields /\ m.answers = <<>> /\ m.req.method = "PUT"
    BY <1>2 DEF Orderly, Storing
  <2> HIDE DEF l
  <2>3. /\ DOMAIN a = Fields /\ a.answers = <<[status |-> status, framed |-> framed]>>
        /\ a.open = <<f>> /\ a.req = m.req
    BY <2>1, <2>2, AnswerEffect
  <2> HIDE DEF a
  <2>4. /\ DOMAIN r = Fields /\ r.pc = "flush" /\ r.answers = <<[status |-> status, framed |-> framed]>>
        /\ r.open = <<f>> /\ r.req.method = "PUT"
    BY <2>2, <2>3 DEF Fields
  <2> HIDE DEF r
  <2>5. Replied(r)
    BY <1>2, <2>4 DEF Replied, Excused
  <2>6. Orderly(r)
    BY <2>4, <2>5 DEF Orderly, Before, Storing
  <2> QED
    BY <2>6 DEF a, r
<1>8. ASSUME NEW m, Orderly(m), m.pc = "body"
      PROVE  Orderly([Success(m) EXCEPT !.pc = "flush"])
  <2> DEFINE status == IF m.req.at > 0 THEN 206 ELSE Done(m)
  <2>1. status \in {200, 201, 206}
    BY DEF Done
  <2> HIDE DEF status
  <2>2. Orderly([Answer(m, status, FALSE) EXCEPT !.pc = "flush"])
    BY <1>2, <1>8, <2>1
  <2> QED
    BY <2>2 DEF Success, status
<1>3. CASE PutBody(w)
  <2> DEFINE a == [l EXCEPT !.pend = Append(@, Byte(l.req.by))]
             b == [Success(l) EXCEPT !.pc = "flush"]
  <2>1. l.pc = "body" /\ (Set(w, a) \/ Set(w, b))
    BY <1>3 DEF PutBody
  <2>2. Orderly(b)
    BY <1>1, <1>8, <2>1
  <2>3. DOMAIN a = Fields /\ a.pc = l.pc /\ a.open = l.open /\ a.answers = l.answers /\ a.req = l.req
    BY <1>1 DEF Fields
  <2> HIDE DEF a, b, l
  <2>4. Orderly(a)
    BY <1>1, <2>1, <2>3 DEF Orderly, Before, Storing
  <2> QED
    BY <2>1, <2>2, <2>4, OneMoves
<1>9. ASSUME NEW m, Orderly(m), m.pc = "body"
      PROVE  Orderly([HttpError(m, 577) EXCEPT !.pc = "flush"])
  <2>1. ASSUME NEW status
        PROVE  Orderly([Answer(m, status, TRUE) EXCEPT !.pc = "flush"])
    BY <1>2, <1>9
  <2>2. Orderly([Answer(m, 577, TRUE) EXCEPT !.pc = "flush"])
    BY <2>1
  <2> QED
    BY <2>2 DEF HttpError
<1>4. CASE PutLost(w)
  <2>1. l.pc = "body" /\ Set(w, [HttpError(l, 577) EXCEPT !.pc = "flush"])
    BY <1>4 DEF PutLost
  <2> QED
    BY <1>1, <1>9, <2>1, OneMoves
<1>5. CASE Spill(w)
  <2> DEFINE a == [l EXCEPT !.pend = <<>>, !.open[1].off = @ + Len(l.pend)]
  <2>1. l.pc = "body" /\ Set(w, a)
    BY <1>5 DEF Spill
  <2>2. PICK f : l.open = <<f>>
    BY <1>1, <2>1 DEF Orderly
  <2>3. /\ DOMAIN a = Fields /\ a.pc = l.pc /\ a.answers = l.answers /\ a.req = l.req
        /\ a.open = [l.open EXCEPT ![1] = [l.open[1] EXCEPT !.off = @ + Len(l.pend)]]
    BY <1>1 DEF Fields
  <2> HIDE DEF a, l
  <2>4. a.open = <<[f EXCEPT !.off = @ + Len(l.pend)]>>
    BY <2>2, <2>3
  <2>5. Orderly(a)
    BY <1>1, <2>1, <2>3, <2>4 DEF Orderly, Before, Storing
  <2> QED
    BY <2>1, <2>5, OneMoves
<1>10. CASE SpillFail(w)
  <2>1. PICK k, late :
          LET cut == [l EXCEPT !.pend = late, !.open[1].off = @ + k, !.fault = TRUE]
          IN Set(w, [(IF Taken(l) <= l.req.early /\ l.req.length <= l.req.early
                      THEN Success(cut) ELSE HttpError(cut, 577)) EXCEPT !.pc = "flush"])
    BY <1>10 DEF SpillFail
  <2> DEFINE cut == [l EXCEPT !.pend = late, !.open[1].off = @ + k, !.fault = TRUE]
  <2>2. l.pc = "body"
    BY <1>10 DEF SpillFail
  <2>3. PICK f : l.open = <<f>>
    BY <1>1, <2>2 DEF Orderly
  <2>4. /\ DOMAIN cut = Fields /\ cut.pc = l.pc /\ cut.answers = l.answers /\ cut.req = l.req
        /\ cut.open = [l.open EXCEPT ![1] = [l.open[1] EXCEPT !.off = @ + k]]
    BY <1>1 DEF Fields
  <2>5. \/ Set(w, [Success(cut) EXCEPT !.pc = "flush"])
        \/ Set(w, [HttpError(cut, 577) EXCEPT !.pc = "flush"])
    BY <2>1
  <2> HIDE DEF cut, l
  <2>6. cut.open = <<[f EXCEPT !.off = @ + k]>>
    BY <2>3, <2>4
  <2>7. Orderly(cut)
    BY <1>1, <2>2, <2>4, <2>6 DEF Orderly, Before, Storing
  <2>8. /\ Orderly([Success(cut) EXCEPT !.pc = "flush"])
        /\ Orderly([HttpError(cut, 577) EXCEPT !.pc = "flush"])
    BY <1>8, <1>9, <2>2, <2>4, <2>7
  <2> QED
    BY <2>5, <2>8, OneMoves
<1>6. CASE PutClose(w) \/ CloseFail(w)
  <2> DEFINE c == [l EXCEPT !.pc = "done", !.pend = <<>>, !.open = <<>>]
             d == [l EXCEPT !.pc = "done", !.pend = <<>>, !.open = <<>>, !.fault = TRUE]
  <2>1. PICK a : a \in {c, d} /\ l.pc = "flush" /\ Set(w, a)
    BY <1>6 DEF PutClose, CloseFail
  <2>2. /\ DOMAIN a = Fields /\ a.pc = "done" /\ a.answers = l.answers /\ a.req = l.req
        /\ a.must_close = l.must_close /\ a.open = <<>>
    BY <1>1, <2>1 DEF Fields
  <2>3. Replied(l)
    BY <1>1, <2>1 DEF Orderly
  <2> HIDE DEF l
  <2>4. Replied(a)
    BY <2>2, <2>3 DEF Replied, Excused
  <2>5. Orderly(a)
    BY <2>2, <2>4 DEF Orderly, Before, Storing
  <2> QED
    BY <2>1, <2>5, OneMoves
<1>7. CASE Delete(w)
  <2>1. l.pc = "DELETE" /\ (Set(w, HttpError(l, 200)) \/ Set(w, HttpError(l, 500)))
    BY <1>7 DEF Delete
  <2>2. l.open = <<>> /\ l.answers = <<>>
    BY <2>1, AtStart DEF Before
  <2>3. \A status : Orderly(HttpError(l, status))
    BY <1>1, <2>2, EndsInError
  <2> QED
    BY <2>1, <2>3, OneMoves
<1> QED
  BY <1>3, <1>4, <1>5, <1>6, <1>7, <1>10

\* The invariant holds of every reachable state.
THEOREM Invariance == Spec => []IInv
<1>1. Init => IInv
  BY InitInv
<1>2. IInv /\ [Next]_vars => IInv'
  <2> SUFFICES ASSUME IInv, [Next]_vars
               PROVE  IInv'
    OBVIOUS
  <2>1. CASE Tick \/ UNCHANGED vars
    BY <2>1 DEF Tick, vars, IInv
  <2>2. ASSUME NEW w \in Worker, Return(w)
        PROVE  IInv'
    <3>1. Orderly(Blank)
      <4>1. DOMAIN Blank = Fields /\ Blank.pc = "idle" /\ Blank.open = <<>> /\ Blank.answers = <<>>
        BY DEF Blank, Fields
      <4> QED
        BY <4>1 DEF Orderly, Before, Storing
    <3> QED
      BY <2>2, <3>1, OneMoves DEF Return
  <2> QED
    BY <2>1, <2>2, RoutingStep, SendingStep, IncludingStep, AboveStep, CreateStep, StoringStep,
       RefuseStep DEF Next
<1> QED
  BY <1>1, <1>2, PTL DEF Spec

\* For any tree, requests and workers: every way through handle_request (2842) answers once,
\* closes the files it opened and frames its answer or closes the connection, with five
\* exceptions; and the files open for SSI never pile up (3456).
THEOREM HandlersEndClean == Spec => []EndsClean
<1>1. IInv => EndsClean
  <2> SUFFICES ASSUME IInv, NEW w \in Worker
               PROVE  /\ Len(local[w].open) <= IncludeLevels + 2
                      /\ Ended(w) => /\ Replied(local[w]) /\ local[w].open = <<>>
    BY DEF EndsClean, Replied, Excused, Status
  <2> DEFINE l == local[w]
  <2>1. Orderly(l)
    BY DEF IInv
  <2> HIDE DEF l
  <2>2. \/ l.open = <<>> \/ (\E f : l.open = <<f>>) \/ Nested(l.open)
    BY <2>1 DEF Orderly
  <2>3. Len(l.open) <= IncludeLevels + 2
    <3>1. CASE l.open = <<>>
      BY <3>1, LevelAssumption
    <3>2. CASE \E f : l.open = <<f>>
      BY <3>2, LevelAssumption
    <3>3. CASE Nested(l.open)
      BY <3>3, LevelAssumption DEF Nested
    <3> QED
      BY <2>2, <3>1, <3>2, <3>3
  <2> QED
    BY <2>1, <2>3 DEF Orderly, Ended, l
<1> QED
  BY <1>1, Invariance, PTL

-----------------------------------------------------------------------------
(* The tree: what the file system promises, whoever calls it. *)

\* What files are made of.
Token == {Hole} \cup {Byte(r.by) : r \in Request}
           \cup UNION {{Tree[p].data[i] : i \in DOMAIN Tree[p].data} : p \in Path}

Pos   == Nat \ {0}
Inode == [dir : BOOLEAN, data : Seq(Token), mtime : Pos]
Stats == [found : BOOLEAN, dir : BOOLEAN, size : Nat, mtime : Nat]

\* When the state of a path began that k changes led to.
Moment(p, k) == IF k = 0 THEN 1 ELSE changed[p][k]

TreeType == /\ now \in Pos /\ disk \in Seq(Inode)
            /\ fs \in [Path -> 0 .. Len(disk)] /\ changed \in [Path -> Seq(Pos)]

\* Each path has an inode of its own, changes come in the order of the clock, and a file is
\* as old as the last change of its path.
Unshared == \A p, q \in Path : fs[p] = fs[q] /\ fs[p] # 0 => p = q
Sorted   == \A p \in Path : \A k \in 1 .. Len(changed[p]) :
              changed[p][k] <= now /\ \A j \in 1 .. k : changed[p][j] <= changed[p][k]
Dated    == \A p \in Path : fs[p] # 0 => disk[fs[p]].mtime = Moment(p, Len(changed[p]))

TreeInv == TreeType /\ Unshared /\ Sorted /\ Dated

\* What a step does to a path: nothing, or it is written down as a change.
Kept(p)  == /\ changed'[p] = changed[p] /\ fs'[p] = fs[p]
            /\ fs[p] # 0 => disk'[fs[p]] = disk[fs[p]]
Moved(p) == changed'[p] = Append(changed[p], now)

Evolves == /\ Len(disk) <= Len(disk')
           /\ \A p \in Path : Kept(p) \/ Moved(p)

\* The bytes of holes, of requests and of the files there are at first.
LEMMA Tokens ==
  /\ Hole \in Token /\ \A r \in Request : Byte(r.by) \in Token
  /\ \A p \in Path : Tree[p].data \in Seq(Token)
<1>1. ASSUME NEW p \in Path
      PROVE  Tree[p].data \in Seq(Token)
  <2> DEFINE d == Tree[p].data
  <2>1. d \in Seq({d[i] : i \in DOMAIN d})
    BY TreeAssumption
  <2>2. {d[i] : i \in DOMAIN d} \subseteq Token
    BY DEF Token
  <2> HIDE DEF d
  <2>3. d \in Seq(Token)
    BY <2>1, <2>2, SeqMonotonic
  <2> QED
    BY <2>3 DEF d
<1> QED
  BY <1>1 DEF Token

\* At first each path that is there has an inode with what it holds.
LEMMA InitTree ==
  ASSUME Init
  PROVE  TreeInv
<1> DEFINE there == {p \in Path : Tree[p].kind # "none"}
           N     == 1 .. Cardinality(there)
           Num   == {f \in [there -> N] : \A p, q \in there : p # q => f[p] # f[q]}
           num   == CHOOSE f \in [there -> N] : \A p, q \in there : p # q => f[p] # f[q]
           ofs   == [p \in Path |-> IF p \in there THEN num[p] ELSE 0]
           at(i) == CHOOSE q \in there : num[q] = i
           odisk == [i \in N |-> [dir |-> Tree[at(i)].kind = "dir", data |-> Tree[at(i)].data, mtime |-> 1]]
<1>1. fs = ofs /\ disk = odisk /\ now = 1 /\ changed = [p \in Path |-> <<>>]
  BY DEF Init
<1>2. IsFiniteSet(there)
  <2>1. there \subseteq Path
    OBVIOUS
  <2> HIDE DEF there
  <2> QED
    BY <2>1, FS_Subset, PathAssumption
<1>3. Cardinality(there) \in Nat /\ ExistsBijection(N, there)
  <2> HIDE DEF there
  <2> QED
    BY <1>2, FS_CardinalityType
<1>4. PICK g \in Bijection(N, there) : TRUE
  BY <1>3 DEF ExistsBijection
<1> HIDE DEF there
<1>5. /\ g \in [N -> there] /\ \A i, j \in N : g[i] = g[j] => i = j
      /\ \A p \in there : \E i \in N : g[i] = p
  BY <1>4 DEF Bijection, Injection, Surjection, IsInjective
<1>6. \E f \in [there -> N] : \A p, q \in there : p # q => f[p] # f[q]
  <2> HIDE DEF N
  <2> DEFINE f == [p \in there |-> CHOOSE i \in N : g[i] = p]
  <2>1. \A p \in there : f[p] \in N /\ g[f[p]] = p
    BY <1>5
  <2> HIDE DEF f
  <2>2. f \in [there -> N]
    BY <2>1 DEF f
  <2> QED
    BY <2>1, <2>2
<1>7. num \in [there -> N] /\ \A p, q \in there : p # q => num[p] # num[q]
  <2> HIDE DEF N
  <2> QED
    BY <1>6
<1> HIDE DEF num
<1>8. \A i \in N : \E q \in there : num[q] = i
  <2>1. num \in Injection(there, N)
    BY <1>7 DEF Injection, IsInjective
  <2>2. IsFiniteSet(N) /\ Cardinality(N) = Cardinality(there)
    BY <1>3, FS_Interval
  <2>3. num \in Surjection(there, N)
    <3> HIDE DEF N
    <3> QED
      BY <2>1, <2>2, FS_Injection
  <2> QED
    BY <2>3 DEF Surjection
<1>9. \A i \in N : at(i) \in there /\ num[at(i)] = i
  BY <1>8
<1> HIDE DEF at
<1>10. ASSUME NEW i \in N
       PROVE  odisk[i] \in Inode
  <2>1. at(i) \in Path
    BY <1>9 DEF there
  <2>2. Tree[at(i)].data \in Seq(Token)
    BY <2>1, Tokens
  <2> QED
    BY <2>2 DEF Inode, Pos
<1>11. odisk \in Seq(Inode) /\ Len(odisk) = Cardinality(there)
  <2> HIDE DEF at
  <2>1. odisk \in [N -> Inode]
    BY <1>10
  <2> HIDE DEF odisk
  <2> QED
    BY <1>3, <2>1
<1>12. ofs \in [Path -> 0 .. Cardinality(there)]
  BY <1>3, <1>7
<1>13. TreeType
  <2>1. [p \in Path |-> <<>>] \in [Path -> Seq(Pos)]
    OBVIOUS
  <2>2. now \in Pos
    BY <1>1 DEF Pos
  <2> HIDE DEF ofs, odisk
  <2> QED
    BY <1>1, <1>11, <1>12, <2>1, <2>2 DEF TreeType
<1>14. Unshared
  <2> SUFFICES ASSUME NEW p \in Path, NEW q \in Path, ofs[p] = ofs[q], ofs[p] # 0
               PROVE  p = q
    BY <1>1 DEF Unshared
  <2>1. p \in there /\ q \in there
    OBVIOUS
  <2> QED
    BY <1>7, <2>1
<1>15. Sorted
  BY <1>1 DEF Sorted
<1>16. Dated
  <2> SUFFICES ASSUME NEW p \in Path, fs[p] # 0
               PROVE  disk[fs[p]].mtime = Moment(p, Len(changed[p]))
    BY DEF Dated
  <2>1. fs[p] \in N
    BY <1>1, <1>7
  <2>2. disk[fs[p]].mtime = 1
    BY <1>1, <2>1
  <2>3. changed[p] = <<>>
    BY <1>1
  <2> QED
    BY <2>2, <2>3 DEF Moment
<1> QED
  BY <1>13, <1>14, <1>15, <1>16 DEF TreeInv

-----------------------------------------------------------------------------
(* How the tree changes. *)

\* The tree stays, and the clock may go on.
LEMMA TreeStays ==
  ASSUME TreeInv, UNCHANGED tree, now' \in {now, now + 1}
  PROVE  TreeInv' /\ Evolves
<1>1. fs' = fs /\ disk' = disk /\ changed' = changed
  BY DEF tree
<1>2. now' \in Pos /\ now <= now'
  BY DEF TreeInv, TreeType, Pos
<1>3. TreeType' /\ Unshared' /\ Dated'
  BY <1>1, <1>2 DEF TreeInv, TreeType, Unshared, Dated, Moment
<1>4. Sorted'
  <2> SUFFICES ASSUME NEW p \in Path, NEW k \in 1 .. Len(changed[p])
               PROVE  changed[p][k] <= now' /\ \A j \in 1 .. k : changed[p][j] <= changed[p][k]
    BY <1>1 DEF Sorted
  <2>1. changed[p][k] <= now /\ \A j \in 1 .. k : changed[p][j] <= changed[p][k]
    BY DEF TreeInv, Sorted
  <2>2. changed[p][k] \in Pos
    BY DEF TreeInv, TreeType
  <2>3. changed[p][k] <= now'
    BY <1>2, <2>1, <2>2 DEF Pos, TreeInv, TreeType
  <2> QED
    BY <2>1, <2>3
<1>5. Evolves
  BY <1>1 DEF Evolves, Kept, TreeInv, TreeType
<1> QED
  BY <1>3, <1>4, <1>5 DEF TreeInv

\* A change that is written down keeps the moments in order.
LEMMA MomentsInOrder ==
  ASSUME TreeInv, NEW P, changed' = Moments(P), now' = now
  PROVE  /\ changed' \in [Path -> Seq(Pos)] /\ Sorted'
         /\ \A p \in Path : IF p \in P THEN /\ changed'[p] = Append(changed[p], now)
                                         /\ Len(changed'[p]) = Len(changed[p]) + 1
                                         /\ Moment(p, Len(changed[p]))' = now
                                    ELSE changed'[p] = changed[p]
<1>1. ASSUME NEW p \in Path
      PROVE  /\ changed[p] \in Seq(Pos) /\ now \in Pos
             /\ \A k \in 1 .. Len(changed[p]) :
                  changed[p][k] <= now /\ \A j \in 1 .. k : changed[p][j] <= changed[p][k]
  BY DEF TreeInv, TreeType, Sorted
<1>2. ASSUME NEW p \in Path
      PROVE  changed'[p] = IF p \in P THEN Append(changed[p], now) ELSE changed[p]
  BY DEF Moments
<1>3. ASSUME NEW p \in Path, p \in P
      PROVE  /\ changed'[p] = Append(changed[p], now) /\ changed'[p] \in Seq(Pos)
             /\ Len(changed'[p]) = Len(changed[p]) + 1 /\ changed'[p][Len(changed[p]) + 1] = now
             /\ \A k \in 1 .. Len(changed[p]) : changed'[p][k] = changed[p][k]
  <2> DEFINE s == changed[p]
             t == changed'[p]
  <2>1. t = Append(s, now) /\ s \in Seq(Pos) /\ now \in Pos
    BY <1>1, <1>2, <1>3
  <2> HIDE DEF s, t
  <2>2. /\ t \in Seq(Pos) /\ Len(t) = Len(s) + 1 /\ t[Len(s) + 1] = now
        /\ \A k \in 1 .. Len(s) : t[k] = s[k]
    BY <2>1, AppendProperties
  <2> QED
    BY <2>1, <2>2 DEF s, t
<1>4. changed' \in [Path -> Seq(Pos)]
  <2>1. \A p \in Path : changed'[p] \in Seq(Pos)
    BY <1>1, <1>2, <1>3
  <2>2. changed' = [p \in Path |-> changed'[p]]
    BY DEF Moments
  <2> QED
    BY <2>1, <2>2
<1>5. Sorted'
  <2> SUFFICES ASSUME NEW p \in Path, NEW k \in 1 .. Len(changed'[p])
               PROVE  /\ changed'[p][k] <= now
                      /\ \A j \in 1 .. k : changed'[p][j] <= changed'[p][k]
    BY DEF Sorted
  <2>1. CASE p \notin P
    BY <1>1, <1>2, <2>1
  <2>2. CASE p \in P
    <3> DEFINE s == changed[p]
               t == changed'[p]
               n == Len(changed[p])
    <3>1. /\ n \in Nat /\ Len(t) = n + 1 /\ t[n + 1] = now /\ now \in Pos
          /\ \A m \in 1 .. n : t[m] = s[m] /\ s[m] \in Pos /\ s[m] <= now
          /\ \A m \in 1 .. n : \A j \in 1 .. m : s[j] <= s[m]
      BY <1>1, <1>3, <2>2
    <3>2. k \in 1 .. Len(t)
      OBVIOUS
    <3> HIDE DEF s, t, n
    <3>3. CASE k = n + 1
      <4>1. now <= now
        BY <3>1 DEF Pos
      <4>2. \A j \in 1 .. k : j \in 1 .. n \/ j = n + 1
        BY <3>1, <3>3
      <4>3. t[k] <= now /\ \A j \in 1 .. k : t[j] <= t[k]
        BY <3>1, <3>3, <4>1, <4>2
      <4> QED
        BY <4>3 DEF t
    <3>4. CASE k # n + 1
      <4>1. k \in 1 .. n /\ \A j \in 1 .. k : j \in 1 .. n
        BY <3>1, <3>2, <3>4
      <4>2. t[k] <= now /\ \A j \in 1 .. k : t[j] <= t[k]
        BY <3>1, <4>1
      <4> QED
        BY <4>2 DEF t
    <3> QED
      BY <3>3, <3>4
  <2> QED
    BY <2>1, <2>2
<1>6. ASSUME NEW p \in Path, p \in P
      PROVE  Moment(p, Len(changed[p]))' = now
  <2>1. Len(changed'[p]) # 0 /\ changed'[p][Len(changed'[p])] = now
    BY <1>1, <1>3, <1>6
  <2> QED
    BY <2>1 DEF Moment
<1> QED
  BY <1>2, <1>3, <1>4, <1>5, <1>6

\* A new inode: a directory or a file is made.
LEMMA Makes ==
  ASSUME TreeInv, NEW p \in Path, fs[p] = 0, NEW n \in Inode, n.mtime = now,
         disk' = Append(disk, n), fs' = [fs EXCEPT ![p] = Len(disk) + 1],
         changed' = Moments({p}), now' = now
  PROVE  /\ TreeInv' /\ Evolves /\ Moved(p) /\ Len(disk') = Len(disk) + 1 /\ disk'[Len(disk) + 1] = n
         /\ \A i \in 1 .. Len(disk) : disk'[i] = disk[i]
<1>1. /\ disk \in Seq(Inode) /\ fs \in [Path -> 0 .. Len(disk)] /\ Len(disk) \in Nat
  BY DEF TreeInv, TreeType
<1>2. /\ disk' \in Seq(Inode) /\ Len(disk') = Len(disk) + 1 /\ disk'[Len(disk) + 1] = n
      /\ \A i \in 1 .. Len(disk) : disk'[i] = disk[i]
  BY <1>1, AppendProperties
<1>3. /\ changed' \in [Path -> Seq(Pos)] /\ Sorted'
      /\ Moved(p) /\ Moment(p, Len(changed[p]))' = now
      /\ \A q \in Path \ {p} : changed'[q] = changed[q]
  BY MomentsInOrder DEF Moved
<1>4. fs'[p] = Len(disk) + 1 /\ \A q \in Path \ {p} : fs'[q] = fs[q] /\ fs[q] \in 0 .. Len(disk)
  BY <1>1
<1>5. TreeType'
  <2>1. fs' \in [Path -> 0 .. Len(disk')]
    BY <1>1, <1>2
  <2> QED
    BY <1>2, <1>3, <2>1 DEF TreeInv, TreeType
<1>6. Unshared'
  <2> SUFFICES ASSUME NEW q \in Path, NEW r \in Path, fs'[q] = fs'[r], fs'[q] # 0
               PROVE  q = r
    BY DEF Unshared
  <2>1. CASE q # p /\ r # p
    BY <1>4, <2>1 DEF TreeInv, Unshared
  <2>2. CASE q = p \/ r = p
    BY <1>1, <1>4, <2>2
  <2> QED
    BY <2>1, <2>2
<1>7. ASSUME NEW q \in Path \ {p}
      PROVE  Kept(q)
  <2>1. fs[q] # 0 => fs[q] \in 1 .. Len(disk)
    BY <1>1
  <2> QED
    BY <1>2, <1>3, <1>4, <2>1 DEF Kept
<1>8. Dated'
  <2> SUFFICES ASSUME NEW q \in Path, fs'[q] # 0
               PROVE  disk'[fs'[q]].mtime = Moment(q, Len(changed[q]))'
    BY DEF Dated
  <2>1. CASE q = p
    BY <1>2, <1>3, <1>4, <2>1
  <2>2. CASE q # p
    <3>1. Kept(q)
      BY <1>7, <2>2
    <3>2. Moment(q, Len(changed[q]))' = Moment(q, Len(changed[q]))
      BY <3>1 DEF Kept, Moment
    <3> QED
      BY <3>1, <3>2 DEF Kept, TreeInv, Dated
  <2> QED
    BY <2>1, <2>2
<1>9. Evolves
  BY <1>1, <1>2, <1>3, <1>7 DEF Evolves
<1> QED
  BY <1>2, <1>3, <1>5, <1>6, <1>8, <1>9 DEF TreeInv

\* An inode is written to.
LEMMA Writes ==
  ASSUME TreeInv, NEW i \in 1 .. Len(disk), NEW n \in Inode, n.mtime = now,
         disk' = [disk EXCEPT ![i] = n], UNCHANGED fs,
         changed' = Moments({p \in Path : fs[p] = i}), now' = now
  PROVE  /\ TreeInv' /\ Evolves /\ Len(disk') = Len(disk) /\ disk'[i] = n
         /\ \A j \in 1 .. Len(disk) : j # i => disk'[j] = disk[j]
<1> DEFINE P == {p \in Path : fs[p] = i}
<1>1. /\ disk \in Seq(Inode) /\ fs \in [Path -> 0 .. Len(disk)] /\ Len(disk) \in Nat
  BY DEF TreeInv, TreeType
<1>2. /\ disk' \in Seq(Inode) /\ Len(disk') = Len(disk) /\ disk'[i] = n
      /\ \A j \in 1 .. Len(disk) : j # i => disk'[j] = disk[j]
  BY <1>1, ExceptSeq
<1>3. /\ changed' \in [Path -> Seq(Pos)] /\ Sorted'
      /\ \A p \in P : Moved(p) /\ Moment(p, Len(changed[p]))' = now
      /\ \A p \in Path \ P : changed'[p] = changed[p]
  <2> HIDE DEF P
  <2>1. P \subseteq Path /\ changed' = Moments(P)
    BY DEF P
  <2> QED
    BY <2>1, MomentsInOrder DEF Moved
<1>4. TreeType' /\ Unshared'
  BY <1>1, <1>2, <1>3 DEF TreeInv, TreeType, Unshared
<1>5. ASSUME NEW q \in Path, fs[q] # i
      PROVE  Kept(q)
  <2>1. fs[q] # 0 => fs[q] \in 1 .. Len(disk)
    BY <1>1
  <2> QED
    BY <1>2, <1>3, <1>5, <2>1 DEF Kept
<1>6. Dated'
  <2> SUFFICES ASSUME NEW q \in Path, fs[q] # 0
               PROVE  disk'[fs[q]].mtime = Moment(q, Len(changed[q]))'
    BY DEF Dated
  <2>1. CASE fs[q] = i
    BY <1>2, <1>3, <2>1
  <2>2. CASE fs[q] # i
    <3>1. Kept(q)
      BY <1>5, <2>2
    <3>2. Moment(q, Len(changed[q]))' = Moment(q, Len(changed[q]))
      BY <3>1 DEF Kept, Moment
    <3> QED
      BY <3>1, <3>2 DEF Kept, TreeInv, Dated
  <2> QED
    BY <2>1, <2>2
<1>7. Evolves
  BY <1>1, <1>2, <1>3, <1>5 DEF Evolves
<1> QED
  BY <1>2, <1>3, <1>4, <1>6, <1>7 DEF TreeInv

\* A path is removed.
LEMMA Removes ==
  ASSUME TreeInv, NEW p \in Path, fs' = [fs EXCEPT ![p] = 0], UNCHANGED disk,
         changed' = Moments({p}), now' = now
  PROVE  TreeInv' /\ Evolves
<1>1. fs \in [Path -> 0 .. Len(disk)] /\ Len(disk) \in Nat
  BY DEF TreeInv, TreeType
<1>2. /\ changed' \in [Path -> Seq(Pos)] /\ Sorted' /\ Moved(p)
      /\ \A q \in Path \ {p} : changed'[q] = changed[q]
  BY MomentsInOrder DEF Moved
<1>3. fs' \in [Path -> 0 .. Len(disk)] /\ fs'[p] = 0 /\ \A q \in Path \ {p} : fs'[q] = fs[q]
  BY <1>1
<1>4. TreeType' /\ Unshared'
  BY <1>2, <1>3 DEF TreeInv, TreeType, Unshared
<1>5. \A q \in Path \ {p} : Kept(q)
  BY <1>2, <1>3 DEF Kept
<1>6. Dated'
  <2> SUFFICES ASSUME NEW q \in Path, fs'[q] # 0
               PROVE  disk'[fs'[q]].mtime = Moment(q, Len(changed[q]))'
    BY DEF Dated
  <2>1. Kept(q)
    BY <1>3, <1>5
  <2>2. Moment(q, Len(changed[q]))' = Moment(q, Len(changed[q]))
    BY <2>1 DEF Kept, Moment
  <2> QED
    BY <2>1, <2>2 DEF Kept, TreeInv, Dated
<1>7. Evolves
  BY <1>1, <1>2, <1>5 DEF Evolves
<1> QED
  BY <1>2, <1>4, <1>6, <1>7 DEF TreeInv

-----------------------------------------------------------------------------
(* What a handler knows of the tree. *)

\* A client's copy is what its tag and date name, while the path is what it was.
CopyInv(c) ==
  /\ c.path \in Path /\ c.ver \in 0 .. Len(changed[c.path])
  /\ c.st.mtime = Moment(c.path, c.ver)
  /\ c.ver = Len(changed[c.path]) => c.data = DataAt(c.path)

\* What no PUT comes to.
Serving == {"index", "list", "propfind", "open", "ssi", "send", "close", "include", "DELETE"}

\* The handler's stat is true while the path is still what it was.
LookInv(l) ==
  /\ l.req \in Request /\ l.path \in Path /\ l.todo \in Seq(Path)
  /\ l.seen \in Seq(Token) /\ l.st \in Stats
  /\ l.ver \in [Path -> Nat] /\ \A p \in Path : l.ver[p] <= Len(changed[p])
  /\ Still(l, l.path) => l.seen = DataAt(l.path) /\ l.st = Stat(l.path)
  /\ l.req.method # "PUT" /\ l.st.found => l.st.mtime = Moment(l.path, l.ver[l.path])
  /\ l.pc \in Serving => l.req.method # "PUT"
  /\ l.pc \in {"open", "send", "close"} => l.st.found
  /\ l.req.cond # "none" =>
       /\ CopyInv(l.copy) /\ l.copy.ver <= l.ver[l.copy.path]
       /\ l.copy.path = l.path /\ l.copy.ver = l.ver[l.path] => l.copy.data = l.seen

\* Where the part that is asked for begins, and what is announced of it.
At(l)     == IF Ranged(l) THEN l.req.range.r1 ELSE 0
Length(l) == IF Ranged(l) THEN RangeLength(l.req.range, l.st.size) ELSE l.st.size

\* What BodyExplained and NotModifiedHonest say of one handler.
Explained(l) ==
  /\ l.announced >= 0 => Len(l.body) <= l.announced
  /\ Still(l, l.path) =>
       LET r == l.req.range IN
       IF Ranged(l)
       THEN /\ l.body = SelectFrom(l.seen, r.r1, r.r2)
            /\ r.r2 < l.st.size /\ r.r1 <= r.r2 => l.announced = Len(l.body)
       ELSE l.body = l.seen /\ l.announced = Len(l.body)

Honest(l) ==
  \/ l.copy.data = l.seen
  \/ \E k \in l.copy.ver + 1 .. Len(changed[l.path]) : changed[l.path][k] = l.copy.st.mtime

\* While the file is sent: so far it is what was seen, as far as it was not changed.
SendInv(l) ==
  LET f == l.open[1]
      n == Len(l.body) IN
  /\ DOMAIN f = {"ino", "off"} /\ l.announced = Length(l) /\ l.body \in Seq(Token)
  /\ f.ino \in 1 .. Len(disk) /\ f.off = At(l) + n
  /\ l.want = l.announced - n /\ (n > 0 => l.want >= 0)
  /\ Still(l, l.path) =>
       /\ f.ino = fs[l.path]
       /\ \A i \in 1 .. n : At(l) + i <= Len(l.seen) /\ l.body[i] = l.seen[At(l) + i]

ReadInv(l) ==
  /\ l.pc \in Before => l.announced = -1 /\ l.body = <<>>
  /\ l.pc \in {"include", "body", "flush"} => l.announced = -1
  /\ l.pc \in {"send", "close", "include", "flush"} => l.answers[1].status # 304
  /\ l.pc \in {"send", "close"} => SendInv(l)
  /\ l.pc = "send" => l.req.method # "HEAD"
  /\ l.pc \in {"close", "done"} /\ l.announced # -1 /\ l.req.method = "GET" => Explained(l)
  /\ l.pc = "done" /\ l.answers[1].status = 304 =>
       l.req.cond # "none" /\ (l.copy.path = l.path => Honest(l))

\* The directories a PUT goes through: all it has passed are there, or have changed since.
Way(l)    == Above[l.path] \o IF l.req.slash THEN <<l.path>> ELSE <<>>
Passed(l) == Len(Way(l)) - Len(l.todo)

WayInv(l) ==
  /\ Passed(l) \in Nat
  /\ \A i \in 1 .. Len(l.todo) : l.todo[i] = Way(l)[Passed(l) + i]
  /\ \A i \in 1 .. Passed(l) : ~ Still(l, Way(l)[i]) \/ fs[Way(l)[i]] # 0

Blamed(l) ==
  \/ \E q \in {l.path} \cup {Above[l.path][i] : i \in 1 .. Len(Above[l.path])} : ~ Still(l, q)
  \/ DirAt(l.path) \/ \E i \in 1 .. Len(Above[l.path]) : FileAt(Above[l.path][i])

\* What of the body is in the file, and what is in the buffer.
FillInv(l) ==
  LET f == l.open[1]
      n == f.off - l.req.at IN
  /\ DOMAIN f = {"ino", "off"} /\ l.ino # 0 /\ f.ino = l.ino /\ f.off \in Nat /\ n \in Nat
  /\ l.pend \in Seq(Token) /\ \A i \in 1 .. Len(l.pend) : l.pend[i] = Byte(l.req.by)
  /\ ~ l.rival => disk[l.ino].data = Part(l.req, n)
  /\ n + Len(l.pend) = 0 \/ n + Len(l.pend) <= l.req.length

Stored(l) == l.answers[1].status \in {200, 201, 206}

\* What PutExplained says of the file.
Held(l) == \E k \in {0} \cup (1 .. l.req.length) :
             disk[l.ino].data = Part(l.req, k) /\ (l.fault \/ k >= l.req.length)

PutInv(l) ==
  /\ l.pc \in {"above", "mkdir", "create"} => WayInv(l)
  /\ l.pc = "mkdir" => l.todo # <<>> /\ (~ Still(l, l.todo[1]) \/ fs[l.todo[1]] = 0)
  /\ l.pc = "create" => l.todo = <<>> /\ ~ l.req.slash
  /\ l.pc = "flush" => l.answers[1].status # 500
  /\ l.pc = "done" /\ l.req.method = "PUT" /\ l.answers[1].status = 500 => Blamed(l) \/ l.fault
  /\ l.ino \in 0 .. Len(disk)
  /\ l.pc \notin {"body", "flush", "done"} => l.ino = 0
  /\ l.pc \in Before => l.pend = <<>>
  /\ l.pc \in {"body", "flush"} => FillInv(l)
  /\ l.pc = "flush" /\ Stored(l) => l.fault \/ ~ (Taken(l) < l.req.length)
  /\ l.pc = "done" /\ l.ino # 0 /\ ~ l.rival /\ Stored(l) => Held(l)

HandlerInv(l) == (l.pc # "idle" => LookInv(l)) /\ ReadInv(l) /\ PutInv(l)

\* Who writes to a file that another has opened to write is known to be a rival.
RivalInv == \A u, w \in Worker :
  u # w /\ local[u].ino # 0 /\ local[u].ino = local[w].ino => local[u].rival /\ local[w].rival

KnowInv == /\ TreeInv /\ RivalInv /\ \A c \in copies : CopyInv(c)
           /\ \A w \in Worker : HandlerInv(local[w])

-----------------------------------------------------------------------------
(* What is known of the tree stays true when the tree changes. *)

\* A path that is kept holds what it held.
LEMMA KeptPath ==
  ASSUME NEW p \in Path, Kept(p)
  PROVE  /\ DataAt(p)' = DataAt(p) /\ Stat(p)' = Stat(p)
         /\ (DirAt(p)' <=> DirAt(p)) /\ (FileAt(p)' <=> FileAt(p))
BY DEF Kept, DataAt, Stat, DirAt, FileAt

\* The history of a path only grows.
Recorded(p, k) ==
  /\ k \in 0 .. Len(changed'[p]) /\ Len(changed[p]) <= Len(changed'[p])
  /\ \A j \in 1 .. Len(changed[p]) : changed'[p][j] = changed[p][j]
  /\ k = Len(changed'[p]) => k = Len(changed[p]) /\ Kept(p)

\* Every version of a path keeps its moment and stays among the versions of the path.
LEMMA Records ==
  ASSUME TreeInv, Evolves, NEW p \in Path, NEW k \in 0 .. Len(changed[p])
  PROVE  /\ Recorded(p, k) /\ (k = 0 \/ changed'[p][k] = changed[p][k])
<1>1. changed[p] \in Seq(Pos) /\ now \in Pos /\ Len(changed[p]) \in Nat
  BY DEF TreeInv, TreeType
<1>2. CASE Kept(p)
  BY <1>1, <1>2 DEF Kept, Recorded
<1>3. CASE Moved(p)
  <2> DEFINE s == changed[p]
             t == changed'[p]
  <2>1. t = Append(s, now) /\ s \in Seq(Pos) /\ now \in Pos
    BY <1>1, <1>3 DEF Moved
  <2> HIDE DEF s, t
  <2>2. Len(t) = Len(s) + 1 /\ Len(s) \in Nat /\ \A j \in 1 .. Len(s) : t[j] = s[j]
    BY <2>1, AppendProperties, LenProperties
  <2>3. k \in 0 .. Len(s)
    BY DEF s
  <2>4. k \in 0 .. Len(t) /\ Len(s) <= Len(t) /\ k # Len(t) /\ (k = 0 \/ t[k] = s[k])
    BY <2>2, <2>3
  <2> QED
    BY <2>2, <2>4 DEF s, t, Recorded
<1> QED
  BY <1>2, <1>3 DEF Evolves

\* So a moment that is known stays what it is.
LEMMA MomentStays ==
  ASSUME TreeInv, Evolves, NEW p \in Path, NEW k \in 0 .. Len(changed[p])
  PROVE  Moment(p, k)' = Moment(p, k)
BY Records DEF Moment

\* A path that has not changed by now was kept.
LEMMA StillKept ==
  ASSUME TreeInv, Evolves, NEW p \in Path, NEW l, l.ver[p] \in Nat, l.ver[p] <= Len(changed[p])
  PROVE  /\ l.ver[p] <= Len(changed'[p])
         /\ Still(l, p)' => Still(l, p) /\ Kept(p)
<1>1. Len(changed[p]) \in Nat
  BY DEF TreeInv, TreeType
<1>2. l.ver[p] \in 0 .. Len(changed[p])
  BY <1>1
<1>3. Recorded(p, l.ver[p])
  BY <1>2, Records
<1> QED
  BY <1>3 DEF Recorded, Still

\* A client's copy stays what CopyInv says of it, whatever is written to the tree.
LEMMA CopyStays ==
  ASSUME TreeInv, Evolves, NEW c, CopyInv(c)
  PROVE  CopyInv(c)'
<1> DEFINE p == c.path
           k == c.ver
<1>1. /\ p \in Path /\ k \in 0 .. Len(changed[p]) /\ c.st.mtime = Moment(p, k)
      /\ k = Len(changed[p]) => c.data = DataAt(p)
  BY DEF CopyInv
<1> HIDE DEF p, k
<1>2. Recorded(p, k) /\ Moment(p, k)' = Moment(p, k)
  BY <1>1, Records, MomentStays
<1>3. k = Len(changed'[p]) => c.data = DataAt(p)'
  BY <1>1, <1>2, KeptPath DEF Recorded
<1> QED
  BY <1>1, <1>2, <1>3 DEF Recorded, CopyInv, p, k

\* So does what a handler saw of the tree when it looked.
LEMMA LookStays ==
  ASSUME TreeInv, Evolves, NEW l, LookInv(l)
  PROVE  LookInv(l)'
<1>1. /\ l.req \in Request /\ l.path \in Path /\ l.todo \in Seq(Path)
      /\ l.seen \in Seq(Token) /\ l.st \in Stats /\ l.ver \in [Path -> Nat]
      /\ l.pc \in Serving => l.req.method # "PUT"
      /\ l.pc \in {"open", "send", "close"} => l.st.found
  BY DEF LookInv
<1>2. \A p \in Path : l.ver[p] \in Nat /\ l.ver[p] <= Len(changed[p])
  BY DEF LookInv
<1>3. \A p \in Path : l.ver[p] <= Len(changed'[p]) /\ (Still(l, p)' => Still(l, p) /\ Kept(p))
  BY <1>2, StillKept
<1>4. Still(l, l.path)' => l.seen = DataAt(l.path)' /\ l.st = Stat(l.path)'
  BY <1>1, <1>3, KeptPath DEF LookInv
<1>5. l.req.method # "PUT" /\ l.st.found => l.st.mtime = Moment(l.path, l.ver[l.path])'
  <2> DEFINE p == l.path
             k == l.ver[l.path]
  <2>1. p \in Path /\ k \in Nat /\ k <= Len(changed[p])
    BY <1>1, <1>2
  <2>2. Len(changed[p]) \in Nat
    BY <2>1 DEF TreeInv, TreeType
  <2>3. l.req.method # "PUT" /\ l.st.found => l.st.mtime = Moment(p, k)
    BY DEF LookInv
  <2> HIDE DEF p, k
  <2>4. k \in 0 .. Len(changed[p])
    BY <2>1, <2>2
  <2>5. Moment(p, k)' = Moment(p, k)
    BY <2>1, <2>4, MomentStays
  <2> QED
    BY <2>3, <2>5 DEF p, k
<1>6. l.req.cond # "none" =>
        /\ CopyInv(l.copy)' /\ l.copy.ver <= l.ver[l.copy.path]
        /\ l.copy.path = l.path /\ l.copy.ver = l.ver[l.path] => l.copy.data = l.seen
  BY CopyStays DEF LookInv
<1> QED
  BY <1>1, <1>3, <1>4, <1>5, <1>6 DEF LookInv

\* The file is sent on as it was, while it is what it was.
LEMMA ReadStays ==
  ASSUME TreeInv, Evolves, NEW l, LookInv(l), ReadInv(l)
  PROVE  ReadInv(l)'
<1>1. l.path \in Path /\ \A p \in Path : l.ver[p] \in Nat /\ l.ver[p] <= Len(changed[p])
  BY DEF LookInv
<1>2. Still(l, l.path)' => Still(l, l.path) /\ Kept(l.path)
  BY <1>1, StillKept
<1>3. Explained(l) => Explained(l)'
  BY <1>2 DEF Explained
<1>4. ASSUME l.req.cond # "none", l.copy.path = l.path, Honest(l)
      PROVE  Honest(l)'
  <2>1. CASE l.copy.data = l.seen
    BY <2>1 DEF Honest
  <2>2. CASE \E k \in l.copy.ver + 1 .. Len(changed[l.path]) : changed[l.path][k] = l.copy.st.mtime
    <3>1. PICK k \in l.copy.ver + 1 .. Len(changed[l.path]) : changed[l.path][k] = l.copy.st.mtime
      BY <2>2
    <3>2. l.copy.ver \in Nat /\ Len(changed[l.path]) \in Nat
      BY <1>1, <1>4 DEF LookInv, CopyInv, TreeInv, TreeType
    <3>3. k \in 0 .. Len(changed[l.path]) /\ k # 0
      BY <3>2
    <3>4. Recorded(l.path, k) /\ changed'[l.path][k] = changed[l.path][k]
      BY <1>1, <3>3, Records
    <3>5. k \in l.copy.ver + 1 .. Len(changed'[l.path])
      BY <3>2, <3>4 DEF Recorded
    <3> QED
      BY <3>1, <3>4, <3>5 DEF Honest
  <2> QED
    BY <1>4, <2>1, <2>2 DEF Honest
<1>5. SendInv(l) => SendInv(l)'
  <2> SUFFICES ASSUME SendInv(l)
               PROVE  SendInv(l)'
    OBVIOUS
  <2>1. l.open[1].ino \in 1 .. Len(disk')
    <3>1. Len(disk) <= Len(disk') /\ Len(disk) \in Nat /\ l.open[1].ino \in 1 .. Len(disk)
      BY DEF Evolves, TreeInv, TreeType, SendInv
    <3> QED
      BY <3>1
  <2> QED
    BY <1>2, <2>1 DEF SendInv, Kept
<1> QED
  BY <1>3, <1>4, <1>5 DEF ReadInv

\* The paths a PUT went through.
LEMMA WayOf ==
  ASSUME NEW l, l.path \in Path
  PROVE  /\ Above[l.path] \in Seq(Path) /\ Way(l) \in Seq(Path) /\ Len(Way(l)) \in Nat
         /\ \A i \in 1 .. Len(Above[l.path]) : Way(l)[i] = Above[l.path][i] /\ Above[l.path][i] \in Path
         /\ Len(Way(l)) = Len(Above[l.path]) + IF l.req.slash THEN 1 ELSE 0
         /\ l.req.slash => Way(l)[Len(Above[l.path]) + 1] = l.path
<1> DEFINE a == Above[l.path]
<1>1. a \in Seq(Path)
  BY PathAssumption
<1>2. Way(l) = a \o IF l.req.slash THEN <<l.path>> ELSE <<>>
  BY DEF Way
<1> HIDE DEF a
<1>3. CASE l.req.slash
  <2>1. Way(l) = a \o <<l.path>> /\ <<l.path>> \in Seq(Path)
    BY <1>2, <1>3
  <2> QED
    BY <1>1, <1>3, <2>1 DEF a
<1>4. CASE ~ l.req.slash
  <2>1. Way(l) = a
    BY <1>1, <1>2, <1>4
  <2> QED
    BY <1>1, <1>4, <2>1 DEF a
<1> QED
  BY <1>3, <1>4

\* What a PUT met on its way, and what it has stored, if no rival writes to the same file.
LEMMA PutStays ==
  ASSUME TreeInv, Evolves, NEW l, LookInv(l), PutInv(l),
         l.ino # 0 /\ ~ l.rival => disk'[l.ino] = disk[l.ino]
  PROVE  PutInv(l)'
<1>1. l.path \in Path /\ \A p \in Path : l.ver[p] \in Nat /\ l.ver[p] <= Len(changed[p])
  BY DEF LookInv
<1>2. \A p \in Path : Still(l, p)' => Still(l, p) /\ Kept(p)
  BY <1>1, StillKept
<1>3. \A p \in Path : ~ Still(l, p) \/ fs[p] # 0 => (~ Still(l, p) \/ fs[p] # 0)'
  BY <1>2 DEF Kept
<1>4. WayInv(l) => WayInv(l)'
  <2>1. Passed(l) \in Nat /\ l.todo \in Seq(Path) => \A i \in 1 .. Passed(l) : Way(l)[i] \in Path
    <3>1. Way(l) \in Seq(Path) /\ Len(Way(l)) \in Nat
      BY <1>1, WayOf
    <3>2. l.todo \in Seq(Path) => Len(l.todo) \in Nat
      OBVIOUS
    <3> QED
      BY <3>1, <3>2 DEF Passed
  <2> QED
    BY <1>3, <2>1 DEF WayInv, LookInv
<1>5. l.todo # <<>> /\ (~ Still(l, l.todo[1]) \/ fs[l.todo[1]] = 0)
        => l.todo # <<>> /\ (~ Still(l, l.todo[1]) \/ fs[l.todo[1]] = 0)'
  <2>1. l.todo # <<>> => l.todo[1] \in Path
    BY DEF LookInv
  <2> QED
    BY <1>2, <2>1 DEF Kept
<1>6. Blamed(l) => Blamed(l)'
  <2> DEFINE a == Above[l.path]
             Q == {l.path} \cup {a[i] : i \in 1 .. Len(a)}
  <2>1. \A i \in 1 .. Len(a) : a[i] \in Path /\ a[i] \in Q
    BY <1>1, WayOf
  <2>2. Q \subseteq Path /\ l.path \in Q
    BY <1>1, <2>1
  <2> HIDE DEF Q, a
  <2> SUFFICES ASSUME (\E q \in Q : ~ Still(l, q)) \/ DirAt(l.path) \/ \E i \in 1 .. Len(a) : FileAt(a[i]),
                      \A q \in Q : Still(l, q)'
               PROVE  DirAt(l.path)' \/ \E i \in 1 .. Len(a) : FileAt(a[i])'
    BY DEF Blamed, Q, a
  <2>3. \A q \in Q : Still(l, q) /\ Kept(q)
    BY <1>2, <2>2
  <2> QED
    BY <2>1, <2>2, <2>3, KeptPath
<1>7. l.ino \in 0 .. Len(disk')
  <2>1. Len(disk) <= Len(disk') /\ Len(disk) \in Nat /\ l.ino \in 0 .. Len(disk)
    BY DEF Evolves, TreeInv, TreeType, PutInv
  <2> QED
    BY <2>1
<1>8. FillInv(l) => FillInv(l)'
  BY DEF FillInv
<1>9. l.ino # 0 /\ ~ l.rival /\ Held(l) => Held(l)'
  BY DEF Held
<1> QED
  BY <1>4, <1>5, <1>6, <1>7, <1>8, <1>9 DEF PutInv

\* What a handler knows stays true, whatever the others do.
LEMMA HandlerStays ==
  ASSUME TreeInv, Evolves, NEW l, HandlerInv(l),
         l.ino # 0 /\ ~ l.rival => disk'[l.ino] = disk[l.ino]
  PROVE  HandlerInv(l)'
<1>1. CASE l.pc = "idle"
  <2>1. l.announced = -1 /\ l.body = <<>> /\ l.ino = 0 /\ l.pend = <<>>
    BY <1>1 DEF HandlerInv, ReadInv, PutInv, Before
  <2>2. ReadInv(l)'
    BY <1>1, <2>1 DEF ReadInv
  <2>3. Len(disk') \in Nat
    BY DEF Evolves, TreeInv, TreeType
  <2>4. PutInv(l)'
    BY <1>1, <2>1, <2>3 DEF PutInv
  <2> QED
    BY <1>1, <2>2, <2>4 DEF HandlerInv
<1>2. CASE l.pc # "idle"
  BY <1>2, LookStays, ReadStays, PutStays DEF HandlerInv
<1> QED
  BY <1>1, <1>2

-----------------------------------------------------------------------------
(* The steps that leave the tree alone. *)

\* What the worker that moves is to show: the rest is left as it was.
LEMMA OneActs ==
  ASSUME IInv, KnowInv, NEW w \in Worker, NEW r, Set(w, r), TreeInv', Evolves,
         \A c \in copies' : CopyInv(c)', HandlerInv(r)',
         r.ino # 0 => r.ino = local[w].ino /\ r.rival = local[w].rival,
         \A u \in Worker \ {w} :
           local[u].ino # 0 /\ ~ local[u].rival => disk'[local[u].ino] = disk[local[u].ino]
  PROVE  KnowInv'
<1>1. local'[w] = r /\ \A u \in Worker \ {w} : local'[u] = local[u]
  BY DEF Set, IInv
<1>2. ASSUME NEW u \in Worker
      PROVE  HandlerInv(local[u])'
  <2>1. CASE u = w
    BY <1>1, <2>1
  <2>2. CASE u # w
    <3> DEFINE l == local[u]
    <3>1. PICK m : m = local[u]
      OBVIOUS
    <3>2. HandlerInv(m)
      BY <3>1 DEF KnowInv
    <3>3. TreeInv
      BY DEF KnowInv
    <3>4. m.ino # 0 /\ ~ m.rival => disk'[m.ino] = disk[m.ino]
      BY <2>2, <3>1
    <3>5. HandlerInv(m)'
      BY <3>2, <3>3, <3>4, HandlerStays
    <3>6. local'[u] = m
      BY <1>1, <2>2, <3>1
    <3> QED
      BY <3>5, <3>6
  <2> QED
    BY <2>1, <2>2
<1>3. RivalInv'
  BY <1>1 DEF KnowInv, RivalInv
<1> QED
  BY <1>2, <1>3 DEF KnowInv

SameLook(r, l) == /\ r.req = l.req /\ r.path = l.path /\ r.st = l.st /\ r.ver = l.ver
                  /\ r.seen = l.seen /\ r.copy = l.copy

\* The tree is as it was.
LEMMA QuietStep ==
  ASSUME IInv, KnowInv, NEW w \in Worker, NEW r, Set(w, r), UNCHANGED <<tree, now>>,
         \A c \in copies' : CopyInv(c), HandlerInv(r),
         r.ino # 0 => r.ino = local[w].ino /\ r.rival = local[w].rival
  PROVE  KnowInv'
<1>1. TreeInv /\ TreeInv' /\ Evolves /\ disk' = disk
  BY TreeStays DEF KnowInv, tree
<1>2. HandlerInv(r)'
  BY <1>1, HandlerStays
<1>3. \A c \in copies' : CopyInv(c)'
  BY <1>1, CopyStays
<1> QED
  BY <1>1, <1>2, <1>3, OneActs

\* A handler that has neither answered nor opened anything.
Fresh(l) == HandlerInv(l) /\ l.pc \in Before \ {"idle"}

\* What it turns into then, with no file to write to.
Clear(r) == HandlerInv(r) /\ r.ino = 0

\* A step that leaves the tree alone, after which the handler has no file to write to.
LEMMA QuietClear ==
  ASSUME IInv, KnowInv, NEW w \in Worker, NEW r, Set(w, r), UNCHANGED <<tree, now, copies>>, Clear(r)
  PROVE  KnowInv'
BY QuietStep DEF Clear, KnowInv

\* It goes on.
LEMMA Knows ==
  ASSUME NEW l, NEW r, Fresh(l), r.pc \in Before \ {"idle"}, SameLook(r, l), r.todo \in Seq(Path),
         r.announced = l.announced, r.body = l.body, r.ino = l.ino /\ r.pend = l.pend,
         r.pc \in Serving => l.req.method # "PUT", r.pc = "open" => l.st.found,
         r.pc \notin {"above", "mkdir", "create"}
  PROVE  Clear(r)
<1>1. LookInv(l) /\ ReadInv(l) /\ PutInv(l)
  BY DEF Fresh, HandlerInv
<1>2. LookInv(r)
  BY <1>1 DEF LookInv, SameLook, Still, Before
<1>3. l.announced = -1 /\ l.body = <<>>
  BY <1>1 DEF ReadInv, Fresh
<1>4. ReadInv(r)
  BY <1>3 DEF ReadInv, Before
<1>5. l.ino = 0 /\ l.pend = <<>> /\ 0 \in 0 .. Len(disk)
  BY <1>1 DEF PutInv, Fresh, Before
<1>6. PutInv(r)
  BY <1>5 DEF PutInv, Before
<1> QED
  BY <1>2, <1>4, <1>5, <1>6 DEF HandlerInv, Clear

\* It answers and is done.
AnswerMay(l, status) ==
  /\ status = 304 => l.req.cond # "none" /\ (l.copy.path = l.path => Honest(l))
  /\ status = 500 => l.req.method # "PUT" \/ Blamed(l)

\* It is answered, with a status that claims no more than it may.
LEMMA KnowsAtEnd ==
  ASSUME NEW l, Fresh(l), NEW status, NEW r, AnswerMay(l, status) \/ (status = 500 /\ r.fault),
         r.pc = "done", SameLook(r, l),
         r.todo = l.todo, r.announced = l.announced, r.body = l.body, r.ino = l.ino /\ r.pend = l.pend,
         r.answers[1].status = status
  PROVE  Clear(r)
<1>2. LookInv(l) /\ ReadInv(l) /\ PutInv(l)
  BY DEF Fresh, HandlerInv
<1>3. LookInv(r)
  BY <1>2 DEF LookInv, SameLook, Still, Serving
<1>4. l.announced = -1 /\ l.body = <<>>
  BY <1>2 DEF ReadInv, Fresh
<1>5. Honest(l) => Honest(r)
  BY DEF Honest, SameLook
<1>7. ReadInv(r)
  BY <1>4, <1>5 DEF ReadInv, SameLook, AnswerMay, Before
<1>8. l.ino = 0 /\ 0 \in 0 .. Len(disk)
  BY <1>2 DEF PutInv, Fresh, Before
<1>9. Blamed(l) => Blamed(r)
  BY DEF Blamed, SameLook, Still
<1>10. PutInv(r)
  BY <1>8, <1>9 DEF PutInv, SameLook, AnswerMay, Before
<1> QED
  BY <1>3, <1>7, <1>8, <1>10 DEF HandlerInv, Clear

\* A call is refused, and the handler answers 500.
LEMMA RefuseKnows ==
  ASSUME IInv, KnowInv, NEW w \in Worker, Refuse(w)
  PROVE  KnowInv'
<1>1. PICK l : l = local[w]
  OBVIOUS
<1> DEFINE m == [l EXCEPT !.fault = TRUE]
           x == [status |-> 500, framed |-> TRUE]
           r == HttpError(m, 500)
<1>2. /\ l.pc \in Before \ {"idle"} /\ Set(w, r) /\ UNCHANGED <<tree, now, copies>>
      /\ DOMAIN l = Fields /\ l.answers = <<>>
  BY <1>1 DEF Refuse, Before, IInv, Orderly
<1>3. Fresh(l)
  BY <1>1, <1>2 DEF Fresh, KnowInv
<1>4. /\ DOMAIN m = Fields /\ SameLook(m, l) /\ m.answers = l.answers /\ m.todo = l.todo /\ m.fault
      /\ m.announced = l.announced /\ m.body = l.body /\ m.ino = l.ino /\ m.pend = l.pend
  BY <1>2 DEF Fields, SameLook
<1> HIDE DEF m
<1>5. /\ r.pc = "done" /\ SameLook(r, m) /\ r.answers = Append(m.answers, x) /\ r.todo = m.todo /\ r.fault
      /\ r.announced = m.announced /\ r.body = m.body /\ r.ino = m.ino /\ r.pend = m.pend
  BY <1>4 DEF HttpError, Answer, Fields, SameLook
<1>6. Append(m.answers, x) = <<x>> /\ x.status = 500
  BY <1>2, <1>4
<1> HIDE DEF x, r
<1>7. SameLook(r, l) /\ r.answers[1].status = 500
  BY <1>4, <1>5, <1>6 DEF SameLook
<1>8. Clear(r)
  BY <1>3, <1>4, <1>5, <1>7, KnowsAtEnd
<1> QED
  BY <1>2, <1>8, QuietClear

\* The answer is send_http_error's, with a length.
LEMMA KnowsWhenFramed ==
  ASSUME NEW l, Fresh(l), DOMAIN l = Fields, l.answers = <<>>, NEW status, AnswerMay(l, status)
  PROVE  Clear(HttpError(l, status))
<1> DEFINE x == [status |-> status, framed |-> TRUE]
           r == HttpError(l, status)
<1>1. /\ r.pc = "done" /\ SameLook(r, l) /\ r.answers = Append(l.answers, x)
      /\ r.todo = l.todo /\ r.announced = l.announced /\ r.body = l.body /\ r.ino = l.ino /\ r.pend = l.pend
  BY DEF HttpError, Answer, Fields, SameLook
<1>2. Append(l.answers, x) = <<x>> /\ x.status = status
  OBVIOUS
<1> HIDE DEF x, r
<1>3. r.answers[1].status = status
  BY <1>1, <1>2
<1>4. Clear(r)
  BY <1>1, <1>3, KnowsAtEnd
<1> QED
  BY <1>4 DEF r

\* The answer has no length.
LEMMA KnowsWhenOpen ==
  ASSUME NEW l, Fresh(l), DOMAIN l = Fields, l.answers = <<>>, NEW status, AnswerMay(l, status)
  PROVE  Clear(Answer(l, status, FALSE))
<1> DEFINE x == [status |-> status, framed |-> FALSE]
           r == Answer(l, status, FALSE)
<1>1. /\ r.pc = "done" /\ SameLook(r, l) /\ r.answers = Append(l.answers, x)
      /\ r.todo = l.todo /\ r.announced = l.announced /\ r.body = l.body /\ r.ino = l.ino /\ r.pend = l.pend
  BY DEF Answer, Fields, SameLook
<1>2. Append(l.answers, x) = <<x>> /\ x.status = status
  OBVIOUS
<1> HIDE DEF x, r
<1>3. r.answers[1].status = status
  BY <1>1, <1>2
<1>4. Clear(r)
  BY <1>1, <1>3, KnowsAtEnd
<1> QED
  BY <1>4 DEF r

\* A tag or a date that is not newer than the client's copy.
LEMMA CopyIsCurrent ==
  ASSUME TreeInv, NEW l, LookInv(l), l.req.method # "PUT", l.st.found, NotModified(l)
  PROVE  l.req.cond # "none" /\ (l.copy.path = l.path => Honest(l))
<1>1. l.req.cond # "none" /\ (l.st.mtime = l.copy.st.mtime \/ l.st.mtime <= l.copy.st.mtime)
  BY DEF NotModified
<1> SUFFICES ASSUME l.copy.path = l.path, l.copy.data # l.seen
             PROVE  \E k \in l.copy.ver + 1 .. Len(changed[l.path]) : changed[l.path][k] = l.copy.st.mtime
  BY <1>1 DEF Honest
<1> DEFINE p == l.path
           v == l.ver[p]
           k == l.copy.ver
           s == changed[p]
           n == Len(s)
<1>2. /\ p \in Path /\ v \in Nat /\ v <= n /\ k \in 0 .. n /\ k <= v /\ k # v
      /\ l.st.mtime = Moment(p, v) /\ l.copy.st.mtime = Moment(p, k)
  BY <1>1 DEF LookInv, CopyInv
<1>3. s \in Seq(Pos) /\ n \in Nat /\ \A i \in 1 .. n : s[i] \in Pos /\ \A j \in 1 .. i : s[j] <= s[i]
  BY <1>2 DEF TreeInv, TreeType, Sorted
<1>4. Moment(p, v) = (IF v = 0 THEN 1 ELSE s[v]) /\ Moment(p, k) = IF k = 0 THEN 1 ELSE s[k]
  BY DEF Moment
<1> HIDE DEF s, n, v, k, p
<1>5. v \in k + 1 .. n /\ v \in 1 .. n /\ v # 0 /\ (k = 0 \/ k \in 1 .. v)
  BY <1>2, <1>3
<1>6. s[v] \in Pos /\ (k # 0 => s[k] <= s[v] /\ s[k] \in Pos)
  <2>1. k # 0 => k \in 1 .. n
    BY <1>2
  <2> QED
    BY <1>3, <1>5, <2>1
<1>7. Moment(p, v) = s[v] /\ Moment(p, k) <= s[v] /\ Moment(p, k) \in Nat /\ s[v] \in Nat
  BY <1>4, <1>5, <1>6 DEF Pos
<1>8. Moment(p, k) = s[v]
  BY <1>1, <1>2, <1>7
<1> QED
  BY <1>2, <1>5, <1>8 DEF s, n, k, p

\* What the stat found is served, as a file or with SSI.
LEMMA ServesWhatIsThere ==
  ASSUME TreeInv, NEW l, Fresh(l), DOMAIN l = Fields, l.answers = <<>>, l.req.method # "PUT", l.st.found
  PROVE  Clear(ServePath(l))
<1>1. LookInv(l) /\ l.ino = 0 /\ l.todo \in Seq(Path)
  BY DEF Fresh, HandlerInv, PutInv, Before, LookInv
<1>2. ASSUME NEW pc \in {"ssi", "open"}
      PROVE  Clear([l EXCEPT !.pc = pc])
  <2> DEFINE r == [l EXCEPT !.pc = pc]
  <2>1. /\ r.pc = pc /\ SameLook(r, l) /\ r.todo = l.todo
        /\ r.announced = l.announced /\ r.body = l.body /\ r.ino = l.ino /\ r.pend = l.pend
    BY DEF Fields, SameLook
  <2> HIDE DEF r
  <2>2. Clear(r)
    BY <1>1, <2>1, Knows DEF Before
  <2> QED
    BY <2>2 DEF r
<1>3. ASSUME NotModified(l)
      PROVE  Clear(HttpError(l, 304))
  <2>1. l.req.cond # "none" /\ (l.copy.path = l.path => Honest(l))
    BY <1>1, <1>3, CopyIsCurrent
  <2> QED
    BY <2>1, KnowsWhenFramed DEF AnswerMay
<1> QED
  BY <1>2, <1>3 DEF ServePath

\* The chain of conditions at the start of handle_request.
LEMMA RouteKnows ==
  ASSUME TreeInv, NEW l, HandlerInv(l), Orderly(l), l.pc = "route"
  PROVE  Clear(Routed(l))
<1>1. Fresh(l) /\ DOMAIN l = Fields /\ l.answers = <<>>
  BY DEF Fresh, Orderly, Before
<1>2. /\ LookInv(l) /\ l.ino = 0 /\ l.todo \in Seq(Path) /\ l.path \in Path
  BY <1>1 DEF Fresh, HandlerInv, PutInv, Before, LookInv
<1>3. ASSUME NEW status \in {301, 302, 401, 200, 404}
      PROVE  Clear(Answer(l, status, FALSE))
  <2>1. AnswerMay(l, status)
    BY DEF AnswerMay
  <2> QED
    BY <1>1, <2>1, KnowsWhenOpen
<1>4. ASSUME NEW r, r.pc \in Before \ {"idle", "open", "above", "mkdir", "create"}, SameLook(r, l),
             r.todo \in Seq(Path), r.announced = l.announced, r.body = l.body, r.ino = l.ino /\ r.pend = l.pend,
             r.pc \in Serving => l.req.method # "PUT"
      PROVE  Clear(r)
  BY <1>1, <1>2, <1>4, Knows DEF Before
<1>5. ASSUME Changes(l.req)
      PROVE  Clear([l EXCEPT !.pc = l.req.method])
  <2> DEFINE r == [l EXCEPT !.pc = l.req.method]
  <2>1. /\ r.pc = l.req.method /\ SameLook(r, l) /\ r.todo = l.todo
        /\ r.announced = l.announced /\ r.body = l.body /\ r.ino = l.ino /\ r.pend = l.pend
    BY <1>1 DEF Fields, SameLook
  <2> HIDE DEF r
  <2>2. Clear(r)
    BY <1>2, <1>4, <1>5, <2>1 DEF Changes, Before, Serving
  <2> QED
    BY <2>2 DEF r
<1>6. ASSUME ~ Changes(l.req)
      PROVE  Clear([l EXCEPT !.pc = "propfind", !.must_close = TRUE])
  <2> DEFINE r == [l EXCEPT !.pc = "propfind", !.must_close = TRUE]
  <2>1. /\ r.pc = "propfind" /\ SameLook(r, l) /\ r.todo = l.todo
        /\ r.announced = l.announced /\ r.body = l.body /\ r.ino = l.ino /\ r.pend = l.pend
    BY <1>1 DEF Fields, SameLook
  <2> HIDE DEF r
  <2>2. Clear(r)
    BY <1>2, <1>4, <1>6, <2>1 DEF Before, Changes
  <2> QED
    BY <2>2 DEF r
<1>7. ASSUME ~ Changes(l.req)
      PROVE  Clear([l EXCEPT !.pc = "index", !.todo = Index[l.path]])
  <2> DEFINE r == [l EXCEPT !.pc = "index", !.todo = Index[l.path]]
  <2>1. /\ r.pc = "index" /\ SameLook(r, l) /\ r.todo = Index[l.path]
        /\ r.announced = l.announced /\ r.body = l.body /\ r.ino = l.ino /\ r.pend = l.pend
    BY <1>1 DEF Fields, SameLook
  <2>2. Index[l.path] \in Seq(Path)
    BY <1>2, PathAssumption
  <2> HIDE DEF r
  <2>3. Clear(r)
    BY <1>2, <1>4, <1>7, <2>1, <2>2 DEF Before, Changes
  <2> QED
    BY <2>3 DEF r
<1>8. ~ Changes(l.req) /\ l.st.found => Clear(ServePath(l))
  BY <1>1, ServesWhatIsThere DEF Changes
<1>9. ASSUME NEW status \in {401, 404}
      PROVE  Clear(HttpError(l, status))
  BY <1>1, KnowsWhenFramed DEF AnswerMay
<1>10. Clear(Answer(l, 302, FALSE))
  BY ZenonT(40), <1>3
<1>11. Clear(Answer(l, 301, FALSE))
  BY ZenonT(40), <1>3
<1>12. Clear(Answer(l, 200, FALSE))
  BY ZenonT(40), <1>3
<1>13. Clear(HttpError(l, 404))
  BY <1>9
<1>14. Clear(Answer(l, 401, TRUE))
  <2>1. Clear(HttpError(l, 401))
    BY <1>9
  <2> QED
    BY <2>1 DEF HttpError
<1> QED
  BY <1>5, <1>6, <1>7, <1>8, <1>10, <1>11, <1>12, <1>13, <1>14 DEF Routed

\* What a stat finds, and what is there.
LEMMA StatKnows ==
  ASSUME TreeInv, NEW p \in Path
  PROVE  /\ Stat(p) \in Stats /\ DataAt(p) \in Seq(Token)
         /\ Stat(p).found <=> fs[p] # 0
         /\ Stat(p).found => Stat(p).mtime = Moment(p, Len(changed[p]))
         /\ Stat(p).found => Stat(p).size = Len(DataAt(p))
<1>1. /\ disk \in Seq(Inode) /\ fs[p] \in 0 .. Len(disk)
      /\ fs[p] # 0 => disk[fs[p]].mtime = Moment(p, Len(changed[p]))
  BY DEF TreeInv, TreeType, Dated
<1>2. CASE fs[p] = 0
  BY <1>2 DEF Stat, Absent, Stats, DataAt
<1>3. CASE fs[p] # 0
  <2>1. PICK n \in Inode : n = disk[fs[p]]
    BY <1>1, <1>3
  <2>2. n.dir \in BOOLEAN /\ n.data \in Seq(Token) /\ n.mtime \in Nat /\ n.mtime # 0 /\ Len(n.data) \in Nat
    BY DEF Inode, Pos
  <2>3. /\ Stat(p) = [found |-> TRUE, dir |-> n.dir, size |-> Len(n.data), mtime |-> n.mtime]
        /\ DataAt(p) = n.data
    BY <1>3, <2>1, <2>2 DEF Stat, DataAt
  <2> QED
    BY <1>1, <1>3, <2>1, <2>2, <2>3 DEF Stats
<1> QED
  BY <1>2, <1>3

\* The stat of a path that the handler is about to serve.
LEMMA LooksNow ==
  ASSUME TreeInv, NEW r, r.req \in Request, r.path \in Path, r.todo \in Seq(Path),
         r.st = Stat(r.path), r.seen = DataAt(r.path), r.ver = [q \in Path |-> Len(changed[q])],
         r.pc \in {"route", "index"}, r.pc = "index" => r.req.method # "PUT",
         r.req.cond # "none" => CopyInv(r.copy)
  PROVE  LookInv(r)
<1>1. \A p \in Path : Len(changed[p]) \in Nat
  BY DEF TreeInv, TreeType
<1>2. r.ver \in [Path -> Nat] /\ \A p \in Path : r.ver[p] = Len(changed[p]) /\ r.ver[p] <= Len(changed[p])
  BY <1>1
<1>3. r.st \in Stats /\ r.seen \in Seq(Token) /\ (r.st.found => r.st.mtime = Moment(r.path, Len(changed[r.path])))
  BY StatKnows
<1>4. r.req.cond # "none" =>
        /\ CopyInv(r.copy) /\ r.copy.ver <= r.ver[r.copy.path]
        /\ r.copy.path = r.path /\ r.copy.ver = r.ver[r.path] => r.copy.data = r.seen
  BY <1>2 DEF CopyInv
<1> QED
  BY <1>2, <1>3, <1>4 DEF LookInv, Serving

\* From the beginning to the file, index or list.
LEMMA RoutingKnows ==
  ASSUME IInv, KnowInv, NEW w \in Worker,
         (\E r \in Request : Begin(w, r)) \/ Route(w) \/ TryIndex(w) \/ NoIndex(w) \/ ListDir(w) \/ Propfind(w)
  PROVE  KnowInv'
<1>1. TreeInv /\ HandlerInv(local[w]) /\ Orderly(local[w]) /\ (\A c \in copies : CopyInv(c))
  BY DEF KnowInv, IInv
<1>2. PICK l : l = local[w]
  OBVIOUS
<1>3. HandlerInv(l) /\ Orderly(l) /\ DOMAIN l = Fields
  BY <1>1, <1>2 DEF Orderly
<1>4. ASSUME NEW r \in Request, Begin(w, r)
      PROVE  KnowInv'
  <2>1. PICK c : /\ r.cond # "none" => c \in copies
                 /\ Set(w, [Blank EXCEPT !.pc = "route", !.req = r, !.path = r.path, !.st = Stat(r.path), !.copy = c,
                            !.ver = [p \in Path |-> Len(changed[p])], !.seen = DataAt(r.path)])
    BY <1>4 DEF Begin
  <2> DEFINE n == [Blank EXCEPT !.pc = "route", !.req = r, !.path = r.path, !.st = Stat(r.path), !.copy = c,
                            !.ver = [p \in Path |-> Len(changed[p])], !.seen = DataAt(r.path)]
  <2>2. /\ n.pc = "route" /\ n.req = r /\ n.path = r.path /\ n.st = Stat(r.path) /\ n.copy = c
        /\ n.ver = [p \in Path |-> Len(changed[p])] /\ n.seen = DataAt(r.path) /\ n.todo = <<>>
        /\ n.announced = -1 /\ n.body = <<>> /\ n.ino = 0 /\ n.pend = <<>>
    BY DEF Blank
  <2>3. UNCHANGED <<tree, now, copies>> /\ r.path \in Path
    BY <1>4, RequestAssumption DEF Begin
  <2>4. Set(w, n)
    BY <2>1
  <2> HIDE DEF n
  <2>5. LookInv(n)
    <3>1. /\ n.req \in Request /\ n.path \in Path /\ n.todo \in Seq(Path) /\ n.st = Stat(n.path)
          /\ n.seen = DataAt(n.path) /\ n.ver = [q \in Path |-> Len(changed[q])] /\ n.pc = "route"
          /\ n.req.cond # "none" => CopyInv(n.copy)
      BY <1>1, <2>1, <2>2, <2>3
    <3> QED
      BY <1>1, <3>1, LooksNow
  <2>6. HandlerInv(n)
    <3>1. 0 \in 0 .. Len(disk) /\ n.body = <<>>
      BY <1>1, <2>2 DEF TreeInv, TreeType
    <3>2. ReadInv(n) /\ PutInv(n)
      BY <2>2, <3>1 DEF ReadInv, PutInv
    <3> QED
      BY <2>5, <3>2 DEF HandlerInv
  <2> QED
    BY <1>1, <2>2, <2>3, <2>4, <2>6, QuietStep
<1>5. CASE Route(w)
  <2>1. l.pc = "route" /\ Set(w, Routed(l)) /\ UNCHANGED <<tree, now, copies>>
    BY <1>2, <1>5 DEF Route
  <2>2. Clear(Routed(l))
    BY <1>1, <1>3, <2>1, RouteKnows
  <2> QED
    BY <1>1, <2>1, <2>2, QuietClear
<1>6. CASE TryIndex(w)
  <2> DEFINE p == Head(l.todo)
             a == [l EXCEPT !.path = p, !.st = Stat(p), !.seen = DataAt(p), !.todo = <<>>,
                            !.ver = [q \in Path |-> Len(changed[q])]]
             b == [l EXCEPT !.todo = Tail(@)]
  <2>1. /\ l.pc = "index" /\ l.todo # <<>> /\ UNCHANGED <<tree, now, copies>>
        /\ Set(w, IF Stat(p).found THEN ServePath(a) ELSE b)
    BY <1>2, <1>6 DEF TryIndex
  <2>2. LookInv(l) /\ Fresh(l) /\ l.answers = <<>> /\ l.ino = 0
    BY <1>3, <2>1 DEF HandlerInv, PutInv, Fresh, Orderly, Before
  <2>3. l.todo \in Seq(Path) /\ p \in Path /\ Tail(l.todo) \in Seq(Path)
    BY <2>1, <2>2 DEF LookInv
  <2>4. /\ DOMAIN a = Fields /\ a.pc = l.pc /\ a.req = l.req /\ a.path = p /\ a.st = Stat(p)
        /\ a.ver = [q \in Path |-> Len(changed[q])] /\ a.seen = DataAt(p) /\ a.todo = <<>>
        /\ a.copy = l.copy /\ a.announced = l.announced /\ a.body = l.body /\ a.ino = l.ino /\ a.pend = l.pend
        /\ a.answers = l.answers
    BY <1>3 DEF Fields
  <2>5. /\ b.pc = l.pc /\ SameLook(b, l) /\ b.todo = Tail(l.todo)
        /\ b.announced = l.announced /\ b.body = l.body /\ b.ino = l.ino /\ b.pend = l.pend
    BY <1>3 DEF Fields, SameLook
  <2> HIDE DEF a, b, p
  <2>6. l.req \in Request /\ l.req.method # "PUT" /\ (l.req.cond # "none" => CopyInv(l.copy))
    BY <2>1, <2>2 DEF LookInv, Serving
  <2>7. LookInv(a)
    <3>1. /\ a.req \in Request /\ a.path \in Path /\ a.todo \in Seq(Path) /\ a.st = Stat(a.path)
          /\ a.seen = DataAt(a.path) /\ a.ver = [q \in Path |-> Len(changed[q])] /\ a.pc = "index"
          /\ a.req.method # "PUT" /\ (a.req.cond # "none" => CopyInv(a.copy))
      BY <2>1, <2>3, <2>4, <2>6
    <3> QED
      BY <1>1, <3>1, LooksNow
  <2>8. HandlerInv(a)
    <3>1. l.announced = -1 /\ l.body = <<>> /\ 0 \in 0 .. Len(disk) /\ l.pend = <<>>
      BY <1>3, <2>1, <2>2 DEF HandlerInv, ReadInv, PutInv, Before
    <3>2. ReadInv(a) /\ PutInv(a)
      BY <2>1, <2>2, <2>4, <3>1 DEF ReadInv, PutInv
    <3> QED
      BY <2>7, <3>2 DEF HandlerInv
  <2>9. Stat(p).found => Clear(ServePath(a))
    <3>1. Fresh(a)
      BY <2>1, <2>4, <2>8 DEF Fresh, Before
    <3> QED
      BY <1>1, <2>2, <2>4, <2>6, <3>1, ServesWhatIsThere
  <2>10. Clear(b)
    BY <2>1, <2>2, <2>3, <2>5, <2>6, Knows DEF Before
  <2>11. (Set(w, ServePath(a)) /\ Stat(p).found) \/ Set(w, b)
    BY <2>1
  <2> QED
    BY <1>1, <2>1, <2>9, <2>10, <2>11, QuietClear
<1>7. CASE NoIndex(w) \/ ListDir(w) \/ Propfind(w)
  <2> DEFINE a == [l EXCEPT !.pc = "list"]
             b == [l EXCEPT !.must_close = TRUE]
  <2>1. /\ l.pc \in {"index", "list", "propfind"} /\ UNCHANGED <<tree, now, copies>>
        /\ \/ l.pc = "index" /\ (Set(w, a) \/ Set(w, HttpError(l, 403)))
           \/ l.pc = "list" /\ (Set(w, Answer(b, 200, FALSE)) \/ Set(w, HttpError(l, 500)))
           \/ l.pc = "propfind" /\ Set(w, Answer(l, 207, FALSE))
    BY <1>2, <1>7 DEF NoIndex, ListDir, Propfind
  <2>2. /\ LookInv(l) /\ Fresh(l) /\ l.answers = <<>> /\ l.ino = 0 /\ l.todo \in Seq(Path)
        /\ l.req.method # "PUT"
    BY <1>3, <2>1 DEF Serving, HandlerInv, PutInv, Fresh, Orderly, Before, LookInv
  <2>3. /\ DOMAIN a = Fields /\ a.pc = "list" /\ SameLook(a, l) /\ a.todo = l.todo
        /\ a.announced = l.announced /\ a.body = l.body /\ a.ino = l.ino /\ a.pend = l.pend
        /\ DOMAIN b = Fields /\ b.pc = l.pc /\ SameLook(b, l) /\ b.todo = l.todo
        /\ b.announced = l.announced /\ b.body = l.body /\ b.ino = l.ino /\ b.pend = l.pend /\ b.answers = l.answers
    BY <1>3 DEF Fields, SameLook
  <2> HIDE DEF a, b
  <2>4. Clear(a) /\ (l.pc # "index" => HandlerInv(b))
    BY <2>1, <2>2, <2>3, Knows DEF Before, Clear
  <2>5. ASSUME NEW status \in {403, 500}
        PROVE  Clear(HttpError(l, status))
    BY <1>3, <2>2, KnowsWhenFramed DEF AnswerMay
  <2>6. ASSUME NEW status \in {207}
        PROVE  Clear(Answer(l, status, FALSE))
    <3>1. Fresh(l) /\ DOMAIN l = Fields /\ l.answers = <<>> /\ AnswerMay(l, status)
      BY <1>3, <2>2 DEF AnswerMay
    <3> QED
      BY <3>1, KnowsWhenOpen
  <2>7. l.pc = "list" => Clear(Answer(b, 200, FALSE))
    <3>1. ASSUME l.pc = "list", NEW status \in {200}
          PROVE  Clear(Answer(b, status, FALSE))
      <4>1. Fresh(b) /\ DOMAIN b = Fields /\ b.answers = <<>>
        BY <2>2, <2>3, <2>4, <3>1 DEF Fresh, Before
      <4>2. AnswerMay(b, status)
        BY <3>1 DEF AnswerMay
      <4> QED
        BY <4>1, <4>2, KnowsWhenOpen
    <3> QED
      BY <3>1
  <2>8. Clear(HttpError(l, 403))
    BY <2>5
  <2>9. Clear(HttpError(l, 500))
    BY <2>5
  <2>10. Clear(Answer(l, 207, FALSE))
    BY <2>6
  <2>11. ASSUME NEW r, Set(w, r), Clear(r)
         PROVE  KnowInv'
    BY <2>1, <2>11, QuietClear
  <2>12. CASE Set(w, a) \/ Set(w, HttpError(l, 403)) \/ Set(w, HttpError(l, 500))
    BY <2>4, <2>8, <2>9, <2>11, <2>12
  <2>13. CASE l.pc = "list" /\ Set(w, Answer(b, 200, FALSE))
    BY <2>7, <2>11, <2>13
  <2>14. CASE Set(w, Answer(l, 207, FALSE))
    BY <2>10, <2>11, <2>14
  <2> QED
    BY ZenonT(40), <2>1, <2>12, <2>13, <2>14
<1> QED
  BY <1>4, <1>5, <1>6, <1>7

-----------------------------------------------------------------------------
(* A file is sent. *)

\* A range has both its ends.
LEMMA Lengths ==
  ASSUME NEW l, LookInv(l)
  PROVE  /\ At(l) \in Nat /\ Length(l) \in Int /\ l.st.size \in Nat
         /\ Ranged(l) => /\ At(l) = l.req.range.r1 /\ l.req.range.r2 \in Pos
                         /\ Length(l) = (IF l.req.range.r2 > l.st.size THEN l.st.size ELSE l.req.range.r2) - At(l) + 1
         /\ ~ Ranged(l) => At(l) = 0 /\ Length(l) = l.st.size
<1>1. /\ l.req.range.r1 \in Int /\ l.req.range.r2 \in Int /\ (l.req.range.n # 2 => l.req.range.r2 = 0)
      /\ l.st.size \in Nat
  BY RequestAssumption DEF LookInv, Stats
<1>2. CASE Ranged(l)
  <2>1. /\ At(l) = l.req.range.r1
        /\ Length(l) = RangeLength(l.req.range, l.st.size)
    BY <1>2 DEF At, Length
  <2>2. l.req.range.r1 \in Nat /\ l.req.range.r2 \in Pos /\ l.req.range.n = 2
    BY <1>1, <1>2 DEF Ranged, Pos
  <2>3. RangeLength(l.req.range, l.st.size)
          = (IF l.req.range.r2 > l.st.size THEN l.st.size ELSE l.req.range.r2) - l.req.range.r1 + 1
    BY <2>2 DEF RangeLength
  <2> DEFINE a == l.req.range.r1
             b == l.req.range.r2
             m == l.st.size
  <2>4. a \in Nat /\ b \in Int /\ m \in Nat
    BY <1>1, <2>2
  <2> HIDE DEF a, b, m
  <2>5. (IF b > m THEN m ELSE b) - a + 1 \in Int
    BY <2>4
  <2> QED
    BY <1>1, <1>2, <2>1, <2>2, <2>3, <2>5 DEF a, b, m
<1>3. CASE ~ Ranged(l)
  BY <1>1, <1>3 DEF At, Length
<1> QED
  BY <1>2, <1>3

\* The numbers: n of the buffers from a on were sent, up to the end of the range or the file.
LEMMA RangeEnds ==
  ASSUME NEW a \in Nat, NEW b \in Pos, NEW m \in Nat, NEW n \in Nat,
         LET cl == (IF b > m THEN m ELSE b) - a + 1
         IN (n > 0 => cl - n >= 0 /\ a + n <= m) /\ (cl - n <= 0 \/ a + n >= m)
  PROVE  LET e == IF b + 1 > m THEN m ELSE b + 1
         IN n = IF a + 1 <= e THEN e - (a + 1) + 1 ELSE 0
<1>1. CASE b > m
  BY <1>1 DEF Pos
<1>2. CASE ~ (b > m)
  BY <1>2 DEF Pos
<1> QED
  BY <1>1, <1>2

\* When the loop of send_file_data ends, the body is what the length and the range say.
LEMMA SentAll ==
  ASSUME TreeInv, NEW l, LookInv(l), SendInv(l), l.st.found,
         ~ (l.want > 0 /\ l.open[1].off < Len(disk[l.open[1].ino].data))
  PROVE  Explained(l)
<1> DEFINE a == At(l)
           cl == Length(l)
           n == Len(l.body)
           m == Len(l.seen)
           r == l.req.range
<1>1. /\ a \in Nat /\ cl \in Int /\ n \in Nat /\ m \in Nat
      /\ l.body \in Seq(Token) /\ l.seen \in Seq(Token) /\ l.announced = cl
      /\ l.want = cl - n /\ l.open[1].off = a + n /\ (n > 0 => cl - n >= 0)
  <2>1. a \in Nat /\ cl \in Int
    BY Lengths
  <2>2. l.body \in Seq(Token) /\ l.seen \in Seq(Token)
    BY DEF SendInv, LookInv
  <2> HIDE DEF cl, a
  <2>3. /\ l.announced = cl /\ l.want = l.announced - n /\ l.open[1].off = a + n
        /\ n > 0 => l.want >= 0
    BY DEF SendInv, cl, a
  <2> QED
    BY <2>1, <2>2, <2>3
<1>2. l.announced >= 0 => n <= l.announced
  <2> HIDE DEF a, cl, n, m
  <2> QED
    BY <1>1
<1>3. ASSUME Still(l, l.path)
      PROVE  IF Ranged(l)
             THEN /\ l.body = SelectFrom(l.seen, r.r1, r.r2)
                  /\ r.r2 < l.st.size /\ r.r1 <= r.r2 => l.announced = n
             ELSE l.body = l.seen /\ l.announced = n
  <2>1. /\ l.open[1].ino = fs[l.path] /\ fs[l.path] # 0 /\ disk[l.open[1].ino].data = l.seen
        /\ l.st.size = m
    <3>1. l.open[1].ino = fs[l.path] /\ l.open[1].ino \in 1 .. Len(disk) /\ Len(disk) \in Nat
      BY <1>3 DEF SendInv, TreeInv, TreeType
    <3>2. l.seen = DataAt(l.path) /\ l.st = Stat(l.path) /\ l.path \in Path
      BY <1>3 DEF LookInv
    <3>3. fs[l.path] # 0
      BY <3>1
    <3> QED
      BY <3>1, <3>2, <3>3, StatKnows DEF DataAt
  <2>2. /\ \A i \in 1 .. n : a + i <= m /\ l.body[i] = l.seen[a + i]
    BY <1>3 DEF SendInv
  <2>3. /\ n > 0 => a + n <= m
        /\ cl - n <= 0 \/ a + n >= m
    <3>1. ~ (cl - n > 0 /\ a + n < m)
      BY <1>1, <2>1
    <3> HIDE DEF a, cl, n, m
    <3>2. n > 0 => n \in 1 .. n
      BY <1>1
    <3>3. n > 0 => a + n <= m
      BY <2>2, <3>2
    <3>4. cl - n <= 0 \/ a + n >= m
      BY <1>1, <3>1
    <3> QED
      BY <3>3, <3>4
  <2>4. CASE ~ Ranged(l)
    <3>1. a = 0 /\ cl = m
      BY <2>1, <2>4, Lengths
    <3>2. n = m /\ l.announced = n
      <4> HIDE DEF a, cl, n, m
      <4> QED
        BY <1>1, <2>3, <3>1
    <3>3. \A i \in 1 .. n : l.body[i] = l.seen[i]
      <4> HIDE DEF a, n, m
      <4> QED
        BY <2>2, <3>1
    <3>4. l.body = l.seen
      BY <1>1, <3>2, <3>3, SeqEqual
    <3> QED
      BY <2>4, <3>2, <3>4
  <2>5. CASE Ranged(l)
    <3> DEFINE b == r.r2
               e == IF b + 1 > m THEN m ELSE b + 1
               s == SubSeq(l.seen, a + 1, e)
    <3>1. a = r.r1 /\ b \in Pos /\ cl = (IF b > m THEN m ELSE b) - a + 1
      BY <2>1, <2>5, Lengths
    <3> HIDE DEF a, cl, n, m, b
    <3>2. n = IF a + 1 <= e THEN e - (a + 1) + 1 ELSE 0
      BY <1>1, <2>3, <3>1, RangeEnds
    <3>3. e \in Int /\ e <= m /\ a + 1 \in Int
      BY <1>1, <3>1 DEF Pos
    <3>4. \A i \in a + 1 .. e : l.seen[i] \in Token
      <4> SUFFICES ASSUME NEW i \in a + 1 .. e
                   PROVE  l.seen[i] \in Token
        OBVIOUS
      <4>1. i \in 1 .. m
        BY <1>1, <3>3
      <4> QED
        BY <1>1, <4>1, ElementOfSeq DEF m
    <3> HIDE DEF e
    <3>5. /\ s \in Seq(Token) /\ Len(s) = IF a + 1 <= e THEN e - (a + 1) + 1 ELSE 0
          /\ \A i \in 1 .. e - (a + 1) + 1 : s[i] = l.seen[(a + 1) + i - 1]
      BY <3>3, <3>4, SubSeqProperties
    <3> HIDE DEF s
    <3>6. Len(s) = n
      BY <3>2, <3>5
    <3>7. ASSUME NEW i \in 1 .. n
          PROVE  l.body[i] = s[i]
      <4>1. i \in 1 .. e - (a + 1) + 1 /\ (a + 1) + i - 1 = a + i
        BY <1>1, <3>2, <3>3
      <4> QED
        BY <2>2, <3>5, <4>1
    <3>8. l.body = s
      BY <1>1, <3>5, <3>6, <3>7, SeqEqual DEF n
    <3>9. l.body = SelectFrom(l.seen, r.r1, r.r2)
      BY <3>1, <3>8 DEF SelectFrom, s, e, m, b
    <3>10. b < m /\ a <= b => cl = n
      <4> SUFFICES ASSUME b < m, a <= b
                   PROVE  cl = n
        OBVIOUS
      <4>1. e = b + 1 /\ cl = b - a + 1
        BY <1>1, <3>1 DEF e, Pos
      <4> QED
        BY <1>1, <3>1, <3>2, <4>1 DEF Pos
    <3>11. r.r2 < l.st.size /\ r.r1 <= r.r2 => l.announced = n
      BY <1>1, <2>1, <3>1, <3>10 DEF b
    <3> QED
      BY <2>5, <3>9, <3>11 DEF n
  <2> QED
    BY <2>4, <2>5
<1> QED
  BY <1>2, <1>3 DEF Explained

\* A handler that has opened a file or is done with it, and writes nothing.
LEMMA Sends ==
  ASSUME NEW l, HandlerInv(l), l.pc # "idle", l.ino = 0, l.req.method # "PUT",
         NEW r, r.pc \in {"send", "close", "done", "include"}, SameLook(r, l), r.todo = l.todo,
         ReadInv(r), r.ino = 0, r.pc \in {"send", "close"} => l.st.found
  PROVE  Clear(r)
<1>1. LookInv(l) /\ PutInv(l)
  BY DEF HandlerInv
<1>2. LookInv(r)
  BY <1>1 DEF LookInv, SameLook, Still
<1>3. 0 \in 0 .. Len(disk)
  BY <1>1 DEF PutInv
<1>4. PutInv(r)
  BY <1>3 DEF PutInv, SameLook, Before
<1> QED
  BY <1>2, <1>4 DEF HandlerInv, Clear

\* One buffer more.
LEMMA SendsMore ==
  ASSUME TreeInv, NEW l, LookInv(l), SendInv(l), NEW f, l.open = <<f>>, NEW r, SameLook(r, l),
         l.want > 0, f.off < Len(disk[f.ino].data),
         r.body = Append(l.body, disk[f.ino].data[f.off + 1]),
         r.open = <<[f EXCEPT !.off = @ + 1]>>, r.want = l.want - 1, r.announced = l.announced
  PROVE  SendInv(r)
<1> DEFINE a == At(l)
           n == Len(l.body)
           d == disk[f.ino].data
           t == d[f.off + 1]
           g == [f EXCEPT !.off = @ + 1]
<1>1. /\ a \in Nat /\ Length(l) \in Int /\ n \in Nat /\ l.announced = Length(l) /\ l.body \in Seq(Token)
      /\ f.ino \in 1 .. Len(disk) /\ f.off = a + n /\ l.want = l.announced - n
      /\ Still(l, l.path) => /\ f.ino = fs[l.path]
                             /\ \A i \in 1 .. n : a + i <= Len(l.seen) /\ l.body[i] = l.seen[a + i]
  BY Lengths DEF SendInv
<1>2. d \in Seq(Token) /\ Len(d) \in Nat /\ f.off \in Nat
  <2>1. disk \in Seq(Inode) /\ f.ino \in 1 .. Len(disk)
    BY <1>1 DEF TreeInv, TreeType
  <2>2. disk[f.ino] \in Inode
    BY <2>1, ElementOfSeq
  <2> HIDE DEF a, n
  <2> QED
    BY SMTT(30), <1>1, <2>2 DEF Inode
<1>3. t \in Token
  <2>1. f.off + 1 \in 1 .. Len(d)
    BY <1>2
  <2> HIDE DEF d
  <2> QED
    BY <1>2, <2>1, ElementOfSeq
<1>4. At(r) = a /\ Length(r) = Length(l) /\ r.seen = l.seen /\ r.path = l.path
      /\ (Still(r, r.path) <=> Still(l, l.path))
  BY DEF SameLook, At, Length, Ranged, Still
<1>5. r.open[1] = g /\ DOMAIN g = {"ino", "off"} /\ g.ino = f.ino /\ g.off = f.off + 1
  BY DEF SendInv
<1>6. /\ r.body \in Seq(Token) /\ Len(r.body) = n + 1 /\ r.body[n + 1] = t
      /\ \A i \in 1 .. n : r.body[i] = l.body[i]
  <2> HIDE DEF t
  <2> QED
    BY SMTT(30), <1>1, <1>3, AppendProperties DEF t
<1>7. r.want = r.announced - Len(r.body) /\ r.want >= 0 /\ g.off = At(r) + Len(r.body)
  <2>1. l.announced \in Int /\ l.want \in Int /\ l.want > 0 /\ l.want = l.announced - n
    BY <1>1
  <2>2. r.want = l.want - 1 /\ r.announced = l.announced /\ Len(r.body) = n + 1
    BY <1>6
  <2>3. g.off = (a + n) + 1 /\ At(r) = a
    BY <1>1, <1>4, <1>5
  <2>4. a \in Nat /\ n \in Nat
    BY <1>1
  <2> HIDE DEF a, n, g
  <2>5. r.want = r.announced - Len(r.body)
    BY <2>1, <2>2, <2>4
  <2>6. r.want >= 0
    BY <2>1, <2>2
  <2>7. g.off = At(r) + Len(r.body)
    BY <2>2, <2>3, <2>4
  <2> QED
    BY <2>5, <2>6, <2>7
<1>8. ASSUME Still(l, l.path)
      PROVE  /\ g.ino = fs[l.path]
             /\ \A i \in 1 .. n + 1 : a + i <= Len(l.seen) /\ r.body[i] = l.seen[a + i]
  <2>1. f.ino = fs[l.path] /\ f.ino # 0 /\ d = l.seen
    BY <1>1, <1>8 DEF LookInv, DataAt
  <2>2. a + (n + 1) <= Len(l.seen) /\ t = l.seen[a + (n + 1)]
    <3>1. Len(d) \in Nat /\ a + n < Len(d) /\ t = d[(a + n) + 1]
      BY <1>1, <1>2
    <3>2. (a + n) + 1 = a + (n + 1)
      <4> HIDE DEF a, n
      <4> QED
        BY <1>1
    <3> HIDE DEF a, n, d, t
    <3> QED
      BY <1>1, <2>1, <3>1, <3>2
  <2> HIDE DEF a, n, t, d, g
  <2>3. \A i \in 1 .. n + 1 : i \in 1 .. n \/ i = n + 1
    <3>1. n \in Nat
      BY <1>1
    <3> QED
      BY <3>1
  <2>4. \A i \in 1 .. n + 1 : a + i <= Len(l.seen) /\ r.body[i] = l.seen[a + i]
    BY <1>1, <1>6, <1>8, <2>2, <2>3
  <2> QED
    BY <1>5, <2>1, <2>4
<1> HIDE DEF a, n, t, d, g
<1> QED
  BY <1>1, <1>4, <1>5, <1>6, <1>7, <1>8 DEF SendInv

\* A file is sent under a length that was announced.
LEMMA SendingKnows ==
  ASSUME IInv, KnowInv, NEW w \in Worker, FileOpen(w) \/ FileSend(w) \/ FileClose(w)
  PROVE  KnowInv'
<1>1. TreeInv /\ HandlerInv(local[w]) /\ Orderly(local[w])
  BY DEF KnowInv, IInv
<1>2. PICK l : l = local[w]
  OBVIOUS
<1>3. HandlerInv(l) /\ Orderly(l) /\ DOMAIN l = Fields /\ l.pc \in {"open", "send", "close"}
  BY <1>1, <1>2 DEF Orderly, FileOpen, FileSend, FileClose
<1>4. /\ LookInv(l) /\ ReadInv(l) /\ l.ino = 0 /\ l.req.method # "PUT" /\ l.st.found
      /\ UNCHANGED <<tree, now>>
  BY <1>3 DEF HandlerInv, LookInv, PutInv, Serving, FileOpen, FileSend, FileClose
<1>5. CASE FileOpen(w)
  <2> DEFINE status == IF Ranged(l) THEN 206 ELSE 200
             a == Answer(l, status, TRUE)
             next == IF l.req.method = "HEAD" THEN "close" ELSE "send"
             f == [ino |-> fs[l.path], off |-> At(l)]
             r == [a EXCEPT !.pc = next, !.announced = Length(l), !.want = Length(l), !.open = <<f>>]
  <2>1. /\ l.pc = "open" /\ UNCHANGED <<tree, now, copies>>
        /\ Set(w, IF fs[l.path] = 0 THEN HttpError(l, 500) ELSE r)
    BY <1>2, <1>5 DEF FileOpen, At, Length
  <2>2. Fresh(l) /\ l.answers = <<>>
    BY <1>3, <2>1 DEF Fresh, Orderly, Before
  <2>3. Clear(HttpError(l, 500))
    <3>1. AnswerMay(l, 500)
      BY <1>4 DEF AnswerMay
    <3> QED
      BY <1>3, <2>2, <3>1, KnowsWhenFramed
  <2>4. /\ DOMAIN a = Fields /\ a.answers = Append(l.answers, [status |-> status, framed |-> TRUE])
        /\ SameLook(a, l) /\ a.todo = l.todo /\ a.body = l.body /\ a.ino = l.ino
    BY <1>3 DEF Answer, Fields, SameLook
  <2>5. a.answers[1].status = status
    <3> DEFINE x == [status |-> status, framed |-> TRUE]
    <3>1. Append(l.answers, x)[1] = x /\ x.status = status
      BY <2>2
    <3> HIDE DEF x, a
    <3>2. a.answers = Append(l.answers, x)
      BY <2>4 DEF x
    <3> QED
      BY <3>1, <3>2
  <2>6. status # 304 /\ next \in {"close", "send"} /\ (next = "close" <=> l.req.method = "HEAD")
    OBVIOUS
  <2> HIDE DEF a, status
  <2>7. /\ r.pc = next /\ r.announced = Length(l) /\ r.want = Length(l) /\ r.open = <<f>> /\ SameLook(r, l)
        /\ r.todo = l.todo /\ r.body = l.body /\ r.ino = 0 /\ r.answers = a.answers
    BY <1>4, <2>4 DEF Fields, SameLook
  <2>8. f.ino = fs[l.path] /\ f.off = At(l) /\ DOMAIN f = {"ino", "off"}
    OBVIOUS
  <2> HIDE DEF r, f, next
  <2>9. fs[l.path] # 0 => SendInv(r)
    <3>1. /\ l.body = <<>> /\ At(l) \in Nat /\ Length(l) \in Int /\ l.path \in Path
      BY <1>4, <2>1, Lengths DEF ReadInv, Before, LookInv
    <3>2. fs[l.path] # 0 => fs[l.path] \in 1 .. Len(disk)
      BY <1>1, <3>1 DEF TreeInv, TreeType
    <3>3. /\ At(r) = At(l) /\ Length(r) = Length(l) /\ r.path = l.path /\ r.seen = l.seen
      BY <2>7 DEF At, Length, Ranged, SameLook
    <3>4. r.open[1] = f /\ r.body = <<>> /\ Len(r.body) = 0 /\ r.body \in Seq(Token)
      BY <2>7, <3>1
    <3>5. At(l) = At(l) + 0 /\ Length(l) = Length(l) - 0
      BY <3>1
    <3> QED
      BY <2>7, <2>8, <3>2, <3>3, <3>4, <3>5 DEF SendInv
  <2>10. fs[l.path] # 0 => ReadInv(r)
    BY <2>5, <2>6, <2>7, <2>9 DEF ReadInv, Before, SameLook
  <2>11. fs[l.path] # 0 => Clear(r)
    BY <1>3, <1>4, <2>1, <2>6, <2>7, <2>10, Sends
  <2>12. CASE fs[l.path] = 0
    BY <1>1, <2>1, <2>3, <2>12, QuietClear
  <2>13. CASE fs[l.path] # 0
    BY <1>1, <2>1, <2>11, <2>13, QuietClear
  <2> QED
    BY <2>12, <2>13
<1>6. CASE FileSend(w)
  <2> DEFINE d == disk[l.open[1].ino].data
             more == l.want > 0 /\ l.open[1].off < Len(d)
             a == [l EXCEPT !.body = Append(@, d[l.open[1].off + 1]),
                            !.open[1].off = @ + 1, !.want = @ - 1]
             b == [l EXCEPT !.pc = "close"]
  <2>1. l.pc = "send" /\ UNCHANGED <<tree, now, copies>> /\ Set(w, IF more THEN a ELSE b)
    BY <1>2, <1>6 DEF FileSend
  <2>2. SendInv(l) /\ l.req.method # "HEAD" /\ l.answers[1].status # 304
    BY <1>4, <2>1 DEF ReadInv
  <2>3. PICK f : l.open = <<f>>
    BY <1>3, <2>1 DEF Orderly
  <2>4. /\ a.pc = "send" /\ a.answers = l.answers /\ SameLook(a, l) /\ a.todo = l.todo /\ a.ino = 0
        /\ a.open = [l.open EXCEPT ![1] = [l.open[1] EXCEPT !.off = @ + 1]]
        /\ a.body = Append(l.body, d[l.open[1].off + 1]) /\ a.want = l.want - 1 /\ a.announced = l.announced
        /\ b.pc = "close" /\ b.answers = l.answers /\ SameLook(b, l) /\ b.todo = l.todo /\ b.ino = 0
        /\ b.open = l.open /\ b.body = l.body /\ b.want = l.want /\ b.announced = l.announced
    BY <1>3, <1>4, <2>1 DEF Fields, SameLook
  <2> HIDE DEF a, b, more, d
  <2>5. a.open = <<[f EXCEPT !.off = @ + 1]>> /\ l.open[1] = f
    BY <2>3, <2>4
  <2>6. more => Clear(a)
    <3> SUFFICES ASSUME more
                 PROVE  Clear(a)
      OBVIOUS
    <3>1. SendInv(a)
      BY <1>1, <1>4, <2>2, <2>3, <2>4, <2>5, SendsMore DEF more, d
    <3>2. ReadInv(a)
      BY <2>2, <2>4, <3>1 DEF ReadInv, SameLook, Before
    <3> QED
      BY <1>3, <1>4, <2>4, <3>2, Sends
  <2>7. ~ more => Clear(b)
    <3> SUFFICES ASSUME ~ more
                 PROVE  Clear(b)
      OBVIOUS
    <3>1. SendInv(b)
      <4>1. At(b) = At(l) /\ Length(b) = Length(l) /\ (Still(b, b.path) <=> Still(l, l.path))
        BY <2>4 DEF At, Length, Ranged, SameLook, Still
      <4> QED
        BY <2>2, <2>4, <4>1 DEF SendInv, SameLook
    <3>2. Explained(l)
      BY <1>1, <1>4, <2>2, SentAll DEF more, d
    <3>3. Explained(b)
      BY <2>4, <3>2 DEF Explained, SameLook, Ranged, Still
    <3>4. ReadInv(b)
      BY <2>2, <2>4, <3>1, <3>3 DEF ReadInv, SameLook, Before
    <3> QED
      BY <1>3, <1>4, <2>4, <3>4, Sends
  <2>8. CASE more
    BY <1>1, <2>1, <2>6, <2>8, QuietClear
  <2>9. CASE ~ more
    BY <1>1, <2>1, <2>7, <2>9, QuietClear
  <2> QED
    BY <2>8, <2>9
<1>7. CASE FileClose(w)
  <2> DEFINE r == [l EXCEPT !.pc = "done", !.open = <<>>]
             c == [path |-> l.path, st |-> l.st, data |-> l.body, ver |-> l.ver[l.path]]
             kept == l.req.method = "GET" /\ ~ Ranged(l) /\ Len(l.body) = l.announced
  <2>1. l.pc = "close" /\ Set(w, r) /\ copies' = IF kept THEN copies \cup {c} ELSE copies
    BY <1>2, <1>7 DEF FileClose
  <2>2. l.answers[1].status # 304 /\ (l.announced # -1 /\ l.req.method = "GET" => Explained(l)) /\ SendInv(l)
    BY <1>4, <2>1 DEF ReadInv
  <2>3. /\ r.pc = "done" /\ r.answers = l.answers /\ SameLook(r, l) /\ r.todo = l.todo /\ r.ino = 0
        /\ r.body = l.body /\ r.announced = l.announced
    BY <1>3, <1>4 DEF Fields, SameLook
  <2>4. c.path = l.path /\ c.st = l.st /\ c.data = l.body /\ c.ver = l.ver[l.path]
    OBVIOUS
  <2> HIDE DEF r, c
  <2>5. Explained(l) => Explained(r)
    BY <2>3 DEF Explained, SameLook, Ranged, Still
  <2>6. ReadInv(r)
    BY <2>2, <2>3, <2>5 DEF ReadInv, SameLook, Before
  <2>7. Clear(r)
    BY <1>3, <1>4, <2>1, <2>3, <2>6, Sends
  <2>8. kept => CopyInv(c)
    <3> SUFFICES ASSUME kept
                 PROVE  CopyInv(c)
      OBVIOUS
    <3>1. l.announced # -1
      <4>1. Length(l) \in Nat
        BY <1>4, Lengths
      <4> QED
        BY <2>2, <4>1 DEF SendInv
    <3>2. Explained(l)
      BY <2>2, <3>1
    <3>3. Still(l, l.path) => l.body = DataAt(l.path)
      BY <1>4, <3>2 DEF Explained, LookInv
    <3>4. /\ l.path \in Path /\ l.ver[l.path] \in 0 .. Len(changed[l.path])
          /\ l.st.mtime = Moment(l.path, l.ver[l.path])
      <4>1. l.path \in Path /\ l.ver[l.path] \in Nat /\ l.ver[l.path] <= Len(changed[l.path])
        BY <1>4 DEF LookInv
      <4>2. Len(changed[l.path]) \in Nat
        BY <1>1, <4>1 DEF TreeInv, TreeType
      <4>3. l.ver[l.path] \in 0 .. Len(changed[l.path])
        BY <4>1, <4>2
      <4> QED
        BY <1>4, <4>1, <4>3 DEF LookInv
    <3> QED
      BY <2>4, <3>3, <3>4 DEF CopyInv, Still
  <2>9. \A e \in copies' : CopyInv(e)
    BY <2>1, <2>8 DEF KnowInv
  <2> HIDE DEF kept
  <2> QED
    BY <1>4, <2>1, <2>7, <2>9, QuietStep DEF Clear
<1> QED
  BY <1>5, <1>6, <1>7

-----------------------------------------------------------------------------
(* Files that include files, and a PUT up to its last directory. *)

\* A file with SSI is sent with those it includes, and no length is announced.
LEMMA IncludingKnows ==
  ASSUME IInv, KnowInv, NEW w \in Worker, SsiOpen(w) \/ SsiNext(w) \/ SsiRefuse(w)
  PROVE  KnowInv'
<1>1. TreeInv /\ HandlerInv(local[w]) /\ Orderly(local[w])
  BY DEF KnowInv, IInv
<1>2. PICK l : l = local[w]
  OBVIOUS
<1>3. /\ HandlerInv(l) /\ Orderly(l) /\ DOMAIN l = Fields /\ l.pc \in {"ssi", "include"}
      /\ UNCHANGED <<tree, now, copies>>
  BY <1>1, <1>2 DEF Orderly, SsiOpen, SsiOpenWith, SsiNext, SsiRefuse
<1>4. LookInv(l) /\ ReadInv(l) /\ l.ino = 0 /\ l.req.method # "PUT"
  BY <1>3 DEF HandlerInv, LookInv, PutInv, Serving
<1>5. ASSUME NEW r, r.pc \in {"include", "done"}, SameLook(r, l), r.todo = l.todo, r.ino = 0,
             r.announced = -1, r.answers[1].status # 304
      PROVE  Clear(r)
  <2>1. ReadInv(r)
    BY <1>5 DEF ReadInv, Before
  <2> QED
    BY <1>3, <1>4, <1>5, <2>1, Sends
<1>6. CASE SsiOpen(w)
  <2> DEFINE x == [status |-> 200, framed |-> FALSE]
             a == Answer(l, 200, FALSE)
             f == [ino |-> fs[l.path], off |-> 0, ssi |-> TRUE]
             r == [a EXCEPT !.pc = "include", !.must_close = TRUE, !.open = <<f>>]
  <2>1. l.pc = "ssi" /\ (Set(w, HttpError(l, 500)) \/ Set(w, r))
    BY <1>2, <1>6 DEF SsiOpen, SsiOpenWith
  <2>2. Fresh(l) /\ l.answers = <<>> /\ l.announced = -1
    BY <1>3, <1>4, <2>1 DEF Fresh, Orderly, Before, ReadInv
  <2>3. Clear(HttpError(l, 500))
    <3>1. AnswerMay(l, 500)
      BY <1>4 DEF AnswerMay
    <3> QED
      BY <1>3, <2>2, <3>1, KnowsWhenFramed
  <2>4. /\ DOMAIN a = Fields /\ SameLook(a, l) /\ a.todo = l.todo /\ a.ino = l.ino /\ a.pend = l.pend
        /\ a.announced = l.announced /\ a.answers = Append(l.answers, x)
    BY <1>3 DEF Answer, Fields, SameLook
  <2>5. Append(l.answers, x)[1] = x /\ x.status # 304
    BY <2>2
  <2> HIDE DEF a, f, x
  <2>6. /\ r.pc = "include" /\ SameLook(r, l) /\ r.todo = l.todo /\ r.ino = l.ino /\ r.pend = l.pend
        /\ r.announced = l.announced /\ r.answers = Append(l.answers, x)
    BY <2>4 DEF Fields, SameLook
  <2> HIDE DEF r
  <2>7. Clear(r)
    BY <1>4, <1>5, <2>2, <2>5, <2>6
  <2>8. CASE Set(w, HttpError(l, 500))
    BY <1>3, <2>3, <2>8, QuietClear
  <2>9. CASE Set(w, r)
    BY <1>3, <2>7, <2>9, QuietClear
  <2> QED
    BY <2>1, <2>8, <2>9
<1>7. CASE SsiNext(w) \/ SsiRefuse(w)
  <2> DEFINE n   == Len(l.open)
             g   == l.open[n]
             tok == disk[g.ino].data[g.off + 1]
             on  == [l EXCEPT !.open[n].off = @ + 1]
             end == [l EXCEPT !.open = SubSeq(@, 1, n - 1), !.pc = IF n = 1 THEN "done" ELSE "include"]
             say == [on EXCEPT !.body = Append(@, tok)]
             f(to) == [ino |-> fs[to], off |-> 0, ssi |-> to \in Ssi]
             deep(to) == [on EXCEPT !.open = Append(@, f(to))]
  <2>1. /\ l.pc = "include"
        /\ Set(w, on) \/ Set(w, end) \/ Set(w, say) \/ Set(w, Included(on, tok.to))
    BY <1>2, <1>7 DEF SsiNext, SsiRefuse
  <2>2. l.announced = -1 /\ l.answers[1].status # 304
    BY <1>4, <2>1 DEF ReadInv
  <2>3. /\ DOMAIN on = Fields /\ on.pc = l.pc /\ SameLook(on, l) /\ on.todo = l.todo /\ on.ino = l.ino /\ on.pend = l.pend
        /\ on.announced = l.announced /\ on.answers = l.answers
        /\ end.pc \in {"include", "done"} /\ SameLook(end, l) /\ end.todo = l.todo /\ end.ino = l.ino /\ end.pend = l.pend
        /\ end.announced = l.announced /\ end.answers = l.answers
    BY <1>3 DEF Fields, SameLook
  <2> HIDE DEF on, end, f
  <2>4. /\ say.pc = on.pc /\ SameLook(say, l) /\ say.todo = on.todo /\ say.ino = on.ino
        /\ say.announced = on.announced /\ say.answers = on.answers
    BY <2>3 DEF Fields, SameLook
  <2>5. \A to : /\ deep(to).pc = on.pc /\ SameLook(deep(to), l) /\ deep(to).todo = on.todo
                /\ deep(to).ino = on.ino /\ deep(to).announced = on.announced /\ deep(to).answers = on.answers
    BY <2>3 DEF Fields, SameLook
  <2> HIDE DEF say, tok
  <2>6. Included(on, tok.to) \in {on, deep(tok.to)}
    BY DEF Included, f
  <2> HIDE DEF deep
  <2>7. Clear(end)
    BY <1>4, <1>5, <2>2, <2>3
  <2>8. Clear(say)
    BY <1>4, <1>5, <2>1, <2>2, <2>3, <2>4
  <2>9. Clear(on)
    BY <1>4, <1>5, <2>1, <2>2, <2>3
  <2>10. \A to : Clear(deep(to))
    BY <1>4, <1>5, <2>1, <2>2, <2>3, <2>5
  <2>11. ASSUME NEW r, Set(w, r), Clear(r)
         PROVE  KnowInv'
    BY <1>3, <2>11, QuietClear
  <2> QED
    BY <2>1, <2>6, <2>7, <2>8, <2>9, <2>10, <2>11
<1> QED
  BY <1>6, <1>7

\* A PUT on its way.
LEMMA Walks ==
  ASSUME NEW l, Fresh(l), NEW r, r.pc \in {"above", "mkdir", "create"}, r.req = l.req, r.path = l.path,
         r.ver = l.ver, r.seen = l.seen, r.copy = l.copy, r.todo \in Seq(Path), r.ino = l.ino /\ r.pend = l.pend,
         r.st = l.st \/ (r.st = Stat(l.path) /\ Stat(l.path) \in Stats), l.req.method = "PUT",
         r.announced = l.announced, r.body = l.body, WayInv(r),
         r.pc = "mkdir" => r.todo # <<>> /\ (~ Still(r, r.todo[1]) \/ fs[r.todo[1]] = 0),
         r.pc = "create" => r.todo = <<>> /\ ~ r.req.slash
  PROVE  Clear(r)
<1>1. LookInv(l) /\ ReadInv(l) /\ PutInv(l)
  BY DEF Fresh, HandlerInv
<1>2. LookInv(r)
  BY <1>1 DEF LookInv, Still, Serving
<1>3. l.announced = -1 /\ l.body = <<>> /\ l.ino = 0 /\ l.pend = <<>> /\ 0 \in 0 .. Len(disk)
  BY <1>1 DEF ReadInv, PutInv, Fresh, Before
<1>4. ReadInv(r)
  BY <1>3 DEF ReadInv, Before
<1>5. PutInv(r)
  BY <1>3 DEF PutInv
<1> QED
  BY <1>2, <1>3, <1>4, <1>5 DEF HandlerInv, Clear

\* One directory less to go.
OneOn(l, r) ==
  /\ Head(l.todo) = l.todo[1] /\ Tail(l.todo) \in Seq(Path) /\ l.todo[1] \in Path
  /\ l.todo[1] = Way(l)[Passed(l) + 1]
  /\ Way(r) = Way(l) /\ Passed(r) = Passed(l) + 1 /\ Passed(l) \in Nat
  /\ \A i \in 1 .. Len(r.todo) : r.todo[i] = Way(r)[Passed(r) + i]

\* One directory of the PUT's way is behind it, and what is left to do is the rest of the way.
LEMMA WayOn ==
  ASSUME NEW l, l.path \in Path, l.todo \in Seq(Path), l.todo # <<>>, WayInv(l),
         NEW r, r.req = l.req, r.path = l.path, r.ver = l.ver, r.todo = Tail(l.todo)
  PROVE  OneOn(l, r)
<1> DEFINE t == l.todo
           n == Passed(l)
           W == Way(l)
<1>1. /\ t \in Seq(Path) /\ Len(t) \in Nat \ {0} /\ n \in Nat /\ n = Len(W) - Len(t)
      /\ \A i \in 1 .. Len(t) : t[i] = W[n + i]
  <2>1. n \in Nat /\ \A i \in 1 .. Len(t) : t[i] = W[n + i]
    BY DEF WayInv
  <2>2. n = Len(W) - Len(t)
    BY DEF Passed
  <2>3. Len(t) \in Nat \ {0}
    OBVIOUS
  <2> HIDE DEF n, W
  <2> QED
    BY <2>1, <2>2, <2>3
<1>2. Len(W) \in Nat
  BY WayOf
<1>3. Way(r) = W /\ Passed(r) = Len(W) - Len(r.todo)
  BY DEF Way, Passed
<1> HIDE DEF t, n, W
<1>4. /\ Tail(t) \in Seq(Path) /\ Len(Tail(t)) = Len(t) - 1 /\ Head(t) = t[1] /\ t[1] \in Path
      /\ \A i \in 1 .. Len(Tail(t)) : Tail(t)[i] = t[i + 1]
  BY <1>1
<1>5. Len(W) - (Len(t) - 1) = n + 1
  BY <1>1, <1>2
<1>6. \A i \in 1 .. Len(Tail(t)) : i + 1 \in 1 .. Len(t) /\ n + (i + 1) = (n + 1) + i
  BY <1>1, <1>4
<1>7. 1 \in 1 .. Len(t)
  BY <1>1
<1>8. t[1] = W[n + 1]
  BY <1>1, <1>7
<1>9. Passed(r) = n + 1
  BY <1>3, <1>4, <1>5 DEF t
<1>10. \A i \in 1 .. Len(Tail(t)) : Tail(t)[i] = W[(n + 1) + i]
  BY <1>1, <1>4, <1>6
<1>11. r.todo = Tail(t)
  BY DEF t
<1> QED
  BY <1>1, <1>3, <1>4, <1>8, <1>9, <1>10, <1>11 DEF t, n, W, OneOn

\* A PUT looks at its file and at the directories above it (put_dir).
LEMMA AboveKnows ==
  ASSUME IInv, KnowInv, NEW w \in Worker, PutStat(w) \/ AboveStat(w)
  PROVE  KnowInv'
<1>1. TreeInv /\ HandlerInv(local[w]) /\ Orderly(local[w])
  BY DEF KnowInv, IInv
<1>2. PICK l : l = local[w]
  OBVIOUS
<1>3. /\ HandlerInv(l) /\ Orderly(l) /\ DOMAIN l = Fields /\ l.pc \in {"PUT", "above"}
      /\ UNCHANGED <<tree, now, copies>>
  BY <1>1, <1>2 DEF Orderly, PutStat, AboveStat
<1>4. /\ Fresh(l) /\ l.answers = <<>> /\ l.req.method = "PUT" /\ l.path \in Path /\ l.todo \in Seq(Path)
      /\ l.pc = "above" => WayInv(l)
  BY <1>3 DEF Fresh, Orderly, Before, Storing, HandlerInv, LookInv, PutInv
<1>5. ASSUME NEW r, Set(w, r), Clear(r)
      PROVE  KnowInv'
  BY <1>3, <1>5, QuietClear
<1>6. CASE PutStat(w)
  <2> DEFINE r == [l EXCEPT !.pc = "above", !.st = Stat(l.path), !.todo = Way(l)]
  <2>1. Set(w, r)
    BY <1>2, <1>6 DEF PutStat, Way
  <2>2. /\ r.pc = "above" /\ r.req = l.req /\ r.path = l.path /\ r.ver = l.ver /\ r.seen = l.seen
        /\ r.copy = l.copy /\ r.todo = Way(l) /\ r.ino = l.ino /\ r.pend = l.pend /\ r.st = Stat(l.path)
        /\ r.announced = l.announced /\ r.body = l.body
    BY <1>3 DEF Fields
  <2> HIDE DEF r
  <2>3. Way(l) \in Seq(Path) /\ Len(Way(l)) \in Nat
    BY <1>4, WayOf
  <2>4. WayInv(r)
    <3>1. Way(r) = Way(l)
      BY <2>2 DEF Way
    <3>2. Passed(r) = 0
      BY <2>2, <2>3, <3>1 DEF Passed
    <3>3. \A i \in 1 .. Len(Way(l)) : 0 + i = i
      BY <2>3
    <3>4. 0 \in Nat /\ \A i \in 1 .. 0 : FALSE
      OBVIOUS
    <3> QED
      BY <2>2, <3>1, <3>2, <3>3, <3>4 DEF WayInv
  <2>5. Stat(l.path) \in Stats
    BY <1>1, <1>4, StatKnows
  <2>6. Clear(r)
    BY <1>4, <2>2, <2>3, <2>4, <2>5, Walks
  <2> QED
    BY <1>5, <2>1, <2>6
<1>7. CASE AboveStat(w)
  <2> DEFINE p == Head(l.todo)
             a == [l EXCEPT !.todo = Tail(@)]
             b == [l EXCEPT !.pc = "mkdir"]
             c == [l EXCEPT !.pc = "create"]
             d == Answer(l, Done(l), FALSE)
  <2>1. /\ l.pc = "above"
        /\ \/ l.todo # <<>> /\ Stat(p).found /\ Set(w, a)
           \/ l.todo # <<>> /\ ~ Stat(p).found /\ Set(w, b)
           \/ l.todo = <<>> /\ l.req.slash /\ Set(w, d)
           \/ l.todo = <<>> /\ ~ l.req.slash /\ Set(w, c)
    BY <1>2, <1>7 DEF AboveStat
  <2>2. /\ a.pc = "above" /\ SameLook(a, l) /\ a.todo = Tail(l.todo) /\ a.ino = l.ino /\ a.pend = l.pend
        /\ a.announced = l.announced /\ a.body = l.body
        /\ b.pc = "mkdir" /\ SameLook(b, l) /\ b.todo = l.todo /\ b.ino = l.ino /\ b.pend = l.pend
        /\ b.announced = l.announced /\ b.body = l.body
        /\ c.pc = "create" /\ SameLook(c, l) /\ c.todo = l.todo /\ c.ino = l.ino /\ c.pend = l.pend
        /\ c.announced = l.announced /\ c.body = l.body
    BY <1>3, <2>1 DEF Fields, SameLook
  <2> HIDE DEF a, b, c, d, p
  <2>3. ASSUME NEW r, SameLook(r, l), r.todo = l.todo
        PROVE  WayInv(r)
    <3>1. Way(r) = Way(l) /\ Passed(r) = Passed(l)
      BY <2>3 DEF Way, Passed, SameLook
    <3> QED
      BY <1>4, <2>1, <2>3, <3>1 DEF WayInv, SameLook, Still
  <2>4. l.todo # <<>> => OneOn(l, a) /\ p = l.todo[1] /\ p \in Path
    <3>1. /\ a.req = l.req /\ a.path = l.path /\ a.ver = l.ver /\ a.todo = Tail(l.todo)
          /\ WayInv(l) /\ l.path \in Path /\ l.todo \in Seq(Path)
      BY <1>4, <2>1, <2>2 DEF SameLook
    <3>2. l.todo # <<>> => OneOn(l, a)
      BY <3>1, WayOn
    <3> QED
      BY <3>2 DEF p, OneOn
  <2>5. l.todo # <<>> => (Stat(p).found <=> fs[p] # 0)
    BY <1>1, <2>4, StatKnows
  <2>10. ASSUME NEW r, r.pc = "above", SameLook(r, l), r.todo \in Seq(Path), r.ino = l.ino /\ r.pend = l.pend,
                r.announced = l.announced, r.body = l.body, WayInv(r)
         PROVE  Clear(r)
    <3>1. /\ r.req = l.req /\ r.path = l.path /\ r.ver = l.ver /\ r.seen = l.seen
          /\ r.copy = l.copy /\ r.st = l.st
      BY <2>10 DEF SameLook
    <3> QED
      BY <1>4, <2>10, <3>1, Walks
  <2>11. ASSUME NEW r, r.pc = "mkdir", SameLook(r, l), r.todo \in Seq(Path), r.ino = l.ino /\ r.pend = l.pend,
                r.announced = l.announced, r.body = l.body, WayInv(r),
                r.todo # <<>>, fs[r.todo[1]] = 0
         PROVE  Clear(r)
    <3>1. /\ r.req = l.req /\ r.path = l.path /\ r.ver = l.ver /\ r.seen = l.seen
          /\ r.copy = l.copy /\ r.st = l.st
      BY <2>11 DEF SameLook
    <3> QED
      BY <1>4, <2>11, <3>1, Walks
  <2>12. ASSUME NEW r, r.pc = "create", SameLook(r, l), r.todo \in Seq(Path), r.ino = l.ino /\ r.pend = l.pend,
                r.announced = l.announced, r.body = l.body, WayInv(r), r.todo = <<>>, ~ r.req.slash
         PROVE  Clear(r)
    <3>1. /\ r.req = l.req /\ r.path = l.path /\ r.ver = l.ver /\ r.seen = l.seen
          /\ r.copy = l.copy /\ r.st = l.st
      BY <2>12 DEF SameLook
    <3>2. r.pc # "mkdir" /\ r.pc \in {"above", "mkdir", "create"} /\ (r.pc = "create" => r.todo = <<>> /\ ~ r.req.slash)
      BY <2>12
    <3>3. /\ Fresh(l) /\ l.req.method = "PUT" /\ r.todo \in Seq(Path) /\ r.ino = l.ino /\ r.pend = l.pend
          /\ r.announced = l.announced /\ r.body = l.body /\ WayInv(r)
      BY <1>4, <2>12
    <3> QED
      BY <3>1, <3>2, <3>3, Walks
  <2>6. CASE l.todo # <<>> /\ Stat(p).found /\ Set(w, a)
    <3>1. \A i \in 1 .. Passed(a) : i \in 1 .. Passed(l) \/ i = Passed(l) + 1
      BY <2>4, <2>6 DEF OneOn
    <3>2. \A i \in 1 .. Passed(a) : ~ Still(a, Way(a)[i]) \/ fs[Way(a)[i]] # 0
      <4>1. \A i \in 1 .. Passed(l) : ~ Still(l, Way(l)[i]) \/ fs[Way(l)[i]] # 0
        BY <1>4, <2>1 DEF WayInv
      <4>2. fs[Way(l)[Passed(l) + 1]] # 0
        BY <2>4, <2>5, <2>6 DEF OneOn
      <4>3. \A q : Still(a, q) <=> Still(l, q)
        BY <2>2 DEF SameLook, Still
      <4> QED
        BY <2>4, <2>6, <3>1, <4>1, <4>2, <4>3 DEF OneOn
    <3>3. Passed(a) \in Nat
      BY <2>4, <2>6 DEF OneOn
    <3>4. WayInv(a)
      BY <2>4, <2>6, <3>2, <3>3 DEF WayInv, OneOn
    <3>5. Clear(a)
      <4>1. a.todo \in Seq(Path) /\ a.pc = "above"
        BY <2>2, <2>4, <2>6 DEF OneOn
      <4> QED
        BY <2>2, <2>10, <3>4, <4>1
    <3> QED
      BY <1>5, <2>6, <3>5
  <2>7. CASE l.todo # <<>> /\ ~ Stat(p).found /\ Set(w, b)
    <3>1. b.todo # <<>> /\ fs[b.todo[1]] = 0
      BY <2>2, <2>4, <2>5, <2>7
    <3>2. WayInv(b)
      BY <2>2, <2>3
    <3>3. Clear(b)
      BY <1>4, <2>2, <2>11, <3>1, <3>2
    <3> QED
      BY <1>5, <2>7, <3>3
  <2>8. CASE l.todo = <<>> /\ ~ l.req.slash /\ Set(w, c)
    <3>1. WayInv(c)
      BY <2>2, <2>3
    <3>3. ~ c.req.slash
      BY <2>2, <2>8 DEF SameLook
    <3>2. Clear(c)
      <4>1. c.todo \in Seq(Path) /\ c.todo = <<>> /\ c.pc = "create"
        BY <2>2, <2>8
      <4> QED
        BY <2>2, <2>12, <3>1, <3>3, <4>1
    <3> QED
      BY <1>5, <2>8, <3>2
  <2>9. CASE Set(w, d)
    <3>1. ASSUME NEW status \in {200, 201}
          PROVE  Clear(Answer(l, status, FALSE))
      <4>1. AnswerMay(l, status)
        BY DEF AnswerMay
      <4> QED
        BY <1>3, <1>4, <4>1, KnowsWhenOpen
    <3>2. Done(l) \in {200, 201}
      BY DEF Done
    <3>3. Clear(d)
      BY <3>1, <3>2 DEF d
    <3> HIDE DEF d
    <3> QED
      BY <1>5, <2>9, <3>3
  <2> QED
    BY <2>1, <2>6, <2>7, <2>8, <2>9
<1> QED
  BY <1>6, <1>7

-----------------------------------------------------------------------------
(* The steps that change the tree. *)

\* A directory on the way of a PUT is in the one before it.
LEMMA WayUp ==
  ASSUME NEW l, l.path \in Path, NEW k \in 1 .. Len(Way(l))
  PROVE  /\ Way(l)[k] \in {l.path} \cup {Above[l.path][i] : i \in 1 .. Len(Above[l.path])}
         /\ k = 1 => Parent[Way(l)[k]] = "root"
         /\ k # 1 => /\ k - 1 \in 1 .. Len(Above[l.path]) /\ k - 1 \in 1 .. Len(Way(l))
                     /\ Parent[Way(l)[k]] = Above[l.path][k - 1] /\ Way(l)[k - 1] = Above[l.path][k - 1]
<1> DEFINE a == Above[l.path]
           W == Way(l)
<1>1. /\ a \in Seq(Path) /\ Len(a) \in Nat /\ W \in Seq(Path) /\ Len(W) \in Nat
      /\ \A i \in 1 .. Len(a) : W[i] = a[i]
      /\ Len(W) = Len(a) + IF l.req.slash THEN 1 ELSE 0
      /\ l.req.slash => W[Len(a) + 1] = l.path
  <2>1. /\ Above[l.path] \in Seq(Path) /\ Way(l) \in Seq(Path) /\ Len(Way(l)) \in Nat
        /\ \A i \in 1 .. Len(Above[l.path]) : Way(l)[i] = Above[l.path][i] /\ Above[l.path][i] \in Path
        /\ Len(Way(l)) = Len(Above[l.path]) + IF l.req.slash THEN 1 ELSE 0
        /\ l.req.slash => Way(l)[Len(Above[l.path]) + 1] = l.path
    BY WayOf
  <2>2. Len(a) \in Nat
    BY <2>1
  <2> QED
    BY <2>1, <2>2
<1>2. /\ Parent[l.path] = IF a = <<>> THEN "root" ELSE a[Len(a)]
      /\ \A i \in 1 .. Len(a) : Parent[a[i]] = IF i = 1 THEN "root" ELSE a[i - 1]
  BY PathAssumption
<1>3. a = <<>> <=> Len(a) = 0
  BY <1>1
<1> HIDE DEF a, W
<1>4. CASE k \in 1 .. Len(a)
  <2>1. k # 1 => k - 1 \in 1 .. Len(a) /\ k - 1 \in 1 .. Len(W)
    BY <1>1, <1>4 DEF W
  <2> QED
    BY <1>1, <1>2, <1>4, <2>1 DEF a, W
<1>5. CASE ~ (k \in 1 .. Len(a))
  <2>1. l.req.slash /\ k = Len(a) + 1
    BY <1>1, <1>5 DEF W
  <2>2. W[k] = l.path
    BY <1>1, <2>1
  <2>3. k = 1 => Len(a) = 0
    BY <1>1, <2>1
  <2>4. k # 1 => k - 1 = Len(a) /\ Len(a) # 0 /\ k - 1 \in 1 .. Len(a) /\ k - 1 \in 1 .. Len(W)
    BY <1>1, <2>1
  <2> QED
    BY <1>1, <1>2, <1>3, <2>2, <2>3, <2>4 DEF a, W
<1> QED
  BY <1>4, <1>5

\* A PUT that cannot go on was got in the way of.
LEMMA NoDirectory ==
  ASSUME NEW l, l.path \in Path, NEW k \in 1 .. Len(Way(l)),
         ~ Still(l, Way(l)[k]) \/ fs[Way(l)[k]] # 0, Way(l)[k] = Above[l.path][k], k \in 1 .. Len(Above[l.path]),
         ~ DirAt(Above[l.path][k])
  PROVE  Blamed(l)
<1>1. Above[l.path][k] \in Path
  BY WayOf
<1>2. CASE ~ Still(l, Way(l)[k])
  BY <1>2 DEF Blamed
<1>3. CASE fs[Way(l)[k]] # 0
  <2>1. FileAt(Above[l.path][k])
    BY <1>1, <1>3, PathAssumption DEF FileAt, DirAt
  <2> QED
    BY <2>1 DEF Blamed
<1> QED
  BY <1>2, <1>3

\* A mkdir that fails met a file above the path, or another request on the way.
LEMMA MkdirBlamed ==
  ASSUME TreeInv, NEW l, l.path \in Path, l.todo \in Seq(Path), l.todo # <<>>, WayInv(l),
         ~ Still(l, l.todo[1]) \/ fs[l.todo[1]] = 0,
         ~ (fs[Head(l.todo)] = 0 /\ DirAt(Parent[Head(l.todo)]))
  PROVE  Blamed(l)
<1> DEFINE k == Passed(l) + 1
           p == l.todo[1]
<1>1. /\ Head(l.todo) = p /\ p = Way(l)[k] /\ Passed(l) \in Nat /\ Len(Way(l)) \in Nat
      /\ Len(l.todo) \in Nat \ {0} /\ Passed(l) = Len(Way(l)) - Len(l.todo)
  <2>1. Len(l.todo) \in Nat \ {0} /\ Head(l.todo) = p
    OBVIOUS
  <2>2. 1 \in 1 .. Len(l.todo)
    BY <2>1
  <2> QED
    BY <2>1, <2>2, WayOf DEF WayInv, Passed
<1>2. k \in 1 .. Len(Way(l)) /\ (k # 1 => k - 1 = Passed(l) /\ k - 1 \in 1 .. Passed(l))
  BY <1>1
<1> HIDE DEF k, p
<1>3. /\ Way(l)[k] \in {l.path} \cup {Above[l.path][i] : i \in 1 .. Len(Above[l.path])}
      /\ k = 1 => Parent[Way(l)[k]] = "root"
      /\ k # 1 => /\ k - 1 \in 1 .. Len(Above[l.path]) /\ k - 1 \in 1 .. Len(Way(l))
                  /\ Parent[Way(l)[k]] = Above[l.path][k - 1] /\ Way(l)[k - 1] = Above[l.path][k - 1]
  BY <1>2, WayUp
<1>4. CASE fs[p] # 0
  <2>1. ~ Still(l, p)
    BY <1>4 DEF p
  <2> QED
    BY <1>1, <1>3, <2>1 DEF Blamed
<1>5. CASE ~ DirAt(Parent[p])
  <2>1. k # 1
    BY <1>1, <1>3, <1>5 DEF DirAt
  <2>2. ~ Still(l, Way(l)[k - 1]) \/ fs[Way(l)[k - 1]] # 0
    BY <1>2, <2>1 DEF WayInv
  <2>3. ~ DirAt(Above[l.path][k - 1])
    BY <1>1, <1>3, <1>5, <2>1
  <2> QED
    BY <1>3, <2>1, <2>2, <2>3, NoDirectory
<1> QED
  BY <1>1, <1>4, <1>5

\* An open that fails met a directory in the file's place, or another request on the way.
LEMMA OpenBlamed ==
  ASSUME TreeInv, NEW l, l.path \in Path, l.todo = <<>>, ~ l.req.slash, WayInv(l),
         ~ (DirAt(Parent[l.path]) /\ ~ DirAt(l.path))
  PROVE  Blamed(l)
<1> DEFINE a == Above[l.path]
           k == Len(a)
<1>1. /\ a \in Seq(Path) /\ k \in Nat /\ Len(Way(l)) = k /\ (\A i \in 1 .. k : Way(l)[i] = a[i])
      /\ Parent[l.path] = IF a = <<>> THEN "root" ELSE a[k]
      /\ Len(l.todo) = 0 /\ (a = <<>> <=> k = 0)
  <2>1. /\ Above[l.path] \in Seq(Path) /\ Way(l) \in Seq(Path) /\ Len(Way(l)) \in Nat
        /\ \A i \in 1 .. Len(Above[l.path]) : Way(l)[i] = Above[l.path][i] /\ Above[l.path][i] \in Path
        /\ Len(Way(l)) = Len(Above[l.path]) + IF l.req.slash THEN 1 ELSE 0
        /\ l.req.slash => Way(l)[Len(Above[l.path]) + 1] = l.path
    BY WayOf
  <2>2. k \in Nat /\ Len(l.todo) = 0 /\ (a = <<>> <=> k = 0)
    BY <2>1
  <2>3. Len(Way(l)) = k
    BY <2>1, <2>2
  <2>4. Parent[l.path] = IF a = <<>> THEN "root" ELSE a[k]
    BY PathAssumption
  <2> QED
    BY <2>1, <2>2, <2>3, <2>4
<1>2. Passed(l) = k
  <2>1. k - 0 = k
    BY <1>1
  <2> QED
    BY <1>1, <2>1 DEF Passed
<1>3. CASE DirAt(l.path)
  BY <1>3 DEF Blamed
<1>4. CASE ~ DirAt(Parent[l.path])
  <2>1. a # <<>>
    BY <1>1, <1>4 DEF DirAt
  <2>2. k \in 1 .. k
    BY <1>1, <2>1
  <2> HIDE DEF a, k
  <2>3. ~ Still(l, Way(l)[k]) \/ fs[Way(l)[k]] # 0
    BY <1>2, <2>2 DEF WayInv
  <2>4. ~ DirAt(a[k])
    BY <1>1, <1>4, <2>1
  <2>5. k \in 1 .. Len(Way(l)) /\ Way(l)[k] = a[k] /\ k \in 1 .. Len(a)
    BY <1>1, <2>2 DEF k
  <2> QED
    BY <2>3, <2>4, <2>5, NoDirectory DEF a
<1> QED
  BY <1>3, <1>4

\* Nobody but a rival writes to a file that a PUT has open.
LEMMA OthersFiles ==
  ASSUME KnowInv, NEW i, \A j \in 1 .. Len(disk) : j # i => disk'[j] = disk[j], NEW u \in Worker,
         local[u].ino # 0, local[u].ino # i
  PROVE  disk'[local[u].ino] = disk[local[u].ino]
<1>1. local[u].ino \in 0 .. Len(disk) /\ Len(disk) \in Nat
  BY DEF KnowInv, HandlerInv, PutInv, TreeInv, TreeType
<1> DEFINE j == local[u].ino
           n == Len(disk)
<1>2. j \in 0 .. n /\ n \in Nat /\ j # 0
  BY <1>1
<1> HIDE DEF j, n
<1>3. j \in 1 .. n
  BY <1>2
<1> QED
  BY <1>3 DEF j, n

\* put_dir makes a directory, or the PUT is answered 500.
LEMMA MkdirKnows ==
  ASSUME IInv, KnowInv, NEW w \in Worker, Mkdir(w)
  PROVE  KnowInv'
<1>1. TreeInv /\ HandlerInv(local[w]) /\ Orderly(local[w]) /\ \A c \in copies : CopyInv(c)
  BY DEF KnowInv, IInv
<1>2. PICK l : l = local[w]
  OBVIOUS
<1> DEFINE p == Head(l.todo)
           n == [dir |-> TRUE, data |-> <<>>, mtime |-> now]
           r == [l EXCEPT !.pc = "above", !.todo = Tail(@)]
           able == fs[p] = 0 /\ DirAt(Parent[p])
<1>3. /\ HandlerInv(l) /\ Orderly(l) /\ DOMAIN l = Fields /\ l.pc = "mkdir" /\ UNCHANGED <<now, copies>>
      /\ able => /\ disk' = Append(disk, n) /\ fs' = [fs EXCEPT ![p] = Len(disk) + 1]
                 /\ changed' = Moments({p}) /\ Set(w, r)
      /\ ~ able => Set(w, HttpError(l, 500)) /\ UNCHANGED tree
  BY <1>1, <1>2 DEF Orderly, Mkdir
<1>4. /\ Fresh(l) /\ l.answers = <<>> /\ l.req.method = "PUT" /\ l.path \in Path /\ l.todo \in Seq(Path)
      /\ WayInv(l) /\ l.todo # <<>> /\ (~ Still(l, l.todo[1]) \/ fs[l.todo[1]] = 0)
      /\ l.announced = -1 /\ l.body = <<>> /\ l.ino = 0 /\ l.pend = <<>>
  BY <1>3 DEF Fresh, Orderly, Before, Storing, HandlerInv, LookInv, PutInv, ReadInv
<1>5. n \in Inode /\ n.mtime = now
  <2>1. <<>> \in Seq(Token) /\ now \in Pos
    BY <1>1 DEF TreeInv, TreeType
  <2> QED
    BY <2>1 DEF Inode
<1>6. /\ r.pc = "above" /\ SameLook(r, l) /\ r.todo = Tail(l.todo) /\ r.ino = 0 /\ r.pend = <<>>
      /\ r.announced = -1 /\ r.body = <<>>
  BY <1>3, <1>4 DEF Fields, SameLook
<1> HIDE DEF n, r, p
<1>7. OneOn(l, r)
  BY <1>4, <1>6, WayOn DEF SameLook
<1>8. p = l.todo[1] /\ p \in Path /\ p = Way(l)[Passed(l) + 1]
  BY <1>7 DEF p, OneOn
<1>9. CASE able
  <2>1. /\ TreeInv' /\ Evolves /\ Moved(p) /\ Len(disk') = Len(disk) + 1
        /\ \A i \in 1 .. Len(disk) : disk'[i] = disk[i]
    BY <1>1, <1>3, <1>5, <1>8, <1>9, Makes
  <2>2. fs'[p] # 0
    BY <1>1, <1>3, <1>8, <1>9 DEF TreeInv, TreeType
  <2>3. LookInv(r)
    BY <1>4, <1>6, <1>7 DEF Fresh, HandlerInv, LookInv, SameLook, Still, Serving, OneOn
  <2>4. LookInv(r)'
    BY <1>1, <2>1, <2>3, LookStays
  <2>5. ReadInv(r)'
    BY <1>6 DEF ReadInv
  <2>6. WayInv(r)'
    <3>1. PutInv(l)'
      <4>1. LookInv(l) /\ PutInv(l)
        BY <1>3 DEF HandlerInv
      <4> QED
        BY <1>1, <1>4, <2>1, <4>1, PutStays
    <3>2. \A i \in 1 .. Passed(l) : (~ Still(l, Way(l)[i]) \/ fs[Way(l)[i]] # 0)'
      BY <1>3, <3>1 DEF PutInv, WayInv
    <3>3. \A i \in 1 .. Passed(r) : i \in 1 .. Passed(l) \/ i = Passed(l) + 1
      BY <1>7 DEF OneOn
    <3>4. Passed(r) \in Nat
      BY <1>7 DEF OneOn
    <3>5. \A q : Still(r, q)' <=> Still(l, q)'
      BY <1>6 DEF SameLook, Still
    <3>6. \A i \in 1 .. Passed(r) : (~ Still(r, Way(r)[i]) \/ fs[Way(r)[i]] # 0)'
      BY <1>7, <1>8, <2>2, <3>2, <3>3, <3>5 DEF OneOn
    <3> QED
      BY <1>7, <3>4, <3>6 DEF OneOn, WayInv
  <2>7. PutInv(r)'
    <3>1. Len(disk') \in Nat
      BY <2>1 DEF TreeInv, TreeType
    <3> QED
      BY <1>6, <2>6, <3>1 DEF PutInv
  <2>8. HandlerInv(r)'
    BY <2>4, <2>5, <2>7 DEF HandlerInv
  <2>9. \A c \in copies' : CopyInv(c)'
    BY <1>1, <1>3, <2>1, CopyStays
  <2>10. ASSUME NEW u \in Worker \ {w}, local[u].ino # 0
         PROVE  disk'[local[u].ino] = disk[local[u].ino]
    BY <2>1, <2>10, OthersFiles
  <2> QED
    BY <1>3, <1>6, <1>9, <2>1, <2>8, <2>9, <2>10, OneActs
<1>10. CASE ~ able
  <2>1. Blamed(l)
    BY <1>1, <1>4, <1>10, MkdirBlamed DEF p
  <2>2. Clear(HttpError(l, 500))
    <3>1. AnswerMay(l, 500)
      BY <2>1 DEF AnswerMay
    <3> QED
      BY <1>3, <1>4, <3>1, KnowsWhenFramed
  <2> QED
    BY <1>3, <1>10, <2>2, QuietClear
<1> QED
  BY <1>9, <1>10

\* A PUT opens its file: it is made, or emptied.
LEMMA Opens ==
  ASSUME TreeInv, NEW p \in Path, now' = now, changed' = Moments({p}),
         LET i == IF fs[p] = 0 THEN Len(disk) + 1 ELSE fs[p]
             n == [dir |-> FALSE, data |-> <<>>, mtime |-> now]
         IN /\ disk' = IF i > Len(disk) THEN Append(disk, n) ELSE [disk EXCEPT ![i] = n]
            /\ fs' = [fs EXCEPT ![p] = i]
  PROVE  LET i == IF fs[p] = 0 THEN Len(disk) + 1 ELSE fs[p]
         IN /\ TreeInv' /\ Evolves /\ i \in 1 .. Len(disk') /\ disk'[i].data = <<>>
            /\ \A j \in 1 .. Len(disk) : j # i => disk'[j] = disk[j]
<1> DEFINE n == [dir |-> FALSE, data |-> <<>>, mtime |-> now]
<1>1. n \in Inode /\ n.mtime = now /\ n.data = <<>>
  <2>1. <<>> \in Seq(Token) /\ now \in Pos
    BY DEF TreeInv, TreeType
  <2> QED
    BY <2>1 DEF Inode
<1>2. fs \in [Path -> 0 .. Len(disk)] /\ Len(disk) \in Nat
  BY DEF TreeInv, TreeType
<1>3. CASE fs[p] = 0
  <2>1. disk' = Append(disk, n) /\ fs' = [fs EXCEPT ![p] = Len(disk) + 1]
    BY <1>2, <1>3
  <2> HIDE DEF n
  <2>2. /\ TreeInv' /\ Evolves /\ Len(disk') = Len(disk) + 1 /\ disk'[Len(disk) + 1] = n
        /\ \A j \in 1 .. Len(disk) : disk'[j] = disk[j]
    BY <1>1, <1>3, <2>1, Makes
  <2>3. Len(disk) + 1 \in 1 .. Len(disk')
    BY <1>2, <2>2
  <2> QED
    BY <1>1, <1>3, <2>2, <2>3
<1>4. CASE fs[p] # 0
  <2> DEFINE i == fs[p]
  <2>1. i \in 1 .. Len(disk) /\ ~ (i > Len(disk))
    BY <1>2, <1>4
  <2>2. disk' = [disk EXCEPT ![i] = n] /\ fs' = [fs EXCEPT ![p] = i]
    BY <1>4, <2>1
  <2>3. fs' = fs
    BY <1>2, <2>2
  <2>4. {q \in Path : fs[q] = i} = {p}
    BY <1>4 DEF TreeInv, Unshared
  <2>5. changed' = Moments({q \in Path : fs[q] = i})
    BY <2>4
  <2> HIDE DEF n, i
  <2>6. /\ TreeInv' /\ Evolves /\ Len(disk') = Len(disk) /\ disk'[i] = n
        /\ \A j \in 1 .. Len(disk) : j # i => disk'[j] = disk[j]
    BY <1>1, <2>1, <2>2, <2>3, <2>5, Writes
  <2> QED
    BY <1>1, <1>4, <2>1, <2>6 DEF i
<1> QED
  BY <1>3, <1>4

\* Nothing but its rivals is different for a handler.
LEMMA RivalOf ==
  ASSUME NEW l, HandlerInv(l), DOMAIN l = Fields, NEW x
  PROVE  LET r == [l EXCEPT !.rival = x]
         IN /\ r.ino = l.ino /\ r.rival = x
            /\ (x \/ ~ l.rival) => HandlerInv(r)
<1> DEFINE r == [l EXCEPT !.rival = x]
<1>1. /\ SameLook(r, l) /\ r.pc = l.pc /\ r.todo = l.todo /\ r.open = l.open /\ r.want = l.want
      /\ r.announced = l.announced /\ r.body = l.body /\ r.answers = l.answers /\ r.pend = l.pend
      /\ r.ino = l.ino /\ r.rival = x /\ r.fault = l.fault
  BY DEF Fields, SameLook
<1> HIDE DEF r
<1> SUFFICES ASSUME x \/ ~ l.rival
             PROVE  HandlerInv(r)
  BY <1>1 DEF r
<1>2. LookInv(l) => LookInv(r)
  BY <1>1 DEF LookInv, SameLook, Still
<1>3. /\ At(r) = At(l) /\ Length(r) = Length(l) /\ (Explained(l) => Explained(r)) /\ (Honest(l) => Honest(r))
      /\ Way(r) = Way(l) /\ Passed(r) = Passed(l) /\ Taken(r) = Taken(l)
  BY <1>1 DEF At, Length, Ranged, Explained, Honest, SameLook, Still, Way, Passed, Taken
<1>4. SendInv(l) => SendInv(r)
  BY <1>1, <1>3 DEF SendInv, SameLook, Still
<1>5. ReadInv(r)
  BY <1>1, <1>3, <1>4 DEF ReadInv, SameLook, HandlerInv
<1>6. (WayInv(l) => WayInv(r)) /\ (Blamed(l) => Blamed(r))
  BY <1>1, <1>3 DEF WayInv, Blamed, SameLook, Still
<1>7. r.req = l.req /\ (Held(l) => Held(r))
  BY <1>1 DEF Held, SameLook
<1>8. ~ r.rival => ~ l.rival
  BY <1>1
<1>9. FillInv(l) => FillInv(r)
  BY <1>1, <1>7, <1>8 DEF FillInv, SameLook
<1>10. Stored(r) <=> Stored(l)
  BY <1>1 DEF Stored
<1>11. PutInv(r)
  BY <1>1, <1>3, <1>6, <1>7, <1>8, <1>9, <1>10 DEF PutInv, SameLook, HandlerInv, Still
<1> QED
  BY <1>1, <1>2, <1>5, <1>11 DEF HandlerInv

\* A PUT that has opened its file: the request may be refused then.
Opened(l, i, x) ==
  LET f == [l EXCEPT !.open = <<[ino |-> i, off |-> l.req.at]>>, !.ino = i, !.pc = "body"]
  IN [(IF l.req.length = -1 THEN HttpError(f, 411)
       ELSE IF l.req.expect = "other" THEN HttpError(f, 417) ELSE f)
      EXCEPT !.rival = x, !.pc = IF @ = "done" THEN "flush" ELSE @]

\* What a PUT has when its file is open: a body to store, or a refusal.
LEMMA OpenedIs ==
  ASSUME NEW l, DOMAIN l = Fields, l.answers = <<>>, NEW i, NEW x
  PROVE  LET r == Opened(l, i, x)
         IN /\ SameLook(r, l) /\ r.todo = l.todo /\ r.announced = l.announced /\ r.body = l.body
            /\ r.pend = l.pend /\ r.ino = i /\ r.rival = x
            /\ r.open = <<[ino |-> i, off |-> l.req.at]>>
            /\ r.pc = "body" \/ (r.pc = "flush" /\ r.answers[1].status \in {411, 417})
<1> DEFINE f == [l EXCEPT !.open = <<[ino |-> i, off |-> l.req.at]>>, !.ino = i, !.pc = "body"]
           own == IF l.req.length = -1 THEN HttpError(f, 411)
                  ELSE IF l.req.expect = "other" THEN HttpError(f, 417) ELSE f
           r == [own EXCEPT !.rival = x, !.pc = IF @ = "done" THEN "flush" ELSE @]
           o == <<[ino |-> i, off |-> l.req.at]>>
<1>1. /\ DOMAIN f = Fields /\ SameLook(f, l) /\ f.todo = l.todo /\ f.announced = l.announced
      /\ f.body = l.body /\ f.pend = l.pend /\ f.ino = i /\ f.open = o /\ f.pc = "body" /\ f.answers = <<>>
  BY DEF Fields, SameLook
<1>2. r = Opened(l, i, x)
  BY DEF Opened
<1> HIDE DEF f, o
<1>3. ASSUME NEW status \in {411, 417}
      PROVE  LET a == HttpError(f, status)
             IN /\ DOMAIN a = Fields /\ SameLook(a, l) /\ a.todo = l.todo /\ a.announced = l.announced
                /\ a.body = l.body /\ a.pend = l.pend /\ a.ino = i /\ a.open = o /\ a.pc = "done"
                /\ a.answers[1].status = status
  <2> DEFINE y == [status |-> status, framed |-> TRUE]
             a == HttpError(f, status)
  <2>1. /\ DOMAIN a = Fields /\ SameLook(a, l) /\ a.todo = l.todo /\ a.announced = l.announced
        /\ a.body = l.body /\ a.pend = l.pend /\ a.ino = i /\ a.open = o /\ a.pc = "done"
        /\ a.answers = Append(f.answers, y)
    BY <1>1 DEF HttpError, Answer, Fields, SameLook
  <2>2. Append(f.answers, y)[1] = y /\ y.status = status
    BY <1>1
  <2> HIDE DEF y, a
  <2>3. a.answers[1].status = status
    BY <2>1, <2>2
  <2> QED
    BY <2>1, <2>3 DEF a
<1>4. own \in {HttpError(f, 411), HttpError(f, 417), f}
  OBVIOUS
<1> HIDE DEF own
<1>5. \/ own = f
      \/ \E status \in {411, 417} : own = HttpError(f, status)
  BY <1>4
<1>6. /\ DOMAIN own = Fields /\ SameLook(own, l) /\ own.todo = l.todo /\ own.announced = l.announced
      /\ own.body = l.body /\ own.pend = l.pend /\ own.ino = i /\ own.open = o
      /\ own.pc = "body" \/ (own.pc = "done" /\ own.answers[1].status \in {411, 417})
  <2>1. CASE own = f
    BY <1>1, <2>1
  <2>2. ASSUME NEW status \in {411, 417}, own = HttpError(f, status)
        PROVE  /\ DOMAIN own = Fields /\ SameLook(own, l) /\ own.todo = l.todo /\ own.announced = l.announced
               /\ own.body = l.body /\ own.pend = l.pend /\ own.ino = i /\ own.open = o
               /\ own.pc = "done" /\ own.answers[1].status = status
    BY <1>3, <2>2
  <2> QED
    BY <1>5, <2>1, <2>2
<1>7. /\ SameLook(r, l) /\ r.todo = l.todo /\ r.announced = l.announced /\ r.body = l.body
      /\ r.pend = l.pend /\ r.ino = i /\ r.rival = x /\ r.open = o /\ r.answers = own.answers
      /\ r.pc = IF own.pc = "done" THEN "flush" ELSE own.pc
  BY <1>6 DEF Fields, SameLook
<1> HIDE DEF r
<1>8. r.pc = "body" \/ (r.pc = "flush" /\ r.answers[1].status \in {411, 417})
  BY <1>6, <1>7
<1> QED
  BY <1>2, <1>7, <1>8 DEF o

\* It has stored nothing yet.
LEMMA OpenedKnows ==
  ASSUME TreeInv', NEW l, LookInv(l)', NEW i \in 1 .. Len(disk'), disk'[i].data = <<>>, l.req.at \in Nat,
         NEW r, SameLook(r, l), r.todo = l.todo, r.announced = -1, r.body = <<>>, r.pend = <<>>, r.ino = i,
         r.open = <<[ino |-> i, off |-> l.req.at]>>,
         r.pc = "body" \/ (r.pc = "flush" /\ r.answers[1].status \in {411, 417})
  PROVE  HandlerInv(r)'
<1>1. LookInv(r)'
  BY DEF LookInv, SameLook, Still, Serving
<1>2. ReadInv(r)'
  BY DEF ReadInv, Before
<1>3. FillInv(r)'
  <2> DEFINE f == [ino |-> i, off |-> l.req.at]
  <2>1. r.open[1] = f /\ DOMAIN f = {"ino", "off"} /\ f.ino = i /\ f.off = l.req.at /\ r.req = l.req
    BY DEF SameLook
  <2> HIDE DEF f
  <2>2. f.off - r.req.at = 0 /\ Len(r.pend) = 0 /\ r.pend \in Seq(Token)
    BY <2>1
  <2>3. Part(r.req, 0) = <<>>
    <3>1. Part(r.req, 0) = [k \in 1 .. 0 |-> IF k <= r.req.at THEN Hole ELSE Byte(r.req.by)]
      BY DEF Part
    <3>2. 1 .. 0 = {}
      OBVIOUS
    <3> QED
      BY <3>1, <3>2
  <2>4. i # 0 /\ 0 \in Nat /\ 0 + 0 = 0 /\ \A k \in 1 .. 0 : FALSE
    OBVIOUS
  <2> QED
    BY <2>1, <2>2, <2>3, <2>4 DEF FillInv
<1>4. PutInv(r)'
  <2>1. i \in 0 .. Len(disk')
    BY DEF TreeInv, TreeType
  <2> QED
    BY <1>3, <2>1 DEF PutInv, Stored, Before
<1> QED
  BY <1>1, <1>2, <1>4 DEF HandlerInv

\* A PUT opens its file, which other PUTs may have open.
LEMMA OpenKnows ==
  ASSUME IInv, KnowInv, NEW w \in Worker, PutOpen(w)
  PROVE  KnowInv'
<1>1. TreeInv /\ HandlerInv(local[w]) /\ Orderly(local[w]) /\ \A c \in copies : CopyInv(c)
  BY DEF KnowInv, IInv
<1>2. PICK l : l = local[w]
  OBVIOUS
<1>3. PICK i : i = IF fs[l.path] = 0 THEN Len(disk) + 1 ELSE fs[l.path]
  OBVIOUS
<1> DEFINE p == l.path
           n == [dir |-> FALSE, data |-> <<>>, mtime |-> now]
           rivals == {u \in Worker : local[u].ino = i}
           able == DirAt(Parent[p]) /\ ~ DirAt(p)
           other(u) == [local[u] EXCEPT !.rival = @ \/ u \in rivals]
<1>4. /\ HandlerInv(l) /\ Orderly(l) /\ DOMAIN l = Fields /\ l.pc = "create" /\ UNCHANGED <<now, copies>>
      /\ ~ able => Set(w, HttpError(l, 500)) /\ UNCHANGED tree
      /\ able => /\ disk' = IF i > Len(disk) THEN Append(disk, n) ELSE [disk EXCEPT ![i] = n]
                 /\ fs' = [fs EXCEPT ![p] = i] /\ changed' = Moments({p})
                 /\ local'[w] = Opened(l, i, rivals # {}) /\ \A u \in Worker \ {w} : local'[u] = other(u)
  <2>1. HandlerInv(l) /\ Orderly(l) /\ DOMAIN l = Fields
    BY <1>1, <1>2 DEF Orderly
  <2>2. /\ l.pc = "create" /\ UNCHANGED <<now, copies>>
        /\ ~ able => Set(w, HttpError(l, 500)) /\ UNCHANGED tree
        /\ able => /\ disk' = IF i > Len(disk) THEN Append(disk, n) ELSE [disk EXCEPT ![i] = n]
                   /\ fs' = [fs EXCEPT ![p] = i] /\ changed' = Moments({p})
    BY <1>2, <1>3 DEF PutOpen, PutOpenWith
  <2> DEFINE j == IF fs[local[w].path] = 0 THEN Len(disk) + 1 ELSE fs[local[w].path]
             R == {u \in Worker : local[u].ino = j}
             of == [local[w] EXCEPT !.open = <<[ino |-> j, off |-> local[w].req.at]>>, !.ino = j, !.pc = "body"]
             mine == [(IF local[w].req.length = -1 THEN HttpError(of, 411)
                       ELSE IF local[w].req.expect = "other" THEN HttpError(of, 417) ELSE of)
                      EXCEPT !.rival = R # {}, !.pc = IF @ = "done" THEN "flush" ELSE @]
             their(u) == [local[u] EXCEPT !.rival = @ \/ u \in R]
  <2>3. DirAt(Parent[local[w].path]) /\ ~ DirAt(local[w].path)
          => local' = [u \in Worker |-> CASE u = w -> mine [] u # w -> their(u)]
    BY DEF PutOpen, PutOpenWith
  <2>4. i = j /\ R = rivals /\ local[w].path = p
    BY <1>2, <1>3
  <2>5. mine = Opened(l, i, rivals # {})
    BY <1>2, <2>4 DEF Opened
  <2>6. \A u \in Worker : their(u) = other(u)
    BY <2>4
  <2> HIDE DEF mine, their, other, j, R, rivals, n
  <2>7. able => local'[w] = mine /\ \A u \in Worker \ {w} : local'[u] = their(u)
    BY <2>3, <2>4
  <2> QED
    BY <2>1, <2>2, <2>5, <2>6, <2>7
<1>5. /\ Fresh(l) /\ l.answers = <<>> /\ p \in Path /\ l.todo = <<>> /\ ~ l.req.slash /\ WayInv(l)
      /\ l.announced = -1 /\ l.body = <<>> /\ l.pend = <<>> /\ l.req \in Request
  BY <1>4 DEF Fresh, Orderly, Before, HandlerInv, LookInv, PutInv, ReadInv
<1> HIDE DEF n, p, rivals, other
<1>6. CASE ~ able
  <2>1. Blamed(l)
    BY <1>1, <1>5, <1>6, OpenBlamed DEF p
  <2>2. Clear(HttpError(l, 500))
    <3>1. AnswerMay(l, 500)
      BY <2>1 DEF AnswerMay
    <3> QED
      BY <1>4, <1>5, <3>1, KnowsWhenFramed
  <2> QED
    BY <1>1, <1>4, <1>6, <2>2, QuietClear
<1>7. CASE able
  <2>1. /\ TreeInv' /\ Evolves /\ i \in 1 .. Len(disk') /\ disk'[i].data = <<>>
        /\ \A j \in 1 .. Len(disk) : j # i => disk'[j] = disk[j]
    BY <1>1, <1>3, <1>4, <1>5, <1>7, Opens DEF n, p
  <2>2. PICK x : x = (rivals # {})
    OBVIOUS
  <2>3. PICK r : r = Opened(l, i, x)
    OBVIOUS
  <2>4. /\ SameLook(r, l) /\ r.todo = l.todo /\ r.announced = l.announced /\ r.body = l.body
        /\ r.pend = l.pend /\ r.ino = i /\ r.rival = x
        /\ r.open = <<[ino |-> i, off |-> l.req.at]>>
        /\ r.pc = "body" \/ (r.pc = "flush" /\ r.answers[1].status \in {411, 417})
    BY <1>4, <1>5, <2>3, OpenedIs
  <2>5. HandlerInv(r)'
    <3>1. LookInv(l)'
      <4>1. LookInv(l)
        BY <1>4 DEF HandlerInv
      <4> QED
        BY <1>1, <2>1, <4>1, LookStays
    <3>2. l.req.at \in Nat
      BY <1>5, RequestAssumption
    <3>3. r.announced = -1 /\ r.body = <<>> /\ r.pend = <<>>
      BY <1>5, <2>4
    <3> QED
      BY <2>1, <2>4, <3>1, <3>2, <3>3, OpenedKnows
  <2>6. local'[w] = r /\ \A u \in Worker \ {w} : local'[u] = other(u)
    BY <1>4, <1>7, <2>2, <2>3
  <2>7. ASSUME NEW u \in Worker \ {w}
        PROVE  /\ HandlerInv(local[u])' /\ local'[u].ino = local[u].ino
               /\ local[u].rival \/ u \in rivals => local'[u].rival
    <3>1. PICK m : m = local[u]
      OBVIOUS
    <3>2. PICK y : y = (m.rival \/ u \in rivals)
      OBVIOUS
    <3> DEFINE v == [m EXCEPT !.rival = y]
    <3>3. local'[u] = v
      BY <2>6, <3>1, <3>2 DEF other
    <3>4. HandlerInv(m) /\ DOMAIN m = Fields
      BY <3>1 DEF KnowInv, IInv, Orderly
    <3>5. y \/ ~ m.rival
      BY <3>2
    <3>6. v.ino = m.ino /\ v.rival = y /\ HandlerInv(v)
      BY <3>4, <3>5, RivalOf
    <3> HIDE DEF v
    <3>7. v.ino # 0 /\ ~ v.rival => disk'[v.ino] = disk[v.ino]
      <4> SUFFICES ASSUME v.ino # 0, ~ v.rival
                   PROVE  disk'[v.ino] = disk[v.ino]
        OBVIOUS
      <4>1. u \notin rivals
        BY <3>2, <3>6
      <4>2. local[u].ino # i /\ local[u].ino # 0 /\ local[u].ino = v.ino
        BY <3>1, <3>6, <4>1 DEF rivals
      <4> QED
        BY <2>1, <4>2, OthersFiles
    <3>8. HandlerInv(v)'
      BY <1>1, <2>1, <3>6, <3>7, HandlerStays
    <3>9. local[u].rival \/ u \in rivals => v.rival
      BY <3>1, <3>2, <3>6
    <3> QED
      BY <3>1, <3>3, <3>6, <3>8, <3>9
  <2>8. \A u \in Worker : HandlerInv(local[u])'
    <3>1. HandlerInv(local[w])'
      BY <2>5, <2>6
    <3> QED
      BY <2>7, <3>1
  <2>9. \A c \in copies' : CopyInv(c)'
    BY <1>1, <1>4, <2>1, CopyStays
  <2>10. RivalInv'
    <3> SUFFICES ASSUME NEW u \in Worker, NEW v \in Worker, u # v,
                        local'[u].ino # 0, local'[u].ino = local'[v].ino
                 PROVE  local'[u].rival /\ local'[v].rival
      BY DEF RivalInv
    <3>1. ASSUME NEW z \in Worker \ {w}, local'[z].ino = i
          PROVE  local'[z].rival /\ local'[w].rival
      <4>1. z \in rivals
        BY <2>7, <3>1 DEF rivals
      <4> QED
        BY <2>2, <2>4, <2>6, <2>7, <4>1
    <3>2. CASE u = w
      BY <2>4, <2>6, <3>1, <3>2
    <3>3. CASE v = w
      BY <2>4, <2>6, <3>1, <3>3
    <3>4. CASE u # w /\ v # w
      <4>1. local[u].rival /\ local[v].rival
        BY <2>7, <3>4 DEF KnowInv, RivalInv
      <4> QED
        BY <2>7, <3>4, <4>1
    <3> QED
      BY <3>2, <3>3, <3>4
  <2> QED
    BY <2>1, <2>8, <2>9, <2>10 DEF KnowInv
<1> QED
  BY <1>6, <1>7

-----------------------------------------------------------------------------
(* The body of a PUT is stored. *)

\* A buffer that is written behind what is there already.
LEMMA WritesOn ==
  ASSUME NEW l, l.req.at \in Nat, NEW n \in Nat, NEW toks, toks \in Seq(Token), toks # <<>>,
         \A i \in 1 .. Len(toks) : toks[i] = Byte(l.req.by)
  PROVE  Written(Part(l.req, n), l.req.at + n, toks) = Part(l.req, n + Len(toks))
<1> DEFINE a == l.req.at
           k == Len(toks)
           D == Part(l.req, n)
           m == IF n > 0 THEN a + n ELSE 0
           B == Byte(l.req.by)
           v(i) == IF i \in a + n + 1 .. a + n + k THEN toks[i - (a + n)] ELSE IF i <= m THEN D[i] ELSE Hole
           x(i) == IF i <= a THEN Hole ELSE B
<1>1. a \in Nat /\ k \in Nat /\ k > 0 /\ m \in Nat
  OBVIOUS
<1>2. D = [i \in 1 .. m |-> x(i)]
  BY DEF Part
<1>3. Len(D) = m
  <2> HIDE DEF x, m, D
  <2> QED
    BY <1>1, <1>2
<1>4. Written(D, a + n, toks) = [i \in 1 .. (IF a + n + k > m THEN a + n + k ELSE m) |-> v(i)]
  BY <1>3 DEF Written
<1>5. Part(l.req, n + k) = [i \in 1 .. a + (n + k) |-> x(i)]
  <2>1. n + k > 0
    BY <1>1
  <2> HIDE DEF k
  <2> QED
    BY <2>1 DEF Part
<1>6. a + n + k > m /\ a + (n + k) = a + n + k
  <2> HIDE DEF a, k
  <2> QED
    BY <1>1
<1>7. ASSUME NEW i \in 1 .. a + n + k
      PROVE  v(i) = x(i)
  <2>1. CASE i \in a + n + 1 .. a + n + k
    <3>1. i - (a + n) \in 1 .. k /\ ~ (i <= a)
      <4> HIDE DEF a, k
      <4> QED
        BY <1>1, <2>1
    <3> QED
      BY <2>1, <3>1
  <2>2. CASE ~ (i \in a + n + 1 .. a + n + k)
    <3>1. i \in Nat /\ i >= 1 /\ i <= a + n
      <4> HIDE DEF a, k
      <4> QED
        BY <1>1, <2>2
    <3>2. i <= m => i \in 1 .. m
      BY <1>1, <3>1
    <3>3. ~ (i <= m) => i <= a
      <4> HIDE DEF a
      <4> QED
        BY <1>1, <3>1
    <3>4. i <= m => D[i] = x(i)
      <4> HIDE DEF D, x, m
      <4> QED
        BY <1>2, <3>2
    <3> HIDE DEF D, m, a, k
    <3> QED
      BY <2>2, <3>3, <3>4
  <2> QED
    BY <2>1, <2>2
<1> HIDE DEF v, x, D, m, a, k
<1>8. Written(D, a + n, toks) = Part(l.req, n + k)
  BY <1>4, <1>5, <1>6, <1>7
<1> QED
  BY <1>8 DEF D, a, k

\* What a handler's write leaves: m buffers of its body, and the other files.
Wrote(l, m) ==
  /\ TreeInv' /\ Evolves /\ Len(disk') = Len(disk)
  /\ \A j \in 1 .. Len(disk) : j # l.ino => disk'[j] = disk[j]
  /\ ~ l.rival => disk'[l.ino].data = Part(l.req, m)

\* The first c of the buffers a handler has go to the file system.
LEMMA FlushSome ==
  ASSUME TreeInv, NEW l, FillInv(l), l.ino \in 0 .. Len(disk), l.req.at \in Nat,
         NEW c \in 1 .. Len(l.pend), Flush(l, c), UNCHANGED <<fs, now>>
  PROVE  Wrote(l, (l.open[1].off - l.req.at) + c)
<1> DEFINE i == l.ino
           o == disk[l.ino]
           t == SubSeq(l.pend, 1, c)
           d == Written(o.data, l.open[1].off, t)
           n == [disk[i] EXCEPT !.data = d, !.mtime = now]
           k == l.open[1].off - l.req.at
<1>1. disk \in Seq(Inode) /\ i \in 1 .. Len(disk) /\ now \in Pos /\ Len(disk) \in Nat
  <2>1. i \in 0 .. Len(disk) /\ i # 0 /\ Len(disk) \in Nat
    BY DEF FillInv, TreeInv, TreeType
  <2>2. i \in 1 .. Len(disk)
    <3> HIDE DEF i
    <3> QED
      BY <2>1
  <2> QED
    BY <2>2 DEF TreeInv, TreeType
<1>2. o \in Inode
  BY <1>1, ElementOfSeq
<1>3. /\ k \in Nat /\ l.open[1].off \in Nat /\ l.open[1].off = l.req.at + k
      /\ t \in Seq(Token) /\ Len(t) = c /\ t # <<>>
      /\ \A j \in 1 .. Len(t) : t[j] = Byte(l.req.by)
      /\ ~ l.rival => o.data = Part(l.req, k)
  <2>1. k \in Nat /\ l.open[1].off \in Nat /\ l.pend \in Seq(Token)
    BY DEF FillInv
  <2>2. l.open[1].off = l.req.at + k
    BY <2>1
  <2>3. t \in Seq(Token) /\ Len(t) = c /\ \A j \in 1 .. c : t[j] = l.pend[j] /\ j \in 1 .. Len(l.pend)
    <3>1. Len(l.pend) \in Nat
      BY <2>1
    <3>2. c \in 1 .. Len(l.pend)
      OBVIOUS
    <3>3. \A j \in 1 .. c : j \in 1 .. Len(l.pend) /\ l.pend[j] \in Token
      BY <2>1, <3>1, <3>2, ElementOfSeq
    <3>4. c - 1 + 1 = c /\ \A j \in 1 .. c : 1 + j - 1 = j
      BY <3>1, <3>2
    <3>5. /\ t \in Seq(Token) /\ Len(t) = (IF 1 <= c THEN c - 1 + 1 ELSE 0)
          /\ \A j \in 1 .. c - 1 + 1 : t[j] = l.pend[1 + j - 1]
      <4> HIDE DEF t
      <4>1. t = SubSeq(l.pend, 1, c)
        BY DEF t
      <4> QED
        BY <3>1, <3>2, <3>3, <4>1, SubSeqProperties
    <3> QED
      BY <3>1, <3>2, <3>3, <3>4, <3>5
  <2>4. t # <<>>
    <3> HIDE DEF t
    <3> QED
      BY <2>3
  <2> QED
    BY <2>1, <2>2, <2>3, <2>4 DEF FillInv
<1> HIDE DEF t
<1>4. d \in Seq(Token)
  <2> DEFINE off == l.open[1].off
             m == IF off + Len(t) > Len(o.data) THEN off + Len(t) ELSE Len(o.data)
             v(j) == IF j \in off + 1 .. off + Len(t) THEN t[j - off]
                     ELSE IF j <= Len(o.data) THEN o.data[j] ELSE Hole
  <2>1. o.data \in Seq(Token) /\ Hole \in Token /\ Len(o.data) \in Nat /\ Len(t) \in Nat /\ off \in Nat
    BY <1>2, <1>3, Tokens DEF Inode
  <2>2. d = [j \in 1 .. m |-> v(j)]
    BY DEF Written
  <2>3. m \in Nat
    BY <2>1
  <2>4. ASSUME NEW j \in 1 .. m
        PROVE  v(j) \in Token
    <3>1. j \in Nat /\ j >= 1
      BY <2>3
    <3>2. j \in off + 1 .. off + Len(t) => j - off \in 1 .. Len(t)
      <4> HIDE DEF off
      <4> QED
        BY <2>1, <3>1
    <3>3. j <= Len(o.data) => j \in 1 .. Len(o.data)
      BY <2>1, <3>1
    <3>4. j \in off + 1 .. off + Len(t) => t[j - off] \in Token
      <4> HIDE DEF off
      <4> QED
        BY <1>3, <3>2, ElementOfSeq
    <3>5. j <= Len(o.data) => o.data[j] \in Token
      <4> HIDE DEF o
      <4> QED
        BY <2>1, <3>3, ElementOfSeq
    <3> HIDE DEF off, o
    <3> QED
      BY <2>1, <3>4, <3>5
  <2> HIDE DEF v, m, d
  <2> QED
    BY <2>2, <2>3, <2>4
<1>5. n \in Inode /\ n.mtime = now /\ n.data = d
  <2> HIDE DEF d, o
  <2> QED
    BY <1>1, <1>2, <1>4 DEF Inode, o
<1>6. disk' = [disk EXCEPT ![i] = n] /\ changed' = Moments({p \in Path : fs[p] = i})
  <2>1. disk' = [disk EXCEPT ![i].data = d, ![i].mtime = now]
    BY DEF Flush, t
  <2>2. [disk EXCEPT ![i].data = d, ![i].mtime = now] = [disk EXCEPT ![i] = n]
    <3> HIDE DEF d
    <3> QED
      BY <1>1
  <2> QED
    BY <2>1, <2>2 DEF Flush
<1>7. /\ TreeInv' /\ Evolves /\ Len(disk') = Len(disk) /\ disk'[i] = n
      /\ \A j \in 1 .. Len(disk) : j # i => disk'[j] = disk[j]
  <2> HIDE DEF n, i
  <2> QED
    BY <1>1, <1>5, <1>6, Writes
<1>8. ~ l.rival => d = Part(l.req, k + Len(t))
  <2> HIDE DEF k, o
  <2>1. Written(Part(l.req, k), l.req.at + k, t) = Part(l.req, k + Len(t))
    BY <1>3, WritesOn
  <2> QED
    BY <1>3, <2>1 DEF o
<1> QED
  BY <1>3, <1>5, <1>7, <1>8 DEF Wrote

\* Some of them or none.
LEMMA FlushWrites ==
  ASSUME TreeInv, NEW l, FillInv(l), l.ino \in 0 .. Len(disk), l.req.at \in Nat,
         NEW c \in 0 .. Len(l.pend), Flush(l, c), UNCHANGED <<fs, now>>
  PROVE  Wrote(l, (l.open[1].off - l.req.at) + c)
<1>1. CASE c = 0
  <2>1. UNCHANGED tree
    BY <1>1 DEF Flush, tree
  <2>2. disk' = disk /\ TreeInv' /\ Evolves
    BY <2>1, TreeStays DEF tree
  <2> DEFINE n == l.open[1].off - l.req.at
  <2>3. n \in Nat /\ (~ l.rival => disk[l.ino].data = Part(l.req, n))
    BY DEF FillInv
  <2> HIDE DEF n
  <2>4. n + c = n
    BY <1>1, <2>3
  <2>5. Wrote(l, n + c)
    BY <2>2, <2>3, <2>4 DEF Wrote
  <2> QED
    BY <2>5 DEF n
<1>2. CASE c # 0
  <2>1. c \in 1 .. Len(l.pend)
    BY <1>2
  <2> QED
    BY <2>1, FlushSome
<1> QED
  BY <1>1, <1>2

\* A PUT that goes on storing, or has closed its file, whatever was written to the tree.
LEMMA Stores ==
  ASSUME NEW l, LookInv(l)', l.announced = -1, NEW r, SameLook(r, l), r.todo = l.todo, r.announced = -1,
         r.ino = l.ino, r.ino \in 0 .. Len(disk'), r.pc \in {"body", "flush", "done"},
         r.pc # "done" => FillInv(r)',
         r.pc # "body" => r.answers[1].status \notin {304, 500},
         r.pc = "flush" /\ Stored(r) => r.fault \/ ~ (Taken(r) < r.req.length),
         r.pc = "done" /\ r.ino # 0 /\ ~ r.rival /\ Stored(r) => Held(r)'
  PROVE  HandlerInv(r)'
<1>1. LookInv(r)'
  BY DEF LookInv, SameLook, Still, Serving
<1>2. ReadInv(r)'
  BY DEF ReadInv, Before
<1>3. PutInv(r)'
  BY DEF PutInv, Before, Stored
<1> QED
  BY <1>1, <1>2, <1>3 DEF HandlerInv

\* What is left of a buffer still fits into what its request announced.
LEMMA StillFits ==
  ASSUME NEW n \in Nat, NEW k \in Nat, NEW c \in Nat, NEW m \in Nat, NEW length \in Int,
         n + k = 0 \/ n + k <= length, c + m <= k
  PROVE  (n + c) + m = 0 \/ (n + c) + m <= length
OBVIOUS

\* stdio hands over what it holds, or as much of it as there is room for.
LEMMA FlushKnows ==
  ASSUME IInv, KnowInv, NEW w \in Worker, NEW l, l = local[w], l.pc \in {"body", "flush"},
         NEW c \in 0 .. Len(l.pend), Flush(l, c), UNCHANGED <<fs, now, copies>>,
         NEW r, Set(w, r), SameLook(r, l), r.todo = l.todo, r.announced = l.announced,
         r.ino = l.ino, r.rival = l.rival, r.pc \in {"body", "flush", "done"},
         r.pc # "done" => /\ r.open = <<[l.open[1] EXCEPT !.off = @ + c]>>
                          /\ r.pend = <<>> \/ (r.pend = <<Byte(l.req.by)>> /\ c < Len(l.pend)),
         r.pc # "body" => r.answers[1].status \notin {304, 500},
         r.pc = "flush" => r.fault,
         r.pc = "done" /\ ~ r.fault /\ Stored(r) => ~ (Taken(l) < l.req.length) /\ c = Len(l.pend)
  PROVE  KnowInv'
<1> DEFINE f == l.open[1]
           n == f.off - l.req.at
           k == Len(l.pend)
<1>1. TreeInv /\ HandlerInv(l) /\ \A d \in copies : CopyInv(d)
  BY DEF KnowInv
<1>2. /\ LookInv(l) /\ FillInv(l) /\ l.announced = -1 /\ l.req \in Request
      /\ l.ino \in 0 .. Len(disk) /\ l.ino # 0
  BY <1>1 DEF HandlerInv, LookInv, PutInv, ReadInv, FillInv
<1>3. /\ l.req.at \in Nat /\ l.req.length \in Int /\ n \in Nat /\ k \in Nat /\ c \in Nat /\ c <= k
      /\ f.off \in Nat /\ f.ino = l.ino /\ DOMAIN f = {"ino", "off"} /\ Byte(l.req.by) \in Token
      /\ n + k = 0 \/ n + k <= l.req.length
  <2>1. l.pend \in Seq(Token)
    BY <1>2 DEF FillInv
  <2>2. k \in Nat
    BY <2>1
  <2>3. c \in Nat /\ c <= k
    BY <2>2
  <2> QED
    BY <1>2, <2>2, <2>3, RequestAssumption, Tokens DEF FillInv
<1>4. Wrote(l, n + c)
  BY <1>1, <1>2, <1>3, FlushWrites
<1>5. TreeInv' /\ Evolves /\ Len(disk') = Len(disk)
  BY <1>4 DEF Wrote
<1>6. LookInv(l)' /\ r.req = l.req
  BY <1>1, <1>2, <1>5, LookStays DEF SameLook
<1>7. r.pc # "done" => FillInv(r)'
  <2> SUFFICES ASSUME r.pc # "done"
               PROVE  FillInv(r)'
    OBVIOUS
  <2> DEFINE g == [f EXCEPT !.off = @ + c]
  <2>1. DOMAIN g = {"ino", "off"} /\ g.ino = l.ino /\ g.off = f.off + c
    BY <1>3
  <2>2. r.open[1] = g
    OBVIOUS
  <2> HIDE DEF g
  <2>3. g.off - l.req.at = n + c /\ g.off \in Nat /\ n + c \in Nat
    <3>1. f.off \in Nat /\ n = f.off - l.req.at
      BY <1>3
    <3>2. l.req.at \in Nat /\ c \in Nat /\ n \in Nat
      BY <1>3
    <3> HIDE DEF f, n
    <3> QED
      BY <2>1, <3>1, <3>2
  <2>4. /\ r.pend \in Seq(Token) /\ \A i \in 1 .. Len(r.pend) : r.pend[i] = Byte(l.req.by)
        /\ Len(r.pend) \in {0, 1} /\ c + Len(r.pend) <= k
    <3>1. CASE r.pend = <<>>
      <4> HIDE DEF k
      <4> QED
        BY <1>3, <3>1
    <3>2. CASE r.pend = <<Byte(l.req.by)>> /\ c < k
      <4>1. Len(r.pend) = 1 /\ r.pend[1] = Byte(l.req.by) /\ r.pend \in Seq(Token)
        BY <1>3, <3>2
      <4> HIDE DEF k
      <4> QED
        BY <1>3, <3>2, <4>1
    <3> QED
      BY <3>1, <3>2
  <2>5. (n + c) + Len(r.pend) = 0 \/ (n + c) + Len(r.pend) <= l.req.length
    <3>1. /\ l.req.length \in Int /\ n \in Nat /\ k \in Nat /\ c \in Nat
          /\ n + k = 0 \/ n + k <= l.req.length
      BY <1>3
    <3>2. Len(r.pend) \in Nat /\ c + Len(r.pend) <= k
      BY <2>4
    <3> DEFINE m == Len(r.pend)
               length == l.req.length
    <3>3. m \in Nat /\ c + m <= k /\ length \in Int /\ (n + k = 0 \/ n + k <= length)
      BY <3>1, <3>2
    <3> HIDE DEF n, k, m, length
    <3>4. (n + c) + m = 0 \/ (n + c) + m <= length
      BY <3>1, <3>3, StillFits
    <3> QED
      BY <3>4 DEF m, length
  <2>6. ~ r.rival => disk'[r.ino].data = Part(r.req, n + c)
    BY <1>4, <1>6 DEF Wrote
  <2>7. r.req = l.req /\ r.ino = l.ino /\ l.ino # 0
    BY <1>2, <1>6
  <2>8. DOMAIN r.open[1] = {"ino", "off"} /\ r.open[1].ino = r.ino
    BY <1>3, <2>1, <2>2, <2>7
  <2>9. r.open[1].off \in Nat /\ r.open[1].off - r.req.at = n + c /\ r.open[1].off - r.req.at \in Nat
    BY <2>2, <2>3, <2>7
  <2> HIDE DEF n, k, f
  <2>10. /\ r.pend \in Seq(Token) /\ \A i \in 1 .. Len(r.pend) : r.pend[i] = Byte(r.req.by)
    BY <2>4, <2>7
  <2>11. LET m == (r.open[1].off - r.req.at) + Len(r.pend) IN m = 0 \/ m <= r.req.length
    BY <2>5, <2>7, <2>9
  <2>12. ~ r.rival => disk'[r.ino].data = Part(r.req, r.open[1].off - r.req.at)
    BY <2>6, <2>9
  <2> QED
    BY <2>7, <2>8, <2>9, <2>10, <2>11, <2>12 DEF FillInv
<1>8. r.pc = "done" /\ ~ r.rival /\ Stored(r) => Held(r)'
  <2> SUFFICES ASSUME r.pc = "done", ~ r.rival, Stored(r)
               PROVE  \E m \in {0} \cup (1 .. r.req.length) :
                        disk'[r.ino].data = Part(r.req, m) /\ (r.fault \/ m >= r.req.length)
    BY DEF Held
  <2>1. disk'[r.ino].data = Part(r.req, n + c)
    BY <1>4, <1>6 DEF Wrote
  <2>2. n + c \in {0} \cup (1 .. r.req.length)
    <3> HIDE DEF n, k
    <3> QED
      BY <1>3, <1>6
  <2>3. r.fault \/ n + c >= r.req.length
    <3> SUFFICES ASSUME ~ r.fault
                 PROVE  n + c >= r.req.length
      OBVIOUS
    <3>1. c = k /\ ~ (Taken(l) < l.req.length)
      OBVIOUS
    <3>2. Taken(l) = f.off + (k - l.req.at)
      BY DEF Taken
    <3>3. /\ f.off \in Nat /\ n = f.off - l.req.at /\ k \in Nat
          /\ l.req.at \in Nat /\ l.req.length \in Int
      BY <1>3
    <3>4. r.req.length = l.req.length
      BY <1>6
    <3> HIDE DEF f, n, k
    <3> QED
      BY <3>1, <3>2, <3>3, <3>4
  <2> HIDE DEF n
  <2> QED
    BY <2>1, <2>2, <2>3
<1>9. HandlerInv(r)'
  BY <1>2, <1>5, <1>6, <1>7, <1>8, Stores
<1>10. \A d \in copies' : CopyInv(d)'
  BY <1>1, <1>5, CopyStays
<1>11. ASSUME NEW u \in Worker \ {w}, local[u].ino # 0, ~ local[u].rival
       PROVE  disk'[local[u].ino] = disk[local[u].ino]
  <2>1. local[u].ino # l.ino
    BY <1>2, <1>11 DEF KnowInv, RivalInv
  <2>2. \A j \in 1 .. Len(disk) : j # l.ino => disk'[j] = disk[j]
    BY <1>4 DEF Wrote
  <2> DEFINE j == local[u].ino
             m == Len(disk)
  <2>3. j \in 0 .. m /\ j # 0
    BY <1>11 DEF KnowInv, HandlerInv, PutInv
  <2>4. m \in Nat
    BY <1>1 DEF TreeInv, TreeType
  <2>5. j # l.ino /\ \A i \in 1 .. m : i # l.ino => disk'[i] = disk[i]
    BY <2>1, <2>2
  <2> HIDE DEF j, m
  <2>6. j \in 1 .. m
    BY <2>3, <2>4
  <2>7. disk'[j] = disk[j]
    BY <2>5, <2>6
  <2> QED
    BY <2>7 DEF j
<1> QED
  BY <1>5, <1>9, <1>10, <1>11, OneActs

\* stdio writes its buffer when it is full, and the rest when the file is closed; either may fail.
LEMMA SpillKnows ==
  ASSUME IInv, KnowInv, NEW w \in Worker, Spill(w) \/ SpillFail(w) \/ PutClose(w) \/ CloseFail(w)
  PROVE  KnowInv'
<1>1. PICK l : l = local[w]
  OBVIOUS
<1>2. HandlerInv(l) /\ Orderly(l) /\ DOMAIN l = Fields /\ UNCHANGED <<fs, now, copies>>
  BY <1>1 DEF KnowInv, IInv, Orderly, Spill, SpillFail, PutClose, CloseFail
<1>3. ASSUME l.pc \in {"body", "flush"}
      PROVE  /\ FillInv(l) /\ Len(l.pend) \in Nat
             /\ l.pc = "body" => l.answers = <<>>
             /\ l.pc = "flush" => /\ l.answers[1].status \notin {304, 500}
                                  /\ Stored(l) => l.fault \/ ~ (Taken(l) < l.req.length)
  <2>1. FillInv(l)
    BY <1>2, <1>3 DEF HandlerInv, PutInv
  <2>2. l.pend \in Seq(Token)
    BY <2>1 DEF FillInv
  <2>3. Len(l.pend) \in Nat
    BY <2>2
  <2> QED
    BY <1>2, <1>3, <2>1, <2>3 DEF HandlerInv, PutInv, ReadInv, Orderly
<1>4. CASE Spill(w)
  <2> DEFINE a == [l EXCEPT !.pend = <<>>, !.open[1].off = @ + Len(l.pend)]
  <2>1. l.pc = "body" /\ Flush(l, Len(l.pend)) /\ Set(w, a)
    BY <1>1, <1>4 DEF Spill
  <2>2. PICK f : l.open = <<f>>
    BY <1>2, <2>1 DEF Orderly
  <2>3. /\ a.pc = "body" /\ SameLook(a, l) /\ a.todo = l.todo /\ a.announced = l.announced
        /\ a.ino = l.ino /\ a.rival = l.rival /\ a.pend = <<>>
        /\ a.open = [l.open EXCEPT ![1] = [l.open[1] EXCEPT !.off = @ + Len(l.pend)]]
    BY <1>2, <2>1 DEF Fields, SameLook
  <2> HIDE DEF a
  <2>4. a.open = <<[l.open[1] EXCEPT !.off = @ + Len(l.pend)]>>
    BY <2>2, <2>3
  <2>5. Len(l.pend) \in 0 .. Len(l.pend)
    BY <1>3, <2>1
  <2> QED
    BY <1>1, <1>2, <2>1, <2>3, <2>4, <2>5, FlushKnows
<1>5. CASE SpillFail(w)
  <2>1. PICK c \in 0 .. Len(l.pend) - 1, late \in {<<>>, <<Byte(l.req.by)>>} :
          LET cut == [l EXCEPT !.pend = late, !.open[1].off = @ + c, !.fault = TRUE]
          IN /\ Flush(l, c)
             /\ Set(w, [(IF Taken(l) <= l.req.early /\ l.req.length <= l.req.early
                         THEN Success(cut) ELSE HttpError(cut, 577)) EXCEPT !.pc = "flush"])
    <3>1. \E c \in 0 .. Len(l.pend) - 1 :
            \E late \in IF Taken(l) <= l.req.early /\ l.req.early < l.req.length
                        THEN {<<>>, <<Byte(l.req.by)>>} ELSE {<<>>} :
              LET cut == [l EXCEPT !.pend = late, !.open[1].off = @ + c, !.fault = TRUE]
              IN /\ Flush(l, c)
                 /\ Set(w, [(IF Taken(l) <= l.req.early /\ l.req.length <= l.req.early
                             THEN Success(cut) ELSE HttpError(cut, 577)) EXCEPT !.pc = "flush"])
      BY <1>1, <1>5 DEF SpillFail
    <3> QED
      BY <3>1
  <2> DEFINE cut == [l EXCEPT !.pend = late, !.open[1].off = @ + c, !.fault = TRUE]
             b(s, framed) == [Answer(cut, s, framed) EXCEPT !.pc = "flush"]
  <2>2. l.pc = "body"
    BY <1>1, <1>5 DEF SpillFail
  <2>3. PICK s \in {200, 201, 206, 577}, framed \in BOOLEAN : Set(w, b(s, framed))
    <3>1. \/ Set(w, [Success(cut) EXCEPT !.pc = "flush"])
          \/ Set(w, [HttpError(cut, 577) EXCEPT !.pc = "flush"])
      BY <2>1
    <3> HIDE DEF cut
    <3> DEFINE z == IF cut.req.at > 0 THEN 206 ELSE Done(cut)
    <3>2. z \in {200, 201, 206, 577}
      BY DEF Done
    <3>3. Set(w, b(z, FALSE)) \/ Set(w, b(577, TRUE))
      BY <3>1 DEF Success, HttpError
    <3> HIDE DEF z, b
    <3>4. CASE Set(w, b(z, FALSE))
      <4>1. \E framed \in BOOLEAN : Set(w, b(z, framed))
        <5> FALSE \in BOOLEAN
          OBVIOUS
        <5> QED
          BY <3>4, Zenon
      <4> DEFINE S == {200, 201, 206, 577}
      <4>2. z \in S
        BY <3>2
      <4> HIDE DEF S
      <4>3. \E s \in S, framed \in BOOLEAN : Set(w, b(s, framed))
        BY <4>1, <4>2, Zenon
      <4> QED
        BY <4>3, Zenon DEF S
    <3>5. CASE Set(w, b(577, TRUE))
      <4>1. \E framed \in BOOLEAN : Set(w, b(577, framed))
        <5> TRUE \in BOOLEAN
          OBVIOUS
        <5> QED
          BY <3>5, Zenon
      <4> QED
        BY <4>1, Zenon
    <3> QED
      BY <3>3, <3>4, <3>5
  <2>4. PICK f : l.open = <<f>>
    BY <1>2, <2>2 DEF Orderly
  <2>5. /\ DOMAIN cut = Fields /\ SameLook(cut, l) /\ cut.todo = l.todo /\ cut.announced = l.announced
        /\ cut.ino = l.ino /\ cut.rival = l.rival /\ cut.pend = late /\ cut.fault /\ cut.answers = l.answers
        /\ cut.open = [l.open EXCEPT ![1] = [l.open[1] EXCEPT !.off = @ + c]]
    BY <1>2 DEF Fields, SameLook
  <2> HIDE DEF cut
  <2>6. cut.open = <<[l.open[1] EXCEPT !.off = @ + c]>>
    BY <2>4, <2>5
  <2> DEFINE x == [status |-> s, framed |-> framed]
             o == Answer(cut, s, framed)
             r == b(s, framed)
  <2>7. /\ DOMAIN o = Fields /\ SameLook(o, cut) /\ o.todo = cut.todo /\ o.announced = cut.announced
        /\ o.ino = cut.ino /\ o.rival = cut.rival /\ o.open = cut.open /\ o.pend = cut.pend /\ o.fault = cut.fault
        /\ o.answers = Append(cut.answers, x)
    BY <2>5 DEF Answer, Fields, SameLook
  <2>8. Append(cut.answers, x)[1] = x /\ x.status = s
    BY <1>3, <2>2, <2>5
  <2> HIDE DEF o, x
  <2>9. /\ r.pc = "flush" /\ SameLook(r, o) /\ r.todo = o.todo /\ r.announced = o.announced
        /\ r.ino = o.ino /\ r.rival = o.rival /\ r.open = o.open /\ r.pend = o.pend /\ r.fault = o.fault
        /\ r.answers = o.answers
    BY <2>7 DEF Fields, SameLook, o
  <2>10. Set(w, r)
    BY <2>3
  <2> HIDE DEF r
  <2>11. SameLook(r, l) /\ r.answers[1].status \notin {304, 500}
    BY <2>3, <2>5, <2>7, <2>8, <2>9 DEF SameLook
  <2>12. c \in 0 .. Len(l.pend) /\ c < Len(l.pend)
    BY <1>3, <2>2
  <2>13. /\ r.todo = l.todo /\ r.announced = l.announced /\ r.ino = l.ino /\ r.rival = l.rival
         /\ r.pc = "flush" /\ r.fault
    BY <2>5, <2>7, <2>9
  <2>14. r.open = <<[l.open[1] EXCEPT !.off = @ + c]>>
    BY <2>6, <2>7, <2>9
  <2>15. r.pend = <<>> \/ (r.pend = <<Byte(l.req.by)>> /\ c < Len(l.pend))
    BY <2>5, <2>7, <2>9, <2>12
  <2>16. Flush(l, c)
    BY <2>1
  <2>17. UNCHANGED <<fs, now, copies>>
    BY <1>2
  <2>18. r.pc \in {"body", "flush", "done"} /\ r.pc # "done" /\ l.pc \in {"body", "flush"}
    BY <2>2, <2>13
  <2> QED
    BY <1>1, <2>10, <2>11, <2>12, <2>13, <2>14, <2>15, <2>16, <2>17, <2>18, FlushKnows
<1>6. CASE PutClose(w)
  <2> DEFINE a == [l EXCEPT !.pc = "done", !.pend = <<>>, !.open = <<>>]
  <2>1. PICK c : c = Len(l.pend)
    OBVIOUS
  <2>2. l.pc = "flush" /\ Flush(l, c) /\ Set(w, a)
    BY <1>1, <1>6, <2>1 DEF PutClose
  <2>3. /\ a.pc = "done" /\ SameLook(a, l) /\ a.todo = l.todo /\ a.announced = l.announced
        /\ a.ino = l.ino /\ a.rival = l.rival /\ a.answers = l.answers /\ a.fault = l.fault
    BY <1>2 DEF Fields, SameLook
  <2> HIDE DEF a
  <2>4. c \in 0 .. Len(l.pend)
    BY <1>3, <2>1, <2>2
  <2>5. a.answers[1].status \notin {304, 500}
    BY <1>3, <2>2, <2>3
  <2>6. ~ a.fault /\ Stored(a) => ~ (Taken(l) < l.req.length) /\ c = Len(l.pend)
    BY <1>3, <2>1, <2>2, <2>3 DEF Stored
  <2>7. UNCHANGED <<fs, now, copies>>
    BY <1>2
  <2>8. a.pc \in {"body", "flush", "done"} /\ ~ (a.pc # "done") /\ a.pc # "flush" /\ l.pc \in {"body", "flush"}
    BY <2>2, <2>3
  <2> QED
    BY <1>1, <2>2, <2>3, <2>4, <2>5, <2>6, <2>7, <2>8, FlushKnows, ZenonT(60)
<1>7. CASE CloseFail(w)
  <2> DEFINE a == [l EXCEPT !.pc = "done", !.pend = <<>>, !.open = <<>>, !.fault = TRUE]
  <2>1. PICK c \in 0 .. Len(l.pend) - 1 : Flush(l, c)
    BY <1>1, <1>7 DEF CloseFail
  <2>2. l.pc = "flush" /\ Set(w, a)
    BY <1>1, <1>7 DEF CloseFail
  <2>3. /\ a.pc = "done" /\ SameLook(a, l) /\ a.todo = l.todo /\ a.announced = l.announced
        /\ a.ino = l.ino /\ a.rival = l.rival /\ a.answers = l.answers /\ a.fault
    BY <1>2 DEF Fields, SameLook
  <2> HIDE DEF a
  <2>4. c \in 0 .. Len(l.pend)
    BY <1>3, <2>2
  <2>5. a.answers[1].status \notin {304, 500}
    BY <1>3, <2>2, <2>3
  <2>6. UNCHANGED <<fs, now, copies>>
    BY <1>2
  <2>7. a.pc \in {"body", "flush", "done"} /\ ~ (a.pc # "done") /\ a.pc # "flush" /\ l.pc \in {"body", "flush"}
    BY <2>2, <2>3
  <2> QED
    BY <1>1, <2>1, <2>2, <2>3, <2>4, <2>5, <2>6, <2>7, FlushKnows
<1> QED
  BY <1>4, <1>5, <1>6, <1>7

\* A PUT takes a byte of its body, has all of it, or loses its client.
LEMMA BodyKnows ==
  ASSUME IInv, KnowInv, NEW w \in Worker, PutBody(w) \/ PutLost(w)
  PROVE  KnowInv'
<1>1. TreeInv /\ HandlerInv(local[w]) /\ Orderly(local[w]) /\ \A c \in copies : CopyInv(c)
  BY DEF KnowInv, IInv
<1>2. PICK l : l = local[w]
  OBVIOUS
<1> DEFINE more == Taken(l) < l.req.length
           status == IF l.req.at > 0 THEN 206 ELSE Done(l)
           a == [l EXCEPT !.pend = Append(@, Byte(l.req.by))]
           b(s, framed) == [Answer(l, s, framed) EXCEPT !.pc = "flush"]
<1>3. /\ HandlerInv(l) /\ Orderly(l) /\ DOMAIN l = Fields /\ l.pc = "body" /\ UNCHANGED <<tree, now, copies>>
      /\ \/ more /\ Set(w, a)
         \/ ~ more /\ Set(w, b(status, FALSE))
         \/ Set(w, b(577, TRUE))
  <2>1. HandlerInv(l) /\ Orderly(l) /\ DOMAIN l = Fields
    BY <1>1, <1>2 DEF Orderly
  <2>2. CASE PutBody(w)
    BY <1>2, <2>1, <2>2 DEF PutBody, Success
  <2>3. CASE PutLost(w)
    BY <1>2, <2>1, <2>3 DEF PutLost, HttpError
  <2> QED
    BY <2>2, <2>3
<1>4. /\ LookInv(l) /\ PutInv(l) /\ FillInv(l) /\ l.announced = -1 /\ l.req \in Request
      /\ l.ino \in 0 .. Len(disk) /\ l.answers = <<>>
  BY <1>3 DEF HandlerInv, LookInv, PutInv, ReadInv, Orderly
<1>5. TreeInv' /\ Evolves /\ disk' = disk
  BY <1>1, <1>3, TreeStays DEF tree
<1>6. LookInv(l)'
  BY <1>1, <1>4, <1>5, LookStays
<1>7. ASSUME NEW r, Set(w, r), HandlerInv(r)', r.ino = l.ino, r.rival = l.rival
      PROVE  KnowInv'
  <2>1. \A c \in copies' : CopyInv(c)'
    BY <1>1, <1>3, <1>5, CopyStays
  <2> QED
    BY <1>2, <1>5, <1>7, <2>1, OneActs
<1>8. CASE more /\ Set(w, a)
  <2>1. /\ a.pc = "body" /\ SameLook(a, l) /\ a.todo = l.todo /\ a.announced = l.announced /\ a.ino = l.ino
        /\ a.rival = l.rival /\ a.open = l.open /\ a.pend = Append(l.pend, Byte(l.req.by))
    BY <1>3 DEF Fields, SameLook
  <2> HIDE DEF a
  <2> DEFINE f == l.open[1]
             n == f.off - l.req.at
             k == Len(l.pend)
  <2>2. /\ DOMAIN f = {"ino", "off"} /\ l.ino # 0 /\ f.ino = l.ino /\ f.off \in Nat /\ n \in Nat
        /\ l.pend \in Seq(Token) /\ (\A i \in 1 .. k : l.pend[i] = Byte(l.req.by))
        /\ ~ l.rival => disk[l.ino].data = Part(l.req, n)
    BY <1>4 DEF FillInv
  <2>3. /\ l.req.at \in Nat /\ l.req.length \in Int /\ Byte(l.req.by) \in Token
    BY <1>4, RequestAssumption, Tokens
  <2>4. /\ a.pend \in Seq(Token) /\ Len(a.pend) = k + 1 /\ a.pend[k + 1] = Byte(l.req.by) /\ k \in Nat
        /\ \A i \in 1 .. k : a.pend[i] = l.pend[i]
    BY <2>1, <2>2, <2>3, AppendProperties
  <2>5. \A i \in 1 .. Len(a.pend) : a.pend[i] = Byte(l.req.by)
    <3> HIDE DEF k
    <3>1. \A i \in 1 .. k + 1 : i \in 1 .. k \/ i = k + 1
      <4>1. k \in Nat
        BY <2>4
      <4> QED
        BY <4>1
    <3> QED
      BY <2>2, <2>4, <3>1
  <2>6. n + Len(a.pend) <= l.req.length
    <3>1. Taken(l) = n + k
      BY <2>2, <2>3, <2>4 DEF Taken
    <3> HIDE DEF n, k
    <3>2. n + k < l.req.length
      BY <1>8, <3>1
    <3> QED
      BY <2>2, <2>3, <2>4, <3>2
  <2>7. FillInv(a)'
    <3>1. /\ a.req = l.req /\ a.open[1] = f
      BY <2>1 DEF SameLook
    <3> HIDE DEF n, f
    <3>2. /\ DOMAIN a.open[1] = {"ino", "off"} /\ a.ino # 0 /\ a.open[1].ino = a.ino
          /\ a.open[1].off \in Nat /\ a.open[1].off - a.req.at = n /\ n \in Nat
      BY <2>1, <2>2, <3>1 DEF n
    <3>3. ~ a.rival => disk'[a.ino].data = Part(a.req, n)
      BY <1>5, <2>1, <2>2, <3>1
    <3> QED
      BY <2>4, <2>5, <2>6, <3>1, <3>2, <3>3 DEF FillInv
  <2>8. HandlerInv(a)'
    BY <1>4, <1>5, <1>6, <2>1, <2>7, Stores
  <2> QED
    BY <1>7, <1>8, <2>1, <2>8
<1>9. ASSUME NEW s, NEW framed \in BOOLEAN, s \notin {304, 500}, s \in {200, 201, 206} => ~ more,
             Set(w, b(s, framed))
      PROVE  KnowInv'
  <2> DEFINE x == [status |-> s, framed |-> framed]
             o == Answer(l, s, framed)
             r == b(s, framed)
  <2>1. /\ DOMAIN o = Fields /\ SameLook(o, l) /\ o.todo = l.todo /\ o.announced = l.announced
        /\ o.ino = l.ino /\ o.rival = l.rival /\ o.open = l.open /\ o.pend = l.pend
        /\ o.answers = Append(l.answers, x)
    BY <1>3 DEF Answer, Fields, SameLook
  <2>2. Append(l.answers, x)[1] = x /\ x.status = s
    BY <1>4
  <2> HIDE DEF o, x
  <2>3. /\ r.pc = "flush" /\ SameLook(r, l) /\ r.todo = l.todo /\ r.announced = l.announced
        /\ r.ino = l.ino /\ r.rival = l.rival /\ r.open = l.open /\ r.pend = l.pend /\ r.answers = o.answers
    BY <2>1 DEF Fields, SameLook, o
  <2> HIDE DEF r
  <2>4. r.answers[1].status = s
    BY <2>1, <2>2, <2>3
  <2>5. FillInv(r)'
    <3>1. r.req = l.req
      BY <2>3 DEF SameLook
    <3> QED
      BY <1>4, <1>5, <2>3, <3>1 DEF FillInv
  <2>6. Stored(r) => ~ (Taken(r) < r.req.length)
    <3>1. Taken(r) = Taken(l) /\ r.req = l.req
      BY <2>3 DEF Taken, SameLook
    <3> QED
      BY <1>9, <2>4, <3>1 DEF Stored
  <2>7. HandlerInv(r)'
    BY <1>4, <1>5, <1>6, <1>9, <2>3, <2>4, <2>5, <2>6, Stores
  <2>8. Set(w, r)
    BY <1>9 DEF r
  <2> QED
    BY <1>7, <2>3, <2>7, <2>8
<1>10. CASE ~ more /\ Set(w, b(status, FALSE))
  <2>1. status \in {200, 201, 206}
    BY DEF Done
  <2> HIDE DEF status, b, more
  <2>2. status \notin {304, 500} /\ FALSE \in BOOLEAN
    BY <2>1
  <2> QED
    BY <1>9, <1>10, <2>2
<1>11. CASE Set(w, b(577, TRUE))
  <2>1. ASSUME NEW s, s = 577, Set(w, b(s, TRUE))
        PROVE  KnowInv'
    <3> HIDE DEF b, more
    <3>1. s \notin {304, 500} /\ (s \in {200, 201, 206} => ~ more)
      BY <2>1
    <3>2. TRUE \in BOOLEAN /\ Set(w, b(s, TRUE))
      BY <2>1
    <3> HIDE <2>1
    <3> QED
      BY <1>9, <3>1, <3>2
  <2> HIDE DEF b
  <2> QED
    BY <1>11, <2>1
<1> QED
  BY <1>3, <1>8, <1>10, <1>11

\* A file or an empty directory is removed.
LEMMA DeleteKnows ==
  ASSUME IInv, KnowInv, NEW w \in Worker, Delete(w)
  PROVE  KnowInv'
<1>1. TreeInv /\ HandlerInv(local[w]) /\ Orderly(local[w]) /\ \A c \in copies : CopyInv(c)
  BY DEF KnowInv, IInv
<1>2. PICK l : l = local[w]
  OBVIOUS
<1> DEFINE p == l.path
           ok == fs[p] # 0 /\ ~ \E q \in Path : Parent[q] = p /\ fs[q] # 0
<1>3. /\ HandlerInv(l) /\ Orderly(l) /\ DOMAIN l = Fields /\ l.pc = "DELETE" /\ UNCHANGED <<disk, now, copies>>
      /\ \/ ok /\ Set(w, HttpError(l, 200)) /\ fs' = [fs EXCEPT ![p] = 0] /\ changed' = Moments({p})
         \/ ~ ok /\ Set(w, HttpError(l, 500)) /\ UNCHANGED tree
  BY <1>1, <1>2 DEF Orderly, Delete, tree
<1>4. Fresh(l) /\ l.answers = <<>> /\ l.path \in Path /\ l.req.method # "PUT" /\ l.ino = 0
  BY <1>3 DEF Fresh, Orderly, Before, HandlerInv, LookInv, PutInv, Serving
<1>5. ASSUME NEW status \in {200, 500}
      PROVE  Clear(HttpError(l, status))
  <2>1. AnswerMay(l, status)
    BY <1>4 DEF AnswerMay
  <2> QED
    BY <1>3, <1>4, <2>1, KnowsWhenFramed
<1>6. CASE ok /\ Set(w, HttpError(l, 200)) /\ fs' = [fs EXCEPT ![p] = 0] /\ changed' = Moments({p})
  <2>1. TreeInv' /\ Evolves
    BY <1>1, <1>3, <1>4, <1>6, Removes
  <2>2. PICK r : r = HttpError(l, 200)
    OBVIOUS
  <2>3. Clear(HttpError(l, 200))
    BY <1>5
  <2>4. HandlerInv(r) /\ r.ino = 0
    BY <2>2, <2>3 DEF Clear
  <2>5. HandlerInv(r)'
    BY <1>1, <1>3, <2>1, <2>4, HandlerStays
  <2>6. \A c \in copies' : CopyInv(c)'
    BY <1>1, <1>3, <2>1, CopyStays
  <2>7. Set(w, r)
    BY <1>6, <2>2
  <2> QED
    BY <1>3, <2>1, <2>4, <2>5, <2>6, <2>7, OneActs
<1>7. CASE ~ ok /\ Set(w, HttpError(l, 500)) /\ UNCHANGED tree
  <2>1. Clear(HttpError(l, 500))
    BY <1>5
  <2> QED
    BY <1>3, <1>7, <2>1, QuietClear
<1> QED
  BY <1>3, <1>6, <1>7

\* A worker that is idle knows nothing.
LEMMA BlankKnows ==
  ASSUME TreeInv
  PROVE  Clear(Blank)
<1>1. /\ Blank.pc = "idle" /\ Blank.announced = -1 /\ Blank.body = <<>> /\ Blank.ino = 0 /\ Blank.pend = <<>>
  BY DEF Blank
<1>2. 0 \in 0 .. Len(disk)
  BY DEF TreeInv, TreeType
<1>3. ReadInv(Blank)
  BY <1>1 DEF ReadInv
<1>4. PutInv(Blank)
  BY <1>1, <1>2 DEF PutInv
<1> QED
  BY <1>1, <1>3, <1>4 DEF HandlerInv, Clear

\* Before the first request there is nothing to know.
LEMMA InitKnows ==
  ASSUME Init
  PROVE  KnowInv
<1>1. TreeInv
  BY InitTree
<1>2. Clear(Blank)
  BY <1>1, BlankKnows
<1>3. copies = {} /\ \A w \in Worker : local[w] = Blank
  BY DEF Init
<1>4. RivalInv
  BY <1>2, <1>3 DEF RivalInv, Clear
<1> QED
  BY <1>1, <1>2, <1>3, <1>4 DEF KnowInv, Clear

\* The clock goes on, or nothing happens.
LEMMA TickKnows ==
  ASSUME KnowInv, UNCHANGED <<tree, copies, local>>, now' \in {now, now + 1}
  PROVE  KnowInv'
<1>1. TreeInv /\ TreeInv' /\ Evolves /\ disk' = disk
  BY TreeStays DEF KnowInv, tree
<1>2. ASSUME NEW w \in Worker
      PROVE  HandlerInv(local[w])'
  <2>1. PICK l : l = local[w]
    OBVIOUS
  <2>2. HandlerInv(l)
    BY <2>1 DEF KnowInv
  <2>3. HandlerInv(l)'
    BY <1>1, <2>2, HandlerStays
  <2> QED
    BY <2>1, <2>3
<1>3. \A c \in copies' : CopyInv(c)'
  BY <1>1, CopyStays DEF KnowInv
<1>4. RivalInv'
  BY DEF KnowInv, RivalInv
<1> QED
  BY <1>1, <1>2, <1>3, <1>4 DEF KnowInv

\* What is known of the tree is true in every reachable state.
THEOREM Knowledge == Spec => [](IInv /\ KnowInv)
<1>1. Init => KnowInv
  BY InitKnows
<1>2. IInv /\ KnowInv /\ [Next]_vars => KnowInv'
  <2> SUFFICES ASSUME IInv, KnowInv, [Next]_vars
               PROVE  KnowInv'
    OBVIOUS
  <2>1. CASE Tick \/ UNCHANGED vars
    <3>1. UNCHANGED <<tree, copies, local>> /\ now' \in {now, now + 1}
      BY <2>1 DEF Tick, vars, tree
    <3> QED
      BY <3>1, TickKnows
  <2>2. ASSUME NEW w \in Worker, Return(w)
        PROVE  KnowInv'
    <3>1. Set(w, Blank) /\ UNCHANGED <<tree, now, copies>>
      BY <2>2 DEF Return
    <3>2. Clear(Blank)
      BY BlankKnows DEF KnowInv
    <3> QED
      BY <3>1, <3>2, QuietClear
  <2> QED
    BY <2>1, <2>2, RoutingKnows, SendingKnows, IncludingKnows, AboveKnows, MkdirKnows, OpenKnows,
       SpillKnows, BodyKnows, DeleteKnows, RefuseKnows DEF Next
<1> QED
  BY <1>1, <1>2, Invariance, PTL DEF Spec

\* For any tree, requests and workers, however the requests interleave: a GET's body is what the
\* length and the range it was announced with say, if the file was left alone meanwhile, and it is
\* never longer than announced (handle_file_request, 2747).
THEOREM BodiesExplained == Spec => []BodyExplained
<1>1. KnowInv => BodyExplained
  <2> SUFFICES ASSUME KnowInv, NEW w \in Worker, Ended(w), local[w].announced # -1, local[w].req.method = "GET"
               PROVE  Explained(local[w])
    BY DEF BodyExplained, Explained
  <2> QED
    BY DEF KnowInv, HandlerInv, ReadInv, Ended
<1> QED
  BY <1>1, Knowledge, PTL

\* A client that is told its copy is current has what the file was when the handler looked, unless
\* the file was changed again in the second that its tag and date name (is_not_modified, 2939).
THEOREM NotModifiedIsHonest == Spec => []NotModifiedHonest
<1>1. KnowInv => NotModifiedHonest
  <2> SUFFICES ASSUME KnowInv, NEW w \in Worker, Ended(w), Status(w) = 304, local[w].copy.path = local[w].path
               PROVE  Honest(local[w])
    BY DEF NotModifiedHonest, Honest
  <2> QED
    BY DEF KnowInv, HandlerInv, ReadInv, Ended, Status
<1> QED
  BY <1>1, Knowledge, PTL

\* A PUT that is answered 2xx has stored its body from the first byte on, all of it unless a write
\* failed that the answer does not tell of, if no other request wrote to the same file; one that is
\* answered 500 met something in its way, a change to a path on its way, or a call that was refused
\* (put_file, put_dir, forward_body_data; 2976, 3333, 3347, 3360, 3375).
THEOREM PutsExplained == Spec => []PutExplained
<1>1. KnowInv => PutExplained
  <2> SUFFICES ASSUME KnowInv, NEW w \in Worker, Ended(w), local[w].req.method = "PUT"
               PROVE  LET l == local[w]
                          p == l.path
                      IN /\ Status(w) \in {200, 201, 206} /\ l.ino # 0 /\ ~ l.rival => Held(l)
                         /\ Status(w) = 500 => Blamed(l) \/ l.fault
    BY DEF PutExplained, Held, Blamed
  <2> DEFINE l == local[w]
  <2>1. PutInv(l) /\ l.pc = "done"
    BY DEF KnowInv, HandlerInv, Ended
  <2> HIDE DEF l
  <2>2. l.ino # 0 /\ ~ l.rival /\ l.answers[1].status \in {200, 201, 206} => Held(l)
    BY <2>1 DEF PutInv, Stored
  <2>3. l.req.method = "PUT" /\ l.answers[1].status = 500 => Blamed(l) \/ l.fault
    BY <2>1 DEF PutInv
  <2> QED
    BY <2>2, <2>3 DEF Status, l
<1> QED
  BY <1>1, Knowledge, PTL

=============================================================================
