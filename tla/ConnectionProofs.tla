-------------------------- MODULE ConnectionProofs --------------------------
(***************************************************************************)
(* Proofs about Connection, for any buffer and any requests: the lengths   *)
(* stay in the buffer, the process dies in two ways only, a connection     *)
(* whose read failed with nothing left to read never serves again, the     *)
(* requests are answered in order, and a handler reads its own body.       *)
(***************************************************************************)
EXTENDS Connection, SequenceTheorems, WellFoundedInduction, TLAPS

Kinds == {"nul", "line", "control", "end", "body", "text"}
Token == [k : Kinds, r : Nat, i : Nat]
Reply == [r : Nat, why : {"ok", "unread", "malformed"}, length : Nat \cup {-1}]

\* The lengths of struct mg_connection.
Lengths ==
  /\ DOMAIN conn = {"buf", "data_len", "request_len", "content_len", "consumed", "must_close",
                    "status", "info", "user"}
  /\ pc \in PC
  /\ conn.data_len \in 0 .. BufSize + 1 /\ (pc # "dead" => conn.data_len <= BufSize)
  /\ conn.request_len \in -1 .. BufSize /\ conn.content_len \in Nat \cup {-1}
  /\ conn.info.at \in 0 .. BufSize
  /\ pc = "parse" => conn.request_len \in 1 .. conn.data_len

\* What was received, and is still on its way, was sent on this connection.
Sourced ==
  /\ sent \in Seq(Shape) /\ net \in Seq(Token) /\ conn.buf \in [1 .. BufSize -> Token]
  /\ \A i \in 1 .. Len(net) : net[i].r \in 1 .. Len(sent)
  /\ \A i \in 1 .. BufSize : i <= conn.data_len /\ conn.buf[i].k = "line" => conn.buf[i].r \in 1 .. Len(sent)
  /\ answers \in Seq(Reply)

\* A user that was freed is forgotten by the next head, so only a failed read finds it.
Freed ==
  /\ pc \in {"check", "handle", "body", "answer"} => conn.user # "freed" /\ conn.request_len > 0
  /\ pc = "failed" => conn.user # "freed" \/ conn.request_len <= 0
  /\ pc = "finish" =>
       /\ conn.user # "freed" \/ conn.request_len <= 0
       /\ conn.request_len <= 0 => \E j \in 1 .. Len(answers) : answers[j].why = "unread"

\* The buffer will never hold a head again: it begins with a NUL, or is full without one.
Stuck == \/ conn.data_len >= 1 /\ conn.buf[1].k = "nul"
         \/ conn.data_len = BufSize /\ RequestLen(conn.buf, conn.data_len) <= 0

\* A read has failed with nothing left to read.
Failing == \E i \in 1 .. Len(answers) : answers[i].why = "unread" /\ answers[i].length = 0

Fatal == Failing =>
  /\ conn.content_len = 0
  /\ pc \in {"getreq", "read", "failed", "finish", "idle", "dead"}
  /\ pc \in {"getreq", "read", "failed"} => Stuck
  /\ pc \in {"failed", "finish"} => conn.request_len <= 0

\* A buffer that is full without a head stays so.
Kept == pc \in {"failed", "finish"} /\ conn.request_len = 0 => Stuck

IInv == Lengths /\ Sourced /\ Freed /\ Fatal /\ Kept /\ DeathExplained /\ IdleIsFatal
-----------------------------------------------------------------------------
\* What SMT needs of the parameters, and of the struct.
LEMMA Sizes == BufSize \in Nat /\ BufSize >= 2
BY BufAssumption

\* A set of numbers has a least one.
LEMMA Least ==
  ASSUME NEW S \in SUBSET Nat, S # {}
  PROVE  \E i \in S : \A j \in S : i <= j
<1>1. PICK i \in S : \A j \in S : ~ (<<j, i>> \in OpToRel(<, Nat))
  BY WFMin, NatLessThanWellFounded, Zenon
<1>2. \A j \in S : ~ (j < i)
  BY <1>1 DEF OpToRel
<1> QED
  BY <1>2

\* get_request_len returns -1, or no more than it was given; behind a leading NUL it never
\* finds a head.
LEMMA RequestLenBounds ==
  ASSUME NEW buf, NEW len \in Nat
  PROVE  /\ RequestLen(buf, len) \in -1 .. len
         /\ len >= 1 /\ buf[1].k = "nul" => RequestLen(buf, len) <= 0
<1> DEFINE bad      == {i \in 1 .. len : buf[i].k \in {"control", "text"} \/ (buf[i].k = "nul" /\ i < len)}
           ends     == {i \in 1 .. len : buf[i].k = "end"}
           First(S) == CHOOSE i \in S : \A j \in S : i <= j
<1>1. RequestLen(buf, len) = IF bad # {} /\ (ends = {} \/ First(bad) < First(ends)) THEN -1
                             ELSE IF ends = {} THEN 0 ELSE First(ends)
  BY DEF RequestLen
<1>2. ASSUME NEW S \in SUBSET (1 .. len), S # {}
      PROVE  First(S) \in S /\ \A j \in S : First(S) <= j
  <2>1. S \in SUBSET Nat
    OBVIOUS
  <2>2. \E i \in S : \A j \in S : i <= j
    BY <1>2, <2>1, Least
  <2> QED
    BY <2>2
<1>3. bad \in SUBSET (1 .. len) /\ ends \in SUBSET (1 .. len)
  OBVIOUS
<1>4. bad # {} => First(bad) \in bad /\ \A j \in bad : First(bad) <= j
  BY <1>2, <1>3
<1>5. ends # {} => First(ends) \in ends
  BY <1>2, <1>3
<1>6. ASSUME len >= 1, buf[1].k = "nul"
      PROVE  1 \notin ends /\ (ends # {} => 1 \in bad)
  BY <1>6
<1> HIDE DEF bad, ends, First
<1>7. RequestLen(buf, len) \in -1 .. len
  <2>1. RequestLen(buf, len) = -1 \/ RequestLen(buf, len) = 0
        \/ (ends # {} /\ RequestLen(buf, len) = First(ends))
    BY <1>1
  <2>2. ends # {} => First(ends) \in 1 .. len
    BY <1>3, <1>5
  <2> QED
    BY <2>1, <2>2
<1>8. ASSUME len >= 1, buf[1].k = "nul"
      PROVE  RequestLen(buf, len) <= 0
  <2>1. CASE ends = {}
    BY <1>1, <2>1
  <2>2. CASE ends # {}
    <3>1. bad # {} /\ First(bad) <= 1 /\ First(bad) \in 1 .. len
      BY <1>3, <1>4, <1>6, <1>8, <2>2
    <3>2. First(ends) \in 1 .. len /\ First(ends) # 1
      BY <1>3, <1>5, <1>6, <1>8, <2>2
    <3> QED
      BY <1>1, <3>1, <3>2
  <2> QED
    BY <2>1, <2>2
<1> QED
  BY <1>7, <1>8

\* A client's tokens name its request.
LEMMA TokensOf ==
  ASSUME NEW s \in Shape, NEW r \in Nat
  PROVE  /\ Tokens(s, r) \in Seq(Token)
         /\ \A i \in 1 .. Len(Tokens(s, r)) : Tokens(s, r)[i].r = r
<1> DEFINE head == CASE s.head = "control" -> <<Tok("control", r, 1), Tok("end", r, 2)>>
                     [] s.head = "endless" -> [i \in 1 .. BufSize |-> Tok("line", r, i)]
                     [] OTHER              -> <<Tok("line", r, 1), Tok("end", r, 2)>>
           body == [i \in 1 .. s.body |-> Tok("body", r, i)]
           Mine(q) == q \in Seq(Token) /\ \A i \in 1 .. Len(q) : q[i].r = r
<1>1. s.body \in Nat
  BY ShapeAssumption
<1>2. \A k \in Kinds, i \in Nat : Tok(k, r, i) \in Token /\ Tok(k, r, i).r = r
  BY DEF Tok, Token
<1>3. Mine(body)
  BY <1>1, <1>2 DEF Kinds
<1>4. Mine(<<Tok("control", r, 1), Tok("end", r, 2)>>) /\ Mine(<<Tok("line", r, 1), Tok("end", r, 2)>>)
  BY <1>2 DEF Kinds
<1>5. Mine([i \in 1 .. BufSize |-> Tok("line", r, i)])
  BY <1>2, Sizes DEF Kinds
<1>6. Mine(head)
  BY <1>4, <1>5
<1>7. Tokens(s, r) = head \o body
  BY DEF Tokens
<1> HIDE DEF head, body
<1> QED
  BY <1>3, <1>6, <1>7

\* The initial state satisfies the invariant.
LEMMA InitInv ==
  ASSUME Init
  PROVE  IInv
<1> USE DEF Init
<1>1. Lengths
  BY Sizes DEF Lengths, PC
<1>2. Nul \in Token
  BY DEF Nul, Token, Kinds
<1>3. Sourced
  BY <1>2, Sizes DEF Sourced
<1>4. Freed /\ Fatal /\ Kept /\ DeathExplained /\ IdleIsFatal
  BY DEF Freed, Fatal, Failing, Kept, DeathExplained, IdleIsFatal
<1> QED
  BY <1>1, <1>3, <1>4 DEF IInv

-----------------------------------------------------------------------------
\* What is discarded is a part of the buffer, or one byte less than nothing.
LEMMA DiscardBounds ==
  ASSUME Lengths
  PROVE  /\ conn.data_len >= 0 /\ DiscardLen \in -1 .. conn.data_len
         /\ DiscardLen = -1 => conn.content_len = 0 /\ conn.request_len = -1
         /\ conn.content_len = 0 /\ conn.request_len = -1 => DiscardLen = -1
         /\ conn.content_len = 0 /\ conn.request_len = 0 => DiscardLen = 0
<1>1. conn.data_len \in Nat /\ conn.request_len \in Int /\ conn.request_len >= -1
      /\ conn.content_len \in Int /\ conn.content_len >= -1
  BY Sizes DEF Lengths
<1> QED
  BY <1>1 DEF DiscardLen

\* The end of a pass, field by field.
LEMMA FinishEffect ==
  ASSUME Lengths, Finish
  PROVE  /\ DOMAIN conn' = DOMAIN conn /\ pc = "finish"
         /\ conn'.buf = Moved(DiscardLen) /\ conn'.data_len = conn.data_len - DiscardLen
         /\ conn'.user = IF conn.user = "live" THEN "freed" ELSE conn.user
         /\ conn'.request_len = conn.request_len /\ conn'.content_len = conn.content_len
         /\ conn'.info = conn.info
         /\ pc' \in {"dead", "getreq", "idle"}
         /\ pc' = "dead" <=> conn.user = "freed" \/ conn.data_len - DiscardLen > BufSize
         /\ UNCHANGED <<net, sent, answers>>
<1> DEFINE d    == DiscardLen
           left == conn.data_len - d
<1>1. conn' = [conn EXCEPT !.buf = Moved(d), !.data_len = left,
                           !.user = IF conn.user = "live" THEN "freed" ELSE conn.user]
  BY DEF Finish, FinishWith
<1>2. /\ pc = "finish" /\ UNCHANGED <<net, sent, answers>>
      /\ pc' \in {"dead", "getreq", "idle"}
      /\ pc' = "dead" <=> conn.user = "freed" \/ left > BufSize
  BY DEF Finish, FinishWith, client
<1>3. DOMAIN conn = {"buf", "data_len", "request_len", "content_len", "consumed", "must_close",
                     "status", "info", "user"}
  BY DEF Lengths
<1> HIDE DEF d
<1>4. /\ DOMAIN conn' = DOMAIN conn
      /\ conn'.buf = Moved(d) /\ conn'.data_len = left
      /\ conn'.user = IF conn.user = "live" THEN "freed" ELSE conn.user
      /\ conn'.request_len = conn.request_len /\ conn'.content_len = conn.content_len
      /\ conn'.info = conn.info
  BY <1>1, <1>3
<1> QED
  BY <1>2, <1>4 DEF d

\* The head is parsed, or is malformed.
LEMMA ParseEffect ==
  ASSUME Lengths, Sourced, Parse
  PROVE  /\ DOMAIN conn' = DOMAIN conn /\ pc = "parse" /\ pc' \in {"check", "failed"}
         /\ conn'.buf = [conn.buf EXCEPT ![conn.request_len] = [conn.buf[conn.request_len] EXCEPT !.k = "text"]]
         /\ conn'.data_len = conn.data_len /\ conn'.request_len = conn.request_len
         /\ conn'.info.at = conn.request_len /\ conn'.user = "null"
         /\ conn'.content_len \in Nat \cup {-1}
         /\ UNCHANGED <<net, sent, answers>>
<1>1. conn.request_len \in 1 .. conn.data_len /\ conn.content_len \in Nat \cup {-1}
  BY DEF Parse, ParseWith, Lengths
<1>2. ASSUME AtHead
      PROVE  Current.body \in Nat
  <2>1. conn.buf[1].k = "line" /\ 1 <= conn.data_len
    BY <1>1, <1>2 DEF AtHead, Lengths
  <2>2. conn.buf[1].r \in 1 .. Len(sent)
    BY <2>1, Sizes DEF Sourced
  <2>3. Current \in Shape
    BY <2>2 DEF Current, Sourced
  <2> QED
    BY <2>3, ShapeAssumption
<1> DEFINE ok  == AtHead /\ Current.head = "ok"
           len == IF ~ ok THEN conn.content_len
                  ELSE IF Current.length THEN Current.body
                  ELSE IF Current.posts THEN -1 ELSE 0
<1>3. len \in Nat \cup {-1}
  BY <1>1, <1>2
<1> HIDE DEF ok
<1>4. conn'.content_len = len
  BY DEF Parse, ParseWith, Lengths, ok
<1> HIDE DEF len
<1> QED
  BY <1>3, <1>4 DEF Parse, ParseWith, Lengths, client

\* The lengths stay in the buffer.
LEMMA LengthsStep ==
  ASSUME Lengths, Sourced, [Next]_vars
  PROVE  Lengths'
<1> USE Sizes DEF Lengths, PC
<1>1. CASE (\E s \in Shape : Send(s)) \/ Leave \/ Stop \/ UNCHANGED vars
  BY <1>1 DEF Send, Leave, Stop, vars
<1>2. CASE Accept
  BY <1>2 DEF Accept
<1>3. CASE Getreq
  BY <1>3 DEF Getreq
<1>4. CASE Pull
  <2>1. PICK n \in 1 .. Smaller(Len(net), BufSize - conn.data_len) :
          /\ DOMAIN conn' = DOMAIN conn /\ conn'.data_len = conn.data_len + n
          /\ conn'.request_len = conn.request_len /\ conn'.content_len = conn.content_len
          /\ conn'.info = conn.info
    BY <1>4 DEF Pull
  <2>2. n \in Nat /\ conn.data_len + n <= BufSize
    BY SMTT(30), <1>4, <2>1 DEF Smaller, Sourced, Pull, Incomplete
  <2> QED
    BY SMTT(30), <1>4, <2>1, <2>2 DEF Pull
<1>5. CASE PullNothing
  BY <1>5 DEF PullNothing
<1>6. CASE ReadRequest
  <2>1. RequestLen(conn.buf, conn.data_len) \in -1 .. conn.data_len
    BY RequestLenBounds
  <2> DEFINE len == RequestLen(conn.buf, conn.data_len)
             ret == IF len <= 0 /\ ~ pulled THEN -1 ELSE len
  <2>2. ret \in -1 .. conn.data_len
    BY <2>1
  <2> HIDE DEF len
  <2>3. /\ DOMAIN conn' = DOMAIN conn /\ conn'.data_len = conn.data_len
        /\ conn'.request_len = ret /\ conn'.content_len = conn.content_len /\ conn'.info = conn.info
        /\ pc = "read" /\ pc' = IF ret <= 0 THEN "failed" ELSE "parse"
    BY <1>6 DEF ReadRequest, len
  <2> QED
    BY <2>2, <2>3
<1>7. CASE Parse
  BY <1>7, ParseEffect
<1>8. CASE Failed \/ Answer
  <2>1. CASE Failed
    BY <2>1 DEF Failed
  <2>2. CASE Answer
    BY <2>2 DEF Answer
  <2> QED
    BY <1>8, <2>1, <2>2
<1>9. CASE Check
  BY SMTT(30), <1>9 DEF Check
<1>10. CASE ReadBuffered \/ ReadMore \/ ReadNoMore
  BY <1>10 DEF ReadBuffered, ReadMore, ReadNoMore
<1>11. CASE Finish
  <2>1. conn.data_len - DiscardLen \in 0 .. BufSize + 1
    BY <1>11, DiscardBounds, FinishEffect
  <2> QED
    BY <1>11, <2>1, FinishEffect
<1> QED
  BY <1>1, <1>2, <1>3, <1>4, <1>5, <1>6, <1>7, <1>8, <1>9, <1>10, <1>11 DEF Next, Worker

\* The actions that leave the buffer and what is on its way alone.
LEMMA QuietEffect ==
  ASSUME Lengths, Getreq \/ PullNothing \/ ReadRequest \/ Failed \/ Check \/ ReadBuffered \/ ReadNoMore \/ Answer
  PROVE  /\ conn'.buf = conn.buf /\ conn'.data_len = conn.data_len /\ conn'.content_len = conn.content_len
         /\ UNCHANGED <<net, sent>>
<1> USE DEF Lengths
<1>1. CASE Getreq
  BY <1>1 DEF Getreq, client
<1>2. CASE PullNothing
  BY <1>2 DEF PullNothing, client
<1>3. CASE ReadRequest
  BY <1>3 DEF ReadRequest, client
<1>4. CASE Failed
  BY <1>4 DEF Failed, client
<1>5. CASE Check
  BY <1>5 DEF Check, client
<1>6. CASE ReadBuffered
  BY <1>6 DEF ReadBuffered, client
<1>7. CASE ReadNoMore
  BY <1>7 DEF ReadNoMore, client
<1>8. CASE Answer
  BY <1>8 DEF Answer, client
<1> QED
  BY <1>1, <1>2, <1>3, <1>4, <1>5, <1>6, <1>7, <1>8

\* What a step adds to the answers: one of its own, or nothing if a read failed again.
LEMMA AnswersEffect ==
  ASSUME Lengths, Sourced, Failed \/ Check \/ Answer
  PROVE  \/ answers' = answers
         \/ \E a \in Reply : /\ answers' = Append(answers, a)
                             /\ a.length = conn.content_len
                             /\ a.why = "ok" <=> pc # "failed"
                             /\ a.why = "unread" => conn.request_len <= 0
<1>1. \A r \in Nat, w \in {"ok", "unread", "malformed"} :
        /\ Answered(r, w) \in Reply
        /\ Answered(r, w).length = conn.content_len /\ Answered(r, w).why = w
  BY DEF Answered, Reply, Lengths
<1>2. conn.buf[1].r \in Nat
  BY Sizes DEF Sourced, Token
<1>3. CASE Failed
  <2> DEFINE a == IF conn.request_len <= 0 THEN Answered(0, "unread")
                  ELSE Answered(IF conn.buf[1].k = "line" /\ conn.request_len = 2 THEN conn.buf[1].r ELSE 0,
                                "malformed")
  <2>1. /\ a \in Reply /\ a.length = conn.content_len /\ a.why # "ok"
        /\ a.why = "unread" => conn.request_len <= 0
    BY <1>1, <1>2
  <2>2. pc = "failed" /\ (answers' = answers \/ answers' = Append(answers, a))
    BY <1>3 DEF Failed
  <2> QED
    BY <2>1, <2>2
<1>4. CASE Check
  BY <1>1, <1>2, <1>4 DEF Check
<1>5. CASE Answer
  BY <1>1, <1>2, <1>5 DEF Answer
<1> QED
  BY <1>3, <1>4, <1>5

\* The answers after a step, one by one.
LEMMA Appended ==
  ASSUME NEW a \in Reply, answers \in Seq(Reply), answers' = Append(answers, a)
  PROVE  /\ answers' \in Seq(Reply) /\ Len(answers') = Len(answers) + 1
         /\ answers'[Len(answers) + 1] = a
         /\ \A i \in 1 .. Len(answers) : answers'[i] = answers[i]
OBVIOUS

\* What is in the buffer came from this connection.
LEMMA SourcedStep ==
  ASSUME Lengths, Sourced, [Next]_vars
  PROVE  Sourced'
<1> USE Sizes
<1>1. CASE Leave \/ Stop \/ UNCHANGED vars
  BY <1>1 DEF Sourced, Leave, Stop, vars
<1>2. ASSUME NEW s \in Shape, Send(s)
      PROVE  Sourced'
  <2> DEFINE new == Tokens(s, Len(sent) + 1)
  <2>1. sent \in Seq(Shape) /\ net \in Seq(Token)
    BY DEF Sourced
  <2>2. new \in Seq(Token) /\ \A i \in 1 .. Len(new) : new[i].r = Len(sent) + 1
    BY <2>1, TokensOf
  <2>3. sent' = Append(sent, s) /\ net' = net \o new /\ UNCHANGED <<conn, answers>>
    BY <1>2 DEF Send
  <2>4. sent' \in Seq(Shape) /\ Len(sent') = Len(sent) + 1
    BY <2>1, <2>3
  <2> HIDE DEF new
  <2>5. net' \in Seq(Token) /\ \A i \in 1 .. Len(net') : net'[i].r \in 1 .. Len(sent')
    <3>1. net' \in Seq(Token) /\ Len(net') = Len(net) + Len(new)
      BY <2>1, <2>2, <2>3
    <3>2. ASSUME NEW i \in 1 .. Len(net')
          PROVE  net'[i].r \in 1 .. Len(sent')
      <4>1. CASE i <= Len(net)
        BY <2>1, <2>2, <2>3, <2>4, <3>1, <4>1 DEF Sourced
      <4>2. CASE i > Len(net)
        <5>1. net'[i] = new[i - Len(net)] /\ i - Len(net) \in 1 .. Len(new)
          BY <2>1, <2>2, <2>3, <3>1, <4>2
        <5> QED
          BY <2>1, <2>2, <2>4, <5>1
      <4> QED
        BY <2>1, <3>1, <4>1, <4>2
    <3> QED
      BY <3>1, <3>2
  <2> QED
    BY <2>1, <2>3, <2>4, <2>5 DEF Sourced
<1>3. CASE Accept
  BY <1>3 DEF Accept, Sourced, Lengths
<1>4. CASE Pull
  <2>1. PICK n \in 1 .. Smaller(Len(net), BufSize - conn.data_len) :
          /\ conn'.data_len = conn.data_len + n
          /\ conn'.buf = [i \in 1 .. BufSize |->
                            IF i \in conn.data_len + 1 .. conn.data_len + n
                            THEN net[i - conn.data_len] ELSE conn.buf[i]]
          /\ net' = SubSeq(net, n + 1, Len(net))
    BY <1>4 DEF Pull, Lengths
  <2>2. UNCHANGED <<sent, answers>>
    BY <1>4 DEF Pull
  <2>3. net \in Seq(Token) /\ conn.data_len \in Nat
    BY DEF Sourced, Lengths
  <2>4. n \in Nat /\ n >= 1 /\ n <= Len(net)
    BY <2>3 DEF Smaller
  <2>5. net' \in Seq(Token) /\ \A i \in 1 .. Len(net') : net'[i].r \in 1 .. Len(sent)
    <3>1. net' \in Seq(Token) /\ Len(net') = Len(net) - n
      BY <2>1, <2>3, <2>4
    <3>2. \A i \in 1 .. Len(net') : net'[i] = net[i + n] /\ i + n \in 1 .. Len(net)
      BY <2>1, <2>3, <2>4, <3>1
    <3> QED
      BY <3>1, <3>2 DEF Sourced
  <2>6. ASSUME NEW i \in 1 .. BufSize
        PROVE  /\ conn'.buf[i] \in Token
               /\ i <= conn'.data_len /\ conn'.buf[i].k = "line" => conn'.buf[i].r \in 1 .. Len(sent)
    <3>1. CASE i \in conn.data_len + 1 .. conn.data_len + n
      <4>1. conn'.buf[i] = net[i - conn.data_len] /\ i - conn.data_len \in 1 .. Len(net)
        BY <2>1, <2>3, <2>4, <3>1
      <4> QED
        BY <2>3, <4>1 DEF Sourced
    <3>2. CASE i \notin conn.data_len + 1 .. conn.data_len + n
      <4>1. conn'.buf[i] = conn.buf[i] /\ (i <= conn'.data_len => i <= conn.data_len)
        BY <2>1, <2>3, <2>4, <3>2
      <4> QED
        BY <4>1 DEF Sourced
    <3> QED
      BY <3>1, <3>2
  <2>7. conn'.buf \in [1 .. BufSize -> Token]
    BY <2>1, <2>6
  <2> QED
    BY <2>2, <2>5, <2>6, <2>7 DEF Sourced
<1>5. CASE Getreq \/ PullNothing \/ ReadRequest \/ ReadBuffered \/ ReadNoMore
  <2>1. conn'.buf = conn.buf /\ conn'.data_len = conn.data_len /\ UNCHANGED <<net, sent>>
    BY <1>5, QuietEffect
  <2>2. answers' = answers
    BY <1>5 DEF Getreq, PullNothing, ReadRequest, ReadBuffered, ReadNoMore
  <2> QED
    BY <2>1, <2>2 DEF Sourced
<1>6. CASE Failed \/ Check \/ Answer
  <2>1. conn'.buf = conn.buf /\ conn'.data_len = conn.data_len /\ UNCHANGED <<net, sent>>
    BY <1>6, QuietEffect
  <2>2. answers \in Seq(Reply) /\ (answers' = answers \/ \E a \in Reply : answers' = Append(answers, a))
    BY <1>6, AnswersEffect DEF Sourced
  <2>3. answers' \in Seq(Reply)
    BY <2>2, Appended
  <2> QED
    BY <2>1, <2>3 DEF Sourced
<1>7. CASE Parse
  <2> DEFINE at == conn.request_len
  <2>1. at \in 1 .. BufSize
    BY <1>7, ParseEffect DEF Lengths
  <2>2. conn.buf \in [1 .. BufSize -> Token]
    BY DEF Sourced
  <2>3. conn'.buf = [conn.buf EXCEPT ![at] = [conn.buf[at] EXCEPT !.k = "text"]]
    BY <1>7, ParseEffect
  <2> HIDE DEF at
  <2>4. [conn.buf[at] EXCEPT !.k = "text"] \in Token /\ [conn.buf[at] EXCEPT !.k = "text"].k = "text"
    BY <2>1, <2>2 DEF Token, Kinds
  <2>5. conn'.buf \in [1 .. BufSize -> Token]
    BY <2>2, <2>3, <2>4
  <2>6. \A i \in 1 .. BufSize : conn'.buf[i] = conn.buf[i] \/ conn'.buf[i].k = "text"
    BY <2>1, <2>2, <2>3, <2>4
  <2> QED
    BY <1>7, <2>5, <2>6, ParseEffect DEF Sourced
<1>8. CASE ReadMore
  <2>1. /\ conn'.buf = conn.buf /\ conn'.data_len = conn.data_len
        /\ \E n \in 1 .. Smaller(Len(net), Wanted) : net' = SubSeq(net, n + 1, Len(net))
    BY <1>8 DEF ReadMore, Lengths
  <2>2. net \in Seq(Token) /\ UNCHANGED <<sent, answers>>
    BY <1>8 DEF Sourced, ReadMore
  <2>3. PICK n \in Nat : net' = SubSeq(net, n + 1, Len(net))
    BY <2>1
  <2>4. net' \in Seq(Token) /\ \A i \in 1 .. Len(net') : net'[i] = net[i + n] /\ i + n \in 1 .. Len(net)
    BY <2>2, <2>3
  <2> QED
    BY <2>1, <2>2, <2>4 DEF Sourced
<1>9. CASE Finish
  <2> DEFINE d == DiscardLen
  <2>1. /\ conn'.buf = Moved(d) /\ conn'.data_len = conn.data_len - d
        /\ UNCHANGED <<net, sent, answers>>
    BY <1>9, FinishEffect
  <2>2. d \in Int /\ d >= -1 /\ d <= conn.data_len /\ conn.data_len \in 0 .. BufSize
    BY <1>9, DiscardBounds, FinishEffect DEF Lengths
  <2> HIDE DEF d
  <2>3. ASSUME NEW i \in 1 .. BufSize
        PROVE  /\ conn'.buf[i] \in Token
               /\ i <= conn'.data_len /\ conn'.buf[i].k = "line" => conn'.buf[i].r \in 1 .. Len(sent)
    <3>1. CASE i > conn.data_len - d
      BY <2>1, <2>2, <3>1 DEF Moved, Sourced
    <3>2. CASE i + d = 0 /\ i <= conn.data_len - d
      BY <2>1, <2>2, <3>2 DEF Moved, Nul, Token, Kinds
    <3>3. CASE i + d # 0 /\ i <= conn.data_len - d
      <4>1. conn'.buf[i] = conn.buf[i + d] /\ i + d \in 1 .. BufSize /\ i + d <= conn.data_len
        BY <2>1, <2>2, <3>3 DEF Moved
      <4> QED
        BY <4>1 DEF Sourced
    <3> QED
      BY <2>2, <3>1, <3>2, <3>3
  <2>4. conn'.buf \in [1 .. BufSize -> Token]
    BY <2>1, <2>3 DEF Moved
  <2> QED
    BY <2>1, <2>3, <2>4 DEF Sourced
<1> QED
  BY <1>1, <1>2, <1>3, <1>4, <1>5, <1>6, <1>7, <1>8, <1>9 DEF Next, Worker

\* Only a failed read finds a user that was freed.
LEMMA FreedStep ==
  ASSUME Lengths, Sourced, Freed, [Next]_vars
  PROVE  Freed'
<1> USE DEF Freed
<1>1. CASE (\E s \in Shape : Send(s)) \/ Leave \/ Stop \/ UNCHANGED vars
  BY <1>1 DEF Send, Leave, Stop, vars
<1>2. CASE Accept \/ Getreq \/ Pull
  BY <1>2 DEF Accept, Getreq, Pull
<1>3. CASE PullNothing
  BY <1>3 DEF PullNothing, Lengths
<1>4. CASE ReadRequest
  BY <1>4 DEF ReadRequest, Lengths
<1>5. CASE Parse
  <2>1. conn.request_len > 0
    BY <1>5, ParseEffect DEF Lengths
  <2> QED
    BY <1>5, <2>1, ParseEffect
<1>6. CASE Failed
  <2>1. /\ conn'.user = conn.user /\ conn'.request_len = conn.request_len /\ pc = "failed" /\ pc' = "finish"
    BY <1>6 DEF Failed, Lengths
  <2>2. ASSUME conn.request_len <= 0
        PROVE  \E j \in 1 .. Len(answers') : answers'[j].why = "unread"
    <3> DEFINE a == Answered(0, "unread")
    <3>1. a \in Reply /\ a.why = "unread" /\ answers \in Seq(Reply)
      BY DEF Answered, Reply, Sourced, Lengths
    <3>2. \/ answers' = answers /\ answers # <<>> /\ answers[Len(answers)].why = "unread"
          \/ answers' = Append(answers, a)
      BY <1>6, <2>2, <3>1 DEF Failed
    <3>3. CASE answers' = answers /\ answers # <<>> /\ answers[Len(answers)].why = "unread"
      <4>1. Len(answers) \in 1 .. Len(answers')
        BY <3>1, <3>3
      <4> QED
        BY <3>3, <4>1
    <3>4. CASE answers' = Append(answers, a)
      <4>1. /\ Len(answers') = Len(answers) + 1 /\ answers'[Len(answers) + 1] = a
            /\ Len(answers) \in Nat
        BY <3>1, <3>4, Appended
      <4>2. Len(answers) + 1 \in 1 .. Len(answers')
        BY <4>1
      <4> QED
        BY <3>1, <4>1, <4>2
    <3> QED
      BY <3>2, <3>3, <3>4
  <2> QED
    BY <2>1, <2>2
<1>7. CASE Check
  BY <1>7 DEF Check, Lengths
<1>8. CASE ReadBuffered \/ ReadMore \/ ReadNoMore
  BY <1>8 DEF ReadBuffered, ReadMore, ReadNoMore, Lengths
<1>9. CASE Answer
  BY <1>9 DEF Answer, Lengths
<1>10. CASE Finish
  BY <1>10, FinishEffect
<1> QED
  BY <1>1, <1>2, <1>3, <1>4, <1>5, <1>6, <1>7, <1>8, <1>9, <1>10 DEF Next, Worker

\* The process dies after a failed read only.
LEMMA DeathStep ==
  ASSUME Lengths, Sourced, Freed, DeathExplained, [Next]_vars
  PROVE  DeathExplained'
<1>1. CASE (\E s \in Shape : Send(s)) \/ Leave \/ Stop \/ UNCHANGED vars
  BY <1>1 DEF DeathExplained, Send, Leave, Stop, vars
<1>2. CASE Accept \/ Getreq \/ Pull \/ PullNothing \/ ReadRequest \/ Parse \/ Failed \/ Check
           \/ ReadBuffered \/ ReadMore \/ ReadNoMore \/ Answer
  <2>1. pc' # "dead"
    BY <1>2 DEF Accept, Getreq, Pull, PullNothing, ReadRequest, Parse, ParseWith, Failed, Check,
                ReadBuffered, ReadMore, ReadNoMore, Answer
  <2> QED
    BY <2>1 DEF DeathExplained
<1>3. CASE Finish
  <2>1. SUFFICES ASSUME pc' = "dead"
                 PROVE  /\ \E j \in 1 .. Len(answers) : answers[j].why = "unread"
                        /\ conn'.user = "freed" \/ (conn'.content_len = 0 /\ conn'.request_len = -1)
    BY <1>3, FinishEffect DEF DeathExplained
  <2>2. CASE conn.user = "freed"
    BY <1>3, <2>2, FinishEffect DEF Freed
  <2>3. CASE conn.data_len - DiscardLen > BufSize
    <3>1. conn.data_len \in Nat /\ conn.data_len <= BufSize /\ DiscardLen \in -1 .. conn.data_len
      BY <1>3, Sizes, DiscardBounds, FinishEffect DEF Lengths
    <3>2. conn.content_len = 0 /\ conn.request_len = -1
      BY <2>3, <3>1, Sizes, DiscardBounds
    <3> QED
      BY <1>3, <3>2, FinishEffect DEF Freed
  <2> QED
    BY <1>3, <2>1, <2>2, <2>3, FinishEffect
<1> QED
  BY <1>1, <1>2, <1>3 DEF Next, Worker

\* A buffer that is full without a head stays so until the next request is read.
LEMMA KeptStep ==
  ASSUME Lengths, Sourced, Freed, Kept, [Next]_vars
  PROVE  Kept'
<1>1. CASE (\E s \in Shape : Send(s)) \/ Leave \/ Stop \/ UNCHANGED vars
  BY <1>1 DEF Kept, Stuck, Send, Leave, Stop, vars
<1>2. CASE Accept \/ Getreq \/ Pull \/ ReadBuffered \/ ReadMore \/ ReadNoMore \/ Finish
  <2>1. pc' \notin {"failed", "finish"}
    BY <1>2, FinishEffect DEF Accept, Getreq, Pull, ReadBuffered, ReadMore, ReadNoMore
  <2> QED
    BY <2>1 DEF Kept
<1>3. CASE PullNothing
  BY <1>3 DEF PullNothing, Kept, Lengths
<1>4. CASE ReadRequest
  <2> DEFINE len == RequestLen(conn.buf, conn.data_len)
  <2>1. /\ conn'.buf = conn.buf /\ conn'.data_len = conn.data_len
        /\ conn'.request_len = IF len <= 0 /\ ~ pulled THEN -1 ELSE len
        /\ ~ (len = 0 /\ conn.data_len < BufSize)
    BY <1>4 DEF ReadRequest, Incomplete, Lengths
  <2>2. conn.data_len \in Nat /\ (pc # "dead" => conn.data_len <= BufSize) /\ pc = "read"
    BY <1>4, Sizes DEF Lengths, ReadRequest
  <2>3. len \in Int
    BY <2>2, RequestLenBounds
  <2> HIDE DEF len
  <2>4. conn'.request_len = 0 => len = 0 /\ conn.data_len = BufSize
    BY <2>1, <2>2, <2>3, Sizes
  <2>5. RequestLen(conn'.buf, conn'.data_len) = len
    BY <2>1 DEF len
  <2> QED
    BY <2>1, <2>4, <2>5 DEF Kept, Stuck
<1>5. CASE Parse
  <2>1. conn'.request_len # 0
    BY <1>5, ParseEffect DEF Lengths
  <2> QED
    BY <2>1 DEF Kept
<1>6. CASE Failed
  <2>1. /\ conn'.buf = conn.buf /\ conn'.data_len = conn.data_len /\ conn'.request_len = conn.request_len
        /\ pc = "failed"
    BY <1>6 DEF Failed, Lengths
  <2> QED
    BY <2>1 DEF Kept, Stuck
<1>7. CASE Check \/ Answer
  <2>1. conn'.request_len = conn.request_len /\ pc \in {"check", "handle", "answer"}
    BY <1>7 DEF Check, Answer, Lengths
  <2>2. conn'.request_len # 0
    BY <2>1 DEF Freed
  <2> QED
    BY <2>2 DEF Kept
<1> QED
  BY <1>1, <1>2, <1>3, <1>4, <1>5, <1>6, <1>7 DEF Next, Worker

\* A stuck buffer holds no head.
LEMMA StuckMeansNone ==
  ASSUME Lengths, Stuck
  PROVE  RequestLen(conn.buf, conn.data_len) <= 0
<1>1. conn.data_len \in Nat
  BY Sizes DEF Lengths
<1> QED
  BY <1>1, RequestLenBounds DEF Stuck

\* What a failing connection keeps.
LEMMA FatalStep ==
  ASSUME Lengths, Sourced, Kept, Fatal, [Next]_vars
  PROVE  Fatal'
<1>1. CASE (\E s \in Shape : Send(s)) \/ Leave \/ Stop \/ UNCHANGED vars
  <2>1. UNCHANGED <<conn, pc, answers>>
    BY <1>1 DEF Send, Leave, Stop, vars
  <2> QED
    BY <2>1 DEF Fatal, Failing, Stuck
<1>2. CASE Accept
  <2>1. answers' = <<>>
    BY <1>2 DEF Accept
  <2> QED
    BY <2>1 DEF Fatal, Failing
<1>3. CASE Getreq
  <2>1. conn'.buf = conn.buf /\ conn'.data_len = conn.data_len /\ conn'.content_len = conn.content_len
    BY <1>3, QuietEffect
  <2>2. pc = "getreq" /\ pc' = "read" /\ answers' = answers
    BY <1>3 DEF Getreq
  <2> QED
    BY <2>1, <2>2 DEF Fatal, Failing, Stuck
<1>4. CASE Pull
  <2>1. PICK n \in 1 .. Smaller(Len(net), BufSize - conn.data_len) :
          /\ conn'.data_len = conn.data_len + n /\ conn'.content_len = conn.content_len
          /\ conn'.buf = [i \in 1 .. BufSize |->
                            IF i \in conn.data_len + 1 .. conn.data_len + n
                            THEN net[i - conn.data_len] ELSE conn.buf[i]]
    BY <1>4 DEF Pull, Lengths
  <2>2. pc = "read" /\ pc' = "read" /\ answers' = answers /\ Incomplete
    BY <1>4 DEF Pull
  <2>3. conn.data_len \in Nat /\ n \in Nat
    BY Sizes DEF Lengths
  <2>4. SUFFICES ASSUME Failing
                 PROVE  Stuck' /\ conn'.content_len = 0
    BY <2>2 DEF Fatal, Failing
  <2>5. Stuck /\ conn.content_len = 0
    BY <2>2, <2>4 DEF Fatal
  <2>6. conn.data_len >= 1 /\ conn.buf[1].k = "nul"
    BY <2>2, <2>3, <2>5, Sizes DEF Stuck, Incomplete
  <2>7. conn'.buf[1] = conn.buf[1] /\ conn'.data_len >= 1
    BY <2>1, <2>3, <2>6, Sizes
  <2> QED
    BY <2>1, <2>5, <2>6, <2>7 DEF Stuck
<1>5. CASE PullNothing
  <2>1. conn'.buf = conn.buf /\ conn'.data_len = conn.data_len /\ conn'.content_len = conn.content_len
    BY <1>5, QuietEffect
  <2>2. conn'.request_len = -1 /\ pc = "read" /\ pc' = "failed" /\ answers' = answers
    BY <1>5 DEF PullNothing, Lengths
  <2> QED
    BY <2>1, <2>2 DEF Fatal, Failing, Stuck
<1>6. CASE ReadRequest
  <2>1. conn'.buf = conn.buf /\ conn'.data_len = conn.data_len /\ conn'.content_len = conn.content_len
    BY <1>6, QuietEffect
  <2> DEFINE len == RequestLen(conn.buf, conn.data_len)
             ret == IF len <= 0 /\ ~ pulled THEN -1 ELSE len
  <2>2. /\ pc = "read" /\ answers' = answers /\ conn'.request_len = ret
        /\ pc' = IF ret <= 0 THEN "failed" ELSE "parse"
    BY <1>6 DEF ReadRequest, Lengths
  <2>3. SUFFICES ASSUME Failing
                 PROVE  Fatal'
    BY <2>2 DEF Fatal, Failing
  <2>4. Stuck /\ conn.content_len = 0
    BY <2>2, <2>3 DEF Fatal
  <2>5. len <= 0
    BY <2>4, StuckMeansNone
  <2> HIDE DEF len
  <2>6. ret <= 0
    BY <2>5
  <2> QED
    BY <2>1, <2>2, <2>4, <2>6 DEF Fatal, Stuck
<1>7. CASE Parse \/ ReadBuffered \/ ReadMore \/ ReadNoMore
  <2>1. pc \in {"parse", "handle", "body"} /\ answers' = answers
    BY <1>7 DEF Parse, ParseWith, ReadBuffered, ReadMore, ReadNoMore
  <2> QED
    BY <2>1 DEF Fatal, Failing
<1>8. CASE Check \/ Answer
  <2>1. pc \in {"check", "handle", "answer"} /\ answers \in Seq(Reply)
    BY <1>8 DEF Check, Answer, Sourced
  <2>2. ~ Failing
    BY <2>1 DEF Fatal
  <2>3. answers' = answers \/ \E a \in Reply : answers' = Append(answers, a) /\ a.why = "ok"
    BY <1>8, <2>1, AnswersEffect
  <2>4. ASSUME NEW a \in Reply, answers' = Append(answers, a), a.why = "ok"
        PROVE  ~ Failing'
    BY <2>1, <2>2, <2>4, Appended DEF Failing
  <2> QED
    BY <2>2, <2>3, <2>4 DEF Fatal, Failing
<1>9. CASE Failed
  <2>1. conn'.buf = conn.buf /\ conn'.data_len = conn.data_len /\ conn'.content_len = conn.content_len
    BY <1>9, QuietEffect
  <2>2. /\ pc = "failed" /\ pc' = "finish" /\ conn'.request_len = conn.request_len
        /\ answers \in Seq(Reply)
    BY <1>9 DEF Failed, Lengths, Sourced
  <2>3. SUFFICES ASSUME Failing'
                 PROVE  conn.content_len = 0 /\ conn.request_len <= 0
    BY <2>1, <2>2 DEF Fatal
  <2>4. CASE Failing
    BY <2>2, <2>4 DEF Fatal
  <2>5. CASE ~ Failing
    <3>1. PICK a \in Reply : /\ answers' = Append(answers, a) /\ a.length = conn.content_len
                             /\ a.why = "unread" => conn.request_len <= 0
      BY <1>9, <2>3, <2>5, AnswersEffect DEF Failing
    <3>2. a.why = "unread" /\ a.length = 0
      BY <2>2, <2>3, <2>5, <3>1, Appended DEF Failing
    <3> QED
      BY <3>1, <3>2
  <2> QED
    BY <2>4, <2>5
<1>10. CASE Finish
  <2>1. /\ conn'.buf = Moved(DiscardLen) /\ conn'.data_len = conn.data_len - DiscardLen
        /\ conn'.request_len = conn.request_len /\ conn'.content_len = conn.content_len
        /\ pc = "finish" /\ pc' \in {"dead", "getreq", "idle"} /\ answers' = answers
    BY <1>10, FinishEffect
  <2>2. SUFFICES ASSUME Failing
                 PROVE  conn.content_len = 0 /\ Stuck'
    BY <2>1 DEF Fatal, Failing
  <2>3. conn.content_len = 0 /\ conn.request_len <= 0
    BY <2>1, <2>2 DEF Fatal
  <2>4. conn.data_len \in Nat /\ conn.request_len \in {-1, 0}
    BY <2>3, Sizes DEF Lengths
  <2>5. CASE conn.request_len = -1
    <3>1. DiscardLen = -1
      BY <2>3, <2>5, DiscardBounds
    <3>2. conn'.buf[1] = Nul /\ conn'.data_len >= 1
      BY <2>1, <2>4, <3>1, Sizes DEF Moved
    <3> QED
      BY <2>3, <3>2 DEF Stuck, Nul
  <2>6. CASE conn.request_len = 0
    <3>1. DiscardLen = 0 /\ Stuck
      BY <2>1, <2>3, <2>6, DiscardBounds DEF Kept
    <3>2. conn'.data_len = conn.data_len
      BY <2>1, <2>4, <3>1
    <3>3. conn'.buf = conn.buf
      BY <2>1, <2>4, <3>1, Sizes DEF Moved, Sourced
    <3> QED
      BY <2>3, <3>1, <3>2, <3>3 DEF Stuck
  <2> QED
    BY <2>4, <2>5, <2>6
<1> QED
  BY <1>1, <1>2, <1>3, <1>4, <1>5, <1>6, <1>7, <1>8, <1>9, <1>10 DEF Next, Worker

\* No request is served after a failed read that left nothing to read.
LEMMA IdleStep ==
  ASSUME Lengths, Sourced, Fatal, IdleIsFatal, [Next]_vars
  PROVE  IdleIsFatal'
<1>1. CASE answers' = answers \/ answers' = <<>>
  BY <1>1 DEF IdleIsFatal
<1>2. CASE Failed \/ Check \/ Answer
  <2>1. SUFFICES ASSUME NEW a \in Reply, answers' = Append(answers, a), a.why = "ok" => ~ Failing
                 PROVE  IdleIsFatal'
    <3>1. pc = "failed" \/ ~ Failing
      BY <1>2 DEF Failed, Check, Answer, Fatal
    <3> QED
      BY <1>1, <1>2, <3>1, AnswersEffect
  <2>2. /\ answers \in Seq(Reply) /\ Len(answers') = Len(answers) + 1
        /\ answers'[Len(answers) + 1] = a /\ \A i \in 1 .. Len(answers) : answers'[i] = answers[i]
    BY <2>1, Appended DEF Sourced
  <2>3. SUFFICES ASSUME NEW i \in 1 .. Len(answers'), NEW j \in 1 .. Len(answers'),
                        i < j, answers'[i].why = "unread", answers'[i].length = 0
                 PROVE  answers'[j].why # "ok"
    BY DEF IdleIsFatal
  <2>4. i \in 1 .. Len(answers) /\ answers'[i] = answers[i]
    BY <2>2, <2>3
  <2>5. Failing
    BY <2>3, <2>4 DEF Failing
  <2>6. CASE j = Len(answers) + 1
    BY <2>1, <2>2, <2>5, <2>6
  <2>7. CASE j \in 1 .. Len(answers)
    BY <2>2, <2>3, <2>4, <2>7 DEF IdleIsFatal
  <2> QED
    BY <2>2, <2>6, <2>7
<1>3. CASE ~ (Failed \/ Check \/ Answer)
  <2>1. answers' = answers \/ answers' = <<>>
    BY <1>3, FinishEffect
       DEF Next, Worker, vars, Send, Leave, Stop, Accept, Getreq, Pull, PullNothing, ReadRequest,
           Parse, ParseWith, ReadBuffered, ReadMore, ReadNoMore
  <2> QED
    BY <1>1, <2>1
<1> QED
  BY <1>2, <1>3

\* The invariant holds of every reachable state.
THEOREM Invariance == Spec => []IInv
<1>1. Init => IInv
  BY InitInv
<1>2. IInv /\ [Next]_vars => IInv'
  BY LengthsStep, SourcedStep, FreedStep, FatalStep, KeptStep, DeathStep, IdleStep DEF IInv
<1> QED
  BY <1>1, <1>2, PTL DEF Spec

\* For any buffer and any requests: the process dies at a second free of remote_user
\* (4817) or at the assert on data_len (4833), and only after a failed read.
THEOREM DeathIsExplained == Spec => []DeathExplained
<1>1. IInv => DeathExplained
  BY DEF IInv
<1> QED
  BY <1>1, Invariance, PTL

\* For any buffer and any requests: a connection whose read failed with content_len 0
\* serves no later request (4827-4830).
THEOREM IdleKills == Spec => []IdleIsFatal
<1>1. IInv => IdleIsFatal
  BY DEF IInv
<1> QED
  BY <1>1, Invariance, PTL

\* The worker's counters stay in its buffer, except that the assert of 4833 may see one
\* byte more, and then the process is dead.
THEOREM TypeCorrect == Spec => []TypeOK
<1>1. IInv => TypeOK
  BY Sizes DEF IInv, Lengths, TypeOK
<1> QED
  BY <1>1, Invariance, PTL

-----------------------------------------------------------------------------
(* The order of the answers, and the bytes of the bodies.  All that was sent on a
   connection is one stream; the buffer shows it from p on, what is on its way from m
   on, and request r begins behind st[r]. *)

\* The bytes of a connection, as one sequence T: request r of S begins after st[r].
Stream(T, st, S) ==
  /\ T \in Seq(Token) /\ st \in [1 .. Len(S) + 1 -> Nat] /\ st[1] = 0 /\ st[Len(S) + 1] = Len(T)
  /\ \A r \in 1 .. Len(S) : st[r + 1] = st[r] + Len(Tokens(S[r], r))
  /\ \A r \in 1 .. Len(S), i \in 1 .. Len(T) :
       i \in 1 .. Len(Tokens(S[r], r)) => T[st[r] + i] = Tokens(S[r], r)[i]
  /\ \A q \in 1 .. Len(T) : \E r \in 1 .. Len(S) : q - st[r] \in 1 .. Len(Tokens(S[r], r))
  /\ \A r, u \in 1 .. Len(S) + 1 : r < u => st[r] + 2 <= st[u]

\* What a client's request is made of.
LEMMA TokenShape ==
  ASSUME NEW s \in Shape, NEW r \in Nat
  PROVE  /\ Len(Tokens(s, r)) \in Nat /\ Len(Tokens(s, r)) >= 2
         /\ s.head \in {"ok", "malformed"} =>
              /\ Len(Tokens(s, r)) = 2 + s.body
              /\ Tokens(s, r)[1] = Tok("line", r, 1) /\ Tokens(s, r)[2] = Tok("end", r, 2)
              /\ \A i \in 1 .. s.body : Tokens(s, r)[i + 2] = Tok("body", r, i)
         /\ s.head = "control" =>
              Tokens(s, r)[1] = Tok("control", r, 1) /\ Tokens(s, r)[2] = Tok("end", r, 2)
         /\ s.head = "endless" =>
              Tokens(s, r)[1].k = "line" /\ \A i \in 1 .. Len(Tokens(s, r)) : Tokens(s, r)[i].k # "end"
         /\ s.head # "endless" => \A i \in 2 .. Len(Tokens(s, r)) : Tokens(s, r)[i].k # "line"
         /\ \A i \in 1 .. Len(Tokens(s, r)) : Tokens(s, r)[i].k \notin {"nul", "text"}
<1> DEFINE head == CASE s.head = "control" -> <<Tok("control", r, 1), Tok("end", r, 2)>>
                     [] s.head = "endless" -> [i \in 1 .. BufSize |-> Tok("line", r, i)]
                     [] OTHER              -> <<Tok("line", r, 1), Tok("end", r, 2)>>
           body == [i \in 1 .. s.body |-> Tok("body", r, i)]
           all  == Tokens(s, r)
<1>1. s.body \in Nat /\ s.head \in Heads
  BY ShapeAssumption
<1>2. /\ \A k \in Kinds, i \in Nat : Tok(k, r, i) \in Token
      /\ \A k, i : Tok(k, r, i).k = k
  BY DEF Tok, Token
<1>3. body \in Seq(Token) /\ Len(body) = s.body /\ \A i \in 1 .. s.body : body[i] = Tok("body", r, i)
  BY <1>1, <1>2 DEF Kinds
<1>4. /\ s.head \in {"ok", "malformed"} => head = <<Tok("line", r, 1), Tok("end", r, 2)>>
      /\ s.head = "control" => head = <<Tok("control", r, 1), Tok("end", r, 2)>>
      /\ s.head = "endless" => head = [i \in 1 .. BufSize |-> Tok("line", r, i)]
  OBVIOUS
<1>5. head \in Seq(Token) /\ Len(head) >= 2
  <2> HIDE DEF head
  <2>1. \A a, b \in Token : <<a, b>> \in Seq(Token) /\ Len(<<a, b>>) = 2
    OBVIOUS
  <2>2. Tok("line", r, 1) \in Token /\ Tok("control", r, 1) \in Token /\ Tok("end", r, 2) \in Token
    BY <1>2 DEF Kinds
  <2>3. CASE s.head \in {"ok", "malformed"}
    <3>1. head = <<Tok("line", r, 1), Tok("end", r, 2)>>
      BY <1>4, <2>3
    <3> QED
      BY <2>1, <2>2, <3>1
  <2>4. CASE s.head = "control"
    <3>1. head = <<Tok("control", r, 1), Tok("end", r, 2)>>
      BY <1>4, <2>4
    <3> QED
      BY <2>1, <2>2, <3>1
  <2>5. CASE s.head = "endless"
    BY <1>2, <1>4, <2>5, Sizes DEF Kinds
  <2> QED
    BY <1>1, <2>3, <2>4, <2>5 DEF Heads
<1>6. all = head \o body
  BY DEF Tokens
<1> HIDE DEF head, body, all
<1>7. /\ Len(all) = Len(head) + s.body /\ Len(head) \in Nat
      /\ \A i \in 1 .. Len(all) : all[i] = IF i <= Len(head) THEN head[i] ELSE Tok("body", r, i - Len(head))
  <2>1. /\ Len(all) = Len(head) + s.body /\ Len(head) \in Nat
        /\ \A i \in 1 .. Len(head) + Len(body) : all[i] = IF i <= Len(head) THEN head[i] ELSE body[i - Len(head)]
    <3>1. Len(head) \in Nat /\ Len(body) \in Nat
      BY <1>3, <1>5
    <3> QED
      BY <1>3, <1>5, <1>6, <3>1, ConcatProperties
  <2> QED
    BY <1>1, <1>3, <2>1
<1>8. CASE s.head \in {"ok", "malformed"}
  <2>1. Len(head) = 2 /\ head[1] = Tok("line", r, 1) /\ head[2] = Tok("end", r, 2)
    BY <1>4, <1>8
  <2>2. all[1] = Tok("line", r, 1) /\ all[2] = Tok("end", r, 2)
        /\ \A i \in 3 .. Len(all) : all[i] = Tok("body", r, i - 2)
    BY <1>1, <1>7, <2>1
  <2>3. ASSUME NEW i \in 1 .. s.body
        PROVE  all[i + 2] = Tok("body", r, i)
    <3>1. i + 2 \in 3 .. Len(all) /\ i + 2 - 2 = i
      BY <1>1, <1>7, <2>1
    <3> QED
      BY <2>2, <3>1
  <2>4. \A i \in 1 .. Len(all) : all[i].k = IF i = 1 THEN "line" ELSE IF i = 2 THEN "end" ELSE "body"
    BY <1>2, <2>2
  <2> QED
    BY SMTT(30), <1>1, <1>7, <1>8, <2>1, <2>2, <2>3, <2>4 DEF all
<1>9. CASE s.head = "control"
  <2>1. Len(head) = 2 /\ head[1] = Tok("control", r, 1) /\ head[2] = Tok("end", r, 2)
    BY <1>4, <1>9
  <2>2. all[1] = Tok("control", r, 1) /\ all[2] = Tok("end", r, 2)
        /\ \A i \in 3 .. Len(all) : all[i] = Tok("body", r, i - 2)
    BY <1>1, <1>7, <2>1
  <2>3. \A i \in 1 .. Len(all) : all[i].k = IF i = 1 THEN "control" ELSE IF i = 2 THEN "end" ELSE "body"
    BY <1>2, <2>2
  <2> QED
    BY <1>1, <1>7, <1>9, <2>1, <2>2, <2>3 DEF all
<1>10. CASE s.head = "endless"
  <2>1. Len(head) = BufSize /\ \A i \in 1 .. BufSize : head[i] = Tok("line", r, i)
    BY <1>4, <1>10, Sizes
  <2>2. \A i \in 1 .. Len(all) : all[i] = IF i <= BufSize THEN Tok("line", r, i) ELSE Tok("body", r, i - BufSize)
    BY <1>1, <1>7, <2>1, Sizes
  <2>3. \A i \in 1 .. Len(all) : all[i].k = IF i <= BufSize THEN "line" ELSE "body"
    BY <1>2, <2>2
  <2>4. Len(all) \in Nat /\ Len(all) >= 2 /\ 1 \in 1 .. Len(all) /\ 1 <= BufSize
    BY <1>1, <1>7, <2>1, Sizes
  <2>5. all[1].k = "line" /\ \A i \in 1 .. Len(all) : all[i].k \notin {"end", "nul", "text"}
    BY <2>3, <2>4
  <2> QED
    BY <1>10, <2>4, <2>5 DEF all
<1> QED
  BY <1>1, <1>8, <1>9, <1>10 DEF Heads

\* No byte has been sent yet.
LEMMA StreamStarts == Stream(<<>>, [r \in {1} |-> 0], <<>>)
<1> DEFINE st == [r \in {1} |-> 0]
<1>1. Len(<<>>) = 0 /\ 1 .. Len(<<>>) = {} /\ 1 .. Len(<<>>) + 1 = {1}
  OBVIOUS
<1>2. st \in [{1} -> Nat] /\ st[1] = 0
  OBVIOUS
<1>3. <<>> \in Seq(Token)
  OBVIOUS
<1> QED
  BY <1>1, <1>2, <1>3 DEF Stream

\* U is the stream T with one more request.
Longer(T, st, S, s, U, ut) == LET new == Tokens(s, Len(S) + 1) IN
  /\ Stream(U, ut, Append(S, s)) /\ Len(U) = Len(T) + Len(new)
  /\ \A r \in 1 .. Len(S) + 1 : ut[r] = st[r]
  /\ \A q \in 1 .. Len(T) : U[q] = T[q]
  /\ \A i \in 1 .. Len(new) : U[Len(T) + i] = new[i]

\* A request that is sent comes after all the others.
LEMMA StreamGrows ==
  ASSUME NEW T, NEW st, NEW S \in Seq(Shape), NEW s \in Shape, Stream(T, st, S)
  PROVE  \E U, ut : Longer(T, st, S, s, U, ut)
<1> DEFINE n  == Len(S) + 1
           new == Tokens(s, n)
           ut == [r \in 1 .. n + 1 |-> IF r <= n THEN st[r] ELSE st[n] + Len(new)]
           U  == T \o new
           V  == Append(S, s)
<1>1. n \in Nat /\ n >= 1 /\ Len(S) \in Nat
  OBVIOUS
<1>2. new \in Seq(Token) /\ Len(new) \in Nat /\ Len(new) >= 2
  BY <1>1, TokensOf, TokenShape
<1>3. /\ T \in Seq(Token) /\ Len(T) \in Nat /\ st \in [1 .. n -> Nat] /\ st[1] = 0 /\ st[n] = Len(T)
      /\ \A r \in 1 .. Len(S) : st[r + 1] = st[r] + Len(Tokens(S[r], r))
      /\ \A r \in 1 .. Len(S), i \in 1 .. Len(T) :
           i \in 1 .. Len(Tokens(S[r], r)) => T[st[r] + i] = Tokens(S[r], r)[i]
      /\ \A q \in 1 .. Len(T) : \E r \in 1 .. Len(S) : q - st[r] \in 1 .. Len(Tokens(S[r], r))
      /\ \A r, u \in 1 .. n : r < u => st[r] + 2 <= st[u]
  BY <1>1 DEF Stream
<1>4. V \in Seq(Shape) /\ Len(V) = n /\ V[n] = s /\ \A r \in 1 .. Len(S) : V[r] = S[r]
  OBVIOUS
<1> HIDE DEF new, V
<1>5. /\ U \in Seq(Token) /\ Len(U) = Len(T) + Len(new)
      /\ \A q \in 1 .. Len(T) + Len(new) : U[q] = IF q <= Len(T) THEN T[q] ELSE new[q - Len(T)]
  BY <1>2, <1>3, ConcatProperties
<1> HIDE DEF U
<1>6. /\ \A q \in 1 .. Len(T) : U[q] = T[q]
      /\ \A i \in 1 .. Len(new) : U[Len(T) + i] = new[i]
  <2>1. \A i \in 1 .. Len(new) : Len(T) + i \in 1 .. Len(T) + Len(new) /\ ~ (Len(T) + i <= Len(T))
                                  /\ Len(T) + i - Len(T) = i
    BY <1>2, <1>3
  <2>2. \A q \in 1 .. Len(T) : q \in 1 .. Len(T) + Len(new) /\ q <= Len(T)
    BY <1>2, <1>3
  <2> QED
    BY <1>5, <2>1, <2>2
<1>7. /\ \A r \in 1 .. n : ut[r] = st[r] /\ ut[r] \in Nat
      /\ ut[n + 1] = Len(U) /\ ut \in [1 .. n + 1 -> Nat]
  <2>1. \A r \in 1 .. n : r \in 1 .. n + 1 /\ r <= n /\ st[r] \in Nat
    <3> HIDE DEF n
    <3> QED
      BY <1>1, <1>3
  <2>2. n + 1 \in 1 .. n + 1 /\ ~ (n + 1 <= n) /\ n \in 1 .. n
    BY <1>1
  <2>3. \A r \in 1 .. n + 1 : r \in 1 .. n \/ r = n + 1
    BY <1>1
  <2> HIDE DEF n
  <2> QED
    BY <1>2, <1>3, <1>5, <2>1, <2>2, <2>3
<1> HIDE DEF ut
<1>8. \A r \in 1 .. n : r \in 1 .. Len(S) \/ r = n
  BY <1>1
<1>9. \A r \in 1 .. Len(S) : Len(Tokens(S[r], r)) \in Nat /\ r \in 1 .. n /\ r + 1 \in 1 .. n
  <2>1. \A r \in 1 .. Len(S) : S[r] \in Shape /\ r \in Nat /\ r \in 1 .. n /\ r + 1 \in 1 .. n
    BY <1>1
  <2>2. \A a \in Shape, r \in Nat : Len(Tokens(a, r)) \in Nat
    BY TokenShape
  <2> QED
    BY <2>1, <2>2
<1>10. \A r \in 1 .. n : ut[r + 1] = ut[r] + Len(Tokens(V[r], r))
  <2>1. \A r \in 1 .. Len(S) : ut[r + 1] = ut[r] + Len(Tokens(V[r], r))
    BY <1>3, <1>4, <1>7, <1>9
  <2>2. ut[n + 1] = ut[n] + Len(Tokens(V[n], n))
    <3>1. n \in 1 .. n
      BY <1>1
    <3> HIDE DEF n
    <3> QED
      BY <1>3, <1>4, <1>5, <1>7, <3>1 DEF new
  <2> QED
    BY <1>8, <2>1, <2>2
<1>11. ASSUME NEW r \in 1 .. n, NEW i \in 1 .. Len(U), i \in 1 .. Len(Tokens(V[r], r))
       PROVE  U[ut[r] + i] = Tokens(V[r], r)[i]
  <2>1. CASE r \in 1 .. Len(S)
    <3>1. st[r] + Len(Tokens(S[r], r)) <= Len(T)
      <4>1. r + 1 = n \/ r + 1 < n
        BY <1>1, <2>1
      <4>2. st[r + 1] = st[r] + Len(Tokens(S[r], r)) /\ st[r + 1] \in Nat
        BY <1>3, <1>9, <2>1
      <4>3. r + 1 < n => st[r + 1] + 2 <= st[n]
        <5>1. r + 1 \in 1 .. n /\ n \in 1 .. n
          BY <1>1, <1>9, <2>1
        <5> HIDE DEF n
        <5> QED
          BY <1>3, <5>1
      <4> QED
        BY <1>3, <4>1, <4>2, <4>3
    <3>2. st[r] \in Nat /\ ut[r] = st[r] /\ V[r] = S[r]
      BY <1>3, <1>4, <1>7, <1>9, <2>1
    <3>3. i \in 1 .. Len(T) /\ st[r] + i \in 1 .. Len(T)
      <4>1. Len(Tokens(S[r], r)) \in Nat /\ i \in 1 .. Len(Tokens(S[r], r)) /\ Len(T) \in Nat
        BY <1>3, <1>9, <1>11, <2>1, <3>2
      <4> QED
        BY <3>1, <3>2, <4>1
    <3>4. T[st[r] + i] = Tokens(S[r], r)[i]
      BY <1>3, <1>11, <2>1, <3>2, <3>3
    <3> QED
      BY <1>6, <3>2, <3>3, <3>4
  <2>2. CASE r = n
    BY ZenonT(40), <1>1, <1>3, <1>4, <1>6, <1>7, <1>11, <2>2 DEF new
  <2> QED
    BY <1>8, <2>1, <2>2
<1>12. ASSUME NEW q \in 1 .. Len(U)
       PROVE  \E r \in 1 .. n : q - ut[r] \in 1 .. Len(Tokens(V[r], r))
  <2>1. CASE q <= Len(T)
    <3>1. q \in 1 .. Len(T)
      BY <1>3, <2>1
    <3>2. PICK r \in 1 .. Len(S) : q - st[r] \in 1 .. Len(Tokens(S[r], r))
      BY <1>3, <3>1
    <3>3. ut[r] = st[r] /\ V[r] = S[r] /\ r \in 1 .. n
      BY <1>4, <1>7, <1>9
    <3> QED
      BY <3>2, <3>3
  <2>2. CASE q > Len(T)
    <3>1. q - Len(T) \in 1 .. Len(new)
      BY <1>2, <1>3, <1>5, <2>2
    <3>2. ut[n] = Len(T) /\ Tokens(V[n], n) = new /\ n \in 1 .. n
      BY SMTT(30), <1>1, <1>3, <1>4, <1>7 DEF new
    <3> QED
      BY <3>1, <3>2
  <2> QED
    BY <1>3, <2>1, <2>2
<1>13. \A r, u \in 1 .. n + 1 : r < u => ut[r] + 2 <= ut[u]
  <2>1. SUFFICES ASSUME NEW r \in 1 .. n + 1, NEW u \in 1 .. n + 1, r < u
                 PROVE  ut[r] + 2 <= ut[u]
    OBVIOUS
  <2>2. r \in 1 .. n /\ ut[r] = st[r] /\ st[r] \in Nat
    BY <1>1, <1>3, <1>7, <2>1
  <2>3. CASE u \in 1 .. n
    BY <1>3, <1>7, <2>1, <2>2, <2>3
  <2>4. CASE u = n + 1
    <3>1. st[r] <= st[n]
      <4>1. r = n \/ r < n
        BY <1>1, <2>2
      <4>2. r < n => st[r] + 2 <= st[n]
        BY <1>1, <1>3, <2>2
      <4> QED
        BY <1>3, <2>2, <4>1, <4>2
    <3> QED
      BY <1>2, <1>3, <1>5, <1>7, <2>2, <2>4, <3>1
  <2> QED
    BY <1>1, <2>3, <2>4
<1>14. Stream(U, ut, V)
  BY <1>4, <1>5, <1>7, <1>10, <1>11, <1>12, <1>13 DEF Stream
<1>15. Longer(T, st, S, s, U, ut)
  BY <1>5, <1>6, <1>7, <1>14 DEF V, new, Longer
<1> QED
  BY <1>15

\* Where a request is in the stream, and how it begins.
PartOf(T, st, S, r) ==
  /\ st[r] \in Nat /\ st[r + 1] \in Nat /\ Len(T) \in Nat /\ S[r] \in Shape /\ r \in Nat
  /\ st[r] + 2 <= st[r + 1] /\ st[r + 1] <= Len(T)
  /\ st[r + 1] = st[r] + Len(Tokens(S[r], r))
  /\ \A i \in 1 .. Len(Tokens(S[r], r)) : T[st[r] + i] = Tokens(S[r], r)[i]
  /\ T[st[r] + 1].k = IF S[r].head = "control" THEN "control" ELSE "line"
  /\ S[r].head = "control" => T[st[r] + 2].k = "end"

\* A good request is its head and its body.
GoodOf(T, st, S, r) ==
  /\ st[r] \in Nat /\ S[r].body \in Nat /\ st[r + 1] = st[r] + 2 + S[r].body
  /\ T[st[r] + 1].r = r
  /\ \A i \in 1 .. S[r].body : T[st[r] + 2 + i] = Tok("body", r, i)

LEMMA StreamParts ==
  ASSUME NEW T, NEW st, NEW S \in Seq(Shape), Stream(T, st, S), NEW r \in 1 .. Len(S)
  PROVE  PartOf(T, st, S, r)
<1> DEFINE all == Tokens(S[r], r)
<1>1. S[r] \in Shape /\ r \in Nat /\ r \in 1 .. Len(S) + 1 /\ r + 1 \in 1 .. Len(S) + 1
      /\ Len(S) + 1 \in 1 .. Len(S) + 1 /\ Len(S) \in Nat
  OBVIOUS
<1>2. S[r].head \in Heads /\ S[r].body \in Nat
  BY <1>1, ShapeAssumption
<1>3. /\ Len(all) \in Nat /\ Len(all) >= 2
      /\ S[r].head \in {"ok", "malformed"} =>
              all[1] = Tok("line", r, 1) /\ all[2] = Tok("end", r, 2)
      /\ S[r].head = "control" => all[1] = Tok("control", r, 1) /\ all[2] = Tok("end", r, 2)
      /\ S[r].head = "endless" => all[1].k = "line"
  BY <1>1, TokenShape
<1>4. /\ T \in Seq(Token) /\ st \in [1 .. Len(S) + 1 -> Nat] /\ st[Len(S) + 1] = Len(T)
      /\ st[r + 1] = st[r] + Len(all)
      /\ \A i \in 1 .. Len(T) : i \in 1 .. Len(all) => T[st[r] + i] = all[i]
      /\ \A v, u \in 1 .. Len(S) + 1 : v < u => st[v] + 2 <= st[u]
  BY DEF Stream
<1> HIDE DEF all
<1>5. st[r] \in Nat /\ st[r + 1] \in Nat /\ Len(T) \in Nat /\ st[r] + 2 <= st[r + 1]
  BY <1>1, <1>3, <1>4
<1>6. st[r + 1] <= Len(T)
  <2>1. r + 1 = Len(S) + 1 \/ r + 1 < Len(S) + 1
    BY <1>1
  <2>2. r + 1 < Len(S) + 1 => st[r + 1] + 2 <= st[Len(S) + 1]
    BY <1>1, <1>4
  <2> QED
    BY <1>4, <1>5, <2>1, <2>2
<1>7. \A i \in 1 .. Len(all) : T[st[r] + i] = all[i]
  <2>1. \A i \in 1 .. Len(all) : i \in 1 .. Len(T)
    BY <1>3, <1>4, <1>5, <1>6
  <2> QED
    BY <1>4, <2>1
<1>8. T[st[r] + 1] = all[1] /\ T[st[r] + 2] = all[2]
  BY <1>3, <1>7
<1>9. \A k, i : Tok(k, r, i).k = k /\ Tok(k, r, i).r = r
  BY DEF Tok
<1>10. T[st[r] + 1].k = IF S[r].head = "control" THEN "control" ELSE "line"
  BY <1>2, <1>3, <1>8, <1>9 DEF Heads
<1>11. S[r].head = "control" => T[st[r] + 2].k = "end"
  BY <1>3, <1>8, <1>9
<1> QED
  BY <1>1, <1>4, <1>5, <1>6, <1>7, <1>10, <1>11 DEF all, PartOf

LEMMA StreamBody ==
  ASSUME NEW T, NEW st, NEW S \in Seq(Shape), Stream(T, st, S), NEW r \in 1 .. Len(S), S[r].head = "ok"
  PROVE  GoodOf(T, st, S, r)
<1> DEFINE all == Tokens(S[r], r)
<1>1. /\ st[r] \in Nat /\ S[r] \in Shape /\ r \in Nat /\ st[r + 1] = st[r] + Len(all)
      /\ \A i \in 1 .. Len(all) : T[st[r] + i] = all[i]
  BY StreamParts DEF PartOf
<1>2. S[r].body \in Nat
  BY <1>1, ShapeAssumption
<1>3. /\ Len(all) = 2 + S[r].body /\ all[1] = Tok("line", r, 1)
      /\ \A i \in 1 .. S[r].body : all[i + 2] = Tok("body", r, i)
  BY <1>1, TokenShape
<1> HIDE DEF all
<1>4. Len(all) = 2 + S[r].body
  BY <1>3
<1>5. ASSUME NEW i \in 1 .. S[r].body
      PROVE  T[st[r] + 2 + i] = Tok("body", r, i)
  <2>1. i \in Nat /\ i >= 1 /\ i <= S[r].body
    BY <1>2
  <2>2. i + 2 \in 1 .. Len(all)
    BY <1>2, <1>4, <2>1
  <2>3. st[r] + 2 + i = st[r] + (i + 2)
    BY <1>1, <2>1
  <2> QED
    BY <1>1, <1>3, <2>2, <2>3
<1>6. 1 \in 1 .. Len(all)
  BY <1>2, <1>4
<1>7. T[st[r] + 1].r = r
  BY <1>1, <1>3, <1>6 DEF Tok
<1>8. st[r] \in Nat /\ st[r + 1] = st[r] + Len(all)
  BY <1>1
<1>9. st[r + 1] = st[r] + 2 + S[r].body
  <2> DEFINE b == S[r].body
             x == st[r]
             y == st[r + 1]
  <2>1. b \in Nat /\ Len(all) = 2 + b /\ x \in Nat /\ y = x + Len(all)
    BY <1>2, <1>4, <1>8
  <2> HIDE DEF b, x, y
  <2>2. y = x + 2 + b
    BY <2>1
  <2> QED
    BY <2>2 DEF b, x, y
<1> QED
  BY <1>2, <1>5, <1>7, <1>8, <1>9 DEF GoodOf

\* Every byte of the stream belongs to a request, and nothing in it was ever parsed.
LEMMA StreamByte ==
  ASSUME NEW T, NEW st, NEW S \in Seq(Shape), Stream(T, st, S), NEW q \in 1 .. Len(T)
  PROVE  /\ T[q] \in Token /\ T[q].k \notin {"nul", "text"}
         /\ \E r \in 1 .. Len(S) : /\ q - st[r] \in 1 .. Len(Tokens(S[r], r))
                                   /\ T[q] = Tokens(S[r], r)[q - st[r]]
<1>1. PICK r \in 1 .. Len(S) : q - st[r] \in 1 .. Len(Tokens(S[r], r))
  BY DEF Stream
<1>2. T \in Seq(Token)
  BY DEF Stream
<1>3. /\ st[r] \in Nat /\ S[r] \in Shape /\ r \in Nat /\ Len(T) \in Nat
      /\ \A i \in 1 .. Len(Tokens(S[r], r)) : T[st[r] + i] = Tokens(S[r], r)[i]
  <2>1. PartOf(T, st, S, r)
    BY StreamParts
  <2> QED
    BY <2>1 DEF PartOf
<1>4. st[r] + (q - st[r]) = q
  BY <1>3
<1>5. T[q] = Tokens(S[r], r)[q - st[r]]
  BY <1>1, <1>3, <1>4
<1>6. Tokens(S[r], r)[q - st[r]].k \notin {"nul", "text"}
  BY <1>1, <1>3, TokenShape
<1> QED
  BY <1>1, <1>2, <1>5, <1>6, ElementOfSeq

\* A line with an end behind it is where a request begins.
LEMMA StreamHead ==
  ASSUME NEW T, NEW st, NEW S \in Seq(Shape), Stream(T, st, S), NEW q \in 1 .. Len(T), q + 1 \in 1 .. Len(T),
         T[q].k = "line", T[q + 1].k = "end"
  PROVE  \E r \in 1 .. Len(S) : q = st[r] + 1 /\ T[q].r = r /\ S[r].head \in {"ok", "malformed"}
<1>1. PICK r \in 1 .. Len(S) : q - st[r] \in 1 .. Len(Tokens(S[r], r)) /\ T[q] = Tokens(S[r], r)[q - st[r]]
  BY StreamByte
<1> DEFINE i   == q - st[r]
           all == Tokens(S[r], r)
<1>2. /\ st[r] \in Nat /\ st[r + 1] \in Nat /\ Len(T) \in Nat /\ S[r] \in Shape /\ r \in Nat
      /\ st[r + 1] = st[r] + Len(all)
      /\ \A j \in 1 .. Len(all) : T[st[r] + j] = all[j]
  BY StreamParts DEF PartOf
<1>3. S[r].head \in Heads
  BY <1>2, ShapeAssumption
<1>4. /\ Len(all) \in Nat
      /\ S[r].head = "endless" => \A j \in 1 .. Len(all) : all[j].k # "end"
      /\ S[r].head # "endless" => \A j \in 2 .. Len(all) : all[j].k # "line"
      /\ S[r].head = "control" => all[1] = Tok("control", r, 1)
      /\ S[r].head \in {"ok", "malformed"} => all[1] = Tok("line", r, 1)
  BY <1>2, TokenShape
<1> HIDE DEF all
<1>5. i \in 1 .. Len(all) /\ all[i].k = "line" /\ q = st[r] + i
  BY <1>1, <1>2 DEF all
<1> HIDE DEF i
<1>6. S[r].head # "endless"
  <2>1. SUFFICES ASSUME S[r].head = "endless" PROVE FALSE
    OBVIOUS
  <2>2. CASE i + 1 <= Len(all)
    <3>1. i \in Nat /\ i + 1 \in 1 .. Len(all)
      BY <1>4, <1>5, <2>2
    <3>2. q + 1 = st[r] + (i + 1)
      <4>1. st[r] \in Nat /\ q = st[r] + i
        BY <1>2, <1>5
      <4> QED
        BY <3>1, <4>1
    <3>3. T[q + 1] = all[i + 1]
      BY <1>2, <3>1, <3>2
    <3> QED
      BY <1>4, <2>1, <3>1, <3>3
  <2>3. CASE i = Len(all)
    <3>1. q = st[r + 1] /\ st[Len(S) + 1] = Len(T)
      BY <1>2, <1>5, <2>3 DEF Stream
    <3>2. Len(S) \in Nat /\ r + 1 # Len(S) + 1
      BY <1>2, <3>1
    <3>3. r + 1 \in 1 .. Len(S)
      BY <1>2, <3>2
    <3>4. T[st[r + 1] + 1].k \in {"control", "line"}
      <4> DEFINE u == r + 1
      <4>1. u \in 1 .. Len(S)
        BY <3>3
      <4> HIDE DEF u
      <4>2. PartOf(T, st, S, u)
        BY <4>1, StreamParts
      <4> QED
        BY <4>2 DEF PartOf, u
    <3> QED
      BY <3>1, <3>4
  <2> QED
    BY <1>4, <1>5, <2>2, <2>3
<1>7. i = 1
  BY <1>4, <1>5, <1>6
<1>8. all[1].k = "line" /\ all[1] = T[q]
  BY <1>1, <1>5, <1>7 DEF all, i
<1>9. S[r].head \in {"ok", "malformed"}
  BY <1>3, <1>4, <1>6, <1>8 DEF Heads, Tok
<1>10. T[q].r = r
  BY <1>4, <1>8, <1>9 DEF Tok
<1> QED
  BY <1>5, <1>7, <1>9, <1>10

\* A request that begins behind another and before the end of the next is the next.
LEMMA StreamOrder ==
  ASSUME NEW T, NEW st, NEW S \in Seq(Shape), Stream(T, st, S),
         NEW a \in 0 .. Len(S), NEW r \in 1 .. Len(S), a # 0 => st[a] < st[r],
         a = 0 => st[r] = 0, a # 0 => st[r] <= st[a + 1]
  PROVE  r = a + 1
<1>1. /\ st \in [1 .. Len(S) + 1 -> Nat] /\ st[1] = 0
      /\ \A v, u \in 1 .. Len(S) + 1 : v < u => st[v] + 2 <= st[u]
  BY DEF Stream
<1>2. Len(S) \in Nat /\ 1 \in 1 .. Len(S) + 1 /\ r \in 1 .. Len(S) + 1 /\ a + 1 \in 1 .. Len(S) + 1
      /\ (a # 0 => a \in 1 .. Len(S) + 1) /\ a \in Nat /\ r \in Nat
  OBVIOUS
<1>3. CASE a = 0
  <2>1. ~ (1 < r)
    BY <1>1, <1>2, <1>3
  <2> QED
    BY <1>2, <1>3, <2>1
<1>4. CASE a # 0
  <2>1. st[a] \in Nat /\ st[r] \in Nat /\ st[a + 1] \in Nat /\ st[a] < st[r] /\ st[r] <= st[a + 1]
    BY <1>1, <1>2, <1>4
  <2>2. ~ (r < a)
    BY <1>1, <1>2, <1>4, <2>1
  <2>3. r # a
    BY <2>1
  <2>4. ~ (a + 1 < r)
    BY <1>1, <1>2, <2>1
  <2> QED
    BY <1>2, <2>2, <2>3, <2>4
<1> QED
  BY <1>3, <1>4

\* What parse_http_message makes of the Content-Length of a good head.
ContentLen(s) == IF s.length THEN s.body ELSE IF s.posts THEN -1 ELSE 0

Malformed == \E j \in 1 .. Len(answers) : answers[j].why = "malformed"

\* The worker looks for a head, or found none; a request of its own is in the buffer.
Reading  == pc \in {"getreq", "read", "parse"} \/ (pc \in {"failed", "finish"} /\ conn.request_len <= 0)
Serving  == pc \in {"check", "handle", "body", "answer"}
OkFinish == pc = "finish" /\ conn.request_len > 0 /\ answers[Len(answers)].why = "ok"
Owned    == Serving \/ OkFinish

\* The buffer is the stream from p, what is on its way the stream from m.
Window(T, p, m) ==
  /\ p \in Nat /\ m \in Nat /\ p + conn.data_len <= m /\ m + Len(net) = Len(T)
  /\ \A j \in 1 .. Len(net) : net[j] = T[m + j]
  /\ \A j \in 1 .. BufSize :
       j <= conn.data_len /\ (Reading \/ j # conn.request_len) => conn.buf[j] = T[p + j]
  /\ ~ Owned => m = p + conn.data_len
  /\ ~ Reading => conn.request_len \in 1 .. conn.data_len

\* The buffer begins with the request that is served, and its body was read so far.
Own(st, p, m) == LET r == conn.buf[1].r IN
  /\ r \in 1 .. Len(sent) /\ sent[r].head = "ok" /\ p = st[r] /\ conn.request_len = 2
  /\ conn.content_len = ContentLen(sent[r]) /\ conn.consumed \in Nat
  /\ m = p + conn.data_len \/ (m = p + 2 + conn.consumed /\ conn.consumed <= conn.content_len)
  /\ pc \in {"check", "handle"} => conn.consumed = 0 /\ m = p + conn.data_len
  /\ pc = "body" => m = p + 2 + conn.consumed /\ conn.consumed <= conn.content_len
  /\ pc \in {"handle", "body", "answer"} => handled # <<>> /\ handled[Len(handled)] = r
  /\ pc = "handle" => got = <<>>

\* Requests 1 to a have been answered, a among them.
UpTo(a) == /\ a \in 0 .. Len(sent)
           /\ \A j \in 1 .. Len(answers) : answers[j].why = "ok" => answers[j].r \in 1 .. a
           /\ a # 0 => \E j \in 1 .. Len(answers) : answers[j].why = "ok" /\ answers[j].r = a

\* The buffer begins in the body of request a, or behind it, or behind the bad byte that the
\* next one begins with.
Between(st, p, a) ==
  \/ a = 0 /\ p = 0
  \/ a # 0 /\ sent[a].head = "ok" /\ p \in st[a] + 2 .. st[a + 1]
  \/ a < Len(sent) /\ sent[a + 1].head = "control" /\ p = st[a + 1] + 1

\* A failed read does not leave a piece of a head behind, unless the server stops.
Alone == pc \in {"failed", "finish"} /\ conn.request_len <= 0 /\ ~ stop /\ conn.data_len = 1 =>
           conn.buf[1].k \notin {"line", "end"}

Order(st, p, a) == /\ UpTo(a) /\ Alone
                   /\ Reading => Between(st, p, a)
                   /\ Serving => conn.buf[1].r = a + 1
                   /\ OkFinish => conn.buf[1].r = a

Placed(T, st, p, m) == /\ Stream(T, st, sent) /\ Window(T, p, m)
                       /\ Owned => Own(st, p, m)
                       /\ ~ Malformed => \E a : Order(st, p, a)
Place == \E T, st, p, m : Placed(T, st, p, m)

\* What the struct remembers of the last head, and the answers of the last failure.
Told ==
  /\ got \in Seq(Token) /\ handled \in Seq(Nat)
  /\ conn.info.at = 0 => conn.content_len = 0
  /\ conn.info.at \notin {0, 2} => conn.info.version = "1.0" /\ conn.info.connection = "none"
  /\ pc \in {"read", "parse", "check", "handle"} => conn.consumed = 0
  /\ (pc \in {"getreq", "read", "parse"} \/ (pc = "failed" /\ conn.request_len <= 0))
       /\ answers # <<>> /\ answers[Len(answers)].why = "unread" =>
         answers[Len(answers)].length = conn.content_len
  /\ pc = "finish" => answers # <<>>
  /\ pc = "finish" /\ conn.request_len <= 0 =>
         answers[Len(answers)].why = "unread" /\ answers[Len(answers)].length = conn.content_len
  /\ pc = "finish" /\ conn.request_len > 0 => answers[Len(answers)].why # "unread"

\* The answers of requests stay, and others come: no request is answered, no head was bad.
LEMMA UpToKept ==
  ASSUME Sourced, NEW a, UpTo(a), sent' = sent,
         answers' = answers \/ \E b \in Reply : answers' = Append(answers, b) /\ b.why # "ok"
  PROVE  UpTo(a)'
<1>1. CASE answers' = answers
  BY <1>1 DEF UpTo
<1>2. ASSUME NEW b \in Reply, answers' = Append(answers, b), b.why # "ok"
      PROVE  UpTo(a)'
  <2>1. /\ answers \in Seq(Reply) /\ Len(answers) \in Nat /\ Len(answers') = Len(answers) + 1
        /\ answers'[Len(answers) + 1] = b
        /\ \A i \in 1 .. Len(answers) : answers'[i] = answers[i]
    BY <1>2, Appended DEF Sourced
  <2>2. /\ \A i \in 1 .. Len(answers) : i \in 1 .. Len(answers')
        /\ \A i \in 1 .. Len(answers') : i \in 1 .. Len(answers) \/ i = Len(answers) + 1
    BY <2>1
  <2>3. \A j \in 1 .. Len(answers') : answers'[j].why = "ok" => answers'[j].r \in 1 .. a
    BY <1>2, <2>1, <2>2 DEF UpTo
  <2>4. a # 0 => \E j \in 1 .. Len(answers') : answers'[j].why = "ok" /\ answers'[j].r = a
    BY <2>1, <2>2 DEF UpTo
  <2> QED
    BY <2>3, <2>4 DEF UpTo
<1> QED
  BY <1>1, <1>2

\* While the worker looks for a head, nothing it does with its lengths moves the buffer.
LEMMA ReadingKept ==
  ASSUME Lengths, Lengths', Sourced, Reading, Reading', NEW T, NEW st, NEW p, NEW m, Placed(T, st, p, m),
         conn'.buf = conn.buf, conn'.data_len = conn.data_len, UNCHANGED <<net, sent>>,
         answers' = answers \/ \E b \in Reply : answers' = Append(answers, b) /\ b.why # "ok",
         \A a : UpTo(a) /\ Between(st, p, a) /\ Alone => Alone'
  PROVE  Placed(T, st, p, m)'
<1>1. ~ Owned /\ ~ Owned' /\ ~ Serving' /\ ~ OkFinish'
  <2>1. conn.request_len \in Int /\ conn'.request_len \in Int
    BY Sizes DEF Lengths
  <2> QED
    BY <2>1 DEF Reading, Owned, Serving, OkFinish
<1>2. Stream(T, st, sent)'
  BY DEF Placed, Stream
<1>3. Window(T, p, m)'
  BY <1>1 DEF Placed, Window
<1>4. ASSUME ~ Malformed'
      PROVE  \E a : Order(st, p, a)'
  <2>1. PICK a : Order(st, p, a)
    <3>1. ~ Malformed
      BY <1>4, Appended DEF Malformed, Sourced
    <3> QED
      BY <3>1 DEF Placed
  <2>2. UpTo(a)'
    BY <2>1, UpToKept DEF Order
  <2>3. Between(st, p, a) /\ Between(st, p, a)' /\ Alone'
    BY <2>1 DEF Order, Between
  <2> QED
    BY <1>1, <2>2, <2>3 DEF Order
<1> QED
  BY <1>1, <1>2, <1>3, <1>4 DEF Placed

\* A connection begins at the beginning of an empty stream.
LEMMA AcceptPlace ==
  ASSUME Lengths, Accept
  PROVE  Place'
<1> DEFINE st == [r \in {1} |-> 0]
<1>1. /\ conn'.data_len = 0 /\ pc' = "getreq" /\ net' = <<>> /\ sent' = <<>> /\ answers' = <<>>
  BY DEF Accept, Lengths
<1>2. Reading' /\ ~ Owned' /\ ~ Serving' /\ ~ OkFinish' /\ Alone'
  BY <1>1 DEF Reading, Owned, Serving, OkFinish, Alone
<1>3. Stream(<<>>, st, sent)'
  BY <1>1, StreamStarts
<1>4. Window(<<>>, 0, 0)'
  BY <1>1, <1>2 DEF Window
<1>5. UpTo(0)' /\ Between(st, 0, 0)'
  BY <1>1 DEF UpTo, Between
<1>6. Order(st, 0, 0)'
  BY <1>2, <1>5 DEF Order
<1>7. Placed(<<>>, st, 0, 0)'
  BY <1>2, <1>3, <1>4, <1>6 DEF Placed
<1> QED
  BY <1>7 DEF Place

\* What a client sends comes behind all that it sent.
LEMMA SendPlace ==
  ASSUME Lengths, Sourced, Place, NEW s \in Shape, Send(s)
  PROVE  Place'
<1>1. PICK T, st, p, m : Placed(T, st, p, m)
  BY DEF Place
<1>2. /\ sent \in Seq(Shape) /\ net \in Seq(Token) /\ Len(net) \in Nat /\ Len(sent) \in Nat
      /\ sent' = Append(sent, s) /\ net' = net \o Tokens(s, Len(sent) + 1)
      /\ UNCHANGED <<conn, pc, stop, answers, handled, got>>
  BY DEF Sourced, Send
<1>3. PICK n : n = Len(sent) + 1
  OBVIOUS
<1>4. /\ T \in Seq(Token) /\ Len(T) \in Nat /\ Stream(T, st, sent) /\ Window(T, p, m)
      /\ n \in Nat /\ Len(sent') = n
      /\ \A r \in 1 .. Len(sent) : sent'[r] = sent[r] /\ r \in 1 .. n /\ r + 1 \in 1 .. n
  BY <1>1, <1>2, <1>3 DEF Placed, Stream
<1>5. PICK U, ut, new :
        /\ new = Tokens(s, n) /\ Stream(U, ut, Append(sent, s))
        /\ \A r \in 1 .. n : ut[r] = st[r]
        /\ Len(U) = Len(T) + Len(new)
        /\ \A q \in 1 .. Len(T) : U[q] = T[q]
        /\ \A i \in 1 .. Len(new) : U[Len(T) + i] = new[i]
  <2>1. sent \in Seq(Shape) /\ Stream(T, st, sent)
    BY <1>2, <1>4
  <2>2. PICK U, ut : Longer(T, st, sent, s, U, ut)
    BY <2>1, StreamGrows
  <2> QED
    BY <1>3, <2>2 DEF Longer
<1>6. new \in Seq(Token) /\ Len(new) \in Nat
  BY <1>4, <1>5, TokensOf
<1>7. Reading' = Reading /\ Owned' = Owned /\ Serving' = Serving /\ OkFinish' = OkFinish
      /\ Malformed' = Malformed
  BY <1>2 DEF Reading, Owned, Serving, OkFinish, Malformed
<1>8. Window(U, p, m)'
  <2>1. /\ p \in Nat /\ m \in Nat /\ p + conn.data_len <= m /\ m + Len(net) = Len(T)
        /\ \A j \in 1 .. Len(net) : net[j] = T[m + j]
        /\ \A j \in 1 .. BufSize :
             j <= conn.data_len /\ (Reading \/ j # conn.request_len) => conn.buf[j] = T[p + j]
        /\ ~ Owned => m = p + conn.data_len
        /\ ~ Reading => conn.request_len \in 1 .. conn.data_len
    BY <1>4 DEF Window
  <2>2. Len(net') = Len(net) + Len(new)
        /\ \A i \in 1 .. Len(net) + Len(new) : net'[i] = IF i <= Len(net) THEN net[i] ELSE new[i - Len(net)]
    BY <1>2, <1>3, <1>5, <1>6, ConcatProperties
  <2>3. m + Len(net') = Len(U)
    <3>1. m \in Nat /\ m + Len(net) = Len(T) /\ Len(net) \in Nat /\ Len(new) \in Nat
      BY <1>2, <1>6, <2>1
    <3>2. Len(net') = Len(net) + Len(new) /\ Len(U) = Len(T) + Len(new)
      BY <1>5, <2>2
    <3> QED
      BY <3>1, <3>2
  <2>4. ASSUME NEW j \in 1 .. Len(net')
        PROVE  net'[j] = U[m + j]
    <3>1. CASE j <= Len(net)
      <4>1. j \in 1 .. Len(net) /\ m + j \in 1 .. Len(T) /\ j \in 1 .. Len(net) + Len(new)
        BY <1>2, <1>4, <1>6, <2>1, <2>2, <3>1
      <4> QED
        BY <1>5, <2>1, <2>2, <3>1, <4>1
    <3>2. CASE j > Len(net)
      <4>1. j - Len(net) \in 1 .. Len(new) /\ m + j = Len(T) + (j - Len(net))
            /\ j \in 1 .. Len(net) + Len(new) /\ ~ (j <= Len(net))
        <5>1. m \in Nat /\ m + Len(net) = Len(T) /\ j \in Nat /\ j <= Len(net) + Len(new) /\ j >= 1
          BY <1>2, <1>6, <2>1, <2>2
        <5>2. Len(net) \in Nat /\ Len(new) \in Nat
          BY <1>2, <1>6
        <5> QED
          BY <3>2, <5>1, <5>2
      <4> QED
        BY <1>5, <2>2, <4>1
    <3> QED
      BY <1>2, <3>1, <3>2
  <2>5. conn.data_len \in Nat
    BY DEF Lengths
  <2>6. \A j \in 1 .. BufSize : j <= conn.data_len => p + j \in 1 .. Len(T)
    BY <1>2, <1>4, <2>1, <2>5, Sizes
  <2>7. \A j \in 1 .. BufSize :
             j <= conn'.data_len /\ (Reading' \/ j # conn'.request_len) => conn'.buf[j] = U[p + j]
    BY <1>2, <1>5, <1>7, <2>1, <2>6
  <2> QED
    BY <1>2, <1>7, <2>1, <2>3, <2>4, <2>7 DEF Window
<1>9. ASSUME Owned' PROVE Own(ut, p, m)'
  <2>1. Own(st, p, m)
    BY <1>1, <1>7, <1>9 DEF Placed
  <2>2. conn.buf[1].r \in 1 .. Len(sent) /\ conn.buf[1].r \in 1 .. Len(sent') /\ conn'.buf[1].r = conn.buf[1].r
    BY <1>2, <1>4, <2>1 DEF Own
  <2>3. sent'[conn.buf[1].r] = sent[conn.buf[1].r] /\ ut[conn.buf[1].r] = st[conn.buf[1].r]
    BY <1>4, <1>5, <2>2
  <2> QED
    BY <1>2, <2>1, <2>2, <2>3 DEF Own
<1>10. ASSUME ~ Malformed' PROVE \E a : Order(ut, p, a)'
  <2>1. PICK a : Order(st, p, a)
    BY <1>1, <1>7, <1>10 DEF Placed
  <2>2. a \in 0 .. Len(sent) /\ UpTo(a)'
    BY <1>2, <1>4, <2>1 DEF Order, UpTo
  <2>3. /\ a # 0 => a \in 1 .. Len(sent) /\ a \in 1 .. n /\ a + 1 \in 1 .. n
        /\ a < Len(sent) => a + 1 \in 1 .. Len(sent) /\ a + 1 \in 1 .. n /\ a < Len(sent')
    BY <1>2, <1>3, <1>4, <2>2
  <2>4. Between(st, p, a) => Between(ut, p, a)'
    BY <1>4, <1>5, <2>3 DEF Between
  <2>5. Alone'
    BY <1>2, <2>1 DEF Order, Alone
  <2> QED
    BY <1>2, <1>7, <2>1, <2>2, <2>4, <2>5 DEF Order
<1>11. Placed(U, ut, p, m)'
  BY <1>2, <1>5, <1>8, <1>9, <1>10 DEF Placed
<1> QED
  BY <1>11 DEF Place

\* A client that leaves, or mg_stop, moves nothing.
LEMMA IdlePlace ==
  ASSUME Place, UNCHANGED <<conn, pc, net, sent, answers, handled, got>>, stop' = stop \/ stop'
  PROVE  Place'
<1>1. PICK T, st, p, m : Placed(T, st, p, m)
  BY DEF Place
<1>2. Reading' = Reading /\ Owned' = Owned /\ Serving' = Serving /\ OkFinish' = OkFinish
      /\ Malformed' = Malformed
  BY DEF Reading, Owned, Serving, OkFinish, Malformed
<1>3. Stream(T, st, sent)' /\ Window(T, p, m)' /\ (Own(st, p, m) => Own(st, p, m)')
  BY <1>1, <1>2 DEF Placed, Stream, Window, Own
<1>4. \A a : Order(st, p, a) => Order(st, p, a)'
  BY <1>2 DEF Order, UpTo, Alone, Between
<1>5. Placed(T, st, p, m)'
  BY <1>1, <1>2, <1>3, <1>4 DEF Placed
<1> QED
  BY <1>5 DEF Place

\* With one byte to look at, an end is a head and a line is the beginning of one.
LEMMA OneByte ==
  ASSUME NEW buf
  PROVE  /\ buf[1].k = "end" => RequestLen(buf, 1) = 1
         /\ buf[1].k = "line" => RequestLen(buf, 1) = 0
<1> DEFINE bad      == {i \in 1 .. 1 : buf[i].k \in {"control", "text"} \/ (buf[i].k = "nul" /\ i < 1)}
           ends     == {i \in 1 .. 1 : buf[i].k = "end"}
           First(Q) == CHOOSE i \in Q : \A j \in Q : i <= j
<1>1. RequestLen(buf, 1) = IF bad # {} /\ (ends = {} \/ First(bad) < First(ends)) THEN -1
                           ELSE IF ends = {} THEN 0 ELSE First(ends)
  BY DEF RequestLen
<1>2. 1 .. 1 = {1}
  OBVIOUS
<1>3. buf[1].k = "end" => bad = {} /\ ends = {1}
  BY <1>2
<1>4. buf[1].k = "line" => bad = {} /\ ends = {}
  BY <1>2
<1>5. First({1}) = 1
  OBVIOUS
<1> HIDE DEF bad, ends, First
<1> QED
  BY <1>1, <1>3, <1>4, <1>5

\* The last byte that was sent, if it is the next to be looked at, is no line.
LEMMA LastByte ==
  ASSUME Sourced, NEW T, NEW st, NEW p, Stream(T, st, sent), NEW a \in 0 .. Len(sent), Between(st, p, a),
         p \in Nat, Len(T) = p + 1
  PROVE  T[p + 1].k # "line"
<1>1. sent \in Seq(Shape) /\ Len(sent) \in Nat /\ st[1] = 0 /\ st[Len(sent) + 1] = Len(T)
  BY DEF Sourced, Stream
<1>2. ASSUME NEW r \in 1 .. Len(sent), p = st[r]
      PROVE  FALSE
  <2>1. st[r] + 2 <= st[r + 1] /\ st[r + 1] <= Len(T) /\ st[r] \in Nat /\ st[r + 1] \in Nat
    BY <1>1, StreamParts DEF PartOf
  <2> QED
    BY <1>2, <2>1
<1>3. CASE a = 0 /\ p = 0
  <2>1. Len(sent) # 0
    BY <1>1, <1>3
  <2> QED
    BY <1>1, <1>2, <1>3, <2>1
<1>4. CASE a # 0 /\ sent[a].head = "ok" /\ p \in st[a] + 2 .. st[a + 1]
  <2>1. a \in 1 .. Len(sent)
    BY <1>1, <1>4
  <2>2. /\ st[a] \in Nat /\ st[a + 1] \in Nat /\ sent[a] \in Shape
        /\ st[a + 1] = st[a] + 2 + sent[a].body
        /\ \A i \in 1 .. sent[a].body : T[st[a] + 2 + i] = Tok("body", a, i)
    <3>1. PartOf(T, st, sent, a) /\ GoodOf(T, st, sent, a)
      BY <1>1, <1>4, <2>1, StreamParts, StreamBody
    <3> QED
      BY <3>1 DEF PartOf, GoodOf
  <2>3. sent[a].body \in Nat
    BY <2>2, ShapeAssumption
  <2>4. CASE p = st[a + 1]
    <3>1. a + 1 # Len(sent) + 1
      BY <1>1, <2>2, <2>4
    <3>2. a + 1 \in 1 .. Len(sent)
      BY <1>1, <2>1, <3>1
    <3> QED
      BY <1>2, <2>4, <3>2
  <2>5. CASE p < st[a + 1]
    <3> DEFINE i == p + 1 - (st[a] + 2)
    <3>1. st[a] + 2 <= p /\ p < st[a] + 2 + sent[a].body
      BY <1>4, <2>2, <2>3, <2>5
    <3>2. i \in 1 .. sent[a].body /\ st[a] + 2 + i = p + 1
      <4>1. st[a] \in Nat
        BY <2>2
      <4> QED
        BY SMTT(30), <2>3, <3>1, <4>1
    <3> HIDE DEF i
    <3>3. T[p + 1] = Tok("body", a, i)
      BY <2>2, <3>2
    <3> QED
      BY <3>3 DEF Tok
  <2> QED
    BY <1>4, <2>2, <2>4, <2>5
<1>5. CASE a < Len(sent) /\ sent[a + 1].head = "control" /\ p = st[a + 1] + 1
  <2> DEFINE u == a + 1
  <2>1. u \in 1 .. Len(sent)
    BY <1>1, <1>5
  <2>2. sent[u].head = "control" /\ p = st[u] + 1
    BY <1>5
  <2> HIDE DEF u
  <2>3. st[u] \in Nat /\ T[st[u] + 2].k = "end"
    BY SMTT(30), <1>1, <2>1, <2>2, StreamParts DEF PartOf
  <2>4. p + 1 = st[u] + 2
    BY <2>2, <2>3
  <2> QED
    BY <2>3, <2>4
<1> QED
  BY <1>3, <1>4, <1>5 DEF Between

\* The actions of a worker that looks for a head.
LEMMA ReadingPlace ==
  ASSUME Lengths, Lengths', Sourced, Place,
         Getreq \/ PullNothing \/ ReadRequest \/ (Failed /\ conn.request_len <= 0)
  PROVE  Place'
<1>1. PICK T, st, p, m : Placed(T, st, p, m)
  BY DEF Place
<1>2. conn'.buf = conn.buf /\ conn'.data_len = conn.data_len /\ UNCHANGED <<net, sent>>
  BY QuietEffect
<1>3. conn.data_len \in Nat /\ conn.request_len \in Int
  BY Sizes DEF Lengths
<1>4. CASE Getreq
  <2>1. pc = "getreq" /\ pc' = "read" /\ answers' = answers
    BY <1>4 DEF Getreq
  <2>2. Reading /\ Reading' /\ Alone'
    BY <2>1 DEF Reading, Alone
  <2> QED
    BY <1>1, <1>2, <2>1, <2>2, ReadingKept DEF Place
<1>5. CASE PullNothing
  <2>1. /\ pc = "read" /\ pc' = "failed" /\ answers' = answers /\ conn'.request_len = -1
        /\ Incomplete /\ (net = <<>> \/ stop) /\ stop' = stop
    BY <1>5 DEF PullNothing, Lengths, client
  <2>2. Reading /\ Reading' /\ ~ Owned
    BY <2>1 DEF Reading, Owned, Serving, OkFinish
  <2>3. ASSUME NEW a, UpTo(a), Between(st, p, a)
        PROVE  Alone'
    <3>1. SUFFICES ASSUME ~ stop, conn.data_len = 1
                   PROVE  conn.buf[1].k \notin {"line", "end"}
      BY <1>2, <2>1 DEF Alone
    <3>2. p \in Nat /\ m = p + 1 /\ m + Len(net) = Len(T) /\ conn.buf[1] = T[p + 1]
      BY <1>1, <2>2, <3>1, Sizes DEF Placed, Window
    <3>3. net = <<>> /\ Len(T) = p + 1
      BY <2>1, <3>1, <3>2
    <3>4. conn.buf[1].k # "line"
      BY <1>1, <2>3, <3>2, <3>3, LastByte DEF Placed, UpTo
    <3>5. conn.buf[1].k # "end"
      BY <2>1, <3>1, OneByte DEF Incomplete
    <3> QED
      BY <3>4, <3>5
  <2> QED
    BY <1>1, <1>2, <2>1, <2>2, <2>3, ReadingKept DEF Place
<1>6. CASE ReadRequest
  <2> DEFINE len == RequestLen(conn.buf, conn.data_len)
             ret == IF len <= 0 /\ ~ pulled THEN -1 ELSE len
  <2>1. /\ pc = "read" /\ answers' = answers /\ conn'.request_len = ret /\ ~ Incomplete
        /\ pc' = IF ret <= 0 THEN "failed" ELSE "parse"
    BY <1>6 DEF ReadRequest, Lengths
  <2>2. len \in Int
    BY <1>3, RequestLenBounds
  <2>3. ~ (len = 0 /\ conn.data_len < BufSize)
    BY <2>1 DEF Incomplete
  <2> HIDE DEF len
  <2>4. Reading /\ Reading'
    BY <2>1, <2>2 DEF Reading
  <2>5. Alone'
    <3>1. SUFFICES ASSUME conn.data_len = 1, ret <= 0
                   PROVE  conn.buf[1].k \notin {"line", "end"}
      BY <1>2, <2>1 DEF Alone
    <3>2. len # 0 /\ len # 1
      BY <2>2, <2>3, <3>1, Sizes
    <3> QED
      BY <3>1, <3>2, OneByte DEF len
  <2> QED
    BY <1>1, <1>2, <2>1, <2>4, <2>5, ReadingKept DEF Place
<1>7. CASE Failed /\ conn.request_len <= 0
  <2>1. /\ pc = "failed" /\ pc' = "finish" /\ conn'.request_len = conn.request_len /\ stop' = stop
    BY <1>7 DEF Failed, Lengths, client
  <2>2. Reading /\ Reading'
    BY <1>7, <2>1 DEF Reading
  <2>3. Alone => Alone'
    BY <1>2, <2>1 DEF Alone
  <2>4. answers' = answers \/ \E b \in Reply : answers' = Append(answers, b) /\ b.why # "ok"
    BY <1>7, <2>1, AnswersEffect
  <2> QED
    BY <1>1, <1>2, <2>2, <2>3, <2>4, ReadingKept DEF Place
<1> QED
  BY <1>4, <1>5, <1>6, <1>7

\* What is pulled comes behind what is in the buffer.
LEMMA PullPlace ==
  ASSUME Lengths, Sourced, Place, Pull
  PROVE  Place'
<1>1. PICK T, st, p, m : Placed(T, st, p, m)
  BY DEF Place
<1>2. PICK n \in 1 .. Smaller(Len(net), BufSize - conn.data_len) :
        /\ conn'.data_len = conn.data_len + n
        /\ conn'.buf = [i \in 1 .. BufSize |->
                          IF i \in conn.data_len + 1 .. conn.data_len + n
                          THEN net[i - conn.data_len] ELSE conn.buf[i]]
        /\ net' = SubSeq(net, n + 1, Len(net))
  BY DEF Pull, Lengths
<1>3. pc = "read" /\ pc' = "read" /\ UNCHANGED <<sent, stop, answers>>
  BY DEF Pull
<1>4. net \in Seq(Token) /\ Len(net) \in Nat /\ conn.data_len \in Nat
  BY DEF Sourced, Lengths
<1>5. n \in Nat /\ n >= 1 /\ n <= Len(net)
  <2>1. BufSize \in Nat /\ Smaller(Len(net), BufSize - conn.data_len) \in Int
    BY <1>4, Sizes DEF Smaller
  <2>2. Smaller(Len(net), BufSize - conn.data_len) <= Len(net)
    BY <1>4, <2>1 DEF Smaller
  <2> HIDE DEF Smaller
  <2>3. n \in 1 .. Smaller(Len(net), BufSize - conn.data_len)
    OBVIOUS
  <2> QED
    BY <1>4, <2>1, <2>2, <2>3
<1>6. Len(net') = Len(net) - n /\ \A i \in 1 .. Len(net) - n : net'[i] = net[n + i] /\ n + i \in 1 .. Len(net)
  BY <1>2, <1>4, <1>5
<1>7. Reading /\ Reading' /\ ~ Owned /\ ~ Owned' /\ ~ Serving' /\ ~ OkFinish' /\ Alone' /\ Malformed' = Malformed
  BY <1>3 DEF Reading, Owned, Serving, OkFinish, Alone, Malformed
<1>8. /\ p \in Nat /\ m \in Nat /\ m = p + conn.data_len /\ m + Len(net) = Len(T)
      /\ \A j \in 1 .. Len(net) : net[j] = T[m + j]
      /\ \A j \in 1 .. BufSize : j <= conn.data_len => conn.buf[j] = T[p + j]
  BY <1>1, <1>7 DEF Placed, Window
<1>9. Window(T, p, m + n)'
  <2>1. m + n \in Nat /\ m + n = p + conn'.data_len /\ (m + n) + Len(net') = Len(T)
    <3>1. conn'.data_len = conn.data_len + n /\ Len(net') = Len(net) - n
      BY <1>2, <1>6
    <3>2. p \in Nat /\ m \in Nat /\ m = p + conn.data_len /\ m + Len(net) = Len(T)
      BY <1>8
    <3>3. Len(net) \in Nat /\ n \in Nat /\ n <= Len(net) /\ conn.data_len \in Nat
      BY <1>4, <1>5
    <3>4. m + n \in Nat
      BY <3>2, <3>3
    <3>5. m + n = p + conn'.data_len
      <4>1. p + conn.data_len + n = p + (conn.data_len + n)
        BY <3>2, <3>3
      <4> QED
        BY <3>1, <3>2, <4>1
    <3>6. (m + n) + (Len(net) - n) = m + Len(net)
      BY <3>2, <3>3
    <3> QED
      BY <3>1, <3>2, <3>4, <3>5, <3>6
  <2>2. ASSUME NEW j \in 1 .. Len(net')
        PROVE  net'[j] = T[(m + n) + j]
    <3>1. net'[j] = net[n + j] /\ n + j \in 1 .. Len(net) /\ j \in Nat
      BY <1>4, <1>5, <1>6
    <3>2. m + (n + j) = (m + n) + j
      BY <1>5, <1>8, <3>1
    <3> QED
      BY <1>8, <3>1, <3>2
  <2>3. ASSUME NEW j \in 1 .. BufSize, j <= conn'.data_len
        PROVE  conn'.buf[j] = T[p + j]
    <3>1. CASE j <= conn.data_len
      <4>1. conn'.buf[j] = conn.buf[j]
        BY <1>2, <1>4, <3>1
      <4> QED
        BY <1>8, <3>1, <4>1
    <3>2. CASE j > conn.data_len
      <4>1. j \in Nat
        BY Sizes
      <4>2. j \in conn.data_len + 1 .. conn.data_len + n /\ j - conn.data_len \in 1 .. Len(net)
            /\ m + (j - conn.data_len) = p + j
        <5>1. j <= conn.data_len + n /\ j > conn.data_len /\ j \in Nat /\ n \in Nat /\ n <= Len(net)
          BY <1>2, <1>5, <2>3, <3>2, <4>1
        <5>2. m = p + conn.data_len /\ p \in Nat
          BY <1>8
        <5> QED
          BY <1>4, <5>1, <5>2
      <4>3. conn'.buf[j] = net[j - conn.data_len]
        BY <1>2, <4>2
      <4> QED
        BY <1>8, <4>2, <4>3
    <3> QED
      BY <1>4, Sizes, <3>1, <3>2
  <2> QED
    BY <1>4, <1>7, <1>8, <2>1, <2>2, <2>3 DEF Window
<1>10. \A a : Order(st, p, a) => Order(st, p, a)'
  BY <1>3, <1>7 DEF Order, UpTo, Between
<1>11. Placed(T, st, p, m + n)'
  BY <1>1, <1>3, <1>7, <1>9, <1>10 DEF Placed
<1> QED
  BY <1>11 DEF Place

\* A head that begins the buffer is that of a request, and of the next one if it should.
LEMMA HeadIsNext ==
  ASSUME Lengths, Sourced, pc = "parse", AtHead, NEW T, NEW st, NEW p, NEW m, Stream(T, st, sent), Window(T, p, m)
  PROVE  /\ conn.buf[1].r \in 1 .. Len(sent) /\ p = st[conn.buf[1].r]
         /\ \A a \in 0 .. Len(sent) : Between(st, p, a) => conn.buf[1].r = a + 1
<1>1. sent \in Seq(Shape) /\ Len(sent) \in Nat /\ T \in Seq(Token) /\ Len(T) \in Nat
  BY DEF Sourced, Stream
<1>2. /\ conn.buf[1].k = "line" /\ conn.buf[2].k = "end" /\ conn.data_len >= 2 /\ conn.data_len \in Nat
  BY Sizes DEF AtHead, Lengths
<1>3. Reading /\ ~ Owned
  BY DEF Reading, Owned, Serving, OkFinish
<1>4. p \in Nat /\ m \in Nat /\ m = p + conn.data_len /\ m <= Len(T) /\ conn.buf[1] = T[p + 1] /\ conn.buf[2] = T[p + 2]
  <2>1. /\ p \in Nat /\ m \in Nat /\ m = p + conn.data_len /\ m + Len(net) = Len(T)
        /\ \A j \in 1 .. BufSize : j <= conn.data_len => conn.buf[j] = T[p + j]
    BY <1>3 DEF Window
  <2>2. Len(net) \in Nat /\ 1 \in 1 .. BufSize /\ 2 \in 1 .. BufSize
    BY Sizes DEF Sourced
  <2> QED
    BY SMTT(30), <1>1, <1>2, <2>1, <2>2
<1> DEFINE q == p + 1
<1>5. q \in 1 .. Len(T) /\ q + 1 \in 1 .. Len(T) /\ q + 1 = p + 2
  BY <1>1, <1>2, <1>4
<1>6. T[q].k = "line" /\ T[q + 1].k = "end"
  BY <1>2, <1>4, <1>5
<1> HIDE DEF q
<1>7. PICK r \in 1 .. Len(sent) : q = st[r] + 1 /\ T[q].r = r
  BY <1>1, <1>5, <1>6, StreamHead
<1>8. PartOf(T, st, sent, r)
  BY <1>1, StreamParts
<1>9. conn.buf[1].r = r /\ p = st[r]
  BY SMTT(30), <1>4, <1>7, <1>8 DEF q, PartOf
<1>10. ASSUME NEW a \in 0 .. Len(sent), Between(st, p, a)
       PROVE  r = a + 1
  <2>1. CASE a = 0 /\ p = 0
    BY <1>1, <1>9, <2>1, StreamOrder
  <2>2. CASE a # 0 /\ p \in st[a] + 2 .. st[a + 1]
    <3>1. a \in 1 .. Len(sent)
      BY <1>1, <2>2
    <3>2. PartOf(T, st, sent, a)
      BY <1>1, <3>1, StreamParts
    <3>3. st[a] < st[r] /\ st[r] <= st[a + 1]
      <4>1. st[a] \in Nat /\ st[a + 1] \in Nat
        BY <3>2 DEF PartOf
      <4>2. p \in st[a] + 2 .. st[a + 1] /\ p = st[r]
        BY <1>9, <2>2
      <4>3. st[a] + 2 <= p /\ p <= st[a + 1] /\ p \in Nat
        BY <1>4, <4>1, <4>2
      <4>4. st[a] < p
        BY <4>1, <4>3
      <4> QED
        BY <4>2, <4>3, <4>4
    <3> QED
      BY <1>1, <2>2, <3>3, StreamOrder
  <2>3. CASE a < Len(sent) /\ p = st[a + 1] + 1
    <3> DEFINE u == a + 1
    <3>1. u \in 1 .. Len(sent) /\ u \in Nat /\ r \in Nat
      BY <1>1, <2>3
    <3>2. PartOf(T, st, sent, u)
      BY <1>1, <3>1, StreamParts
    <3>3. st[r] = st[u] + 1 /\ st[u] \in Nat
      BY <1>9, <2>3, <3>2 DEF PartOf
    <3>4. \A v, w \in 1 .. Len(sent) + 1 : v < w => st[v] + 2 <= st[w]
      BY DEF Stream
    <3> HIDE DEF u
    <3>5. r # u /\ r \in 1 .. Len(sent) + 1 /\ u \in 1 .. Len(sent) + 1
      BY <1>1, <3>1, <3>3
    <3> QED
      BY <3>1, <3>3, <3>4, <3>5
  <2> QED
    BY <1>10, <2>1, <2>2, <2>3 DEF Between
<1> QED
  BY <1>9, <1>10

\* A good head is that of the request to be served; a bad one is answered as such.
LEMMA ParsePlace ==
  ASSUME Lengths, Sourced, Told, Place, Parse
  PROVE  Place'
<1>1. PICK T, st, p, m : Placed(T, st, p, m)
  BY DEF Place
<1>2. /\ pc = "parse" /\ conn.request_len \in 1 .. conn.data_len /\ conn.data_len \in Nat
      /\ conn.buf \in [1 .. BufSize -> Token] /\ conn.data_len <= BufSize
  BY ParseEffect, Sizes DEF Lengths, Sourced
<1>3. /\ conn'.buf = [conn.buf EXCEPT ![conn.request_len] = [conn.buf[conn.request_len] EXCEPT !.k = "text"]]
      /\ conn'.data_len = conn.data_len /\ conn'.request_len = conn.request_len
      /\ UNCHANGED <<net, sent, answers>>
  BY ParseEffect
<1> DEFINE ok == AtHead /\ Current.head = "ok"
<1>4. /\ conn'.consumed = 0 /\ pc' = IF ok THEN "check" ELSE "failed"
      /\ ok => conn'.content_len = ContentLen(Current)
      /\ UNCHANGED <<handled, got, stop>>
  BY DEF Parse, ParseWith, Lengths, Told, ContentLen, client
<1>5. Reading /\ ~ Owned /\ ~ Reading' /\ ~ OkFinish' /\ Alone' /\ (Owned' => ok) /\ (Serving' => ok)
  BY <1>2, <1>3, <1>4 DEF Reading, Owned, Serving, OkFinish, Alone
<1>6. \A j \in 1 .. BufSize : j # conn.request_len => conn'.buf[j] = conn.buf[j]
  BY <1>2, <1>3
<1>7. Window(T, p, m)'
  BY <1>1, <1>2, <1>3, <1>5, <1>6 DEF Placed, Window
<1>8. ASSUME ok
      PROVE  /\ conn'.buf[1] = conn.buf[1] /\ Own(st, p, m)'
             /\ \A a \in 0 .. Len(sent) : Between(st, p, a) => conn.buf[1].r = a + 1
  <2>1. conn.request_len = 2 /\ conn'.buf[1] = conn.buf[1]
    BY <1>6, <1>8, Sizes DEF AtHead
  <2>2. /\ conn.buf[1].r \in 1 .. Len(sent) /\ p = st[conn.buf[1].r]
        /\ \A a \in 0 .. Len(sent) : Between(st, p, a) => conn.buf[1].r = a + 1
    BY <1>1, <1>2, <1>8, HeadIsNext DEF Placed
  <2>3. m = p + conn.data_len
    BY <1>1, <1>5 DEF Placed, Window
  <2>4. pc' = "check"
    BY <1>4, <1>8
  <2> QED
    BY <1>3, <1>4, <1>8, <2>1, <2>2, <2>3, <2>4 DEF Own, Current
<1>9. ASSUME ~ Malformed' PROVE \E a : Order(st, p, a)'
  <2>1. PICK a : Order(st, p, a)
    BY <1>1, <1>3, <1>9 DEF Placed, Malformed
  <2>2. UpTo(a)' /\ a \in 0 .. Len(sent) /\ Between(st, p, a)
    BY <1>3, <1>5, <2>1 DEF Order, UpTo
  <2> QED
    BY <1>5, <1>8, <2>2 DEF Order
<1>10. Placed(T, st, p, m)'
  BY <1>1, <1>3, <1>5, <1>7, <1>8, <1>9 DEF Placed
<1> QED
  BY <1>10 DEF Place

\* While a request is served the buffer stays where it is.
LEMMA WindowKept ==
  ASSUME NEW T, NEW p, NEW m, Window(T, p, m), ~ Reading, ~ Reading', Owned' \/ ~ Owned,
         conn'.buf = conn.buf, conn'.data_len = conn.data_len, conn'.request_len = conn.request_len, net' = net
  PROVE  Window(T, p, m)'
BY DEF Window

\* A bad head ends the order of the answers.
LEMMA FailedPlace ==
  ASSUME Lengths, Sourced, Place, Failed, conn.request_len > 0
  PROVE  Place'
<1>1. PICK T, st, p, m : Placed(T, st, p, m)
  BY DEF Place
<1>2. conn'.buf = conn.buf /\ conn'.data_len = conn.data_len /\ UNCHANGED <<net, sent>>
  BY QuietEffect
<1>3. pc = "failed" /\ pc' = "finish" /\ conn'.request_len = conn.request_len /\ conn.request_len \in Int
  BY Sizes DEF Failed, Lengths
<1>4. PICK b \in Reply : answers' = Append(answers, b) /\ b.why = "malformed"
  <2>1. PICK r : r = IF conn.buf[1].k = "line" /\ conn.request_len = 2 THEN conn.buf[1].r ELSE 0
    OBVIOUS
  <2>2. r \in Nat
    BY <2>1, Sizes DEF Sourced, Token
  <2>3. Answered(r, "malformed") \in Reply /\ Answered(r, "malformed").why = "malformed"
    BY <2>2 DEF Answered, Reply, Lengths
  <2>4. ~ (conn.request_len <= 0)
    BY <1>3
  <2>5. answers' = Append(answers, Answered(r, "malformed"))
    BY <2>1, <2>3, <2>4 DEF Failed
  <2> QED
    BY <2>3, <2>5
<1>5. answers \in Seq(Reply) /\ answers'[Len(answers')] = b /\ Len(answers') \in 1 .. Len(answers')
  BY <1>4, Appended DEF Sourced
<1>6. Malformed' /\ ~ OkFinish'
  BY <1>4, <1>5 DEF Malformed, OkFinish
<1>7. ~ Reading /\ ~ Reading' /\ ~ Owned /\ ~ Owned'
  BY <1>3, <1>6 DEF Reading, Owned, Serving, OkFinish
<1>8. Stream(T, st, sent)' /\ Window(T, p, m)'
  BY <1>1, <1>2, <1>3, <1>7, WindowKept DEF Placed, Stream
<1>9. Placed(T, st, p, m)'
  BY <1>6, <1>7, <1>8 DEF Placed
<1> QED
  BY <1>9 DEF Place

\* A good answer is that of the next request.
LEMMA AnswerPlace ==
  ASSUME Lengths, Sourced, Place, Answer \/ (Check /\ pc' = "finish")
  PROVE  Place'
<1>1. PICK T, st, p, m : Placed(T, st, p, m)
  BY DEF Place
<1>2. /\ conn'.buf = conn.buf /\ conn'.data_len = conn.data_len /\ conn'.content_len = conn.content_len
      /\ UNCHANGED <<net, sent>>
  BY QuietEffect
<1>3. /\ Serving /\ pc' = "finish" /\ conn'.request_len = conn.request_len /\ conn'.consumed = conn.consumed
      /\ answers' = Append(answers, Answered(conn.buf[1].r, "ok"))
  <2>1. CASE Answer
    BY <2>1 DEF Answer, Serving, Lengths
  <2>2. CASE Check /\ pc' = "finish"
    BY <2>2 DEF Check, Serving, Lengths
  <2> QED
    BY <2>1, <2>2
<1>4. PICK r : r = conn.buf[1].r
  OBVIOUS
<1>5. Own(st, p, m) /\ Owned
  BY <1>1, <1>3 DEF Placed, Owned
<1>6. r \in 1 .. Len(sent) /\ conn.request_len = 2 /\ r \in Nat
  BY <1>4, <1>5 DEF Own
<1>7. PICK b \in Reply : answers' = Append(answers, b) /\ b.why = "ok" /\ b.r = r
  <2>1. Answered(r, "ok") \in Reply /\ Answered(r, "ok").why = "ok" /\ Answered(r, "ok").r = r
    BY <1>6 DEF Answered, Reply, Lengths
  <2> QED
    BY <1>3, <1>4, <2>1
<1>8. /\ answers \in Seq(Reply) /\ Len(answers) \in Nat /\ Len(answers') = Len(answers) + 1
      /\ answers'[Len(answers) + 1] = b
      /\ \A i \in 1 .. Len(answers) : answers'[i] = answers[i]
  BY <1>7, Appended DEF Sourced
<1>9. OkFinish' /\ Owned' /\ ~ Reading' /\ ~ Reading /\ ~ Serving' /\ Alone'
  <2>1. ~ (conn'.request_len <= 0) /\ conn'.request_len > 0
    BY <1>3, <1>6
  <2> QED
    BY <1>3, <1>7, <1>8, <2>1 DEF OkFinish, Owned, Reading, Serving, Alone
<1>10. Stream(T, st, sent)' /\ Window(T, p, m)'
  BY <1>1, <1>2, <1>3, <1>9, WindowKept DEF Placed, Stream
<1>11. Own(st, p, m)'
  BY <1>2, <1>3, <1>5 DEF Own
<1>12. ASSUME ~ Malformed' PROVE \E a : Order(st, p, a)'
  <2>1. ~ Malformed
    BY <1>8, <1>12 DEF Malformed
  <2>2. PICK a : Order(st, p, a)
    BY <1>1, <2>1 DEF Placed
  <2>3. r = a + 1 /\ UpTo(a) /\ a \in Nat
    BY <1>3, <1>4, <2>2 DEF Order, UpTo
  <2>4. /\ \A i \in 1 .. Len(answers) : i \in 1 .. Len(answers')
        /\ \A i \in 1 .. Len(answers') : i \in 1 .. Len(answers) \/ i = Len(answers) + 1
        /\ Len(answers) + 1 \in 1 .. Len(answers')
    BY <1>8
  <2>5. ASSUME NEW j \in 1 .. Len(answers'), answers'[j].why = "ok"
        PROVE  answers'[j].r \in 1 .. r
    <3>1. CASE j \in 1 .. Len(answers)
      <4>1. answers'[j].r \in 1 .. a
        BY <1>8, <2>3, <2>5, <3>1 DEF UpTo
      <4> QED
        BY <2>3, <4>1
    <3>2. CASE j = Len(answers) + 1
      BY <1>6, <1>7, <1>8, <3>2
    <3> QED
      BY <2>4, <3>1, <3>2
  <2>6. UpTo(r)'
    <3>1. \E j \in 1 .. Len(answers') : answers'[j].why = "ok" /\ answers'[j].r = r
      BY <1>7, <1>8, <2>4
    <3>2. r \in 0 .. Len(sent')
      BY <1>2, <1>6
    <3> QED
      BY <2>5, <3>1, <3>2 DEF UpTo
  <2> QED
    BY <1>2, <1>4, <1>9, <2>6 DEF Order
<1>13. Placed(T, st, p, m)'
  BY <1>9, <1>10, <1>11, <1>12 DEF Placed
<1> QED
  BY <1>13 DEF Place

\* A body is read up to its length, and its bytes are those of the request.
BodyBytes(T, st, S, r, n) == \A j \in 1 .. n : T[st[r] + 2 + j] = Tok("body", r, j)

LEMMA BodyOf ==
  ASSUME NEW T, NEW st, Stream(T, st, sent), sent \in Seq(Shape), NEW r \in 1 .. Len(sent), sent[r].head = "ok",
         NEW n \in Nat, n <= ContentLen(sent[r])
  PROVE  BodyBytes(T, st, sent, r, n)
<1>1. /\ st[r] \in Nat /\ sent[r].body \in Nat
      /\ \A i \in 1 .. sent[r].body : T[st[r] + 2 + i] = Tok("body", r, i)
  BY StreamBody DEF GoodOf
<1>2. ContentLen(sent[r]) \in {sent[r].body, -1, 0}
  BY DEF ContentLen
<1>3. \A j \in 1 .. n : j \in 1 .. sent[r].body
  BY <1>1, <1>2
<1> QED
  BY <1>1, <1>3 DEF BodyBytes

\* While a request is served no other is answered.
LEMMA ServedPlace ==
  ASSUME Lengths, Serving, Serving', UNCHANGED <<sent, answers>>, conn'.buf = conn.buf,
         NEW T, NEW st, NEW p, NEW m, Placed(T, st, p, m), NEW n, Window(T, p, n)', Own(st, p, n)'
  PROVE  Placed(T, st, p, n)'
<1>1. ~ Reading' /\ Owned' /\ ~ OkFinish' /\ Alone' /\ Malformed' = Malformed
  BY DEF Serving, Reading, Owned, OkFinish, Alone, Malformed
<1>2. Stream(T, st, sent)'
  BY DEF Placed, Stream
<1>3. \A a : Order(st, p, a) => Order(st, p, a)'
  BY <1>1 DEF Order, UpTo
<1> QED
  BY <1>1, <1>2, <1>3 DEF Placed

\* The request goes to its handler, which may read no further.
LEMMA HandledPlace ==
  ASSUME Lengths, Sourced, Told, Place, (Check /\ pc' = "handle") \/ ReadNoMore
  PROVE  Place'
<1>1. PICK T, st, p, m : Placed(T, st, p, m)
  BY DEF Place
<1>2. /\ conn'.buf = conn.buf /\ conn'.data_len = conn.data_len /\ conn'.content_len = conn.content_len
      /\ UNCHANGED <<net, sent>>
  BY QuietEffect
<1>3. conn' = conn /\ answers' = answers
  <2>1. CASE Check /\ pc' = "handle"
    BY <2>1 DEF Check
  <2>2. CASE ReadNoMore
    BY <2>2 DEF ReadNoMore
  <2> QED
    BY <2>1, <2>2
<1>4. Serving /\ Serving' /\ ~ Reading /\ ~ Reading' /\ Owned /\ Owned'
  BY DEF Check, ReadNoMore, Serving, Reading, Owned
<1>5. Own(st, p, m) /\ Window(T, p, m)
  BY <1>1, <1>4 DEF Placed
<1>6. Window(T, p, m)'
  BY <1>2, <1>3, <1>4, <1>5, WindowKept
<1>7. Own(st, p, m)'
  <2>1. CASE Check /\ pc' = "handle"
    <3>1. /\ pc = "check" /\ handled' = Append(handled, conn.buf[1].r) /\ got' = <<>> /\ handled \in Seq(Nat)
      BY <2>1 DEF Check, Told
    <3>2. handled' # <<>> /\ handled'[Len(handled')] = conn.buf[1].r
      BY <3>1
    <3> QED
      BY <1>2, <1>3, <1>5, <2>1, <3>1, <3>2 DEF Own
  <2>2. CASE ReadNoMore
    <3>1. pc = "body" /\ pc' = "answer" /\ UNCHANGED <<handled, got>>
      BY <2>2 DEF ReadNoMore
    <3> QED
      BY <1>2, <1>3, <1>5, <3>1 DEF Own
  <2> QED
    BY <2>1, <2>2
<1> QED
  BY <1>1, <1>2, <1>3, <1>4, <1>6, <1>7, ServedPlace DEF Place

\* The part of the body that came with the head.
LEMMA BufferedPlace ==
  ASSUME Lengths, Sourced, Told, Place, ReadBuffered
  PROVE  /\ Place'
         /\ \A j \in 1 .. Len(got') : got'[j] = Tok("body", handled'[Len(handled')], j)
         /\ conn'.consumed = Len(got')
<1>1. PICK T, st, p, m : Placed(T, st, p, m)
  BY DEF Place
<1>2. /\ conn'.buf = conn.buf /\ conn'.data_len = conn.data_len /\ conn'.content_len = conn.content_len
      /\ UNCHANGED <<net, sent>>
  BY QuietEffect
<1>3. /\ pc = "handle" /\ pc' \in {"body", "answer"} /\ UNCHANGED <<answers, handled>>
      /\ conn'.request_len = conn.request_len
  BY DEF ReadBuffered, Lengths
<1>4. Serving /\ Serving' /\ ~ Reading /\ ~ Reading' /\ Owned /\ Owned'
  BY <1>3 DEF Serving, Reading, Owned
<1>5. Own(st, p, m) /\ Window(T, p, m) /\ Stream(T, st, sent) /\ sent \in Seq(Shape)
  BY <1>1, <1>4 DEF Placed, Sourced
<1>6. Window(T, p, m)'
  BY <1>2, <1>3, <1>4, <1>5, WindowKept
<1>7. PICK r : r = conn.buf[1].r
  OBVIOUS
<1>8. /\ r \in 1 .. Len(sent) /\ sent[r].head = "ok" /\ p = st[r] /\ conn.request_len = 2
      /\ conn.content_len = ContentLen(sent[r]) /\ conn.consumed = 0 /\ m = p + conn.data_len
      /\ handled # <<>> /\ handled[Len(handled)] = r /\ got = <<>>
  BY <1>3, <1>5, <1>7 DEF Own
<1>9. /\ conn.data_len \in Nat /\ conn.data_len >= 2 /\ conn.data_len <= BufSize /\ BufSize \in Nat
      /\ conn.content_len \in Int /\ conn.content_len >= -1
  <2>1. conn.request_len \in 1 .. conn.data_len
    BY <1>4, <1>5 DEF Window
  <2>2. conn.data_len \in Nat /\ conn.data_len <= BufSize /\ conn.content_len \in Nat \cup {-1} /\ BufSize \in Nat
    BY <1>3, Sizes DEF Lengths
  <2> QED
    BY <1>8, <2>1, <2>2
<1>10. PICK n : n = IF Wanted <= 0 THEN 0 ELSE Smaller(Wanted, conn.data_len - conn.request_len - conn.consumed)
  OBVIOUS
<1>11. n = IF conn.content_len <= 0 THEN 0 ELSE Smaller(conn.content_len, conn.data_len - 2)
  <2>1. Wanted = conn.content_len
    BY <1>8, <1>9 DEF Wanted
  <2>2. conn.data_len - conn.request_len - conn.consumed = conn.data_len - 2
    BY <1>8, <1>9
  <2> QED
    BY <1>10, <2>1, <2>2
<1>12. /\ n \in Nat /\ n <= conn.data_len - 2 /\ (n # 0 => n <= conn.content_len)
       /\ conn.content_len > n => n = conn.data_len - 2
  BY <1>9, <1>11 DEF Smaller
<1>13. /\ got' = SubSeq(conn.buf, 3, 2 + n) /\ conn'.consumed = n
       /\ pc' = "body" => conn.content_len > n
  <2>1. /\ got' = got \o SubSeq(conn.buf, conn.request_len + conn.consumed + 1, conn.request_len + conn.consumed + n)
        /\ conn'.consumed = conn.consumed + n
        /\ pc' = IF Wanted > n THEN "body" ELSE "answer"
    BY <1>10 DEF ReadBuffered, Lengths
  <2>2. Wanted = conn.content_len
    BY <1>8, <1>9 DEF Wanted
  <2>3. conn.request_len + conn.consumed + 1 = 3 /\ conn.request_len + conn.consumed + n = 2 + n
        /\ conn.consumed + n = n
    BY <1>8, <1>12
  <2>4. conn.buf \in Seq(Token) /\ Len(conn.buf) = BufSize
    BY <1>9 DEF Sourced
  <2>5. SubSeq(conn.buf, 3, 2 + n) \in Seq(Token)
    BY <1>9, <1>12, <2>4
  <2>6. got' = SubSeq(conn.buf, 3, 2 + n)
    BY <1>8, <2>1, <2>3, <2>5
  <2> QED
    BY <2>1, <2>2, <2>3, <2>6
<1>14. Len(got') = n /\ \A j \in 1 .. n : got'[j] = conn.buf[2 + j]
  <2>1. conn.buf \in Seq(Token) /\ Len(conn.buf) = BufSize
    BY <1>9 DEF Sourced
  <2>2. 2 + n <= BufSize
    BY <1>9, <1>12
  <2>3. Len(SubSeq(conn.buf, 3, 2 + n)) = n
    BY <1>9, <1>12, <2>1, <2>2
  <2>4. \A j \in 1 .. n : SubSeq(conn.buf, 3, 2 + n)[j] = conn.buf[2 + j]
    BY <1>9, <1>12, <2>1, <2>2
  <2> QED
    BY <1>13, <2>3, <2>4
<1>15. ASSUME NEW j \in 1 .. n
       PROVE  conn.buf[2 + j] = Tok("body", r, j)
  <2>1. j \in Nat /\ 2 + j \in 1 .. BufSize /\ 2 + j <= conn.data_len /\ 2 + j # 2 /\ n # 0
    BY <1>9, <1>12
  <2>2. conn.buf[2 + j] = T[p + (2 + j)]
    BY <1>5, <1>8, <2>1 DEF Window
  <2>3. p \in Nat
    BY <1>5 DEF Window
  <2>4. p + (2 + j) = p + 2 + j
    BY <2>1, <2>3
  <2>5. n <= ContentLen(sent[r])
    BY <1>8, <1>12, <2>1
  <2>6. BodyBytes(T, st, sent, r, n)
    BY <1>5, <1>8, <1>12, <2>5, BodyOf
  <2> QED
    BY <1>8, <2>2, <2>4, <2>6 DEF BodyBytes
<1>16. Own(st, p, m)'
  <2>1. pc' = "body" => m = p + 2 + n /\ n <= conn.content_len
    <3>1. SUFFICES ASSUME pc' = "body" PROVE m = p + 2 + n /\ n <= conn.content_len
      OBVIOUS
    <3>2. conn.content_len > n
      BY <1>13, <3>1
    <3>3. n = conn.data_len - 2 /\ p \in Nat /\ m = p + conn.data_len
      BY <1>5, <1>8, <1>12, <3>2 DEF Window
    <3>4. m = p + 2 + n
      BY <1>9, <3>3
    <3> QED
      BY <1>9, <1>12, <3>2, <3>4
  <2> QED
    BY <1>2, <1>3, <1>7, <1>8, <1>12, <1>13, <2>1 DEF Own
<1>17. Place'
  BY <1>1, <1>2, <1>3, <1>4, <1>6, <1>16, ServedPlace DEF Place
<1> QED
  BY <1>3, <1>8, <1>13, <1>14, <1>15, <1>17

\* The part of the body that comes later, behind what was read.
LEMMA MorePlace ==
  ASSUME Lengths, Sourced, Told, Place, ReadMore, conn.consumed = Len(got),
         \A j \in 1 .. Len(got) : got[j] = Tok("body", handled[Len(handled)], j)
  PROVE  /\ Place'
         /\ \A j \in 1 .. Len(got') : got'[j] = Tok("body", handled'[Len(handled')], j)
         /\ conn'.consumed = Len(got')
<1>1. PICK T, st, p, m : Placed(T, st, p, m)
  BY DEF Place
<1>2. PICK n \in 1 .. Smaller(Len(net), Wanted) :
        /\ got' = got \o SubSeq(net, 1, n) /\ net' = SubSeq(net, n + 1, Len(net))
        /\ conn'.consumed = conn.consumed + n
  BY DEF ReadMore, Lengths
<1>3. /\ pc = "body" /\ pc' \in {"body", "answer"} /\ UNCHANGED <<answers, handled, sent>>
      /\ conn'.buf = conn.buf /\ conn'.data_len = conn.data_len /\ conn'.content_len = conn.content_len
      /\ conn'.request_len = conn.request_len
  BY DEF ReadMore, Lengths
<1>4. Serving /\ Serving' /\ ~ Reading /\ ~ Reading' /\ Owned /\ Owned'
  BY <1>3 DEF Serving, Reading, Owned
<1>5. Own(st, p, m) /\ Window(T, p, m) /\ Stream(T, st, sent) /\ sent \in Seq(Shape)
  BY <1>1, <1>4 DEF Placed, Sourced
<1>6. PICK r : r = conn.buf[1].r
  OBVIOUS
<1>7. PICK c, L, x : c = conn.consumed /\ L = conn.content_len /\ x = Len(net)
  OBVIOUS
<1>8. /\ r \in 1 .. Len(sent) /\ sent[r].head = "ok" /\ p = st[r] /\ conn.request_len = 2
      /\ L = ContentLen(sent[r]) /\ c \in Nat /\ m = p + 2 + c /\ c <= L
      /\ handled # <<>> /\ handled[Len(handled)] = r
  BY <1>3, <1>5, <1>6, <1>7 DEF Own
<1>9. /\ L \in Int /\ x \in Nat /\ net \in Seq(Token) /\ Len(net) = x /\ got \in Seq(Token) /\ Len(got) = c
      /\ p \in Nat /\ m \in Nat /\ m + x = Len(T) /\ p + conn.data_len <= m /\ conn.data_len \in Nat
      /\ \A j \in 1 .. x : net[j] = T[m + j]
  <2>1. L \in Int /\ got \in Seq(Token) /\ net \in Seq(Token)
    BY <1>7 DEF Lengths, Sourced, Told
  <2>2. x \in Nat /\ Len(net) = x /\ Len(got) = c
    BY <1>7, <2>1
  <2>3. conn.data_len \in Nat
    BY Sizes DEF Lengths
  <2>4. /\ p \in Nat /\ m \in Nat /\ m + x = Len(T) /\ p + conn.data_len <= m
        /\ \A j \in 1 .. x : net[j] = T[m + j]
    BY <1>5, <2>2 DEF Window
  <2> QED
    BY <2>1, <2>2, <2>3, <2>4
<1>10. /\ L \in Int /\ x \in Nat /\ p \in Nat /\ m \in Nat /\ c \in Nat /\ m = p + 2 + c /\ c <= L
       /\ conn.data_len \in Nat
  BY <1>8, <1>9
<1>11. n \in Nat /\ n >= 1 /\ n <= x /\ n <= L - c
  <2>1. Smaller(x, L - c) <= x /\ Smaller(x, L - c) <= L - c /\ Smaller(x, L - c) \in Int
    BY <1>10 DEF Smaller
  <2>2. n \in 1 .. Smaller(x, L - c)
    BY <1>2, <1>7 DEF Wanted
  <2> HIDE DEF Smaller
  <2>3. x \in Int /\ L - c \in Int
    BY <1>10
  <2> QED
    BY <2>1, <2>2, <2>3
<1>12. Len(net') = x - n /\ \A i \in 1 .. x - n : net'[i] = net[n + i] /\ n + i \in 1 .. x
  BY SMTT(30), <1>2, <1>9, <1>11
<1>13. Window(T, p, m + n)'
  <2>1. m + n \in Nat /\ (m + n) + (x - n) = m + x /\ p + conn.data_len <= m + n
    BY SMTT(30), <1>9, <1>11
  <2>2. ASSUME NEW j \in 1 .. Len(net')
        PROVE  net'[j] = T[(m + n) + j]
    <3>1. net'[j] = net[n + j] /\ n + j \in 1 .. x /\ j \in Nat
      BY <1>9, <1>11, <1>12
    <3>2. m + (n + j) = (m + n) + j
      BY <1>9, <1>11, <3>1
    <3> QED
      BY <1>9, <3>1, <3>2
  <2>3. (m + n) + Len(net') = Len(T)
    BY <1>9, <1>12, <2>1
  <2> QED
    BY <1>3, <1>4, <1>5, <1>9, <2>1, <2>2, <2>3 DEF Window
<1>14. c + n \in Nat /\ c + n <= L /\ m + n = p + 2 + (c + n)
  BY <1>11, <1>10
<1>15. Own(st, p, m + n)'
  BY <1>2, <1>3, <1>6, <1>7, <1>8, <1>14 DEF Own
<1>16. Place'
  BY <1>1, <1>3, <1>4, <1>13, <1>15, ServedPlace DEF Place
<1>17. BodyBytes(T, st, sent, r, c + n)
  BY <1>5, <1>8, <1>14, BodyOf
<1> DEFINE part == SubSeq(net, 1, n)
<1>18. part \in Seq(Token) /\ Len(part) = n /\ \A j \in 1 .. n : part[j] = net[j]
  BY SMTT(30), <1>9, <1>11
<1>19. got' = got \o part
  BY <1>2
<1> HIDE DEF part
<1>20. /\ Len(got') = c + n
       /\ \A j \in 1 .. c + n : got'[j] = IF j <= c THEN got[j] ELSE part[j - c]
  <2>1. /\ Len(got') = Len(got) + Len(part)
        /\ \A j \in 1 .. Len(got) + Len(part) : got'[j] = IF j <= Len(got) THEN got[j] ELSE part[j - Len(got)]
    <3>1. got \in Seq(Token) /\ part \in Seq(Token)
      BY <1>9, <1>18
    <3>2. Len(got \o part) = Len(got) + Len(part)
          /\ \A j \in 1 .. Len(got) + Len(part) : (got \o part)[j] = IF j <= Len(got) THEN got[j] ELSE part[j - Len(got)]
      BY <3>1, ConcatProperties
    <3> QED
      BY <1>19, <3>2
  <2> QED
    BY <1>9, <1>18, <2>1
<1>21. ASSUME NEW j \in 1 .. c + n
       PROVE  got'[j] = Tok("body", r, j)
  <2>1. j \in Nat /\ j >= 1 /\ j <= c + n
    BY <1>14
  <2>2. CASE j <= c
    <3>1. j \in 1 .. Len(got)
      BY <1>8, <1>9, <2>1, <2>2
    <3> QED
      BY <1>8, <1>20, <2>2, <3>1
  <2>3. CASE ~ (j <= c)
    <3>1. j - c \in 1 .. n /\ j - c \in 1 .. x
      BY <1>8, <1>9, <1>11, <2>1, <2>3
    <3>2. got'[j] = T[m + (j - c)]
      BY <1>9, <1>18, <1>20, <2>3, <3>1
    <3>3. m + (j - c) = p + 2 + j
      BY <1>10, <2>1
    <3>4. T[p + 2 + j] = Tok("body", r, j)
      BY <1>8, <1>17 DEF BodyBytes
    <3> QED
      BY <3>2, <3>3, <3>4
  <2> QED
    BY <2>2, <2>3
<1>22. conn'.consumed = Len(got')
  BY <1>2, <1>7, <1>20
<1>23. \A j \in 1 .. Len(got') : got'[j] = Tok("body", handled'[Len(handled')], j)
  BY <1>3, <1>8, <1>20, <1>21
<1> QED
  BY <1>16, <1>22, <1>23

\* What the end of a pass leaves in the buffer is the stream from a later place.
LEMMA LeftWindow ==
  ASSUME Lengths, Finish, pc' = "getreq", NEW T, NEW p, NEW m, Window(T, p, m),
         NEW d \in Nat, d = DiscardLen, d <= conn.data_len, Reading \/ conn.request_len <= d,
         NEW q \in Nat, q + (conn.data_len - d) = m, d = conn.data_len \/ q = p + d
  PROVE  Window(T, q, m)'
<1>1. /\ conn'.buf = Moved(d) /\ conn'.data_len = conn.data_len - d /\ net' = net
  BY FinishEffect
<1>2. conn.data_len \in Nat /\ BufSize \in Nat /\ conn.request_len \in Int /\ conn.data_len <= BufSize
  BY FinishEffect, Sizes DEF Lengths
<1>3. Reading' /\ ~ Owned'
  BY DEF Reading, Owned, Serving, OkFinish
<1>4. ASSUME NEW j \in 1 .. BufSize, j <= conn'.data_len
      PROVE  conn'.buf[j] = T[q + j]
  <2>1. j \in Nat /\ j >= 1 /\ j <= conn.data_len - d
    BY <1>1, <1>2, <1>4
  <2>2. d # conn.data_len
    BY <1>2, <2>1
  <2>3. j + d \in 1 .. BufSize /\ j + d <= conn.data_len /\ j + d # 0 /\ ~ (j > conn.data_len - d)
        /\ (Reading \/ j + d # conn.request_len)
    BY <1>2, <2>1
  <2>4. conn'.buf[j] = conn.buf[j + d]
    BY <1>1, <2>3 DEF Moved
  <2>5. conn.buf[j + d] = T[p + (j + d)]
    BY <2>3 DEF Window
  <2>6. p \in Nat /\ q = p + d
    BY <2>2 DEF Window
  <2>7. p + (j + d) = q + j
    BY <2>1, <2>6
  <2> QED
    BY <2>4, <2>5, <2>7
<1>5. m \in Nat /\ m + Len(net) = Len(T) /\ \A j \in 1 .. Len(net) : net[j] = T[m + j]
  BY DEF Window
<1>6. q + conn'.data_len = m
  BY <1>1
<1>7. m <= m
  BY <1>5
<1> QED
  BY <1>1, <1>3, <1>4, <1>5, <1>6, <1>7 DEF Window

\* The next byte of a connection, if it begins no head, does not end the order.
LEMMA BetweenNext ==
  ASSUME Sourced, NEW T, NEW st, NEW p \in Nat, Stream(T, st, sent), NEW a \in 0 .. Len(sent), Between(st, p, a),
         p + 1 \in 1 .. Len(T), T[p + 1].k \notin {"line", "end"}
  PROVE  Between(st, p + 1, a)
<1>1. sent \in Seq(Shape) /\ Len(sent) \in Nat /\ st[1] = 0 /\ st[Len(sent) + 1] = Len(T) /\ Len(T) \in Nat
  BY DEF Sourced, Stream
<1>2. ASSUME NEW r \in 1 .. Len(sent), p = st[r]
      PROVE  sent[r].head = "control"
  <2>1. T[st[r] + 1].k = IF sent[r].head = "control" THEN "control" ELSE "line"
    BY <1>1, StreamParts DEF PartOf
  <2> QED
    BY <1>2, <2>1
<1>3. CASE a = 0 /\ p = 0
  <2>1. Len(sent) # 0
    BY <1>1, <1>3
  <2>2. 1 \in 1 .. Len(sent) /\ a + 1 = 1 /\ a < Len(sent)
    BY <1>1, <1>3, <2>1
  <2>3. sent[1].head = "control"
    BY <1>1, <1>2, <1>3, <2>2
  <2> QED
    BY <1>1, <1>3, <2>2, <2>3 DEF Between
<1>4. CASE a # 0 /\ sent[a].head = "ok" /\ p \in st[a] + 2 .. st[a + 1]
  <2>1. a \in 1 .. Len(sent)
    BY <1>1, <1>4
  <2>2. st[a] \in Nat /\ st[a + 1] \in Nat
    BY <1>1, <2>1, StreamParts DEF PartOf
  <2>3. CASE p = st[a + 1]
    <3>1. a + 1 # Len(sent) + 1
      BY <1>1, <2>3
    <3>2. a + 1 \in 1 .. Len(sent) /\ a < Len(sent)
      BY <1>1, <2>1, <3>1
    <3>3. sent[a + 1].head = "control"
      BY <1>2, <2>3, <3>2
    <3> QED
      BY <2>3, <3>2, <3>3 DEF Between
  <2>4. CASE p # st[a + 1]
    <3>1. p + 1 \in st[a] + 2 .. st[a + 1]
      BY <1>4, <2>2, <2>4
    <3> QED
      BY <1>4, <3>1 DEF Between
  <2> QED
    BY <2>3, <2>4
<1>5. CASE a < Len(sent) /\ sent[a + 1].head = "control" /\ p = st[a + 1] + 1
  <2> DEFINE u == a + 1
  <2>1. u \in 1 .. Len(sent)
    BY <1>1, <1>5
  <2>2. sent[u].head = "control" /\ p = st[u] + 1
    BY <1>5
  <2> HIDE DEF u
  <2>3. st[u] \in Nat /\ T[st[u] + 2].k = "end"
    BY <1>1, <2>1, <2>2, StreamParts DEF PartOf
  <2>4. p + 1 = st[u] + 2
    BY <2>2, <2>3
  <2> QED
    BY <2>3, <2>4
<1> QED
  BY <1>3, <1>4, <1>5 DEF Between

\* After a failed read that keeps the connection, nothing but a last byte is discarded.
LEMMA FailedKeeps ==
  ASSUME Lengths, Sourced, Told, ~ Failing, Finish, pc' = "getreq", conn.request_len <= 0,
         NEW T, NEW p, NEW m, Window(T, p, m), NEW st, Stream(T, st, sent)
  PROVE  /\ conn.data_len \in {0, 1} /\ ~ stop
         /\ DiscardLen \in {0, conn.data_len}
<1>1. pc = "finish" /\ conn.data_len \in Nat /\ conn.data_len <= BufSize
      /\ conn.request_len \in {-1, 0} /\ conn.content_len \in Nat \cup {-1}
  BY FinishEffect, Sizes DEF Lengths
<1>2. ~ stop /\ conn.content_len >= 0 /\ ShouldKeepAlive
  BY DEF Finish, FinishWith
<1>3. conn.content_len # 0
  <2>1. answers # <<>> /\ answers[Len(answers)].why = "unread" /\ answers[Len(answers)].length = conn.content_len
    BY <1>1 DEF Told
  <2>2. Len(answers) \in 1 .. Len(answers)
    BY <2>1 DEF Sourced
  <2> QED
    BY <2>1, <2>2 DEF Failing
<1>4. conn.info.at = 2 /\ conn.buf[2].k = "text"
  BY <1>2, <1>3 DEF Told, ShouldKeepAlive, Unset, Intact
<1>5. conn.data_len < 2
  <2>1. SUFFICES ASSUME conn.data_len >= 2 PROVE FALSE
    BY <1>1
  <2>2. Reading /\ ~ Owned
    BY <1>1 DEF Reading, Owned, Serving, OkFinish
  <2>3. 2 \in 1 .. BufSize /\ 2 <= conn.data_len
    BY <2>1, Sizes
  <2>4. conn.buf[2] = T[p + 2]
    BY <2>2, <2>3 DEF Window
  <2>5. p \in Nat /\ m \in Nat /\ p + conn.data_len <= m /\ m + Len(net) = Len(T) /\ Len(net) \in Nat
    BY DEF Window, Sourced
  <2>6. p + 2 \in 1 .. Len(T)
    BY <1>1, <2>1, <2>5
  <2>7. sent \in Seq(Shape)
    BY DEF Sourced
  <2> DEFINE q == p + 2
  <2>8. q \in 1 .. Len(T) /\ conn.buf[2] = T[q]
    BY <2>4, <2>6
  <2> HIDE DEF q
  <2>9. T[q].k \notin {"nul", "text"}
    BY <2>7, <2>8, StreamByte
  <2> QED
    BY <1>4, <2>8, <2>9
<1>6. conn.data_len \in {0, 1}
  BY <1>1, <1>5
<1>7. DiscardLen \in {0, conn.data_len}
  BY <1>1, <1>2, <1>3, <1>6 DEF DiscardLen
<1> QED
  BY <1>2, <1>6, <1>7

\* The end of a pass cuts the stream between two requests, unless a head was bad.
LEMMA FinishPlace ==
  ASSUME Lengths, Sourced, Told, ~ Failing, Place, Finish, pc' = "getreq"
  PROVE  Place'
<1>1. PICK T, st, p, m : Placed(T, st, p, m)
  BY DEF Place
<1>2. pc = "finish" /\ UNCHANGED <<sent, answers>> /\ Malformed' = Malformed
  BY FinishEffect DEF Malformed
<1>3. Reading' /\ ~ Owned' /\ ~ Serving' /\ ~ OkFinish' /\ Alone'
  BY DEF Reading, Owned, Serving, OkFinish, Alone
<1>4. Window(T, p, m) /\ Stream(T, st, sent) /\ Stream(T, st, sent)' /\ sent \in Seq(Shape)
  BY <1>1, <1>2 DEF Placed, Stream, Sourced
<1>5. /\ conn.data_len \in Nat /\ conn.data_len <= BufSize /\ BufSize \in Nat /\ BufSize >= 2
      /\ conn.request_len \in Int /\ conn.content_len \in Nat
      /\ p \in Nat /\ m \in Nat /\ p + conn.data_len <= m
  <2>1. conn.content_len >= 0
    BY DEF Finish, FinishWith
  <2>2. conn.content_len \in Nat \cup {-1}
    BY DEF Lengths
  <2> QED
    BY <1>2, <1>4, <2>1, <2>2, Sizes DEF Lengths, Window
<1>6. SUFFICES \E q \in Nat : Window(T, q, m)' /\ (~ Malformed => \E a : UpTo(a) /\ Between(st, q, a))
  <2>1. PICK q \in Nat : Window(T, q, m)' /\ (~ Malformed => \E a : UpTo(a) /\ Between(st, q, a))
    BY <1>6
  <2>2. \A a : UpTo(a) /\ Between(st, q, a) => Order(st, q, a)'
    BY <1>2, <1>3 DEF Order, UpTo, Between
  <2>3. Placed(T, st, q, m)'
    BY <1>2, <1>3, <1>4, <2>1, <2>2 DEF Placed
  <2> QED
    BY <2>3 DEF Place
<1>7. PICK d : d = DiscardLen
  OBVIOUS
<1>8. d = IF conn.request_len + conn.content_len < conn.data_len
          THEN conn.request_len + conn.content_len ELSE conn.data_len
  BY <1>5, <1>7 DEF DiscardLen
<1>9. CASE OkFinish
  <2>1. Own(st, p, m) /\ conn.request_len \in 1 .. conn.data_len /\ ~ Reading
    <3>1. ~ Reading
      BY <1>2, <1>5, <1>9 DEF Reading, OkFinish
    <3> QED
      BY <1>1, <1>4, <1>9, <3>1 DEF Placed, Owned, Window
  <2>2. PICK r, c, L, b : r = conn.buf[1].r /\ c = conn.consumed /\ L = conn.content_len /\ b = sent[r].body
    OBVIOUS
  <2>3. /\ r \in 1 .. Len(sent) /\ sent[r].head = "ok" /\ p = st[r] /\ conn.request_len = 2
        /\ L = ContentLen(sent[r]) /\ c \in Nat
        /\ m = p + conn.data_len \/ (m = p + 2 + c /\ c <= L)
    BY <2>1, <2>2 DEF Own
  <2>4. b \in Nat /\ L \in Nat /\ L <= b /\ st[r + 1] = p + 2 + b
    <3>1. GoodOf(T, st, sent, r)
      BY <1>4, <2>3, StreamBody
    <3>2. b \in Nat /\ st[r + 1] = p + 2 + b
      BY <2>2, <2>3, <3>1 DEF GoodOf
    <3>3. L \in {b, -1, 0}
      BY <2>2, <2>3 DEF ContentLen
    <3> QED
      BY <1>5, <2>2, <3>2, <3>3
  <2>5. d = IF 2 + L < conn.data_len THEN 2 + L ELSE conn.data_len
    BY <1>8, <2>2, <2>3
  <2>6. conn.data_len >= 2
    BY <1>5, <2>1, <2>3
  <2>7. d \in Nat /\ d <= conn.data_len /\ conn.request_len <= d
    <3>1. conn.data_len \in Nat /\ L \in Nat /\ conn.request_len = 2
      BY <1>5, <2>3, <2>4
    <3> QED
      BY <2>5, <2>6, <3>1
  <2>8. PICK q : q = m - (conn.data_len - d)
    OBVIOUS
  <2>9. /\ q \in Nat /\ q + (conn.data_len - d) = m /\ (d = conn.data_len \/ q = p + d)
        /\ q \in p + 2 .. p + 2 + b
    <3>1. PICK x : x = conn.data_len
      OBVIOUS
    <3>2. /\ x \in Nat /\ x >= 2 /\ L \in Nat /\ b \in Nat /\ c \in Nat /\ L <= b /\ p \in Nat /\ m \in Nat
          /\ p + x <= m /\ q = m - (x - d) /\ d = (IF 2 + L < x THEN 2 + L ELSE x)
          /\ m = p + x \/ (m = p + 2 + c /\ c <= L)
      BY <1>5, <2>3, <2>4, <2>5, <2>6, <2>8, <3>1
    <3>3. CASE 2 + L < x
      <4>1. d = 2 + L /\ m = p + x
        BY <3>2, <3>3
      <4>2. q = p + 2 + L
        BY <3>2, <4>1
      <4> QED
        BY <3>1, <3>2, <4>1, <4>2
    <3>4. CASE ~ (2 + L < x)
      <4>1. d = x /\ q = m
        BY <3>2, <3>4
      <4>2. m >= p + 2 /\ m <= p + 2 + L
        BY <3>2, <3>4
      <4> QED
        BY <3>1, <3>2, <4>1, <4>2
    <3> QED
      BY <3>3, <3>4
  <2>10. Window(T, q, m)'
    BY <1>4, <1>7, <2>7, <2>9, LeftWindow
  <2>11. ASSUME ~ Malformed PROVE \E a : UpTo(a) /\ Between(st, q, a)
    <3>1. PICK a : Order(st, p, a)
      BY <1>1, <2>11 DEF Placed
    <3>2. a = r /\ UpTo(a)
      BY <1>9, <2>2, <3>1 DEF Order
    <3>3. r # 0 /\ q \in st[r] + 2 .. st[r + 1]
      BY <2>3, <2>4, <2>9
    <3> QED
      BY <2>3, <3>2, <3>3 DEF Between
  <2> QED
    BY <2>9, <2>10, <2>11
<1>10. CASE conn.request_len > 0 /\ ~ OkFinish
  <2>1. Malformed
    <3>1. answers # <<>> /\ answers[Len(answers)].why \notin {"ok", "unread"}
      BY <1>2, <1>10 DEF Told, OkFinish
    <3>2. answers \in Seq(Reply) /\ Len(answers) \in 1 .. Len(answers)
      BY <3>1 DEF Sourced
    <3>3. answers[Len(answers)] \in Reply
      BY <3>2
    <3> QED
      BY <3>1, <3>2, <3>3 DEF Malformed, Reply
  <2>2. ~ Reading /\ ~ Owned
    BY <1>2, <1>5, <1>10 DEF Reading, Owned, Serving
  <2>3. m = p + conn.data_len /\ conn.request_len \in 1 .. conn.data_len
    BY <1>4, <2>2 DEF Window
  <2>4. d \in Nat /\ d <= conn.data_len /\ conn.request_len <= d
    BY <1>5, <1>8, <2>3
  <2>5. p + d \in Nat /\ (p + d) + (conn.data_len - d) = m
    BY <1>5, <2>3, <2>4
  <2>6. Window(T, p + d, m)'
    BY <1>4, <1>7, <2>4, <2>5, LeftWindow
  <2> QED
    BY <2>1, <2>5, <2>6
<1>11. CASE conn.request_len <= 0
  <2>1. conn.data_len \in {0, 1} /\ ~ stop /\ d \in {0, conn.data_len}
    BY <1>4, <1>7, <1>11, FailedKeeps
  <2>2. Reading /\ ~ Owned
    BY <1>2, <1>5, <1>11 DEF Reading, Owned, Serving, OkFinish
  <2>3. m = p + conn.data_len
    BY <1>4, <2>2 DEF Window
  <2>4. d \in Nat /\ d <= conn.data_len /\ p + d \in Nat /\ (p + d) + (conn.data_len - d) = m
    BY <1>5, <2>1, <2>3
  <2>5. Window(T, p + d, m)'
    BY <1>4, <1>7, <2>2, <2>4, LeftWindow
  <2>6. ASSUME ~ Malformed PROVE \E a : UpTo(a) /\ Between(st, p + d, a)
    <3>1. PICK a : Order(st, p, a)
      BY <1>1, <2>6 DEF Placed
    <3>2. UpTo(a) /\ Between(st, p, a) /\ Alone /\ a \in 0 .. Len(sent)
      BY <2>2, <3>1 DEF Order, UpTo
    <3>3. CASE d = 0
      <4>1. p + d = p
        BY <1>5, <3>3
      <4> QED
        BY <3>2, <4>1
    <3>4. CASE d = 1
      <4>1. conn.data_len = 1 /\ 1 \in 1 .. BufSize
        BY <1>5, <2>1, <3>4
      <4>2. conn.buf[1].k \notin {"line", "end"}
        BY <1>2, <1>11, <2>1, <3>2, <4>1 DEF Alone
      <4>3. conn.buf[1] = T[p + 1]
        BY <1>4, <2>2, <4>1 DEF Window
      <4>4. p + 1 \in 1 .. Len(T)
        <5>1. m + Len(net) = Len(T) /\ Len(net) \in Nat
          BY <1>4 DEF Window, Sourced
        <5>2. m = p + 1
          BY <2>3, <4>1
        <5> QED
          BY <1>5, <5>1, <5>2
      <4>5. Between(st, p + 1, a)
        BY <1>4, <1>5, <3>2, <4>2, <4>3, <4>4, BetweenNext
      <4> QED
        BY <3>2, <3>4, <4>5
    <3> QED
      BY <2>1, <3>3, <3>4
  <2> QED
    BY <2>4, <2>5, <2>6
<1> QED
  BY <1>5, <1>9, <1>10, <1>11

\* The answers after any step: the same, none, or one more.
LEMMA AnswersAfter ==
  ASSUME Lengths, Sourced, [Next]_vars
  PROVE  \/ Accept /\ answers' = <<>>
         \/ ~ Accept /\ ~ (Failed \/ Check \/ Answer) /\ answers' = answers
         \/ (Failed \/ Check \/ Answer) /\
            \/ answers' = answers
            \/ \E a \in Reply : /\ answers' = Append(answers, a)
                                /\ a.why = "ok" <=> pc # "failed"
<1>1. CASE Failed \/ Check \/ Answer
  BY <1>1, AnswersEffect
<1>2. CASE Accept
  BY <1>2 DEF Accept
<1>3. CASE ~ (Failed \/ Check \/ Answer) /\ ~ Accept
  BY <1>3, FinishEffect
     DEF Next, Worker, vars, Send, Leave, Stop, Getreq, Pull, PullNothing, ReadRequest,
         Parse, ParseWith, ReadBuffered, ReadMore, ReadNoMore
<1> QED
  BY <1>1, <1>2, <1>3

\* A connection that fails goes on failing.
LEMMA FailingStays ==
  ASSUME Lengths, Sourced, [Next]_vars, ~ Accept, Failing
  PROVE  Failing'
<1>1. CASE answers' = answers
  BY <1>1 DEF Failing
<1>2. ASSUME NEW a \in Reply, answers' = Append(answers, a)
      PROVE  Failing'
  <2>1. /\ answers \in Seq(Reply) /\ Len(answers') = Len(answers) + 1
        /\ \A i \in 1 .. Len(answers) : answers'[i] = answers[i]
    BY <1>2, Appended DEF Sourced
  <2>2. \A i \in 1 .. Len(answers) : i \in 1 .. Len(answers')
    BY <2>1
  <2> QED
    BY <2>1, <2>2 DEF Failing
<1> QED
  BY <1>1, <1>2, AnswersAfter

\* What the struct remembers, step by step.
LEMMA ToldStep ==
  ASSUME Lengths, Lengths', Sourced, Freed, Told, BodyExact, [Next]_vars
  PROVE  Told'
<1>1. CASE (\E s \in Shape : Send(s)) \/ Leave \/ Stop \/ UNCHANGED vars
  <2>1. UNCHANGED <<conn, pc, answers, got, handled>>
    BY <1>1 DEF Send, Leave, Stop, vars
  <2> QED
    BY <2>1 DEF Told
<1>2. CASE Accept
  <2>1. /\ pc' = "getreq" /\ answers' = <<>> /\ got' = <<>> /\ handled' = <<>>
        /\ conn'.info = conn.info /\ conn'.content_len = conn.content_len
    BY <1>2 DEF Accept, Lengths
  <2> QED
    BY <2>1 DEF Told
<1>3. CASE Getreq \/ PullNothing
  <2>1. CASE Getreq
    <3>1. /\ pc = "getreq" /\ pc' = "read" /\ conn'.consumed = 0 /\ UNCHANGED <<answers, got, handled>>
          /\ conn'.info = conn.info /\ conn'.content_len = conn.content_len
      BY <2>1 DEF Getreq, Lengths
    <3> QED
      BY <3>1 DEF Told
  <2>2. CASE PullNothing
    <3>1. /\ pc = "read" /\ pc' = "failed" /\ UNCHANGED <<answers, got, handled>>
          /\ conn'.info = conn.info /\ conn'.content_len = conn.content_len
      BY <2>2 DEF PullNothing, Lengths
    <3> QED
      BY <3>1 DEF Told
  <2> QED
    BY <1>3, <2>1, <2>2
<1>4. CASE Pull
  <2>1. /\ pc = "read" /\ pc' = "read" /\ conn'.consumed = conn.consumed /\ UNCHANGED <<answers, got, handled>>
        /\ conn'.info = conn.info /\ conn'.content_len = conn.content_len
    BY <1>4 DEF Pull, Lengths
  <2> QED
    BY <2>1 DEF Told
<1>5. CASE ReadRequest
  <2>1. /\ pc = "read" /\ pc' \in {"failed", "parse"} /\ conn'.consumed = conn.consumed
        /\ UNCHANGED <<answers, got, handled>>
        /\ conn'.info = conn.info /\ conn'.content_len = conn.content_len
    BY <1>5 DEF ReadRequest, Lengths
  <2> QED
    BY <2>1 DEF Told
<1>6. CASE Parse
  <2>1. /\ pc = "parse" /\ pc' \in {"check", "failed"} /\ conn'.consumed = conn.consumed
        /\ UNCHANGED <<answers, got, handled>> /\ conn'.info.at = conn.request_len
        /\ conn.request_len \in 1 .. conn.data_len /\ conn'.request_len = conn.request_len
        /\ conn'.info.version = IF AtHead THEN Current.version ELSE "1.0"
        /\ conn'.info.connection = IF AtHead /\ Current.head = "ok" THEN Current.connection ELSE "none"
    BY <1>6 DEF Parse, ParseWith, Lengths
  <2>2. ~ (conn'.info.at = 0) /\ ~ (conn'.request_len <= 0)
    BY <2>1, Sizes DEF Lengths
  <2>3. conn'.info.at \notin {0, 2} => ~ AtHead
    BY <2>1 DEF AtHead
  <2> QED
    BY <2>1, <2>2, <2>3 DEF Told
<1>7. CASE Failed
  <2>1. /\ pc = "failed" /\ pc' = "finish" /\ UNCHANGED <<got, handled>> /\ conn'.request_len = conn.request_len
        /\ conn'.info = conn.info /\ conn'.content_len = conn.content_len /\ answers \in Seq(Reply)
        /\ conn.request_len \in Int
    BY <1>7, Sizes DEF Failed, Lengths, Sourced
  <2>2. CASE conn.request_len <= 0
    <3>1. CASE answers # <<>> /\ answers[Len(answers)].why = "unread"
      <4>1. answers' = answers
        BY <1>7, <2>2, <3>1 DEF Failed, Answered
      <4> QED
        BY <2>1, <2>2, <3>1, <4>1 DEF Told
    <3>2. CASE ~ (answers # <<>> /\ answers[Len(answers)].why = "unread")
      <4>1. answers' = Append(answers, Answered(0, "unread"))
        BY <1>7, <2>2, <3>2 DEF Failed, Answered
      <4>2. Answered(0, "unread") \in Reply /\ Answered(0, "unread").why = "unread"
            /\ Answered(0, "unread").length = conn.content_len
        BY DEF Answered, Reply, Lengths
      <4>3. answers' # <<>> /\ answers'[Len(answers')] = Answered(0, "unread")
        BY <2>1, <4>1, <4>2
      <4> QED
        BY <2>1, <2>2, <4>2, <4>3 DEF Told
    <3> QED
      BY <3>1, <3>2
  <2>3. CASE ~ (conn.request_len <= 0)
    <3>1. PICK b : answers' = Append(answers, b) /\ b.why = "malformed"
      BY <1>7, <2>3 DEF Failed, Answered
    <3>2. answers' # <<>> /\ answers'[Len(answers')] = b
      BY <2>1, <3>1
    <3> QED
      BY <2>1, <2>3, <3>1, <3>2 DEF Told
  <2> QED
    BY <2>2, <2>3
<1>8. CASE Answer \/ (Check /\ pc' = "finish")
  <2>1. /\ pc' = "finish" /\ UNCHANGED <<got, handled>> /\ conn'.request_len = conn.request_len
        /\ conn'.info = conn.info /\ conn'.content_len = conn.content_len
        /\ pc \in {"check", "handle", "answer"}
        /\ answers' = Append(answers, Answered(conn.buf[1].r, "ok"))
    <3>1. CASE Answer
      BY <3>1 DEF Answer, Lengths
    <3>2. CASE Check /\ pc' = "finish"
      BY <3>2 DEF Check, Lengths
    <3> QED
      BY <1>8, <3>1, <3>2
  <2>2. ~ (conn'.request_len <= 0)
    BY <2>1, Sizes DEF Freed, Lengths
  <2>3. answers \in Seq(Reply) /\ Answered(conn.buf[1].r, "ok").why = "ok"
    BY DEF Sourced, Answered
  <2>4. answers' # <<>> /\ answers'[Len(answers')] = Answered(conn.buf[1].r, "ok")
    BY <2>1, <2>3
  <2> QED
    BY <2>1, <2>2, <2>3, <2>4 DEF Told
<1>9. CASE Check /\ pc' = "handle"
  <2>1. pc = "check" /\ conn' = conn /\ answers' = answers /\ handled' = Append(handled, conn.buf[1].r) /\ got' = <<>>
    BY <1>9 DEF Check
  <2>2. conn.buf[1].r \in Nat
    BY Sizes DEF Sourced, Token
  <2>3. handled' \in Seq(Nat) /\ got' \in Seq(Token)
    BY <2>1, <2>2 DEF Told
  <2> QED
    BY <1>9, <2>1, <2>3 DEF Told
<1>10. CASE ReadBuffered
  <2>1. PICK n : n = IF Wanted <= 0 THEN 0 ELSE Smaller(Wanted, conn.data_len - conn.request_len - conn.consumed)
    OBVIOUS
  <2>2. /\ pc = "handle" /\ pc' \in {"body", "answer"} /\ UNCHANGED <<answers, handled>>
        /\ conn'.info = conn.info /\ conn'.content_len = conn.content_len
        /\ got' = got \o SubSeq(conn.buf, conn.request_len + conn.consumed + 1, conn.request_len + conn.consumed + n)
    BY <1>10, <2>1 DEF ReadBuffered, Lengths
  <2>3. /\ conn.consumed = 0 /\ conn.request_len \in Nat /\ conn.data_len \in Nat /\ conn.data_len <= BufSize
        /\ BufSize \in Nat /\ conn.content_len \in Int /\ conn.request_len <= BufSize
    BY <2>2, Sizes DEF Told, Freed, Lengths
  <2>4. n \in Int /\ (n <= 0 \/ n <= conn.data_len - conn.request_len)
    BY <2>1, <2>3 DEF Smaller, Wanted
  <2>5. conn.buf \in Seq(Token) /\ Len(conn.buf) = BufSize
    BY <2>3 DEF Sourced
  <2> DEFINE x == conn.request_len + conn.consumed + 1
             y == conn.request_len + conn.consumed + n
  <2>6. x \in Int /\ y \in Int /\ x >= 1 /\ (y <= Len(conn.buf))
    BY <2>3, <2>4, <2>5
  <2> HIDE DEF x, y
  <2>7. SubSeq(conn.buf, x, y) \in Seq(Token)
    <3>1. \A i \in 1 .. (1 + y - x) : x + i - 1 \in 1 .. Len(conn.buf)
      BY <2>5, <2>6
    <3> QED
      BY <2>5, <2>6, <3>1
  <2>8. got' \in Seq(Token) /\ handled' \in Seq(Nat)
    BY <2>2, <2>7 DEF x, y, Told
  <2> QED
    BY <2>2, <2>8 DEF Told
<1>11. CASE ReadMore
  <2>1. PICK n \in 1 .. Smaller(Len(net), Wanted) : got' = got \o SubSeq(net, 1, n)
    BY <1>11 DEF ReadMore
  <2>2. /\ pc' \in {"body", "answer"} /\ UNCHANGED <<answers, handled>>
        /\ conn'.info = conn.info /\ conn'.content_len = conn.content_len
    BY <1>11 DEF ReadMore, Lengths
  <2>3. net \in Seq(Token) /\ got \in Seq(Token) /\ handled \in Seq(Nat)
    BY DEF Sourced, Told
  <2>4. SubSeq(net, 1, n) \in Seq(Token)
    <3>1. n \in Int /\ \A i \in 1 .. n : i \in 1 .. Len(net)
      <4>1. Smaller(Len(net), Wanted) = Len(net) \/ (Smaller(Len(net), Wanted) = Wanted /\ ~ (Len(net) < Wanted))
        BY DEF Smaller
      <4>2. Wanted \in Int /\ Len(net) \in Nat
        <5>1. pc = "body" /\ conn.consumed = Len(got) /\ Len(got) \in Nat
          BY <1>11, <2>3 DEF ReadMore, BodyExact
        <5>2. conn.content_len \in Int
          BY DEF Lengths
        <5> QED
          BY <2>3, <5>1, <5>2 DEF Wanted
      <4>3. n \in Int /\ n >= 1 /\ n <= Smaller(Len(net), Wanted)
        OBVIOUS
      <4> QED
        BY <4>1, <4>2, <4>3
    <3> QED
      BY <2>3, <3>1
  <2>5. got' \in Seq(Token)
    BY <2>1, <2>3, <2>4
  <2> QED
    BY <2>2, <2>3, <2>5 DEF Told
<1>12. CASE ReadNoMore
  <2>1. UNCHANGED <<conn, answers, got, handled>> /\ pc' = "answer"
    BY <1>12 DEF ReadNoMore
  <2> QED
    BY <2>1 DEF Told
<1>13. CASE Finish
  <2>1. /\ pc = "finish" /\ pc' \in {"dead", "getreq", "idle"} /\ answers' = answers
        /\ conn'.info = conn.info /\ conn'.content_len = conn.content_len
    BY <1>13, FinishEffect
  <2>2. UNCHANGED <<got, handled>> /\ conn.request_len \in Int
    BY <1>13, Sizes DEF Finish, FinishWith, Lengths
  <2>3. answers # <<>> /\ answers[Len(answers)].why = "unread" => answers[Len(answers)].length = conn.content_len
    BY <2>1, <2>2 DEF Told
  <2> QED
    BY <2>1, <2>2, <2>3 DEF Told
<1>14. Check => pc' \in {"handle", "finish"}
  BY DEF Check
<1> QED
  BY <1>1, <1>2, <1>3, <1>4, <1>5, <1>6, <1>7, <1>8, <1>9, <1>10, <1>11, <1>12, <1>13, <1>14 DEF Next, Worker

\* While the connection lasts, unless a read has failed for good, the buffer is placed.
Followed == pc \notin {"idle", "dead"} /\ ~ Failing => Place

LEMMA PlaceStep ==
  ASSUME Lengths, Lengths', Sourced, Told, Followed, BodyExact, [Next]_vars
  PROVE  Followed'
<1>1. CASE Accept
  BY <1>1, AcceptPlace DEF Followed
<1>2. CASE ~ Accept
  <2>1. SUFFICES ASSUME pc' \notin {"idle", "dead"}, ~ Failing'
                 PROVE  Place'
    BY DEF Followed
  <2>2. ~ Failing
    BY <1>2, <2>1, FailingStays
  <2>3. CASE Leave \/ Stop \/ UNCHANGED vars
    <3>1. UNCHANGED <<conn, pc, net, sent, answers, handled, got>> /\ (stop' = stop \/ stop')
      BY <2>3 DEF Leave, Stop, vars
    <3> QED
      BY <2>1, <2>2, <3>1, IdlePlace DEF Followed
  <2>4. CASE ~ (Leave \/ Stop \/ UNCHANGED vars)
    <3>1. pc \notin {"idle", "dead"}
      BY <1>2, <2>4
         DEF Next, Worker, Send, Getreq, Pull, PullNothing, ReadRequest, Parse, ParseWith, Failed, Check,
             ReadBuffered, ReadMore, ReadNoMore, Answer, Finish, FinishWith
    <3>2. Place
      BY <2>2, <3>1 DEF Followed
    <3>3. ASSUME NEW s \in Shape, Send(s) PROVE Place'
      BY <3>2, <3>3, SendPlace
    <3>4. CASE Getreq \/ PullNothing \/ ReadRequest
      BY <3>2, <3>4, ReadingPlace
    <3>5. CASE Failed
      <4>1. conn.request_len \in Int
        BY Sizes DEF Lengths
      <4>2. conn.request_len <= 0 \/ conn.request_len > 0
        BY <4>1
      <4> QED
        BY <3>2, <3>5, <4>2, ReadingPlace, FailedPlace
    <3>6. CASE Pull
      BY <3>2, <3>6, PullPlace
    <3>7. CASE Parse
      BY <3>2, <3>7, ParsePlace
    <3>8. CASE Check
      <4>1. pc' \in {"handle", "finish"}
        BY <3>8 DEF Check
      <4> QED
        BY <3>2, <3>8, <4>1, HandledPlace, AnswerPlace
    <3>9. CASE ReadNoMore
      BY <3>2, <3>9, HandledPlace
    <3>10. CASE ReadBuffered
      BY <3>2, <3>10, BufferedPlace
    <3>11. CASE ReadMore
      <4>1. pc = "body"
        BY <3>11 DEF ReadMore
      <4>2. conn.consumed = Len(got) /\ \A j \in 1 .. Len(got) : got[j] = Tok("body", handled[Len(handled)], j)
        BY <4>1 DEF BodyExact
      <4> QED
        BY <3>2, <3>11, <4>2, MorePlace
    <3>12. CASE Answer
      BY <3>2, <3>12, AnswerPlace
    <3>13. CASE Finish
      <4>1. pc' = "getreq"
        BY <2>1, <3>13, FinishEffect
      <4> QED
        BY <2>2, <3>2, <3>13, <4>1, FinishPlace
    <3> QED
      BY <1>2, <2>4, <3>3, <3>4, <3>5, <3>6, <3>7, <3>8, <3>9, <3>10, <3>11, <3>12, <3>13 DEF Next, Worker
  <2> QED
    BY <2>3, <2>4
<1> QED
  BY <1>1, <1>2

\* What the handler reads is its own.
LEMMA BodyStep ==
  ASSUME Lengths, Lengths', Sourced, Fatal, Told, Followed, BodyExact, [Next]_vars
  PROVE  BodyExact'
<1>1. CASE ReadBuffered
  <2>1. Place
    <3>1. pc = "handle"
      BY <1>1 DEF ReadBuffered
    <3> QED
      BY <3>1 DEF Fatal, Followed
  <2> QED
    BY <1>1, <2>1, BufferedPlace DEF BodyExact
<1>2. CASE ReadMore
  <2>1. pc = "body"
    BY <1>2 DEF ReadMore
  <2>2. Place
    BY <2>1 DEF Fatal, Followed
  <2>3. conn.consumed = Len(got) /\ \A j \in 1 .. Len(got) : got[j] = Tok("body", handled[Len(handled)], j)
    BY <2>1 DEF BodyExact
  <2> QED
    BY <1>2, <2>2, <2>3, MorePlace DEF BodyExact
<1>3. CASE Accept \/ Check
  <2>1. /\ got' = <<>> \/ UNCHANGED <<got, handled>>
        /\ pc' \notin {"body", "answer"}
    BY <1>3 DEF Accept, Check
  <2> QED
    BY <2>1 DEF BodyExact
<1>4. CASE ReadNoMore \/ (\E s \in Shape : Send(s)) \/ Leave \/ Stop \/ UNCHANGED vars
  <2>1. UNCHANGED <<conn, got, handled>> /\ (pc' = pc \/ pc = "body")
    BY <1>4 DEF ReadNoMore, Send, Leave, Stop, vars
  <2> QED
    BY <2>1 DEF BodyExact
<1>5. CASE Getreq \/ Pull \/ PullNothing \/ ReadRequest \/ Parse \/ Failed \/ Answer \/ Finish
  <2>1. UNCHANGED <<got, handled>> /\ pc' \notin {"body", "answer"}
    BY <1>5 DEF Getreq, Pull, PullNothing, ReadRequest, Parse, ParseWith, Failed, Answer, Finish, FinishWith
  <2> QED
    BY <2>1 DEF BodyExact
<1> QED
  BY <1>1, <1>2, <1>3, <1>4, <1>5 DEF Next, Worker

\* An answer is that of the next request.
LEMMA OrderStep ==
  ASSUME Lengths, Sourced, Fatal, Told, Followed, InOrder, [Next]_vars
  PROVE  InOrder'
<1>1. CASE answers' = answers
  BY <1>1 DEF InOrder
<1>2. CASE answers' = <<>>
  BY <1>2 DEF InOrder
<1>3. ASSUME NEW b \in Reply, answers' = Append(answers, b), b.why = "ok" <=> pc # "failed",
             Failed \/ Check \/ Answer
      PROVE  InOrder'
  <2>1. SUFFICES ASSUME ~ Malformed',
                        NEW j \in 1 .. Len(answers'), answers'[j].why = "ok"
                 PROVE  LET before == {i \in 1 .. j - 1 : answers'[i].why = "ok"}
                        IN /\ \A i \in before : answers'[i].r < answers'[j].r
                           /\ answers'[j].r = 1 \/ \E i \in before : answers'[i].r = answers'[j].r - 1
    BY DEF InOrder, Malformed
  <2>2. /\ answers \in Seq(Reply) /\ Len(answers) \in Nat /\ Len(answers') = Len(answers) + 1
        /\ answers'[Len(answers) + 1] = b /\ \A i \in 1 .. Len(answers) : answers'[i] = answers[i]
    BY <1>3, Appended DEF Sourced
  <2>3. /\ \A i \in 1 .. Len(answers) : i \in 1 .. Len(answers')
        /\ j \in 1 .. Len(answers) \/ j = Len(answers) + 1
    BY <2>2
  <2>4. ~ Malformed
    BY <2>1, <2>2, <2>3 DEF Malformed
  <2>5. CASE j \in 1 .. Len(answers)
    <3>1. \A i \in 1 .. j - 1 : answers'[i] = answers[i]
      BY <2>2, <2>5
    <3>2. answers'[j] = answers[j]
      BY <2>2, <2>5
    <3>3. {i \in 1 .. j - 1 : answers'[i].why = "ok"} = {i \in 1 .. j - 1 : answers[i].why = "ok"}
      BY <3>1
    <3>4. LET before == {i \in 1 .. j - 1 : answers[i].why = "ok"}
          IN /\ \A i \in before : answers[i].r < answers[j].r
             /\ answers[j].r = 1 \/ \E i \in before : answers[i].r = answers[j].r - 1
      BY <2>1, <2>4, <2>5, <3>2 DEF InOrder, Malformed
    <3> QED
      BY <3>1, <3>2, <3>3, <3>4
  <2>6. CASE j = Len(answers) + 1
    <3>1. pc \in {"check", "handle", "answer"} /\ (Check \/ Answer)
      BY <1>3, <2>1, <2>2, <2>6 DEF Failed, Check, Answer
    <3>2. Place /\ Serving
      BY <3>1 DEF Fatal, Followed, Serving
    <3>3. PICK a : UpTo(a) /\ conn.buf[1].r = a + 1
      BY <2>4, <3>2 DEF Place, Placed, Order
    <3>4. b.r = a + 1 /\ a \in Nat
      <4>1. a \in Nat
        BY <3>3 DEF UpTo
      <4>2. answers' = Append(answers, Answered(conn.buf[1].r, "ok"))
        <5>1. CASE Answer
          BY <5>1 DEF Answer
        <5>2. CASE Check
          <6>1. answers' # answers
            BY <2>2
          <6> QED
            BY <5>2, <6>1 DEF Check
        <5> QED
          BY <3>1, <5>1, <5>2
      <4>3. answers'[Len(answers) + 1] = Answered(conn.buf[1].r, "ok")
        BY <2>2, <4>2
      <4> QED
        BY <2>2, <3>3, <4>1, <4>3 DEF Answered
    <3>5. j - 1 = Len(answers)
      BY <2>2, <2>6
    <3>6. \A i \in 1 .. Len(answers) : answers'[i].why = "ok" => answers'[i].r \in 1 .. a
      BY <2>2, <3>3 DEF UpTo
    <3>7. \A i \in 1 .. Len(answers) : answers'[i].why = "ok" => answers'[i].r < a + 1
      BY <3>4, <3>6
    <3>8. a = 0 \/ \E i \in 1 .. Len(answers) : answers'[i].why = "ok" /\ answers'[i].r = a
      BY <2>2, <3>3 DEF UpTo
    <3>9. answers'[j].r = a + 1 /\ a + 1 - 1 = a /\ (a = 0 => a + 1 = 1)
      BY <2>2, <2>6, <3>4
    <3> DEFINE before == {i \in 1 .. j - 1 : answers'[i].why = "ok"}
    <3>10. before = {i \in 1 .. Len(answers) : answers'[i].why = "ok"}
      BY <3>5
    <3> HIDE DEF before
    <3>11. \A i \in before : answers'[i].r < answers'[j].r
      BY <3>7, <3>9, <3>10
    <3>12. a = 0 \/ \E i \in before : answers'[i].r = a
      BY <3>8, <3>10
    <3>13. answers'[j].r = 1 \/ \E i \in before : answers'[i].r = answers'[j].r - 1
      <4>1. answers'[j].r - 1 = a
        BY <3>4, <3>9
      <4> QED
        BY <3>9, <3>12, <4>1
    <3> QED
      BY <3>11, <3>13 DEF before
  <2> QED
    BY <2>3, <2>5, <2>6
<1> QED
  BY <1>1, <1>2, <1>3, AnswersAfter

\* The invariant of a connection's bytes, answers and bodies.
JInv == Told /\ Followed /\ InOrder /\ BodyExact

LEMMA OrderInvariance == Spec => []JInv
<1>1. Init => JInv
  <2> SUFFICES ASSUME Init PROVE JInv
    OBVIOUS
  <2> USE DEF Init
  <2>1. Told
    BY DEF Told
  <2>2. Followed
    BY DEF Followed
  <2>3. InOrder /\ BodyExact
    BY DEF InOrder, BodyExact
  <2> QED
    BY <2>1, <2>2, <2>3 DEF JInv
<1>2. IInv /\ IInv' /\ JInv /\ [Next]_vars => JInv'
  <2> SUFFICES ASSUME IInv, IInv', JInv, [Next]_vars PROVE JInv'
    OBVIOUS
  <2>1. Lengths /\ Lengths' /\ Sourced /\ Freed /\ Fatal /\ Told /\ Followed /\ InOrder /\ BodyExact
    BY DEF IInv, JInv
  <2>2. Told'
    BY <2>1, ToldStep
  <2>3. Followed'
    BY <2>1, PlaceStep
  <2>4. InOrder' /\ BodyExact'
    BY <2>1, OrderStep, BodyStep
  <2> QED
    BY <2>2, <2>3, <2>4 DEF JInv
<1> QED
  BY <1>1, <1>2, Invariance, PTL DEF Spec

\* For any buffer and any requests: they are answered in the order they were sent, none
\* skipped and none twice, until a head is malformed (4827-4831).
THEOREM AnsweredInOrder == Spec => []InOrder
<1>1. JInv => InOrder
  BY DEF JInv
<1> QED
  BY <1>1, OrderInvariance, PTL

\* For any buffer and any requests: a handler reads its own request's body, from the start
\* and in order (mg_read, 1492).
THEOREM BodiesAreExact == Spec => []BodyExact
<1>1. JInv => BodyExact
  BY DEF JInv
<1> QED
  BY <1>1, OrderInvariance, PTL

=============================================================================
