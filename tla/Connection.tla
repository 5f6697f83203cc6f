----------------------------- MODULE Connection -----------------------------
(***************************************************************************)
(* One worker of mongoose.c and the connections it is given, one after the *)
(* other: process_new_connection, getreq, read_request, mg_read and        *)
(* should_keep_alive.  The struct mg_connection is allocated once for each *)
(* worker, so its fields outlive a connection; apophnia.c:890 turns        *)
(* keep-alive on.                                                          *)
(*                                                                         *)
(* Bytes are counted in tokens.  A request is a "line" and an "end" (the   *)
(* version, the headers and the empty line), then its body.  A parsed      *)
(* "end" becomes "text": strings the request info points to.  A client     *)
(* sends requests whenever it likes, and may be silent or leave.           *)
(***************************************************************************)
EXTENDS Integers, Sequences

CONSTANTS
  Shape,            \* the requests a client may send, records as below
  BufSize,          \* buf_size, in tokens
  EnableKeepAlive,  \* the option enable_keep_alive
  MaxRequests,      \* bound: requests sent on one connection
  MaxConnections    \* bound: connections the worker is given

Heads    == {"ok", "malformed", "control", "endless"}
Versions == {"1.0", "1.1", "1.2"}
Headers  == {"none", "keep-alive", "close"}

ASSUME BufAssumption == BufSize \in Nat \ {0, 1}
ASSUME ShapeAssumption ==
  \A s \in Shape : /\ s.head \in Heads /\ s.version \in Versions /\ s.connection \in Headers
                   /\ s.body \in Nat           \* tokens of its body
                   /\ s.length \in BOOLEAN     \* a Content-Length header, the body's length
                   /\ s.posts \in BOOLEAN      \* the method is POST or PUT
                   /\ s.uri \in BOOLEAN        \* the URI is * or begins with /
                   /\ s.reads \in BOOLEAN      \* its handler reads the body
                   /\ s.user \in BOOLEAN       \* its handler sets remote_user
                   /\ s.closes \in BOOLEAN     \* its handler sets must_close or answers 401

VARIABLES
  conn,      \* the struct mg_connection
  pc,        \* where the worker is
  pulled,    \* the last pull of this getreq returned bytes
  net,       \* tokens sent and not yet received
  gone,      \* the client has closed its end
  stop,      \* stop_flag
  sent,      \* the requests sent on this connection
  handled,   \* the numbers of those given to handle_request
  got,       \* what mg_read returned to the handler of the last of them
  answers,   \* answers on this connection; of a run of failed reads the first
  accepted   \* connections so far

vars == <<conn, pc, pulled, net, gone, stop, sent, handled, got, answers, accepted>>
client == <<net, gone, stop, sent, accepted>>

PC == {"idle", "getreq", "read", "parse", "failed", "check", "handle", "body", "answer", "finish", "dead"}

Nul        == [k |-> "nul", r |-> 0, i |-> 0]
Tok(k, r, i) == [k |-> k, r |-> r, i |-> i]

Smaller(a, b) == IF a < b THEN a ELSE b

Tokens(s, r) ==
  LET head == CASE s.head = "control" -> <<Tok("control", r, 1), Tok("end", r, 2)>>
                [] s.head = "endless" -> [i \in 1 .. BufSize |-> Tok("line", r, i)]
                [] OTHER              -> <<Tok("line", r, 1), Tok("end", r, 2)>>
  IN head \o [i \in 1 .. s.body |-> Tok("body", r, i)]

\* calloc: no request was ever parsed, and every length is 0.
Init == /\ conn = [buf |-> [i \in 1 .. BufSize |-> Nul], data_len |-> 0, request_len |-> 0,
                   content_len |-> 0, consumed |-> 0, must_close |-> FALSE, status |-> -1,
                   info |-> [at |-> 0, version |-> "1.1", connection |-> "none"], user |-> "null"]
        /\ pc = "idle" /\ pulled = FALSE /\ net = <<>> /\ gone = FALSE /\ stop = FALSE
        /\ sent = <<>> /\ handled = <<>> /\ got = <<>> /\ answers = <<>> /\ accepted = 0

-----------------------------------------------------------------------------
(* The client, and whoever calls mg_stop. *)

Send(s) ==
  /\ pc \notin {"idle", "dead"} /\ ~ gone /\ Len(sent) < MaxRequests
  /\ sent' = Append(sent, s) /\ net' = net \o Tokens(s, Len(sent) + 1)
  /\ UNCHANGED <<conn, pc, pulled, gone, stop, handled, got, answers, accepted>>

Leave ==
  /\ pc \notin {"idle", "dead"} /\ ~ gone /\ gone' = TRUE
  /\ UNCHANGED <<conn, pc, pulled, net, stop, sent, handled, got, answers, accepted>>

Stop ==
  /\ ~ stop /\ stop' = TRUE
  /\ UNCHANGED <<conn, pc, pulled, net, gone, sent, handled, got, answers, accepted>>

-----------------------------------------------------------------------------
(* The worker. *)

\* consume_socket gave the worker a connection; only data_len is reset.
Accept ==
  /\ pc = "idle" /\ ~ stop /\ accepted < MaxConnections
  /\ accepted' = accepted + 1 /\ conn' = [conn EXCEPT !.data_len = 0] /\ pc' = "getreq"
  /\ net' = <<>> /\ gone' = FALSE /\ sent' = <<>> /\ handled' = <<>> /\ got' = <<>> /\ answers' = <<>>
  /\ UNCHANGED <<pulled, stop>>

\* Mutant of Getreq: consumed_content is not reset.
Getreq_KeepsConsumed ==
  /\ pc = "getreq" /\ pc' = "read" /\ pulled' = FALSE
  /\ conn' = [conn EXCEPT !.must_close = FALSE, !.request_len = 0, !.status = -1]
  /\ UNCHANGED <<client, handled, got, answers>>

\* reset_per_request_attributes: content_len and the request info stay.
Getreq ==
  /\ pc = "getreq" /\ pc' = "read" /\ pulled' = FALSE
  /\ conn' = [conn EXCEPT !.consumed = 0, !.must_close = FALSE, !.request_len = 0, !.status = -1]
  /\ UNCHANGED <<client, handled, got, answers>>

\* get_request_len: -1 at a character that may not be there, else where the first head
\* ends.  The scan stops short of the last byte, so it does not see a NUL there.
RequestLen(buf, len) ==
  LET bad  == {i \in 1 .. len : buf[i].k \in {"control", "text"} \/ (buf[i].k = "nul" /\ i < len)}
      ends == {i \in 1 .. len : buf[i].k = "end"}
      First(S) == CHOOSE i \in S : \A j \in S : i <= j
  IN IF bad # {} /\ (ends = {} \/ First(bad) < First(ends)) THEN -1
     ELSE IF ends = {} THEN 0 ELSE First(ends)

Incomplete == RequestLen(conn.buf, conn.data_len) = 0 /\ conn.data_len < BufSize

Pull ==
  /\ pc = "read" /\ Incomplete /\ ~ stop
  /\ \E n \in 1 .. Smaller(Len(net), BufSize - conn.data_len) :
       /\ conn' = [conn EXCEPT !.data_len = @ + n,
                               !.buf = [i \in 1 .. BufSize |->
                                          IF i \in conn.data_len + 1 .. conn.data_len + n
                                          THEN net[i - conn.data_len] ELSE @[i]]]
       /\ net' = SubSeq(net, n + 1, Len(net))
  /\ pulled' = TRUE
  /\ UNCHANGED <<pc, gone, stop, sent, handled, got, answers, accepted>>

\* Mutant of PullNothing: the end of the connection does not end the loop.
PullNothing_GoesOn ==
  /\ pc = "read" /\ Incomplete /\ stop
  /\ conn' = [conn EXCEPT !.request_len = -1] /\ pc' = "failed" /\ pulled' = FALSE
  /\ UNCHANGED <<client, handled, got, answers>>

\* recv returns 0 when the client has left and -1 after request_timeout_ms; while the
\* server stops, every pull returns -1.
PullNothing ==
  /\ pc = "read" /\ Incomplete /\ (net = <<>> \/ stop)
  /\ conn' = [conn EXCEPT !.request_len = -1] /\ pc' = "failed" /\ pulled' = FALSE
  /\ UNCHANGED <<client, handled, got, answers>>

\* read_request returns.
ReadRequest ==
  /\ pc = "read" /\ ~ Incomplete
  /\ LET len == RequestLen(conn.buf, conn.data_len)
         ret == IF len <= 0 /\ ~ pulled THEN -1 ELSE len
     IN /\ conn' = [conn EXCEPT !.request_len = ret]
        /\ pc' = IF ret <= 0 THEN "failed" ELSE "parse"
  /\ UNCHANGED <<pulled, client, handled, got, answers>>

Current == sent[conn.buf[1].r]

\* The buffer begins with a head of its own, not with what an earlier request left.
AtHead == conn.buf[1].k = "line" /\ conn.buf[2].k = "end" /\ conn.request_len = 2

\* Mutant of Parse: remote_user is not set to NULL.
ParseWith(user) ==
  /\ pc = "parse"
  /\ LET ok == AtHead /\ Current.head = "ok"
         at == conn.request_len
     IN /\ conn' = [conn EXCEPT
              !.buf[at].k = "text", !.user = user,
              !.info = [at |-> at,
                        version    |-> IF AtHead THEN Current.version ELSE "1.0",
                        connection |-> IF ok THEN Current.connection ELSE "none"],
              !.content_len = IF ~ ok THEN @
                              ELSE IF Current.length THEN Current.body
                              ELSE IF Current.posts THEN -1 ELSE 0]
        /\ pc' = IF ok THEN "check" ELSE "failed"
  /\ UNCHANGED <<pulled, client, handled, got, answers>>

Parse_KeepsUser == ParseWith(conn.user)

\* parse_http_message and the rest of getreq.  A bad head sets the request info too, up
\* to the version and without headers, and leaves content_len as it is.
Parse == ParseWith("null")

\* The strings the request info points to: never set, intact, or overwritten since.
Unset  == conn.info.at = 0
Intact == ~ Unset /\ conn.buf[conn.info.at].k = "text"

ShouldKeepAlive ==
  /\ ~ conn.must_close /\ EnableKeepAlive
  /\ \/ Unset
     \/ /\ Intact
        /\ \/ conn.info.connection = "keep-alive"
           \/ (conn.info.connection = "none" /\ conn.info.version = "1.1")

Answered(r, why) == [r |-> r, why |-> why, length |-> conn.content_len]

\* send_http_error 500: "Client closed connection", or "Bad request".
Failed ==
  /\ pc = "failed" /\ pc' = "finish" /\ conn' = [conn EXCEPT !.status = 500]
  /\ LET a == IF conn.request_len <= 0 THEN Answered(0, "unread")
              ELSE Answered(IF conn.buf[1].k = "line" /\ conn.request_len = 2 THEN conn.buf[1].r ELSE 0,
                           "malformed")
     IN answers' = IF a.why = "unread" /\ answers # <<>> /\ answers[Len(answers)].why = "unread"
                   THEN answers ELSE Append(answers, a)
  /\ UNCHANGED <<pulled, client, handled, got>>

\* is_valid_uri, then the version: 400 and 505 go on to the next request like any answer.
Check ==
  /\ pc = "check"
  /\ IF Current.uri /\ Current.version # "1.2"
     THEN /\ pc' = "handle" /\ handled' = Append(handled, conn.buf[1].r) /\ got' = <<>>
          /\ UNCHANGED <<conn, answers>>
     ELSE /\ pc' = "finish" /\ conn' = [conn EXCEPT !.status = 400]
          /\ answers' = Append(answers, Answered(conn.buf[1].r, "ok"))
          /\ UNCHANGED <<handled, got>>
  /\ UNCHANGED <<pulled, client>>

-----------------------------------------------------------------------------
(* handle_request, as far as the connection is concerned. *)

Wanted == conn.content_len - conn.consumed

\* mg_read, first the part of the body that came with the head.
ReadBuffered ==
  /\ pc = "handle" /\ Current.reads
  /\ LET n == IF Wanted <= 0 THEN 0 ELSE Smaller(Wanted, conn.data_len - conn.request_len - conn.consumed)
         from == conn.request_len + conn.consumed
     IN /\ got' = got \o SubSeq(conn.buf, from + 1, from + n)
        /\ conn' = [conn EXCEPT !.consumed = @ + n]
        /\ pc' = IF Wanted > n THEN "body" ELSE "answer"
  /\ UNCHANGED <<pulled, client, handled, answers>>

ReadMore ==
  /\ pc = "body" /\ ~ stop
  /\ \E n \in 1 .. Smaller(Len(net), Wanted) :
       /\ got' = got \o SubSeq(net, 1, n) /\ net' = SubSeq(net, n + 1, Len(net))
       /\ conn' = [conn EXCEPT !.consumed = @ + n]
       /\ pc' = IF Wanted = n THEN "answer" ELSE "body"
  /\ UNCHANGED <<pulled, gone, stop, sent, handled, answers, accepted>>

ReadNoMore ==
  /\ pc = "body" /\ (net = <<>> \/ stop) /\ pc' = "answer"
  /\ UNCHANGED <<conn, pulled, client, handled, got, answers>>

Answer ==
  /\ pc = "answer" \/ (pc = "handle" /\ ~ Current.reads)
  /\ conn' = [conn EXCEPT !.must_close = Current.closes, !.status = 200,
                          !.user = IF Current.user THEN "live" ELSE @]
  /\ answers' = Append(answers, Answered(conn.buf[1].r, "ok"))
  /\ pc' = "finish"
  /\ UNCHANGED <<pulled, client, handled, got>>

-----------------------------------------------------------------------------

DiscardLen == IF conn.content_len >= 0 /\ conn.request_len + conn.content_len < conn.data_len
              THEN conn.request_len + conn.content_len ELSE conn.data_len

\* memmove(buf, buf + d, data_len - d).  For d = -1 the first byte is the last of the
\* struct before the buffer, the top of last_throttle_bytes, a 0.
Moved(d) == [i \in 1 .. BufSize |-> IF i > conn.data_len - d THEN conn.buf[i]
                                    ELSE IF i + d = 0 THEN Nul ELSE conn.buf[i + d]]

FinishWith(d) ==
  /\ pc = "finish"
  /\ LET left == conn.data_len - d
     IN /\ conn' = [conn EXCEPT !.buf = Moved(d), !.data_len = left,
                                !.user = IF @ = "live" THEN "freed" ELSE @]
        /\ pc' = IF conn.user = "freed" \/ left > BufSize THEN "dead"
                 ELSE IF ~ stop /\ EnableKeepAlive /\ conn.content_len >= 0 /\ ShouldKeepAlive THEN "getreq"
                 ELSE "idle"
  /\ UNCHANGED <<pulled, client, handled, got, answers>>

\* Mutants of Finish: it discards everything; it never discards less than nothing.
Finish_All      == FinishWith(conn.data_len)
Finish_AtLeast0 == FinishWith(IF DiscardLen < 0 THEN 0 ELSE DiscardLen)

\* The end of one pass of process_new_connection's loop: remote_user is freed and not
\* reset, what belongs to this request is discarded, and the loop goes on or the
\* connection is closed.  The process dies at a second free, and at the assert on data_len.
Finish == FinishWith(DiscardLen)

Worker == \/ Getreq \/ Pull \/ PullNothing \/ ReadRequest \/ Parse \/ Failed \/ Check
          \/ ReadBuffered \/ ReadMore \/ ReadNoMore \/ Answer \/ Finish

Next == \/ \E s \in Shape : Send(s)
        \/ Leave \/ Stop \/ Accept \/ Worker

Spec     == Init /\ [][Next]_vars
FairSpec == Spec /\ WF_vars(Worker)
-----------------------------------------------------------------------------
(* Properties. *)

TypeOK ==
  /\ pc \in PC /\ conn.data_len \in 0 .. (IF pc = "dead" THEN BufSize + 1 ELSE BufSize) /\ conn.request_len \in -1 .. BufSize
  /\ conn.info.at \in 0 .. BufSize

\* Requests are answered in the order they were sent, none skipped and none twice: the
\* lengths of process_new_connection (4827-4831) always cut the stream between two
\* requests.  A malformed head, or a body its handler did not read, ends that.
InOrder ==
  (\A j \in 1 .. Len(answers) : answers[j].why # "malformed") =>
     \A j \in 1 .. Len(answers) : answers[j].why = "ok" =>
        LET before == {i \in 1 .. j - 1 : answers[i].why = "ok"}
        IN /\ \A i \in before : answers[i].r < answers[j].r
           /\ answers[j].r = 1 \/ \E i \in before : answers[i].r = answers[j].r - 1

\* mg_read (1492) gives a handler its own request's body, from the start and in order,
\* however it is split between the buffer and the socket.
BodyExact ==
  /\ \A j \in 1 .. Len(got) : got[j] = Tok("body", handled[Len(handled)], j)
  /\ pc \in {"body", "answer"} => conn.consumed = Len(got)

\* After a failed read whose stale content_len is 0 the buffer begins with the byte of
\* 4830's memmove from before its start, so the connection never serves a request again.
IdleIsFatal ==
  \A i, j \in 1 .. Len(answers) :
     i < j /\ answers[i].why = "unread" /\ answers[i].length = 0 => answers[j].why # "ok"

\* The process dies in two ways only, both when a read has failed: remote_user is freed
\* again (4817), or the assert on data_len fails (4833), for which the stale content_len
\* must be 0.
DeathExplained ==
  pc = "dead" => /\ \E j \in 1 .. Len(answers) : answers[j].why = "unread"
                 /\ \/ conn.user = "freed"
                    \/ conn.content_len = 0 /\ conn.request_len = -1

\* When the client has left, the worker comes back for the next connection, or dies, or is
\* in a pass of 4797-4839 that changes nothing and so never ends: the last request asked to
\* keep the connection, its strings are intact, and its content_len is not 0.
Spins == /\ pc = "finish" /\ gone /\ ~ stop
         /\ conn.request_len = -1 /\ conn.content_len > 0 /\ DiscardLen = 0 /\ ShouldKeepAlive
Released == gone ~> (pc \in {"idle", "dead"} \/ Spins)

\* assert(conn->data_len <= conn->buf_size), 4833.
BufferFits == conn.data_len <= BufSize
=============================================================================
