------------------------------ MODULE CgiProofs ------------------------------
(***************************************************************************)
(* Proofs about Cgi, for any number of workers, processes and requests and *)
(* any scripts: a handler closes every end of a pipe it opened, whichever  *)
(* way it leaves, no child of it survives, and what the child wrote is     *)
(* passed on whole.                                                        *)
(***************************************************************************)
EXTENDS Cgi, SequenceTheorems, WellFoundedInduction, TLAPS

PC    == {"idle", "stdin", "stdout", "fork", "theirs", "fdopen", "pull", "push", "eof", "head", "body",
          "done", "close", "end"}
Token == Op \cup {"body"}
End   == (1 .. MaxRequests) \X {"in", "out"} \X {"read", "write"}
Local == [pc : PC, n : 0 .. MaxRequests, req : Request \cup {"none"}, pid : Pid \cup {0},
          open : SUBSET End, put : Nat, got : Seq(Token), answers : Seq(Nat),
          spoiled : BOOLEAN, forked : BOOLEAN]
Child == [n : 0 .. MaxRequests, script : Seq(Op), ends : SUBSET End]

Types == /\ local \in [Worker -> Local] /\ child \in [Pid -> Child]
         /\ held \in SUBSET End /\ pipe \in [Pipes -> Seq(Token)] /\ count \in 0 .. MaxRequests

\* A request's number names its pipes and nobody else's.
Numbered == /\ \A w \in Worker : /\ local[w].n = 0 <=> local[w].pc = "idle"
                                 /\ local[w].n <= count
                                 /\ local[w].pc # "idle" => local[w].req \in Request
            /\ \A v, w \in Worker : local[v].n = local[w].n /\ local[v].n # 0 => v = w
            /\ \A p \in Pid : child[p].n <= count
            /\ \A e \in held : e[1] <= count

\* What is not -1 among fd_stdin and fd_stdout is what the server holds of the two pipes.
Opened == \A w \in Worker : /\ local[w].open = held \cap Ends(local[w].n)
                            /\ local[w].pc = "end" => local[w].open = {}

\* The one child of a request is the process whose pid the handler keeps, until it is killed.
Parented == \A w \in Worker :
  /\ \A p \in Pid : child[p].n = local[w].n /\ local[w].n # 0 =>
                      p = local[w].pid /\ local[w].pc \notin {"close", "end"}
  /\ local[w].pc \in {"stdin", "stdout", "fork"} => local[w].pid = 0

\* The answers so far, by the handler's place.
Replied == \A w \in Worker : LET l == local[w] IN
  /\ l.pc \in {"stdin", "stdout", "fork", "fdopen", "pull", "push", "eof", "head"} => l.answers = <<>>
  /\ l.pc = "theirs" => IF l.pid = 0 THEN ~ l.forked /\ l.answers = <<500>> ELSE l.answers = <<>>
  /\ l.pc = "body" => l.answers = <<200>>
  /\ l.pc \in {"done", "close", "end"} => \/ Len(l.answers) = 1
                                          \/ ~ l.forked /\ l.answers = <<500, 500>>

IInv == Types /\ Numbered /\ Opened /\ Parented /\ Replied

-----------------------------------------------------------------------------
\* The pipes of two requests have no end in common.
LEMMA EndsApart ==
  /\ \A n : \A e \in Ends(n) : e[1] = n
  /\ \A m, n : m # n => Ends(m) \cap Ends(n) = {}
  /\ \A n \in 1 .. MaxRequests : Ends(n) \subseteq End
BY DEF Ends, R, W, End

\* The initial state satisfies the invariant.
LEMMA InitInv ==
  ASSUME Init
  PROVE  IInv
<1> USE DEF Init, Idle, Dead
<1>1. Types
  <2>1. Idle \in Local
    BY BoundAssumption DEF Local, PC
  <2>2. Dead \in Child
    BY BoundAssumption DEF Child
  <2> QED
    BY <2>1, <2>2, BoundAssumption DEF Types
<1>2. Numbered
  BY DEF Numbered
<1>3. Opened /\ Parented
  BY DEF Opened, Parented
<1>4. Replied
  BY DEF Replied
<1> QED
  BY <1>1, <1>2, <1>3, <1>4 DEF IInv

\* The locals stay locals when one of them is assigned.
LEMMA Assign ==
  ASSUME NEW l \in Local
  PROVE  /\ \A x \in PC : [l EXCEPT !.pc = x] \in Local
         /\ \A x \in Pid \cup {0} : [l EXCEPT !.pid = x] \in Local
         /\ \A x \in SUBSET End : [l EXCEPT !.open = x] \in Local
         /\ \A x \in Nat : [l EXCEPT !.put = x] \in Local
         /\ \A x \in Seq(Token) : [l EXCEPT !.got = x] \in Local
         /\ \A x \in Seq(Nat) : [l EXCEPT !.answers = x] \in Local
         /\ \A x \in BOOLEAN : [l EXCEPT !.spoiled = x] \in Local
         /\ \A x \in BOOLEAN : [l EXCEPT !.forked = x] \in Local
<1>1. \A x \in PC : [l EXCEPT !.pc = x] \in Local
  BY DEF Local
<1>2. \A x \in Pid \cup {0} : [l EXCEPT !.pid = x] \in Local
  BY DEF Local
<1>3. \A x \in SUBSET End : [l EXCEPT !.open = x] \in Local
  BY DEF Local
<1>4. \A x \in Nat : [l EXCEPT !.put = x] \in Local
  BY DEF Local
<1>5. \A x \in Seq(Token) : [l EXCEPT !.got = x] \in Local
  BY DEF Local
<1>6. \A x \in Seq(Nat) : [l EXCEPT !.answers = x] \in Local
  BY DEF Local
<1>7. \A x \in BOOLEAN : [l EXCEPT !.spoiled = x] \in Local /\ [l EXCEPT !.forked = x] \in Local
  BY DEF Local
<1> QED
  BY <1>1, <1>2, <1>3, <1>4, <1>5, <1>6, <1>7

\* The errors a handler answers, and where it goes from there.
Errors == {411, 417, 500, 577}

LEMMA ErrorsAre == {411, 417, 500, 577} \subseteq Errors /\ Errors \subseteq Nat /\ {"theirs", "done"} \subseteq PC
BY DEF Errors, PC

\* An error answer adds its status and goes on.
LEMMA FailedLocal ==
  ASSUME NEW l \in Local, NEW status \in Errors, NEW next \in PC
  PROVE  /\ Failed(l, status, next) \in Local
         /\ Failed(l, status, next).pc = next
         /\ Failed(l, status, next).answers = Append(l.answers, status)
         /\ Failed(l, status, next).n = l.n /\ Failed(l, status, next).pid = l.pid
         /\ Failed(l, status, next).open = l.open /\ Failed(l, status, next).forked = l.forked
         /\ Failed(l, status, next).req = l.req
<1> DEFINE m == [l EXCEPT !.answers = Append(l.answers, status)]
<1>1. Append(l.answers, status) \in Seq(Nat)
  BY ErrorsAre DEF Local
<1>2. m \in Local
  BY <1>1, Assign
<1>3. Failed(l, status, next) = [m EXCEPT !.pc = next]
  BY DEF Failed
<1>4. /\ m.answers = Append(l.answers, status) /\ m.n = l.n /\ m.pid = l.pid
      /\ m.open = l.open /\ m.forked = l.forked /\ m.req = l.req
  BY DEF Local
<1> HIDE DEF m
<1>5. Failed(l, status, next) \in Local
  BY <1>2, <1>3, Assign
<1>6. /\ [m EXCEPT !.pc = next].pc = next /\ [m EXCEPT !.pc = next].answers = m.answers
      /\ [m EXCEPT !.pc = next].n = m.n /\ [m EXCEPT !.pc = next].pid = m.pid
      /\ [m EXCEPT !.pc = next].open = m.open /\ [m EXCEPT !.pc = next].forked = m.forked
      /\ [m EXCEPT !.pc = next].req = m.req
  BY <1>2 DEF Local
<1> QED
  BY <1>3, <1>4, <1>5, <1>6

\* A handler at work has a request of its own.
LEMMA Busy ==
  ASSUME Types, Numbered, NEW w \in Worker, local[w].pc # "idle"
  PROVE  /\ local[w] \in Local /\ local[w].n \in 1 .. MaxRequests /\ local[w].req \in Request
         /\ local[w].pid \in Pid \cup {0} /\ local[w].open \in SUBSET End
<1>1. local[w] \in Local
  BY DEF Types
<1>2. local[w].n \in 0 .. MaxRequests /\ local[w].n # 0 /\ local[w].req \in Request
  BY <1>1 DEF Numbered, Local
<1>3. local[w].pid \in Pid \cup {0} /\ local[w].open \in SUBSET End
  BY <1>1 DEF Local
<1> QED
  BY <1>1, <1>2, <1>3, BoundAssumption

\* What the invariant says of a handler depends on these of its locals only.
Same(v) == /\ local'[v].pc = local[v].pc /\ local'[v].n = local[v].n /\ local'[v].req = local[v].req
           /\ local'[v].pid = local[v].pid /\ local'[v].open = local[v].open
           /\ local'[v].answers = local[v].answers /\ local'[v].forked = local[v].forked

\* A handler's step, as its fellows and its pipes see it.
Alone(w) == /\ local' \in [Worker -> Local] /\ count' = count
            /\ \A v \in Worker \ {w} : Same(v)
            /\ local'[w].n = local[w].n /\ local'[w].req = local[w].req

\* To assign one's locals is to leave the others' alone.
LEMMA SetAlone ==
  ASSUME Types, NEW w \in Worker, NEW m \in Local, Set(w, m),
         m.n = local[w].n, m.req = local[w].req, UNCHANGED count
  PROVE  Alone(w) /\ local'[w] = m
BY DEF Set, Types, Alone, Same

\* A step that only goes on, and one that answers an error.
LEMMA GoesOn ==
  ASSUME Types, NEW w \in Worker, NEW x \in PC, Set(w, [local[w] EXCEPT !.pc = x]), UNCHANGED count
  PROVE  /\ Alone(w) /\ local'[w].pc = x /\ local'[w].answers = local[w].answers
         /\ local'[w].pid = local[w].pid /\ local'[w].forked = local[w].forked
         /\ local'[w].open = local[w].open
<1> DEFINE m == [local[w] EXCEPT !.pc = x]
<1>1. local[w] \in Local
  BY DEF Types
<1>2. m \in Local
  BY <1>1, Assign
<1>3. /\ m.n = local[w].n /\ m.req = local[w].req /\ m.pid = local[w].pid /\ m.pc = x
      /\ m.forked = local[w].forked /\ m.open = local[w].open /\ m.answers = local[w].answers
  BY <1>1 DEF Local
<1> HIDE DEF m
<1>4. Set(w, m)
  BY DEF m
<1> QED
  BY <1>2, <1>3, <1>4, SetAlone

LEMMA GoesWrong ==
  ASSUME Types, NEW w \in Worker, NEW status \in Errors, NEW x \in PC,
         Set(w, Failed(local[w], status, x)), UNCHANGED count
  PROVE  /\ Alone(w) /\ local'[w].pc = x /\ local'[w].answers = Append(local[w].answers, status)
         /\ local'[w].pid = local[w].pid /\ local'[w].forked = local[w].forked
         /\ local'[w].open = local[w].open
<1>1. local[w] \in Local
  BY DEF Types
<1> QED
  BY SMTT(30), <1>1, FailedLocal, SetAlone

\* pipe() opens both ends or answers 500.
LEMMA PipeEffect ==
  ASSUME Types, Numbered, NEW w \in Worker, Pipe(w)
  PROVE  /\ Alone(w) /\ UNCHANGED <<child, pipe>>
         /\ local[w].pc \in {"stdin", "stdout"}
         /\ local'[w].pid = local[w].pid /\ local'[w].forked = local[w].forked
         /\ \E A \in SUBSET Ends(local[w].n) : held' = held \cup A /\ local'[w].open = local[w].open \cup A
         /\ \/ local'[w].pc \in {"stdout", "fork"} /\ local'[w].answers = local[w].answers
            \/ local'[w].pc = "done" /\ local'[w].answers = Append(local[w].answers, 500)
<1> DEFINE l == local[w]
<1>1. PICK which \in {"in", "out"}, next \in {"stdout", "fork"} :
        l.pc \in {"stdin", "stdout"} /\ MakePipe(w, which, next)
  BY DEF Pipe
<1>2. l \in Local /\ l.n \in 1 .. MaxRequests /\ l.open \in SUBSET End
  BY <1>1, Busy
<1> DEFINE both == {R(l.n, which), W(l.n, which)}
           o    == [l EXCEPT !.open = l.open \cup both]
           m    == [o EXCEPT !.pc = next]
<1>3. both \in SUBSET Ends(l.n) /\ both \in SUBSET End
  BY <1>1, <1>2, EndsApart DEF Ends
<1>4. CASE held' = held \cup both /\ Set(w, m)
  <2>1. o \in Local /\ m \in Local
    <3>1. o \in Local
      BY <1>2, <1>3, Assign
    <3>2. next \in PC
      BY <1>1 DEF PC
    <3> HIDE DEF o
    <3> QED
      BY <3>1, <3>2, Assign
  <2>2. /\ m.n = l.n /\ m.req = l.req /\ m.pc = next /\ m.open = l.open \cup both
        /\ m.pid = l.pid /\ m.forked = l.forked /\ m.answers = l.answers
    BY <1>2 DEF Local
  <2>3. Alone(w) /\ local'[w] = m
    BY <1>1, <1>4, <2>1, <2>2, SetAlone DEF MakePipe
  <2> QED
    BY <1>1, <1>3, <1>4, <2>2, <2>3 DEF MakePipe
<1>5. CASE UNCHANGED held /\ Set(w, Failed(l, 500, "done"))
  <2>1. 500 \in Errors /\ "done" \in PC
    BY ErrorsAre
  <2>2. Alone(w) /\ local'[w] = Failed(l, 500, "done")
    BY <1>1, <1>2, <1>5, <2>1, FailedLocal, SetAlone DEF MakePipe
  <2>3. held' = held \cup {} /\ local'[w].open = l.open \cup {}
    BY <1>2, <1>5, <2>1, <2>2, FailedLocal
  <2>4. /\ local'[w].pc = "done" /\ local'[w].answers = Append(l.answers, 500)
        /\ local'[w].pid = l.pid /\ local'[w].forked = l.forked
    BY <1>2, <2>1, <2>2, FailedLocal
  <2> QED
    BY ZenonT(40), <1>1, <2>2, <2>3, <2>4 DEF MakePipe
<1> QED
  BY <1>1, <1>4, <1>5 DEF MakePipe

\* fork() gives the request its child, or answers 500.
LEMMA ForkEffect ==
  ASSUME Types, Numbered, NEW w \in Worker, Fork(w)
  PROVE  /\ Alone(w) /\ UNCHANGED <<held, pipe>>
         /\ local[w].pc = "fork" /\ local'[w].pc = "theirs"
         /\ local'[w].open = local[w].open
         /\ \/ \E p \in Pid : /\ local'[w].pid = p /\ local'[w].answers = local[w].answers
                              /\ child[p].n = 0 /\ child' \in [Pid -> Child] /\ child'[p].n = local[w].n
                              /\ \A o \in Pid \ {p} : child'[o].n = child[o].n
            \/ /\ UNCHANGED child /\ local'[w].pid = local[w].pid /\ ~ local'[w].forked
               /\ local'[w].answers = Append(local[w].answers, 500)
<1> DEFINE l == local[w]
<1>1. l \in Local /\ l.n \in 1 .. MaxRequests /\ l.req \in Request /\ "theirs" \in PC
  BY Busy DEF Fork, PC
<1>2. ASSUME NEW p \in Pid, ~ Live(p),
             child' = [child EXCEPT ![p] = [n |-> l.n, script |-> l.req.script, ends |-> held]],
             Set(w, [l EXCEPT !.pc = "theirs", !.pid = p])
      PROVE  /\ Alone(w) /\ local'[w].pid = p /\ local'[w].answers = local[w].answers
             /\ local'[w].pc = "theirs" /\ local'[w].open = local[w].open
             /\ child[p].n = 0 /\ child' \in [Pid -> Child] /\ child'[p].n = local[w].n
             /\ \A o \in Pid \ {p} : child'[o].n = child[o].n
  <2> DEFINE o == [l EXCEPT !.pc = "theirs"]
             m == [o EXCEPT !.pid = p]
  <2>1. o \in Local /\ m \in Local
    BY <1>1, Assign
  <2>2. /\ m.n = l.n /\ m.req = l.req /\ m.pc = "theirs" /\ m.open = l.open
        /\ m.pid = p /\ m.answers = l.answers
    BY <1>1 DEF Local
  <2>3. Alone(w) /\ local'[w] = m
    BY <1>2, <2>1, <2>2, SetAlone DEF Fork
  <2>4. [n |-> l.n, script |-> l.req.script, ends |-> held] \in Child
    BY <1>1, RequestAssumption DEF Types, Child
  <2>5. child' \in [Pid -> Child] /\ child'[p].n = l.n /\ \A q \in Pid \ {p} : child'[q].n = child[q].n
    BY <1>2, <2>4 DEF Types
  <2> QED
    BY <1>2, <2>2, <2>3, <2>5 DEF Live
<1>3. CASE UNCHANGED child /\ Set(w, [Failed(l, 500, "theirs") EXCEPT !.forked = FALSE])
  <2> DEFINE f == Failed(l, 500, "theirs")
             m == [f EXCEPT !.forked = FALSE]
  <2>5. 500 \in Errors
    BY ErrorsAre
  <2>1. /\ f \in Local /\ f.n = l.n /\ f.req = l.req /\ f.pc = "theirs" /\ f.open = l.open
        /\ f.pid = l.pid /\ f.answers = Append(l.answers, 500)
    BY <1>1, <2>5, FailedLocal
  <2> HIDE DEF f
  <2>2. /\ m \in Local /\ m.n = l.n /\ m.req = l.req /\ m.pc = "theirs" /\ m.open = l.open
        /\ m.pid = l.pid /\ m.answers = Append(l.answers, 500) /\ ~ m.forked
    <3>1. m \in Local
      BY <2>1, Assign
    <3> QED
      BY <2>1, <3>1 DEF Local
  <2>3. Set(w, m)
    BY <1>3 DEF f
  <2> HIDE DEF m
  <2>4. Alone(w) /\ local'[w] = m
    BY <2>2, <2>3, SetAlone DEF Fork
  <2> QED
    BY <1>3, <2>2, <2>4 DEF Fork
<1> QED
  BY <1>2, <1>3 DEF Fork

\* The parent closes the child's two ends, and answers 500 again if there is no child.
LEMMA CloseTheirsEffect ==
  ASSUME Types, Numbered, NEW w \in Worker, CloseTheirs(w)
  PROVE  /\ Alone(w) /\ UNCHANGED <<child, pipe>>
         /\ local[w].pc = "theirs"
         /\ local'[w].pid = local[w].pid /\ local'[w].forked = local[w].forked
         /\ \E A \in SUBSET Ends(local[w].n) : held' = held \ A /\ local'[w].open = local[w].open \ A
         /\ IF local[w].pid = 0
            THEN local'[w].pc = "done" /\ local'[w].answers = Append(local[w].answers, 500)
            ELSE local'[w].pc = "fdopen" /\ local'[w].answers = local[w].answers
<1> DEFINE l      == local[w]
           theirs == {R(l.n, "in"), W(l.n, "out")} \cap held
           m      == [l EXCEPT !.open = l.open \ theirs]
<1>1. l \in Local /\ l.pc = "theirs" /\ l.open \in SUBSET End
  BY Busy DEF CloseTheirs, CloseTheirsWith
<1>2. theirs \in SUBSET Ends(l.n)
  BY DEF Ends
<1>3. /\ held' = held \ theirs /\ UNCHANGED <<child, pipe, count>>
      /\ Set(w, IF l.pid = 0 THEN Failed(m, 500, "done") ELSE [m EXCEPT !.pc = "fdopen"])
  BY DEF CloseTheirs, CloseTheirsWith
<1>4. m \in Local
  BY <1>1, Assign
<1>5. /\ m.n = l.n /\ m.req = l.req /\ m.pid = l.pid /\ m.forked = l.forked
      /\ m.open = l.open \ theirs /\ m.answers = l.answers
  BY <1>1 DEF Local
<1> HIDE DEF m
<1>6. CASE l.pid = 0
  <2>1. 500 \in Errors /\ "done" \in PC
    BY ErrorsAre
  <2>2. Set(w, Failed(m, 500, "done"))
    BY <1>3, <1>6
  <2>3. Alone(w) /\ local'[w] = Failed(m, 500, "done")
    BY <1>3, <1>4, <1>5, <2>1, <2>2, FailedLocal, SetAlone
  <2>4. /\ local'[w].pc = "done" /\ local'[w].answers = Append(l.answers, 500)
        /\ local'[w].pid = l.pid /\ local'[w].forked = l.forked /\ local'[w].open = l.open \ theirs
    BY <1>4, <1>5, <2>1, <2>3, FailedLocal
  <2> HIDE DEF theirs
  <2>5. \E A \in SUBSET Ends(l.n) : held' = held \ A /\ local'[w].open = l.open \ A
    BY <1>2, <1>3, <2>4
  <2>6. UNCHANGED <<child, pipe>>
    BY <1>3
  <2> QED
    BY <1>1, <1>6, <2>3, <2>4, <2>5, <2>6
<1>7. CASE l.pid # 0
  <2> DEFINE o == [m EXCEPT !.pc = "fdopen"]
  <2>1. "fdopen" \in PC
    BY DEF PC
  <2>2. o \in Local
    BY <1>4, <2>1, Assign
  <2>3. /\ o.n = l.n /\ o.req = l.req /\ o.pid = l.pid /\ o.forked = l.forked
        /\ o.open = l.open \ theirs /\ o.answers = l.answers /\ o.pc = "fdopen"
    BY <1>4, <1>5 DEF Local
  <2>4. Set(w, o)
    BY <1>3, <1>7
  <2> HIDE DEF o
  <2>5. Alone(w) /\ local'[w] = o
    BY <1>3, <2>2, <2>3, <2>4, SetAlone
  <2> HIDE DEF theirs
  <2>6. \E A \in SUBSET Ends(l.n) : held' = held \ A /\ local'[w].open = l.open \ A
    BY <1>2, <1>3, <2>3, <2>5
  <2>7. UNCHANGED <<child, pipe>>
    BY <1>3
  <2> QED
    BY <1>1, <1>7, <2>3, <2>5, <2>6, <2>7
<1> QED
  BY <1>6, <1>7

\* The program runs: these steps touch one end of a pipe at most, and answer 200 or an error.
Middle(w) == Fdopen(w) \/ Pull(w) \/ Push(w) \/ CloseIn(w) \/ ReadHead(w) \/ SendRest(w)

\* Where such a step leads, and what it answers.
Led(w) ==
  \/ /\ local[w].pc # "body" /\ local'[w].pc \in {"pull", "push", "eof", "head"}
     /\ local'[w].answers = local[w].answers
  \/ /\ local[w].pc # "body" /\ local'[w].pc = "body" /\ local'[w].answers = Append(local[w].answers, 200)
  \/ /\ local[w].pc # "body" /\ local'[w].pc = "done"
     /\ \E s \in Errors : local'[w].answers = Append(local[w].answers, s)
  \/ /\ local[w].pc = "body" /\ local'[w].pc \in {"body", "done"} /\ local'[w].answers = local[w].answers

LEMMA MiddleEffect ==
  ASSUME Types, Numbered, NEW w \in Worker, Middle(w)
  PROVE  /\ Alone(w) /\ UNCHANGED child /\ pipe' \in [Pipes -> Seq(Token)]
         /\ local[w].pc \in {"fdopen", "pull", "push", "eof", "head", "body"}
         /\ local'[w].pid = local[w].pid /\ local'[w].forked = local[w].forked
         /\ \E A \in SUBSET Ends(local[w].n) : held' = held \ A /\ local'[w].open = local[w].open \ A
         /\ Led(w)
<1> DEFINE l == local[w]
<1>1. l.pc \in {"fdopen", "pull", "push", "eof", "head", "body"} /\ UNCHANGED <<child, count>>
  BY DEF Middle, Fdopen, Pull, Push, CloseIn, ReadHead, SendRest, SendRestUntil
<1>2. l \in Local /\ l.n \in 1 .. MaxRequests /\ l.open \in SUBSET End /\ l.put \in Nat
  BY <1>1, Busy DEF Local
<1>3. {"pull", "push", "eof", "head", "body", "done"} \subseteq PC /\ {411, 417, 500, 577} \subseteq Errors
  BY ErrorsAre DEF PC
<1>4. held' = held /\ local'[w].open = l.open =>
        \E A \in SUBSET Ends(l.n) : held' = held \ A /\ local'[w].open = l.open \ A
  <2>1. {} \in SUBSET Ends(l.n) /\ held = held \ {} /\ l.open = l.open \ {}
    OBVIOUS
  <2> QED
    BY <2>1
<1>5. <<l.n, "in">> \in Pipes /\ <<l.n, "out">> \in Pipes
  BY <1>2 DEF Pipes
<1>6. ASSUME Fdopen(w)
      PROVE  Alone(w) /\ Led(w) /\ local'[w].pid = l.pid /\ local'[w].forked = l.forked
             /\ local'[w].open = l.open /\ held' = held /\ pipe' = pipe
  <2>1. \/ \E x \in {"eof", "pull", "push"} : Set(w, [l EXCEPT !.pc = x])
        \/ \E s \in {411, 417, 500} : Set(w, Failed(l, s, "done"))
    BY <1>6 DEF Fdopen
  <2>2. l.pc # "body" /\ held' = held /\ pipe' = pipe
    BY <1>6 DEF Fdopen
  <2> QED
    BY <1>1, <1>3, <2>1, <2>2, GoesOn, GoesWrong DEF Led
<1>13. ASSUME Pull(w)
       PROVE  Alone(w) /\ Led(w) /\ local'[w].pid = l.pid /\ local'[w].forked = l.forked
              /\ local'[w].open = l.open /\ held' = held /\ pipe' = pipe
  <2>1. \/ \E x \in {"eof", "push"} : Set(w, [l EXCEPT !.pc = x])
        \/ Set(w, Failed(l, 577, "done"))
    BY <1>13 DEF Pull
  <2>2. l.pc # "body" /\ held' = held /\ pipe' = pipe
    BY <1>13 DEF Pull
  <2> QED
    BY <1>1, <1>3, <2>1, <2>2, GoesOn, GoesWrong DEF Led
<1>7. ASSUME Push(w)
      PROVE  Alone(w) /\ Led(w) /\ local'[w].pid = l.pid /\ local'[w].forked = l.forked
             /\ local'[w].open = l.open /\ held' = held /\ pipe' \in [Pipes -> Seq(Token)]
  <2>1. l.pc = "push" /\ held' = held
    BY <1>7 DEF Push
  <2>2. CASE Set(w, Failed(l, 577, "done")) /\ pipe' = pipe
    BY <1>1, <1>3, <2>1, <2>2, GoesWrong DEF Led, Types
  <2>3. ASSUME NEW x \in Nat, NEW y \in {"pull", "push"}, Set(w, [l EXCEPT !.put = x, !.pc = y])
        PROVE  /\ Alone(w) /\ Led(w) /\ local'[w].pid = l.pid /\ local'[w].forked = l.forked
               /\ local'[w].open = l.open
    <3> DEFINE o == [l EXCEPT !.put = x]
               m == [o EXCEPT !.pc = y]
    <3>1. o \in Local
      BY <1>2, Assign
    <3>2. Set(w, m)
      BY <2>3
    <3>3. /\ o.n = l.n /\ o.req = l.req /\ o.pid = l.pid /\ o.pc = l.pc
          /\ o.forked = l.forked /\ o.open = l.open /\ o.answers = l.answers
      BY <1>2 DEF Local
    <3> HIDE DEF o
    <3>4. m \in Local
      <4>1. y \in PC
        BY DEF PC
      <4> QED
        BY <3>1, <4>1, Assign
    <3>5. /\ m.n = l.n /\ m.req = l.req /\ m.pid = l.pid /\ m.pc = y
          /\ m.forked = l.forked /\ m.open = l.open /\ m.answers = l.answers
      BY <3>1, <3>3 DEF Local
    <3> HIDE DEF m
    <3>6. Alone(w) /\ local'[w] = m
      BY <1>1, <1>2, <3>2, <3>4, <3>5, SetAlone
    <3> QED
      BY <2>1, <3>5, <3>6 DEF Led
  <2>4. CASE /\ pipe' = [pipe EXCEPT ![<<l.n, "in">>] = Append(@, "body")]
             /\ \E x \in Nat : \E y \in {"pull", "push"} : Set(w, [l EXCEPT !.put = x, !.pc = y])
    <3>1. Append(pipe[<<l.n, "in">>], "body") \in Seq(Token)
      BY <1>5 DEF Types, Token
    <3>2. pipe' \in [Pipes -> Seq(Token)]
      BY <2>4, <3>1 DEF Types
    <3> QED
      BY <2>1, <2>3, <2>4, <3>2
  <2>5. CASE /\ pipe' = pipe
             /\ \E x \in Nat : \E y \in {"pull", "push"} : Set(w, [l EXCEPT !.put = x, !.pc = y])
    BY <2>1, <2>3, <2>5 DEF Types
  <2>6. l.put + 1 \in Nat /\ l.req.early \in Nat
    BY <1>1, <1>2, Busy, RequestAssumption
  <2> QED
    BY <1>7, <2>2, <2>4, <2>5, <2>6 DEF Push
<1>8. ASSUME CloseIn(w)
      PROVE  /\ Alone(w) /\ Led(w) /\ local'[w].pid = l.pid /\ local'[w].forked = l.forked
             /\ pipe' = pipe
             /\ \E A \in SUBSET Ends(l.n) : held' = held \ A /\ local'[w].open = l.open \ A
  <2> DEFINE A == {W(l.n, "in")}
             o == [l EXCEPT !.pc = "head"]
             m == [o EXCEPT !.open = l.open \ A]
  <2>1. l.pc = "eof" /\ held' = held \ A /\ pipe' = pipe
    BY <1>8 DEF CloseIn
  <2>2. A \in SUBSET Ends(l.n)
    BY DEF Ends
  <2>3. /\ o \in Local /\ o.n = l.n /\ o.req = l.req /\ o.pid = l.pid /\ o.pc = "head"
        /\ o.forked = l.forked /\ o.open = l.open /\ o.answers = l.answers
    <3>1. o \in Local
      BY <1>2, <1>3, Assign
    <3> QED
      BY <1>2, <3>1 DEF Local
  <2>4. Set(w, m)
    BY <1>8, <2>3 DEF CloseIn
  <2> HIDE DEF o
  <2>5. m \in Local
    BY <1>2, <2>3, Assign
  <2>6. /\ m.n = l.n /\ m.req = l.req /\ m.pid = l.pid /\ m.pc = "head"
        /\ m.forked = l.forked /\ m.open = l.open \ A /\ m.answers = l.answers
    BY <2>3 DEF Local
  <2> HIDE DEF m
  <2>7. Alone(w) /\ local'[w] = m
    BY <1>1, <2>4, <2>5, <2>6, SetAlone
  <2> QED
    BY <2>1, <2>2, <2>6, <2>7 DEF Led
<1>9. ASSUME NEW q \in Pipes, pipe[q] # <<>>
      PROVE  /\ [pipe EXCEPT ![q] = Tail(pipe[q])] \in [Pipes -> Seq(Token)]
             /\ Head(pipe[q]) \in Token
  BY <1>9 DEF Types
<1>10. ASSUME ReadHead(w)
       PROVE  Alone(w) /\ Led(w) /\ local'[w].pid = l.pid /\ local'[w].forked = l.forked
              /\ local'[w].open = l.open /\ held' = held /\ pipe' \in [Pipes -> Seq(Token)]
  <2>1. l.pc = "head" /\ held' = held
    BY <1>10 DEF ReadHead
  <2>2. pipe' \in [Pipes -> Seq(Token)]
    BY <1>5, <1>9, <1>10 DEF ReadHead, Types
  <2>3. CASE Set(w, Failed(l, 500, "done"))
    BY <1>1, <1>3, <2>1, <2>2, <2>3, GoesWrong DEF Led
  <2>4. CASE Set(w, [l EXCEPT !.pc = "body", !.answers = Append(l.answers, 200)])
    <3> DEFINE o == [l EXCEPT !.pc = "body"]
               m == [o EXCEPT !.answers = Append(l.answers, 200)]
    <3>1. /\ o \in Local /\ o.n = l.n /\ o.req = l.req /\ o.pid = l.pid /\ o.pc = "body"
          /\ o.forked = l.forked /\ o.open = l.open /\ o.answers = l.answers
      <4>1. o \in Local
        BY <1>2, <1>3, Assign
      <4> QED
        BY <1>2, <4>1 DEF Local
    <3>2. Set(w, m)
      BY <2>4
    <3>3. Append(l.answers, 200) \in Seq(Nat)
      BY <1>2 DEF Local
    <3> HIDE DEF o
    <3>4. m \in Local
      BY ZenonT(40), <3>1, <3>3, Assign
    <3>5. /\ m.n = l.n /\ m.req = l.req /\ m.pid = l.pid /\ m.pc = "body"
          /\ m.forked = l.forked /\ m.open = l.open /\ m.answers = Append(l.answers, 200)
      BY <3>1 DEF Local
    <3> HIDE DEF m
    <3>6. Alone(w) /\ local'[w] = m
      BY <1>1, <3>2, <3>4, <3>5, SetAlone
    <3> QED
      BY <2>1, <2>2, <3>5, <3>6 DEF Led
  <2> QED
    BY <1>10, <2>3, <2>4 DEF ReadHead
<1>11. ASSUME SendRest(w)
       PROVE  Alone(w) /\ Led(w) /\ local'[w].pid = l.pid /\ local'[w].forked = l.forked
              /\ local'[w].open = l.open /\ held' = held /\ pipe' \in [Pipes -> Seq(Token)]
  <2>1. l.pc = "body" /\ held' = held
    BY <1>11 DEF SendRest, SendRestUntil
  <2>2. pipe' \in [Pipes -> Seq(Token)]
    BY <1>5, <1>9, <1>11 DEF SendRest, SendRestUntil, Types
  <2>3. CASE Set(w, [l EXCEPT !.pc = "done"])
    BY <1>1, <1>3, <2>1, <2>2, <2>3, GoesOn DEF Led
  <2>4. CASE /\ pipe[<<l.n, "out">>] # <<>>
             /\ Set(w, [l EXCEPT !.got = Append(l.got, Head(pipe[<<l.n, "out">>]))])
    <3> DEFINE m == [l EXCEPT !.got = Append(l.got, Head(pipe[<<l.n, "out">>]))]
    <3>1. Append(l.got, Head(pipe[<<l.n, "out">>])) \in Seq(Token)
      BY <1>2, <1>5, <1>9, <2>4 DEF Local
    <3>2. m \in Local
      BY <1>2, <3>1, Assign
    <3>3. /\ m.n = l.n /\ m.req = l.req /\ m.pid = l.pid /\ m.pc = l.pc
          /\ m.forked = l.forked /\ m.open = l.open /\ m.answers = l.answers
      BY <1>2 DEF Local
    <3>4. Set(w, m)
      BY <2>4
    <3> HIDE DEF m
    <3>5. Alone(w) /\ local'[w] = m
      BY <1>1, <3>2, <3>3, <3>4, SetAlone
    <3> QED
      BY <2>1, <2>2, <3>3, <3>5 DEF Led
  <2> QED
    BY <1>11, <2>3, <2>4 DEF SendRest, SendRestUntil
<1> QED
  BY <1>1, <1>4, <1>6, <1>7, <1>8, <1>10, <1>11, <1>13 DEF Middle, Types

\* kill() ends whichever process has the pid; its handler, if it is another, is spoiled.
LEMMA KillEffect ==
  ASSUME Types, Numbered, NEW w \in Worker, Kill(w)
  PROVE  /\ Alone(w) /\ UNCHANGED <<held, pipe>> /\ local[w].pc = "done" /\ local'[w].pc = "close"
         /\ local'[w].pid = local[w].pid /\ local'[w].forked = local[w].forked
         /\ local'[w].open = local[w].open /\ local'[w].answers = local[w].answers
         /\ child' \in [Pid -> Child]
         /\ \A p \in Pid : child'[p].n = IF p = local[w].pid THEN 0 ELSE child[p].n
<1> DEFINE p == local[w].pid
           before == IF p = 0 THEN local ELSE Lost(p, w)
<1>1. local[w] \in Local /\ p \in Pid \cup {0} /\ local[w].pc = "done"
  BY Busy DEF Kill
<1>2. /\ before \in [Worker -> Local] /\ before[w] = local[w]
      /\ \A v \in Worker : LET a == local[v] b == before[v] IN
           /\ b.pc = a.pc /\ b.n = a.n /\ b.req = a.req /\ b.pid = a.pid /\ b.open = a.open
           /\ b.answers = a.answers /\ b.forked = a.forked
  <2>1. ASSUME NEW l \in Local
        PROVE  LET b == [l EXCEPT !.spoiled = TRUE] IN
                 /\ b \in Local
                 /\ b.pc = l.pc /\ b.n = l.n /\ b.req = l.req /\ b.pid = l.pid /\ b.open = l.open
                 /\ b.answers = l.answers /\ b.forked = l.forked
    BY DEF Local
  <2>2. \A v \in Worker : local[v] \in Local
    BY DEF Types
  <2>3. CASE p = 0
    BY <2>3 DEF Types
  <2>4. CASE p # 0
    <3>1. before = [v \in Worker |->
                      IF Live(p) /\ v # w /\ local[v].n = child[p].n
                      THEN [local[v] EXCEPT !.spoiled = TRUE] ELSE local[v]]
      BY <2>4 DEF Lost
    <3> HIDE DEF before
    <3> QED
      BY <2>1, <2>2, <3>1
  <2> QED
    BY <2>3, <2>4
<1>3. local' = [before EXCEPT ![w] = [before[w] EXCEPT !.pc = "close"]]
  BY DEF Kill
<1> HIDE DEF before
<1> DEFINE m == [local[w] EXCEPT !.pc = "close"]
<1>4. /\ m \in Local /\ m.pc = "close" /\ m.n = local[w].n /\ m.req = local[w].req
      /\ m.pid = p /\ m.open = local[w].open /\ m.answers = local[w].answers
      /\ m.forked = local[w].forked
  <2>1. "close" \in PC
    BY DEF PC
  <2>2. m \in Local
    BY <1>1, <2>1, Assign
  <2> QED
    BY <1>1, <2>2 DEF Local
<1> HIDE DEF m
<1>5. local' = [before EXCEPT ![w] = m]
  BY <1>2, <1>3 DEF m
<1>6. Alone(w) /\ local'[w] = m
  <2>1. /\ local' \in [Worker -> Local] /\ local'[w] = m
        /\ \A v \in Worker \ {w} : local'[v] = before[v]
    BY <1>2, <1>4, <1>5
  <2>2. \A v \in Worker \ {w} : Same(v)
    BY <1>2, <2>1 DEF Same
  <2> QED
    BY <1>4, <2>1, <2>2 DEF Alone, Kill
<1>7. /\ child' \in [Pid -> Child]
      /\ \A q \in Pid : child'[q].n = IF q = p THEN 0 ELSE child[q].n
  <2>1. Dead \in Child /\ Dead.n = 0
    BY BoundAssumption DEF Dead, Child
  <2>2. CASE p = 0
    BY <2>2, PidAssumption DEF Kill, Types
  <2>3. CASE p # 0
    BY <1>1, <2>1, <2>3 DEF Kill, Types
  <2> QED
    BY <2>2, <2>3
<1> QED
  BY <1>1, <1>4, <1>6, <1>7 DEF Kill

\* What is left open is closed.
LEMMA CloseRestEffect ==
  ASSUME Types, Numbered, NEW w \in Worker, CloseRest(w)
  PROVE  /\ Alone(w) /\ UNCHANGED <<child, pipe>>
         /\ local[w].pc = "close" /\ local'[w].pc = "end"
         /\ local'[w].pid = local[w].pid /\ local'[w].forked = local[w].forked
         /\ local'[w].answers = local[w].answers
         /\ held' = held \ local[w].open /\ local'[w].open = {}
<1> DEFINE l == local[w]
           o == [l EXCEPT !.pc = "end"]
           m == [o EXCEPT !.open = {}]
<1>1. l \in Local /\ l.pc = "close" /\ "end" \in PC
  BY Busy DEF CloseRest, PC
<1>2. /\ o \in Local /\ o.n = l.n /\ o.req = l.req /\ o.pid = l.pid /\ o.pc = "end"
      /\ o.forked = l.forked /\ o.answers = l.answers
  <2>1. o \in Local
    BY <1>1, Assign
  <2> QED
    BY <1>1, <2>1 DEF Local
<1>3. Set(w, m)
  BY DEF CloseRest
<1> HIDE DEF o
<1>4. m \in Local
  BY <1>2, Assign
<1>5. /\ m.n = l.n /\ m.req = l.req /\ m.pid = l.pid /\ m.pc = "end"
      /\ m.forked = l.forked /\ m.open = {} /\ m.answers = l.answers
  BY <1>2 DEF Local
<1> HIDE DEF m
<1>6. Alone(w) /\ local'[w] = m
  BY <1>3, <1>4, <1>5, SetAlone DEF CloseRest
<1> QED
  BY <1>1, <1>5, <1>6 DEF CloseRest

\* A request comes, with the next number.
LEMMA BeginEffect ==
  ASSUME Types, Numbered, NEW w \in Worker, NEW r \in Request, Begin(w, r)
  PROVE  /\ local' \in [Worker -> Local] /\ UNCHANGED <<held, child, pipe>>
         /\ \A v \in Worker \ {w} : Same(v)
         /\ count' = count + 1 /\ count' \in 0 .. MaxRequests
         /\ local'[w].pc = "stdin" /\ local'[w].n = count + 1 /\ local'[w].req \in Request
         /\ local'[w].pid = 0 /\ local'[w].open = {} /\ local'[w].answers = <<>>
<1> DEFINE a == [Idle EXCEPT !.pc = "stdin"]
           b == [a EXCEPT !.n = count + 1]
           m == [b EXCEPT !.req = r]
<1>1. count' = count + 1 /\ count' \in 1 .. MaxRequests
  BY BoundAssumption DEF Begin, Types
<1>2. a \in Local /\ a.pc = "stdin" /\ a.pid = 0 /\ a.open = {} /\ a.answers = <<>>
  <2>1. Idle \in Local
    BY BoundAssumption DEF Idle, Local, PC
  <2>2. "stdin" \in PC
    BY DEF PC
  <2>3. a \in Local
    BY <2>1, <2>2, Assign
  <2> QED
    BY <2>3 DEF Idle
<1>3. Set(w, m)
  BY DEF Begin
<1> HIDE DEF a
<1>4. /\ b \in Local /\ b.pc = "stdin" /\ b.pid = 0 /\ b.open = {} /\ b.answers = <<>>
      /\ b.n = count + 1
  BY SMTT(30), <1>1, <1>2 DEF Local
<1> HIDE DEF b
<1>5. /\ m \in Local /\ m.pc = "stdin" /\ m.pid = 0 /\ m.open = {} /\ m.answers = <<>>
      /\ m.n = count + 1 /\ m.req = r
  BY <1>4 DEF Local
<1> HIDE DEF m
<1>6. /\ local' \in [Worker -> Local] /\ local'[w] = m
      /\ \A v \in Worker \ {w} : local'[v] = local[v]
  BY <1>3, <1>5 DEF Set, Types
<1>7. \A v \in Worker \ {w} : Same(v)
  BY <1>6 DEF Same
<1> QED
  BY <1>1, <1>5, <1>6, <1>7 DEF Begin

\* A program takes its next operation, or ends.
LEMMA ChildEffect ==
  ASSUME Types, NEW p \in Pid, Runs(p)
  PROVE  /\ UNCHANGED <<local, held, count>>
         /\ child' \in [Pid -> Child] /\ pipe' \in [Pipes -> Seq(Token)]
         /\ \A q \in Pid : child'[q].n \in {child[q].n, 0}
<1>1. child[p] \in Child
  BY DEF Types
<1>2. ASSUME Took(p), child[p].script # <<>>
      PROVE  child' \in [Pid -> Child] /\ \A q \in Pid : child'[q].n = child[q].n
  <2> DEFINE c == [child[p] EXCEPT !.script = Tail(child[p].script)]
  <2>1. Tail(child[p].script) \in Seq(Op)
    BY <1>1, <1>2 DEF Child
  <2>2. c \in Child /\ c.n = child[p].n
    BY <1>1, <2>1 DEF Child
  <2>3. child' = [child EXCEPT ![p] = c]
    BY <1>2 DEF Took
  <2> HIDE DEF c
  <2> QED
    BY <2>2, <2>3 DEF Types
<1>3. CASE ChildReads(p)
  <2> DEFINE q == <<child[p].n, "in">>
  <2>3. pipe' = pipe \/ (pipe[q] # <<>> /\ pipe' = [pipe EXCEPT ![q] = Tail(pipe[q])])
    BY <1>3 DEF ChildReads
  <2> HIDE DEF q
  <2>4. q \in Pipes /\ pipe[q] # <<>> => Tail(pipe[q]) \in Seq(Token)
    BY DEF Types
  <2>1. pipe' \in [Pipes -> Seq(Token)]
    BY <2>3, <2>4 DEF Types
  <2>2. UNCHANGED child => child' \in [Pid -> Child] /\ \A r \in Pid : child'[r].n = child[r].n
    BY DEF Types
  <2> QED
    BY <1>2, <1>3, <2>1, <2>2 DEF ChildReads
<1>4. CASE ChildWrites(p)
  <2> DEFINE q == <<child[p].n, "out">>
             op == Head(child[p].script)
  <2>1. pipe' = [pipe EXCEPT ![q] = Append(pipe[q], op)] /\ op \in Token
    BY <1>4 DEF ChildWrites, Token, Op
  <2> HIDE DEF q, op
  <2>2. q \in Pipes => Append(pipe[q], op) \in Seq(Token)
    BY <2>1 DEF Types
  <2>3. pipe' \in [Pipes -> Seq(Token)]
    BY <2>1, <2>2 DEF Types
  <2> QED
    BY <1>2, <1>4, <2>3 DEF ChildWrites
<1>5. CASE ChildExits(p)
  <2>1. Dead \in Child /\ Dead.n = 0
    BY BoundAssumption DEF Dead, Child
  <2> QED
    BY <1>5, <2>1 DEF ChildExits, Types
<1> QED
  BY <1>3, <1>4, <1>5 DEF Runs

-----------------------------------------------------------------------------
\* Return leaves the worker idle.
LEMMA ReturnEffect ==
  ASSUME Types, NEW w \in Worker, Return(w)
  PROVE  /\ local' \in [Worker -> Local] /\ UNCHANGED <<held, child, pipe, count>>
         /\ \A v \in Worker \ {w} : Same(v)
         /\ local[w].pc = "end" /\ local'[w] = Idle
<1>1. Idle \in Local
  BY BoundAssumption DEF Idle, Local, PC
<1>2. /\ local' \in [Worker -> Local] /\ local'[w] = Idle
      /\ \A v \in Worker \ {w} : local'[v] = local[v]
  BY <1>1 DEF Return, Set, Types
<1> QED
  BY <1>2 DEF Return, Same

\* A step of the handler between the first pipe and the return.
Inner(w) == Pipe(w) \/ Fork(w) \/ CloseTheirs(w) \/ Middle(w) \/ Kill(w) \/ CloseRest(w)

\* Such a step touches its own request's ends only, and those it forgets it closes.
LEMMA InnerEffect ==
  ASSUME Types, Numbered, Opened, NEW w \in Worker, Inner(w)
  PROVE  /\ Alone(w) /\ local[w].pc # "idle" /\ local'[w].pc # "idle"
         /\ local'[w].pc = "end" => local'[w].open = {}
         /\ \E A \in SUBSET Ends(local[w].n) :
               \/ held' = held \cup A /\ local'[w].open = local[w].open \cup A
               \/ held' = held \ A /\ local'[w].open = local[w].open \ A
<1> DEFINE l == local[w]
<1>1. held' = held /\ local'[w].open = l.open =>
        \E A \in SUBSET Ends(l.n) : held' = held \ A /\ local'[w].open = l.open \ A
  <2>1. {} \in SUBSET Ends(l.n) /\ held = held \ {} /\ l.open = l.open \ {}
    OBVIOUS
  <2> QED
    BY <2>1
<1>2. CASE Pipe(w)
  <2>1. Alone(w) /\ l.pc \in {"stdin", "stdout"} /\ local'[w].pc \in {"stdout", "fork", "done"}
    BY <1>2, PipeEffect
  <2>2. \E A \in SUBSET Ends(l.n) : held' = held \cup A /\ local'[w].open = l.open \cup A
    BY <1>2, PipeEffect
  <2> QED
    BY <2>1, <2>2
<1>3. CASE Fork(w)
  <2>1. Alone(w) /\ l.pc = "fork" /\ local'[w].pc = "theirs" /\ held' = held /\ local'[w].open = l.open
    BY <1>3, ForkEffect
  <2> QED
    BY <1>1, <2>1
<1>4. CASE CloseTheirs(w)
  <2>1. Alone(w) /\ l.pc = "theirs" /\ local'[w].pc \in {"done", "fdopen"}
    BY <1>4, CloseTheirsEffect
  <2>2. \E A \in SUBSET Ends(l.n) : held' = held \ A /\ local'[w].open = l.open \ A
    BY <1>4, CloseTheirsEffect
  <2> QED
    BY <2>1, <2>2
<1>5. CASE Middle(w)
  <2>1. Alone(w) /\ l.pc \in {"fdopen", "pull", "push", "eof", "head", "body"} /\ Led(w)
    BY <1>5, MiddleEffect
  <2>2. local'[w].pc \notin {"idle", "end"}
    BY <2>1 DEF Led
  <2>3. \E A \in SUBSET Ends(l.n) : held' = held \ A /\ local'[w].open = l.open \ A
    BY <1>5, MiddleEffect
  <2> QED
    BY <2>1, <2>2, <2>3
<1>6. CASE Kill(w)
  <2>1. Alone(w) /\ l.pc = "done" /\ local'[w].pc = "close" /\ held' = held /\ local'[w].open = l.open
    BY <1>6, KillEffect
  <2> QED
    BY <1>1, <2>1
<1>7. CASE CloseRest(w)
  <2>1. l.open \in SUBSET Ends(l.n) /\ {} = l.open \ l.open
    BY DEF Opened
  <2> QED
    BY <1>7, <2>1, CloseRestEffect
<1> QED
  BY <1>2, <1>3, <1>4, <1>5, <1>6, <1>7 DEF Inner

\* What an inner step does to the children: it forks its own, or kills some.
LEMMA InnerChildren ==
  ASSUME Types, Numbered, NEW w \in Worker, Inner(w)
  PROVE  /\ child' \in [Pid -> Child] /\ pipe' \in [Pipes -> Seq(Token)]
         /\ \A p \in Pid : child'[p].n \in {0, child[p].n, local[w].n}
<1>1. CASE Pipe(w)
  BY <1>1, PipeEffect DEF Types
<1>2. CASE Fork(w)
  BY <1>2, ForkEffect DEF Types
<1>3. CASE CloseTheirs(w)
  BY <1>3, CloseTheirsEffect DEF Types
<1>4. CASE Middle(w)
  BY <1>4, MiddleEffect DEF Types
<1>5. CASE Kill(w)
  BY <1>5, KillEffect DEF Types
<1>6. CASE CloseRest(w)
  BY <1>6, CloseRestEffect DEF Types
<1> QED
  BY <1>1, <1>2, <1>3, <1>4, <1>5, <1>6 DEF Inner

\* The kinds of step.
LEMMA Kinds ==
  ASSUME Next
  PROVE  \/ \E w \in Worker : Inner(w) \/ Return(w) \/ \E r \in Request : Begin(w, r)
         \/ \E p \in Pid : Runs(p)
BY DEF Next, Handler, Inner, Middle

\* Types, and the numbers of requests.
LEMMA NumberedStep ==
  ASSUME Types, Numbered, Opened, [Next]_vars
  PROVE  (Types /\ Numbered)'
<1>1. CASE UNCHANGED vars
  BY <1>1 DEF vars, Types, Numbered
<1>2. ASSUME NEW w \in Worker, Inner(w)
      PROVE  (Types /\ Numbered)'
  <2>1. local[w].n \in 1 .. MaxRequests /\ local[w].n <= count /\ local[w].req \in Request
    BY <1>2, InnerEffect, Busy DEF Numbered
  <2>2. PICK A \in SUBSET Ends(local[w].n) : held' = held \cup A \/ held' = held \ A
    BY <1>2, InnerEffect
  <2>3. A \in SUBSET End /\ \A e \in A : e[1] = local[w].n
    BY <2>1, EndsApart
  <2>4. Types'
    BY <1>2, <2>2, <2>3, InnerEffect, InnerChildren DEF Types, Alone
  <2>5. \A p \in Pid : child'[p].n <= count
    <3>1. 0 <= count /\ \A p \in Pid : child[p].n <= count
      BY DEF Numbered, Types
    <3>2. \A p \in Pid : child'[p].n \in {0, child[p].n, local[w].n}
      BY <1>2, InnerChildren
    <3> QED
      BY <2>1, <3>1, <3>2
  <2>6. \A e \in held' : e[1] <= count
    BY <2>1, <2>2, <2>3 DEF Numbered
  <2>7. count' = count
    BY <1>2, InnerEffect DEF Alone
  <2>8. \A v \in Worker : /\ local'[v].n = local[v].n /\ local'[v].req = local[v].req
                          /\ local'[v].pc = "idle" <=> local[v].pc = "idle"
    BY <1>2, InnerEffect DEF Alone, Same
  <2> QED
    BY <2>4, <2>5, <2>6, <2>7, <2>8 DEF Numbered
<1>3. ASSUME NEW w \in Worker, Return(w)
      PROVE  (Types /\ Numbered)'
  <2>1. Types'
    BY <1>3, ReturnEffect DEF Types
  <2>2. local'[w].n = 0 /\ local'[w].pc = "idle"
    BY <1>3, ReturnEffect DEF Idle
  <2> QED
    BY SMTT(30), <1>3, <2>1, <2>2, ReturnEffect DEF Numbered, Same, Types
<1>4. ASSUME NEW w \in Worker, NEW r \in Request, Begin(w, r)
      PROVE  (Types /\ Numbered)'
  <2>1. Types' /\ count \in Nat /\ count' = count + 1
    BY <1>4, BeginEffect, BoundAssumption DEF Types
  <2>2. \A v \in Worker \ {w} : local[v].n \in Nat /\ local'[v].n = local[v].n /\ local[v].n <= count
    BY <1>4, BeginEffect DEF Numbered, Same, Types, Local
  <2>3. local'[w].n = count + 1 /\ local'[w].pc = "stdin" /\ local'[w].req \in Request
    BY <1>4, BeginEffect
  <2>4. \A v \in Worker : /\ local'[v].n = 0 <=> local'[v].pc = "idle"
                          /\ local'[v].n <= count'
                          /\ local'[v].pc # "idle" => local'[v].req \in Request
    BY <1>4, <2>1, <2>2, <2>3, BeginEffect DEF Numbered, Same
  <2>5. \A u, v \in Worker : local'[u].n = local'[v].n /\ local'[u].n # 0 => u = v
    BY <2>1, <2>2, <2>3 DEF Numbered
  <2>6. \A p \in Pid : child'[p].n <= count'
    BY <1>4, <2>1, BeginEffect DEF Numbered, Types, Child
  <2>7. \A e \in held' : e[1] <= count'
    BY <1>4, <2>1, BeginEffect DEF Numbered, Types, End
  <2> QED
    BY <2>1, <2>4, <2>5, <2>6, <2>7 DEF Numbered
<1>5. ASSUME NEW p \in Pid, Runs(p)
      PROVE  (Types /\ Numbered)'
  <2>1. Types'
    BY <1>5, ChildEffect DEF Types
  <2>2. \A q \in Pid : child'[q].n <= count
    <3>1. 0 <= count /\ \A q \in Pid : child[q].n <= count
      BY DEF Numbered, Types
    <3>2. \A q \in Pid : child'[q].n \in {child[q].n, 0}
      BY <1>5, ChildEffect
    <3> QED
      BY <3>1, <3>2
  <2> QED
    BY <1>5, <2>1, <2>2, ChildEffect DEF Numbered
<1> QED
  BY <1>1, <1>2, <1>3, <1>4, <1>5, Kinds

\* Two requests have no end in common, so what one closes the other does not hold.
LEMMA OpenedStep ==
  ASSUME Types, Numbered, Opened, [Next]_vars
  PROVE  Opened'
<1>1. CASE UNCHANGED vars
  BY <1>1 DEF vars, Opened
<1>2. ASSUME NEW w \in Worker, Inner(w)
      PROVE  Opened'
  <2>1. PICK A \in SUBSET Ends(local[w].n) :
               \/ held' = held \cup A /\ local'[w].open = local[w].open \cup A
               \/ held' = held \ A /\ local'[w].open = local[w].open \ A
    BY <1>2, InnerEffect
  <2>2. /\ local'[w].n = local[w].n /\ local[w].n # 0
        /\ local'[w].pc = "end" => local'[w].open = {}
    BY <1>2, InnerEffect DEF Alone, Numbered
  <2>3. local'[w].open = held' \cap Ends(local'[w].n)
    BY <2>1, <2>2 DEF Opened
  <2>4. ASSUME NEW v \in Worker \ {w}
        PROVE  local'[v].open = held' \cap Ends(local'[v].n) /\ (local'[v].pc = "end" => local'[v].open = {})
    <3>1. local[v].n # local[w].n
      BY <2>2 DEF Numbered
    <3>2. A \cap Ends(local[v].n) = {}
      BY <3>1, EndsApart
    <3>3. held' \cap Ends(local[v].n) = held \cap Ends(local[v].n)
      BY <2>1, <3>2
    <3> QED
      BY <1>2, <3>3, InnerEffect DEF Alone, Same, Opened
  <2> QED
    BY <2>2, <2>3, <2>4 DEF Opened
<1>3. \A n : (\A e \in held : e[1] # n) => held \cap Ends(n) = {}
  BY EndsApart
<1>4. ASSUME NEW w \in Worker, Return(w)
      PROVE  Opened'
  <2>1. \A e \in held : e[1] # 0
    BY DEF Types, End
  <2>2. local'[w].open = {} /\ local'[w].n = 0
    BY <1>4, ReturnEffect DEF Idle
  <2>3. local'[w].open = held \cap Ends(local'[w].n)
    BY <1>3, <2>1, <2>2
  <2> QED
    BY <1>4, <2>2, <2>3, ReturnEffect DEF Opened, Same
<1>5. ASSUME NEW w \in Worker, NEW r \in Request, Begin(w, r)
      PROVE  Opened'
  <2>1. \A e \in held : e[1] # count + 1
    BY DEF Types, End, Numbered
  <2>2. local'[w].open = {} /\ local'[w].n = count + 1
    BY <1>5, BeginEffect
  <2>3. local'[w].open = held \cap Ends(local'[w].n)
    BY <1>3, <2>1, <2>2
  <2> QED
    BY <1>5, <2>2, <2>3, BeginEffect DEF Opened, Same
<1>6. ASSUME NEW p \in Pid, Runs(p)
      PROVE  Opened'
  BY <1>6, ChildEffect DEF Opened
<1> QED
  BY <1>1, <1>2, <1>4, <1>5, <1>6, Kinds

\* The child whose pid is kept is the only one, and Kill ends it.
LEMMA ParentedStep ==
  ASSUME Types, Numbered, Opened, Parented, [Next]_vars
  PROVE  Parented'
<1> DEFINE Good(v) ==
             /\ \A p \in Pid : child[p].n = local[v].n /\ local[v].n # 0 =>
                                 p = local[v].pid /\ local[v].pc \notin {"close", "end"}
             /\ local[v].pc \in {"stdin", "stdout", "fork"} => local[v].pid = 0
<1>1. \A v \in Worker : Good(v)
  BY DEF Parented
<1>2. SUFFICES ASSUME NEW v \in Worker
               PROVE  Good(v)'
  BY DEF Parented
<1>3. ASSUME Same(v), \A p \in Pid : child'[p].n \in {0, child[p].n}
      PROVE  Good(v)'
  BY <1>1, <1>3 DEF Same
<1>4. CASE UNCHANGED vars
  BY <1>1, <1>4 DEF vars
<1>5. ASSUME NEW p \in Pid, Runs(p)
      PROVE  Good(v)'
  BY <1>3, <1>5, ChildEffect DEF Same
<1>6. ASSUME NEW w \in Worker, Return(w)
      PROVE  Good(v)'
  <2>1. CASE v = w
    BY <1>6, <2>1, ReturnEffect DEF Idle
  <2>2. CASE v # w
    BY <1>3, <1>6, <2>2, ReturnEffect
  <2> QED
    BY <2>1, <2>2
<1>7. ASSUME NEW w \in Worker, NEW r \in Request, Begin(w, r)
      PROVE  Good(v)'
  <2>1. CASE v = w
    <3>1. \A p \in Pid : child[p].n # count + 1
      BY DEF Numbered, Types, Child
    <3> QED
      BY <1>7, <2>1, <3>1, BeginEffect
  <2>2. CASE v # w
    BY <1>3, <1>7, <2>2, BeginEffect
  <2> QED
    BY <2>1, <2>2
<1>8. ASSUME NEW w \in Worker, Inner(w), v # w
      PROVE  Good(v)'
  <2>1. Same(v) /\ local[w].n # 0
    BY <1>8, InnerEffect DEF Alone, Numbered
  <2>2. local[v].n # local[w].n
    BY <1>8, <2>1 DEF Numbered
  <2>3. \A p \in Pid : child'[p].n \in {0, child[p].n, local[w].n}
    BY <1>8, InnerChildren
  <2> QED
    BY <1>1, <2>1, <2>2, <2>3 DEF Same
<1>9. CASE Pipe(v)
  BY <1>1, <1>9, PipeEffect DEF Alone
<1>10. CASE Fork(v)
  <2>1. \A p \in Pid : child[p].n # local[v].n
    BY <1>1, <1>10, ForkEffect, PidAssumption DEF Numbered
  <2> QED
    BY <1>10, <2>1, ForkEffect DEF Alone
<1>11. CASE CloseTheirs(v)
  BY <1>1, <1>11, CloseTheirsEffect DEF Alone
<1>12. CASE Middle(v)
  BY <1>1, <1>12, MiddleEffect DEF Alone, Led
<1>13. CASE Kill(v)
  BY <1>1, <1>13, KillEffect DEF Alone
<1>14. CASE CloseRest(v)
  BY <1>1, <1>14, CloseRestEffect DEF Alone
<1> QED
  BY <1>4, <1>5, <1>6, <1>7, <1>8, <1>9, <1>10, <1>11, <1>12, <1>13, <1>14, Kinds DEF Inner

\* The two answers of a failed fork.
LEMMA TwoErrors == Append(<<500>>, 500) = <<500, 500>>
<1>1. <<500>> \in Seq({500})
  OBVIOUS
<1>2. Append(<<500>>, 500) = [i \in 1 .. 2 |-> IF i = 2 THEN 500 ELSE <<500>>[i]]
  BY <1>1
<1>3. <<500, 500>> = [i \in 1 .. 2 |-> IF i = 2 THEN 500 ELSE <<500>>[i]]
  OBVIOUS
<1> QED
  BY <1>2, <1>3

\* One answer for each way out, and two behind a failed fork.
LEMMA RepliedStep ==
  ASSUME Types, Numbered, Opened, Parented, Replied, [Next]_vars
  PROVE  Replied'
<1> DEFINE Good(v) ==
  LET l == local[v] IN
  /\ l.pc \in {"stdin", "stdout", "fork", "fdopen", "pull", "push", "eof", "head"} => l.answers = <<>>
  /\ l.pc = "theirs" => IF l.pid = 0 THEN ~ l.forked /\ l.answers = <<500>> ELSE l.answers = <<>>
  /\ l.pc = "body" => l.answers = <<200>>
  /\ l.pc \in {"done", "close", "end"} => \/ Len(l.answers) = 1
                                          \/ ~ l.forked /\ l.answers = <<500, 500>>
<1>1. \A v \in Worker : Good(v)
  BY DEF Replied
<1>2. SUFFICES ASSUME NEW v \in Worker
               PROVE  Good(v)'
  BY DEF Replied
<1>3. ASSUME Same(v)
      PROVE  Good(v)'
  BY <1>1, <1>3 DEF Same
<1>4. CASE UNCHANGED local
  BY <1>1, <1>4
<1>5. ASSUME NEW w \in Worker, Return(w)
      PROVE  Good(v)'
  <2>1. CASE v = w
    BY <1>5, <2>1, ReturnEffect DEF Idle
  <2> QED
    BY <1>3, <1>5, <2>1, ReturnEffect
<1>6. ASSUME NEW w \in Worker, NEW r \in Request, Begin(w, r)
      PROVE  Good(v)'
  <2>1. CASE v = w
    BY <1>6, <2>1, BeginEffect
  <2> QED
    BY <1>3, <1>6, <2>1, BeginEffect
<1>7. ASSUME NEW w \in Worker, Inner(w), v # w
      PROVE  Good(v)'
  BY <1>3, <1>7, InnerEffect DEF Alone
<1>8. \A s : Len(Append(<<>>, s)) = 1 /\ Append(<<>>, s) = <<s>>
  OBVIOUS
<1>10. CASE Pipe(v)
  <2>1. local[v].answers = <<>>
    BY <1>1, <1>10, PipeEffect
  <2>2. CASE local'[v].pc \in {"stdout", "fork"} /\ local'[v].answers = local[v].answers
    BY <2>1, <2>2
  <2>3. CASE local'[v].pc = "done" /\ local'[v].answers = Append(local[v].answers, 500)
    BY <1>8, <2>1, <2>3
  <2> QED
    BY <1>10, <2>2, <2>3, PipeEffect
<1>11. CASE Fork(v)
  <2>1. local[v].answers = <<>> /\ local[v].pid = 0 /\ local'[v].pc = "theirs"
    BY <1>1, <1>11, ForkEffect DEF Parented
  <2>2. CASE local'[v].pid \in Pid /\ local'[v].answers = local[v].answers
    BY <2>1, <2>2, PidAssumption
  <2>3. CASE /\ local'[v].pid = local[v].pid /\ ~ local'[v].forked
             /\ local'[v].answers = Append(local[v].answers, 500)
    BY <1>8, <2>1, <2>3
  <2> QED
    BY <1>11, <2>2, <2>3, ForkEffect
<1>12. CASE CloseTheirs(v)
  <2>1. CASE local[v].pid = 0
    <3>1. ~ local[v].forked /\ local[v].answers = <<500>>
      BY <1>1, <1>12, <2>1, CloseTheirsEffect
    <3>2. /\ local'[v].pc = "done" /\ local'[v].answers = Append(local[v].answers, 500)
          /\ local'[v].forked = local[v].forked
      BY <1>12, <2>1, CloseTheirsEffect
    <3>3. local'[v].answers = <<500, 500>>
      BY <3>1, <3>2, TwoErrors
    <3> QED
      BY <3>1, <3>2, <3>3
  <2>2. CASE local[v].pid # 0
    BY <1>1, <1>12, <2>2, CloseTheirsEffect
  <2> QED
    BY <2>1, <2>2
<1>13. CASE Middle(v)
  <2>1. IF local[v].pc = "body" THEN local[v].answers = <<200>> ELSE local[v].answers = <<>>
    BY <1>1, <1>13, MiddleEffect
  <2>2. Led(v)
    BY <1>13, MiddleEffect
  <2>3. CASE local[v].pc = "body"
    <3>1. Len(<<200>>) = 1
      OBVIOUS
    <3> QED
      BY ZenonT(40), <2>1, <2>2, <2>3, <3>1 DEF Led
  <2>4. CASE local[v].pc # "body"
    <3>1. local[v].answers = <<>>
      BY <2>1, <2>4
    <3>2. CASE local'[v].pc \in {"pull", "push", "eof", "head"} /\ local'[v].answers = local[v].answers
      BY <3>1, <3>2
    <3>3. CASE local'[v].pc = "body" /\ local'[v].answers = Append(local[v].answers, 200)
      <4>1. local'[v].answers = <<200>>
        BY <1>8, <3>1, <3>3
      <4> QED
        BY <3>3, <4>1
    <3>4. ASSUME NEW s, local'[v].pc = "done", local'[v].answers = Append(local[v].answers, s)
          PROVE  Good(v)'
      <4>1. Len(local'[v].answers) = 1
        BY <1>8, <3>1, <3>4
      <4> QED
        BY <3>4, <4>1
    <3> QED
      BY <2>2, <2>4, <3>2, <3>3, <3>4 DEF Led
  <2> QED
    BY <2>3, <2>4
<1>14. CASE Kill(v)
  BY <1>1, <1>14, KillEffect
<1>15. CASE CloseRest(v)
  BY <1>1, <1>15, CloseRestEffect
<1> QED
  BY <1>4, <1>5, <1>6, <1>7, <1>10, <1>11, <1>12, <1>13, <1>14, <1>15, Kinds, ChildEffect
     DEF Inner, vars

\* The invariant, all parts together.
LEMMA Invariance == Spec => []IInv
<1>1. Init => IInv
  BY InitInv
<1>2. IInv /\ [Next]_vars => IInv'
  BY NumberedStep, OpenedStep, ParentedStep, RepliedStep DEF IInv
<1> QED
  BY <1>1, <1>2, PTL DEF Spec

\* However many CGI programs run at once, whatever they do and whichever call fails, a
\* handler that returns has closed its pipes, has no child left, and has answered.
THEOREM NothingLeft == Spec => []NoneLeft
<1>1. IInv => NoneLeft
  BY DEF IInv, Numbered, Opened, Parented, Replied, NoneLeft
<1> QED
  BY <1>1, Invariance, PTL

-----------------------------------------------------------------------------
\* A set of numbers has a least one.
LEMMA Least ==
  ASSUME NEW S \in SUBSET Nat, S # {}
  PROVE  \E i \in S : \A j \in S : i <= j
<1>1. PICK i \in S : \A j \in S : ~ (<<j, i>> \in OpToRel(<, Nat))
  BY WFMin, NatLessThanWellFounded, Zenon
<1>2. \A j \in S : ~ (j < i)
  BY <1>1 DEF OpToRel
<1> QED
  BY <1>2

\* Written is the function its recursion describes: had some beginning of a script none, a
\* shortest one would have.
LEMMA WrittenIs ==
  ASSUME NEW s \in Seq(Op)
  PROVE  /\ Written(s)[0] = <<>>
         /\ \A k \in 1 .. Len(s) :
              Written(s)[k] = IF s[k] \in {"head", "bad", "out"} THEN Append(Written(s)[k - 1], s[k])
                              ELSE Written(s)[k - 1]
<1> DEFINE More(seq, k) == IF s[k] \in {"head", "bad", "out"} THEN Append(seq, s[k]) ELSE seq
           Fits(g, m) == g = [k \in 0 .. m |-> IF k = 0 THEN <<>> ELSE More(g[k - 1], k)]
           Missing == {m \in 0 .. Len(s) : ~ \E g : Fits(g, m)}
<1>1. Missing = {}
  <2>1. SUFFICES ASSUME Missing # {} PROVE FALSE
    OBVIOUS
  <2>2. PICK m \in Missing : \A j \in Missing : m <= j
    <3> HIDE DEF Fits
    <3>1. Len(s) \in Nat /\ Missing \in SUBSET Nat
      OBVIOUS
    <3> QED  BY <2>1, <3>1, Least
  <2>3. CASE m = 0
    <3> DEFINE g == [k \in 0 .. 0 |-> <<>>]
    <3>1. Fits(g, 0)
      OBVIOUS
    <3> QED  BY <2>3, <3>1
  <2>4. CASE m # 0
    <3>1. m \in Nat /\ m - 1 \in 0 .. Len(s) /\ m - 1 \notin Missing
      <4> HIDE DEF Fits
      <4>1. Len(s) \in Nat /\ m \in 0 .. Len(s)
        BY <2>2
      <4>2. m - 1 \in 0 .. Len(s) /\ ~ (m <= m - 1)
        BY <2>4, <4>1
      <4>3. m - 1 \notin Missing
        BY <2>2, <4>2
      <4> QED  BY <4>1, <4>2, <4>3
    <3>2. PICK g : Fits(g, m - 1)
      BY <3>1
    <3> DEFINE h == [k \in 0 .. m |-> IF k < m THEN g[k] ELSE More(g[m - 1], m)]
    <3> HIDE DEF More
    <3>3. \A k \in 0 .. m : h[k] = IF k = 0 THEN <<>> ELSE More(h[k - 1], k)
      <4> SUFFICES ASSUME NEW k \in 0 .. m PROVE h[k] = IF k = 0 THEN <<>> ELSE More(h[k - 1], k)
        OBVIOUS
      <4>1. CASE k = m
        <5>1. h[k - 1] = g[m - 1] /\ h[k] = More(g[m - 1], m)
          BY <2>4, <3>1, <4>1
        <5> QED  BY <2>4, <4>1, <5>1
      <4>2. CASE k < m
        <5>1. h[k] = g[k] /\ (k # 0 => h[k - 1] = g[k - 1])
          BY <3>1, <4>2
        <5>2. g[k] = IF k = 0 THEN <<>> ELSE More(g[k - 1], k)
          BY <3>1, <3>2, <4>2
        <5> QED  BY <5>1, <5>2
      <4> QED  BY <3>1, <4>1, <4>2
    <3>4. Fits(h, m)
      BY <3>3
    <3> QED  BY <3>4
  <2> QED  BY <2>3, <2>4
<1>2. Len(s) \in 0 .. Len(s)
  OBVIOUS
<1>3. \E g : Fits(g, Len(s))
  BY <1>1, <1>2
<1>4. Written(s) = CHOOSE g : Fits(g, Len(s))
  BY DEF Written
<1> HIDE DEF Fits
<1>5. Fits(Written(s), Len(s))
  BY <1>3, <1>4
<1> USE DEF Fits
<1> HIDE DEF More
<1>6. \A k \in 0 .. Len(s) : Written(s)[k] = IF k = 0 THEN <<>> ELSE More(Written(s)[k - 1], k)
  BY <1>5
<1>7. Len(s) \in Nat /\ 0 \in 0 .. Len(s) /\ \A k \in 1 .. Len(s) : k \in 0 .. Len(s) /\ k # 0
  OBVIOUS
<1>8. Written(s)[0] = <<>> /\ \A k \in 1 .. Len(s) : Written(s)[k] = More(Written(s)[k - 1], k)
  BY <1>6, <1>7
<1> USE DEF More
<1> QED
  BY <1>8

\* What the handler has read of the program's output, and what the program still has to do.
Seen(w)  == IF local[w].answers = <<200>> THEN <<"head">> \o local[w].got ELSE <<>>
Rest(w)  == IF local[w].pid \in Pid /\ child[local[w].pid].n = local[w].n
            THEN child[local[w].pid].script ELSE <<>>
Out(w)   == pipe[<<local[w].n, "out">>]
Early    == {"stdin", "stdout", "fork"}
Running  == {"theirs", "fdopen", "pull", "push", "eof", "head", "body"}

\* Before the fork the pipe is empty, and later there is a child.
Unused(w) == LET l == local[w] IN
  /\ l.pc \in Running \ {"theirs"} => l.pid # 0
  /\ l.pc \in Early => Out(w) = <<>>
  /\ l.pc = "fork" => W(l.n, "out") \in held
  /\ l.pc \in (Early \cup Running) \ {"body"} => l.got = <<>>
  /\ l.n # 0 /\ l.pid \in Pid /\ child[l.pid].n = l.n => W(l.n, "out") \in child[l.pid].ends

\* What was read, what is in the pipe and what the program still has to write is all it writes.
Flowing(w) == LET s == local[w].req.script IN
  /\ Len(Rest(w)) <= Len(s) /\ Rest(w) = SubSeq(s, Len(s) - Len(Rest(w)) + 1, Len(s))
  /\ Seen(w) \o Out(w) = Written(s)[Len(s) - Len(Rest(w))]

\* Nothing of the output of a request is lost unless it is spoiled.
Streamed(w) == LET l == local[w] IN
  /\ Unused(w)
  /\ l.pc \in Running /\ l.pid # 0 /\ ~ l.spoiled => Flowing(w)
  /\ l.pc \in {"done", "close", "end"} /\ l.answers = <<200>> /\ ~ l.spoiled =>
       <<"head">> \o l.got = Written(l.req.script)[Len(l.req.script)]

Stream == /\ \A w \in Worker : Streamed(w)
          /\ \A n \in count + 1 .. MaxRequests : pipe[<<n, "out">>] = <<>>

\* What others do to a handler at most: they add to what the server holds, or kill its child.
Apart(v) == LET l == local[v] m == local'[v] IN
  /\ Same(v) /\ m.got = l.got /\ (l.n # 0 => Out(v)' = Out(v))
  /\ l.pc = "fork" /\ W(l.n, "out") \in held => W(l.n, "out") \in held'
  /\ l.n # 0 /\ l.pid \in Pid /\ child'[l.pid].n = l.n => child'[l.pid] = child[l.pid]
  /\ ~ m.spoiled =>
       ~ l.spoiled /\ (l.n # 0 /\ l.pid \in Pid /\ child[l.pid].n = l.n => child'[l.pid].n = l.n)

LEMMA ApartKept ==
  ASSUME Types, Numbered, NEW v \in Worker, Streamed(v), Apart(v),
         \A p \in Pid : child'[p].n = local[v].n /\ local[v].n # 0 => child[p].n = local[v].n
  PROVE  Streamed(v)'
<1> DEFINE l == local[v]
           m == local'[v]
<1>1. /\ m.pc = l.pc /\ m.n = l.n /\ m.req = l.req /\ m.pid = l.pid /\ m.answers = l.answers
      /\ m.got = l.got
  BY DEF Apart, Same
<1>2. Unused(v)'
  <2>1. l.pc \in Early => l.n # 0
    BY DEF Numbered, Early
  <2> QED  BY <1>1, <2>1 DEF Unused, Streamed, Apart
<1>3. ASSUME ~ m.spoiled, m.pc \in Running, m.pid # 0
      PROVE  Flowing(v)'
  <2>1. l.n # 0
    BY <1>1, <1>3 DEF Numbered, Running
  <2>2. Flowing(v)
    BY <1>1, <1>3 DEF Streamed, Apart
  <2>3. Rest(v)' = Rest(v) /\ Seen(v)' = Seen(v) /\ Out(v)' = Out(v)
    BY <1>1, <1>3, <2>1 DEF Rest, Seen, Apart
  <2> QED  BY <1>1, <2>2, <2>3 DEF Flowing
<1>4. ASSUME ~ m.spoiled, m.pc \in {"done", "close", "end"}, m.answers = << 200 >>
      PROVE  <<"head">> \o m.got = Written(m.req.script)[Len(m.req.script)]
  BY <1>1, <1>4 DEF Streamed, Apart
<1> QED  BY <1>2, <1>3, <1>4 DEF Streamed

\* An inner step of another handler.
LEMMA InnerApart ==
  ASSUME Types, Numbered, Opened, NEW v \in Worker, NEW w \in Worker, v # w, Inner(w)
  PROVE  Apart(v) /\ \A p \in Pid : child'[p].n = local[v].n /\ local[v].n # 0 => child[p].n = local[v].n
<1> DEFINE l == local[v]
           m == local'[v]
<1>1. /\ Same(v) /\ local[w].n # 0 /\ (l.n # 0 => l.n # local[w].n) /\ l \in Local
      /\ \A p \in Pid : child'[p].n \in {0, child[p].n, local[w].n}
  BY InnerEffect, InnerChildren DEF Alone, Numbered, Types
<1>2. W(l.n, "out") \in held /\ l.n # 0 => W(l.n, "out") \in held'
  <2>1. PICK A \in SUBSET Ends(local[w].n) : held' = held \cup A \/ held' = held \ A
    BY InnerEffect
  <2>2. l.n # 0 => W(l.n, "out") \notin A
    BY <1>1, EndsApart DEF W
  <2> QED  BY <2>1, <2>2
<1>3. l.n # 0 => Out(v)' = Out(v)
  <2>1. pipe' = pipe \/ \E k \in {"in", "out"} : \E x : pipe' = [pipe EXCEPT ![<<local[w].n, k>>] = x]
    BY DEF Inner, Pipe, MakePipe, Fork, CloseTheirs, CloseTheirsWith, Middle, Fdopen, Pull, Push, CloseIn,
       ReadHead, SendRest, SendRestUntil, Kill, CloseRest
  <2>2. l.n # 0 => <<l.n, "out">> \in Pipes
    BY <1>1 DEF Local, Pipes
  <2> QED  BY <1>1, <2>1, <2>2 DEF Out, Same, Types
<1>4. CASE Kill(w)
  <2> DEFINE p == local[w].pid
             before == IF p = 0 THEN local ELSE Lost(p, w)
  <2>1. local' = [before EXCEPT ![w].pc = "close"]
        /\ child' = IF p = 0 THEN child ELSE [child EXCEPT ![p] = Dead]
    BY <1>4 DEF Kill
  <2>2. before = IF p = 0 THEN local
                 ELSE [u \in Worker |-> IF Live(p) /\ u # w /\ local[u].n = child[p].n
                                        THEN [local[u] EXCEPT !.spoiled = TRUE] ELSE local[u]]
    BY DEF Lost
  <2> HIDE DEF before
  <2>3. m = before[v] /\ before[v] = IF p # 0 /\ Live(p) /\ l.n = child[p].n
                                     THEN [l EXCEPT !.spoiled = TRUE] ELSE l
    BY <2>1, <2>2 DEF Types
  <2>4. m.got = l.got /\ (~ m.spoiled => ~ l.spoiled /\ ~ (p # 0 /\ Live(p) /\ l.n = child[p].n))
    BY <1>1, <2>3 DEF Local
  <2>5. \A q \in Pid : child'[q] = IF q = p THEN Dead ELSE child[q]
    BY <2>1, PidAssumption DEF Types
  <2>6. l.n # 0 /\ l.pid \in Pid /\ child'[l.pid].n = l.n => child'[l.pid] = child[l.pid]
    BY <2>5 DEF Dead
  <2>7. ~ m.spoiled => (l.pid \in Pid /\ child[l.pid].n = l.n => child'[l.pid].n = l.n)
    BY <1>1, <2>4, <2>5, PidAssumption DEF Live, Dead
  <2> QED  BY <1>1, <1>2, <1>3, <2>4, <2>6, <2>7 DEF Apart, Numbered
<1>5. CASE ~ Kill(w)
  <2>1. \E x : Set(w, x)
    <3>1. Pipe(w) => \E x : Set(w, x)
      BY DEF Pipe, MakePipe
    <3>2. Fork(w) => \E x : Set(w, x)
      BY DEF Fork
    <3>3. CloseTheirs(w) => \E x : Set(w, x)
      BY DEF CloseTheirs, CloseTheirsWith
    <3>4. Fdopen(w) => \E x : Set(w, x)
      BY DEF Fdopen
    <3>5. (Pull(w) => \E x : Set(w, x)) /\ (Push(w) => \E x : Set(w, x))
      BY DEF Pull, Push
    <3>6. CloseIn(w) => \E x : Set(w, x)
      BY DEF CloseIn
    <3>7. ReadHead(w) => \E x : Set(w, x)
      BY DEF ReadHead
    <3>8. SendRest(w) => \E x : Set(w, x)
      BY DEF SendRest, SendRestUntil
    <3>9. CloseRest(w) => \E x : Set(w, x)
      BY DEF CloseRest
    <3> QED
      BY <1>5, <3>1, <3>2, <3>3, <3>4, <3>5, <3>6, <3>7, <3>8, <3>9 DEF Inner, Middle
  <2>2. m = l
    BY <2>1 DEF Set, Types
  <2>3. child' = child \/ \E q \in Pid : \E x : ~ Live(q) /\ child' = [child EXCEPT ![q] = x] /\ x.n = local[w].n
    <3> DEFINE Forks == \E q \in Pid : \E x : ~ Live(q) /\ child' = [child EXCEPT ![q] = x] /\ x.n = local[w].n
    <3>1. Pipe(w) => child' = child
      BY DEF Pipe, MakePipe
    <3>2. Fork(w) => Forks \/ child' = child
      BY DEF Fork
    <3>3. CloseTheirs(w) => child' = child
      BY DEF CloseTheirs, CloseTheirsWith
    <3>4. Fdopen(w) => child' = child
      BY DEF Fdopen
    <3>5. Pull(w) \/ Push(w) => child' = child
      BY DEF Pull, Push
    <3>6. CloseIn(w) => child' = child
      BY DEF CloseIn
    <3>7. ReadHead(w) => child' = child
      BY DEF ReadHead
    <3>8. SendRest(w) => child' = child
      BY DEF SendRest, SendRestUntil
    <3>9. CloseRest(w) => child' = child
      BY DEF CloseRest
    <3> HIDE DEF Forks
    <3>10. child' = child \/ Forks
      BY <1>5, <3>1, <3>2, <3>3, <3>4, <3>5, <3>6, <3>7, <3>8, <3>9 DEF Inner, Middle
    <3> QED
      BY <3>10 DEF Forks
  <2>4. \A q \in Pid : child'[q] = child[q] \/ (~ Live(q) /\ child'[q].n = local[w].n)
    BY <2>3 DEF Types
  <2> QED  BY <1>1, <1>2, <1>3, <2>2, <2>4 DEF Apart, Numbered, Live
<1> QED  BY <1>1, <1>4, <1>5

\* A program of another request.
LEMMA RunsApart ==
  ASSUME Types, Numbered, Parented, NEW v \in Worker, NEW p \in Pid, Runs(p),
         child[p].n # local[v].n
  PROVE  Apart(v) /\ \A q \in Pid : child'[q].n = local[v].n /\ local[v].n # 0 => child[q].n = local[v].n
<1> DEFINE l == local[v]
<1>1. /\ local' = local /\ held' = held /\ \A q \in Pid : child'[q].n \in {child[q].n, 0}
      /\ child[p].n # 0 /\ l \in Local
  BY ChildEffect DEF Runs, ChildReads, ChildWrites, ChildExits, Live, Types
<1>2. \A q \in Pid : q # p => child'[q] = child[q]
  BY DEF Runs, ChildReads, ChildWrites, ChildExits, Took, Types
<1>3. l.n # 0 => Out(v)' = Out(v)
  <2>1. pipe' = pipe \/ \E k \in {"in", "out"} : \E x : pipe' = [pipe EXCEPT ![<<child[p].n, k>>] = x]
    BY DEF Runs, ChildReads, ChildWrites, ChildExits
  <2>2. l.n # 0 => <<l.n, "out">> \in Pipes
    BY <1>1 DEF Local, Pipes
  <2> QED  BY <1>1, <2>1, <2>2 DEF Out, Types
<1>4. l.n # 0 /\ l.pid \in Pid /\ child[l.pid].n = l.n => child'[l.pid] = child[l.pid]
  BY <1>2
<1>5. l.n # 0 /\ l.pid \in Pid /\ child'[l.pid].n = l.n => child'[l.pid] = child[l.pid]
  BY <1>1, <1>4
<1> QED  BY <1>1, <1>3, <1>4, <1>5 DEF Apart, Same

\* A handler's own steps.  Opening a pipe leaves it empty.
LEMMA PipeStreams ==
  ASSUME Types, Numbered, Parented, Replied, NEW w \in Worker, Streamed(w), Pipe(w)
  PROVE  Streamed(w)'
<1> DEFINE l == local[w]
           m == local'[w]
<1>1. /\ l \in Local /\ l.pc \in {"stdin", "stdout"} /\ l.n # 0 /\ l.pid = 0 /\ l.answers = <<>>
      /\ m.n = l.n /\ m.pid = 0 /\ pipe' = pipe /\ m.req = l.req
      /\ \/ m.pc \in {"stdout", "fork"} /\ m.answers = l.answers
         \/ m.pc = "done" /\ m.answers = Append(l.answers, 500)
  BY PipeEffect DEF Parented, Replied, Alone, Types, Numbered
<1>2. m.got = l.got /\ (m.pc = "fork" => W(l.n, "out") \in held')
  <2>1. PICK which \in {"in", "out"}, next \in {"stdout", "fork"} :
          MakePipe(w, which, next) /\ (next = "fork" => which = "out")
    BY DEF Pipe
  <2>2. \/ /\ m = [l EXCEPT !.open = l.open \cup {R(l.n, which), W(l.n, which)}, !.pc = next]
           /\ held' = held \cup {R(l.n, which), W(l.n, which)}
        \/ m = [l EXCEPT !.answers = Append(l.answers, 500), !.pc = "done"]
    BY <2>1 DEF MakePipe, Set, Failed, Types
  <2> QED  BY ZenonT(40), <1>1, <2>1, <2>2 DEF Local
<1>3. Append(<<>>, 500) # <<200>>
  OBVIOUS
<1>4. l.got = <<>> /\ Out(w) = <<>>
  BY <1>1 DEF Streamed, Unused, Early
<1> QED  BY <1>1, <1>2, <1>3, <1>4, PidAssumption DEF Streamed, Unused, Out, Early, Running

\* fork: the program has everything to write.
LEMMA ForkStreams ==
  ASSUME Types, Numbered, Parented, Replied, NEW w \in Worker, Streamed(w), Fork(w)
  PROVE  Streamed(w)'
<1> DEFINE l == local[w]
           m == local'[w]
           s == l.req.script
<1>1. /\ l \in Local /\ l.pc = "fork" /\ l.n # 0 /\ l.pid = 0 /\ l.answers = <<>>
      /\ m.n = l.n /\ pipe' = pipe /\ m.req = l.req /\ m.pc = "theirs"
  BY ForkEffect DEF Parented, Replied, Alone, Types, Numbered
<1>2. l.got = <<>> /\ Out(w) = <<>> /\ W(l.n, "out") \in held /\ s \in Seq(Op)
  BY <1>1, RequestAssumption, Busy DEF Streamed, Unused, Early
<1>3. ASSUME NEW p \in Pid,
             child' = [child EXCEPT ![p] = [n |-> l.n, script |-> s, ends |-> held]],
             m = [l EXCEPT !.pc = "theirs", !.pid = p]
      PROVE  Streamed(w)'
  <2>1. m.got = <<>> /\ m.pid = p /\ m.answers = <<>> /\ Out(w)' = <<>>
    BY <1>1, <1>2, <1>3 DEF Local, Out
  <2>2. child'[p].n = l.n /\ child'[p].script = s /\ W(l.n, "out") \in child'[p].ends
    BY <1>2, <1>3 DEF Types
  <2>3. Rest(w)' = s /\ Seen(w)' = <<>>
    BY <1>1, <2>1, <2>2 DEF Rest, Seen
  <2>4. Len(s) \in Nat /\ SubSeq(s, Len(s) - Len(s) + 1, Len(s)) = s /\ <<>> \o <<>> = <<>>
        /\ Written(s)[Len(s) - Len(s)] = <<>>
    <3>1. Len(s) \in Nat /\ Len(s) - Len(s) = 0 /\ SubSeq(s, 1, Len(s)) = s
      BY <1>2
    <3> QED  BY <1>2, <3>1, WrittenIs
  <2>5. Flowing(w)'
    BY <1>1, <2>1, <2>3, <2>4 DEF Flowing
  <2> QED  BY <1>1, <1>2, <2>1, <2>2, <2>5 DEF Streamed, Unused, Early, Running
<1>4. ASSUME m = [Failed(l, 500, "theirs") EXCEPT !.forked = FALSE]
      PROVE  Streamed(w)'
  <2>1. m.pid = 0 /\ m.got = <<>>
    BY <1>1, <1>2, <1>4 DEF Failed, Local
  <2> QED  BY <1>1, <2>1, PidAssumption DEF Streamed, Unused, Early, Running
<1>5. \/ \E p \in Pid : /\ child' = [child EXCEPT ![p] = [n |-> l.n, script |-> s, ends |-> held]]
                        /\ m = [l EXCEPT !.pc = "theirs", !.pid = p]
      \/ m = [Failed(l, 500, "theirs") EXCEPT !.forked = FALSE]
  <2>1. \A x : Set(w, x) => m = x
    BY DEF Set, Types
  <2> QED  BY ZenonT(40), <2>1 DEF Fork
<1> QED  BY <1>3, <1>4, <1>5

\* A step between the fork and the end of the output that reads nothing: what flows stays, or
\* an error is answered.
LEMMA QuietStreams ==
  ASSUME Types, Numbered, NEW w \in Worker, Streamed(w), local[w].pc \in Running \ {"body"},
         UNCHANGED child, local'[w].n = local[w].n, local'[w].req = local[w].req,
         local'[w].pid = local[w].pid, local'[w].got = local[w].got,
         local'[w].spoiled = local[w].spoiled, Out(w)' = Out(w),
         \/ /\ local'[w].pc \in Running \ {"body"} /\ local'[w].answers = local[w].answers
            /\ local[w].pid # 0
         \/ local'[w].pc = "done" /\ local'[w].answers # << 200 >>
  PROVE  Streamed(w)'
<1>1. Unused(w)'
  BY DEF Streamed, Unused, Early, Running
<1>2. ASSUME local'[w].pc \in Running, local'[w].pid # 0, ~ local'[w].spoiled
      PROVE  Flowing(w)'
  <2>1. Flowing(w)
    BY <1>2 DEF Streamed
  <2>2. Rest(w)' = Rest(w) /\ Seen(w)' = Seen(w)
    BY <1>2 DEF Rest, Seen, Running
  <2> QED  BY <2>1, <2>2 DEF Flowing
<1> QED  BY <1>1, <1>2 DEF Streamed, Running

LEMMA MiddleStreams ==
  ASSUME Types, Numbered, Replied, NEW w \in Worker, Streamed(w),
         CloseTheirs(w) \/ Fdopen(w) \/ Pull(w) \/ Push(w) \/ CloseIn(w)
  PROVE  Streamed(w)'
<1> DEFINE l == local[w]
           m == local'[w]
<1>1. /\ l \in Local /\ l.pc \in Running \ {"body"} /\ l.n # 0 /\ UNCHANGED child
      /\ (l.answers = <<>> \/ l.answers = <<500>>) /\ (l.pc # "theirs" => l.pid # 0)
  BY DEF CloseTheirs, CloseTheirsWith, Fdopen, Pull, Push, CloseIn, Types, Numbered, Running, Replied,
     Streamed, Unused
<1>2. \A x : Set(w, x) => m = x
  BY DEF Set, Types
<1>3. \A x \in {411, 417, 500, 577} : Append(<<>>, x) # <<200>> /\ Append(<<500>>, x) # <<200>>
  <2>1. \A x \in {411, 417, 500, 577} : Append(<<>>, x)[1] = x /\ Append(<<500>>, x)[1] = 500
    OBVIOUS
  <2> QED  BY <2>1
<1> DEFINE On(x) == /\ x.n = l.n /\ x.req = l.req /\ x.pid = l.pid /\ x.got = l.got
                    /\ x.spoiled = l.spoiled
           Goes(x) == \/ x.pc \in Running \ {"body"} /\ x.answers = l.answers /\ l.pid # 0
                      \/ x.pc = "done" /\ \E e \in {411, 417, 500, 577} : x.answers = Append(l.answers, e)
<1>4. \A e \in {411, 417, 500, 577} : \A x \in Local :
        x.answers = l.answers /\ On(x) => On(Failed(x, e, "done")) /\ Goes(Failed(x, e, "done"))
  BY DEF Failed, Local
<1>5. \A e \in {411, 417, 500, 577} : m = Failed(l, e, "done") => On(m) /\ Goes(m)
  <2>1. \A e \in {411, 417, 500, 577} : On(Failed(l, e, "done")) /\ Goes(Failed(l, e, "done"))
    <3>1. l \in Local /\ On(l)
      BY <1>1
    <3> HIDE DEF On, Goes
    <3> QED  BY <1>4, <3>1
  <2> HIDE DEF On, Goes
  <2> QED  BY <2>1
<1>8. ASSUME NEW y \in Running \ {"body"}, l.pid # 0
      PROVE  /\ On([l EXCEPT !.pc = y]) /\ Goes([l EXCEPT !.pc = y])
             /\ \A x : On([l EXCEPT !.put = x, !.pc = y]) /\ Goes([l EXCEPT !.put = x, !.pc = y])
  <2>1. /\ On([l EXCEPT !.pc = y]) /\ Goes([l EXCEPT !.pc = y])
    BY <1>1, <1>8 DEF Local
  <2>2. ASSUME NEW x
        PROVE  On([l EXCEPT !.put = x, !.pc = y]) /\ Goes([l EXCEPT !.put = x, !.pc = y])
    BY <1>1, <1>8 DEF Local
  <2> QED  BY <2>1, <2>2
<1>9. {"eof", "pull", "push"} \subseteq Running \ {"body"}
  BY DEF Running
<1>6. On(m) /\ Goes(m)
  <2>1. CASE CloseTheirs(w)
    <3> DEFINE o == [l EXCEPT !.open = l.open \ ({R(l.n, "in"), W(l.n, "out")} \cap held)]
    <3>1. o \in Local /\ o.answers = l.answers /\ On(o)
      BY <1>1 DEF Local
    <3>2. m = IF l.pid = 0 THEN Failed(o, 500, "done") ELSE [o EXCEPT !.pc = "fdopen"]
      BY <1>2, <2>1 DEF CloseTheirs, CloseTheirsWith
    <3> HIDE DEF o
    <3>3. CASE l.pid = 0
      BY <1>4, <3>1, <3>2, <3>3
    <3>4. CASE l.pid # 0
      BY <3>1, <3>2, <3>4 DEF Local, Running
    <3> QED  BY <3>3, <3>4
  <2>2. CASE Fdopen(w)
    <3>1. /\ l.pc # "theirs"
          /\ \/ m \in {Failed(l, 411, "done"), Failed(l, 417, "done"), Failed(l, 500, "done")}
             \/ \E y \in {"eof", "pull", "push"} : m = [l EXCEPT !.pc = y]
      BY <1>2, <2>2 DEF Fdopen
    <3>4. l.pid # 0
      BY <1>1, <3>1
    <3> HIDE DEF On, Goes
    <3>2. ASSUME NEW y \in {"eof", "pull", "push"}, m = [l EXCEPT !.pc = y]
          PROVE  On(m) /\ Goes(m)
      <4>1. y \in Running \ {"body"}
        BY <1>9
      <4>2. On([l EXCEPT !.pc = y]) /\ Goes([l EXCEPT !.pc = y])
        BY <1>8, <3>4, <4>1
      <4> QED
        BY <3>2, <4>2
    <3> QED  BY <1>5, <3>1, <3>2
  <2>3. CASE Pull(w) \/ Push(w)
    <3>1. /\ l.pc \in {"pull", "push"}
          /\ \/ m = Failed(l, 577, "done")
             \/ \E y \in {"eof", "push"} : m = [l EXCEPT !.pc = y]
             \/ \E x : \E y \in {"pull", "push"} : m = [l EXCEPT !.put = x, !.pc = y]
      <4>1. CASE Pull(w)
        BY <1>2, <4>1 DEF Pull
      <4>2. CASE Push(w)
        <5>1. l.pc = "push"
          BY <4>2 DEF Push
        <5>2. \/ Set(w, [l EXCEPT !.put = l.put + 1, !.pc = IF l.put + 1 < l.req.early THEN "push" ELSE "pull"])
              \/ Set(w, [l EXCEPT !.put = l.req.early, !.pc = "pull"])
              \/ Set(w, Failed(l, 577, "done"))
          BY <4>2 DEF Push
        <5>3. \/ m = [l EXCEPT !.put = l.put + 1, !.pc = "push"]
              \/ m = [l EXCEPT !.put = l.put + 1, !.pc = "pull"]
              \/ m = [l EXCEPT !.put = l.req.early, !.pc = "pull"]
              \/ m = Failed(l, 577, "done")
          BY <1>2, <5>2
        <5> HIDE DEF m, l
        <5> QED
          BY <5>1, <5>3
      <4> QED
        BY <2>3, <4>1, <4>2
    <3>2. l.pid # 0
      BY <1>1, <3>1
    <3> HIDE DEF On, Goes, l, m
    <3>3. ASSUME NEW y \in {"eof", "push"}, m = [l EXCEPT !.pc = y]
          PROVE  On(m) /\ Goes(m)
      <4>1. y \in Running \ {"body"}
        BY <1>9
      <4>2. On([l EXCEPT !.pc = y]) /\ Goes([l EXCEPT !.pc = y])
        BY <1>8, <3>2, <4>1
      <4> QED
        BY <3>3, <4>2
    <3>4. ASSUME NEW x, NEW y \in {"pull", "push"}, m = [l EXCEPT !.put = x, !.pc = y]
          PROVE  On(m) /\ Goes(m)
      <4>1. y \in Running \ {"body"}
        BY <1>9
      <4>2. On([l EXCEPT !.put = x, !.pc = y]) /\ Goes([l EXCEPT !.put = x, !.pc = y])
        BY <1>8, <3>2, <4>1
      <4> QED
        BY <3>4, <4>2
    <3>5. CASE m = Failed(l, 577, "done")
      BY <1>5, <3>5
    <3> QED  BY <3>1, <3>3, <3>4, <3>5
  <2>4. CASE CloseIn(w)
    <3>1. l.pc = "eof" /\ m = [l EXCEPT !.pc = "head", !.open = l.open \ {W(l.n, "in")}]
      BY <1>2, <2>4 DEF CloseIn
    <3> QED  BY <1>1, <3>1 DEF Local, Running
  <2> QED  BY <2>1, <2>2, <2>3, <2>4
<1>7. Out(w)' = Out(w)
  <2>1. pipe' = pipe \/ \E x : pipe' = [pipe EXCEPT ![<<l.n, "in">>] = x]
    BY DEF CloseTheirs, CloseTheirsWith, Fdopen, Pull, Push, CloseIn
  <2>2. <<l.n, "out">> \in Pipes
    BY <1>1 DEF Local, Pipes
  <2> QED  BY <1>6, <2>1, <2>2 DEF Out, Types
<1> QED  BY <1>1, <1>3, <1>6, <1>7, QuietStreams

\* Reading moves the first buffer from the pipe to what was read.
LEMMA FirstMoves ==
  ASSUME NEW a \in Seq(Token), NEW b \in Seq(Token), b # <<>>
  PROVE  Append(a, Head(b)) \o Tail(b) = a \o b /\ <<Head(b)>> \o Tail(b) = b
<1>1. Append(a, Head(b)) \o Tail(b) = a \o b
  OBVIOUS
<1>2. <<Head(b)>> \o Tail(b) = b
  OBVIOUS
<1> QED  BY <1>1, <1>2

LEMMA HeadStreams ==
  ASSUME Types, Numbered, Replied, NEW w \in Worker, Streamed(w), ReadHead(w)
  PROVE  Streamed(w)'
<1> DEFINE l == local[w]
           m == local'[w]
           q == <<l.n, "out">>
<1>1. /\ l \in Local /\ l.pc = "head" /\ l.n # 0 /\ UNCHANGED child /\ l.answers = <<>>
      /\ q \in Pipes
  BY DEF ReadHead, Types, Numbered, Replied, Local, Pipes
<1>2. l.got = <<>> /\ (l.pid # 0 /\ ~ l.spoiled => Flowing(w)) /\ Out(w) \in Seq(Token)
  BY <1>1 DEF Streamed, Unused, Early, Running, Out, Types
<1>3. CASE /\ Out(w) # <<>> /\ pipe' = [pipe EXCEPT ![q] = Tail(@)] /\ Head(Out(w)) = "head"
           /\ m = [l EXCEPT !.pc = "body", !.answers = Append(l.answers, 200)]
  <2>1. /\ m.pc = "body" /\ m.n = l.n /\ m.req = l.req /\ m.pid = l.pid /\ m.got = <<>>
        /\ m.spoiled = l.spoiled /\ m.answers = Append(l.answers, 200)
    BY <1>1, <1>2, <1>3 DEF Local
  <2>2. Append(<<>>, 200) = <<200>> /\ <<"head">> \o <<>> = <<"head">>
    OBVIOUS
  <2>3. Out(w)' = Tail(Out(w)) /\ Rest(w)' = Rest(w) /\ Seen(w) = <<>> /\ Seen(w)' = <<"head">>
    <3>1. Out(w)' = Tail(Out(w))
      BY <1>1, <1>3, <2>1 DEF Out, Types
    <3>2. Rest(w)' = Rest(w)
      BY <1>1, <2>1 DEF Rest
    <3>3. m.answers = <<200>> /\ l.answers # <<200>>
      BY <1>1, <2>1, <2>2
    <3> QED  BY <2>1, <2>2, <3>1, <3>2, <3>3 DEF Seen
  <2>4. <<"head">> \o Tail(Out(w)) = Out(w) /\ <<>> \o Out(w) = Out(w)
    BY <1>2, <1>3, FirstMoves
  <2>5. l.pid # 0 /\ ~ l.spoiled => Flowing(w)'
    BY <1>2, <2>1, <2>3, <2>4 DEF Flowing
  <2>6. Unused(w)'
    BY <1>1, <2>1 DEF Streamed, Unused, Early, Running
  <2> QED  BY <2>1, <2>5, <2>6 DEF Streamed
<1>4. CASE m = Failed(l, 500, "done")
  <2>1. /\ m.pc = "done" /\ m.n = l.n /\ m.req = l.req /\ m.pid = l.pid /\ m.answers = Append(<<>>, 500)
    BY <1>1, <1>4 DEF Failed, Local
  <2>2. Append(<<>>, 500) # <<200>>
    OBVIOUS
  <2>3. Unused(w)'
    BY <1>1, <2>1 DEF Streamed, Unused, Early, Running
  <2> QED  BY <2>1, <2>2, <2>3 DEF Streamed, Running
<1>5. \A x : Set(w, x) => m = x
  BY DEF Set, Types
<1> QED  BY <1>3, <1>4, <1>5 DEF ReadHead, Out

\* The end of the pipe is the end of the program, which holds the writing end.
LEMMA RestStreams ==
  ASSUME Types, Numbered, Replied, NEW w \in Worker, Streamed(w), SendRest(w)
  PROVE  Streamed(w)'
<1> DEFINE l == local[w]
           m == local'[w]
           q == <<l.n, "out">>
<1>1. /\ l \in Local /\ l.pc = "body" /\ l.n # 0 /\ UNCHANGED child /\ l.answers = <<200>>
      /\ q \in Pipes /\ l.got \in Seq(Token) /\ l.pid \in Pid \cup {0}
  BY DEF SendRest, SendRestUntil, Types, Numbered, Replied, Local, Pipes
<1>2. (l.pid # 0 /\ ~ l.spoiled => Flowing(w)) /\ Out(w) \in Seq(Token)
  BY <1>1 DEF Streamed, Running, Out, Types
<1>3. \A x : Set(w, x) => m = x
  BY DEF Set, Types
<1>4. CASE /\ Out(w) # <<>> /\ pipe' = [pipe EXCEPT ![q] = Tail(@)]
           /\ m = [l EXCEPT !.got = Append(l.got, Head(Out(w)))]
  <2>1. /\ m.pc = "body" /\ m.n = l.n /\ m.req = l.req /\ m.pid = l.pid /\ m.answers = l.answers
        /\ m.spoiled = l.spoiled /\ m.got = Append(l.got, Head(Out(w)))
    BY <1>1, <1>4 DEF Local
  <2>2. /\ Out(w)' = Tail(Out(w)) /\ Rest(w)' = Rest(w) /\ Seen(w) = <<"head">> \o l.got
        /\ Seen(w)' = <<"head">> \o Append(l.got, Head(Out(w)))
    BY <1>1, <1>4, <2>1 DEF Out, Rest, Seen, Types
  <2>3. <<"head">> \in Seq(Token) /\ Head(Out(w)) \in Token
    BY <1>2, <1>4 DEF Token, Op
  <2>4. <<"head">> \o Append(l.got, Head(Out(w))) = Append(<<"head">> \o l.got, Head(Out(w)))
    BY <1>1, <2>3
  <2>5. Seen(w)' \o Out(w)' = Seen(w) \o Out(w)
    <3>1. <<"head">> \o l.got \in Seq(Token)
      BY <1>1, <2>3
    <3>2. Append(<<"head">> \o l.got, Head(Out(w))) \o Tail(Out(w)) = (<<"head">> \o l.got) \o Out(w)
      BY <1>2, <1>4, <3>1, FirstMoves
    <3> QED  BY <2>2, <2>4, <3>2
  <2>6. l.pid # 0 /\ ~ l.spoiled => Flowing(w)'
    BY <1>2, <2>1, <2>2, <2>5 DEF Flowing
  <2>7. Unused(w)'
    BY <1>1, <2>1 DEF Streamed, Unused, Early, Running
  <2> QED  BY <2>1, <2>6, <2>7 DEF Streamed
<1>5. CASE Out(w) = <<>> /\ ~ Holds(W(l.n, "out")) /\ m = [l EXCEPT !.pc = "done"]
  <2>1. /\ m.pc = "done" /\ m.n = l.n /\ m.req = l.req /\ m.pid = l.pid /\ m.got = l.got
        /\ m.spoiled = l.spoiled
    BY <1>1, <1>5 DEF Local
  <2>2. Unused(w)'
    BY <1>1, <2>1 DEF Streamed, Unused, Early, Running
  <2>3. Rest(w) = <<>>
    BY <1>1, <1>5 DEF Rest, Streamed, Unused, Holds
  <2>4. l.pid # 0
    BY <1>1 DEF Streamed, Unused, Running
  <2>5. ~ l.spoiled => <<"head">> \o l.got = Written(l.req.script)[Len(l.req.script)]
    <3>1. (<<"head">> \o l.got) \o <<>> = <<"head">> \o l.got
      BY <1>1 DEF Token, Op
    <3>2. l.req.script \in Seq(Op)
      BY <1>1, Busy, RequestAssumption
    <3>3. Len(l.req.script) - Len(<<>>) = Len(l.req.script)
      BY <3>2
    <3> QED  BY <1>1, <1>2, <1>5, <2>3, <2>4, <3>1, <3>3 DEF Flowing, Seen
  <2> QED  BY <2>1, <2>2, <2>5 DEF Streamed, Running
<1> QED  BY <1>3, <1>4, <1>5 DEF SendRest, SendRestUntil, Out

\* The rest of the handler changes nothing of what was read.
LEMMA EndStreams ==
  ASSUME Types, Numbered, NEW w \in Worker, Streamed(w), Kill(w) \/ CloseRest(w) \/ Return(w)
  PROVE  Streamed(w)'
<1> DEFINE l == local[w]
           m == local'[w]
<1>1. CASE Return(w)
  <2>1. m = Idle
    BY <1>1, ReturnEffect
  <2> QED  BY <2>1 DEF Idle, Streamed, Unused, Early, Running
<1>2. CASE Kill(w) \/ CloseRest(w)
  <2>1. l \in Local /\ l.pc \in {"done", "close"}
    BY <1>2 DEF Kill, CloseRest, Types
  <2>2. \E o : m = [l EXCEPT !.pc = "close"] \/ m = [l EXCEPT !.pc = "end", !.open = o]
    <3>1. CASE CloseRest(w)
      BY <3>1 DEF CloseRest, Set, Types
    <3>2. CASE Kill(w)
      <4> DEFINE before == IF l.pid = 0 THEN local ELSE Lost(l.pid, w)
      <4>1. local' = [before EXCEPT ![w].pc = "close"]
        BY <3>2 DEF Kill
      <4>2. w \in DOMAIN before /\ before[w] = l
        BY DEF Lost, Types
      <4> HIDE DEF before
      <4>3. m = [l EXCEPT !.pc = "close"]
        BY <4>1, <4>2
      <4> QED  BY <4>3
    <3> QED  BY <1>2, <3>1, <3>2
  <2>3. /\ m.pc \in {"close", "end"} /\ m.n = l.n /\ m.req = l.req /\ m.pid = l.pid /\ m.got = l.got
        /\ m.spoiled = l.spoiled /\ m.answers = l.answers
    BY <2>1, <2>2 DEF Local
  <2>4. l.n # 0 /\ l.pid \in Pid /\ child'[l.pid].n = l.n => child'[l.pid] = child[l.pid]
    BY <1>2 DEF CloseRest, Kill, Dead, Types
  <2> QED  BY <2>1, <2>3, <2>4 DEF Streamed, Unused, Early, Running
<1> QED  BY <1>1, <1>2

\* A new request has an unused pipe.
LEMMA BeginStreams ==
  ASSUME Types, Stream, NEW w \in Worker, NEW r \in Request, Begin(w, r)
  PROVE  Streamed(w)'
<1>1. local'[w] = [Idle EXCEPT !.pc = "stdin", !.n = count + 1, !.req = r] /\ pipe' = pipe
      /\ count + 1 \in count + 1 .. MaxRequests
  BY BoundAssumption DEF Begin, Set, Types
<1>2. pipe[<<count + 1, "out">>] = <<>>
  BY <1>1 DEF Stream
<1> QED  BY <1>1, <1>2, PidAssumption DEF Idle, Streamed, Unused, Out, Early, Running

\* A script is done from the left: the next operation is the one behind those done.
LEMMA NextOp ==
  ASSUME NEW s \in Seq(Op), NEW c \in Seq(Op), c # <<>>, Len(c) <= Len(s),
         c = SubSeq(s, Len(s) - Len(c) + 1, Len(s))
  PROVE  /\ Len(Tail(c)) <= Len(s) /\ Tail(c) = SubSeq(s, Len(s) - Len(Tail(c)) + 1, Len(s))
         /\ Len(s) - Len(Tail(c)) \in 1 .. Len(s)
         /\ Len(s) - Len(Tail(c)) - 1 = Len(s) - Len(c)
         /\ Head(c) = s[Len(s) - Len(Tail(c))]
<1>1. Len(s) \in Nat /\ Len(c) \in Nat /\ Len(c) # 0 /\ Len(Tail(c)) = Len(c) - 1
  OBVIOUS
<1> DEFINE k == Len(s) - Len(c)
<1>2. k \in Nat /\ k + 1 \in 1 .. Len(s) /\ Len(s) - Len(Tail(c)) = k + 1
  BY <1>1
<1>3. \A i \in 1 .. Len(c) : c[i] = s[k + i]
  BY <1>1, <1>2
<1>4. Head(c) = s[k + 1]
  BY <1>1, <1>3
<1>5. Tail(c) = SubSeq(s, k + 2, Len(s))
  <2>1. Tail(c) \in Seq(Op) /\ Len(Tail(c)) = Len(c) - 1 /\ \A i \in 1 .. Len(c) - 1 : Tail(c)[i] = c[i + 1]
    BY <1>1, HeadTailProperties
  <2>2. \A i \in k + 2 .. Len(s) : s[i] \in Op
    BY <1>1, <1>2
  <2>3. Len(s) - (k + 2) + 1 = Len(c) - 1 /\ (k + 2 <= Len(s) \/ Len(c) - 1 = 0)
    BY <1>1
  <2>4. /\ SubSeq(s, k + 2, Len(s)) \in Seq(Op) /\ Len(SubSeq(s, k + 2, Len(s))) = Len(c) - 1
        /\ \A i \in 1 .. Len(c) - 1 : SubSeq(s, k + 2, Len(s))[i] = s[k + 2 + i - 1]
    BY <1>1, <1>2, <2>2, <2>3, SubSeqProperties
  <2>5. \A i \in 1 .. Len(c) - 1 : c[i + 1] = s[k + 2 + i - 1]
    BY <1>1, <1>3
  <2> QED  BY <2>1, <2>4, <2>5, SeqEqual
<1> QED  BY <1>1, <1>2, <1>4, <1>5

\* The program's own steps: what it writes goes to the end of the pipe.
LEMMA RunsStreams ==
  ASSUME Types, Numbered, Parented, NEW v \in Worker, Streamed(v), NEW p \in Pid, Runs(p),
         child[p].n = local[v].n
  PROVE  Streamed(v)'
<1> DEFINE l == local[v]
           s == l.req.script
           c == child[p].script
<1>1. /\ l.n # 0 /\ l.n \in 1 .. MaxRequests /\ l \in Local /\ child[p] \in Child /\ local' = local
      /\ c \in Seq(Op)
  BY SMTT(30), ChildEffect DEF Runs, ChildReads, ChildWrites, ChildExits, Live, Types, Local, Child
<1>2. l.pid = p /\ l.pc \notin {"close", "end"} \cup Early /\ l.pc # "idle"
  BY <1>1, PidAssumption DEF Parented, Early, Numbered
<1>3. s \in Seq(Op) /\ <<l.n, "out">> \in Pipes /\ <<l.n, "in">> \in Pipes
  BY <1>1, <1>2, Busy, RequestAssumption DEF Pipes
<1>4. /\ child'[p].n = l.n => child'[p].ends = child[p].ends
      /\ \/ child'[p] = child[p]
         \/ c # <<>> /\ child'[p].n = l.n /\ child'[p].script = Tail(c)
         \/ c = <<>> /\ child'[p].n = 0
  <2>1. Took(p) => /\ child'[p] = [child[p] EXCEPT !.script = Tail(c)]
    BY DEF Took, Types
  <2>2. Took(p) => child'[p].n = l.n /\ child'[p].script = Tail(c) /\ child'[p].ends = child[p].ends
    BY <1>1, <2>1 DEF Child
  <2> QED  BY <1>1, <2>2 DEF Runs, ChildReads, ChildWrites, ChildExits, Dead, Types
<1>5. Unused(v)'
  BY <1>1, <1>2, <1>4 DEF Streamed, Unused, Early
<1>6. Seen(v)' = Seen(v) /\ Seen(v) \in Seq(Token) /\ Out(v) \in Seq(Token)
  <2>1. l.got \in Seq(Token) /\ <<"head">> \in Seq(Token) /\ <<>> \in Seq(Token)
    BY <1>1 DEF Local, Token, Op
  <2>2. Seen(v) \in Seq(Token)
    BY <2>1 DEF Seen
  <2>3. Seen(v)' = Seen(v)
    BY <1>1 DEF Seen
  <2>4. Out(v) \in Seq(Token)
    BY <1>3 DEF Out, Types
  <2> QED  BY <2>2, <2>3, <2>4
<1>7. ASSUME l.pc \in Running, l.pid # 0, ~ l.spoiled
      PROVE  Flowing(v)'
  <2>1. Flowing(v) /\ Rest(v) = c
    BY <1>1, <1>2, <1>7 DEF Streamed, Rest
  <2>2. CASE ChildReads(p)
    <3>1. Out(v)' = Out(v)
      BY <1>1, <1>3, <2>2 DEF ChildReads, Out, Types
    <3>2. CASE child'[p] = child[p]
      BY <1>1, <1>2, <1>6, <2>1, <3>1, <3>2 DEF Flowing, Rest
    <3>3. CASE c # <<>> /\ child'[p].n = l.n /\ child'[p].script = Tail(c)
      <4>1. Rest(v)' = Tail(c)
        BY <1>1, <1>2, <3>3 DEF Rest
      <4>2. Head(c) \in {"read", "drain"}
        BY <2>2 DEF ChildReads
      <4>3. Written(s)[Len(s) - Len(Tail(c))] = Written(s)[Len(s) - Len(c)]
        <5> DEFINE k == Len(s) - Len(Tail(c))
        <5>1. k \in 1 .. Len(s) /\ k - 1 = Len(s) - Len(c) /\ s[k] = Head(c)
          BY <1>1, <1>3, <2>1, <3>3, NextOp DEF Flowing
        <5> HIDE DEF k
        <5>2. Written(s)[k] = Written(s)[k - 1]
          BY <1>3, <4>2, <5>1, WrittenIs
        <5> QED  BY <5>1, <5>2 DEF k
      <4>4. Len(Tail(c)) <= Len(s) /\ Tail(c) = SubSeq(s, Len(s) - Len(Tail(c)) + 1, Len(s))
        BY <1>1, <1>3, <2>1, <3>3, NextOp DEF Flowing
      <4> QED  BY <1>1, <1>6, <2>1, <3>1, <4>1, <4>3, <4>4 DEF Flowing
    <3>4. c # <<>>
      BY <2>2 DEF ChildReads
    <3> QED  BY <1>4, <3>2, <3>3, <3>4
  <2>3. CASE ChildWrites(p)
    <3>1. c # <<>> /\ Head(c) \in {"head", "bad", "out"} /\ Out(v)' = Append(Out(v), Head(c)) /\ Took(p)
      BY <1>1, <1>3, <2>3 DEF ChildWrites, Out, Types
    <3>2. Rest(v)' = Tail(c)
      <4>1. child'[p] = [child[p] EXCEPT !.script = Tail(c)]
        BY <3>1 DEF Took, Types
      <4>2. child'[p].n = l.n /\ child'[p].script = Tail(c)
        BY <1>1, <4>1 DEF Child
      <4> QED  BY <1>1, <1>2, <4>2 DEF Rest
    <3>3. Written(s)[Len(s) - Len(Tail(c))] = Append(Written(s)[Len(s) - Len(c)], Head(c))
      <4> DEFINE k == Len(s) - Len(Tail(c))
      <4>1. k \in 1 .. Len(s) /\ k - 1 = Len(s) - Len(c) /\ s[k] = Head(c)
        BY <1>1, <1>3, <2>1, <3>1, NextOp DEF Flowing
      <4> HIDE DEF k
      <4>2. Written(s)[k] = Append(Written(s)[k - 1], s[k])
        BY <1>3, <3>1, <4>1, WrittenIs
      <4> QED  BY <4>1, <4>2 DEF k
    <3>4. Len(Tail(c)) <= Len(s) /\ Tail(c) = SubSeq(s, Len(s) - Len(Tail(c)) + 1, Len(s))
      BY <1>1, <1>3, <2>1, <3>1, NextOp DEF Flowing
    <3>5. Head(c) \in Token
      BY <3>1 DEF Token, Op
    <3>6. Seen(v) \o Append(Out(v), Head(c)) = Append(Seen(v) \o Out(v), Head(c))
      BY <1>6, <3>5
    <3> QED  BY <1>1, <1>6, <2>1, <3>1, <3>2, <3>3, <3>4, <3>6 DEF Flowing
  <2>4. CASE ChildExits(p)
    <3>1. c = <<>> /\ child'[p].n = 0 /\ pipe' = pipe
      BY <2>4 DEF ChildExits, Dead, Types
    <3>2. Rest(v)' = <<>> /\ Out(v)' = Out(v)
      BY <1>1, <1>2, <3>1 DEF Rest, Out
    <3> QED  BY <1>1, <1>6, <2>1, <3>1, <3>2 DEF Flowing
  <2> QED  BY <2>2, <2>3, <2>4 DEF Runs
<1> QED  BY <1>1, <1>2, <1>5, <1>7 DEF Streamed

\* The pipes of requests to come stay empty.
LEMMA FutureEmpty ==
  ASSUME Types, Numbered, Opened, Stream, [Next]_vars
  PROVE  \A n \in count' + 1 .. MaxRequests : pipe'[<<n, "out">>] = <<>>
<1> SUFFICES ASSUME NEW n \in count' + 1 .. MaxRequests PROVE pipe'[<<n, "out">>] = <<>>
  OBVIOUS
<1>1. ASSUME count' \in {count, count + 1}, pipe' = pipe \/ \E q : \E x : q[1] <= count /\ pipe' = [pipe EXCEPT ![q] = x]
      PROVE  pipe'[<<n, "out">>] = <<>>
  <2>1. count \in Nat /\ n \in count + 1 .. MaxRequests
    <3>1. count \in Nat /\ MaxRequests \in Nat
      BY BoundAssumption DEF Types
    <3>2. count' = count \/ count' = count + 1
      BY <1>1
    <3>3. n \in count' + 1 .. MaxRequests
      OBVIOUS
    <3> QED  BY <3>1, <3>2, <3>3
  <2>2. pipe[<<n, "out">>] = <<>> /\ <<n, "out">> \in Pipes
    BY <2>1 DEF Stream, Pipes
  <2> QED  BY <1>1, <2>1, <2>2 DEF Types
<1>2. ASSUME NEW w \in Worker, Inner(w) PROVE pipe'[<<n, "out">>] = <<>>
  <2>1. local[w].n <= count /\ count' = count
    BY <1>2, InnerEffect DEF Alone, Numbered
  <2>2. pipe' = pipe \/ \E k \in {"in", "out"} : \E x : pipe' = [pipe EXCEPT ![<<local[w].n, k>>] = x]
    BY <1>2 DEF Inner, Pipe, MakePipe, Fork, CloseTheirs, CloseTheirsWith, Middle, Fdopen, Pull, Push, CloseIn,
       ReadHead, SendRest, SendRestUntil, Kill, CloseRest
  <2> QED  BY <1>1, <2>1, <2>2
<1>3. ASSUME NEW p \in Pid, Runs(p) PROVE pipe'[<<n, "out">>] = <<>>
  <2>1. child[p].n <= count /\ count' = count
    BY <1>3, ChildEffect DEF Numbered
  <2>2. pipe' = pipe \/ \E k \in {"in", "out"} : \E x : pipe' = [pipe EXCEPT ![<<child[p].n, k>>] = x]
    BY <1>3 DEF Runs, ChildReads, ChildWrites, ChildExits
  <2> QED  BY <1>1, <2>1, <2>2
<1>4. ASSUME NEW w \in Worker, NEW r \in Request, Begin(w, r) PROVE pipe'[<<n, "out">>] = <<>>
  BY <1>1, <1>4 DEF Begin
<1>5. ASSUME NEW w \in Worker, Return(w) PROVE pipe'[<<n, "out">>] = <<>>
  BY <1>1, <1>5 DEF Return
<1>6. CASE UNCHANGED vars
  BY <1>1, <1>6 DEF vars
<1> QED  BY <1>2, <1>3, <1>4, <1>5, <1>6, Kinds

\* Every step keeps the streams.
LEMMA StreamStep ==
  ASSUME IInv, Stream, [Next]_vars
  PROVE  Stream'
<1> USE DEF IInv
<1> SUFFICES ASSUME NEW v \in Worker PROVE Streamed(v)'
  BY FutureEmpty DEF Stream
<1>1. Streamed(v)
  BY DEF Stream
<1>2. ASSUME NEW w \in Worker, Inner(w) PROVE Streamed(v)'
  <2>1. CASE w = v
    BY <1>1, <1>2, <2>1, PipeStreams, ForkStreams, MiddleStreams, HeadStreams, RestStreams, EndStreams
       DEF Inner, Middle
  <2>2. CASE w # v
    BY <1>1, <1>2, <2>2, InnerApart, ApartKept
  <2> QED  BY <2>1, <2>2
<1>3. ASSUME NEW w \in Worker, Return(w) \/ \E r \in Request : Begin(w, r) PROVE Streamed(v)'
  <2>1. CASE w = v
    BY <1>1, <1>3, <2>1, EndStreams, BeginStreams
  <2>2. CASE w # v
    <3>1. local'[v] = local[v] /\ UNCHANGED <<held, child, pipe>>
      BY <1>3, <2>2 DEF Return, Begin, Set, Types
    <3>2. Apart(v)
      BY <3>1 DEF Apart, Same, Out
    <3> QED  BY <1>1, <3>1, <3>2, ApartKept
  <2> QED  BY <2>1, <2>2
<1>4. ASSUME NEW p \in Pid, Runs(p) PROVE Streamed(v)'
  BY <1>1, <1>4, RunsStreams, RunsApart, ApartKept
<1>5. CASE UNCHANGED vars
  <2>1. Apart(v) /\ UNCHANGED child
    BY <1>5 DEF vars, Apart, Same, Out
  <2> QED  BY <1>1, <2>1, ApartKept
<1> QED  BY <1>2, <1>3, <1>4, <1>5, Kinds

\* Whatever runs beside it, a program that nobody else killed has all its output passed on in
\* order behind its head (handle_cgi_request 3237-3286, send_file_data).
THEOREM OutputIsWhole == Spec => []OutputWhole
<1>1. Init => Stream
  BY BoundAssumption DEF Init, Idle, Stream, Streamed, Unused, Early, Running, Pipes
<1>2. IInv /\ Stream /\ [Next]_vars => Stream'
  BY StreamStep
<1>3. Stream => OutputWhole
  BY DEF Stream, Streamed, OutputWhole
<1> QED
  BY <1>1, <1>2, <1>3, Invariance, PTL DEF Spec

=============================================================================
