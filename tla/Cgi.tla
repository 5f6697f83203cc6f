---------------------------------- MODULE Cgi ----------------------------------
(***************************************************************************)
(* handle_cgi_request of mongoose.c: several workers run CGI programs at   *)
(* once, each over two pipes.  What matters is who holds which end of      *)
(* which pipe: fork copies every descriptor of the server, none of the     *)
(* pipes' ends is closed on exec, and a pipe ends only when its last       *)
(* writing end is closed.                                                  *)
(*                                                                         *)
(* A script is a sequence of operations, each on one buffer.  The kernel   *)
(* reaps a child as it ends (mg_start ignores SIGCHLD), so its pid may be  *)
(* given to another child before the handler kills it.                     *)
(***************************************************************************)
EXTENDS Integers, Sequences, FiniteSets

CONSTANTS
  Worker,
  Pid,          \* process ids
  Request,      \* records: the script run, POST or not, the length of the body, -1 for unknown, how
                \* much of the body came with the head, and what the client expects first
  Capacity,     \* buffers a pipe holds
  MaxRequests   \* bound

Op == {"read",   \* read one buffer of stdin
       "drain",  \* read stdin to its end
       "head",   \* write a head
       "bad",    \* write a head that cannot be parsed
       "out"}    \* write a buffer of the answer's body

ASSUME CapacityAssumption == Capacity \in Nat \ {0}
ASSUME BoundAssumption    == MaxRequests \in Nat
ASSUME PidAssumption      == 0 \notin Pid
ASSUME RequestAssumption ==
  \A r \in Request : r.script \in Seq(Op) /\ r.post \in BOOLEAN /\ r.length \in Nat \cup {-1}
                     /\ r.early \in Nat /\ r.expect \in {"none", "other"}

VARIABLES
  local,   \* locals of handle_cgi_request in each worker
  held,    \* the ends of pipes the server has open
  child,   \* what each process is doing, and the ends it holds
  pipe,    \* the buffers in each pipe
  count    \* requests so far; it names their pipes

vars == <<local, held, child, pipe, count>>

\* The pipes of the n-th request, and their ends.
Pipes       == (1 .. MaxRequests) \X {"in", "out"}
R(n, which) == <<n, which, "read">>
W(n, which) == <<n, which, "write">>
Ends(n)     == {R(n, "in"), W(n, "in"), R(n, "out"), W(n, "out")}

Idle == [pc |-> "idle", n |-> 0, req |-> "none", pid |-> 0, open |-> {}, put |-> 0,
         got |-> <<>>, answers |-> <<>>, spoiled |-> FALSE, forked |-> TRUE]
Dead == [n |-> 0, script |-> <<>>, ends |-> {}]

Init == /\ local = [w \in Worker |-> Idle] /\ held = {} /\ count = 0
        /\ child = [p \in Pid |-> Dead] /\ pipe = [q \in Pipes |-> <<>>]

Live(p)    == child[p].n # 0
Holds(end) == end \in held \/ \E p \in Pid : end \in child[p].ends
Set(w, l)  == local' = [local EXCEPT ![w] = l]

\* send_http_error, then what follows it.
Failed(l, status, next) == [l EXCEPT !.answers = Append(@, status), !.pc = next]

-----------------------------------------------------------------------------
(* The handler.  open are the descriptors among fd_stdin, fd_stdout that are not -1. *)

Begin(w, r) ==
  /\ local[w].pc = "idle" /\ count < MaxRequests /\ count' = count + 1
  /\ Set(w, [Idle EXCEPT !.pc = "stdin", !.n = count + 1, !.req = r])
  /\ UNCHANGED <<held, child, pipe>>

\* pipe(fd_stdin), then pipe(fd_stdout); each may fail for want of descriptors.
MakePipe(w, which, next) ==
  LET l == local[w]
      both == {R(l.n, which), W(l.n, which)} IN
  /\ \/ held' = held \cup both /\ Set(w, [l EXCEPT !.open = @ \cup both, !.pc = next])
     \/ UNCHANGED held /\ Set(w, Failed(l, 500, "done"))
  /\ UNCHANGED <<child, pipe, count>>

Pipe(w) == \/ local[w].pc = "stdin"  /\ MakePipe(w, "in", "stdout")
           \/ local[w].pc = "stdout" /\ MakePipe(w, "out", "fork")

\* The child inherits what the server has open.  dup2 and the closes of spawn_process leave
\* it one copy each of the two ends it uses, and all the others.
Fork(w) ==
  LET l == local[w] IN
  /\ l.pc = "fork"
  /\ \/ \E p \in Pid :
          /\ ~ Live(p)
          /\ child' = [child EXCEPT ![p] = [n |-> l.n, script |-> l.req.script, ends |-> held]]
          /\ Set(w, [l EXCEPT !.pc = "theirs", !.pid = p])
     \/ UNCHANGED child /\ Set(w, [Failed(l, 500, "theirs") EXCEPT !.forked = FALSE])
  /\ UNCHANGED <<held, pipe, count>>

\* Mutant of CloseTheirs: the writing end of the output stays open.
CloseTheirsWith(w, which) ==
  LET l == local[w]
      theirs == {R(l.n, "in"), W(l.n, "out")} \cap which IN
  /\ l.pc = "theirs" /\ held' = held \ theirs
  /\ LET m == [l EXCEPT !.open = @ \ theirs]
     IN Set(w, IF l.pid = 0 THEN Failed(m, 500, "done") ELSE [m EXCEPT !.pc = "fdopen"])
  /\ UNCHANGED <<child, pipe, count>>

CloseTheirs_KeepsOut(w) == CloseTheirsWith(w, {R(local[w].n, "in")})

\* The parent closes the child's ends; if there is no child, a second 500 is sent.
CloseTheirs(w) == CloseTheirsWith(w, held)

\* fdopen fails without memory.  Only a POST has its body forwarded, if its length is known
\* and the client expects nothing but a 100.
Fdopen(w) ==
  LET l == local[w]
      r == l.req IN
  /\ l.pc = "fdopen"
  /\ \/ Set(w, CASE ~ r.post -> [l EXCEPT !.pc = "eof"]
                 [] r.post /\ r.length = -1 -> Failed(l, 411, "done")
                 [] r.post /\ r.length # -1 /\ r.expect = "other" -> Failed(l, 417, "done")
                 [] OTHER -> [l EXCEPT !.pc = IF r.early > 0 THEN "push" ELSE "pull"])
     \/ Set(w, Failed(l, 500, "done"))
  /\ UNCHANGED <<held, child, pipe, count>>

\* forward_body_data reads the next buffer of the body, in time or not.
Pull(w) ==
  LET l == local[w] IN
  /\ l.pc = "pull"
  /\ \/ Set(w, [l EXCEPT !.pc = IF l.put = l.req.length THEN "eof" ELSE "push"])
     \/ l.put # l.req.length /\ Set(w, Failed(l, 577, "done"))
  /\ UNCHANGED <<held, child, pipe, count>>

\* A buffer is written when there is room; without a reader that fails, which is ignored
\* of what came with the head, and the rest of it is dropped.
Push(w) ==
  LET l == local[w]
      q == <<l.n, "in">> IN
  /\ l.pc = "push"
  /\ \/ /\ Holds(R(l.n, "in")) /\ Len(pipe[q]) < Capacity /\ pipe' = [pipe EXCEPT ![q] = Append(@, "body")]
        /\ Set(w, [l EXCEPT !.put = @ + 1, !.pc = IF l.put + 1 < l.req.early THEN "push" ELSE "pull"])
     \/ /\ ~ Holds(R(l.n, "in")) /\ UNCHANGED pipe
        /\ Set(w, IF l.put < l.req.early THEN [l EXCEPT !.put = l.req.early, !.pc = "pull"]
                  ELSE Failed(l, 577, "done"))
  /\ UNCHANGED <<held, child, count>>

\* "Close so child gets an EOF."
CloseIn(w) ==
  LET l == local[w] IN
  /\ l.pc = "eof" /\ held' = held \ {W(l.n, "in")}
  /\ Set(w, [l EXCEPT !.pc = "head", !.open = @ \ {W(l.n, "in")}])
  /\ UNCHANGED <<child, pipe, count>>

\* The first read sees the head, or the end of the output, or what is not a head.
ReadHead(w) ==
  LET l == local[w]
      q == <<l.n, "out">> IN
  /\ l.pc = "head"
  /\ \/ /\ pipe[q] # <<>> /\ pipe' = [pipe EXCEPT ![q] = Tail(@)]
        /\ Set(w, IF Head(pipe[q]) = "head" THEN [l EXCEPT !.pc = "body", !.answers = Append(@, 200)]
                  ELSE Failed(l, 500, "done"))
     \/ /\ pipe[q] = <<>> /\ ~ Holds(W(l.n, "out")) /\ UNCHANGED pipe
        /\ Set(w, Failed(l, 500, "done"))
  /\ UNCHANGED <<held, child, count>>

\* Mutant of SendRest: an empty pipe is taken for its end.
SendRestUntil(w, ended) ==
  LET l == local[w]
      q == <<l.n, "out">> IN
  /\ l.pc = "body"
  /\ \/ /\ pipe[q] # <<>> /\ pipe' = [pipe EXCEPT ![q] = Tail(@)]
        /\ Set(w, [l EXCEPT !.got = Append(@, Head(pipe[q]))])
     \/ /\ pipe[q] = <<>> /\ ended /\ UNCHANGED pipe
        /\ Set(w, [l EXCEPT !.pc = "done"])
  /\ UNCHANGED <<held, child, count>>

SendRest_Empty(w) == SendRestUntil(w, TRUE)

\* send_file_data passes the rest on until the pipe ends.
SendRest(w) == SendRestUntil(w, ~ Holds(W(local[w].n, "out")))

\* The handlers whose child is p lose what it would still have written.
Lost(p, w) == [v \in Worker |->
                 IF Live(p) /\ v # w /\ local[v].n = child[p].n
                 THEN [local[v] EXCEPT !.spoiled = TRUE] ELSE local[v]]

\* Mutant of Kill: the child is left to end by itself.
Kill_Not(w) ==
  /\ local[w].pc = "done" /\ UNCHANGED child
  /\ local' = [local EXCEPT ![w].pc = "close"]
  /\ UNCHANGED <<held, pipe, count>>

\* kill(pid, SIGKILL), whichever process has that pid by now.
Kill(w) ==
  LET p == local[w].pid IN
  /\ local[w].pc = "done"
  /\ child' = IF p = 0 THEN child ELSE [child EXCEPT ![p] = Dead]
  /\ local' = [IF p = 0 THEN local ELSE Lost(p, w) EXCEPT ![w].pc = "close"]
  /\ UNCHANGED <<held, pipe, count>>

\* Whatever is not -1 is closed.
CloseRest(w) ==
  LET l == local[w] IN
  /\ l.pc = "close" /\ held' = held \ l.open
  /\ Set(w, [l EXCEPT !.pc = "end", !.open = {}])
  /\ UNCHANGED <<child, pipe, count>>

Return(w) == /\ local[w].pc = "end" /\ Set(w, Idle)
             /\ UNCHANGED <<held, child, pipe, count>>

-----------------------------------------------------------------------------
(* The children (external). *)

Took(p) == child' = [child EXCEPT ![p].script = Tail(@)]

\* "read" of an empty pipe waits, or returns at once at its end; "drain" ends at its end.
ChildReads(p) ==
  LET q == <<child[p].n, "in">>
      op == Head(child[p].script) IN
  /\ Live(p) /\ child[p].script # <<>> /\ op \in {"read", "drain"}
  /\ \/ /\ pipe[q] # <<>> /\ pipe' = [pipe EXCEPT ![q] = Tail(@)]
        /\ IF op = "read" THEN Took(p) ELSE UNCHANGED child
     \/ /\ pipe[q] = <<>> /\ ~ Holds(W(child[p].n, "in")) /\ Took(p) /\ UNCHANGED pipe
  /\ UNCHANGED <<local, held, count>>

ChildWrites(p) ==
  LET q == <<child[p].n, "out">>
      op == Head(child[p].script) IN
  /\ Live(p) /\ child[p].script # <<>> /\ op \in {"head", "bad", "out"}
  /\ Len(pipe[q]) < Capacity /\ pipe' = [pipe EXCEPT ![q] = Append(@, op)] /\ Took(p)
  /\ UNCHANGED <<local, held, count>>

ChildExits(p) == /\ Live(p) /\ child[p].script = <<>> /\ child' = [child EXCEPT ![p] = Dead]
                 /\ UNCHANGED <<local, held, pipe, count>>

Handler(w) == \/ Pipe(w) \/ Fork(w) \/ CloseTheirs(w) \/ Fdopen(w) \/ Pull(w) \/ Push(w) \/ CloseIn(w)
              \/ ReadHead(w) \/ SendRest(w) \/ Kill(w) \/ CloseRest(w) \/ Return(w)
Runs(p)    == ChildReads(p) \/ ChildWrites(p) \/ ChildExits(p)

Next == \/ \E w \in Worker : (\E r \in Request : Begin(w, r)) \/ Handler(w)
        \/ \E p \in Pid : Runs(p)

Spec     == Init /\ [][Next]_vars
FairSpec == /\ Spec
            /\ \A w \in Worker : WF_vars(Handler(w))
            /\ \A p \in Pid : WF_vars(Runs(p))
-----------------------------------------------------------------------------
(* Properties. *)

\* What a program has written when it has done k of its operations.
Written(script) ==
  LET f[k \in 0 .. Len(script)] ==
        IF k = 0 THEN <<>>
        ELSE IF script[k] \in {"head", "bad", "out"} THEN Append(f[k - 1], script[k]) ELSE f[k - 1]
  IN f

\* Every error path of handle_cgi_request (3168-3310) closes what the server opened for it, and
\* nothing twice; no child survives its handler; and one answer is sent, except that a fork
\* that fails is answered by spawn_process (1385) and again by its caller.
NoneLeft ==
  \A w \in Worker : LET l == local[w] IN
    /\ l.open = held \cap Ends(l.n)
    /\ l.pc = "end" =>
         /\ l.open = {}
         /\ \A p \in Pid : child[p].n # l.n
         /\ \/ Len(l.answers) = 1
            \/ ~ l.forked /\ l.answers = <<500, 500>>

\* A client that is sent an answer of the program is sent all of it in order, behind the head,
\* unless another handler killed (3290) the program, whose pid had been that of its own child.
OutputWhole ==
  \A w \in Worker : LET l == local[w]
                         s == l.req.script IN
    l.pc = "end" /\ l.answers = <<200>> /\ ~ l.spoiled => <<"head">> \o l.got = Written(s)[Len(s)]

\* The program waits for the end of its input, and holds a writing end of it itself.
WaitsForItself(p) ==
  /\ Live(p) /\ child[p].script # <<>> /\ Head(child[p].script) \in {"read", "drain"}
  /\ pipe[<<child[p].n, "in">>] = <<>> /\ W(child[p].n, "in") \in child[p].ends

\* The handler waits to write the input, the program to write the output.
BothFull(w) == /\ local[w].pc = "push" /\ Len(pipe[<<local[w].n, "in">>]) = Capacity
               /\ Len(pipe[<<local[w].n, "out">>]) = Capacity

\* A handler ends, or some program waits for itself, or some handler and its program wait
\* for each other: there is no timeout on a pipe.
Hung == (\E p \in Pid : WaitsForItself(p)) \/ (\E w \in Worker : BothFull(w))
HangsExplained == \A w \in Worker : local[w].pc # "idle" ~> (local[w].pc = "idle" \/ Hung)
================================================================================
