----------------------------- MODULE ShowImage -----------------------------
(***************************************************************************)
(* The request handler of apophnia (show_image, C/apophnia.c), run by      *)
(* several mongoose workers over one image directory.                      *)
(*                                                                         *)
(* A request names an image.  The name is split on '_' into segments and   *)
(* at its last '.' into an extension: "cat_r5_q9.png" is                   *)
(* [segs |-> <<"cat", "r5", "q9">>, ext |-> "png"].  The handler looks for *)
(* the exact file, then cuts directives off the right end, pushing each on *)
(* a stack, until some shorter name exists, perhaps in a fallback format.  *)
(* It then applies the stacked directives, writes the result under the     *)
(* requested name and sends that file.  One action is one system call of   *)
(* the handler, or one pass of a loop around it.                           *)
(***************************************************************************)
EXTENDS Integers, Sequences, FiniteSets

CONSTANTS
  Worker,       \* mongoose's worker threads
  Seg,          \* what stands between two '_' of a name
  Request,      \* the names clients ask for
  Source,       \* the names under which the operator may have stored files
  Condition,    \* what the operator may have stored, a subset of Conditions
  Disk,         \* g_opts.b_disk: is a converted image written to disk?
  Limited,      \* does the process have a limit on open descriptors?
  FdLimit,      \* that limit, less what the server needs for its sockets
  MaxRequests,  \* bound: requests started
  MaxVersion,   \* bound: times the operator replaces one of its files
  MaxCrashes,   \* bound: kills and restarts of the process
  None          \* no descriptor; no worker

FormatCheck ==
  [ jpg  |-> <<"png", "gif", "bmp", "jpeg", "tga", "tiff">>,
    png  |-> <<"gif", "bmp", "jpg", "jpeg", "tiff">>,
    gif  |-> <<"png", "bmp", "jpg", "jpeg">>,
    jpeg |-> <<"jpg", "png", "bmp", "gif", "tga", "tiff">>,
    bmp  |-> <<"png", "jpg", "gif", "jpeg">> ]

HasRow == {"jpg", "png", "gif", "jpeg", "bmp"}

\* "" is a name without a '.', "other" an extension the server does not know.
Ext == HasRow \cup {"tga", "tiff", "other", ""}

Conditions == {"good", "damaged", "dir"}

ASSUME RequestAssumption ==
  /\ Request # {}
  /\ \A r \in Request : /\ r = [segs |-> r.segs, ext |-> r.ext]
                        /\ r.segs \in Seq(Seg) /\ r.segs # <<>>
                        /\ r.ext \in Ext

\* The name left when all but the first k segments of s are cut.
Name(s, k, e) == [segs |-> SubSeq(s, 1, k), ext |-> e]

\* Every name the handler can open or write.
Names == [segs : UNION {{SubSeq(r.segs, 1, k) : k \in 1 .. Len(r.segs)} : r \in Request},
          ext  : Ext]

ASSUME SourceAssumption == Source \subseteq Names /\ Condition \subseteq Conditions
ASSUME NoneAssumption   == None \notin Worker /\ None \notin Names
ASSUME FlagAssumption   == Disk \in BOOLEAN /\ Limited \in BOOLEAN

\* What a name holds, and what a wand holds.  pix tells where the pixels come
\* from: the stored image, then the directives applied to it, in order.  ver is
\* the version of the stored image; ok is FALSE for a cut or mixed picture.
File == [kind : {"absent", "dir", "image"}, pix : Seq(Seg), ver : Nat, ok : BOOLEAN]

NoFile == [kind |-> "absent", pix |-> <<>>, ver |-> 0, ok |-> FALSE]

Stored(nm, c) ==
  [kind |-> IF c = "dir" THEN "dir" ELSE "image", pix |-> nm.segs, ver |-> 0, ok |-> c = "good"]

VARIABLES
  fs,       \* the image directory: Names -> File
  filler,   \* the worker that truncated a file last and is still writing it
  orig,     \* the names the operator stored
  leaked,   \* descriptors no variable of a handler refers to any more
  pc, req,  \* per worker: the next step, the request's name
  n,        \* segments left of it (the length of ptr)
  ext, row, off,   \* ext, formatIndex, formatOffset
  cmds,     \* commandList up to pCommand
  hits,     \* fallback probes of this request that found a file
  fd,       \* the name fd was opened on, or None
  wand,     \* the picture the wand holds
  stat,     \* the file as the last fstat saw it
  status, body,    \* the answer sent: "none", "200", "404"; the file's bytes
  asked, crashes,  \* requests started, process kills
  failed,   \* the handlers to which the system refused a call they do not check (679, 684)
  spoilt    \* the names under which a write stopped before it was done

store  == <<fs, filler>>
search == <<n, ext, row, off, cmds, hits>>
answer == <<status, body>>
env    == <<orig, asked, crashes, failed, spoilt>>
vars   == <<store, env, leaked, pc, req, search, fd, wand, stat, answer>>

PC == {"idle", "open", "cut", "fallback", "opened", "apply", "write", "fill",
       "reopen", "send", "stuck"}

Init ==
  /\ orig \in SUBSET Source
  /\ \E c \in [orig -> Condition] :
       fs = [nm \in Names |-> IF nm \in orig THEN Stored(nm, c[nm]) ELSE NoFile]
  /\ filler = [nm \in Names |-> None]
  /\ leaked = 0 /\ asked = 0 /\ crashes = 0 /\ failed = {} /\ spoilt = {}
  /\ pc = [w \in Worker |-> "idle"]
  /\ req = [w \in Worker |-> CHOOSE r \in Request : TRUE]
  /\ n = [w \in Worker |-> 1]
  /\ ext = [w \in Worker |-> ""] /\ row = [w \in Worker |-> "jpg"]
  /\ off = [w \in Worker |-> 1]
  /\ cmds = [w \in Worker |-> <<>>]
  /\ hits = [w \in Worker |-> 0]
  /\ fd = [w \in Worker |-> None]
  /\ wand = [w \in Worker |-> NoFile] /\ stat = [w \in Worker |-> NoFile]
  /\ status = [w \in Worker |-> "none"] /\ body = [w \in Worker |-> NoFile]

-----------------------------------------------------------------------------
\* The directory, seen through system calls.

Used == leaked + Cardinality({w \in Worker : fd[w] # None})
               + Cardinality({w \in Worker : pc[w] = "fill"})

Exhausted == Limited /\ Used >= FdLimit

CanOpen(nm) == fs[nm].kind # "absent" /\ ~Exhausted

\* What a read to the end of the file finds now.
Look(nm) == IF filler[nm] = None THEN fs[nm] ELSE [fs[nm] EXCEPT !.ok = FALSE]

Goto(w, label)   == pc' = [pc EXCEPT ![w] = label]
SetFd(w, f)      == fd' = [fd EXCEPT ![w] = f]
Reply(w, s, b)   == status' = [status EXCEPT ![w] = s] /\ body' = [body EXCEPT ![w] = b]
NotFound(w)      == Goto(w, "idle") /\ Reply(w, "404", NoFile)

-----------------------------------------------------------------------------
\* The search for a file (lines 535-618).

Begin(w, r) ==
  /\ pc[w] = "idle" /\ asked < MaxRequests
  /\ asked' = asked + 1
  /\ Goto(w, "open")
  /\ req' = [req EXCEPT ![w] = r]
  /\ n' = [n EXCEPT ![w] = Len(r.segs)]
  /\ ext' = [ext EXCEPT ![w] = r.ext]
  /\ cmds' = [cmds EXCEPT ![w] = <<>>]
  /\ hits' = [hits EXCEPT ![w] = 0]
  /\ wand' = [wand EXCEPT ![w] = NoFile]
  /\ failed' = failed \ {w}
  /\ Reply(w, "none", NoFile)
  /\ UNCHANGED <<store, orig, crashes, spoilt, leaked, row, off, fd, stat>>

OpenExact(w) ==
  /\ pc[w] = "open" /\ CanOpen(req[w])
  /\ SetFd(w, req[w]) /\ Goto(w, "opened")
  /\ UNCHANGED <<store, env, leaked, req, search, wand, stat, answer>>

MissExact(w) ==
  /\ pc[w] = "open" /\ ~CanOpen(req[w])
  /\ IF ext[w] = "" THEN NotFound(w) ELSE Goto(w, "cut") /\ UNCHANGED answer
  /\ UNCHANGED <<store, env, leaked, req, search, fd, wand, stat>>

\* Mutant of CutNone: the search never gives up.
CutNone_Endless(w) ==
  /\ pc[w] = "cut" /\ n[w] = 1
  /\ IF fd[w] # None THEN Goto(w, "opened") ELSE UNCHANGED pc
  /\ UNCHANGED <<store, env, leaked, req, search, fd, wand, stat, answer>>

\* No '_' is left: the loop ends with whatever fd holds.
CutNone(w) ==
  /\ pc[w] = "cut" /\ n[w] = 1
  /\ IF fd[w] # None THEN Goto(w, "opened") /\ UNCHANGED answer ELSE NotFound(w)
  /\ UNCHANGED <<store, env, leaked, req, search, fd, wand, stat>>

\* The rightmost directive goes from the name to the top of the stack.
Push(w) ==
  /\ n' = [n EXCEPT ![w] = n[w] - 1]
  /\ cmds' = [cmds EXCEPT ![w] = Append(cmds[w], req[w].segs[n[w]])]

\* fd = open(...) forgets a descriptor that a fallback probe had found.
Forget(w) == leaked' = leaked + (IF fd[w] # None THEN 1 ELSE 0)

CutHit(w) ==
  /\ pc[w] = "cut" /\ n[w] > 1
  /\ LET nm == Name(req[w].segs, n[w] - 1, ext[w]) IN CanOpen(nm) /\ SetFd(w, nm)
  /\ Push(w) /\ Forget(w) /\ Goto(w, "opened")
  /\ UNCHANGED <<store, env, req, ext, row, off, hits, wand, stat, answer>>

\* Mutant of CutMiss: an extension without a row does not end the search.
CutMiss_GoesOn(w) ==
  /\ pc[w] = "cut" /\ n[w] > 1
  /\ ~CanOpen(Name(req[w].segs, n[w] - 1, ext[w])) /\ SetFd(w, None)
  /\ Push(w) /\ Forget(w)
  /\ IF ext[w] \in HasRow
       THEN /\ Goto(w, "fallback")
            /\ row' = [row EXCEPT ![w] = ext[w]] /\ off' = [off EXCEPT ![w] = 1]
       ELSE UNCHANGED <<pc, row, off>>
  /\ UNCHANGED <<store, env, req, ext, hits, wand, stat, answer>>

CutMiss(w) ==
  /\ pc[w] = "cut" /\ n[w] > 1
  /\ ~CanOpen(Name(req[w].segs, n[w] - 1, ext[w])) /\ SetFd(w, None)
  /\ Push(w) /\ Forget(w)
  /\ IF ext[w] \in HasRow
       THEN /\ Goto(w, "fallback") /\ UNCHANGED answer
            /\ row' = [row EXCEPT ![w] = ext[w]] /\ off' = [off EXCEPT ![w] = 1]
       ELSE NotFound(w) /\ UNCHANGED <<row, off>>
  /\ UNCHANGED <<store, env, req, ext, hits, wand, stat>>

\* One fallback format.  A hit leaves this loop only, not the search; ext keeps
\* the last format tried.
Probe(w) == Name(req[w].segs, n[w], FormatCheck[row[w]][off[w]])

FallbackHit(w) ==
  /\ pc[w] = "fallback" /\ CanOpen(Probe(w))
  /\ SetFd(w, Probe(w)) /\ Goto(w, "cut")
  /\ ext' = [ext EXCEPT ![w] = Probe(w).ext]
  /\ hits' = [hits EXCEPT ![w] = hits[w] + 1]
  /\ UNCHANGED <<store, env, leaked, req, n, row, off, cmds, wand, stat, answer>>

\* Mutant of FallbackMiss: only the row's first entry is tried.
FallbackMiss_FirstOnly(w) ==
  /\ pc[w] = "fallback" /\ ~CanOpen(Probe(w))
  /\ ext' = [ext EXCEPT ![w] = Probe(w).ext]
  /\ Goto(w, "cut")
  /\ UNCHANGED <<store, env, leaked, req, n, row, off, cmds, hits, fd, wand, stat, answer>>

FallbackMiss(w) ==
  /\ pc[w] = "fallback" /\ ~CanOpen(Probe(w))
  /\ ext' = [ext EXCEPT ![w] = Probe(w).ext]
  /\ IF off[w] < Len(FormatCheck[row[w]])
       THEN off' = [off EXCEPT ![w] = off[w] + 1] /\ UNCHANGED pc
       ELSE Goto(w, "cut") /\ UNCHANGED off
  /\ UNCHANGED <<store, env, leaked, req, n, row, cmds, hits, fd, wand, stat, answer>>

-----------------------------------------------------------------------------
\* The conversion (lines 644-687).

\* No directive was cut: fstat for Content-Length, then send.
StatExact(w) ==
  /\ pc[w] = "opened" /\ cmds[w] = <<>>
  /\ stat' = [stat EXCEPT ![w] = Look(fd[w])]
  /\ Goto(w, "send")
  /\ UNCHANGED <<store, env, leaked, req, search, fd, wand, answer>>

\* image_start: its FILE keeps the descriptor open for good.  A picture that is
\* not whole is refused by the decoder or read as far as it goes.
Decode(p) ==
  IF p.kind = "image" /\ p.ok THEN {p}
  ELSE IF p.kind = "image" THEN {p, NoFile} ELSE {NoFile}

ReadSource(w) ==
  /\ pc[w] = "opened" /\ cmds[w] # <<>>
  /\ \E p \in Decode(Look(fd[w])) : wand' = [wand EXCEPT ![w] = p]
  /\ SetFd(w, None) /\ leaked' = leaked + 1
  /\ Goto(w, "apply")
  /\ UNCHANGED <<store, env, req, search, stat, answer>>

\* What a directive makes of a picture.  An empty wand has nothing to change.
Directive(p, d) == IF p.kind = "image" THEN [p EXCEPT !.pix = Append(p.pix, d)] ELSE p

\* Mutant of Apply: the stack is emptied from its bottom.
Apply_FromBottom(w) ==
  /\ pc[w] = "apply" /\ cmds[w] # <<>>
  /\ wand' = [wand EXCEPT ![w] = Directive(wand[w], Head(cmds[w]))]
  /\ cmds' = [cmds EXCEPT ![w] = Tail(@)]
  /\ UNCHANGED <<store, env, leaked, pc, req, n, ext, row, off, hits, fd, stat, answer>>

\* One directive, from the top of the stack.
Apply(w) ==
  /\ pc[w] = "apply" /\ cmds[w] # <<>>
  /\ wand' = [wand EXCEPT ![w] = Directive(wand[w], cmds[w][Len(cmds[w])])]
  /\ cmds' = [cmds EXCEPT ![w] = SubSeq(@, 1, Len(@) - 1)]
  /\ UNCHANGED <<store, env, leaked, pc, req, n, ext, row, off, hits, fd, stat, answer>>

\* Mutant of ApplyEnd: the disk option is read the wrong way round.
ApplyEnd_Inverted(w) ==
  /\ pc[w] = "apply" /\ cmds[w] = <<>>
  /\ Goto(w, IF Disk THEN "reopen" ELSE "write")
  /\ UNCHANGED <<store, env, leaked, req, search, fd, wand, stat, answer>>

ApplyEnd(w) ==
  /\ pc[w] = "apply" /\ cmds[w] = <<>>
  /\ Goto(w, IF Disk THEN "write" ELSE "reopen")
  /\ UNCHANGED <<store, env, leaked, req, search, fd, wand, stat, answer>>

\* Mutant of CanWrite: a wand without a picture is written too.
CanWrite_Empty(w) == fs[req[w]].kind # "dir" /\ ~Exhausted

\* MagickWriteImage truncates the file and fills it in place.  Workers that are
\* still filling it go on: if they write another picture the two are mixed.
CanWrite(w) == wand[w].kind = "image" /\ fs[req[w]].kind # "dir" /\ ~Exhausted

Filling(nm) == {v \in Worker : pc[v] = "fill" /\ req[v] = nm}

\* Mutant of WriteBegin: fname, the name the search ended at, is written.
WriteBegin_Fname(w) ==
  /\ pc[w] = "write" /\ CanWrite(w)
  /\ LET nm == Name(req[w].segs, n[w], ext[w]) IN
       fs' = [fs EXCEPT ![nm] = wand[w]] /\ filler' = [filler EXCEPT ![nm] = w]
  /\ Goto(w, "fill")
  /\ UNCHANGED <<env, leaked, req, search, fd, wand, stat, answer>>

WriteBegin(w) ==
  /\ pc[w] = "write" /\ CanWrite(w)
  /\ LET same == \A v \in Filling(req[w]) : wand[v] = wand[w] IN
       fs' = [fs EXCEPT ![req[w]] = [wand[w] EXCEPT !.ok = @ /\ same]]
  /\ filler' = [filler EXCEPT ![req[w]] = w]
  /\ Goto(w, "fill")
  /\ UNCHANGED <<env, leaked, req, search, fd, wand, stat, answer>>

\* What a handler to which a call is refused adds to failed, if it had cause to expect better.
Refused(w, cause) == failed' = failed \cup (IF cause THEN {w} ELSE {})

\* The write may always be refused: for want of a picture or of a descriptor, by a
\* directory of that name, and by what the model does not hold: a disk that is full
\* or read-only, the permissions, a directory that is missing.  The result is ignored.
WriteFail(w) ==
  /\ pc[w] = "write"
  /\ Goto(w, "reopen")
  /\ Refused(w, wand[w].kind = "image")
  /\ UNCHANGED <<store, orig, asked, crashes, spoilt, leaked, req, search, fd, wand, stat, answer>>

WriteEnd(w) ==
  /\ pc[w] = "fill"
  /\ filler' = [filler EXCEPT ![req[w]] = IF @ = w THEN None ELSE @]
  /\ Goto(w, "reopen")
  /\ UNCHANGED <<fs, env, leaked, req, search, fd, wand, stat, answer>>

\* The disk is full half way: the file stays as far as it was written, and that is
\* ignored as well.
WriteCut(w) ==
  /\ pc[w] = "fill"
  /\ fs' = [fs EXCEPT ![req[w]].ok = FALSE]
  /\ filler' = [filler EXCEPT ![req[w]] = IF @ = w THEN None ELSE @]
  /\ Goto(w, "reopen")
  /\ Refused(w, TRUE) /\ spoilt' = spoilt \cup {req[w]}
  /\ UNCHANGED <<orig, asked, crashes, leaked, req, search, fd, wand, stat, answer>>

\* Mutant of Reopen: fname is opened, the name the search ended at.
Reopen_Fname(w) ==
  /\ pc[w] = "reopen"
  /\ LET nm == Name(req[w].segs, n[w], ext[w]) IN
       CanOpen(nm) /\ SetFd(w, nm) /\ stat' = [stat EXCEPT ![w] = Look(nm)]
  /\ Goto(w, "send")
  /\ UNCHANGED <<store, env, leaked, req, search, wand, answer>>

\* open and fstat of the requested name, neither result checked.
Reopen(w) ==
  /\ pc[w] = "reopen" /\ CanOpen(req[w])
  /\ SetFd(w, req[w]) /\ stat' = [stat EXCEPT ![w] = Look(req[w])] /\ Goto(w, "send")
  /\ UNCHANGED <<store, env, leaked, req, search, wand, answer>>

\* Without a descriptor the read loop that follows never ends: read returns -1, not
\* 0.  The open may be refused though the file is there.
ReopenFail(w) ==
  /\ pc[w] = "reopen"
  /\ Goto(w, "stuck")
  /\ Refused(w, fs[req[w]].kind # "absent")
  /\ UNCHANGED <<store, orig, asked, crashes, spoilt, leaked, req, search, fd, wand, stat, answer>>

\* The read loop up to the end of the file.  The body is whole only if the file
\* is, and is still the one whose size was announced.
Send(w) ==
  /\ pc[w] = "send" /\ fs[fd[w]].kind # "dir"
  /\ Reply(w, "200", [Look(fd[w]) EXCEPT !.ok = @ /\ Look(fd[w]) = stat[w]])
  /\ SetFd(w, None) /\ Goto(w, "idle")
  /\ UNCHANGED <<store, env, leaked, req, search, wand, stat>>

\* A directory opens but cannot be read: the same endless loop.
SendDir(w) ==
  /\ pc[w] = "send" /\ fs[fd[w]].kind = "dir"
  /\ Goto(w, "stuck")
  /\ UNCHANGED <<store, env, leaked, req, search, fd, wand, stat, answer>>

-----------------------------------------------------------------------------
\* Around the server.

\* The operator replaces an image it stored, in one step.
Replace(nm) ==
  /\ nm \in orig /\ fs[nm].kind = "image" /\ fs[nm].ver < MaxVersion
  /\ fs' = [fs EXCEPT ![nm].ver = @ + 1]
  /\ UNCHANGED <<filler, env, leaked, pc, req, search, fd, wand, stat, answer>>

\* The process is killed and started again: a file being filled stays cut.
Restart ==
  /\ crashes < MaxCrashes
  /\ crashes' = crashes + 1
  /\ fs' = [nm \in Names |-> Look(nm)]
  /\ filler' = [nm \in Names |-> None]
  /\ spoilt' = spoilt \cup {nm \in Names : filler[nm] # None}
  /\ failed' = {} /\ leaked' = 0
  /\ pc' = [w \in Worker |-> "idle"]
  /\ fd' = [w \in Worker |-> None]
  /\ status' = [w \in Worker |-> "none"]
  /\ UNCHANGED <<orig, asked, req, search, wand, stat, body>>

Search(w) == \/ OpenExact(w) \/ MissExact(w) \/ CutNone(w) \/ CutHit(w) \/ CutMiss(w)
             \/ FallbackHit(w) \/ FallbackMiss(w)

Convert(w) == \/ ReadSource(w) \/ Apply(w) \/ ApplyEnd(w) \/ WriteBegin(w) \/ WriteFail(w)
              \/ WriteEnd(w) \/ WriteCut(w) \/ Reopen(w) \/ ReopenFail(w)

Serve(w) == StatExact(w) \/ Send(w) \/ SendDir(w)

Work(w) == Search(w) \/ Convert(w) \/ Serve(w)

Next == \/ \E w \in Worker : Work(w) \/ \E r \in Request : Begin(w, r)
        \/ \E nm \in Source : Replace(nm)
        \/ Restart

Spec == Init /\ [][Next]_vars

\* The threads are scheduled: a handler that can take a step takes one.
FairSpec == Spec /\ \A w \in Worker : WF_vars(Work(w))

-----------------------------------------------------------------------------
\* Type correctness of every variable (the locals of show_image and the files),
\* with the indices inside what they index: a read before the first segment, past a
\* row of the table or from a descriptor that is not open is a type error.
InRange(w) == /\ n[w] \in 1 .. Len(req[w].segs)
              /\ off[w] \in 1 .. Len(FormatCheck[row[w]])
              /\ pc[w] \in {"opened", "send"} => fd[w] # None
Typed ==
  /\ fs \in [Names -> File] /\ filler \in [Names -> Worker \cup {None}]
  /\ orig \in SUBSET Source
  /\ leaked \in Nat /\ asked \in Nat /\ crashes \in Nat
  /\ failed \in SUBSET Worker /\ spoilt \in SUBSET Names
  /\ pc \in [Worker -> PC] /\ req \in [Worker -> Request]
  /\ n \in [Worker -> Nat] /\ off \in [Worker -> Nat]
  /\ ext \in [Worker -> Ext] /\ row \in [Worker -> HasRow]
  /\ cmds \in [Worker -> Seq(Seg)] /\ hits \in [Worker -> Nat]
  /\ fd \in [Worker -> Names \cup {None}]
  /\ wand \in [Worker -> File] /\ stat \in [Worker -> File]
  /\ status \in [Worker -> {"none", "200", "404"}] /\ body \in [Worker -> File]
TypeOK == Typed /\ \A w \in Worker : InRange(w)

\* The cache never lies about what it holds: an image under a name was made from
\* the stored base by exactly the directives of that name, left to right, however
\* the handlers overlap, cut, fall back and pop (lines 567-681).
CacheFaithful == \A nm \in Names : fs[nm].kind = "image" => fs[nm].pix = nm.segs

\* A client is never sent the picture of another name, neither of the shorter one
\* the search ended at nor of another worker's request (lines 684-698).
ServedFaithful ==
  \A w \in Worker : status[w] = "200" => body[w].pix = req[w].segs

\* commandList (MAX_DIRECTIVES = 16 entries, line 508) is written at pCommand with
\* no check.  What bounds it is the fallback table: without a fallback file in the
\* library the search ends after three pushes, and each one found buys three more.
StackBound == \A w \in Worker : Len(cmds[w]) <= 3 + 3 * hits[w]

\* A file the operator stored is found whatever was cached meanwhile: its name
\* gets no 404, and neither does a name with one directive on it, in the same or a
\* fallback format (lines 535-618).  Not so when descriptors run out.
Bases(r) == {Name(r.segs, 1, e) :
               e \in {r.ext} \cup (IF r.ext \in HasRow THEN {FormatCheck[r.ext][i] :
                                     i \in 1 .. Len(FormatCheck[r.ext])} ELSE {})}
FoundServed ==
  \A w \in Worker : status[w] = "404" =>
     /\ req[w] \notin orig
     /\ Len(req[w].segs) = 2 /\ req[w].ext # "" => Bases(req[w]) \cap orig = {}

\* The endless read loop (lines 690-698) is entered only for want of a file: the disk
\* option is off, the source did not decode, the name is a directory, or the system
\* refused this handler the write at 679 or the open at 684, whose results it ignores.
\* A write that was granted is always enough for the handler that asked for it.
StuckExplained ==
  \A w \in Worker : pc[w] = "stuck" =>
    ~Disk \/ wand[w].kind # "image" \/ w \in failed \/ (fd[w] # None /\ fs[fd[w]].kind = "dir")

\* No step of a handler changes an image the operator stored: the check that the
\* requested name does not exist (line 536) is still good when line 680 writes it.
OriginalsKept ==
  [][\A nm \in orig : fs'[nm] # fs[nm] => fs'[nm] = [fs[nm] EXCEPT !.ver = @ + 1]]_vars

\* Nothing is left mixed in the directory, although two workers may fill the same file
\* at once (line 680), and nothing is left cut but where a write stopped before it was
\* done, if the sources are whole.
CleanCache == \A nm \in Names : fs[nm].kind = "image" => fs[nm].ok \/ nm \in spoilt

\* A body is complete, undamaged and as long as its Content-Length says, if no write of
\* its file has been stopped.
ServedWhole ==
  \A w \in Worker : status[w] = "200" /\ req[w] \notin spoilt => body[w].ok

\* What clients see of the directory, their requests and the answers.
Shelf == [nm \in Names |-> [kind |-> fs[nm].kind,
                            pix  |-> IF fs[nm].kind = "image" THEN fs[nm].pix ELSE <<>>]]
Want  == [w \in Worker |-> IF pc[w] = "idle" THEN None ELSE req[w]]
Got   == [w \in Worker |-> IF status[w] = "200" THEN [kind |-> body[w].kind, pix |-> body[w].pix]
                           ELSE [kind |-> IF status[w] = "404" THEN "refused" ELSE "absent",
                                 pix  |-> <<>>]]

Cache == INSTANCE ImageCache WITH Client <- Worker, stored <- orig, shelf <- Shelf,
                                  want <- Want, got <- Got

\* To its clients the server is a cache that fills itself: each answer is the picture the
\* name means or a refusal of a name that is not stored, and a picture appears under a
\* name only while somebody waits for it, next to one that it is made from (535-708).
IsCache == Cache!Spec

\* Every request is answered, unless the system refuses its handler the write (679) or
\* the open behind it (684): then the worker reads at 690 for ever.
Answered ==
  \A w \in Worker : pc[w] # "idle" ~> pc[w] = "idle" \/ (pc[w] = "stuck" /\ w \in failed)
=============================================================================
