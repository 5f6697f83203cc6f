------------------------------ MODULE FileServer ------------------------------
(***************************************************************************)
(* What handle_request of mongoose.c does when no callback has answered:   *)
(* it authorizes, then serves, lists, includes, stores or deletes files.   *)
(* Several workers do so in one directory tree without a lock.  One action *)
(* is one call into the file system, or what lies between two of them.     *)
(*                                                                         *)
(* An inode has data, a sequence of buffers (MG_BUF_LEN bytes) or of SSI   *)
(* directives, and a modification time in whole seconds.  A path names an  *)
(* inode or 0.  open_file callbacks, CGI, Lua and websockets are left out. *)
(* Any call that opens, makes, removes or writes may be refused.           *)
(***************************************************************************)
EXTENDS Integers, Sequences, FiniteSets

CONSTANTS
  Worker, Path,
  Parent,         \* the directory a path is in: another path, or "root"
  Above,          \* the directories between the root and a path, topmost first
  Index,          \* index_files, for a directory the paths tried
  Ssi,            \* paths that match ssi_pattern
  Hidden,         \* paths that match hide_files_patterns, or password files
  Locked,         \* paths for which check_authorization opens a password file
  Tree,           \* what is there at first: a kind, "dir", "file" or "none", and data
  Request,        \* the requests clients send
  LastRequest,    \* bound: the last of them is one of these
  Listing,        \* enable_directory_listing
  IncludeLevels,  \* 10 in send_ssi_file
  MaxRequests,    \* bound: requests
  MaxTick         \* bound: the clock

\* Paths are names in a tree: each one between a path and the root is in the one before it.
ASSUME PathAssumption ==
  /\ IsFiniteSet(Path) /\ "root" \notin Path
  /\ \A p \in Path :
       /\ Above[p] \in Seq(Path) /\ Index[p] \in Seq(Path)
       /\ Parent[p] = (IF Above[p] = <<>> THEN "root" ELSE Above[p][Len(Above[p])])
       /\ \A i \in 1 .. Len(Above[p]) : Parent[Above[p][i]] = IF i = 1 THEN "root" ELSE Above[p][i - 1]

ASSUME TreeAssumption ==
  \A p \in Path : LET d == Tree[p].data IN d \in Seq({d[i] : i \in DOMAIN d})

\* What strtoll and sscanf can have made of the headers: without a second number it stays 0.
ASSUME RequestAssumption ==
  \A r \in Request :
    /\ r.path \in Path /\ r.at \in Nat /\ r.length \in Int
    /\ r.range.r1 \in Int /\ r.range.r2 \in Int /\ (r.range.n # 2 => r.range.r2 = 0)
    /\ r.early \in Nat  \* how much of the body came with the head

ASSUME LevelAssumption == IncludeLevels \in Nat

VARIABLES
  fs,       \* the inode of each path, 0 for none
  disk,     \* the inodes
  now,      \* the clock, in seconds
  changed,  \* when each path was changed, the moments in order
  copies,   \* what clients got and may validate later
  local,    \* the locals of handle_request in each worker
  left      \* requests that may still come

vars == <<fs, disk, now, changed, copies, local, left>>
tree == <<fs, disk, changed>>

Hole     == [k |-> "hole", by |-> 0, to |-> 0]
Byte(by) == [k |-> "byte", by |-> by, to |-> 0]  \* the same buffer whoever writes it
Include(p) == [k |-> "include", by |-> 0, to |-> p]

Absent == [found |-> FALSE, dir |-> FALSE, size |-> 0, mtime |-> 0]
Blank  == [pc |-> "idle", req |-> "none", path |-> "none", st |-> Absent, ver |-> "none", seen |-> <<>>,
           copy |-> "none", todo |-> <<>>, open |-> <<>>, want |-> 0, announced |-> -1, body |-> <<>>,
           answers |-> <<>>, must_close |-> FALSE, pend |-> <<>>, rival |-> FALSE, ino |-> 0,
           fault |-> FALSE]

Init ==
  LET there == {p \in Path : Tree[p].kind # "none"}
      num   == CHOOSE f \in [there -> 1 .. Cardinality(there)] : \A p, q \in there : p # q => f[p] # f[q]
  IN /\ fs = [p \in Path |-> IF p \in there THEN num[p] ELSE 0]
     /\ disk = [i \in 1 .. Cardinality(there) |->
                  LET p == CHOOSE q \in there : num[q] = i
                  IN [dir |-> Tree[p].kind = "dir", data |-> Tree[p].data, mtime |-> 1]]
     /\ now = 1 /\ changed = [p \in Path |-> <<>>] /\ copies = {}
     /\ local = [w \in Worker |-> Blank] /\ left = MaxRequests

-----------------------------------------------------------------------------
(* The file system, as the code calls it. *)

DirAt(p)  == p = "root" \/ (fs[p] # 0 /\ disk[fs[p]].dir)
FileAt(p) == p # "root" /\ fs[p] # 0 /\ ~ disk[fs[p]].dir
DataAt(p) == IF fs[p] = 0 THEN <<>> ELSE disk[fs[p]].data

\* mg_stat: a modification time of 0 counts as absent.
Stat(p) == IF fs[p] # 0 /\ disk[fs[p]].mtime # 0
           THEN [found |-> TRUE, dir |-> disk[fs[p]].dir, size |-> Len(disk[fs[p]].data),
                 mtime |-> disk[fs[p]].mtime]
           ELSE Absent

Moments(P) == [p \in Path |-> IF p \in P THEN Append(changed[p], now) ELSE changed[p]]

\* fwrite's buffer reaches the file: the bytes from position off on.
Written(data, off, toks) ==
  [i \in 1 .. (IF off + Len(toks) > Len(data) THEN off + Len(toks) ELSE Len(data)) |->
     IF i \in off + 1 .. off + Len(toks) THEN toks[i - off]
     ELSE IF i <= Len(data) THEN data[i] ELSE Hole]

Set(w, l) == local' = [local EXCEPT ![w] = l]

\* The answer is on its way, with or without a length.  The handler ends.
Answer(l, status, framed) ==
  [l EXCEPT !.pc = "done", !.answers = Append(@, [status |-> status, framed |-> framed])]

\* send_http_error always sends a Content-Length.
HttpError(l, status) == Answer(l, status, TRUE)

\* opendir, fopen, mkdir or remove is refused for what the tree does not hold: the
\* permissions, a full disk, no descriptor.  Each caller answers that with a 500.
Refuse(w) ==
  LET l == local[w] IN
  /\ l.pc \in {"list", "open", "ssi", "mkdir", "create", "DELETE"}
  /\ Set(w, HttpError([l EXCEPT !.fault = TRUE], 500))
  /\ UNCHANGED <<tree, now, copies, left>>

-----------------------------------------------------------------------------
(* handle_request. *)

\* convert_uri_to_file_name, whose stat is what most of the handler goes by.
Begin(w, r) ==
  /\ local[w].pc = "idle" /\ left > 0 /\ left' = left - 1
  /\ left = 1 => r \in LastRequest
  /\ \E c \in IF r.cond = "none" THEN {"none"} ELSE {d \in copies : d.path = r.path} :
       Set(w, [Blank EXCEPT !.pc = "route", !.req = r, !.path = r.path, !.st = Stat(r.path), !.copy = c,
                            !.ver = [p \in Path |-> Len(changed[p])], !.seen = DataAt(r.path)])
  /\ UNCHANGED <<tree, now, copies>>

\* open_auth_file: a password file in the directory of the path, or one for its URI.
OpenAuthFile(l) == l.path \in Locked

\* authorize: the request proves that its user is in the password file.
Authorize(l) == l.req.user

\* check_authorization: without a password file everybody is authorized.
Authorized(l) == OpenAuthFile(l) => Authorize(l)

\* is_authorized_for_put: put_delete_auth_file is set and can be opened.
AuthorizedForPut(l) == Authorize(l)

MustHide(l) == l.path \in Hidden

Changes(r) == r.method \in {"PUT", "DELETE"}

\* A request to a port that redirects, when there is one with SSL.
Redirected(r) == r.redir

\* is_not_modified with the tag or the date of the client's copy.  Mutant: the tag is the size alone.
NotModified_Size(l) ==
  \/ l.req.cond = "tag"   /\ l.st.size = l.copy.st.size
  \/ l.req.cond = "since" /\ l.st.mtime <= l.copy.st.mtime

NotModified(l) ==
  \/ l.req.cond = "tag"   /\ l.st.mtime = l.copy.st.mtime /\ l.st.size = l.copy.st.size
  \/ l.req.cond = "since" /\ l.st.mtime <= l.copy.st.mtime

ServePath(l) == IF l.path \in Ssi THEN [l EXCEPT !.pc = "ssi"]
                ELSE IF NotModified(l) THEN HttpError(l, 304)
                ELSE [l EXCEPT !.pc = "open"]

\* The chain of conditions up to the first that touches the file system again.
Routed(l) ==
  LET r == l.req IN
  IF Redirected(r) THEN Answer(l, 302, FALSE)
  ELSE IF ~ Changes(r) /\ ~ Authorized(l) THEN Answer(l, 401, TRUE)
  ELSE IF r.method = "OPTIONS" THEN Answer(l, 200, FALSE)
  ELSE IF Changes(r) THEN IF AuthorizedForPut(l) THEN [l EXCEPT !.pc = r.method] ELSE Answer(l, 401, TRUE)
  ELSE IF ~ l.st.found \/ MustHide(l) THEN HttpError(l, 404)
  ELSE IF l.st.dir /\ ~ r.slash THEN Answer(l, 301, FALSE)
  ELSE IF r.method = "PROPFIND" THEN [l EXCEPT !.pc = "propfind", !.must_close = TRUE]
  ELSE IF l.st.dir THEN [l EXCEPT !.pc = "index", !.todo = Index[l.path]]
  ELSE ServePath(l)

Route(w) == /\ local[w].pc = "route" /\ Set(w, Routed(local[w]))
            /\ UNCHANGED <<tree, now, copies, left>>

\* substitute_index_file, one name of the list.
TryIndex(w) ==
  LET l == local[w]
      p == Head(l.todo) IN
  /\ l.pc = "index" /\ l.todo # <<>>
  /\ Set(w, IF Stat(p).found
            THEN ServePath([l EXCEPT !.path = p, !.st = Stat(p), !.seen = DataAt(p), !.todo = <<>>,
                                     !.ver = [q \in Path |-> Len(changed[q])]])
            ELSE [l EXCEPT !.todo = Tail(@)])
  /\ UNCHANGED <<tree, now, copies, left>>

NoIndex(w) ==
  LET l == local[w] IN
  /\ l.pc = "index" /\ l.todo = <<>>
  /\ Set(w, IF Listing THEN [l EXCEPT !.pc = "list"] ELSE HttpError(l, 403))
  /\ UNCHANGED <<tree, now, copies, left>>

\* scan_directory's opendir; which entries it then finds is not modelled.
Scanned(l) == DirAt(l.path)

\* handle_directory_request: the connection is closed behind the list, if there is one.
ListDir(w) ==
  LET l == local[w] IN
  /\ l.pc = "list"
  /\ Set(w, IF Scanned(l) THEN Answer([l EXCEPT !.must_close = TRUE], 200, FALSE) ELSE HttpError(l, 500))
  /\ UNCHANGED <<tree, now, copies, left>>

\* handle_propfind; a directory that has gone is listed as empty.
Propfind(w) ==
  LET l == local[w] IN
  /\ l.pc = "propfind" /\ Set(w, Answer(l, 207, FALSE))
  /\ UNCHANGED <<tree, now, copies, left>>

-----------------------------------------------------------------------------
(* handle_file_request: what is announced goes by the stat, what is sent by the file. *)

\* A range of which the last byte is 0 or open is no range.
Ranged(l) == l.req.range.n > 0 /\ l.req.range.r1 >= 0 /\ l.req.range.r2 > 0

\* Mutant: the last byte of the range is not counted.
RangeLength_Short(r, cl) == IF r.n = 2 THEN (IF r.r2 > cl THEN cl ELSE r.r2) - r.r1 ELSE cl - r.r1

RangeLength(r, cl) == IF r.n = 2 THEN (IF r.r2 > cl THEN cl ELSE r.r2) - r.r1 + 1 ELSE cl - r.r1

\* fopen of a directory succeeds.
FileOpen(w) ==
  LET l  == local[w]
      cl == IF Ranged(l) THEN RangeLength(l.req.range, l.st.size) ELSE l.st.size
      at == IF Ranged(l) THEN l.req.range.r1 ELSE 0 IN
  /\ l.pc = "open"
  /\ Set(w, IF fs[l.path] = 0 THEN HttpError(l, 500)
            ELSE [Answer(l, IF Ranged(l) THEN 206 ELSE 200, TRUE) EXCEPT
                    !.pc = IF l.req.method = "HEAD" THEN "close" ELSE "send", !.announced = cl, !.want = cl,
                    !.open = <<[ino |-> fs[l.path], off |-> at]>>])
  /\ UNCHANGED <<tree, now, copies, left>>

\* send_file_data, one buffer.
FileSend(w) ==
  LET l == local[w]
      f == l.open[1]
      more == l.want > 0 /\ f.off < Len(disk[f.ino].data) IN
  /\ l.pc = "send"
  /\ Set(w, IF more THEN [l EXCEPT !.body = Append(@, disk[f.ino].data[f.off + 1]),
                                   !.open[1].off = @ + 1, !.want = @ - 1]
            ELSE [l EXCEPT !.pc = "close"])
  /\ UNCHANGED <<tree, now, copies, left>>

\* A client that has the whole file keeps it with its tag and date.
FileClose(w) ==
  LET l == local[w] IN
  /\ l.pc = "close" /\ Set(w, [l EXCEPT !.pc = "done", !.open = <<>>])
  /\ copies' = IF l.req.method = "GET" /\ ~ Ranged(l) /\ Len(l.body) = l.announced
               THEN copies \cup {[path |-> l.path, st |-> l.st, data |-> l.body, ver |-> l.ver[l.path]]}
               ELSE copies
  /\ UNCHANGED <<tree, now, left>>

-----------------------------------------------------------------------------
(* handle_ssi_file_request: a stack of open files, one for each level of inclusion. *)

\* Mutant of SsiOpen: must_close is not set.
SsiOpenWith(w, close) ==
  LET l == local[w] IN
  /\ l.pc = "ssi"
  /\ Set(w, IF fs[l.path] = 0 THEN HttpError(l, 500)
            ELSE [Answer(l, 200, FALSE) EXCEPT !.pc = "include", !.must_close = close,
                    !.open = <<[ino |-> fs[l.path], off |-> 0, ssi |-> TRUE]>>])
  /\ UNCHANGED <<tree, now, copies, left>>

SsiOpen_Keep(w) == SsiOpenWith(w, FALSE)

SsiOpen(w) == SsiOpenWith(w, TRUE)

\* do_ssi_include opens the file a directive names.  One that is too deep is closed again at
\* once; one that is not for SSI is sent as it is.
Included(l, to) ==
  IF fs[to] = 0 \/ (to \in Ssi /\ Len(l.open) > IncludeLevels) THEN l
  ELSE [l EXCEPT !.open = Append(@, [ino |-> fs[to], off |-> 0, ssi |-> to \in Ssi])]

\* send_ssi_file: text is sent, a directive is followed, the end of a file closes it.
SsiNext(w) ==
  LET l   == local[w]
      n   == Len(l.open)
      f   == l.open[n]
      tok == disk[f.ino].data[f.off + 1]
      on  == [l EXCEPT !.open[n].off = @ + 1] IN
  /\ l.pc = "include"
  /\ Set(w, IF f.off >= Len(disk[f.ino].data)
            THEN [l EXCEPT !.open = SubSeq(@, 1, n - 1), !.pc = IF n = 1 THEN "done" ELSE "include"]
            ELSE IF tok.k # "include" \/ ~ f.ssi THEN [on EXCEPT !.body = Append(@, tok)]
            ELSE Included(on, tok.to))
  /\ UNCHANGED <<tree, now, copies, left>>

\* An included file that cannot be opened is passed over.
SsiRefuse(w) ==
  LET l == local[w]
      n == Len(l.open)
      f == l.open[n] IN
  /\ l.pc = "include" /\ f.ssi /\ f.off < Len(disk[f.ino].data)
  /\ disk[f.ino].data[f.off + 1].k = "include"
  /\ Set(w, [l EXCEPT !.open[n].off = @ + 1])
  /\ UNCHANGED <<tree, now, copies, left>>

-----------------------------------------------------------------------------
(* put_file, put_dir, forward_body_data. *)

PutStat(w) ==
  LET l == local[w] IN
  /\ l.pc = "PUT"
  /\ Set(w, [l EXCEPT !.pc = "above", !.st = Stat(l.path),
                      !.todo = Above[l.path] \o IF l.req.slash THEN <<l.path>> ELSE <<>>])
  /\ UNCHANGED <<tree, now, copies, left>>

Done(l) == IF l.st.found THEN 200 ELSE 201

\* put_dir's stat of the next directory.
AboveStat(w) ==
  LET l == local[w] IN
  /\ l.pc = "above"
  /\ Set(w, CASE l.todo # <<>> -> IF Stat(Head(l.todo)).found THEN [l EXCEPT !.todo = Tail(@)]
                                  ELSE [l EXCEPT !.pc = "mkdir"]
              [] l.todo = <<>> /\ l.req.slash -> Answer(l, Done(l), FALSE)
              [] OTHER -> [l EXCEPT !.pc = "create"])
  /\ UNCHANGED <<tree, now, copies, left>>

Mkdir(w) ==
  LET l == local[w]
      p == Head(l.todo) IN
  /\ l.pc = "mkdir"
  /\ IF fs[p] = 0 /\ DirAt(Parent[p])
     THEN /\ disk' = Append(disk, [dir |-> TRUE, data |-> <<>>, mtime |-> now])
          /\ fs' = [fs EXCEPT ![p] = Len(disk) + 1] /\ changed' = Moments({p})
          /\ Set(w, [l EXCEPT !.pc = "above", !.todo = Tail(@)])
     ELSE Set(w, HttpError(l, 500)) /\ UNCHANGED tree
  /\ UNCHANGED <<now, copies, left>>

\* Mutant of PutOpen: mode "r+b", without the truncation.
PutOpenWith(w, old) ==
  LET l == local[w]
      i == IF fs[l.path] = 0 THEN Len(disk) + 1 ELSE fs[l.path]
      r == l.req
      f == [l EXCEPT !.open = <<[ino |-> i, off |-> r.at]>>, !.ino = i, !.pc = "body"]
      rivals == {u \in Worker : local[u].ino = i} IN
  /\ l.pc = "create"
  /\ IF DirAt(Parent[l.path]) /\ ~ DirAt(l.path)
     THEN /\ disk' = IF i > Len(disk) THEN Append(disk, [dir |-> FALSE, data |-> <<>>, mtime |-> now])
                     ELSE [disk EXCEPT ![i] = [dir |-> FALSE, data |-> old, mtime |-> now]]
          /\ fs' = [fs EXCEPT ![l.path] = i] /\ changed' = Moments({l.path})
          /\ local' = [u \in Worker |->
               CASE u = w -> [(IF r.length = -1 THEN HttpError(f, 411)
                               ELSE IF r.expect = "other" THEN HttpError(f, 417) ELSE f)
                              EXCEPT !.rival = rivals # {}, !.pc = IF @ = "done" THEN "flush" ELSE @]
                 [] u # w -> [local[u] EXCEPT !.rival = @ \/ u \in rivals]]
     ELSE Set(w, HttpError(l, 500)) /\ UNCHANGED tree
  /\ UNCHANGED <<now, copies, left>>

PutOpen_NoTruncate(w) == PutOpenWith(w, DataAt(local[w].path))

\* fopen "wb+", then what forward_body_data asks of the request.
PutOpen(w) == PutOpenWith(w, <<>>)

Taken(l) == l.open[1].off + Len(l.pend) - l.req.at

Success(l) == Answer(l, IF l.req.at > 0 THEN 206 ELSE Done(l), FALSE)

\* One buffer of the body is handed to fwrite, or all of it was and the answer is sent.
PutBody(w) ==
  LET l == local[w] IN
  /\ l.pc = "body"
  /\ Set(w, IF Taken(l) < l.req.length THEN [l EXCEPT !.pend = Append(@, Byte(l.req.by))]
            ELSE [Success(l) EXCEPT !.pc = "flush"])
  /\ UNCHANGED <<tree, now, copies, left>>

\* The client stops sending: an error, and what came stays.
PutLost(w) ==
  LET l == local[w] IN
  /\ l.pc = "body" /\ l.req.early <= Taken(l) /\ Taken(l) < l.req.length
  /\ Set(w, [HttpError(l, 577) EXCEPT !.pc = "flush"])
  /\ UNCHANGED <<tree, now, copies, left>>

\* The first k of the buffers that stdio holds reach the file.
Flush(l, k) ==
  IF k = 0 THEN UNCHANGED <<disk, changed>>
  ELSE /\ disk' = [disk EXCEPT ![l.ino].data = Written(@, l.open[1].off, SubSeq(l.pend, 1, k)),
                               ![l.ino].mtime = now]
       /\ changed' = Moments({p \in Path : fs[p] = l.ino})

\* stdio writes its buffer when it is full.
Spill(w) ==
  LET l == local[w] IN
  /\ l.pc = "body" /\ l.pend # <<>> /\ Flush(l, Len(l.pend))
  /\ Set(w, [l EXCEPT !.pend = <<>>, !.open[1].off = @ + Len(l.pend)])
  /\ UNCHANGED <<fs, now, copies, left>>

\* The disk is full: the rest of the buffer is lost, and stdio remembers the error.  The
\* push of what came with the head is not asked how it ended: if that was the whole body,
\* the request goes on to its success.  If not, the push of the next part, which stdio
\* takes, or the read of it fails.
SpillFail(w) ==
  LET l == local[w]
      first == Taken(l) <= l.req.early IN
  /\ l.pc = "body" /\ l.pend # <<>>
  /\ \E k \in 0 .. Len(l.pend) - 1 :
     \E late \in IF first /\ l.req.early < l.req.length THEN {<<>>, <<Byte(l.req.by)>>} ELSE {<<>>} :
       LET cut == [l EXCEPT !.pend = late, !.open[1].off = @ + k, !.fault = TRUE] IN
       /\ Flush(l, k)
       /\ Set(w, [(IF first /\ l.req.length <= l.req.early THEN Success(cut) ELSE HttpError(cut, 577))
                  EXCEPT !.pc = "flush"])
  /\ UNCHANGED <<fs, now, copies, left>>

\* mg_fclose, after the answer.
PutClose(w) ==
  LET l == local[w] IN
  /\ l.pc = "flush" /\ Flush(l, Len(l.pend))
  /\ Set(w, [l EXCEPT !.pc = "done", !.pend = <<>>, !.open = <<>>])
  /\ UNCHANGED <<fs, now, copies, left>>

\* Its result is ignored: what does not fit any more is lost behind the answer.
CloseFail(w) ==
  LET l == local[w] IN
  /\ l.pc = "flush"
  /\ \E k \in 0 .. Len(l.pend) - 1 : Flush(l, k)
  /\ Set(w, [l EXCEPT !.pc = "done", !.pend = <<>>, !.open = <<>>, !.fault = TRUE])
  /\ UNCHANGED <<fs, now, copies, left>>

\* remove(): a file, or an empty directory.
Delete(w) ==
  LET l == local[w]
      p == l.path
      ok == fs[p] # 0 /\ ~ \E q \in Path : Parent[q] = p /\ fs[q] # 0 IN
  /\ l.pc = "DELETE" /\ Set(w, HttpError(l, IF ok THEN 200 ELSE 500))
  /\ IF ok THEN fs' = [fs EXCEPT ![p] = 0] /\ changed' = Moments({p}) ELSE UNCHANGED <<fs, changed>>
  /\ UNCHANGED <<disk, now, copies, left>>

Return(w) == /\ local[w].pc = "done" /\ Set(w, Blank)
             /\ UNCHANGED <<tree, now, copies, left>>

Tick == /\ now < MaxTick /\ now' = now + 1
        /\ UNCHANGED <<tree, copies, local, left>>

Next == \/ \E w \in Worker :
             \/ \E r \in Request : Begin(w, r)
             \/ Route(w) \/ TryIndex(w) \/ NoIndex(w) \/ ListDir(w) \/ Propfind(w)
             \/ FileOpen(w) \/ FileSend(w) \/ FileClose(w) \/ SsiOpen(w) \/ SsiNext(w) \/ SsiRefuse(w)
             \/ PutStat(w) \/ AboveStat(w) \/ Mkdir(w) \/ PutOpen(w) \/ PutBody(w) \/ PutLost(w)
             \/ Spill(w) \/ SpillFail(w) \/ PutClose(w) \/ CloseFail(w) \/ Delete(w)
             \/ Refuse(w) \/ Return(w)
        \/ Tick

Spec == Init /\ [][Next]_vars
-----------------------------------------------------------------------------
(* Properties of the requests that are done. *)

Ended(w)  == local[w].pc = "done"
Status(w) == local[w].answers[1].status

\* The path has not changed since the handler's stat.
Still(l, p) == Len(changed[p]) = l.ver[p]

SelectFrom(data, a, b) == SubSeq(data, a + 1, IF b + 1 > Len(data) THEN Len(data) ELSE b + 1)

\* handle_file_request (2747) never sends more than it announced, whoever changes the file
\* meanwhile; if nobody does, the body is the file, or the part the Range names, and it is
\* as long as announced, except that a range that ends behind the file announces one
\* byte more than there is, and one that begins behind its end is no length at all.
BodyExplained ==
  \A w \in Worker : LET l == local[w] IN
    Ended(w) /\ l.announced # -1 /\ l.req.method = "GET" /\ Status(w) \in {200, 206} =>
      /\ l.announced >= 0 => Len(l.body) <= l.announced
      /\ Still(l, l.path) =>
           LET r == l.req.range IN
           IF Ranged(l)
           THEN /\ l.body = SelectFrom(l.seen, r.r1, r.r2)
                /\ r.r2 < l.st.size /\ r.r1 <= r.r2 => l.announced = Len(l.body)
           ELSE l.body = l.seen /\ l.announced = Len(l.body)

\* A 304 (2939) tells the client that its copy is the file, and it is, unless the file was
\* changed again in the second the copy's tag and date name, after it was looked at.
NotModifiedHonest ==
  \A w \in Worker : LET l == local[w] IN
    Ended(w) /\ Status(w) = 304 /\ l.copy.path = l.path =>
      \/ l.copy.data = l.seen
      \/ \E k \in l.copy.ver + 1 .. Len(changed[l.path]) : changed[l.path][k] = l.copy.st.mtime

\* What the file is when k buffers of the body have reached it, behind a gap if the body is
\* a part of a range.
Part(r, k) == [i \in 1 .. (IF k > 0 THEN r.at + k ELSE 0) |-> IF i <= r.at THEN Hole ELSE Byte(r.by)]

\* A PUT that is answered 2xx (3347), when no other PUT had the file open, has stored its body
\* from its first byte on, all of it unless a write was refused, which the answer need not tell
\* (2976, 3375); and one that is answered 500 met a directory in its place, a file above it,
\* another request that changed a path on its way (put_dir), or a call that was refused.
PutExplained ==
  \A w \in Worker : LET l == local[w]
                        p == l.path IN
    Ended(w) /\ l.req.method = "PUT" =>
      /\ Status(w) \in {200, 201, 206} /\ l.ino # 0 /\ ~ l.rival =>
           \E k \in {0} \cup (1 .. l.req.length) :
             disk[l.ino].data = Part(l.req, k) /\ (l.fault \/ k >= l.req.length)
      /\ Status(w) = 500 =>
           \/ \E q \in {p} \cup {Above[p][i] : i \in 1 .. Len(Above[p])} : ~ Still(l, q)
           \/ DirAt(p) \/ (\E i \in 1 .. Len(Above[p]) : FileAt(Above[p][i]))
           \/ l.fault

\* Every way through the handler answers once and closes the files it opened; SSI files never
\* pile up (3456); and an answer without a length ends the connection, but for five of them:
\* a redirection, OPTIONS, and a PUT that succeeded.
EndsClean ==
  \A w \in Worker : LET l == local[w] IN
    /\ Len(l.open) <= IncludeLevels + 2
    /\ Ended(w) =>
         /\ Len(l.answers) = 1 /\ l.open = <<>>
         /\ \/ l.answers[1].framed \/ l.must_close
            \/ Status(w) \in {301, 302} \/ l.req.method = "OPTIONS"
            \/ l.req.method = "PUT" /\ Status(w) \in {200, 201, 206}
===============================================================================
