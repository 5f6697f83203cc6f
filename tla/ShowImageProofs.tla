-------------------------- MODULE ShowImageProofs --------------------------
(***************************************************************************)
(* What show_image guarantees for any number of workers, any names and any *)
(* interleaving, proved with TLAPS: what it answers and holds, then what   *)
(* it does to the files of the image directory.                            *)
(***************************************************************************)
EXTENDS ShowImage, SequenceTheorems, TLAPS

Searching == {"open", "cut", "fallback", "opened"}

\* The stack holds the directives cut so far, the rightmost at the bottom.
StackOf(w) ==
  /\ Len(cmds[w]) < Len(req[w].segs)
  /\ \A i \in 1 .. Len(cmds[w]) : cmds[w][i] = req[w].segs[Len(req[w].segs) + 1 - i]

\* A descriptor is open on a file that exists; files are never removed.
OnFile(w) == fd[w] # None /\ fs[fd[w]].kind # "absent"

\* Where each worker is, and what it holds there.
Progress(w) ==
  /\ pc[w] \in {"idle", "open", "fallback"} => fd[w] = None
  /\ pc[w] \in Searching => /\ n[w] = Len(req[w].segs) - Len(cmds[w])
                            /\ StackOf(w)
  /\ pc[w] \in {"cut", "opened"} /\ fd[w] # None =>
       OnFile(w) /\ fd[w].segs = SubSeq(req[w].segs, 1, n[w])
  /\ pc[w] = "open" => cmds[w] = <<>>
  /\ pc[w] = "fallback" => cmds[w] # <<>>
  /\ pc[w] = "cut" /\ cmds[w] = <<>> => fd[w] = None
  /\ pc[w] = "opened" => fd[w] # None /\ (cmds[w] = <<>> => fd[w] = req[w])
  /\ pc[w] = "apply" =>
       /\ StackOf(w)
       /\ wand[w].kind = "image" =>
            wand[w].pix = SubSeq(req[w].segs, 1, Len(req[w].segs) - Len(cmds[w]))
  /\ pc[w] \in {"write", "fill"} /\ wand[w].kind = "image" => wand[w].pix = req[w].segs
  /\ pc[w] = "send" => OnFile(w) /\ fd[w] = req[w]

\* What is under a name was made for that name.
Truthful == \A nm \in Names : fs[nm].kind # "absent" => fs[nm].pix = nm.segs

FaithInv == Truthful /\ ServedFaithful /\ \A w \in Worker : Progress(w)

\* How many more directives are cut from a name with this extension before the
\* search gives up, if no file is found.
Rank(e) == IF e \in {"gif", "bmp"} THEN 3 ELSE IF e \in HasRow THEN 2 ELSE 1

Bounded(w) ==
  /\ pc[w] \in {"open", "cut"} => Len(cmds[w]) + Rank(ext[w]) <= 3 + 3 * hits[w]
  /\ pc[w] = "fallback" => Len(cmds[w]) + Rank(row[w]) <= 4 + 3 * hits[w]
  /\ Len(cmds[w]) <= 3 + 3 * hits[w]

StackInv == \A w \in Worker : Bounded(w)

-----------------------------------------------------------------------------
(* Names and table *)

\* A shorter name of a request is one the directory may hold.
LEMMA PrefixInNames ==
  ASSUME NEW r \in Request, NEW k \in 1 .. Len(r.segs), NEW e \in Ext
  PROVE  Name(r.segs, k, e) \in Names
  BY DEF Name, Names

\* The exact name is one of them.
LEMMA RequestInNames ==
  ASSUME NEW r \in Request
  PROVE  /\ r \in Names /\ r.segs \in Seq(Seg) /\ r.ext \in Ext
         /\ Len(r.segs) \in Nat /\ Len(r.segs) >= 1
         /\ SubSeq(r.segs, 1, Len(r.segs)) = r.segs
<1>1. /\ r = [segs |-> r.segs, ext |-> r.ext] /\ r.segs \in Seq(Seg)
      /\ r.segs # <<>> /\ r.ext \in Ext
  BY RequestAssumption
<1>2. Len(r.segs) \in Nat /\ Len(r.segs) >= 1
  BY <1>1, EmptySeq, LenProperties
<1>3. SubSeq(r.segs, 1, Len(r.segs)) = r.segs
  BY <1>1, <1>2, SubSeqProperties, SeqEqual
<1>4. Name(r.segs, Len(r.segs), r.ext) = r
  BY <1>1, <1>3 DEF Name
<1> QED  BY <1>1, <1>2, <1>3, <1>4, PrefixInNames

\* The segments of any name are a sequence.
LEMMA NamesTyped ==
  ASSUME NEW nm \in Names
  PROVE  nm.segs \in Seq(Seg) /\ nm.ext \in Ext
<1>1. PICK r \in Request : \E k \in 1 .. Len(r.segs) : nm.segs = SubSeq(r.segs, 1, k)
  BY DEF Names
<1>3. PICK k \in 1 .. Len(r.segs) : nm.segs = SubSeq(r.segs, 1, k)
  BY <1>1
<1>2. SubSeq(r.segs, 1, k) \in Seq(Seg)
  BY RequestInNames, SubSeqProperties
<1> QED  BY <1>3, <1>2 DEF Names

\* The five rows of the fallback table.
LEMMA Rows ==
  /\ FormatCheck["jpg"] = <<"png", "gif", "bmp", "jpeg", "tga", "tiff">>
  /\ FormatCheck["png"] = <<"gif", "bmp", "jpg", "jpeg", "tiff">>
  /\ FormatCheck["gif"] = <<"png", "bmp", "jpg", "jpeg">>
  /\ FormatCheck["jpeg"] = <<"jpg", "png", "bmp", "gif", "tga", "tiff">>
  /\ FormatCheck["bmp"] = <<"png", "jpg", "gif", "jpeg">>
  BY DEF FormatCheck

\* A row is not empty, names extensions only, and ends in an extension that has
\* one round of fallbacks less than its own.
LEMMA FormatCheckTyped ==
  ASSUME NEW e \in HasRow
  PROVE  /\ Len(FormatCheck[e]) \in Nat /\ 1 \in 1 .. Len(FormatCheck[e])
         /\ \A i \in 1 .. Len(FormatCheck[e]) : FormatCheck[e][i] \in Ext
         /\ Rank(FormatCheck[e][Len(FormatCheck[e])]) = Rank(e) - 1
<1> DEFINE Fits(s, r) == s \in Seq(Ext) /\ Len(s) \in 1 .. 6 /\ Rank(s[Len(s)]) = r
<1>1. Fits(<<"png", "gif", "bmp", "jpeg", "tga", "tiff">>, 1)
  BY DEF Ext, HasRow, Rank
<1>2. Fits(<<"gif", "bmp", "jpg", "jpeg", "tiff">>, 1)
  BY DEF Ext, HasRow, Rank
<1>3. Fits(<<"png", "bmp", "jpg", "jpeg">>, 2)
  BY DEF Ext, HasRow, Rank
<1>4. Fits(<<"jpg", "png", "bmp", "gif", "tga", "tiff">>, 1)
  BY DEF Ext, HasRow, Rank
<1>5. Fits(<<"png", "jpg", "gif", "jpeg">>, 2)
  BY DEF Ext, HasRow, Rank
<1>6. Fits(FormatCheck[e], Rank(e) - 1)
  <2> HIDE DEF Fits
  <2> QED  BY <1>1, <1>2, <1>3, <1>4, <1>5, Rows DEF HasRow, Rank
<1>7. /\ FormatCheck[e] \in Seq(Ext) /\ Len(FormatCheck[e]) \in 1 .. 6
      /\ Rank(FormatCheck[e][Len(FormatCheck[e])]) = Rank(e) - 1
  BY <1>6
<1>8. Len(FormatCheck[e]) \in Nat /\ 1 \in 1 .. Len(FormatCheck[e])
  <2>1. \A k \in 1 .. 6 : k \in Nat /\ 1 \in 1 .. k
    OBVIOUS
  <2> QED  BY <1>7, <2>1
<1>9. \A i \in 1 .. Len(FormatCheck[e]) : FormatCheck[e][i] \in Ext
  BY <1>7, ElementOfSeq
<1> QED  BY <1>7, <1>8, <1>9

-----------------------------------------------------------------------------
(* Type correctness *)

\* What a read finds is a file, under the name it was stored for.
LEMMA LookTyped ==
  ASSUME TypeOK, NEW nm \in Names
  PROVE  /\ Look(nm) \in File
         /\ Look(nm).kind = fs[nm].kind /\ Look(nm).pix = fs[nm].pix
<1>1. fs[nm] \in File
  BY DEF TypeOK, Typed, InRange
<1>2. [fs[nm] EXCEPT !.ok = FALSE] \in File
  BY <1>1 DEF File
<1> QED  BY <1>1, <1>2 DEF Look, File

\* "No file" is a value of the directory's type.
LEMMA NoFileTyped == NoFile \in File
  BY EmptySeq DEF NoFile, File

\* The initial state is typed.
LEMMA TypeInit == Init => TypeOK
<1> SUFFICES ASSUME Init PROVE TypeOK
  OBVIOUS
<1>2. \A nm \in Names : \A c \in Conditions : Stored(nm, c) \in File
  BY NamesTyped DEF Stored, File, Conditions
<1>3. fs \in [Names -> File]
  <2>1. PICK c \in [orig -> Condition] :
          fs = [nm \in Names |-> IF nm \in orig THEN Stored(nm, c[nm]) ELSE NoFile]
    BY DEF Init
  <2> QED  BY <2>1, <1>2, NoFileTyped, SourceAssumption
<1>4. cmds \in [Worker -> Seq(Seg)]
  BY EmptySeq DEF Init
<1>5. (CHOOSE r \in Request : TRUE) \in Request
  BY RequestAssumption
<1>6. ASSUME NEW w \in Worker PROVE InRange(w)
  <2>1. n[w] = 1 /\ off[w] = 1 /\ row[w] = "jpg" /\ pc[w] = "idle" /\ req[w] \in Request
    BY <1>5 DEF Init
  <2>2. 1 \in 1 .. Len(req[w].segs)
    BY <2>1, RequestInNames
  <2>3. 1 \in 1 .. Len(FormatCheck["jpg"])
    BY FormatCheckTyped DEF HasRow
  <2> QED  BY <2>1, <2>2, <2>3 DEF InRange
<1> QED
  BY <1>3, <1>4, <1>5, <1>6, NoFileTyped DEF Init, TypeOK, Typed, PC, Ext, HasRow

\* Where a fallback probe looks.
LEMMA ProbeTyped ==
  ASSUME TypeOK, NEW w \in Worker
  PROVE  Probe(w) \in Names /\ Probe(w).ext \in Ext
<1>1. row[w] \in HasRow /\ off[w] \in 1 .. Len(FormatCheck[row[w]])
  BY DEF TypeOK, Typed, InRange
<1>2. FormatCheck[row[w]][off[w]] \in Ext
  BY <1>1, FormatCheckTyped
<1>3. req[w] \in Request /\ n[w] \in 1 .. Len(req[w].segs)
  BY DEF TypeOK, Typed, InRange
<1> QED  BY <1>2, <1>3, PrefixInNames DEF Probe, Name

\* Where a cut looks, and what it pushes.
LEMMA CutTyped ==
  ASSUME TypeOK, NEW w \in Worker, n[w] > 1
  PROVE  /\ Name(req[w].segs, n[w] - 1, ext[w]) \in Names
         /\ n[w] - 1 \in 1 .. Len(req[w].segs)
         /\ Append(cmds[w], req[w].segs[n[w]]) \in Seq(Seg)
<1>1. /\ req[w] \in Request /\ n[w] \in 1 .. Len(req[w].segs) /\ ext[w] \in Ext
      /\ cmds[w] \in Seq(Seg)
  BY DEF TypeOK, Typed, InRange
<1>2. Len(req[w].segs) \in Nat /\ req[w].segs \in Seq(Seg)
  BY <1>1, RequestInNames
<1>3. n[w] - 1 \in 1 .. Len(req[w].segs)
  BY <1>1, <1>2
<1>4. req[w].segs[n[w]] \in Seg
  BY <1>1, <1>2, ElementOfSeq
<1> QED  BY <1>1, <1>3, <1>4, PrefixInNames, AppendProperties

\* Every step keeps the types of the variables.
LEMMA TypedStep == TypeOK /\ [Next]_vars => Typed'
<1> SUFFICES ASSUME TypeOK, [Next]_vars PROVE Typed'
  OBVIOUS
<1> USE DEF Typed, store, search, answer, env, Goto, SetFd, Reply, NotFound, PC
<1>0. Typed /\ \A w \in Worker : InRange(w)
  BY DEF TypeOK
<1>1. ASSUME NEW w \in Worker, NEW r \in Request, Begin(w, r) PROVE Typed'
  BY <1>0, <1>1, NoFileTyped, RequestInNames, EmptySeq DEF Begin
<1>2. ASSUME NEW w \in Worker, OpenExact(w) PROVE Typed'
  BY <1>0, <1>2, RequestInNames DEF OpenExact
<1>3. ASSUME NEW w \in Worker, MissExact(w) PROVE Typed'
  BY ZenonT(40), <1>0, <1>3, NoFileTyped DEF MissExact
<1>4. ASSUME NEW w \in Worker, CutNone(w) PROVE Typed'
  BY ZenonT(40), <1>0, <1>4, NoFileTyped DEF CutNone
<1>5. ASSUME NEW w \in Worker, CutHit(w) PROVE Typed'
  <2>1. n[w] > 1
    BY <1>5 DEF CutHit
  <2> QED  BY <1>0, <1>5, <2>1, CutTyped DEF CutHit, Push, Forget
<1>6. ASSUME NEW w \in Worker, CutMiss(w) PROVE Typed'
  <2>1. n[w] > 1
    BY <1>6 DEF CutMiss
  <2>2. row' \in [Worker -> HasRow]
    BY <1>0, <1>6 DEF CutMiss
  <2>5. off' = [off EXCEPT ![w] = 1] \/ off' = off
    BY <1>6 DEF CutMiss
  <2>6. pc' = [pc EXCEPT ![w] = "fallback"] \/ pc' = [pc EXCEPT ![w] = "idle"]
    BY <1>6 DEF CutMiss
  <2>7. status' \in [Worker -> {"none", "200", "404"}] /\ body' \in [Worker -> File]
    BY ZenonT(40), <1>0, <1>6, NoFileTyped DEF CutMiss
  <2>3. /\ n' \in [Worker -> Nat] /\ cmds' \in [Worker -> Seq(Seg)] /\ leaked' \in Nat
        /\ fd' \in [Worker -> Names \cup {None}]
    BY <1>0, <1>6, <2>1, CutTyped DEF CutMiss, Push, Forget
  <2>4. UNCHANGED <<store, env, req, ext, hits, wand, stat>>
    BY <1>6 DEF CutMiss
  <2>8. off' \in [Worker -> Nat]
    <3>1. off \in [Worker -> Nat] /\ [off EXCEPT ![w] = 1] \in [Worker -> Nat]
      BY <1>0
    <3> QED  BY <2>5, <3>1
  <2>9. pc' \in [Worker -> PC]
    BY <1>0, <2>6
  <2> QED  BY <1>0, <2>2, <2>3, <2>4, <2>7, <2>8, <2>9
<1>7. ASSUME NEW w \in Worker, FallbackHit(w) PROVE Typed'
  BY <1>0, <1>7, ProbeTyped DEF FallbackHit
<1>8. ASSUME NEW w \in Worker, FallbackMiss(w) PROVE Typed'
  <2>1. off' = [off EXCEPT ![w] = off[w] + 1] \/ off' = off
    BY <1>8 DEF FallbackMiss
  <2>3. pc' = [pc EXCEPT ![w] = "cut"] \/ pc' = pc
    BY <1>8 DEF FallbackMiss
  <2>4. ext' \in [Worker -> Ext]
    BY <1>0, <1>8, ProbeTyped DEF FallbackMiss
  <2>2. UNCHANGED <<store, env, leaked, req, n, row, cmds, hits, fd, wand, stat, answer>>
    BY <1>8 DEF FallbackMiss
  <2>5. off' \in [Worker -> Nat]
    <3>1. off \in [Worker -> Nat] /\ off[w] + 1 \in Nat
      BY <1>0
    <3>2. [off EXCEPT ![w] = off[w] + 1] \in [Worker -> Nat]
      BY <3>1
    <3> QED  BY <2>1, <3>1, <3>2
  <2>6. pc' \in [Worker -> PC]
    BY <1>0, <2>3
  <2> QED  BY <1>0, <2>2, <2>4, <2>5, <2>6
<1>9. ASSUME NEW w \in Worker, StatExact(w) PROVE Typed'
  <2>1. fd[w] \in Names
    BY <1>0, <1>9 DEF StatExact, InRange
  <2> QED  BY <1>0, <1>9, <2>1, LookTyped DEF StatExact
<1>10. ASSUME NEW w \in Worker, ReadSource(w) PROVE Typed'
  <2>1. fd[w] \in Names
    BY <1>0, <1>10 DEF ReadSource, InRange
  <2>2. \A p \in Decode(Look(fd[w])) : p \in File
    BY <2>1, LookTyped, NoFileTyped DEF Decode
  <2> QED  BY <1>0, <1>10, <2>2 DEF ReadSource
<1>11. ASSUME NEW w \in Worker, Apply(w) PROVE Typed'
  <2>1. wand[w] \in File /\ cmds[w] \in Seq(Seg) /\ cmds[w] # <<>>
    BY <1>0, <1>11 DEF Apply
  <2>2. Len(cmds[w]) \in Nat /\ Len(cmds[w]) >= 1
    BY <2>1, EmptySeq, LenProperties
  <2>3. cmds[w][Len(cmds[w])] \in Seg
    BY <2>1, <2>2, ElementOfSeq
  <2>4. SubSeq(cmds[w], 1, Len(cmds[w]) - 1) \in Seq(Seg)
    BY <2>1, <2>2, SubSeqProperties
  <2>5. Directive(wand[w], cmds[w][Len(cmds[w])]) \in File
    BY <2>1, <2>3, AppendProperties DEF File, Directive
  <2>6. wand' \in [Worker -> File]
    BY <1>0, <1>11, <2>5 DEF Apply
  <2>7. cmds' \in [Worker -> Seq(Seg)]
    BY <1>0, <1>11, <2>4 DEF Apply
  <2> QED  BY <1>0, <1>11, <2>6, <2>7 DEF Apply
<1>12. ASSUME NEW w \in Worker, ApplyEnd(w) PROVE Typed'
  <2>1. pc' \in [Worker -> PC]
    BY <1>0, <1>12, FlagAssumption DEF ApplyEnd
  <2> QED  BY <1>0, <1>12, <2>1 DEF ApplyEnd
<1>13. ASSUME NEW w \in Worker, WriteBegin(w) PROVE Typed'
  <2>1. req[w] \in Names /\ wand[w] \in File
    BY <1>0, RequestInNames
  <2>2. ASSUME NEW b \in BOOLEAN PROVE [wand[w] EXCEPT !.ok = @ /\ b] \in File
    BY <2>1 DEF File
  <2> QED  BY <1>0, <1>13, <2>1, <2>2 DEF WriteBegin
<1>14. ASSUME NEW w \in Worker, WriteFail(w) PROVE Typed'
  BY <1>0, <1>14 DEF WriteFail, Refused
<1>15. ASSUME NEW w \in Worker, WriteEnd(w) PROVE Typed'
  BY <1>0, <1>15 DEF WriteEnd
<1>16. ASSUME NEW w \in Worker, Reopen(w) PROVE Typed'
  <2>1. req[w] \in Names /\ Look(req[w]) \in File
    BY <1>0, LookTyped, RequestInNames
  <2> QED  BY <1>0, <1>16, <2>1 DEF Reopen
<1>22. ASSUME NEW w \in Worker, WriteCut(w) PROVE Typed'
  <2>1. req[w] \in Names /\ fs[req[w]] \in File
    BY <1>0, RequestInNames
  <2>2. [fs[req[w]] EXCEPT !.ok = FALSE] \in File
    BY <2>1 DEF File
  <2> QED  BY <1>0, <1>22, <2>1, <2>2 DEF WriteCut, Refused
<1>23. ASSUME NEW w \in Worker, ReopenFail(w) PROVE Typed'
  BY <1>0, <1>23 DEF ReopenFail, Refused
<1>17. ASSUME NEW w \in Worker, Send(w) PROVE Typed'
  <2>1. Look(fd[w]) \in File
    BY <1>0, <1>17, LookTyped DEF Send, InRange
  <2>2. ASSUME NEW b \in BOOLEAN PROVE [Look(fd[w]) EXCEPT !.ok = @ /\ b] \in File
    BY <2>1 DEF File
  <2>3. body' \in [Worker -> File]
    <3>1. PICK b \in BOOLEAN : body' = [body EXCEPT ![w] = [Look(fd[w]) EXCEPT !.ok = @ /\ b]]
      BY <1>17 DEF Send
    <3> QED  BY <1>0, <2>2, <3>1
  <2> QED  BY <1>0, <1>17, <2>3 DEF Send
<1>18. ASSUME NEW w \in Worker, SendDir(w) PROVE Typed'
  BY <1>0, <1>18 DEF SendDir
<1>19. ASSUME NEW nm \in Source, Replace(nm) PROVE Typed'
  <2>1. nm \in Names /\ fs[nm] \in File
    BY <1>0, SourceAssumption
  <2>2. [fs[nm] EXCEPT !.ver = @ + 1] \in File
    BY <2>1 DEF File
  <2> QED  BY <1>0, <1>19, <2>1, <2>2 DEF Replace
<1>20. ASSUME Restart PROVE Typed'
  <2>1. \A nm \in Names : Look(nm) \in File
    BY LookTyped
  <2> QED  BY <1>0, <1>20, <2>1 DEF Restart
<1>21. ASSUME UNCHANGED vars PROVE Typed'
  BY <1>0, <1>21 DEF vars
<1> QED
  BY <1>1, <1>2, <1>3, <1>4, <1>5, <1>6, <1>7, <1>8, <1>9, <1>10, <1>11, <1>12, <1>13,
     <1>14, <1>15, <1>16, <1>17, <1>18, <1>19, <1>20, <1>21, <1>22, <1>23
     DEF Next, Work, Search, Convert, Serve

\* Every step keeps a worker's indices inside its name and its row of the table.
LEMMA RangeStep ==
  ASSUME TypeOK, [Next]_vars, NEW v \in Worker
  PROVE  InRange(v)'
<1> USE DEF InRange, store, search, answer, env, Goto, SetFd, Reply, NotFound
<1>0. Typed /\ InRange(v)
  BY DEF TypeOK
<1>00. /\ fd \in [Worker -> Names \cup {None}] /\ pc \in [Worker -> PC]
       /\ n \in [Worker -> Nat] /\ off \in [Worker -> Nat] /\ row \in [Worker -> HasRow]
       /\ req \in [Worker -> Request]
  BY <1>0 DEF Typed
<1>1. ASSUME NEW w \in Worker, NEW r \in Request, Begin(w, r) PROVE InRange(v)'
  BY <1>0, <1>00, <1>1, RequestInNames DEF Begin
<1>2. ASSUME NEW w \in Worker, OpenExact(w) PROVE InRange(v)'
  BY <1>0, <1>00, <1>2, RequestInNames, NoneAssumption DEF OpenExact
<1>3. ASSUME NEW w \in Worker, MissExact(w) PROVE InRange(v)'
  BY <1>0, <1>00, <1>3 DEF MissExact
<1>4. ASSUME NEW w \in Worker, CutNone(w) PROVE InRange(v)'
  BY <1>0, <1>00, <1>4 DEF CutNone
<1>5. ASSUME NEW w \in Worker, CutHit(w) PROVE InRange(v)'
  BY <1>0, <1>00, <1>5, CutTyped, NoneAssumption DEF CutHit, Push
<1>6. ASSUME NEW w \in Worker, CutMiss(w) PROVE InRange(v)'
  BY <1>0, <1>00, <1>6, CutTyped, FormatCheckTyped DEF CutMiss, Push
<1>7. ASSUME NEW w \in Worker, FallbackHit(w) PROVE InRange(v)'
  BY <1>0, <1>00, <1>7 DEF FallbackHit
<1>8. ASSUME NEW w \in Worker, FallbackMiss(w) PROVE InRange(v)'
  <2>1. off[v] < Len(FormatCheck[row[v]]) => off[v] + 1 \in 1 .. Len(FormatCheck[row[v]])
    BY <1>0, <1>00, FormatCheckTyped
  <2>2. off'[v] = off[v] \/ (off[v] < Len(FormatCheck[row[v]]) /\ off'[v] = off[v] + 1)
    BY <1>0, <1>00, <1>8 DEF FallbackMiss
  <2>3. off'[v] \in 1 .. Len(FormatCheck[row[v]])
    BY <1>0, <2>1, <2>2
  <2>4. pc'[v] = pc[v] \/ pc'[v] = "cut"
    BY <1>00, <1>8 DEF FallbackMiss
  <2> QED  BY <1>0, <1>8, <2>3, <2>4 DEF FallbackMiss
<1>9. ASSUME NEW w \in Worker, StatExact(w) PROVE InRange(v)'
  BY <1>0, <1>00, <1>9 DEF StatExact
<1>10. ASSUME NEW w \in Worker, ReadSource(w) PROVE InRange(v)'
  BY <1>0, <1>00, <1>10 DEF ReadSource
<1>11. ASSUME NEW w \in Worker, Apply(w) PROVE InRange(v)'
  BY <1>0, <1>00, <1>11 DEF Apply
<1>12. ASSUME NEW w \in Worker, ApplyEnd(w) PROVE InRange(v)'
  BY <1>0, <1>00, <1>12 DEF ApplyEnd
<1>13. ASSUME NEW w \in Worker, WriteBegin(w) PROVE InRange(v)'
  BY <1>0, <1>00, <1>13 DEF WriteBegin
<1>14. ASSUME NEW w \in Worker, WriteFail(w) PROVE InRange(v)'
  BY <1>0, <1>00, <1>14 DEF WriteFail
<1>15. ASSUME NEW w \in Worker, WriteEnd(w) PROVE InRange(v)'
  BY <1>0, <1>00, <1>15 DEF WriteEnd
<1>16. ASSUME NEW w \in Worker, Reopen(w) PROVE InRange(v)'
  BY <1>0, <1>00, <1>16, RequestInNames, NoneAssumption DEF Reopen
<1>22. ASSUME NEW w \in Worker, WriteCut(w) PROVE InRange(v)'
  BY <1>0, <1>00, <1>22 DEF WriteCut
<1>23. ASSUME NEW w \in Worker, ReopenFail(w) PROVE InRange(v)'
  BY <1>0, <1>00, <1>23 DEF ReopenFail
<1>17. ASSUME NEW w \in Worker, Send(w) PROVE InRange(v)'
  BY <1>0, <1>00, <1>17 DEF Send
<1>18. ASSUME NEW w \in Worker, SendDir(w) PROVE InRange(v)'
  BY <1>0, <1>00, <1>18 DEF SendDir
<1>19. ASSUME NEW nm \in Source, Replace(nm) PROVE InRange(v)'
  BY <1>0, <1>19 DEF Replace
<1>20. ASSUME Restart PROVE InRange(v)'
  BY <1>0, <1>20 DEF Restart
<1>21. ASSUME UNCHANGED vars PROVE InRange(v)'
  BY <1>0, <1>21 DEF vars
<1> QED
  BY <1>1, <1>2, <1>3, <1>4, <1>5, <1>6, <1>7, <1>8, <1>9, <1>10, <1>11, <1>12, <1>13, <1>14, <1>15, <1>16, <1>17, <1>18, <1>19, <1>20, <1>21,
     <1>22, <1>23
     DEF Next, Work, Search, Convert, Serve

\* Every variable keeps its type, and the search (lines 558-612) never indexes
\* before the first segment of a name or past a row of the fallback table.
THEOREM Typing == Spec => []TypeOK
<1>1. TypeOK /\ [Next]_vars => TypeOK'
  BY TypedStep, RangeStep DEF TypeOK
<1> QED  BY TypeInit, <1>1, PTL DEF Spec

-----------------------------------------------------------------------------
(* The cache never lies *)

\* Pushing what was cut keeps the stack the mirror image of the name's end.
LEMMA PushStack ==
  ASSUME TypeOK, NEW w \in Worker, n[w] > 1, n[w] = Len(req[w].segs) - Len(cmds[w]),
         StackOf(w), Push(w), UNCHANGED req
  PROVE  /\ StackOf(w)' /\ cmds'[w] # <<>>
         /\ n'[w] = n[w] - 1 /\ n'[w] = Len(req'[w].segs) - Len(cmds'[w])
<1> DEFINE s == req[w].segs
           c == cmds[w]
<1>1. /\ s \in Seq(Seg) /\ c \in Seq(Seg) /\ n[w] \in 1 .. Len(s)
      /\ Len(s) \in Nat /\ Len(c) \in Nat
  BY RequestInNames, LenProperties DEF TypeOK, Typed, InRange
<1>2. s[n[w]] \in Seg
  BY <1>1, ElementOfSeq
<1>3. cmds'[w] = Append(c, s[n[w]]) /\ n'[w] = n[w] - 1
  BY DEF Push, TypeOK, Typed
<1>4. /\ Len(cmds'[w]) = Len(c) + 1 /\ cmds'[w] # <<>>
      /\ \A i \in 1 .. Len(c) : cmds'[w][i] = c[i]
      /\ cmds'[w][Len(c) + 1] = s[n[w]]
  BY <1>1, <1>2, <1>3, AppendProperties
<1>5. n[w] = Len(s) - Len(c) /\ \A i \in 1 .. Len(c) : c[i] = s[Len(s) + 1 - i]
  BY DEF StackOf
<1>6. ASSUME NEW i \in 1 .. Len(c) + 1 PROVE cmds'[w][i] = s[Len(s) + 1 - i]
  <2>1. CASE i \in 1 .. Len(c)
    BY <2>1, <1>4, <1>5
  <2>2. CASE i = Len(c) + 1
    BY <2>2, <1>1, <1>4, <1>5
  <2> QED  BY <1>1, <2>1, <2>2
<1>7. Len(cmds'[w]) < Len(s) /\ n'[w] = Len(s) - Len(cmds'[w])
  <2>1. \A a, b \in Nat : a - b > 1 => b + 1 < a /\ (a - b) - 1 = a - (b + 1)
    OBVIOUS
  <2> QED  BY <1>1, <1>3, <1>4, <1>5, <2>1
<1>8. \A i \in 1 .. Len(cmds'[w]) : cmds'[w][i] = s[Len(s) + 1 - i]
  BY <1>4, <1>6
<1> QED  BY <1>3, <1>4, <1>7, <1>8 DEF StackOf

\* A prefix grows by the segment that follows it.
LEMMA GrowPrefix ==
  ASSUME NEW s \in Seq(Seg), NEW m \in Nat, m < Len(s)
  PROVE  Append(SubSeq(s, 1, m), s[m + 1]) = SubSeq(s, 1, m + 1)
<1>1. Len(s) \in Nat /\ s[m + 1] \in Seg /\ \A i \in 1 .. Len(s) : s[i] \in Seg
  BY LenProperties, ElementOfSeq
<1>2. /\ SubSeq(s, 1, m) \in Seq(Seg) /\ Len(SubSeq(s, 1, m)) = m
      /\ \A i \in 1 .. m : SubSeq(s, 1, m)[i] = s[i]
  BY <1>1, SubSeqProperties
<1>3. /\ SubSeq(s, 1, m + 1) \in Seq(Seg) /\ Len(SubSeq(s, 1, m + 1)) = m + 1
      /\ \A i \in 1 .. m + 1 : SubSeq(s, 1, m + 1)[i] = s[i]
  BY <1>1, SubSeqProperties
<1>4. /\ Append(SubSeq(s, 1, m), s[m + 1]) \in Seq(Seg)
      /\ Len(Append(SubSeq(s, 1, m), s[m + 1])) = m + 1
      /\ \A i \in 1 .. m : Append(SubSeq(s, 1, m), s[m + 1])[i] = s[i]
      /\ Append(SubSeq(s, 1, m), s[m + 1])[m + 1] = s[m + 1]
  BY <1>1, <1>2, AppendProperties
<1>5. \A i \in 1 .. m + 1 : Append(SubSeq(s, 1, m), s[m + 1])[i] = SubSeq(s, 1, m + 1)[i]
  BY <1>3, <1>4
<1> QED  BY <1>3, <1>4, <1>5, SeqEqual

\* Applying the top of the stack takes the picture one segment further.
LEMMA ApplyStep ==
  ASSUME TypeOK, NEW w \in Worker, Progress(w), Apply(w)
  PROVE  /\ StackOf(w)'
         /\ wand'[w].kind = "image" =>
              wand'[w].pix = SubSeq(req'[w].segs, 1, Len(req'[w].segs) - Len(cmds'[w]))
<1> DEFINE s == req[w].segs
           c == cmds[w]
<1>1. /\ s \in Seq(Seg) /\ c \in Seq(Seg) /\ Len(s) \in Nat /\ Len(c) \in Nat /\ Len(c) >= 1
      /\ wand[w] \in File
  BY RequestInNames, LenProperties, EmptySeq DEF TypeOK, Typed, Apply
<1>2. /\ Len(c) < Len(s) /\ \A i \in 1 .. Len(c) : c[i] = s[Len(s) + 1 - i]
      /\ wand[w].kind = "image" => wand[w].pix = SubSeq(s, 1, Len(s) - Len(c))
  BY DEF Progress, Apply, StackOf
<1>3. cmds'[w] = SubSeq(c, 1, Len(c) - 1) /\ req' = req
  BY DEF Apply, TypeOK, Typed
<1>4. /\ Len(cmds'[w]) = Len(c) - 1
      /\ \A i \in 1 .. Len(c) - 1 : cmds'[w][i] = c[i]
  BY <1>1, <1>3, SubSeqProperties, ElementOfSeq
<1>5. StackOf(w)'
  BY SMTT(30), <1>1, <1>2, <1>3, <1>4 DEF StackOf
<1>6. wand'[w] = Directive(wand[w], c[Len(c)])
  BY DEF Apply, TypeOK, Typed
<1>7. ASSUME wand[w].kind = "image"
      PROVE  wand'[w].pix = SubSeq(s, 1, Len(s) - Len(c) + 1)
  <2>1. wand'[w].pix = Append(wand[w].pix, c[Len(c)])
    BY <1>1, <1>6, <1>7 DEF Directive, File
  <2> DEFINE m == Len(s) - Len(c)
  <2>2. m \in Nat /\ m < Len(s) /\ Len(s) + 1 - Len(c) = m + 1
    <3>1. \A a, b \in Nat : b >= 1 /\ b < a => a - b \in Nat /\ a - b < a /\ a + 1 - b = (a - b) + 1
      OBVIOUS
    <3> QED  BY <1>1, <1>2, <3>1
  <2>3. Len(c) \in 1 .. Len(c)
    BY <1>1
  <2>4. c[Len(c)] = s[m + 1]
    BY <1>2, <2>2, <2>3
  <2>5. wand[w].pix = SubSeq(s, 1, m)
    BY <1>2, <1>7
  <2>6. Append(SubSeq(s, 1, m), s[m + 1]) = SubSeq(s, 1, m + 1)
    BY <1>1, <2>2, GrowPrefix
  <2> QED  BY <2>1, <2>4, <2>5, <2>6
<1>8. wand'[w].kind = wand[w].kind
  BY <1>1, <1>6 DEF Directive, File
<1>9. Len(s) - Len(c) + 1 = Len(s) - Len(cmds'[w])
  BY <1>1, <1>4
<1> QED  BY <1>3, <1>5, <1>7, <1>8, <1>9

\* A name once in the directory stays in it, and a directory stays one.
Kept(nm) == /\ fs[nm].kind # "absent" => fs'[nm].kind # "absent"
            /\ fs[nm].kind = "dir" => fs'[nm].kind = "dir"

\* No step removes a file.
LEMMA FilesKept == TypeOK /\ [Next]_vars => \A nm \in Names : Kept(nm)
<1> SUFFICES ASSUME TypeOK, [Next]_vars, NEW nm \in Names PROVE Kept(nm)
  OBVIOUS
<1>0. fs \in [Names -> File] /\ wand \in [Worker -> File] /\ req \in [Worker -> Request]
  BY DEF TypeOK, Typed
<1>1. ASSUME NEW w \in Worker, WriteBegin(w) PROVE Kept(nm)
  BY <1>0, <1>1, RequestInNames DEF WriteBegin, CanWrite, Kept, File
<1>2. ASSUME NEW m \in Source, Replace(m) PROVE Kept(nm)
  BY <1>0, <1>2, SourceAssumption DEF Replace, Kept, File
<1>3. ASSUME Restart PROVE Kept(nm)
  BY <1>0, <1>3, LookTyped DEF Restart, Kept
<1>4. ASSUME UNCHANGED fs PROVE Kept(nm)
  BY <1>4 DEF Kept
<1>5. ASSUME NEW w \in Worker, WriteCut(w) PROVE Kept(nm)
  BY <1>0, <1>5, RequestInNames DEF WriteCut, Kept, File
<1> QED
  BY ZenonT(40), <1>1, <1>2, <1>3, <1>4, <1>5 DEF Next, Work, Search, Convert, Serve, vars, store, Begin,
     OpenExact, MissExact, CutNone, CutHit, CutMiss, FallbackHit, FallbackMiss, StatExact,
     ReadSource, Apply, ApplyEnd, WriteFail, WriteEnd, Reopen, ReopenFail, Send, SendDir

\* What Progress says of a worker depends on these locals only, and on the files
\* that exist.
Locals(w) == <<pc[w], req[w], n[w], cmds[w], fd[w], wand[w]>>

\* A worker that does not move, in a directory that only gains files, is as far as before.
LEMMA ProgressKept ==
  ASSUME TypeOK, NEW v \in Worker, Progress(v), UNCHANGED Locals(v),
         \A nm \in Names : Kept(nm)
  PROVE  Progress(v)'
<1>1. fd[v] # None => fd[v] \in Names
  BY DEF TypeOK, Typed
<1> QED  BY <1>1 DEF Progress, OnFile, StackOf, Locals, Kept

\* A worker's step changes no other worker's locals.
LEMMA OthersKept ==
  ASSUME TypeOK, NEW w \in Worker, NEW v \in Worker, v # w,
         Work(w) \/ \E r \in Request : Begin(w, r)
  PROVE  UNCHANGED Locals(v)
<1> USE DEF Locals, store, search, answer, env, Goto, SetFd, Reply, NotFound
<1>0. /\ fd \in [Worker -> Names \cup {None}] /\ pc \in [Worker -> PC]
      /\ n \in [Worker -> Nat] /\ req \in [Worker -> Request]
      /\ cmds \in [Worker -> Seq(Seg)] /\ wand \in [Worker -> File]
  BY DEF TypeOK, Typed
<1>1. ASSUME NEW r \in Request, Begin(w, r) PROVE UNCHANGED Locals(v)
  BY <1>0, <1>1 DEF Begin
<1>2. ASSUME OpenExact(w) PROVE UNCHANGED Locals(v)
  BY <1>0, <1>2 DEF OpenExact
<1>3. ASSUME MissExact(w) PROVE UNCHANGED Locals(v)
  BY <1>0, <1>3 DEF MissExact
<1>4. ASSUME CutNone(w) PROVE UNCHANGED Locals(v)
  BY <1>0, <1>4 DEF CutNone
<1>5. ASSUME CutHit(w) PROVE UNCHANGED Locals(v)
  BY <1>0, <1>5 DEF CutHit, Push
<1>6. ASSUME CutMiss(w) PROVE UNCHANGED Locals(v)
  BY <1>0, <1>6 DEF CutMiss, Push
<1>7. ASSUME FallbackHit(w) PROVE UNCHANGED Locals(v)
  BY <1>0, <1>7 DEF FallbackHit
<1>8. ASSUME FallbackMiss(w) PROVE UNCHANGED Locals(v)
  BY <1>0, <1>8 DEF FallbackMiss
<1>9. ASSUME StatExact(w) PROVE UNCHANGED Locals(v)
  BY <1>0, <1>9 DEF StatExact
<1>10. ASSUME ReadSource(w) PROVE UNCHANGED Locals(v)
  BY <1>0, <1>10 DEF ReadSource
<1>11. ASSUME Apply(w) PROVE UNCHANGED Locals(v)
  BY <1>0, <1>11 DEF Apply
<1>12. ASSUME ApplyEnd(w) PROVE UNCHANGED Locals(v)
  BY <1>0, <1>12 DEF ApplyEnd
<1>13. ASSUME WriteBegin(w) PROVE UNCHANGED Locals(v)
  BY <1>0, <1>13 DEF WriteBegin
<1>14. ASSUME WriteFail(w) PROVE UNCHANGED Locals(v)
  BY <1>0, <1>14 DEF WriteFail
<1>15. ASSUME WriteEnd(w) PROVE UNCHANGED Locals(v)
  BY <1>0, <1>15 DEF WriteEnd
<1>16. ASSUME Reopen(w) PROVE UNCHANGED Locals(v)
  BY <1>0, <1>16 DEF Reopen
<1>22. ASSUME WriteCut(w) PROVE UNCHANGED Locals(v)
  BY <1>0, <1>22 DEF WriteCut
<1>23. ASSUME ReopenFail(w) PROVE UNCHANGED Locals(v)
  BY <1>0, <1>23 DEF ReopenFail
<1>17. ASSUME Send(w) PROVE UNCHANGED Locals(v)
  BY <1>0, <1>17 DEF Send
<1>18. ASSUME SendDir(w) PROVE UNCHANGED Locals(v)
  BY <1>0, <1>18 DEF SendDir
<1> QED
  BY <1>1, <1>2, <1>3, <1>4, <1>5, <1>6, <1>7, <1>8, <1>9, <1>10, <1>11, <1>12, <1>13, <1>14, <1>15, <1>16, <1>17, <1>18,
     <1>22, <1>23
     DEF Work, Search, Convert, Serve

\* A worker's own step takes it to the next stage with what that stage needs.
LEMMA ProgressSelf ==
  ASSUME TypeOK, Truthful, NEW w \in Worker, Progress(w), \A nm \in Names : Kept(nm),
         Work(w) \/ \E r \in Request : Begin(w, r)
  PROVE  Progress(w)'
<1> USE DEF Progress, OnFile, Searching, store, search, answer, env, Goto, SetFd, Reply,
            NotFound
<1>0. /\ fd \in [Worker -> Names \cup {None}] /\ pc \in [Worker -> PC]
      /\ n \in [Worker -> Nat] /\ req \in [Worker -> Request]
      /\ cmds \in [Worker -> Seq(Seg)] /\ wand \in [Worker -> File]
      /\ fs \in [Names -> File]
  BY DEF TypeOK, Typed
<1>00. /\ req[w] \in Names /\ req[w].segs \in Seq(Seg) /\ Len(req[w].segs) \in Nat
       /\ SubSeq(req[w].segs, 1, Len(req[w].segs)) = req[w].segs
       /\ n[w] \in 1 .. Len(req[w].segs)
       /\ Len(<<>>) = 0
  BY <1>0, RequestInNames, EmptySeq DEF TypeOK, InRange
<1>1. ASSUME NEW r \in Request, Begin(w, r) PROVE Progress(w)'
  <2>1. /\ Len(r.segs) \in Nat /\ Len(r.segs) >= 1
    BY RequestInNames
  <2>2. /\ pc'[w] = "open" /\ req'[w] = r /\ n'[w] = Len(r.segs) /\ cmds'[w] = <<>>
        /\ fd'[w] = None
    BY <1>0, <1>1 DEF Begin
  <2>3. StackOf(w)'
    BY <2>1, <2>2, <1>00 DEF StackOf
  <2> QED  BY <2>1, <2>2, <2>3, <1>00
<1>2. ASSUME OpenExact(w) PROVE Progress(w)'
  <2>1. /\ pc'[w] = "opened" /\ fd'[w] = req[w] /\ fs[req[w]].kind # "absent"
        /\ UNCHANGED <<n, req, cmds, fs, wand>>
    BY <1>0, <1>2 DEF OpenExact, CanOpen
  <2>2. n[w] = Len(req[w].segs)
    <3>1. n[w] = Len(req[w].segs) - Len(cmds[w]) /\ cmds[w] = <<>>
      BY <1>2 DEF OpenExact
    <3>2. \A a \in Nat : a - 0 = a
      OBVIOUS
    <3> QED  BY <1>00, <3>1, <3>2
  <2>3. StackOf(w)'
    BY <1>2, <2>1 DEF OpenExact, StackOf
  <2> QED  BY <1>2, <2>1, <2>2, <2>3, <1>00, NoneAssumption DEF OpenExact
<1>3. ASSUME MissExact(w) PROVE Progress(w)'
  <2>1. pc'[w] \in {"cut", "idle"} /\ UNCHANGED <<n, req, cmds, fd, fs, wand>>
    BY <1>0, <1>3 DEF MissExact
  <2>2. StackOf(w)'
    BY <1>3, <2>1 DEF MissExact, StackOf
  <2> QED  BY <1>3, <2>1, <2>2 DEF MissExact
<1>4. ASSUME CutNone(w) PROVE Progress(w)'
  <2>1. pc'[w] = (IF fd[w] # None THEN "opened" ELSE "idle")
        /\ UNCHANGED <<n, req, cmds, fd, fs, wand>>
    BY <1>0, <1>4 DEF CutNone
  <2>2. StackOf(w)'
    BY <1>4, <2>1 DEF CutNone, StackOf
  <2> QED  BY <1>4, <2>1, <2>2 DEF CutNone
<1>5. ASSUME CutHit(w) PROVE Progress(w)'
  <2> DEFINE nm == Name(req[w].segs, n[w] - 1, ext[w])
  <2>1. /\ n[w] > 1 /\ Push(w) /\ UNCHANGED <<req, fs, wand>>
        /\ pc[w] = "cut" /\ pc'[w] = "opened" /\ fd'[w] = nm /\ fs[nm].kind # "absent"
    BY <1>0, <1>5 DEF CutHit, CanOpen
  <2>2. /\ StackOf(w)' /\ cmds'[w] # <<>>
        /\ n'[w] = n[w] - 1 /\ n'[w] = Len(req'[w].segs) - Len(cmds'[w])
    BY <2>1, PushStack
  <2>3. nm \in Names /\ nm.segs = SubSeq(req[w].segs, 1, n[w] - 1)
    BY <2>1, CutTyped DEF Name
  <2> QED  BY <2>1, <2>2, <2>3, NoneAssumption
<1>6. ASSUME CutMiss(w) PROVE Progress(w)'
  <2>1. /\ n[w] > 1 /\ Push(w) /\ UNCHANGED <<req, fs, wand>>
        /\ pc[w] = "cut" /\ pc'[w] \in {"fallback", "idle"} /\ fd'[w] = None
    BY <1>0, <1>6 DEF CutMiss
  <2>2. /\ StackOf(w)' /\ cmds'[w] # <<>>
        /\ n'[w] = n[w] - 1 /\ n'[w] = Len(req'[w].segs) - Len(cmds'[w])
    BY <2>1, PushStack
  <2> QED  BY <2>1, <2>2
<1>7. ASSUME FallbackHit(w) PROVE Progress(w)'
  <2>1. /\ pc[w] = "fallback" /\ pc'[w] = "cut" /\ fd'[w] = Probe(w)
        /\ fs[Probe(w)].kind # "absent" /\ UNCHANGED <<n, req, cmds, fs, wand>>
    BY <1>0, <1>7 DEF FallbackHit, CanOpen
  <2>2. Probe(w).segs = SubSeq(req[w].segs, 1, n[w])
    BY DEF Probe, Name
  <2>3. StackOf(w)'
    BY <2>1 DEF StackOf
  <2> QED  BY <2>1, <2>2, <2>3
<1>8. ASSUME FallbackMiss(w) PROVE Progress(w)'
  <2>1. /\ pc[w] = "fallback" /\ pc'[w] \in {"fallback", "cut"}
        /\ UNCHANGED <<n, req, cmds, fd, fs, wand>>
    BY <1>0, <1>8 DEF FallbackMiss
  <2>2. StackOf(w)'
    BY <2>1 DEF StackOf
  <2> QED  BY <2>1, <2>2
<1>9. ASSUME StatExact(w) PROVE Progress(w)'
  BY <1>0, <1>9 DEF StatExact
<1>10. ASSUME ReadSource(w) PROVE Progress(w)'
  <2>1. /\ pc[w] = "opened" /\ pc'[w] = "apply" /\ fd'[w] = None
        /\ UNCHANGED <<n, req, cmds, fs>>
    BY <1>0, <1>10 DEF ReadSource
  <2>2. StackOf(w)'
    BY <2>1 DEF StackOf
  <2>3. fd[w] \in Names /\ fs[fd[w]].pix = fd[w].segs
    BY <1>0, <2>1 DEF Truthful
  <2>4. wand'[w] \in Decode(Look(fd[w]))
    BY <1>0, <1>10 DEF ReadSource
  <2>5. wand'[w].kind = "image" => wand'[w].pix = fs[fd[w]].pix
    BY <2>3, <2>4, LookTyped DEF Decode, NoFile
  <2> QED  BY <2>1, <2>2, <2>3, <2>5, <1>00
<1>11. ASSUME Apply(w) PROVE Progress(w)'
  <2>1. pc[w] = "apply" /\ UNCHANGED <<pc, req>>
    BY <1>11 DEF Apply
  <2> QED  BY <1>11, <2>1, ApplyStep
<1>12. ASSUME ApplyEnd(w) PROVE Progress(w)'
  <2>1. /\ pc[w] = "apply" /\ pc'[w] \in {"write", "reopen"} /\ cmds[w] = <<>>
        /\ UNCHANGED <<n, req, cmds, fd, fs, wand>>
    BY <1>0, <1>12, FlagAssumption DEF ApplyEnd
  <2>2. wand[w].kind = "image" => wand[w].pix = req[w].segs
    <3>1. \A a \in Nat : a - 0 = a
      OBVIOUS
    <3> QED  BY <1>00, <2>1, <3>1
  <2> QED  BY <2>1, <2>2
<1>13. ASSUME WriteBegin(w) PROVE Progress(w)'
  BY <1>0, <1>13 DEF WriteBegin
<1>14. ASSUME WriteFail(w) PROVE Progress(w)'
  BY <1>0, <1>14 DEF WriteFail
<1>15. ASSUME WriteEnd(w) PROVE Progress(w)'
  BY <1>0, <1>15 DEF WriteEnd
<1>16. ASSUME Reopen(w) PROVE Progress(w)'
  <2>1. pc'[w] = "send" /\ UNCHANGED <<req, fs>>
    BY <1>0, <1>16 DEF Reopen
  <2>2. fd'[w] = req[w] /\ fs[req[w]].kind # "absent"
    BY <1>0, <1>16 DEF Reopen, CanOpen
  <2> QED  BY <2>1, <2>2, <1>00, NoneAssumption
<1>22. ASSUME WriteCut(w) PROVE Progress(w)'
  BY <1>0, <1>22 DEF WriteCut
<1>23. ASSUME ReopenFail(w) PROVE Progress(w)'
  BY <1>0, <1>23 DEF ReopenFail
<1>17. ASSUME Send(w) PROVE Progress(w)'
  BY <1>0, <1>17 DEF Send
<1>18. ASSUME SendDir(w) PROVE Progress(w)'
  BY <1>0, <1>18 DEF SendDir
<1> QED
  BY <1>1, <1>2, <1>3, <1>4, <1>5, <1>6, <1>7, <1>8, <1>9, <1>10, <1>11, <1>12, <1>13,
     <1>14, <1>15, <1>16, <1>17, <1>18, <1>22, <1>23 DEF Work, Search, Convert, Serve

\* The stored images are what their names say.
LEMMA FaithInit == Init => FaithInv
<1> SUFFICES ASSUME Init PROVE FaithInv
  OBVIOUS
<1>1. Truthful
  <2>1. PICK c \in [orig -> Condition] :
          fs = [nm \in Names |-> IF nm \in orig THEN Stored(nm, c[nm]) ELSE NoFile]
    BY DEF Init
  <2> QED  BY <2>1 DEF Truthful, Stored, NoFile
<1>2. ServedFaithful
  BY DEF Init, ServedFaithful
<1>3. ASSUME NEW w \in Worker PROVE Progress(w)
  BY DEF Init, Progress, Searching
<1> QED  BY <1>1, <1>2, <1>3 DEF FaithInv

\* Every step keeps the cache, the answers and the workers' progress faithful.
LEMMA FaithStep == TypeOK /\ FaithInv /\ [Next]_vars => FaithInv'
<1> SUFFICES ASSUME TypeOK, FaithInv, [Next]_vars PROVE FaithInv'
  OBVIOUS
<1>0. Truthful /\ ServedFaithful /\ \A w \in Worker : Progress(w)
  BY DEF FaithInv
<1>1. \A nm \in Names : Kept(nm)
  BY FilesKept
<1>2. Typed
  BY DEF TypeOK
<1>3. ASSUME NEW v \in Worker PROVE Progress(v)'
  <2>1. ASSUME NEW w \in Worker, Work(w) \/ \E r \in Request : Begin(w, r)
        PROVE  Progress(v)'
    <3>1. CASE v = w
      BY <1>0, <1>1, <2>1, <3>1, ProgressSelf
    <3>2. CASE v # w
      BY <1>0, <1>1, <2>1, <3>2, OthersKept, ProgressKept
    <3> QED  BY <3>1, <3>2
  <2>2. ASSUME NEW nm \in Source, Replace(nm) PROVE Progress(v)'
    <3>1. UNCHANGED Locals(v)
      BY <2>2 DEF Replace, Locals, search
    <3> QED  BY <1>0, <1>1, <3>1, ProgressKept
  <2>3. ASSUME Restart PROVE Progress(v)'
    BY <1>2, <2>3 DEF Restart, Progress, Searching
  <2>4. ASSUME UNCHANGED vars PROVE Progress(v)'
    <3>1. UNCHANGED Locals(v)
      BY <2>4 DEF vars, Locals, search
    <3> QED  BY <1>0, <1>1, <3>1, ProgressKept
  <2> QED  BY <2>1, <2>2, <2>3, <2>4 DEF Next
<1>4. ASSUME NEW nm \in Names, fs'[nm].kind # "absent" PROVE fs'[nm].pix = nm.segs
  <2>0. fs \in [Names -> File] /\ wand \in [Worker -> File] /\ req \in [Worker -> Request]
    BY <1>2 DEF Typed
  <2>1. ASSUME NEW w \in Worker, WriteBegin(w) PROVE fs'[nm].pix = nm.segs
    <3>1. req[w] \in Names /\ wand[w].pix = req[w].segs
      BY <1>0, <2>0, <2>1, RequestInNames DEF WriteBegin, CanWrite, Progress
    <3> QED  BY <1>0, <1>4, <2>0, <2>1, <3>1 DEF WriteBegin, Truthful, File
  <2>2. ASSUME NEW m \in Source, Replace(m) PROVE fs'[nm].pix = nm.segs
    BY <1>0, <1>4, <2>0, <2>2, SourceAssumption DEF Replace, Truthful, File
  <2>3. ASSUME Restart PROVE fs'[nm].pix = nm.segs
    BY <1>0, <1>4, <2>0, <2>3, LookTyped DEF Restart, Truthful
  <2>4. ASSUME UNCHANGED fs PROVE fs'[nm].pix = nm.segs
    BY <1>0, <1>4, <2>4 DEF Truthful
  <2>5. ASSUME NEW w \in Worker, WriteCut(w) PROVE fs'[nm].pix = nm.segs
    BY <1>0, <1>4, <2>0, <2>5 DEF WriteCut, Truthful, File
  <2> QED
    BY ZenonT(40), <2>1, <2>2, <2>3, <2>4, <2>5 DEF Next, Work, Search, Convert, Serve, vars, store, Begin,
       OpenExact, MissExact, CutNone, CutHit, CutMiss, FallbackHit, FallbackMiss, StatExact,
       ReadSource, Apply, ApplyEnd, WriteFail, WriteEnd, Reopen, ReopenFail, Send, SendDir
<1>5. ASSUME NEW v \in Worker, status'[v] = "200" PROVE body'[v].pix = req'[v].segs
  <2>0. /\ status \in [Worker -> {"none", "200", "404"}] /\ body \in [Worker -> File]
        /\ req \in [Worker -> Request] /\ fd \in [Worker -> Names \cup {None}]
    BY <1>2 DEF Typed
  <2> USE DEF answer, Reply, NotFound, ServedFaithful
  <2>1. ASSUME NEW w \in Worker, NEW r \in Request, Begin(w, r)
        PROVE  body'[v].pix = req'[v].segs
    BY <1>0, <1>5, <2>0, <2>1 DEF Begin
  <2>2. ASSUME NEW w \in Worker, MissExact(w) \/ CutNone(w) \/ CutMiss(w)
        PROVE  body'[v].pix = req'[v].segs
    BY <1>0, <1>5, <2>0, <2>2 DEF MissExact, CutNone, CutMiss
  <2>3. ASSUME NEW w \in Worker, Send(w) PROVE body'[v].pix = req'[v].segs
    <3>1. Look(fd[w]).pix = req[w].segs /\ Look(fd[w]) \in File
      <4>1. /\ fd[w] = req[w] /\ fs[fd[w]].kind # "absent" /\ fd[w] \in Names
        BY <1>0, <2>0, <2>3, RequestInNames DEF Send, Progress, OnFile
      <4> QED  BY <1>0, <4>1, LookTyped DEF Truthful
    <3>2. body' = [body EXCEPT ![w] = [Look(fd[w]) EXCEPT !.ok = @ /\ Look(fd[w]) = stat[w]]]
          /\ status' = [status EXCEPT ![w] = "200"] /\ req' = req
      BY <2>3 DEF Send
    <3> QED  BY <1>0, <1>5, <2>0, <3>1, <3>2 DEF File
  <2>4. ASSUME Restart PROVE body'[v].pix = req'[v].segs
    BY <1>5, <2>4 DEF Restart
  <2>5. ASSUME UNCHANGED <<status, body, req>> PROVE body'[v].pix = req'[v].segs
    BY <1>0, <1>5, <2>5
  <2> QED
    BY <2>1, <2>2, <2>3, <2>4, <2>5 DEF Next, Work, Search, Convert, Serve, vars, Replace,
       OpenExact, CutHit, FallbackHit, FallbackMiss, StatExact, ReadSource, Apply, ApplyEnd,
       WriteBegin, WriteFail, WriteEnd, WriteCut, Reopen, ReopenFail, SendDir
<1> QED  BY <1>3, <1>4, <1>5 DEF FaithInv, Truthful, ServedFaithful

\* The invariant of a faithful cache holds throughout.
LEMMA Faith == Spec => []FaithInv
  BY FaithInit, FaithStep, Typing, PTL DEF Spec

\* Whatever the workers do to each other, the file under a name was made from that
\* name's base by that name's directives (show_image, lines 567-681).
THEOREM CacheIsFaithful == Spec => []CacheFaithful
<1>1. FaithInv => CacheFaithful
  BY DEF FaithInv, Truthful, CacheFaithful
<1> QED  BY <1>1, Faith, PTL

\* What a client is sent was made for the name it asked for (lines 684-698).
THEOREM ServedIsFaithful == Spec => []ServedFaithful
<1>1. FaithInv => ServedFaithful
  BY DEF FaithInv
<1> QED  BY <1>1, Faith, PTL

-----------------------------------------------------------------------------
(* The stack of directives *)

\* A search without files ends after at most three more cuts.
LEMMA RankTyped == \A e : Rank(e) \in 1 .. 3
  BY DEF Rank

\* The step of w bounds its own stack.
LEMMA BoundedSelf ==
  ASSUME TypeOK, NEW w \in Worker, Bounded(w),
         Work(w) \/ \E r \in Request : Begin(w, r)
  PROVE  Bounded(w)'
<1> USE DEF Bounded, store, search, answer, env, Goto, SetFd, Reply, NotFound
<1>0. /\ pc \in [Worker -> PC] /\ n \in [Worker -> Nat] /\ cmds \in [Worker -> Seq(Seg)]
      /\ ext \in [Worker -> Ext] /\ row \in [Worker -> HasRow] /\ hits \in [Worker -> Nat]
      /\ off \in [Worker -> Nat] /\ req \in [Worker -> Request]
      /\ Len(cmds[w]) \in Nat
  BY LenProperties DEF TypeOK, Typed
<1>1. ASSUME NEW r \in Request, Begin(w, r) PROVE Bounded(w)'
  <2>1. /\ pc'[w] = "open" /\ cmds'[w] = <<>> /\ hits'[w] = 0
    BY <1>0, <1>1 DEF Begin
  <2>2. Rank(ext'[w]) \in 1 .. 3 /\ Len(<<>>) = 0
    BY RankTyped, EmptySeq
  <2> QED  BY <2>1, <2>2
<1>2. ASSUME CutHit(w) \/ CutMiss(w) PROVE Bounded(w)'
  <2>1. /\ pc[w] = "cut" /\ n[w] > 1 /\ Push(w) /\ UNCHANGED <<req, hits, ext>>
        /\ pc'[w] \in {"opened", "fallback", "idle"}
        /\ pc'[w] = "fallback" => row'[w] = ext[w]
    BY <1>0, <1>2 DEF CutHit, CutMiss
  <2>2. req[w].segs[n[w]] \in Seg
    BY <1>0, RequestInNames, ElementOfSeq DEF TypeOK, InRange
  <2>3. Len(cmds'[w]) = Len(cmds[w]) + 1
    BY <1>0, <2>1, <2>2, AppendProperties DEF Push
  <2>4. Rank(ext[w]) \in 1 .. 3 /\ Len(cmds[w]) + Rank(ext[w]) <= 3 + 3 * hits[w]
    BY <2>1, RankTyped
  <2> QED  BY SMTT(30), <1>0, <2>1, <2>3, <2>4
<1>3. ASSUME FallbackHit(w) PROVE Bounded(w)'
  <2>1. pc'[w] = "cut" /\ hits'[w] = hits[w] + 1 /\ cmds' = cmds
    BY <1>0, <1>3 DEF FallbackHit
  <2>2. Rank(ext'[w]) \in 1 .. 3
    BY RankTyped
  <2> QED  BY <1>0, <2>1, <2>2
<1>4. ASSUME FallbackMiss(w) PROVE Bounded(w)'
  <2>1. pc[w] = "fallback" /\ UNCHANGED <<hits, cmds, row>>
    BY <1>4 DEF FallbackMiss
  <2>2. CASE off[w] < Len(FormatCheck[row[w]])
    BY <1>4, <2>1, <2>2 DEF FallbackMiss
  <2>3. CASE ~(off[w] < Len(FormatCheck[row[w]]))
    <3>1. off[w] = Len(FormatCheck[row[w]])
      BY <1>0, <2>3, FormatCheckTyped DEF TypeOK, InRange
    <3>2. pc'[w] = "cut" /\ ext'[w] = FormatCheck[row[w]][off[w]]
      BY <1>0, <1>4, <2>3 DEF FallbackMiss, Probe, Name
    <3>3. Rank(ext'[w]) = Rank(row[w]) - 1 /\ Rank(row[w]) \in 1 .. 3
      BY <1>0, <3>1, <3>2, FormatCheckTyped, RankTyped
    <3> QED  BY <1>0, <2>1, <3>2, <3>3
  <2> QED  BY <2>2, <2>3
<1>5. ASSUME Apply(w) PROVE Bounded(w)'
  <2>1. /\ pc[w] = "apply" /\ UNCHANGED <<pc, hits>> /\ cmds[w] # <<>>
        /\ cmds'[w] = SubSeq(cmds[w], 1, Len(cmds[w]) - 1)
    BY <1>0, <1>5 DEF Apply
  <2>2. Len(cmds[w]) >= 1
    BY <1>0, <2>1, EmptySeq
  <2>3. cmds[w] \in Seq(Seg) /\ Len(cmds[w]) \in Nat
    BY <1>0
  <2>4. Len(cmds'[w]) = Len(cmds[w]) - 1
    BY <2>1, <2>2, <2>3, SubSeqProperties, ElementOfSeq
  <2> QED  BY <1>0, <2>1, <2>4
<1>6. ASSUME MissExact(w) \/ CutNone(w) PROVE Bounded(w)'
  <2>1. /\ pc[w] \in {"open", "cut"} /\ pc'[w] \in {"cut", "opened", "idle"}
        /\ UNCHANGED <<cmds, hits, ext>>
    BY <1>0, <1>6 DEF MissExact, CutNone
  <2> QED  BY <2>1
<1>7. ASSUME pc'[w] \notin {"open", "cut", "fallback"}, UNCHANGED <<cmds, hits>>
      PROVE  Bounded(w)'
  BY <1>7
<1>8. ASSUME OpenExact(w) \/ Serve(w) \/ ReadSource(w) \/ ApplyEnd(w) \/ WriteBegin(w)
             \/ WriteFail(w) \/ WriteEnd(w) \/ WriteCut(w) \/ Reopen(w) \/ ReopenFail(w)
      PROVE  pc'[w] \notin {"open", "cut", "fallback"} /\ UNCHANGED <<cmds, hits>>
  BY <1>0, <1>8, FlagAssumption DEF Serve, OpenExact, StatExact, ReadSource, ApplyEnd,
     WriteBegin, WriteFail, WriteEnd, WriteCut, Reopen, ReopenFail, Send, SendDir
<1> QED
  BY <1>1, <1>2, <1>3, <1>4, <1>5, <1>6, <1>7, <1>8 DEF Work, Search, Convert

\* What the bound on a worker's stack depends on.
Stacks(w) == <<pc[w], cmds[w], hits[w], ext[w], row[w]>>

\* The step of w leaves the stacks of the others alone.
LEMMA StacksKept ==
  ASSUME TypeOK, NEW w \in Worker, NEW v \in Worker, v # w,
         Work(w) \/ \E r \in Request : Begin(w, r)
  PROVE  UNCHANGED Stacks(v)
<1>0. UNCHANGED <<pc[v], cmds[v]>>
  BY OthersKept DEF Locals
<1>1. /\ hits \in [Worker -> Nat] /\ ext \in [Worker -> Ext] /\ row \in [Worker -> HasRow]
  BY DEF TypeOK, Typed
<1>2. UNCHANGED <<hits[v], ext[v]>>
  BY <1>1 DEF Work, Search, Convert, Serve, search, Begin, OpenExact, MissExact, CutNone,
     CutHit, CutMiss, FallbackHit, FallbackMiss, StatExact, ReadSource, Apply, ApplyEnd,
     WriteBegin, WriteFail, WriteEnd, WriteCut, Reopen, ReopenFail, Send, SendDir
<1>3. UNCHANGED row[v]
  BY <1>1 DEF Work, Search, Convert, Serve, search, Begin, OpenExact, MissExact, CutNone,
     CutHit, CutMiss, FallbackHit, FallbackMiss, StatExact, ReadSource, Apply, ApplyEnd,
     WriteBegin, WriteFail, WriteEnd, WriteCut, Reopen, ReopenFail, Send, SendDir
<1> QED  BY <1>0, <1>2, <1>3 DEF Stacks

\* Every step keeps every stack within what its search has earned.
LEMMA StackStep == TypeOK /\ StackInv /\ [Next]_vars => StackInv'
<1> SUFFICES ASSUME TypeOK, StackInv, [Next]_vars, NEW v \in Worker PROVE Bounded(v)'
  BY DEF StackInv
<1>0. Bounded(v)
  BY DEF StackInv
<1>1. ASSUME UNCHANGED Stacks(v) PROVE Bounded(v)'
  BY <1>0, <1>1 DEF Stacks, Bounded
<1>2. ASSUME NEW w \in Worker, Work(w) \/ \E r \in Request : Begin(w, r)
      PROVE  Bounded(v)'
  BY <1>0, <1>1, <1>2, BoundedSelf, StacksKept
<1>3. ASSUME NEW nm \in Source, Replace(nm) PROVE Bounded(v)'
  BY <1>1, <1>3 DEF Replace, Stacks, search
<1>4. ASSUME Restart PROVE Bounded(v)'
  BY <1>0, <1>4 DEF Restart, search, Bounded
<1>5. ASSUME UNCHANGED vars PROVE Bounded(v)'
  BY <1>1, <1>5 DEF vars, Stacks, search
<1> QED  BY <1>2, <1>3, <1>4, <1>5 DEF Next

\* Without fallback files commandList never holds more than three directives, and
\* each fallback file the search meets allows three more (lines 567-617).
THEOREM StackIsBounded == Spec => []StackBound
<1>1. Init => StackInv
  <2> SUFFICES ASSUME Init, NEW w \in Worker PROVE Bounded(w)
    BY DEF StackInv
  <2>1. cmds[w] = <<>> /\ hits[w] = 0 /\ pc[w] = "idle" /\ Len(<<>>) = 0
    BY EmptySeq DEF Init
  <2> QED  BY <2>1 DEF Bounded
<1>2. StackInv => StackBound
  BY DEF StackInv, Bounded, StackBound
<1> QED  BY <1>1, <1>2, StackStep, Typing, PTL DEF Spec

-----------------------------------------------------------------------------
(* The files, for a process that does not run out of descriptors (~Limited): it never overwrites  *)
(* a stored image, it finds them, and clients see an ImageCache.  Whatever the system refuses: it *)
(* hangs for the reasons of StuckExplained only.  And for a library that is whole, is left alone  *)
(* (Quiet) and has no derivative of a derivative (Flat): every file is whole and of one picture.  *)

\* Stored images are there, whole, and no worker is filling one.
StoredInv == \A nm \in orig : nm \in Names /\ fs[nm].kind # "absent" /\ filler[nm] = None

\* A worker past its first look knows that the name it was asked for is not stored.
Missed(w) ==
  pc[w] \in {"cut", "fallback", "apply", "write", "fill"} \/ (pc[w] = "opened" /\ cmds[w] # <<>>)
    => req[w] \notin orig

StoreInv == StoredInv /\ \A w \in Worker : Missed(w)

-----------------------------------------------------------------------------
\* A worker's own step adds to what it knows.
LEMMA StoreSelf ==
  ASSUME ~Limited, TypeOK, StoredInv, NEW w \in Worker, Progress(w), Missed(w),
         Work(w) \/ \E r \in Request : Begin(w, r)
  PROVE  Missed(w)'
<1> USE DEF Missed, store, search, answer, env, Goto, SetFd, Reply, NotFound
<1>0. /\ fd \in [Worker -> Names \cup {None}] /\ pc \in [Worker -> PC]
      /\ req \in [Worker -> Request] /\ cmds \in [Worker -> Seq(Seg)] /\ req[w] \in Names
  BY RequestInNames DEF TypeOK, Typed
<1>1. \A nm : CanOpen(nm) <=> fs[nm].kind # "absent"
  BY DEF CanOpen, Exhausted
<1>2. ASSUME pc'[w] \in {"idle", "open", "send", "reopen", "stuck"} PROVE Missed(w)'
  BY <1>2
<1>3. CASE \E r \in Request : Begin(w, r)
  BY <1>0, <1>2, <1>3 DEF Begin
<1>4. CASE OpenExact(w)
  <2>1. pc'[w] = "opened" /\ cmds' = cmds /\ cmds[w] = <<>>
    BY <1>0, <1>4 DEF OpenExact, Progress
  <2> QED  BY <2>1
<1>5. CASE MissExact(w)
  <2>1. pc'[w] \in {"idle", "cut"} /\ UNCHANGED <<orig, req>> /\ req[w] \notin orig
    BY <1>0, <1>1, <1>5 DEF MissExact, StoredInv
  <2> QED  BY <2>1
<1>6. CASE CutNone(w) \/ CutHit(w) \/ CutMiss(w) \/ FallbackHit(w) \/ FallbackMiss(w)
  <2>1. /\ pc[w] \in {"cut", "fallback"} /\ UNCHANGED <<orig, req>>
        /\ pc'[w] \in {"idle", "cut", "fallback", "opened"}
    BY <1>0, <1>6 DEF CutNone, CutHit, CutMiss, FallbackHit, FallbackMiss
  <2> QED  BY <2>1
<1>7. CASE \/ StatExact(w) \/ Send(w) \/ SendDir(w) \/ WriteFail(w) \/ WriteEnd(w)
           \/ WriteCut(w) \/ Reopen(w) \/ ReopenFail(w)
  BY <1>0, <1>2, <1>7 DEF StatExact, Send, SendDir, WriteFail, WriteEnd, WriteCut, Reopen, ReopenFail
<1>8. CASE ReadSource(w) \/ Apply(w)
  <2>1. /\ pc[w] = "apply" \/ (pc[w] = "opened" /\ cmds[w] # <<>>)
        /\ pc'[w] = "apply" /\ UNCHANGED <<orig, req>>
    BY <1>0, <1>8 DEF ReadSource, Apply
  <2> QED  BY <2>1
<1>9. CASE ApplyEnd(w)
  <2>1. /\ pc[w] = "apply" /\ UNCHANGED <<orig, req>>
        /\ pc'[w] = "write" \/ pc'[w] = "reopen"
    BY <1>0, <1>9 DEF ApplyEnd
  <2> QED  BY <2>1
<1>10. CASE WriteBegin(w)
  <2>1. pc[w] = "write" /\ pc'[w] = "fill" /\ UNCHANGED <<orig, req>>
    BY <1>0, <1>10 DEF WriteBegin
  <2> QED  BY <2>1
<1> QED
  BY <1>3, <1>4, <1>5, <1>6, <1>7, <1>8, <1>9, <1>10 DEF Work, Search, Convert, Serve

\* A step either leaves a stored image alone or is its replacement.
Spared(nm) == fs'[nm] # fs[nm] => fs'[nm] = [fs[nm] EXCEPT !.ver = @ + 1]

\* Which steps touch the directory, and what they do to a stored image.
LEMMA StoredStep ==
  ASSUME TypeOK, StoreInv, [Next]_vars, NEW nm \in orig
  PROVE  Spared(nm) /\ filler'[nm] = None
<1> USE DEF Spared
<1>0. /\ fs \in [Names -> File] /\ filler \in [Names -> Worker \cup {None}]
      /\ req \in [Worker -> Request] /\ nm \in Names /\ filler[nm] = None
  BY DEF TypeOK, Typed, StoreInv, StoredInv
<1>1. ASSUME NEW w \in Worker, WriteBegin(w)
      PROVE  Spared(nm) /\ filler'[nm] = None
  <2>1. req[w] # nm
    BY <1>1 DEF WriteBegin, StoreInv, Missed
  <2>2. fs'[nm] = fs[nm]
    BY <1>0, <1>1, <2>1 DEF WriteBegin
  <2>3. filler'[nm] = filler[nm]
    BY <1>0, <1>1, <2>1 DEF WriteBegin
  <2> QED  BY <1>0, <2>2, <2>3
<1>2. ASSUME NEW w \in Worker, WriteEnd(w)
      PROVE  Spared(nm) /\ filler'[nm] = None
  BY <1>0, <1>2 DEF WriteEnd
<1>6. ASSUME NEW w \in Worker, WriteCut(w)
      PROVE  Spared(nm) /\ filler'[nm] = None
  <2>1. req[w] # nm
    BY <1>6 DEF WriteCut, StoreInv, Missed
  <2>2. fs'[nm] = fs[nm]
    BY <1>0, <1>6, <2>1 DEF WriteCut
  <2>3. filler'[nm] = filler[nm]
    BY <1>0, <1>6, <2>1 DEF WriteCut
  <2> QED  BY <1>0, <2>2, <2>3
<1>3. ASSUME NEW m \in Source, Replace(m)
      PROVE  Spared(nm) /\ filler'[nm] = None
  BY <1>0, <1>3 DEF Replace
<1>4. CASE Restart
  BY <1>0, <1>4 DEF Restart, Look
<1>5. ASSUME UNCHANGED store
      PROVE  Spared(nm) /\ filler'[nm] = None
  BY <1>0, <1>5 DEF store
<1> QED
  BY <1>1, <1>2, <1>3, <1>4, <1>5, <1>6 DEF Next, Work, Search, Convert, Serve, vars, Begin,
     OpenExact, MissExact, CutNone, CutHit, CutMiss, FallbackHit, FallbackMiss, StatExact,
     ReadSource, Apply, ApplyEnd, WriteFail, Reopen, ReopenFail, Send, SendDir

\* The operator's choice of names is made once.
LEMMA OrigFixed == [Next]_vars => UNCHANGED orig
BY ZenonT(40) DEF Next, Work, Search, Convert, Serve, vars, store, env, Begin, Replace, Restart,
   OpenExact, MissExact, CutNone, CutHit, CutMiss, FallbackHit, FallbackMiss, StatExact,
   ReadSource, Apply, ApplyEnd, WriteBegin, WriteEnd, WriteCut, WriteFail,
   Reopen, ReopenFail, Send, SendDir, Refused

\* The initial directory holds what was stored.
LEMMA StoreInit == Init => StoreInv
<1> SUFFICES ASSUME Init PROVE StoreInv
  OBVIOUS
<1>1. StoredInv
  <2>1. PICK c \in [orig -> Condition] :
          fs = [nm \in Names |-> IF nm \in orig THEN Stored(nm, c[nm]) ELSE NoFile]
    BY DEF Init
  <2>2. orig \subseteq Names /\ filler = [nm \in Names |-> None]
    BY SourceAssumption DEF Init
  <2> QED  BY <2>1, <2>2 DEF StoredInv, Stored
<1> QED  BY <1>1 DEF Init, StoreInv, Missed

\* Every step keeps what is known of the stored images.
LEMMA StoreStep ==
  ASSUME ~Limited, TypeOK, FaithInv, StoreInv, [Next]_vars
  PROVE  StoreInv'
<1>0. /\ StoredInv /\ UNCHANGED orig /\ \A nm \in Names : Kept(nm)
  BY OrigFixed, FilesKept DEF StoreInv
<1>1. StoredInv'
  BY <1>0, StoredStep DEF StoredInv, Kept
<1>2. ASSUME NEW v \in Worker PROVE Missed(v)'
  <2>0. Missed(v) /\ Progress(v)
    BY DEF StoreInv, FaithInv
  <2>1. ASSUME UNCHANGED Locals(v) PROVE Missed(v)'
    BY <1>0, <2>0, <2>1 DEF Missed, Locals
  <2>2. ASSUME NEW w \in Worker, Work(w) \/ \E r \in Request : Begin(w, r)
        PROVE  Missed(v)'
    <3>1. CASE v = w
      BY <1>0, <2>0, <2>2, <3>1, StoreSelf
    <3>2. CASE v # w
      BY <2>1, <2>2, <3>2, OthersKept
    <3> QED  BY <3>1, <3>2
  <2>3. ASSUME NEW nm \in Source, Replace(nm) PROVE Missed(v)'
    BY <2>1, <2>3 DEF Replace, Locals, search
  <2>4. CASE Restart
    BY <2>4 DEF Restart, Missed
  <2>5. CASE UNCHANGED vars
    BY <2>1, <2>5 DEF vars, Locals, search
  <2> QED  BY <2>2, <2>3, <2>4, <2>5 DEF Next
<1> QED  BY <1>1, <1>2 DEF StoreInv

\* The invariant holds throughout.
LEMMA Store == ASSUME ~Limited PROVE Spec => []StoreInv
<1>1. TypeOK /\ FaithInv /\ StoreInv /\ [Next]_vars => StoreInv'
  BY StoreStep
<1> QED  BY <1>1, StoreInit, Faith, Typing, PTL DEF Spec

\* No handler, however late it writes after its look at line 536, and no crash
\* changes an image the operator stored.
THEOREM OriginalsAreKept == ASSUME ~Limited PROVE Spec => OriginalsKept
<1>1. TypeOK /\ StoreInv /\ [Next]_vars => \A nm \in orig : Spared(nm)
  BY StoredStep
<1>2. TypeOK /\ StoreInv /\ [Next]_vars =>
        [\A nm \in orig : fs'[nm] # fs[nm] => fs'[nm] = [fs[nm] EXCEPT !.ver = @ + 1]]_vars
  BY <1>1 DEF Spared
<1> QED  BY <1>2, Store, Typing, PTL DEF Spec, OriginalsKept

-----------------------------------------------------------------------------
\* What a worker knows about the file it is going to reopen.
Written(w) ==
  /\ pc[w] = "fill" => fs[req[w]].kind # "absent"
  /\ pc[w] = "reopen" =>
       ~Disk \/ wand[w].kind # "image" \/ w \in failed \/ fs[req[w]].kind # "absent"
  /\ pc[w] = "stuck" =>
       ~Disk \/ wand[w].kind # "image" \/ w \in failed \/ (fd[w] # None /\ fs[fd[w]].kind = "dir")

WrittenInv == \A w \in Worker : Written(w)

\* The step of a worker refuses no other worker a call.
LEMMA RefusalsKept ==
  ASSUME NEW w \in Worker, NEW v \in Worker, v # w, v \in failed,
         Work(w) \/ \E r \in Request : Begin(w, r)
  PROVE  v \in failed'
<1> USE DEF env, Refused
<1>1. CASE WriteFail(w) \/ WriteCut(w) \/ ReopenFail(w)
  BY <1>1 DEF WriteFail, WriteCut, ReopenFail
<1>2. CASE \E r \in Request : Begin(w, r)
  BY <1>2 DEF Begin
<1>3. CASE Work(w) /\ ~ (WriteFail(w) \/ WriteCut(w) \/ ReopenFail(w))
  BY <1>3 DEF Work, Search, Convert, Serve, OpenExact, MissExact, CutNone, CutHit, CutMiss,
     FallbackHit, FallbackMiss, StatExact, ReadSource, Apply, ApplyEnd, WriteBegin, WriteEnd,
     Reopen, Send, SendDir
<1> QED  BY <1>1, <1>2, <1>3

\* Another worker's step leaves what this one knows true.
LEMMA WrittenKept ==
  ASSUME TypeOK, NEW v \in Worker, Written(v), UNCHANGED Locals(v), v \in failed => v \in failed',
         \A nm \in Names : Kept(nm)
  PROVE  Written(v)'
<1>1. /\ req[v] \in Names
      /\ fd[v] # None => fd[v] \in Names
  BY RequestInNames DEF TypeOK, Typed
<1>2. UNCHANGED <<pc[v], req[v], fd[v], wand[v]>>
  BY DEF Locals
<1> QED  BY <1>1, <1>2 DEF Written, Kept

\* A worker's own step: a write that is granted leaves a file, and what is refused is noted.
LEMMA WrittenSelf ==
  ASSUME TypeOK, NEW w \in Worker, Progress(w), Written(w),
         Work(w) \/ \E r \in Request : Begin(w, r)
  PROVE  Written(w)'
<1> USE DEF Written, store, search, answer, env, Goto, SetFd, Reply, NotFound, Refused
<1>0. /\ fd \in [Worker -> Names \cup {None}] /\ pc \in [Worker -> PC]
      /\ req \in [Worker -> Request]
      /\ wand \in [Worker -> File] /\ fs \in [Names -> File] /\ req[w] \in Names
  BY RequestInNames DEF TypeOK, Typed
<1>1. ASSUME pc'[w] \notin {"fill", "reopen", "stuck"} PROVE Written(w)'
  BY <1>1
<1>2. CASE \E r \in Request : Begin(w, r)
  BY <1>0, <1>1, <1>2 DEF Begin
<1>3. CASE OpenExact(w) \/ StatExact(w) \/ ReadSource(w) \/ Send(w) \/ Reopen(w)
  BY <1>0, <1>1, <1>3 DEF OpenExact, StatExact, ReadSource, Send, Reopen
<1>4. CASE MissExact(w) \/ CutNone(w) \/ CutHit(w) \/ CutMiss(w) \/ FallbackHit(w) \/ FallbackMiss(w)
  <2>1. pc'[w] \in {"idle", "cut", "fallback", "opened"}
    BY <1>0, <1>4 DEF MissExact, CutNone, CutHit, CutMiss, FallbackHit, FallbackMiss
  <2> QED  BY <1>1, <2>1
<1>5. CASE Apply(w)
  BY <1>0, <1>1, <1>5 DEF Apply
<1>6. CASE ApplyEnd(w)
  <2>1. pc'[w] = "write" \/ (pc'[w] = "reopen" /\ ~Disk)
    BY <1>0, <1>6 DEF ApplyEnd
  <2> QED  BY <2>1
<1>7. CASE WriteBegin(w)
  <2>1. pc'[w] = "fill" /\ UNCHANGED req /\ wand[w].kind = "image"
    BY <1>0, <1>7 DEF WriteBegin, CanWrite
  <2>2. fs'[req[w]].kind = wand[w].kind
    BY <1>0, <1>7 DEF WriteBegin, File
  <2> QED  BY <2>1, <2>2
<1>8. CASE WriteFail(w)
  <2>1. pc'[w] = "reopen" /\ UNCHANGED wand /\ (wand[w].kind = "image" => w \in failed')
    BY <1>0, <1>8 DEF WriteFail
  <2> QED  BY <2>1
<1>9. CASE WriteEnd(w)
  <2>1. pc[w] = "fill" /\ pc'[w] = "reopen" /\ UNCHANGED <<req, wand, fs>>
    BY <1>0, <1>9 DEF WriteEnd
  <2> QED  BY <2>1
<1>10. CASE WriteCut(w)
  <2>1. pc'[w] = "reopen" /\ w \in failed'
    BY <1>0, <1>10 DEF WriteCut
  <2> QED  BY <2>1
<1>11. CASE ReopenFail(w)
  <2>1. /\ pc[w] = "reopen" /\ pc'[w] = "stuck" /\ UNCHANGED <<req, wand, fs>>
        /\ (w \in failed \/ fs[req[w]].kind # "absent") => w \in failed'
    BY <1>0, <1>11 DEF ReopenFail
  <2> QED  BY <2>1
<1>12. CASE SendDir(w)
  <2>1. /\ pc'[w] = "stuck" /\ UNCHANGED <<fs, fd>>
        /\ fd[w] # None /\ fs[fd[w]].kind = "dir"
    BY <1>0, <1>12 DEF SendDir, Progress, OnFile
  <2> QED  BY <2>1
<1> QED
  BY <1>2, <1>3, <1>4, <1>5, <1>6, <1>7, <1>8, <1>9, <1>10, <1>11, <1>12
     DEF Work, Search, Convert, Serve

\* Every step keeps what the workers know of their files.
LEMMA WrittenStep ==
  ASSUME TypeOK, FaithInv, WrittenInv, [Next]_vars
  PROVE  WrittenInv'
<1> SUFFICES ASSUME NEW v \in Worker PROVE Written(v)'
  BY DEF WrittenInv
<1>0. Written(v) /\ Progress(v) /\ \A nm \in Names : Kept(nm)
  BY FilesKept DEF WrittenInv, FaithInv
<1>1. ASSUME NEW w \in Worker, Work(w) \/ \E r \in Request : Begin(w, r) PROVE Written(v)'
  <2>1. CASE v = w
    BY <1>0, <1>1, <2>1, WrittenSelf
  <2>2. CASE v # w
    BY <1>0, <1>1, <2>2, OthersKept, RefusalsKept, WrittenKept
  <2> QED  BY <2>1, <2>2
<1>2. ASSUME NEW nm \in Source, Replace(nm) PROVE Written(v)'
  BY <1>0, <1>2, WrittenKept DEF Replace, Locals, search, env
<1>3. CASE Restart
  BY <1>3 DEF Restart, Written
<1>4. CASE UNCHANGED vars
  BY <1>0, <1>4, WrittenKept DEF vars, Locals, search, env
<1> QED  BY <1>1, <1>2, <1>3, <1>4 DEF Next

\* The read loop (lines 690-698) spins only where there is no file to read: the disk
\* option is off, the source did not decode, the name is a directory, or the system
\* refused this handler the write or the open whose results it ignores (679, 684).
\* Nothing that another handler, the operator or a kill does is a reason.
THEOREM HangsAreExplained == Spec => []StuckExplained
<1>1. Init => WrittenInv
  BY DEF Init, WrittenInv, Written
<1>2. TypeOK /\ FaithInv /\ WrittenInv /\ [Next]_vars => WrittenInv'
  BY WrittenStep
<1>3. WrittenInv => StuckExplained
  BY DEF WrittenInv, Written, StuckExplained
<1> QED  BY <1>1, <1>2, <1>3, Faith, Typing, PTL DEF Spec

-----------------------------------------------------------------------------
\* How far a search is, for names with a directive to cut.
Position(w) ==
  /\ pc[w] = "open" => n[w] = Len(req[w].segs) /\ ext[w] = req[w].ext
  /\ pc[w] \in {"cut", "fallback"} => req[w].ext # ""
  /\ pc[w] = "cut" /\ n[w] = Len(req[w].segs) => ext[w] = req[w].ext
  /\ pc[w] = "fallback" => n[w] < Len(req[w].segs)

\* The file a name of two segments starts from, in another format.
Base(w, e) == Name(req[w].segs, 1, e)

\* No file of any format the request could start from is stored.
Hopeless(w) == Bases(req[w]) \cap orig = {}

\* With one directive on the name, the first round of fallbacks tries every format
\* of its row.
Tried(w) ==
  Len(req[w].segs) = 2 =>
    /\ pc[w] = "cut" /\ n[w] = 1 /\ fd[w] = None => Hopeless(w)
    /\ pc[w] = "fallback" => /\ row[w] = req[w].ext /\ Base(w, req[w].ext) \notin orig
                             /\ \A i \in 1 .. off[w] - 1 : Base(w, FormatCheck[row[w]][i]) \notin orig

Unstored(w) ==
  status[w] = "404" =>
     /\ req[w] \notin orig
     /\ Len(req[w].segs) = 2 /\ req[w].ext # "" => Hopeless(w)

FoundInv == \A w \in Worker : Position(w) /\ Tried(w) /\ Unstored(w)

\* The variables these depend on.
SearchState(w) == <<pc[w], req[w], n[w], fd[w], ext[w], row[w], off[w], status[w]>>

\* What is hopeless depends on the request only.
LEMMA HopelessKept ==
  ASSUME NEW w \in Worker, req'[w] = req[w], UNCHANGED orig
  PROVE  Hopeless(w)' <=> Hopeless(w)
BY DEF Hopeless, Bases, Name

\* The step of a worker changes no other worker's search.
LEMMA SearchesKept ==
  ASSUME TypeOK, NEW w \in Worker, NEW v \in Worker, v # w,
         Work(w) \/ \E r \in Request : Begin(w, r)
  PROVE  UNCHANGED SearchState(v)
<1>0. /\ UNCHANGED <<pc[v], req[v], n[v], fd[v]>> /\ UNCHANGED <<ext[v], row[v]>>
  BY OthersKept, StacksKept DEF Locals, Stacks
<1>1. off \in [Worker -> Nat] /\ status \in [Worker -> {"none", "200", "404"}]
  BY DEF TypeOK, Typed
<1>2. UNCHANGED off[v]
  BY <1>1 DEF Work, Search, Convert, Serve, search, Begin, OpenExact, MissExact, CutNone,
     CutHit, CutMiss, FallbackHit, FallbackMiss, StatExact, ReadSource, Apply, ApplyEnd,
     WriteBegin, WriteFail, WriteEnd, WriteCut, Reopen, ReopenFail, Send, SendDir
<1>3. UNCHANGED status[v]
  BY <1>1 DEF Work, Search, Convert, Serve, answer, Reply, NotFound, Begin, OpenExact, MissExact,
     CutNone, CutHit, CutMiss, FallbackHit, FallbackMiss, StatExact, ReadSource, Apply, ApplyEnd,
     WriteBegin, WriteFail, WriteEnd, WriteCut, Reopen, ReopenFail, Send, SendDir
<1> QED  BY <1>0, <1>2, <1>3 DEF SearchState

\* The names tried are the bases of the request.
LEMMA AllTried ==
  ASSUME NEW w \in Worker, req[w].ext \in HasRow, Base(w, req[w].ext) \notin orig,
         \A i \in 1 .. Len(FormatCheck[req[w].ext]) :
            Base(w, FormatCheck[req[w].ext][i]) \notin orig
  PROVE  Hopeless(w)
BY DEF Hopeless, Bases, Base

\* A worker's own step.
LEMMA FoundSelf ==
  ASSUME ~Limited, TypeOK, StoredInv, NEW w \in Worker, Progress(w), Missed(w),
         Position(w), Tried(w), Unstored(w), UNCHANGED orig,
         Work(w) \/ \E r \in Request : Begin(w, r)
  PROVE  Position(w)' /\ Tried(w)' /\ Unstored(w)'
<1> USE DEF store, search, answer, env, Goto, SetFd, Reply, NotFound
<1>0. /\ fd \in [Worker -> Names \cup {None}] /\ pc \in [Worker -> PC] /\ n \in [Worker -> Nat]
      /\ req \in [Worker -> Request] /\ ext \in [Worker -> Ext] /\ row \in [Worker -> HasRow]
      /\ off \in [Worker -> Nat] /\ status \in [Worker -> {"none", "200", "404"}]
      /\ n[w] \in 1 .. Len(req[w].segs) /\ off[w] \in 1 .. Len(FormatCheck[row[w]])
      /\ Len(req[w].segs) \in Nat
  BY RequestInNames DEF TypeOK, Typed, InRange
<1>1. \A nm : CanOpen(nm) <=> fs[nm].kind # "absent"
  BY DEF CanOpen, Exhausted
<1>2. \A nm : ~CanOpen(nm) => nm \notin orig
  BY <1>1 DEF StoredInv
<1>3. ASSUME pc'[w] \notin {"open", "cut", "fallback"} PROVE Position(w)' /\ Tried(w)'
  BY <1>3 DEF Position, Tried
<1>4. ASSUME status'[w] # "404" PROVE Unstored(w)'
  BY <1>4 DEF Unstored
<1>5. ASSUME UNCHANGED <<status, req>> PROVE Unstored(w)'
  BY <1>5, HopelessKept DEF Unstored
<1>6. ASSUME NEW r \in Request, Begin(w, r)
      PROVE  Position(w)' /\ Tried(w)' /\ Unstored(w)'
  <2>1. /\ pc'[w] = "open" /\ req'[w] = r /\ n'[w] = Len(r.segs) /\ ext'[w] = r.ext
        /\ status'[w] = "none"
    BY <1>0, <1>6 DEF Begin
  <2> QED  BY <1>4, <2>1 DEF Position, Tried
<1>7. CASE OpenExact(w) \/ CutHit(w)
  <2>1. pc'[w] = "opened" /\ UNCHANGED <<status, req>>
    BY <1>0, <1>7 DEF OpenExact, CutHit
  <2> QED  BY <1>3, <1>5, <2>1
<1>8. CASE MissExact(w)
  <2>1. /\ pc[w] = "open" /\ req[w] \notin orig /\ UNCHANGED <<req, n, ext>>
        /\ n[w] = Len(req[w].segs) /\ ext[w] = req[w].ext
    BY <1>2, <1>8 DEF MissExact, Position
  <2>2. CASE ext[w] = ""
    <3>1. pc'[w] = "idle"
      BY <1>0, <1>8, <2>2 DEF MissExact
    <3> QED  BY <1>3, <2>1, <2>2, <3>1 DEF Unstored
  <2>3. CASE ext[w] # ""
    <3>1. pc'[w] = "cut" /\ UNCHANGED status
      BY <1>0, <1>8, <2>3 DEF MissExact
    <3>2. n'[w] = Len(req'[w].segs) /\ 1 # 2
      BY <2>1
    <3> QED  BY <1>5, <2>1, <2>3, <3>1, <3>2 DEF Position, Tried
  <2> QED  BY <2>2, <2>3
<1>9. CASE CutNone(w)
  <2>1. pc[w] = "cut" /\ n[w] = 1 /\ UNCHANGED req /\ req[w] \notin orig
    BY <1>9 DEF CutNone, Missed
  <2>2. pc'[w] \in {"opened", "idle"}
    BY <1>0, <1>9 DEF CutNone
  <2>3. status'[w] = "404" => fd[w] = None \/ UNCHANGED <<status, req>>
    BY <1>9 DEF CutNone
  <2>4. CASE fd[w] = None
    <3>1. Len(req[w].segs) = 2 => Hopeless(w)
      BY <2>1, <2>4 DEF Tried
    <3> QED  BY <1>3, <2>1, <2>2, <3>1, HopelessKept DEF Unstored
  <2> QED  BY <1>3, <1>4, <1>5, <2>2, <2>3, <2>4
<1>10. CASE CutMiss(w)
  <2>1. /\ pc[w] = "cut" /\ n[w] > 1 /\ n'[w] = n[w] - 1 /\ UNCHANGED <<req, ext>>
        /\ Name(req[w].segs, n[w] - 1, ext[w]) \notin orig
        /\ req[w] \notin orig /\ req[w].ext # ""
    BY <1>0, <1>2, <1>10 DEF CutMiss, Push, Missed, Position
  <2>2. Len(req[w].segs) = 2 => ext[w] = req[w].ext /\ Base(w, req[w].ext) \notin orig
    <3> SUFFICES ASSUME Len(req[w].segs) = 2
                 PROVE  ext[w] = req[w].ext /\ Base(w, req[w].ext) \notin orig
      OBVIOUS
    <3>0. n[w] \in 1 .. 2 /\ n[w] > 1
      BY <1>0, <2>1
    <3>1. n[w] = 2 /\ n[w] - 1 = 1 /\ n[w] = Len(req[w].segs)
      BY <3>0
    <3> QED  BY <2>1, <3>1 DEF Position, Base
  <2>3. CASE ext[w] \in HasRow
    <3>1. /\ pc'[w] = "fallback" /\ row'[w] = ext[w] /\ off'[w] = 1 /\ UNCHANGED status
      BY <1>0, <1>10, <2>3 DEF CutMiss
    <3>2. n'[w] < Len(req'[w].segs)
      <4>1. \A a, b \in Nat : a \in 1 .. b => a - 1 < b
        OBVIOUS
      <4> QED  BY <1>0, <2>1, <4>1
    <3>3. Position(w)'
      BY <2>1, <3>1, <3>2 DEF Position
    <3>4. \A i \in 1 .. off'[w] - 1 : FALSE
      BY <3>1
    <3>5. Tried(w)'
      BY <2>1, <2>2, <3>1, <3>4 DEF Tried, Base
    <3> QED  BY <1>5, <2>1, <3>1, <3>3, <3>5
  <2>4. CASE ext[w] \notin HasRow
    <3>1. pc'[w] = "idle"
      BY <1>0, <1>10, <2>4 DEF CutMiss
    <3>2. Len(req[w].segs) = 2 => Hopeless(w)
      BY <2>2, <2>4 DEF Hopeless, Bases, Base
    <3> QED  BY <1>3, <2>1, <3>1, <3>2, HopelessKept DEF Unstored
  <2> QED  BY <2>3, <2>4
<1>11. CASE FallbackHit(w)
  <2>1. /\ pc[w] = "fallback" /\ pc'[w] = "cut" /\ UNCHANGED <<status, req, n>>
        /\ fd'[w] = Probe(w)
    BY <1>0, <1>11 DEF FallbackHit
  <2>2. fd'[w] # None
    BY <2>1, ProbeTyped, NoneAssumption
  <2>3. n[w] < Len(req[w].segs)
    BY <2>1 DEF Position
  <2>4. req[w].ext # ""
    BY <2>1, <1>11 DEF Position, FallbackHit
  <2>5. n'[w] # Len(req'[w].segs)
    BY <1>0, <2>1, <2>3
  <2>6. Position(w)'
    BY <2>1, <2>4, <2>5 DEF Position
  <2>7. Tried(w)'
    BY <2>1, <2>2 DEF Tried
  <2> QED  BY <1>5, <2>1, <2>6, <2>7
<1>12. CASE FallbackMiss(w)
  <2>1. /\ pc[w] = "fallback" /\ UNCHANGED <<status, req, n, row, fd>>
        /\ Probe(w) \notin orig /\ n[w] < Len(req[w].segs)
    BY <1>2, <1>12 DEF FallbackMiss, Position
  <2>2. Len(req[w].segs) = 2 =>
          /\ row[w] = req[w].ext /\ Base(w, req[w].ext) \notin orig
          /\ \A i \in 1 .. off[w] : Base(w, FormatCheck[row[w]][i]) \notin orig
    <3> SUFFICES ASSUME Len(req[w].segs) = 2
                 PROVE  /\ row[w] = req[w].ext /\ Base(w, req[w].ext) \notin orig
                        /\ \A i \in 1 .. off[w] : Base(w, FormatCheck[row[w]][i]) \notin orig
      OBVIOUS
    <3>1. n[w] = 1
      BY <1>0, <2>1
    <3>2. Base(w, FormatCheck[row[w]][off[w]]) \notin orig
      BY <2>1, <3>1 DEF Probe, Base
    <3>3. /\ row[w] = req[w].ext /\ Base(w, req[w].ext) \notin orig
          /\ \A i \in 1 .. off[w] - 1 : Base(w, FormatCheck[row[w]][i]) \notin orig
      BY <2>1 DEF Tried
    <3>4. ASSUME NEW i \in 1 .. off[w]
          PROVE  Base(w, FormatCheck[row[w]][i]) \notin orig
      <4>1. i = off[w] \/ i \in 1 .. off[w] - 1
        BY <1>0
      <4> QED  BY <3>2, <3>3, <4>1
    <3> QED  BY <3>3, <3>4
  <2>3. CASE off[w] < Len(FormatCheck[row[w]])
    <3>1. pc'[w] = "fallback" /\ off'[w] = off[w] + 1
      BY <1>0, <1>12, <2>1, <2>3 DEF FallbackMiss
    <3>2. off'[w] - 1 = off[w]
      BY <1>0, <3>1
    <3> QED  BY <1>5, <2>1, <2>2, <3>1, <3>2 DEF Position, Tried, Base
  <2>4. CASE ~(off[w] < Len(FormatCheck[row[w]]))
    <3>1. pc'[w] = "cut" /\ off[w] = Len(FormatCheck[row[w]])
      BY <1>0, <1>12, <2>4, FormatCheckTyped DEF FallbackMiss
    <3>2. Len(req[w].segs) = 2 => Hopeless(w)
      BY <1>0, <2>2, <3>1, AllTried
    <3>3. req[w].ext # ""
      BY <2>1 DEF Position
    <3>4. n'[w] # Len(req'[w].segs)
      BY <1>0, <2>1
    <3>5. Position(w)'
      BY <2>1, <3>1, <3>3, <3>4 DEF Position
    <3>6. Tried(w)'
      BY <2>1, <3>1, <3>2, HopelessKept DEF Tried
    <3> QED  BY <1>5, <2>1, <3>5, <3>6
  <2> QED  BY <2>3, <2>4
<1>13. CASE Convert(w) \/ StatExact(w) \/ SendDir(w)
  <2>1. UNCHANGED <<status, req>> /\ pc'[w] \notin {"open", "cut", "fallback"}
    BY <1>0, <1>13, FlagAssumption DEF Convert, ReadSource, Apply, ApplyEnd, WriteBegin, WriteFail, WriteEnd,
       WriteCut, Reopen, ReopenFail, StatExact, SendDir
  <2> QED  BY <1>3, <1>5, <2>1
<1>14. CASE Send(w)
  <2>1. status'[w] = "200" /\ pc'[w] = "idle"
    BY <1>0, <1>14 DEF Send
  <2> QED  BY <1>3, <1>4, <2>1
<1> QED
  BY <1>6, <1>7, <1>8, <1>9, <1>10, <1>11, <1>12, <1>13, <1>14 DEF Work, Search, Serve

\* Every step keeps what the searches know.
LEMMA FoundStep ==
  ASSUME ~Limited, TypeOK, FaithInv, StoreInv, FoundInv, [Next]_vars
  PROVE  FoundInv'
<1> SUFFICES ASSUME NEW v \in Worker
             PROVE  Position(v)' /\ Tried(v)' /\ Unstored(v)'
  BY DEF FoundInv
<1>0. /\ StoredInv /\ Missed(v) /\ Progress(v) /\ Position(v) /\ Tried(v) /\ Unstored(v)
      /\ UNCHANGED orig
  BY OrigFixed DEF StoreInv, FaithInv, FoundInv
<1>1. ASSUME UNCHANGED SearchState(v) PROVE Position(v)' /\ Tried(v)' /\ Unstored(v)'
  <2>1. /\ pc'[v] = pc[v] /\ req'[v] = req[v] /\ n'[v] = n[v] /\ fd'[v] = fd[v] /\ ext'[v] = ext[v]
        /\ row'[v] = row[v] /\ off'[v] = off[v] /\ status'[v] = status[v]
        /\ Hopeless(v)' <=> Hopeless(v)
    BY <1>0, <1>1, HopelessKept DEF SearchState
  <2>2. Position(v)' /\ Unstored(v)'
    BY <1>0, <2>1 DEF Position, Unstored
  <2>3. Tried(v)'
    BY <1>0, <2>1 DEF Tried, Base
  <2> QED  BY <2>2, <2>3
<1>2. ASSUME NEW w \in Worker, Work(w) \/ \E r \in Request : Begin(w, r)
      PROVE  Position(v)' /\ Tried(v)' /\ Unstored(v)'
  <2>1. CASE v = w
    BY <1>0, <1>2, <2>1, FoundSelf
  <2>2. CASE v # w
    BY <1>1, <1>2, <2>2, SearchesKept
  <2> QED  BY <2>1, <2>2
<1>3. ASSUME NEW nm \in Source, Replace(nm) PROVE UNCHANGED SearchState(v)
  BY <1>3 DEF Replace, SearchState, search, answer
<1>4. CASE Restart
  BY <1>4 DEF Restart, Position, Tried, Unstored
<1>5. CASE UNCHANGED vars
  BY <1>1, <1>5 DEF vars, SearchState, search, answer
<1> QED  BY <1>1, <1>2, <1>3, <1>4, <1>5 DEF Next

\* A stored image is found: no 404 for its name, nor for its name with a directive,
\* in its own or a fallback format (lines 535-618).
THEOREM StoredIsFound == ASSUME ~Limited PROVE Spec => []FoundServed
<1>1. Init => FoundInv
  BY DEF Init, FoundInv, Position, Tried, Unstored
<1>2. TypeOK /\ FaithInv /\ StoreInv /\ FoundInv /\ [Next]_vars => FoundInv'
  BY FoundStep
<1>3. FoundInv => FoundServed
  BY DEF FoundInv, Unstored, Hopeless, FoundServed
<1> QED  BY <1>1, <1>2, <1>3, Store, Faith, Typing, PTL DEF Spec

-----------------------------------------------------------------------------
\* Sources are whole, and the operator replaces none of them.
Quiet == Condition \subseteq {"good", "dir"} /\ MaxVersion = 0

\* No name that is converted is one that another request may start from.
Flat == \A r, q \in Request : \A k \in 1 .. Len(q.segs) - 1 :
          r.ext # "" => r.segs # SubSeq(q.segs, 1, k)

\* A picture of the first version, undamaged.
Sound(p) == p.kind = "image" => p.ok /\ p.ver = 0

\* Files are sound where no write stopped, and only names with an extension are written.
SoundFiles ==
  \A nm \in Names : /\ Sound(fs[nm]) \/ nm \in spoilt
                    /\ filler[nm] # None \/ nm \in spoilt => nm \in Request /\ nm.ext # ""

\* So are pictures in memory; whoever converts was asked for a name with an extension.
SoundWork(w) ==
  /\ Sound(wand[w]) /\ (pc[w] = "fill" => wand[w].kind = "image")
  /\ pc[w] = "open" => ext[w] = req[w].ext
  /\ pc[w] \in {"cut", "fallback", "apply", "write", "fill"} \/ (pc[w] = "opened" /\ cmds[w] # <<>>)
       => req[w].ext # ""

CleanInv == SoundFiles /\ \A w \in Worker : SoundWork(w)

\* The file a conversion starts from is neither being filled nor spoilt.
LEMMA SourceIsWhole ==
  ASSUME Flat, TypeOK, SoundFiles, NEW w \in Worker, Progress(w), ReadSource(w)
  PROVE  fd[w] \in Names /\ Look(fd[w]) = fs[fd[w]] /\ Sound(fs[fd[w]])
<1>1. /\ fd[w] \in Names /\ fd[w].segs = SubSeq(req[w].segs, 1, n[w])
      /\ n[w] = Len(req[w].segs) - Len(cmds[w]) /\ cmds[w] # <<>>
  BY DEF ReadSource, Progress, Searching, TypeOK, Typed
<1>2. /\ req[w] \in Request /\ n[w] \in 1 .. Len(req[w].segs) /\ cmds[w] \in Seq(Seg)
      /\ Len(req[w].segs) \in Nat
  BY RequestInNames DEF TypeOK, Typed, InRange
<1>3. Len(cmds[w]) \in Nat /\ Len(cmds[w]) # 0
  BY <1>1, <1>2, EmptySeq, LenProperties
<1>4. n[w] \in 1 .. Len(req[w].segs) - 1
  <2>1. \A a, b \in Nat : b # 0 /\ a - b \in 1 .. a => a - b \in 1 .. a - 1
    OBVIOUS
  <2> QED  BY <1>1, <1>2, <1>3, <2>1
<1>5. filler[fd[w]] = None /\ Sound(fs[fd[w]])
  BY <1>1, <1>2, <1>4 DEF Flat, SoundFiles
<1> QED  BY <1>1, <1>5 DEF Look

\* Workers that fill one file fill it with the same picture.
LEMMA SamePicture ==
  ASSUME TypeOK, CleanInv, FaithInv, NEW w \in Worker, WriteBegin(w), NEW v \in Filling(req[w])
  PROVE  wand[v] = wand[w]
<1>1. wand[v] \in File /\ wand[w] \in File
  BY DEF TypeOK, Typed, Filling
<1>2. wand[w].kind = "image" /\ wand[v].kind = "image"
  BY DEF WriteBegin, CanWrite, CleanInv, SoundWork, Filling
<1>3. wand[w].pix = req[w].segs /\ wand[v].pix = req[w].segs
  BY <1>2 DEF WriteBegin, FaithInv, Progress, Filling
<1>4. wand[w].ok /\ wand[v].ok /\ wand[w].ver = 0 /\ wand[v].ver = 0
  BY <1>2 DEF CleanInv, SoundWork, Sound, Filling
<1> QED  BY <1>1, <1>2, <1>3, <1>4 DEF File

\* Another worker's step leaves what this one holds sound.
LEMMA SoundKept ==
  ASSUME NEW v \in Worker, SoundWork(v), UNCHANGED <<Locals(v), ext[v]>>
  PROVE  SoundWork(v)'
BY DEF SoundWork, Sound, Locals

\* A directive applied to a picture leaves it as sound as it was.
LEMMA DirectiveSound ==
  ASSUME NEW p \in File, NEW d, Sound(p)
  PROVE  Sound(Directive(p, d))
BY DEF Sound, Directive, File

\* A worker's own step.
LEMMA SoundSelf ==
  ASSUME Flat, TypeOK, SoundFiles, NEW w \in Worker, Progress(w), SoundWork(w),
         Work(w) \/ \E r \in Request : Begin(w, r)
  PROVE  SoundWork(w)'
<1> USE DEF SoundWork, store, search, answer, env, Goto, SetFd, Reply, NotFound
<1>0. /\ fd \in [Worker -> Names \cup {None}] /\ pc \in [Worker -> PC]
      /\ req \in [Worker -> Request] /\ cmds \in [Worker -> Seq(Seg)]
      /\ wand \in [Worker -> File] /\ ext \in [Worker -> Ext]
  BY DEF TypeOK, Typed
<1>1. ASSUME UNCHANGED <<wand, req>>, pc'[w] \in {"idle", "reopen", "send", "stuck"}
      PROVE  SoundWork(w)'
  BY <1>1 DEF Sound
<1>2. ASSUME UNCHANGED <<wand, req>>, req[w].ext # "", pc'[w] \notin {"open", "fill"}
      PROVE  SoundWork(w)'
  BY <1>2 DEF Sound
<1>3. CASE \E r \in Request : Begin(w, r)
  BY <1>0, <1>3 DEF Begin, Sound, NoFile
<1>4. CASE OpenExact(w)
  <2>1. pc'[w] = "opened" /\ UNCHANGED <<cmds, wand, req>> /\ cmds[w] = <<>>
    BY <1>0, <1>4 DEF OpenExact, Progress
  <2> QED  BY <2>1 DEF Sound
<1>5. CASE MissExact(w)
  <2>1. UNCHANGED <<wand, req>> /\ (pc'[w] = "idle" \/ (pc'[w] = "cut" /\ ext[w] # ""))
    BY <1>0, <1>5 DEF MissExact
  <2>2. ASSUME pc'[w] = "cut" PROVE req[w].ext # ""
    BY <2>1, <2>2, <1>5 DEF MissExact
  <2> QED  BY <1>1, <1>2, <2>1, <2>2
<1>6. CASE CutNone(w) \/ CutHit(w) \/ CutMiss(w) \/ FallbackHit(w) \/ FallbackMiss(w)
  <2>1. /\ pc[w] \in {"cut", "fallback"} /\ UNCHANGED <<wand, req>>
        /\ pc'[w] \in {"idle", "cut", "fallback", "opened"}
    BY <1>0, <1>6 DEF CutNone, CutHit, CutMiss, FallbackHit, FallbackMiss
  <2> QED  BY <1>2, <2>1
<1>7. CASE \/ StatExact(w) \/ Send(w) \/ SendDir(w) \/ WriteFail(w) \/ WriteEnd(w)
           \/ WriteCut(w) \/ Reopen(w) \/ ReopenFail(w)
  <2>1. UNCHANGED <<wand, req>> /\ pc'[w] \in {"idle", "reopen", "send", "stuck"}
    BY <1>0, <1>7 DEF StatExact, Send, SendDir, WriteFail, WriteEnd, WriteCut, Reopen, ReopenFail
  <2> QED  BY <1>1, <2>1
<1>8. CASE ReadSource(w)
  <2>1. /\ pc'[w] = "apply" /\ UNCHANGED req /\ req[w].ext # ""
    BY <1>0, <1>8 DEF ReadSource
  <2>2. PICK p \in Decode(fs[fd[w]]) : wand'[w] = p
    BY <1>0, <1>8, SourceIsWhole DEF ReadSource
  <2>3. Sound(fs[fd[w]]) /\ Sound(NoFile)
    BY <1>8, SourceIsWhole DEF Sound, NoFile
  <2>4. p = fs[fd[w]] \/ p = NoFile
    BY <2>2 DEF Decode
  <2> QED  BY <2>1, <2>2, <2>3, <2>4 DEF Sound
<1>9. CASE Apply(w)
  <2>1. pc'[w] = "apply" /\ UNCHANGED req /\ req[w].ext # ""
    BY <1>0, <1>9 DEF Apply
  <2>2. wand'[w] = Directive(wand[w], cmds[w][Len(cmds[w])])
    BY <1>0, <1>9 DEF Apply
  <2>3. Sound(wand[w]) /\ wand[w] \in File
    BY <1>0
  <2>4. Sound(wand'[w])
    BY <2>2, <2>3, DirectiveSound
  <2> QED  BY <2>1, <2>4 DEF Sound
<1>10. CASE ApplyEnd(w)
  <2>1. /\ UNCHANGED <<wand, req>> /\ req[w].ext # "" /\ pc'[w] \in {"write", "reopen"}
    BY <1>0, <1>10 DEF ApplyEnd
  <2> QED  BY <1>2, <2>1
<1>11. CASE WriteBegin(w)
  <2>1. /\ UNCHANGED <<wand, req>> /\ req[w].ext # "" /\ wand[w].kind = "image"
        /\ pc'[w] = "fill"
    BY <1>0, <1>11 DEF WriteBegin, CanWrite
  <2> QED  BY <2>1 DEF Sound
<1> QED
  BY <1>3, <1>4, <1>5, <1>6, <1>7, <1>8, <1>9, <1>10, <1>11 DEF Work, Search, Convert, Serve

\* Steps of the directory.
LEMMA SoundFilesStep ==
  ASSUME Quiet, TypeOK, CleanInv, FaithInv, [Next]_vars
  PROVE  SoundFiles'
<1>0. /\ fs \in [Names -> File] /\ filler \in [Names -> Worker \cup {None}]
      /\ req \in [Worker -> Request] /\ wand \in [Worker -> File] /\ SoundFiles
  BY DEF TypeOK, Typed, CleanInv
<1>1. ASSUME NEW w \in Worker, WriteBegin(w) PROVE SoundFiles'
  <2>1. /\ wand[w].kind = "image" /\ Sound(wand[w]) /\ req[w].ext # "" /\ req[w] \in Request
    BY <1>0, <1>1 DEF WriteBegin, CanWrite, CleanInv, SoundWork
  <2>2. \A v \in Filling(req[w]) : wand[v] = wand[w]
    BY <1>1, SamePicture
  <2>3. fs' = [fs EXCEPT ![req[w]] = [wand[w] EXCEPT !.ok = @ /\ TRUE]]
    BY <1>1, <2>2 DEF WriteBegin
  <2>4. [wand[w] EXCEPT !.ok = @ /\ TRUE] = wand[w]
    BY <1>0, <2>1 DEF File, Sound
  <2>5. fs' = [fs EXCEPT ![req[w]] = wand[w]]
    BY <2>3, <2>4
  <2>6. \A nm \in Names : Sound(fs'[nm]) \/ nm \in spoilt
    BY <1>0, <2>1, <2>5 DEF SoundFiles
  <2>7. filler' = [filler EXCEPT ![req[w]] = w] /\ spoilt' = spoilt
    BY <1>1 DEF WriteBegin, env
  <2> QED  BY <1>0, <2>1, <2>6, <2>7 DEF SoundFiles, Sound
<1>2. ASSUME NEW w \in Worker, WriteEnd(w) PROVE SoundFiles'
  BY <1>0, <1>2 DEF WriteEnd, SoundFiles, Sound, env
<1>6. ASSUME NEW w \in Worker, WriteCut(w) PROVE SoundFiles'
  <2>1. req[w] \in Request /\ req[w] \in Names /\ req[w].ext # ""
    BY <1>0, <1>6, RequestInNames DEF WriteCut, CleanInv, SoundWork
  <2>2. /\ spoilt' = spoilt \cup {req[w]}
        /\ \A nm \in Names : nm # req[w] => fs'[nm] = fs[nm] /\ filler'[nm] = filler[nm]
    BY <1>0, <1>6 DEF WriteCut
  <2> QED  BY <1>0, <2>1, <2>2 DEF SoundFiles, Sound
<1>3. ASSUME NEW m \in Source, Replace(m) PROVE FALSE
  BY <1>0, <1>3, SourceAssumption DEF Replace, Quiet, File
<1>4. CASE Restart
  <2>1. /\ spoilt' = spoilt \cup {nm \in Names : filler[nm] # None}
        /\ filler' = [nm \in Names |-> None] /\ fs' = [nm \in Names |-> Look(nm)]
    BY <1>4 DEF Restart
  <2>2. ASSUME NEW nm \in Names
        PROVE  /\ Sound(fs'[nm]) \/ nm \in spoilt'
               /\ filler'[nm] # None \/ nm \in spoilt' => nm \in Request /\ nm.ext # ""
    BY <1>0, <2>1 DEF SoundFiles, Look
  <2> QED  BY <2>2 DEF SoundFiles, Sound
<1>5. ASSUME UNCHANGED <<store, spoilt>> PROVE SoundFiles'
  BY <1>0, <1>5 DEF store, SoundFiles, Sound
<1> QED
  BY <1>1, <1>2, <1>3, <1>4, <1>5, <1>6 DEF Next, Work, Search, Convert, Serve, vars, Begin,
     OpenExact, MissExact, CutNone, CutHit, CutMiss, FallbackHit, FallbackMiss, StatExact,
     ReadSource, Apply, ApplyEnd, WriteFail, Reopen, ReopenFail, Send, SendDir, env

\* At first the directory is as clean as its sources.
LEMMA CleanInit == ASSUME Quiet, Init PROVE CleanInv
<1>1. SoundFiles
  <2>1. PICK c \in [orig -> Condition] :
          fs = [nm \in Names |-> IF nm \in orig THEN Stored(nm, c[nm]) ELSE NoFile]
    BY DEF Init
  <2>2. filler = [nm \in Names |-> None]
    BY DEF Init
  <2>3. \A nm \in Names : Sound(fs[nm])
    BY <2>1 DEF Sound, Stored, NoFile, Quiet
  <2>4. spoilt = {}
    BY DEF Init
  <2> QED  BY <2>2, <2>3, <2>4 DEF SoundFiles
<1> QED  BY <1>1 DEF Init, CleanInv, SoundWork, Sound, NoFile

\* Every step keeps it so.
LEMMA CleanStep ==
  ASSUME Quiet, Flat, TypeOK, FaithInv, CleanInv, [Next]_vars
  PROVE  CleanInv'
<1>1. SoundFiles'
  BY SoundFilesStep
<1>2. ASSUME NEW v \in Worker PROVE SoundWork(v)'
  <2>0. SoundFiles /\ SoundWork(v) /\ Progress(v)
    BY DEF CleanInv, FaithInv
  <2>1. ASSUME NEW w \in Worker, Work(w) \/ \E r \in Request : Begin(w, r) PROVE SoundWork(v)'
    <3>1. CASE v = w
      BY <2>0, <2>1, <3>1, SoundSelf
    <3>2. CASE v # w
      BY <2>0, <2>1, <3>2, OthersKept, StacksKept, SoundKept DEF Stacks
    <3> QED  BY <3>1, <3>2
  <2>2. ASSUME NEW nm \in Source, Replace(nm) PROVE SoundWork(v)'
    BY <2>0, <2>2, SoundKept DEF Replace, Locals, search
  <2>3. CASE Restart
    BY <2>0, <2>3 DEF Restart, SoundWork, Sound, TypeOK, Typed
  <2>4. CASE UNCHANGED vars
    BY <2>0, <2>4, SoundKept DEF vars, Locals, search
  <2> QED  BY <2>1, <2>2, <2>3, <2>4 DEF Next
<1> QED  BY <1>1, <1>2 DEF CleanInv

\* Over whole sources that nobody replaces and without derivatives of derivatives no
\* file is left mixed, though any number of workers fill it at once (line 680), and none
\* is left cut but where a write stopped, at a full disk or in a kill.
THEOREM CacheIsClean == ASSUME Quiet, Flat PROVE Spec => []CleanCache
<1>1. Init => CleanInv
  BY CleanInit
<1>2. TypeOK /\ FaithInv /\ CleanInv /\ [Next]_vars => CleanInv'
  BY CleanStep
<1>3. CleanInv => CleanCache
  BY DEF CleanInv, SoundFiles, Sound, CleanCache
<1> QED  BY <1>1, <1>2, <1>3, Faith, Typing, PTL DEF Spec

-----------------------------------------------------------------------------
\* A picture in memory has the one it was made from beside it.
Derived(w) ==
  pc[w] \in {"apply", "write"} /\ wand[w].kind = "image" =>
    \E base \in Names : Cache!Shorter(base, req[w]) /\ fs[base].kind = "image"

DerivedInv == \A w \in Worker : Derived(w)

\* An image stays an image.
LEMMA ImagesKept ==
  ASSUME TypeOK, [Next]_vars, NEW nm \in Names, fs[nm].kind = "image"
  PROVE  fs'[nm].kind = "image"
<1>0. fs \in [Names -> File] /\ wand \in [Worker -> File] /\ req \in [Worker -> Request]
  BY DEF TypeOK, Typed
<1>1. ASSUME NEW w \in Worker, WriteBegin(w) PROVE fs'[nm].kind = "image"
  BY <1>0, <1>1 DEF WriteBegin, CanWrite, File
<1>2. ASSUME NEW m \in Source, Replace(m) PROVE fs'[nm].kind = "image"
  BY <1>0, <1>2, SourceAssumption DEF Replace, File
<1>3. ASSUME Restart PROVE fs'[nm].kind = "image"
  BY <1>0, <1>3, LookTyped DEF Restart
<1>4. ASSUME NEW w \in Worker, WriteCut(w) PROVE fs'[nm].kind = "image"
  BY <1>0, <1>4 DEF WriteCut, File
<1> QED
  BY ZenonT(40), <1>1, <1>2, <1>3, <1>4 DEF Next, Work, Search, Convert, Serve, vars, store, Begin,
     OpenExact, MissExact, CutNone, CutHit, CutMiss, FallbackHit, FallbackMiss, StatExact,
     ReadSource, Apply, ApplyEnd, WriteFail, WriteEnd, Reopen, ReopenFail, Send, SendDir

\* The file that is read is under a shorter name.
LEMMA SourceIsShorter ==
  ASSUME TypeOK, NEW w \in Worker, Progress(w), ReadSource(w)
  PROVE  fd[w] \in Names /\ Cache!Shorter(fd[w], req[w]) /\ Look(fd[w]).kind = fs[fd[w]].kind
<1>1. /\ fd[w] \in Names /\ fd[w].segs = SubSeq(req[w].segs, 1, n[w])
      /\ n[w] = Len(req[w].segs) - Len(cmds[w]) /\ cmds[w] # <<>>
  BY DEF ReadSource, Progress, Searching, TypeOK, Typed
<1>2. /\ req[w] \in Request /\ n[w] \in 1 .. Len(req[w].segs) /\ cmds[w] \in Seq(Seg)
      /\ Len(req[w].segs) \in Nat /\ req[w].segs \in Seq(Seg)
  BY RequestInNames DEF TypeOK, Typed, InRange
<1>3. Len(cmds[w]) \in Nat /\ Len(cmds[w]) # 0
  BY <1>1, <1>2, EmptySeq, LenProperties
<1>4. n[w] < Len(req[w].segs)
  <2>1. \A a, b \in Nat : b # 0 => a - b < a
    OBVIOUS
  <2> QED  BY <1>1, <1>2, <1>3, <2>1
<1>5. Len(fd[w].segs) = n[w]
  BY <1>1, <1>2, SubSeqProperties
<1> QED  BY <1>1, <1>4, <1>5, LookTyped DEF Cache!Shorter

\* What a worker makes has its source beside it, whoever takes the next step.
LEMMA DerivedStep ==
  ASSUME TypeOK, FaithInv, DerivedInv, [Next]_vars
  PROVE  DerivedInv'
<1> SUFFICES ASSUME NEW v \in Worker PROVE Derived(v)'
  BY DEF DerivedInv
<1>0. Derived(v) /\ Progress(v) /\ \A nm \in Names : fs[nm].kind = "image" => fs'[nm].kind = "image"
  BY ImagesKept DEF DerivedInv, FaithInv
<1>1. ASSUME req'[v] = req[v], pc'[v] \in {"apply", "write"} => pc[v] \in {"apply", "write"},
             wand'[v].kind = wand[v].kind
      PROVE  Derived(v)'
  BY <1>0, <1>1 DEF Derived, Cache!Shorter
<1>2. ASSUME UNCHANGED Locals(v) PROVE Derived(v)'
  BY <1>1, <1>2 DEF Locals
<1>3. ASSUME NEW w \in Worker, Work(w) \/ \E r \in Request : Begin(w, r) PROVE Derived(v)'
  <2>1. CASE v # w
    BY <1>2, <1>3, <2>1, OthersKept
  <2>2. CASE v = w
    <3> USE DEF store, search, answer, env, Goto, SetFd, Reply, NotFound
    <3>0. /\ pc \in [Worker -> PC] /\ req \in [Worker -> Request] /\ wand \in [Worker -> File]
      BY DEF TypeOK, Typed
    <3>1. CASE ReadSource(v)
      <4>1. Cache!Shorter(fd[v], req[v]) /\ fd[v] \in Names /\ Look(fd[v]).kind = fs[fd[v]].kind
        BY <1>0, <3>1, SourceIsShorter
      <4>2. PICK p \in Decode(Look(fd[v])) : wand' = [wand EXCEPT ![v] = p]
        BY <3>1 DEF ReadSource
      <4>3. p.kind = "image" => fs[fd[v]].kind = "image"
        BY <4>1, <4>2 DEF Decode, NoFile
      <4>4. wand'[v] = p /\ UNCHANGED <<req, fs>>
        BY <3>0, <3>1, <4>2 DEF ReadSource
      <4> QED  BY <4>1, <4>3, <4>4 DEF Derived, Cache!Shorter
    <3>2. CASE Apply(v)
      <4>1. wand'[v].kind = wand[v].kind
        BY <3>0, <3>2 DEF Apply, Directive, File
      <4> QED  BY <1>1, <3>2, <4>1 DEF Apply
    <3>3. CASE ApplyEnd(v)
      BY <1>1, <3>0, <3>3 DEF ApplyEnd
    <3>4. CASE ~ (ReadSource(v) \/ Apply(v) \/ ApplyEnd(v))
      <4>1. pc'[v] \notin {"apply", "write"}
        BY <1>3, <2>2, <3>0, <3>4 DEF Work, Search, Convert, Serve, Begin, OpenExact, MissExact,
           CutNone, CutHit, CutMiss, FallbackHit, FallbackMiss, StatExact, WriteBegin, WriteFail,
           WriteEnd, WriteCut, Reopen, ReopenFail, Send, SendDir
      <4> QED  BY <4>1 DEF Derived
    <3> QED  BY <3>1, <3>2, <3>3, <3>4
  <2> QED  BY <2>1, <2>2
<1>4. ASSUME NEW nm \in Source, Replace(nm) PROVE Derived(v)'
  BY <1>2, <1>4 DEF Replace, Locals, search
<1>5. CASE Restart
  BY <1>5 DEF Restart, Derived
<1>6. CASE UNCHANGED vars
  BY <1>2, <1>6 DEF vars, Locals, search
<1> QED  BY <1>3, <1>4, <1>5, <1>6 DEF Next

\* What clients see does not change, or for one of them it does.
SameView == UNCHANGED <<orig, Shelf, Want, Got>>

\* The shelf depends on the kinds and the pictures of the files.
LEMMA ShelfKept ==
  ASSUME \A nm \in Names : fs'[nm].kind = fs[nm].kind /\ fs'[nm].pix = fs[nm].pix
  PROVE  UNCHANGED Shelf
BY DEF Shelf

\* A step in the middle of a handler.
LEMMA WantKept ==
  ASSUME UNCHANGED req, \A v \in Worker : pc'[v] = "idle" <=> pc[v] = "idle"
  PROVE  UNCHANGED Want
BY DEF Want

\* The answers of all workers stay.
LEMMA GotKept == ASSUME UNCHANGED answer PROVE UNCHANGED Got
BY DEF Got, answer

\* The end of a handler.
LEMMA WantDone ==
  ASSUME pc \in [Worker -> PC], NEW w \in Worker, UNCHANGED req, Goto(w, "idle")
  PROVE  Want' = [Want EXCEPT ![w] = None]
BY DEF Want, Goto

\* A 404.
LEMMA RefuseStep ==
  ASSUME TypeOK, NEW w \in Worker, pc[w] # "idle", req[w] \notin orig, NotFound(w),
         UNCHANGED <<fs, orig, req>>
  PROVE  Cache!Refuse(w)
<1>0. /\ pc \in [Worker -> PC] /\ req[w] \in Names
      /\ status \in [Worker -> {"none", "200", "404"}] /\ body \in [Worker -> File]
  BY RequestInNames DEF TypeOK, Typed
<1>1. Want[w] = req[w] /\ Want[w] # None
  BY <1>0, NoneAssumption DEF Want
<1>2. Want' = [Want EXCEPT ![w] = None]
  BY <1>0, WantDone DEF NotFound
<1>3. Got' = [Got EXCEPT ![w] = Cache!Refusal]
  <2>1. status' = [status EXCEPT ![w] = "404"] /\ body' = [body EXCEPT ![w] = NoFile]
    BY <1>0 DEF NotFound, Reply
  <2>2. status'[w] = "404" /\ \A v \in Worker : v # w => status'[v] = status[v] /\ body'[v] = body[v]
    BY <1>0, <2>1
  <2> QED  BY <2>2 DEF Got, Cache!Refusal
<1>4. UNCHANGED Shelf
  BY ShelfKept
<1> QED  BY <1>1, <1>2, <1>3, <1>4 DEF Cache!Refuse

\* The end of the search without a file is a refusal of a name that is not stored.
LEMMA GiveUpStep ==
  ASSUME ~Limited, TypeOK, StoreInv, NEW w \in Worker,
         MissExact(w) \/ CutNone(w) \/ CutMiss(w)
  PROVE  Cache!Refuse(w) \/ SameView
<1> USE DEF store, env
<1>0. pc \in [Worker -> PC] /\ req[w] \in Names /\ fs \in [Names -> File]
  BY RequestInNames DEF TypeOK, Typed
<1>1. UNCHANGED <<fs, orig, req>> /\ pc[w] \in {"open", "cut"}
  BY DEF MissExact, CutNone, CutMiss
<1>2. req[w] \notin orig
  <2>1. CASE MissExact(w)
    BY <2>1 DEF MissExact, CanOpen, Exhausted, StoreInv, StoredInv
  <2>2. CASE CutNone(w) \/ CutMiss(w)
    BY <2>2 DEF CutNone, CutMiss, StoreInv, Missed
  <2> QED  BY <2>1, <2>2
<1>3. NotFound(w) \/ (UNCHANGED answer /\ \E p \in PC \ {"idle"} : Goto(w, p))
  <2>1. \A p \in {"cut", "fallback", "opened"} : p \in PC \ {"idle"}
    BY DEF PC
  <2> QED  BY <2>1 DEF MissExact, CutNone, CutMiss
<1>4. CASE NotFound(w)
  BY <1>1, <1>2, <1>4, RefuseStep
<1>5. CASE UNCHANGED answer /\ \E p \in PC \ {"idle"} : Goto(w, p)
  <2>1. UNCHANGED Want
    BY <1>0, <1>1, <1>5, WantKept DEF Goto
  <2> QED  BY <1>1, <1>5, <2>1, GotKept, ShelfKept DEF SameView
<1> QED  BY <1>3, <1>4, <1>5

\* A request.
LEMMA AskStep ==
  ASSUME TypeOK, NEW w \in Worker, NEW r \in Request, Begin(w, r)
  PROVE  Cache!Ask(w)
<1> USE DEF Begin, Goto, Reply, store
<1>0. /\ pc \in [Worker -> PC] /\ req \in [Worker -> Request] /\ r \in Names
      /\ status \in [Worker -> {"none", "200", "404"}] /\ body \in [Worker -> File]
  BY RequestInNames DEF TypeOK, Typed
<1>1. Want[w] = None
  BY DEF Want
<1>2. Want' = [Want EXCEPT ![w] = r]
  BY <1>0 DEF Want
<1>3. Got' = [Got EXCEPT ![w] = Cache!Nothing]
  <2>1. status' = [status EXCEPT ![w] = "none"] /\ body' = [body EXCEPT ![w] = NoFile]
    BY <1>0
  <2>2. status'[w] = "none" /\ \A v \in Worker : v # w => status'[v] = status[v] /\ body'[v] = body[v]
    BY <1>0, <2>1
  <2> QED  BY <2>2 DEF Got, Cache!Nothing
<1> QED  BY <1>0, <1>1, <1>2, <1>3, ShelfKept DEF Cache!Ask

\* A file is written where there was none, or is written once more.
LEMMA BakeStep ==
  ASSUME TypeOK, FaithInv, DerivedInv, NEW w \in Worker, WriteBegin(w)
  PROVE  Cache!Bake(w) \/ SameView
<1> USE DEF WriteBegin, env
<1>0. /\ pc \in [Worker -> PC] /\ req[w] \in Names /\ fs \in [Names -> File] /\ wand[w] \in File
  BY RequestInNames DEF TypeOK, Typed
<1>1. /\ wand[w].kind = "image" /\ wand[w].pix = req[w].segs /\ fs[req[w]].kind # "dir"
      /\ fs[req[w]].kind \in {"absent", "dir", "image"} /\ pc[w] = "write"
  BY <1>0 DEF CanWrite, FaithInv, Progress, File
<1>2. /\ fs'[req[w]].kind = "image" /\ fs'[req[w]].pix = req[w].segs
      /\ \A nm \in Names : nm # req[w] => fs'[nm] = fs[nm]
  BY <1>0, <1>1 DEF File
<1>3. UNCHANGED Want /\ UNCHANGED Got
  <2>1. \A v \in Worker : pc'[v] = "idle" <=> pc[v] = "idle"
    BY <1>0 DEF Goto
  <2> QED  BY <2>1, WantKept, GotKept
<1>4. CASE fs[req[w]].kind = "image"
  <2>1. fs[req[w]].pix = req[w].segs
    BY <1>0, <1>4 DEF FaithInv, Truthful
  <2> QED  BY <1>2, <1>3, <1>4, <2>1, ShelfKept DEF SameView
<1>5. CASE fs[req[w]].kind = "absent"
  <2>1. Want[w] = req[w] /\ Want[w] # None
    BY <1>0, <1>1, NoneAssumption DEF Want
  <2>2. Shelf[req[w]] = Cache!Nothing
    BY <1>0, <1>5 DEF Shelf, Cache!Nothing
  <2>3. PICK base \in Names : Cache!Shorter(base, req[w]) /\ fs[base].kind = "image"
    BY <1>1 DEF DerivedInv, Derived
  <2>4. Shelf[base].kind = "image"
    BY <2>3 DEF Shelf
  <2>5. Shelf' = [Shelf EXCEPT ![req[w]] = Cache!Picture(req[w])]
    BY <1>0, <1>2 DEF Shelf, Cache!Picture
  <2> QED  BY <1>3, <2>1, <2>2, <2>3, <2>4, <2>5 DEF Cache!Bake
<1> QED  BY <1>1, <1>4, <1>5

\* A file is sent.
LEMMA ShowStep ==
  ASSUME TypeOK, FaithInv, NEW w \in Worker, Send(w)
  PROVE  Cache!Show(w)
<1> USE DEF Send, store, env, Reply
<1>0. /\ pc \in [Worker -> PC] /\ req[w] \in Names /\ fs \in [Names -> File]
      /\ status \in [Worker -> {"none", "200", "404"}] /\ body \in [Worker -> File]
  BY RequestInNames DEF TypeOK, Typed
<1>1. fd[w] = req[w] /\ fs[req[w]].kind # "absent"
  BY DEF FaithInv, Progress, OnFile
<1>2. fs[req[w]].kind = "image" /\ fs[req[w]].pix = req[w].segs
  BY <1>0, <1>1 DEF FaithInv, Truthful, File
<1>3. /\ Look(req[w]) \in File /\ Look(req[w]).kind = "image" /\ Look(req[w]).pix = req[w].segs
  BY <1>0, <1>2, LookTyped
<1>4. Want[w] = req[w] /\ Want[w] # None
  BY <1>0, NoneAssumption DEF Want
<1>5. Shelf[req[w]] = Cache!Picture(req[w])
  BY <1>0, <1>2 DEF Shelf, Cache!Picture
<1>6. Want' = [Want EXCEPT ![w] = None]
  BY <1>0, WantDone
<1>7. /\ body' = [body EXCEPT ![w] = body'[w]] /\ body'[w].kind = "image"
      /\ body'[w].pix = req[w].segs /\ status' = [status EXCEPT ![w] = "200"]
  BY <1>0, <1>1, <1>3 DEF File
<1>8. Got' = [Got EXCEPT ![w] = Cache!Picture(req[w])]
  BY <1>0, <1>7 DEF Got, Cache!Picture
<1> QED  BY <1>4, <1>5, <1>6, <1>8, ShelfKept DEF Cache!Show

\* The other steps of a handler are its own affair.
LEMMA InnerStep ==
  ASSUME TypeOK, NEW w \in Worker,
         \/ OpenExact(w) \/ CutHit(w) \/ FallbackHit(w) \/ FallbackMiss(w) \/ StatExact(w)
         \/ ReadSource(w) \/ Apply(w) \/ ApplyEnd(w) \/ WriteFail(w) \/ WriteEnd(w) \/ WriteCut(w)
         \/ Reopen(w) \/ ReopenFail(w) \/ SendDir(w)
  PROVE  SameView
<1> USE DEF store, env, search, Goto
<1>0. pc \in [Worker -> PC] /\ fs \in [Names -> File]
  BY DEF TypeOK, Typed
<1>1. UNCHANGED <<orig, req, answer>>
  BY DEF OpenExact, CutHit, FallbackHit, FallbackMiss, StatExact, ReadSource, Apply, ApplyEnd,
     WriteFail, WriteEnd, WriteCut, Reopen, ReopenFail, SendDir
<1>4. \A nm \in Names : fs'[nm].kind = fs[nm].kind /\ fs'[nm].pix = fs[nm].pix
  <2>1. CASE WriteCut(w)
    BY <1>0, <2>1 DEF WriteCut, File
  <2>2. CASE ~WriteCut(w)
    <3>1. UNCHANGED fs
      BY <2>2 DEF OpenExact, CutHit, FallbackHit, FallbackMiss, StatExact, ReadSource, Apply,
         ApplyEnd, WriteFail, WriteEnd, Reopen, ReopenFail, SendDir
    <3> QED  BY <3>1
  <2> QED  BY <2>1, <2>2
<1>2. pc[w] # "idle" /\ (UNCHANGED pc \/ \E p \in PC \ {"idle"} : pc' = [pc EXCEPT ![w] = p])
  BY DEF OpenExact, CutHit, FallbackHit, FallbackMiss, StatExact, ReadSource, Apply, ApplyEnd,
     WriteFail, WriteEnd, WriteCut, Reopen, ReopenFail, SendDir, PC
<1>3. UNCHANGED Want
  BY <1>0, <1>1, <1>2, WantKept
<1> QED  BY <1>1, <1>3, <1>4, GotKept, ShelfKept DEF SameView

\* Each step of the server is a step of the cache, or clients see nothing of it.
LEMMA CacheStep ==
  ASSUME ~Limited, TypeOK, FaithInv, StoreInv, DerivedInv, [Next]_vars
  PROVE  [Cache!Next]_(Cache!vars)
<1>1. SameView => UNCHANGED Cache!vars
  BY DEF SameView, Cache!vars
<1>2. ASSUME NEW w \in Worker, NEW r \in Request, Begin(w, r) PROVE Cache!Next
  BY <1>2, AskStep DEF Cache!Next
<1>3. ASSUME NEW w \in Worker, MissExact(w) \/ CutNone(w) \/ CutMiss(w)
      PROVE  Cache!Next \/ SameView
  BY <1>3, GiveUpStep DEF Cache!Next
<1>4. ASSUME NEW w \in Worker, WriteBegin(w) PROVE Cache!Next \/ SameView
  BY <1>4, BakeStep DEF Cache!Next
<1>5. ASSUME NEW w \in Worker, Send(w) PROVE Cache!Next
  BY <1>5, ShowStep DEF Cache!Next
<1>6. ASSUME NEW w \in Worker, Work(w),
             ~ (MissExact(w) \/ CutNone(w) \/ CutMiss(w) \/ WriteBegin(w) \/ Send(w))
      PROVE  SameView
  BY <1>6, InnerStep DEF Work, Search, Convert, Serve
<1>7. ASSUME NEW m \in Source, Replace(m) PROVE SameView
  <2>1. \A nm \in Names : fs'[nm].kind = fs[nm].kind /\ fs'[nm].pix = fs[nm].pix
    BY <1>7, SourceAssumption DEF Replace, TypeOK, Typed, File
  <2>2. UNCHANGED <<orig, pc, req, answer>>
    BY <1>7 DEF Replace, env
  <2> QED  BY <2>1, <2>2, ShelfKept, WantKept, GotKept DEF SameView
<1>8. CASE Restart
  <2>1. UNCHANGED orig /\ \A nm \in Names : fs'[nm].kind = fs[nm].kind /\ fs'[nm].pix = fs[nm].pix
    BY <1>8, LookTyped DEF Restart
  <2>2. Want' = [w \in Worker |-> None] /\ Got' = [w \in Worker |-> Cache!Nothing]
    BY <1>8 DEF Restart, Want, Got, Cache!Nothing
  <2>3. Cache!Crash
    BY <2>1, <2>2, ShelfKept DEF Cache!Crash
  <2> QED  BY <2>3 DEF Cache!Next
<1>9. CASE UNCHANGED vars
  <2>1. UNCHANGED fs /\ UNCHANGED orig /\ UNCHANGED pc /\ UNCHANGED req /\ UNCHANGED answer
    BY <1>9 DEF vars, store, env
  <2>2. SameView
    BY <2>1, ShelfKept, WantKept, GotKept DEF SameView
  <2> QED  BY <1>1, <2>2
<1> QED
  BY <1>1, <1>2, <1>3, <1>4, <1>5, <1>6, <1>7, <1>8, <1>9 DEF Next

\* At first clients see what was stored.
LEMMA CacheInit == Init => Cache!Init
<1> SUFFICES ASSUME Init PROVE Cache!Init
  OBVIOUS
<1>1. PICK c \in [orig -> Condition] :
        fs = [nm \in Names |-> IF nm \in orig THEN Stored(nm, c[nm]) ELSE NoFile]
  BY DEF Init
<1>2. orig \subseteq Names
  BY SourceAssumption DEF Init
<1>3. ASSUME NEW nm \in orig PROVE Shelf[nm] \in {Cache!Picture(nm), Cache!Folder}
  BY <1>1, <1>2 DEF Shelf, Stored, Cache!Picture, Cache!Folder
<1>4. ASSUME NEW nm \in Names \ orig PROVE Shelf[nm] = Cache!Nothing
  BY <1>1 DEF Shelf, NoFile, Cache!Nothing
<1>5. Want = [w \in Worker |-> None] /\ Got = [w \in Worker |-> Cache!Nothing]
  BY DEF Init, Want, Got, Cache!Nothing
<1>6. DOMAIN Shelf = Names
  BY DEF Shelf
<1> QED  BY <1>2, <1>3, <1>4, <1>5, <1>6 DEF Cache!Init

\* While descriptors last, the server is to its clients a cache that fills itself:
\* however handlers, the operator and kills interleave (show_image, lines 483-708).
THEOREM ServerIsCache == ASSUME ~Limited PROVE Spec => IsCache
<1>1. Init => DerivedInv
  BY DEF Init, DerivedInv, Derived
<1>2. TypeOK /\ FaithInv /\ DerivedInv /\ [Next]_vars => DerivedInv'
  BY DerivedStep
<1>3. TypeOK /\ FaithInv /\ StoreInv /\ DerivedInv /\ [Next]_vars => [Cache!Next]_(Cache!vars)
  BY CacheStep
<1>4. Init => Cache!Init
  BY CacheInit
<1> QED  BY <1>1, <1>2, <1>3, <1>4, Store, Faith, Typing, PTL DEF Spec, IsCache, Cache!Spec
=============================================================================
