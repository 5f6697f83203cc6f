------------------------------ MODULE NotFound ------------------------------
(***************************************************************************)
(* do404 of C/apophnia.c: the answer to a name that leads to no file.  The *)
(* image to send is loaded by the first request that needs it, into two    *)
(* static variables, buffer and len, that all workers read and write       *)
(* without a lock.  An action reads or writes one of them at most once in  *)
(* each role: the makefile asks for no optimisation.  Sizes are counted in *)
(* reads of BUFSIZE bytes.  The image may be rewritten while the server    *)
(* runs; nothing in the loop that reads it looks at the size of the malloc.*)
(***************************************************************************)
EXTENDS Naturals, Sequences, FiniteSets

CONSTANTS
  Worker,       \* mongoose's worker threads
  Sizes,        \* what the image may measure, in reads it takes to load it
  Images,       \* what the option "404" may name, a subset of Kinds
  MaxChanges,   \* bound: rewrites of the image
  MaxFailures,  \* bound: opens that fail for want of descriptors
  MaxRequests   \* bound: requests answered

Kinds == {"file", "dir", "absent"}

ASSUME SizesAssumption  == Sizes \subseteq Nat
ASSUME ImageAssumption  == Images \subseteq Kinds
ASSUME WorkerAssumption == IsFiniteSet(Worker)

VARIABLES
  image,       \* what "404" names
  size,        \* how much of it there is
  changes,     \* rewrites of it so far
  moved,       \* was it rewritten while a request was loading it?
  buffer,      \* the static pointer: 0, or the number of a malloc, always the last
  len,         \* the static length
  room,        \* per malloc, in order: its size
  filled,      \* per malloc: the parts of the image written to it, from 1 on
  pc,
  ptr, at,     \* per worker: the malloc ptr points into, and how far
  announced,   \* Content-Length of the last answer; 0 is no such header
  sent,        \* how much of a body followed it
  asked,       \* requests so far
  failures     \* opens of a file that failed

file == <<image, size, changes, moved>>
heap == <<room, filled>>
vars == <<file, buffer, len, heap, pc, ptr, at, announced, sent, asked, failures>>

PC == {"idle", "check", "open", "size", "alloc", "take", "read", "spin", "length", "write"}

Loading == {w \in Worker : pc[w] \in {"open", "size", "alloc", "take", "read", "spin"}}

Init == /\ image \in Images /\ size \in Sizes /\ changes = 0 /\ moved = FALSE
        /\ buffer = 0 /\ len = 0 /\ room = <<>> /\ filled = <<>>
        /\ pc = [w \in Worker |-> "idle"]
        /\ ptr = [w \in Worker |-> 0] /\ at = [w \in Worker |-> 1]
        /\ announced = [w \in Worker |-> 0] /\ sent = [w \in Worker |-> 0]
        /\ asked = 0 /\ failures = 0

Goto(w, label) == pc' = [pc EXCEPT ![w] = label]

-----------------------------------------------------------------------------
\* The operator writes another image to the file.
Change ==
  /\ image = "file" /\ changes < MaxChanges
  /\ size' \in Sizes /\ changes' = changes + 1
  /\ moved' = (moved \/ Loading # {})
  /\ UNCHANGED <<image, buffer, len, heap, pc, ptr, at, announced, sent, asked, failures>>

Begin(w) ==
  /\ pc[w] = "idle" /\ asked < MaxRequests
  /\ asked' = asked + 1 /\ Goto(w, "check")
  /\ UNCHANGED <<file, buffer, len, heap, ptr, at, announced, sent, failures>>

\* Mutants of Check: it is left out; it looks at the length.
Check_Never(w) ==
  /\ pc[w] = "check" /\ Goto(w, "open")
  /\ UNCHANGED <<file, buffer, len, heap, ptr, at, announced, sent, asked, failures>>

Check_Length(w) ==
  /\ pc[w] = "check" /\ Goto(w, IF len = 0 THEN "open" ELSE "length")
  /\ UNCHANGED <<file, buffer, len, heap, ptr, at, announced, sent, asked, failures>>

\* Is the image loaded already?  (badfile_fd is an array and so never null.)
Check(w) ==
  /\ pc[w] = "check" /\ Goto(w, IF buffer = 0 THEN "open" ELSE "length")
  /\ UNCHANGED <<file, buffer, len, heap, ptr, at, announced, sent, asked, failures>>

Open(w) ==
  /\ pc[w] = "open" /\ image # "absent" /\ Goto(w, "size")
  /\ UNCHANGED <<file, buffer, len, heap, ptr, at, announced, sent, asked, failures>>

OpenFails(w) ==
  /\ pc[w] = "open" /\ Goto(w, "length")
  /\ \/ image = "absent" /\ UNCHANGED failures
     \/ image # "absent" /\ failures < MaxFailures /\ failures' = failures + 1
  /\ UNCHANGED <<file, buffer, len, heap, ptr, at, announced, sent, asked>>

\* len is set before there is a buffer, and the buffer before it is filled.
SetLen(w) ==
  /\ pc[w] = "size" /\ len' = size /\ Goto(w, "alloc")
  /\ UNCHANGED <<file, buffer, heap, ptr, at, announced, sent, asked, failures>>

\* Mutant of Alloc: room for one read.
Alloc_Block(w) ==
  /\ pc[w] = "alloc" /\ buffer' = buffer + 1
  /\ room' = Append(room, 1) /\ filled' = Append(filled, {})
  /\ Goto(w, "take")
  /\ UNCHANGED <<file, len, ptr, at, announced, sent, asked, failures>>

\* A block of the length another worker may have set meanwhile; malloc(0) is a block too.
Alloc(w) ==
  /\ pc[w] = "alloc" /\ buffer' = buffer + 1
  /\ room' = Append(room, len) /\ filled' = Append(filled, {})
  /\ Goto(w, "take")
  /\ UNCHANGED <<file, len, ptr, at, announced, sent, asked, failures>>

\* ptr = buffer, which another worker may have set meanwhile.
Take(w) ==
  /\ pc[w] = "take"
  /\ ptr' = [ptr EXCEPT ![w] = buffer] /\ at' = [at EXCEPT ![w] = 1]
  /\ Goto(w, "read")
  /\ UNCHANGED <<file, buffer, len, heap, announced, sent, asked, failures>>

\* Mutant of Read: it is not in a loop.
Read_Once(w) ==
  /\ pc[w] = "read" /\ image = "file"
  /\ filled' = [filled EXCEPT ![ptr[w]] = @ \cup {at[w]}]
  /\ Goto(w, "length")
  /\ UNCHANGED <<file, buffer, len, room, ptr, at, announced, sent, asked, failures>>

\* The file is read to where it ends now, whatever room there is.
Read(w) ==
  /\ pc[w] = "read" /\ image = "file" /\ at[w] <= size
  /\ filled' = [filled EXCEPT ![ptr[w]] = @ \cup {at[w]}]
  /\ at' = [at EXCEPT ![w] = @ + 1]
  /\ UNCHANGED <<file, buffer, len, room, pc, ptr, announced, sent, asked, failures>>

\* Mutant of ReadEnd: end of file does not end the loop.
ReadEnd_Endless(w) ==
  /\ pc[w] = "read" /\ image = "file" /\ at[w] > size /\ Goto(w, "spin")
  /\ UNCHANGED <<file, buffer, len, heap, ptr, at, announced, sent, asked, failures>>

ReadEnd(w) ==
  /\ pc[w] = "read" /\ image = "file" /\ at[w] > size /\ Goto(w, "length")
  /\ UNCHANGED <<file, buffer, len, heap, ptr, at, announced, sent, asked, failures>>

\* A directory opens, but read returns -1 and never 0.
ReadDir(w) ==
  /\ pc[w] = "read" /\ image = "dir" /\ Goto(w, "spin")
  /\ UNCHANGED <<file, buffer, len, heap, ptr, at, announced, sent, asked, failures>>

SendHeaders(w) ==
  /\ pc[w] = "length"
  /\ announced' = [announced EXCEPT ![w] = len]
  /\ Goto(w, "write")
  /\ UNCHANGED <<file, buffer, len, heap, ptr, at, sent, asked, failures>>

\* mg_write of what buffer points to now; without a buffer the send fails.
SendBody(w) ==
  /\ pc[w] = "write"
  /\ sent' = [sent EXCEPT ![w] = IF buffer = 0 THEN 0 ELSE len]
  /\ Goto(w, "idle")
  /\ UNCHANGED <<file, buffer, len, heap, ptr, at, announced, asked, failures>>

Load(w) == \/ Open(w) \/ OpenFails(w) \/ SetLen(w) \/ Alloc(w) \/ Take(w)
           \/ Read(w) \/ ReadEnd(w) \/ ReadDir(w)

Work(w) == Check(w) \/ Load(w) \/ SendHeaders(w) \/ SendBody(w)

Next == Change \/ \E w \in Worker : Begin(w) \/ Work(w)

Spec == Init /\ [][Next]_vars

\* The threads are scheduled.
FairSpec == Spec /\ \A w \in Worker : WF_vars(Work(w))

-----------------------------------------------------------------------------
\* Types; a write through a null pointer is a type error.
TypeOK ==
  /\ image \in Kinds /\ size \in Nat /\ changes \in Nat /\ moved \in BOOLEAN
  /\ buffer \in Nat /\ len \in Nat
  /\ room \in Seq(Nat) /\ Len(room) = buffer
  /\ filled \in Seq(SUBSET Nat) /\ Len(filled) = buffer
  /\ pc \in [Worker -> PC]
  /\ ptr \in [Worker -> 0 .. buffer] /\ at \in [Worker -> Nat \ {0}]
  /\ announced \in [Worker -> Nat] /\ sent \in [Worker -> Nat]
  /\ asked \in Nat /\ failures \in Nat
  /\ \A w \in Worker : pc[w] = "read" => ptr[w] # 0

\* However many requests race to load the image through the shared buffer and len,
\* each read lands inside a malloc and each body is taken from inside one, unless the
\* image is rewritten in the middle of a load: nothing compares a read with the size
\* that fstat gave (lines 280-294, 308).
InBounds ==
  moved \/ /\ \A a \in 1 .. buffer : filled[a] \subseteq 1 .. room[a]
           /\ \A w \in Worker : pc[w] = "write" /\ buffer # 0 => len <= room[buffer]

\* When the last of the racing requests is done, the buffer everybody uses from then
\* on holds all of the image and len is its size (lines 273-296); the same exception.
Settled ==
  ~moved /\ Loading = {} /\ buffer # 0 =>
    filled[buffer] = 1 .. room[buffer] /\ len = room[buffer]

\* Racing first requests lose memory, at most one buffer for each worker (line 282).
LostBuffers == buffer <= Cardinality(Worker)

\* A body has the length its header announced, although len is read again for
\* each (lines 300-308).  Not so once an open has failed or the image was rewritten
\* in the middle of a load.
Framed ==
  \A w \in Worker : failures = 0 /\ ~moved /\ pc[w] = "idle" => announced[w] = sent[w]

\* Every request is answered, unless the image is a directory.
Answered == \A w \in Worker : pc[w] = "check" ~> pc[w] = "idle" \/ image = "dir"
=============================================================================
