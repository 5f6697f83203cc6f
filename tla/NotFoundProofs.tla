--------------------------- MODULE NotFoundProofs ---------------------------
(***************************************************************************)
(* Proofs about NotFound for any number of workers and requests, and an    *)
(* image of any size: what the race for the first load can and cannot do.  *)
(***************************************************************************)
EXTENDS NotFound, FiniteSetTheorems, SequenceTheorems, TLAPS

\* Workers that may still allocate.
Before == {w \in Worker : pc[w] \in {"open", "size", "alloc"}}

\* Nobody starts to load once there is a buffer.
Counted == buffer + Cardinality(Before) <= Cardinality(Worker)

\* Who loads found an image, and has a buffer from the malloc on.
Found == /\ \A w \in Worker : pc[w] \in {"take", "read", "spin"} => buffer # 0
         /\ image = "absent" => len = 0
         /\ \A w \in Worker : pc[w] \in {"size", "alloc", "take", "read", "spin"} => image # "absent"

\* Unless the file is rewritten under a load, all loads see one size: a load starts
\* only while there is no buffer, so it outlives no other one's end by a new start.
Sized == ~moved =>
  /\ \A w \in Worker : pc[w] = "alloc" => len = size
  /\ buffer # 0 => len = room[buffer]
  /\ buffer # 0 /\ Loading # {} => len = size
  /\ \A w \in Worker : pc[w] = "read" => room[ptr[w]] = size

\* No part lies behind the end of its malloc.
Inside == ~moved => \A a \in 1 .. buffer : filled[a] \subseteq 1 .. room[a]

\* The current buffer is whole, or somebody is filling it from the start.
Filler(w) == \/ pc[w] = "take"
             \/ pc[w] \in {"read", "spin"} /\ ptr[w] = buffer
Prefix    == \A w \in Worker : pc[w] = "read" => 1 .. at[w] - 1 \subseteq filled[ptr[w]]
Progress  == buffer # 0 /\ ~moved =>
               filled[buffer] = 1 .. room[buffer] \/ \E w \in Worker : Filler(w)

\* While no open has failed, who answers without an image knows there is none.
Known == failures = 0 /\ ~moved =>
  \A w \in Worker : /\ pc[w] \in {"length", "write"} => buffer # 0 \/ image = "absent"
                    /\ pc[w] = "write" => announced[w] = len
                    /\ pc[w] \notin {"length", "write"} => announced[w] = sent[w]

IInv == TypeOK /\ Counted /\ Found /\ Sized /\ Inside /\ Prefix /\ Progress /\ Known

-----------------------------------------------------------------------------
\* The name of the image does not change while the server runs, and a step moves
\* one worker at most.
LEMMA OneMoves ==
  ASSUME TypeOK, NEW w \in Worker, Begin(w) \/ Work(w)
  PROVE  /\ UNCHANGED file
         /\ \E l \in PC : pc' = [pc EXCEPT ![w] = l]
         /\ asked' \in {asked, asked + 1} /\ failures' \in {failures, failures + 1}
<1> USE DEF Goto, PC
<1>1. CASE Begin(w) \/ Check(w) \/ Open(w) \/ OpenFails(w) \/ SetLen(w)
  BY <1>1 DEF Begin, Check, Open, OpenFails, SetLen
<1>2. CASE Alloc(w) \/ Take(w) \/ ReadEnd(w) \/ ReadDir(w)
  BY <1>2 DEF Alloc, Take, ReadEnd, ReadDir
<1>3. CASE Read(w)
  <2>1. pc' = [pc EXCEPT ![w] = "read"]
    BY <1>3 DEF Read, TypeOK
  <2> QED
    BY <1>3, <2>1 DEF Read
<1>4. CASE SendHeaders(w) \/ SendBody(w)
  BY <1>4 DEF SendHeaders, SendBody
<1> QED
  BY <1>1, <1>2, <1>3, <1>4 DEF Work, Load

\* Who reads reads into a block, from its start on.
LEMMA Taken ==
  ASSUME TypeOK, NEW w \in Worker, pc[w] = "read"
  PROVE  ptr[w] \in 1 .. buffer /\ at[w] \in Nat \ {0}
<1>1. buffer \in Nat /\ ptr[w] \in 0 .. buffer /\ at[w] \in Nat \ {0}
  BY DEF TypeOK
<1>2. ptr[w] # 0
  BY DEF TypeOK
<1> QED
  BY <1>1, <1>2

\* An interval that grows by one.
LEMMA OneMore ==
  ASSUME NEW n \in Nat \ {0}
  PROVE  1 .. (n + 1) - 1 = (1 .. n - 1) \cup {n}
OBVIOUS

\* What malloc returns is behind all earlier blocks, and they stay as they are.
LEMMA AllocAppends ==
  ASSUME TypeOK, NEW w \in Worker, Alloc(w)
  PROVE  /\ pc[w] = "alloc" /\ pc' = [pc EXCEPT ![w] = "take"] /\ buffer' = buffer + 1
         /\ UNCHANGED <<file, len, ptr, at, announced, sent, asked, failures>>
         /\ room' \in Seq(Nat) /\ Len(room') = buffer'
         /\ filled' \in Seq(SUBSET Nat) /\ Len(filled') = buffer'
         /\ \A a \in 1 .. buffer : room'[a] = room[a] /\ filled'[a] = filled[a]
         /\ room'[buffer'] = len /\ filled'[buffer'] = {}
<1>1. /\ pc[w] = "alloc" /\ pc' = [pc EXCEPT ![w] = "take"] /\ buffer' = buffer + 1
      /\ UNCHANGED <<file, len, ptr, at, announced, sent, asked, failures>>
      /\ room' = Append(room, len) /\ filled' = Append(filled, {})
  BY DEF Alloc, Goto
<1>2. /\ room' \in Seq(Nat) /\ Len(room') = buffer + 1
      /\ \A a \in 1 .. buffer : room'[a] = room[a]
      /\ room'[buffer + 1] = len
  BY <1>1, AppendProperties DEF TypeOK
<1>3. /\ filled' \in Seq(SUBSET Nat) /\ Len(filled') = buffer + 1
      /\ \A a \in 1 .. buffer : filled'[a] = filled[a]
      /\ filled'[buffer + 1] = {}
  <2>1. {} \in SUBSET Nat
    OBVIOUS
  <2> QED
    BY <1>1, <2>1, AppendProperties DEF TypeOK
<1> QED
  BY <1>1, <1>2, <1>3

\* A read adds one part to the block its worker took.
LEMMA ReadAdds ==
  ASSUME TypeOK, NEW w \in Worker, Read(w)
  PROVE  /\ pc[w] = "read" /\ ptr[w] \in 1 .. buffer /\ at[w] \in 1 .. size
         /\ UNCHANGED <<file, buffer, len, room, pc, ptr, announced, sent, asked, failures>>
         /\ at' = [at EXCEPT ![w] = at[w] + 1]
         /\ filled' \in Seq(SUBSET Nat) /\ Len(filled') = buffer
         /\ filled'[ptr[w]] = filled[ptr[w]] \cup {at[w]}
         /\ \A a \in 1 .. buffer : a # ptr[w] => filled'[a] = filled[a]
<1>1. pc[w] = "read" /\ ptr[w] \in 1 .. buffer /\ at[w] \in 1 .. size
  BY DEF Read, TypeOK
<1>2. filled[ptr[w]] \cup {at[w]} \in SUBSET Nat
  BY <1>1, ElementOfSeq DEF TypeOK
<1>3. filled' = [filled EXCEPT ![ptr[w]] = filled[ptr[w]] \cup {at[w]}]
  BY DEF Read
<1>4. /\ filled' \in Seq(SUBSET Nat) /\ Len(filled') = buffer
      /\ filled'[ptr[w]] = filled[ptr[w]] \cup {at[w]}
      /\ \A a \in 1 .. buffer : a # ptr[w] => filled'[a] = filled[a]
  BY <1>1, <1>2, <1>3, ExceptSeq DEF TypeOK
<1> QED
  BY <1>1, <1>4 DEF Read

\* A step of one worker, action by action, keeps every type: no read goes through a
\* null pointer.
LEMMA TypeStep ==
  ASSUME TypeOK, Found, [Next]_vars
  PROVE  TypeOK'
<1> USE DEF TypeOK
<1>1. CASE UNCHANGED vars
  BY <1>1 DEF vars, file, heap
<1>2. CASE Change
  BY <1>2, SizesAssumption DEF Change, heap
<1> SUFFICES ASSUME NEW w \in Worker, Begin(w) \/ Work(w)
             PROVE  TypeOK'
  BY <1>1, <1>2 DEF Next
<1>3. /\ pc' \in [Worker -> PC] /\ asked' \in Nat /\ failures' \in Nat /\ UNCHANGED file
      /\ \A v \in Worker \ {w} : pc'[v] = pc[v]
  <2>1. PICK l \in PC : pc' = [pc EXCEPT ![w] = l]
    BY OneMoves
  <2>2. UNCHANGED file /\ asked' \in {asked, asked + 1} /\ failures' \in {failures, failures + 1}
    BY OneMoves
  <2> QED
    BY <2>1, <2>2
<1>4. CASE Begin(w) \/ Check(w) \/ Open(w) \/ OpenFails(w) \/ ReadEnd(w) \/ ReadDir(w)
  <2>1. UNCHANGED <<buffer, len, heap, ptr, at, announced, sent>>
    BY <1>4 DEF Begin, Check, Open, OpenFails, ReadEnd, ReadDir
  <2>2. pc'[w] # "read"
    BY <1>4 DEF Begin, Check, Open, OpenFails, ReadEnd, ReadDir, Goto
  <2> QED
    BY <1>3, <2>1, <2>2 DEF file, heap
<1>5. CASE SetLen(w)
  BY <1>3, <1>5 DEF SetLen, Goto, file, heap
<1>6. CASE Alloc(w)
  <2>1. /\ room' \in Seq(Nat) /\ Len(room') = buffer'
        /\ filled' \in Seq(SUBSET Nat) /\ Len(filled') = buffer'
        /\ buffer' = buffer + 1 /\ UNCHANGED <<len, ptr, at, announced, sent>> /\ pc'[w] = "take"
    BY <1>6, AllocAppends
  <2>2. ptr' \in [Worker -> 0 .. buffer']
    BY <2>1
  <2> QED
    BY <1>3, <2>1, <2>2 DEF file
<1>7. CASE Take(w)
  <2>1. buffer # 0
    BY <1>7 DEF Take, Found
  <2>2. ptr' \in [Worker -> 0 .. buffer] /\ ptr'[w] = buffer /\ \A v \in Worker \ {w} : ptr'[v] = ptr[v]
    BY <1>7 DEF Take
  <2>3. at' \in [Worker -> Nat \ {0}]
    BY <1>7 DEF Take
  <2>4. UNCHANGED <<buffer, len, heap, announced, sent>>
    BY <1>7 DEF Take
  <2> QED
    BY <1>3, <2>1, <2>2, <2>3, <2>4 DEF file, heap
<1>8. CASE Read(w)
  <2>1. /\ UNCHANGED <<buffer, len, room, ptr, announced, sent, pc>>
        /\ filled' \in Seq(SUBSET Nat) /\ Len(filled') = buffer
    BY <1>8, ReadAdds
  <2>2. at' \in [Worker -> Nat \ {0}]
    <3>1. at' = [at EXCEPT ![w] = at[w] + 1]
      BY <1>8, ReadAdds
    <3> QED
      BY <3>1
  <2> QED
    BY <1>3, <2>1, <2>2 DEF file
<1>9. CASE SendHeaders(w) \/ SendBody(w)
  <2>1. pc'[w] # "read" /\ UNCHANGED <<buffer, len, heap, ptr, at>>
    BY <1>9 DEF SendHeaders, SendBody, Goto
  <2>2. announced' \in [Worker -> Nat] /\ sent' \in [Worker -> Nat]
    BY <1>9 DEF SendHeaders, SendBody
  <2> QED
    BY <1>3, <2>1, <2>2 DEF file, heap
<1> QED
  BY <1>4, <1>5, <1>6, <1>7, <1>8, <1>9 DEF Work, Load

\* Who allocates is no longer counted; who is new to the count saw no buffer.
LEMMA CountedStep ==
  ASSUME TypeOK, TypeOK', Counted, [Next]_vars
  PROVE  Counted'
<1> USE DEF TypeOK
<1>1. IsFiniteSet(Worker) /\ IsFiniteSet(Before) /\ IsFiniteSet(Before')
  BY WorkerAssumption, FS_Subset DEF Before
<1>2. Cardinality(Worker) \in Nat /\ Cardinality(Before) \in Nat /\ Cardinality(Before') \in Nat
  BY <1>1, FS_CardinalityType
<1>3. Cardinality(Before') <= Cardinality(Worker)
  BY <1>1, FS_Subset DEF Before
<1>4. ASSUME Before' \subseteq Before, buffer' = buffer
      PROVE  Counted'
  <2>1. Cardinality(Before') <= Cardinality(Before)
    BY <1>1, <1>4, FS_Subset
  <2> QED
    BY <1>2, <1>4, <2>1 DEF Counted
<1>5. CASE UNCHANGED vars \/ Change
  BY <1>4, <1>5 DEF vars, Change, Before
<1> SUFFICES ASSUME NEW w \in Worker, Begin(w) \/ Work(w)
             PROVE  Counted'
  BY <1>5 DEF Next
<1>6. CASE Check(w)
  <2>1. CASE buffer = 0
    BY <1>2, <1>3, <1>6, <2>1 DEF Check, Counted
  <2>2. CASE buffer # 0
    BY <1>4, <1>6, <2>2 DEF Check, Before, Goto
  <2> QED
    BY <2>1, <2>2
<1>7. CASE Alloc(w)
  <2>1. w \in Before /\ Before' = Before \ {w} /\ buffer' = buffer + 1
    BY <1>7 DEF Alloc, Before, Goto
  <2>2. Cardinality(Before') = Cardinality(Before) - 1
    BY <1>1, <2>1, FS_RemoveElement
  <2> QED
    BY <1>2, <2>1, <2>2 DEF Counted
<1>8. CASE Begin(w) \/ Open(w) \/ OpenFails(w) \/ SetLen(w) \/ Take(w) \/ ReadEnd(w) \/ ReadDir(w)
  <2>1. buffer' = buffer
    BY <1>8 DEF Begin, Open, OpenFails, SetLen, Take, ReadEnd, ReadDir
  <2>2. \E l : pc' = [pc EXCEPT ![w] = l] /\ (l \in {"size", "alloc"} => w \in Before) /\ l # "open"
    BY <1>8 DEF Begin, Open, OpenFails, SetLen, Take, ReadEnd, ReadDir, Goto, Before
  <2>3. Before' \subseteq Before
    BY <2>2 DEF Before
  <2> QED
    BY <1>4, <2>1, <2>3
<1>9. CASE Read(w) \/ SendHeaders(w) \/ SendBody(w)
  <2>1. buffer' = buffer /\ Before' \subseteq Before
    BY <1>9 DEF Read, SendHeaders, SendBody, Goto, Before
  <2> QED
    BY <1>4, <2>1
<1> QED
  BY <1>6, <1>7, <1>8, <1>9 DEF Work, Load

\* A load goes on with what it found.
LEMMA FoundStep ==
  ASSUME TypeOK, TypeOK', Found, [Next]_vars
  PROVE  Found'
<1> USE DEF TypeOK, Found
<1>1. CASE UNCHANGED vars \/ Change
  BY <1>1 DEF vars, file, Change
<1> SUFFICES ASSUME NEW w \in Worker, Begin(w) \/ Work(w)
             PROVE  Found'
  BY <1>1 DEF Next
<1>2. image' = image
  BY OneMoves DEF file
<1>3. CASE Begin(w) \/ Check(w) \/ OpenFails(w) \/ ReadEnd(w)
  <2>1. UNCHANGED <<buffer, len>> /\ \E l \in {"check", "open", "length", "idle"} : pc' = [pc EXCEPT ![w] = l]
    BY <1>3 DEF Begin, Check, OpenFails, ReadEnd, Goto
  <2> QED
    BY <1>2, <2>1
<1>4. CASE Open(w)
  BY <1>2, <1>4 DEF Open, Goto
<1>5. CASE SetLen(w)
  BY <1>2, <1>5 DEF SetLen, Goto
<1>6. CASE Alloc(w)
  BY <1>2, <1>6 DEF Alloc, Goto
<1>7. CASE Take(w) \/ ReadDir(w)
  BY <1>2, <1>7 DEF Take, ReadDir, Goto
<1>8. CASE Read(w)
  BY <1>2, <1>8 DEF Read
<1>9. CASE SendHeaders(w) \/ SendBody(w)
  <2>1. UNCHANGED <<buffer, len>> /\ \E l \in {"write", "idle"} : pc' = [pc EXCEPT ![w] = l]
    BY <1>9 DEF SendHeaders, SendBody, Goto
  <2> QED
    BY <1>2, <2>1
<1> QED
  BY <1>3, <1>4, <1>5, <1>6, <1>7, <1>8, <1>9 DEF Work, Load

\* All loads see one size: who sets len again sets it to what it is.
LEMMA SizedStep ==
  ASSUME TypeOK, TypeOK', Found, Sized, [Next]_vars
  PROVE  Sized'
<1> USE DEF TypeOK, Loading
<1>1. CASE UNCHANGED vars
  BY <1>1 DEF vars, file, heap, Sized
<1>2. CASE Change
  BY <1>2 DEF Change, heap, Sized
<1> SUFFICES ASSUME NEW w \in Worker, Begin(w) \/ Work(w), ~moved'
             PROVE  Sized'
  BY <1>1, <1>2 DEF Next, Sized
<1>3. ~moved /\ size' = size
  BY OneMoves DEF file
<1>4. ASSUME UNCHANGED <<buffer, len, heap, ptr>>, NEW l, pc' = [pc EXCEPT ![w] = l],
             l \notin {"alloc", "read"}, w \in Loading \/ l \notin {"open", "size", "take", "spin"}
      PROVE  Sized'
  <2>1. Loading' # {} => Loading # {}
    BY <1>4
  <2> QED
    BY <1>3, <1>4, <2>1 DEF Sized, heap
<1>5. CASE Begin(w) \/ OpenFails(w) \/ ReadEnd(w) \/ SendHeaders(w) \/ SendBody(w)
  <2>1. UNCHANGED <<buffer, len, heap, ptr>>
    BY <1>5 DEF Begin, OpenFails, ReadEnd, SendHeaders, SendBody
  <2>2. \E l \in {"check", "length", "write", "idle"} : pc' = [pc EXCEPT ![w] = l]
    BY <1>5 DEF Begin, OpenFails, ReadEnd, SendHeaders, SendBody, Goto
  <2> QED
    BY <1>4, <2>1, <2>2
<1>6. CASE Open(w) \/ ReadDir(w)
  BY <1>4, <1>6 DEF Open, ReadDir, Goto
<1>7. CASE Check(w)
  <2>1. CASE buffer = 0
    BY <1>3, <1>7, <2>1 DEF Check, Goto, Sized, heap
  <2>2. CASE buffer # 0
    <3>1. UNCHANGED <<buffer, len, heap, ptr>>
      BY <1>7 DEF Check
    <3>2. \E l \in {"length"} : pc' = [pc EXCEPT ![w] = l]
      BY <1>7, <2>2 DEF Check, Goto
    <3> QED
      BY <1>4, <3>1, <3>2
  <2> QED
    BY <2>1, <2>2
<1>8. CASE SetLen(w)
  <2>1. pc' = [pc EXCEPT ![w] = "alloc"] /\ len' = size /\ UNCHANGED <<buffer, heap, ptr>>
    BY <1>8 DEF SetLen, Goto
  <2>2. w \in Loading
    BY <1>8 DEF SetLen
  <2>3. buffer # 0 => len' = len
    BY <1>3, <2>1, <2>2 DEF Sized
  <2> QED
    BY <1>3, <2>1, <2>3 DEF Sized, heap
<1>9. CASE Alloc(w)
  <2>1. pc[w] = "alloc" /\ pc' = [pc EXCEPT ![w] = "take"] /\ UNCHANGED <<len, ptr>>
    BY <1>9, AllocAppends
  <2>2. buffer' = buffer + 1 /\ room'[buffer'] = len /\ \A a \in 1 .. buffer : room'[a] = room[a]
    BY <1>9, AllocAppends
  <2>3. len = size
    BY <1>3, <2>1 DEF Sized
  <2>4. \A v \in Worker : pc'[v] = "read" => room'[ptr'[v]] = size
    <3>1. SUFFICES ASSUME NEW v \in Worker, pc'[v] = "read"
                   PROVE  room'[ptr'[v]] = size
      OBVIOUS
    <3>2. pc[v] = "read"
      BY <2>1, <3>1
    <3>3. ptr[v] \in 1 .. buffer /\ ptr'[v] = ptr[v]
      BY <2>1, <3>2, Taken
    <3>4. room[ptr[v]] = size
      BY <1>3, <3>2 DEF Sized
    <3> QED
      BY <2>2, <3>3, <3>4
  <2> QED
    BY <1>3, <2>1, <2>2, <2>3, <2>4 DEF Sized
<1>10. CASE Take(w)
  <2>1. /\ pc[w] = "take" /\ pc' = [pc EXCEPT ![w] = "read"] /\ UNCHANGED <<buffer, len, heap>>
        /\ ptr' = [ptr EXCEPT ![w] = buffer]
    BY <1>10 DEF Take, Goto
  <2>2. buffer # 0 /\ w \in Loading
    BY <2>1 DEF Found
  <2>3. len = size /\ room[buffer] = size
    BY <1>3, <2>2 DEF Sized
  <2> QED
    BY <1>3, <2>1, <2>3 DEF Sized, heap
<1>11. CASE Read(w)
  BY <1>3, <1>11 DEF Read, Sized
<1> QED
  BY <1>5, <1>6, <1>7, <1>8, <1>9, <1>10, <1>11 DEF Work, Load

\* A read that stops at the end of the file stops inside the block, for that is as
\* long as the file.
LEMMA InsideStep ==
  ASSUME TypeOK, TypeOK', Sized, Inside, [Next]_vars
  PROVE  Inside'
<1> USE DEF TypeOK, Inside
<1>1. CASE UNCHANGED vars \/ Change
  BY <1>1 DEF vars, file, heap, Change
<1> SUFFICES ASSUME NEW w \in Worker, Begin(w) \/ Work(w), ~moved'
             PROVE  Inside'
  BY <1>1 DEF Next
<1>2. ~moved
  BY OneMoves DEF file
<1>3. CASE Alloc(w)
  <2>1. /\ buffer' = buffer + 1 /\ filled'[buffer'] = {}
        /\ \A a \in 1 .. buffer : room'[a] = room[a] /\ filled'[a] = filled[a]
    BY <1>3, AllocAppends
  <2> SUFFICES ASSUME NEW a \in 1 .. buffer'
               PROVE  filled'[a] \subseteq 1 .. room'[a]
    OBVIOUS
  <2>2. CASE a = buffer'
    BY <2>1, <2>2
  <2>3. CASE a # buffer'
    <3>1. a \in 1 .. buffer
      BY <2>1, <2>3
    <3> QED
      BY <1>2, <2>1, <3>1
  <2> QED
    BY <2>2, <2>3
<1>4. CASE Read(w)
  <2>1. /\ pc[w] = "read" /\ ptr[w] \in 1 .. buffer /\ at[w] \in 1 .. size /\ UNCHANGED <<buffer, room>>
        /\ filled'[ptr[w]] = filled[ptr[w]] \cup {at[w]}
        /\ \A a \in 1 .. buffer : a # ptr[w] => filled'[a] = filled[a]
    BY <1>4, ReadAdds
  <2>2. room[ptr[w]] = size
    BY <1>2, <2>1 DEF Sized
  <2>3. filled'[ptr[w]] \subseteq 1 .. room[ptr[w]]
    BY <1>2, <2>1, <2>2
  <2> QED
    BY <1>2, <2>1, <2>3
<1>5. CASE Begin(w) \/ Check(w) \/ Open(w) \/ OpenFails(w) \/ SetLen(w) \/ Take(w)
  BY <1>2, <1>5 DEF Begin, Check, Open, OpenFails, SetLen, Take, heap
<1>6. CASE ReadEnd(w) \/ ReadDir(w) \/ SendHeaders(w) \/ SendBody(w)
  BY <1>2, <1>6 DEF ReadEnd, ReadDir, SendHeaders, SendBody, heap
<1> QED
  BY <1>3, <1>4, <1>5, <1>6 DEF Work, Load

\* A part once read stays.
LEMMA PrefixStep ==
  ASSUME TypeOK, TypeOK', Prefix, [Next]_vars
  PROVE  Prefix'
<1> USE DEF TypeOK, Prefix
<1>1. CASE UNCHANGED vars \/ Change
  BY <1>1 DEF vars, heap, Change
<1> SUFFICES ASSUME NEW w \in Worker, Begin(w) \/ Work(w)
             PROVE  Prefix'
  BY <1>1 DEF Next
<1>2. ASSUME UNCHANGED <<filled, ptr, at>>, NEW l, pc' = [pc EXCEPT ![w] = l], l # "read"
      PROVE  Prefix'
  BY <1>2
<1>3. CASE Begin(w) \/ Check(w) \/ Open(w) \/ OpenFails(w) \/ SetLen(w)
  <2>1. UNCHANGED <<filled, ptr, at>>
    BY <1>3 DEF Begin, Check, Open, OpenFails, SetLen, heap
  <2>2. \E l \in PC \ {"read"} : pc' = [pc EXCEPT ![w] = l]
    BY <1>3 DEF Begin, Check, Open, OpenFails, SetLen, Goto, PC
  <2> QED
    BY <1>2, <2>1, <2>2
<1>4. CASE ReadEnd(w) \/ ReadDir(w) \/ SendHeaders(w) \/ SendBody(w)
  <2>1. UNCHANGED <<filled, ptr, at>>
    BY <1>4 DEF ReadEnd, ReadDir, SendHeaders, SendBody, heap
  <2>2. \E l \in PC \ {"read"} : pc' = [pc EXCEPT ![w] = l]
    BY <1>4 DEF ReadEnd, ReadDir, SendHeaders, SendBody, Goto, PC
  <2> QED
    BY <1>2, <2>1, <2>2
<1>5. CASE Alloc(w)
  <2>1. /\ pc' = [pc EXCEPT ![w] = "take"] /\ UNCHANGED <<ptr, at>>
        /\ \A a \in 1 .. buffer : filled'[a] = filled[a]
    BY <1>5, AllocAppends
  <2> SUFFICES ASSUME NEW v \in Worker, pc'[v] = "read"
               PROVE  1 .. at'[v] - 1 \subseteq filled'[ptr'[v]]
    OBVIOUS
  <2>2. pc[v] = "read"
    BY <2>1
  <2>3. ptr[v] \in 1 .. buffer
    BY <2>2, Taken
  <2> QED
    BY <2>1, <2>2, <2>3
<1>6. CASE Take(w)
  <2>1. /\ UNCHANGED filled /\ pc' = [pc EXCEPT ![w] = "read"]
        /\ ptr' = [ptr EXCEPT ![w] = buffer] /\ at' = [at EXCEPT ![w] = 1]
    BY <1>6 DEF Take, Goto, heap
  <2>2. \A v \in Worker \ {w} : pc'[v] = pc[v] /\ at'[v] = at[v] /\ ptr'[v] = ptr[v]
    BY <2>1
  <2>3. 1 .. at'[w] - 1 = {}
    BY <2>1
  <2> QED
    BY <2>1, <2>2, <2>3
<1>7. CASE Read(w)
  <2>1. /\ UNCHANGED <<pc, ptr>> /\ at' = [at EXCEPT ![w] = at[w] + 1]
        /\ at[w] \in 1 .. size /\ ptr[w] \in 1 .. buffer /\ pc[w] = "read"
    BY <1>7, ReadAdds
  <2>2. /\ filled'[ptr[w]] = filled[ptr[w]] \cup {at[w]}
        /\ \A a \in 1 .. buffer : filled[a] \subseteq filled'[a]
    BY <1>7, ReadAdds
  <2> SUFFICES ASSUME NEW v \in Worker, pc[v] = "read"
               PROVE  1 .. at'[v] - 1 \subseteq filled'[ptr[v]]
    BY <2>1
  <2>3. 1 .. at[v] - 1 \subseteq filled[ptr[v]] /\ ptr[v] \in 1 .. buffer
    BY Taken
  <2>4. 1 .. at[v] - 1 \subseteq filled'[ptr[v]]
    BY <2>2, <2>3
  <2>5. CASE v # w
    <3>1. at'[v] = at[v]
      BY <2>1, <2>5
    <3> QED
      BY <2>4, <3>1, Zenon
  <2>6. CASE v = w
    <3>1. at'[w] = at[w] + 1
      BY <2>1
    <3>2. 1 .. at'[w] - 1 = (1 .. at[w] - 1) \cup {at[w]}
      BY <2>1, <3>1, Taken, OneMore
    <3> QED
      BY <2>2, <2>3, <2>6, <3>2
  <2> QED
    BY <2>5, <2>6
<1> QED
  BY <1>3, <1>4, <1>5, <1>6, <1>7 DEF Work, Load

\* Who finds the end of the file has filled its block.
LEMMA EndsWhole ==
  ASSUME TypeOK, Sized, Inside, Prefix, ~moved, NEW w \in Worker, ReadEnd(w)
  PROVE  filled[ptr[w]] = 1 .. room[ptr[w]]
<1>1. pc[w] = "read" /\ at[w] \in Nat /\ at[w] > size /\ size \in Nat /\ ptr[w] \in 1 .. buffer
  BY DEF ReadEnd, TypeOK
<1>2. room[ptr[w]] = size
  BY <1>1 DEF Sized
<1>3. filled[ptr[w]] \subseteq 1 .. size
  BY <1>1, <1>2 DEF Inside
<1>4. 1 .. at[w] - 1 \subseteq filled[ptr[w]]
  BY <1>1 DEF Prefix
<1>5. 1 .. size \subseteq 1 .. at[w] - 1
  BY <1>1
<1> QED
  BY <1>2, <1>3, <1>4, <1>5

\* A buffer that is replaced while it is filled has a successor with a filler of its
\* own.
LEMMA ProgressStep ==
  ASSUME TypeOK, TypeOK', Sized, Inside, Inside', Prefix, Progress, [Next]_vars
  PROVE  Progress'
<1> USE DEF TypeOK, Filler
<1>1. CASE UNCHANGED vars
  BY <1>1 DEF vars, file, heap, Progress
<1>2. CASE Change
  <2>1. UNCHANGED <<buffer, heap, pc, ptr>> /\ (~moved' => ~moved)
    BY <1>2 DEF Change
  <2> QED
    BY <2>1 DEF heap, Progress
<1> SUFFICES ASSUME NEW w \in Worker, Begin(w) \/ Work(w), ~moved'
             PROVE  Progress'
  BY <1>1, <1>2 DEF Next, Progress
<1>3. ~moved
  BY OneMoves DEF file
<1>4. ASSUME UNCHANGED <<buffer, room, filled, ptr>>, NEW l, pc' = [pc EXCEPT ![w] = l],
             Filler(w) => Filler(w)' \/ filled[buffer] = 1 .. room[buffer]
      PROVE  Progress'
  <2> SUFFICES ASSUME buffer # 0, filled[buffer] # 1 .. room[buffer]
               PROVE  \E v \in Worker : Filler(v)'
    BY <1>4 DEF Progress
  <2>1. PICK v \in Worker : Filler(v)
    BY <1>3 DEF Progress
  <2> QED
    BY <1>4, <2>1
<1>5. CASE Begin(w) \/ Check(w) \/ Open(w) \/ OpenFails(w) \/ SetLen(w) \/ SendHeaders(w) \/ SendBody(w)
  <2>1. ~Filler(w)
    BY <1>5 DEF Begin, Check, Open, OpenFails, SetLen, SendHeaders, SendBody
  <2>2. UNCHANGED <<buffer, room, filled, ptr>>
    BY <1>5 DEF Begin, Check, Open, OpenFails, SetLen, SendHeaders, SendBody, heap
  <2>3. \E l \in PC : pc' = [pc EXCEPT ![w] = l]
    BY OneMoves
  <2> QED
    BY <1>4, <2>1, <2>2, <2>3
<1>6. CASE Alloc(w)
  <2>1. pc' = [pc EXCEPT ![w] = "take"]
    BY <1>6, AllocAppends
  <2>2. Filler(w)'
    BY <2>1
  <2> QED
    BY <2>2 DEF Progress
<1>7. CASE Take(w)
  <2>1. pc' = [pc EXCEPT ![w] = "read"] /\ ptr' = [ptr EXCEPT ![w] = buffer] /\ UNCHANGED buffer
    BY <1>7 DEF Take, Goto
  <2>2. Filler(w)'
    BY <2>1
  <2> QED
    BY <2>2 DEF Progress
<1>8. CASE Read(w)
  <2>1. /\ UNCHANGED <<buffer, room, pc, ptr>> /\ ptr[w] \in 1 .. buffer
        /\ filled'[ptr[w]] = filled[ptr[w]] \cup {at[w]}
        /\ \A a \in 1 .. buffer : a # ptr[w] => filled'[a] = filled[a]
    BY <1>8, ReadAdds
  <2> SUFFICES ASSUME buffer # 0
               PROVE  filled'[buffer] = 1 .. room[buffer] \/ \E v \in Worker : Filler(v)'
    BY <2>1 DEF Progress
  <2>2. CASE filled[buffer] = 1 .. room[buffer]
    <3>1. filled[buffer] \subseteq filled'[buffer]
      <4>1. CASE ptr[w] = buffer
        BY <2>1, <4>1
      <4>2. CASE ptr[w] # buffer
        BY <2>1, <4>2
      <4> QED
        BY <4>1, <4>2
    <3>2. filled'[buffer] \subseteq 1 .. room[buffer]
      BY <2>1 DEF Inside
    <3> QED
      BY <2>2, <3>1, <3>2
  <2>3. CASE \E v \in Worker : Filler(v)
    BY <2>1, <2>3
  <2> QED
    BY <1>3, <2>2, <2>3 DEF Progress
<1>9. CASE ReadEnd(w)
  <2>1. UNCHANGED <<buffer, room, filled, ptr>> /\ pc' = [pc EXCEPT ![w] = "length"] /\ pc[w] = "read"
    BY <1>9 DEF ReadEnd, Goto, heap
  <2>2. filled[ptr[w]] = 1 .. room[ptr[w]]
    BY <1>3, <1>9, EndsWhole
  <2> QED
    BY <1>4, <2>1, <2>2
<1>10. CASE ReadDir(w)
  <2>1. UNCHANGED <<buffer, room, filled, ptr>> /\ pc' = [pc EXCEPT ![w] = "spin"] /\ pc[w] = "read"
    BY <1>10 DEF ReadDir, Goto, heap
  <2> QED
    BY <1>4, <2>1
<1> QED
  BY <1>5, <1>6, <1>7, <1>8, <1>9, <1>10 DEF Work, Load

\* While no open has failed: who answers has a buffer or needs none, and the length
\* it announces is the one it sends, since len cannot change in between.
LEMMA KnownStep ==
  ASSUME TypeOK, TypeOK', Found, Sized, Known, [Next]_vars
  PROVE  Known'
<1> USE DEF TypeOK
<1>1. CASE UNCHANGED vars \/ Change
  BY <1>1 DEF vars, file, Change, Known
<1> SUFFICES ASSUME NEW w \in Worker, Begin(w) \/ Work(w), failures' = 0, ~moved'
             PROVE  Known'
  BY <1>1, Zenon DEF Next, Known
<1>2. failures = 0 /\ image' = image /\ ~moved
  <2>1. UNCHANGED file /\ failures' \in {failures, failures + 1}
    BY OneMoves
  <2> QED
    BY <2>1 DEF file
<1>3. ASSUME UNCHANGED <<buffer, len, announced, sent>>, NEW l, pc' = [pc EXCEPT ![w] = l],
             l # "write", l = "length" => buffer # 0 \/ image = "absent",
             pc[w] \notin {"length", "write"}
      PROVE  Known'
  BY <1>2, <1>3 DEF Known
<1>4. CASE Begin(w) \/ Open(w) \/ Take(w) \/ ReadDir(w)
  <2>1. UNCHANGED <<buffer, len, announced, sent>> /\ pc[w] \notin {"length", "write"}
    BY <1>4 DEF Begin, Open, Take, ReadDir
  <2>2. \E l \in {"check", "size", "read", "spin"} : pc' = [pc EXCEPT ![w] = l]
    BY <1>4 DEF Begin, Open, Take, ReadDir, Goto
  <2> QED
    BY <1>3, <2>1, <2>2
<1>5. CASE Check(w)
  <2>1. CASE buffer = 0
    BY <1>3, <1>5, <2>1 DEF Check, Goto
  <2>2. CASE buffer # 0
    BY <1>3, <1>5, <2>2 DEF Check, Goto
  <2> QED
    BY <2>1, <2>2
<1>6. CASE OpenFails(w)
  <2>1. UNCHANGED <<buffer, len, announced, sent>> /\ pc' = [pc EXCEPT ![w] = "length"] /\ pc[w] = "open"
    BY <1>6 DEF OpenFails, Goto
  <2>2. image = "absent"
    BY <1>2, <1>6 DEF OpenFails
  <2> QED
    BY <1>3, <2>1, <2>2
<1>7. CASE ReadEnd(w)
  BY <1>3, <1>7 DEF ReadEnd, Goto, Found
<1>8. CASE SetLen(w)
  <2>1. pc' = [pc EXCEPT ![w] = "alloc"] /\ UNCHANGED <<buffer, announced, sent>>
    BY <1>8 DEF SetLen, Goto
  <2>2. buffer # 0 => len' = len
    BY <1>2, <1>8 DEF SetLen, Sized, Loading
  <2>3. image # "absent" /\ pc[w] = "size"
    BY <1>8 DEF SetLen, Found
  <2> QED
    BY <1>2, <2>1, <2>2, <2>3 DEF Known
<1>9. CASE Alloc(w)
  <2>1. pc' = [pc EXCEPT ![w] = "take"] /\ UNCHANGED <<len, announced, sent>>
    BY <1>9 DEF Alloc, Goto
  <2>2. buffer' # 0 /\ pc[w] = "alloc"
    BY <1>9 DEF Alloc
  <2> QED
    BY <1>2, <2>1, <2>2 DEF Known
<1>10. CASE Read(w)
  BY <1>2, <1>10 DEF Read, Known
<1>11. CASE SendHeaders(w)
  BY <1>2, <1>11 DEF SendHeaders, Goto, Known
<1>12. CASE SendBody(w)
  <2>1. announced[w] = IF buffer = 0 THEN 0 ELSE len
    BY <1>2, <1>12 DEF SendBody, Known, Found
  <2>2. pc' = [pc EXCEPT ![w] = "idle"] /\ sent' = [sent EXCEPT ![w] = announced[w]]
    BY <1>12, <2>1 DEF SendBody, Goto
  <2>3. UNCHANGED <<buffer, len, announced>>
    BY <1>12 DEF SendBody
  <2> QED
    BY <1>2, <2>2, <2>3 DEF Known
<1> QED
  BY <1>4, <1>5, <1>6, <1>7, <1>8, <1>9, <1>10, <1>11, <1>12 DEF Work, Load

\* The initial state satisfies the invariant.
LEMMA InitInv ==
  ASSUME Init
  PROVE  IInv
<1> USE DEF Init
<1>1. TypeOK
  <2>1. room \in Seq(Nat) /\ Len(room) = 0 /\ filled \in Seq(SUBSET Nat) /\ Len(filled) = 0
    BY EmptySeq
  <2>2. pc \in [Worker -> PC] /\ ptr \in [Worker -> 0 .. buffer] /\ at \in [Worker -> Nat \ {0}]
    BY DEF PC
  <2>3. announced \in [Worker -> Nat] /\ sent \in [Worker -> Nat]
    OBVIOUS
  <2> QED
    BY <2>1, <2>2, <2>3, SizesAssumption, ImageAssumption DEF TypeOK
<1>2. Before = {}
  BY DEF Before
<1>3. Counted
  BY <1>2, WorkerAssumption, FS_EmptySet, FS_CardinalityType DEF Counted
<1>4. Found /\ Sized /\ Inside /\ Prefix /\ Progress /\ Known
  BY DEF Found, Sized, Inside, Prefix, Progress, Known, Loading
<1> QED
  BY <1>1, <1>3, <1>4 DEF IInv

\* The invariant holds in every reachable state.
LEMMA Invariance == Spec => []IInv
<1>1. IInv /\ [Next]_vars => IInv'
  <2> SUFFICES ASSUME IInv, [Next]_vars
               PROVE  IInv'
    OBVIOUS
  <2>1. TypeOK'
    BY TypeStep DEF IInv
  <2>2. Counted' /\ Found' /\ Sized' /\ Inside' /\ Prefix'
    BY <2>1, CountedStep, FoundStep, SizedStep, InsideStep, PrefixStep DEF IInv
  <2> QED
    BY <2>1, <2>2, ProgressStep, KnownStep DEF IInv
<1> QED
  BY <1>1, InitInv, PTL DEF Spec

-----------------------------------------------------------------------------
\* Types: no racing loader reads through a null pointer (286-294).
THEOREM Typed == Spec => []TypeOK
<1>1. IInv => TypeOK
  BY DEF IInv
<1> QED
  BY <1>1, Invariance, PTL

\* However many requests race for the load, every read lands inside a malloc and
\* every body is taken from inside one, although the loop compares nothing with the
\* size fstat gave: all that is needed is that the image is not rewritten in the
\* middle of a load (lines 280-294, 308).
THEOREM LoadInBounds == Spec => []InBounds
<1>1. IInv => InBounds
  <2> SUFFICES ASSUME IInv, ~moved
               PROVE  /\ \A a \in 1 .. buffer : filled[a] \subseteq 1 .. room[a]
                      /\ buffer # 0 => len <= room[buffer]
    BY DEF InBounds
  <2>1. \A a \in 1 .. buffer : filled[a] \subseteq 1 .. room[a]
    BY DEF IInv, Inside
  <2>2. buffer # 0 => len = room[buffer]
    BY DEF IInv, Sized
  <2>3. len \in Nat
    BY DEF IInv, TypeOK
  <2> QED
    BY <2>1, <2>2, <2>3
<1> QED
  BY <1>1, Invariance, PTL

\* However many requests race for the load, the buffer that remains is whole and has
\* the length announced: the race is harmless once it is over, unless the image is
\* rewritten meanwhile (lines 273-296).
THEOREM RaceSettles == Spec => []Settled
<1>1. IInv => Settled
  <2> SUFFICES ASSUME IInv, ~moved, Loading = {}, buffer # 0
               PROVE  filled[buffer] = 1 .. room[buffer] /\ len = room[buffer]
    BY DEF Settled
  <2>1. \A w \in Worker : ~Filler(w)
    BY DEF Loading, Filler
  <2> QED
    BY <2>1 DEF IInv, Progress, Sized
<1> QED
  BY <1>1, Invariance, PTL

\* The race costs at most one buffer for each worker (line 282).
THEOREM RaceCosts == Spec => []LostBuffers
<1>1. IInv => LostBuffers
  <2> SUFFICES ASSUME IInv
               PROVE  buffer <= Cardinality(Worker)
    BY DEF LostBuffers
  <2>1. IsFiniteSet(Before)
    BY WorkerAssumption, FS_Subset DEF Before
  <2>2. Cardinality(Before) \in Nat /\ Cardinality(Worker) \in Nat
    BY <2>1, WorkerAssumption, FS_CardinalityType
  <2> QED
    BY <2>2 DEF IInv, TypeOK, Counted
<1> QED
  BY <1>1, Invariance, PTL

\* While descriptors last and no load meets a rewrite, the length announced is the
\* length sent, though len and buffer are read anew for each (lines 300-308).
THEOREM BodyIsFramed == Spec => []Framed
<1>1. IInv => Framed
  BY DEF IInv, Known, Framed
<1> QED
  BY <1>1, Invariance, PTL
=============================================================================
