--------------------------- MODULE ConfigProofs ---------------------------
(***************************************************************************)
(* Proofs about Config for every configuration file: which options keep    *)
(* what the file says of them, although the walk reuses its index and      *)
(* writes numbers over the fields behind them.                             *)
(***************************************************************************)
EXTENDS Config, TLAPS

\* The walk comes back to "proportion" for ever.
Loops == /\ conf["proportion"].type = "string"
         /\ conf["proportion"].s \in {"squash", "crop"}

Walked  == {"walk", "chdir", "start", "running"}
Looping == Loops => pc = "walk" /\ ix <= 2
AtEnd   == pc \in {"chdir", "start", "running"} => ix = Args

\* What the properties say of a running server, for the part of the table behind ix.
PortSoFar ==
  ~Loops => \A i \in 1 .. 4 :
    (i = 1 => ~IsNumber("disk")) /\ (i <= 2 => ~IsNumber("true_bmp"))
      => mem[3 + i] = Bytes(IF ix > 0 THEN Number("port", 2345) ELSE 2345)[i]

ModesSoFar ==
  ~Loops =>
    /\ mem[1] = IF ix > 7 THEN Number("disk", 1) % 256 ELSE 1
    /\ mem[0] = IF ix > 2 /\ conf["proportion"].type = "string" /\ conf["proportion"].s = "matte"
                THEN 2 ELSE 0

RootSoFar ==
  ~Loops /\ conf["no_support"].type # "string" =>
    img_root = IF ix > 1 /\ conf["img_root"].type = "string" THEN conf["img_root"].s ELSE "./"

AtStart == pc = "open" => ix = 0 /\ \A a \in 0 .. 7 : mem[a] = 0

SoFar == Looping /\ AtEnd /\ PortSoFar /\ ModesSoFar /\ RootSoFar

IInv == /\ TypeOK
        /\ AtStart
        /\ pc \in Walked => SoFar

-----------------------------------------------------------------------------
USE DEF str, num

\* The rows of the table.
LEMMA Rows ==
  /\ args(0) = Arg("port", "port", "number")
  /\ args(1) = Arg("img_root", "img_root", "string")
  /\ args(2) = Arg("proportion", "proportion", "string")
  /\ args(3) = Arg("true_bmp", "true_bmp", "number")
  /\ args(4) = Arg("no_support", "img_root", "string")
  /\ args(5) = Arg("log_level", "log_level", "number")
  /\ args(6) = Arg("log_file", "log_fd", "string")
  /\ args(7) = Arg("disk", "b_disk", "number")
  /\ args(8) = Arg("404", "badfile_fd", "string")
  /\ args(9) = Arg("max_age", "max_age", "number")
BY DEF args, table

\* Where in the table the walk is, and what it writes to.
LEMMA Where ==
  ASSUME ix \in 0 .. Args, NEW o, At(o)
  PROVE  /\ o \in Option /\ args(ix).arg = o
         /\ o = "port"       <=> ix = 0
         /\ o = "img_root"   <=> ix = 1
         /\ o = "proportion" <=> ix = 2
         /\ o = "true_bmp"   <=> ix = 3
         /\ o = "no_support" <=> ix = 4
         /\ o = "log_level"  <=> ix = 5
         /\ o = "log_file"   <=> ix = 6
         /\ o = "disk"       <=> ix = 7
         /\ o = "404"        <=> ix = 8
         /\ o = "max_age"    <=> ix = 9
<1>1. ix \in {0, 1, 2, 3, 4, 5, 6, 7, 8, 9}
  BY DEF At, Args
<1> QED
  BY <1>1, Rows DEF At, Arg, Option

\* Each byte of an int is a byte.
LEMMA BytesTyped ==
  ASSUME NEW v \in 0 .. MaxInt, NEW i \in 1 .. 4
  PROVE  Bytes(v)[i] \in Byte
<1>1. /\ v % 256 \in Byte
      /\ (v \div 256) % 256 \in Byte
      /\ (v \div 65536) % 256 \in Byte
      /\ (v \div 16777216) % 256 \in Byte
  <2>1. ASSUME NEW x \in Nat
        PROVE  x % 256 \in Byte
    BY SMT DEF Byte
  <2>2. v \in Nat
    OBVIOUS
  <2>3. v \div 256 \in Nat /\ v \div 65536 \in Nat /\ v \div 16777216 \in Nat
    BY <2>2, SMT
  <2> QED
    BY <2>1, <2>2, <2>3, SMT
<1>2. i \in {1, 2, 3, 4}
  OBVIOUS
<1> QED
  BY <1>1, <1>2, SMT DEF Bytes

\* What writing one byte changes.
LEMMA ByteWritten ==
  ASSUME MemOK, NEW a \in 0 .. 7, NEW v \in Byte, mem' = [mem EXCEPT ![a] = v]
  PROVE  /\ mem' \in [0 .. 7 -> Byte]
         /\ mem'[a] = v
         /\ \A b \in 0 .. 7 : b # a => mem'[b] = mem[b]
BY DEF MemOK

\* What writing an int over a field changes and what it leaves.
LEMMA PutIntWrites ==
  ASSUME TypeOK, NEW p \in {"port", "true_bmp", "b_disk"}, NEW v \in 0 .. MaxInt, PutInt(p, v)
  PROVE  /\ mem' \in [0 .. 7 -> Byte]
         /\ mem'[0] = mem[0]
         /\ p = "port" => mem'[1] = mem[1] /\ \A i \in 1 .. 4 : mem'[3 + i] = Bytes(v)[i]
         /\ p = "true_bmp" => mem'[1] = mem[1] /\ mem'[6] = mem[6] /\ mem'[7] = mem[7]
         /\ p = "b_disk" => mem'[1] = v % 256 /\ \A a \in 5 .. 7 : mem'[a] = mem[a]
<1>1. Offset["port"] = 4 /\ Offset["true_bmp"] = 2 /\ Offset["b_disk"] = 1
  BY DEF Offset
<1>2. mem' = [a \in 0 .. 7 |-> IF a \in Offset[p] .. Offset[p] + 3 THEN Bytes(v)[a - Offset[p] + 1]
                               ELSE mem[a]]
  BY DEF PutInt
<1>3. ASSUME NEW a \in 0 .. 7
      PROVE  mem'[a] \in Byte
  <2>1. CASE a \in Offset[p] .. Offset[p] + 3
    <3>1. a - Offset[p] + 1 \in 1 .. 4
      BY <1>1, <2>1
    <3> QED
      BY <1>2, <2>1, <3>1, BytesTyped
  <2>2. CASE a \notin Offset[p] .. Offset[p] + 3
    BY <1>2, <2>2 DEF TypeOK, MemOK
  <2> QED
    BY <2>1, <2>2
<1>4. mem' \in [0 .. 7 -> Byte]
  BY <1>2, <1>3
<1>5. mem'[0] = mem[0]
  BY <1>1, <1>2
<1>6. ASSUME p = "port"
      PROVE  mem'[1] = mem[1] /\ \A i \in 1 .. 4 : mem'[3 + i] = Bytes(v)[i]
  <2>1. mem'[1] = mem[1]
    BY <1>1, <1>2, <1>6
  <2>2. ASSUME NEW i \in 1 .. 4
        PROVE  mem'[3 + i] = Bytes(v)[i]
    <3>1. 3 + i \in 4 .. 7 /\ (3 + i) - 4 + 1 = i
      OBVIOUS
    <3> QED
      BY <1>1, <1>2, <1>6, <3>1
  <2> QED
    BY <2>1, <2>2
<1>7. p = "true_bmp" => mem'[1] = mem[1] /\ mem'[6] = mem[6] /\ mem'[7] = mem[7]
  BY <1>1, <1>2
<1>8. ASSUME p = "b_disk"
      PROVE  mem'[1] = v % 256 /\ \A a \in 5 .. 7 : mem'[a] = mem[a]
  <2>1. mem'[1] = Bytes(v)[1]
    BY <1>1, <1>2, <1>8
  <2>2. Bytes(v)[1] = v % 256
    BY SMT DEF Bytes
  <2> QED
    BY <1>1, <1>2, <1>8, <2>1, <2>2
<1> QED
  BY <1>4, <1>5, <1>6, <1>7, <1>8

\* Where the search for the word leaves ix, and what it writes: only "matte" finds
\* its own field.
LEMMA ProportionWrites ==
  ASSUME TypeOK, SetProportion
  PROVE  /\ ix = 2 /\ HasFile
         /\ Loops => ix' \in 1 .. 2
         /\ ~Loops => ix' \in 3 .. 5 /\ UNCHANGED str
         /\ StrOK'
         /\ mem' \in [0 .. 7 -> Byte]
         /\ ~Loops => \A a \in {1, 4, 5, 6, 7} : mem'[a] = mem[a]
         /\ ~Loops => mem'[0] = IF conf["proportion"].s = "matte" THEN 2 ELSE mem[0]
         /\ conf["proportion"].type = "string"
<1> DEFINE w == conf["proportion"].s
           j == Index(w)
<1>1. ix = 2 /\ HasFile /\ args(ix) = Arg("proportion", "proportion", "string")
  BY Where, Rows DEF SetProportion, At, TypeOK, PcOK
<1>2. conf["proportion"].type = "string"
  BY <1>1 DEF SetProportion, Fits, Arg
<1>3. /\ IF j < 4 THEN PutByte(args(j).param, j) ELSE UNCHANGED <<mem, str>>
      /\ ix' = j + 1
  BY DEF SetProportion
<1>4. /\ proportion[1] = "squash" /\ proportion[2] = "crop"
      /\ proportion[3] = "matte" /\ proportion[4] = "seamcarve"
  BY DEF proportion
<1>5. \A k \in 1 .. 4, l \in 1 .. 4 : proportion[k] = proportion[l] => k = l
  BY <1>4
<1>6. /\ w = "squash" => j = 0
      /\ w = "crop" => j = 1
      /\ w = "matte" => j = 2
      /\ w = "seamcarve" => j = 3
      /\ w \notin {"squash", "crop", "matte", "seamcarve"} => j = 4
  <2>1. ASSUME NEW k \in 1 .. 4, w = proportion[k]
        PROVE  j = k - 1
    <3>1. w \in proportions
      BY <2>1 DEF proportions
    <3>2. (CHOOSE m \in 1 .. 4 : proportion[m] = w) = k
      BY <1>5, <2>1
    <3> QED
      BY <3>1, <3>2 DEF Index
  <2>2. ASSUME w \notin {"squash", "crop", "matte", "seamcarve"}
        PROVE  j = 4
    <3>1. w \notin proportions
      BY <1>4, <2>2 DEF proportions
    <3> QED
      BY <3>1 DEF Index
  <2>3. /\ w = "squash" => j = 1 - 1
        /\ w = "crop" => j = 2 - 1
        /\ w = "matte" => j = 3 - 1
        /\ w = "seamcarve" => j = 4 - 1
    BY <1>4, <2>1
  <2> QED
    BY <2>2, <2>3
<1>7. /\ args(0).param = "port" /\ args(1).param = "img_root"
      /\ args(2).param = "proportion" /\ args(3).param = "true_bmp"
  BY Rows DEF Arg
<1>8. Offset["port"] = 4 /\ Offset["proportion"] = 0 /\ Offset["true_bmp"] = 2
  BY DEF Offset
<1>9. 0 \in Byte /\ 2 \in Byte /\ 3 \in Byte /\ MemOK
  BY SMT DEF Byte, TypeOK
<1>10. Loops <=> w \in {"squash", "crop"}
  BY <1>2 DEF Loops
<1>11. CASE w = "squash"
  <2>1. j = 0 /\ mem' = [mem EXCEPT ![4] = 0] /\ UNCHANGED str
    BY <1>3, <1>6, <1>7, <1>8, <1>11 DEF PutByte
  <2>2. mem' \in [0 .. 7 -> Byte]
    <3>1. 4 \in 0 .. 7 /\ \A a \in {0, 1, 2, 4, 5, 6, 7} : a \in 0 .. 7
      OBVIOUS
    <3> QED
      BY <1>9, <2>1, <3>1, ByteWritten
  <2>3. StrOK'
    BY <2>1 DEF TypeOK, StrOK
  <2>4. ix' = 1
    BY <1>3, <2>1
  <2> QED
    BY <1>1, <1>2, <1>10, <1>11, <2>2, <2>3, <2>4
<1>12. CASE w = "crop"
  <2>1. j = 1 /\ img_root' = "clobbered" /\ mem' = mem /\ badfile_fd' = badfile_fd
    BY <1>3, <1>6, <1>7, <1>12 DEF PutByte
  <2>2. mem' \in [0 .. 7 -> Byte]
    BY <2>1 DEF TypeOK, MemOK
  <2>3. StrOK'
    BY <2>1 DEF TypeOK, StrOK
  <2>4. ix' = 2
    BY <1>3, <2>1
  <2> QED
    BY <1>1, <1>2, <1>10, <1>12, <2>2, <2>3, <2>4
<1>13. CASE w = "matte"
  <2>1. j = 2 /\ mem' = [mem EXCEPT ![0] = 2] /\ UNCHANGED str
    BY <1>3, <1>6, <1>7, <1>8, <1>13 DEF PutByte
  <2>2. mem' \in [0 .. 7 -> Byte] /\ mem'[0] = 2 /\ \A a \in {1, 4, 5, 6, 7} : mem'[a] = mem[a]
    <3>1. 0 \in 0 .. 7
      OBVIOUS
    <3>2. mem' \in [0 .. 7 -> Byte] /\ mem'[0] = 2
      BY <1>9, <2>1, <3>1, ByteWritten
    <3>3. ASSUME NEW a \in {1, 4, 5, 6, 7}
          PROVE  mem'[a] = mem[a]
      <4>1. a \in 0 .. 7 /\ a # 0
        OBVIOUS
      <4> QED
        BY <1>9, <2>1, <3>1, <4>1, ByteWritten
    <3> QED
      BY <3>2, <3>3
  <2>3. StrOK'
    BY <2>1 DEF TypeOK, StrOK
  <2>4. ix' = 3
    BY <1>3, <2>1
  <2> QED
    BY <1>1, <1>2, <1>10, <1>13, <2>1, <2>2, <2>3, <2>4
<1>14. CASE w = "seamcarve"
  <2>1. j = 3 /\ mem' = [mem EXCEPT ![2] = 3] /\ UNCHANGED str
    BY <1>3, <1>6, <1>7, <1>8, <1>14 DEF PutByte
  <2>2. mem' \in [0 .. 7 -> Byte] /\ \A a \in {0, 1, 4, 5, 6, 7} : mem'[a] = mem[a]
    <3>1. 2 \in 0 .. 7
      OBVIOUS
    <3>2. mem' \in [0 .. 7 -> Byte] /\ mem'[2] = 3
      BY <1>9, <2>1, <3>1, ByteWritten
    <3>3. ASSUME NEW a \in {0, 1, 4, 5, 6, 7}
          PROVE  mem'[a] = mem[a]
      <4>1. a \in 0 .. 7 /\ a # 2
        OBVIOUS
      <4> QED
        BY <1>9, <2>1, <3>1, <4>1, ByteWritten
    <3> QED
      BY <3>2, <3>3
  <2>3. StrOK'
    BY <2>1 DEF TypeOK, StrOK
  <2>4. ix' = 4
    BY <1>3, <2>1
  <2> QED
    BY <1>1, <1>2, <1>10, <1>14, <2>1, <2>2, <2>3, <2>4
<1>15. CASE w \notin {"squash", "crop", "matte", "seamcarve"}
  <2>1. j = 4 /\ mem' = mem /\ UNCHANGED str
    BY <1>3, <1>6, <1>15
  <2>2. mem' \in [0 .. 7 -> Byte]
    BY <2>1 DEF TypeOK, MemOK
  <2>3. StrOK'
    BY <2>1 DEF TypeOK, StrOK
  <2>4. ix' = 5
    BY <1>3, <2>1
  <2> QED
    BY <1>1, <1>2, <1>10, <1>15, <2>1, <2>2, <2>3, <2>4
<1> QED
  BY <1>11, <1>12, <1>13, <1>14, <1>15

\* Numbers of a file are ints, strings are words.
LEMMA ItemTyped ==
  ASSUME TypeOK, HasFile, NEW o \in Option
  PROVE  /\ conf[o].n \in 0 .. MaxInt /\ conf[o].s \in Word
         /\ conf[o].type \in Types
<1>1. conf[o] \in Item
  BY DEF TypeOK, ConfOK
<1> QED
  BY <1>1 DEF Item

\* An int that ends in the small fields comes from one of three options.
LEMMA SmallWrites ==
  ASSUME TypeOK, SetSmall
  PROVE  \E o \in {"port", "true_bmp", "disk"} :
           /\ At(o) /\ conf[o].type = "number" /\ HasFile
           /\ ix' = ix + 1 /\ UNCHANGED <<conf, str, num, plogs, listening, pc>>
           /\ mem' \in [0 .. 7 -> Byte]
           /\ mem'[0] = mem[0]
           /\ o = "port" => ix = 0 /\ mem'[1] = mem[1] /\ \A i \in 1 .. 4 : mem'[3 + i] = Bytes(conf[o].n)[i]
           /\ o = "true_bmp" => ix = 3 /\ mem'[1] = mem[1] /\ mem'[6] = mem[6] /\ mem'[7] = mem[7]
           /\ o = "disk" => ix = 7 /\ mem'[1] = conf[o].n % 256 /\ \A a \in 5 .. 7 : mem'[a] = mem[a]
<1>1. PICK o \in {"port", "true_bmp", "disk"} : At(o) /\ Fits /\ PutInt(args(ix).param, conf[o].n)
  BY DEF SetSmall
<1>2. /\ o = "port" => ix = 0
      /\ o = "true_bmp" => ix = 3
      /\ o = "disk" => ix = 7
      /\ o \in Option /\ args(ix).arg = o
  BY <1>1, Where DEF TypeOK
<1>3. /\ o = "port" => args(ix).param = "port"
      /\ o = "true_bmp" => args(ix).param = "true_bmp"
      /\ o = "disk" => args(ix).param = "b_disk"
      /\ args(ix).type = "number"
  BY <1>2, Rows DEF Arg
<1>4. HasFile /\ conf[o].type = "number"
  BY <1>1, <1>2, <1>3 DEF At, TypeOK, PcOK, Fits
<1>5. conf[o].n \in 0 .. MaxInt
  BY <1>2, <1>4, ItemTyped
<1>6. ix' = ix + 1 /\ UNCHANGED <<conf, str, num, plogs, listening, pc>>
  BY DEF SetSmall
<1>7. CASE o = "port"
  BY <1>1, <1>2, <1>3, <1>4, <1>5, <1>6, <1>7, PutIntWrites
<1>8. CASE o = "true_bmp"
  BY <1>1, <1>2, <1>3, <1>4, <1>5, <1>6, <1>8, PutIntWrites
<1>9. CASE o = "disk"
  BY <1>1, <1>2, <1>3, <1>4, <1>5, <1>6, <1>9, PutIntWrites
<1> QED
  BY <1>7, <1>8, <1>9

\* A string lands in img_root or badfile_fd.
LEMMA StringWrites ==
  ASSUME TypeOK, SetString
  PROVE  /\ HasFile /\ pc = "walk" /\ ix \in {1, 4, 8} /\ ix' = ix + 1
         /\ UNCHANGED <<conf, mem, num, plogs, listening, pc>>
         /\ StrOK'
         /\ ix = 1 => conf["img_root"].type = "string" /\ img_root' = conf["img_root"].s
         /\ ix = 4 => conf["no_support"].type = "string"
         /\ ix = 8 => img_root' = img_root
<1>1. PICK o \in {"img_root", "no_support", "404"} :
        /\ At(o) /\ Fits
        /\ IF args(ix).param = "img_root" THEN img_root' = conf[o].s /\ UNCHANGED badfile_fd
                                          ELSE badfile_fd' = conf[o].s /\ UNCHANGED img_root
  BY DEF SetString
<1>2. /\ o = "img_root" => ix = 1
      /\ o = "no_support" => ix = 4
      /\ o = "404" => ix = 8
      /\ o \in Option /\ args(ix).arg = o
  BY <1>1, Where DEF TypeOK
<1>3. /\ ix \in {1, 4} => args(ix).param = "img_root"
      /\ ix = 8 => args(ix).param = "badfile_fd"
      /\ ix \in {1, 4, 8} => args(ix).type = "string"
  BY Rows DEF Arg
<1>4. HasFile /\ pc = "walk"
  BY <1>1 DEF At, TypeOK, PcOK
<1>5. conf[o].s \in Word
  BY <1>2, <1>4, ItemTyped
<1>6. conf[o].type = "string"
  BY <1>1, <1>2, <1>3 DEF Fits
<1>7. ix' = ix + 1 /\ UNCHANGED <<conf, mem, num, plogs, listening, pc>>
  BY DEF SetString
<1>8. StrOK'
  BY <1>1, <1>5 DEF TypeOK, StrOK
<1>9. ix \in {1, 4, 8}
  BY <1>2
<1>10. ix = 1 => o = "img_root"
  BY <1>2
<1>11. ix = 4 => o = "no_support"
  BY <1>2
<1>12. ix = 1 => img_root' = conf["img_root"].s
  BY <1>1, <1>3, <1>10
<1>13. ix = 8 => img_root' = img_root
  BY <1>1, <1>3
<1> QED
  BY <1>4, <1>6, <1>7, <1>8, <1>9, <1>10, <1>11, <1>12, <1>13

\* The other numbers and the log's descriptor are read after the small fields.
LEMMA OtherWrites ==
  ASSUME TypeOK, SetInt \/ SetLogFile
  PROVE  /\ HasFile /\ pc = "walk" /\ ix \in {5, 6, 9} /\ ix' = ix + 1
         /\ UNCHANGED <<conf, mem, str, plogs, listening, pc>>
         /\ NumOK'
<1>1. PICK o \in {"log_level", "max_age", "log_file"} : At(o)
  BY DEF SetInt, SetLogFile
<1>2. /\ o = "log_level" => ix = 5
      /\ o = "log_file" => ix = 6
      /\ o = "max_age" => ix = 9
      /\ o \in Option
  BY <1>1, Where DEF TypeOK
<1>3. HasFile /\ pc = "walk"
  BY <1>1 DEF At, TypeOK, PcOK
<1>4. ix' = ix + 1 /\ UNCHANGED <<conf, mem, str, plogs, listening, pc>>
  BY DEF SetInt, SetLogFile
<1>5. conf["log_level"].n \in 0 .. MaxInt /\ conf["max_age"].n \in 0 .. MaxInt
  BY <1>3, ItemTyped DEF Option
<1>6. NumOK'
  BY <1>5 DEF SetInt, SetLogFile, TypeOK, NumOK
<1> QED
  BY <1>1, <1>2, <1>3, <1>4, <1>6

\* An option is stepped over when the file has nothing of its type for it.
LEMMA SkipWrites ==
  ASSUME TypeOK, Skip
  PROVE  /\ HasFile /\ pc = "walk" /\ ix \in 0 .. 9 /\ ix' = ix + 1
         /\ UNCHANGED <<conf, mem, str, num, plogs, listening, pc>>
         /\ ix = 0 => ~IsNumber("port")
         /\ ix = 1 => conf["img_root"].type # "string"
         /\ ix = 2 => conf["proportion"].type # "string"
         /\ ix = 7 => ~IsNumber("disk")
<1>1. ix \in 0 .. 9 /\ pc = "walk" /\ HasFile
  BY DEF Skip, TypeOK, PcOK, Args
<1>2. conf[args(ix).arg].type # args(ix).type
  BY DEF Skip, Fits
<1>3. ix' = ix + 1 /\ UNCHANGED <<conf, mem, str, num, plogs, listening, pc>>
  BY DEF Skip
<1>4. CASE ix = 0
  BY <1>1, <1>2, <1>3, <1>4, Rows DEF Arg, IsNumber
<1>5. CASE ix = 1
  BY <1>1, <1>2, <1>3, <1>5, Rows DEF Arg
<1>6. CASE ix = 2
  BY <1>1, <1>2, <1>3, <1>6, Rows DEF Arg
<1>7. CASE ix = 7
  BY <1>1, <1>2, <1>3, <1>7, Rows DEF Arg, IsNumber
<1>8. CASE ix \notin {0, 1, 2, 7}
  BY <1>1, <1>3, <1>8
<1> QED
  BY <1>4, <1>5, <1>6, <1>7, <1>8

\* The defaults.
LEMMA OpenWrites ==
  ASSUME TypeOK, Open
  PROVE  /\ HasFile /\ pc' = "walk" /\ UNCHANGED <<conf, num, ix, plogs, listening>>
         /\ StrOK'
         /\ img_root' = "./"
         /\ mem' \in [0 .. 7 -> Byte]
         /\ mem'[0] = mem[0] /\ mem'[1] = 1
         /\ mem'[4] = Bytes(2345)[1] /\ mem'[5] = Bytes(2345)[2]
         /\ mem'[6] = mem[6] /\ mem'[7] = mem[7]
<1>1. Bytes(2345)[1] \in Byte /\ Bytes(2345)[2] \in Byte
  <2>1. 2345 <= MaxInt /\ MaxInt \in Nat
    BY SMT DEF MaxInt
  <2> QED
    BY <2>1, BytesTyped
<1>2. mem' = [mem EXCEPT ![1] = 1, ![4] = Bytes(2345)[1], ![5] = Bytes(2345)[2]]
  BY DEF Open
<1>3. 1 \in Byte
  BY SMT DEF Byte
<1>4. /\ mem' \in [0 .. 7 -> Byte]
      /\ mem'[0] = mem[0] /\ mem'[1] = 1
      /\ mem'[4] = Bytes(2345)[1] /\ mem'[5] = Bytes(2345)[2]
      /\ mem'[6] = mem[6] /\ mem'[7] = mem[7]
  <2> DEFINE b1 == Bytes(2345)[1]
             b2 == Bytes(2345)[2]
  <2>1. mem \in [0 .. 7 -> Byte] /\ b1 \in Byte /\ b2 \in Byte
    BY <1>1 DEF TypeOK, MemOK
  <2>2. mem' = [mem EXCEPT ![1] = 1, ![4] = b1, ![5] = b2]
    BY <1>2
  <2> HIDE DEF b1, b2
  <2>3. /\ mem' \in [0 .. 7 -> Byte]
        /\ mem'[0] = mem[0] /\ mem'[1] = 1 /\ mem'[4] = b1 /\ mem'[5] = b2
        /\ mem'[6] = mem[6] /\ mem'[7] = mem[7]
    BY <1>3, <2>1, <2>2
  <2> QED
    BY <2>3 DEF b1, b2
<1>5. img_root' = "./" /\ badfile_fd' = badfile_fd
  BY DEF Open
<1>6. StrOK'
  BY <1>5, WordAssumption DEF TypeOK, StrOK
<1>7. HasFile /\ pc' = "walk" /\ UNCHANGED <<conf, num, ix, plogs, listening>>
  BY DEF Open
<1> QED
  BY <1>4, <1>5, <1>6, <1>7

\* Types.
LEMMA TypeStep ==
  ASSUME TypeOK, [Next]_vars
  PROVE  TypeOK'
<1>1. conf' = conf
  BY DEF vars, Next, Open, OpenFails, Skip, Set, SetSmall, SetInt, SetString,
       SetLogFile, SetProportion, EndWalk, Chdir, Start, StartFails
<1>2. ConfOK'
  BY <1>1 DEF TypeOK, ConfOK, HasFile
<1>3. MemOK'
  <2>1. CASE Open
    BY <2>1, OpenWrites DEF MemOK
  <2>2. CASE SetSmall
    BY <2>2, SmallWrites DEF MemOK
  <2>3. CASE SetProportion
    BY <2>3, ProportionWrites DEF MemOK
  <2>4. CASE ~(Open \/ SetSmall \/ SetProportion)
    <3>1. mem' = mem
      BY <2>4 DEF vars, Next, OpenFails, Skip, Set, SetInt, SetString, SetLogFile, EndWalk, Chdir,
         Start, StartFails
    <3> QED
      BY <3>1 DEF TypeOK, MemOK
  <2> QED
    BY <2>1, <2>2, <2>3, <2>4
<1>4. StrOK'
  <2>1. CASE Open
    BY <2>1, OpenWrites
  <2>2. CASE SetString
    BY <2>2, StringWrites
  <2>3. CASE SetProportion
    BY <2>3, ProportionWrites
  <2>4. CASE ~(Open \/ SetString \/ SetProportion)
    <3>1. img_root' = img_root /\ badfile_fd' = badfile_fd
      BY <2>4 DEF vars, Next, OpenFails, Skip, Set, SetSmall, SetInt, SetLogFile, EndWalk, Chdir,
         Start, StartFails
    <3> QED
      BY <3>1 DEF TypeOK, StrOK
  <2> QED
    BY <2>1, <2>2, <2>3, <2>4
<1>5. NumOK'
  <2>1. CASE SetInt \/ SetLogFile
    BY <2>1, OtherWrites
  <2>2. CASE ~(SetInt \/ SetLogFile)
    <3>1. log_level' = log_level /\ max_age' = max_age /\ log_fd' = log_fd
      BY <2>2 DEF vars, Next, Open, OpenFails, Skip, Set, SetSmall, SetString, SetProportion, EndWalk,
         Chdir, Start, StartFails
    <3> QED
      BY <3>1 DEF TypeOK, NumOK
  <2> QED
    BY <2>1, <2>2
<1>6. PcOK'
  <2>1. HasFile' = HasFile
    BY <1>1 DEF HasFile
  <2>2. pc' \in PC
    BY DEF TypeOK, PcOK, PC, vars, Next, Open, OpenFails, Skip, Set, SetSmall, SetInt, SetString,
       SetLogFile, SetProportion, EndWalk, Chdir, Start, StartFails
  <2>3. pc' \in {"walk", "chdir", "start", "running"} =>
          pc \in {"walk", "chdir", "start", "running"} \/ HasFile
    BY DEF vars, Next, Open, OpenFails, Skip, Set, SetSmall, SetInt, SetString,
       SetLogFile, SetProportion, EndWalk, Chdir, Start, StartFails
  <2> QED
    BY <2>1, <2>2, <2>3 DEF TypeOK, PcOK
<1>7. ix' \in 0 .. Args
  <2>1. CASE Skip
    BY <2>1, SkipWrites DEF Args
  <2>2. CASE SetSmall
    BY <2>2, SmallWrites DEF Args
  <2>3. CASE SetInt \/ SetLogFile
    BY <2>3, OtherWrites DEF Args
  <2>4. CASE SetString
    BY <2>4, StringWrites DEF Args
  <2>5. CASE SetProportion
    BY <2>5, ProportionWrites DEF Args
  <2>6. CASE ~(Skip \/ Set)
    <3>1. ix' = ix
      BY <2>6 DEF vars, Next, Open, OpenFails, EndWalk, Chdir, Start, StartFails
    <3> QED
      BY <3>1 DEF TypeOK
  <2> QED
    BY <2>1, <2>2, <2>3, <2>4, <2>5, <2>6 DEF Set
<1>8. plogs' \in SUBSET (0 .. 3)
  <2>1. plogs' = plogs \/ plogs' = {0} \cup {l \in 1 .. 3 : l <= log_level /\ log_level <= 3}
    BY DEF vars, Next, Open, OpenFails, Skip, Set, SetSmall, SetInt, SetString,
       SetLogFile, SetProportion, EndWalk, Chdir, Start, StartFails
  <2>2. ASSUME NEW l \in {0} \cup {k \in 1 .. 3 : k <= log_level /\ log_level <= 3}
        PROVE  l \in 0 .. 3
    OBVIOUS
  <2> QED
    BY <2>1, <2>2 DEF TypeOK
<1>9. listening' \in SUBSET (0 .. MaxPort)
  <2>1. Port \in Nat
    <3>1. mem[4] \in Byte /\ mem[5] \in Byte /\ mem[6] \in Byte /\ mem[7] \in Byte
      BY DEF TypeOK, MemOK
    <3>2. ASSUME NEW a \in Byte, NEW b \in Byte, NEW c \in Byte, NEW d \in Byte
          PROVE  IntOf(<<a, b, c, d>>) \in Nat
      <4>1. a \in Nat /\ b \in Nat /\ c \in Nat /\ d \in Nat
        BY SMT DEF Byte
      <4>2. IntOf(<<a, b, c, d>>) = a + 256 * b + 65536 * c + 16777216 * d
        BY SMT DEF IntOf
      <4> QED
        BY <4>1, <4>2, SMT
    <3> QED
      BY <3>1, <3>2 DEF Port
  <2>2. Port % (MaxPort + 1) \in 0 .. MaxPort
    BY <2>1, SMTT(30) DEF MaxPort
  <2>3. CASE Start
    BY <2>2, <2>3 DEF Start, Listens
  <2>4. CASE ~Start
    <3>1. listening' = listening
      BY <2>4 DEF vars, Next, Open, OpenFails, Skip, Set, SetSmall, SetInt, SetString, SetLogFile,
         SetProportion, EndWalk, Chdir, StartFails
    <3> QED
      BY <3>1 DEF TypeOK
  <2> QED
    BY <2>3, <2>4
<1> QED
  BY <1>2, <1>3, <1>4, <1>5, <1>6, <1>7, <1>8, <1>9 DEF TypeOK

\* What the walk has done so far stays done.
LEMMA WalkStep ==
  ASSUME IInv, TypeOK', Next, pc' \in Walked
  PROVE  SoFar'
<1> USE DEF Walked, SoFar
<1>1. CASE Open
  <2>1. ix = 0 /\ mem[0] = 0 /\ mem[6] = 0 /\ mem[7] = 0
    BY <1>1 DEF IInv, AtStart, Open
  <2>2. Bytes(2345)[3] = 0 /\ Bytes(2345)[4] = 0
    BY SMT DEF Bytes
  <2>3. /\ pc' = "walk" /\ ix' = 0 /\ img_root' = "./"
        /\ mem'[0] = 0 /\ mem'[1] = 1
        /\ \A i \in 1 .. 4 : mem'[3 + i] = Bytes(2345)[i]
    <3>1. /\ mem'[3 + 1] = Bytes(2345)[1] /\ mem'[3 + 2] = Bytes(2345)[2]
          /\ mem'[3 + 3] = Bytes(2345)[3] /\ mem'[3 + 4] = Bytes(2345)[4]
      BY <1>1, <2>1, <2>2, OpenWrites DEF IInv
    <3>2. \A i \in 1 .. 4 : i \in {1, 2, 3, 4}
      OBVIOUS
    <3> QED
      BY <1>1, <2>1, <3>1, <3>2, OpenWrites DEF IInv
  <2> QED
    BY <2>3 DEF Looping, AtEnd, PortSoFar, ModesSoFar, RootSoFar
<1>2. CASE Skip
  <2>1. /\ pc = "walk" /\ ix \in 0 .. 9 /\ ix' = ix + 1
        /\ UNCHANGED <<conf, mem, str, pc>>
        /\ ix = 0 => ~IsNumber("port")
        /\ ix = 1 => conf["img_root"].type # "string"
        /\ ix = 2 => conf["proportion"].type # "string"
        /\ ix = 7 => ~IsNumber("disk")
    BY <1>2, SkipWrites DEF IInv
  <2>2. Looping' /\ AtEnd'
    BY <2>1 DEF IInv, Looping, Loops, AtEnd
  <2>3. ix = 0 => Number("port", 2345) = 2345
    BY <2>1 DEF IsNumber, Number
  <2>4. PortSoFar'
    <3>1. Number("port", 2345)' = Number("port", 2345) /\ IsNumber("disk")' = IsNumber("disk")
          /\ IsNumber("true_bmp")' = IsNumber("true_bmp") /\ Loops' = Loops
      BY <2>1 DEF Number, IsNumber, Loops
    <3>2. (IF ix' > 0 THEN Number("port", 2345) ELSE 2345) = (IF ix > 0 THEN Number("port", 2345) ELSE 2345)
      BY <2>1, <2>3
    <3> QED
      BY <2>1, <3>1, <3>2 DEF IInv, PortSoFar
  <2>5. ModesSoFar'
    <3>1. ix = 7 => Number("disk", 1) % 256 = 1
      BY <2>1 DEF IsNumber, Number
    <3> QED
      BY <2>1, <3>1 DEF IInv, ModesSoFar, Loops, Number
  <2>6. RootSoFar'
    BY <2>1 DEF IInv, RootSoFar, Loops
  <2> QED
    BY <2>2, <2>4, <2>5, <2>6
<1>3. CASE SetSmall
  <2>1. PICK o \in {"port", "true_bmp", "disk"} :
           /\ At(o) /\ conf[o].type = "number"
           /\ ix' = ix + 1 /\ UNCHANGED <<conf, str, num, plogs, listening, pc>>
           /\ mem'[0] = mem[0]
           /\ o = "port" => ix = 0 /\ mem'[1] = mem[1] /\ \A i \in 1 .. 4 : mem'[3 + i] = Bytes(conf[o].n)[i]
           /\ o = "true_bmp" => ix = 3 /\ mem'[1] = mem[1] /\ mem'[6] = mem[6] /\ mem'[7] = mem[7]
           /\ o = "disk" => ix = 7 /\ mem'[1] = conf[o].n % 256 /\ \A a \in 5 .. 7 : mem'[a] = mem[a]
    BY <1>3, SmallWrites DEF IInv
  <2>2. pc = "walk" /\ ix \in {0, 3, 7}
    BY <2>1 DEF At
  <2>3. Looping' /\ AtEnd'
    BY <2>1, <2>2 DEF IInv, Looping, Loops, AtEnd
  <2>4. RootSoFar'
    BY <2>1, <2>2 DEF IInv, RootSoFar, Loops
  <2>5. ModesSoFar'
    BY <2>1, <2>2 DEF IInv, ModesSoFar, Loops, Number, IsNumber
  <2>6. PortSoFar'
    <3>1. Number("port", 2345)' = Number("port", 2345) /\ IsNumber("disk")' = IsNumber("disk")
          /\ IsNumber("true_bmp")' = IsNumber("true_bmp") /\ Loops' = Loops
      BY <2>1 DEF Number, IsNumber, Loops
    <3>2. CASE o = "port"
      BY <2>1, <3>1, <3>2 DEF PortSoFar, Number, IsNumber
    <3>3. SUFFICES ASSUME o # "port", ~Loops, NEW i \in 1 .. 4,
                          i = 1 => ~IsNumber("disk"), i <= 2 => ~IsNumber("true_bmp")
                   PROVE  mem'[3 + i] = Bytes(Number("port", 2345))[i]
      BY <2>1, <2>2, <3>1, <3>2 DEF PortSoFar
    <3>4. mem[3 + i] = Bytes(Number("port", 2345))[i]
      BY <2>1, <2>2, <3>3 DEF IInv, PortSoFar
    <3>5. CASE o = "true_bmp"
      <4>1. i \in {3, 4}
        BY <2>1, <3>3, <3>5 DEF IsNumber
      <4> QED
        BY <2>1, <3>4, <3>5, <4>1
    <3>6. CASE o = "disk"
      <4>1. 3 + i \in 5 .. 7
        BY <2>1, <3>3, <3>6 DEF IsNumber
      <4> QED
        BY <2>1, <3>4, <3>6, <4>1
    <3> QED
      BY <3>3, <3>5, <3>6
  <2> QED
    BY <2>3, <2>4, <2>5, <2>6
<1>4. CASE SetInt \/ SetLogFile
  <2>1. /\ pc = "walk" /\ ix \in {5, 6, 9} /\ ix' = ix + 1
        /\ UNCHANGED <<conf, mem, str, pc>>
    BY <1>4, OtherWrites DEF IInv
  <2> QED
    BY <2>1 DEF IInv, Looping, Loops, AtEnd, PortSoFar, ModesSoFar, RootSoFar, Number, IsNumber
<1>5. CASE SetString
  <2>1. /\ pc = "walk" /\ ix \in {1, 4, 8} /\ ix' = ix + 1
        /\ UNCHANGED <<conf, mem, pc>>
        /\ ix = 1 => conf["img_root"].type = "string" /\ img_root' = conf["img_root"].s
        /\ ix = 4 => conf["no_support"].type = "string"
        /\ ix = 8 => img_root' = img_root
    BY <1>5, StringWrites DEF IInv
  <2>2. Looping' /\ AtEnd' /\ ModesSoFar' /\ PortSoFar'
    BY <2>1 DEF IInv, Looping, Loops, AtEnd, PortSoFar, ModesSoFar, Number, IsNumber
  <2>3. RootSoFar'
    BY <2>1 DEF IInv, RootSoFar, Loops
  <2> QED
    BY <2>2, <2>3
<1>6. CASE SetProportion
  <2>1. pc = "walk" /\ UNCHANGED <<conf, pc>>
    BY <1>6 DEF SetProportion, At
  <2>2. /\ ix = 2 /\ conf["proportion"].type = "string"
        /\ Loops => ix' \in 1 .. 2
        /\ ~Loops => /\ ix' \in 3 .. 5 /\ UNCHANGED str
                     /\ \A a \in {1, 4, 5, 6, 7} : mem'[a] = mem[a]
                     /\ mem'[0] = IF conf["proportion"].s = "matte" THEN 2 ELSE mem[0]
    BY <1>6, ProportionWrites DEF IInv
  <2>3. Loops' = Loops
    BY <2>1 DEF Loops
  <2>4. Looping' /\ AtEnd'
    BY <2>1, <2>2, <2>3 DEF Looping, AtEnd
  <2>5. RootSoFar' /\ ModesSoFar'
    BY <2>1, <2>2, <2>3 DEF IInv, RootSoFar, ModesSoFar, Number
  <2>6. PortSoFar'
    <3>1. SUFFICES ASSUME ~Loops, NEW i \in 1 .. 4,
                          i = 1 => ~IsNumber("disk"), i <= 2 => ~IsNumber("true_bmp")
                   PROVE  mem'[3 + i] = Bytes(Number("port", 2345))[i]
      BY <2>1, <2>2, <2>3 DEF PortSoFar, IsNumber, Number
    <3>2. mem[3 + i] = Bytes(Number("port", 2345))[i]
      BY <2>1, <2>2, <3>1 DEF IInv, PortSoFar
    <3>3. 3 + i \in {4, 5, 6, 7}
      OBVIOUS
    <3> QED
      BY <2>2, <3>1, <3>2, <3>3
  <2> QED
    BY <2>4, <2>5, <2>6
<1>7. CASE EndWalk \/ Chdir \/ Start
  <2>1. pc \in Walked /\ UNCHANGED <<conf, mem, str, ix>> /\ pc' # "walk" /\ ix = Args
    BY <1>7 DEF EndWalk, Chdir, Start, IInv, AtEnd
  <2>2. ~Loops
    BY <2>1 DEF IInv, Looping, Args
  <2> QED
    BY <2>1, <2>2 DEF IInv, Looping, Loops, AtEnd, PortSoFar, ModesSoFar, RootSoFar, Number, IsNumber
<1>8. CASE OpenFails \/ StartFails
  BY <1>8 DEF OpenFails, StartFails
<1> QED
  BY <1>1, <1>2, <1>3, <1>4, <1>5, <1>6, <1>7, <1>8 DEF Next, Set

\* The invariant holds in every reachable state.
LEMMA Invariance == Spec => []IInv
<1>1. Init => IInv
  <2> SUFFICES ASSUME Init
               PROVE  IInv
    OBVIOUS
  <2>1. ConfOK /\ PcOK
    BY GivenAssumption DEF Init, ConfOK, PcOK, PC, HasFile
  <2>2. MemOK
    <3>1. 0 \in Byte
      BY SMT DEF Byte
    <3> QED
      BY <3>1 DEF Init, MemOK
  <2>3. StrOK
    BY DEF Init, StrOK
  <2>4. NumOK
    <3>1. MaxInt \in Nat
      BY SMT DEF MaxInt
    <3> QED
      <4>1. 0 \in 0 .. MaxInt
        BY <3>1
      <4>2. log_level = 0 /\ max_age = 0 /\ log_fd = 0
        BY DEF Init
      <4> QED
        BY <4>1, <4>2 DEF NumOK
  <2>5. ix \in 0 .. Args /\ listening \in SUBSET (0 .. MaxPort)
    <3>1. ix = 0 /\ listening = {}
      BY DEF Init
    <3> QED
      BY <3>1 DEF Args
  <2>6. plogs \in SUBSET (0 .. 3)
    <3>1. 0 \in 0 .. 3
      OBVIOUS
    <3> QED
      BY <3>1 DEF Init
  <2>7. AtStart /\ pc \notin Walked
    BY DEF Init, AtStart, Walked
  <2> QED
    BY <2>1, <2>2, <2>3, <2>4, <2>5, <2>6, <2>7 DEF IInv, TypeOK
<1>2. IInv /\ [Next]_vars => IInv'
  <2> SUFFICES ASSUME IInv, [Next]_vars
               PROVE  IInv'
    OBVIOUS
  <2>1. TypeOK'
    BY TypeStep DEF IInv
  <2>2. AtStart'
    BY DEF IInv, AtStart, vars, Next, Open, OpenFails, Skip, Set, SetSmall, SetInt, SetString,
       SetLogFile, SetProportion, At, EndWalk, Chdir, Start, StartFails
  <2>3. CASE Next
    BY <2>1, <2>2, <2>3, WalkStep DEF IInv
  <2>4. CASE UNCHANGED vars
    BY <2>1, <2>2, <2>4 DEF IInv, vars, Walked, SoFar, Looping, Loops, AtEnd, PortSoFar, ModesSoFar,
       RootSoFar, Number, IsNumber
  <2> QED
    BY <2>3, <2>4
<1> QED
  BY <1>1, <1>2, PTL DEF Spec

-----------------------------------------------------------------------------
\* The walk stays inside its table, for every file (lines 748-786).
THEOREM WalkInTable == Spec => []TypeOK
<1>1. IInv => TypeOK
  BY DEF IInv
<1> QED
  BY <1>1, Invariance, PTL

\* Only true_bmp and disk reach into the port (lines 755 and 778).
THEOREM PortIsKept == Spec => []PortKept
<1>1. IInv => PortKept
  BY DEF IInv, Walked, SoFar, Looping, AtEnd, Args, PortSoFar, PortKept
<1> QED
  BY <1>1, Invariance, PTL

\* Every option but the port reaches the running server as OptionsKept says: disk as a
\* number only (757), the mode and the root past what other options write over them.
THEOREM OptionsAreKept == Spec => []OptionsKept
<1>1. IInv /\ pc = "running" => ModesKept
  BY DEF IInv, Walked, SoFar, Looping, AtEnd, Args, ModesSoFar, ModesKept
<1>2. IInv /\ pc = "running" => RootKept
  BY DEF IInv, Walked, SoFar, Looping, AtEnd, Args, RootSoFar, RootKept
<1>3. IInv => OptionsKept
  BY <1>1, <1>2 DEF OptionsKept
<1> QED
  BY <1>3, Invariance, PTL
=============================================================================
