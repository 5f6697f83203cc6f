------------------------------- MODULE Config -------------------------------
(***************************************************************************)
(* The start of apophnia (main and read_config, C/apophnia.c): from the    *)
(* configuration file to the port the server listens on.                   *)
(*                                                                         *)
(* read_config walks its table of options.  It writes numbers as four      *)
(* bytes whatever the field, and it uses the walk's own index ix for the   *)
(* search of a word inside the walk.  So the one-byte fields proportion,   *)
(* b_disk and true_bmp and the integer port behind them are modelled byte  *)
(* by byte; strings are opaque.                                            *)
(***************************************************************************)
EXTENDS Integers, Sequences

CONSTANTS
  Word,     \* strings the file may hold
  Given,    \* what the file may say: a set of functions from options to items
  Dirs,     \* the words, "./" included, that name a directory
  NoFile, NotJson   \* there is no file; it does not parse

Option == {"port", "img_root", "proportion", "true_bmp", "no_support",
           "log_level", "log_file", "disk", "404", "max_age"}

\* The table args: the option, the field its value goes to, the type it must have.
Arg(a, p, t) == [arg |-> a, param |-> p, type |-> t]
table == << Arg("port", "port", "number"),          Arg("img_root", "img_root", "string"),
            Arg("proportion", "proportion", "string"), Arg("true_bmp", "true_bmp", "number"),
            Arg("no_support", "img_root", "string"), Arg("log_level", "log_level", "number"),
            Arg("log_file", "log_fd", "string"),     Arg("disk", "b_disk", "number"),
            Arg("404", "badfile_fd", "string"),      Arg("max_age", "max_age", "number") >>
Args    == 10
args(i) == table[i + 1]

proportion    == <<"squash", "crop", "matte", "seamcarve">>
proportions   == {proportion[j] : j \in 1 .. 4}
Index(word)   == IF word \in proportions THEN (CHOOSE j \in 1 .. 4 : proportion[j] = word) - 1 ELSE 4

Byte    == 0 .. 255
MaxInt  == 2147483647
MaxPort == 65535

\* An item of the file.  n is its value as a number (of a boolean: 0 or 1), s as a string.
Types == {"absent", "number", "string", "boolean", "other"}
Item  == [type : Types, n : 0 .. MaxInt, s : Word]

ASSUME WordAssumption  == proportions \cup {"./"} \subseteq Word /\ Dirs \subseteq Word
ASSUME GivenAssumption == /\ Given \subseteq [Option -> Item]
                          /\ NoFile \notin Given /\ NotJson \notin Given

\* Four bytes of an int, the lowest first, and the int they make.
Bytes(v) == <<v % 256, (v \div 256) % 256, (v \div 65536) % 256, (v \div 16777216) % 256>>
IntOf(b) == b[1] + 256 * b[2] + 65536 * b[3] + 16777216 * b[4]

\* Where the small fields lie, from proportion on; byte 3 is padding.
Offset == [proportion |-> 0, b_disk |-> 1, true_bmp |-> 2, port |-> 4]

VARIABLES
  conf,      \* the file
  mem,       \* the eight bytes of proportion, b_disk, true_bmp and port
  img_root, badfile_fd, log_level, max_age, log_fd,   \* the other fields of g_opts
  ix,        \* the walk's index
  plogs,     \* the levels whose log function is the real one
  listening, \* the ports the server listens on
  pc

str  == <<img_root, badfile_fd>>
num  == <<log_level, max_age, log_fd>>
vars == <<conf, mem, str, num, ix, plogs, listening, pc>>

PC == {"open", "walk", "chdir", "start", "running", "fatal", "crashed"}

HasFile == conf \notin {NoFile, NotJson}

\* memset of g_opts; nothing is read yet.
Init == /\ conf \in Given \cup {NoFile, NotJson}
        /\ mem = [a \in 0 .. 7 |-> 0]
        /\ img_root = "" /\ badfile_fd = ""
        /\ log_level = 0 /\ max_age = 0 /\ log_fd = 0
        /\ ix = 0 /\ plogs = {0} /\ listening = {}
        /\ pc = "open"

\* ((int*)param)[0] = v, at the small field p.
PutInt(p, v) ==
  mem' = [a \in 0 .. 7 |-> IF a \in Offset[p] .. Offset[p] + 3 THEN Bytes(v)[a - Offset[p] + 1]
                           ELSE mem[a]]

Port == IntOf(<<mem[4], mem[5], mem[6], mem[7]>>)

-----------------------------------------------------------------------------
\* The file is opened and parsed, and the defaults are set.
Open ==
  /\ pc = "open" /\ HasFile
  /\ pc' = "walk"
  /\ mem' = [mem EXCEPT ![1] = 1, ![4] = Bytes(2345)[1], ![5] = Bytes(2345)[2]]
  /\ img_root' = "./"
  /\ UNCHANGED <<conf, badfile_fd, num, ix, plogs, listening>>

OpenFails ==
  /\ pc = "open" /\ ~HasFile
  /\ pc' = IF conf = NoFile THEN "fatal" ELSE "crashed"
  /\ UNCHANGED <<conf, mem, str, num, ix, plogs, listening>>

At(option) == pc = "walk" /\ ix < Args /\ args(ix).arg = option
Fits       == conf[args(ix).arg].type = args(ix).type

\* Mutant of Skip: an option that is left out is not stepped over.
Skip_Stays ==
  /\ pc = "walk" /\ ix < Args /\ ~Fits
  /\ ix' = IF conf[args(ix).arg].type = "absent" THEN ix + 1 ELSE ix
  /\ UNCHANGED <<conf, mem, str, num, plogs, listening, pc>>

Skip ==
  /\ pc = "walk" /\ ix < Args /\ ~Fits
  /\ ix' = ix + 1
  /\ UNCHANGED <<conf, mem, str, num, plogs, listening, pc>>

\* Mutant of SetSmall: the table sends disk to true_bmp.
SetSmall_Next ==
  /\ \E o \in {"port", "true_bmp", "disk"} :
       At(o) /\ Fits /\ PutInt(IF o = "disk" THEN "true_bmp" ELSE args(ix).param, conf[o].n)
  /\ ix' = ix + 1
  /\ UNCHANGED <<conf, str, num, plogs, listening, pc>>

\* Numbers that end in the small fields: four bytes each.
SetSmall ==
  /\ \E o \in {"port", "true_bmp", "disk"} :
       At(o) /\ Fits /\ PutInt(args(ix).param, conf[o].n)
  /\ ix' = ix + 1
  /\ UNCHANGED <<conf, str, num, plogs, listening, pc>>

SetInt ==
  /\ \/ At("log_level") /\ Fits /\ log_level' = conf["log_level"].n /\ UNCHANGED max_age
     \/ At("max_age") /\ Fits /\ max_age' = conf["max_age"].n /\ UNCHANGED log_level
  /\ ix' = ix + 1
  /\ UNCHANGED <<conf, mem, str, log_fd, plogs, listening, pc>>

SetString ==
  /\ \E o \in {"img_root", "no_support", "404"} :
       /\ At(o) /\ Fits
       /\ IF args(ix).param = "img_root" THEN img_root' = conf[o].s /\ UNCHANGED badfile_fd
                                         ELSE badfile_fd' = conf[o].s /\ UNCHANGED img_root
  /\ ix' = ix + 1
  /\ UNCHANGED <<conf, mem, num, plogs, listening, pc>>

\* Whether or not the open succeeds: -1 is not 0 (3 is the file itself).
SetLogFile ==
  /\ At("log_file") /\ Fits
  /\ log_fd' \in {4, -1}
  /\ ix' = ix + 1
  /\ UNCHANGED <<conf, mem, str, log_level, max_age, plogs, listening, pc>>

\* ((char*)param)[0] = v, at the field p.
PutByte(p, v) ==
  IF p = "img_root" THEN img_root' = "clobbered" /\ UNCHANGED <<mem, badfile_fd>>
                    ELSE mem' = [mem EXCEPT ![Offset[p]] = v] /\ UNCHANGED str

\* Mutant of SetProportion: the byte is written after ix has moved on.
SetProportion_Late ==
  /\ At("proportion") /\ Fits
  /\ LET j == Index(conf["proportion"].s) IN
       /\ IF j < 4 THEN PutByte(args(j + 1).param, j) ELSE UNCHANGED <<mem, str>>
       /\ ix' = j + 1
  /\ UNCHANGED <<conf, num, plogs, listening, pc>>

\* The search for the word uses ix: the walk goes on after the word's place in
\* proportion[], and the byte goes to the field of the option at that place.
SetProportion ==
  /\ At("proportion") /\ Fits
  /\ LET j == Index(conf["proportion"].s) IN
       /\ IF j < 4 THEN PutByte(args(j).param, j) ELSE UNCHANGED <<mem, str>>
       /\ ix' = j + 1
  /\ UNCHANGED <<conf, num, plogs, listening, pc>>

\* The switch over log_level falls through; a level above 3 turns nothing on.
EndWalk ==
  /\ pc = "walk" /\ ix = Args
  /\ plogs' = {0} \cup {l \in 1 .. 3 : l <= log_level /\ log_level <= 3}
  /\ pc' = "chdir"
  /\ UNCHANGED <<conf, mem, str, num, ix, listening>>

Chdir ==
  /\ pc = "chdir"
  /\ pc' = IF img_root \in Dirs THEN "start" ELSE "fatal"
  /\ UNCHANGED <<conf, mem, str, num, ix, plogs, listening>>

\* itoa makes "" of 0, which mongoose takes for an empty list of ports; it cuts a
\* port to sixteen bits.
Listens(p) == IF p = 0 THEN {} ELSE {p % (MaxPort + 1)}

Start ==
  /\ pc = "start"
  /\ listening' = Listens(Port)
  /\ pc' = "running"
  /\ UNCHANGED <<conf, mem, str, num, ix, plogs>>

\* The port is taken.
StartFails ==
  /\ pc = "start" /\ Port # 0
  /\ pc' = "fatal"
  /\ UNCHANGED <<conf, mem, str, num, ix, plogs, listening>>

Set == SetSmall \/ SetInt \/ SetString \/ SetLogFile \/ SetProportion

Next == Open \/ OpenFails \/ Skip \/ Set \/ EndWalk \/ Chdir \/ Start \/ StartFails

Spec == Init /\ [][Next]_vars

\* main runs on.
FairSpec == Spec /\ WF_vars(Next)

-----------------------------------------------------------------------------
\* Types, and the walk inside its table.
ConfOK == HasFile => conf \in [Option -> Item]
MemOK  == mem \in [0 .. 7 -> Byte]
StrOK  == img_root \in Word \cup {"", "clobbered"} /\ badfile_fd \in Word \cup {""}
NumOK  == log_level \in 0 .. MaxInt /\ max_age \in 0 .. MaxInt /\ log_fd \in {-1, 0, 4}
PcOK   == pc \in PC /\ (pc \in {"walk", "chdir", "start", "running"} => HasFile)
TypeOK == /\ ConfOK /\ MemOK /\ StrOK /\ NumOK /\ PcOK
          /\ ix \in 0 .. Args
          /\ plogs \in SUBSET (0 .. 3) /\ listening \in SUBSET (0 .. MaxPort)

Number(option, default) == IF conf[option].type = "number" THEN conf[option].n ELSE default
IsNumber(option)        == conf[option].type = "number"

\* Nothing the walk does on the way to a running server moves the port, its own
\* index included: "squash" would, but never gets there.  What does are the numbers
\* of the options true_bmp and disk, which reach two bytes and one byte into it
\* (lines 755 and 778).
PortKept ==
  pc = "running" => \A i \in 1 .. 4 :
    (i = 1 => ~IsNumber("disk")) /\ (i <= 2 => ~IsNumber("true_bmp"))
      => mem[3 + i] = Bytes(Number("port", 2345))[i]

ModesKept == /\ mem[1] = Number("disk", 1) % 256
             /\ mem[0] = IF conf["proportion"].type = "string" /\ conf["proportion"].s = "matte" THEN 2 ELSE 0
RootKept  == conf["no_support"].type # "string" =>
               img_root = IF conf["img_root"].type = "string" THEN conf["img_root"].s ELSE "./"

\* What the other options come to when the server runs, none spoilt by another but the root.
\* b_disk is the low byte of the number given for disk, so that 256 turns the writing off, and 1
\* for anything else: the boolean that README.md 125 documents is passed over (757), and
\* "disk": false goes on writing.  The mode is the one the file names only if that is "matte":
\* "seamcarve" and unknown words leave the default.  The root is the one it was told, unless
\* no_support is given a word, which the table sends there too (106).
OptionsKept == pc = "running" => ModesKept /\ RootKept

\* The start ends, but for two of the four documented values of proportion.
Ends ==
  pc = "open" ~> \/ pc \in {"running", "fatal", "crashed"}
                 \/ /\ HasFile /\ conf["proportion"].type = "string"
                    /\ conf["proportion"].s \in {"squash", "crop"}
=============================================================================
