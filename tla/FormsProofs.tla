---------------------------- MODULE FormsProofs ----------------------------
(***************************************************************************)
(* What is proved of the modules that the run of the forms checks.         *)
(*                                                                         *)
(* First cJSON's list operations, for any number of items and of           *)
(* operations: every list reads the same both ways and holds what was put  *)
(* there.  Trees come first, then lists, then one lemma per operation.     *)
(*                                                                         *)
(* Then mongoose's loops over a text or a list (Scans), for every text,    *)
(* list and size: a general lemma says that a recursion describes a        *)
(* function, and the rest is induction along it, one lemma per turn.       *)
(***************************************************************************)
EXTENDS JsonList, Scans, FiniteSetTheorems, SequenceTheorems, WellFoundedInduction, TLAPS

-----------------------------------------------------------------------------
(* What is reached from an item. *)

Graph == [Node -> SUBSET Node]

\* It is there, and its successors are reached.
LEMMA ReachedIs ==
  ASSUME NEW e \in Graph, NEW c \in Node
  PROVE  /\ Reached(e, c) \in SUBSET Node /\ c \in Reached(e, c)
         /\ \A m \in Reached(e, c) : e[m] \subseteq Reached(e, c)
<1>1. Reached(e, c) \in SUBSET Node /\ c \in Reached(e, c)
  BY DEF Reached
<1>2. ASSUME NEW m \in Reached(e, c), NEW n \in e[m]
      PROVE  n \in Reached(e, c)
  <2>1. m \in Node /\ n \in Node
    BY <1>1 DEF Graph
  <2>2. ASSUME NEW S \in SUBSET Node, c \in S, \A x \in S : e[x] \subseteq S
        PROVE  n \in S
    <3>1. m \in S
      BY <2>2 DEF Reached
    <3> QED
      BY <2>2, <3>1
  <2> QED
    BY <2>1, <2>2 DEF Reached
<1> QED
  BY <1>1, <1>2

\* No set that holds the item and its members' successors is smaller.
LEMMA ReachedLeast ==
  ASSUME NEW e, NEW c \in Node, NEW S \in SUBSET Node, c \in S, \A m \in S : e[m] \subseteq S
  PROVE  Reached(e, c) \subseteq S
BY DEF Reached

\* What is reached has a predecessor that is reached, but for the item itself.
LEMMA ReachedFrom ==
  ASSUME NEW e \in Graph, NEW c \in Node, NEW n \in Reached(e, c), n # c
  PROVE  \E m \in Reached(e, c) : n \in e[m]
<1> DEFINE R == Reached(e, c)
<1>1. SUFFICES ASSUME \A m \in R : n \notin e[m]
               PROVE  FALSE
  OBVIOUS
<1>2. R \in SUBSET Node /\ c \in R /\ \A m \in R : e[m] \subseteq R
  BY ReachedIs
<1> HIDE DEF R
<1>3. R \ {n} \in SUBSET Node /\ c \in R \ {n} /\ \A m \in R \ {n} : e[m] \subseteq R \ {n}
  BY <1>1, <1>2
<1>4. Reached(e, c) \subseteq R \ {n}
  BY <1>3, ReachedLeast
<1> QED
  BY <1>4 DEF R

-----------------------------------------------------------------------------
(* Trees: nobody has two parents, and what is owned has none. *)

Forest(e, o) == /\ e \in Graph /\ o \in SUBSET Node
                /\ \A a, b \in Node : \A c \in e[a] : c \in e[b] => a = b
                /\ \A c \in o : \A a \in Node : c \notin e[a]

All(e, o) == UNION {Reached(e, c) : c \in o}

\* What is owned is there, and with an item all its children.
LEMMA AllIs ==
  ASSUME NEW e \in Graph, NEW o \in SUBSET Node
  PROVE  /\ All(e, o) \in SUBSET Node /\ o \subseteq All(e, o)
         /\ \A m \in All(e, o) : e[m] \subseteq All(e, o)
<1>1. ASSUME NEW c \in o
      PROVE  /\ Reached(e, c) \in SUBSET Node /\ c \in Reached(e, c)
             /\ \A m \in Reached(e, c) : e[m] \subseteq Reached(e, c)
  BY ReachedIs
<1> QED
  BY <1>1 DEF All

\* No set that holds what is owned and its members' children is smaller.
LEMMA AllLeast ==
  ASSUME NEW e, NEW o \in SUBSET Node, NEW S \in SUBSET Node, o \subseteq S, \A m \in S : e[m] \subseteq S
  PROVE  All(e, o) \subseteq S
<1>1. ASSUME NEW c \in o
      PROVE  Reached(e, c) \subseteq S
  BY ReachedLeast
<1> QED
  BY <1>1 DEF All

\* Someone's child is not above its parent.
LEMMA NoCycle ==
  ASSUME NEW e, NEW o, Forest(e, o), NEW a \in All(e, o), NEW c \in e[a]
  PROVE  a \notin Reached(e, c)
<1> DEFINE B == Reached(e, c)
           X == All(e, o) \ B
<1>1. e \in Graph /\ o \in SUBSET Node
  BY DEF Forest
<1>2. /\ All(e, o) \in SUBSET Node /\ o \subseteq All(e, o)
      /\ \A m \in All(e, o) : e[m] \subseteq All(e, o)
  BY <1>1, AllIs
<1>3. a \in Node /\ c \in Node
  BY <1>1, <1>2 DEF Graph
<1>4. c \in B /\ B \in SUBSET Node
  BY <1>1, <1>3, ReachedIs
<1>5. \A n \in B : n # c => \E m \in B : n \in e[m]
  BY <1>1, <1>3, ReachedFrom
<1> SUFFICES ASSUME a \in B PROVE FALSE
  OBVIOUS
<1> HIDE DEF B
<1>6. o \subseteq X
  BY <1>2, <1>3, <1>4, <1>5 DEF Forest
<1>7. \A m \in X : e[m] \subseteq X
  <2> SUFFICES ASSUME NEW m \in X, NEW n \in e[m], n \in B PROVE FALSE
    BY <1>2
  <2>1. CASE n = c
    BY <1>2, <1>3, <2>1 DEF Forest
  <2>2. CASE n # c
    <3>1. PICK p \in B : n \in e[p]
      BY <1>5, <2>2
    <3> QED
      BY <1>2, <1>4, <3>1 DEF Forest
  <2> QED
    BY <2>1, <2>2
<1>8. All(e, o) \subseteq X
  BY <1>1, <1>2, <1>6, <1>7, AllLeast
<1> QED
  BY <1>2, <1>4, <1>8

\* A tree becomes a child.
LEMMA Joined ==
  ASSUME NEW e, NEW o, Forest(e, o), NEW c \in o, NEW a \in All(e, o), a \notin Reached(e, c)
  PROVE  LET f == [e EXCEPT ![a] = @ \cup {c}]
         IN Forest(f, o \ {c}) /\ All(f, o \ {c}) = All(e, o)
<1> DEFINE f == [e EXCEPT ![a] = @ \cup {c}]
           q == o \ {c}
           G == All(e, o)
           H == All(f, q)
<1>1. e \in Graph /\ o \in SUBSET Node
  BY DEF Forest
<1>2. G \in SUBSET Node /\ o \subseteq G /\ \A m \in G : e[m] \subseteq G
  BY <1>1, AllIs
<1>3. f \in Graph /\ q \in SUBSET Node /\ \A m \in Node : f[m] = IF m = a THEN e[m] \cup {c} ELSE e[m]
  BY <1>1, <1>2 DEF Graph
<1>4. Forest(f, q)
  BY <1>1, <1>2, <1>3 DEF Forest
<1>5. H \in SUBSET Node /\ q \subseteq H /\ \A m \in H : f[m] \subseteq H
  BY <1>3, AllIs
<1>6. H \subseteq G
  <2> HIDE DEF f, G
  <2>1. q \subseteq G /\ \A m \in G : f[m] \subseteq G
    BY <1>2, <1>3
  <2> QED
    BY <1>2, <1>3, <2>1, AllLeast
<1> HIDE DEF H
<1>7. \A m \in H : e[m] \subseteq H
  BY <1>3, <1>5
<1>8. a \in H
  <2>1. PICK b \in o : a \in Reached(e, b)
    BY DEF All
  <2>2. b \in H /\ b \in Node
    BY <1>1, <1>5, <2>1
  <2>3. Reached(e, b) \subseteq H
    BY <1>5, <1>7, <2>2, ReachedLeast
  <2> QED
    BY <2>1, <2>3
<1>9. c \in H
  BY <1>2, <1>3, <1>5, <1>8
<1>10. G \subseteq H
  BY <1>1, <1>5, <1>7, <1>9, AllLeast
<1> QED
  BY <1>4, <1>6, <1>10 DEF H

\* A child becomes a tree.
LEMMA Parted ==
  ASSUME NEW e, NEW o, Forest(e, o), NEW a \in All(e, o), NEW c \in e[a]
  PROVE  LET f == [e EXCEPT ![a] = @ \ {c}]
         IN Forest(f, o \cup {c}) /\ All(f, o \cup {c}) = All(e, o)
<1> DEFINE f == [e EXCEPT ![a] = @ \ {c}]
           q == o \cup {c}
           G == All(e, o)
           H == All(f, q)
<1>1. e \in Graph /\ o \in SUBSET Node
  BY DEF Forest
<1>2. G \in SUBSET Node /\ o \subseteq G /\ \A m \in G : e[m] \subseteq G
  BY <1>1, AllIs
<1>3. /\ f \in Graph /\ q \in SUBSET Node /\ c \in G
      /\ \A m \in Node : f[m] = IF m = a THEN e[m] \ {c} ELSE e[m]
  BY <1>1, <1>2 DEF Graph
<1>4. Forest(f, q)
  BY <1>1, <1>2, <1>3 DEF Forest
<1>5. H \in SUBSET Node /\ q \subseteq H /\ \A m \in H : f[m] \subseteq H
  BY <1>3, AllIs
<1>6. H \subseteq G
  <2> HIDE DEF f, G
  <2>1. q \subseteq G /\ \A m \in G : f[m] \subseteq G
    BY <1>2, <1>3
  <2> QED
    BY <1>2, <1>3, <2>1, AllLeast
<1> HIDE DEF H
<1>7. \A m \in H : e[m] \subseteq H
  BY <1>3, <1>5
<1>8. G \subseteq H
  BY <1>1, <1>5, <1>7, AllLeast
<1> QED
  BY <1>4, <1>6, <1>8 DEF H

\* A tree is felled: nothing else is below it.
LEMMA Felled ==
  ASSUME NEW e, NEW o, Forest(e, o), NEW c \in o
  PROVE  LET B == Reached(e, c)
             f == [m \in Node |-> IF m \in B THEN {} ELSE e[m]]
         IN /\ Forest(f, o \ {c}) /\ All(f, o \ {c}) = All(e, o) \ B
            /\ \A m \in Node \ B : e[m] \cap B = {}
<1> DEFINE B == Reached(e, c)
           f == [m \in Node |-> IF m \in B THEN {} ELSE e[m]]
           q == o \ {c}
           G == All(e, o)
           H == All(f, q)
<1>1. e \in Graph /\ o \in SUBSET Node /\ c \in Node
  BY DEF Forest
<1>2. G \in SUBSET Node /\ o \subseteq G /\ \A m \in G : e[m] \subseteq G
  BY <1>1, AllIs
<1>3. c \in B /\ B \in SUBSET Node /\ \A m \in B : e[m] \subseteq B
  BY <1>1, ReachedIs
<1>4. \A n \in B : n # c => \E m \in B : n \in e[m]
  BY <1>1, ReachedFrom
<1>5. B \subseteq G
  BY DEF All
<1> HIDE DEF B
<1>6. \A m \in Node \ B : e[m] \cap B = {}
  BY <1>3, <1>4 DEF Forest
<1>7. f \in Graph /\ q \in SUBSET Node
  BY <1>1 DEF Graph
<1>8. Forest(f, q)
  BY <1>1, <1>7 DEF Forest
<1>9. H \in SUBSET Node /\ q \subseteq H /\ \A m \in H : f[m] \subseteq H
  BY <1>7, AllIs
<1>10. q \cap B = {}
  BY <1>1, <1>3, <1>4 DEF Forest
<1>11. H \subseteq G \ B
  <2>1. q \subseteq G \ B /\ G \ B \in SUBSET Node
    BY <1>2, <1>10
  <2>2. \A m \in G \ B : f[m] \subseteq G \ B
    BY <1>2, <1>6
  <2> QED
    BY <1>7, <2>1, <2>2, AllLeast
<1>12. G \subseteq H \cup B
  <2>1. o \subseteq H \cup B /\ H \cup B \in SUBSET Node
    BY <1>3, <1>9
  <2>2. \A m \in H \cup B : e[m] \subseteq H \cup B
    BY <1>3, <1>9
  <2> QED
    BY <1>1, <2>1, <2>2, AllLeast
<1> QED
  BY <1>6, <1>8, <1>11, <1>12 DEF B

\* An item of its own.
LEMMA Planted ==
  ASSUME NEW e, NEW o, Forest(e, o), NEW n \in Node, e[n] = {}, \A a \in Node : n \notin e[a]
  PROVE  Forest(e, o \cup {n}) /\ All(e, o \cup {n}) = All(e, o) \cup {n} /\ Reached(e, n) = {n}
<1>1. e \in Graph /\ o \in SUBSET Node
  BY DEF Forest
<1>2. Forest(e, o \cup {n})
  BY DEF Forest
<1>3. Reached(e, n) \subseteq {n}
  <2>1. {n} \in SUBSET Node /\ n \in {n} /\ \A m \in {n} : e[m] \subseteq {n}
    OBVIOUS
  <2> QED
    BY <2>1, ReachedLeast
<1>4. n \in Reached(e, n)
  BY <1>1, ReachedIs
<1> QED
  BY <1>2, <1>3, <1>4 DEF All

-----------------------------------------------------------------------------
(* Lists: a walk along next reads what is linked. *)

Ptr  == Node \cup {0}
Item == [used : BOOLEAN, next : Ptr, prev : Ptr, child : Ptr, ref : Ptr]
Heap == [Node -> Item]

Simple(s) == \A i, j \in 1 .. Len(s) : s[i] = s[j] => i = j

\* The children of a are s, both ways.
IsList(h, a, s) ==
  /\ Links(h, h[a].child, s)
  /\ \A i \in DOMAIN s : h[s[i]].prev = IF i = 1 THEN 0 ELSE s[i - 1]

\* NULL is no item.
LEMMA NoNull == 0 \notin Node
BY NodeAssumption

\* A set of numbers has a least one.
LEMMA Least ==
  ASSUME NEW S \in SUBSET Nat, S # {}
  PROVE  \E i \in S : \A j \in S : i <= j
<1>1. PICK i \in S : \A j \in S : ~ (<<j, i>> \in OpToRel(<, Nat))
  BY WFMin, NatLessThanWellFounded, Zenon
<1>2. \A j \in S : ~ (j < i)
  BY <1>1 DEF OpToRel
<1> QED
  BY <1>2

\* A walk, by places.
LEMMA LinksIs ==
  ASSUME NEW h, NEW c, NEW s \in Seq(Node)
  PROVE  Links(h, c, s) <=>
           /\ c = IF Len(s) = 0 THEN 0 ELSE s[1]
           /\ \A i \in 1 .. Len(s) : h[s[i]].next = IF i = Len(s) THEN 0 ELSE s[i + 1]
<1>1. DOMAIN s = 1 .. Len(s) /\ (s = <<>> <=> Len(s) = 0)
  OBVIOUS
<1> QED
  BY <1>1 DEF Links

\* There is one way from c to the end.
LEMMA OneWay ==
  ASSUME NEW h, NEW c, NEW s \in Seq(Node), NEW t \in Seq(Node), Links(h, c, s), Links(h, c, t),
         Len(s) <= Len(t)
  PROVE  s = t
<1>1. /\ c = IF Len(s) = 0 THEN 0 ELSE s[1]
      /\ \A i \in 1 .. Len(s) : h[s[i]].next = IF i = Len(s) THEN 0 ELSE s[i + 1]
  BY LinksIs
<1>2. /\ c = IF Len(t) = 0 THEN 0 ELSE t[1]
      /\ \A i \in 1 .. Len(t) : h[t[i]].next = IF i = Len(t) THEN 0 ELSE t[i + 1]
  BY LinksIs
<1>3. /\ Len(s) \in Nat /\ Len(t) \in Nat
      /\ \A i \in 1 .. Len(s) : s[i] \in Node
      /\ \A i \in 1 .. Len(t) : t[i] \in Node
  OBVIOUS
<1> DEFINE D == {i \in 1 .. Len(s) : s[i] # t[i]}
<1>4. D = {}
  <2> SUFFICES ASSUME D # {} PROVE FALSE
    OBVIOUS
  <2>1. D \in SUBSET Nat
    BY <1>3
  <2>2. PICK i \in D : \A j \in D : i <= j
    BY <2>1, Least
  <2>3. CASE i = 1
    BY <1>1, <1>2, <1>3, <2>2, <2>3
  <2>4. CASE i # 1
    <3>1. i - 1 \in 1 .. Len(s) /\ i - 1 # Len(s) /\ i - 1 # Len(t) /\ (i - 1) + 1 = i /\ i - 1 \notin D
      BY <1>3, <2>2, <2>4
    <3>2. s[i - 1] = t[i - 1]
      BY <3>1
    <3>3. h[s[i - 1]].next = s[i] /\ h[t[i - 1]].next = t[i]
      <4>1. i - 1 \in 1 .. Len(t) /\ i - 1 \in 1 .. Len(s)
        BY <1>3, <3>1
      <4> HIDE DEF D
      <4> QED
        BY <1>1, <1>2, <3>1, <4>1
    <3> QED
      BY <2>2, <3>2, <3>3
  <2> QED
    BY <2>3, <2>4
<1>5. Len(s) = Len(t)
  <2> SUFFICES ASSUME Len(s) < Len(t) PROVE FALSE
    BY <1>3
  <2>1. CASE Len(s) = 0
    BY <1>1, <1>2, <1>3, <2>1, NoNull
  <2>2. CASE Len(s) # 0
    <3> DEFINE n == Len(s)
    <3>1. n \in 1 .. Len(s) /\ n \in 1 .. Len(t) /\ n # Len(t) /\ n + 1 \in 1 .. Len(t)
      BY <1>3, <2>2
    <3>2. s[n] = t[n]
      BY <1>4, <3>1
    <3>3. h[s[n]].next = 0 /\ h[t[n]].next = t[n + 1]
      BY <1>1, <1>2, <3>1
    <3> QED
      BY <1>3, <3>1, <3>2, <3>3, NoNull
  <2> QED
    BY <2>1, <2>2
<1>6. \A i \in 1 .. Len(s) : s[i] = t[i]
  BY <1>4
<1> QED
  BY <1>5, <1>6, SeqEqual

\* Every list without repetition is one of the walks Chain chooses from.
LEMMA Walkable ==
  ASSUME NEW s \in Seq(Node), Simple(s)
  PROVE  s \in Walks
<1> DEFINE T == {s[i] : i \in 1 .. Len(s)}
<1>1. /\ Len(s) \in Nat /\ s \in [1 .. Len(s) -> T] /\ T \in SUBSET Node
      /\ \A x \in T : \E i \in 1 .. Len(s) : s[i] = x
  OBVIOUS
<1>2. s \in Bijection(1 .. Len(s), T)
  BY <1>1 DEF Simple, Bijection, Injection, Surjection, IsInjective
<1>3. Cardinality(T) = Len(s)
  BY <1>1, <1>2, FS_CountingElements DEF ExistsBijection
<1>4. s \in SetToSeqs(T)
  BY <1>1, <1>3 DEF SetToSeqs, Simple
<1> QED
  BY <1>1, <1>4 DEF Walks, SetToAllKPermutations

\* A walk along next reads the list.
LEMMA ChainIs ==
  ASSUME NEW h, NEW c, NEW s \in Seq(Node), Simple(s), Links(h, c, s)
  PROVE  Chain(h, c) = s
<1>1. s \in Walks
  BY Walkable
<1>2. Chain(h, c) \in Walks /\ Links(h, c, Chain(h, c))
  BY <1>1 DEF Chain
<1>3. ASSUME NEW t \in Walks
      PROVE  t \in Seq(Node)
  <2>1. PICK T \in SUBSET Node : t \in SetToSeqs(T)
    BY DEF Walks, SetToAllKPermutations
  <2>2. t \in [1 .. Cardinality(T) -> T]
    BY <2>1 DEF SetToSeqs
  <2>3. Cardinality(T) \in Nat
    BY NodeAssumption, FS_Subset, FS_CardinalityType
  <2> QED
    BY <2>2, <2>3
<1>4. Chain(h, c) \in Seq(Node)
  BY <1>2, <1>3
<1> QED
  BY <1>2, <1>4, OneWay

-----------------------------------------------------------------------------
(* The operations on the list of a. *)

\* A list, by places.
LEMMA IsListIs ==
  ASSUME NEW h, NEW a, NEW s \in Seq(Node)
  PROVE  IsList(h, a, s) <=>
           /\ h[a].child = IF Len(s) = 0 THEN 0 ELSE s[1]
           /\ \A i \in 1 .. Len(s) : /\ h[s[i]].next = IF i = Len(s) THEN 0 ELSE s[i + 1]
                                     /\ h[s[i]].prev = IF i = 1 THEN 0 ELSE s[i - 1]
<1>1. DOMAIN s = 1 .. Len(s)
  OBVIOUS
<1>2. Links(h, h[a].child, s) <=>
        /\ h[a].child = IF Len(s) = 0 THEN 0 ELSE s[1]
        /\ \A i \in 1 .. Len(s) : h[s[i]].next = IF i = Len(s) THEN 0 ELSE s[i + 1]
  BY LinksIs
<1>3. IsList(h, a, s) <=>
        /\ Links(h, h[a].child, s)
        /\ \A i \in 1 .. Len(s) : h[s[i]].prev = IF i = 1 THEN 0 ELSE s[i - 1]
  BY <1>1 DEF IsList
<1> QED
  BY <1>2, <1>3

\* Nothing changes but the neighbours of items in S and the first child of a.
Same(h, g, S, a) ==
  \A n \in Node : /\ g[n].used = h[n].used /\ g[n].ref = h[n].ref
                  /\ n \notin S => g[n].next = h[n].next /\ g[n].prev = h[n].prev
                  /\ n # a => g[n].child = h[n].child

\* cJSON_AddItemToArray puts an item of its own behind the last.
LEMMA AddedList ==
  ASSUME NEW h \in Heap, NEW a \in Node, NEW c \in Node, NEW s \in Seq(Node), Simple(s), IsList(h, a, s),
         c \notin ToSet(s), h[c].next = 0, h[c].prev = 0
  PROVE  LET g == Added(h, a, c)
         IN g \in Heap /\ IsList(g, a, Append(s, c)) /\ Same(h, g, ToSet(s) \cup {c}, a)
<1> DEFINE g == Added(h, a, c)
           t == Append(s, c)
           n == Len(s)
<1>1. /\ h[a].child = IF n = 0 THEN 0 ELSE s[1]
      /\ \A i \in 1 .. n : /\ h[s[i]].next = IF i = n THEN 0 ELSE s[i + 1]
                           /\ h[s[i]].prev = IF i = 1 THEN 0 ELSE s[i - 1]
  BY IsListIs
<1>2. Chain(h, h[a].child) = s
  BY ChainIs DEF IsList
<1>3. /\ t \in Seq(Node) /\ Len(t) = n + 1 /\ n \in Nat /\ t[n + 1] = c
      /\ \A i \in 1 .. n : t[i] = s[i] /\ s[i] \in Node /\ s[i] \in ToSet(s) /\ s[i] # c
  <2>1. n \in Nat /\ \A i \in 1 .. n : s[i] \in Node /\ s[i] \in ToSet(s)
    BY DEF ToSet
  <2> QED
    BY <2>1, AppendProperties
<1>4. CASE n = 0
  <2>1. h[a].child = 0
    BY <1>1, <1>4
  <2>2. g = [h EXCEPT ![a].child = c]
    BY <2>1 DEF Added
  <2>3. /\ g \in Heap
        /\ \A m \in Node : g[m] = IF m = a THEN [h[m] EXCEPT !.child = c] ELSE h[m]
    BY <2>2 DEF Heap, Item, Ptr
  <2>4. \A m \in Node : /\ g[m].used = h[m].used /\ g[m].ref = h[m].ref
                        /\ g[m].next = h[m].next /\ g[m].prev = h[m].prev
                        /\ g[m].child = IF m = a THEN c ELSE h[m].child
    BY <2>3 DEF Heap, Item
  <2> HIDE DEF g, t, n
  <2>5. IsList(g, a, t)
    <3>1. g[a].child = c /\ Len(t) = 1 /\ t[1] = c /\ g[c].next = 0 /\ g[c].prev = 0
      BY <1>3, <1>4, <2>4
    <3> QED
      BY <1>3, <3>1, IsListIs
  <2> QED
    BY <2>3, <2>4, <2>5 DEF Same, g, t
<1>5. CASE n # 0
  <2>1. h[a].child # 0
    <3>1. 1 \in 1 .. n
      BY <1>3, <1>5
    <3> QED
      BY <1>1, <1>3, <1>5, <3>1, NoNull
  <2>2. PICK z \in Node : z = s[n] /\ n \in 1 .. n
    BY <1>3, <1>5
  <2>3. g = [h EXCEPT ![z].next = c, ![c].prev = z]
    BY <1>2, <2>1, <2>2 DEF Added, Last
  <2>4. z # c
    BY <1>3, <2>2
  <2>5. /\ g \in Heap
        /\ \A m \in Node : g[m] = IF m = c THEN [h[m] EXCEPT !.prev = z]
                                  ELSE IF m = z THEN [h[m] EXCEPT !.next = c] ELSE h[m]
    BY <2>3, <2>4, SMTT(30) DEF Heap, Item, Ptr
  <2>6. \A m \in Node : /\ g[m].used = h[m].used /\ g[m].ref = h[m].ref /\ g[m].child = h[m].child
                        /\ g[m].next = IF m = z THEN c ELSE h[m].next
                        /\ g[m].prev = IF m = c THEN z ELSE h[m].prev
    BY <2>4, <2>5 DEF Heap, Item
  <2>7. z \in ToSet(s) /\ \A i \in 1 .. n : s[i] = z <=> i = n
    BY <1>3, <2>2 DEF Simple
  <2> HIDE DEF g, t, n
  <2>8. IsList(g, a, t)
    <3>1. g[a].child = t[1]
      <4>1. 1 \in 1 .. n
        BY <1>3, <1>5
      <4> QED
        BY <1>1, <1>3, <1>5, <2>6, <4>1
    <3>2. ASSUME NEW i \in 1 .. n
          PROVE  /\ g[t[i]].next = t[i + 1]
                 /\ g[t[i]].prev = IF i = 1 THEN 0 ELSE t[i - 1]
      <4>1. t[i] = s[i] /\ s[i] \in Node /\ s[i] # c /\ (s[i] = z <=> i = n)
        BY <1>3, <2>7
      <4>2. CASE i = n
        BY <1>1, <1>3, <2>6, <4>1, <4>2
      <4>3. CASE i # n
        <5>1. i + 1 \in 1 .. n /\ t[i + 1] = s[i + 1]
          BY <1>3, <4>3
        <5>2. g[t[i]].next = h[s[i]].next /\ g[t[i]].prev = h[s[i]].prev
          BY <2>6, <4>1, <4>3
        <5>3. i # 1 => t[i - 1] = s[i - 1]
          BY <1>3
        <5> QED
          BY <1>1, <4>3, <5>1, <5>2, <5>3
      <4> QED
        BY <4>2, <4>3
    <3>3. g[c].next = 0 /\ g[c].prev = t[n]
      BY <1>3, <2>2, <2>4, <2>6
    <3>4. ASSUME NEW i \in 1 .. Len(t)
          PROVE  /\ g[t[i]].next = IF i = Len(t) THEN 0 ELSE t[i + 1]
                 /\ g[t[i]].prev = IF i = 1 THEN 0 ELSE t[i - 1]
      <4>1. CASE i = n + 1
        BY <1>3, <1>5, <3>3, <4>1
      <4>2. CASE i # n + 1
        BY <1>3, <3>2, <4>2
      <4> QED
        BY <4>1, <4>2
    <3>5. Len(t) # 0
      BY <1>3
    <3> QED
      BY <1>3, <3>1, <3>4, <3>5, IsListIs
  <2> QED
    BY <2>5, <2>6, <2>7, <2>8 DEF Same, g, t
<1> QED
  BY <1>4, <1>5

\* What RemoveAt leaves, by places.
LEMMA RemoveAtIs ==
  ASSUME NEW s \in Seq(Node), NEW i \in 1 .. Len(s)
  PROVE  /\ RemoveAt(s, i) \in Seq(Node) /\ Len(RemoveAt(s, i)) = Len(s) - 1
         /\ \A j \in 1 .. Len(s) - 1 : RemoveAt(s, i)[j] = IF j < i THEN s[j] ELSE s[j + 1]
<1> DEFINE u == SubSeq(s, 1, i - 1)
           v == SubSeq(s, i + 1, Len(s))
<1>1. Len(s) \in Nat /\ i \in Nat /\ \A j \in 1 .. Len(s) : s[j] \in Node
  OBVIOUS
<1>2. /\ u \in Seq(Node) /\ Len(u) = i - 1
      /\ \A j \in 1 .. i - 1 : u[j] = s[j]
  <2>1. \A j \in 1 .. i - 1 : s[j] \in Node
    BY <1>1
  <2>2. /\ u \in Seq(Node) /\ Len(u) = IF 1 <= i - 1 THEN (i - 1) - 1 + 1 ELSE 0
        /\ \A j \in 1 .. (i - 1) - 1 + 1 : u[j] = s[1 + j - 1]
    BY <1>1, <2>1, SubSeqProperties
  <2> QED
    BY <1>1, <2>2
<1>3. /\ v \in Seq(Node) /\ Len(v) = Len(s) - i
      /\ \A j \in 1 .. Len(s) - i : v[j] = s[i + j]
  <2>1. \A j \in i + 1 .. Len(s) : s[j] \in Node
    BY <1>1
  <2>2. /\ v \in Seq(Node) /\ Len(v) = IF i + 1 <= Len(s) THEN Len(s) - (i + 1) + 1 ELSE 0
        /\ \A j \in 1 .. Len(s) - (i + 1) + 1 : v[j] = s[(i + 1) + j - 1]
    BY <1>1, <2>1, SubSeqProperties
  <2> QED
    BY <1>1, <2>2
<1>4. RemoveAt(s, i) = u \o v
  BY DEF RemoveAt
<1> HIDE DEF u, v
<1>5. /\ u \o v \in Seq(Node) /\ Len(u \o v) = Len(u) + Len(v)
      /\ \A j \in 1 .. Len(u) + Len(v) : (u \o v)[j] = IF j <= Len(u) THEN u[j] ELSE v[j - Len(u)]
  BY <1>2, <1>3, ConcatProperties
<1>6. ASSUME NEW j \in 1 .. Len(s) - 1
      PROVE  (u \o v)[j] = IF j < i THEN s[j] ELSE s[j + 1]
  <2>1. CASE j < i
    BY <1>1, <1>2, <1>3, <1>5, <2>1
  <2>2. CASE ~ (j < i)
    <3>1. j - Len(u) \in 1 .. Len(s) - i /\ i + (j - Len(u)) = j + 1
      BY <1>1, <1>2, <2>2
    <3>2. v[j - Len(u)] = s[j + 1]
      BY <1>3, <3>1
    <3> QED
      BY <1>1, <1>2, <1>3, <1>5, <2>2, <3>2
  <2> QED
    BY <2>1, <2>2
<1> QED
  BY <1>1, <1>2, <1>3, <1>4, <1>5, <1>6

\* An item between two others.
Between(h, c, before, behind) == [h EXCEPT ![c].next = behind, ![c].prev = before]

\* Its two fields change, and nothing else.
LEMMA BetweenIs ==
  ASSUME NEW h \in Heap, NEW c \in Node, NEW x \in Ptr, NEW y \in Ptr
  PROVE  /\ Between(h, c, y, x) \in Heap
         /\ \A m \in Node :
              /\ Between(h, c, y, x)[m].used = h[m].used
              /\ Between(h, c, y, x)[m].ref = h[m].ref
              /\ Between(h, c, y, x)[m].child = h[m].child
              /\ Between(h, c, y, x)[m].next = IF m = c THEN x ELSE h[m].next
              /\ Between(h, c, y, x)[m].prev = IF m = c THEN y ELSE h[m].prev
<1> DEFINE g == Between(h, c, y, x)
<1>1. h \in [Node -> Item]
  BY DEF Heap
<1>2. \A m \in Node : g[m] = IF m = c THEN [h[m] EXCEPT !.next = x, !.prev = y] ELSE h[m]
  BY <1>1 DEF Between
<1>3. \A m \in Node : [h[m] EXCEPT !.next = x, !.prev = y] \in Item
  BY <1>1 DEF Item
<1>4. g = [m \in Node |-> g[m]]
  BY <1>1 DEF Between
<1> HIDE DEF g
<1>5. g \in [Node -> Item]
  BY <1>1, <1>2, <1>3, <1>4
<1>6. ASSUME NEW m \in Node
      PROVE  /\ g[m].used = h[m].used /\ g[m].ref = h[m].ref /\ g[m].child = h[m].child
             /\ g[m].next = IF m = c THEN x ELSE h[m].next
             /\ g[m].prev = IF m = c THEN y ELSE h[m].prev
  <2>1. CASE m = c
    <3> DEFINE r == [h[m] EXCEPT !.next = x, !.prev = y]
    <3>1. h[m] \in Item
      BY <1>1
    <3>2. r.used = h[m].used /\ r.ref = h[m].ref /\ r.child = h[m].child /\ r.next = x /\ r.prev = y
      BY <3>1 DEF Item
    <3>3. g[m] = r
      BY <1>2, <2>1
    <3> HIDE DEF r
    <3> QED
      BY <2>1, <3>2, <3>3
  <2>2. CASE m # c
    <3>1. g[m] = h[m]
      BY <1>2, <2>2
    <3> QED
      BY <2>2, <3>1
  <2> QED
    BY <2>1, <2>2
<1> QED
  BY <1>5, <1>6 DEF Heap, g

\* cJSON_DetachItemFromArray closes the gap and leaves the item alone.
LEMMA DetachedList ==
  ASSUME NEW h \in Heap, NEW a \in Node, NEW s \in Seq(Node), Simple(s), IsList(h, a, s), NEW i \in 1 .. Len(s)
  PROVE  LET g == Detached(h, a, s[i])
         IN /\ g \in Heap /\ IsList(g, a, RemoveAt(s, i)) /\ Same(h, g, ToSet(s), a)
            /\ g[s[i]].next = 0 /\ g[s[i]].prev = 0
<1> DEFINE c == s[i]
           g == Detached(h, a, c)
           t == RemoveAt(s, i)
           n == Len(s)
           before == IF i = 1 THEN 0 ELSE s[i - 1]
           behind == IF i = n THEN 0 ELSE s[i + 1]
<1>1. /\ h[a].child = IF n = 0 THEN 0 ELSE s[1]
      /\ \A j \in 1 .. n : /\ h[s[j]].next = IF j = n THEN 0 ELSE s[j + 1]
                           /\ h[s[j]].prev = IF j = 1 THEN 0 ELSE s[j - 1]
  BY IsListIs
<1>2. /\ t \in Seq(Node) /\ Len(t) = n - 1
      /\ \A j \in 1 .. n - 1 : t[j] = IF j < i THEN s[j] ELSE s[j + 1]
  BY RemoveAtIs
<1>3. n \in Nat /\ i \in 1 .. n /\ \A j \in 1 .. n : s[j] \in Node /\ s[j] \in ToSet(s)
  BY DEF ToSet
<1>4. /\ h[c].next = behind /\ h[c].prev = before /\ c \in Node
      /\ before \in Ptr /\ behind \in Ptr /\ (before = 0 <=> i = 1) /\ (behind = 0 <=> i = n)
      /\ (c = h[a].child <=> i = 1) /\ before # c /\ behind # c /\ c # 0
      /\ before \in ToSet(s) \cup {0} /\ behind \in ToSet(s) \cup {0}
  <2>1. h[c].next = behind /\ h[c].prev = before /\ c \in Node /\ c # 0
    BY <1>1, <1>3, NoNull
  <2>2. i # 1 => i - 1 \in 1 .. n /\ s[i - 1] \in Node /\ s[i - 1] # 0 /\ s[i - 1] # c
    BY <1>3, NoNull DEF Simple
  <2>3. i # n => i + 1 \in 1 .. n /\ s[i + 1] \in Node /\ s[i + 1] # 0 /\ s[i + 1] # c
    BY <1>3, NoNull DEF Simple
  <2>4. c = h[a].child <=> i = 1
    BY <1>1, <1>3 DEF Simple
  <2> QED
    BY <1>3, <2>1, <2>2, <2>3, <2>4 DEF Ptr
<1> HIDE DEF c, before, behind
<1>5. /\ g \in Heap
      /\ \A m \in Node :
           /\ g[m].used = h[m].used /\ g[m].ref = h[m].ref
           /\ g[m].next = IF m = c THEN 0 ELSE IF m = before THEN behind ELSE h[m].next
           /\ g[m].prev = IF m = c THEN 0 ELSE IF m = behind THEN before ELSE h[m].prev
           /\ g[m].child = IF i = 1 /\ m = a THEN behind ELSE h[m].child
  <2> DEFINE h1 == IF before # 0 THEN [h EXCEPT ![before].next = behind] ELSE h
             h2 == IF behind # 0 THEN [h1 EXCEPT ![behind].prev = before] ELSE h1
             h3 == IF i = 1 THEN [h2 EXCEPT ![a].child = behind] ELSE h2
             h4 == Between(h3, c, 0, 0)
  <2>1. g = h4
    BY <1>4, ZenonT(40) DEF Detached, DetachedWith, Between
  <2> c \in Node /\ 0 \in Ptr
    BY <1>4 DEF Ptr
  <2>2. /\ h1 \in Heap
        /\ \A m \in Node :
             /\ h1[m].used = h[m].used /\ h1[m].ref = h[m].ref /\ h1[m].child = h[m].child
             /\ h1[m].prev = h[m].prev /\ h1[m].next = IF m = before THEN behind ELSE h[m].next
    BY <1>4, NoNull DEF Heap, Item, Ptr
  <2> HIDE DEF h1
  <2>3. /\ h2 \in Heap
        /\ \A m \in Node :
             /\ h2[m].used = h1[m].used /\ h2[m].ref = h1[m].ref /\ h2[m].child = h1[m].child
             /\ h2[m].next = h1[m].next /\ h2[m].prev = IF m = behind THEN before ELSE h1[m].prev
    BY <1>4, <2>2, NoNull, SMTT(30) DEF Heap, Item, Ptr
  <2> HIDE DEF h2
  <2>4. /\ h3 \in Heap
        /\ \A m \in Node :
             /\ h3[m].used = h2[m].used /\ h3[m].ref = h2[m].ref
             /\ h3[m].next = h2[m].next /\ h3[m].prev = h2[m].prev
             /\ h3[m].child = IF i = 1 /\ m = a THEN behind ELSE h2[m].child
    BY <1>4, <2>3 DEF Heap, Item, Ptr
  <2> HIDE DEF h3
  <2>5. /\ h4 \in Heap
        /\ \A m \in Node :
             /\ h4[m].used = h3[m].used /\ h4[m].ref = h3[m].ref /\ h4[m].child = h3[m].child
             /\ h4[m].next = IF m = c THEN 0 ELSE h3[m].next
             /\ h4[m].prev = IF m = c THEN 0 ELSE h3[m].prev
    BY <2>4, BetweenIs
  <2> HIDE DEF h4
  <2> QED
    BY <2>1, <2>2, <2>3, <2>4, <2>5
<1> HIDE DEF g, t, n
<1>6. \A j \in 1 .. n : /\ s[j] = c <=> j = i
                        /\ s[j] = before <=> j + 1 = i
                        /\ s[j] = behind <=> j = i + 1
  BY <1>3, NoNull DEF Simple, c, before, behind, n
<1>7. IsList(g, a, t)
  <2>1. g[a].child = IF Len(t) = 0 THEN 0 ELSE t[1]
    <3>1. CASE i = 1
      <4>1. n = 1 => behind = 0
        BY <3>1 DEF behind
      <4>2. n # 1 => behind = t[1]
        BY <1>2, <1>3, <3>1 DEF behind
      <4> QED
        BY <1>2, <1>3, <1>5, <3>1, <4>1, <4>2
    <3>2. CASE i # 1
      BY <1>1, <1>2, <1>3, <1>5, <3>2
    <3> QED
      BY <3>1, <3>2
  <2>2. ASSUME NEW j \in 1 .. Len(t)
        PROVE  /\ g[t[j]].next = IF j = Len(t) THEN 0 ELSE t[j + 1]
               /\ g[t[j]].prev = IF j = 1 THEN 0 ELSE t[j - 1]
    <3>1. j \in 1 .. n - 1
      BY <1>2
    <3>2. CASE j < i
      <4>1. /\ j \in 1 .. n /\ t[j] = s[j] /\ s[j] \in Node /\ s[j] # c /\ s[j] # behind
            /\ s[j] = before <=> j + 1 = i
        BY <1>2, <1>3, <1>6, <3>1, <3>2
      <4>2. g[t[j]].prev = h[s[j]].prev /\ g[t[j]].next = IF j + 1 = i THEN behind ELSE h[s[j]].next
        BY <1>5, <4>1
      <4>3. j # 1 => t[j - 1] = s[j - 1]
        BY <1>2, <3>1, <3>2
      <4>4. j + 1 = i => behind = IF j = n - 1 THEN 0 ELSE t[j + 1]
        BY <1>2, <1>3, <3>1, <3>2 DEF behind
      <4>5. j + 1 # i => j # n - 1 /\ j # n /\ t[j + 1] = s[j + 1]
        BY <1>2, <1>3, <3>1, <3>2
      <4> QED
        BY <1>1, <1>2, <4>1, <4>2, <4>3, <4>4, <4>5
    <3>3. CASE ~ (j < i)
      <4>1. /\ j + 1 \in 1 .. n /\ t[j] = s[j + 1] /\ s[j + 1] \in Node /\ s[j + 1] # c /\ s[j + 1] # before
            /\ s[j + 1] = behind <=> j = i
        BY <1>2, <1>3, <1>6, <3>1, <3>3
      <4>2. g[t[j]].next = h[s[j + 1]].next /\ g[t[j]].prev = IF j = i THEN before ELSE h[s[j + 1]].prev
        BY <1>5, <4>1
      <4>3. j # n - 1 => t[j + 1] = s[(j + 1) + 1]
        BY <1>2, <1>3, <3>1, <3>3
      <4>4. j = i => before = IF j = 1 THEN 0 ELSE t[j - 1]
        BY <1>2, <1>3, <3>1, <3>3 DEF before
      <4>5. j # i => j # 1 /\ (j + 1) - 1 = j /\ t[j - 1] = s[j]
        BY <1>2, <1>3, <3>1, <3>3
      <4>6. h[s[j + 1]].next = (IF j + 1 = n THEN 0 ELSE s[(j + 1) + 1]) /\ h[s[j + 1]].prev = s[(j + 1) - 1]
        BY <1>1, <3>1, <4>1
      <4> QED
        BY <1>2, <1>3, <3>1, <4>2, <4>3, <4>4, <4>5, <4>6
    <3> QED
      BY <3>2, <3>3
  <2> QED
    BY <1>2, <2>1, <2>2, IsListIs
<1>8. Same(h, g, ToSet(s), a)
  <2>1. c \in ToSet(s)
    BY <1>3 DEF c
  <2> QED
    BY <1>4, <1>5, <2>1, NoNull DEF Same
<1>9. g[c].next = 0 /\ g[c].prev = 0
  BY <1>4, <1>5
<1> QED
  BY <1>5, <1>7, <1>8, <1>9 DEF g, t, c

\* cJSON_ReplaceItemInArray, up to its cJSON_Delete.
Swapped(h, a, c, new) ==
  LET i == h[c]
      h1 == [h EXCEPT ![new].next = i.next, ![new].prev = i.prev]
      h2 == IF i.next # 0 THEN [h1 EXCEPT ![i.next].prev = new] ELSE h1
      h3 == IF c = h[a].child THEN [h2 EXCEPT ![a].child = new] ELSE [h2 EXCEPT ![i.prev].next = new]
  IN [h3 EXCEPT ![c].next = 0, ![c].prev = 0]

\* The new item takes the place, and the old one is left alone.
LEMMA SwappedList ==
  ASSUME NEW h \in Heap, NEW a \in Node, NEW s \in Seq(Node), Simple(s), IsList(h, a, s), NEW i \in 1 .. Len(s),
         NEW new \in Node, new \notin ToSet(s)
  PROVE  LET g == Swapped(h, a, s[i], new)
         IN /\ g \in Heap /\ IsList(g, a, ReplaceAt(s, i, new)) /\ Same(h, g, ToSet(s) \cup {new}, a)
            /\ g[s[i]].next = 0 /\ g[s[i]].prev = 0
<1> DEFINE c == s[i]
           g == Swapped(h, a, c, new)
           t == ReplaceAt(s, i, new)
           n == Len(s)
           before == IF i = 1 THEN 0 ELSE s[i - 1]
           behind == IF i = n THEN 0 ELSE s[i + 1]
<1>1. /\ h[a].child = IF n = 0 THEN 0 ELSE s[1]
      /\ \A j \in 1 .. n : /\ h[s[j]].next = IF j = n THEN 0 ELSE s[j + 1]
                           /\ h[s[j]].prev = IF j = 1 THEN 0 ELSE s[j - 1]
  BY IsListIs
<1>2. t \in Seq(Node) /\ Len(t) = n /\ \A j \in 1 .. n : t[j] = IF j = i THEN new ELSE s[j]
  BY DEF ReplaceAt
<1>3. /\ n \in Nat /\ i \in 1 .. n /\ new # 0
      /\ \A j \in 1 .. n : s[j] \in Node /\ s[j] \in ToSet(s) /\ s[j] # new
  BY NoNull DEF ToSet
<1>4. /\ h[c].next = behind /\ h[c].prev = before /\ c \in Node
      /\ before \in Ptr /\ behind \in Ptr /\ (before = 0 <=> i = 1) /\ (behind = 0 <=> i = n)
      /\ (c = h[a].child <=> i = 1) /\ before # c /\ behind # c /\ c # 0 /\ c # new /\ before # new /\ behind # new
      /\ before \in ToSet(s) \cup {0} /\ behind \in ToSet(s) \cup {0}
  <2>1. h[c].next = behind /\ h[c].prev = before /\ c \in Node /\ c # 0 /\ c # new
    BY <1>1, <1>3, NoNull
  <2>2. i # 1 => i - 1 \in 1 .. n /\ s[i - 1] \in Node /\ s[i - 1] # 0 /\ s[i - 1] # c /\ s[i - 1] # new
    BY <1>3, NoNull DEF Simple
  <2>3. i # n => i + 1 \in 1 .. n /\ s[i + 1] \in Node /\ s[i + 1] # 0 /\ s[i + 1] # c /\ s[i + 1] # new
    BY <1>3, NoNull DEF Simple
  <2>4. c = h[a].child <=> i = 1
    BY <1>1, <1>3 DEF Simple
  <2> QED
    BY <1>3, <2>1, <2>2, <2>3, <2>4 DEF Ptr
<1> HIDE DEF c, before, behind
<1>5. /\ g \in Heap
      /\ \A m \in Node :
           /\ g[m].used = h[m].used /\ g[m].ref = h[m].ref
           /\ g[m].next = IF m = c THEN 0 ELSE IF m = before THEN new ELSE IF m = new THEN behind ELSE h[m].next
           /\ g[m].prev = IF m = c THEN 0 ELSE IF m = behind THEN new ELSE IF m = new THEN before ELSE h[m].prev
           /\ g[m].child = IF i = 1 /\ m = a THEN new ELSE h[m].child
  <2> DEFINE h1 == Between(h, new, before, behind)
             h2 == IF behind # 0 THEN [h1 EXCEPT ![behind].prev = new] ELSE h1
             h3 == IF c = h[a].child THEN [h2 EXCEPT ![a].child = new] ELSE [h2 EXCEPT ![before].next = new]
             h4 == Between(h3, c, 0, 0)
  <2>1. g = h4
    <3>1. h[c].next = behind /\ h[c].prev = before
      BY <1>4
    <3> QED
      BY <3>1 DEF Swapped, Between
  <2> new \in Node /\ c \in Node /\ before \in Ptr /\ behind \in Ptr /\ 0 \in Ptr
    BY <1>4 DEF Ptr
  <2>2. /\ h1 \in Heap
        /\ \A m \in Node :
             /\ h1[m].used = h[m].used /\ h1[m].ref = h[m].ref /\ h1[m].child = h[m].child
             /\ h1[m].next = IF m = new THEN behind ELSE h[m].next
             /\ h1[m].prev = IF m = new THEN before ELSE h[m].prev
    BY BetweenIs
  <2> HIDE DEF h1
  <2>3. /\ h2 \in Heap
        /\ \A m \in Node :
             /\ h2[m].used = h1[m].used /\ h2[m].ref = h1[m].ref /\ h2[m].child = h1[m].child
             /\ h2[m].next = h1[m].next /\ h2[m].prev = IF m = behind THEN new ELSE h1[m].prev
    BY <1>4, <2>2, NoNull DEF Heap, Item, Ptr
  <2> HIDE DEF h2
  <2>4. /\ h3 \in Heap
        /\ \A m \in Node :
             /\ h3[m].used = h2[m].used /\ h3[m].ref = h2[m].ref /\ h3[m].prev = h2[m].prev
             /\ h3[m].next = IF m = before THEN new ELSE h2[m].next
             /\ h3[m].child = IF i = 1 /\ m = a THEN new ELSE h2[m].child
    BY <1>4, <2>3, NoNull, SMTT(30) DEF Heap, Item, Ptr
  <2> HIDE DEF h3
  <2>5. /\ h4 \in Heap
        /\ \A m \in Node :
             /\ h4[m].used = h3[m].used /\ h4[m].ref = h3[m].ref /\ h4[m].child = h3[m].child
             /\ h4[m].next = IF m = c THEN 0 ELSE h3[m].next
             /\ h4[m].prev = IF m = c THEN 0 ELSE h3[m].prev
    BY <2>4, BetweenIs
  <2> HIDE DEF h4
  <2> QED
    BY <2>1, <2>2, <2>3, <2>4, <2>5
<1> HIDE DEF g, t, n
<1>6. \A j \in 1 .. n : /\ s[j] = c <=> j = i
                        /\ s[j] = before <=> j + 1 = i
                        /\ s[j] = behind <=> j = i + 1
  BY <1>3, NoNull DEF Simple, c, before, behind, n
<1>7. IsList(g, a, t)
  <2>1. Len(t) # 0 /\ g[a].child = t[1]
    <3>1. CASE i = 1
      BY <1>2, <1>3, <1>5, <3>1
    <3>2. CASE i # 1
      BY <1>1, <1>2, <1>3, <1>5, <3>2
    <3> QED
      BY <3>1, <3>2
  <2>2. ASSUME NEW j \in 1 .. Len(t)
        PROVE  /\ g[t[j]].next = IF j = Len(t) THEN 0 ELSE t[j + 1]
               /\ g[t[j]].prev = IF j = 1 THEN 0 ELSE t[j - 1]
    <3>1. j \in 1 .. n
      BY <1>2
    <3>2. CASE j = i
      <4>1. t[j] = new /\ g[t[j]].next = behind /\ g[t[j]].prev = before
        BY <1>2, <1>3, <1>4, <1>5, <3>2
      <4>2. j # n => t[j + 1] = s[j + 1]
        BY <1>2, <1>3, <3>1, <3>2
      <4>3. j # 1 => t[j - 1] = s[j - 1]
        BY <1>2, <1>3, <3>1, <3>2
      <4> QED
        BY <1>2, <3>2, <4>1, <4>2, <4>3 DEF before, behind
    <3>3. CASE j # i
      <4>1. /\ t[j] = s[j] /\ s[j] \in Node /\ s[j] # c /\ s[j] # new
            /\ s[j] = before <=> j + 1 = i
            /\ s[j] = behind <=> j = i + 1
        BY <1>2, <1>3, <1>6, <3>1, <3>3
      <4>2. /\ g[t[j]].next = IF j + 1 = i THEN new ELSE h[s[j]].next
            /\ g[t[j]].prev = IF j = i + 1 THEN new ELSE h[s[j]].prev
        BY <1>5, <4>1
      <4>3. j # n => t[j + 1] = IF j + 1 = i THEN new ELSE s[j + 1]
        BY <1>2, <1>3, <3>1
      <4>4. j # 1 => t[j - 1] = IF j = i + 1 THEN new ELSE s[j - 1]
        BY <1>2, <1>3, <3>1
      <4>5. (j + 1 = i => j # n) /\ (j = i + 1 => j # 1)
        BY <1>3
      <4> QED
        BY <1>1, <1>2, <3>1, <4>2, <4>3, <4>4, <4>5
    <3> QED
      BY <3>2, <3>3
  <2> QED
    BY <1>2, <2>1, <2>2, IsListIs
<1>8. Same(h, g, ToSet(s) \cup {new}, a)
  <2>1. c \in ToSet(s)
    BY <1>3 DEF c
  <2> QED
    BY <1>4, <1>5, <2>1, NoNull DEF Same
<1>9. g[c].next = 0 /\ g[c].prev = 0
  BY <1>4, <1>5
<1> QED
  BY <1>5, <1>7, <1>8, <1>9 DEF g, t, c

-----------------------------------------------------------------------------
(* cJSON_Delete frees the item and all below it. *)

Kids(k) == [m \in Node |-> ToSet(k[m])]

\* Its walk along next and child visits them, and nothing else, when the lists are what they ought to be.
LEMMA DoomedIs ==
  ASSUME NEW h \in Heap, NEW k \in [Node -> Seq(Node)], NEW c \in Node, h[c].next = 0,
         \A m \in Reached(Kids(k), c) : IF h[m].ref = 0 THEN IsList(h, m, k[m]) ELSE k[m] = <<>>
  PROVE  Doomed(h, c) = Below(k, c)
<1> DEFINE e == Kids(k)
           f == [n \in Node |-> {h[n].next, IF h[n].ref = 0 THEN h[n].child ELSE 0} \ {0}]
           B == Reached(e, c)
           D == Reached(f, c)
<1>1. e \in Graph /\ f \in Graph
  BY DEF Graph, Kids, ToSet, Heap, Item, Ptr
<1>2. B \in SUBSET Node /\ c \in B /\ \A m \in B : e[m] \subseteq B
  BY <1>1, ReachedIs
<1>3. D \in SUBSET Node /\ c \in D /\ \A m \in D : f[m] \subseteq D
  BY <1>1, ReachedIs
<1>4. \A n \in B : n # c => \E m \in B : n \in e[m]
  BY <1>1, ReachedFrom
<1>5. ASSUME NEW m \in B
      PROVE  /\ e[m] = {k[m][i] : i \in 1 .. Len(k[m])} /\ k[m] \in Seq(Node)
             /\ h[m].ref # 0 => Len(k[m]) = 0
             /\ h[m].ref = 0 =>
                  /\ h[m].child = IF Len(k[m]) = 0 THEN 0 ELSE k[m][1]
                  /\ \A i \in 1 .. Len(k[m]) : h[k[m][i]].next = IF i = Len(k[m]) THEN 0 ELSE k[m][i + 1]
  <2>1. m \in Node /\ k[m] \in Seq(Node)
    BY <1>2
  <2>2. e[m] = {k[m][i] : i \in 1 .. Len(k[m])}
    BY <2>1 DEF Kids, ToSet
  <2> QED
    BY <2>1, <2>2, IsListIs
<1>6. \A m \in Node : f[m] = {h[m].next, IF h[m].ref = 0 THEN h[m].child ELSE 0} \ {0}
  OBVIOUS
<1> HIDE DEF B, D, e, f
<1>7. D \subseteq B
  <2>1. ASSUME NEW m \in B
        PROVE  f[m] \subseteq B
    <3>1. h[m].next \in B \cup {0}
      <4>1. CASE m = c
        BY <4>1
      <4>2. CASE m # c
        <5>1. PICK p \in B : m \in e[p]
          BY <1>4, <4>2
        <5>2. PICK i \in 1 .. Len(k[p]) : m = k[p][i]
          BY <1>5, <5>1
        <5>3. Len(k[p]) \in Nat /\ h[p].ref = 0
          BY <1>5, <5>2
        <5>4. CASE i = Len(k[p])
          BY <1>5, <5>2, <5>3, <5>4
        <5>5. CASE i # Len(k[p])
          <6>1. i + 1 \in 1 .. Len(k[p])
            BY <5>3, <5>5
          <6>2. k[p][i + 1] \in e[p]
            BY <1>5, <6>1
          <6> QED
            BY <1>2, <1>5, <5>2, <5>3, <5>5, <6>2
        <5> QED
          BY <5>4, <5>5
      <4> QED
        BY <4>1, <4>2
    <3>2. h[m].ref = 0 => h[m].child \in B \cup {0}
      <4>1. CASE Len(k[m]) = 0
        BY <1>5, <4>1
      <4>2. CASE Len(k[m]) # 0
        <5>1. k[m][1] \in e[m]
          BY <1>5, <4>2
        <5> QED
          BY <1>2, <1>5, <4>2, <5>1
      <4> QED
        BY <4>1, <4>2
    <3> QED
      BY <1>2, <1>6, <3>1, <3>2
  <2> QED
    BY <1>2, <2>1, ReachedLeast DEF D
<1>8. B \subseteq D
  <2>1. ASSUME NEW m \in D
        PROVE  e[m] \subseteq D
    <3> DEFINE s == k[m]
               M == {i \in 1 .. Len(s) : s[i] \notin D}
    <3>1. m \in B /\ m \in Node
      BY <1>2, <1>7
    <3>2. /\ e[m] = {s[i] : i \in 1 .. Len(s)} /\ Len(s) \in Nat
          /\ \A i \in 1 .. Len(s) : s[i] \in Node /\ s[i] # 0
      BY <1>5, <3>1, NoNull
    <3> HIDE DEF s
    <3>3. M = {}
      <4> SUFFICES ASSUME M # {} PROVE FALSE
        OBVIOUS
      <4>1. M \in SUBSET Nat
        BY <3>2
      <4>2. PICK i \in M : \A j \in M : i <= j
        BY <4>1, Least
      <4>3. h[m].ref = 0 /\ Len(s) # 0 /\ i \in 1 .. Len(s)
        BY <1>5, <3>1, <3>2, <4>2 DEF s
      <4>4. CASE i = 1
        <5>1. h[m].child = s[1] /\ s[1] # 0
          BY <1>5, <3>1, <3>2, <4>3, <4>4 DEF s
        <5>2. s[1] \in f[m]
          BY <1>6, <3>1, <4>3, <5>1
        <5> QED
          BY <1>3, <4>2, <4>4, <5>2
      <4>5. CASE i # 1
        <5>1. i - 1 \in 1 .. Len(s) /\ i - 1 # Len(s) /\ (i - 1) + 1 = i /\ i - 1 \notin M
          BY <3>2, <4>2, <4>3, <4>5
        <5>2. s[i - 1] \in D /\ s[i - 1] \in Node
          BY <3>2, <5>1
        <5>3. h[s[i - 1]].next = s[i] /\ s[i] # 0
          <6>1. \A j \in 1 .. Len(s) : h[s[j]].next = IF j = Len(s) THEN 0 ELSE s[j + 1]
            BY <1>5, <3>1, <4>3 DEF s
          <6>2. h[s[i - 1]].next = s[(i - 1) + 1]
            BY <5>1, <6>1
          <6>3. (i - 1) + 1 = i
            BY <5>1
          <6> QED
            BY <3>2, <4>3, <6>2, <6>3
        <5>4. s[i] \in f[s[i - 1]]
          BY <1>6, <5>2, <5>3
        <5> QED
          BY <1>3, <4>2, <5>2, <5>4
      <4> QED
        BY <4>4, <4>5
    <3> QED
      BY <3>2, <3>3
  <2> QED
    BY <1>3, <2>1, ReachedLeast DEF B
<1>9. Doomed(h, c) = D /\ Below(k, c) = B
  BY DEF Doomed, Below, D, B, f, e, Kids
<1> QED
  BY <1>7, <1>8, <1>9

-----------------------------------------------------------------------------
(* What the operations keep. *)

Used(h) == {n \in Node : h[n].used}

\* The lists are what they ought to be, nobody is in two of them, and what the caller holds is alone.
Shape(h, o, k) ==
  /\ h \in Heap /\ k \in [Node -> Seq(Node)]
  /\ \A m \in Node : /\ Simple(k[m])
                     /\ IF h[m].used /\ h[m].ref = 0 THEN IsList(h, m, k[m]) ELSE k[m] = <<>>
  /\ Forest(Kids(k), o) /\ All(Kids(k), o) = Used(h)
  /\ \A c \in o : h[c].next = 0 /\ h[c].prev = 0

\* The items of a list.
LEMMA Items ==
  ASSUME NEW s \in Seq(Node)
  PROVE  ToSet(s) = {s[i] : i \in 1 .. Len(s)} /\ ToSet(s) \in SUBSET Node /\ Len(s) \in Nat
BY DEF ToSet

\* The list with one more.
LEMMA AppendItems ==
  ASSUME NEW s \in Seq(Node), Simple(s), NEW c \in Node, c \notin ToSet(s)
  PROVE  Append(s, c) \in Seq(Node) /\ Simple(Append(s, c)) /\ ToSet(Append(s, c)) = ToSet(s) \cup {c}
<1> DEFINE t == Append(s, c)
           n == Len(s)
<1>1. /\ t \in Seq(Node) /\ Len(t) = n + 1 /\ n \in Nat /\ t[n + 1] = c
      /\ \A i \in 1 .. n : t[i] = s[i] /\ s[i] # c
  BY Items
<1>2. ToSet(s) = {s[i] : i \in 1 .. n} /\ ToSet(t) = {t[i] : i \in 1 .. n + 1}
  BY <1>1, Items
<1> HIDE DEF t
<1>3. ASSUME NEW i \in 1 .. n + 1, NEW j \in 1 .. n + 1, t[i] = t[j]
      PROVE  i = j
  <2>1. (i = n + 1 \/ i \in 1 .. n) /\ (j = n + 1 \/ j \in 1 .. n)
    BY <1>1
  <2> QED
    BY <1>1, <1>3, <2>1 DEF Simple
<1>4. ToSet(t) = ToSet(s) \cup {c}
  <2>1. \A i \in 1 .. n + 1 : i = n + 1 \/ i \in 1 .. n
    BY <1>1
  <2>2. n + 1 \in 1 .. n + 1 /\ \A i \in 1 .. n : i \in 1 .. n + 1
    BY <1>1
  <2> QED
    BY <1>1, <1>2, <2>1, <2>2
<1> QED
  BY <1>1, <1>3, <1>4 DEF Simple, t

\* The list without one.
LEMMA RemoveItems ==
  ASSUME NEW s \in Seq(Node), Simple(s), NEW i \in 1 .. Len(s)
  PROVE  RemoveAt(s, i) \in Seq(Node) /\ Simple(RemoveAt(s, i)) /\ ToSet(RemoveAt(s, i)) = ToSet(s) \ {s[i]}
<1> DEFINE t == RemoveAt(s, i)
           n == Len(s)
           Old(j) == IF j < i THEN j ELSE j + 1
<1>1. t \in Seq(Node) /\ Len(t) = n - 1 /\ \A j \in 1 .. n - 1 : t[j] = IF j < i THEN s[j] ELSE s[j + 1]
  BY RemoveAtIs
<1>2. ToSet(s) = {s[j] : j \in 1 .. n} /\ n \in Nat /\ ToSet(t) = {t[j] : j \in 1 .. n - 1}
  BY <1>1, Items
<1>3. \A j \in 1 .. n - 1 : t[j] = s[Old(j)] /\ Old(j) \in 1 .. n /\ Old(j) # i
  BY <1>1, <1>2
<1>4. \A j, l \in 1 .. n - 1 : Old(j) = Old(l) => j = l
  BY <1>2
<1>5. \A l \in 1 .. n : l # i => \E j \in 1 .. n - 1 : Old(j) = l
  <2> SUFFICES ASSUME NEW l \in 1 .. n, l # i PROVE \E j \in 1 .. n - 1 : Old(j) = l
    OBVIOUS
  <2>1. CASE l < i
    <3>1. l \in 1 .. n - 1 /\ Old(l) = l
      BY <1>2, <2>1
    <3> QED
      BY <3>1
  <2>2. CASE ~ (l < i)
    <3>1. l - 1 \in 1 .. n - 1 /\ Old(l - 1) = l
      BY <1>2, <2>2
    <3> QED
      BY <3>1
  <2> QED
    BY <2>1, <2>2
<1> HIDE DEF t, Old
<1>6. Simple(t)
  <2> SUFFICES ASSUME NEW j \in 1 .. n - 1, NEW l \in 1 .. n - 1, t[j] = t[l] PROVE j = l
    BY <1>1 DEF Simple
  <2>1. Old(j) \in 1 .. n /\ Old(l) \in 1 .. n /\ s[Old(j)] = s[Old(l)]
    BY <1>3
  <2>2. Old(j) = Old(l)
    BY <2>1 DEF Simple
  <2> QED
    BY <1>4, <2>2
<1>7. ToSet(t) = ToSet(s) \ {s[i]}
  <2>1. ASSUME NEW j \in 1 .. n - 1
        PROVE  t[j] \in ToSet(s) \ {s[i]}
    BY <1>2, <1>3 DEF Simple
  <2>2. ASSUME NEW l \in 1 .. n, s[l] # s[i]
        PROVE  s[l] \in ToSet(t)
    BY <1>2, <1>3, <1>5, <2>2
  <2> QED
    BY <1>2, <2>1, <2>2
<1> QED
  BY <1>1, <1>6, <1>7 DEF t

\* The list with one for another.
LEMMA ReplaceItems ==
  ASSUME NEW s \in Seq(Node), Simple(s), NEW i \in 1 .. Len(s), NEW c \in Node, c \notin ToSet(s)
  PROVE  /\ ReplaceAt(s, i, c) \in Seq(Node) /\ Simple(ReplaceAt(s, i, c))
         /\ ToSet(ReplaceAt(s, i, c)) = (ToSet(s) \ {s[i]}) \cup {c}
<1> DEFINE t == ReplaceAt(s, i, c)
           n == Len(s)
<1>1. t \in Seq(Node) /\ Len(t) = n /\ \A j \in 1 .. n : t[j] = IF j = i THEN c ELSE s[j]
  BY DEF ReplaceAt
<1>2. ToSet(s) = {s[j] : j \in 1 .. n} /\ ToSet(t) = {t[j] : j \in 1 .. n}
  BY <1>1, Items
<1>3. i \in 1 .. n /\ \A j \in 1 .. n : s[j] # c
  BY <1>2
<1> HIDE DEF t, n
<1>4. Simple(t)
  BY <1>1, <1>3 DEF Simple, n
<1>5. ToSet(t) = (ToSet(s) \ {s[i]}) \cup {c}
  <2>1. ASSUME NEW j \in 1 .. n
        PROVE  t[j] \in (ToSet(s) \ {s[i]}) \cup {c}
    BY <1>1, <1>2, <1>3 DEF Simple, n
  <2>2. ASSUME NEW j \in 1 .. n, s[j] # s[i]
        PROVE  s[j] \in ToSet(t)
    BY <1>1, <1>2, <2>2
  <2>3. c \in ToSet(t)
    BY <1>1, <1>2, <1>3
  <2> QED
    BY <1>2, <2>1, <2>2, <2>3
<1> QED
  BY <1>1, <1>4, <1>5 DEF t

\* Another list is not touched.
LEMMA Elsewhere ==
  ASSUME NEW h, NEW g, NEW S, NEW a, NEW m \in Node, m # a, NEW s \in Seq(Node), IsList(h, m, s),
         Same(h, g, S, a), ToSet(s) \cap S = {}
  PROVE  IsList(g, m, s)
<1>1. ToSet(s) = {s[i] : i \in 1 .. Len(s)} /\ ToSet(s) \in SUBSET Node
  BY Items
<1>2. \A i \in 1 .. Len(s) : g[s[i]].next = h[s[i]].next /\ g[s[i]].prev = h[s[i]].prev
  BY <1>1 DEF Same
<1>3. g[m].child = h[m].child
  BY DEF Same
<1> QED
  BY <1>2, <1>3, IsListIs

\* The list of a becomes t.
LEMMA Changed ==
  ASSUME NEW h, NEW o, NEW k, Shape(h, o, k), NEW a \in Used(h), h[a].ref = 0,
         NEW g \in Heap, NEW t \in Seq(Node), Simple(t), IsList(g, a, t),
         NEW S, Same(h, g, S, a), \A m \in Node : m # a => ToSet(k[m]) \cap S = {},
         NEW q, Forest([Kids(k) EXCEPT ![a] = ToSet(t)], q), All([Kids(k) EXCEPT ![a] = ToSet(t)], q) = Used(h),
         \A c \in q : g[c].next = 0 /\ g[c].prev = 0
  PROVE  Shape(g, q, [k EXCEPT ![a] = t])
<1> DEFINE l == [k EXCEPT ![a] = t]
<1>1. /\ k \in [Node -> Seq(Node)] /\ a \in Node /\ h[a].used
      /\ \A m \in Node : /\ Simple(k[m])
                         /\ IF h[m].used /\ h[m].ref = 0 THEN IsList(h, m, k[m]) ELSE k[m] = <<>>
  BY DEF Shape, Used
<1>2. l \in [Node -> Seq(Node)] /\ \A m \in Node : l[m] = IF m = a THEN t ELSE k[m]
  BY <1>1
<1>3. Kids(l) = [Kids(k) EXCEPT ![a] = ToSet(t)]
  BY <1>1, <1>2 DEF Kids
<1>4. \A m \in Node : g[m].used = h[m].used /\ g[m].ref = h[m].ref
  BY DEF Same
<1>5. Used(g) = Used(h)
  BY <1>4 DEF Used
<1> HIDE DEF l
<1>6. ASSUME NEW m \in Node
      PROVE  /\ Simple(l[m])
             /\ IF g[m].used /\ g[m].ref = 0 THEN IsList(g, m, l[m]) ELSE l[m] = <<>>
  <2>1. CASE m = a
    BY <1>1, <1>2, <1>4, <2>1
  <2>2. CASE m # a
    <3>1. l[m] = k[m] /\ k[m] \in Seq(Node)
      BY <1>1, <1>2, <2>2
    <3>2. CASE h[m].used /\ h[m].ref = 0
      <4>1. IsList(h, m, k[m]) /\ ToSet(k[m]) \cap S = {}
        BY <1>1, <2>2, <3>2
      <4>2. IsList(g, m, k[m])
        BY <2>2, <3>1, <4>1, Elsewhere
      <4> QED
        BY <1>1, <1>4, <3>1, <3>2, <4>2
    <3>3. CASE ~ (h[m].used /\ h[m].ref = 0)
      BY <1>1, <1>4, <3>1, <3>3
    <3> QED
      BY <3>2, <3>3
  <2> QED
    BY <2>1, <2>2
<1> QED
  BY <1>2, <1>3, <1>5, <1>6 DEF Shape, l

\* In no list and with none.
Unlisted(h, o, k, n) ==
  /\ k[n] = <<>> /\ n \notin o /\ \A m \in Node : n \notin ToSet(k[m])
  /\ Forest(Kids(k), o \cup {n}) /\ All(Kids(k), o \cup {n}) = Used(h) \cup {n} /\ Below(k, n) = {n}

\* What is not used.
LEMMA Alone ==
  ASSUME NEW h, NEW o, NEW k, Shape(h, o, k), NEW n \in Node, ~ h[n].used
  PROVE  Unlisted(h, o, k, n)
<1> DEFINE e == Kids(k)
<1>1. /\ k \in [Node -> Seq(Node)] /\ Forest(e, o) /\ All(e, o) = Used(h)
      /\ \A m \in Node : ~ h[m].used => k[m] = <<>>
  BY DEF Shape
<1>2. /\ e \in Graph /\ o \in SUBSET Node /\ o \subseteq Used(h) /\ \A m \in Used(h) : e[m] \subseteq Used(h)
  BY <1>1, AllIs DEF Forest
<1>3. \A m \in Node : e[m] = ToSet(k[m])
  BY DEF Kids
<1>4. k[n] = <<>> /\ e[n] = {} /\ n \notin Used(h) /\ n \notin o
  BY <1>1, <1>2, <1>3 DEF Used, ToSet
<1>5. \A m \in Node : n \notin e[m]
  <2>1. ASSUME NEW m \in Node, m \notin Used(h)
        PROVE  e[m] = {}
    BY <1>1, <1>3, <2>1 DEF Used, ToSet
  <2> QED
    BY <1>2, <1>4, <2>1
<1> HIDE DEF e
<1>6. Forest(e, o \cup {n}) /\ All(e, o \cup {n}) = All(e, o) \cup {n} /\ Reached(e, n) = {n}
  BY <1>1, <1>4, <1>5, Planted, Zenon
<1> QED
  BY <1>1, <1>3, <1>4, <1>5, <1>6 DEF Unlisted, Below, e, Kids

\* A new item is the caller's.
LEMMA Plants ==
  ASSUME NEW h, NEW o, NEW k, Shape(h, o, k), NEW n \in Node, ~ h[n].used,
         NEW r \in Item, r.used, r.next = 0, r.prev = 0, r.ref = 0 => r.child = 0
  PROVE  Shape([h EXCEPT ![n] = r], o \cup {n}, k)
<1> DEFINE g == [h EXCEPT ![n] = r]
<1>1. /\ h \in Heap /\ k \in [Node -> Seq(Node)]
      /\ \A m \in Node : /\ Simple(k[m])
                         /\ IF h[m].used /\ h[m].ref = 0 THEN IsList(h, m, k[m]) ELSE k[m] = <<>>
      /\ \A c \in o : h[c].next = 0 /\ h[c].prev = 0
  BY DEF Shape
<1>2. o \in SUBSET Node
  BY DEF Shape, Forest
<1>3. Unlisted(h, o, k, n)
  BY Alone
<1>4. k[n] = <<>> /\ n \notin o /\ \A m \in Node : n \notin ToSet(k[m])
  BY <1>3 DEF Unlisted
<1>5. g \in Heap /\ \A m \in Node : g[m] = IF m = n THEN r ELSE h[m]
  BY <1>1 DEF Heap
<1> HIDE DEF g
<1>6. Forest(Kids(k), o \cup {n}) /\ All(Kids(k), o \cup {n}) = Used(h) \cup {n}
  BY <1>3 DEF Unlisted
<1>7. Used(g) = Used(h) \cup {n}
  BY <1>5 DEF Used
<1>8. ASSUME NEW m \in Node
      PROVE  IF g[m].used /\ g[m].ref = 0 THEN IsList(g, m, k[m]) ELSE k[m] = <<>>
  <2>1. CASE m = n
    <3>1. r.ref = 0 => IsList(g, n, <<>>)
      <4>1. <<>> \in Seq(Node) /\ Len(<<>>) = 0 /\ 1 .. 0 = {}
        OBVIOUS
      <4> QED
        BY <1>5, <4>1 DEF IsList, Links
    <3> QED
      BY <1>4, <1>5, <2>1, <3>1
  <2>2. CASE m # n
    <3>1. g[m] = h[m] /\ k[m] \in Seq(Node)
      BY <1>1, <1>5, <2>2
    <3>2. CASE h[m].used /\ h[m].ref = 0
      <4>1. IsList(h, m, k[m])
        BY <1>1, <3>2
      <4>2. ToSet(k[m]) = {k[m][i] : i \in 1 .. Len(k[m])} /\ n \notin ToSet(k[m]) /\ ToSet(k[m]) \in SUBSET Node
        BY <1>4, <3>1, Items
      <4>3. \A i \in 1 .. Len(k[m]) : g[k[m][i]] = h[k[m][i]]
        BY <1>5, <4>2
      <4>4. IsList(g, m, k[m])
        BY <3>1, <4>1, <4>3, IsListIs
      <4> QED
        BY <3>1, <3>2, <4>4
    <3>3. CASE ~ (h[m].used /\ h[m].ref = 0)
      BY <1>1, <3>1, <3>3
    <3> QED
      BY <3>2, <3>3
  <2> QED
    BY <2>1, <2>2
<1>9. \A c \in o \cup {n} : g[c].next = 0 /\ g[c].prev = 0
  BY <1>1, <1>2, <1>5
<1>10. Shape(g, o \cup {n}, k)
  BY <1>1, <1>5, <1>6, <1>7, <1>8, <1>9 DEF Shape
<1> QED
  BY <1>10 DEF g

\* What the parts of the invariant say of an array and of what the caller holds.
LEMMA ShapeIs ==
  ASSUME NEW h, NEW o, NEW k, Shape(h, o, k)
  PROVE  /\ h \in Heap /\ k \in [Node -> Seq(Node)] /\ Kids(k) \in Graph /\ o \in SUBSET Node /\ Used(h) \in SUBSET Node
         /\ Forest(Kids(k), o) /\ All(Kids(k), o) = Used(h)
         /\ \A m \in Node : k[m] \in Seq(Node) /\ Simple(k[m]) /\ Kids(k)[m] = ToSet(k[m])
         /\ \A c \in Node : Below(k, c) = Reached(Kids(k), c)
         /\ \A a \in Used(h) : h[a].ref = 0 => IsList(h, a, k[a]) /\ Chain(h, h[a].child) = k[a]
         /\ \A c \in o : h[c].next = 0 /\ h[c].prev = 0 /\ \A m \in Node : c \notin ToSet(k[m])
         /\ \A a, b \in Node : a # b => ToSet(k[a]) \cap ToSet(k[b]) = {}
<1>1. /\ h \in Heap /\ k \in [Node -> Seq(Node)] /\ Kids(k) \in Graph /\ o \in SUBSET Node /\ Used(h) \in SUBSET Node
      /\ Forest(Kids(k), o) /\ All(Kids(k), o) = Used(h) /\ \A c \in o : h[c].next = 0 /\ h[c].prev = 0
  BY DEF Shape, Forest, Used
<1>2. \A m \in Node : k[m] \in Seq(Node) /\ Simple(k[m]) /\ Kids(k)[m] = ToSet(k[m])
  BY DEF Shape, Kids
<1>3. \A c \in Node : Below(k, c) = Reached(Kids(k), c)
  BY DEF Below, Kids
<1>4. ASSUME NEW a \in Used(h), h[a].ref = 0
      PROVE  IsList(h, a, k[a]) /\ Chain(h, h[a].child) = k[a]
  <2>1. a \in Node /\ h[a].used
    BY DEF Used
  <2>2. IsList(h, a, k[a])
    BY <1>4, <2>1 DEF Shape
  <2> QED
    BY <1>2, <2>1, <2>2, ChainIs DEF IsList
<1>5. \A c \in o : \A m \in Node : c \notin ToSet(k[m])
  BY <1>1, <1>2 DEF Forest
<1>6. \A a, b \in Node : a # b => ToSet(k[a]) \cap ToSet(k[b]) = {}
  BY <1>1, <1>2 DEF Forest
<1> QED
  BY <1>1, <1>2, <1>3, <1>4, <1>5, <1>6

\* What the caller holds becomes the last child of an array.
LEMMA Adds ==
  ASSUME NEW h, NEW o, NEW k, Shape(h, o, k), NEW a \in Used(h), h[a].ref = 0,
         NEW c \in o, a \notin Below(k, c)
  PROVE  Shape(Added(h, a, c), o \ {c}, [k EXCEPT ![a] = Append(@, c)])
<1> DEFINE s == k[a]
           t == Append(s, c)
           g == Added(h, a, c)
           S == ToSet(s) \cup {c}
           e == Kids(k)
<1>1. /\ h \in Heap /\ a \in Node /\ c \in Node /\ s \in Seq(Node) /\ Simple(s) /\ IsList(h, a, s)
      /\ c \notin ToSet(s) /\ h[c].next = 0 /\ h[c].prev = 0
      /\ Forest(e, o) /\ All(e, o) = Used(h) /\ e[a] = ToSet(s) /\ a \notin Reached(e, c) /\ e \in Graph
  BY ShapeIs
<1>2. g \in Heap /\ IsList(g, a, t) /\ Same(h, g, S, a)
  BY <1>1, AddedList
<1>3. t \in Seq(Node) /\ Simple(t) /\ ToSet(t) = S
  BY <1>1, AppendItems
<1>4. \A m \in Node : m # a => ToSet(k[m]) \cap S = {}
  <2>1. \A m \in Node : m # a => ToSet(k[m]) \cap ToSet(s) = {} /\ c \notin ToSet(k[m])
    BY <1>1, ShapeIs
  <2> QED
    BY <2>1
<1> HIDE DEF g, t, e
<1>5. /\ Forest([e EXCEPT ![a] = ToSet(t)], o \ {c})
      /\ All([e EXCEPT ![a] = ToSet(t)], o \ {c}) = Used(h)
  <2>1. [e EXCEPT ![a] = ToSet(t)] = [e EXCEPT ![a] = @ \cup {c}]
    BY <1>1, <1>3
  <2>2. a \in All(e, o)
    BY <1>1
  <2>3. Forest([e EXCEPT ![a] = @ \cup {c}], o \ {c}) /\ All([e EXCEPT ![a] = @ \cup {c}], o \ {c}) = All(e, o)
    BY <1>1, <2>2, Joined, Zenon
  <2> QED
    BY <1>1, <2>1, <2>3
<1>6. \A x \in o \ {c} : g[x].next = 0 /\ g[x].prev = 0
  <2>1. \A x \in o \ {c} : x \in Node /\ h[x].next = 0 /\ h[x].prev = 0 /\ x \notin S
    BY <1>1, ShapeIs
  <2> QED
    BY <1>2, <2>1 DEF Same
<1>7. Shape(g, o \ {c}, [k EXCEPT ![a] = t])
  BY <1>2, <1>3, <1>4, <1>5, <1>6, Changed DEF e
<1> QED
  BY <1>7 DEF g, t

\* A child of an array becomes what the caller holds.
LEMMA Detaches ==
  ASSUME NEW h, NEW o, NEW k, Shape(h, o, k), NEW a \in Used(h), h[a].ref = 0, NEW i \in 1 .. Len(k[a])
  PROVE  Shape(Detached(h, a, k[a][i]), o \cup {k[a][i]}, [k EXCEPT ![a] = RemoveAt(@, i)])
<1> DEFINE s == k[a]
           c == s[i]
           t == RemoveAt(s, i)
           g == Detached(h, a, c)
           S == ToSet(s)
           e == Kids(k)
<1>1. /\ h \in Heap /\ a \in Node /\ s \in Seq(Node) /\ Simple(s) /\ IsList(h, a, s)
      /\ Forest(e, o) /\ All(e, o) = Used(h) /\ e[a] = ToSet(s) /\ e \in Graph
  BY ShapeIs
<1>2. g \in Heap /\ IsList(g, a, t) /\ Same(h, g, S, a) /\ g[c].next = 0 /\ g[c].prev = 0
  BY <1>1, DetachedList
<1>3. t \in Seq(Node) /\ Simple(t) /\ ToSet(t) = S \ {c}
  BY <1>1, RemoveItems
<1>4. \A m \in Node : m # a => ToSet(k[m]) \cap S = {}
  BY <1>1, ShapeIs
<1>5. c \in e[a]
  BY <1>1, Items
<1> HIDE DEF g, t, e, c
<1>6. /\ Forest([e EXCEPT ![a] = ToSet(t)], o \cup {c})
      /\ All([e EXCEPT ![a] = ToSet(t)], o \cup {c}) = Used(h)
  <2>1. [e EXCEPT ![a] = ToSet(t)] = [e EXCEPT ![a] = @ \ {c}]
    BY <1>1, <1>3
  <2>2. Forest(e, o) /\ a \in All(e, o) /\ c \in e[a]
    BY <1>1, <1>5
  <2>3. Forest([e EXCEPT ![a] = @ \ {c}], o \cup {c}) /\ All([e EXCEPT ![a] = @ \ {c}], o \cup {c}) = All(e, o)
    BY <2>2, Parted, ZenonT(40)
  <2> QED
    BY <1>1, <2>1, <2>3
<1>7. \A x \in o \cup {c} : g[x].next = 0 /\ g[x].prev = 0
  <2>1. \A x \in o : x \in Node /\ h[x].next = 0 /\ h[x].prev = 0 /\ x \notin S
    BY <1>1, ShapeIs
  <2> QED
    BY <1>2, <2>1 DEF Same
<1>8. Shape(g, o \cup {c}, [k EXCEPT ![a] = t])
  BY <1>2, <1>3, <1>4, <1>6, <1>7, Changed DEF e
<1> QED
  BY <1>8 DEF g, t, c

\* With fewer children no more is reached.
LEMMA Fewer ==
  ASSUME NEW e \in Graph, NEW f, \A m \in Node : f[m] \subseteq e[m], NEW c \in Node
  PROVE  Reached(f, c) \subseteq Reached(e, c)
<1> DEFINE S == Reached(e, c)
<1>1. S \in SUBSET Node /\ c \in S /\ \A m \in S : e[m] \subseteq S
  BY ReachedIs
<1> HIDE DEF S
<1>2. \A m \in S : f[m] \subseteq S
  BY <1>1
<1>3. Reached(f, c) \subseteq S
  BY <1>1, <1>2, ReachedLeast
<1> QED
  BY <1>3 DEF S

\* What the caller holds takes the place of a child of an array.
LEMMA Swaps ==
  ASSUME NEW h, NEW o, NEW k, Shape(h, o, k), NEW a \in Used(h), h[a].ref = 0, NEW i \in 1 .. Len(k[a]),
         NEW new \in o, a \notin Below(k, new)
  PROVE  Shape(Swapped(h, a, k[a][i], new), (o \ {new}) \cup {k[a][i]}, [k EXCEPT ![a] = ReplaceAt(@, i, new)])
<1> DEFINE s == k[a]
           c == s[i]
           t == ReplaceAt(s, i, new)
           g == Swapped(h, a, c, new)
           S == ToSet(s) \cup {new}
           e == Kids(k)
           q == (o \ {new}) \cup {c}
           e1 == [e EXCEPT ![a] = @ \ {c}]
           e2 == [e1 EXCEPT ![a] = @ \cup {new}]
<1>1. /\ h \in Heap /\ a \in Node /\ s \in Seq(Node) /\ Simple(s) /\ IsList(h, a, s) /\ new \in Node
      /\ Forest(e, o) /\ All(e, o) = Used(h) /\ e[a] = ToSet(s) /\ e \in Graph /\ new \notin ToSet(s)
      /\ a \notin Reached(e, new) /\ o \in SUBSET Node
  BY ShapeIs
<1>2. g \in Heap /\ IsList(g, a, t) /\ Same(h, g, S, a) /\ g[c].next = 0 /\ g[c].prev = 0
  <2> HIDE DEF s, e
  <2>1. /\ i \in 1 .. Len(s) /\ h \in Heap /\ a \in Node /\ s \in Seq(Node) /\ Simple(s) /\ IsList(h, a, s)
        /\ new \in Node /\ new \notin ToSet(s)
    BY <1>1 DEF s
  <2> QED
    BY <2>1, SwappedList, ZenonT(40)
<1>3. t \in Seq(Node) /\ Simple(t) /\ ToSet(t) = (ToSet(s) \ {c}) \cup {new}
  BY <1>1, ReplaceItems
<1>4. \A m \in Node : m # a => ToSet(k[m]) \cap S = {}
  <2>1. \A m \in Node : m # a => ToSet(k[m]) \cap ToSet(s) = {} /\ new \notin ToSet(k[m])
    BY <1>1, ShapeIs
  <2> QED
    BY <2>1
<1>5. c \in ToSet(s)
  BY <1>1, Items
<1> HIDE DEF g, t, e, c
<1>6. Forest([e EXCEPT ![a] = ToSet(t)], q) /\ All([e EXCEPT ![a] = ToSet(t)], q) = Used(h)
  <2>1. Forest(e, o) /\ a \in All(e, o) /\ c \in e[a]
    BY <1>1, <1>5
  <2>2. Forest(e1, o \cup {c}) /\ All(e1, o \cup {c}) = All(e, o)
    BY <2>1, Parted, ZenonT(40)
  <2>3. \A m \in Node : e1[m] = IF m = a THEN e[m] \ {c} ELSE e[m]
    BY <1>1 DEF Graph
  <2>4. e2 = [e EXCEPT ![a] = ToSet(t)]
    BY <1>1, <1>3 DEF Graph
  <2> HIDE DEF e1
  <2>5. a \notin Reached(e1, new)
    <3>1. \A m \in Node : e1[m] \subseteq e[m]
      BY <2>3
    <3> QED
      BY <1>1, <3>1, Fewer
  <2>6. a \in All(e1, o \cup {c}) /\ new \in o \cup {c}
    BY <2>1, <2>2
  <2>7. Forest(e2, (o \cup {c}) \ {new}) /\ All(e2, (o \cup {c}) \ {new}) = All(e1, o \cup {c})
    <3> HIDE DEF e2
    <3> DEFINE p == o \cup {c}
    <3>1. Forest(e1, p) /\ a \in All(e1, p) /\ new \in p /\ a \notin Reached(e1, new)
      BY <2>2, <2>5, <2>6
    <3> HIDE DEF p
    <3>2. Forest([e1 EXCEPT ![a] = @ \cup {new}], p \ {new}) /\ All([e1 EXCEPT ![a] = @ \cup {new}], p \ {new}) = All(e1, p)
      BY <3>1, Joined, Zenon
    <3> QED
      BY <3>2 DEF e2, p
  <2>8. (o \cup {c}) \ {new} = q
    BY <1>1, <1>5
  <2> QED
    BY <1>1, <2>2, <2>4, <2>7, <2>8
<1>7. \A x \in q : g[x].next = 0 /\ g[x].prev = 0
  <2>1. \A x \in o \ {new} : x \in Node /\ h[x].next = 0 /\ h[x].prev = 0 /\ x \notin S
    BY <1>1, ShapeIs
  <2> QED
    BY <1>2, <2>1 DEF Same
<1> HIDE DEF q, e1
<1>8. Shape(g, q, [k EXCEPT ![a] = t])
  BY <1>2, <1>3, <1>4, <1>6, <1>7, Changed DEF e
<1> QED
  BY <1>8 DEF g, t, c, q

\* What the caller holds is freed, with all below it.
LEMMA Deletes ==
  ASSUME NEW h, NEW o, NEW k, Shape(h, o, k), NEW c \in o
  PROVE  Shape(DeleteFrom(h, c), o \ {c}, Without(k, Below(k, c)))
<1> DEFINE B == Below(k, c)
           g == DeleteFrom(h, c)
           l == Without(k, B)
           e == Kids(k)
           f == [m \in Node |-> IF m \in B THEN {} ELSE e[m]]
           q == o \ {c}
<1>1. /\ h \in Heap /\ k \in [Node -> Seq(Node)] /\ c \in Node /\ h[c].next = 0 /\ B = Reached(e, c)
      /\ Forest(e, o) /\ All(e, o) = Used(h) /\ e \in Graph
      /\ \A x \in o : h[x].next = 0 /\ h[x].prev = 0
  BY ShapeIs
<1>2. \A m \in Node : /\ e[m] = ToSet(k[m]) /\ k[m] \in Seq(Node) /\ Simple(k[m])
                      /\ IF h[m].used /\ h[m].ref = 0 THEN IsList(h, m, k[m]) ELSE k[m] = <<>>
  BY DEF Shape, Kids
<1>3. B \subseteq Used(h) /\ Used(h) \in SUBSET Node /\ o \subseteq Used(h)
  <2>1. o \in SUBSET Node
    BY <1>1 DEF Forest
  <2>2. o \subseteq All(e, o) /\ All(e, o) \in SUBSET Node
    BY <1>1, <2>1, AllIs
  <2>3. Reached(e, c) \subseteq All(e, o)
    BY DEF All
  <2> QED
    BY <1>1, <2>2, <2>3
<1>4. /\ Forest(f, q) /\ All(f, q) = All(e, o) \ B
      /\ \A m \in Node \ B : e[m] \cap B = {}
  <2>1. f = [m \in Node |-> IF m \in Reached(e, c) THEN {} ELSE e[m]]
    BY <1>1
  <2> HIDE DEF f, B, e
  <2> QED
    BY <1>1, <2>1, Felled, ZenonT(40)
<1>5. Doomed(h, c) = B
  <2>1. \A m \in Reached(Kids(k), c) : IF h[m].ref = 0 THEN IsList(h, m, k[m]) ELSE k[m] = <<>>
    BY <1>1, <1>2, <1>3 DEF Used
  <2> QED
    BY <1>1, <2>1, DoomedIs
<1>6. g = [m \in Node |-> IF m \in B THEN Free ELSE h[m]]
  BY <1>5 DEF DeleteFrom
<1>7. l = [m \in Node |-> IF m \in B THEN <<>> ELSE k[m]]
  BY DEF Without
<1>8. Kids(l) = f
  BY <1>2, <1>7 DEF Kids, ToSet
<1> HIDE DEF B, g, l, e, f
<1>9. ~ Free.used /\ Free \in Item
  BY DEF Free, Item, Ptr
<1>10. g \in Heap /\ \A m \in Node : g[m] = IF m \in B THEN Free ELSE h[m]
  BY <1>1, <1>6, <1>9 DEF Heap
<1>11. l \in [Node -> Seq(Node)] /\ \A m \in Node : l[m] = IF m \in B THEN <<>> ELSE k[m]
  BY <1>1, <1>7
<1>12. Used(g) = Used(h) \ B
  BY <1>9, <1>10 DEF Used
<1>13. ASSUME NEW m \in Node
       PROVE  /\ Simple(l[m])
              /\ IF g[m].used /\ g[m].ref = 0 THEN IsList(g, m, l[m]) ELSE l[m] = <<>>
  <2>1. CASE m \in B
    <3>1. Simple(<<>>)
      BY DEF Simple
    <3> QED
      BY <1>9, <1>10, <1>11, <2>1, <3>1
  <2>2. CASE m \notin B
    <3>1. g[m] = h[m] /\ l[m] = k[m] /\ k[m] \in Seq(Node) /\ Simple(k[m])
      BY <1>2, <1>10, <1>11, <2>2
    <3>2. CASE h[m].used /\ h[m].ref = 0
      <4>1. IsList(h, m, k[m])
        BY <1>2, <3>2
      <4>2. ToSet(k[m]) = {k[m][i] : i \in 1 .. Len(k[m])} /\ ToSet(k[m]) \cap B = {} /\ ToSet(k[m]) \in SUBSET Node
        BY <1>2, <1>4, <2>2, <3>1, Items
      <4>3. \A i \in 1 .. Len(k[m]) : g[k[m][i]] = h[k[m][i]]
        BY <1>10, <4>2
      <4>4. IsList(g, m, k[m])
        BY <3>1, <4>1, <4>3, IsListIs
      <4> QED
        BY <3>1, <3>2, <4>4
    <3>3. CASE ~ (h[m].used /\ h[m].ref = 0)
      BY <1>2, <3>1, <3>3
    <3> QED
      BY <3>2, <3>3
  <2> QED
    BY <2>1, <2>2
<1>14. \A x \in q : g[x].next = 0 /\ g[x].prev = 0
  <2>1. q \subseteq Used(g)
    <3>1. q \subseteq All(f, q)
      BY <1>4, AllIs DEF Forest
    <3> QED
      BY <1>1, <1>4, <1>12, <3>1
  <2> QED
    BY <1>1, <1>3, <1>10, <1>12, <2>1
<1>15. Shape(g, q, l)
  BY <1>1, <1>4, <1>8, <1>10, <1>11, <1>12, <1>13, <1>14 DEF Shape
<1> QED
  BY <1>15 DEF g, l, B

-----------------------------------------------------------------------------
(* Every operation of the caller keeps it. *)

IInv == Shape(heap, owned, kids)

\* Every item the caller may reach is used.
LEMMA ArraysUsed ==
  ASSUME IInv
  PROVE  /\ UNION {Below(kids, o) : o \in owned} = Used(heap)
         /\ \A a \in Arrays : a \in Used(heap) /\ heap[a].ref = 0
<1>1. owned \in SUBSET Node /\ All(Kids(kids), owned) = Used(heap)
      /\ \A c \in Node : Below(kids, c) = Reached(Kids(kids), c)
  BY ShapeIs DEF IInv
<1>2. UNION {Below(kids, o) : o \in owned} = Used(heap)
  BY <1>1 DEF All
<1> QED
  BY <1>2 DEF Arrays

\* Before the first item there is nothing.
LEMMA ListInitKeeps ==
  ASSUME ListInit
  PROVE  IInv
<1> DEFINE h == [n \in Node |-> Free]
<1>1. /\ heap = [n \in Node |-> IF n = 1 THEN New ELSE Free] /\ owned = {1}
      /\ kids = [n \in Node |-> <<>>] /\ 1 \in Node
  BY NodeAssumption DEF ListInit
<1>2. Free \in Item /\ New \in Item /\ ~ Free.used /\ New.used /\ New.next = 0 /\ New.prev = 0 /\ New.ref = 0 /\ New.child = 0
  BY DEF Free, New, Item, Ptr
<1>3. h \in Heap /\ Used(h) = {} /\ \A n \in Node : h[n] = Free
  BY <1>2 DEF Heap, Used
<1> HIDE DEF h
<1>4. Shape(h, {}, kids)
  <2>1. kids \in [Node -> Seq(Node)] /\ \A n \in Node : kids[n] = <<>>
    BY <1>1
  <2>2. Simple(<<>>)
    BY DEF Simple
  <2>3. Kids(kids) \in Graph /\ \A n \in Node : Kids(kids)[n] = {}
    BY <2>1 DEF Kids, Graph, ToSet
  <2>4. Forest(Kids(kids), {}) /\ All(Kids(kids), {}) = {}
    BY <2>3 DEF Forest, All
  <2> QED
    BY <1>2, <1>3, <2>1, <2>2, <2>4 DEF Shape
<1> DEFINE o == {}
<1>5. Shape(h, o, kids) /\ ~ h[1].used
  BY <1>1, <1>2, <1>3, <1>4
<1> HIDE DEF o
<1>6. Shape([h EXCEPT ![1] = New], o \cup {1}, kids)
  BY <1>1, <1>2, <1>5, Plants, Zenon
<1>7. [h EXCEPT ![1] = New] = heap /\ o \cup {1} = owned
  BY <1>1, <1>3 DEF Heap, o
<1> QED
  BY <1>6, <1>7 DEF IInv

\* cJSON_Create...
LEMMA CreateKeeps ==
  ASSUME IInv, Create
  PROVE  IInv'
<1>1. PICK n \in Unused : Step([heap EXCEPT ![n] = New], owned \cup {n}, kids)
  BY DEF Create
<1>2. New \in Item /\ New.used /\ New.next = 0 /\ New.prev = 0 /\ New.child = 0
  BY DEF Free, New, Item, Ptr
<1>3. n \in Node /\ ~ heap[n].used
  BY DEF Unused
<1>4. Shape([heap EXCEPT ![n] = New], owned \cup {n}, kids)
  BY <1>2, <1>3, Plants DEF IInv
<1> QED
  BY <1>1, <1>4 DEF IInv, Step

\* cJSON_Delete.
LEMMA DeleteKeeps ==
  ASSUME IInv, NEW c \in owned, Delete(c)
  PROVE  IInv'
<1>1. Shape(DeleteFrom(heap, c), owned \ {c}, Without(kids, Below(kids, c)))
  BY Deletes DEF IInv
<1> QED
  BY <1>1 DEF IInv, Delete, Step

\* cJSON_AddItemToArray, cJSON_AddItemToObject.
LEMMA AddItemKeeps ==
  ASSUME IInv, NEW a \in Arrays, NEW c \in Node, AddItem(a, c)
  PROVE  IInv'
<1>1. a \in Used(heap) /\ heap[a].ref = 0
  BY ArraysUsed
<1>2. c \in owned /\ a \notin Below(kids, c)
  BY DEF AddItem
<1>3. Shape(Added(heap, a, c), owned \ {c}, [kids EXCEPT ![a] = Append(@, c)])
  BY <1>1, <1>2, Adds DEF IInv
<1> QED
  BY <1>3 DEF IInv, AddItem, Step

\* cJSON_AddItemReferenceToArray, cJSON_AddItemReferenceToObject: an item of its own, then added.
LEMMA AddReferenceKeeps ==
  ASSUME IInv, NEW a \in Arrays, NEW c \in Node, AddReference(a, c)
  PROVE  IInv'
<1> DEFINE ref == [heap[c] EXCEPT !.ref = IF heap[c].ref = 0 THEN c ELSE heap[c].ref, !.next = 0, !.prev = 0]
<1>1. PICK n \in Unused :
        /\ heap[c].used
        /\ Step(Added([heap EXCEPT ![n] = ref], a, n), owned, [kids EXCEPT ![a] = Append(@, n)])
  BY DEF AddReference
<1>2. heap \in Heap /\ kids \in [Node -> Seq(Node)]
  BY ShapeIs DEF IInv
<1>3. n \in Node /\ ~ heap[n].used /\ n # 0
  BY NoNull DEF Unused
<1>4. ref \in Item /\ ref.used /\ ref.next = 0 /\ ref.prev = 0 /\ ref.ref # 0
  <2>1. heap[c] \in Item /\ heap[c].used /\ c # 0 /\ c \in Ptr /\ 0 \in Ptr
    BY <1>1, <1>2, NoNull DEF Heap, Ptr
  <2> QED
    BY <2>1 DEF Item
<1>5. a \in Used(heap) /\ heap[a].ref = 0
  BY ArraysUsed
<1> DEFINE h == [heap EXCEPT ![n] = ref]
<1>6. a # n /\ h[a] = heap[a] /\ a \in Node
  BY <1>2, <1>3, <1>5 DEF Used, Heap
<1> HIDE DEF ref
<1>7. Shape(h, owned \cup {n}, kids) /\ n \notin owned /\ Below(kids, n) = {n}
  <2>1. Shape(heap, owned, kids) /\ n \in Node /\ ~ heap[n].used /\ (ref.ref = 0 => ref.child = 0)
    BY <1>3, <1>4 DEF IInv
  <2>2. Shape(h, owned \cup {n}, kids)
    BY <1>4, <2>1, Plants
  <2>3. Unlisted(heap, owned, kids, n)
    BY <2>1, Alone
  <2> QED
    BY <2>2, <2>3 DEF Unlisted
<1> HIDE DEF h
<1>8. a \in Used(h) /\ h[a].ref = 0 /\ a \notin Below(kids, n)
  BY <1>5, <1>6, <1>7 DEF Used
<1>9. Shape(Added(h, a, n), (owned \cup {n}) \ {n}, [kids EXCEPT ![a] = Append(@, n)])
  BY <1>7, <1>8, Adds
<1>10. (owned \cup {n}) \ {n} = owned
  BY <1>7
<1> QED
  BY <1>1, <1>9, <1>10 DEF IInv, Step, h

\* The item at a place of an array.
LEMMA AtPlace ==
  ASSUME IInv, NEW a \in Arrays, NEW i \in DOMAIN kids[a]
  PROVE  /\ a \in Used(heap) /\ heap[a].ref = 0 /\ i \in 1 .. Len(kids[a])
         /\ Chain(heap, heap[a].child)[i] = kids[a][i]
         /\ kids[a][i] \in Node /\ kids[a][i] \in Kids(kids)[a] /\ kids[a][i] \notin owned
         /\ a \notin Below(kids, kids[a][i])
<1>1. a \in Used(heap) /\ heap[a].ref = 0
  BY ArraysUsed
<1>2. /\ a \in Node /\ kids[a] \in Seq(Node) /\ Chain(heap, heap[a].child) = kids[a]
      /\ Forest(Kids(kids), owned) /\ All(Kids(kids), owned) = Used(heap) /\ Kids(kids)[a] = ToSet(kids[a])
      /\ \A c \in owned : c \notin ToSet(kids[a])
      /\ \A c \in Node : Below(kids, c) = Reached(Kids(kids), c)
  BY <1>1, ShapeIs DEF IInv
<1>3. i \in 1 .. Len(kids[a]) /\ kids[a][i] \in Node /\ kids[a][i] \in Kids(kids)[a]
  BY <1>2, Items
<1>4. a \notin Reached(Kids(kids), kids[a][i])
  <2>1. a \in All(Kids(kids), owned)
    BY <1>1, <1>2
  <2> QED
    BY <1>2, <1>3, <2>1, NoCycle, Zenon
<1> QED
  BY <1>1, <1>2, <1>3, <1>4

\* cJSON_DetachItemFromArray, cJSON_DetachItemFromObject.
LEMMA DetachKeeps ==
  ASSUME IInv, NEW a \in Arrays, NEW i \in DOMAIN kids[a], Detach(a, i)
  PROVE  IInv'
<1>1. a \in Used(heap) /\ heap[a].ref = 0 /\ i \in 1 .. Len(kids[a]) /\ Chain(heap, heap[a].child)[i] = kids[a][i]
  BY AtPlace
<1>2. Shape(Detached(heap, a, kids[a][i]), owned \cup {kids[a][i]}, [kids EXCEPT ![a] = RemoveAt(@, i)])
  BY <1>1, Detaches DEF IInv
<1> QED
  BY <1>1, <1>2 DEF IInv, Detach, Step

\* What is below a child does not change when another list does.
LEMMA BelowChanged ==
  ASSUME NEW k \in [Node -> Seq(Node)], NEW a \in Node, NEW t \in Seq(Node), NEW c \in Node,
         a \notin Below(k, c)
  PROVE  Below([k EXCEPT ![a] = t], c) = Below(k, c)
<1> DEFINE l == [k EXCEPT ![a] = t]
           B == Reached(Kids(k), c)
           D == Reached(Kids(l), c)
<1>1. l \in [Node -> Seq(Node)] /\ \A m \in Node : l[m] = IF m = a THEN t ELSE k[m]
  OBVIOUS
<1> HIDE DEF l
<1>2. Kids(k) \in Graph /\ Kids(l) \in Graph
  BY <1>1 DEF Kids, Graph, ToSet
<1>3. \A m \in Node : m # a => Kids(l)[m] = Kids(k)[m]
  BY <1>1 DEF Kids
<1>4. Below(k, c) = B /\ Below(l, c) = D
  BY DEF Below, Kids
<1>5. B \in SUBSET Node /\ c \in B /\ \A m \in B : Kids(k)[m] \subseteq B
  BY <1>2, ReachedIs
<1>6. D \in SUBSET Node /\ c \in D /\ \A m \in D : Kids(l)[m] \subseteq D
  BY <1>2, ReachedIs
<1> HIDE DEF B, D
<1>7. D \subseteq B
  <2>1. \A m \in B : Kids(l)[m] \subseteq B
    BY <1>3, <1>4, <1>5
  <2> QED
    BY <1>5, <2>1, ReachedLeast DEF D
<1>8. B \subseteq D
  <2>1. \A m \in D : Kids(k)[m] \subseteq D
    BY <1>3, <1>4, <1>5, <1>6, <1>7
  <2> QED
    BY <1>6, <2>1, ReachedLeast DEF B
<1> QED
  BY <1>4, <1>7, <1>8 DEF l

\* cJSON_DeleteItemFromArray, cJSON_DeleteItemFromObject: taken out, then deleted.
LEMMA DeleteItemKeeps ==
  ASSUME IInv, NEW a \in Arrays, NEW i \in DOMAIN kids[a], DeleteItem(a, i)
  PROVE  IInv'
<1> DEFINE c == kids[a][i]
           h == Detached(heap, a, c)
           k == [kids EXCEPT ![a] = RemoveAt(@, i)]
<1>1. /\ a \in Used(heap) /\ heap[a].ref = 0 /\ i \in 1 .. Len(kids[a]) /\ Chain(heap, heap[a].child)[i] = c
      /\ c \in Node /\ c \notin owned /\ a \notin Below(kids, c)
  BY AtPlace
<1>2. Shape(h, owned \cup {c}, k)
  BY <1>1, Detaches DEF IInv
<1>3. Below(k, c) = Below(kids, c)
  <2>1. a \in Node /\ kids \in [Node -> Seq(Node)] /\ kids[a] \in Seq(Node)
    BY <1>1, ShapeIs DEF IInv, Used
  <2>2. RemoveAt(kids[a], i) \in Seq(Node)
    BY <1>1, <2>1, RemoveAtIs
  <2> QED
    BY <1>1, <2>1, <2>2, BelowChanged, ZenonT(40)
<1>4. heap' = DeleteFrom(h, c) /\ owned' = owned /\ kids' = Without(k, Below(kids, c))
  BY <1>1 DEF DeleteItem, Step
<1>5. (owned \cup {c}) \ {c} = owned
  BY <1>1
<1> HIDE DEF c, h, k
<1>6. Shape(DeleteFrom(h, c), (owned \cup {c}) \ {c}, Without(k, Below(k, c)))
  BY <1>2, Deletes
<1> QED
  BY <1>3, <1>4, <1>5, <1>6 DEF IInv

\* cJSON_ReplaceItemInArray, cJSON_ReplaceItemInObject: the old item is out, then deleted.
LEMMA ReplaceKeeps ==
  ASSUME IInv, NEW a \in Arrays, NEW i \in DOMAIN kids[a], NEW new \in owned, Replace(a, i, new)
  PROVE  IInv'
<1> DEFINE c == kids[a][i]
           t == ReplaceAt(kids[a], i, new)
           h == Swapped(heap, a, c, new)
           k == [kids EXCEPT ![a] = ReplaceAt(@, i, new)]
           o == (owned \ {new}) \cup {c}
           B == Below(kids, c)
<1>1. /\ a \in Used(heap) /\ heap[a].ref = 0 /\ i \in 1 .. Len(kids[a]) /\ Chain(heap, heap[a].child)[i] = c
      /\ c \in Node /\ c \notin owned /\ a \notin B
  BY AtPlace
<1>2. a \notin Below(kids, new)
  BY DEF Replace
<1>3. Shape(h, o, k)
  BY <1>1, <1>2, Swaps DEF IInv
<1>4. kids \in [Node -> Seq(Node)] /\ a \in Node /\ kids[a] \in Seq(Node) /\ t \in Seq(Node)
  <2>1. a \in Node /\ kids \in [Node -> Seq(Node)] /\ kids[a] \in Seq(Node) /\ Simple(kids[a]) /\ new \in Node
        /\ new \notin ToSet(kids[a])
    BY <1>1, ShapeIs DEF IInv, Used
  <2> QED
    BY <1>1, <2>1, ReplaceItems
<1>5. k = [kids EXCEPT ![a] = t] /\ o \ {c} = owned \ {new}
  BY <1>1
<1>6. /\ heap' = Replaced(heap, a, c, new) /\ owned' = owned \ {new}
      /\ kids' = [Without(kids, B) EXCEPT ![a] = t]
  BY <1>1 DEF Replace, Step
<1>7. Replaced(heap, a, c, new) = DeleteFrom(h, c)
  BY DEF Replaced, Swapped
<1>8. c \in o
  OBVIOUS
<1> HIDE DEF c, h, k, o, t, B
<1>9. Below(k, c) = B
  <2>1. c \in Node /\ a \notin Below(kids, c)
    BY <1>1 DEF B
  <2>2. Below([kids EXCEPT ![a] = t], c) = Below(kids, c)
    BY <1>4, <2>1, BelowChanged
  <2> QED
    BY <1>5, <2>2 DEF B
<1>10. Without(k, B) = [Without(kids, B) EXCEPT ![a] = t]
  BY <1>1, <1>4, <1>5 DEF Without
<1>11. Shape(DeleteFrom(h, c), o \ {c}, Without(k, Below(k, c)))
  BY <1>3, <1>8, Deletes
<1> QED
  BY <1>5, <1>6, <1>7, <1>9, <1>10, <1>11 DEF IInv

\* The lists are linked: what the walk finds is what was put there, both ways.
LEMMA ShapeLinked ==
  ASSUME IInv
  PROVE  ListsLinked
<1>1. \A a \in Used(heap) : heap[a].ref = 0 => IsList(heap, a, kids[a]) /\ Chain(heap, heap[a].child) = kids[a]
  BY ShapeIs DEF IInv
<1>2. \A a \in Node : heap[a].used <=> a \in Used(heap)
  BY DEF Used
<1>3. {n \in Node : heap[n].used} = UNION {Below(kids, o) : o \in owned}
  BY ArraysUsed DEF Used
<1> QED
  BY <1>1, <1>2, <1>3 DEF ListsLinked, IsList

\* Every list of cJSON reads the same both ways and holds what was put there and not taken out,
\* and an item is used exactly if somebody owns it, for any number of items and operations.
THEOREM ListsAreLinked == ListSpec => []ListsLinked
<1>1. ListInit => IInv
  BY ListInitKeeps
<1>2. IInv /\ [ListNext]_listVars => IInv'
  <2> SUFFICES ASSUME IInv, [ListNext]_listVars PROVE IInv'
    OBVIOUS
  <2>1. CASE Create
    BY <2>1, CreateKeeps
  <2>2. ASSUME NEW c \in owned, Delete(c)
        PROVE  IInv'
    BY <2>2, DeleteKeeps
  <2>3. ASSUME NEW a \in Arrays, NEW c \in Node, AddItem(a, c)
        PROVE  IInv'
    BY <2>3, AddItemKeeps
  <2>4. ASSUME NEW a \in Arrays, NEW c \in Node, AddReference(a, c)
        PROVE  IInv'
    BY <2>4, AddReferenceKeeps
  <2>5. ASSUME NEW a \in Arrays, NEW i \in DOMAIN kids[a], Detach(a, i)
        PROVE  IInv'
    BY <2>5, DetachKeeps
  <2>6. ASSUME NEW a \in Arrays, NEW i \in DOMAIN kids[a], DeleteItem(a, i)
        PROVE  IInv'
    BY <2>6, DeleteItemKeeps
  <2>7. ASSUME NEW a \in Arrays, NEW i \in DOMAIN kids[a], NEW new \in owned, Replace(a, i, new)
        PROVE  IInv'
    BY <2>7, ReplaceKeeps
  <2>8. CASE UNCHANGED listVars
    BY <2>8 DEF IInv, listVars
  <2> QED
    BY <2>1, <2>2, <2>3, <2>4, <2>5, <2>6, <2>7, <2>8 DEF ListNext
<1>3. IInv => ListsLinked
  BY ShapeLinked
<1> QED
  BY <1>1, <1>2, <1>3, PTL DEF ListSpec

-----------------------------------------------------------------------------
(* What a recursion describes. *)

\* A set has every place when it has each place whose smaller places it has.
Descends(D, size, P) ==
  /\ size \in [D -> Nat] /\ P \in SUBSET D
  /\ \A i \in D : (\A j \in D : size[j] < size[i] => j \in P) => i \in P

LEMMA Descent ==
  ASSUME NEW D, NEW size, NEW P, Descends(D, size, P)
  PROVE  P = D
<1> USE DEF Descends
<1>1. SUFFICES ASSUME P # D
               PROVE  FALSE
  OBVIOUS
<1> DEFINE Bad == {size[i] : i \in D \ P}
<1>2. Bad \in SUBSET Nat /\ Bad # {}
  BY <1>1
<1>3. PICK n \in Bad : \A m \in Bad : n <= m
  <2> HIDE DEF Bad
  <2> QED
    BY <1>2, Least
<1>4. PICK i \in D \ P : n = size[i]
  BY <1>3
<1>5. ASSUME NEW j \in D, size[j] < size[i]
      PROVE  j \in P
  <2>1. n \in Nat /\ size[j] \in Nat /\ ~ (n <= size[j])
    BY <1>2, <1>3, <1>4, <1>5
  <2>2. size[j] \notin Bad
    BY <1>3, <2>1
  <2> QED
    BY <2>2
<1> QED
  BY <1>4, <1>5

\* A recursion: base where it stops, and elsewhere made of what it is at the next, smaller, place.
Recursive(D, X, N, Stop, next, size, base, G) ==
  /\ N \in Nat /\ Stop \in SUBSET D /\ next \in [D -> D] /\ size \in [D -> 0 .. N]
  /\ \A i \in D \ Stop : size[next[i]] < size[i]
  /\ base \in [D -> X] /\ G \in [D -> [X -> X]]

\* There is a function it describes.
LEMMA Recursion ==
  ASSUME NEW D, NEW X, NEW N, NEW Stop, NEW next, NEW size, NEW base, NEW G,
         Recursive(D, X, N, Stop, next, size, base, G)
  PROVE  \E g \in [D -> X] : \A i \in D : g[i] = IF i \in Stop THEN base[i] ELSE G[i][g[next[i]]]
<1> USE DEF Recursive
<1> DEFINE Is(g, i) == g[i] = IF i \in Stop THEN base[i] ELSE G[i][g[next[i]]]
           Fits(g, m) == \A i \in D : size[i] < m => Is(g, i)
           Missing == {m \in 0 .. N + 1 : ~ \E g \in [D -> X] : Fits(g, m)}
<1>1. ASSUME NEW m \in 0 .. N, m \notin Missing
      PROVE  m + 1 \notin Missing
  <2>1. PICK g \in [D -> X] : Fits(g, m)
    BY <1>1
  <2> DEFINE h == [i \in D |-> IF size[i] < m THEN g[i]
                               ELSE IF i \in Stop THEN base[i] ELSE G[i][g[next[i]]]]
  <2>2. h \in [D -> X]
    OBVIOUS
  <2>3. ASSUME NEW i \in D, size[i] < m + 1
        PROVE  Is(h, i)
    <3>1. CASE i \in Stop
      <4>1. size[i] < m => g[i] = base[i]
        BY <2>1, <3>1
      <4> QED
        BY <3>1, <4>1
    <3>2. CASE i \notin Stop
      <4>1. next[i] \in D /\ size[next[i]] < m
        BY <2>3, <3>2
      <4>2. h[next[i]] = g[next[i]]
        BY <4>1
      <4>3. size[i] < m => g[i] = G[i][g[next[i]]]
        BY <2>1, <3>2
      <4>4. h[i] = G[i][g[next[i]]]
        BY <3>2, <4>3
      <4> QED
        BY <3>2, <4>2, <4>4
    <3> QED
      BY <3>1, <3>2
  <2> QED
    BY <2>2, <2>3
<1>2. 0 \notin Missing
  BY DEF Missing
<1>3. Missing = {}
  <2> HIDE DEF Missing
  <2>1. SUFFICES ASSUME Missing # {}
                 PROVE  FALSE
    OBVIOUS
  <2>2. Missing \in SUBSET (0 .. N + 1)
    BY DEF Missing
  <2>3. PICK m \in Missing : \A j \in Missing : m <= j
    BY <2>1, <2>2, Least
  <2>4. m # 0 /\ m \in 0 .. N + 1
    BY <1>2, <2>2
  <2>5. m - 1 \in 0 .. N /\ m - 1 \notin Missing
    BY <2>3, <2>4
  <2> QED
    BY <1>1, <2>4, <2>5
<1>4. PICK g \in [D -> X] : Fits(g, N + 1)
  <2> HIDE DEF Fits
  <2>1. N + 1 \in 0 .. N + 1
    OBVIOUS
  <2> QED
    BY <1>3, <2>1
<1> QED
  BY <1>4

-----------------------------------------------------------------------------
(* The cleaning of a path. *)

\* The loop ends behind the slashes and double dots.
LEMMA BehindIs ==
  ASSUME NEW C, NEW s \in Seq(C), NEW i \in 1 .. Len(s) + 1
  PROVE  Behind(s)[i] = IF At(s, i) \in Slash THEN Behind(s)[i + 1]
                        ELSE IF Dots(s, i) THEN Behind(s)[i + 2] ELSE i
<1> DEFINE D == 1 .. Len(s) + 1
           Stop == {j \in D : At(s, j) \notin Slash /\ ~ Dots(s, j)}
           next == [j \in D |-> IF j \in Stop THEN j ELSE IF At(s, j) \in Slash THEN j + 1 ELSE j + 2]
           size == [j \in D |-> Len(s) + 1 - j]
           base == [j \in D |-> j]
           G == [j \in D |-> [x \in D |-> x]]
           Fits(g) == g = [j \in D |-> IF At(s, j) \in Slash THEN g[j + 1]
                                        ELSE IF Dots(s, j) THEN g[j + 2] ELSE j]
<1>1. Len(s) \in Nat /\ Stop \in SUBSET D /\ DOMAIN s = 1 .. Len(s)
  OBVIOUS
<1>2. next \in [D -> D] /\ \A j \in D \ Stop : next[j] > j
  <2>1. ASSUME NEW j \in D \ Stop
        PROVE  next[j] \in D /\ next[j] > j
    <3>1. CASE At(s, j) \in Slash
      <4>1. j \in 1 .. Len(s)
        BY <1>1, <3>1 DEF At, Slash, NUL
      <4> QED
        BY <3>1, <4>1
    <3>2. CASE At(s, j) \notin Slash /\ Dots(s, j)
      <4>1. j + 1 \in 1 .. Len(s)
        BY <1>1, <3>2 DEF At, Dots, NUL
      <4> QED
        BY <3>2, <4>1
    <3> QED
      BY <3>1, <3>2
  <2> QED
    BY <2>1
<1>3. size \in [D -> 0 .. Len(s)] /\ \A j \in D \ Stop : size[next[j]] < size[j]
  BY <1>1, <1>2
<1>4. base \in [D -> D] /\ G \in [D -> [D -> D]]
  OBVIOUS
<1>5. \E g \in [D -> D] : \A j \in D : g[j] = IF j \in Stop THEN base[j] ELSE G[j][g[next[j]]]
  <2>1. Recursive(D, D, Len(s), Stop, next, size, base, G)
    BY <1>1, <1>2, <1>3, <1>4 DEF Recursive
  <2> HIDE DEF D, Stop, next, size, base, G
  <2> QED
    BY <2>1, Recursion
<1>6. \E g : Fits(g)
  <2>1. PICK g \in [D -> D] : \A j \in D : g[j] = IF j \in Stop THEN base[j] ELSE G[j][g[next[j]]]
    BY <1>5
  <2>2. ASSUME NEW j \in D
        PROVE  g[j] = IF At(s, j) \in Slash THEN g[j + 1] ELSE IF Dots(s, j) THEN g[j + 2] ELSE j
    BY <1>2, <2>1
  <2> QED
    BY <2>1, <2>2
<1>7. Behind(s) = CHOOSE g : Fits(g)
  BY DEF Behind
<1>8. Fits(Behind(s))
  <2> HIDE DEF Fits
  <2> QED
    BY <1>6, <1>7
<1> QED
  BY <1>8

\* It goes on, to what is neither a slash nor two dots, and no further.
LEMMA BehindEnds ==
  ASSUME NEW C, NEW s \in Seq(C), NEW i \in 1 .. Len(s) + 1
  PROVE  /\ Behind(s)[i] \in i .. Len(s) + 1
         /\ At(s, Behind(s)[i]) \notin Slash /\ ~ Dots(s, Behind(s)[i])
         /\ At(s, i) \notin Slash /\ ~ Dots(s, i) => Behind(s)[i] = i
<1> DEFINE D == 1 .. Len(s) + 1
           size == [j \in D |-> Len(s) + 1 - j]
           Ends(j) == Behind(s)[j] \in j .. Len(s) + 1 /\ At(s, Behind(s)[j]) \notin Slash /\ ~ Dots(s, Behind(s)[j])
           P == {j \in D : Ends(j)}
<1>1. Len(s) \in Nat /\ DOMAIN s = 1 .. Len(s) /\ size \in [D -> Nat]
  OBVIOUS
<1>2. ASSUME NEW j \in D, \A k \in D : size[k] < size[j] => k \in P
      PROVE  Ends(j)
  <2>1. Behind(s)[j] = IF At(s, j) \in Slash THEN Behind(s)[j + 1]
                       ELSE IF Dots(s, j) THEN Behind(s)[j + 2] ELSE j
    BY BehindIs
  <2>2. ASSUME NEW k \in D, k > j
        PROVE  Ends(k)
    BY <1>1, <1>2, <2>2
  <2> HIDE DEF Ends
  <2>3. CASE At(s, j) \in Slash
    <3>1. j \in 1 .. Len(s)
      BY <1>1, <2>3 DEF At, Slash, NUL
    <3>2. Ends(j + 1) /\ Behind(s)[j] = Behind(s)[j + 1]
      BY <2>1, <2>2, <2>3, <3>1
    <3> QED
      BY <3>1, <3>2 DEF Ends
  <2>4. CASE At(s, j) \notin Slash /\ Dots(s, j)
    <3>1. j + 1 \in 1 .. Len(s)
      BY <1>1, <2>4 DEF At, Dots, NUL
    <3>2. Ends(j + 2) /\ Behind(s)[j] = Behind(s)[j + 2]
      BY <2>1, <2>2, <2>4, <3>1
    <3> QED
      BY <3>1, <3>2 DEF Ends
  <2>5. CASE At(s, j) \notin Slash /\ ~ Dots(s, j)
    BY <2>1, <2>5 DEF Ends
  <2> QED
    BY <2>3, <2>4, <2>5
<1>3. P = D
  <2> HIDE DEF Ends, size
  <2>1. \A j \in D : (\A k \in D : size[k] < size[j] => k \in P) => j \in P
    BY <1>2
  <2> HIDE DEF P, D
  <2>2. P \in SUBSET D
    BY DEF P
  <2> QED
    <3>1. Descends(D, size, P)
      BY <1>1, <2>1, <2>2 DEF Descends
    <3> QED
      BY <3>1, Descent
<1>4. Ends(i)
  BY <1>3
<1> QED
  BY <1>4, BehindIs

\* Where the outer loop goes from a character.
Onward(s, i) == IF s[i] \in Slash THEN Behind(s)[i + 1] ELSE i + 1

LEMMA StepIs ==
  ASSUME NEW C, NEW s \in Seq(C), NEW i \in 1 .. Len(s)
  PROVE  Onward(s, i) \in i + 1 .. Len(s) + 1
<1>1. Len(s) \in Nat /\ i + 1 \in 1 .. Len(s) + 1
  OBVIOUS
<1> QED
  BY <1>1, BehindEnds DEF Onward

LEMMA KeptIs ==
  ASSUME NEW C, NEW s \in Seq(C), NEW i \in 1 .. Len(s) + 1
  PROVE  /\ Kept(s)[i] \in Seq(C)
         /\ Kept(s)[i] = IF i > Len(s) THEN <<>> ELSE <<s[i]>> \o Kept(s)[Onward(s, i)]
<1> DEFINE D == 1 .. Len(s) + 1
           Stop == {Len(s) + 1}
           next == [j \in D |-> IF j = Len(s) + 1 THEN j ELSE Onward(s, j)]
           size == [j \in D |-> Len(s) + 1 - j]
           base == [j \in D |-> <<>>]
           G == [j \in D |-> [x \in Seq(C) |-> IF j = Len(s) + 1 THEN x ELSE <<s[j]>> \o x]]
           Made(g, j) == g[j] = IF j > Len(s) THEN <<>> ELSE <<s[j]>> \o g[Onward(s, j)]
           Fits(g) == g = [j \in D |-> IF j > Len(s) THEN <<>> ELSE <<s[j]>> \o g[Onward(s, j)]]
<1>1. Len(s) \in Nat /\ Stop \in SUBSET D /\ DOMAIN s = 1 .. Len(s) /\ \A j \in 1 .. Len(s) : s[j] \in C
  OBVIOUS
<1>2. \A j \in D : j # Len(s) + 1 => j \in 1 .. Len(s) /\ Onward(s, j) \in D /\ Onward(s, j) > j
  <2>1. SUFFICES ASSUME NEW j \in D, j # Len(s) + 1
                 PROVE  j \in 1 .. Len(s) /\ Onward(s, j) \in D /\ Onward(s, j) > j
    OBVIOUS
  <2>2. j \in 1 .. Len(s)
    BY <1>1, <2>1
  <2>3. Onward(s, j) \in j + 1 .. Len(s) + 1
    BY <2>2, StepIs
  <2> QED
    BY <1>1, <2>2, <2>3
<1>3. next \in [D -> D] /\ size \in [D -> 0 .. Len(s)] /\ \A j \in D \ Stop : size[next[j]] < size[j]
  BY <1>1, <1>2
<1>4. base \in [D -> Seq(C)] /\ G \in [D -> [Seq(C) -> Seq(C)]]
  <2>1. ASSUME NEW j \in D, NEW x \in Seq(C), j # Len(s) + 1
        PROVE  <<s[j]>> \o x \in Seq(C)
    <3>1. <<s[j]>> \in Seq(C)
      BY <1>1, <1>2, <2>1
    <3> QED
      BY <3>1, ConcatProperties
  <2> QED
    BY <2>1
<1>5. \E g \in [D -> Seq(C)] : \A j \in D : g[j] = IF j \in Stop THEN base[j] ELSE G[j][g[next[j]]]
  <2>1. Recursive(D, Seq(C), Len(s), Stop, next, size, base, G)
    BY <1>1, <1>3, <1>4 DEF Recursive
  <2> HIDE DEF D, Stop, next, size, base, G
  <2> QED
    BY <2>1, Recursion
<1>6. \E g : Fits(g)
  <2>1. PICK g \in [D -> Seq(C)] : \A j \in D : g[j] = IF j \in Stop THEN base[j] ELSE G[j][g[next[j]]]
    BY <1>5
  <2>2. ASSUME NEW j \in D
        PROVE  g[j] = IF j > Len(s) THEN <<>> ELSE <<s[j]>> \o g[Onward(s, j)]
    <3>1. CASE j = Len(s) + 1
      <4>1. j > Len(s) /\ j \in Stop /\ base[j] = <<>>
        BY <1>1, <3>1
      <4> QED
        BY <2>1, <4>1
    <3>2. CASE j # Len(s) + 1
      <4>1. ~ j > Len(s) /\ next[j] = Onward(s, j) /\ Onward(s, j) \in D
        BY <1>1, <1>2, <3>2
      <4>2. g[Onward(s, j)] \in Seq(C)
        BY <2>1, <4>1
      <4>3. g[j] = G[j][g[Onward(s, j)]]
        BY <2>1, <3>2, <4>1
      <4> QED
        BY <3>2, <4>1, <4>2, <4>3
    <3> QED
      BY <3>1, <3>2
  <2> QED
    BY <2>1, <2>2
<1>7. Kept(s) = CHOOSE g : Fits(g)
  BY DEF Kept, Onward
<1>8. Fits(Kept(s))
  <2> HIDE DEF Fits
  <2> QED
    BY <1>6, <1>7
<1>9. \A j \in D : Made(Kept(s), j)
  BY <1>8
<1>10. {j \in D : Kept(s)[j] \in Seq(C)} = D
  <2> DEFINE P == {j \in D : Kept(s)[j] \in Seq(C)}
  <2>1. ASSUME NEW j \in D, \A k \in D : size[k] < size[j] => k \in P
        PROVE  j \in P
    <3>1. CASE j > Len(s)
      <4>1. Kept(s)[j] = <<>>
        BY <1>9, <3>1
      <4>2. <<>> \in Seq(C)
        OBVIOUS
      <4> QED
        BY <4>1, <4>2
    <3>2. CASE ~ j > Len(s)
      <4>1. j \in 1 .. Len(s) /\ Onward(s, j) \in D /\ size[Onward(s, j)] < size[j]
        BY <1>1, <1>2, <3>2
      <4>2. Kept(s)[Onward(s, j)] \in Seq(C) /\ <<s[j]>> \in Seq(C)
        BY <1>1, <2>1, <4>1
      <4>3. <<s[j]>> \o Kept(s)[Onward(s, j)] \in Seq(C)
        BY <4>2, ConcatProperties
      <4> QED
        BY <1>9, <3>2, <4>3
    <3> QED
      BY <3>1, <3>2
  <2>2. P \in SUBSET D /\ size \in [D -> Nat]
    BY <1>1
  <2>3. P = D
    <3> HIDE DEF P, D, size
    <3> QED
      <4>1. Descends(D, size, P)
        BY <2>1, <2>2 DEF Descends
      <4> QED
        BY <4>1, Descent
  <2> QED
    BY <2>3
<1> QED
  BY <1>9, <1>10

\* A character in front of a text.
LEMMA Before ==
  ASSUME NEW C, NEW a \in C, NEW x \in Seq(C)
  PROVE  /\ <<a>> \o x \in Seq(C) /\ Len(<<a>> \o x) = Len(x) + 1
         /\ At(<<a>> \o x, 1) = a /\ \A k \in Nat \ {0} : At(<<a>> \o x, k + 1) = At(x, k)
<1> DEFINE y == <<a>> \o x
<1>1. <<a>> \in Seq(C) /\ Len(<<a>>) = 1 /\ <<a>>[1] = a
  OBVIOUS
<1>2. y \in Seq(C) /\ Len(y) = 1 + Len(x) /\ \A i \in 1 .. 1 + Len(x) : y[i] = IF i <= 1 THEN <<a>>[i] ELSE x[i - 1]
  BY <1>1, ConcatProperties
<1> HIDE DEF y
<1>3. Len(x) \in Nat /\ DOMAIN x = 1 .. Len(x) /\ DOMAIN y = 1 .. Len(y)
  BY <1>2
<1>4. At(y, 1) = a
  <2>1. 1 \in DOMAIN y /\ y[1] = a
    BY <1>1, <1>2, <1>3
  <2> QED
    BY <2>1 DEF At
<1>5. ASSUME NEW k \in Nat \ {0}
      PROVE  At(y, k + 1) = At(x, k)
  <2>1. CASE k \in 1 .. Len(x)
    <3>1. k + 1 \in DOMAIN y /\ k + 1 \in 1 .. 1 + Len(x) /\ ~ (k + 1 <= 1) /\ (k + 1) - 1 = k
      BY <1>2, <1>3, <2>1
    <3>2. y[k + 1] = x[k]
      BY <1>2, <3>1
    <3> QED
      BY <1>3, <2>1, <3>1, <3>2 DEF At
  <2>2. CASE k \notin 1 .. Len(x)
    <3>1. k + 1 \notin DOMAIN y /\ k \notin DOMAIN x
      BY <1>2, <1>3, <2>2
    <3> QED
      BY <3>1 DEF At
  <2> QED
    BY <2>1, <2>2
<1>6. Len(y) = Len(x) + 1
  BY <1>2, <1>3
<1> QED
  BY <1>2, <1>4, <1>5, <1>6 DEF y

\* What is left begins as the text does from there, and is no longer.
LEMMA KeptBegins ==
  ASSUME NEW C, NEW s \in Seq(C), NEW i \in 1 .. Len(s) + 1
  PROVE  /\ At(Kept(s)[i], 1) = At(s, i)
         /\ At(s, i) \notin Slash => At(Kept(s)[i], 2) = At(s, i + 1)
<1>1. Len(s) \in Nat /\ DOMAIN s = 1 .. Len(s) /\ \A j \in 1 .. Len(s) : s[j] \in C
  OBVIOUS
<1>2. ASSUME NEW j \in 1 .. Len(s) + 1, j > Len(s), NEW k \in {1, 2}
      PROVE  Kept(s)[j] = <<>> /\ At(Kept(s)[j], k) = NUL /\ At(s, j) = NUL /\ At(s, j + 1) = NUL
  <2>1. Kept(s)[j] = <<>>
    BY <1>2, KeptIs
  <2>2. k \notin DOMAIN <<>>
    OBVIOUS
  <2>3. j \notin DOMAIN s /\ j + 1 \notin DOMAIN s
    BY <1>1, <1>2
  <2> QED
    BY <2>1, <2>2, <2>3 DEF At
<1>3. ASSUME NEW j \in 1 .. Len(s)
      PROVE  /\ Onward(s, j) \in j + 1 .. Len(s) + 1 /\ Onward(s, j) \in 1 .. Len(s) + 1
             /\ At(Kept(s)[j], 1) = At(s, j)
             /\ \A k \in Nat \ {0} : At(Kept(s)[j], k + 1) = At(Kept(s)[Onward(s, j)], k)
  <2>1. Onward(s, j) \in j + 1 .. Len(s) + 1
    BY StepIs
  <2>2. Onward(s, j) \in 1 .. Len(s) + 1 /\ j \in 1 .. Len(s) + 1 /\ ~ j > Len(s)
    BY <1>1, <2>1
  <2>3. Kept(s)[Onward(s, j)] \in Seq(C) /\ s[j] \in C /\ At(s, j) = s[j]
    BY <1>1, <2>2, KeptIs DEF At
  <2>4. Kept(s)[j] = <<s[j]>> \o Kept(s)[Onward(s, j)]
    BY <2>2, KeptIs
  <2>5. \A x \in Seq(C) : /\ At(<<s[j]>> \o x, 1) = s[j]
                            /\ \A k \in Nat \ {0} : At(<<s[j]>> \o x, k + 1) = At(x, k)
    BY <2>3, Before
  <2> QED
    BY <2>1, <2>2, <2>3, <2>4, <2>5
<1>4. \A j \in 1 .. Len(s) + 1 : At(Kept(s)[j], 1) = At(s, j)
  <2>1. SUFFICES ASSUME NEW j \in 1 .. Len(s) + 1
                 PROVE  At(Kept(s)[j], 1) = At(s, j)
    OBVIOUS
  <2>2. CASE j > Len(s)
    BY <1>2, <2>2
  <2>3. CASE ~ j > Len(s)
    <3>1. j \in 1 .. Len(s)
      BY <1>1, <2>3
    <3> QED
      BY <1>3, <3>1
  <2> QED
    BY <2>2, <2>3
<1>5. ASSUME At(s, i) \notin Slash
      PROVE  At(Kept(s)[i], 2) = At(s, i + 1)
  <2>1. CASE i > Len(s)
    BY <1>2, <2>1
  <2>2. CASE ~ i > Len(s)
    <3>1. i \in 1 .. Len(s) /\ i + 1 \in 1 .. Len(s) + 1 /\ s[i] = At(s, i)
      BY <1>1, <2>2 DEF At
    <3>2. Onward(s, i) = i + 1
      BY <1>5, <3>1 DEF Onward
    <3>3. At(Kept(s)[i], 1 + 1) = At(Kept(s)[i + 1], 1)
      <4>1. \A k \in Nat \ {0} : At(Kept(s)[i], k + 1) = At(Kept(s)[i + 1], k)
        BY <1>3, <3>1, <3>2
      <4> QED
        BY <4>1
    <3> QED
      BY <1>4, <3>1, <3>3
  <2> QED
    BY <2>1, <2>2
<1> QED
  BY <1>4, <1>5

\* In front of a text that stays stands no slash, or one that no slash or double dot follows.
LEMMA ContainedMore ==
  ASSUME NEW C, NEW a \in C, NEW x \in Seq(C), Contained(x),
         a \in Slash => At(x, 1) \notin Slash /\ ~ Dots(x, 1)
  PROVE  Contained(<<a>> \o x)
<1> DEFINE y == <<a>> \o x
<1>1. /\ y \in Seq(C) /\ Len(y) = Len(x) + 1
      /\ At(y, 1) = a /\ \A k \in Nat \ {0} : At(y, k + 1) = At(x, k)
  BY Before
<1> HIDE DEF y
<1>2. SUFFICES ASSUME NEW k \in DOMAIN y, y[k] \in Slash
               PROVE  At(y, k + 1) \notin Slash /\ ~ Dots(y, k + 1)
  BY DEF Contained, y
<1>3. k \in 1 .. Len(x) + 1 /\ At(y, k) = y[k] /\ k \in Nat \ {0} /\ k + 1 \in Nat \ {0} /\ Len(x) \in Nat
  BY <1>1 DEF At
<1>4. At(y, k + 1) = At(x, k) /\ At(y, (k + 1) + 1) = At(x, k + 1)
  BY <1>1, <1>3
<1>5. Dots(y, k + 1) <=> Dots(x, k)
  BY <1>4 DEF Dots
<1>6. CASE k = 1
  BY <1>1, <1>2, <1>3, <1>4, <1>5, <1>6
<1>7. CASE k # 1
  <2>1. k - 1 \in Nat \ {0} /\ (k - 1) + 1 = k /\ k - 1 \in DOMAIN x
    BY <1>3, <1>7
  <2>2. At(y, k) = At(x, k - 1) /\ At(x, k - 1) = x[k - 1]
    BY <1>1, <2>1 DEF At
  <2> QED
    BY <1>2, <1>3, <1>4, <1>5, <2>1, <2>2 DEF Contained
<1> QED
  BY <1>6, <1>7

\* A text that stays is left as it is.
LEMMA KeptAll ==
  ASSUME NEW C, NEW s \in Seq(C), Contained(s)
  PROVE  RemoveDots(s) = s
<1> DEFINE D == 1 .. Len(s) + 1
           size == [j \in D |-> Len(s) + 1 - j]
           P == {j \in D : Kept(s)[j] = SubSeq(s, j, Len(s))}
<1>1. Len(s) \in Nat /\ DOMAIN s = 1 .. Len(s) /\ size \in [D -> Nat] /\ P \in SUBSET D
  OBVIOUS
<1>2. ASSUME NEW j \in D, \A k \in D : size[k] < size[j] => k \in P
      PROVE  j \in P
  <2>1. CASE j > Len(s)
    <3>1. Kept(s)[j] = <<>>
      BY <2>1, KeptIs
    <3>2. SubSeq(s, j, Len(s)) = <<>>
      BY <1>1, <2>1, SubSeqEmpty
    <3> QED
      BY <3>1, <3>2
  <2>2. CASE ~ j > Len(s)
    <3>1. j \in 1 .. Len(s) /\ j + 1 \in D /\ size[j + 1] < size[j]
      BY <1>1, <2>2
    <3>2. Onward(s, j) = j + 1
      <4>1. CASE s[j] \in Slash
        <5>1. At(s, j + 1) \notin Slash /\ ~ Dots(s, j + 1)
          BY <1>1, <3>1, <4>1 DEF Contained
        <5>2. Behind(s)[j + 1] = j + 1
          BY <3>1, <5>1, BehindEnds
        <5> QED
          BY <4>1, <5>2 DEF Onward
      <4> QED
        BY <4>1 DEF Onward
    <3>3. Kept(s)[j] = <<s[j]>> \o SubSeq(s, j + 1, Len(s))
      <4>1. j + 1 \in P
        BY <1>2, <3>1
      <4> QED
        BY <2>2, <3>2, <4>1, KeptIs
    <3>4. SubSeq(s, j, Len(s)) = <<s[j]>> \o SubSeq(s, j + 1, Len(s))
      BY <1>1, <3>1, SubSeqRecursiveFirst
    <3> QED
      BY <3>3, <3>4
  <2> QED
    BY <2>1, <2>2
<1>3. P = D
  <2> HIDE DEF P, D, size
  <2> QED
    <3>1. Descends(D, size, P)
      BY <1>1, <1>2 DEF Descends
    <3> QED
      BY <3>1, Descent
<1>4. Kept(s)[1] = SubSeq(s, 1, Len(s))
  BY <1>1, <1>3
<1> QED
  BY <1>4, SubSeqFull DEF RemoveDots

\* What is left is no longer than the text was from there, and stays.
LEMMA KeptStays ==
  ASSUME NEW C, NEW s \in Seq(C), NEW i \in 1 .. Len(s) + 1
  PROVE  Len(Kept(s)[i]) <= Len(s) + 1 - i /\ Contained(Kept(s)[i])
<1> DEFINE D == 1 .. Len(s) + 1
           size == [j \in D |-> Len(s) + 1 - j]
           Stays(j) == Len(Kept(s)[j]) <= Len(s) + 1 - j /\ Contained(Kept(s)[j])
           P == {j \in D : Stays(j)}
<1>1. Len(s) \in Nat /\ DOMAIN s = 1 .. Len(s) /\ size \in [D -> Nat] /\ P \in SUBSET D
  OBVIOUS
<1>2. ASSUME NEW j \in D, \A k \in D : size[k] < size[j] => k \in P
      PROVE  Stays(j)
  <2>1. CASE j > Len(s)
    <3>1. Kept(s)[j] = <<>>
      BY <2>1, KeptIs
    <3>2. Len(<<>>) = 0 /\ DOMAIN <<>> = {}
      OBVIOUS
    <3> QED
      BY <1>1, <3>1, <3>2 DEF Contained
  <2>2. CASE ~ j > Len(s)
    <3> DEFINE n == Onward(s, j)
               x == Kept(s)[n]
    <3>1. j \in 1 .. Len(s) /\ n \in D /\ n >= j + 1 /\ size[n] < size[j]
      <4>1. j \in 1 .. Len(s)
        BY <1>1, <2>2
      <4>2. n \in j + 1 .. Len(s) + 1
        BY <4>1, StepIs
      <4> QED
        BY <1>1, <4>1, <4>2
    <3>2. Stays(n)
      BY <1>2, <3>1
    <3>3. x \in Seq(C) /\ s[j] \in C /\ Kept(s)[j] = <<s[j]>> \o x
      <4>1. s[j] \in C
        BY <3>1
      <4>2. x \in Seq(C)
        BY <3>1, KeptIs
      <4>3. Kept(s)[j] = <<s[j]>> \o x
        BY <2>2, KeptIs
      <4> QED
        BY <4>1, <4>2, <4>3
    <3>4. Len(Kept(s)[j]) = Len(x) + 1
      <4> HIDE DEF x
      <4> QED
        BY <3>3, Before
    <3>5. s[j] \in Slash => At(x, 1) \notin Slash /\ ~ Dots(x, 1)
      <4>1. SUFFICES ASSUME s[j] \in Slash
                     PROVE  At(x, 1) \notin Slash /\ ~ Dots(x, 1)
        OBVIOUS
      <4>2. j + 1 \in 1 .. Len(s) + 1 /\ n = Behind(s)[j + 1]
        BY <3>1, <4>1 DEF Onward
      <4>3. At(s, n) \notin Slash /\ ~ Dots(s, n)
        BY <4>2, BehindEnds
      <4>4. At(x, 1) = At(s, n) /\ At(x, 2) = At(s, n + 1)
        BY <3>1, <4>3, KeptBegins
      <4>5. 1 + 1 = 2
        OBVIOUS
      <4> QED
        BY <4>3, <4>4, <4>5 DEF Dots
    <3>6. Contained(Kept(s)[j])
      <4>1. Contained(x)
        BY <3>2
      <4> HIDE DEF x
      <4> QED
        BY <3>3, <3>5, <4>1, ContainedMore
    <3>7. Len(x) \in Nat /\ Len(x) <= Len(s) + 1 - n
      BY <3>2, <3>3
    <3>8. Len(Kept(s)[j]) <= Len(s) + 1 - j
      <4> HIDE DEF x, n
      <4> QED
        BY <1>1, <3>1, <3>4, <3>7
    <3> QED
      BY <3>6, <3>8
  <2> QED
    BY <2>1, <2>2
<1>3. P = D
  <2>1. \A j \in D : (\A k \in D : size[k] < size[j] => k \in P) => j \in P
    BY <1>2
  <2> HIDE DEF P, D, size
  <2> QED
    <3>1. Descends(D, size, P)
      BY <1>1, <2>1 DEF Descends
    <3> QED
      BY <3>1, Descent
<1> QED
  BY <1>3

\* remove_double_dots_and_double_slashes (1854), for every text: what it leaves is no longer, so it
\* can be written over the text while it is read, and begins as the text does; no slash in it is
\* followed by another or by two dots; a text without such slashes is left as it is, so cleaning twice
\* is cleaning once.
THEOREM CleanedPathsStay ==
  ASSUME NEW C, NEW s \in Seq(C)
  PROVE  /\ RemoveDots(s) \in Seq(C) /\ Len(RemoveDots(s)) <= Len(s)
         /\ At(RemoveDots(s), 1) = At(s, 1)
         /\ Contained(RemoveDots(s))
         /\ Contained(s) => RemoveDots(s) = s
         /\ RemoveDots(RemoveDots(s)) = RemoveDots(s)
<1> DEFINE t == RemoveDots(s)
<1>1. Len(s) \in Nat /\ 1 \in 1 .. Len(s) + 1
  OBVIOUS
<1>2. t \in Seq(C) /\ Contained(t) /\ At(t, 1) = At(s, 1)
  BY <1>1, KeptIs, KeptStays, KeptBegins DEF RemoveDots
<1>3. Len(t) <= Len(s)
  <2>1. Len(t) <= Len(s) + 1 - 1
    BY <1>1, KeptStays DEF RemoveDots
  <2> QED
    BY <1>1, <2>1
<1>4. RemoveDots(t) = t
  <2> HIDE DEF t
  <2> QED
    BY <1>2, KeptAll
<1> QED
  BY <1>2, <1>3, <1>4, KeptAll

-----------------------------------------------------------------------------
(* A recursion that counts up. *)

Counts(X, n, b, G) == n \in Nat /\ b \in X /\ G \in [1 .. n -> [X -> X]]

LEMMA UpTo ==
  ASSUME NEW X, NEW n, NEW b, NEW G, Counts(X, n, b, G)
  PROVE  \E g \in [0 .. n -> X] : \A k \in 0 .. n : g[k] = IF k = 0 THEN b ELSE G[k][g[k - 1]]
<1> USE DEF Counts
<1> DEFINE D == 0 .. n
           next == [k \in D |-> IF k = 0 THEN 0 ELSE k - 1]
           size == [k \in D |-> k]
           base == [k \in D |-> b]
           H == [k \in D |-> IF k = 0 THEN [x \in X |-> x] ELSE G[k]]
<1>1. next \in [D -> D] /\ size \in [D -> 0 .. n] /\ {0} \in SUBSET D /\ base \in [D -> X]
  OBVIOUS
<1>2. \A k \in D \ {0} : size[next[k]] < size[k]
  OBVIOUS
<1>3. H \in [D -> [X -> X]]
  <2>1. [x \in X |-> x] \in [X -> X] /\ \A k \in D : k # 0 => k \in 1 .. n
    OBVIOUS
  <2> QED
    BY <2>1
<1>4. PICK g \in [D -> X] : \A k \in D : g[k] = IF k \in {0} THEN base[k] ELSE H[k][g[next[k]]]
  <2>1. Recursive(D, X, n, {0}, next, size, base, H)
    BY <1>1, <1>2, <1>3 DEF Recursive
  <2> HIDE DEF D, next, size, base, H
  <2> QED
    BY <2>1, Recursion
<1>5. ASSUME NEW k \in D
      PROVE  g[k] = IF k = 0 THEN b ELSE G[k][g[k - 1]]
  BY <1>4
<1> QED
  BY <1>5

LEMMA Counting ==
  ASSUME NEW n \in Nat, NEW P \in SUBSET (0 .. n), 0 \in P, \A k \in 1 .. n : k - 1 \in P => k \in P
  PROVE  P = 0 .. n
<1> DEFINE D == 0 .. n
           size == [k \in D |-> k]
<1>1. ASSUME NEW k \in D, \A j \in D : size[j] < size[k] => j \in P
      PROVE  k \in P
  <2>1. CASE k = 0
    BY <2>1
  <2>2. CASE k # 0
    <3>1. k \in 1 .. n /\ k - 1 \in D /\ size[k - 1] < size[k]
      BY <2>2
    <3> QED
      BY <1>1, <3>1
  <2> QED
    BY <2>1, <2>2
<1>2. size \in [D -> Nat]
  OBVIOUS
<1>3. P \in SUBSET D
  OBVIOUS
<1>4. \A k \in D : (\A j \in D : size[j] < size[k] => j \in P) => k \in P
  BY <1>1
<1>5. P = D
  <2> HIDE DEF size, D
  <2> QED
    <3>1. Descends(D, size, P)
      BY <1>2, <1>3, <1>4 DEF Descends
    <3> QED
      BY <3>1, Descent
<1> QED
  BY <1>5

-----------------------------------------------------------------------------
(* The CGI environment. *)

Env == [size : Nat, slots : Nat, len : Int, kept : Seq(Int), ok : BOOLEAN]

EnvStart(size, slots) == [size |-> size, slots |-> slots, len |-> 0, kept |-> <<>>, ok |-> TRUE]
EnvStep(b, n) == [AddEnv(b, n) EXCEPT !.ok = @ /\ Space(b) >= 0]

LEMMA EnvStepIs ==
  ASSUME NEW b \in Env, NEW n \in Nat
  PROVE  EnvStep(b, n) \in Env
<1> DEFINE m == Formatted(n, Space(b))
<1>1. Space(b) \in Int
  BY DEF Env, Space
<1>2. m \in Int
  BY <1>1 DEF Formatted
<1>3. b.kept \in Seq(Int) /\ Append(b.kept, m) \in Seq(Int) /\ b.len + m + 1 \in Int
  <2> HIDE DEF m
  <2> QED
    BY <1>2 DEF Env
<1>4. AddEnv(b, n) \in Env
  <2>1. AddEnv(b, n) = b \/ AddEnv(b, n) = [b EXCEPT !.len = @ + m + 1, !.kept = Append(@, m)]
    BY DEF AddEnv
  <2> HIDE DEF m
  <2> QED
    BY <1>3, <2>1 DEF Env
<1> QED
  BY <1>1, <1>4 DEF EnvStep, Env

LEMMA EnvironmentsAre ==
  ASSUME NEW lengths \in Seq(Nat), NEW size \in Nat, NEW slots \in Nat
  PROVE  /\ Environments(lengths, size, slots)[0] = EnvStart(size, slots)
         /\ \A k \in 1 .. Len(lengths) : Environments(lengths, size, slots)[k] =
                EnvStep(Environments(lengths, size, slots)[k - 1], lengths[k])
         /\ \A k \in 0 .. Len(lengths) : Environments(lengths, size, slots)[k] \in Env
<1> DEFINE e == Environments(lengths, size, slots)
           N == Len(lengths)
           G == [k \in 1 .. N |-> [b \in Env |-> EnvStep(b, lengths[k])]]
           Fits(g) == g = [k \in 0 .. N |-> IF k = 0 THEN EnvStart(size, slots) ELSE EnvStep(g[k - 1], lengths[k])]
<1>1. N \in Nat /\ \A k \in 1 .. N : lengths[k] \in Nat
  OBVIOUS
<1>2. EnvStart(size, slots) \in Env /\ G \in [1 .. N -> [Env -> Env]]
  <2>1. EnvStart(size, slots) \in Env
    BY DEF EnvStart, Env
  <2>2. \A k \in 1 .. N, b \in Env : EnvStep(b, lengths[k]) \in Env
    BY <1>1, EnvStepIs
  <2> QED
    BY <2>1, <2>2
<1>3. PICK g \in [0 .. N -> Env] : \A k \in 0 .. N : g[k] = IF k = 0 THEN EnvStart(size, slots) ELSE G[k][g[k - 1]]
  <2>1. N \in Nat
    BY <1>1
  <2> DEFINE b == EnvStart(size, slots)
  <2>2. b \in Env
    BY <1>2
  <2> HIDE DEF G, N, b
  <2>3. \E g \in [0 .. N -> Env] : \A k \in 0 .. N : g[k] = IF k = 0 THEN b ELSE G[k][g[k - 1]]
    <3>1. Counts(Env, N, b, G)
      BY <1>2, <2>1, <2>2 DEF Counts
    <3> QED
      BY <3>1, UpTo
  <2> QED
    BY <2>3 DEF b
<1>4. Fits(g)
  <2>1. ASSUME NEW k \in 0 .. N
        PROVE  g[k] = IF k = 0 THEN EnvStart(size, slots) ELSE EnvStep(g[k - 1], lengths[k])
    <3>1. k # 0 => k \in 1 .. N /\ k - 1 \in 0 .. N
      BY <1>1
    <3> QED
      BY <1>3, <3>1
  <2> QED
    BY <1>3, <2>1
<1>5. e = CHOOSE f : Fits(f)
  BY DEF Environments, EnvStart, EnvStep
<1>6. Fits(e)
  <2> HIDE DEF Fits, e
  <2> QED
    BY <1>4, <1>5
<1>7. \A k \in 0 .. N : e[k] = IF k = 0 THEN EnvStart(size, slots) ELSE EnvStep(e[k - 1], lengths[k])
  <2> HIDE DEF e
  <2> QED
    BY <1>6
<1> HIDE DEF e, N
<1>8. e[0] = EnvStart(size, slots) /\ \A k \in 1 .. N : e[k] = EnvStep(e[k - 1], lengths[k])
  <2>1. 0 \in 0 .. N /\ \A k \in 1 .. N : k \in 0 .. N /\ k # 0
    BY <1>1
  <2> QED
    BY <1>7, <2>1
<1>9. {k \in 0 .. N : e[k] \in Env} = 0 .. N
  <2> DEFINE P == {k \in 0 .. N : e[k] \in Env}
  <2>1. 0 \in P /\ P \in SUBSET (0 .. N)
    BY <1>1, <1>2, <1>8
  <2>2. \A k \in 1 .. N : k - 1 \in P => k \in P
    <3>1. ASSUME NEW k \in 1 .. N, e[k - 1] \in Env
          PROVE  e[k] \in Env
      BY <1>1, <1>8, <3>1, EnvStepIs
    <3>2. \A k \in 1 .. N : k \in 0 .. N
      BY <1>1
    <3> QED
      BY <3>1, <3>2
  <2> HIDE DEF P
  <2> QED
    BY <1>1, <2>1, <2>2, Counting DEF P
<1> QED
  BY <1>8, <1>9 DEF e, N

\* Whole variables are so with one variable more to choose from, and with it behind them.
LEMMA WholeMore ==
  ASSUME NEW kept \in Seq(Int), NEW lengths \in Seq(Nat), NEW k \in 1 .. Len(lengths),
         Whole(kept, lengths, k - 1)
  PROVE  Whole(kept, lengths, k) /\ Whole(Append(kept, lengths[k]), lengths, k)
<1> DEFINE n == Len(kept)
           more == Append(kept, lengths[k])
<1>1. n \in Nat /\ k \in Nat /\ k \in 1 .. k /\ 1 .. k - 1 \subseteq 1 .. k
  OBVIOUS
<1>2. PICK at \in [1 .. n -> 1 .. k - 1] :
        \A i \in 1 .. n : kept[i] = lengths[at[i]] /\ (i > 1 => at[i - 1] < at[i])
  BY DEF Whole
<1>3. Len(more) = n + 1 /\ (\A i \in 1 .. n : more[i] = kept[i]) /\ more[n + 1] = lengths[k]
  <2>1. lengths[k] \in Int
    OBVIOUS
  <2> QED
    BY <2>1, AppendProperties
<1>4. Whole(kept, lengths, k)
  <2>1. at \in [1 .. n -> 1 .. k]
    BY <1>1
  <2> QED
    BY <1>2, <2>1 DEF Whole
<1> HIDE DEF n, more
<1>5. Whole(more, lengths, k)
  <2> DEFINE to == [i \in 1 .. n + 1 |-> IF i = n + 1 THEN k ELSE at[i]]
  <2>1. \A i \in 1 .. n + 1 : i # n + 1 => i \in 1 .. n /\ at[i] \in 1 .. k - 1
    BY <1>1
  <2>2. to \in [1 .. n + 1 -> 1 .. k]
    BY <1>1, <2>1
  <2>3. ASSUME NEW i \in 1 .. n + 1
        PROVE  more[i] = lengths[to[i]] /\ (i > 1 => to[i - 1] < to[i])
    <3>1. i > 1 => i - 1 \in 1 .. n + 1 /\ i - 1 \in 1 .. n /\ i - 1 # n + 1 /\ to[i - 1] = at[i - 1]
      BY <1>1
    <3>2. CASE i = n + 1
      <4>1. to[i] = k
        BY <3>2
      <4> QED
        BY <1>1, <1>3, <2>1, <3>1, <3>2, <4>1
    <3>3. CASE i # n + 1
      <4>1. i \in 1 .. n /\ to[i] = at[i]
        BY <2>1, <3>3
      <4> QED
        BY <1>2, <1>3, <3>1, <4>1
    <3> QED
      BY <3>2, <3>3
  <2> HIDE DEF to
  <2> QED
    BY <1>3, <2>2, <2>3 DEF Whole
<1> QED
  BY <1>4, <1>5 DEF more

\* What holds behind the first k variables.
EnvFits(b, lengths, size, slots, k) ==
  /\ b \in Env /\ b.size = size /\ b.slots = slots /\ b.ok
  /\ b.len >= 0 /\ b.len + 2 <= size /\ Len(b.kept) + 2 <= slots
  /\ Whole(b.kept, lengths, k)

LEMMA EnvStepFits ==
  ASSUME NEW lengths \in Seq(Nat), NEW size \in Nat, NEW slots \in Nat, NEW k \in 1 .. Len(lengths),
         NEW b, EnvFits(b, lengths, size, slots, k - 1)
  PROVE  EnvFits(EnvStep(b, lengths[k]), lengths, size, slots, k)
<1> DEFINE n == lengths[k]
           m == Formatted(n, Space(b))
<1>1. n \in Nat
  OBVIOUS
<1>2. b \in Env /\ Space(b) \in Nat /\ Space(b) = size - b.len - 2 /\ b.kept \in Seq(Int)
  BY DEF EnvFits, Env, Space
<1>3. EnvStep(b, n) \in Env
  BY <1>1, <1>2, EnvStepIs
<1>4. Whole(b.kept, lengths, k) /\ Whole(Append(b.kept, n), lengths, k)
  BY <1>2, WholeMore DEF EnvFits
<1> SUFFICES EnvFits(EnvStep(b, n), lengths, size, slots, k)
  OBVIOUS
<1> HIDE DEF n
<1>5. CASE m > 0 /\ m + 1 < Space(b) /\ Len(b.kept) < b.slots - 2
  <2>1. m = n
    BY <1>1, <1>2, <1>5 DEF Formatted
  <2>2. AddEnv(b, n) = [b EXCEPT !.len = @ + n + 1, !.kept = Append(@, n)]
    BY <1>5, <2>1 DEF AddEnv
  <2> HIDE DEF m
  <2> DEFINE c == EnvStep(b, n)
  <2>3. c = [b EXCEPT !.len = b.len + n + 1, !.kept = Append(b.kept, n), !.ok = b.ok /\ Space(b) >= 0]
    BY <1>2, <2>2 DEF EnvStep, Env
  <2>4. c.size = size /\ c.slots = slots /\ c.ok /\ c.len = b.len + n + 1 /\ c.kept = Append(b.kept, n)
    BY <1>2, <2>3 DEF EnvFits, Env
  <2>5. Len(Append(b.kept, n)) = Len(b.kept) + 1 /\ Len(b.kept) \in Nat
    <3>1. n \in Int
      BY <1>1
    <3> QED
      BY <1>2, <3>1, AppendProperties
  <2>6. c.len >= 0 /\ c.len + 2 <= size /\ Len(c.kept) + 2 <= slots
    <3> DEFINE len == b.len
               many == Len(b.kept)
    <3>1. len \in Int /\ len >= 0 /\ b.slots = slots
      BY DEF EnvFits, Env
    <3>2. c.len = len + n + 1 /\ Len(c.kept) = many + 1 /\ many \in Nat
      BY <2>4, <2>5
    <3>3. n + 1 < size - len - 2 /\ many < slots - 2
      BY <1>2, <1>5, <2>1, <3>1
    <3> HIDE DEF len, many, c
    <3> QED
      BY <1>1, <3>1, <3>2, <3>3
  <2> HIDE DEF c
  <2> QED
    BY <1>3, <1>4, <2>4, <2>6 DEF EnvFits, c
<1>6. CASE ~ (m > 0 /\ m + 1 < Space(b) /\ Len(b.kept) < b.slots - 2)
  <2>1. AddEnv(b, n) = b
    BY <1>6 DEF AddEnv
  <2>2. EnvStep(b, n) = b
    BY <1>2, <2>1 DEF EnvStep, Env, EnvFits
  <2> QED
    BY <1>2, <1>4, <2>2 DEF EnvFits
<1> QED
  BY <1>5, <1>6

\* prepare_cgi_environment (3060), for every list of variables and every size of its two buffers: its
\* assertions (3160) hold, and the variables it keeps are some of those given, whole and in their order,
\* though mg_vsnprintf cuts one that does not fit.
THEOREM EnvironmentFits ==
  ASSUME NEW lengths \in Seq(Nat), NEW size \in Nat, NEW slots \in Nat, size >= 2, slots >= 2
  PROVE  /\ Asserted(Environment(lengths, size, slots))
         /\ Whole(Environment(lengths, size, slots).kept, lengths, Len(lengths))
<1> DEFINE e == Environments(lengths, size, slots)
           N == Len(lengths)
           P == {k \in 0 .. N : EnvFits(e[k], lengths, size, slots, k)}
<1>1. e[0] = EnvStart(size, slots) /\ \A k \in 1 .. N : e[k] = EnvStep(e[k - 1], lengths[k])
  BY EnvironmentsAre
<1>2. N \in Nat /\ P \in SUBSET (0 .. N)
  OBVIOUS
<1> HIDE DEF e
<1>3. 0 \in P
  <2> DEFINE b == EnvStart(size, slots)
  <2>1. b.kept = <<>> /\ b.len = 0 /\ b.size = size /\ b.slots = slots /\ b.ok = TRUE /\ b \in Env
    BY DEF EnvStart, Env
  <2>2. Len(<<>>) = 0 /\ 1 .. 0 = {}
    OBVIOUS
  <2>3. Whole(<<>>, lengths, 0)
    <3>1. [i \in 1 .. 0 |-> 0] \in [1 .. Len(<<>>) -> 1 .. 0]
      BY <2>2
    <3> QED
      BY <2>2, <3>1 DEF Whole
  <2> HIDE DEF b
  <2>4. EnvFits(b, lengths, size, slots, 0)
    BY <2>1, <2>2, <2>3 DEF EnvFits
  <2> QED
    BY <1>1, <1>2, <2>4 DEF b
<1>4. \A k \in 1 .. N : k - 1 \in P => k \in P
  <2>1. ASSUME NEW k \in 1 .. N, k - 1 \in P
        PROVE  k \in P
    <3>1. EnvFits(e[k - 1], lengths, size, slots, k - 1) /\ k \in 0 .. N
      BY <1>2, <2>1
    <3>2. EnvFits(EnvStep(e[k - 1], lengths[k]), lengths, size, slots, k)
      BY <3>1, EnvStepFits
    <3> QED
      BY <1>1, <3>1, <3>2
  <2> QED
    BY <2>1
<1>5. P = 0 .. N
  <2> HIDE DEF P, N
  <2> QED
    BY <1>2, <1>3, <1>4, Counting
<1>6. EnvFits(e[N], lengths, size, slots, N)
  BY <1>2, <1>5
<1>7. Environment(lengths, size, slots) = e[N]
  BY DEF Environment, e
<1>8. Asserted(e[N])
  <2> DEFINE b == e[N]
             many == Len(b.kept)
             len == b.len
  <2>1. b \in Env /\ b.size = size /\ b.slots = slots /\ b.ok /\ len + 2 <= size /\ many + 2 <= slots
    BY <1>6 DEF EnvFits
  <2>2. len \in Int /\ many \in Nat
    BY <2>1 DEF Env
  <2> HIDE DEF b, len, many
  <2>3. many + 1 < slots /\ len + 1 < size
    BY <2>1, <2>2
  <2> QED
    BY <2>1, <2>3 DEF Asserted, b, len, many
<1> QED
  BY <1>6, <1>7, <1>8 DEF EnvFits

-----------------------------------------------------------------------------
(* Pieces put together. *)

LEMMA FlattenIs ==
  ASSUME NEW C, NEW seqs \in Seq(Seq(C)), seqs # <<>>
  PROVE  \E f \in [1 .. Len(seqs) -> Seq(C)] :
           /\ \A i \in 1 .. Len(seqs) : f[i] = IF i = 1 THEN seqs[i] ELSE f[i - 1] \o seqs[i]
           /\ FlattenSeq(seqs) = f[Len(seqs)]
<1> DEFINE N == Len(seqs)
           X == Seq(C)
           b == <<>>
           G == [k \in 1 .. N |-> [x \in X |-> x \o seqs[k]]]
           Fits(f) == f = [i \in 1 .. N |-> IF i = 1 THEN seqs[i] ELSE f[i - 1] \o seqs[i]]
           f == CHOOSE g : Fits(g)
<1>1. N \in Nat /\ N # 0 /\ 1 \in 1 .. N /\ N \in 1 .. N /\ \A k \in 1 .. N : seqs[k] \in X
  OBVIOUS
<1>2. Counts(X, N, b, G)
  <2>1. b \in X
    OBVIOUS
  <2>2. \A k \in 1 .. N, x \in X : x \o seqs[k] \in X
    BY <1>1, ConcatProperties
  <2> QED
    BY <1>1, <2>1, <2>2 DEF Counts
<1>3. PICK g \in [0 .. N -> X] : \A k \in 0 .. N : g[k] = IF k = 0 THEN b ELSE G[k][g[k - 1]]
  <2> HIDE DEF N, X, b, G
  <2> QED
    BY <1>2, UpTo
<1>4. \E h : Fits(h)
  <2> DEFINE h == [i \in 1 .. N |-> g[i]]
  <2>1. ASSUME NEW i \in 1 .. N
        PROVE  h[i] = IF i = 1 THEN seqs[i] ELSE h[i - 1] \o seqs[i]
    <3>1. i \in 0 .. N /\ i # 0 /\ i - 1 \in 0 .. N /\ (i # 1 => i - 1 \in 1 .. N)
      BY <1>1
    <3>2. g[i] = g[i - 1] \o seqs[i]
      BY <1>3, <3>1
    <3>3. CASE i = 1
      <4>1. 0 \in 0 .. N /\ i - 1 = 0
        BY <1>1, <3>3
      <4>2. g[i - 1] = b
        BY <1>3, <4>1
      <4>3. <<>> \o seqs[i] = seqs[i]
        BY <1>1, ConcatEmptySeq
      <4>4. h[i] = g[i] /\ g[i] = seqs[i]
        BY <3>2, <4>2, <4>3
      <4> QED
        BY <3>3, <4>4
    <3>4. CASE i # 1
      BY <3>1, <3>2, <3>4
    <3> QED
      BY <3>3, <3>4
  <2>2. Fits(h)
    BY <2>1
  <2> QED
    BY <2>2
<1>5. Fits(f)
  <2> HIDE DEF Fits
  <2> QED
    BY <1>4
<1>6. FlattenSeq(seqs) = f[N]
  BY <1>1 DEF FlattenSeq
<1> HIDE DEF f
<1>7. \A i \in 1 .. N : f[i] = IF i = 1 THEN seqs[i] ELSE f[i - 1] \o seqs[i]
  BY <1>5
<1>8. ASSUME NEW i \in 1 .. N
      PROVE  f[i] \in X
  <2> DEFINE P == {k \in 0 .. N : k = 0 \/ f[k] \in X}
  <2>1. 0 \in P /\ P \in SUBSET (0 .. N)
    BY <1>1
  <2>2. \A k \in 1 .. N : k - 1 \in P => k \in P
    <3>1. ASSUME NEW k \in 1 .. N, k - 1 \in P
          PROVE  f[k] \in X
      <4>1. CASE k = 1
        BY <1>1, <1>7, <4>1
      <4>2. CASE k # 1
        <5>1. f[k - 1] \in X /\ seqs[k] \in X
          BY <1>1, <3>1, <4>2
        <5>2. f[k - 1] \o seqs[k] \in X
          BY <5>1, ConcatProperties
        <5> QED
          BY <1>7, <4>2, <5>2
      <4> QED
        BY <4>1, <4>2
    <3>2. \A k \in 1 .. N : k \in 0 .. N
      BY <1>1
    <3> QED
      BY <3>1, <3>2
  <2>3. P = 0 .. N
    <3> HIDE DEF P, N
    <3> QED
      BY <1>1, <2>1, <2>2, Counting
  <2>4. i \in P /\ i # 0
    <3>1. i \in 0 .. N /\ i # 0
      BY <1>1
    <3> HIDE DEF P, N
    <3> QED
      BY <2>3, <3>1
  <2> QED
    BY <2>4
<1>9. f \in [1 .. N -> X]
  <2>1. f = [i \in 1 .. N |-> f[i]]
    BY <1>5
  <2> QED
    BY <1>8, <2>1
<1> QED
  BY <1>6, <1>7, <1>9

\* What the pieces with one more make.
LEMMA FlattenMore ==
  ASSUME NEW C, NEW seqs \in Seq(Seq(C)), NEW x \in Seq(C)
  PROVE  /\ FlattenSeq(seqs) \in Seq(C)
         /\ FlattenSeq(Append(seqs, x)) = FlattenSeq(seqs) \o x
<1> DEFINE N == Len(seqs)
           more == Append(seqs, x)
<1>1. /\ more \in Seq(Seq(C)) /\ more # <<>> /\ N \in Nat /\ Len(more) = N + 1
      /\ \A i \in 1 .. N : more[i] = seqs[i]
  BY AppendProperties
<1>2. more[N + 1] = x
  BY AppendProperties
<1> HIDE DEF more
<1>3. PICK h \in [1 .. Len(more) -> Seq(C)] :
        /\ \A i \in 1 .. Len(more) : h[i] = IF i = 1 THEN more[i] ELSE h[i - 1] \o more[i]
        /\ FlattenSeq(more) = h[Len(more)]
  BY <1>1, FlattenIs
<1>4. CASE seqs = <<>>
  <2>1. FlattenSeq(seqs) = <<>> /\ N = 0
    BY <1>4 DEF FlattenSeq
  <2>2. FlattenSeq(more) = x
    BY <1>1, <1>2, <1>3, <2>1
  <2>3. <<>> \o x = x /\ <<>> \in Seq(C)
    BY ConcatEmptySeq
  <2> QED
    BY <2>1, <2>2, <2>3 DEF more
<1>5. CASE seqs # <<>>
  <2>1. PICK f \in [1 .. N -> Seq(C)] :
          /\ \A i \in 1 .. N : f[i] = IF i = 1 THEN seqs[i] ELSE f[i - 1] \o seqs[i]
          /\ FlattenSeq(seqs) = f[N]
    BY <1>5, FlattenIs
  <2>2. N \in 1 .. N /\ N >= 1
    BY <1>1, <1>5
  <2> DEFINE P == {k \in 0 .. N : k = 0 \/ h[k] = f[k]}
  <2>3. 0 \in P /\ P \in SUBSET (0 .. N)
    BY <1>1
  <2>4. \A k \in 1 .. N : k - 1 \in P => k \in P
    <3>1. ASSUME NEW k \in 1 .. N, k - 1 \in P
          PROVE  h[k] = f[k]
      <4>1. k \in 1 .. Len(more) /\ more[k] = seqs[k]
        BY <1>1
      <4>2. CASE k = 1
        BY <1>3, <2>1, <4>1, <4>2
      <4>3. CASE k # 1
        <5>1. h[k - 1] = f[k - 1]
          BY <1>1, <3>1, <4>3
        <5>2. h[k] = h[k - 1] \o more[k]
          BY <1>3, <4>1, <4>3
        <5>3. f[k] = f[k - 1] \o seqs[k]
          BY <2>1, <4>3
        <5> QED
          BY <4>1, <5>1, <5>2, <5>3
      <4> QED
        BY <4>2, <4>3
    <3>2. \A k \in 1 .. N : k \in 0 .. N
      BY <1>1
    <3> QED
      BY <3>1, <3>2
  <2>5. P = 0 .. N
    <3> HIDE DEF P, N
    <3> QED
      BY <1>1, <2>3, <2>4, Counting
  <2>6. h[N] = f[N]
    <3>1. N \in 0 .. N /\ N # 0
      BY <1>1, <2>2
    <3>2. N \in P
      <4> HIDE DEF P, N
      <4> QED
        BY <2>5, <3>1
    <3> QED
      BY <3>1, <3>2
  <2>7. N + 1 \in 1 .. Len(more) /\ N + 1 # 1 /\ (N + 1) - 1 = N
    BY <1>1, <2>2
  <2>8. h[N + 1] = h[N] \o x
    BY <1>2, <1>3, <2>7
  <2> QED
    BY <1>1, <1>3, <2>1, <2>2, <2>6, <2>8 DEF more
<1> QED
  BY <1>4, <1>5

-----------------------------------------------------------------------------
(* SSI. *)

Piece(C) == [k : {"sent", "tag"}, text : Seq(C)]
Ssi(C) == [tag : BOOLEAN, buf : Seq(C), done : Seq(Piece(C)), lost : BOOLEAN, high : Int, size : Int]

SsiStart(size) == [tag |-> FALSE, buf |-> <<>>, done |-> <<>>, lost |-> FALSE, high |-> 0, size |-> size]
Filled(b, ch)  == Len(b.buf) + IF b.tag /\ ch = ">" THEN 2 ELSE 1
SsiStep(b, ch) == [SsiChar(b, ch) EXCEPT !.high = IF Filled(b, ch) > @ THEN Filled(b, ch) ELSE @]

\* The pieces with one more.
Done(b, k, text) == Append(b.done, [k |-> k, text |-> text])
Tagged(added)    == Len(added) >= Len(Mark) + 1 /\ IsPrefix(Mark, added)

\* What a turn leaves.
Turn(b, ch, tag, buf, done, lost) ==
  SsiStep(b, ch) = [tag |-> tag, buf |-> buf, done |-> done, lost |-> lost, size |-> b.size,
                    high |-> IF Filled(b, ch) > b.high THEN Filled(b, ch) ELSE b.high]

\* The branches of the loop: the end of a tag; what is none; a tag too long; its next character; what
\* begins one, behind nothing or something; a buffer full; the next character.
LEMMA SsiBranches ==
  ASSUME NEW C, NEW b \in Ssi(C), NEW ch \in C
  PROVE  LET added == Append(b.buf, ch)
             other == Len(b.buf) = Len(Mark) /\ b.buf # Mark
             long  == Len(b.buf) = b.size - 2
         IN \/ b.tag /\ ch = ">"
               /\ Turn(b, ch, FALSE, <<>>, Done(b, IF Tagged(added) THEN "tag" ELSE "sent", added), b.lost)
            \/ b.tag /\ ch # ">" /\ other /\ Turn(b, ch, FALSE, added, b.done, b.lost)
            \/ b.tag /\ ch # ">" /\ ~ other /\ long /\ Turn(b, ch, TRUE, <<ch>>, b.done, TRUE)
            \/ b.tag /\ ch # ">" /\ ~ other /\ ~ long /\ Turn(b, ch, TRUE, added, b.done, b.lost)
            \/ ~ b.tag /\ ch = "<" /\ b.buf = <<>> /\ Turn(b, ch, TRUE, <<ch>>, b.done, b.lost)
            \/ ~ b.tag /\ ch = "<" /\ b.buf # <<>> /\ Turn(b, ch, TRUE, <<ch>>, Done(b, "sent", b.buf), b.lost)
            \/ ~ b.tag /\ ch # "<" /\ Len(added) = b.size /\ Turn(b, ch, FALSE, <<>>, Done(b, "sent", added), b.lost)
            \/ ~ b.tag /\ ch # "<" /\ Len(added) # b.size /\ Turn(b, ch, FALSE, added, b.done, b.lost)
<1> DEFINE added == Append(b.buf, ch)
           other == Len(b.buf) = Len(Mark) /\ b.buf # Mark
           long  == Len(b.buf) = b.size - 2
<1>1. b = [tag |-> b.tag, buf |-> b.buf, done |-> b.done, lost |-> b.lost, high |-> b.high, size |-> b.size]
  BY DEF Ssi
<1>2. b.tag \in BOOLEAN
  BY DEF Ssi
<1>3. ASSUME NEW tag, NEW buf, NEW done, NEW lost,
             SsiChar(b, ch) = [tag |-> tag, buf |-> buf, done |-> done, lost |-> lost, high |-> b.high, size |-> b.size]
      PROVE  Turn(b, ch, tag, buf, done, lost)
  BY <1>3 DEF Turn, SsiStep
<1>4. CASE b.tag /\ ch = ">"
  <2>1. SsiChar(b, ch) = [b EXCEPT !.tag = FALSE, !.buf = <<>>, !.done = Done(b, IF Tagged(added) THEN "tag" ELSE "sent", added)]
    BY <1>2, <1>4 DEF SsiChar, Done, Tagged
  <2> QED
    BY <1>1, <1>3, <1>4, <2>1
<1>5. CASE b.tag /\ ch # ">" /\ other
  <2>1. SsiChar(b, ch) = [b EXCEPT !.tag = FALSE, !.buf = added]
    BY <1>2, <1>5 DEF SsiChar
  <2> QED
    BY <1>1, <1>3, <1>5, <2>1
<1>6. CASE b.tag /\ ch # ">" /\ ~ other /\ long
  <2>1. SsiChar(b, ch) = [b EXCEPT !.buf = <<ch>>, !.lost = TRUE]
    BY <1>2, <1>6 DEF SsiChar
  <2>2. Turn(b, ch, b.tag, <<ch>>, b.done, TRUE) /\ b.tag = TRUE
    BY <1>1, <1>2, <1>3, <1>6, <2>1
  <2> QED
    BY <1>6, <2>2
<1>7. CASE b.tag /\ ch # ">" /\ ~ other /\ ~ long
  <2>1. SsiChar(b, ch) = [b EXCEPT !.buf = added]
    BY <1>2, <1>7 DEF SsiChar
  <2>2. Turn(b, ch, b.tag, added, b.done, b.lost) /\ b.tag = TRUE
    BY <1>1, <1>2, <1>3, <1>7, <2>1
  <2> QED
    BY <1>7, <2>2
<1>8. CASE ~ b.tag /\ ch = "<"
  <2>1. SsiChar(b, ch) = [b EXCEPT !.tag = TRUE, !.buf = <<ch>>,
                                   !.done = IF b.buf = <<>> THEN b.done ELSE Done(b, "sent", b.buf)]
    BY <1>2, <1>8 DEF SsiChar, Done
  <2>2. Turn(b, ch, TRUE, <<ch>>, IF b.buf = <<>> THEN b.done ELSE Done(b, "sent", b.buf), b.lost)
    BY <1>1, <1>3, <2>1
  <2> QED
    BY <1>8, <2>2
<1>9. CASE ~ b.tag /\ ch # "<"
  <2>1. SsiChar(b, ch) = IF Len(added) = b.size THEN [b EXCEPT !.buf = <<>>, !.done = Done(b, "sent", added)]
                         ELSE [b EXCEPT !.buf = added]
    BY <1>2, <1>9 DEF SsiChar, Done
  <2>2. b.tag = FALSE
    BY <1>2, <1>9
  <2>3. CASE Len(added) = b.size
    <3>1. Turn(b, ch, FALSE, <<>>, Done(b, "sent", added), b.lost)
      BY <1>1, <1>3, <2>1, <2>2, <2>3
    <3> QED
      BY <1>9, <2>3, <3>1
  <2>4. CASE Len(added) # b.size
    <3>1. Turn(b, ch, FALSE, added, b.done, b.lost)
      BY <1>1, <1>3, <2>1, <2>2, <2>4
    <3> QED
      BY <1>9, <2>4, <3>1
  <2> QED
    BY <2>3, <2>4
<1> QED
  BY <1>2, <1>4, <1>5, <1>6, <1>7, <1>8, <1>9

\* What a turn may leave is a state.
LEMMA TurnIs ==
  ASSUME NEW C, NEW b \in Ssi(C), NEW ch, NEW tag \in BOOLEAN, NEW buf \in Seq(C), NEW done \in Seq(Piece(C)),
         NEW lost \in BOOLEAN, Turn(b, ch, tag, buf, done, lost)
  PROVE  SsiStep(b, ch) \in Ssi(C)
<1>1. Filled(b, ch) \in Int /\ b.high \in Int /\ b.size \in Int
  BY DEF Ssi, Filled
<1> QED
  BY <1>1 DEF Turn, Ssi

LEMMA SsiTypes ==
  ASSUME NEW C, NEW b \in Ssi(C), NEW ch \in C
  PROVE  /\ b.tag \in BOOLEAN /\ b.lost \in BOOLEAN /\ b.buf \in Seq(C) /\ b.done \in Seq(Piece(C))
         /\ b.high \in Int /\ b.size \in Int
         /\ Append(b.buf, ch) \in Seq(C) /\ <<ch>> \in Seq(C) /\ <<>> \in Seq(C)
         /\ \A k \in {"sent", "tag"}, x \in Seq(C) : Done(b, k, x) \in Seq(Piece(C))
<1>1. /\ b.tag \in BOOLEAN /\ b.lost \in BOOLEAN /\ b.buf \in Seq(C) /\ b.done \in Seq(Piece(C))
      /\ b.high \in Int /\ b.size \in Int
  BY DEF Ssi
<1>2. Append(b.buf, ch) \in Seq(C) /\ <<ch>> \in Seq(C) /\ <<>> \in Seq(C)
  BY <1>1, AppendProperties
<1>3. ASSUME NEW k \in {"sent", "tag"}, NEW x \in Seq(C)
      PROVE  Done(b, k, x) \in Seq(Piece(C))
  <2>1. [k |-> k, text |-> x] \in Piece(C)
    BY DEF Piece
  <2> QED
    BY <1>1, <2>1, AppendProperties DEF Done
<1> QED
  BY <1>1, <1>2, <1>3

LEMMA SsiStepIs ==
  ASSUME NEW C, NEW b \in Ssi(C), NEW ch \in C
  PROVE  SsiStep(b, ch) \in Ssi(C)
<1> DEFINE added == Append(b.buf, ch)
           kind == IF Tagged(added) THEN "tag" ELSE "sent"
<1>1. /\ b.tag \in BOOLEAN /\ b.lost \in BOOLEAN /\ b.buf \in Seq(C) /\ b.done \in Seq(Piece(C))
      /\ added \in Seq(C) /\ <<ch>> \in Seq(C) /\ <<>> \in Seq(C)
      /\ Done(b, kind, added) \in Seq(Piece(C)) /\ Done(b, "sent", added) \in Seq(Piece(C))
      /\ Done(b, "sent", b.buf) \in Seq(Piece(C))
  BY SsiTypes
<1>2. \E tag \in BOOLEAN, buf \in Seq(C), done \in Seq(Piece(C)), lost \in BOOLEAN : Turn(b, ch, tag, buf, done, lost)
  <2>1. \/ Turn(b, ch, FALSE, <<>>, Done(b, kind, added), b.lost)
        \/ Turn(b, ch, FALSE, added, b.done, b.lost)
        \/ Turn(b, ch, TRUE, <<ch>>, b.done, TRUE)
        \/ Turn(b, ch, TRUE, added, b.done, b.lost)
        \/ Turn(b, ch, TRUE, <<ch>>, b.done, b.lost)
        \/ Turn(b, ch, TRUE, <<ch>>, Done(b, "sent", b.buf), b.lost)
        \/ Turn(b, ch, FALSE, <<>>, Done(b, "sent", added), b.lost)
    BY SsiBranches
  <2>2. ASSUME NEW tag \in BOOLEAN, NEW buf \in Seq(C), NEW done \in Seq(Piece(C)), NEW lost \in BOOLEAN,
               Turn(b, ch, tag, buf, done, lost)
        PROVE  \E x \in BOOLEAN, y \in Seq(C), z \in Seq(Piece(C)), w \in BOOLEAN : Turn(b, ch, x, y, z, w)
    BY <2>2
  <2> HIDE DEF kind, added
  <2> QED
    BY <1>1, <2>1, <2>2
<1> QED
  BY <1>2, TurnIs

\* The turns are what their recursion describes.
LEMMA SsiTurnsAre ==
  ASSUME NEW C, NEW text \in Seq(C), NEW size \in Nat
  PROVE  /\ SsiTurns(text, size)[0] = SsiStart(size)
         /\ \A k \in 1 .. Len(text) : SsiTurns(text, size)[k] = SsiStep(SsiTurns(text, size)[k - 1], text[k])
         /\ \A k \in 0 .. Len(text) : SsiTurns(text, size)[k] \in Ssi(C)
<1> DEFINE e == SsiTurns(text, size)
           N == Len(text)
           X == Ssi(C)
           b == SsiStart(size)
           G == [k \in 1 .. N |-> [x \in X |-> SsiStep(x, text[k])]]
           Fits(g) == g = [k \in 0 .. N |-> IF k = 0 THEN b ELSE SsiStep(g[k - 1], text[k])]
<1>1. N \in Nat /\ \A k \in 1 .. N : text[k] \in C
  OBVIOUS
<1>2. b \in X
  BY DEF SsiStart, Ssi
<1>3. Counts(X, N, b, G)
  <2>1. \A k \in 1 .. N, x \in X : SsiStep(x, text[k]) \in X
    BY <1>1, SsiStepIs
  <2> HIDE DEF X, b
  <2> QED
    BY <1>1, <1>2, <2>1 DEF Counts
<1>4. PICK g \in [0 .. N -> X] : \A k \in 0 .. N : g[k] = IF k = 0 THEN b ELSE G[k][g[k - 1]]
  <2> HIDE DEF N, X, b, G
  <2> QED
    BY <1>3, UpTo
<1>5. Fits(g)
  <2>1. ASSUME NEW k \in 0 .. N
        PROVE  g[k] = IF k = 0 THEN b ELSE SsiStep(g[k - 1], text[k])
    <3>1. k # 0 => k \in 1 .. N /\ k - 1 \in 0 .. N
      BY <1>1
    <3> HIDE DEF X, b
    <3> QED
      BY <1>4, <3>1
  <2> QED
    BY <1>4, <2>1
<1>6. e = CHOOSE f : Fits(f)
  BY DEF SsiTurns, SsiStart, SsiStep, Filled
<1>7. Fits(e)
  <2> HIDE DEF Fits, e
  <2> QED
    BY <1>5, <1>6
<1>8. \A k \in 0 .. N : e[k] = IF k = 0 THEN b ELSE SsiStep(e[k - 1], text[k])
  <2> HIDE DEF e
  <2> QED
    BY <1>7
<1> HIDE DEF e, N, b
<1>9. e[0] = b /\ \A k \in 1 .. N : e[k] = SsiStep(e[k - 1], text[k])
  <2>1. 0 \in 0 .. N /\ \A k \in 1 .. N : k \in 0 .. N /\ k # 0
    BY <1>1
  <2> QED
    BY <1>8, <2>1
<1>10. {k \in 0 .. N : e[k] \in X} = 0 .. N
  <2> DEFINE P == {k \in 0 .. N : e[k] \in X}
  <2>1. 0 \in P /\ P \in SUBSET (0 .. N)
    BY <1>1, <1>2, <1>9
  <2>2. \A k \in 1 .. N : k - 1 \in P => k \in P
    <3>1. ASSUME NEW k \in 1 .. N, e[k - 1] \in X
          PROVE  e[k] \in X
      BY <1>1, <1>9, <3>1, SsiStepIs
    <3>2. \A k \in 1 .. N : k \in 0 .. N
      BY <1>1
    <3> QED
      BY <3>1, <3>2
  <2> HIDE DEF P
  <2> QED
    BY <1>1, <2>1, <2>2, Counting DEF P
<1> QED
  BY <1>9, <1>10 DEF e, N, b

\* What begins with the mark.
LEMMA IsMark ==
  ASSUME NEW C, NEW s \in Seq(C)
  PROVE  /\ IsPrefix(Mark, s) <=> Len(s) >= 2 /\ s[1] = "<" /\ s[2] = "#"
         /\ Len(Mark) = 2 /\ (Len(s) = 2 => (s = Mark <=> s[1] = "<" /\ s[2] = "#"))
<1>1. Len(Mark) = 2 /\ Mark[1] = "<" /\ Mark[2] = "#" /\ Len(s) \in Nat
  BY DEF Mark
<1>2. SubSeq(Mark, 1, 2) = Mark
  <2>1. Mark \in Seq({"<", "#"})
    BY DEF Mark
  <2> QED
    BY <1>1, <2>1, SubSeqFull
<1>3. CASE Len(s) >= 2
  <2> DEFINE b == SubSeq(s, 1, 2)
  <2>1. b = <<s[1], s[2]>>
    <3>1. s[1] \in C /\ s[2] \in C /\ \A i \in 1 .. 2 : s[i] \in C
      BY <1>1, <1>3
    <3>2. b \in Seq(C) /\ Len(b) = 2 /\ \A i \in 1 .. 2 - 1 + 1 : b[i] = s[1 + i - 1]
      BY <3>1, SubSeqProperties
    <3> HIDE DEF b
    <3>3. 1 \in 1 .. 2 - 1 + 1 /\ 2 \in 1 .. 2 - 1 + 1 /\ 1 + 1 - 1 = 1 /\ 1 + 2 - 1 = 2
      OBVIOUS
    <3>4. b[1] = s[1] /\ b[2] = s[2]
      BY <3>2, <3>3
    <3> QED
      BY <3>1, <3>2, <3>4
  <2>2. b = Mark <=> s[1] = "<" /\ s[2] = "#"
    BY <2>1 DEF Mark
  <2>3. Len(s) = 2 => b = s
    BY SubSeqFull
  <2> QED
    BY <1>1, <1>2, <1>3, <2>2, <2>3 DEF IsPrefix
<1>4. CASE ~ Len(s) >= 2
  BY <1>1, <1>4 DEF IsPrefix
<1> QED
  BY <1>3, <1>4

\* The buffer holds the characters read last.
Latest(buf, text, k) == Len(buf) <= k /\ \A j \in 1 .. Len(buf) : buf[j] = text[k - Len(buf) + j]

LEMMA LatestMore ==
  ASSUME NEW C, NEW text \in Seq(C), NEW k \in 1 .. Len(text), NEW buf \in Seq(C), Latest(buf, text, k - 1)
  PROVE  Latest(Append(buf, text[k]), text, k) /\ Latest(<<text[k]>>, text, k) /\ Latest(<<>>, text, k)
<1> DEFINE n == Len(buf)
           more == Append(buf, text[k])
<1>1. n \in Nat /\ k \in Nat /\ k >= 1 /\ text[k] \in C
  OBVIOUS
<1>2. Len(more) = n + 1 /\ (\A j \in 1 .. n : more[j] = buf[j]) /\ more[n + 1] = text[k]
  BY <1>1, AppendProperties
<1>3. n <= k - 1 /\ \A j \in 1 .. n : buf[j] = text[k - 1 - n + j]
  BY DEF Latest
<1> HIDE DEF n, more
<1>4. ASSUME NEW j \in 1 .. n + 1
      PROVE  more[j] = text[k - (n + 1) + j]
  <2>1. CASE j = n + 1
    <3>1. k - (n + 1) + j = k
      BY <1>1, <2>1
    <3> QED
      BY <1>2, <2>1, <3>1
  <2>2. CASE j # n + 1
    <3>1. j \in 1 .. n /\ k - (n + 1) + j = k - 1 - n + j
      BY <1>1, <2>2
    <3> QED
      BY <1>2, <1>3, <3>1
  <2> QED
    BY <2>1, <2>2
<1>5. Latest(more, text, k)
  BY <1>1, <1>2, <1>3, <1>4 DEF Latest
<1>6. Latest(<<text[k]>>, text, k) /\ Latest(<<>>, text, k)
  <2>1. Len(<<text[k]>>) = 1 /\ <<text[k]>>[1] = text[k] /\ Len(<<>>) = 0 /\ k - 1 + 1 = k
    BY <1>1
  <2> QED
    BY <1>1, <2>1 DEF Latest
<1> QED
  BY <1>5, <1>6 DEF more

\* The pieces are the text up to n.
Flows(done, text, n) == FlattenSeq(TextsOf(done)) = SubSeq(text, 1, n)

\* What stands behind n is put there.
LEMMA Joins ==
  ASSUME NEW C, NEW text \in Seq(C), NEW n \in Nat, NEW x \in Seq(C), n + Len(x) <= Len(text),
         \A j \in 1 .. Len(x) : x[j] = text[n + j]
  PROVE  SubSeq(text, 1, n) \o x = SubSeq(text, 1, n + Len(x))
<1> DEFINE a == SubSeq(text, 1, n)
           m == n + Len(x)
           b == SubSeq(text, 1, m)
<1>1. Len(x) \in Nat /\ Len(text) \in Nat /\ m \in Nat /\ 1 \in Int /\ n \in Int /\ m \in Int
  OBVIOUS
<1>2. (\A i \in 1 .. n : text[i] \in C) /\ \A i \in 1 .. m : text[i] \in C
  BY <1>1
<1>3. a \in Seq(C) /\ Len(a) = n /\ \A i \in 1 .. n : a[i] = text[i]
  <2>1. a \in Seq(C) /\ Len(a) = (IF 1 <= n THEN n - 1 + 1 ELSE 0) /\ \A i \in 1 .. n - 1 + 1 : a[i] = text[1 + i - 1]
    BY <1>1, <1>2, SubSeqProperties
  <2> HIDE DEF a
  <2> QED
    BY <1>1, <2>1
<1>4. b \in Seq(C) /\ Len(b) = m /\ \A i \in 1 .. m : b[i] = text[i]
  <2>1. b \in Seq(C) /\ Len(b) = (IF 1 <= m THEN m - 1 + 1 ELSE 0) /\ \A i \in 1 .. m - 1 + 1 : b[i] = text[1 + i - 1]
    BY <1>1, <1>2, SubSeqProperties
  <2> HIDE DEF b
  <2> QED
    BY <1>1, <2>1
<1> HIDE DEF a, b
<1>5. a \o x \in Seq(C) /\ Len(a \o x) = m /\ \A i \in 1 .. m : (a \o x)[i] = IF i <= n THEN a[i] ELSE x[i - n]
  BY <1>3, ConcatProperties
<1>6. ASSUME NEW i \in 1 .. m
      PROVE  (a \o x)[i] = b[i]
  <2>1. CASE i <= n
    <3>1. i \in 1 .. n
      BY <1>1, <2>1
    <3> QED
      BY <1>3, <1>4, <1>5, <2>1, <3>1
  <2>2. CASE ~ i <= n
    <3>1. i - n \in 1 .. Len(x) /\ n + (i - n) = i
      BY <1>1, <2>2
    <3> QED
      BY <1>4, <1>5, <2>2, <3>1
  <2> QED
    BY <2>1, <2>2
<1>7. a \o x = b
  BY <1>4, <1>5, <1>6, SeqEqual
<1> QED
  BY <1>7 DEF a, b

LEMMA FlowsMore ==
  ASSUME NEW C, NEW text \in Seq(C), NEW n \in Nat, NEW b, b.done \in Seq(Piece(C)), NEW x \in Seq(C),
         NEW k \in {"sent", "tag"}, Flows(b.done, text, n), n + Len(x) <= Len(text),
         \A j \in 1 .. Len(x) : x[j] = text[n + j]
  PROVE  Flows(Done(b, k, x), text, n + Len(x))
<1> DEFINE N == Len(b.done)
           p == [k |-> k, text |-> x]
           more == Append(b.done, p)
<1>1. p \in Piece(C) /\ p.text = x
  BY DEF Piece
<1>2. N \in Nat /\ DOMAIN b.done = 1 .. N /\ \A i \in 1 .. N : b.done[i].text \in Seq(C)
  <2>1. N \in Nat /\ DOMAIN b.done = 1 .. N /\ \A i \in 1 .. N : b.done[i] \in Piece(C)
    OBVIOUS
  <2>2. \A q \in Piece(C) : q.text \in Seq(C)
    BY DEF Piece
  <2> QED
    BY <2>1, <2>2
<1>3. /\ more \in Seq(Piece(C)) /\ Len(more) = N + 1 /\ DOMAIN more = 1 .. N + 1
      /\ (\A i \in 1 .. N : more[i] = b.done[i]) /\ more[N + 1] = p
  BY <1>1, AppendProperties
<1>4. TextsOf(b.done) \in Seq(Seq(C)) /\ Len(TextsOf(b.done)) = N /\ \A i \in 1 .. N : TextsOf(b.done)[i] = b.done[i].text
  BY <1>2, IsASeq DEF TextsOf
<1> HIDE DEF p, more
<1>5. TextsOf(more) = Append(TextsOf(b.done), x)
  <2> DEFINE t == TextsOf(more)
             u == Append(TextsOf(b.done), x)
  <2>1. t \in Seq(Seq(C)) /\ Len(t) = N + 1 /\ \A i \in 1 .. N + 1 : t[i] = more[i].text
    <3>1. \A i \in 1 .. N + 1 : more[i].text \in Seq(C)
      <4>1. \A q \in Piece(C) : q.text \in Seq(C)
        BY DEF Piece
      <4>2. \A i \in 1 .. N + 1 : more[i] \in Piece(C)
        BY <1>3
      <4> QED
        BY <4>1, <4>2
    <3> QED
      BY <1>2, <1>3, <3>1, IsASeq DEF TextsOf
  <2>2. /\ u \in Seq(Seq(C)) /\ Len(u) = N + 1
        /\ (\A i \in 1 .. N : u[i] = TextsOf(b.done)[i]) /\ u[N + 1] = x
    BY <1>4, AppendProperties
  <2> HIDE DEF t, u
  <2>3. ASSUME NEW i \in 1 .. N + 1
        PROVE  t[i] = u[i]
    <3>1. CASE i = N + 1
      BY <1>1, <1>3, <2>1, <2>2, <3>1
    <3>2. CASE i # N + 1
      <4>1. i \in 1 .. N
        BY <1>2, <3>2
      <4>2. t[i] = b.done[i].text
        BY <1>3, <2>1, <4>1
      <4>3. u[i] = b.done[i].text
        BY <1>4, <2>2, <4>1
      <4> QED
        BY <4>2, <4>3
    <3> QED
      BY <3>1, <3>2
  <2>4. t = u
    <3> DEFINE X == Seq(C)
    <3>1. t \in Seq(X) /\ u \in Seq(X) /\ Len(t) = Len(u) /\ \A i \in 1 .. Len(t) : t[i] = u[i]
      BY <2>1, <2>2, <2>3
    <3> HIDE DEF X
    <3> QED
      BY <3>1, SeqEqual
  <2> QED
    BY <2>4 DEF t, u
<1>6. FlattenSeq(TextsOf(more)) = FlattenSeq(TextsOf(b.done)) \o x
  BY <1>4, <1>5, FlattenMore
<1>7. SubSeq(text, 1, n) \o x = SubSeq(text, 1, n + Len(x))
  BY Joins
<1> QED
  BY <1>6, <1>7 DEF Flows, Done, more, p

\* A piece more, a tag only if it begins with the mark and ends, leaves the tags well.
LEMMA TagsMore ==
  ASSUME NEW C, NEW b, b.done \in Seq(Piece(C)), Tags(b.done), NEW k \in {"sent", "tag"}, NEW x \in Seq(C),
         k = "tag" => IsPrefix(Mark, x) /\ Last(x) = ">"
  PROVE  Tags(Done(b, k, x))
<1> DEFINE N == Len(b.done)
           p == [k |-> k, text |-> x]
           more == Append(b.done, p)
<1>1. p \in Piece(C) /\ p.text = x /\ p.k = k
  BY DEF Piece
<1>2. /\ N \in Nat /\ DOMAIN b.done = 1 .. N /\ DOMAIN more = 1 .. N + 1
      /\ (\A i \in 1 .. N : more[i] = b.done[i]) /\ more[N + 1] = p
  BY <1>1, AppendProperties
<1> HIDE DEF p, more
<1>3. ASSUME NEW i \in 1 .. N + 1, more[i].k = "tag"
      PROVE  IsPrefix(Mark, more[i].text) /\ Last(more[i].text) = ">"
  <2>1. CASE i = N + 1
    BY <1>1, <1>2, <1>3, <2>1
  <2>2. CASE i # N + 1
    <3>1. i \in 1 .. N
      BY <1>2, <2>2
    <3> QED
      BY <1>2, <1>3, <3>1 DEF Tags
  <2> QED
    BY <2>1, <2>2
<1>4. Tags(more)
  BY <1>2, <1>3 DEF Tags
<1> QED
  BY <1>4 DEF Done, more, p

\* What holds behind the first k characters.
SsiFits(C, b, text, size, k) ==
  /\ b \in Ssi(C) /\ b.size = size /\ b.high <= size
  /\ Len(b.buf) < size /\ (b.tag => Len(b.buf) <= size - 2 /\ \A j \in 1 .. Len(b.buf) : b.buf[j] # ">")
  /\ b.tag /\ ~ b.lost /\ Len(b.buf) > 2 => b.buf[1] = "<" /\ b.buf[2] = "#"
  /\ Latest(b.buf, text, k)
  /\ ~ b.lost => Flows(b.done, text, k - Len(b.buf))
  /\ b.lost => TooLong(text, size, k)
  /\ Tags(b.done)

LEMMA SsiStepFits ==
  ASSUME NEW C, NEW text \in Seq(C), NEW size \in Nat, size >= 4, NEW k \in 1 .. Len(text),
         NEW b, SsiFits(C, b, text, size, k - 1)
  PROVE  SsiFits(C, SsiStep(b, text[k]), text, size, k)
<1> DEFINE ch == text[k]
           n == Len(b.buf)
           c == SsiStep(b, ch)
           added == Append(b.buf, ch)
           kind == IF Tagged(added) THEN "tag" ELSE "sent"
           other == n = Len(Mark) /\ b.buf # Mark
           long == n = b.size - 2
<1>1. b \in Ssi(C) /\ ch \in C /\ k \in Nat /\ k >= 1 /\ Len(text) \in Nat /\ k <= Len(text)
  BY DEF SsiFits
<1>2. /\ b.tag \in BOOLEAN /\ b.lost \in BOOLEAN /\ b.buf \in Seq(C) /\ b.done \in Seq(Piece(C))
      /\ b.high \in Int /\ n \in Nat /\ added \in Seq(C)
  BY <1>1, SsiTypes
<1>3. c \in Ssi(C)
  BY <1>1, SsiStepIs
<1>4. /\ Latest(added, text, k) /\ Latest(<<ch>>, text, k) /\ Latest(<<>>, text, k)
      /\ Len(added) = n + 1 /\ (\A j \in 1 .. n : added[j] = b.buf[j]) /\ added[n + 1] = ch
  <2>1. Latest(b.buf, text, k - 1)
    BY DEF SsiFits
  <2> DEFINE buf == b.buf
  <2>2. buf \in Seq(C) /\ Latest(buf, text, k - 1)
    BY <1>2, <2>1
  <2> HIDE DEF buf
  <2>3. Latest(Append(buf, text[k]), text, k) /\ Latest(<<text[k]>>, text, k) /\ Latest(<<>>, text, k)
    BY <2>2, LatestMore
  <2>4. /\ Len(Append(buf, text[k])) = Len(buf) + 1
        /\ \A j \in 1 .. Len(buf) : Append(buf, text[k])[j] = buf[j]
        /\ Append(buf, text[k])[Len(buf) + 1] = text[k]
    BY <1>1, <2>2, AppendProperties
  <2> QED
    BY <2>3, <2>4 DEF buf
<1>5. Len(<<ch>>) = 1 /\ <<ch>>[1] = ch /\ Len(<<>>) = 0 /\ 1 .. 0 = {} /\ 1 .. 1 = {1}
  OBVIOUS
<1>6. \/ b.tag /\ ch = ">" /\ Turn(b, ch, FALSE, <<>>, Done(b, kind, added), b.lost)
      \/ b.tag /\ ch # ">" /\ other /\ Turn(b, ch, FALSE, added, b.done, b.lost)
      \/ b.tag /\ ch # ">" /\ ~ other /\ long /\ Turn(b, ch, TRUE, <<ch>>, b.done, TRUE)
      \/ b.tag /\ ch # ">" /\ ~ other /\ ~ long /\ Turn(b, ch, TRUE, added, b.done, b.lost)
      \/ ~ b.tag /\ ch = "<" /\ b.buf = <<>> /\ Turn(b, ch, TRUE, <<ch>>, b.done, b.lost)
      \/ ~ b.tag /\ ch = "<" /\ b.buf # <<>> /\ Turn(b, ch, TRUE, <<ch>>, Done(b, "sent", b.buf), b.lost)
      \/ ~ b.tag /\ ch # "<" /\ Len(added) = b.size /\ Turn(b, ch, FALSE, <<>>, Done(b, "sent", added), b.lost)
      \/ ~ b.tag /\ ch # "<" /\ Len(added) # b.size /\ Turn(b, ch, FALSE, added, b.done, b.lost)
  BY <1>1, SsiBranches
<1>7. /\ b.size = size /\ b.high <= size /\ n < size
      /\ b.tag => n <= size - 2 /\ \A j \in 1 .. n : b.buf[j] # ">"
      /\ b.tag /\ ~ b.lost /\ n > 2 => b.buf[1] = "<" /\ b.buf[2] = "#"
      /\ n <= k - 1 /\ \A j \in 1 .. n : b.buf[j] = text[k - 1 - n + j]
      /\ ~ b.lost => Flows(b.done, text, k - 1 - n)
      /\ b.lost => TooLong(text, size, k - 1)
      /\ Tags(b.done)
  BY DEF SsiFits, Latest
<1>8. b.lost => TooLong(text, size, k)
  <2>1. ASSUME TooLong(text, size, k - 1)
        PROVE  TooLong(text, size, k)
    <3>1. PICK i \in 1 .. k - 1 : /\ i + size - 2 <= k - 1 /\ text[i] = Mark[1] /\ text[i + 1] = Mark[2]
                                  /\ \A j \in i .. i + size - 2 : text[j] # ">"
      BY <2>1 DEF TooLong
    <3>2. i \in 1 .. k /\ i + size - 2 <= k
      BY <1>1, <3>1
    <3> QED
      BY <3>1, <3>2 DEF TooLong
  <2> QED
    BY <1>7, <2>1
<1>9. ASSUME ~ b.lost, NEW p \in {"sent", "tag"}
      PROVE  Flows(Done(b, p, added), text, k) /\ Flows(Done(b, p, b.buf), text, k - 1)
  <2> DEFINE m == k - 1 - n
  <2>1. m \in Nat /\ m + Len(added) = k /\ m + n = k - 1 /\ Flows(b.done, text, m)
    <3>1. Flows(b.done, text, m)
      BY <1>7, <1>9
    <3>2. k \in Nat /\ n \in Nat /\ n <= k - 1 /\ Len(added) = n + 1
      BY <1>1, <1>2, <1>4, <1>7
    <3> HIDE DEF n, added
    <3> QED
      BY <3>1, <3>2
  <2>2. \A j \in 1 .. Len(b.buf) : b.buf[j] = text[m + j]
    BY <1>7
  <2>3. \A j \in 1 .. Len(added) : added[j] = text[m + j]
    <3>1. ASSUME NEW j \in 1 .. Len(added)
          PROVE  added[j] = text[m + j]
      <4>1. k - Len(added) + j = m + j
        BY <1>1, <1>2, <1>4
      <4> QED
        BY <1>4, <4>1 DEF Latest
    <3> QED
      BY <3>1
  <2> HIDE DEF m, added
  <2>4. Flows(Done(b, p, added), text, m + Len(added))
    BY <1>1, <1>2, <2>1, <2>3, FlowsMore
  <2>5. Flows(Done(b, p, b.buf), text, m + Len(b.buf))
    <3> DEFINE buf == b.buf
    <3>1. buf \in Seq(C) /\ m + Len(buf) <= Len(text) /\ \A j \in 1 .. Len(buf) : buf[j] = text[m + j]
      BY <1>1, <1>2, <2>1, <2>2
    <3> HIDE DEF buf
    <3>2. Flows(Done(b, p, buf), text, m + Len(buf))
      BY <1>2, <2>1, <3>1, FlowsMore
    <3> QED
      BY <3>2 DEF buf
  <2> QED
    BY <2>1, <2>4, <2>5
<1>10. k - 1 - n = k - (n + 1) /\ k - 0 = k
  BY <1>1, <1>2
<1>11. IsPrefix(Mark, added) <=> n + 1 >= 2 /\ added[1] = "<" /\ added[2] = "#"
  BY <1>2, <1>4, IsMark
<1>12. Len(Mark) = 2 /\ Mark[1] = "<" /\ Mark[2] = "#" /\ (n = 2 => (b.buf = Mark <=> b.buf[1] = "<" /\ b.buf[2] = "#"))
  BY <1>2, IsMark DEF Mark
<1>13. Filled(b, ch) = n + IF b.tag /\ ch = ">" THEN 2 ELSE 1
  BY DEF Filled
<1>14. Filled(b, ch) <= size /\ Filled(b, ch) \in Int
  <2>1. n \in Nat /\ n < size /\ (b.tag => n <= size - 2)
    BY <1>2, <1>7
  <2> HIDE DEF n, ch
  <2> QED
    BY <1>13, <2>1
<1>15. ASSUME NEW tag, NEW buf, NEW done, NEW lost, Turn(b, ch, tag, buf, done, lost)
       PROVE  c.tag = tag /\ c.buf = buf /\ c.done = done /\ c.lost = lost /\ c.size = size /\ c.high <= size
  <2>1. c = [tag |-> tag, buf |-> buf, done |-> done, lost |-> lost, size |-> b.size,
             high |-> IF Filled(b, ch) > b.high THEN Filled(b, ch) ELSE b.high]
    BY <1>15 DEF Turn
  <2> HIDE DEF c
  <2> QED
    BY <1>7, <1>14, <2>1
<1> SUFFICES SsiFits(C, c, text, size, k)
  OBVIOUS
<1> HIDE DEF c, added, kind, n, ch
<1>16. CASE b.tag /\ ch = ">" /\ Turn(b, ch, FALSE, <<>>, Done(b, kind, added), b.lost)
  <2>1. c.tag = FALSE /\ c.buf = <<>> /\ c.done = Done(b, kind, added) /\ c.lost = b.lost /\ c.size = size /\ c.high <= size
    BY <1>15, <1>16
  <2>2. kind \in {"sent", "tag"} /\ (kind = "tag" => IsPrefix(Mark, added))
    BY DEF kind, Tagged
  <2>3. Last(added) = ">"
    BY <1>4, <1>16 DEF Last
  <2>4. Tags(c.done)
    <3>1. Tags(Done(b, kind, added))
      BY <1>2, <1>7, <2>2, <2>3, TagsMore
    <3> QED
      BY <2>1, <3>1
  <2>5. ~ c.lost => Flows(c.done, text, k - Len(c.buf))
    BY <1>5, <1>9, <1>10, <2>1, <2>2
  <2> QED
    BY <1>3, <1>4, <1>5, <1>8, <2>1, <2>4, <2>5 DEF SsiFits
<1>17. CASE b.tag /\ ch # ">" /\ other /\ Turn(b, ch, FALSE, added, b.done, b.lost)
  <2>1. c.tag = FALSE /\ c.buf = added /\ c.done = b.done /\ c.lost = b.lost /\ c.size = size /\ c.high <= size
    BY <1>15, <1>17
  <2>2. Len(c.buf) = n + 1 /\ n + 1 < size
    BY <1>2, <1>4, <1>7, <1>12, <1>17, <2>1
  <2>3. ~ c.lost => Flows(c.done, text, k - Len(c.buf))
    BY <1>7, <1>10, <2>1, <2>2
  <2> QED
    BY <1>3, <1>4, <1>7, <1>8, <2>1, <2>2, <2>3 DEF SsiFits
<1>18. CASE b.tag /\ ch # ">" /\ ~ other /\ long /\ Turn(b, ch, TRUE, <<ch>>, b.done, TRUE)
  <2>1. c.tag = TRUE /\ c.buf = <<ch>> /\ c.done = b.done /\ c.lost = TRUE /\ c.size = size /\ c.high <= size
    BY <1>15, <1>18
  <2>2. Len(c.buf) = 1 /\ \A j \in 1 .. Len(c.buf) : c.buf[j] # ">"
    BY <1>5, <1>18, <2>1
  <2>3. TooLong(text, size, k)
    <3>1. CASE b.lost
      BY <1>8, <3>1
    <3>2. CASE ~ b.lost
      <4>1. n = size - 2 /\ n >= 2 /\ b.buf[1] = "<" /\ b.buf[2] = "#"
        BY <1>2, <1>7, <1>12, <1>18, <3>2 DEF n
      <4> DEFINE i == k - n
      <4>2. i \in 1 .. k /\ i + size - 2 = k /\ i \in Int
        BY <1>1, <1>2, <1>7, <4>1
      <4>3. k - 1 - n + 1 = i /\ k - 1 - n + 2 = i + 1 /\ 1 \in 1 .. n /\ 2 \in 1 .. n
        BY <1>1, <1>2, <4>1
      <4>4. text[i] = "<" /\ text[i + 1] = "#"
        BY <1>7, <4>1, <4>3
      <4>5. ASSUME NEW j \in i .. i + size - 2
            PROVE  text[j] # ">"
        <5>1. CASE j = k
          BY <1>18, <5>1 DEF ch
        <5>2. CASE j # k
          <6>1. j - i + 1 \in 1 .. n /\ k - 1 - n + (j - i + 1) = j
            <7>1. k \in Nat /\ n \in Nat /\ i = k - n
              BY <1>1, <1>2
            <7>2. j \in Int /\ j >= i /\ j <= k
              BY <4>2
            <7> HIDE DEF i
            <7> QED
              BY <5>2, <7>1, <7>2
          <6>2. b.buf[j - i + 1] # ">"
            BY <1>7, <1>18, <6>1
          <6>3. b.buf[j - i + 1] = text[j]
            BY <1>7, <6>1
          <6> QED
            BY <6>2, <6>3
        <5> QED
          BY <5>1, <5>2
      <4> HIDE DEF i
      <4>6. i + size - 2 <= k
        BY <1>1, <4>2
      <4> QED
        BY <4>2, <4>4, <4>5, <4>6, <1>12 DEF TooLong
    <3> QED
      BY <1>2, <3>1, <3>2
  <2> QED
    BY <1>3, <1>4, <1>7, <2>1, <2>2, <2>3 DEF SsiFits
<1>19. CASE b.tag /\ ch # ">" /\ ~ other /\ ~ long /\ Turn(b, ch, TRUE, added, b.done, b.lost)
  <2>1. c.tag = TRUE /\ c.buf = added /\ c.done = b.done /\ c.lost = b.lost /\ c.size = size /\ c.high <= size
    BY <1>15, <1>19
  <2>2. Len(c.buf) = n + 1 /\ n + 1 <= size - 2
    BY <1>2, <1>4, <1>7, <1>19, <2>1 DEF n
  <2>3. ~ c.lost => Flows(c.done, text, k - Len(c.buf))
    BY <1>7, <1>10, <2>1, <2>2
  <2>4. \A j \in 1 .. Len(c.buf) : c.buf[j] # ">"
    <3>1. ASSUME NEW j \in 1 .. n + 1
          PROVE  added[j] # ">"
      <4>1. j = n + 1 \/ j \in 1 .. n
        BY <1>2
      <4> QED
        BY <1>4, <1>7, <1>19, <4>1
    <3> QED
      BY <2>1, <2>2, <3>1
  <2>5. ASSUME ~ c.lost, Len(c.buf) > 2
        PROVE  c.buf[1] = "<" /\ c.buf[2] = "#"
    <3>1. n >= 2 /\ 1 \in 1 .. n /\ 2 \in 1 .. n
      BY <1>2, <2>2, <2>5
    <3>2. b.buf[1] = "<" /\ b.buf[2] = "#"
      <4>1. CASE n = 2
        BY <1>12, <1>19, <4>1
      <4>2. CASE n # 2
        <5>1. n > 2
          BY <1>2, <3>1, <4>2
        <5> QED
          BY <1>7, <1>19, <2>1, <2>5, <5>1
      <4> QED
        BY <4>1, <4>2
    <3> QED
      BY <1>4, <2>1, <3>1, <3>2
  <2>6. Len(c.buf) < size /\ Len(c.buf) <= size - 2
    BY <1>2, <2>2
  <2> QED
    BY <1>3, <1>4, <1>7, <1>8, <2>1, <2>3, <2>4, <2>5, <2>6 DEF SsiFits
<1>20. ASSUME ~ b.tag, ch = "<", NEW done, Turn(b, ch, TRUE, <<ch>>, done, b.lost), Tags(done),
              ~ b.lost => Flows(done, text, k - 1)
       PROVE  SsiFits(C, c, text, size, k)
  <2>1. c.tag = TRUE /\ c.buf = <<ch>> /\ c.done = done /\ c.lost = b.lost /\ c.size = size /\ c.high <= size
    BY <1>15, <1>20
  <2>2. Len(c.buf) = 1 /\ \A j \in 1 .. Len(c.buf) : c.buf[j] # ">"
    BY <1>5, <1>20, <2>1
  <2> QED
    BY <1>3, <1>4, <1>8, <1>20, <2>1, <2>2 DEF SsiFits
<1>21. CASE ~ b.tag /\ ch = "<" /\ b.buf = <<>> /\ Turn(b, ch, TRUE, <<ch>>, b.done, b.lost)
  <2>1. n = 0 /\ k - 1 - 0 = k - 1
    BY <1>1, <1>5, <1>21 DEF n
  <2>2. ~ b.lost => Flows(b.done, text, k - 1)
    BY <1>7, <2>1
  <2>3. Tags(b.done)
    BY <1>7
  <2> QED
    BY <1>20, <1>21, <2>2, <2>3
<1>22. CASE ~ b.tag /\ ch = "<" /\ b.buf # <<>> /\ Turn(b, ch, TRUE, <<ch>>, Done(b, "sent", b.buf), b.lost)
  <2>1. Tags(Done(b, "sent", b.buf))
    BY <1>2, <1>7, TagsMore
  <2>2. ~ b.lost => Flows(Done(b, "sent", b.buf), text, k - 1)
    BY <1>9
  <2> QED
    BY <1>20, <1>22, <2>1, <2>2
<1>23. CASE ~ b.tag /\ ch # "<" /\ Len(added) = b.size /\ Turn(b, ch, FALSE, <<>>, Done(b, "sent", added), b.lost)
  <2>1. c.tag = FALSE /\ c.buf = <<>> /\ c.done = Done(b, "sent", added) /\ c.lost = b.lost /\ c.size = size /\ c.high <= size
    BY <1>15, <1>23
  <2>2. Tags(c.done)
    <3>1. Tags(Done(b, "sent", added))
      BY <1>2, <1>7, TagsMore
    <3> QED
      BY <2>1, <3>1
  <2>3. ~ c.lost => Flows(c.done, text, k - Len(c.buf))
    BY <1>5, <1>9, <1>10, <2>1
  <2> QED
    BY <1>3, <1>4, <1>5, <1>8, <2>1, <2>2, <2>3 DEF SsiFits
<1>24. CASE ~ b.tag /\ ch # "<" /\ Len(added) # b.size /\ Turn(b, ch, FALSE, added, b.done, b.lost)
  <2>1. c.tag = FALSE /\ c.buf = added /\ c.done = b.done /\ c.lost = b.lost /\ c.size = size /\ c.high <= size
    BY <1>15, <1>24
  <2>2. Len(c.buf) = n + 1 /\ n + 1 < size
    BY <1>2, <1>4, <1>7, <1>24, <2>1
  <2>3. ~ c.lost => Flows(c.done, text, k - Len(c.buf))
    BY <1>7, <1>10, <2>1, <2>2
  <2> QED
    BY <1>3, <1>4, <1>7, <1>8, <2>1, <2>2, <2>3 DEF SsiFits
<1> QED
  BY <1>6, <1>16, <1>17, <1>18, <1>19, <1>21, <1>22, <1>23, <1>24

\* send_ssi_file (3451), for every file and every size of its buffer: it never writes behind the buffer
\* (the assertion at 3470), the terminator behind a tag included; the pieces it sends and the tags it
\* obeys are the file, every character once and in its order, unless it gave up a tag, and it gives one up
\* only if that is longer than the buffer; what it obeys begins with the mark and ends.
THEOREM SsiIsExact ==
  ASSUME NEW C, NEW text \in Seq(C), NEW size \in Nat, size >= 4
  PROVE  /\ SendSsi(text, size).high <= size
         /\ SendSsi(text, size).lost \/ FlattenSeq(TextsOf(SendSsi(text, size).done)) = text
         /\ SendSsi(text, size).lost => TooLong(text, size, Len(text))
         /\ Tags(SendSsi(text, size).done)
<1> DEFINE e == SsiTurns(text, size)
           N == Len(text)
           P == {k \in 0 .. N : SsiFits(C, e[k], text, size, k)}
           b == e[N]
           r == SendSsi(text, size)
<1>1. e[0] = SsiStart(size) /\ \A k \in 1 .. N : e[k] = SsiStep(e[k - 1], text[k])
  BY SsiTurnsAre
<1>2. N \in Nat /\ P \in SUBSET (0 .. N)
  OBVIOUS
<1>3. r = [b EXCEPT !.done = IF b.buf = <<>> THEN b.done ELSE Done(b, "sent", b.buf)]
  BY DEF SendSsi, Done
<1> HIDE DEF e, r
<1>4. 0 \in P
  <2> DEFINE a == SsiStart(size)
  <2>1. /\ a.tag = FALSE /\ a.buf = <<>> /\ a.done = <<>> /\ a.lost = FALSE /\ a.high = 0 /\ a.size = size
        /\ a \in Ssi(C)
    BY DEF SsiStart, Ssi
  <2>2. Len(<<>>) = 0 /\ DOMAIN <<>> = {} /\ 1 .. 0 = {} /\ 0 - 0 = 0
    OBVIOUS
  <2>3. Flows(<<>>, text, 0)
    <3>1. TextsOf(<<>>) = <<>>
      BY <2>2 DEF TextsOf
    <3>2. SubSeq(text, 1, 0) = <<>>
      BY SubSeqEmpty
    <3> QED
      BY <2>2, <3>1, <3>2 DEF Flows, FlattenSeq
  <2> HIDE DEF a
  <2>4. SsiFits(C, a, text, size, 0)
    BY <2>1, <2>2, <2>3 DEF SsiFits, Latest, Tags
  <2> QED
    BY <1>1, <1>2, <2>4 DEF a
<1>5. \A k \in 1 .. N : k - 1 \in P => k \in P
  <2>1. ASSUME NEW k \in 1 .. N, k - 1 \in P
        PROVE  k \in P
    <3>1. SsiFits(C, e[k - 1], text, size, k - 1) /\ k \in 0 .. N
      BY <1>2, <2>1
    <3>2. SsiFits(C, SsiStep(e[k - 1], text[k]), text, size, k)
      BY <3>1, SsiStepFits
    <3> QED
      BY <1>1, <3>1, <3>2
  <2> QED
    BY <2>1
<1>6. P = 0 .. N
  <2> HIDE DEF P, N
  <2> QED
    BY <1>2, <1>4, <1>5, Counting
<1>7. SsiFits(C, b, text, size, N)
  <2>1. N \in P
    BY <1>2, <1>6
  <2> QED
    BY <2>1
<1> HIDE DEF b
<1>8. /\ b \in Ssi(C) /\ b.high <= size /\ Latest(b.buf, text, N) /\ Tags(b.done)
      /\ (~ b.lost => Flows(b.done, text, N - Len(b.buf))) /\ (b.lost => TooLong(text, size, N))
  BY <1>7 DEF SsiFits
<1>9. b.buf \in Seq(C) /\ b.done \in Seq(Piece(C)) /\ b.lost \in BOOLEAN
  BY <1>8 DEF Ssi
<1>10. /\ r.high = b.high /\ r.lost = b.lost
       /\ r.done = IF b.buf = <<>> THEN b.done ELSE Done(b, "sent", b.buf)
  BY <1>3, <1>8 DEF Ssi
<1>11. Tags(r.done)
  <2>1. Tags(Done(b, "sent", b.buf))
    BY <1>8, <1>9, TagsMore
  <2> QED
    BY <1>8, <1>10, <2>1
<1>12. ASSUME ~ b.lost
       PROVE  FlattenSeq(TextsOf(r.done)) = text
  <2>1. Flows(r.done, text, N)
    <3>1. CASE b.buf = <<>>
      <4>1. N - Len(<<>>) = N
        BY <1>2
      <4> QED
        BY <1>8, <1>10, <1>12, <3>1, <4>1
    <3>2. CASE b.buf # <<>>
      <4> DEFINE buf == b.buf
                 m == N - Len(buf)
      <4>1. buf \in Seq(C) /\ Len(buf) \in Nat /\ Len(buf) <= N /\ Flows(b.done, text, m)
            /\ \A j \in 1 .. Len(buf) : buf[j] = text[m + j]
        <5>1. buf \in Seq(C) /\ Latest(buf, text, N) /\ Flows(b.done, text, m)
          BY <1>8, <1>9, <1>12
        <5> HIDE DEF buf
        <5> QED
          BY <1>2, <5>1 DEF Latest
      <4>2. m \in Nat /\ m + Len(buf) = N /\ m + Len(buf) <= Len(text)
        BY <1>2, <4>1
      <4> HIDE DEF buf, m
      <4>3. Flows(Done(b, "sent", buf), text, m + Len(buf))
        BY <1>9, <4>1, <4>2, FlowsMore
      <4>4. r.done = Done(b, "sent", buf)
        BY <1>10, <3>2 DEF buf
      <4> QED
        BY <4>2, <4>3, <4>4
    <3> QED
      BY <3>1, <3>2
  <2> QED
    BY <2>1, SubSeqFull DEF Flows
<1> QED
  BY <1>8, <1>9, <1>10, <1>11, <1>12 DEF r

============================================================================
