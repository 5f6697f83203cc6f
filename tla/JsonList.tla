------------------------------- MODULE JsonList -------------------------------
(***************************************************************************)
(* The list operations of cJSON.c: items in a heap, linked both ways, the  *)
(* children of arrays and objects.  A caller makes items, adds what it     *)
(* holds, takes items out, replaces and deletes them, and adds references  *)
(* to items.  kids is what the lists ought to be.                          *)
(***************************************************************************)
EXTENDS Integers, Sequences, SequencesExt, FiniteSetsExt

CONSTANTS Node,       \* the items there is memory for, numbers; 0 is NULL
          MaxOps      \* bound: operations

ASSUME NodeAssumption == Node \subseteq Nat \ {0} /\ IsFiniteSet(Node) /\ 1 \in Node

VARIABLES
  heap,   \* the fields of each item; used is FALSE for free memory
  owned,  \* items the caller holds and may still add or delete
  kids,   \* the children of each item, in order
  ops

listVars == <<heap, owned, kids, ops>>

Free  == [used |-> FALSE, next |-> 0, prev |-> 0, child |-> 0, ref |-> 0]
New   == [Free EXCEPT !.used = TRUE]
Unused == {n \in Node : ~ heap[n].used}

ListInit == /\ heap = [n \in Node |-> IF n = 1 THEN New ELSE Free] /\ owned = {1}
            /\ kids = [n \in Node |-> <<>>] /\ ops = 0

\* The items from c on, along next.
Links(h, c, s) == /\ c = IF s = <<>> THEN 0 ELSE s[1]
                  /\ \A i \in DOMAIN s : h[s[i]].next = IF i = Len(s) THEN 0 ELSE s[i + 1]
Walks       == SetToAllKPermutations(Node)
Chain(h, c) == CHOOSE s \in Walks : Links(h, c, s)

\* What a recursion from c comes to: the least set with c that it does not leave.
Reached(next, c) ==
  {n \in Node : \A S \in SUBSET Node : c \in S /\ (\A m \in S : next[m] \subseteq S) => n \in S}

\* cJSON_Delete: c, what is behind it and what is below them, but not below a reference.
Doomed(h, c) ==
  Reached([n \in Node |-> {h[n].next, IF h[n].ref = 0 THEN h[n].child ELSE 0} \ {0}], c)

DeleteFrom(h, c) == LET gone == Doomed(h, c) IN [n \in Node |-> IF n \in gone THEN Free ELSE h[n]]

\* cJSON_AddItemToArray, behind the last child.
Added(h, a, c) ==
  LET last == Last(Chain(h, h[a].child))
  IN IF h[a].child = 0 THEN [h EXCEPT ![a].child = c]
     ELSE [h EXCEPT ![last].next = c, ![c].prev = last]

\* cJSON_DetachItemFromArray.  Mutant: the item behind keeps its prev.
DetachedWith(h, a, c, back) ==
  LET i == h[c]
      h1 == IF i.prev # 0 THEN [h EXCEPT ![i.prev].next = i.next] ELSE h
      h2 == IF i.next # 0 THEN [h1 EXCEPT ![i.next].prev = back] ELSE h1
      h3 == IF c = h[a].child THEN [h2 EXCEPT ![a].child = i.next] ELSE h2
  IN [h3 EXCEPT ![c].next = 0, ![c].prev = 0]

Detached_KeepsPrev(h, a, c) == DetachedWith(h, a, c, c)

Detached(h, a, c) == DetachedWith(h, a, c, h[c].prev)

\* cJSON_ReplaceItemInArray.
Replaced(h, a, c, new) ==
  LET i == h[c]
      h1 == [h EXCEPT ![new].next = i.next, ![new].prev = i.prev]
      h2 == IF i.next # 0 THEN [h1 EXCEPT ![i.next].prev = new] ELSE h1
      h3 == IF c = h[a].child THEN [h2 EXCEPT ![a].child = new] ELSE [h2 EXCEPT ![i.prev].next = new]
  IN DeleteFrom([h3 EXCEPT ![c].next = 0, ![c].prev = 0], c)

-----------------------------------------------------------------------------
(* The operations of the caller, on an array or object a it may reach. *)

Below(k, n) == Reached([m \in Node |-> ToSet(k[m])], n)

Arrays == {n \in UNION {Below(kids, o) : o \in owned} : heap[n].ref = 0}
Without(k, gone) == [n \in Node |-> IF n \in gone THEN <<>> ELSE k[n]]
Step(h, o, k) == ops < MaxOps /\ ops' = ops + 1 /\ heap' = h /\ owned' = o /\ kids' = k

\* cJSON_Create...: an item of its own.
Create == \E n \in Unused : Step([heap EXCEPT ![n] = New], owned \cup {n}, kids)

\* cJSON_AddItemToArray, cJSON_AddItemToObject: not below itself.
AddItem(a, c) ==
  /\ c \in owned /\ a \notin Below(kids, c)
  /\ Step(Added(heap, a, c), owned \ {c}, [kids EXCEPT ![a] = Append(@, c)])

\* create_reference copies the item as it is now, without its place in a list; the reference of a
\* reference is one to the same item.
AddReference(a, c) ==
  \E n \in Unused :
    /\ c \in Node /\ heap[c].used
    /\ LET of == IF heap[c].ref = 0 THEN c ELSE heap[c].ref
           ref == [heap[c] EXCEPT !.ref = of, !.next = 0, !.prev = 0]
       IN Step(Added([heap EXCEPT ![n] = ref], a, n), owned, [kids EXCEPT ![a] = Append(@, n)])

\* The item at a place, by its number or by its name; without one nothing happens.
Detach(a, i) ==
  LET c == Chain(heap, heap[a].child)[i]
  IN Step(Detached(heap, a, c), owned \cup {c}, [kids EXCEPT ![a] = RemoveAt(@, i)])

DeleteItem(a, i) ==
  LET c == Chain(heap, heap[a].child)[i]
  IN Step(DeleteFrom(Detached(heap, a, c), c), owned,
          Without([kids EXCEPT ![a] = RemoveAt(@, i)], Below(kids, kids[a][i])))

Replace(a, i, new) ==
  /\ new \in owned /\ a \notin Below(kids, new)
  /\ LET c == Chain(heap, heap[a].child)[i]
     IN Step(Replaced(heap, a, c, new), owned \ {new},
             [Without(kids, Below(kids, kids[a][i])) EXCEPT ![a] = ReplaceAt(kids[a], i, new)])

Delete(c) == /\ c \in owned
             /\ Step(DeleteFrom(heap, c), owned \ {c}, Without(kids, Below(kids, c)))

ListNext ==
  \/ Create
  \/ \E c \in owned : Delete(c)
  \/ \E a \in Arrays : \/ \E c \in Node : AddItem(a, c) \/ AddReference(a, c)
                       \/ \E i \in DOMAIN kids[a] : Detach(a, i) \/ DeleteItem(a, i) \/ \E new \in owned : Replace(a, i, new)

ListSpec == ListInit /\ [][ListNext]_listVars

-----------------------------------------------------------------------------
(* Every list reads the same both ways and holds what was put there and not taken out: cJSON.c    *)
(* 466-481 keep two pointers for each neighbour.  An item is used exactly if somebody owns it.    *)
ListsLinked ==
  /\ {n \in Node : heap[n].used} = UNION {Below(kids, o) : o \in owned}
  /\ \A a \in Node : heap[a].used /\ heap[a].ref = 0 =>
       LET list == Chain(heap, heap[a].child)
       IN /\ list = kids[a]
          /\ \A i \in DOMAIN list : heap[list[i]].prev = IF i = 1 THEN 0 ELSE list[i - 1]
====
