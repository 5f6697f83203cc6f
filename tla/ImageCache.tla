----------------------------- MODULE ImageCache -----------------------------
(***************************************************************************)
(* What apophnia promises its clients (show_image of C/apophnia.c): a      *)
(* cache of pictures that fills itself.  A name means one picture: that of *)
(* its first segment, changed as its other segments say.  A client is      *)
(* shown the picture its name means, or is refused, which never happens to *)
(* a name that was stored.  Pictures appear on the shelf only under names  *)
(* that a client waits for and only beside a picture they can be made      *)
(* from; none is ever taken away.                                          *)
(***************************************************************************)
EXTENDS Naturals, Sequences

CONSTANTS
  Client,
  Names,    \* records of segments and an extension
  None      \* no name

VARIABLES
  stored,   \* the names the operator put there
  shelf,    \* what there is under each name
  want,     \* the name each client waits for
  got       \* what it was last shown

vars == <<stored, shelf, want, got>>

Nothing     == [kind |-> "absent", pix |-> <<>>]
Refusal     == [kind |-> "refused", pix |-> <<>>]
Folder      == [kind |-> "dir", pix |-> <<>>]
Picture(nm) == [kind |-> "image", pix |-> nm.segs]

\* a is a shorter name of the same picture as b.
Shorter(a, b) == Len(a.segs) < Len(b.segs) /\ a.segs = SubSeq(b.segs, 1, Len(a.segs))

Init == /\ stored \subseteq Names /\ DOMAIN shelf = Names
        /\ \A nm \in Names : IF nm \in stored THEN shelf[nm] \in {Picture(nm), Folder}
                                              ELSE shelf[nm] = Nothing
        /\ want = [c \in Client |-> None] /\ got = [c \in Client |-> Nothing]

Ask(c) == /\ want[c] = None
          /\ \E nm \in Names : want' = [want EXCEPT ![c] = nm]
          /\ got' = [got EXCEPT ![c] = Nothing]
          /\ UNCHANGED <<stored, shelf>>

\* While a client waits for it, a picture is made from one under a shorter name.
Bake(c) == /\ want[c] # None /\ shelf[want[c]] = Nothing
           /\ \E base \in Names : Shorter(base, want[c]) /\ shelf[base].kind = "image"
           /\ shelf' = [shelf EXCEPT ![want[c]] = Picture(want[c])]
           /\ UNCHANGED <<stored, want, got>>

Show(c) == /\ want[c] # None /\ shelf[want[c]] = Picture(want[c])
           /\ got' = [got EXCEPT ![c] = Picture(want[c])]
           /\ want' = [want EXCEPT ![c] = None]
           /\ UNCHANGED <<stored, shelf>>

Refuse(c) == /\ want[c] # None /\ want[c] \notin stored
             /\ got' = [got EXCEPT ![c] = Refusal]
             /\ want' = [want EXCEPT ![c] = None]
             /\ UNCHANGED <<stored, shelf>>

\* The server is killed: everybody loses what they asked for, the shelf stays.
Crash == /\ want' = [c \in Client |-> None] /\ got' = [c \in Client |-> Nothing]
         /\ UNCHANGED <<stored, shelf>>

Next == (\E c \in Client : Ask(c) \/ Bake(c) \/ Show(c) \/ Refuse(c)) \/ Crash

Spec == Init /\ [][Next]_vars
=============================================================================
