---------------------------- MODULE SocketQueue ----------------------------
(***************************************************************************)
(* What mongoose's master and its workers promise each other about         *)
(* accepted connections (accept_new_connection, produce_socket and         *)
(* consume_socket of C/mongoose/mongoose.c): a bounded first-in first-out  *)
(* queue.  Connections are numbered in the order accept returned them.     *)
(***************************************************************************)
EXTENDS Naturals, Sequences

CONSTANTS
  Worker,   \* worker threads
  Size,     \* slots of the queue
  None      \* no connection

VARIABLES
  accepted,   \* connections accepted so far
  hand,       \* the one the master has accepted and not yet queued
  waiting,    \* the queue
  serving,    \* the one each worker has taken
  closed,     \* connections closed after they were served
  stopping    \* has mg_stop been called?

vars == <<accepted, hand, waiting, serving, closed, stopping>>

Init == /\ accepted = 0 /\ hand = None /\ waiting = <<>>
        /\ serving = [w \in Worker |-> None]
        /\ closed = {} /\ stopping = FALSE

Accept == /\ hand = None /\ ~stopping
          /\ accepted' = accepted + 1 /\ hand' = accepted + 1
          /\ UNCHANGED <<waiting, serving, closed, stopping>>

Enqueue == /\ hand # None /\ Len(waiting) < Size
           /\ waiting' = Append(waiting, hand) /\ hand' = None
           /\ UNCHANGED <<accepted, serving, closed, stopping>>

Dequeue(w) == /\ serving[w] = None /\ waiting # <<>>
              /\ serving' = [serving EXCEPT ![w] = Head(waiting)]
              /\ waiting' = Tail(waiting)
              /\ UNCHANGED <<accepted, hand, closed, stopping>>

Close(w) == /\ serving[w] # None
            /\ closed' = closed \cup {serving[w]}
            /\ serving' = [serving EXCEPT ![w] = None]
            /\ UNCHANGED <<accepted, hand, waiting, stopping>>

Stop == /\ ~stopping /\ stopping' = TRUE
        /\ UNCHANGED <<accepted, hand, waiting, serving, closed>>

\* Only a server that is stopping may lose a connection.
Drop == /\ stopping /\ hand # None /\ hand' = None
        /\ UNCHANGED <<accepted, waiting, serving, closed, stopping>>

Next == Accept \/ Enqueue \/ (\E w \in Worker : Dequeue(w) \/ Close(w)) \/ Stop \/ Drop

Spec == Init /\ [][Next]_vars
=============================================================================
