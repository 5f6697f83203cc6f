----------------------------- MODULE WorkerPool -----------------------------
(***************************************************************************)
(* mongoose's thread pool (C/mongoose/mongoose.c), in which apophnia's     *)
(* requests run: a master accepts connections and puts them in a ring      *)
(* buffer, workers take them out, and mg_stop ends them all.  One mutex    *)
(* guards the ring; stop_flag is read and written without it.  A section   *)
(* under the mutex is one action, except where a thread is about to sleep: *)
(* between its look at stop_flag and its sleep other threads may run that  *)
(* do not need the mutex.                                                  *)
(***************************************************************************)
EXTENDS Integers, Sequences, FiniteSets

CONSTANTS
  Worker,       \* worker threads (option num_threads)
  Size,         \* ARRAY_SIZE(ctx->queue), 20 in the code
  MaxSockets,   \* bound: connections accepted
  MaxSpurious,  \* bound: wake-ups nobody asked for, which POSIX allows
  None          \* no connection; no thread

ASSUME SizeAssumption   == Size \in Nat \ {0}
ASSUME WorkerAssumption == IsFiniteSet(Worker)
ASSUME NoneAssumption   == None \notin Nat /\ None \notin Worker

VARIABLES
  stop_flag,             \* 0, 1 once mg_stop is called, 2 once the master is done
  queue, sq_head, sq_tail,
  num_threads,
  mutex,                 \* the worker that holds it while falling asleep, or None
  mpc, so,               \* the master: next step, the connection it accepted
  wpc, client,           \* the workers: next step, conn->client
  spc,                   \* the thread that calls mg_stop
  accepted, closed,      \* connections accepted so far; those closed by a worker
  spurious               \* unasked wake-ups so far

ring == <<queue, sq_head, sq_tail>>
vars == <<stop_flag, ring, num_threads, mutex, mpc, so, wpc, client, spc, accepted, closed, spurious>>

MPC == {"poll", "produce", "waitEmpty", "wake", "join", "waitThreads", "signal", "done"}
WPC == {"consume", "doze", "wait", "taken", "serve", "exit", "done"}

Slot == 0 .. Size - 1

\* mg_start has returned: every thread runs.
Init ==
  /\ stop_flag = 0
  /\ queue = [i \in Slot |-> None] /\ sq_head = 0 /\ sq_tail = 0
  /\ num_threads = Cardinality(Worker)
  /\ mutex = None
  /\ mpc = "poll" /\ so = None
  /\ wpc = [w \in Worker |-> "consume"] /\ client = [w \in Worker |-> None]
  /\ spc = "run"
  /\ accepted = 0 /\ closed = {} /\ spurious = 0

Asleep == {w \in Worker : wpc[w] = "wait"}
Full   == sq_head - sq_tail >= Size

\* pthread_cond_signal of sq_full, sq_empty and cond: who sleeps on it goes back
\* to the test of its loop.
SignalFull  == IF Asleep = {} THEN UNCHANGED wpc
               ELSE \E w \in Asleep : wpc' = [wpc EXCEPT ![w] = "consume"]
SignalEmpty == mpc' = IF mpc = "waitEmpty" THEN "produce" ELSE mpc
SignalCond  == mpc' = IF mpc = "waitThreads" THEN "join" ELSE mpc

-----------------------------------------------------------------------------
\* master_thread, accept_new_connection and produce_socket.

Accept ==
  /\ mpc = "poll" /\ stop_flag = 0 /\ accepted < MaxSockets
  /\ accepted' = accepted + 1 /\ so' = accepted + 1
  /\ mpc' = "produce"
  /\ UNCHANGED <<stop_flag, ring, num_threads, mutex, wpc, client, spc, closed, spurious>>

ProduceWait ==
  /\ mpc = "produce" /\ mutex = None
  /\ stop_flag = 0 /\ Full
  /\ mpc' = "waitEmpty"
  /\ UNCHANGED <<stop_flag, ring, num_threads, mutex, so, wpc, client, spc, accepted, closed, spurious>>

\* Mutants of Put: the head moves before the slot is filled; no worker is woken.
Put_PreIncrement ==
  /\ mpc = "produce" /\ mutex = None /\ ~Full
  /\ queue' = [queue EXCEPT ![(sq_head + 1) % Size] = so]
  /\ sq_head' = sq_head + 1
  /\ so' = None /\ mpc' = "poll" /\ SignalFull
  /\ UNCHANGED <<stop_flag, sq_tail, num_threads, mutex, client, spc, accepted, closed, spurious>>

Put_Silent ==
  /\ mpc = "produce" /\ mutex = None /\ ~Full
  /\ queue' = [queue EXCEPT ![sq_head % Size] = so]
  /\ sq_head' = sq_head + 1
  /\ so' = None /\ mpc' = "poll"
  /\ UNCHANGED <<stop_flag, sq_tail, num_threads, mutex, wpc, client, spc, accepted, closed, spurious>>

Put ==
  /\ mpc = "produce" /\ mutex = None /\ ~Full
  /\ queue' = [queue EXCEPT ![sq_head % Size] = so]
  /\ sq_head' = sq_head + 1
  /\ so' = None /\ mpc' = "poll" /\ SignalFull
  /\ UNCHANGED <<stop_flag, sq_tail, num_threads, mutex, client, spc, accepted, closed, spurious>>

\* Woken to stop with the ring still full: the connection is forgotten.
PutNot ==
  /\ mpc = "produce" /\ mutex = None /\ Full /\ stop_flag # 0
  /\ so' = None /\ mpc' = "poll" /\ SignalFull
  /\ UNCHANGED <<stop_flag, ring, num_threads, mutex, client, spc, accepted, closed, spurious>>

LeavePoll ==
  /\ mpc = "poll" /\ stop_flag # 0
  /\ mpc' = "wake"
  /\ UNCHANGED <<stop_flag, ring, num_threads, mutex, so, wpc, client, spc, accepted, closed, spurious>>

\* pthread_cond_broadcast(&ctx->sq_full), without the mutex.
WakeWorkers ==
  /\ mpc = "wake"
  /\ wpc' = [w \in Worker |-> IF wpc[w] = "wait" THEN "consume" ELSE wpc[w]]
  /\ mpc' = "join"
  /\ UNCHANGED <<stop_flag, ring, num_threads, mutex, so, client, spc, accepted, closed, spurious>>

\* Mutant of Join: only one worker is waited for.
Join_One ==
  /\ mpc = "join" /\ mutex = None
  /\ mpc' = IF num_threads = Cardinality(Worker) THEN "waitThreads" ELSE "signal"
  /\ UNCHANGED <<stop_flag, ring, num_threads, mutex, so, wpc, client, spc, accepted, closed, spurious>>

Join ==
  /\ mpc = "join" /\ mutex = None
  /\ mpc' = IF num_threads > 0 THEN "waitThreads" ELSE "signal"
  /\ UNCHANGED <<stop_flag, ring, num_threads, mutex, so, wpc, client, spc, accepted, closed, spurious>>

MasterDone ==
  /\ mpc = "signal"
  /\ stop_flag' = 2 /\ mpc' = "done"
  /\ UNCHANGED <<ring, num_threads, mutex, so, wpc, client, spc, accepted, closed, spurious>>

-----------------------------------------------------------------------------
\* worker_thread and consume_socket.

\* The ring is empty: go to sleep on sq_full, in two steps.
Doze(w) ==
  /\ wpc[w] = "consume" /\ mutex = None
  /\ sq_head = sq_tail /\ stop_flag = 0
  /\ mutex' = w /\ wpc' = [wpc EXCEPT ![w] = "doze"]
  /\ UNCHANGED <<stop_flag, ring, num_threads, mpc, so, client, spc, accepted, closed, spurious>>

Sleep(w) ==
  /\ wpc[w] = "doze"
  /\ mutex' = None /\ wpc' = [wpc EXCEPT ![w] = "wait"]
  /\ UNCHANGED <<stop_flag, ring, num_threads, mpc, so, client, spc, accepted, closed, spurious>>

\* Mutant of Take: the master is not woken.
Take_Silent(w) ==
  /\ wpc[w] = "consume" /\ mutex = None /\ sq_head > sq_tail
  /\ client' = [client EXCEPT ![w] = queue[sq_tail % Size]]
  /\ LET back == IF sq_tail + 1 > Size THEN Size ELSE 0 IN
       sq_tail' = sq_tail + 1 - back /\ sq_head' = sq_head - back
  /\ wpc' = [wpc EXCEPT ![w] = "taken"]
  /\ UNCHANGED <<stop_flag, queue, num_threads, mutex, mpc, so, spc, accepted, closed, spurious>>

\* Taking the oldest connection moves the tail; past the end both indices go back
\* by the ring's size, once, since the tail never exceeds it by more than one.
Take(w) ==
  /\ wpc[w] = "consume" /\ mutex = None /\ sq_head > sq_tail
  /\ client' = [client EXCEPT ![w] = queue[sq_tail % Size]]
  /\ LET back == IF sq_tail + 1 > Size THEN Size ELSE 0 IN
       sq_tail' = sq_tail + 1 - back /\ sq_head' = sq_head - back
  /\ wpc' = [wpc EXCEPT ![w] = "taken"] /\ SignalEmpty
  /\ UNCHANGED <<stop_flag, queue, num_threads, mutex, so, spc, accepted, closed, spurious>>

TakeNone(w) ==
  /\ wpc[w] = "consume" /\ mutex = None
  /\ sq_head = sq_tail /\ stop_flag # 0
  /\ wpc' = [wpc EXCEPT ![w] = "taken"] /\ SignalEmpty
  /\ UNCHANGED <<stop_flag, ring, num_threads, mutex, so, client, spc, accepted, closed, spurious>>

\* return !ctx->stop_flag, after the mutex is released.  A connection taken just
\* before the flag was set is neither served nor closed.
Return(w) ==
  /\ wpc[w] = "taken"
  /\ wpc' = [wpc EXCEPT ![w] = IF stop_flag = 0 THEN "serve" ELSE "exit"]
  /\ UNCHANGED <<stop_flag, ring, num_threads, mutex, mpc, so, client, spc, accepted, closed, spurious>>

\* process_new_connection and close_connection.
Serve(w) ==
  /\ wpc[w] = "serve"
  /\ closed' = closed \cup {client[w]} /\ client' = [client EXCEPT ![w] = None]
  /\ wpc' = [wpc EXCEPT ![w] = "consume"]
  /\ UNCHANGED <<stop_flag, ring, num_threads, mutex, mpc, so, spc, accepted, spurious>>

\* Mutant of Exit: the master is not told.
Exit_Silent(w) ==
  /\ wpc[w] = "exit" /\ mutex = None
  /\ num_threads' = num_threads - 1
  /\ wpc' = [wpc EXCEPT ![w] = "done"]
  /\ UNCHANGED <<stop_flag, ring, mutex, mpc, so, client, spc, accepted, closed, spurious>>

Exit(w) ==
  /\ wpc[w] = "exit" /\ mutex = None
  /\ num_threads' = num_threads - 1 /\ SignalCond
  /\ wpc' = [wpc EXCEPT ![w] = "done"]
  /\ UNCHANGED <<stop_flag, ring, mutex, so, client, spc, accepted, closed, spurious>>

Spurious(w) ==
  /\ wpc[w] = "wait" /\ spurious < MaxSpurious
  /\ spurious' = spurious + 1
  /\ wpc' = [wpc EXCEPT ![w] = "consume"]
  /\ UNCHANGED <<stop_flag, ring, num_threads, mutex, mpc, so, client, spc, accepted, closed>>

-----------------------------------------------------------------------------
\* mg_stop: set the flag, wait for the master, free the context.

Stop ==
  /\ spc = "run"
  /\ stop_flag' = 1 /\ spc' = "stopping"
  /\ UNCHANGED <<ring, num_threads, mutex, mpc, so, wpc, client, accepted, closed, spurious>>

FreeContext ==
  /\ spc = "stopping" /\ stop_flag = 2
  /\ spc' = "returned"
  /\ UNCHANGED <<stop_flag, ring, num_threads, mutex, mpc, so, wpc, client, accepted, closed, spurious>>

Master  == ProduceWait \/ Put \/ PutNot \/ LeavePoll \/ WakeWorkers \/ Join \/ MasterDone
Work(w) == \/ Doze(w) \/ Sleep(w) \/ Take(w) \/ TakeNone(w) \/ Return(w) \/ Serve(w) \/ Exit(w)

Next == \/ Accept \/ Master \/ Stop \/ FreeContext
        \/ \E w \in Worker : Work(w) \/ Spurious(w)

Spec == Init /\ [][Next]_vars

\* Threads that can run do, and a handler returns.  Whether a client connects or
\* somebody calls mg_stop is left open.
FairSpec == /\ Spec /\ WF_vars(Master) /\ WF_vars(FreeContext)
            /\ \A w \in Worker : WF_vars(Work(w))

-----------------------------------------------------------------------------
\* Types, and the ring's indices where the comparisons of produce_socket and
\* consume_socket expect them: never negative, never further apart than the ring
\* is long, never growing without end.
TypeOK ==
  /\ stop_flag \in {0, 1, 2} /\ spc \in {"run", "stopping", "returned"}
  /\ queue \in [Slot -> Nat \cup {None}]
  /\ sq_tail \in 0 .. Size /\ sq_head \in sq_tail .. sq_tail + Size
  /\ num_threads \in Nat /\ mutex \in Worker \cup {None}
  /\ mpc \in MPC /\ so \in Nat \cup {None}
  /\ wpc \in [Worker -> WPC] /\ client \in [Worker -> Nat \cup {None}]
  /\ accepted \in Nat /\ closed \in SUBSET Nat /\ spurious \in Nat

\* No wake-up is lost while the server runs: if workers sleep, there are at least
\* as many awake and on their way to the ring as connections in it.
NoneStranded ==
  Asleep # {} => sq_head - sq_tail <= Cardinality({w \in Worker : wpc[w] = "consume"})

\* The master never sleeps on sq_empty when there is room: every connection taken
\* out of the ring wakes it, whether or not the worker goes on to serve it.
MasterNotStranded ==
  mpc = "waitEmpty" => Full

\* mg_stop frees the context, mutex and all, after the last thread's last use.
FreedLast == spc = "returned" => mpc = "done" /\ \A w \in Worker : wpc[w] = "done"

\* The ring buffer is a first-in first-out queue: what is in it, oldest first.
Contents == [i \in 1 .. sq_head - sq_tail |-> queue[(sq_tail + i - 1) % Size]]

Abstract == INSTANCE SocketQueue
              WITH hand <- so, waiting <- Contents, serving <- client, stopping <- stop_flag # 0

\* The ring, its two condition variables and the wrap implement the queue: each
\* connection is handed to one worker, in the order of accept, and none is lost
\* before mg_stop is called.
IsQueue == Abstract!Spec

\* An accepted connection is served and closed unless the server is stopped.
Served == \A s \in 1 .. MaxSockets : accepted >= s ~> s \in closed \/ stop_flag # 0

\* mongoose.h: mg_stop "blocks until all Mongoose threads are stopped", and returns.
StopReturns == spc = "stopping" ~> spc = "returned"

\* There are two ways for mg_stop never to return, and no other: a worker went to
\* sleep after the broadcast, or the master sleeps on sq_empty and every worker
\* has left without a last signal.
StopExplained ==
  spc = "stopping" ~> \/ spc = "returned"
                      \/ mpc = "waitThreads" /\ Asleep # {}
                      \/ mpc = "waitEmpty" /\ \A w \in Worker : wpc[w] = "done"
=============================================================================
