------------------------- MODULE WorkerPoolProofs -------------------------
(***************************************************************************)
(* Proofs about WorkerPool, for any number of workers, any ring size and   *)
(* any number of connections: the ring's indices stay in range, the ring   *)
(* is a first-in first-out queue, and mg_stop frees the context last.      *)
(***************************************************************************)
EXTENDS WorkerPool, FiniteSetTheorems, TLAPS

\* num_threads counts the threads that have not ended.
Running == {w \in Worker : wpc[w] # "done"}
Counted == num_threads = Cardinality(Running)

\* The end comes in order: threads, master, mg_stop.
Ending == /\ mpc \in {"signal", "done"} => Running = {}
          /\ stop_flag = 2 => mpc = "done"
          /\ spc = "returned" => stop_flag = 2
          /\ spc = "run" => stop_flag = 0
          /\ mpc \in {"wake", "join", "waitThreads", "signal", "done"} => stop_flag # 0

\* The master holds a connection exactly between accept and produce_socket's end.
InHand == so # None <=> mpc \in {"produce", "waitEmpty"}

\* A worker's connection, and why a worker that took none does not serve.
Held == \A w \in Worker :
          /\ wpc[w] \in {"consume", "doze", "wait"} => client[w] = None
          /\ wpc[w] = "serve" => client[w] # None
          /\ wpc[w] = "taken" /\ client[w] = None => stop_flag # 0

\* The slots between tail and head hold connections.
Filled == Contents \in Seq(Nat)

IInv == TypeOK /\ Counted /\ Ending /\ InHand /\ Held /\ Filled

-----------------------------------------------------------------------------
\* The ring's indices never reach twice its size, where % is a subtraction.
LEMMA RingMod ==
  ASSUME NEW i \in 0 .. 2 * Size - 1
  PROVE  /\ i % Size = IF i < Size THEN i ELSE i - Size
         /\ i % Size \in Slot
<1>1. Size \in Nat /\ Size > 0
  BY SizeAssumption
<1>2. CASE i < Size
  BY <1>1, <1>2, SMTT(30) DEF Slot
<1>3. CASE i >= Size
  BY <1>1, <1>3, SMTT(30) DEF Slot
<1> QED
  BY <1>1, <1>2, <1>3

\* The initial state satisfies the invariant.
LEMMA InitInv ==
  ASSUME Init
  PROVE  IInv
<1> USE DEF Init
<1>1. Running = Worker
  BY DEF Running
<1>2. Counted
  BY <1>1 DEF Counted
<1>3. Cardinality(Worker) \in Nat
  BY WorkerAssumption, FS_CardinalityType
<1>4. TypeOK
  BY <1>3, SizeAssumption DEF TypeOK, MPC, WPC
<1>5. Ending /\ InHand /\ Held
  BY DEF Ending, InHand, Held
<1>6. Filled
  <2>1. Contents = [i \in 1 .. 0 |-> queue[(sq_tail + i - 1) % Size]]
    BY DEF Contents
  <2> QED
    BY <2>1 DEF Filled
<1> QED
  BY <1>2, <1>4, <1>5, <1>6 DEF IInv

\* A step ends at most one thread, and counts it.
LEMMA CountedStep ==
  ASSUME TypeOK, Counted, [Next]_vars
  PROVE  Counted' /\ num_threads' \in Nat
<1> USE DEF TypeOK
<1>1. IsFiniteSet(Running) /\ IsFiniteSet(Running')
  BY WorkerAssumption, FS_Subset DEF Running
<1>2. SUFFICES Counted'
  BY <1>1, FS_CardinalityType DEF Counted
<1>3. ASSUME NEW w \in Worker, Exit(w)
      PROVE  Counted'
  <2>1. w \in Running /\ Running' = Running \ {w}
    BY <1>3 DEF Exit, Running
  <2>2. num_threads' = num_threads - 1
    BY <1>3 DEF Exit
  <2> QED
    BY <1>1, <2>1, <2>2, FS_RemoveElement DEF Counted
<1>4. ASSUME Running' = Running, num_threads' = num_threads
      PROVE  Counted'
  BY <1>4 DEF Counted
<1>5. CASE UNCHANGED vars
  BY <1>4, <1>5 DEF vars, Running
<1>6. ASSUME SignalFull \/ UNCHANGED wpc
      PROVE  Running' = Running
  BY <1>6 DEF SignalFull, Asleep, Running
<1>7. CASE Accept \/ ProduceWait \/ Put \/ PutNot \/ LeavePoll \/ Join \/ MasterDone
           \/ Stop \/ FreeContext
  BY <1>4, <1>6, <1>7
     DEF Accept, ProduceWait, Put, PutNot, LeavePoll, Join, MasterDone, Stop, FreeContext
<1>8. CASE WakeWorkers
  BY <1>4, <1>8 DEF WakeWorkers, Running
<1>9. ASSUME NEW w \in Worker,
             Doze(w) \/ Sleep(w) \/ Take(w) \/ TakeNone(w) \/ Return(w) \/ Serve(w) \/ Spurious(w)
      PROVE  Counted'
  <2>1. \E l \in WPC \ {"done"} : wpc[w] # "done" /\ wpc' = [wpc EXCEPT ![w] = l]
    BY <1>9 DEF Doze, Sleep, Take, TakeNone, Return, Serve, Spurious, WPC
  <2>2. Running' = Running
    BY <2>1 DEF Running
  <2>3. num_threads' = num_threads
    BY <1>9 DEF Doze, Sleep, Take, TakeNone, Return, Serve, Spurious
  <2> QED
    BY <1>4, <2>2, <2>3
<1> QED
  BY <1>3, <1>5, <1>7, <1>8, <1>9 DEF Next, Master, Work

\* Every step keeps the types and the ring's indices in range.
LEMMA TypeStep ==
  ASSUME TypeOK, Counted, Held, [Next]_vars
  PROVE  TypeOK'
<1> USE DEF TypeOK
<1>1. num_threads' \in Nat
  BY CountedStep
<1>2. Size \in Nat /\ Size > 0
  BY SizeAssumption
<1>3. ASSUME SignalFull
      PROVE  wpc' \in [Worker -> WPC]
  BY <1>3 DEF SignalFull, Asleep, WPC
<1>4. ASSUME SignalEmpty \/ SignalCond
      PROVE  mpc' \in MPC
  BY <1>4 DEF SignalEmpty, SignalCond, MPC
<1>5. CASE Put
  <2>1. sq_head % Size \in Slot
    BY <1>2, <1>5, RingMod DEF Put, Full
  <2>2. queue' \in [Slot -> Nat \cup {None}]
    BY <1>5, <2>1 DEF Put
  <2>3. sq_tail' \in 0 .. Size /\ sq_head' \in sq_tail' .. sq_tail' + Size
    BY <1>2, <1>5 DEF Put, Full
  <2>4. wpc' \in [Worker -> WPC]
    BY <1>3, <1>5 DEF Put
  <2>5. so' = None /\ mpc' = "poll" /\ UNCHANGED <<stop_flag, mutex, client, spc, accepted, closed, spurious>>
    BY <1>5 DEF Put
  <2> QED
    BY <1>1, <2>2, <2>3, <2>4, <2>5 DEF MPC
<1>6. ASSUME NEW w \in Worker, Take(w)
      PROVE  TypeOK'
  <2>1. sq_tail' \in 0 .. Size /\ sq_head' \in sq_tail' .. sq_tail' + Size
    BY <1>2, <1>6 DEF Take
  <2>2. sq_tail % Size \in Slot
    BY <1>2, RingMod
  <2>3. client' \in [Worker -> Nat \cup {None}] /\ wpc' \in [Worker -> WPC]
    BY <1>6, <2>2 DEF Take, WPC
  <2>4. mpc' \in MPC
    BY <1>4, <1>6 DEF Take
  <2>5. UNCHANGED <<stop_flag, queue, mutex, so>> /\ UNCHANGED <<spc, accepted, closed, spurious>>
    BY <1>6 DEF Take
  <2>6. queue' \in [Slot -> Nat \cup {None}]
    BY <2>5
  <2> QED
    BY <1>1, <2>1, <2>3, <2>4, <2>5, <2>6
<1>7. CASE Accept \/ ProduceWait \/ LeavePoll \/ Join \/ MasterDone \/ Stop \/ FreeContext
  <2>1. CASE Accept
    BY <1>1, <2>1 DEF Accept, ring, MPC
  <2>2. CASE ProduceWait \/ LeavePoll \/ Join
    BY <1>1, <2>2 DEF ProduceWait, LeavePoll, Join, ring, MPC
  <2>3. CASE MasterDone
    BY <1>1, <2>3 DEF MasterDone, ring, MPC
  <2>4. CASE Stop \/ FreeContext
    BY <1>1, <2>4 DEF Stop, FreeContext, ring
  <2> QED
    BY <1>7, <2>1, <2>2, <2>3, <2>4
<1>8. CASE PutNot
  BY <1>1, <1>3, <1>8 DEF PutNot, ring, MPC
<1>9. CASE WakeWorkers
  BY <1>1, <1>9 DEF WakeWorkers, ring, MPC, WPC
<1>10. ASSUME NEW w \in Worker, Doze(w) \/ Sleep(w) \/ Return(w) \/ Spurious(w)
       PROVE  TypeOK'
  <2>1. wpc' \in [Worker -> WPC]
    BY <1>10 DEF Doze, Sleep, Return, Spurious, WPC
  <2>2. mutex' \in Worker \cup {None} /\ spurious' \in Nat
    BY <1>10 DEF Doze, Sleep, Return, Spurious
  <2>3. UNCHANGED <<stop_flag, queue, sq_head, sq_tail, mpc, so, client, spc, accepted, closed>>
    BY <1>10 DEF Doze, Sleep, Return, Spurious, ring
  <2> QED
    BY <1>1, <2>1, <2>2, <2>3
<1>11. ASSUME NEW w \in Worker, TakeNone(w) \/ Exit(w)
       PROVE  TypeOK'
  <2>1. wpc' \in [Worker -> WPC]
    BY <1>11 DEF TakeNone, Exit, WPC
  <2> QED
    BY <1>1, <1>4, <1>11, <2>1 DEF TakeNone, Exit, ring
<1>12. ASSUME NEW w \in Worker, Serve(w)
       PROVE  TypeOK'
  BY <1>1, <1>12 DEF Serve, Held, ring, WPC
<1>13. CASE UNCHANGED vars
  BY <1>13 DEF vars, ring
<1> QED
  BY <1>5, <1>6, <1>7, <1>8, <1>9, <1>10, <1>11, <1>12, <1>13 DEF Next, Master, Work

\* Which sleeping threads a signal wakes; nobody else's place changes.
LEMMA SignalFullMoves ==
  ASSUME TypeOK, SignalFull \/ UNCHANGED wpc, NEW w \in Worker
  PROVE  wpc'[w] = wpc[w] \/ (wpc[w] = "wait" /\ wpc'[w] = "consume")
BY DEF TypeOK, SignalFull, Asleep

\* The end stays in order.
LEMMA EndingStep ==
  ASSUME TypeOK, Counted, Ending, [Next]_vars
  PROVE  Ending'
<1> USE DEF TypeOK, Ending
<1>1. Running = {} => Running' = {}
  <2>1. SUFFICES ASSUME Running = {}, NEW w \in Worker
                 PROVE  wpc'[w] = "done"
    BY <2>1 DEF Running
  <2>2. \A v \in Worker : wpc[v] = "done"
    BY <2>1 DEF Running
  <2>3. UNCHANGED wpc \/ SignalFull
          \/ wpc' = [v \in Worker |-> IF wpc[v] = "wait" THEN "consume" ELSE wpc[v]]
    BY <2>2 DEF Next, vars, Master, Accept, ProduceWait, Put, PutNot, LeavePoll, WakeWorkers, Join,
       MasterDone, Stop, FreeContext, Work, Doze, Sleep, Take, TakeNone, Return, Serve, Exit, Spurious
  <2> QED
    BY <2>2, <2>3 DEF SignalFull, Asleep
<1>2. Join => num_threads > 0 \/ Running = {}
  <2>1. IsFiniteSet(Running)
    BY WorkerAssumption, FS_Subset DEF Running
  <2> QED
    BY <2>1, FS_EmptySet DEF Counted
<1>3. CASE UNCHANGED vars
  BY <1>1, <1>3 DEF vars
<1>4. CASE Accept \/ ProduceWait \/ Put \/ PutNot \/ LeavePoll \/ WakeWorkers
  BY <1>1, <1>4 DEF Accept, ProduceWait, Put, PutNot, LeavePoll, WakeWorkers
<1>5. CASE Join
  BY <1>1, <1>2, <1>5 DEF Join
<1>6. CASE MasterDone \/ Stop \/ FreeContext
  <2>1. CASE MasterDone
    BY <1>1, <2>1 DEF MasterDone
  <2>2. CASE Stop
    BY <1>1, <2>2 DEF Stop
  <2>3. CASE FreeContext
    BY <1>1, <2>3 DEF FreeContext
  <2> QED
    BY <1>6, <2>1, <2>2, <2>3
<1>7. ASSUME NEW w \in Worker, Work(w) \/ Spurious(w)
      PROVE  Ending'
  <2>1. UNCHANGED <<stop_flag, spc>>
    BY <1>7 DEF Work, Doze, Sleep, Take, TakeNone, Return, Serve, Exit, Spurious
  <2>2. \/ mpc' = mpc
        \/ mpc = "waitEmpty" /\ mpc' = "produce"
        \/ mpc = "waitThreads" /\ mpc' = "join"
    BY <1>7 DEF Work, Doze, Sleep, Take, TakeNone, Return, Serve, Exit, Spurious, SignalEmpty, SignalCond
  <2> QED
    BY <1>1, <2>1, <2>2
<1> QED
  BY <1>3, <1>4, <1>5, <1>6, <1>7 DEF Next, Master

\* The master's hand is filled by accept and emptied by produce_socket.
LEMMA InHandStep ==
  ASSUME TypeOK, InHand, [Next]_vars
  PROVE  InHand'
<1> USE DEF TypeOK, InHand
<1>1. CASE Accept
  BY <1>1, NoneAssumption DEF Accept
<1>2. CASE ProduceWait \/ Put \/ PutNot \/ LeavePoll \/ WakeWorkers \/ Join \/ MasterDone
           \/ Stop \/ FreeContext \/ UNCHANGED vars
  BY <1>2 DEF ProduceWait, Put, PutNot, LeavePoll, WakeWorkers, Join, MasterDone, Stop, FreeContext, vars
<1>3. ASSUME NEW w \in Worker, Work(w) \/ Spurious(w)
      PROVE  InHand'
  <2>1. UNCHANGED so
    BY <1>3 DEF Work, Doze, Sleep, Take, TakeNone, Return, Serve, Exit, Spurious
  <2>2. \/ mpc' = mpc
        \/ mpc = "waitEmpty" /\ mpc' = "produce"
        \/ mpc = "waitThreads" /\ mpc' = "join"
    BY <1>3 DEF Work, Doze, Sleep, Take, TakeNone, Return, Serve, Exit, Spurious, SignalEmpty, SignalCond
  <2> QED
    BY <2>1, <2>2
<1> QED
  BY <1>1, <1>2, <1>3 DEF Next, Master

-----------------------------------------------------------------------------
\* The ring as a sequence.

\* Slots that are less than a ring's length apart are different slots.
LEMMA SlotsDiffer ==
  ASSUME TypeOK, ~Full, NEW i \in 1 .. sq_head - sq_tail
  PROVE  /\ (sq_tail + i - 1) % Size \in Slot
         /\ (sq_tail + i - 1) % Size # sq_head % Size
<1>1. /\ Size \in Nat /\ Size > 0 /\ sq_tail \in 0 .. Size /\ sq_head \in Nat
      /\ sq_head < sq_tail + Size
      /\ i \in Nat /\ i >= 1 /\ i <= sq_head - sq_tail
  BY SizeAssumption DEF TypeOK, Full
<1> DEFINE a == sq_tail + i - 1
<1>2. a \in 0 .. 2 * Size - 1 /\ sq_head \in 0 .. 2 * Size - 1 /\ a < sq_head /\ sq_head - a < Size
  BY <1>1
<1>3. a % Size = IF a < Size THEN a ELSE a - Size
  BY <1>2, RingMod
<1>4. sq_head % Size = IF sq_head < Size THEN sq_head ELSE sq_head - Size
  BY <1>2, RingMod
<1>5. a % Size \in Slot
  BY <1>2, RingMod
<1> HIDE DEF a
<1>6. a % Size # sq_head % Size
  BY <1>1, <1>2, <1>3, <1>4
<1> QED
  BY <1>5, <1>6 DEF a

\* produce_socket appends the connection.
LEMMA PutContents ==
  ASSUME TypeOK, Put
  PROVE  Contents' = Append(Contents, so)
<1>1. /\ Size \in Nat /\ sq_tail \in Nat /\ sq_head \in Nat /\ sq_tail <= sq_head
      /\ sq_head % Size \in Slot /\ queue \in [Slot -> Nat \cup {None}]
  BY SizeAssumption, RingMod DEF TypeOK, Put, Full
<1>2. /\ sq_head' = sq_head + 1 /\ sq_tail' = sq_tail
      /\ queue' = [queue EXCEPT ![sq_head % Size] = so] /\ ~Full
  BY DEF Put
<1> DEFINE k == sq_head - sq_tail
<1>3. k \in Nat /\ sq_head' - sq_tail' = k + 1
  BY <1>1, <1>2
<1>4. Contents' = [i \in 1 .. k + 1 |-> queue'[(sq_tail + i - 1) % Size]]
  BY <1>2, <1>3 DEF Contents
<1>5. Contents = [i \in 1 .. k |-> queue[(sq_tail + i - 1) % Size]]
  BY DEF Contents
<1>6. \A i \in 1 .. k : queue'[(sq_tail + i - 1) % Size] = queue[(sq_tail + i - 1) % Size]
  BY <1>1, <1>2, SlotsDiffer
<1>7. queue'[(sq_tail + (k + 1) - 1) % Size] = so
  <2>1. sq_tail + (k + 1) - 1 = sq_head
    BY <1>1
  <2> QED
    BY <1>1, <1>2, <2>1
<1> HIDE DEF k
<1>8. Append(Contents, so) = [i \in 1 .. k + 1 |-> IF i <= k THEN Contents[i] ELSE so]
  BY <1>3, <1>5
<1>9. \A i \in 1 .. k + 1 : queue'[(sq_tail + i - 1) % Size] = IF i <= k THEN Contents[i] ELSE so
  <2> SUFFICES ASSUME NEW i \in 1 .. k + 1
               PROVE  queue'[(sq_tail + i - 1) % Size] = IF i <= k THEN Contents[i] ELSE so
    OBVIOUS
  <2>1. CASE i <= k
    <3>1. i \in 1 .. k
      BY <1>3, <2>1
    <3> QED
      BY <1>5, <1>6, <2>1, <3>1
  <2>2. CASE ~(i <= k)
    <3>1. i = k + 1
      BY <1>3, <2>2
    <3> QED
      BY <1>7, <2>2, <3>1
  <2> QED
    BY <2>1, <2>2
<1> QED
  BY <1>4, <1>8, <1>9

\* consume_socket removes the first, whether or not the indices are wrapped.
LEMMA TakeContents ==
  ASSUME TypeOK, NEW w \in Worker, Take(w)
  PROVE  /\ Contents # <<>> /\ client'[w] = Head(Contents)
         /\ Contents' = Tail(Contents)
<1> DEFINE k == sq_head - sq_tail
           back == IF sq_tail + 1 > Size THEN Size ELSE 0
<1>1. /\ Size \in Nat /\ Size > 0 /\ sq_tail \in 0 .. Size /\ sq_head \in Nat
      /\ k \in 1 .. Size /\ sq_head = sq_tail + k
  BY SizeAssumption DEF TypeOK, Take
<1>2. /\ sq_tail' = sq_tail + 1 - back /\ sq_head' = sq_head - back /\ queue' = queue
      /\ client' = [client EXCEPT ![w] = queue[sq_tail % Size]]
  BY DEF Take
<1>3. sq_head' - sq_tail' = k - 1
  BY <1>1, <1>2
<1>4. Contents = [i \in 1 .. k |-> queue[(sq_tail + i - 1) % Size]]
  BY DEF Contents
<1>5. Contents' = [i \in 1 .. k - 1 |-> queue[(sq_tail' + i - 1) % Size]]
  BY <1>2, <1>3 DEF Contents
<1>6. \A i \in 1 .. k - 1 : (sq_tail' + i - 1) % Size = (sq_tail + (i + 1) - 1) % Size
  <2> SUFFICES ASSUME NEW i \in 1 .. k - 1
               PROVE  (sq_tail' + i - 1) % Size = (sq_tail + (i + 1) - 1) % Size
    OBVIOUS
  <2> DEFINE a == sq_tail' + i - 1
             b == sq_tail + (i + 1) - 1
  <2>1. /\ a \in 0 .. 2 * Size - 1 /\ b \in 0 .. 2 * Size - 1
        /\ a = b \/ (a = b - Size /\ b >= Size)
    BY <1>1, <1>2
  <2>2. /\ a % Size = IF a < Size THEN a ELSE a - Size
        /\ b % Size = IF b < Size THEN b ELSE b - Size
    BY <2>1, RingMod
  <2> HIDE DEF a, b
  <2>3. a % Size = b % Size
    BY <1>1, <2>1, <2>2
  <2> QED
    BY <2>3 DEF a, b
<1> HIDE DEF k, back
<1>7. Contents # <<>> /\ Head(Contents) = queue[(sq_tail + 1 - 1) % Size]
  <2>1. 1 \in 1 .. k /\ k \in Nat
    BY <1>1
  <2>2. Contents[1] = queue[(sq_tail + 1 - 1) % Size]
    BY <1>4, <2>1
  <2>3. DOMAIN Contents = 1 .. k
    BY <1>4
  <2> QED
    BY <2>1, <2>2, <2>3
<1>8. Tail(Contents) = [i \in 1 .. k - 1 |-> Contents[i + 1]]
  BY <1>1, <1>4
<1>9. \A i \in 1 .. k - 1 : Contents[i + 1] = queue[(sq_tail + (i + 1) - 1) % Size]
  BY <1>1, <1>4
<1>10. Contents' = Tail(Contents)
  BY <1>5, <1>6, <1>8, <1>9
<1>11. client'[w] = queue[sq_tail % Size]
  BY <1>2 DEF TypeOK
<1>12. sq_tail + 1 - 1 = sq_tail
  BY <1>1
<1> QED
  BY <1>7, <1>10, <1>11, <1>12

\* Every other step leaves the ring alone.
LEMMA SameContents ==
  ASSUME UNCHANGED ring
  PROVE  Contents' = Contents
BY DEF ring, Contents

\* Where the workers' connections come from and go.
LEMMA HeldStep ==
  ASSUME TypeOK, Ending, Held, Filled, [Next]_vars
  PROVE  Held'
<1> USE DEF TypeOK, Held
<1>1. stop_flag # 0 => stop_flag' # 0
  BY DEF Next, vars, Master, Accept, ProduceWait, Put, PutNot, LeavePoll, WakeWorkers, Join, Ending,
     MasterDone, Stop, FreeContext, Work, Doze, Sleep, Take, TakeNone, Return, Serve, Exit, Spurious
<1>2. ASSUME UNCHANGED client,
             \A v \in Worker : wpc'[v] = wpc[v] \/ (wpc[v] = "wait" /\ wpc'[v] = "consume")
      PROVE  Held'
  BY <1>1, <1>2
<1>3. CASE Accept \/ ProduceWait \/ Put \/ PutNot \/ LeavePoll \/ Join \/ MasterDone
           \/ Stop \/ FreeContext \/ UNCHANGED vars
  <2>1. UNCHANGED client /\ (SignalFull \/ UNCHANGED wpc)
    BY <1>3 DEF Accept, ProduceWait, Put, PutNot, LeavePoll, Join, MasterDone, Stop, FreeContext, vars
  <2> QED
    BY <1>2, <2>1, SignalFullMoves
<1>4. CASE WakeWorkers
  BY <1>2, <1>4 DEF WakeWorkers
<1>5. ASSUME NEW w \in Worker, Doze(w) \/ Sleep(w) \/ Return(w) \/ Exit(w) \/ Spurious(w)
      PROVE  Held'
  BY <1>1, <1>5 DEF Doze, Sleep, Return, Exit, Spurious
<1>6. ASSUME NEW w \in Worker, TakeNone(w)
      PROVE  Held'
  BY <1>1, <1>6 DEF TakeNone
<1>7. ASSUME NEW w \in Worker, Serve(w)
      PROVE  Held'
  BY <1>1, <1>7 DEF Serve
<1>8. ASSUME NEW w \in Worker, Take(w)
      PROVE  Held'
  <2>1. client'[w] # None
    BY <1>8, TakeContents, NoneAssumption DEF Filled
  <2>2. client' = [client EXCEPT ![w] = client'[w]] /\ wpc' = [wpc EXCEPT ![w] = "taken"]
    BY <1>8 DEF Take
  <2> QED
    BY <1>1, <2>1, <2>2
<1> QED
  BY <1>3, <1>4, <1>5, <1>6, <1>7, <1>8 DEF Next, Master, Work

\* The ring holds connections only.
LEMMA FilledStep ==
  ASSUME TypeOK, InHand, Filled, [Next]_vars
  PROVE  Filled'
<1> USE DEF Filled
<1>1. CASE Put
  <2>1. so \in Nat
    BY <1>1 DEF TypeOK, InHand, Put
  <2> QED
    BY <1>1, <2>1, PutContents
<1>2. ASSUME NEW w \in Worker, Take(w)
      PROVE  Filled'
  BY SMTT(30), <1>2, TakeContents
<1>3. CASE UNCHANGED ring
  BY <1>3, SameContents
<1> QED
  BY <1>1, <1>2, <1>3
     DEF Next, vars, Master, Accept, ProduceWait, PutNot, LeavePoll, WakeWorkers, Join,
     MasterDone, Stop, FreeContext, Work, Doze, Sleep, TakeNone, Return, Serve, Exit, Spurious

\* The invariant, all parts together.
LEMMA Invariance == Spec => []IInv
<1>1. Init => IInv
  BY InitInv
<1>2. IInv /\ [Next]_vars => IInv'
  BY CountedStep, TypeStep, EndingStep, InHandStep, HeldStep, FilledStep DEF IInv
<1> QED
  BY <1>1, <1>2, PTL DEF Spec

\* Types, and the ring's indices where produce_socket and consume_socket expect
\* them, for any number of threads and any size of the ring.
THEOREM RingInRange == Spec => []TypeOK
<1>1. IInv => TypeOK
  BY DEF IInv
<1> QED
  BY <1>1, Invariance, PTL

\* mg_stop frees the context only when no thread uses it any more.
THEOREM FreedIsLast == Spec => []FreedLast
<1>1. IInv => FreedLast
  BY DEF IInv, Ending, Running, FreedLast
<1> QED
  BY <1>1, Invariance, PTL

\* The master sleeps on sq_empty only while the ring is full.
THEOREM MasterIsWoken == Spec => []MasterNotStranded
<1>1. Init => MasterNotStranded
  BY DEF Init, MasterNotStranded
<1>2. MasterNotStranded /\ [Next]_vars => MasterNotStranded'
  <2> SUFFICES ASSUME MasterNotStranded, [Next]_vars
               PROVE  MasterNotStranded'
    OBVIOUS
  <2>1. CASE mpc' = "waitEmpty" => mpc = "waitEmpty" /\ UNCHANGED ring
    BY <2>1 DEF MasterNotStranded, Full, ring
  <2>2. CASE ProduceWait
    BY <2>2 DEF ProduceWait, MasterNotStranded, Full, ring
  <2>3. CASE Accept \/ Put \/ PutNot \/ LeavePoll \/ WakeWorkers \/ Join \/ MasterDone
             \/ Stop \/ FreeContext \/ UNCHANGED vars
    BY <2>1, <2>3 DEF Accept, Put, PutNot, LeavePoll, WakeWorkers, Join, MasterDone, Stop, FreeContext, vars
  <2>4. ASSUME NEW w \in Worker, Work(w) \/ Spurious(w)
        PROVE  mpc' = "waitEmpty" => mpc = "waitEmpty" /\ UNCHANGED ring
    BY <2>4 DEF Work, Doze, Sleep, Take, TakeNone, Return, Serve, Exit, Spurious, SignalEmpty, SignalCond
  <2> QED
    BY <2>1, <2>2, <2>3, <2>4 DEF Next, Master
<1> QED
  BY <1>1, <1>2, PTL DEF Spec

-----------------------------------------------------------------------------
\* Workers on their way to the ring.
Coming == {w \in Worker : wpc[w] = "consume"}

\* A worker about to sleep holds the mutex, so the ring it found empty stays empty.
Dozing == \A w \in Worker : wpc[w] = "doze" => mutex = w /\ sq_head = sq_tail

\* The mutex is what makes the look at the ring and the sleep one step.
LEMMA DozingStep ==
  ASSUME TypeOK, Dozing, [Next]_vars
  PROVE  Dozing'
<1> USE DEF TypeOK, Dozing
<1>1. CASE Accept \/ ProduceWait \/ PutNot \/ LeavePoll \/ Join \/ MasterDone \/ Stop
           \/ FreeContext \/ UNCHANGED vars
  <2>1. UNCHANGED <<ring, mutex>> /\ (SignalFull \/ UNCHANGED wpc)
    BY <1>1 DEF Accept, ProduceWait, PutNot, LeavePoll, Join, MasterDone, Stop, FreeContext, vars
  <2> QED
    BY <2>1, SignalFullMoves DEF ring
<1>2. CASE Put
  <2>1. mutex = None /\ SignalFull
    BY <1>2 DEF Put
  <2>2. \A w \in Worker : wpc[w] # "doze"
    BY <2>1, NoneAssumption
  <2> QED
    BY <2>1, <2>2, SignalFullMoves
<1>3. CASE WakeWorkers
  BY <1>3 DEF WakeWorkers, ring
<1>4. ASSUME NEW w \in Worker, Doze(w)
      PROVE  Dozing'
  <2>1. \A v \in Worker : wpc[v] # "doze"
    BY <1>4, NoneAssumption DEF Doze
  <2> QED
    BY <1>4, <2>1 DEF Doze, ring
<1>5. ASSUME NEW w \in Worker, Sleep(w)
      PROVE  Dozing'
  <2>1. \A v \in Worker : wpc[v] = "doze" => v = w
    BY <1>5 DEF Sleep
  <2> QED
    BY <1>5, <2>1 DEF Sleep
<1>6. ASSUME NEW w \in Worker, Take(w)
      PROVE  Dozing'
  <2>1. \A v \in Worker : wpc[v] # "doze"
    BY <1>6, NoneAssumption DEF Take
  <2> QED
    BY <1>6, <2>1 DEF Take
<1>7. ASSUME NEW w \in Worker, TakeNone(w) \/ Return(w) \/ Serve(w) \/ Exit(w) \/ Spurious(w)
      PROVE  Dozing'
  <2>1. UNCHANGED <<ring, mutex>>
    BY <1>7 DEF TakeNone, Return, Serve, Exit, Spurious
  <2>2. \E l \in WPC \ {"doze"} : wpc' = [wpc EXCEPT ![w] = l]
    BY <1>7 DEF TakeNone, Return, Serve, Exit, Spurious, WPC
  <2> QED
    BY <2>1, <2>2 DEF ring
<1> QED
  BY <1>1, <1>2, <1>3, <1>4, <1>5, <1>6, <1>7 DEF Next, Master, Work

\* Workers that set out for the ring, and those that come back, are counted once.
LEMMA ComingFinite ==
  IsFiniteSet(Coming) /\ Cardinality(Coming) \in Nat
BY WorkerAssumption, FS_Subset, FS_CardinalityType DEF Coming

LEMMA OneMoreComes ==
  ASSUME TypeOK, NEW w \in Worker, wpc[w] # "consume", wpc' = [wpc EXCEPT ![w] = "consume"]
  PROVE  Cardinality(Coming') = Cardinality(Coming) + 1
<1>1. w \notin Coming /\ Coming' = Coming \cup {w}
  BY DEF Coming, TypeOK
<1> QED
  BY <1>1, ComingFinite, FS_AddElement

LEMMA OneLessComes ==
  ASSUME TypeOK, NEW w \in Worker, wpc[w] = "consume", NEW l, l # "consume",
         wpc' = [wpc EXCEPT ![w] = l]
  PROVE  Cardinality(Coming') = Cardinality(Coming) - 1
<1>1. w \in Coming /\ Coming' = Coming \ {w}
  BY DEF Coming, TypeOK
<1> QED
  BY <1>1, ComingFinite, FS_RemoveElement

\* A connection put in the ring wakes a sleeper; a worker that takes one out takes
\* itself off the list too.
LEMMA StrandedStep ==
  ASSUME TypeOK, Dozing, NoneStranded, [Next]_vars
  PROVE  NoneStranded'
<1> DEFINE n == sq_head - sq_tail
<1>1. n \in Int /\ Cardinality(Coming) \in Nat
  BY ComingFinite DEF TypeOK
<1>2. Asleep # {} => n <= Cardinality(Coming)
  BY DEF NoneStranded, Coming
<1>3. SUFFICES ASSUME Asleep' # {}
               PROVE  n' <= Cardinality(Coming)'
  BY DEF NoneStranded, Coming
<1>4. ASSUME UNCHANGED ring, SignalFull \/ UNCHANGED wpc
      PROVE  n' <= Cardinality(Coming)'
  <2>1. CASE UNCHANGED wpc
    BY <1>2, <1>3, <1>4, <2>1 DEF Asleep, Coming, ring
  <2>2. CASE Asleep # {} /\ SignalFull
    <3>1. PICK w \in Asleep : wpc' = [wpc EXCEPT ![w] = "consume"]
      BY <2>2 DEF SignalFull
    <3>2. Cardinality(Coming') = Cardinality(Coming) + 1
      BY <3>1, OneMoreComes DEF Asleep
    <3> QED
      BY <1>1, <1>2, <1>4, <2>2, <3>2 DEF ring
  <2> QED
    BY <1>4, <2>1, <2>2 DEF SignalFull
<1>5. CASE Put
  <2>1. Asleep # {} /\ SignalFull
    BY <1>3, <1>5 DEF Put, SignalFull, Asleep
  <2>2. PICK w \in Asleep : wpc' = [wpc EXCEPT ![w] = "consume"]
    BY <2>1 DEF SignalFull
  <2>3. Cardinality(Coming') = Cardinality(Coming) + 1
    BY <2>2, OneMoreComes DEF Asleep
  <2>4. n' = n + 1
    BY <1>5 DEF Put, TypeOK
  <2> QED
    BY <1>1, <1>2, <2>1, <2>3, <2>4
<1>6. CASE WakeWorkers
  BY <1>3, <1>6 DEF WakeWorkers, Asleep, TypeOK
<1>7. CASE Accept \/ ProduceWait \/ PutNot \/ LeavePoll \/ Join \/ MasterDone \/ Stop
           \/ FreeContext \/ UNCHANGED vars
  BY <1>4, <1>7 DEF Accept, ProduceWait, PutNot, LeavePoll, Join, MasterDone, Stop, FreeContext, vars
<1>8. ASSUME NEW w \in Worker, Doze(w) \/ Sleep(w) \/ TakeNone(w)
      PROVE  n' <= Cardinality(Coming)'
  <2>1. UNCHANGED ring /\ sq_head = sq_tail
    BY <1>8 DEF Doze, Sleep, TakeNone, Dozing
  <2>2. n' = 0
    BY <2>1 DEF ring, TypeOK
  <2>3. \E l \in WPC : wpc' = [wpc EXCEPT ![w] = l]
    BY <1>8 DEF Doze, Sleep, TakeNone, WPC
  <2>4. IsFiniteSet(Coming')
    BY WorkerAssumption, FS_Subset DEF Coming
  <2>5. Cardinality(Coming') \in Nat
    BY <2>4, FS_CardinalityType
  <2> QED
    BY <2>2, <2>5
<1>9. ASSUME NEW w \in Worker, Take(w)
      PROVE  n' <= Cardinality(Coming)'
  <2>1. n' = n - 1
    BY <1>9, SizeAssumption DEF Take, TypeOK
  <2>2. Asleep # {}
    BY <1>3, <1>9 DEF Take, Asleep, TypeOK
  <2>3. Cardinality(Coming') = Cardinality(Coming) - 1
    BY <1>9, OneLessComes DEF Take
  <2> QED
    BY <1>1, <1>2, <2>1, <2>2, <2>3
<1>10. ASSUME NEW w \in Worker, Return(w) \/ Exit(w)
       PROVE  n' <= Cardinality(Coming)'
  <2>1. Asleep' = Asleep /\ Coming' = Coming /\ UNCHANGED ring
    BY <1>10 DEF Return, Exit, Asleep, Coming, TypeOK
  <2> QED
    BY <1>2, <1>3, <2>1 DEF ring
<1>11. ASSUME NEW w \in Worker, Serve(w) \/ Spurious(w)
       PROVE  n' <= Cardinality(Coming)'
  <2>1. wpc[w] # "consume" /\ wpc' = [wpc EXCEPT ![w] = "consume"] /\ UNCHANGED ring
    BY <1>11 DEF Serve, Spurious
  <2>2. Asleep # {}
    BY <1>3, <2>1 DEF Asleep, TypeOK
  <2>3. Cardinality(Coming') = Cardinality(Coming) + 1
    BY <2>1, OneMoreComes
  <2> QED
    BY <1>1, <1>2, <2>1, <2>2, <2>3 DEF ring
<1> QED
  BY <1>4, <1>5, <1>6, <1>7, <1>8, <1>9, <1>10, <1>11 DEF Next, Master, Work

\* No wake-up is lost while the server runs, however many workers sleep and however
\* often one wakes unasked.
THEOREM NobodyStranded == Spec => []NoneStranded
<1>1. Init => Dozing /\ NoneStranded
  BY DEF Init, Dozing, NoneStranded, Asleep
<1>2. TypeOK /\ Dozing /\ NoneStranded /\ [Next]_vars => (Dozing /\ NoneStranded)'
  BY DozingStep, StrandedStep
<1> QED
  BY <1>1, <1>2, RingInRange, PTL DEF Spec

-----------------------------------------------------------------------------
\* The pool starts as an empty queue.
LEMMA AbstractInit ==
  ASSUME Init
  PROVE  Abstract!Init
<1>1. Contents = <<>>
  <2>1. Contents = [i \in 1 .. 0 |-> queue[(sq_tail + i - 1) % Size]]
    BY DEF Init, Contents
  <2> QED
    BY <2>1
<1> QED
  BY <1>1 DEF Init, Abstract!Init

\* Each step of the pool is a step of the queue or leaves the queue as it was.
LEMMA AbstractStep ==
  ASSUME IInv, [Next]_vars
  PROVE  [Abstract!Next]_(Abstract!vars)
<1> USE DEF IInv, TypeOK
<1> DEFINE Same == UNCHANGED <<accepted, so, Contents, client, closed, stop_flag # 0>>
<1>1. Same => UNCHANGED Abstract!vars
  BY DEF Abstract!vars
<1>2. CASE Accept
  BY <1>2, SameContents DEF Accept, InHand, Abstract!Next, Abstract!Accept
<1>3. CASE Put
  <2>1. Len(Contents) < Size
    BY <1>3, SizeAssumption DEF Put, Full, Contents
  <2>2. Abstract!Enqueue
    BY <1>3, <2>1, PutContents DEF Put, InHand, Abstract!Enqueue
  <2> QED
    BY <2>2 DEF Abstract!Next
<1>4. CASE PutNot
  BY <1>4, SameContents DEF PutNot, InHand, Abstract!Next, Abstract!Drop
<1>5. ASSUME NEW w \in Worker, Take(w)
      PROVE  Abstract!Next
  <2>1. client[w] = None
    BY <1>5 DEF Take, Held
  <2>2. client' = [client EXCEPT ![w] = Head(Contents)]
    BY <1>5, TakeContents DEF Take
  <2>3. UNCHANGED <<accepted, so, closed, stop_flag>>
    BY <1>5 DEF Take
  <2>4. Abstract!Dequeue(w)
    BY <1>5, <2>1, <2>2, <2>3, TakeContents DEF Abstract!Dequeue
  <2> QED
    BY <2>4 DEF Abstract!Next
<1>6. ASSUME NEW w \in Worker, Serve(w)
      PROVE  Abstract!Next
  <2>1. Abstract!Close(w)
    BY <1>6, SameContents DEF Serve, Held, Abstract!Close
  <2> QED
    BY <2>1 DEF Abstract!Next
<1>7. CASE Stop
  BY <1>7, SameContents DEF Stop, Ending, Abstract!Next, Abstract!Stop
<1>8. CASE MasterDone
  BY <1>1, <1>8, SameContents DEF MasterDone, Ending
<1>9. CASE ProduceWait \/ LeavePoll \/ WakeWorkers \/ Join \/ FreeContext \/ UNCHANGED vars
  BY <1>1, <1>9, SameContents DEF ProduceWait, LeavePoll, WakeWorkers, Join, FreeContext, vars
<1>10. ASSUME NEW w \in Worker,
              Doze(w) \/ Sleep(w) \/ TakeNone(w) \/ Return(w) \/ Exit(w) \/ Spurious(w)
       PROVE  Same
  BY <1>10, SameContents DEF Doze, Sleep, TakeNone, Return, Exit, Spurious
<1> QED
  BY <1>1, <1>2, <1>3, <1>4, <1>5, <1>6, <1>7, <1>8, <1>9, <1>10 DEF Next, Master, Work

\* The pool implements the queue: what accept returns is handed over once, in
\* order, and lost only when the server stops.
THEOREM PoolIsQueue == Spec => IsQueue
<1>1. Init => Abstract!Init
  BY AbstractInit
<1>2. IInv /\ [Next]_vars => [Abstract!Next]_(Abstract!vars)
  BY AbstractStep
<1> QED
  BY <1>1, <1>2, Invariance, PTL DEF Spec, IsQueue, Abstract!Spec
=============================================================================
