--------------------------- MODULE CrowServerProofs ---------------------------
(***************************************************************************)
(* Theorems about CrowServer, for every number of workers and every number *)
(* of connections.                                                         *)
(***************************************************************************)
EXTENDS CrowServer, FiniteSetTheorems, TLAPS

\* The workers are finitely many; when as many are ready as there are, all are.
LEMMA AllReady ==
  /\ IsFiniteSet(Ready) /\ Cardinality(Ready) \in Nat
  /\ Cardinality(Ready) = WorkerCount => Ready = Workers
<1>1. Ready \in SUBSET Workers
  BY DEF Ready
<1>2. IsFiniteSet(Workers) /\ Cardinality(Workers) = WorkerCount
  BY WorkersExist, FS_Interval DEF Workers
<1> QED
  BY <1>1, <1>2, FS_Subset, FS_CardinalityType

\* The first worker exists: pick_io_service_idx starts with it.
LEMMA FirstWorker == 1 \in Workers /\ Workers \subseteq Nat \ {0}
BY WorkersExist DEF Workers

\* The state before run satisfies the invariant.
LEMMA InitIInv == Init => IInv
<1> SUFFICES ASSUME Init PROVE IInv
  OBVIOUS
<1>1. TypeOK
  BY FirstWorker DEF Init, TypeOK
<1>2. StartInv
  BY DEF Init, StartInv
<1>3. ScanInv /\ QueueCounts /\ Balanced
  BY DEF Init, ScanInv, QueueCounts, Balanced
<1> QED
  BY <1>1, <1>2, <1>3 DEF IInv

\* Steps that leave the workers, the counters and the acceptor alone.
LEMMA QuietStep ==
  ASSUME IInv, UNCHANGED <<main, worker, initCount, queue, live, acceptor, ended>>
  PROVE  IInv'
BY DEF IInv, TypeOK, StartInv, ScanInv, QueueCounts, Balanced, Ready

\* The caller of run: it accepts only when init_count tells that all are ready.
LEMMA MainKeepsIInv ==
  ASSUME IInv, Main
  PROVE  IInv'
<1> TypeOK /\ StartInv
  BY DEF IInv
<1>1. ASSUME UNCHANGED <<worker, initCount, queue, live, acceptor, ended>>, TypeOK', StartInv'
      PROVE  IInv'
  BY <1>1 DEF IInv, ScanInv, QueueCounts, Balanced
<1>2. CASE CreateServer \/ NotifyServerStart \/ CreateService
  <2>1. /\ UNCHANGED <<worker, initCount, queue, live, acceptor, ended>>
        /\ main \in {"validate", "notify", "services"}
        /\ main' \in {"notify", "services", "workers"}
    BY <1>2 DEF CreateServer, NotifyServerStart, CreateService
  <2>2. TypeOK'
    BY <2>1 DEF TypeOK
  <2>3. StartInv'
    BY <2>1 DEF StartInv, Ready
  <2> QED
    BY <1>1, <2>1, <2>2, <2>3
<1>3. CASE SpawnWorkers
  <2>1. /\ UNCHANGED <<initCount, queue, live, acceptor, ended>>
        /\ main = "workers" /\ main' = "initialising"
        /\ worker' = [i \in Workers |-> "starting"]
    BY <1>3 DEF SpawnWorkers
  <2>2. TypeOK'
    BY <2>1 DEF TypeOK
  <2>3. Ready' = {}
    BY <2>1 DEF Ready
  <2>4. StartInv'
    BY <2>1, <2>3, FS_EmptySet DEF StartInv
  <2> QED
    BY <2>1, <2>2, <2>4 DEF IInv, ScanInv, QueueCounts, Balanced
<1>4. CASE StartAccepting
  <2>1. /\ UNCHANGED <<worker, initCount, queue, live, ended>>
        /\ main = "initialising" /\ main' = "joining" /\ initCount = WorkerCount
        /\ acceptor' = [acceptor EXCEPT !.pc = "picking"]
    BY <1>4 DEF StartAccepting, Initialised
  <2>2. TypeOK'
    BY <2>1 DEF TypeOK
  <2>3. Ready' = Workers
    BY <2>1, AllReady DEF StartInv, Ready
  <2>4. acceptor.pc = "none" /\ acceptor'.pc = "picking" /\ acceptor'.min = acceptor.min
    BY <2>1 DEF StartInv, TypeOK
  <2>5. StartInv'
    BY <2>1, <2>3, <2>4 DEF StartInv
  <2>6. \A i \in Workers : queue[i] = 0
    BY <2>4 DEF IInv, QueueCounts, StartInv, TypeOK
  <2>7. QueueCounts' /\ Balanced'
    BY <2>1, <2>4 DEF IInv, QueueCounts, Balanced
  <2>8. acceptor.min \in Workers
    BY DEF TypeOK
  <2>9. ScanInv'
    BY <2>1, <2>4, <2>6, <2>8 DEF ScanInv
  <2> QED
    BY <2>2, <2>5, <2>7, <2>9 DEF IInv
<1>5. CASE RunReturns
  <2>1. /\ UNCHANGED <<worker, initCount, queue, live, acceptor, ended>>
        /\ main = "joining" /\ main' = "returned"
    BY <1>5 DEF RunReturns
  <2>2. TypeOK' /\ StartInv'
    BY <2>1 DEF TypeOK, StartInv, Ready
  <2> QED
    BY <1>1, <2>1, <2>2
<1> QED
  BY <1>2, <1>3, <1>4, <1>5 DEF Main

\* A worker that starts, ends a connection or leaves.
LEMMA WorkerKeepsIInv ==
  ASSUME IInv, NEW i \in Workers
  PROVE  WorkerInit(i) \/ ConnectionEnds(i) \/ WorkerExits(i) => IInv'
<1> TypeOK /\ StartInv /\ QueueCounts
  BY DEF IInv
<1>1. ASSUME WorkerInit(i) PROVE IInv'
  <2>1. /\ UNCHANGED <<main, live, acceptor, ended>>
        /\ worker[i] = "starting" /\ worker' = [worker EXCEPT ![i] = "running"]
        /\ queue' = [queue EXCEPT ![i] = 0] /\ initCount' = initCount + 1
    BY <1>1 DEF WorkerInit
  <2>2. i \notin Ready /\ Ready' = Ready \cup {i}
    BY <2>1 DEF Ready, TypeOK
  <2>3. Cardinality(Ready') = Cardinality(Ready) + 1
    BY <2>2, AllReady, FS_AddElement
  <2>4. acceptor.pc = "none"
    BY <2>2 DEF StartInv
  <2>5. \A j \in Workers : queue[j] = 0 /\ live[j] = 0
    BY <2>4 DEF StartInv, QueueCounts, TypeOK
  <2>6. queue' = queue
    BY <2>1, <2>5 DEF TypeOK
  <2>7. TypeOK'
    BY <2>1 DEF TypeOK
  <2>8. StartInv'
    <3>1. main \notin {"joining", "returned"}
      BY <2>4 DEF StartInv
    <3>2. main \notin {"validate", "notify", "services", "workers"}
      BY <2>1 DEF StartInv
    <3> QED
      BY <2>1, <2>3, <2>4, <3>1, <3>2 DEF StartInv, TypeOK
  <2>9. ScanInv' /\ QueueCounts' /\ Balanced'
    BY <2>1, <2>6 DEF IInv, ScanInv, QueueCounts, Balanced
  <2> QED
    BY <2>7, <2>8, <2>9 DEF IInv
<1>2. ASSUME ConnectionEnds(i) PROVE IInv'
  <2>1. /\ UNCHANGED <<main, worker, initCount, acceptor>> /\ ended' = TRUE
        /\ live[i] > 0 /\ live' = [live EXCEPT ![i] = @ - 1]
        /\ queue' = [queue EXCEPT ![i] = @ - 1]
    BY <1>2 DEF ConnectionEnds
  <2>2. live[i] \in Nat /\ queue[i] \in Nat /\ queue[i] >= live[i]
    BY DEF TypeOK, QueueCounts
  <2>3. live[i] - 1 \in Nat /\ queue[i] - 1 \in Nat
    BY <2>1, <2>2
  <2>4. TypeOK'
    BY <2>1, <2>3 DEF TypeOK
  <2>5. QueueCounts'
    BY <2>1, <2>2 DEF QueueCounts, TypeOK
  <2>6. StartInv'
    BY <2>1, <2>2 DEF StartInv, Ready
  <2> QED
    BY <2>1, <2>4, <2>5, <2>6 DEF IInv, ScanInv, Balanced
<1>3. ASSUME WorkerExits(i) PROVE IInv'
  <2>1. /\ UNCHANGED <<main, initCount, queue, live, acceptor, ended>>
        /\ worker[i] = "running" /\ worker' = [worker EXCEPT ![i] = "left"]
    BY <1>3 DEF WorkerExits
  <2>2. Ready' = Ready /\ TypeOK'
    BY <2>1 DEF Ready, TypeOK
  <2>3. StartInv'
    BY <2>1, <2>2 DEF StartInv
  <2> QED
    BY <2>1, <2>2, <2>3 DEF IInv, ScanInv, QueueCounts, Balanced
<1> QED
  BY <1>1, <1>2, <1>3

\* The scan and the choice: what is picked has no longer queue than any other.
LEMMA PickKeepsIInv ==
  ASSUME IInv
  PROVE  Pick \/ Picked => IInv'
<1> TypeOK /\ StartInv /\ ScanInv /\ QueueCounts /\ Balanced
  BY DEF IInv
<1> DEFINE min == acceptor.min
           i == acceptor.i
<1>1. /\ min \in Workers /\ i \in Nat \ {0}
      /\ \A j \in Workers : j \in Nat /\ queue[j] \in Nat /\ j <= WorkerCount
  BY FirstWorker DEF TypeOK, Workers
<1>2. ASSUME Pick PROVE IInv'
  <2> DEFINE picked == IF queue[i] < queue[min] THEN i ELSE min
  <2>1. /\ UNCHANGED <<main, worker, initCount, queue, live, ended>>
        /\ acceptor.pc = "picking" /\ i <= WorkerCount
        /\ acceptor' = [acceptor EXCEPT !.min = picked, !.i = i + 1]
    BY <1>2 DEF Pick, Scanning
  <2>2. i \in Workers /\ picked \in Workers
    BY <1>1, <2>1, WorkersExist DEF Workers
  <2>3. acceptor'.pc = "picking" /\ acceptor'.min = picked /\ acceptor'.i = i + 1
    BY <2>1 DEF TypeOK
  <2>4. queue[picked] <= queue[i] /\ queue[picked] <= queue[min]
    BY <1>1, <2>2
  <2> HIDE DEF picked
  <2>5. TypeOK'
    <3> HIDE DEF i
    <3>1. i + 1 \in Nat \ {0}
      BY <1>1
    <3> QED
      BY <2>1, <2>2, <3>1 DEF TypeOK
  <2>6. ScanInv'
    <3> SUFFICES ASSUME ~ended, NEW j \in Workers, j < i + 1
                 PROVE  queue[picked] <= queue[j]
      BY <2>1, <2>3 DEF ScanInv
    <3>1. CASE j = i
      BY <2>4, <3>1
    <3>2. CASE j < i
      <4>1. queue[min] <= queue[j]
        BY <2>1, <3>2 DEF ScanInv
      <4> QED
        BY <1>1, <2>2, <2>4, <4>1
    <3> QED
      BY <1>1, <3>1, <3>2
  <2>7. StartInv' /\ QueueCounts' /\ Balanced'
    BY <2>1, <2>3 DEF StartInv, Ready, QueueCounts, Balanced
  <2> QED
    BY <2>5, <2>6, <2>7 DEF IInv
<1>3. ASSUME Picked PROVE IInv'
  <2>1. /\ UNCHANGED <<main, worker, initCount, live, ended>>
        /\ acceptor.pc = "picking" /\ ~Scanning(i, min)
        /\ acceptor' = [acceptor EXCEPT !.pc = "accepting"]
        /\ queue' = [queue EXCEPT ![min] = @ + 1]
    BY <1>3 DEF Picked
  <2>2. acceptor'.pc = "accepting" /\ acceptor'.min = min
    BY <2>1 DEF TypeOK
  <2>3. /\ queue'[min] = queue[min] + 1
        /\ \A j \in Workers \ {min} : queue'[j] = queue[j]
    BY <1>1, <2>1 DEF TypeOK
  <2>4. TypeOK'
    BY <1>1, <2>1 DEF TypeOK
  <2>5. ~ended => \A j \in Workers : queue[min] <= queue[j]
    <3> SUFFICES ASSUME ~ended, NEW j \in Workers PROVE queue[min] <= queue[j]
      OBVIOUS
    <3>1. CASE queue[min] = 0
      BY <1>1, <3>1
    <3>2. CASE ~(i <= WorkerCount)
      <4>1. j < i
        BY <1>1, <3>2, WorkersExist
      <4> QED
        BY <2>1, <4>1 DEF ScanInv
    <3> QED
      BY <1>1, <2>1, <3>1, <3>2 DEF Scanning
  <2>6. Balanced'
    <3> SUFFICES ASSUME ~ended, NEW j \in Workers, NEW k \in Workers
                 PROVE  queue'[j] <= queue'[k] + 1
      BY <2>1 DEF Balanced
    <3>1. queue[j] <= queue[k] + 1 /\ queue[min] <= queue[k]
      BY <2>5 DEF Balanced
    <3> QED
      BY <1>1, <2>3, <3>1
  <2>7. QueueCounts'
    BY <1>1, <2>1, <2>2, <2>3 DEF QueueCounts, TypeOK
  <2>8. StartInv' /\ ScanInv'
    BY <2>1, <2>2 DEF StartInv, Ready, ScanInv
  <2> QED
    BY <2>4, <2>6, <2>7, <2>8 DEF IInv
<1> QED
  BY <1>2, <1>3

\* The end of an accept, well or ill, and of the acceptor.
LEMMA AcceptKeepsIInv ==
  ASSUME IInv
  PROVE  Accept \/ AcceptFails \/ AcceptorExits => IInv'
<1> TypeOK /\ StartInv /\ QueueCounts /\ Balanced
  BY DEF IInv
<1> DEFINE min == acceptor.min
<1>1. /\ min \in Workers /\ 1 \in Workers
      /\ \A j \in Workers : j \in Nat \ {0} /\ queue[j] \in Nat /\ live[j] \in Nat
  BY FirstWorker DEF TypeOK
<1>2. acceptor.pc = "accepting" => queue[min] = live[min] + 1
  BY <1>1 DEF QueueCounts
<1>3. ASSUME Accept PROVE IInv'
  <2>1. /\ UNCHANGED <<main, worker, initCount, queue, ended>>
        /\ acceptor.pc = "accepting" /\ acceptor' = [pc |-> "picking", min |-> 1, i |-> 2]
        /\ live' = [live EXCEPT ![min] = @ + 1]
    BY <1>3 DEF Accept
  <2>2. TypeOK'
    BY <1>1, <2>1 DEF TypeOK
  <2>3. QueueCounts'
    BY <1>1, <1>2, <2>1 DEF QueueCounts, TypeOK
  <2>4. StartInv' /\ Balanced'
    BY <2>1 DEF StartInv, Ready, Balanced
  <2>5. ScanInv'
    <3> SUFFICES ASSUME NEW j \in Workers, j < 2 PROVE queue[1] <= queue[j]
      BY <2>1 DEF ScanInv
    <3> QED
      BY <1>1
  <2> QED
    BY <2>2, <2>3, <2>4, <2>5 DEF IInv
<1>4. ASSUME AcceptFails PROVE IInv'
  <2>1. /\ UNCHANGED <<main, worker, initCount, live>> /\ ended' = TRUE
        /\ acceptor.pc = "accepting" /\ acceptor' = [pc |-> "picking", min |-> 1, i |-> 2]
        /\ queue' = [queue EXCEPT ![min] = @ - 1]
    BY <1>4 DEF AcceptFails
  <2>2. queue[min] - 1 \in Nat
    BY <1>1, <1>2, <2>1
  <2>3. TypeOK'
    BY <1>1, <2>1, <2>2 DEF TypeOK
  <2>4. QueueCounts'
    BY <1>1, <1>2, <2>1 DEF QueueCounts, TypeOK
  <2>5. StartInv' /\ Balanced' /\ ScanInv'
    BY <2>1 DEF StartInv, Ready, Balanced, ScanInv
  <2> QED
    BY <2>3, <2>4, <2>5 DEF IInv
<1>5. ASSUME AcceptorExits PROVE IInv'
  <2>1. /\ UNCHANGED <<main, worker, initCount, queue, live, ended>>
        /\ acceptor.pc = "accepting" /\ acceptor' = [acceptor EXCEPT !.pc = "left"]
    BY <1>5 DEF AcceptorExits
  <2>2. acceptor'.pc = "left" /\ acceptor'.min = acceptor.min /\ TypeOK'
    BY <2>1 DEF TypeOK
  <2>3. StartInv' /\ Balanced' /\ ScanInv' /\ QueueCounts'
    BY <2>1, <2>2 DEF StartInv, Ready, Balanced, ScanInv, QueueCounts
  <2> QED
    BY <2>2, <2>3 DEF IInv
<1> QED
  BY <1>3, <1>4, <1>5

\* Every step of every thread keeps the invariant.
LEMMA NextIInv == IInv /\ [Next]_vars => IInv'
<1>1. ASSUME IInv, UNCHANGED vars PROVE IInv'
  BY <1>1, QuietStep DEF vars
<1>2. ASSUME IInv, WaitForServerStart \/ SpuriousWakeup \/ Signal \/ Stop PROVE IInv'
  BY <1>2, QuietStep DEF WaitForServerStart, SpuriousWakeup, Signal, Stop, StopAcceptor, StopPool
<1>3. ASSUME IInv, Acceptor \/ Accept \/ AcceptFails PROVE IInv'
  BY <1>3, PickKeepsIInv, AcceptKeepsIInv DEF Acceptor
<1> QED
  BY <1>1, <1>2, <1>3, MainKeepsIInv, WorkerKeepsIInv DEF Next

\* The inductive invariant of the start of the workers and of their counters.
THEOREM Invariance == Spec => []IInv
<1> QED
  BY InitIInv, NextIInv, PTL DEF Spec

\* task_queue_length_pool_ counts the connections of each worker and, while none
\* has ended, pick_io_service_idx spreads them evenly over the workers.
THEOREM EvenLoad == Spec => []LoadSpread
<1>1. IInv => LoadSpread
  BY DEF IInv, LoadSpread
<1> QED
  BY <1>1, Invariance, PTL

\* A connection is given only to a worker that has counted itself in init_count.
THEOREM OnlyReadyWorkers == Spec => []WorkersReady
<1>1. ASSUME IInv PROVE WorkersReady
  <2>1. TypeOK /\ StartInv /\ QueueCounts
    BY <1>1 DEF IInv
  <2>2. CASE acceptor.pc = "none"
    BY <2>1, <2>2 DEF StartInv, QueueCounts, TypeOK, WorkersReady
  <2>3. CASE acceptor.pc # "none"
    BY <2>1, <2>3 DEF StartInv, Ready, WorkersReady
  <2> QED
    BY <2>2, <2>3
<1> QED
  BY <1>1, Invariance, PTL
=============================================================================
