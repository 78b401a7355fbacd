------------------------ MODULE CrowConnectionProofs ------------------------
(***************************************************************************)
(* Theorems about CrowConnection, for any number of connections: with      *)
(* peers that do not pipeline, no operation and no task of the timer       *)
(* refers to a deleted connection, and every peer gets its own replies.    *)
(***************************************************************************)
EXTENDS CrowConnection, FiniteSetTheorems, SequenceTheorems, TLAPS

-----------------------------------------------------------------------------
(* The queue of completed operations as a set.                             *)

\* A sequence of at most one element that is not empty.
LEMMA OneElement ==
  ASSUME NEW S, NEW s \in Seq(S), Len(s) <= 1, s # <<>>
  PROVE  Len(s) = 1 /\ DOMAIN s = 1 .. 1 /\ s[1] \in S /\ Head(s) = s[1] /\ Tail(s) = <<>>
<1>1. Len(s) \in Nat /\ Len(s) # 0
  BY EmptySeq
<1>2. Len(s) = 1
  BY <1>1
<1>3. Tail(s) \in Seq(S) /\ Len(Tail(s)) = 0
  BY <1>2
<1>4. Tail(s) = <<>>
  BY <1>3, EmptySeq
<1> QED
  BY <1>2, <1>4

\* The callback that runs first leaves the queue.
LEMMA TailOfQueue ==
  ASSUME NEW q \in Seq(Operations), q # <<>>, Once(q), InOrder(q)
  PROVE  /\ Tail(q) \in Seq(Operations)
         /\ Once(Tail(q))
         /\ InOrder(Tail(q))
         /\ Range(Tail(q)) = Range(q) \ {Head(q)}
         /\ Head(q) \in Range(q)
         /\ \A o \in Range(q) : o.conn = Head(q).conn /\ o.op = Head(q).op => o = Head(q)
<1>1. /\ Tail(q) \in Seq(Operations)
      /\ DOMAIN Tail(q) = 1 .. Len(q) - 1
      /\ DOMAIN q = 1 .. Len(q)
      /\ Len(q) \in Nat \ {0}
      /\ \A i \in 1 .. Len(q) - 1 : Tail(q)[i] = q[i + 1]
      /\ Head(q) = q[1]
  OBVIOUS
<1>2. Once(Tail(q))
  BY <1>1 DEF Once
<1>3. InOrder(Tail(q))
  BY <1>1 DEF InOrder
<1>4. \A o \in Range(q) : o.conn = Head(q).conn /\ o.op = Head(q).op => o = Head(q)
  BY <1>1 DEF Once, Range
<1>5. ASSUME NEW o \in Range(Tail(q)) PROVE o \in Range(q) \ {Head(q)}
  <2> PICK i \in 1 .. Len(q) - 1 : o = q[i + 1]
    BY <1>1 DEF Range
  <2>1. i + 1 \in DOMAIN q /\ 1 \in DOMAIN q /\ i + 1 # 1
    BY <1>1
  <2> QED
    BY <1>1, <2>1 DEF Once, Range
<1>6. ASSUME NEW o \in Range(q), o # Head(q) PROVE o \in Range(Tail(q))
  <2> PICK i \in 1 .. Len(q) : o = q[i]
    BY <1>1 DEF Range
  <2>1. i - 1 \in 1 .. Len(q) - 1 /\ Tail(q)[i - 1] = o
    BY <1>1, <1>6
  <2> QED
    BY <1>1, <2>1 DEF Range
<1>7. Head(q) \in Range(q)
  BY <1>1 DEF Range
<1>8. Range(Tail(q)) = Range(q) \ {Head(q)}
  BY <1>5, <1>6
<1> QED
  BY <1>1, <1>2, <1>3, <1>4, <1>7, <1>8

\* An operation completes.
LEMMA AppendToQueue ==
  ASSUME NEW q \in Seq(Operations), Once(q), InOrder(q), NEW o \in Operations,
         \A p \in Range(q) : p.conn = o.conn => p.op # o.op,
         o.op = "write" => \A p \in Range(q) : p.conn = o.conn => ~HasInput(p)
  PROVE  /\ Append(q, o) \in Seq(Operations)
         /\ Once(Append(q, o))
         /\ InOrder(Append(q, o))
         /\ Range(Append(q, o)) = Range(q) \cup {o}
<1> DEFINE r == Append(q, o)
<1>1. /\ r \in Seq(Operations)
      /\ Len(q) \in Nat
      /\ DOMAIN q = 1 .. Len(q)
      /\ DOMAIN r = 1 .. Len(q) + 1
      /\ \A i \in 1 .. Len(q) : r[i] = q[i]
      /\ r[Len(q) + 1] = o
  OBVIOUS
<1> HIDE DEF r
<1>2. \A i \in DOMAIN q : q[i] \in Range(q)
  BY DEF Range
<1>3. Once(r)
  BY <1>1, <1>2 DEF Once
<1>4. InOrder(r)
  BY <1>1, <1>2 DEF InOrder, HasInput
<1>5. Range(r) = Range(q) \cup {o}
  BY <1>1 DEF Range
<1> QED
  BY <1>1, <1>3, <1>4, <1>5 DEF r

\* The operations that closing the socket of c aborts.
AbortedRead(c) == [conn |-> c, op |-> "read", chunk |-> None]
AbortedWrite(c) == [conn |-> c, op |-> "write", error |-> TRUE]
AbortedSet(c) ==
    (IF c \in reading THEN {AbortedRead(c)} ELSE {})
    \cup (IF writes[c] # <<>> THEN {AbortedWrite(c)} ELSE {})

LEMMA AbortedToQueue ==
  ASSUME NEW c \in Conns, writes[c] \in Seq(Replies), Len(writes[c]) <= 1,
         NEW q \in Seq(Operations), Once(q), InOrder(q),
         c \in reading => \A p \in Range(q) : p.conn = c => p.op # "read",
         writes[c] # <<>> => \A p \in Range(q) : p.conn = c => p.op # "write" /\ ~HasInput(p)
  PROVE  /\ q \o Aborted(c) \in Seq(Operations)
         /\ Once(q \o Aborted(c))
         /\ InOrder(q \o Aborted(c))
         /\ Range(q \o Aborted(c)) = Range(q) \cup AbortedSet(c)
<1> DEFINE r == AbortedRead(c)
           w == AbortedWrite(c)
           ws == [i \in DOMAIN writes[c] |-> w]
<1>1. r \in Operations /\ w \in Operations
  BY DEF Operations, AbortedRead, AbortedWrite
<1>2. /\ r.conn = c /\ r.op = "read" /\ ~HasInput(r)
      /\ w.conn = c /\ w.op = "write"
  BY DEF AbortedRead, AbortedWrite, HasInput
<1>3. writes[c] = <<>> => ws = <<>>
  OBVIOUS
<1>4. ASSUME writes[c] # <<>> PROVE ws = <<w>>
  <2>1. Len(writes[c]) = 1 /\ DOMAIN writes[c] = 1 .. 1
    BY <1>4, OneElement
  <2> HIDE DEF w
  <2>2. ws \in Seq({w}) /\ Len(ws) = 1 /\ ws[1] = w
    BY <2>1, IsASeq
  <2>3. <<w>> \in Seq({w}) /\ Len(<<w>>) = 1 /\ <<w>>[1] = w
    OBVIOUS
  <2> HIDE DEF ws
  <2> QED
    BY <2>2, <2>3, SeqEqual
<1>5. Aborted(c) = (IF c \in reading THEN <<r>> ELSE <<>>) \o ws
  BY DEF Aborted, AbortedRead, AbortedWrite
<1> HIDE DEF r, w, ws
<1>6. \A s \in Seq(Operations) : /\ s \o <<>> = s
                                 /\ s \o <<r>> = Append(s, r)
                                 /\ s \o <<w>> = Append(s, w)
  BY <1>1, ConcatEmptySeq, AppendIsConcat
<1>7. /\ <<>> \o <<>> = <<>> /\ <<r>> \o <<>> = <<r>> /\ <<>> \o <<w>> = <<w>>
      /\ q \o (<<r>> \o <<w>>) = Append(Append(q, r), w)
  <2>1. /\ <<>> \in Seq(Operations) /\ <<r>> \in Seq(Operations) /\ <<w>> \in Seq(Operations)
        /\ Append(q, r) \in Seq(Operations)
    BY <1>1
  <2>2. q \o (<<r>> \o <<w>>) = (q \o <<r>>) \o <<w>>
    BY <2>1, ConcatAssociative
  <2> QED
    BY <1>6, <2>1, <2>2, ConcatEmptySeq
<1>8. AbortedSet(c) = (IF c \in reading THEN {r} ELSE {}) \cup (IF writes[c] # <<>> THEN {w} ELSE {})
  BY DEF AbortedSet, r, w
<1>9. CASE c \notin reading /\ writes[c] = <<>>
  <2>1. q \o Aborted(c) = q
    BY <1>9, <1>3, <1>5, <1>6, <1>7
  <2> QED
    BY <1>8, <1>9, <2>1
<1>10. CASE c \in reading /\ writes[c] = <<>>
  <2>1. q \o Aborted(c) = Append(q, r)
    BY <1>10, <1>3, <1>5, <1>6, <1>7
  <2>2. /\ Append(q, r) \in Seq(Operations)
        /\ Once(Append(q, r)) /\ InOrder(Append(q, r))
        /\ Range(Append(q, r)) = Range(q) \cup {r}
    BY <1>1, <1>2, <1>10, AppendToQueue
  <2> QED
    BY <1>8, <1>10, <2>1, <2>2
<1>11. CASE c \notin reading /\ writes[c] # <<>>
  <2>1. q \o Aborted(c) = Append(q, w)
    BY <1>11, <1>4, <1>5, <1>6, <1>7
  <2>2. /\ Append(q, w) \in Seq(Operations)
        /\ Once(Append(q, w)) /\ InOrder(Append(q, w))
        /\ Range(Append(q, w)) = Range(q) \cup {w}
    BY <1>1, <1>2, <1>11, AppendToQueue
  <2> QED
    BY <1>8, <1>11, <2>1, <2>2
<1>12. CASE c \in reading /\ writes[c] # <<>>
  <2> DEFINE p == Append(q, r)
  <2>1. q \o Aborted(c) = Append(p, w)
    BY <1>12, <1>4, <1>5, <1>6, <1>7
  <2>2. /\ p \in Seq(Operations)
        /\ Once(p) /\ InOrder(p)
        /\ Range(p) = Range(q) \cup {r}
    BY <1>1, <1>2, <1>12, AppendToQueue
  <2> HIDE DEF p
  <2>3. /\ Append(p, w) \in Seq(Operations)
        /\ Once(Append(p, w)) /\ InOrder(Append(p, w))
        /\ Range(Append(p, w)) = Range(p) \cup {w}
    BY <1>1, <1>2, <1>12, <2>2, AppendToQueue
  <2> QED
    BY <1>8, <1>12, <2>1, <2>2, <2>3
<1> QED
  BY <1>9, <1>10, <1>11, <1>12

-----------------------------------------------------------------------------
(* Chunks of peers that do not pipeline.                                   *)

LEMMA OneEvent ==
  ASSUME "pipeline" \notin Manners, NEW k \in Chunks, k.events # <<>>
  PROVE  /\ k.ok
         /\ Tail(k.events) = <<>>
         /\ [k EXCEPT !.events = Tail(@)] \in Chunks
         /\ [k EXCEPT !.events = Tail(@)].events = <<>>
         /\ [k EXCEPT !.events = Tail(@)].ok
<1>1. k \in [events : {<<e>> : e \in Requests \cup {"expect"}}, ok : {TRUE}]
  BY DEF Chunks, Polite
<1>2. PICK e \in Requests \cup {"expect"} : k = [events |-> <<e>>, ok |-> TRUE]
  BY <1>1
<1>3. Tail(k.events) = <<>>
  BY <1>2
<1>4. [k EXCEPT !.events = Tail(@)] \in [events : {<<>>}, ok : {TRUE}]
  BY <1>1, <1>3
<1>5. [events : {<<>>}, ok : {TRUE}] \subseteq Chunks
  BY DEF Chunks, Polite
<1> QED
  BY <1>2, <1>3, <1>4, <1>5

-----------------------------------------------------------------------------
(* What a step of one connection leaves alone.                             *)

Records == [life : {"free", "accepting", "live", "deleted"}, open : BOOLEAN,
            is_reading : BOOLEAN, is_writing : BOOLEAN, closing : BOOLEAN,
            completed : BOOLEAN, task_id : Nat, thrown : BOOLEAN]

TimerType ==
    /\ timer = [tasks |-> timer.tasks, highest |-> timer.highest]
    /\ timer.highest \in Nat
    /\ DOMAIN timer.tasks \subseteq 1 .. timer.highest
    /\ timer.tasks \in [DOMAIN timer.tasks -> [conn : Conns, left : 0 .. Timeout]]

PeerRecords == [state : {"idle", "expects", "continues", "waits", "gone", "left", "reset"},
                chunks : 0 .. MaxChunks, misled : BOOLEAN]

PeerType == peer \in [Conns -> PeerRecords]

WorkerType == worker = None \/ worker \in [conn : Conns, chunk : Chunks]

\* The members of a queue that are of c.
Of(queue, c) == {o \in Range(queue) : o.conn = c}

\* Everything of the other connections stays as it is.
OnlyOf(c) ==
    /\ \A d \in Conns \ {c} :
          /\ conn'[d] = conn[d] /\ writes'[d] = writes[d] /\ peer'[d] = peer[d]
          /\ d \in reading' <=> d \in reading
          /\ Of(ready', d) = Of(ready, d)
    /\ \/ worker' = worker
       \/ /\ worker = None \/ worker.conn = c
          /\ worker' = None \/ worker'.conn = c

LEMMA OthersKeep ==
  ASSUME NEW c \in Conns, OnlyOf(c), NEW d \in Conns, d # c, ConnInv(d)
  PROVE  ConnInv(d)'
<1>1. /\ conn'[d] = conn[d] /\ writes'[d] = writes[d] /\ peer'[d] = peer[d]
      /\ d \in reading' <=> d \in reading
  BY DEF OnlyOf
<1>2. Completed(d)' = Completed(d)
  BY DEF OnlyOf, Completed, Of
<1>3. /\ Feeding(d)' <=> Feeding(d)
      /\ Feeding(d) => worker' = worker
  BY DEF OnlyOf, Feeding
<1>4. \A op : Queued(d, op)' <=> Queued(d, op)
  BY <1>2 DEF Queued
<1>5. ReadInv(d)'
  BY <1>1, <1>2, <1>3, <1>4 DEF ConnInv, ReadInv, ReadPending, Live
<1>6. WriteInv(d)'
  BY <1>1, <1>4 DEF ConnInv, WriteInv, WritePending, Live
<1>7. RequestInv(d)'
  BY <1>1, <1>2, <1>3 DEF ConnInv, RequestInv, Asked
<1>8. ReplyInv(d)'
  BY <1>1, <1>3 DEF ConnInv, ReplyInv, Asked, Live, Fed
<1>9. ThrownInv(d)'
  BY <1>1, <1>2, <1>3, <1>4 DEF ConnInv, ThrownInv, Here
<1> QED
  BY <1>5, <1>6, <1>7, <1>8, <1>9 DEF ConnInv

\* So a step of c has to keep the types, the timer, the counter, the queue, and the invariant of c.
LEMMA StepOf ==
  ASSUME IInv, NEW c \in Conns, OnlyOf(c),
         conn' \in [Conns -> Records], TimerType', queueLength' \in 0 .. Cardinality(Conns),
         reading' \subseteq Conns, writes' \in [Conns -> Seq(Replies)], ready' \in Seq(Operations),
         WorkerType', PeerType',
         CountInv', TimerInv', Once(ready'), InOrder(ready'),
         ReadInv(c)', WriteInv(c)', RequestInv(c)', ReplyInv(c)', ThrownInv(c)'
  PROVE  IInv'
<1>1. TypeOK'
  BY DEF TypeOK, Records, TimerType, WorkerType, PeerType, PeerRecords
<1>2. QueueInv'
  BY DEF QueueInv, Once, InOrder, HasInput
<1>3. \A d \in Conns : ConnInv(d)'
  BY OthersKeep DEF ConnInv, IInv
<1> QED
  BY <1>1, <1>2, <1>3 DEF IInv

\* The invariant's parts, as they are cited below.
LEMMA Parts ==
  ASSUME IInv
  PROVE  /\ conn \in [Conns -> Records] /\ TimerType /\ queueLength \in 0 .. Cardinality(Conns)
         /\ reading \subseteq Conns /\ writes \in [Conns -> Seq(Replies)] /\ ready \in Seq(Operations)
         /\ WorkerType /\ PeerType
         /\ CountInv /\ TimerInv /\ Once(ready) /\ InOrder(ready)
         /\ \A c \in Conns : ReadInv(c) /\ WriteInv(c) /\ RequestInv(c) /\ ReplyInv(c) /\ ThrownInv(c)
BY DEF IInv, TypeOK, Records, TimerType, WorkerType, PeerType, PeerRecords, QueueInv, ConnInv

\* A task is cancelled, or none if the id is stale.
LEMMA CancelKeeps ==
  ASSUME TimerType, TimerInv, NEW id, timer' = Cancel(timer, id),
         \A d \in Conns : Live(d) => Live(d)' /\ conn'[d].task_id = conn[d].task_id
  PROVE  TimerType' /\ TimerInv'
<1> DEFINE kept == Restrict(timer.tasks, DOMAIN timer.tasks \ {id})
<1>1. /\ DOMAIN kept = DOMAIN timer.tasks \ {id}
      /\ \A i \in DOMAIN kept : kept[i] = timer.tasks[i]
      /\ kept \in [DOMAIN kept -> [conn : Conns, left : 0 .. Timeout]]
  BY DEF Restrict, TimerType
<1> HIDE DEF kept
<1>2. timer' = [tasks |-> kept, highest |-> timer.highest]
  BY DEF Cancel, TimerType, kept
<1>3. timer'.tasks = kept /\ timer'.highest = timer.highest
  BY <1>2
<1>4. TimerType'
  BY <1>1, <1>2, <1>3 DEF TimerType
<1>5. TimerInv'
  BY <1>1, <1>3 DEF TimerInv, TimerType
<1> QED
  BY <1>4, <1>5

LEMMA SameCount ==
  ASSUME CountInv, queueLength \in 0 .. Cardinality(Conns), UNCHANGED queueLength,
         \A d \in Conns : conn'[d].life = conn[d].life
  PROVE  queueLength' \in 0 .. Cardinality(Conns) /\ CountInv'
<1>1. {d \in Conns : conn'[d].life \in {"accepting", "live"}} = {d \in Conns : conn[d].life \in {"accepting", "live"}}
  OBVIOUS
<1> QED
  BY <1>1 DEF CountInv

-----------------------------------------------------------------------------
(* The steps of the worker in a feed().                                    *)

\* What is known of a connection when the parser reports an event.
LEMMA Reported ==
  ASSUME "pipeline" \notin Manners, IInv, NEW c \in Conns, NEW e, Reports(c, e)
  PROVE  /\ worker \in [conn : Conns, chunk : Chunks] /\ worker.conn = c /\ worker # None
         /\ worker.chunk.events # <<>>
         /\ Live(c) /\ conn[c].is_reading /\ c \notin reading
         /\ ~conn[c].is_writing /\ ~conn[c].completed /\ Asked(c)
         /\ writes[c] = <<>> /\ Completed(c) = {} /\ ~conn[c].thrown
<1>1. worker \in [conn : Conns, chunk : Chunks] /\ worker.conn = c /\ worker # None /\ worker.chunk.events # <<>>
  BY DEF IInv, TypeOK, Reports, Feeding
<1>2. ReadInv(c) /\ WriteInv(c) /\ RequestInv(c) /\ ThrownInv(c)
  BY Parts
<1>3. Live(c) /\ conn[c].is_reading /\ c \notin reading /\ ~Queued(c, "read") /\ ~Queued(c, "start")
  BY <1>1, <1>2 DEF ReadInv, Feeding
<1>4. ~conn[c].is_writing /\ ~conn[c].completed /\ Asked(c)
  BY <1>1, <1>2 DEF RequestInv, Feeding
<1>5. writes[c] = <<>> /\ ~Queued(c, "write")
  BY <1>2, <1>4 DEF WriteInv
<1>6. Completed(c) \subseteq Operations
  BY Parts, RangeOfSeq DEF Completed
<1>7. Completed(c) = {}
  BY <1>3, <1>5, <1>6 DEF Queued, Operations
<1>8. ~conn[c].thrown
  BY <1>1, <1>2 DEF ThrownInv, Feeding
<1> QED
  BY <1>1, <1>3, <1>4, <1>5, <1>7, <1>8

LEMMA ParsedWorker ==
  ASSUME "pipeline" \notin Manners, worker \in [conn : Conns, chunk : Chunks],
         worker.chunk.events # <<>>, Parsed
  PROVE  /\ worker' \in [conn : Conns, chunk : Chunks]
         /\ worker'.conn = worker.conn
         /\ worker'.chunk.events = <<>>
         /\ worker'.chunk.ok
<1> DEFINE k == worker.chunk
<1>1. k \in Chunks
  OBVIOUS
<1>2. worker' = [worker EXCEPT !.chunk = [k EXCEPT !.events = Tail(@)]]
  BY DEF Parsed
<1>3. /\ [k EXCEPT !.events = Tail(@)] \in Chunks
      /\ [k EXCEPT !.events = Tail(@)].events = <<>>
      /\ [k EXCEPT !.events = Tail(@)].ok
  BY <1>1, OneEvent
<1> QED
  BY <1>2, <1>3

\* An event has been handled: c is still read, nothing of it is queued, and what
\* its flags and its write have become fits together.
LEMMA EventKeeps ==
  ASSUME "pipeline" \notin Manners, IInv, NEW c \in Conns, NEW e, Reports(c, e), Parsed,
         UNCHANGED <<queueLength, reading, ready>>,
         NEW r \in Records, conn' = [conn EXCEPT ![c] = r],
         r.life = conn[c].life, r.is_reading = conn[c].is_reading, r.task_id = conn[c].task_id,
         timer' = timer \/ timer' = Cancel(timer, conn[c].task_id),
         NEW ws \in Seq(Replies), writes' = [writes EXCEPT ![c] = ws], Len(ws) <= 1,
         ws # <<>> => r.is_writing /\ ws[1].own, r.is_writing => ws # <<>> \/ r.thrown,
         r.thrown => ws = <<>> /\ ~Here(c)',
         r.completed => r.is_writing \/ (r.closing /\ r.open),
         PeerType', \A d \in Conns \ {c} : peer'[d] = peer[d],
         ~peer'[c].misled, ws # <<>> => UNCHANGED peer
  PROVE  IInv'
<1>1. /\ worker \in [conn : Conns, chunk : Chunks] /\ worker.conn = c /\ worker # None
      /\ worker.chunk.events # <<>>
      /\ Live(c) /\ conn[c].is_reading /\ c \notin reading
      /\ Asked(c) /\ Completed(c) = {}
  BY Reported
<1>2. /\ worker' \in [conn : Conns, chunk : Chunks]
      /\ worker'.conn = c
      /\ worker'.chunk.events = <<>>
      /\ worker'.chunk.ok
  BY <1>1, ParsedWorker
<1>3. worker' # None
  BY <1>2, NoneIsNothing
<1> USE Parts
<1>4. /\ conn' \in [Conns -> Records] /\ conn'[c] = r
      /\ \A d \in Conns \ {c} : conn'[d] = conn[d]
  OBVIOUS
<1>5. /\ writes' \in [Conns -> Seq(Replies)] /\ writes'[c] = ws
      /\ \A d \in Conns \ {c} : writes'[d] = writes[d]
  OBVIOUS
<1>6. OnlyOf(c)
  BY <1>1, <1>2, <1>4, <1>5 DEF OnlyOf
<1>7. \A d \in Conns : conn'[d].life = conn[d].life /\ conn'[d].task_id = conn[d].task_id
  BY <1>4
<1>8. queueLength' \in 0 .. Cardinality(Conns) /\ CountInv'
  BY <1>7, SameCount
<1>9. TimerType' /\ TimerInv'
  <2>1. CASE timer' = timer
    BY <1>7, <2>1 DEF TimerType, TimerInv, Live
  <2>2. CASE timer' = Cancel(timer, conn[c].task_id)
    BY <1>7, <2>2, CancelKeeps DEF Live
  <2> QED
    BY <2>1, <2>2
<1>10. Completed(c)' = {} /\ \A op : ~Queued(c, op)'
  BY <1>1 DEF Completed, Queued
<1>11. Live(c)' /\ r.is_reading /\ c \notin reading'
  BY <1>1, <1>4 DEF Live
<1>12. ReadInv(c)'
  BY <1>2, <1>3, <1>4, <1>10, <1>11 DEF ReadInv, ReadPending, Feeding
<1>13. WriteInv(c)'
  BY <1>4, <1>5, <1>10, <1>11 DEF WriteInv, WritePending
<1>14. RequestInv(c)'
  BY <1>2, <1>10 DEF RequestInv
<1>15. ReplyInv(c)'
  BY <1>1, <1>2, <1>3, <1>4, <1>5 DEF ReplyInv, Asked, Fed, Feeding
<1>16. ThrownInv(c)'
  BY <1>2, <1>4, <1>5, <1>10 DEF ThrownInv
<1>17. /\ reading' \subseteq Conns /\ ready' \in Seq(Operations) /\ WorkerType'
       /\ Once(ready') /\ InOrder(ready')
  BY <1>2 DEF WorkerType
<1> QED
  BY <1>4, <1>5, <1>6, <1>8, <1>9, <1>12, <1>13, <1>14, <1>15, <1>16, <1>17, StepOf

LEMMA HandleHeaderKeeps ==
  ASSUME "pipeline" \notin Manners, IInv, NEW c \in Conns, HandleHeader(c)
  PROVE  IInv'
<1> DEFINE r == [conn[c] EXCEPT !.is_writing = TRUE]
           w == [kind |-> "continue", own |-> TRUE]
<1>1. Reports(c, "expect") /\ Parsed
  BY DEF HandleHeader
<1>2. writes[c] = <<>> /\ ~conn[c].completed /\ ~conn[c].thrown
  BY <1>1, Reported
<1>3. /\ r \in Records /\ conn' = [conn EXCEPT ![c] = r]
      /\ r.life = conn[c].life /\ r.is_reading = conn[c].is_reading
      /\ r.task_id = conn[c].task_id /\ r.is_writing /\ ~r.completed /\ ~r.thrown
  BY <1>2, Parts DEF HandleHeader, Records
<1>4. /\ <<w>> \in Seq(Replies) /\ <<w>> # <<>> /\ Len(<<w>>) <= 1 /\ <<w>>[1].own
      /\ writes' = [writes EXCEPT ![c] = <<w>>]
  BY <1>2 DEF HandleHeader, Replies
<1>5. UNCHANGED <<timer, queueLength, reading, ready, peer>> /\ PeerType' /\ ~peer'[c].misled
  BY Parts DEF HandleHeader, PeerType, PeerRecords, ReplyInv
<1> HIDE DEF r, w
<1> QED
  BY <1>1, <1>3, <1>4, <1>5, EventKeeps

LEMMA HandleKeeps ==
  ASSUME "pipeline" \notin Manners, IInv, NEW c \in Conns, NEW e \in Requests, Handle(c, e)
  PROVE  IInv'
<1> DEFINE r == [conn[c] EXCEPT !.closing = (e = "close"), !.is_writing = TRUE, !.completed = (e # "no host")]
           w == [kind |-> "reply", own |-> TRUE]
<1>1. Reports(c, e) /\ Parsed
  BY DEF Handle
<1>2. writes[c] = <<>> /\ ~conn[c].completed /\ ~conn[c].thrown
  BY <1>1, Reported
<1>3. /\ r \in Records /\ conn' = [conn EXCEPT ![c] = r]
      /\ r.life = conn[c].life /\ r.is_reading = conn[c].is_reading
      /\ r.task_id = conn[c].task_id /\ r.is_writing /\ ~r.thrown
  BY <1>2, Parts DEF Handle, Records
<1>4. /\ <<w>> \in Seq(Replies) /\ <<w>> # <<>> /\ Len(<<w>>) <= 1 /\ <<w>>[1].own
      /\ writes' = [writes EXCEPT ![c] = <<w>>]
  <2>1. Clobber(<<>>) = <<>>
    BY DEF Clobber
  <2>2. Append(<<>>, w) = <<w>>
    OBVIOUS
  <2>3. [kind |-> "reply", own |-> Own(c, e)] = w
    BY <1>2 DEF Own
  <2>4. writes' = [writes EXCEPT ![c] = Append(Clobber(writes[c]), [kind |-> "reply", own |-> Own(c, e)])]
    BY DEF Handle
  <2>5. writes' = [writes EXCEPT ![c] = <<w>>]
    BY <1>2, <2>1, <2>2, <2>3, <2>4
  <2> QED
    BY <2>5 DEF Replies
<1>5. /\ UNCHANGED <<queueLength, reading, ready, peer>> /\ PeerType' /\ ~peer'[c].misled
      /\ timer' = Cancel(timer, conn[c].task_id)
  BY Parts DEF Handle, PeerType, PeerRecords, ReplyInv
<1> HIDE DEF r, w
<1> QED
  BY <1>1, <1>3, <1>4, <1>5, EventKeeps

\* Nothing of c is in flight when its socket is closed.
LEMMA NothingAborted ==
  ASSUME NEW c, NEW q \in Seq(Operations), c \notin reading, writes[c] = <<>>
  PROVE  q \o Aborted(c) = q
<1>1. [i \in DOMAIN writes[c] |-> [conn |-> c, op |-> "write", error |-> TRUE]] = <<>>
  OBVIOUS
<1>2. Aborted(c) = <<>> \o <<>>
  BY <1>1 DEF Aborted
<1>3. <<>> \in Seq(Operations) /\ <<>> \o <<>> = <<>> /\ q \o <<>> = q
  BY ConcatEmptySeq
<1> QED
  BY <1>2, <1>3

LEMMA HandleStreamKeeps ==
  ASSUME "pipeline" \notin Manners, IInv, NEW c \in Conns, NEW e \in Requests, HandleStream(c, e)
  PROVE  IInv'
<1> DEFINE last == e = "last stream"
           r == [conn[c] EXCEPT !.closing = last, !.open = ~last, !.is_writing = FALSE, !.completed = FALSE]
<1>1. Reports(c, e) /\ Parsed
  BY DEF HandleStream
<1>2. writes[c] = <<>> /\ ~conn[c].completed /\ ~conn[c].thrown /\ c \notin reading
  BY <1>1, Reported
<1>3. /\ r \in Records /\ conn' = [conn EXCEPT ![c] = r]
      /\ r.life = conn[c].life /\ r.is_reading = conn[c].is_reading
      /\ r.task_id = conn[c].task_id /\ ~r.is_writing /\ ~r.completed /\ ~r.thrown
  BY <1>2, Parts DEF HandleStream, Records
<1>4. <<>> \in Seq(Replies) /\ Len(<<>>) <= 1 /\ writes' = [writes EXCEPT ![c] = <<>>]
  <2>1. Clobber(<<>>) = <<>>
    BY DEF Clobber
  <2>2. writes' = [writes EXCEPT ![c] = IF last THEN <<>> ELSE Clobber(writes[c])]
    BY DEF HandleStream
  <2>3. writes' = [writes EXCEPT ![c] = <<>>]
    BY <1>2, <2>1, <2>2
  <2>4. <<>> \in Seq(Replies) /\ Len(<<>>) = 0
    OBVIOUS
  <2> QED
    BY <2>3, <2>4
<1>5. /\ UNCHANGED <<queueLength, reading, ready>> /\ timer' = Cancel(timer, conn[c].task_id)
  BY <1>2, Parts, NothingAborted DEF HandleStream
<1>6. PeerType' /\ ~peer'[c].misled /\ \A d \in Conns \ {c} : peer'[d] = peer[d]
  <2>1. ~peer[c].misled /\ Own(c, e)
    BY <1>2, Parts DEF ReplyInv, Own
  <2> QED
    BY <2>1, Parts DEF HandleStream, PeerType, PeerRecords
<1> HIDE DEF r
<1> QED
  BY <1>1, <1>3, <1>4, <1>5, <1>6, EventKeeps

\* The write throws: its flag stays up, and the peer is no longer there.
LEMMA HandleStreamFailsKeeps ==
  ASSUME "pipeline" \notin Manners, IInv, NEW c \in Conns, NEW e \in Requests, HandleStreamFails(c, e)
  PROVE  IInv'
<1> DEFINE r == [conn[c] EXCEPT !.closing = (e = "last stream"), !.is_writing = TRUE,
                                !.completed = TRUE, !.thrown = TRUE]
<1>1. Reports(c, e) /\ Parsed
  BY DEF HandleStreamFails
<1>2. writes[c] = <<>>
  BY <1>1, Reported
<1>3. /\ r \in Records /\ conn' = [conn EXCEPT ![c] = r]
      /\ r.life = conn[c].life /\ r.is_reading = conn[c].is_reading
      /\ r.task_id = conn[c].task_id /\ r.is_writing /\ r.completed /\ r.thrown
  BY Parts DEF HandleStreamFails, Records
<1>4. <<>> \in Seq(Replies) /\ Len(<<>>) <= 1 /\ writes' = [writes EXCEPT ![c] = <<>>]
  <2>1. Clobber(<<>>) = <<>>
    BY DEF Clobber
  <2>2. writes' = [writes EXCEPT ![c] = Clobber(writes[c])]
    BY DEF HandleStreamFails
  <2>3. <<>> \in Seq(Replies) /\ Len(<<>>) = 0
    OBVIOUS
  <2>4. writes' = [writes EXCEPT ![c] = <<>>]
    BY <1>2, <2>1, <2>2
  <2> QED
    BY <2>3, <2>4
<1>5. /\ UNCHANGED <<queueLength, reading, ready>> /\ timer' = Cancel(timer, conn[c].task_id)
  BY DEF HandleStreamFails
<1>6. /\ PeerType' /\ ~peer'[c].misled /\ ~Here(c)'
      /\ \A d \in Conns \ {c} : peer'[d] = peer[d]
  <2>1. (peer' = peer /\ ~Here(c)) \/ peer' = [peer EXCEPT ![c].state = "reset"]
    BY DEF HandleStreamFails
  <2>2. CASE peer' = peer /\ ~Here(c)
    BY <2>2, Parts DEF PeerType, ReplyInv, Here
  <2>3. CASE peer' = [peer EXCEPT ![c].state = "reset"]
    BY <2>3, Parts DEF PeerType, PeerRecords, ReplyInv, Here
  <2> QED
    BY <2>1, <2>2, <2>3
<1> HIDE DEF r
<1> QED
  BY <1>1, <1>3, <1>4, <1>5, <1>6, EventKeeps

LEMMA HandleUpgradeKeeps ==
  ASSUME "pipeline" \notin Manners, IInv, NEW c \in Conns, HandleUpgrade(c)
  PROVE  IInv'
<1> DEFINE r == [conn[c] EXCEPT !.closing = TRUE, !.completed = TRUE]
<1>1. Reports(c, "upgrade") /\ Parsed
  BY DEF HandleUpgrade
<1>2. writes[c] = <<>> /\ ~conn[c].is_writing /\ ~conn[c].thrown
  BY <1>1, Reported
<1>3. /\ r \in Records /\ conn' = [conn EXCEPT ![c] = r]
      /\ r.life = conn[c].life /\ r.is_reading = conn[c].is_reading
      /\ r.task_id = conn[c].task_id /\ ~r.is_writing /\ r.closing /\ r.open /\ ~r.thrown
  BY <1>2, Parts DEF HandleUpgrade, Records, Connected
<1>4. <<>> \in Seq(Replies) /\ Len(<<>>) <= 1 /\ writes' = [writes EXCEPT ![c] = <<>>]
  BY <1>2, Parts DEF HandleUpgrade
<1>5. /\ UNCHANGED <<queueLength, reading, ready, peer>> /\ PeerType' /\ ~peer'[c].misled
      /\ timer' = Cancel(timer, conn[c].task_id)
  BY Parts DEF HandleUpgrade, PeerType, PeerRecords, ReplyInv
<1> HIDE DEF r
<1> QED
  BY <1>1, <1>3, <1>4, <1>5, EventKeeps

\* The connection is left as it was, with the flag of the read up.
LEMMA HandleThrowsKeeps ==
  ASSUME "pipeline" \notin Manners, IInv, NEW c \in Conns, HandleThrows(c)
  PROVE  IInv'
<1> DEFINE r == [conn[c] EXCEPT !.thrown = TRUE]
<1> PICK e \in Requests : Reports(c, e)
  BY DEF HandleThrows
<1>1. /\ worker # None /\ worker.conn = c
      /\ Live(c) /\ conn[c].is_reading /\ c \notin reading
      /\ ~conn[c].is_writing /\ ~conn[c].completed
      /\ writes[c] = <<>> /\ Completed(c) = {}
  BY Reported
<1>2. /\ UNCHANGED <<queueLength, reading, writes, ready, peer>> /\ conn' = [conn EXCEPT ![c] = r]
      /\ worker' = None /\ timer' = Cancel(timer, conn[c].task_id)
  BY DEF HandleThrows
<1> USE Parts
<1>3. /\ r \in Records /\ r.life = "live" /\ r.task_id = conn[c].task_id
      /\ r.is_reading /\ ~r.is_writing /\ ~r.completed /\ r.thrown
  BY <1>1 DEF Records, Live
<1> HIDE DEF r
<1>4. /\ conn' \in [Conns -> Records] /\ conn'[c] = r /\ \A d \in Conns \ {c} : conn'[d] = conn[d]
  BY <1>2, <1>3
<1>5. \A d \in Conns : conn'[d].life = conn[d].life /\ conn'[d].task_id = conn[d].task_id
  BY <1>1, <1>3, <1>4 DEF Live
<1>6. OnlyOf(c)
  BY <1>1, <1>2, <1>4 DEF OnlyOf
<1>7. TimerType' /\ TimerInv'
  BY <1>2, <1>5, CancelKeeps DEF Live
<1>8. queueLength' \in 0 .. Cardinality(Conns) /\ CountInv'
  BY <1>2, <1>5, SameCount
<1>9. Completed(c)' = {} /\ (\A op : ~Queued(c, op)') /\ ~Feeding(c)' /\ c \notin reading'
  BY <1>1, <1>2 DEF Completed, Queued, Feeding
<1>10. ReadInv(c)'
  BY <1>3, <1>4, <1>9 DEF ReadInv, Live
<1>11. WriteInv(c)'
  BY <1>1, <1>2, <1>3, <1>4, <1>9 DEF WriteInv
<1>12. RequestInv(c)'
  BY <1>9 DEF RequestInv
<1>13. ReplyInv(c)'
  BY <1>1, <1>2, <1>3, <1>4 DEF ReplyInv
<1>14. ThrownInv(c)'
  BY <1>1, <1>2, <1>9 DEF ThrownInv
<1>15. /\ reading' \subseteq Conns /\ writes' \in [Conns -> Seq(Replies)]
       /\ ready' \in Seq(Operations) /\ WorkerType' /\ PeerType' /\ Once(ready') /\ InOrder(ready')
  BY <1>2 DEF WorkerType, PeerType
<1> QED
  BY <1>4, <1>6, <1>7, <1>8, <1>10, <1>11, <1>12, <1>13, <1>14, <1>15, StepOf

-----------------------------------------------------------------------------
(* start_deadline, check_destroy and the queue.                            *)

TimerOK(tm) ==
    /\ tm = [tasks |-> tm.tasks, highest |-> tm.highest]
    /\ tm.highest \in Nat
    /\ DOMAIN tm.tasks \subseteq 1 .. tm.highest
    /\ tm.tasks \in [DOMAIN tm.tasks -> [conn : Conns, left : 0 .. Timeout]]

LEMMA Cancelled ==
  ASSUME NEW tm, TimerOK(tm), NEW id
  PROVE  /\ TimerOK(Cancel(tm, id))
         /\ DOMAIN Cancel(tm, id).tasks = DOMAIN tm.tasks \ {id}
         /\ \A i \in DOMAIN tm.tasks \ {id} : Cancel(tm, id).tasks[i] = tm.tasks[i]
         /\ Cancel(tm, id).highest = tm.highest
<1> DEFINE kept == Restrict(tm.tasks, DOMAIN tm.tasks \ {id})
<1>1. /\ DOMAIN kept = DOMAIN tm.tasks \ {id}
      /\ \A i \in DOMAIN kept : kept[i] = tm.tasks[i]
      /\ kept \in [DOMAIN kept -> [conn : Conns, left : 0 .. Timeout]]
  BY DEF Restrict, TimerOK
<1> HIDE DEF kept
<1>2. Cancel(tm, id) = [tasks |-> kept, highest |-> tm.highest]
  BY DEF Cancel, TimerOK, kept
<1> QED
  BY <1>1, <1>2 DEF TimerOK

\* A connection schedules its deadline anew, under an id that no task has.
LEMMA StartDeadlineKeeps ==
  ASSUME TimerType, TimerInv, NEW c \in Conns, timer' = StartDeadline(c),
         Live(c)', conn'[c].task_id = timer.highest + 1,
         \A d \in Conns \ {c} : conn'[d] = conn[d]
  PROVE  TimerType' /\ TimerInv'
<1> DEFINE id == timer.highest + 1
           kept == Cancel(timer, conn[c].task_id).tasks
           tasks == [i \in DOMAIN kept \cup {id} |->
                       IF i = id THEN [conn |-> c, left |-> Timeout] ELSE kept[i]]
<1>1. /\ DOMAIN kept = DOMAIN timer.tasks \ {conn[c].task_id}
      /\ \A i \in DOMAIN kept : kept[i] = timer.tasks[i]
  BY Cancelled DEF TimerType, TimerOK
<1>2. timer' = [tasks |-> tasks, highest |-> id]
  BY DEF StartDeadline
<1> HIDE DEF kept
<1>3. /\ DOMAIN tasks = DOMAIN kept \cup {id}
      /\ tasks[id] = [conn |-> c, left |-> Timeout]
      /\ \A i \in DOMAIN kept : i # id /\ tasks[i] = timer.tasks[i]
  BY <1>1 DEF TimerType
<1>4. Timeout \in 0 .. Timeout
  BY TimesPositive
<1>5. /\ tasks \in [DOMAIN tasks -> [conn : Conns, left : 0 .. Timeout]]
      /\ DOMAIN tasks \subseteq 1 .. id /\ id \in Nat
  BY <1>1, <1>3, <1>4 DEF TimerType
<1> HIDE DEF tasks, id
<1>6. TimerType'
  BY <1>2, <1>5 DEF TimerType
<1>7. ASSUME NEW i \in DOMAIN tasks
      PROVE  conn'[tasks[i].conn].life = "live" /\ conn'[tasks[i].conn].task_id = i
  <2>1. CASE i = id
    <3>1. tasks[i].conn = c
      BY <1>3, <2>1
    <3> QED
      BY <2>1, <3>1 DEF id, Live
  <2>2. CASE i \in DOMAIN kept
    <3>1. tasks[i] = timer.tasks[i] /\ i \in DOMAIN timer.tasks /\ i # conn[c].task_id
      BY <1>1, <1>3, <2>2
    <3>2. timer.tasks[i].conn \in Conns \ {c}
      BY <3>1 DEF TimerInv, TimerType
    <3> QED
      BY <3>1, <3>2 DEF TimerInv, Live
  <2> QED
    BY <1>3, <2>1, <2>2
<1> QED
  BY <1>2, <1>6, <1>7 DEF TimerInv, Live

\* check_destroy: a connection with a flag up is kept; otherwise its task goes with it.
LEMMA CheckDestroyKeeps ==
  ASSUME IInv, NEW c \in Conns, Live(c), NEW r \in Records, NEW tm, CheckDestroy(c, r, tm),
         r.life = "live", r.task_id = conn[c].task_id,
         tm = timer \/ tm = Cancel(timer, conn[c].task_id)
  PROVE  /\ conn' \in [Conns -> Records] /\ \A d \in Conns \ {c} : conn'[d] = conn[d]
         /\ TimerType' /\ TimerInv'
         /\ queueLength' \in 0 .. Cardinality(Conns) /\ CountInv'
         /\ r.is_reading \/ r.is_writing => conn'[c] = r
         /\ ~r.is_reading /\ ~r.is_writing => conn'[c].life = "deleted"
<1> USE Parts
<1>1. TimerOK(timer)
  BY DEF TimerType, TimerOK
<1>2. /\ TimerOK(tm)
      /\ DOMAIN tm.tasks \subseteq DOMAIN timer.tasks
      /\ \A i \in DOMAIN tm.tasks : tm.tasks[i] = timer.tasks[i]
  BY <1>1, Cancelled
<1>3. CASE r.is_reading \/ r.is_writing
  <2>1. conn' = [conn EXCEPT ![c] = r] /\ timer' = tm /\ UNCHANGED queueLength
    BY <1>3 DEF CheckDestroy
  <2>2. \A d \in Conns : conn'[d].life = conn[d].life /\ conn'[d].task_id = conn[d].task_id
    BY <2>1 DEF Live
  <2>3. TimerType'
    BY <1>2, <2>1 DEF TimerType, TimerOK
  <2>4. TimerInv'
    BY <1>2, <2>1, <2>2 DEF TimerInv, Live, TimerType
  <2>5. queueLength' \in 0 .. Cardinality(Conns) /\ CountInv'
    BY <2>1, <2>2, SameCount
  <2> QED
    BY <1>3, <2>1, <2>3, <2>4, <2>5
<1>4. CASE ~(r.is_reading \/ r.is_writing)
  <2> DEFINE deleted == [r EXCEPT !.life = "deleted", !.open = FALSE]
             C == {d \in Conns : conn[d].life \in {"accepting", "live"}}
  <2>1. /\ conn' = [conn EXCEPT ![c] = deleted]
        /\ timer' = Cancel(tm, r.task_id)
        /\ queueLength' = queueLength - 1
    BY <1>4 DEF CheckDestroy
  <2>2. deleted \in Records /\ deleted.life = "deleted"
    BY DEF Records
  <2> HIDE DEF deleted
  <2>3. /\ TimerOK(timer')
        /\ DOMAIN timer'.tasks = DOMAIN tm.tasks \ {r.task_id}
        /\ \A i \in DOMAIN timer'.tasks : timer'.tasks[i] = tm.tasks[i]
    BY <1>2, <2>1, Cancelled
  <2>4. TimerType'
    BY <2>3 DEF TimerType, TimerOK
  <2>5. ASSUME NEW i \in DOMAIN timer'.tasks
        PROVE  conn'[timer'.tasks[i].conn].life = "live" /\ conn'[timer'.tasks[i].conn].task_id = i
    <3>1. i \in DOMAIN timer.tasks /\ timer'.tasks[i] = timer.tasks[i] /\ i # conn[c].task_id
      BY <1>2, <2>3
    <3>2. timer.tasks[i].conn \in Conns \ {c}
      BY <3>1 DEF TimerInv, TimerType
    <3> QED
      BY <2>1, <3>1, <3>2 DEF TimerInv, Live
  <2>6. TimerInv'
    BY <2>5 DEF TimerInv, Live
  <2>7. {d \in Conns : conn'[d].life \in {"accepting", "live"}} = C \ {c} /\ c \in C
    BY <2>1, <2>2 DEF Live
  <2>8. IsFiniteSet(C) /\ Cardinality(C) \in Nat
    BY ConnsFinite, FS_Subset, FS_CardinalityType
  <2>9. Cardinality(C \ {c}) = Cardinality(C) - 1
    BY <2>7, <2>8, FS_RemoveElement
  <2>10. IsFiniteSet(C \ {c}) /\ Cardinality(C \ {c}) \in Nat /\ Cardinality(Conns) \in Nat
    BY <2>8, ConnsFinite, FS_RemoveElement, FS_CardinalityType
  <2>11. CountInv'
    BY <2>1, <2>7, <2>9 DEF CountInv
  <2>12. queueLength' \in 0 .. Cardinality(Conns)
    BY <2>1, <2>7, <2>8, <2>9, <2>10 DEF CountInv
  <2> QED
    BY <1>4, <2>1, <2>2, <2>4, <2>6, <2>11, <2>12
<1> QED
  BY <1>3, <1>4

\* The callback of c that runs is taken out of the queue.
LEMMA Taken ==
  ASSUME IInv, NEW c \in Conns, NEW op, Callback(c, op)
  PROVE  /\ Tail(ready) \in Seq(Operations) /\ Once(Tail(ready)) /\ InOrder(Tail(ready))
         /\ Head(ready) \in Operations /\ Head(ready) \in Completed(c) /\ Head(ready).op = op
         /\ Of(Tail(ready), c) = Completed(c) \ {Head(ready)}
         /\ \A o \in Of(Tail(ready), c) : o.op # op
         /\ \A d \in Conns \ {c} : Of(Tail(ready), d) = Of(ready, d)
         /\ Queued(c, op) /\ Live(c) /\ worker = None
<1>1. ready # <<>> /\ Head(ready).conn = c /\ Head(ready).op = op /\ worker = None
  BY DEF Callback, Idle
<1>2. ready \in Seq(Operations) /\ Once(ready) /\ InOrder(ready) /\ ReadInv(c)
  BY Parts
<1>3. /\ Tail(ready) \in Seq(Operations)
      /\ Once(Tail(ready)) /\ InOrder(Tail(ready))
      /\ Range(Tail(ready)) = Range(ready) \ {Head(ready)}
      /\ Head(ready) \in Range(ready)
      /\ \A o \in Range(ready) : o.conn = Head(ready).conn /\ o.op = Head(ready).op => o = Head(ready)
  BY <1>1, <1>2, TailOfQueue
<1>4. Head(ready) \in Operations
  BY <1>1, <1>2
<1>5. Head(ready) \in Completed(c) /\ Queued(c, op)
  BY <1>1, <1>3 DEF Completed, Queued
<1>6. Live(c)
  BY <1>2, <1>5 DEF ReadInv
<1> QED
  BY <1>1, <1>3, <1>4, <1>5, <1>6 DEF Of, Completed

-----------------------------------------------------------------------------
(* The steps of the worker that begin or end a callback.                   *)

\* start_deadline and do_read: c waits for input.
LEMMA AwaitInputKeeps ==
  ASSUME IInv, NEW c \in Conns, Live(c), AwaitInput(c, conn[c])
  PROVE  /\ conn' \in [Conns -> Records] /\ \A d \in Conns \ {c} : conn'[d] = conn[d]
         /\ TimerType' /\ TimerInv'
         /\ conn'[c].life = "live" /\ conn'[c].is_reading
         /\ conn'[c].is_writing = conn[c].is_writing /\ conn'[c].completed = conn[c].completed
         /\ conn'[c].thrown = conn[c].thrown
         /\ reading' = reading \cup {c} /\ reading' \subseteq Conns
<1> DEFINE r == [conn[c] EXCEPT !.is_reading = TRUE, !.task_id = timer.highest + 1]
<1>1. conn' = [conn EXCEPT ![c] = r]
  BY DEF AwaitInput
<1>2. /\ r \in Records /\ r.life = "live" /\ r.is_reading /\ r.task_id = timer.highest + 1
      /\ r.is_writing = conn[c].is_writing /\ r.completed = conn[c].completed
      /\ r.thrown = conn[c].thrown
  <2>1. conn[c] \in Records /\ timer.highest + 1 \in Nat /\ conn[c].life = "live"
    BY Parts DEF Live, TimerType
  <2> QED
    BY <2>1 DEF Records
<1> HIDE DEF r
<1> USE Parts
<1>3. conn'[c] = r /\ \A d \in Conns \ {c} : conn'[d] = conn[d]
  BY <1>1
<1>4. TimerType' /\ TimerInv'
  BY <1>2, <1>3, StartDeadlineKeeps DEF AwaitInput, Live
<1> QED
  BY <1>1, <1>2, <1>3, <1>4 DEF AwaitInput

LEMMA StartKeeps ==
  ASSUME IInv, NEW c \in Conns, Start(c)
  PROVE  IInv'
<1> USE Parts
<1>1. /\ Callback(c, "start") /\ AwaitInput(c, conn[c])
      /\ ready' = Tail(ready) /\ UNCHANGED <<queueLength, writes, worker, peer>>
  BY DEF Start
<1>2. /\ Tail(ready) \in Seq(Operations) /\ Once(Tail(ready)) /\ InOrder(Tail(ready))
      /\ Of(Tail(ready), c) \subseteq Completed(c)
      /\ \A o \in Of(Tail(ready), c) : o.op # "start"
      /\ \A d \in Conns \ {c} : Of(Tail(ready), d) = Of(ready, d)
      /\ Queued(c, "start") /\ Live(c) /\ worker = None
  BY <1>1, Taken
<1>3. /\ conn' \in [Conns -> Records] /\ \A d \in Conns \ {c} : conn'[d] = conn[d]
      /\ TimerType' /\ TimerInv'
      /\ conn'[c].life = "live" /\ conn'[c].is_reading
      /\ conn'[c].is_writing = conn[c].is_writing /\ conn'[c].completed = conn[c].completed
      /\ conn'[c].thrown = conn[c].thrown
      /\ reading' = reading \cup {c} /\ reading' \subseteq Conns
  BY <1>1, <1>2, AwaitInputKeeps
<1>4. OnlyOf(c)
  BY <1>1, <1>2, <1>3 DEF OnlyOf
<1>5. CountInv' /\ queueLength' \in 0 .. Cardinality(Conns)
  BY <1>1, <1>2, <1>3, SameCount DEF Live
<1>6. Completed(c)' = Of(Tail(ready), c)
  BY <1>1 DEF Completed, Of
<1>7. /\ ~conn[c].is_reading /\ ~conn[c].is_writing /\ writes[c] = <<>>
      /\ ~Queued(c, "read") /\ ~Queued(c, "write") /\ ~conn[c].thrown
  BY <1>2 DEF ReadInv, WriteInv
<1>8. ~Queued(c, "read")' /\ ~Queued(c, "write")' /\ ~Queued(c, "start")'
  BY <1>2, <1>6, <1>7 DEF Queued
<1>9. ReadInv(c)'
  BY <1>1, <1>2, <1>3, <1>8 DEF ReadInv, ReadPending, Live, Feeding
<1>10. WriteInv(c)'
  BY <1>1, <1>3, <1>7, <1>8 DEF WriteInv, WritePending
<1>11. RequestInv(c)'
  BY <1>1, <1>2, <1>8 DEF RequestInv, HasInput, Queued, Feeding
<1>12. ReplyInv(c)'
  BY <1>1, <1>2, <1>3, <1>7 DEF ReplyInv, Fed, Feeding
<1>13. ThrownInv(c)'
  BY <1>3, <1>7 DEF ThrownInv
<1>14. /\ writes' \in [Conns -> Seq(Replies)] /\ WorkerType' /\ PeerType'
       /\ ready' \in Seq(Operations) /\ Once(ready') /\ InOrder(ready')
  BY <1>1, <1>2 DEF WorkerType, PeerType, PeerRecords
<1> QED
  BY <1>3, <1>4, <1>5, <1>9, <1>10, <1>11, <1>12, <1>13, <1>14, StepOf

LEMMA ReadCallbackKeeps ==
  ASSUME IInv, NEW c \in Conns, ReadCallback(c)
  PROVE  IInv'
<1> USE Parts
<1> DEFINE h == Head(ready)
<1>1. /\ Callback(c, "read") /\ h.chunk # None
      /\ worker' = [conn |-> c, chunk |-> h.chunk]
      /\ ready' = Tail(ready) /\ UNCHANGED <<conn, timer, queueLength, reading, writes, peer>>
  BY DEF ReadCallback
<1>2. /\ Tail(ready) \in Seq(Operations) /\ Once(Tail(ready)) /\ InOrder(Tail(ready))
      /\ h \in Operations /\ h \in Completed(c) /\ h.op = "read"
      /\ Of(Tail(ready), c) = Completed(c) \ {h}
      /\ \A o \in Of(Tail(ready), c) : o.op # "read"
      /\ \A d \in Conns \ {c} : Of(Tail(ready), d) = Of(ready, d)
      /\ Queued(c, "read") /\ Live(c) /\ worker = None
  BY <1>1, Taken
<1>3. h.chunk \in Chunks
  BY <1>1, <1>2 DEF Operations
<1>4. /\ writes[c] = <<>> /\ (h.chunk.events # <<>> => Asked(c))
      /\ conn[c].is_reading /\ c \notin reading /\ ~Queued(c, "start") /\ ~conn[c].thrown
  BY <1>1, <1>2 DEF RequestInv, HasInput, ReadInv, ThrownInv
<1>5. ~Queued(c, "write")
  <2> SUFFICES ASSUME NEW o \in Completed(c), o.op = "write"
               PROVE  FALSE
    BY DEF Queued
  <2>1. PICK j \in DOMAIN ready : ready[j] = o
    BY DEF Completed, Range
  <2>2. 1 \in DOMAIN ready /\ ready[1] = h /\ j \in 1 .. Len(ready)
    BY <1>1, <2>1 DEF Callback
  <2>3. HasInput(h) /\ o.conn = h.conn
    BY <1>1, <1>2 DEF HasInput, Completed
  <2>4. j < 1
    BY <2>1, <2>2, <2>3 DEF InOrder
  <2> QED
    BY <2>2, <2>4
<1> HIDE DEF h
<1>6. ~conn[c].is_writing /\ ~conn[c].completed
  BY <1>2, <1>4, <1>5 DEF WriteInv, WritePending, ReplyInv, Fed, Feeding
<1>7. OnlyOf(c)
  BY <1>1, <1>2 DEF OnlyOf
<1>8. CountInv' /\ queueLength' \in 0 .. Cardinality(Conns)
  BY <1>1, SameCount
<1>9. TimerType' /\ TimerInv'
  BY <1>1 DEF TimerType, TimerInv, Live
<1>10. Completed(c)' = Of(Tail(ready), c)
  BY <1>1 DEF Completed, Of
<1>11. \A o \in Completed(c)' : o \in Completed(c) /\ o.op # "read"
  BY <1>2, <1>10
<1>12. ~Queued(c, "read")' /\ ~Queued(c, "write")' /\ ~Queued(c, "start")'
  BY <1>4, <1>5, <1>11 DEF Queued
<1>13. worker' \in [conn : Conns, chunk : Chunks] /\ worker' # None
  BY <1>1, <1>3, NoneIsNothing
<1>14. ReadInv(c)'
  BY <1>1, <1>2, <1>4, <1>12, <1>13 DEF ReadInv, ReadPending, Feeding, Live
<1>15. WriteInv(c)'
  BY <1>1, <1>4, <1>6, <1>12 DEF WriteInv, WritePending
<1>16. RequestInv(c)'
  BY <1>1, <1>4, <1>6, <1>11 DEF RequestInv, HasInput, Asked
<1>17. ReplyInv(c)'
  BY <1>1, <1>4, <1>6 DEF ReplyInv
<1>18. ThrownInv(c)'
  BY <1>1, <1>4 DEF ThrownInv
<1>19. /\ conn' \in [Conns -> Records] /\ reading' \subseteq Conns /\ writes' \in [Conns -> Seq(Replies)]
       /\ WorkerType' /\ PeerType' /\ ready' \in Seq(Operations) /\ Once(ready') /\ InOrder(ready')
  BY <1>1, <1>2, <1>13 DEF WorkerType, PeerType, PeerRecords
<1> QED
  BY <1>7, <1>8, <1>9, <1>14, <1>15, <1>16, <1>17, <1>18, <1>19, StepOf

LEMMA ReadOnKeeps ==
  ASSUME IInv, NEW c \in Conns, ReadOn(c)
  PROVE  IInv'
<1> USE Parts
<1>1. /\ Fed(c) /\ AwaitInput(c, conn[c]) /\ worker' = None /\ ~conn[c].closing
      /\ UNCHANGED <<queueLength, writes, ready, peer>>
  BY DEF ReadOn
<1>2. /\ worker # None /\ worker.conn = c
      /\ Live(c) /\ conn[c].is_reading /\ ~Queued(c, "read")
  BY <1>1 DEF ReadInv, Fed, Feeding
<1>3. /\ conn' \in [Conns -> Records] /\ \A d \in Conns \ {c} : conn'[d] = conn[d]
      /\ TimerType' /\ TimerInv'
      /\ conn'[c].life = "live" /\ conn'[c].is_reading
      /\ conn'[c].is_writing = conn[c].is_writing /\ conn'[c].completed = conn[c].completed
      /\ conn'[c].thrown = conn[c].thrown
      /\ reading' = reading \cup {c} /\ reading' \subseteq Conns
  BY <1>1, <1>2, AwaitInputKeeps
<1>4. OnlyOf(c)
  BY <1>1, <1>2, <1>3 DEF OnlyOf
<1>5. CountInv' /\ queueLength' \in 0 .. Cardinality(Conns)
  BY <1>1, <1>2, <1>3, SameCount DEF Live
<1>6. Completed(c)' = Completed(c) /\ \A op : Queued(c, op)' <=> Queued(c, op)
  BY <1>1 DEF Completed, Queued
<1>7. ReadInv(c)'
  BY <1>1, <1>2, <1>3, <1>6 DEF ReadInv, ReadPending, Live, Feeding
<1>8. WriteInv(c)'
  BY <1>1, <1>2, <1>3, <1>6 DEF WriteInv, WritePending, Live
<1>9. RequestInv(c)'
  BY <1>1, <1>6 DEF RequestInv, Feeding, Asked
<1>10. ReplyInv(c)'
  BY <1>1, <1>2, <1>3 DEF ReplyInv, Live, Asked
<1>11. ThrownInv(c)'
  BY <1>1, <1>2, <1>3, <1>6 DEF ThrownInv, Here, Feeding
<1>12. /\ writes' \in [Conns -> Seq(Replies)] /\ WorkerType' /\ PeerType'
       /\ ready' \in Seq(Operations) /\ Once(ready') /\ InOrder(ready')
  BY <1>1 DEF WorkerType, PeerType, PeerRecords
<1> QED
  BY <1>3, <1>4, <1>5, <1>7, <1>8, <1>9, <1>10, <1>11, <1>12, StepOf

LEMMA LastReadKeeps ==
  ASSUME IInv, NEW c \in Conns, LastRead(c)
  PROVE  IInv'
<1> DEFINE r == [conn[c] EXCEPT !.is_reading = FALSE]
<1>1. /\ Fed(c) /\ worker' = None /\ CheckDestroy(c, r, Cancel(timer, conn[c].task_id))
      /\ UNCHANGED <<reading, writes, ready, peer>>
  BY DEF LastRead
<1>2. /\ worker # None /\ worker.conn = c /\ c \notin reading
      /\ Live(c) /\ conn[c].is_reading /\ ~Queued(c, "read") /\ ~Queued(c, "start")
  BY <1>1, Parts DEF ReadInv, Fed, Feeding
<1>3. /\ r \in Records /\ r.life = "live" /\ r.task_id = conn[c].task_id
      /\ ~r.is_reading /\ r.is_writing = conn[c].is_writing /\ r.thrown = conn[c].thrown
  BY <1>2, Parts DEF Records, Live
<1> HIDE DEF r
<1> USE Parts
<1>4. /\ conn' \in [Conns -> Records] /\ \A d \in Conns \ {c} : conn'[d] = conn[d]
      /\ TimerType' /\ TimerInv'
      /\ queueLength' \in 0 .. Cardinality(Conns) /\ CountInv'
      /\ r.is_reading \/ r.is_writing => conn'[c] = r
      /\ ~r.is_reading /\ ~r.is_writing => conn'[c].life = "deleted"
  BY <1>1, <1>2, <1>3, CheckDestroyKeeps
<1>5. OnlyOf(c)
  BY <1>1, <1>2, <1>4 DEF OnlyOf
<1>6. Completed(c)' = Completed(c) /\ \A op : Queued(c, op)' <=> Queued(c, op)
  BY <1>1 DEF Completed, Queued
<1>7. /\ worker' = None /\ c \notin reading' /\ ~Feeding(c)'
      /\ ~Queued(c, "read")' /\ ~Queued(c, "start")'
  BY <1>1, <1>2, <1>6 DEF Feeding
<1>8. ASSUME ~conn[c].is_writing PROVE writes[c] = <<>> /\ Completed(c) = {}
  <2>1. writes[c] = <<>> /\ ~Queued(c, "write")
    BY <1>8 DEF WriteInv
  <2>2. Completed(c) \subseteq Operations
    BY RangeOfSeq DEF Completed
  <2> QED
    BY <1>2, <2>1, <2>2 DEF Queued, Operations
<1>9. ReadInv(c)'
  BY <1>3, <1>4, <1>6, <1>7, <1>8 DEF ReadInv, ReadPending, Live
<1>10. WriteInv(c)'
  BY <1>1, <1>2, <1>3, <1>4, <1>6, <1>8 DEF WriteInv, WritePending, Live, Queued
<1>11. RequestInv(c)'
  BY <1>1, <1>6, <1>7 DEF RequestInv, Asked
<1>12. ReplyInv(c)'
  BY <1>1, <1>3, <1>4 DEF ReplyInv, Live, Asked
<1>13. ThrownInv(c)'
  <2>1. CASE conn[c].thrown
    BY <1>1, <1>6, <1>7, <2>1 DEF ThrownInv
  <2>2. CASE ~conn[c].thrown
    BY <1>1, <1>3, <1>4, <1>6, <1>7, <1>8, <2>2 DEF ThrownInv, Queued
  <2> QED
    BY <2>1, <2>2
<1>14. /\ reading' \subseteq Conns /\ writes' \in [Conns -> Seq(Replies)] /\ WorkerType' /\ PeerType'
       /\ ready' \in Seq(Operations) /\ Once(ready') /\ InOrder(ready')
  BY <1>1 DEF WorkerType, PeerType, PeerRecords
<1> QED
  BY <1>4, <1>5, <1>9, <1>10, <1>11, <1>12, <1>13, <1>14, StepOf

\* Closing the socket of c puts its aborted operations behind the queue.
LEMMA Closing ==
  ASSUME NEW c \in Conns, writes[c] \in Seq(Replies), Len(writes[c]) <= 1,
         NEW q \in Seq(Operations), Once(q), InOrder(q),
         c \in reading => \A o \in Of(q, c) : o.op # "read",
         writes[c] # <<>> => \A o \in Of(q, c) : o.op # "write" /\ ~HasInput(o),
         ready' = q \o Aborted(c)
  PROVE  /\ ready' \in Seq(Operations) /\ Once(ready') /\ InOrder(ready')
         /\ Of(ready', c) = Of(q, c) \cup AbortedSet(c)
         /\ \A d \in Conns \ {c} : Of(ready', d) = Of(q, d)
<1>1. /\ ready' \in Seq(Operations) /\ Once(ready') /\ InOrder(ready')
      /\ Range(ready') = Range(q) \cup AbortedSet(c)
  BY AbortedToQueue DEF Of
<1>2. \A o \in AbortedSet(c) : o.conn = c
  BY DEF AbortedSet, AbortedRead, AbortedWrite
<1> QED
  BY <1>1, <1>2 DEF Of

\* The read is over and the socket is closed: the connection is kept for a write.
LEMMA DisconnectKeeps ==
  ASSUME IInv, NEW c \in Conns, Live(c), Disconnect(c), worker' = None, c \notin reading,
         worker = None \/ worker.conn = c,
         NEW q \in Seq(Operations), Once(q), InOrder(q), ready' = q \o Aborted(c),
         Of(q, c) \subseteq Completed(c),
         \A o \in Completed(c) : o.op = "write" => o \in Of(q, c),
         \A o \in Of(q, c) : o.op # "read",
         \A d \in Conns \ {c} : Of(q, d) = Of(ready, d)
  PROVE  IInv'
<1> DEFINE r == [conn[c] EXCEPT !.open = FALSE, !.is_reading = FALSE]
<1>1. /\ conn[c].is_reading /\ CheckDestroy(c, r, Cancel(timer, conn[c].task_id))
      /\ reading' = reading \ {c} /\ writes' = [writes EXCEPT ![c] = <<>>] /\ UNCHANGED peer
  BY DEF Disconnect, CloseSocket
<1>2. /\ r \in Records /\ r.life = "live" /\ r.task_id = conn[c].task_id
      /\ ~r.is_reading /\ r.is_writing = conn[c].is_writing /\ r.thrown = conn[c].thrown
  BY Parts DEF Records, Live
<1> HIDE DEF r
<1> USE Parts
<1>3. /\ conn' \in [Conns -> Records] /\ \A d \in Conns \ {c} : conn'[d] = conn[d]
      /\ TimerType' /\ TimerInv'
      /\ queueLength' \in 0 .. Cardinality(Conns) /\ CountInv'
      /\ r.is_reading \/ r.is_writing => conn'[c] = r
      /\ ~r.is_reading /\ ~r.is_writing => conn'[c].life = "deleted"
  BY <1>1, <1>2, CheckDestroyKeeps
<1>4. /\ ~Queued(c, "start")
      /\ writes[c] # <<>> => ~Queued(c, "write")
      /\ Queued(c, "write") => conn[c].is_writing
      /\ writes[c] # <<>> => conn[c].is_writing
      /\ conn[c].is_writing => writes[c] # <<>> \/ Queued(c, "write") \/ conn[c].thrown
      /\ writes[c] \in Seq(Replies) /\ Len(writes[c]) <= 1
  BY <1>1 DEF ReadInv, WriteInv, WritePending
<1>5. /\ ready' \in Seq(Operations) /\ Once(ready') /\ InOrder(ready')
      /\ Of(ready', c) = Of(q, c) \cup AbortedSet(c)
      /\ \A d \in Conns \ {c} : Of(ready', d) = Of(q, d)
  <2>1. writes[c] # <<>> => \A o \in Of(q, c) : o.op # "write" /\ ~HasInput(o)
    BY <1>4 DEF Queued, HasInput
  <2> QED
    BY <1>4, <2>1, Closing
<1>6. Completed(c)' = Of(q, c) \cup (IF writes[c] # <<>> THEN {AbortedWrite(c)} ELSE {})
  BY <1>5 DEF Completed, Of, AbortedSet
<1>7. /\ ~Queued(c, "read")' /\ ~Queued(c, "start")'
      /\ Queued(c, "write")' => conn[c].is_writing
      /\ conn[c].is_writing => Queued(c, "write")' \/ conn[c].thrown
  <2> DEFINE w == AbortedWrite(c)
  <2>1. w.op = "write" /\ (writes[c] # <<>> => w \in Completed(c)')
    BY <1>6 DEF AbortedWrite
  <2>2. Completed(c)' \subseteq Of(q, c) \cup {w}
    BY <1>6
  <2> HIDE DEF w
  <2>3. \A o \in Completed(c)' : o.op # "read" /\ o.op # "start"
    BY <1>4, <2>1, <2>2 DEF Queued
  <2>4. ~Queued(c, "read")' /\ ~Queued(c, "start")'
    BY <2>3 DEF Queued
  <2>5. ASSUME Queued(c, "write")' PROVE conn[c].is_writing
    <3>1. CASE writes[c] # <<>>
      BY <3>1, <1>4
    <3>2. CASE writes[c] = <<>>
      BY <3>2, <2>5, <1>4, <1>6 DEF Queued
    <3> QED
      BY <3>1, <3>2
  <2>6. ASSUME conn[c].is_writing, ~conn[c].thrown PROVE Queued(c, "write")'
    <3>1. CASE writes[c] # <<>>
      BY <3>1, <2>1 DEF Queued
    <3>2. CASE Queued(c, "write")
      <4> PICK o \in Completed(c) : o.op = "write"
        BY <3>2 DEF Queued
      <4>1. o \in Completed(c)'
        BY <1>6
      <4> QED
        BY <4>1 DEF Queued
    <3> QED
      BY <2>6, <3>1, <3>2, <1>4
  <2> QED
    BY <2>4, <2>5, <2>6
<1>8. /\ writes'[c] = <<>> /\ \A d \in Conns \ {c} : writes'[d] = writes[d]
      /\ writes' \in [Conns -> Seq(Replies)] /\ Len(<<>>) = 0
  BY <1>1
<1>9. OnlyOf(c)
  BY <1>1, <1>3, <1>5, <1>8 DEF OnlyOf
<1>10. ~conn[c].is_writing => Completed(c)' = {}
  <2>1. Completed(c)' \subseteq Operations
    BY <1>5, RangeOfSeq DEF Completed
  <2> QED
    BY <1>7, <2>1 DEF Queued, Operations
<1>11. c \notin reading' /\ ~Feeding(c)'
  BY <1>1 DEF Feeding
<1>12. ReadInv(c)'
  BY <1>2, <1>3, <1>7, <1>10, <1>11 DEF ReadInv, ReadPending, Live
<1>13. WriteInv(c)'
  BY <1>2, <1>3, <1>7, <1>8 DEF WriteInv, WritePending, Live
<1>14. RequestInv(c)'
  BY <1>7, <1>11 DEF RequestInv, HasInput, Queued
<1>15. ReplyInv(c)'
  BY <1>1, <1>2, <1>3, <1>8 DEF ReplyInv, Live
<1>16. ThrownInv(c)'
  <2>1. \A o \in Completed(c)' : ~HasInput(o)
    BY <1>7 DEF HasInput, Queued
  <2>2. conn'[c].thrown => ~Queued(c, "write")'
    <3>1. CASE conn[c].thrown
      BY <3>1, <1>6 DEF ThrownInv, Queued
    <3>2. CASE ~conn[c].thrown
      BY <3>2, <1>2, <1>3, <1>7
    <3> QED
      BY <3>1, <3>2
  <2> QED
    BY <1>8, <1>11, <2>1, <2>2 DEF ThrownInv
<1>17. reading' \subseteq Conns /\ WorkerType' /\ PeerType'
  BY <1>1 DEF WorkerType, PeerType, PeerRecords
<1> QED
  BY <1>3, <1>5, <1>8, <1>9, <1>12, <1>13, <1>14, <1>15, <1>16, <1>17, StepOf

LEMMA ReadErrorKeeps ==
  ASSUME IInv, NEW c \in Conns, ReadError(c)
  PROVE  IInv'
<1>1. /\ Callback(c, "read") /\ Disconnect(c)
      /\ ready' = Tail(ready) \o Aborted(c) /\ worker' = worker
  BY DEF ReadError
<1>2. /\ Tail(ready) \in Seq(Operations) /\ Once(Tail(ready)) /\ InOrder(Tail(ready))
      /\ Head(ready).op = "read"
      /\ Of(Tail(ready), c) = Completed(c) \ {Head(ready)}
      /\ \A o \in Of(Tail(ready), c) : o.op # "read"
      /\ \A d \in Conns \ {c} : Of(Tail(ready), d) = Of(ready, d)
      /\ Queued(c, "read") /\ Live(c) /\ worker = None
  BY <1>1, Taken
<1>3. c \notin reading
  BY <1>2, Parts DEF ReadInv
<1> QED
  BY <1>1, <1>2, <1>3, DisconnectKeeps

LEMMA BadInputKeeps ==
  ASSUME IInv, NEW c \in Conns, BadInput(c)
  PROVE  IInv'
<1>1. /\ Fed(c) /\ Disconnect(c) /\ ready' = ready \o Aborted(c) /\ worker' = None
  BY DEF BadInput
<1>2. /\ worker.conn = c /\ c \notin reading /\ Live(c) /\ ~Queued(c, "read")
      /\ ready \in Seq(Operations) /\ Once(ready) /\ InOrder(ready)
  BY <1>1, Parts DEF ReadInv, Fed, Feeding
<1>3. Of(ready, c) = Completed(c) /\ \A o \in Of(ready, c) : o.op # "read"
  BY <1>2 DEF Of, Completed, Queued
<1> QED
  BY <1>1, <1>2, <1>3, DisconnectKeeps

\* The write is over: the connection is kept for a read, or because it is not to be
\* closed; a read in flight goes on or is aborted.
LEMMA WriteOverKeeps ==
  ASSUME IInv, NEW c \in Conns, Callback(c, "write"),
         NEW r \in Records, r.life = "live", r.task_id = conn[c].task_id,
         r.is_reading = conn[c].is_reading, ~r.is_writing, ~r.completed, r.thrown = conn[c].thrown,
         \/ CheckDestroy(c, r, timer)
         \/ conn' = [conn EXCEPT ![c] = r] /\ UNCHANGED <<timer, queueLength>>,
         writes' = [writes EXCEPT ![c] = <<>>], UNCHANGED <<worker, peer>>,
         \/ reading' = reading /\ ready' = Tail(ready)
         \/ reading' = reading \ {c} /\ ready' = Tail(ready) \o Aborted(c)
  PROVE  IInv'
<1> USE Parts
<1>1. /\ Tail(ready) \in Seq(Operations) /\ Once(Tail(ready)) /\ InOrder(Tail(ready))
      /\ Of(Tail(ready), c) = Completed(c) \ {Head(ready)} /\ Head(ready).op = "write"
      /\ \A o \in Of(Tail(ready), c) : o.op # "write"
      /\ \A d \in Conns \ {c} : Of(Tail(ready), d) = Of(ready, d)
      /\ Queued(c, "write") /\ Live(c) /\ worker = None
  BY Taken
<1>2. /\ conn[c].is_writing /\ writes[c] = <<>> /\ ~Queued(c, "start")
      /\ c \in reading => conn[c].is_reading /\ ~Queued(c, "read")
      /\ Queued(c, "read") => conn[c].is_reading
      /\ conn[c].is_reading => c \in reading \/ Queued(c, "read")
      /\ ~conn[c].thrown
  BY <1>1 DEF ReadInv, ReadPending, WriteInv, ThrownInv, Feeding
<1>3. /\ conn' \in [Conns -> Records] /\ \A d \in Conns \ {c} : conn'[d] = conn[d]
      /\ TimerType' /\ TimerInv'
      /\ queueLength' \in 0 .. Cardinality(Conns) /\ CountInv'
      /\ conn'[c] = r \/ (~r.is_reading /\ conn'[c].life = "deleted")
  <2>1. CASE CheckDestroy(c, r, timer)
    BY <1>1, <2>1, CheckDestroyKeeps
  <2>2. CASE conn' = [conn EXCEPT ![c] = r] /\ UNCHANGED <<timer, queueLength>>
    <3>1. \A d \in Conns : conn'[d].life = conn[d].life /\ conn'[d].task_id = conn[d].task_id
      BY <1>1, <2>2 DEF Live
    <3>2. TimerType' /\ TimerInv'
      BY <2>2, <3>1 DEF TimerType, TimerInv, Live
    <3>3. queueLength' \in 0 .. Cardinality(Conns) /\ CountInv'
      BY <2>2, <3>1, SameCount
    <3> QED
      BY <2>2, <3>2, <3>3
  <2> QED
    BY <2>1, <2>2
<1>4. /\ ready' \in Seq(Operations) /\ Once(ready') /\ InOrder(ready')
      /\ \A d \in Conns \ {c} : Of(ready', d) = Of(ready, d)
      /\ reading' = reading \/ reading' = reading \ {c}
      /\ \/ Completed(c)' = Of(Tail(ready), c) /\ (c \in reading => c \in reading')
         \/ /\ Completed(c)' = Of(Tail(ready), c) \cup {AbortedRead(c)}
            /\ c \in reading /\ c \notin reading'
  <2>1. CASE reading' = reading /\ ready' = Tail(ready)
    BY <1>1, <2>1 DEF Completed, Of
  <2>2. CASE reading' = reading \ {c} /\ ready' = Tail(ready) \o Aborted(c)
    <3>1. c \in reading => \A o \in Of(Tail(ready), c) : o.op # "read"
      BY <1>1, <1>2 DEF Queued
    <3>2. writes[c] \in Seq(Replies) /\ Len(writes[c]) <= 1
      BY DEF WriteInv
    <3>3. /\ ready' \in Seq(Operations) /\ Once(ready') /\ InOrder(ready')
          /\ Of(ready', c) = Of(Tail(ready), c) \cup AbortedSet(c)
          /\ \A d \in Conns \ {c} : Of(ready', d) = Of(Tail(ready), d)
      BY <1>1, <1>2, <2>2, <3>1, <3>2, Closing
    <3>4. AbortedSet(c) = IF c \in reading THEN {AbortedRead(c)} ELSE {}
      BY <1>2 DEF AbortedSet
    <3> QED
      BY <1>1, <2>2, <3>3, <3>4 DEF Completed, Of
  <2> QED
    BY <2>1, <2>2
<1>5. /\ writes'[c] = <<>> /\ \A d \in Conns \ {c} : writes'[d] = writes[d]
      /\ writes' \in [Conns -> Seq(Replies)] /\ Len(<<>>) = 0
  OBVIOUS
<1>6. OnlyOf(c)
  BY <1>1, <1>3, <1>4, <1>5 DEF OnlyOf
<1>7. ~Queued(c, "start")' /\ ~Queued(c, "write")'
  BY <1>1, <1>2, <1>4 DEF Queued, AbortedRead
<1>8. /\ Queued(c, "read")' => conn[c].is_reading
      /\ c \in reading' => c \in reading /\ conn[c].is_reading /\ ~Queued(c, "read")'
      /\ conn[c].is_reading => c \in reading' \/ Queued(c, "read")'
  <2>1. Queued(c, "read") => Queued(c, "read")'
    BY <1>1, <1>4 DEF Queued
  <2>2. c \in reading => c \in reading' \/ Queued(c, "read")'
    <3>1. AbortedRead(c) \in Completed(c)' => Queued(c, "read")'
      BY DEF Queued, AbortedRead
    <3> QED
      BY <1>4, <3>1
  <2>3. /\ Queued(c, "read")' => conn[c].is_reading
        /\ c \in reading' => c \in reading /\ conn[c].is_reading /\ ~Queued(c, "read")'
    BY <1>1, <1>2, <1>4 DEF Queued
  <2> QED
    BY <1>2, <2>1, <2>2, <2>3
<1>9. ~Feeding(c)'
  BY <1>1 DEF Feeding
<1>10. ~conn[c].is_reading => Completed(c)' = {}
  <2>1. Completed(c)' \subseteq Operations
    BY <1>4, RangeOfSeq DEF Completed
  <2> QED
    BY <1>7, <1>8, <2>1 DEF Queued, Operations
<1>11. ReadInv(c)'
  BY <1>3, <1>7, <1>8, <1>9, <1>10 DEF ReadInv, ReadPending, Live
<1>12. WriteInv(c)'
  BY <1>3, <1>5, <1>7 DEF WriteInv, WritePending, Live
<1>13. RequestInv(c)'
  <2>1. \A o \in Completed(c)' : HasInput(o) => o \in Completed(c)
    BY <1>1, <1>4 DEF HasInput, AbortedRead
  <2> QED
    BY <1>5, <1>9, <2>1 DEF RequestInv, Asked, HasInput
<1>14. ReplyInv(c)'
  BY <1>3, <1>5 DEF ReplyInv, Live
<1>15. ThrownInv(c)'
  BY <1>2, <1>3, <1>5, <1>7, <1>9, <1>10 DEF ThrownInv, Queued
<1>16. reading' \subseteq Conns /\ WorkerType' /\ PeerType'
  BY <1>4 DEF WorkerType, PeerType, PeerRecords
<1> QED
  BY <1>3, <1>4, <1>5, <1>6, <1>11, <1>12, <1>13, <1>14, <1>15, <1>16, StepOf

LEMMA WriteCallbackKeeps ==
  ASSUME IInv, NEW c \in Conns, WriteCallback(c)
  PROVE  IInv'
<1> DEFINE done == [conn[c] EXCEPT !.is_writing = FALSE, !.completed = FALSE]
           closed == [done EXCEPT !.open = FALSE]
<1>1. Callback(c, "write") /\ UNCHANGED <<worker, peer>>
  BY DEF WriteCallback
<1>2. Live(c) /\ Queued(c, "write")
  BY <1>1, Taken
<1>3. writes[c] = <<>> /\ Clobber(<<>>) = <<>>
  BY <1>2, Parts DEF WriteInv, Clobber
<1>4. /\ done \in Records /\ done.life = "live" /\ done.task_id = conn[c].task_id
      /\ done.is_reading = conn[c].is_reading /\ ~done.is_writing /\ ~done.completed
      /\ done.thrown = conn[c].thrown
  BY <1>2, Parts DEF Records, Live
<1>5. /\ closed \in Records /\ closed.life = "live" /\ closed.task_id = conn[c].task_id
      /\ closed.is_reading = conn[c].is_reading /\ ~closed.is_writing /\ ~closed.completed
      /\ closed.thrown = conn[c].thrown
  BY <1>2, Parts DEF Records, Live
<1>6. \/ /\ CheckDestroy(c, done, timer) /\ ready' = Tail(ready)
         /\ writes' = [writes EXCEPT ![c] = Clobber(writes[c])] /\ reading' = reading
      \/ /\ CheckDestroy(c, closed, timer) /\ ready' = Tail(ready) \o Aborted(c)
         /\ writes' = [writes EXCEPT ![c] = <<>>] /\ reading' = reading \ {c}
      \/ /\ conn' = [conn EXCEPT ![c] = done] /\ ready' = Tail(ready)
         /\ writes' = [writes EXCEPT ![c] = Clobber(writes[c])]
         /\ UNCHANGED <<timer, queueLength, reading>>
  BY DEF WriteCallback, CloseSocket
<1> HIDE DEF done, closed
<1>7. writes' = [writes EXCEPT ![c] = <<>>]
  BY <1>3, <1>6
<1> QED
  BY <1>1, <1>4, <1>5, <1>6, <1>7, WriteOverKeeps

-----------------------------------------------------------------------------
(* Accepting.                                                              *)

\* A connection that is not live has nothing in flight.
LEMMA NothingOf ==
  ASSUME IInv, NEW c \in Conns, ~Live(c)
  PROVE  /\ c \notin reading /\ ~Feeding(c) /\ writes[c] = <<>> /\ Completed(c) = {}
         /\ \A id \in DOMAIN timer.tasks : timer.tasks[id].conn # c
BY Parts DEF ReadInv, WriteInv, TimerInv

\* The connections that are counted.
Counted == {d \in Conns : conn[d].life \in {"accepting", "live"}}

LEMMA CountedFinite == IsFiniteSet(Counted) /\ Cardinality(Counted) \in Nat /\ Cardinality(Conns) \in Nat
BY ConnsFinite, FS_Subset, FS_CardinalityType DEF Counted

LEMMA CreateKeeps ==
  ASSUME IInv, NEW c \in Conns, Create(c)
  PROVE  IInv'
<1> USE Parts
<1> DEFINE r == [conn[c] EXCEPT !.life = "accepting"]
<1>1. /\ conn[c].life = "free" /\ conn' = [conn EXCEPT ![c] = r] /\ queueLength' = queueLength + 1
      /\ UNCHANGED <<timer, reading, writes, ready, worker, peer>>
  BY DEF Create
<1>2. /\ r \in Records /\ r.life = "accepting"
      /\ ~r.is_reading /\ ~r.is_writing /\ ~r.completed /\ ~r.thrown
  BY <1>1 DEF Records, ReadInv
<1> HIDE DEF r
<1>3. /\ conn' \in [Conns -> Records] /\ conn'[c] = r /\ \A d \in Conns \ {c} : conn'[d] = conn[d]
  BY <1>1, <1>2
<1>4. /\ c \notin reading /\ ~Feeding(c) /\ writes[c] = <<>> /\ Completed(c) = {}
      /\ \A id \in DOMAIN timer.tasks : timer.tasks[id].conn \in Conns \ {c}
  BY <1>1, NothingOf DEF Live, TimerType
<1>5. OnlyOf(c)
  BY <1>1, <1>3 DEF OnlyOf
<1>6. TimerType' /\ TimerInv'
  BY <1>1, <1>3, <1>4 DEF TimerType, TimerInv, Live
<1>7. queueLength' \in 0 .. Cardinality(Conns) /\ CountInv'
  <2>1. /\ {d \in Conns : conn'[d].life \in {"accepting", "live"}} = Counted \cup {c}
        /\ c \notin Counted /\ Counted \cup {c} \subseteq Conns
    BY <1>1, <1>2, <1>3 DEF Counted
  <2>2. Cardinality(Counted \cup {c}) = Cardinality(Counted) + 1
    BY <2>1, CountedFinite, FS_AddElement
  <2>3. Cardinality(Counted \cup {c}) <= Cardinality(Conns)
    BY <2>1, ConnsFinite, FS_Subset
  <2>4. queueLength = Cardinality(Counted)
    BY DEF CountInv, Counted
  <2>5. CountInv'
    BY <1>1, <2>1, <2>2, <2>4 DEF CountInv
  <2>6. queueLength' = Cardinality(Counted) + 1 /\ Cardinality(Counted) + 1 <= Cardinality(Conns)
    BY <1>1, <2>2, <2>3, <2>4
  <2> QED
    BY <2>5, <2>6, CountedFinite
<1>8. Completed(c)' = {} /\ ~Feeding(c)' /\ writes'[c] = <<>> /\ c \notin reading'
  BY <1>1, <1>4 DEF Completed, Feeding
<1>9. ReadInv(c)' /\ WriteInv(c)' /\ RequestInv(c)'
  BY <1>2, <1>3, <1>8 DEF ReadInv, ReadPending, WriteInv, WritePending, RequestInv, Live, Queued
<1>10. ReplyInv(c)'
  BY <1>1, <1>2, <1>3, <1>8 DEF ReplyInv, Live
<1>11. ThrownInv(c)'
  BY <1>8 DEF ThrownInv, Queued
<1>12. /\ reading' \subseteq Conns /\ writes' \in [Conns -> Seq(Replies)] /\ WorkerType' /\ PeerType'
       /\ ready' \in Seq(Operations) /\ Once(ready') /\ InOrder(ready')
  BY <1>1 DEF WorkerType, PeerType, PeerRecords
<1> QED
  BY <1>3, <1>5, <1>6, <1>7, <1>9, <1>10, <1>11, <1>12, StepOf

LEMMA AcceptFailsKeeps ==
  ASSUME IInv, NEW c \in Conns, AcceptFails(c)
  PROVE  IInv'
<1> USE Parts
<1> DEFINE r == [conn[c] EXCEPT !.life = "deleted"]
<1>1. /\ conn[c].life = "accepting" /\ conn' = [conn EXCEPT ![c] = r] /\ queueLength' = queueLength - 1
      /\ timer' = Cancel(timer, conn[c].task_id)
      /\ UNCHANGED <<reading, writes, ready, worker, peer>>
  BY DEF AcceptFails
<1>2. r \in Records /\ r.life = "deleted"
  BY DEF Records
<1> HIDE DEF r
<1>3. /\ conn' \in [Conns -> Records] /\ conn'[c] = r /\ \A d \in Conns \ {c} : conn'[d] = conn[d]
  BY <1>1, <1>2
<1>4. c \notin reading /\ ~Feeding(c) /\ writes[c] = <<>> /\ Completed(c) = {}
  BY <1>1, NothingOf DEF Live
<1>5. OnlyOf(c)
  BY <1>1, <1>3 DEF OnlyOf
<1>6. TimerType' /\ TimerInv'
  <2>1. \A d \in Conns : Live(d) => Live(d)' /\ conn'[d].task_id = conn[d].task_id
    BY <1>1, <1>3 DEF Live
  <2> QED
    BY <1>1, <2>1, CancelKeeps
<1>7. queueLength' \in 0 .. Cardinality(Conns) /\ CountInv'
  <2>1. {d \in Conns : conn'[d].life \in {"accepting", "live"}} = Counted \ {c} /\ c \in Counted
    BY <1>1, <1>2, <1>3 DEF Counted
  <2>2. Cardinality(Counted \ {c}) = Cardinality(Counted) - 1 /\ Cardinality(Counted \ {c}) \in Nat
    BY <2>1, CountedFinite, FS_RemoveElement, FS_CardinalityType
  <2>3. queueLength = Cardinality(Counted)
    BY DEF CountInv, Counted
  <2>4. CountInv'
    BY <1>1, <2>1, <2>2, <2>3 DEF CountInv
  <2>5. queueLength' = Cardinality(Counted) - 1 /\ queueLength' \in Nat
    BY <1>1, <2>2, <2>3
  <2> QED
    BY <2>3, <2>4, <2>5, CountedFinite
<1>8. Completed(c)' = {} /\ ~Feeding(c)' /\ writes'[c] = <<>> /\ c \notin reading'
  BY <1>1, <1>4 DEF Completed, Feeding
<1>9. ReadInv(c)' /\ WriteInv(c)' /\ RequestInv(c)'
  BY <1>2, <1>3, <1>8 DEF ReadInv, ReadPending, WriteInv, WritePending, RequestInv, Live, Queued
<1>10. ReplyInv(c)'
  BY <1>1, <1>2, <1>3, <1>8 DEF ReplyInv, Live
<1>11. ThrownInv(c)'
  BY <1>8 DEF ThrownInv, Queued
<1>12. /\ reading' \subseteq Conns /\ writes' \in [Conns -> Seq(Replies)] /\ WorkerType' /\ PeerType'
       /\ ready' \in Seq(Operations) /\ Once(ready') /\ InOrder(ready')
  BY <1>1 DEF WorkerType, PeerType, PeerRecords
<1> QED
  BY <1>3, <1>5, <1>6, <1>7, <1>9, <1>10, <1>11, <1>12, StepOf

\* An operation of c completes.
LEMMA Completes ==
  ASSUME IInv, NEW c \in Conns, NEW o \in Operations, o.conn = c, ready' = Append(ready, o),
         ~Queued(c, o.op), o.op = "write" => \A p \in Completed(c) : ~HasInput(p)
  PROVE  /\ ready' \in Seq(Operations) /\ Once(ready') /\ InOrder(ready')
         /\ Completed(c)' = Completed(c) \cup {o}
         /\ \A d \in Conns \ {c} : Of(ready', d) = Of(ready, d)
<1>1. \A p \in Range(ready) : p.conn = o.conn => p \in Completed(c)
  BY DEF Completed
<1>2. /\ ready' \in Seq(Operations) /\ Once(ready') /\ InOrder(ready')
      /\ Range(ready') = Range(ready) \cup {o}
  BY <1>1, Parts, AppendToQueue DEF Queued
<1> QED
  BY <1>2 DEF Completed, Of

LEMMA AcceptedKeeps ==
  ASSUME IInv, NEW c \in Conns, Accepted(c)
  PROVE  IInv'
<1> USE Parts
<1> DEFINE r == [conn[c] EXCEPT !.life = "live", !.open = TRUE]
           o == [conn |-> c, op |-> "start"]
<1>1. /\ conn[c].life = "accepting" /\ conn' = [conn EXCEPT ![c] = r] /\ ready' = Append(ready, o)
      /\ UNCHANGED <<timer, queueLength, reading, writes, worker, peer>>
  BY DEF Accepted
<1>2. /\ r \in Records /\ r.life = "live" /\ ~r.is_reading /\ ~r.is_writing /\ ~r.completed
      /\ ~r.thrown
  BY <1>1 DEF Records, ReadInv
<1>3. o \in Operations /\ o.conn = c /\ o.op = "start"
  BY DEF Operations
<1> HIDE DEF r, o
<1>4. /\ conn' \in [Conns -> Records] /\ conn'[c] = r /\ \A d \in Conns \ {c} : conn'[d] = conn[d]
  BY <1>1, <1>2
<1>5. /\ c \notin reading /\ ~Feeding(c) /\ writes[c] = <<>> /\ Completed(c) = {}
      /\ \A id \in DOMAIN timer.tasks : timer.tasks[id].conn \in Conns \ {c}
  BY <1>1, NothingOf DEF Live, TimerType
<1>6. /\ ready' \in Seq(Operations) /\ Once(ready') /\ InOrder(ready')
      /\ Completed(c)' = {o}
      /\ \A d \in Conns \ {c} : Of(ready', d) = Of(ready, d)
  BY <1>1, <1>3, <1>5, Completes DEF Queued
<1>7. OnlyOf(c)
  BY <1>1, <1>4, <1>6 DEF OnlyOf
<1>8. TimerType' /\ TimerInv'
  BY <1>1, <1>4, <1>5 DEF TimerType, TimerInv, Live
<1>9. queueLength' \in 0 .. Cardinality(Conns) /\ CountInv'
  <2>1. {d \in Conns : conn'[d].life \in {"accepting", "live"}} = {d \in Conns : conn[d].life \in {"accepting", "live"}}
    BY <1>1, <1>2, <1>4
  <2> QED
    BY <1>1, <2>1 DEF CountInv
<1>10. ~Feeding(c)' /\ writes'[c] = <<>> /\ c \notin reading'
  BY <1>1, <1>5 DEF Feeding
<1>11. ReadInv(c)' /\ WriteInv(c)' /\ RequestInv(c)'
  BY <1>2, <1>3, <1>4, <1>6, <1>10 DEF ReadInv, ReadPending, WriteInv, WritePending, RequestInv, Live, Queued, HasInput
<1>12. ReplyInv(c)'
  BY <1>1, <1>2, <1>4, <1>10 DEF ReplyInv, Live
<1>13. ThrownInv(c)'
  BY <1>2, <1>4 DEF ThrownInv
<1>14. reading' \subseteq Conns /\ writes' \in [Conns -> Seq(Replies)] /\ WorkerType' /\ PeerType'
  BY <1>1 DEF WorkerType, PeerType, PeerRecords
<1> QED
  BY <1>4, <1>6, <1>7, <1>8, <1>9, <1>11, <1>12, <1>13, <1>14, StepOf

-----------------------------------------------------------------------------
(* The peers and the kernel.                                               *)

\* What a step of a peer or the kernel leaves alone keeps its part of the invariant.
LEMMA OutsideKeeps ==
  ASSUME IInv, UNCHANGED <<conn, timer, queueLength, worker>>
  PROVE  /\ conn' \in [Conns -> Records] /\ TimerType' /\ TimerInv' /\ WorkerType'
         /\ queueLength' \in 0 .. Cardinality(Conns) /\ CountInv'
<1> USE Parts
<1>1. TimerType' /\ TimerInv' /\ WorkerType'
  BY DEF TimerType, TimerInv, WorkerType, Live
<1>2. queueLength' \in 0 .. Cardinality(Conns) /\ CountInv'
  BY SameCount
<1> QED
  BY <1>1, <1>2

\* A connection whose read is in flight.
LEMMA InFlight ==
  ASSUME IInv, NEW c \in reading
  PROVE  /\ c \in Conns /\ Live(c) /\ conn[c].is_reading /\ ~Feeding(c)
         /\ ~Queued(c, "read") /\ ~Queued(c, "start")
         /\ \A o \in Completed(c) : ~HasInput(o)
BY Parts DEF ReadInv, Queued, HasInput

LEMMA SendKeeps ==
  ASSUME "pipeline" \notin Manners, IInv, NEW c \in Conns, NEW chunk \in Chunks, Send(c, chunk)
  PROVE  IInv'
<1> USE Parts
<1> DEFINE o == [conn |-> c, op |-> "read", chunk |-> chunk]
           p == [peer[c] EXCEPT !.chunks = @ + 1,
                                !.state = IF chunk.events = <<>> THEN @
                                          ELSE IF chunk.events = <<"expect">> THEN "expects"
                                          ELSE "waits"]
<1>1. /\ c \in reading /\ ~Asked(c) /\ peer[c].chunks < MaxChunks
      /\ peer' = [peer EXCEPT ![c] = p]
      /\ reading' = reading \ {c} /\ ready' = Append(ready, o)
      /\ UNCHANGED <<conn, timer, queueLength, writes, worker>>
  BY DEF Send, MaySend, Asked
<1>2. o \in Operations /\ o.conn = c /\ o.op = "read" /\ o.chunk = chunk
  BY DEF Operations
<1>3. /\ peer' \in [Conns -> PeerRecords]
      /\ peer'[c].misled = peer[c].misled
      /\ chunk.events # <<>> => Asked(c)'
      /\ \A d \in Conns \ {c} : peer'[d] = peer[d]
  <2>1. peer[c].chunks + 1 \in 0 .. MaxChunks
    BY <1>1, TimesPositive DEF PeerType, PeerRecords
  <2>2. /\ p \in PeerRecords
        /\ p.misled = peer[c].misled
        /\ chunk.events # <<>> => p.state \in {"expects", "waits"}
    BY <2>1 DEF PeerType, PeerRecords
  <2> HIDE DEF p
  <2>3. peer'[c] = p
    BY <1>1 DEF PeerType, PeerRecords
  <2> QED
    BY <1>1, <2>2, <2>3 DEF PeerType, PeerRecords, Asked
<1> HIDE DEF o, p
<1>4. /\ Live(c) /\ conn[c].is_reading /\ ~Feeding(c) /\ ~Queued(c, "read") /\ ~Queued(c, "start")
      /\ \A q \in Completed(c) : ~HasInput(q)
  BY <1>1, InFlight
<1>5. writes[c] = <<>>
  BY <1>1 DEF ReplyInv
<1>6. /\ ready' \in Seq(Operations) /\ Once(ready') /\ InOrder(ready')
      /\ Completed(c)' = Completed(c) \cup {o}
      /\ \A d \in Conns \ {c} : Of(ready', d) = Of(ready, d)
  BY <1>1, <1>2, <1>4, Completes
<1>7. OnlyOf(c)
  BY <1>1, <1>3, <1>6 DEF OnlyOf
<1>8. /\ Queued(c, "read")' /\ ~Queued(c, "start")'
      /\ Queued(c, "write")' <=> Queued(c, "write")
  BY <1>2, <1>4, <1>6 DEF Queued
<1>9. ~Feeding(c)' /\ c \notin reading'
  BY <1>1, <1>4 DEF Feeding
<1>10. ReadInv(c)'
  BY <1>1, <1>4, <1>8, <1>9 DEF ReadInv, ReadPending, Live
<1>11. WriteInv(c)'
  BY <1>1, <1>8 DEF WriteInv, WritePending, Live
<1>12. RequestInv(c)'
  BY <1>1, <1>2, <1>3, <1>4, <1>5, <1>6, <1>9 DEF RequestInv, HasInput
<1>13. ReplyInv(c)'
  BY <1>1, <1>3, <1>4, <1>5 DEF ReplyInv, Live, Fed
<1>14. ThrownInv(c)'
  <2>1. ~conn[c].thrown
    BY <1>1 DEF ThrownInv, Send
  <2> QED
    BY <1>1, <2>1 DEF ThrownInv
<1>15. reading' \subseteq Conns /\ writes' \in [Conns -> Seq(Replies)] /\ PeerType'
  BY <1>1, <1>3 DEF PeerType, PeerRecords
<1>16. /\ conn' \in [Conns -> Records] /\ TimerType' /\ TimerInv' /\ WorkerType'
       /\ queueLength' \in 0 .. Cardinality(Conns) /\ CountInv'
  BY <1>1, OutsideKeeps
<1> QED
  BY <1>6, <1>7, <1>10, <1>11, <1>12, <1>13, <1>14, <1>15, <1>16, StepOf

\* A peer leaves.
LEMMA LeaveKeeps ==
  ASSUME IInv, NEW c \in Conns, HangUp(c) \/ Reset(c)
  PROVE  IInv'
<1> USE Parts
<1>1. PICK gone \in {"gone", "left", "reset"} :
         /\ peer' = [peer EXCEPT ![c].state = gone]
         /\ UNCHANGED <<conn, timer, queueLength, reading, writes, ready, worker>>
  BY DEF HangUp, Reset
<1>2. /\ PeerType' /\ Asked(c)' /\ peer'[c].misled = peer[c].misled
      /\ \A d \in Conns \ {c} : peer'[d] = peer[d]
  BY <1>1 DEF PeerType, PeerRecords, Asked
<1>3. OnlyOf(c)
  BY <1>1, <1>2 DEF OnlyOf
<1>4. Completed(c)' = Completed(c) /\ (Feeding(c)' <=> Feeding(c)) /\ \A op : Queued(c, op)' <=> Queued(c, op)
  BY <1>1 DEF Completed, Queued, Feeding
<1>5. ReadInv(c)'
  BY <1>1, <1>4 DEF ReadInv, ReadPending, Live
<1>6. WriteInv(c)'
  BY <1>1, <1>4 DEF WriteInv, WritePending, Live
<1>7. RequestInv(c)'
  BY <1>1, <1>2, <1>4 DEF RequestInv
<1>8. ReplyInv(c)'
  BY <1>1, <1>2, <1>4 DEF ReplyInv, Live, Fed
<1>9. ThrownInv(c)'
  BY <1>1, <1>4 DEF ThrownInv, Here, PeerType
<1>10. /\ conn' \in [Conns -> Records] /\ TimerType' /\ TimerInv' /\ WorkerType'
      /\ queueLength' \in 0 .. Cardinality(Conns) /\ CountInv'
  BY <1>1, OutsideKeeps
<1>11. /\ reading' \subseteq Conns /\ writes' \in [Conns -> Seq(Replies)]
       /\ ready' \in Seq(Operations) /\ Once(ready') /\ InOrder(ready')
  BY <1>1
<1> QED
  BY <1>2, <1>3, <1>5, <1>6, <1>7, <1>8, <1>9, <1>10, <1>11, StepOf

LEMMA ReadEndsKeeps ==
  ASSUME IInv, NEW c \in Conns, ReadEnds(c)
  PROVE  IInv'
<1> USE Parts
<1> DEFINE o == AbortedRead(c)
<1>1. /\ c \in reading /\ reading' = reading \ {c} /\ ready' = Append(ready, o)
      /\ UNCHANGED <<conn, timer, queueLength, writes, worker, peer>>
  BY DEF ReadEnds, AbortedRead
<1>2. o \in Operations /\ o.conn = c /\ o.op = "read" /\ ~HasInput(o)
  BY DEF Operations, AbortedRead, HasInput
<1> HIDE DEF o
<1>3. /\ Live(c) /\ conn[c].is_reading /\ ~Feeding(c) /\ ~Queued(c, "read") /\ ~Queued(c, "start")
      /\ \A q \in Completed(c) : ~HasInput(q)
  BY <1>1, InFlight
<1>4. /\ ready' \in Seq(Operations) /\ Once(ready') /\ InOrder(ready')
      /\ Completed(c)' = Completed(c) \cup {o}
      /\ \A d \in Conns \ {c} : Of(ready', d) = Of(ready, d)
  BY <1>1, <1>2, <1>3, Completes
<1>5. OnlyOf(c)
  BY <1>1, <1>4 DEF OnlyOf
<1>6. /\ Queued(c, "read")' /\ ~Queued(c, "start")'
      /\ Queued(c, "write")' <=> Queued(c, "write")
  BY <1>2, <1>3, <1>4 DEF Queued
<1>7. ~Feeding(c)' /\ c \notin reading'
  BY <1>1, <1>3 DEF Feeding
<1>8. ReadInv(c)'
  BY <1>1, <1>3, <1>6, <1>7 DEF ReadInv, ReadPending, Live
<1>9. WriteInv(c)'
  BY <1>1, <1>6 DEF WriteInv, WritePending, Live
<1>10. RequestInv(c)'
  <2>1. \A q \in Completed(c)' : ~HasInput(q)
    BY <1>2, <1>3, <1>4
  <2> QED
    BY <1>7, <2>1 DEF RequestInv, HasInput
<1>11. ReplyInv(c)'
  BY <1>1 DEF ReplyInv, Live, Fed, Feeding, Asked
<1>12. ThrownInv(c)'
  <2>1. \A q \in Completed(c)' : ~HasInput(q)
    BY <1>2, <1>3, <1>4
  <2> QED
    BY <1>1, <1>6, <1>7, <2>1 DEF ThrownInv
<1>13. reading' \subseteq Conns /\ writes' \in [Conns -> Seq(Replies)] /\ PeerType'
  BY <1>1 DEF PeerType, PeerRecords
<1>14. /\ conn' \in [Conns -> Records] /\ TimerType' /\ TimerInv' /\ WorkerType'
       /\ queueLength' \in 0 .. Cardinality(Conns) /\ CountInv'
  BY <1>1, OutsideKeeps
<1> QED
  BY <1>4, <1>5, <1>8, <1>9, <1>10, <1>11, <1>12, <1>13, <1>14, StepOf

\* A write ends. Its peer has not sent the next request.
LEMMA WriteEndsKeeps ==
  ASSUME IInv, NEW c \in Conns, WriteEnds(c)
  PROVE  IInv'
<1> USE Parts
<1>1. /\ writes[c] # <<>> /\ writes' = [writes EXCEPT ![c] = Tail(writes[c])]
      /\ UNCHANGED <<conn, timer, queueLength, reading, worker>>
  BY DEF WriteEnds
<1>2. /\ Tail(writes[c]) = <<>> /\ Head(writes[c]) = writes[c][1] /\ writes[c][1].own
      /\ Live(c) /\ conn[c].is_writing /\ ~Queued(c, "write")
      /\ ~Queued(c, "start") /\ ~conn[c].thrown
  <2>1. writes[c] \in Seq(Replies) /\ Len(writes[c]) <= 1
    BY DEF WriteInv
  <2> QED
    BY <1>1, <2>1, OneElement DEF WriteInv, ReplyInv, ReadInv, ThrownInv
<1>3. /\ \A q \in Completed(c) : ~HasInput(q)
      /\ Feeding(c) => worker.chunk.events = <<>>
  BY <1>1, <1>2 DEF RequestInv
<1>4. PICK error \in BOOLEAN : ready' = Append(ready, [conn |-> c, op |-> "write", error |-> error])
  BY DEF WriteEnds
<1>5. \/ peer' = peer
      \/ /\ ~peer[c].misled
         /\ \E s \in {"continues", "idle"} : peer' = [peer EXCEPT ![c].misled = FALSE, ![c].state = s]
  <2>1. ~(peer[c].misled \/ ~Head(writes[c]).own)
    BY <1>2 DEF ReplyInv
  <2>2. CASE peer' = [peer EXCEPT ![c].misled = peer[c].misled \/ ~Head(writes[c]).own,
                                  ![c].state = IF Head(writes[c]).kind = "continue" THEN "continues"
                                               ELSE "idle"]
    BY <2>1, <2>2
  <2> QED
    BY <2>2 DEF WriteEnds
<1>6. /\ PeerType' /\ ~peer'[c].misled
      /\ \A d \in Conns \ {c} : peer'[d] = peer[d]
  <2>1. CASE peer' = peer
    BY <2>1 DEF PeerType, PeerRecords, ReplyInv
  <2>2. ASSUME NEW s \in {"continues", "idle"},
               peer' = [peer EXCEPT ![c].misled = FALSE, ![c].state = s]
        PROVE  PeerType' /\ ~peer'[c].misled /\ \A d \in Conns \ {c} : peer'[d] = peer[d]
    <3> DEFINE p == [peer[c] EXCEPT !.misled = FALSE, !.state = s]
    <3>1. peer' = [peer EXCEPT ![c] = p]
      BY <2>2
    <3>2. /\ p \in PeerRecords
          /\ ~p.misled
      BY DEF PeerType, PeerRecords
    <3> HIDE DEF p
    <3> QED
      BY <3>1, <3>2 DEF PeerType, PeerRecords
  <2> QED
    BY <1>5, <2>1, <2>2
<1> DEFINE o == [conn |-> c, op |-> "write", error |-> error]
<1>7. o \in Operations /\ o.conn = c /\ o.op = "write" /\ ~HasInput(o) /\ ready' = Append(ready, o)
  BY <1>4 DEF Operations, HasInput
<1> HIDE DEF o
<1>8. /\ ready' \in Seq(Operations) /\ Once(ready') /\ InOrder(ready')
      /\ Completed(c)' = Completed(c) \cup {o}
      /\ \A d \in Conns \ {c} : Of(ready', d) = Of(ready, d)
  BY <1>2, <1>3, <1>7, Completes
<1>9. /\ writes'[c] = <<>> /\ \A d \in Conns \ {c} : writes'[d] = writes[d]
      /\ writes' \in [Conns -> Seq(Replies)] /\ Len(<<>>) = 0
  BY <1>1, <1>2
<1>10. OnlyOf(c)
  BY <1>1, <1>6, <1>8, <1>9 DEF OnlyOf
<1>11. /\ Queued(c, "write")' /\ ~Queued(c, "start")'
       /\ Queued(c, "read")' <=> Queued(c, "read")
  BY <1>2, <1>7, <1>8 DEF Queued
<1>12. Feeding(c)' <=> Feeding(c)
  BY <1>1 DEF Feeding
<1>13. ReadInv(c)'
  BY <1>1, <1>2, <1>11, <1>12 DEF ReadInv, ReadPending, Live
<1>14. WriteInv(c)'
  BY <1>1, <1>2, <1>9, <1>11 DEF WriteInv, WritePending, Live
<1>15. RequestInv(c)'
  <2>1. \A q \in Completed(c)' : ~HasInput(q)
    BY <1>3, <1>7, <1>8
  <2> QED
    BY <1>1, <1>3, <1>12, <2>1 DEF RequestInv, HasInput
<1>16. ReplyInv(c)'
  BY <1>1, <1>2, <1>6, <1>9 DEF ReplyInv, Live
<1>17. ThrownInv(c)'
  BY <1>1, <1>2 DEF ThrownInv
<1>18. /\ conn' \in [Conns -> Records] /\ TimerType' /\ TimerInv' /\ WorkerType'
       /\ queueLength' \in 0 .. Cardinality(Conns) /\ CountInv' /\ reading' \subseteq Conns
  BY <1>1, OutsideKeeps
<1> QED
  BY <1>6, <1>8, <1>9, <1>10, <1>13, <1>14, <1>15, <1>16, <1>17, <1>18, StepOf

-----------------------------------------------------------------------------
(* The timer.                                                              *)

LEMMA SameConnections ==
  ASSUME IInv, UNCHANGED <<conn, queueLength, reading, writes, ready, worker, peer>>,
         TimerType', TimerInv'
  PROVE  IInv'
<1> USE Parts
<1>1. queueLength' \in 0 .. Cardinality(Conns) /\ CountInv'
  BY SameCount
<1>2. TypeOK'
  BY <1>1 DEF TypeOK, Records, TimerType, WorkerType, PeerType, PeerRecords
<1>3. QueueInv'
  BY DEF QueueInv, Once, InOrder, HasInput
<1>4. ASSUME NEW c \in Conns PROVE ConnInv(c)'
  <2>1. /\ Completed(c)' = Completed(c) /\ (Feeding(c)' <=> Feeding(c))
        /\ \A op : Queued(c, op)' <=> Queued(c, op)
    BY DEF Completed, Queued, Feeding
  <2>2. ReadInv(c)'
    BY <2>1 DEF ReadInv, ReadPending, Live
  <2>3. WriteInv(c)'
    BY <2>1 DEF WriteInv, WritePending, Live
  <2>4. RequestInv(c)'
    BY <2>1 DEF RequestInv, Asked
  <2>5. ReplyInv(c)'
    BY <2>1 DEF ReplyInv, Live, Fed, Asked
  <2>6. ThrownInv(c)'
    BY <2>1 DEF ThrownInv, Here
  <2> QED
    BY <2>2, <2>3, <2>4, <2>5, <2>6 DEF ConnInv
<1> QED
  BY <1>1, <1>2, <1>3, <1>4 DEF IInv

LEMMA TickKeeps ==
  ASSUME IInv, Tick
  PROVE  IInv'
<1> USE Parts
<1> DEFINE tasks == [id \in DOMAIN timer.tasks |-> [timer.tasks[id] EXCEPT !.left = @ - 1]]
<1>1. /\ timer' = [tasks |-> tasks, highest |-> Highest(timer.tasks)]
      /\ Due = {}
      /\ UNCHANGED <<conn, queueLength, reading, writes, ready, worker, peer>>
  BY DEF Tick, Idle
<1>2. ASSUME NEW id \in DOMAIN timer.tasks
      PROVE  tasks[id] \in [conn : Conns, left : 0 .. Timeout] /\ tasks[id].conn = timer.tasks[id].conn
  <2>1. timer.tasks[id] \in [conn : Conns, left : 0 .. Timeout] /\ timer.tasks[id].left # 0
    BY <1>1 DEF TimerType, Due
  <2>2. timer.tasks[id].left - 1 \in 0 .. Timeout
    BY <2>1, TimesPositive
  <2> QED
    BY <2>1, <2>2
<1>3. DOMAIN tasks = DOMAIN timer.tasks
  OBVIOUS
<1> HIDE DEF tasks
<1>4. DOMAIN tasks \subseteq 1 .. Highest(timer.tasks) /\ Highest(timer.tasks) \in Nat
  BY <1>3 DEF Highest, TimerType
<1>5. tasks \in [DOMAIN tasks -> [conn : Conns, left : 0 .. Timeout]]
  <2>1. tasks = [id \in DOMAIN tasks |-> tasks[id]]
    BY DEF tasks
  <2> QED
    BY <1>2, <1>3, <2>1
<1>6. TimerType'
  BY <1>1, <1>4, <1>5 DEF TimerType
<1>7. TimerInv'
  BY <1>1, <1>2, <1>3 DEF TimerInv, Live
<1> QED
  BY <1>1, <1>6, <1>7, SameConnections

\* A task that is due closes its socket. Its connection lives until what that
\* aborts has been called back.
LEMMA ExpireKeeps ==
  ASSUME IInv, NEW id \in Due, Expire(id)
  PROVE  IInv'
<1> USE Parts
<1> PICK c \in Conns : c = timer.tasks[id].conn
  BY DEF Due, TimerType
<1> DEFINE rest == Cancel(timer, id).tasks
           r == [conn[c] EXCEPT !.open = FALSE]
<1>1. /\ id \in DOMAIN timer.tasks /\ Live(c) /\ worker = None
      /\ timer' = [tasks |-> rest, highest |-> Highest(rest)]
      /\ conn' = [conn EXCEPT ![c] = r]
      /\ reading' = reading \ {c} /\ writes' = [writes EXCEPT ![c] = <<>>]
      /\ ready' = ready \o Aborted(c)
      /\ UNCHANGED <<queueLength, worker, peer>>
  BY DEF Due, Expire, TimerType, TimerInv, CloseSocket
<1>2. /\ rest \in [DOMAIN rest -> [conn : Conns, left : 0 .. Timeout]]
      /\ DOMAIN rest \subseteq 1 .. timer.highest
      /\ DOMAIN rest \subseteq DOMAIN timer.tasks
      /\ \A i \in DOMAIN rest : rest[i] = timer.tasks[i]
  <2>1. TimerOK(timer)
    BY DEF TimerOK, TimerType
  <2> QED
    <3>1. /\ TimerOK(Cancel(timer, id)) /\ Cancel(timer, id).highest = timer.highest
          /\ DOMAIN rest = DOMAIN timer.tasks \ {id}
          /\ \A i \in DOMAIN timer.tasks \ {id} : rest[i] = timer.tasks[i]
      BY <2>1, Cancelled
    <3> QED
      BY <3>1 DEF TimerOK
<1>3. /\ r \in Records /\ r.life = "live" /\ r.task_id = conn[c].task_id
      /\ r.is_reading = conn[c].is_reading /\ r.is_writing = conn[c].is_writing
      /\ r.completed = conn[c].completed /\ r.thrown = conn[c].thrown
  BY <1>1 DEF Records, Live
<1> HIDE DEF rest, r
<1>4. /\ conn' \in [Conns -> Records] /\ conn'[c] = r /\ \A d \in Conns \ {c} : conn'[d] = conn[d]
  BY <1>1, <1>3
<1>5. \A d \in Conns : conn'[d].life = conn[d].life /\ conn'[d].task_id = conn[d].task_id
  BY <1>1, <1>3, <1>4 DEF Live
<1>6. TimerType'
  <2>1. DOMAIN rest \subseteq 1 .. Highest(rest) /\ Highest(rest) \in Nat
    BY <1>2 DEF Highest, TimerType
  <2> QED
    BY <1>1, <1>2, <2>1 DEF TimerType
<1>7. TimerInv'
  <2>1. timer'.tasks = rest
    BY <1>1
  <2>2. \A i \in DOMAIN rest : rest[i].conn \in Conns
    BY <1>2
  <2> QED
    BY <1>2, <1>5, <2>1, <2>2 DEF TimerInv, Live
<1>8. queueLength' \in 0 .. Cardinality(Conns) /\ CountInv'
  BY <1>1, <1>5, SameCount
<1>9. /\ c \in reading => conn[c].is_reading /\ ~Queued(c, "read")
      /\ Queued(c, "read") => conn[c].is_reading
      /\ writes[c] # <<>> => conn[c].is_writing /\ ~Queued(c, "write")
      /\ Queued(c, "write") => conn[c].is_writing
      /\ conn[c].is_writing => writes[c] # <<>> \/ Queued(c, "write") \/ conn[c].thrown
      /\ conn[c].is_reading => c \in reading \/ Queued(c, "read") \/ conn[c].thrown
      /\ Queued(c, "start") => ~conn[c].is_reading /\ ~conn[c].is_writing
      /\ writes[c] # <<>> => \A o \in Completed(c) : ~HasInput(o)
      /\ writes[c] \in Seq(Replies) /\ Len(writes[c]) <= 1
  BY <1>1 DEF ReadInv, ReadPending, WriteInv, WritePending, RequestInv, Feeding
<1>10. /\ ready' \in Seq(Operations) /\ Once(ready') /\ InOrder(ready')
       /\ Of(ready', c) = Of(ready, c) \cup AbortedSet(c)
       /\ \A d \in Conns \ {c} : Of(ready', d) = Of(ready, d)
  <2>1. /\ c \in reading => \A o \in Of(ready, c) : o.op # "read"
        /\ writes[c] # <<>> => \A o \in Of(ready, c) : o.op # "write" /\ ~HasInput(o)
    BY <1>9 DEF Queued, Of, Completed
  <2> QED
    BY <1>1, <1>9, <2>1, Closing
<1>11. Completed(c)' = Completed(c) \cup AbortedSet(c)
  BY <1>10 DEF Completed, Of
<1>12. \A o \in AbortedSet(c) : /\ o.op \in {"read", "write"} /\ ~HasInput(o)
                                /\ o.op = "read" => c \in reading
                                /\ o.op = "write" => writes[c] # <<>>
  BY DEF AbortedSet, AbortedRead, AbortedWrite, HasInput
<1>13. /\ writes[c] # <<>> => \E o \in AbortedSet(c) : o.op = "write"
       /\ c \in reading => \E o \in AbortedSet(c) : o.op = "read"
  <2>1. /\ writes[c] # <<>> => AbortedWrite(c) \in AbortedSet(c)
        /\ c \in reading => AbortedRead(c) \in AbortedSet(c)
    BY DEF AbortedSet
  <2> QED
    BY <2>1 DEF AbortedWrite, AbortedRead
<1>14. \A op : Queued(c, op) => Queued(c, op)'
  BY <1>11 DEF Queued
<1>15. /\ Queued(c, "read")' => conn[c].is_reading
       /\ Queued(c, "write")' => conn[c].is_writing
       /\ Queued(c, "start")' => Queued(c, "start")
  BY <1>9, <1>11, <1>12 DEF Queued
<1>16. /\ conn[c].is_writing => Queued(c, "write")' \/ conn[c].thrown
       /\ conn[c].is_reading => Queued(c, "read")' \/ conn[c].thrown
  BY <1>9, <1>11, <1>13, <1>14 DEF Queued
<1>17. /\ writes'[c] = <<>> /\ \A d \in Conns \ {c} : writes'[d] = writes[d]
       /\ writes' \in [Conns -> Seq(Replies)] /\ Len(<<>>) = 0
  BY <1>1
<1>18. OnlyOf(c)
  BY <1>1, <1>4, <1>10, <1>17 DEF OnlyOf
<1>19. ~Feeding(c)' /\ c \notin reading'
  BY <1>1 DEF Feeding
<1>20. ReadInv(c)'
  BY <1>3, <1>4, <1>9, <1>15, <1>16, <1>19 DEF ReadInv, ReadPending, Live
<1>21. WriteInv(c)'
  <2>1. /\ conn'[c].is_writing <=> conn[c].is_writing
        /\ conn'[c].thrown <=> conn[c].thrown
    BY <1>3, <1>4
  <2>2. Len(writes'[c]) <= 1
    BY <1>17
  <2> QED
    BY <1>15, <1>16, <1>17, <2>1, <2>2 DEF WriteInv, WritePending
<1>22. RequestInv(c)'
  BY <1>1, <1>11, <1>12, <1>17, <1>19 DEF RequestInv, Asked, HasInput
<1>23. ReplyInv(c)'
  BY <1>1, <1>3, <1>4, <1>17 DEF ReplyInv, Live, Fed, Feeding
<1>24. ThrownInv(c)'
  <2>1. conn'[c].thrown => writes[c] = <<>> /\ ~Queued(c, "write")' /\ \A o \in Completed(c) : ~HasInput(o)
    BY <1>3, <1>4, <1>11, <1>12 DEF ThrownInv, Queued
  <2> QED
    BY <1>11, <1>12, <1>17, <1>19, <2>1 DEF ThrownInv
<1>25. reading' \subseteq Conns /\ WorkerType' /\ PeerType'
  BY <1>1 DEF WorkerType, PeerType, PeerRecords
<1> QED
  BY <1>1, <1>4, <1>6, <1>7, <1>8, <1>10, <1>17, <1>18, <1>20, <1>21, <1>22, <1>23, <1>24, <1>25, StepOf

-----------------------------------------------------------------------------
(* The theorems.                                                           *)

LEMMA InitHolds ==
  ASSUME Init
  PROVE  IInv
<1>1. /\ Range(ready) = {} /\ DOMAIN timer.tasks = {} /\ DOMAIN ready = {} /\ worker = None
      /\ timer = [tasks |-> <<>>, highest |-> 0]
  BY DEF Init, Range
<1>2. {c \in Conns : conn[c].life \in {"accepting", "live"}} = {}
  BY DEF Init
<1>3. CountInv /\ queueLength \in 0 .. Cardinality(Conns)
  <2>1. Cardinality({}) = 0 /\ Cardinality(Conns) \in Nat
    BY ConnsFinite, FS_EmptySet, FS_CardinalityType
  <2>2. queueLength = 0
    BY DEF Init
  <2>3. CountInv
    BY <1>2, <2>1, <2>2 DEF CountInv
  <2> QED
    BY <2>1, <2>2, <2>3
<1>4. TypeOK
  <2>1. timer.tasks \in [DOMAIN timer.tasks -> [conn : Conns, left : 0 .. Timeout]]
    BY <1>1
  <2>2. conn \in [Conns -> Records]
    BY DEF Init, Records
  <2>3. PeerType
    BY TimesPositive DEF Init, PeerType, PeerRecords
  <2> QED
    BY <1>1, <1>3, <2>1, <2>2, <2>3 DEF Init, TypeOK, Records, PeerType, PeerRecords
<1>5. TimerInv /\ QueueInv
  BY <1>1 DEF TimerInv, QueueInv, Once, InOrder
<1>6. ASSUME NEW c \in Conns PROVE ConnInv(c)
  <2>1. Completed(c) = {} /\ ~Feeding(c) /\ \A op : ~Queued(c, op)
    BY <1>1 DEF Completed, Feeding, Queued
  <2>2. /\ conn[c].life = "free" /\ ~conn[c].is_reading /\ ~conn[c].is_writing /\ ~conn[c].completed
        /\ writes[c] = <<>> /\ Len(writes[c]) = 0 /\ c \notin reading /\ ~peer[c].misled
        /\ ~conn[c].thrown
    BY DEF Init
  <2> QED
    BY <2>1, <2>2 DEF ConnInv, ReadInv, ReadPending, WriteInv, WritePending, RequestInv, ReplyInv, ThrownInv, Live, Fed
<1> QED
  BY <1>3, <1>4, <1>5, <1>6 DEF IInv

LEMMA NextKeeps ==
  ASSUME "pipeline" \notin Manners, IInv, [Next]_vars
  PROVE  IInv'
<1>1. CASE UNCHANGED vars
  <2>1. TimerType' /\ TimerInv'
    BY <1>1, Parts DEF vars, TimerType, TimerInv, Live
  <2> QED
    BY <1>1, <2>1, SameConnections DEF vars
<1>2. CASE Timer
  BY <1>2, TickKeeps, ExpireKeeps DEF Timer
<1>3. ASSUME NEW c \in Conns, Work(c)
      PROVE  IInv'
  <2>1. CASE Start(c)
    BY <2>1, StartKeeps
  <2>2. CASE ReadCallback(c)
    BY <2>2, ReadCallbackKeeps
  <2>3. CASE HandleHeader(c)
    BY <2>3, HandleHeaderKeeps
  <2>4. CASE \E e \in Requests : Handle(c, e)
    BY <2>4, HandleKeeps
  <2>5. CASE \E e \in Requests : HandleStream(c, e) \/ HandleStreamFails(c, e)
    BY <2>5, HandleStreamKeeps, HandleStreamFailsKeeps
  <2>6. CASE HandleUpgrade(c)
    BY <2>6, HandleUpgradeKeeps
  <2>7. CASE HandleThrows(c)
    BY <2>7, HandleThrowsKeeps
  <2>8. CASE ReadError(c)
    BY <2>8, ReadErrorKeeps
  <2>9. CASE BadInput(c)
    BY <2>9, BadInputKeeps
  <2>10. CASE LastRead(c)
    BY <2>10, LastReadKeeps
  <2>11. CASE ReadOn(c)
    BY <2>11, ReadOnKeeps
  <2>12. CASE WriteCallback(c)
    BY <2>12, WriteCallbackKeeps
  <2> QED
    BY <1>3, <2>1, <2>2, <2>3, <2>4, <2>5, <2>6, <2>7, <2>8, <2>9, <2>10, <2>11, <2>12 DEF Work
<1> QED
  BY <1>1, <1>2, <1>3, CreateKeeps, AcceptedKeeps, AcceptFailsKeeps, SendKeeps, LeaveKeeps,
     ReadEndsKeeps, WriteEndsKeeps DEF Next

\* The inductive invariant, for peers that wait for a reply before the next
\* request, whatever else they do, and whenever they hang up or reset.
THEOREM Invariance ==
  ASSUME "pipeline" \notin Manners
  PROVE  Spec => []IInv
<1>1. Init => IInv
  BY InitHolds
<1>2. IInv /\ [Next]_vars => IInv'
  BY NextKeeps
<1> QED
  BY <1>1, <1>2, PTL DEF Spec

\* check_destroy, the aborted operations of a closed socket and the cancelled
\* deadlines together: if no peer pipelines, the bare this of no callback and no
\* task outlives its Connection, although the timer issues the ids of its tasks
\* again. The assumption is needed: of two writes under the one flag is_writing the
\* first callback takes it down, and the second may find the Connection deleted.
THEOREM ConnectionsAlive ==
  ASSUME "pipeline" \notin Manners
  PROVE  Spec => []Alive
<1>1. IInv => Alive
  <2> SUFFICES ASSUME IInv PROVE OperationsAlive
    BY DEF Alive, IInv
  <2> USE Parts
  <2>1. ASSUME NEW c \in Conns, conn[c].life = "deleted" PROVE c \notin reading /\ writes[c] = <<>>
    BY <2>1, NothingOf DEF Live
  <2>2. ASSUME NEW i \in DOMAIN ready PROVE conn[ready[i].conn].life = "live"
    <3>1. ready[i] \in Operations /\ ready[i].conn \in Conns
      BY DEF Operations
    <3>2. ready[i] \in Completed(ready[i].conn)
      BY DEF Completed, Range
    <3> QED
      BY <3>1, <3>2 DEF ReadInv, Live
  <2>3. \A id \in DOMAIN timer.tasks : conn[timer.tasks[id].conn].life = "live"
    BY DEF TimerInv, Live
  <2> QED
    BY <2>1, <2>2, <2>3 DEF OperationsAlive
<1> QED
  BY <1>1, Invariance, PTL

\* The buffers and the response that do_write hands to asio are not filled again
\* before the bytes have gone: a peer that does not pipeline reads the reply to its
\* own request. One that does may not.
THEOREM RepliesTheirOwn ==
  ASSUME "pipeline" \notin Manners
  PROVE  Spec => []RepliesOwn
<1>1. IInv => RepliesOwn
  BY DEF IInv, ConnInv, ReplyInv, RepliesOwn
<1> QED
  BY <1>1, Invariance, PTL

\* check_destroy may rely on its flags: if no peer pipelines, a flag that is down has
\* nothing in flight under it, and one that is up has something, but for those that
\* a callback has left up by throwing.
THEOREM FlagsTellTruth ==
  ASSUME "pipeline" \notin Manners
  PROVE  Spec => []FlagsTruthful
<1>1. IInv => FlagsTruthful
  <2> SUFFICES ASSUME IInv, NEW c \in Conns, Live(c)
               PROVE  /\ ReadPending(c) => conn[c].is_reading
                      /\ WritePending(c) => conn[c].is_writing
                      /\ ~conn[c].thrown => /\ conn[c].is_reading => ReadPending(c)
                                            /\ conn[c].is_writing => WritePending(c)
    BY DEF FlagsTruthful, Live
  <2>1. ReadPending(c) => conn[c].is_reading
    BY Parts DEF ReadInv, ReadPending
  <2>2. WritePending(c) => conn[c].is_writing
    BY Parts DEF WriteInv, WritePending
  <2>3. ~conn[c].thrown => /\ conn[c].is_reading => ReadPending(c)
                           /\ conn[c].is_writing => WritePending(c)
    BY Parts DEF ReadInv, WriteInv
  <2> QED
    BY <2>1, <2>2, <2>3
<1> QED
  BY <1>1, Invariance, PTL
=============================================================================
