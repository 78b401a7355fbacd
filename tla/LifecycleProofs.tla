--------------------------- MODULE LifecycleProofs ---------------------------
(***************************************************************************)
(* Theorems about Lifecycle, for any keys, values, workers and files and   *)
(* any number of runs.                                                     *)
(***************************************************************************)
EXTENDS Lifecycle, TLAPS

\* The memory of a new process is of its type.
LEMMA FreshType ==
  /\ Nothing \in [Keys -> Values \cup {None}]
  /\ <<>> \in Seq(Records)
  /\ Missing \in Files /\ Garbage \in Files
  /\ \A r \in Seq(Records) : Object(r) \in Files /\ Object(r).records = r /\ Object(r).kind = "object"
  /\ Missing.kind = "missing" /\ Garbage.kind = "garbage"
BY DEF Nothing, Missing, Garbage, Object, Files

\* A record of the engine is one of the document.
LEMMA RecordType ==
  \A k \in Keys, v \in Values : [key |-> k, value |-> v] \in Records
BY DEF Records

\* An element of a sequence.
LEMMA ElementType ==
  ASSUME NEW S, NEW s \in Seq(S), NEW i \in Nat \ {0}, i <= Len(s)
  PROVE  s[i] \in S /\ i \in DOMAIN s
OBVIOUS

\* The members of the file.
LEMMA MembersType ==
  ASSUME TypeOK
  PROVE  file.records \in Seq(Records) /\ Len(file.records) \in Nat
<1>1. file.records \in Seq(Records)
  BY DEF TypeOK, Files
<1>2. \A r \in Seq(Records) : Len(r) \in Nat
  OBVIOUS
<1> QED
  BY <1>1, <1>2

\* The numbers before one that lies in 1 .. n + 1.
LEMMA Before ==
  ASSUME NEW n \in Nat, NEW m \in 1 .. n + 1, NEW i \in 1 .. m - 1
  PROVE  i \in Nat \ {0} /\ i <= n
OBVIOUS

\* The records in front of load()'s cursor have keys.
LEMMA MemberKeys ==
  ASSUME TypeOK, next \in 1 .. Len(file.records) + 1
  PROVE  \A i \in 1 .. next - 1 : file.records[i].key \in Keys
<1> TAKE i \in 1 .. next - 1
<1>1. i \in Nat \ {0} /\ i <= Len(file.records)
  BY MembersType, Before
<1>2. file.records[i] \in Records
  BY <1>1, MembersType, ElementType
<1> QED
  BY <1>2 DEF Records

\* The sequence with one more element.
LEMMA AppendType ==
  ASSUME NEW S, NEW s \in Seq(S), NEW e \in S
  PROVE  /\ Append(s, e) \in Seq(S)
         /\ DOMAIN Append(s, e) = DOMAIN s \cup {Len(s) + 1}
         /\ \A i \in DOMAIN s : Append(s, e)[i] = s[i]
         /\ Append(s, e)[Len(s) + 1] = e
OBVIOUS

\* The first run begins in the invariant.
LEMMA InitIInv == Init => IInv
<1> SUFFICES ASSUME Init PROVE IInv
  OBVIOUS
<1>1. TypeOK
  BY FreshType, FilesKnown, RunsPositive DEF Init, TypeOK, FreshMemory, Phases
<1>2. PhaseInv /\ LoadInv /\ DocumentInv /\ KeepInv
  BY DEF Init, FreshMemory, PhaseInv, LoadInv, DocumentInv, KeepInv
<1>3. FileInv
  BY DEF Init, FileInv, Holds
<1> QED
  BY <1>1, <1>2, <1>3 DEF IInv

-----------------------------------------------------------------------------
(* Every step keeps the types.                                             *)

\* One step per action of main, the workers and the environment.
LEMMA NextTypeOK == TypeOK /\ [Next]_vars => TypeOK'
<1> SUFFICES ASSUME TypeOK, [Next]_vars PROVE TypeOK'
  OBVIOUS
<1> USE DEF memory, process
<1>1. CASE IsLockFree
  BY <1>1 DEF IsLockFree, TypeOK, Phases
<1>2. CASE IsLockFreeAgain
  BY <1>2 DEF IsLockFreeAgain, TypeOK, vars
<1>3. CASE LoadNothing
  BY <1>3 DEF LoadNothing, TypeOK, Phases
<1>4. CASE LoadParsed
  BY <1>4 DEF LoadParsed, TypeOK, Phases
<1>5. CASE LoadRecord
  <2>1. file.records \in Seq(Records) /\ next \in Nat \ {0} /\ next <= Len(file.records)
    BY <1>5 DEF LoadRecord, TypeOK, Files
  <2>2. file.records[next] \in Records
    BY <2>1, ElementType
  <2>3. file.records[next].key \in Keys
    BY <2>2 DEF Records
  <2>4. store' \in [Keys -> Values \cup {None}]
    BY <1>5, <2>3 DEF LoadRecord, TypeOK
  <2>5. next' = next + 1
    BY <1>5 DEF LoadRecord
  <2>6. next' \in Nat \ {0}
    BY <2>1, <2>5
  <2> QED
    BY <1>5, <2>4, <2>6 DEF LoadRecord, TypeOK
<1>6. CASE LoadEnds
  BY <1>6 DEF LoadEnds, TypeOK, Phases
<1>7. CASE RunReturns
  BY <1>7 DEF RunReturns, TypeOK, Phases
<1>8. ASSUME NEW key \in Keys, Visit(key) PROVE TypeOK'
  <2>1. store[key] \in Values
    BY <1>8 DEF Visit, TypeOK
  <2>2. [key |-> key, value |-> store[key]] \in Records
    BY <2>1, RecordType
  <2>3. document' \in Seq(Records)
    BY <1>8, <2>2, AppendType DEF Visit, TypeOK
  <2> QED
    BY <1>8, <2>3 DEF Visit, TypeOK
<1>9. CASE Enumerated
  BY <1>9 DEF Enumerated, TypeOK, Phases
<1>10. CASE OpenFails
  BY <1>10 DEF OpenFails, TypeOK, Phases
<1>11. CASE OpenTruncates
  <2>1. file' \in Files
    BY <1>11, FreshType DEF OpenTruncates
  <2>2. next' \in Nat \ {0}
    BY <1>11 DEF OpenTruncates
  <2> QED
    BY <1>11, <2>1, <2>2 DEF OpenTruncates, TypeOK, Phases
<1>12. CASE WriteRecord
  <2>1. document[next] \in Records
    BY <1>12, ElementType DEF WriteRecord, TypeOK
  <2>2. Append(written, document[next]) \in Seq(Records)
    BY <2>1, AppendType DEF TypeOK
  <2>3. written' \in Seq(Records)
    BY <1>12, <2>2 DEF WriteRecord, TypeOK
  <2>4. next \in Nat \ {0} /\ next' = next + 1
    BY <1>12 DEF WriteRecord, TypeOK
  <2>5. next' \in Nat \ {0}
    BY <2>4
  <2> QED
    BY <1>12, <2>3, <2>5 DEF WriteRecord, TypeOK
<1>13. CASE Close
  <2>1. file' \in Files
    <3>1. file' = Object(written) \/ file' = Garbage
      BY <1>13 DEF Close
    <3>2. written \in Seq(Records)
      BY DEF TypeOK
    <3> QED
      BY <3>1, <3>2, FreshType
  <2>2. saved' \in [Keys -> Values \cup {None}] \cup {None}
    BY <1>13 DEF Close, TypeOK
  <2> QED
    BY <1>13, <2>1, <2>2 DEF Close, TypeOK, Phases
<1>14. ASSUME NEW w \in Workers, Handle(w) PROVE TypeOK'
  <2>1. request[w] \in [key : Keys, value : Values]
    BY <1>14 DEF Handle, TypeOK
  <2> QED
    BY <1>14, <2>1 DEF Handle, TypeOK
<1>15. ASSUME NEW w \in Workers, HandleFails(w) PROVE TypeOK'
  BY <1>15 DEF HandleFails, TypeOK
<1>16. ASSUME NEW w \in Workers, WorkerExits(w) PROVE TypeOK'
  BY <1>16 DEF WorkerExits, TypeOK
<1>17. ASSUME NEW w \in Workers, NEW key \in Keys, NEW value \in Values, Receive(w, key, value)
       PROVE  TypeOK'
  BY <1>17 DEF Receive, TypeOK
<1>18. CASE Signal
  BY <1>18 DEF Signal, TypeOK, Phases
<1>19. CASE Crash
  BY <1>19 DEF Crash, TypeOK, Phases
<1>20. CASE Restart
  <2>1. runs' \in 1 .. MaxRuns
    <3>1. runs \in 1 .. MaxRuns /\ runs < MaxRuns /\ runs' = runs + 1
      BY <1>20 DEF Restart, TypeOK
    <3> QED
      BY <3>1, RunsPositive
  <2>2. /\ store' \in [Keys -> Values \cup {None}] /\ next' \in Nat \ {0}
        /\ document' \in Seq(Records) /\ written' \in Seq(Records) /\ freed' \subseteq Keys
    BY <1>20, FreshType DEF Restart, FreshMemory
  <2>3. request' \in [Workers -> {None, Exited} \cup [key : Keys, value : Values]]
    BY <1>20 DEF Restart, FreshMemory
  <2> QED
    BY <1>20, <2>1, <2>2, <2>3 DEF Restart, TypeOK, Phases
<1>21. CASE UNCHANGED vars
  BY <1>21 DEF vars, TypeOK
<1> QED
  BY <1>1, <1>2, <1>3, <1>4, <1>5, <1>6, <1>7, <1>8, <1>9, <1>10, <1>11, <1>12, <1>13, <1>14,
     <1>15, <1>16, <1>17, <1>18, <1>19, <1>20, <1>21 DEF Next, Main, Work
-----------------------------------------------------------------------------
(* Every step keeps what the phases have left of the memory.               *)

\* No worker has a request in hand before main serves or once run() has
\* returned: a handler's set happens in between.
LEMMA HandledWhileServing ==
  ASSUME TypeOK, PhaseInv, NEW w \in Workers, Handle(w)
  PROVE  /\ phase \in {"serving", "stopping"} /\ phase' = phase
         /\ document = <<>> /\ document' = document
         /\ freed' = {} /\ freed = {}
         /\ request[w].key \in Keys /\ request[w].value \in Values
         /\ request' = [request EXCEPT ![w] = None]
<1>1. phase \in {"serving", "stopping"} /\ phase' = phase
  BY DEF Handle, PhaseInv, TypeOK, Phases, Running
<1>2. document = <<>> /\ document' = document /\ freed = {}
  BY <1>1 DEF Handle, PhaseInv
<1>3. DOMAIN document = {}
  BY <1>2
<1>4. freed' = {}
  BY <1>2, <1>3 DEF Handle
<1>5. request[w] \in [key : Keys, value : Values]
  BY DEF Handle, TypeOK
<1> QED
  BY <1>1, <1>2, <1>4, <1>5 DEF Handle

\* A phase is entered only with the memory PhaseInv names.
LEMMA NextPhaseInv == TypeOK /\ PhaseInv /\ [Next]_vars => PhaseInv'
<1> SUFFICES ASSUME TypeOK, PhaseInv, [Next]_vars PROVE PhaseInv'
  OBVIOUS
<1> USE DEF memory, process
<1>1. CASE IsLockFree
  BY <1>1 DEF IsLockFree, PhaseInv
<1>2. CASE IsLockFreeAgain
  BY <1>2 DEF IsLockFreeAgain, PhaseInv, vars
<1>3. CASE LoadNothing
  BY <1>3 DEF LoadNothing, PhaseInv
<1>4. CASE LoadParsed
  BY <1>4 DEF LoadParsed, PhaseInv
<1>5. CASE LoadRecord
  BY <1>5 DEF LoadRecord, PhaseInv
<1>6. CASE LoadEnds
  BY <1>6 DEF LoadEnds, PhaseInv
<1>7. CASE RunReturns
  BY <1>7 DEF RunReturns, PhaseInv
<1>8. ASSUME NEW key \in Keys, Visit(key) PROVE PhaseInv'
  BY <1>8 DEF Visit, PhaseInv
<1>9. CASE Enumerated
  BY <1>9 DEF Enumerated, PhaseInv
<1>10. CASE OpenFails
  BY <1>10 DEF OpenFails, PhaseInv
<1>11. CASE OpenTruncates
  BY <1>11 DEF OpenTruncates, PhaseInv
<1>12. CASE WriteRecord
  BY <1>12 DEF WriteRecord, PhaseInv
<1>13. CASE Close
  BY <1>13 DEF Close, PhaseInv
<1>14. ASSUME NEW w \in Workers, Handle(w) PROVE PhaseInv'
  BY <1>14, HandledWhileServing DEF PhaseInv
<1>15. ASSUME NEW w \in Workers, HandleFails(w) PROVE PhaseInv'
  BY <1>15 DEF HandleFails, PhaseInv, TypeOK, Phases, Running
<1>16. ASSUME NEW w \in Workers, WorkerExits(w) PROVE PhaseInv'
  BY <1>16 DEF WorkerExits, PhaseInv
<1>17. ASSUME NEW w \in Workers, NEW key \in Keys, NEW value \in Values, Receive(w, key, value)
       PROVE  PhaseInv'
  BY <1>17 DEF Receive, PhaseInv
<1>18. CASE Signal
  BY <1>18 DEF Signal, PhaseInv
<1>19. CASE Crash
  BY <1>19 DEF Crash, PhaseInv
<1>20. CASE Restart
  BY <1>20 DEF Restart, FreshMemory, PhaseInv
<1>21. CASE UNCHANGED vars
  BY <1>21 DEF vars, PhaseInv
<1> QED
  BY <1>1, <1>2, <1>3, <1>4, <1>5, <1>6, <1>7, <1>8, <1>9, <1>10, <1>11, <1>12, <1>13, <1>14,
     <1>15, <1>16, <1>17, <1>18, <1>19, <1>20, <1>21 DEF Next, Main, Work

-----------------------------------------------------------------------------
(* Every step keeps the file what saved says it is.                        *)

\* Only the save and a crash in its midst touch the file or what is known of it.
LEMMA OnlySaveWrites ==
  ASSUME [Next]_vars
  PROVE  \/ OpenTruncates \/ Close \/ Crash
         \/ file' = file /\ saved' = saved /\ (phase' = "saving" <=> phase = "saving")
BY DEF Next, Main, Work, vars, IsLockFree, IsLockFreeAgain, LoadNothing, LoadParsed, LoadRecord,
   Running, Phases, LoadEnds, RunReturns, Visit, Enumerated, OpenFails, WriteRecord, Handle, HandleFails,
   WorkerExits, Receive, Signal, Restart

\* A file that is vouched for is left alone until the save rewrites it, and then
\* holds the document, which is the engine's contents.
LEMMA NextFileInv == TypeOK /\ FileInv /\ DocumentInv /\ [Next]_vars => FileInv'
<1> SUFFICES ASSUME TypeOK, FileInv, DocumentInv, [Next]_vars PROVE FileInv'
  OBVIOUS
<1>1. CASE OpenTruncates
  BY <1>1 DEF OpenTruncates, FileInv
<1>2. CASE Close
  <2> SUFFICES ASSUME saved' # None PROVE Holds'
    BY DEF FileInv
  <2>1. file' = Object(document) /\ saved' = store /\ phase = "saving" /\ store' = store
    BY <1>2 DEF Close, memory
  <2>2. file'.kind = "object" /\ file'.records = document
    BY <2>1, FreshType DEF TypeOK
  <2>3. \A i \in DOMAIN document :
            document[i].value \in Values /\ store[document[i].key] = document[i].value
    BY <2>1 DEF DocumentInv
  <2>4. \A k \in Keys : store[k] # None => \E i \in DOMAIN document : document[i].key = k
    BY <2>1 DEF DocumentInv, Collected
  <2> QED
    BY <2>1, <2>2, <2>3, <2>4 DEF Holds
<1>3. CASE Crash
  BY <1>3 DEF Crash, FileInv, Holds
<1>4. CASE file' = file /\ saved' = saved /\ (phase' = "saving" <=> phase = "saving")
  BY <1>4 DEF FileInv, Holds
<1> QED
  BY <1>1, <1>2, <1>3, <1>4, OnlySaveWrites
-----------------------------------------------------------------------------
(* Every step keeps the engine what load() has made of the file.           *)

\* A file of members that is known to hold what was saved.
LEMMA HoldsObject ==
  ASSUME Holds, file.kind = "object"
  PROVE  /\ \A i \in DOMAIN file.records :
                file.records[i].value \in Values /\ saved[file.records[i].key] = file.records[i].value
         /\ \A k \in Keys : saved[k] # None => \E i \in DOMAIN file.records : file.records[i].key = k
BY FreshType DEF Holds

\* Only load() and the handlers change the engine or the cursor while it loads.
LEMMA OnlyLoadLoads ==
  ASSUME TypeOK, PhaseInv, [Next]_vars, phase' = "loading"
  PROVE  \/ LoadParsed \/ LoadRecord
         \/ phase = "loading" /\ file' = file /\ saved' = saved /\ next' = next /\ store' = store
<1>1. ASSUME NEW w \in Workers, Handle(w) PROVE FALSE
  BY <1>1, HandledWhileServing
<1> QED
  BY <1>1 DEF Next, Main, Work, vars, memory, IsLockFree, IsLockFreeAgain, LoadNothing, LoadEnds,
     RunReturns, Visit, Enumerated, OpenFails, OpenTruncates, WriteRecord, Close, HandleFails,
     WorkerExits, Receive, Signal, Crash, Restart

\* A record more in the engine, with the value that was saved.
LEMMA NextLoadInv == TypeOK /\ PhaseInv /\ FileInv /\ LoadInv /\ [Next]_vars => LoadInv'
<1> SUFFICES ASSUME TypeOK, PhaseInv, FileInv, LoadInv, [Next]_vars, phase' = "loading"
             PROVE  LoadInv'
  BY DEF LoadInv
<1>1. CASE LoadParsed
  <2>1. /\ file' = file /\ file.kind = "object" /\ next' = 1
        /\ store' = Nothing
    BY <1>1 DEF LoadParsed, memory, PhaseInv
  <2>2. file.records \in Seq(Records)
    BY DEF TypeOK, Files
  <2>3. Len(file.records) \in Nat
    BY <2>2
  <2>4. next' \in 1 .. Len(file'.records) + 1 /\ 1 .. next' - 1 = {}
    BY <2>1, <2>3
  <2>5. \A k \in Keys : store'[k] = None
    BY <2>1 DEF Nothing
  <2> QED
    BY <2>1, <2>4, <2>5 DEF LoadInv
<1>2. CASE LoadRecord
  <2> DEFINE records == file.records
             key == records[next].key
             value == records[next].value
  <2>1. /\ phase = "loading" /\ file.kind = "object"
        /\ next <= Len(records)
        /\ value \in Values
        /\ store' = [store EXCEPT ![key] = value]
        /\ next' = next + 1
        /\ file' = file /\ saved' = saved
    BY <1>2 DEF LoadRecord, LoadInv
  <2>2. records \in Seq(Records) /\ next \in Nat \ {0}
    BY DEF TypeOK, Files
  <2>3. /\ \A i \in 1 .. next : i \in DOMAIN records /\ records[i].key \in Keys
        /\ 1 .. next' - 1 = 1 .. next
        /\ 1 .. next = (1 .. next - 1) \cup {next}
        /\ next' \in 1 .. Len(records) + 1
    <3>1. Len(records) \in Nat /\ \A i \in 1 .. Len(records) : records[i] \in Records /\ i \in DOMAIN records
      BY <2>2
    <3>2. \A i \in 1 .. next : i \in 1 .. Len(records)
      BY <2>1, <2>2, <3>1
    <3>3. \A i \in 1 .. next : i \in DOMAIN records /\ records[i].key \in Keys
      BY <3>1, <3>2 DEF Records
    <3>4. 1 .. next' - 1 = 1 .. next /\ 1 .. next = (1 .. next - 1) \cup {next} /\ next' \in 1 .. Len(records) + 1
      BY <2>1, <2>2, <3>1
    <3> QED
      BY <3>3, <3>4
  <2>4. /\ \A k \in Keys : store[k] # None => \E i \in 1 .. next - 1 : records[i].key = k
        /\ \A i \in 1 .. next - 1 : store[records[i].key] # None
        /\ saved # None => \A i \in 1 .. next - 1 : store[records[i].key] = saved[records[i].key]
    BY <2>1 DEF LoadInv
  <2>5. next \in 1 .. next
    BY <2>2
  <2>6. key \in Keys
    BY <2>3, <2>5
  <2>7. value # None
    BY <2>1, NoneIsNothing
  <2>8. \A k \in Keys : store'[k] = IF k = key THEN value ELSE store[k]
    BY <2>1, <2>6 DEF TypeOK
  <2> HIDE DEF records, key, value
  <2>9. \A k \in Keys : store'[k] # None => \E i \in 1 .. next : records[i].key = k
    BY <2>3, <2>4, <2>5, <2>8 DEF key
  <2>10. \A i \in 1 .. next : store'[records[i].key] # None
    BY <2>3, <2>4, <2>7, <2>8 DEF key
  <2>11. ASSUME saved # None
         PROVE  \A i \in 1 .. next : store'[records[i].key] = saved[records[i].key]
    <3>1. saved[key] = value
      <4>1. Holds
        BY <2>1, <2>11 DEF FileInv
      <4>2. \A i \in DOMAIN records : saved[records[i].key] = records[i].value
        BY <2>1, <4>1, HoldsObject DEF records
      <4> QED
        BY <2>3, <2>5, <4>2 DEF key, value
    <3> QED
      BY <2>3, <2>4, <2>8, <2>11, <3>1 DEF key
  <2>12. file'.records = records /\ file'.kind = "object" /\ saved' = saved /\ 1 .. next' - 1 = 1 .. next
         /\ next' \in 1 .. Len(records) + 1
    BY <2>1, <2>3 DEF records
  <2> QED
    BY <2>9, <2>10, <2>11, <2>12 DEF LoadInv
<1>3. CASE phase = "loading" /\ file' = file /\ saved' = saved /\ next' = next /\ store' = store
  BY <1>3 DEF LoadInv
<1> QED
  BY <1>1, <1>2, <1>3, OnlyLoadLoads
-----------------------------------------------------------------------------
(* Every step keeps the document a copy of the engine.                     *)

\* A record more in the document, or the end of the enumeration.
LEMMA NextDocumentInv == TypeOK /\ PhaseInv /\ DocumentInv /\ [Next]_vars => DocumentInv'
<1> SUFFICES ASSUME TypeOK, PhaseInv, DocumentInv, [Next]_vars, phase' \in {"store", "open", "saving"}
             PROVE  DocumentInv'
  BY DEF DocumentInv
<1>1. CASE RunReturns
  <2>1. document' = <<>> /\ phase' = "store"
    BY <1>1 DEF RunReturns, PhaseInv, memory
  <2>2. DOMAIN document' = {}
    BY <2>1
  <2> QED
    BY <2>1, <2>2 DEF DocumentInv
<1>2. CASE Enumerated
  BY <1>2 DEF Enumerated, DocumentInv, memory, Collected
<1>3. ASSUME NEW key \in Keys, Visit(key) PROVE DocumentInv'
  <2> DEFINE record == [key |-> key, value |-> store[key]]
  <2>1. /\ phase = "store" /\ phase' = "store" /\ store' = store
        /\ document' = Append(document, record)
    BY <1>3 DEF Visit
  <2>2. store[key] \in Values
    BY <1>3 DEF Visit, TypeOK
  <2>3. record \in Records /\ record.key = key /\ record.value = store[key]
    BY <2>2, RecordType
  <2> HIDE DEF record
  <2>4. /\ DOMAIN document' = DOMAIN document \cup {Len(document) + 1}
        /\ \A i \in DOMAIN document : document'[i] = document[i]
        /\ document'[Len(document) + 1] = record
    <3>1. document \in Seq(Records)
      BY DEF TypeOK
    <3> QED
      BY <2>1, <2>3, <3>1, AppendType
  <2>5. \A i \in DOMAIN document :
            document[i].value \in Values /\ store[document[i].key] = document[i].value
    BY <2>1 DEF DocumentInv
  <2>6. \A i \in DOMAIN document' :
            document'[i].value \in Values /\ store[document'[i].key] = document'[i].value
    BY <2>2, <2>3, <2>4, <2>5
  <2> QED
    BY <2>1, <2>6 DEF DocumentInv
<1> DEFINE Untouched == /\ store' = store /\ document' = document
                        /\ phase' = phase \/ (phase = "open" /\ phase' = "saving")
<1>4. Untouched => DocumentInv'
  BY DEF DocumentInv, Collected
<1>5. WriteRecord \/ OpenTruncates \/ UNCHANGED vars => Untouched
  BY DEF WriteRecord, OpenTruncates, vars
<1>6. ASSUME NEW w \in Workers, HandleFails(w) \/ WorkerExits(w) PROVE Untouched
  BY <1>6 DEF HandleFails, WorkerExits
<1>7. ASSUME NEW w \in Workers, NEW key \in Keys, NEW value \in Values, Receive(w, key, value)
      PROVE  Untouched
  BY <1>7 DEF Receive
<1>8. ASSUME NEW w \in Workers, Handle(w) PROVE FALSE
  BY <1>8, HandledWhileServing
<1>9. ~(\/ IsLockFree \/ IsLockFreeAgain \/ LoadNothing \/ LoadParsed \/ LoadRecord \/ LoadEnds
        \/ OpenFails \/ Close \/ Signal \/ Crash \/ Restart)
  BY DEF IsLockFree, IsLockFreeAgain, LoadNothing, LoadParsed, LoadRecord, LoadEnds, OpenFails,
     Close, Signal, Crash, Restart, vars
<1> HIDE DEF Untouched
<1> QED
  BY <1>1, <1>2, <1>3, <1>4, <1>5, <1>6, <1>7, <1>8, <1>9 DEF Next, Main, Work

-----------------------------------------------------------------------------
(* Every step keeps the keys of the file in the engine.                    *)

\* The phases in which the engine has what load() could read, and the file is
\* still the one it was read from.
Kept == {"serving", "stopping", "store", "open"}

\* Loading ends, a handler stores, or the engine and the file stay.
LEMMA OnlyHandlersChange ==
  ASSUME TypeOK, [Next]_vars, phase' \in Kept
  PROVE  \/ LoadNothing \/ LoadEnds
         \/ \E w \in Workers : Handle(w)
         \/ phase \in Kept /\ store' = store /\ file' = file /\ next' = next /\ log' = log
BY DEF Kept, Next, Main, Work, vars, memory, IsLockFree, IsLockFreeAgain, LoadParsed,
   LoadRecord, RunReturns, Visit, Enumerated, OpenFails, OpenTruncates, WriteRecord, Close,
   HandleFails, WorkerExits, Receive, Signal, Crash, Restart

\* After a load that has logged no failure the engine has every key of the file.
LEMMA LoadedAll ==
  ASSUME IInv, phase = "loading", next > Len(file.records), saved # None
  PROVE  \A k \in Keys : saved[k] # None => store[k] # None
<1>1. Holds /\ file.kind = "object"
  BY DEF IInv, FileInv, LoadInv
<1>2. \A k \in Keys : saved[k] # None => \E i \in DOMAIN file.records : file.records[i].key = k
  BY <1>1, HoldsObject
<1>3. file.records \in Seq(Records) /\ next \in Nat \ {0}
  BY DEF IInv, TypeOK, Files
<1>4. \A i \in DOMAIN file.records : i \in 1 .. next - 1
  BY <1>3
<1>5. \A i \in 1 .. next - 1 : store[file.records[i].key] # None
  BY DEF IInv, LoadInv
<1> QED
  BY <1>2, <1>4, <1>5

\* set adds and replaces, nothing removes a key.
LEMMA NextKeepInv == IInv /\ [Next]_vars => KeepInv'
<1> SUFFICES ASSUME IInv, [Next]_vars, phase' \in Kept
             PROVE  /\ next' \in 1 .. Len(file'.records) + 1
                    /\ \A i \in 1 .. next' - 1 : store'[file'.records[i].key] # None
                    /\ "load failed" \notin log' => next' = Len(file'.records) + 1
  BY DEF KeepInv, Kept
<1> USE DEF IInv
<1>0. file.records \in Seq(Records) /\ Len(file.records) \in Nat
  BY MembersType
<1>1. CASE LoadNothing
  <2>1. file' = file /\ next' = next /\ next = 1 /\ log' = IF file = Missing THEN log ELSE log \cup {"load failed"}
    BY <1>1 DEF LoadNothing, memory, PhaseInv
  <2>2. file = Missing => Len(file.records) = 0
    BY DEF Missing
  <2>3. 1 \in 1 .. Len(file.records) + 1 /\ 1 .. 1 - 1 = {}
    BY <1>0
  <2>4. "load failed" \notin log' => 1 = Len(file.records) + 1
    <3>1. "load failed" \notin log' => file = Missing
      BY <2>1
    <3>2. Len(file.records) = 0 => 1 = Len(file.records) + 1
      OBVIOUS
    <3> QED
      BY <2>2, <3>1, <3>2
  <2> QED
    BY <2>1, <2>3, <2>4
<1>2. CASE LoadEnds
  <2>1. phase = "loading" /\ store' = store /\ next' = next /\ file' = file
    BY <1>2 DEF LoadEnds, memory
  <2>2. next \in 1 .. Len(file.records) + 1 /\ \A i \in 1 .. next - 1 : store[file.records[i].key] # None
    BY <2>1 DEF LoadInv
  <2>3. "load failed" \notin log' => next > Len(file.records)
    BY <1>2 DEF LoadEnds
  <2>4. \A n \in Nat : next \in 1 .. n + 1 /\ next > n => next = n + 1
    OBVIOUS
  <2>5. "load failed" \notin log' => next = Len(file.records) + 1
    BY <1>0, <2>2, <2>3, <2>4
  <2> QED
    BY <2>1, <2>2, <2>5
<1>3. ASSUME NEW w \in Workers, Handle(w)
      PROVE  /\ next' \in 1 .. Len(file'.records) + 1
             /\ \A i \in 1 .. next' - 1 : store'[file'.records[i].key] # None
             /\ "load failed" \notin log' => next' = Len(file'.records) + 1
  <2>1. /\ phase \in {"serving", "stopping"}
        /\ request[w].key \in Keys /\ request[w].value \in Values
    BY <1>3, HandledWhileServing
  <2>2. /\ store' = [store EXCEPT ![request[w].key] = request[w].value]
        /\ file' = file /\ next' = next /\ log' = log
    BY <1>3 DEF Handle
  <2>3. request[w].value # None
    BY <2>1, NoneIsNothing
  <2>4. \A i \in 1 .. next - 1 : store[file.records[i].key] # None
    BY <2>1 DEF KeepInv
  <2>5. \A k \in Keys : store[k] # None => store'[k] # None
    BY <2>2, <2>3 DEF TypeOK
  <2>6. next \in 1 .. Len(file.records) + 1 /\ ("load failed" \notin log => next = Len(file.records) + 1)
    BY <2>1 DEF KeepInv
  <2>7. \A i \in 1 .. next - 1 : file.records[i].key \in Keys
    BY <2>6, MemberKeys
  <2> QED
    BY <2>2, <2>4, <2>5, <2>6, <2>7
<1>4. CASE phase \in Kept /\ store' = store /\ file' = file /\ next' = next /\ log' = log
  BY <1>4 DEF KeepInv, Kept
<1> QED
  BY <1>1, <1>2, <1>3, <1>4, OnlyHandlersChange

-----------------------------------------------------------------------------
(* The theorems.                                                           *)

\* The parts together.
LEMMA NextIInv == IInv /\ [Next]_vars => IInv'
BY NextTypeOK, NextPhaseInv, NextFileInv, NextLoadInv, NextDocumentInv, NextKeepInv DEF IInv

\* In every phase, over any number of runs and crashes, the memory of main, the
\* file and what is known of it fit together.
THEOREM Invariance == Spec => []IInv
BY InitIInv, NextIInv, PTL DEF Spec

\* store_data refers to no string that a worker's set has deallocated: run()
\* returns only after the last worker, and no handler runs after it.
THEOREM DocumentSafe == Spec => []MemorySafe
<1>1. IInv => MemorySafe
  BY DEF IInv, PhaseInv, MemorySafe, ReferencesAlive
<1> QED
  BY <1>1, Invariance, PTL

\* One step of load() into serving: the engine holds what was saved.
LEMMA LoadStep ==
  ASSUME IInv, [Next]_vars, phase = "loading", phase' = "serving", saved # None
  PROVE  store' = saved
<1> USE DEF IInv
<1>1. LoadEnds
  BY DEF Next, Main, Work, vars, IsLockFree, IsLockFreeAgain, LoadNothing, LoadParsed, LoadRecord,
     RunReturns, Visit, Enumerated, OpenFails, OpenTruncates, WriteRecord, Close, Handle,
     HandleFails, WorkerExits, Receive, Signal, Crash, Restart
<1>2. Holds /\ file.kind = "object"
  BY DEF FileInv, LoadInv
<1>3. next > Len(file.records) /\ store' = store
  <2>1. next <= Len(file.records) => file.records[next].value \in Values
    <3>1. file.records \in Seq(Records) /\ next \in Nat \ {0}
      BY DEF TypeOK, Files
    <3>2. next <= Len(file.records) => next \in DOMAIN file.records
      BY <3>1, ElementType
    <3> QED
      BY <1>2, <3>2, HoldsObject
  <2> QED
    BY <1>1, <2>1, NoneIsNothing DEF LoadEnds, memory
<1>4. \A k \in Keys : saved[k] # None => store[k] # None
  BY <1>3, LoadedAll
<1>5. \A k \in Keys : store[k] # None => store[k] = saved[k]
  BY DEF LoadInv
<1>6. \A k \in Keys : store[k] = saved[k]
  BY <1>4, <1>5
<1>7. saved \in [Keys -> Values \cup {None}] /\ store \in [Keys -> Values \cup {None}]
  BY DEF TypeOK
<1> QED
  BY <1>3, <1>6, <1>7

\* What a run has saved without a write error, the next run that can read the
\* file begins with, key by key.
THEOREM RunsAgree == Spec => LoadsWhatWasSaved
<1>1. IInv /\ [Next]_vars =>
        [phase = "loading" /\ phase' = "serving" /\ saved # None => store' = saved]_vars
  BY LoadStep
<1> QED
  BY <1>1, Invariance, PTL DEF Spec, LoadsWhatWasSaved

\* What save() is about to write, when it truncates the file, has every key that
\* load() read from that file, and has read all of them unless it has reported
\* a failure. A crash or a failed write after that loses keys, and is excepted.
THEOREM NoKeyLost == Spec => KeysKept
<1>1. IInv /\ [Next]_vars =>
        [phase = "open" /\ phase' = "saving" =>
            /\ Visited \subseteq Collected
            /\ "load failed" \notin log => next = Len(file.records) + 1]_vars
  <2> SUFFICES ASSUME IInv, phase = "open"
               PROVE  /\ Visited \subseteq Collected
                      /\ "load failed" \notin log => next = Len(file.records) + 1
    OBVIOUS
  <2>1. /\ \A i \in 1 .. next - 1 : store[file.records[i].key] # None
        /\ next \in 1 .. Len(file.records) + 1
        /\ "load failed" \notin log => next = Len(file.records) + 1
    BY DEF IInv, KeepInv
  <2>2. \A i \in 1 .. next - 1 : file.records[i].key \in Keys
    BY <2>1, MemberKeys DEF IInv
  <2>3. \A k \in Keys : store[k] # None => k \in Collected
    BY DEF IInv, DocumentInv
  <2> QED
    BY <2>1, <2>2, <2>3 DEF Visited
<1> QED
  BY <1>1, Invariance, PTL DEF Spec, KeysKept
=============================================================================
