------------------------------- MODULE Lifecycle -------------------------------
(***************************************************************************)
(* The life of the server process: main.cpp loads the database file into   *)
(* the engine, serves until a signal, and stores the engine back, with     *)
(* Persistency.cpp and DataSerializer.cpp. The file is all that survives a *)
(* run; a run may end at any point by a crash.                             *)
(*                                                                         *)
(* The engine is the dictionary of KeyValueStore (DataEngine implements    *)
(* it). The file is the list of its members, "object", or something        *)
(* DataSerializer::load cannot read, "garbage": an empty or cut-off file,  *)
(* or one whose root is no object.                                         *)
(***************************************************************************)
EXTENDS Naturals, Sequences

CONSTANTS
    Keys,
    Values,
    Workers,        \* the threads that run the HTTP handlers
    None,           \* no value, no request
    Exited,         \* in place of a request: the worker has left its loop
    NotString,      \* a member value that is no JSON string
    InitialFiles,   \* what database.json may be before the first run
    Builds,         \* "native" where the library has atomic<shared_ptr>
                    \* (__cpp_lib_atomic_shared_ptr), "fallback" for utils/stl.h
    MaxRuns         \* bound on the number of runs

ASSUME NoneIsNothing == None \notin Values /\ NotString \notin Values \cup {None}

ASSUME BuildsKnown == Builds \subseteq {"native", "fallback"}

ASSUME RunsPositive == MaxRuns \in Nat \ {0}

VARIABLES
    build,      \* how the program was built
    phase,      \* where main is
    file,       \* database.json
    store,      \* the engine's dictionary
    next,       \* the next record load() visits or save() writes
    request,    \* the POST each worker handles: None, a record, or Exited
    document,   \* the records store_data has collected: references, no copies
    freed,      \* keys whose referenced value the engine has deallocated since
    written,    \* the records whose bytes reached the file
    runs,       \* number of runs begun
    \* Auxiliary, read by no guard:
    log,        \* what the run has logged of load() and save()
    saved       \* what the file holds since a save without a write error

vars == <<build, phase, file, store, next, request, document, freed, written, runs, log,
          saved>>

Phases == {"start", "load", "loading", "serving", "stopping", "store", "open",
           "saving", "exited", "crashed"}

Running == Phases \ {"exited", "crashed"}

Records == [key : Keys, value : Values \cup {NotString}]

Files == [kind : {"missing", "garbage", "object"}, records : Seq(Records)]

ASSUME FilesKnown == InitialFiles \subseteq Files

Missing == [kind |-> "missing", records |-> <<>>]
Garbage == [kind |-> "garbage", records |-> <<>>]
Object(records) == [kind |-> "object", records |-> records]

Nothing == [k \in Keys |-> None]

\* saved is None when no run has left a file it can vouch for.
TypeOK ==
    /\ build \in Builds
    /\ phase \in Phases
    /\ file \in Files
    /\ store \in [Keys -> Values \cup {None}]
    /\ next \in Nat \ {0}
    /\ request \in [Workers -> {None, Exited} \cup [key : Keys, value : Values]]
    /\ document \in Seq(Records)
    /\ freed \subseteq Keys
    /\ written \in Seq(Records)
    /\ runs \in 1 .. MaxRuns
    /\ log \subseteq {"load failed", "save failed", "saved"}
    /\ saved \in [Keys -> Values \cup {None}] \cup {None}

\* The memory of a new process.
FreshMemory(s, n, r, d, f, w) ==
    /\ s = Nothing
    /\ n = 1
    /\ r = [t \in Workers |-> None]
    /\ d = <<>>
    /\ f = {}
    /\ w = <<>>

Init ==
    /\ build \in Builds
    /\ phase = "start"
    /\ file \in InitialFiles
    /\ FreshMemory(store, next, request, document, freed, written)
    /\ runs = 1
    /\ log = {}
    /\ saved = IF file = Missing THEN Nothing ELSE None

memory == <<store, next, request, document, freed, written>>
process == <<build, runs>>

-----------------------------------------------------------------------------
(* Start: main asks the engine whether it is lock-free, then loads.        *)

IsLockFree ==
    /\ phase = "start"
    /\ build = "native"
    /\ phase' = "load"
    /\ UNCHANGED <<file, memory, process, log, saved>>

\* Without a native atomic shared_ptr, atomic<shared_ptr>::is_lock_free calls
\* std::atomic_is_lock_free, which calls it again: it never returns.
IsLockFreeAgain ==
    /\ phase = "start"
    /\ build = "fallback"
    /\ UNCHANGED vars

\* There is no file, or fopen or the parser fails: the server starts empty.
LoadNothing ==
    /\ phase = "load"
    /\ phase' = "serving"
    /\ log' = IF file = Missing THEN log ELSE log \cup {"load failed"}
    /\ UNCHANGED <<file, memory, process, saved>>

\* The whole file is parsed and closed before the first record is visited.
LoadParsed ==
    /\ phase = "load"
    /\ file.kind = "object"
    /\ phase' = "loading"
    /\ UNCHANGED <<file, memory, process, log, saved>>

LoadRecord ==
    /\ phase = "loading"
    /\ next <= Len(file.records)
    /\ file.records[next].value \in Values
    /\ store' = [store EXCEPT ![file.records[next].key] = file.records[next].value]
    /\ next' = next + 1
    /\ UNCHANGED <<phase, file, request, document, freed, written, process, log, saved>>

\* Faulty: the last record is not visited.
LoadEnds_Short ==
    /\ phase = "loading"
    /\ next >= Len(file.records)
    /\ phase' = "serving"
    /\ UNCHANGED <<file, memory, process, log, saved>>

\* After the last record, or at the first that is no string: load() fails, and
\* main goes on with the records in front of it.
LoadEnds ==
    /\ phase = "loading"
    /\ \/ next > Len(file.records) /\ log' = log
       \/ /\ next <= Len(file.records)
          /\ file.records[next].value = NotString
          /\ log' = log \cup {"load failed"}
    /\ phase' = "serving"
    /\ UNCHANGED <<file, memory, process, saved>>

-----------------------------------------------------------------------------
(* Serve, until the signal has stopped every worker.                       *)

Receive(w, key, value) ==
    /\ phase = "serving"
    /\ request[w] = None
    /\ request' = [request EXCEPT ![w] = [key |-> key, value |-> value]]
    /\ UNCHANGED <<phase, file, store, next, document, freed, written, process, log, saved>>

\* engine.set: the value it replaces is deallocated.
Handle(w) ==
    /\ phase \in Running
    /\ request[w] \notin {None, Exited}
    /\ store' = [store EXCEPT ![request[w].key] = request[w].value]
    /\ freed' = IF \E i \in DOMAIN document : document[i].key = request[w].key
                THEN freed \cup {request[w].key}
                ELSE freed
    /\ request' = [request EXCEPT ![w] = None]
    /\ UNCHANGED <<phase, file, next, document, written, process, log, saved>>

\* engine.set throws and the handler answers 500.
HandleFails(w) ==
    /\ phase \in Running
    /\ request[w] \notin {None, Exited}
    /\ request' = [request EXCEPT ![w] = None]
    /\ UNCHANGED <<phase, file, store, next, document, freed, written, process, log, saved>>

Signal ==
    /\ phase = "serving"
    /\ phase' = "stopping"
    /\ UNCHANGED <<file, memory, process, log, saved>>

\* Faulty: a worker leaves its loop only with a request in hand.
WorkerExits_Busy(w) ==
    /\ phase = "stopping"
    /\ request[w] \notin {None, Exited}
    /\ request' = [request EXCEPT ![w] = Exited]
    /\ UNCHANGED <<phase, file, store, next, document, freed, written, process, log, saved>>

\* io_service::run returns in the worker once its handler has returned.
WorkerExits(w) ==
    /\ phase = "stopping"
    /\ request[w] = None
    /\ request' = [request EXCEPT ![w] = Exited]
    /\ UNCHANGED <<phase, file, store, next, document, freed, written, process, log, saved>>

\* Faulty: server.run returns without the futures of the workers.
RunReturns_NoJoin ==
    /\ phase = "stopping"
    /\ phase' = "store"
    /\ UNCHANGED <<file, memory, process, log, saved>>

\* The futures of the workers are destroyed at the end of Server::run: it
\* waits for them.
RunReturns ==
    /\ phase = "stopping"
    /\ \A w \in Workers : request[w] = Exited
    /\ phase' = "store"
    /\ UNCHANGED <<file, memory, process, log, saved>>

-----------------------------------------------------------------------------
(* store_data                                                              *)

Collected == {document[i].key : i \in DOMAIN document}

\* The visitor of enumerate; the order of the buckets is that of the hashes.
Visit(key) ==
    /\ phase = "store"
    /\ key \notin Collected
    /\ store[key] # None
    /\ document' = Append(document, [key |-> key, value |-> store[key]])
    /\ UNCHANGED <<phase, file, store, next, request, freed, written, process, log, saved>>

\* Faulty: the enumeration may end before the last bucket.
Enumerated_Early ==
    /\ phase = "store"
    /\ phase' = "open"
    /\ UNCHANGED <<file, memory, process, log, saved>>

Enumerated ==
    /\ phase = "store"
    /\ \A key \in Keys : store[key] # None => key \in Collected
    /\ phase' = "open"
    /\ UNCHANGED <<file, memory, process, log, saved>>

\* fopen(.., "wb") fails: save() returns false and the file is as it was. main
\* logs the number of records as saved all the same.
OpenFails ==
    /\ phase = "open"
    /\ phase' = "exited"
    /\ log' = log \cup {"save failed", "saved"}
    /\ UNCHANGED <<file, memory, process, saved>>

\* fopen(.., "wb") truncates the file.
OpenTruncates ==
    /\ phase = "open"
    /\ phase' = "saving"
    /\ file' = Garbage
    /\ next' = 1
    /\ UNCHANGED <<store, request, document, freed, written, process, log, saved>>

\* The bytes of a record reach the file, or fwrite fails and nobody looks.
WriteRecord ==
    /\ phase = "saving"
    /\ next <= Len(document)
    /\ next' = next + 1
    /\ written' \in {written, Append(written, document[next])}
    /\ UNCHANGED <<phase, file, store, request, document, freed, process, log, saved>>

\* fclose, whatever was written; save() returns true. The lost bytes may be
\* whole records or leave a file no parser takes.
Close ==
    /\ phase = "saving"
    /\ next > Len(document)
    /\ phase' = "exited"
    /\ file' \in {Object(written), Garbage}
    /\ saved' = IF file' = Object(document) THEN store ELSE None
    /\ log' = log \cup {"saved"}
    /\ UNCHANGED <<memory, process>>

-----------------------------------------------------------------------------
\* Memory is lost. What the file was being rewritten from is lost with it.
Crash ==
    /\ phase \in Running
    /\ phase' = "crashed"
    /\ saved' = IF phase = "saving" THEN None ELSE saved
    /\ UNCHANGED <<file, memory, process, log>>

Restart ==
    /\ phase \notin Running
    /\ runs < MaxRuns
    /\ runs' = runs + 1
    /\ phase' = "start"
    /\ log' = {}
    /\ FreshMemory(store', next', request', document', freed', written')
    /\ UNCHANGED <<build, file, saved>>

Main ==
    \/ IsLockFree
    \/ IsLockFreeAgain
    \/ LoadNothing
    \/ LoadParsed
    \/ LoadRecord
    \/ LoadEnds
    \/ RunReturns
    \/ \E key \in Keys : Visit(key)
    \/ Enumerated
    \/ OpenFails
    \/ OpenTruncates
    \/ WriteRecord
    \/ Close

Work(w) == Handle(w) \/ HandleFails(w) \/ WorkerExits(w)

Next ==
    \/ Main
    \/ \E w \in Workers : Work(w)
    \/ \E w \in Workers, key \in Keys, value \in Values : Receive(w, key, value)
    \/ Signal
    \/ Crash
    \/ Restart

Spec == Init /\ [][Next]_vars

\* The operating system schedules the process; signals, clients and restarts
\* need not come.
FairSpec == Spec /\ WF_vars(Main) /\ \A w \in Workers : WF_vars(Work(w))

-----------------------------------------------------------------------------
(* Properties.                                                             *)

\* What a run has saved without a write error the next run loads, key by key,
\* after any crashes that hit no save, if it can read the file.
LoadsWhatWasSaved ==
    [][phase = "loading" /\ phase' = "serving" /\ saved # None => store' = saved]_vars

\* The document store_data builds refers to strings of the engine: none of them
\* is deallocated before save() has written it.
ReferencesAlive == phase \in {"store", "open", "saving"} => freed = {}

\* The records of the file that load() has visited. next stands still from the
\* end of the loading until save() truncates the file.
Visited == {file.records[i].key : i \in 1 .. next - 1}

\* When save() truncates the file, the document it is about to write has every
\* key that load() read from that file, whatever clients have stored meanwhile;
\* and these are all of the file's keys unless load() has reported a failure.
\* Nothing is claimed of what comes next: the code loses the file, and with it
\* keys, to a crash before Close or a write that fails, and after a failed load
\* it overwrites the file with the part that was read.
KeysKept ==
    [][phase = "open" /\ phase' = "saving" =>
          /\ Visited \subseteq Collected
          /\ "load failed" \notin log => next = Len(file.records) + 1]_vars

\* A signal ends the process: every worker leaves its loop and main stores.
SignalStops == phase = "stopping" ~> phase \in {"exited", "crashed"}

\* Built with a native atomic shared_ptr, main gets past its checks and its
\* loading, and the server comes to listen.
NativeServes == phase = "start" /\ build = "native" ~> phase \in {"serving", "crashed"}

\* The same of every build.
ComesToServe == phase = "start" ~> phase \in {"serving", "crashed"}

\* main logs "saved N DB records to file" after no other complaint: the file
\* then holds them.
SavedMeansSaved ==
    phase = "exited" /\ "saved" \in log /\ "save failed" \notin log =>
        file = Object(document)

\* The state is of its type, and the document store_data writes refers to no
\* string that a worker's set has deallocated.
MemorySafe == TypeOK /\ ReferencesAlive

\* main comes to serve in a build with a native atomic shared_ptr, and a signal
\* makes every worker leave, so that main stores the records and ends.
ServesAndStops == NativeServes /\ SignalStops

-----------------------------------------------------------------------------
(* The inductive invariant of the proofs.                                  *)

\* The process in its phases: what each of them has left of its memory.
PhaseInv ==
    /\ phase \in {"start", "load", "loading"} => \A w \in Workers : request[w] = None
    /\ phase \in {"start", "load"} => store = Nothing /\ next = 1
    /\ phase \in {"start", "load", "loading", "serving", "stopping"} => document = <<>> /\ freed = {}
    /\ phase \in {"store", "open", "saving"} => freed = {} /\ \A w \in Workers : request[w] = Exited

\* Of a file that is known to hold what was saved, or that was never written.
Holds ==
    \/ file = Missing /\ saved = Nothing
    \/ /\ file.kind = "object"
       /\ \A i \in DOMAIN file.records :
              file.records[i].value \in Values /\ saved[file.records[i].key] = file.records[i].value
       /\ \A k \in Keys : saved[k] # None => \E i \in DOMAIN file.records : file.records[i].key = k

FileInv == saved # None /\ phase # "saving" => Holds

\* The engine holds what the file has up to the record load() has come to.
LoadInv ==
    phase = "loading" =>
        /\ file.kind = "object"
        /\ next \in 1 .. Len(file.records) + 1
        /\ \A k \in Keys : store[k] # None => \E i \in 1 .. next - 1 : file.records[i].key = k
        /\ \A i \in 1 .. next - 1 : store[file.records[i].key] # None
        /\ saved # None => \A i \in 1 .. next - 1 :
              store[file.records[i].key] = saved[file.records[i].key]

\* What is to be saved is what the engine holds.
DocumentInv ==
    /\ phase \in {"store", "open", "saving"} =>
           \A i \in DOMAIN document :
               document[i].value \in Values /\ store[document[i].key] = document[i].value
    /\ phase \in {"open", "saving"} => \A k \in Keys : store[k] # None => k \in Collected

\* The engine has every key that load() has read of the file, which is still
\* there: all keys, if load() has reported nothing.
KeepInv ==
    phase \in {"serving", "stopping", "store", "open"} =>
        /\ next \in 1 .. Len(file.records) + 1
        /\ \A i \in 1 .. next - 1 : store[file.records[i].key] # None
        /\ "load failed" \notin log => next = Len(file.records) + 1

\* All of these together are kept by every step of the process.
IInv == TypeOK /\ PhaseInv /\ FileInv /\ LoadInv /\ DocumentInv /\ KeepInv
=============================================================================
