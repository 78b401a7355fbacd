# A TLA+ model of the lock-free key-value web server

The server keeps a dictionary of strings in memory, serves it over HTTP, loads it from `database.json`
when it starts and writes it back when a signal stops it. The heart is `DataEngine`, a hash table that
many worker threads read and write without a lock. HTTP comes from Crow, which the repository vendors
and builds with the program. This directory holds TLA+ modules translated from the code, TLC
configurations that check them on small instances, and theorems checked by TLAPS that hold for every size.

Paths below are relative to `src/`; those of Crow to `src/dependency/CrowCpp/include/crow/`.

## 1. Inventory

| Component | State it keeps | Operations | Talks to |
|---|---|---|---|
| `DataEngine` (`DataEngine.cpp/.h`) | `m_buckets`, an array of list heads fixed at construction; nodes with `m_key`, `m_ptrValue` (an `atomic<shared_ptr>`) and `m_next`; two 64-bit counters | `get`, `set` (with `create_node`), `enumerate`, `get_read_statistics`, `is_lock_free`, destructor | `AllocatorFactory` for each new node; called by the HTTP workers and by `Persistency` |
| `AllocatorFactory`, `Allocator.h` | a static map from thread id to allocator behind a `shared_mutex` | `get_allocator` | called in `create_node` |
| fallback `atomic<shared_ptr>` (`utils/stl.h`) | one `shared_ptr` | `load`, `store`, `is_lock_free`; `allocate_new` | the engine, where the library has no such specialisation |
| `Persistency`, `DataSerializer`, `utils/stdlib.h` | the document being saved; the file `database.json` | `initial_load_data`, `store_data`, `load`, `save` | the engine (`set`, `enumerate`), the file system |
| `main.cpp` | the engine; where the process is | construct, load, serve, store | all of the above |
| `HttpServer`, `HttpServerHelpers` | Crow's application; a `JsonBody` per request | handlers for get, set, statistics; `url_decode`; `stop_notify` | Crow calls the handlers on its workers; they call the engine |
| Crow's server (`app.h`, `http_server.h`) | an `io_service`, a timer and a load counter per worker; the acceptor | `run`, `stop`, `wait_for_server_start`, accept and pick a worker | starts the connections on the workers |
| Crow's connections (`http_connection.h`, `task_timer.h`) | per connection: flags of what is in flight, the request, the response, the id of its deadline; per worker: the timer's tasks | start, read, handle, write, deadline, `check_destroy` | the parser, the router, the worker's timer |
| Crow's parser (`http_parser_merged.h`, `parser.h`) | the state of the parser between two reads, the request being built | `feed`, callbacks | called with every read, calls the connection |
| Crow's router (`routing.h`) | rules; one trie per method | register, `validate`, `handle`, `handle_upgrade` | called with every request |
| Crow's websockets (`websocket.h`) | the frame being read, the message being collected, what is queued for writing | read in pieces, send, close, `check_destroy` | the socket of an upgraded connection |
| Crow's query strings (`query_string.h`) | the URL, decoded in place, and pointers to its pairs | parse, `get`, `get_list`, `get_dict` and the pops | made by the parser for every request |
| `client.py` | a connection per thread | random GET and POST, retried after connection errors | the server |
| `Logger` | minimum level | `log` under a mutex | everybody |

How they interact: `main` alone constructs, loads, stores and destroys the engine. Between load and
store it sits in `HttpServer::run`; during that time only Crow's workers call the engine, each through
a handler that runs to its end on one thread. A connection belongs to one worker for its whole life, so
its callbacks never run at the same time. A signal stops every `io_service`; `Server::run` waits for
the workers, because the futures of `std::async` it holds are destroyed at its end (`http_server.h:69`).
So store and destructor run alone - if that waiting is right.

What is hard here, and what would make each part correct:

- **engine**: threads race on the same bucket and the same key. Every interleaving must be one of an
  atomic dictionary; no key may be in a list twice, no node lost, leaked, freed twice or reached after it
  was freed; a thread must finish whatever the others do; the counters must add up; an enumeration
  must be complete. All atomics are relaxed.
- **allocator map**: the lock is given up between search and insertion; the code asserts that the
  insertion succeeds.
- **persistence**: the file is truncated before it is rewritten, nothing checks the writes, a load can
  fail part way, the document holds references into the engine. What one run saves the next must load.
- **process**: it must come to serve, and a signal must end it.
- **handlers and client**: every path must answer in the documented format; a retried POST is applied
  twice, perhaps after a later one.
- **connections**: every callback captures a bare `this`, and two flags decide when the object is deleted; a
  deadline is cancelled through an id that the timer may have issued again; a peer may leave, reset or send at any
  moment.
- **server**: `stop` walks a vector `run` is filling; counters that are incremented by one thread and
  decremented by another choose the worker of the next connection.
- **parser**: a read ends between any two bytes, and the parser's marks into it do not survive the read.
- **router, websockets, query strings**: tries are contracted after the rules are in; frames arrive in pieces and
  with other frames between them; values are decoded in place beside the pairs behind them.

`PROJECT.json` lists the hazards at their lines with the properties that cover them.

## 2. Modules

| Module | What it is |
|---|---|
| `KeyValueStore` | abstract specification: an atomic dictionary with calls, effects, failures and returns |
| `DataEngine` | `get` and `set`, one action per access to shared memory; properties; inductive invariant |
| `MCDataEngine` | constants, symmetry and fairness for TLC |
| `DataEngineProofs` | theorems about `DataEngine`, the refinement of `KeyValueStore` included (TLAPS) |
| `DataEngineObservers`, `MCDataEngineObservers`, `DataEngineObserversProofs` | extends `DataEngine` with `enumerate`, `get_read_statistics` and the destructor; its theorems |
| `RelaxedPublication` | the publication of nodes with relaxed atomics, with the machine's store buffers |
| `AllocatorFactory`, `AllocatorFactoryProofs` | the map of allocators and its lock; its theorems |
| `Lifecycle`, `MCLifecycle`, `LifecycleProofs` | composes `main`, persistence, the file, workers, signals, crashes and restarts around the dictionary the engine implements; its theorems |
| `HttpApi`, `HttpApiProofs` | composes the record handlers, failing connections, the client's retry loop and the dictionary; its theorems |
| `UrlDecode` | `url_decode` against the client's `quote_plus` |
| `CrowServer`, `CrowServerProofs`, `MCCrowServer` | `run`, `stop`, accepting, the distribution of connections; its theorems; `MCCrowServer` checks it together with one connection |
| `CrowConnection`, `MCCrowConnection`, `CrowConnectionProofs` | the connections of one worker, their timer and their peers; its theorems |
| `HttpParser`, `MCHttpParser` | the request parser and its callbacks; the requests that are sent to it |
| `Router` | rules, tries and look-ups against trying the rules one by one |
| `WebSocket` | one upgraded connection, its peer and its application |
| `QueryString` | parsing in place and look-ups against reading the URL |
| `ComponentProofs` | theorems about `RelaxedPublication`, `UrlDecode` and `WebSocket` |
| `MCComponents` | the run of `RelaxedPublication`, `UrlDecode` and `WebSocket`, which it extends, and of instances of `Router` and `QueryString` |

`MCComponents` and `MCCrowServer` hold independent components side by side: a variable `part` chooses at the
beginning which of them moves, the others stay in their initial state. The state space is the sum of the parts, not
their product, and no property relates two of them.

### DataEngine

`pc[t]` says where thread `t` is; `call`, `node`, `ptrNewNode` and `reply` are its arguments, local
variables and result. The actions in the order of the code:

| Code | Action |
|---|---|
| `get` 60-61: load the bucket | `GetBucket` |
| 63, 73: key differs, load `m_next` | `GetNext` |
| 65-67: key found, count | `GetHit` |
| 69-70: load the value and copy it, or `bad_alloc` | `GetValue`, `GetCopyThrows` |
| 76-77: end of the list, count, return nothing | `GetMiss` |
| `create_node` 80-99, or an exception in it | `CreateNode`, `CreateNodeThrows` |
| `set` 108-115: CAS on the bucket succeeds | `LinkFirst` |
| 116: it fails and leaves the head in `node` | `BucketTaken` |
| 120-124: the key is there, store the value, free the new node | `Overwrite` |
| 126-134: CAS on `m_next` succeeds | `LinkNext` |
| 135-136: it fails and leaves the successor | `Advance` |

Comparing a key belongs to the action of the next shared access: `m_key` is `const`, written before
the node is published, and so no other thread can tell when it is read. `delete_self` makes the address
free for a later `CreateNode`, by any thread: address reuse is part of the model. `m_key[n] = Null` says
that `n` is free memory.

`ahead` and `returned` are auxiliary: no guard reads them. `ahead[n]` is the set of nodes in front
of a published node in its list, recorded when the node is linked; it never changes afterwards, because lists
only grow at their end. `returned` counts the calls of `get` that have returned, for the statistics.

Strings are abstract keys and values; `std::hash` is a constant function `Hash`, so that keys collide as
an instance chooses. Counters have the width `Counters` (2^64 in the code).

### DataEngineObservers

An observer is a thread that enumerates or asks for the statistics while workers use the engine. The
class sets no condition on when it may be enumerated, although `main` does so alone. `EnumerateVisit` takes the visit and the step
to `m_next` in one action: the two loads read fields of one node, and a later load of `m_next` would only
see more appended nodes; the value it passes is not looked at. `LoadSuccess` and `LoadFailed` are the two loads at
`DataEngine.cpp:160`. The destructor (`DestroyBegin` .. `DestroyEnd`) starts when nobody is in the
engine and reads `m_next` before it frees the node. `MaxGets` bounds the calls of `get`; `Counters`
is larger, so that the counters do not wrap and a reply can be compared with the number of lookups.

### Memory order and RelaxedPublication

All atomics in `DataEngine.cpp` are `memory_order_relaxed`, and `DataEngine` is sequentially consistent.
On x86, the target of every CI build (`.github/workflows/build_cmake.yml`), a relaxed load or store of a pointer is
a plain `mov`, and a CAS or `fetch_add` is a locked instruction that orders everything around it; a thread
publishes only by a CAS. The value's `load` and `store` go through a lock in
the library (MSVC's spinning bit, the mutex pool behind `std::atomic_load` in the fallback).

`RelaxedPublication` is what justifies this: `set` and `get` in one bucket with the stores of each thread that are
not visible yet (`pending`). With `Machine = "x86"` a CAS waits for the thread's own stores; `KeysConstructed` and
`KeysUnique` then hold. With `Machine = "weak"` it does not, and TLC shows both violated: a
reader compares a key that has not been constructed for it (section 5). Compilers may do the same reordering on x86, as
C++ allows; the model is of the machine.

### AllocatorFactory

One action per step of `get_current_thread_allocator`: shared lock, search with unlock, unique lock,
insertion with unlock. `readers` and `writer` are the state of the `shared_mutex`, which is
external and promises no fairness.

### Lifecycle

`phase` is where `main` is. The engine is the dictionary `store`, which the refinement theorem
justifies. A file is `Missing`, `Garbage` (empty, cut off, no JSON, root not an object) or `Object(records)`, the list
of its members with duplicate names and non-string values allowed, as in JSON. The actions follow
`DataSerializer::load` (`LoadNothing`, `LoadParsed`, `LoadRecord`, `LoadEnds`), the handlers of POST (`Receive`,
`Handle`, `HandleFails`), Crow's stop (`Signal`, `WorkerExits`, `RunReturns`), `store_data` (`Visit`, `Enumerated`) and
`DataSerializer::save` (`OpenFails`, `OpenTruncates`, `WriteRecord`, `Close`). `WriteRecord` may lose a
record's bytes: `fwrite`'s result is not looked at. `Crash` ends the process anywhere (a kill, a power cut, an exception that
leaves `main`), `Restart` begins a new one with fresh memory and the same file. `document` holds the
records to be saved; the code keeps string references, so `freed` notes the ones whose string has been
deallocated by a later `set`. `build` tells whether the library has a native `atomic<shared_ptr>`; it decides
what `is_lock_free` does. Auxiliary: `log` and `saved`, the contents the file is known to hold since a save
without a write error (`None`: not known).

### HttpApi and UrlDecode

`HttpApi` has one handler state per try of a request: routed, decoded, done, replied. The members of a `JsonBody` are references,
to a literal or to a local variable of the handler's `try` block; `Dump` reads them when the reply is made, which in the
`catch` block is after the locals are gone. A client calls `one_request`, which sends, waits, and after a connection
error closes, sleeps and tries again with a new value. `Disconnected` may lose the request or leave the handler
running, to take effect at any later time; the reply is then lost. A try is its own value, so that `store` says whose
POST was stored last. Handlers that run out of memory and connections that fail count against `MaxFaults`.

A connection fails by a `ConnectionError` (`Sleeps`), which the client retries, or by another exception such as `IncompleteRead` (`Raises`), which no handler in `client.py` catches.
Bodies are what the handler tells apart; that it reads them only up to a NUL byte is not among it (section 5).

`UrlDecode` takes one turn of the loop of `url_decode` per step, over characters as codes. Names are quoted as
`urllib.parse.quote_plus` does it, which is external; other texts are any sequence of bytes a URL may carry. `sscanf("%2x")`
is modelled by what it makes of two characters (a sign, a digit followed by something else, no digit), and `len - 2` wraps as an unsigned does.

### CrowServer

The caller of `run`, the accepting thread, the workers and one thread that waits for the start and calls `stop`, with the
signal as an alternative. `Pick` walks the load counters one load per step, as `pick_io_service_idx` does while the workers
decrement them. A worker that has left its loop no longer ends its connections.

### CrowConnection

One worker is one thread, so each completed operation's callback is one action, with everything the callback calls: `check_destroy`,
the handler, the write it starts. What is asynchronous is between the callbacks: reads and writes in flight, the queue of completed
operations (`ready`, in the order of completion, as asio keeps it), the timer's ticks, the peers. A chunk of input is the list of events
the parser reports for it; within one `feed` the worker may handle several requests (`worker`). `Manners` says what the peers may do
besides waiting for their replies: pipeline, hang up before a reply, or reset. Whatever the peer, the deadline may pass between the completion of a read and its callback; `remote_endpoint()` then throws
in the middle of it (`HandleThrows`). A reply written synchronously is one step, which succeeds (`HandleStream`) or throws (`HandleStreamFails`); `thrown` notes both, for the properties. The timer keeps
the code's numbering: ids start again when no task is left. `Tick` counts the tasks down; those that are due then run one by one in the order of their
ids, before anything else the worker does (`Expire`), and each closes its connection's socket, which completes what is in flight with an error. A write that
ends on a closed socket fails (`WriteEnds`). `peer[c].misled` notes a reply whose bytes are not those its request asked for.

### HttpParser

An action handles one byte in one group of the parser's states; a jump to `reexecute` sets `again`. A "byte" is a class of
bytes or a word that the parser matches letter by letter with nothing but a saved index. `mark` holds the marks into the current read; `ReadEnds`
hands over what is marked and forgets the marks, as the end of `http_parser_execute` and the beginning of the next call do, and may come after any byte. The
callbacks of `parser.h` (`OnUrl`, `OnHeaderField`, ...) build the request, and `messages` collects what is passed to `Connection::handle`. `MCHttpParser` encodes
requests of every form the parser tells apart and a list of malformed ones; `RequestsIntact` compares what came out with what was encoded. Items marked `whole` are
read by one read (section 5 says why). Of a list of transfer codings the word behind each comma is looked at, as in the code.

### Router, WebSocket, QueryString

`Router` keeps the tries as records; `Add`, `OptimizeNode` and `Find` follow `Trie::add`, `optimize_node` and `find`. The
reference is `Match`: the rule's pattern against the URL, one rule at a time. The rules of an instance are registered in any order.

`WebSocket` reads a frame in the states of `do_read` (`MiniHeader`, `Len16`, `Len64`, `Mask`, `Payload`) in pieces of up to `BufferSize`. Each
byte on the wire is paired with the position of the mask's byte it was combined with, so that a wrong offset shows as a wrong byte. `Limit7` and `Limit16`
stand for 126 and 0x10000. A read that returns one of the two bytes of a header is `ReadHalfHeader`: what follows is garbled, and the model ends there.

`QueryString` keeps the URL as the code does, as one text that is decoded in place, and pairs as positions in it.

## 3. Runs

| Run | Instance | Shows |
|---|---|---|
| `engine_linearizable` | 3 threads, 3 keys in 1 bucket, 2 values, 3 nodes; 113 thousand states | `OneNodePerKey`, `NoDanglingPointer`, `OneOwner`, `AppendOnly`, the inductive invariant `IInv`, and `Linearizable`: `DataEngine` implements `KeyValueStore` |
| `engine_nonblocking` | 3 threads of which one is scheduled while it is in a list; 299 thousand states, no symmetry | `NonBlocking`, of the list operations |
| `engine_observers` | 2 threads, 1 observer, 3 keys in 2 buckets, 3 nodes, 2 calls of `get`; 1.0 million states | `StatisticsBalance`, `EnumerateComplete`, `StatisticsTimely`, `CleanEnd` (types, and the destructor frees every node once) |
| `allocator_factory` | 3 threads; 418 states | `MapNotRaced`, `InsertionSucceeds`, `RegisteredReturns` |
| `lifecycle` | 2 runs, both builds, 2 workers, 2 keys, 2 values, any file of up to 2 members; 142 thousand states | `MemorySafe`, `LoadsWhatWasSaved`, `KeysKept`, `ServesAndStops` |
| `lifecycle_fallback` | 1 run, fallback build | `ComesToServe` is violated (section 5) |
| `lifecycle_write_errors` | 1 run | `SavedMeansSaved` is violated (section 5) |
| `crow_connections` | 2 connections whose peers hang up and reset at any time but do not pipeline, 2 chunks each; 1.71 million states | `Alive`: no operation refers to a deleted connection; `FlagsTruthful`; `RepliesOwn` |
| `crow_server` | 3 workers, 5 connections to distribute; and 1 connection whose peer may hang up or reset at any time, 4 chunks; 12 thousand states | `LoadSpread`, `WorkersReady`, `StartsAndStops` of the server; `ConnectionsEnd` of the connection |
| `parser` | one or two requests of about 30 forms, reads that end anywhere; 131 thousand states | `ReadsIntact`, `ParseEnds` |
| `api` | 2 clients on one name, 5 bodies, 3 calls, 1 fault; 218 thousand states | `RepliesTruthful`, `StoreExplained`, `IllFormedRefused`, `CallsReturn` |
| `components` | up to 3 of 11 rules, 12 URLs; up to 3 of 6 frames; names of 3 bytes, texts of 4; 3 threads on x86; URLs of 2 or 3 pairs; 266 thousand states | `RequestsRouted`, `AdviceTruthful`; `MessagesIntact`, `FramesInOrder`, `CloseReported`; `NamesDecoded`; `NodesPublished`; `PairsRead`, `PopsItsPairs` |

Why the bounds are enough to be interesting:

- Three threads and three colliding keys give lists of length three, with two losers of one CAS, one of
  them with the winner's key and one with another. There are as many nodes as keys, so that nodes are freed and
  reused while others are linked; when `Nodes` runs out, only `CreateNodeThrows` is left: memory is exhausted. The proofs remove these bounds.
- `Linearizable` needs two values per key to tell an old from a new answer, and three threads for a reader between two writers.
- Symmetry is declared only for safety properties and for sets whose members the instance treats alike; `k1` is
  excluded where it alone hashes to its own bucket. Runs with liveness have no symmetry.
- One observer is enough: observers write nothing the others read. Two calls of `get` are enough to
  put one lookup before, between and after the two loads of the statistics.
- Two runs of the process show what the file carries over; a file of two members can hold a key twice, and a good record before a bad one.
- Two connections are what it takes for one to disturb the other through the shared timer; two chunks let a request follow a
  reply or an incomplete one. With one connection `Timeout` is 2 and there are four chunks, so that a deadline is armed, cancelled and armed again.
- Three workers and five connections let the counters differ by one and be level again.
- Two requests after each other show what the parser leaves behind; `MaxLength` is 31, so that two digits reach its overflow check.
- One fault is enough for an abandoned try that takes effect late, beside two clients with a call each and one more.
- `Limit7 = 1`, `Limit16 = 2` and `BufferSize = 1` make every length of header, and a payload of two reads, happen with payloads of at most two bytes. `MaxPairs = 3`
  puts a URL of four pairs at the limit.
- Deadlock is checked in the engine and allocator runs. The others end when the engine is destroyed, after `MaxRuns`, when the server has stopped,
  when the input is read or the clients have made their calls, and their configurations say `CHECK_DEADLOCK FALSE`.

Every property has a mutant in the modules ("Faulty: ..."): a definition that differs from the real one by a plausible
bug and makes the property fail in the same run.

### What the less obvious properties say

- `StatisticsBalance`: modulo the counters' width, the sum of the two counters is the number of lookups decided so far, through
  failed copies.
- `StatisticsTimely`: the total of a reply is no snapshot (README.md:138-139 of the repository says so), but it is at least the
  number of lookups that had returned when the request began and at most the number begun when it ends.
- `EnumerateComplete`: beside running sets, an enumeration visits every key present at its start, and no key twice.
- `LoadsWhatWasSaved`: with any crashes in between that hit no save, a run that can read the file begins with exactly what was saved.
- `KeysKept`: when `save` truncates the file, the document it is about to write has every key `load` has read from it, and these are all of the file's keys unless
  `load` has reported a failure. Of what comes after the truncation nothing is claimed: a crash or a lost write leaves fewer keys (section 5).
- `NonBlocking`: a scheduled thread that has been brought to a list gets to its key or to the end, wherever others have stopped. It says nothing of `create_node`, which takes the
  lock of the allocators' map for every `set`, and nothing of loading and storing a value.
- `MemorySafe` (`TypeOK` and `ReferencesAlive`): the document under construction never refers to a string that a worker's `set` has freed. It
  rests on `RunReturns` waiting for the workers.
- `RegisteredReturns`: a thread that is in the allocators' map waits only for the first calls of others. A *first* call can starve
  behind readers, so nothing is claimed of it.
- `FlagsTruthful`: of peers that do not pipeline, what is in flight for a connection has its flag up, and a flag that is up has something in flight unless a callback of the connection has thrown.
- `ConnectionsEnd`: every connection ends, by its peer, by a request to close or by its deadline, except those of which `Leaked` says that the code never deletes them: a callback has thrown, or the peer left before its
  reply and the end of the stream was read first.
- `LoadSpread` (`QueueCounts` and `Balanced`): a load counter is the number of the worker's connections, and as
  long as none has ended no worker has two more than another.
- `FullStopEnds`, in `StartsAndStops`: a stop that has reached every `io_service`, however early, ends `run`.
- `RepliesTruthful`: a POST that returns 200 was stored by the very try that returned, and the assertions of `client.py` hold. `StoreExplained`: after it, the
  record holds this value, one of another client or one of a try that was given up - the late effect of a retried POST is possible and nothing else is. Which try of the other client is left open:
  one answered before this POST was stored is accepted too.
- `CallsReturn`: every call ends with the reply to one of its tries, or by an exception that is no `ConnectionError`.
- `RequestsRouted`: a request goes to the first registered rule that matches it, with the texts of its parameters, and "404" and "405" are true.
- `AdviceTruthful`: OPTIONS lists the methods that know the URL, and HEAD with them whether it would be answered or not; a redirection leads to a rule, except for the endless ones of a rule like `/<path>/`. Both exceptions are
  stated as the code has them.
- `MessagesIntact`: messages are whole in whatever pieces lengths, masks and payloads are read, until a read parts the two bytes of a header. In `FramesInOrder` a ping is answered when its pong is queued. `CloseReported` speaks of connections
  that are deleted.
- `NamesDecoded`: decoding inverts quoting, no name becomes empty, and what lies behind the terminating null never decides anything.

### Fairness

- `OneFairThread`: weak fairness for the list operations of `t1` alone (`ListStep`). This is the point of a lock-free operation: nothing
  is assumed of the other threads. That `t1` finishes needs a bounded number of nodes, which the instance has;
  with an unbounded stream of new keys in its bucket a walk could go on. `create_node` and the value's `load` and `store` are no list operations: `get_allocator` takes a `shared_mutex`
  (`AllocatorFactory.cpp:15-37`), so that a thread stopped with its unique lock stops every later `set`, and the values' implementations lock, as README.md:157-172 of the repository admits.
- `AllocatorFactory!FairSpec`: every thread is scheduled. A lock is taken when it is continuously free (weak fairness): the
  standard promises no more.
- `Lifecycle!FairSpec`: the operating system schedules `main` and each worker. Nothing is assumed of signals, clients,
  crashes or restarts. A handler that runs ends (`NonBlocking` and the lack of other waiting in the handlers justify it, given that every thread is scheduled and so the mutexes of the allocators and the values are granted).
- `EitherSpec` of `MCCrowServer`: the threads of the server are scheduled; nobody need connect, disconnect or stop. The worker of
  the connection runs its callbacks, the timer ticks, reads that have something to report and writes complete (the peer takes its replies; a synchronous write is one step, which assumes the same).
  `CrowConnection!SlowSpec` drops the last assumption.
- `HttpApi!Spec`: clients and server are scheduled, and faults are finitely many.
- `HttpParser!Spec`: the parser's loop goes on.

## 4. Proofs

Checked by TLAPS for any sets of keys, values, threads, nodes, observers, workers, connections, clients, names and frames, any hash function, any positive number of
buckets, counter width and number of runs, any bound on calls, connections and faults, and any initial file. The
assumptions are those the modules declare: `Null`, `None` and the outcomes are no values, `BucketCount > 0`,
`Hash` is a function to naturals, `Counters > 0`, `None` is no thread, `MaxRuns > 0`, there are finitely many threads (`ThreadsFinite`, for counting
them), at least one worker (`WorkersExist`), the bodies of a POST are those the handler tells apart (`BodiesKnown`),
a worker has finitely many connections and a positive time to wait (`ConnsFinite`, `TimesPositive`), bytes of URLs are numbers below 256 and texts are not empty (`BytesOnly`, `BoundsPositive`:
Crow routes no request with an empty parameter), and a websocket's frames have opcodes of the protocol and its buffer at least one byte (`FramesKnown`, `BufferPositive`). In `DataEngineObservers`
the counters do not wrap (`MaxGets < Counters`), as a total of two wrapped counters says nothing.

| Theorem | Statement |
|---|---|
| `DataEngineProofs!Invariance` | `Spec => []IInv` |
| `TypeCorrect`, `UniqueKeys`, `MemorySafe`, `Ownership` | `[]TypeOK`, `[]OneNodePerKey`, `[]NoDanglingPointer`, `[]OneOwner` |
| `StatisticsBalanced` | `[]StatisticsBalance` |
| `ListsOnlyGrow` | `AppendOnly` |
| `Refinement` | `Spec => Linearizable` |
| `DataEngineObserversProofs!ObserversInvariance` | `OSpec => []OIInv` |
| `EnumerationComplete`, `DestructionClean`, `ObservedBalance` | `[]EnumerateComplete`, `[]CleanEnd`, `[]StatisticsBalance` |
| `StatisticsInTime` | `StatisticsTimely` |
| `AllocatorFactoryProofs!Invariance` | `Spec => []IInv` |
| `AssertionHolds`, `MapSafe` | `[]InsertionSucceeds`, `[]MapNotRaced` |
| `LifecycleProofs!Invariance` | `Spec => []IInv` |
| `DocumentSafe`, `RunsAgree`, `NoKeyLost` | `[]MemorySafe`, `LoadsWhatWasSaved`, `KeysKept` |
| `CrowServerProofs!Invariance` | `Spec => []IInv` |
| `EvenLoad`, `OnlyReadyWorkers` | `[]LoadSpread`, `[]WorkersReady` |
| `HttpApiProofs!Invariance` | `Spec => []IInv` |
| `RepliesAreTruthful`, `StoreIsExplained`, `IllFormedIsRefused` | `[]RepliesTruthful`, `[]StoreExplained`, `[]IllFormedRefused` |
| `CrowConnectionProofs!Invariance` | `"pipeline" \notin Manners` implies `Spec => []IInv` |
| `ConnectionsAlive`, `FlagsTellTruth`, `RepliesTheirOwn` | under the same condition, `[]Alive`, `[]FlagsTruthful`, `[]RepliesOwn` |
| `ComponentProofs!PublishedOnTSO` | `Machine = "x86"` implies `Spec => []NodesPublished` |
| `NamesRoundTrip` | `DecodeSpec => []NamesDecoded` |
| `SocketInvariance` | `SocketSpec => []SocketInv` |
| `MessagesDelivered`, `SocketOrder`, `ClosesReported` | `[]MessagesIntact`, `[]FramesInOrder`, `[]CloseReported` |

**The inductive invariant of the engine.** `OneNodePerKey` is not inductive: when `LinkNext` appends a node one must know that
no node of the list has its key, and the thread has looked at them one at a time, in the past. The set `ahead` records what a walk
has passed, so that this becomes a statement about one state:

- `ListInv`: a published head has nothing ahead of it; the successor of `n` has `ahead[n]` and `n` ahead of it; a last
  node has every other node of its bucket ahead of it; and a node is never ahead of one that is ahead of it, so that there is no cycle.
- `Walked(t)`, for a thread in a walk: no node ahead of its cursor has its key. Reaching the last node and
  comparing its key too, the thread has then seen the whole list at the instant its CAS succeeds; if the CAS
  fails there is a successor, whose `ahead` the walk has also seen.
- `OneOwner`: the node a thread is about to link or free belongs to it alone.

`InitIInv` and `NextIInv` prove that it is inductive, one lemma per group of actions (`GetKeepsIInv`,
`LinkFirstKeepsIInv`, `LinkNextKeepsIInv`, ...). No induction over lists and no reachability is needed. TLC checks `IInv` in `engine_linearizable`.

**Linearizability.** The refinement mapping makes the dictionary the values of the published nodes (`Dictionary`), and the answer of a
lookup known from the moment it reads the end of its list (`Answer`). `LinkFirst`, `LinkNext` and `Overwrite` are the effects of `set`,
`GetValue` that of a lookup that finds its key; a step to `Null` (in `GetBucket` or `GetNext`) is the effect of
one that does not: `Walked` and `ListInv` say that the key is absent at that very instant. All else stutters or calls, fails and returns.

**The statistics.** `StatisticsBalance` is inductive given `TypeOK`: `Looked` is the set of threads past their count, and a step of the engine adds one thread to it
together with one count (`LookupsCounted`), or takes one out together with one return (`CountingBalances`). The counters wrap, so the equation is modulo
`Counters`; `ModAdd` and `ModStep` are the arithmetic of it.

**Enumeration, statistics and the destructor.** `OIInv` adds four parts to `IInv`. `ChainInv` says that from the head of a list every node in it is
reached; `EnumerateInv` that the keys an enumeration has visited are of nodes `Behind` its cursor, and that every node that was there when it began and is behind the cursor has been
visited, so that the end of the last bucket leaves none; `StatisticsInv` brackets the first of the two loads, and `CountInv` keeps the counters from
wrapping; `DestroyInv` says that every allocated node is still to be freed (`Owed`) and can be reached. Steps of workers keep each part because lists only
grow at their end (the lemmas of `DataEngineProofs`, cited).

**Publication with relaxed atomics.** What a walk has compared lies in the past here too; the invariant says that there is a sequence of
nodes (`List`) that `next` follows, whose threads have returned and have no store on its way, with different keys, and that every `set` stands at one of its positions and has
passed only foreign keys (`Place`). Losing a CAS moves a thread to the next position, and winning it extends the list by a node whose key is visible: `Ordered` has
made the CAS wait for the store. This is the only place where `Machine = "x86"` is used, and the step that fails on a weaker machine.

**The allocators' map.** `LocksHeld` ties the locks to where the threads are; with `InsertionSucceeds` it is inductive.

**The process.** None of the three properties is inductive, and two speak of contents that were saved runs ago. The invariant follows them through the phases:
`FileInv` says that a file that is vouched for holds exactly `saved`; `LoadInv` that the engine holds what the file has up to the record `load` has
come to; `KeepInv` that the engine still has every key that was read, and that a load without a report has read them all; `DocumentInv` that the document is a copy of the engine; and
`PhaseInv` what a phase has left of the memory: above all that no worker has a request in hand before `main` serves or after `run` has returned, so that
a `set` falls between the two (`HandledWhileServing`). `saved` leaves `LoadInv` untouched while loading, `Close` establishes `FileInv` from `DocumentInv`, and a crash during the save gives up what was known. One
lemma per part, one step per action.

**Workers and their loads.** `QueueCounts` and `Balanced` are about what `pick_io_service_idx` chose, with counters it has read one after the other. `ScanInv` says what the scan knows: until a
connection has ended, the smallest counter it has seen is still the smallest of those it has come by, since only the acceptor increments them. `StartInv` orders the start: the acceptor
begins only after as many workers as there are have counted themselves (`Ready`), so that none of them is without its timer.

**Replies and retries.** `RepliesTruthful` needs to know where replies may come from. `ClientInv` says that of the tries of a client the server still knows, one that was given up is on a connection with a
smaller number than the client's, and any other is the one it waits for, with its method, name and body; the reply that arrives is then the one to the last try (`ArrivedCurrent`). `HandlerInv` says what
a handler has stored, and that its reply `Answers` its own request. `StoreExplained` is kept through `SetRecord` of a try that was given up, the step in which an acknowledged
value is overwritten. The invariants were all checked by TLC on the runs' instances before they were proved.

**Connections.** `Alive` alone says nothing of what a callback that is still queued will find. For peers that do not pipeline, and per connection, `ReadInv` says that there is at most one read, in flight, queued or being parsed, and that the flag is up
while there is one; `WriteInv` the same of the write, and that the flag is up just then. A connection one of whose callbacks has thrown is excepted from the latter, and stays undeleted; `ThrownInv` says that nothing more is written to it, and that it reads only to learn that its peer is not there. `check_destroy` deletes only with both flags down, so nothing is left that refers to the object. The timer is the other reference: `TimerInv`
says that each task is of a live connection which knows its id, so that the destructor cancels it, although ids are issued again (the converse, that a connection's id is of its own task, is false: section 5).
`RepliesOwn` needs that a request is parsed only when nothing is written: `RequestInv` and `InOrder` say that input comes behind the write it answers, since the peer has waited for its reply. With `"pipeline"` that is
false, and so are `RepliesOwn`, `FlagsTruthful` and `Alive`; this is why the theorems exclude it. `CountInv` is the worker's load counter, `QueueInv` that no two callbacks of a kind are queued for one connection.

**Decoding.** The invariant says that, for a name that was quoted, `result` is the name up to some byte and `index` where the quotation of the next byte begins (`AtNextByte`); each turn of the loop consumes the quotation of one byte, in
one of three forms (`HereStarts`, `EscapeScanned`). Where the quotation of a byte begins depends on `FlattenSeq`, which is recursive; `Layout` finds the positions.

**Websockets.** `FrameInv` says what is known of the frame being read: its header from the moment that is behind, and that `fragment` is the first bytes of its payload, as they are on the wire, so that the last piece completes it and unmasking gives back what the peer
sent (`PieceRead`, `FrameRead`). `MessageInv` says that `message` is the payloads of the data frames since one that begins a message, and `StreamInv` that a frame is a continuation just when a message has been begun; a frame with `fin` therefore delivers a whole message with the
type of its first frame (`DataHandled`), and control frames change nothing of it (`MessageKept`). `ReadHalfHeader` is where all this ends: no message is delivered after it. `SendInv` says that what has been submitted is written, being written or queued, in this order, until a write has failed. `CloseInv`: the handler has been called when it is noted to be.

**Induction over data.** The library's induction theorems take an operator and cannot be used. Instead, `LeastNumber` takes the least number of a set, which follows from the well-foundedness of `<` on numbers as a set of pairs, and `InductionTo` is induction for a set of
numbers. With them `Flattened` and `OfUnfolded` prove that the recursive functions in `FlattenSeq` and `Of` exist and satisfy their equations; what follows from these is proved by one step of `Append` at a time (`FlattenAppended`, `OfAppended`).

Model-checked only:

- `HttpParser`, `Router` and `QueryString`. The latter two define tries and texts by `RECURSIVE` operators, for which the prover has no backend; `ReadsIntact` compares what `HttpParser`
  builds with the requests `MCHttpParser` encodes, and an invariant would have to follow the marks through some thirty states of the parser.
- `DataEngine` on machines other than x86, where `NodesPublished` is false, and pipelining peers, for which `Alive`, `FlagsTruthful` and `RepliesOwn` are: these are refuted, not checked (section 5).
  `DeadlineArmed` is a definition of no run: it holds for one connection and is false for two.
- All liveness (`NonBlocking`, `RegisteredReturns`, `ServesAndStops`, `StartsAndStops`, `ConnectionsEnd`, `CallsReturn`, `ParseEnds`), which is out of the prover's reach.

## 5. Where code and documentation disagree

1. **A build with the fallback never serves** (`lifecycle_fallback`). README.md:9 names Windows, Linux and macOS. Where the library lacks
   `atomic<shared_ptr>` (GCC before 12, Clang 13: the CI's Linux and macOS builds), `utils/stl.h:53` calls
   `std::atomic_is_lock_free(this)`, a template that calls `is_lock_free()` on the object it gets. `main.cpp:36` asks before anything else,
   so the process overflows its stack or spins. Compiling the fallback with `g++` confirms it: an overflow at `-O0`, an endless loop at `-O2`. The
   intended argument is `&ptr_`.
2. **"saved N DB records" without a saved file** (`lifecycle_write_errors`). `DataSerializer::save` truncates the file, ignores what
   `fwrite` and `fclose` return and returns true; `main.cpp:61` then reports success. On a full disk the database is gone.

Losses that no document denies, and that the properties therefore except: a crash or a lost write during the save loses the old contents too (`Crash`, `WriteRecord`), and after a load that
failed part way the shutdown overwrites the file with the part that was loaded.

The following were met while modelling. The runs leave these cases out; where the modules contain them, the change of an instance or a property that makes TLC show them is named.

**The program itself**

- `RelaxedPublication` with `Machine = "weak"` refutes `KeysConstructed` and so `NodesPublished`: without release and acquire a node can be seen before its key. README.md:142 of the repository calls the engine
  cross-platform.
- `HttpApi!ErrorFormat` is violated: the reply of an internal error dumps a reference to `name`, which is destroyed when the `catch` block is entered (`HttpServer.cpp:85`, `104-107`).
- `HttpServer.cpp:129` parses `req.body.c_str()`: what lies behind a NUL byte of the body is not looked at, so that an ill-formed body with a well-formed beginning is stored. `HttpApi` has no such body.
- `client.py:85` catches `ConnectionError` alone: an `IncompleteRead` or `TimeoutError` of the lines above leaves the retry loop and ends the process.
- README.md:157-172 of the repository names the allocator among the parts that may block; `NonBlocking` excepts it.

**Crow's connections and server**

- `Manners` with `"pipeline"` refutes `Alive`, `FlagsTruthful` and `RepliesOwn`: of two requests in one read each starts an `async_write` under the one flag `is_writing` (`http_connection.h:509-523`). The callback of the first
  takes the flag down and clears the response of both; `check_destroy` (`552-559`) then deletes the connection while the second write is pending, after a read error or with a request to close.
- Connections that are never deleted, and their worker's load counter with them. `Leaked` names them, and `ConnectionsEnd` without it is refuted: (a) the deadline passes, or the peer resets, between the completion of a read and its callback, which any peer can meet:
  `remote_endpoint()` throws in `handle` (`http_connection.h:118`), after the deadline was cancelled, and `is_reading` stays up; (b) a synchronous write throws (`371-449`), `Router::handle` catches it and ends a response nobody writes, and `is_writing` stays up; (c) the
  peer leaves before its reply is written, the failed read is called back first and leaves the deletion to the write, whose callback deletes only a connection that is to be closed.
- `SlowSpec`, with a peer that never takes its reply, refutes `ConnectionsEnd`: the deadline is cancelled while a reply is written.
- Two connections refute `DeadlineArmed`: a stale id cancels the deadline of another connection (`task_timer.h:107`).
- A `stop` while `run` is still filling `io_service_pool_` (`http_server.h:165`, `app.h:451`) misses the rest, and `wait_for_server_start` waits without a predicate (`app.h:457`): `stopper = "stopped" ~> main = "returned"` does not hold.

**Crow's parser, router, websockets and query strings**

- The position of the question mark is relative to the current read: a URL cut by a read before its query gets a wrong `url` (`http_parser_merged.h:702`). An empty value of a header is dropped if the next line
  is another header's (`parser.h:38`). With `Upgrade: h2c` the parser ends the message behind the headers (`http_parser_merged.h:1654`), while the connection means to ignore the header (`http_connection.h:136`): a body is lost to the request. `MCHttpParser` marks or omits such requests.
- A rule `/<path>/` redirects without end, to a URL with one more slash each time (`RedirectLeads` states it); an exception of a catchall handler leaves `handle`, which says that uncaught exceptions become 500s (`routing.h:1552`); OPTIONS lists HEAD for every URL some method knows, also where HEAD is answered with 405 (`routing.h:1457`; `AllowTruthful` states it); a rule for HEAD alone is never found.
- A second Close frame makes the websocket use itself after deletion (`websocket.h:600`); an error while reading the mask or the payload calls no `check_destroy` (`websocket.h:420`, `458`), which leaks the connection; `check_destroy` does not note that it has called the close handler, which a second call of it repeats. The two
  bytes of a header are read by `async_read_some` (`websocket.h:259`) and may come apart: the callback takes the one for both, and every frame from there on is garbled (`ReadHalfHeader`).
- `pop` finds the value by the decoded key but erases by the literal text `name=`; items with blank values stay. A value ends at a second `=`, as in `x=1=2` (`QueryString!Ends`). The 257th pair is counted although it is behind the table (`query_string.h:117`). `get_dict` takes
  pairs without brackets or with a longer name, where its comment calls brackets mandatory, and a `]` before the `[` ends the dictionary.

## 6. Not modelled

Left out: `Logger` (stateless formatting under a mutex; only the order of log lines depends on threads); Crow's JSON, templates, multipart bodies and middlewares,
which the program does not use and which parse and format text; requests, responses and returnables as far as they are records that other modules move; utilities without state (compile-time
parsing of rules, hashes, sockets' wrappers); `qs_scanvalue`, which nothing calls; blueprints and tick functions, which the program does not register; TLS and Unix sockets, which are not built; the limit on the
size of headers; build and CI files. Of the fallback for `atomic<shared_ptr>`, `load` and `store` are the atomic accesses of `DataEngine`; their mutex pool is the library's.

What could be added: an invariant of `HttpParser`'s marks (what lies between a mark and the current byte belongs to the field that is open), from which `ReadsIntact` would follow for requests of any
length; and the tries of `Router` as functions over paths, without recursion, so that `OptimizeNode` could be proved to change no look-up.
