----------------------------- MODULE CrowServer -----------------------------
(***************************************************************************)
(* Crow::run and stop (app.h) and Server (http_server.h): the start of the *)
(* workers, the distribution of connections over them, and the end. What a *)
(* worker does with a connection is CrowConnection.                        *)
(*                                                                         *)
(* The threads are the caller of run (main), the one that accepts, the     *)
(* workers 1 .. WorkerCount, and one that waits for the start and stops.   *)
(***************************************************************************)
EXTENDS Naturals, FiniteSets

CONSTANTS
    WorkerCount,        \* concurrency_ - 1, of a concurrency of at least 2
    MaxConnections      \* bound on the connections that are accepted

ASSUME WorkersExist == WorkerCount \in Nat \ {0}

VARIABLES
    main,           \* where the caller of run is
    started,        \* server_started_
    pool,           \* the number of io_services in io_service_pool_
    stopped,        \* the io_services that are stopped; 0 is the acceptor's
    worker,         \* the state of each worker's thread
    initCount,      \* init_count
    queue,          \* task_queue_length_pool_
    live,           \* the connections each worker has
    acceptor,       \* the thread that accepts
    total,          \* connections accepted so far
    ended,          \* whether a connection has ended
    stopper         \* the thread that waits for the start and stops

vars == <<main, started, pool, stopped, worker, initCount, queue, live, acceptor, total, ended,
          stopper>>

Workers == 1 .. WorkerCount

Init ==
    /\ main = "validate"
    /\ started = FALSE
    /\ pool = 0
    /\ stopped = {}
    /\ worker = [i \in Workers |-> "none"]
    /\ initCount = 0
    /\ queue = [i \in Workers |-> 0]
    /\ live = [i \in Workers |-> 0]
    /\ acceptor = [pc |-> "none", min |-> 1, i |-> 2]
    /\ total = 0
    /\ ended = FALSE
    /\ stopper = "idle"

-----------------------------------------------------------------------------
(* The caller of run.                                                      *)

\* validate(), server_ and its signals.
CreateServer ==
    /\ main = "validate"
    /\ main' = "notify"
    /\ UNCHANGED <<started, pool, stopped, worker, initCount, queue, live, acceptor, total, ended,
                   stopper>>

NotifyServerStart ==
    /\ main = "notify"
    /\ started' = TRUE
    /\ stopper' = IF stopper = "waiting" THEN "woken" ELSE stopper
    /\ main' = "services"
    /\ UNCHANGED <<pool, stopped, worker, initCount, queue, live, acceptor, total, ended>>

CreateService ==
    /\ main = "services"
    /\ pool' = pool + 1
    /\ main' = IF pool' = WorkerCount THEN "workers" ELSE main
    /\ UNCHANGED <<started, stopped, worker, initCount, queue, live, acceptor, total, ended, stopper>>

\* std::async for each worker.
SpawnWorkers ==
    /\ main = "workers"
    /\ worker' = [i \in Workers |-> "starting"]
    /\ main' = "initialising"
    /\ UNCHANGED <<started, pool, stopped, initCount, queue, live, acceptor, total, ended, stopper>>

\* Faulty: one worker may still be starting.
Initialised_Early == initCount >= WorkerCount - 1

Initialised == initCount = WorkerCount

\* When every worker is ready: do_accept, and the thread that runs io_service_.
StartAccepting ==
    /\ main = "initialising"
    /\ Initialised
    /\ main' = "joining"
    /\ acceptor' = [acceptor EXCEPT !.pc = "picking"]
    /\ UNCHANGED <<started, pool, stopped, worker, initCount, queue, live, total, ended, stopper>>

\* join() returns, and the futures' destructors wait for the workers.
RunReturns ==
    /\ main = "joining"
    /\ acceptor.pc = "left"
    /\ \A i \in Workers : worker[i] = "left"
    /\ main' = "returned"
    /\ UNCHANGED <<started, pool, stopped, worker, initCount, queue, live, acceptor, total, ended,
                   stopper>>

-----------------------------------------------------------------------------
(* The workers.                                                            *)

\* The worker's date and timer, its queue length, and init_count++.
WorkerInit(i) ==
    /\ worker[i] = "starting"
    /\ queue' = [queue EXCEPT ![i] = 0]
    /\ initCount' = initCount + 1
    /\ worker' = [worker EXCEPT ![i] = "running"]
    /\ UNCHANGED <<main, started, pool, stopped, live, acceptor, total, ended, stopper>>

\* A connection of the worker is deleted: check_destroy.
ConnectionEnds(i) ==
    /\ worker[i] = "running"
    /\ live[i] > 0
    /\ live' = [live EXCEPT ![i] = @ - 1]
    /\ queue' = [queue EXCEPT ![i] = @ - 1]
    /\ ended' = TRUE
    /\ UNCHANGED <<main, started, pool, stopped, worker, initCount, acceptor, total, stopper>>

\* run() returns 0 when its io_service is stopped; the timer keeps it busy
\* until then.
WorkerExits(i) ==
    /\ worker[i] = "running"
    /\ i \in stopped
    /\ worker' = [worker EXCEPT ![i] = "left"]
    /\ UNCHANGED <<main, started, pool, stopped, initCount, queue, live, acceptor, total, ended,
                   stopper>>

-----------------------------------------------------------------------------
(* do_accept.                                                              *)

\* The condition of the loop of pick_io_service_idx.
Scanning(i, min) == i <= WorkerCount /\ queue[min] > 0

\* A turn of the loop: it compares what the counters are now.
Pick ==
    /\ acceptor.pc = "picking"
    /\ Scanning(acceptor.i, acceptor.min)
    /\ acceptor' = [acceptor EXCEPT !.min = IF queue[acceptor.i] < queue[@] THEN acceptor.i ELSE @,
                                    !.i = @ + 1]
    /\ UNCHANGED <<main, started, pool, stopped, worker, initCount, queue, live, total, ended, stopper>>

\* A new Connection for the worker that was picked, and async_accept.
Picked ==
    /\ acceptor.pc = "picking"
    /\ ~Scanning(acceptor.i, acceptor.min)
    /\ queue' = [queue EXCEPT ![acceptor.min] = @ + 1]
    /\ acceptor' = [acceptor EXCEPT !.pc = "accepting"]
    /\ UNCHANGED <<main, started, pool, stopped, worker, initCount, live, total, ended, stopper>>

\* The connection is posted to its worker, and the next is awaited.
Accept ==
    /\ acceptor.pc = "accepting"
    /\ total < MaxConnections
    /\ total' = total + 1
    /\ live' = [live EXCEPT ![acceptor.min] = @ + 1]
    /\ acceptor' = [pc |-> "picking", min |-> 1, i |-> 2]
    /\ UNCHANGED <<main, started, pool, stopped, worker, initCount, queue, ended, stopper>>

\* Faulty: a failed accept leaves its count.
AcceptFails_Counted ==
    /\ acceptor.pc = "accepting"
    /\ total < MaxConnections
    /\ total' = total + 1
    /\ ended' = TRUE
    /\ acceptor' = [pc |-> "picking", min |-> 1, i |-> 2]
    /\ UNCHANGED <<main, started, pool, stopped, worker, initCount, queue, live, stopper>>

AcceptFails ==
    /\ acceptor.pc = "accepting"
    /\ total < MaxConnections
    /\ total' = total + 1
    /\ ended' = TRUE
    /\ queue' = [queue EXCEPT ![acceptor.min] = @ - 1]
    /\ acceptor' = [pc |-> "picking", min |-> 1, i |-> 2]
    /\ UNCHANGED <<main, started, pool, stopped, worker, initCount, live, stopper>>

\* io_service_ is stopped: its run() returns between two handlers. The first
\* do_accept is the caller's own.
AcceptorExits ==
    /\ acceptor.pc = "accepting"
    /\ 0 \in stopped
    /\ acceptor' = [acceptor EXCEPT !.pc = "left"]
    /\ UNCHANGED <<main, started, pool, stopped, worker, initCount, queue, live, total, ended, stopper>>

-----------------------------------------------------------------------------
(* Stopping: by a signal, which the acceptor's thread handles, or by a     *)
(* call of another thread when wait_for_server_start has returned.         *)

WaitForServerStart ==
    /\ stopper = "idle"
    /\ stopper' = IF started THEN "woken" ELSE "waiting"
    /\ UNCHANGED <<main, started, pool, stopped, worker, initCount, queue, live, acceptor, total, ended>>

\* wait() has no predicate: it may also return without a notification.
SpuriousWakeup ==
    /\ stopper = "waiting"
    /\ stopper' = "woken"
    /\ UNCHANGED <<main, started, pool, stopped, worker, initCount, queue, live, acceptor, total, ended>>

Signal ==
    /\ stopper = "idle"
    /\ acceptor.pc = "accepting"
    /\ stopper' = "signalled"
    /\ UNCHANGED <<main, started, pool, stopped, worker, initCount, queue, live, acceptor, total, ended>>

\* if (server_): io_service_.stop().
StopAcceptor ==
    /\ stopper = "woken" \/ (stopper = "signalled" /\ acceptor.pc = "accepting")
    /\ stopped' = IF main = "validate" THEN stopped ELSE stopped \cup {0}
    /\ stopper' = IF main = "validate" THEN "stopped" ELSE "stopping"
    /\ UNCHANGED <<main, started, pool, worker, initCount, queue, live, acceptor, total, ended>>

\* Faulty: the last io_service is not stopped.
StopPool_ButLast ==
    /\ stopper = "stopping"
    /\ stopped' = stopped \cup {i \in Workers : i < pool}
    /\ stopper' = "stopped"
    /\ UNCHANGED <<main, started, pool, worker, initCount, queue, live, acceptor, total, ended>>

\* The io_services that are in the pool now.
StopPool ==
    /\ stopper = "stopping"
    /\ stopped' = stopped \cup {i \in Workers : i <= pool}
    /\ stopper' = "stopped"
    /\ UNCHANGED <<main, started, pool, worker, initCount, queue, live, acceptor, total, ended>>

Main ==
    \/ CreateServer \/ NotifyServerStart \/ CreateService \/ SpawnWorkers \/ StartAccepting
    \/ RunReturns
Acceptor == Pick \/ Picked \/ AcceptorExits
Stop == StopAcceptor \/ StopPool

Next ==
    \/ Main
    \/ \E i \in Workers : WorkerInit(i) \/ ConnectionEnds(i) \/ WorkerExits(i)
    \/ Acceptor \/ Accept \/ AcceptFails
    \/ WaitForServerStart \/ SpuriousWakeup \/ Signal \/ Stop

\* Threads that can go on do; nobody need connect, disconnect or stop.
Spec ==
    /\ Init /\ [][Next]_vars
    /\ WF_vars(Main) /\ WF_vars(Acceptor) /\ WF_vars(Stop)
    /\ \A i \in Workers : WF_vars(WorkerInit(i) \/ WorkerExits(i))

-----------------------------------------------------------------------------
(* Properties.                                                             *)

\* A worker's counter is the number of its connections, the one that is being
\* accepted included: it can neither wrap below 0 nor keep a worker from being
\* picked.
QueueCounts ==
    \A i \in Workers :
        queue[i] = live[i] + IF acceptor.pc \in {"accepting", "left"} /\ acceptor.min = i THEN 1 ELSE 0

\* While no connection has ended, the connections are spread evenly.
Balanced ==
    ~ended => \A i, j \in Workers : queue[i] <= queue[j] + 1

\* No connection is given to a worker that has not set its timer.
WorkersReady == \A i \in Workers : queue[i] > 0 => worker[i] \in {"running", "left"}

\* A signal ends the server: run returns.
SignalEnds == stopper = "signalled" ~> main = "returned"

\* Once every io_service has been stopped, however early, run returns: a worker
\* that starts late finds its io_service stopped.
FullStopEnds == ({0} \cup Workers \subseteq stopped) ~> main = "returned"

\* The server comes to accept connections: init_count reaches what run waits for.
ComesToAccept == main = "notify" ~> acceptor.pc # "none"

\* The counters pick_io_service_idx compares count the connections of each worker,
\* and while none has ended the connections are spread evenly.
LoadSpread == QueueCounts /\ Balanced

\* The server comes to accept connections, and a signal, or a stop that reaches
\* every io_service however early, makes run return.
StartsAndStops == ComesToAccept /\ SignalEnds /\ FullStopEnds

-----------------------------------------------------------------------------
(* The inductive invariant of LoadSpread and WorkersReady.                 *)

\* The workers that have set their timer and counted themselves.
Ready == {i \in Workers : worker[i] \in {"running", "left"}}

TypeOK ==
    /\ main \in {"validate", "notify", "services", "workers", "initialising", "joining",
                 "returned"}
    /\ worker \in [Workers -> {"none", "starting", "running", "left"}]
    /\ initCount \in Nat
    /\ queue \in [Workers -> Nat]
    /\ live \in [Workers -> Nat]
    /\ acceptor \in [pc : {"none", "picking", "accepting", "left"}, min : Workers, i : Nat \ {0}]

\* What run has done before it accepts: init_count counts the workers that are
\* ready, and none has a connection yet.
StartInv ==
    /\ main \in {"validate", "notify", "services", "workers"} =>
           initCount = 0 /\ \A i \in Workers : worker[i] = "none"
    /\ main = "initialising" => initCount = Cardinality(Ready)
    /\ main \in {"joining", "returned"} <=> acceptor.pc # "none"
    /\ IF acceptor.pc = "none" THEN \A i \in Workers : live[i] = 0
                               ELSE Ready = Workers

\* The scan of pick_io_service_idx has found no shorter queue so far.
ScanInv ==
    acceptor.pc = "picking" /\ ~ended =>
        \A j \in Workers : j < acceptor.i => queue[acceptor.min] <= queue[j]

IInv == TypeOK /\ StartInv /\ ScanInv /\ QueueCounts /\ Balanced
=============================================================================
