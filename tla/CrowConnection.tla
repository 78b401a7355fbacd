--------------------------- MODULE CrowConnection ---------------------------
(***************************************************************************)
(* The connections of one Crow worker (http_connection.h) and the timer    *)
(* they share (task_timer.h). A worker is one thread: each callback runs   *)
(* to its end, and completed operations are called back in the order in    *)
(* which they completed (asio's queue). Between the callbacks the peers    *)
(* send, read and leave.                                                   *)
(*                                                                         *)
(* A chunk of input is the list of the events the parser reports for it,   *)
(* and whether it is well formed. The handlers answer before they return.  *)
(***************************************************************************)
EXTENDS Naturals, FiniteSets, Sequences, Functions

CONSTANTS
    Conns,
    None,
    Timeout,        \* ticks of the timer until a deadline passes
    MaxChunks,      \* bound on the chunks of input a peer sends
    Manners         \* what peers may do besides waiting for their replies:
                    \* "pipeline": send a request before the last is answered
                    \* "hang up":  close before the reply has come
                    \* "reset":    reset the connection

ASSUME TimesPositive == Timeout \in Nat \ {0} /\ MaxChunks \in Nat

ASSUME MannersKnown == Manners \subseteq {"pipeline", "hang up", "reset"}

VARIABLES
    conn,           \* the Connection objects
    timer,          \* the worker's task_timer
    queueLength,    \* task_queue_length_pool_[i] of the worker
    reading,        \* the connections with an async_read_some in flight
    writes,         \* the async_writes in flight of each connection
    ready,          \* the completed operations whose callbacks are to run
    worker,         \* the feed() the worker is in, or None
    peer            \* the other ends

vars == <<conn, timer, queueLength, reading, writes, ready, worker, peer>>

(* What the parser reports of a message: a request whose connection is     *)
(* kept, one that asks to close it, one whose reply is a static file or is *)
(* larger than the stream threshold, and one of these that asks to close   *)
(* the connection, one of HTTP/1.1 without a host, one with an Upgrade no  *)
(* route takes; "expect": headers that ask for 100-continue.               *)
Streamed == {"stream", "last stream"}

Requests == {"keep", "close", "no host", "upgrade"} \cup Streamed

Polite == [events : {<<>>} \cup {<<e>> : e \in Requests \cup {"expect"}}, ok : {TRUE}]
          \cup [events : {<<>>}, ok : {FALSE}]

Chunks ==
    Polite \cup IF "pipeline" \in Manners
                THEN [events : {<<"keep", "keep">>, <<"expect", "keep">>}, ok : {TRUE}]
                ELSE {}

ASSUME ConnsFinite == IsFiniteSet(Conns)

ASSUME NoneIsNothing == None \notin Chunks /\ None \notin [conn : Conns, chunk : Chunks]

\* A reply, and whether its bytes are those its own request asked for.
Replies == [kind : {"reply", "continue"}, own : BOOLEAN]

Operations ==
    [conn : Conns, op : {"start"}]
    \cup [conn : Conns, op : {"read"}, chunk : Chunks \cup {None}]
    \cup [conn : Conns, op : {"write"}, error : BOOLEAN]

TypeOK ==
    /\ conn \in [Conns -> [life : {"free", "accepting", "live", "deleted"}, open : BOOLEAN,
                           is_reading : BOOLEAN, is_writing : BOOLEAN, closing : BOOLEAN,
                           completed : BOOLEAN, task_id : Nat, thrown : BOOLEAN]]
    /\ timer = [tasks |-> timer.tasks, highest |-> timer.highest]
    /\ timer.highest \in Nat
    /\ DOMAIN timer.tasks \subseteq 1 .. timer.highest
    /\ timer.tasks \in [DOMAIN timer.tasks -> [conn : Conns, left : 0 .. Timeout]]
    /\ queueLength \in 0 .. Cardinality(Conns)
    /\ reading \subseteq Conns
    /\ writes \in [Conns -> Seq(Replies)]
    /\ ready \in Seq(Operations)
    /\ worker = None \/ worker \in [conn : Conns, chunk : Chunks]
    /\ peer \in [Conns -> [state : {"idle", "expects", "continues", "waits",
                                    "gone", "left", "reset"},
                           chunks : 0 .. MaxChunks, misled : BOOLEAN]]

Init ==
    /\ conn = [c \in Conns |-> [life |-> "free", open |-> FALSE, is_reading |-> FALSE,
                                is_writing |-> FALSE, closing |-> FALSE,
                                completed |-> FALSE, task_id |-> 0, thrown |-> FALSE]]
    /\ timer = [tasks |-> <<>>, highest |-> 0]
    /\ queueLength = 0
    /\ reading = {}
    /\ writes = [c \in Conns |-> <<>>]
    /\ ready = <<>>
    /\ worker = None
    /\ peer = [c \in Conns |-> [state |-> "idle", chunks |-> 0, misled |-> FALSE]]

-----------------------------------------------------------------------------
(* task_timer                                                              *)

\* erase(id): nothing happens if the task is gone.
Cancel(tm, id) == [tm EXCEPT !.tasks = Restrict(@, DOMAIN @ \ {id})]

\* Connection::start_deadline cancels and schedules anew.
StartDeadline(c) ==
    LET id == timer.highest + 1
        kept == Cancel(timer, conn[c].task_id).tasks
    IN  [tasks |-> [i \in DOMAIN kept \cup {id} |->
                       IF i = id THEN [conn |-> c, left |-> Timeout] ELSE kept[i]],
         highest |-> id]

\* The tasks of process_tasks that are due and have not run yet.
Due == {id \in DOMAIN timer.tasks : timer.tasks[id].left = 0}

\* The worker's thread is in no callback and in no task.
Idle == worker = None /\ Due = {}

\* When no task is left the ids start from 1 again.
Highest(tasks) == IF DOMAIN tasks = {} THEN 0 ELSE timer.highest

\* process_tasks, once a second: some tasks may be due. The callback of a read
\* that has completed may be behind it.
Tick ==
    /\ Idle
    /\ timer.highest # 0
    /\ timer' = [tasks |-> [id \in DOMAIN timer.tasks |->
                               [timer.tasks[id] EXCEPT !.left = @ - 1]],
                 highest |-> Highest(timer.tasks)]
    /\ UNCHANGED <<conn, queueLength, reading, writes, ready, worker, peer>>

\* What closing a socket completes: its operations, aborted.
Aborted(c) ==
    (IF c \in reading THEN <<[conn |-> c, op |-> "read", chunk |-> None]>> ELSE <<>>)
    \o [i \in DOMAIN writes[c] |-> [conn |-> c, op |-> "write", error |-> TRUE]]

CloseSocket(c) ==
    /\ reading' = reading \ {c}
    /\ writes' = [writes EXCEPT ![c] = <<>>]

\* The tasks that are due run in the order of their ids. Each closes its socket.
Expire(id) ==
    LET c == timer.tasks[id].conn
        rest == Cancel(timer, id).tasks
    IN  /\ worker = None
        /\ \A other \in Due : id <= other
        /\ timer' = [tasks |-> rest, highest |-> Highest(rest)]
        /\ conn' = [conn EXCEPT ![c].open = FALSE]
        /\ CloseSocket(c)
        /\ ready' = ready \o Aborted(c)
        /\ UNCHANGED <<queueLength, worker, peer>>

-----------------------------------------------------------------------------
(* Accepting: Server::do_accept and Connection::start.                     *)

\* One Connection waits for the next peer.
Create(c) ==
    /\ conn[c].life = "free"
    /\ \A d \in Conns : conn[d].life # "accepting"
    /\ conn' = [conn EXCEPT ![c].life = "accepting"]
    /\ queueLength' = queueLength + 1
    /\ UNCHANGED <<timer, reading, writes, ready, worker, peer>>

Accepted(c) ==
    /\ conn[c].life = "accepting"
    /\ conn' = [conn EXCEPT ![c].life = "live", ![c].open = TRUE]
    /\ ready' = Append(ready, [conn |-> c, op |-> "start"])
    /\ UNCHANGED <<timer, queueLength, reading, writes, worker, peer>>

\* Faulty: the connection is counted down twice.
AcceptFails_Twice(c) ==
    /\ conn[c].life = "accepting"
    /\ conn' = [conn EXCEPT ![c].life = "deleted"]
    /\ queueLength' = queueLength - 2
    /\ UNCHANGED <<timer, reading, writes, ready, worker, peer>>

AcceptFails(c) ==
    /\ conn[c].life = "accepting"
    /\ conn' = [conn EXCEPT ![c].life = "deleted"]
    /\ timer' = Cancel(timer, conn[c].task_id)
    /\ queueLength' = queueLength - 1
    /\ UNCHANGED <<reading, writes, ready, worker, peer>>

\* The worker takes the callback of the operation that completed first.
Callback(c, op) ==
    /\ Idle
    /\ ready # <<>>
    /\ Head(ready).conn = c
    /\ Head(ready).op = op

\* start_deadline and do_read.
AwaitInput(c, r) ==
    /\ timer' = StartDeadline(c)
    /\ conn' = [conn EXCEPT ![c] = [r EXCEPT !.is_reading = TRUE, !.task_id = timer.highest + 1]]
    /\ reading' = reading \cup {c}

Start(c) ==
    /\ Callback(c, "start")
    /\ AwaitInput(c, conn[c])
    /\ ready' = Tail(ready)
    /\ UNCHANGED <<queueLength, writes, worker, peer>>

\* Faulty: a write in flight does not keep the connection.
CheckDestroy_Reading(c, r, tm) ==
    IF r.is_reading
    THEN /\ conn' = [conn EXCEPT ![c] = r]
         /\ timer' = tm
         /\ UNCHANGED queueLength
    ELSE /\ conn' = [conn EXCEPT ![c] = [r EXCEPT !.life = "deleted", !.open = FALSE]]
         /\ timer' = Cancel(tm, r.task_id)
         /\ queueLength' = queueLength - 1

\* check_destroy at the end of a callback that leaves the connection as r and
\* the timer as tm. The destructor cancels the deadline.
CheckDestroy(c, r, tm) ==
    IF r.is_reading \/ r.is_writing
    THEN /\ conn' = [conn EXCEPT ![c] = r]
         /\ timer' = tm
         /\ UNCHANGED queueLength
    ELSE /\ conn' = [conn EXCEPT ![c] = [r EXCEPT !.life = "deleted", !.open = FALSE]]
         /\ timer' = Cancel(tm, r.task_id)
         /\ queueLength' = queueLength - 1

-----------------------------------------------------------------------------
(* Reading. The callback feeds the parser, which calls handle_header and   *)
(* handle for what it finds; then the callback goes on.                    *)

ReadCallback(c) ==
    /\ Callback(c, "read")
    /\ Head(ready).chunk # None
    /\ worker' = [conn |-> c, chunk |-> Head(ready).chunk]
    /\ ready' = Tail(ready)
    /\ UNCHANGED <<conn, timer, queueLength, reading, writes, peer>>

\* The peer may still send and read.
Here(c) == peer[c].state \notin {"gone", "left", "reset"}

\* remote_endpoint() does not throw.
Connected(c) == conn[c].open /\ peer[c].state # "reset"

Feeding(c) == worker # None /\ worker.conn = c

\* The parser reports event e next.
Reports(c, e) == Feeding(c) /\ worker.chunk.events # <<>> /\ Head(worker.chunk.events) = e

Parsed == worker' = [worker EXCEPT !.chunk.events = Tail(@)]

\* res and res_body_copy_ change: a reply that is being written from them is
\* no longer the one it was.
Clobber(ws) == [i \in DOMAIN ws |-> IF ws[i].kind = "reply" THEN [ws[i] EXCEPT !.own = FALSE]
                                     ELSE ws[i]]

HandleHeader(c) ==
    /\ Reports(c, "expect")
    /\ conn' = [conn EXCEPT ![c].is_writing = TRUE]
    /\ writes' = [writes EXCEPT ![c] = Append(@, [kind |-> "continue", own |-> TRUE])]
    /\ Parsed
    /\ UNCHANGED <<timer, queueLength, reading, ready, peer>>

\* A request that is handled while res still holds the last reply is answered
\* with what is left of that: its handler is not called.
Own(c, e) == e = "no host" \/ ~conn[c].completed

\* A body shorter than the stream threshold: do_write.
Handle(c, e) ==
    /\ e \in {"keep", "close", "no host"}
    /\ Reports(c, e)
    /\ Connected(c)
    /\ timer' = Cancel(timer, conn[c].task_id)
    /\ conn' = [conn EXCEPT ![c].closing = (e = "close"), ![c].is_writing = TRUE,
                            ![c].completed = (e # "no host")]
    /\ writes' = [writes EXCEPT ![c] =
                     Append(Clobber(@), [kind |-> "reply", own |-> Own(c, e)])]
    /\ Parsed
    /\ UNCHANGED <<queueLength, reading, ready, peer>>

\* Faulty: the flag of the write is not taken down.
HandleStream_FlagUp(c, e) ==
    LET last == e = "last stream"
    IN  /\ e \in Streamed
        /\ Reports(c, e)
        /\ Connected(c)
        /\ timer' = Cancel(timer, conn[c].task_id)
        /\ conn' = [conn EXCEPT ![c].closing = last, ![c].open = ~last,
                                ![c].is_writing = TRUE, ![c].completed = FALSE]
        /\ writes' = [writes EXCEPT ![c] = IF last THEN <<>> ELSE Clobber(@)]
        /\ ready' = IF last THEN ready \o Aborted(c) ELSE ready
        /\ peer' = [peer EXCEPT ![c].state = IF @ = "waits" THEN "idle" ELSE @,
                                ![c].misled = @ \/ ~Own(c, e)]
        /\ Parsed
        /\ UNCHANGED <<queueLength, reading>>

\* A static file or a longer body is written before handle() returns. If the
\* connection is to be closed it is closed at once, and kept by the read.
HandleStream(c, e) ==
    LET last == e = "last stream"
    IN  /\ e \in Streamed
        /\ Reports(c, e)
        /\ Connected(c)
        /\ timer' = Cancel(timer, conn[c].task_id)
        /\ conn' = [conn EXCEPT ![c].closing = last, ![c].open = ~last,
                                ![c].is_writing = FALSE, ![c].completed = FALSE]
        /\ writes' = [writes EXCEPT ![c] = IF last THEN <<>> ELSE Clobber(@)]
        /\ ready' = IF last THEN ready \o Aborted(c) ELSE ready
        /\ peer' = [peer EXCEPT ![c].state = IF @ = "waits" THEN "idle" ELSE @,
                                ![c].misled = @ \/ ~Own(c, e)]
        /\ Parsed
        /\ UNCHANGED <<queueLength, reading>>

\* asio's synchronous write throws when the peer no longer reads. Router::handle
\* catches the exception and ends a response that nobody writes: the flag of the
\* write stays up, and the connection is never deleted.
HandleStreamFails(c, e) ==
    /\ e \in Streamed
    /\ Reports(c, e)
    /\ Connected(c)
    /\ IF Here(c)
       THEN "reset" \in Manners /\ peer' = [peer EXCEPT ![c].state = "reset"]
       ELSE UNCHANGED peer
    /\ timer' = Cancel(timer, conn[c].task_id)
    /\ conn' = [conn EXCEPT ![c].closing = (e = "last stream"), ![c].is_writing = TRUE,
                            ![c].completed = TRUE, ![c].thrown = TRUE]
    /\ writes' = [writes EXCEPT ![c] = Clobber(@)]
    /\ Parsed
    /\ UNCHANGED <<queueLength, reading, ready>>

\* No route takes the upgrade: res is 404, and nobody writes it.
HandleUpgrade(c) ==
    /\ Reports(c, "upgrade")
    /\ Connected(c)
    /\ timer' = Cancel(timer, conn[c].task_id)
    /\ conn' = [conn EXCEPT ![c].closing = TRUE, ![c].completed = TRUE]
    /\ Parsed
    /\ UNCHANGED <<queueLength, reading, writes, ready, peer>>

\* remote_endpoint() throws for a socket that is no longer connected, which the
\* deadline has closed after the read had completed, or the peer has reset: the
\* worker logs the exception and goes on with its next callback. The flag of the
\* read stays up, and the connection is never deleted.
HandleThrows(c) ==
    /\ \E e \in Requests : Reports(c, e)
    /\ ~Connected(c)
    /\ timer' = Cancel(timer, conn[c].task_id)
    /\ conn' = [conn EXCEPT ![c].thrown = TRUE]
    /\ worker' = None
    /\ UNCHANGED <<queueLength, reading, writes, ready, peer>>

Fed(c) == Feeding(c) /\ worker.chunk.events = <<>>

\* The peer has gone or the input is malformed. Closing the socket aborts the
\* writes in flight.
Disconnect(c) ==
    /\ conn[c].is_reading
    /\ CheckDestroy(c, [conn[c] EXCEPT !.open = FALSE, !.is_reading = FALSE],
                    Cancel(timer, conn[c].task_id))
    /\ CloseSocket(c)
    /\ UNCHANGED peer

ReadError(c) ==
    /\ Callback(c, "read")
    /\ Head(ready).chunk = None
    /\ Disconnect(c)
    /\ ready' = Tail(ready) \o Aborted(c)
    /\ UNCHANGED worker

BadInput(c) ==
    /\ Fed(c)
    /\ ~(worker.chunk.ok /\ conn[c].open)
    /\ Disconnect(c)
    /\ ready' = ready \o Aborted(c)
    /\ worker' = None

\* The connection is to be closed: after the write.
LastRead(c) ==
    /\ Fed(c)
    /\ worker.chunk.ok /\ conn[c].open
    /\ conn[c].closing
    /\ CheckDestroy(c, [conn[c] EXCEPT !.is_reading = FALSE], Cancel(timer, conn[c].task_id))
    /\ worker' = None
    /\ UNCHANGED <<reading, writes, ready, peer>>

\* Faulty: the deadline is not scheduled again.
ReadOn_NoDeadline(c) ==
    /\ Fed(c)
    /\ worker.chunk.ok /\ conn[c].open
    /\ ~conn[c].closing
    /\ reading' = reading \cup {c}
    /\ worker' = None
    /\ UNCHANGED <<conn, timer, queueLength, writes, ready, peer>>

ReadOn(c) ==
    /\ Fed(c)
    /\ worker.chunk.ok /\ conn[c].open
    /\ ~conn[c].closing
    /\ AwaitInput(c, conn[c])
    /\ worker' = None
    /\ UNCHANGED <<queueLength, writes, ready, peer>>

-----------------------------------------------------------------------------
(* The callback of do_write. It clears res, whatever it holds by now.      *)

\* Faulty: res is not cleared.
WriteCallback_KeepsRes(c) ==
    LET done == [conn[c] EXCEPT !.is_writing = FALSE]
    IN  /\ Callback(c, "write")
        /\ IF Head(ready).error
           THEN CheckDestroy(c, done, timer) /\ ready' = Tail(ready)
           ELSE IF conn[c].closing
           THEN /\ CheckDestroy(c, [done EXCEPT !.open = FALSE], timer)
                /\ ready' = Tail(ready) \o Aborted(c)
           ELSE /\ conn' = [conn EXCEPT ![c] = done]
                /\ ready' = Tail(ready)
                /\ UNCHANGED <<timer, queueLength>>
        /\ UNCHANGED <<reading, writes, worker, peer>>

WriteCallback(c) ==
    LET done == [conn[c] EXCEPT !.is_writing = FALSE, !.completed = FALSE]
    IN  /\ Callback(c, "write")
        /\ IF Head(ready).error
           THEN /\ CheckDestroy(c, done, timer)
                /\ ready' = Tail(ready)
                /\ writes' = [writes EXCEPT ![c] = Clobber(@)]
                /\ UNCHANGED reading
           ELSE IF conn[c].closing
           THEN /\ CheckDestroy(c, [done EXCEPT !.open = FALSE], timer)
                /\ CloseSocket(c)
                /\ ready' = Tail(ready) \o Aborted(c)
           ELSE /\ conn' = [conn EXCEPT ![c] = done]
                /\ ready' = Tail(ready)
                /\ writes' = [writes EXCEPT ![c] = Clobber(@)]
                /\ UNCHANGED <<timer, queueLength, reading>>
        /\ UNCHANGED <<worker, peer>>

-----------------------------------------------------------------------------
(* The peers and the kernel.                                               *)

\* What a peer may send next.
MaySend(c, chunk) ==
    \/ "pipeline" \in Manners
    \/ peer[c].state = "idle"
    \/ peer[c].state = "continues" /\ chunk.events = <<"keep">>

\* Input completes the read in flight.
Send(c, chunk) ==
    /\ c \in reading
    /\ Here(c)
    /\ MaySend(c, chunk)
    /\ peer[c].chunks < MaxChunks
    /\ peer' = [peer EXCEPT ![c].chunks = @ + 1,
                            ![c].state = IF chunk.events = <<>> THEN @
                                         ELSE IF chunk.events = <<"expect">> THEN "expects"
                                         ELSE "waits"]
    /\ reading' = reading \ {c}
    /\ ready' = Append(ready, [conn |-> c, op |-> "read", chunk |-> chunk])
    /\ UNCHANGED <<conn, timer, queueLength, writes, worker>>

\* The peer closes its end: with all it has asked for, or before.
HangUp(c) ==
    /\ conn[c].life = "live"
    /\ Here(c)
    /\ peer[c].state = "idle" \/ "hang up" \in Manners
    /\ peer' = [peer EXCEPT ![c].state = IF @ = "idle" THEN "gone" ELSE "left"]
    /\ UNCHANGED <<conn, timer, queueLength, reading, writes, ready, worker>>

Reset(c) ==
    /\ "reset" \in Manners
    /\ conn[c].life = "live"
    /\ Here(c)
    /\ peer' = [peer EXCEPT ![c].state = "reset"]
    /\ UNCHANGED <<conn, timer, queueLength, reading, writes, ready, worker>>

\* The end of the stream, or an error, completes the read in flight.
ReadEnds(c) ==
    /\ c \in reading
    /\ ~Here(c)
    /\ reading' = reading \ {c}
    /\ ready' = Append(ready, [conn |-> c, op |-> "read", chunk |-> None])
    /\ UNCHANGED <<conn, timer, queueLength, writes, worker, peer>>

\* The kernel has taken the last byte of the first write in flight, and the
\* peer reads it; or the write fails, for a peer that has gone, or because the
\* socket had been closed before it began.
WriteEnds(c) ==
    /\ writes[c] # <<>>
    /\ LET reply == Head(writes[c])
           Ends(error) == ready' = Append(ready, [conn |-> c, op |-> "write", error |-> error])
       IN  \/ /\ conn[c].open
              /\ Here(c)
              /\ Ends(FALSE)
              /\ peer' = [peer EXCEPT ![c].misled = @ \/ ~reply.own,
                                      ![c].state = IF reply.kind = "continue" THEN "continues"
                                                   ELSE "idle"]
           \/ conn[c].open /\ peer[c].state \in {"gone", "left"} /\ Ends(FALSE) /\ UNCHANGED peer
           \/ (conn[c].open => ~Here(c)) /\ Ends(TRUE) /\ UNCHANGED peer
    /\ writes' = [writes EXCEPT ![c] = Tail(@)]
    /\ UNCHANGED <<conn, timer, queueLength, reading, worker>>

-----------------------------------------------------------------------------
\* The steps of the worker for c.
Work(c) ==
    \/ Start(c)
    \/ ReadCallback(c)
    \/ HandleHeader(c)
    \/ \E e \in Requests : Handle(c, e)
    \/ \E e \in Requests : HandleStream(c, e) \/ HandleStreamFails(c, e)
    \/ HandleUpgrade(c)
    \/ HandleThrows(c)
    \/ ReadError(c)
    \/ BadInput(c)
    \/ LastRead(c)
    \/ ReadOn(c)
    \/ WriteCallback(c)

Timer == Tick \/ \E id \in Due : Expire(id)

Next ==
    \/ Timer
    \/ \E c \in Conns :
          \/ Create(c)
          \/ Accepted(c)
          \/ AcceptFails(c)
          \/ Work(c)
          \/ \E chunk \in Chunks : Send(c, chunk)
          \/ HangUp(c)
          \/ Reset(c)
          \/ ReadEnds(c)
          \/ WriteEnds(c)

Spec == Init /\ [][Next]_vars

\* The worker runs, the timer ticks, the kernel reports what has happened. No
\* peer need send or leave.
ServerFairness ==
    /\ WF_vars(\E c \in Conns : Work(c))
    /\ WF_vars(Timer)
    /\ \A c \in Conns : WF_vars(ReadEnds(c))

\* Moreover, peers read what they are sent.
FairSpec == Spec /\ ServerFairness /\ \A c \in Conns : WF_vars(WriteEnds(c))

\* Peers need not read: a write can stay in flight.
SlowSpec == Spec /\ ServerFairness

-----------------------------------------------------------------------------
(* Properties.                                                             *)

\* No callback, task or operation refers to a Connection that is deleted:
\* each captures a bare this.
OperationsAlive ==
    /\ \A c \in Conns : conn[c].life = "deleted" => c \notin reading /\ writes[c] = <<>>
    /\ \A i \in DOMAIN ready : conn[ready[i].conn].life = "live"
    /\ \A id \in DOMAIN timer.tasks : conn[timer.tasks[id].conn].life = "live"

\* The completed operations of c whose callbacks are to run.
Completed(c) == {o \in Range(ready) : o.conn = c}

Queued(c, op) == \E o \in Completed(c) : o.op = op

ReadPending(c) == c \in reading \/ Queued(c, "read") \/ Feeding(c)

WritePending(c) == writes[c] # <<>> \/ Queued(c, "write")

\* check_destroy decides by two flags. Of peers that do not pipeline: what is in
\* flight has its flag up, and a flag that is up has something in flight unless a
\* callback of the connection has thrown.
FlagsTruthful ==
    \A c \in Conns : conn[c].life = "live" =>
        /\ ReadPending(c) => conn[c].is_reading
        /\ WritePending(c) => conn[c].is_writing
        /\ ~conn[c].thrown => (conn[c].is_reading => ReadPending(c))
                              /\ (conn[c].is_writing => WritePending(c))

\* A peer that does not pipeline gets the reply to its own request, made by the
\* handler.
RepliesOwn == \A c \in Conns : ~peer[c].misled

\* A connection that waits for input has a deadline. So it is with one connection.
\* Of several, one may cancel the deadline of another: the ids start again.
DeadlineArmed ==
    \A c \in reading : conn[c].task_id \in DOMAIN timer.tasks
                       /\ timer.tasks[conn[c].task_id].conn = c

\* The connections that nobody will delete: a callback has thrown and left a flag
\* up; or the peer has left before its reply, the end of the stream was read first,
\* and the callback of a write that has succeeded does not look for more.
Leaked(c) ==
    \/ conn[c].thrown
    \/ /\ peer[c].state = "left"
       /\ ~conn[c].is_reading /\ ~conn[c].is_writing /\ Completed(c) = {}

\* Every other connection ends: by its peer, by a request to close, or by the
\* timeout of a silent one.
ConnectionsEnd ==
    \A c \in Conns : conn[c].life = "live" ~> conn[c].life = "deleted" \/ Leaked(c)

\* The state is of its type, and no read, write, posted start or task of the timer
\* refers to a connection that check_destroy has deleted, if no peer pipelines: of
\* two writes of a connection the first to end takes the flag down for both.
Alive == TypeOK /\ OperationsAlive

-----------------------------------------------------------------------------
(* The inductive invariant for peers that do not pipeline.                 *)

Live(c) == conn[c].life = "live"

\* The load counter is the number of the worker's connections.
CountInv == queueLength = Cardinality({c \in Conns : conn[c].life \in {"accepting", "live"}})

\* A connection has at most one task, and that is the one it knows the id of,
\* although ids are issued again.
TimerInv ==
    \A id \in DOMAIN timer.tasks :
        Live(timer.tasks[id].conn) /\ conn[timer.tasks[id].conn].task_id = id

\* No two callbacks of a kind are queued for a connection.
Once(queue) ==
    \A i, j \in DOMAIN queue : queue[i].conn = queue[j].conn /\ queue[i].op = queue[j].op => i = j

\* A read that has got input from the peer.
HasInput(o) == o.op = "read" /\ o.chunk # None

\* Input is behind the write it answers.
InOrder(queue) ==
    \A i, j \in DOMAIN queue :
        HasInput(queue[i]) /\ queue[j].conn = queue[i].conn /\ queue[j].op = "write" => j < i

QueueInv == Once(ready) /\ InOrder(ready)

\* At most one read of a connection is in flight, queued or being parsed, and it
\* has the flag up, which is down without one unless a callback has thrown. Before
\* the start the flags are down.
ReadInv(c) ==
    /\ conn[c].life \in {"free", "accepting"} =>
          ~conn[c].is_reading /\ ~conn[c].is_writing /\ ~conn[c].completed /\ ~conn[c].thrown
    /\ c \in reading => Live(c) /\ conn[c].is_reading /\ ~Queued(c, "read") /\ ~Feeding(c)
    /\ Feeding(c) => Live(c) /\ conn[c].is_reading /\ ~Queued(c, "read")
    /\ Completed(c) # {} => Live(c)
    /\ Queued(c, "read") => conn[c].is_reading
    /\ Live(c) /\ conn[c].is_reading => ReadPending(c) \/ conn[c].thrown
    /\ Queued(c, "start") => ~conn[c].is_reading /\ ~conn[c].is_writing /\ ~conn[c].thrown

\* At most one write of a connection is in flight or queued, and it has the flag up,
\* which is down without one unless a write has thrown.
WriteInv(c) ==
    /\ Len(writes[c]) <= 1
    /\ writes[c] # <<>> => Live(c) /\ conn[c].is_writing /\ ~Queued(c, "write")
    /\ Queued(c, "write") => conn[c].is_writing
    /\ Live(c) /\ conn[c].is_writing => WritePending(c) \/ conn[c].thrown

\* The peer has sent a request, and has not read its reply.
Asked(c) == peer[c].state \notin {"idle", "continues"}

\* Input comes when nothing is in flight to the peer, and a request is parsed when
\* nothing is written and the last response has been cleared.
RequestInv(c) ==
    /\ \A o \in Completed(c) : HasInput(o) =>
          writes[c] = <<>> /\ (o.chunk.events # <<>> => Asked(c))
    /\ Feeding(c) /\ worker.chunk.events # <<>> =>
          ~conn[c].is_writing /\ ~conn[c].completed /\ Asked(c)

\* The response is filled while it is being written, and when an upgrade has been
\* refused, until the callback has ended.
ReplyInv(c) ==
    /\ writes[c] # <<>> => writes[c][1].own /\ Asked(c)
    /\ Live(c) /\ conn[c].completed =>
          \/ conn[c].is_writing
          \/ Fed(c) /\ worker.chunk.ok /\ conn[c].closing /\ conn[c].open
    /\ ~peer[c].misled

\* Once a callback of a connection has thrown nothing is written to it, and it
\* reads on only to learn that its peer is no longer there.
ThrownInv(c) == conn[c].thrown =>
    /\ writes[c] = <<>> /\ ~Queued(c, "write")
    /\ \A o \in Completed(c) : ~HasInput(o)
    /\ Feeding(c) => worker.chunk.events = <<>>
    /\ c \in reading \/ Feeding(c) => ~Here(c)

ConnInv(c) == ReadInv(c) /\ WriteInv(c) /\ RequestInv(c) /\ ReplyInv(c) /\ ThrownInv(c)

IInv == TypeOK /\ CountInv /\ TimerInv /\ QueueInv /\ \A c \in Conns : ConnInv(c)
=============================================================================
