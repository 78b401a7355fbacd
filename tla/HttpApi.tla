------------------------------ MODULE HttpApi ------------------------------
(***************************************************************************)
(* The two record handlers of HttpServer.cpp behind connections that can   *)
(* fail, and the loop of client.py that tries again. The engine is the     *)
(* atomic dictionary (KeyValueStore, which DataEngine implements).         *)
(*                                                                         *)
(* Every try of a POST carries a value of its own, as client.py draws a    *)
(* new one: the try itself, <<client, number>>. A name is None where the   *)
(* URL ends behind "/api/records/", the route of the listing.              *)
(***************************************************************************)
EXTENDS Naturals, FiniteSetsExt

CONSTANTS
    Clients,
    Names,
    Bodies,         \* bodies of a POST, see Problem; "value" is the good one
    None,
    Garbage,        \* what is read from a string that has been destroyed
    MaxCalls,       \* calls of one_request by all clients
    MaxFaults       \* connections and allocations of handlers that fail

\* What the handler answers to an ill-formed body.
Complaints == {"Invalid JSON syntax in request body",
               "root element must be an Object",
               "root object must have 'value' member",
               "'value' member must have value of type string"}

ASSUME NoneIsNothing == None \notin Names \cup (Clients \X Nat) \cup Complaints \cup {"GET", "POST"}

\* A well-formed body, and one for each check the handler makes.
ASSUME BodiesKnown == Bodies \subseteq {"value", "syntax", "array", "no member", "number"}

VARIABLES
    store,          \* the engine's records
    handler,        \* the tries the server knows: try -> the handler's state
    client,         \* the clients
    faults,         \* connections and allocations that have failed
    effects         \* the tries whose value has been stored

vars == <<store, handler, client, faults, effects>>

Tries == DOMAIN handler

Init ==
    /\ store = [n \in Names |-> None]
    /\ handler = <<>>
    /\ client = [c \in Clients |-> [state |-> "idle", calls |-> 0, tries |-> 0, conn |-> 0,
                                    abandoned |-> {}, method |-> None, name |-> None,
                                    body |-> None, reply |-> None]]
    /\ faults = 0
    /\ effects = {}

-----------------------------------------------------------------------------
(* The handlers. A handler keeps the members it has added to its body; a   *)
(* member refers to one of the handler's local variables or to a literal   *)
(* text.                                                                   *)

Step(t, pc) == handler[t].pc = pc

Goto(t, h, pc) == handler' = [handler EXCEPT ![t] = [h EXCEPT !.pc = pc]]

Literal(text) == [local |-> FALSE, text |-> text]
Local(text) == [local |-> TRUE, text |-> text]

Added(h, key, ref) ==
    [h EXCEPT !.members = [k \in DOMAIN @ \cup {key} |-> IF k \in DOMAIN @ THEN @[k] ELSE ref]]

\* JsonBody::dump: what the members refer to when the reply is made. In the
\* catch block the variables of the try block are gone.
Dump(members, inTry) ==
    [key \in DOMAIN members |->
        IF members[key].local /\ ~inTry THEN Garbage ELSE members[key].text]

Replied(t, h, code, inTry) ==
    Goto(t, [h EXCEPT !.reply = [code |-> code, body |-> Dump(h.members, inTry)]], "replied")

\* Faulty: a body that is not an object is looked into.
Problem_NoRootCheck(body) ==
    CASE body = "syntax" -> "Invalid JSON syntax in request body"
      [] body = "no member" -> "root object must have 'value' member"
      [] body = "number" -> "'value' member must have value of type string"
      [] OTHER -> None

\* The checks of the body, in their order. The parser is given a C string: the
\* body it checks ends at the first NUL byte of the one that was sent.
Problem(body) ==
    CASE body = "syntax" -> "Invalid JSON syntax in request body"
      [] body = "array" -> "root element must be an Object"
      [] body = "no member" -> "root object must have 'value' member"
      [] body = "number" -> "'value' member must have value of type string"
      [] OTHER -> None

\* "/api/records/", without a name.
HandleListing(t) ==
    /\ Step(t, "routed")
    /\ handler[t].name = None
    /\ Goto(t, [handler[t] EXCEPT !.reply = [code |-> 501, body |-> <<>>]], "replied")
    /\ UNCHANGED <<store, client, faults, effects>>

\* url_decode, and the name's member.
Decode(t) ==
    /\ Step(t, "routed")
    /\ handler[t].name # None
    /\ Goto(t, Added(handler[t], "name", Local(handler[t].name)), "decoded")
    /\ UNCHANGED <<store, client, faults, effects>>

GetRecord(t) ==
    /\ Step(t, "decoded")
    /\ handler[t].method = "GET"
    /\ LET value == store[handler[t].name]
       IN  IF value = None
           THEN Replied(t, Added(handler[t], "error", Literal("Item not found")), 404, TRUE)
           ELSE Goto(t, Added(handler[t], "value", Local(value)), "done")
    /\ UNCHANGED <<store, client, faults, effects>>

RefuseBody(t) ==
    /\ Step(t, "decoded")
    /\ handler[t].method = "POST"
    /\ Problem(handler[t].body) # None
    /\ Replied(t, Added(handler[t], "error", Literal(Problem(handler[t].body))), 400, TRUE)
    /\ UNCHANGED <<store, client, faults, effects>>

\* Faulty: a record that exists is not replaced.
SetRecord_Once(t) ==
    /\ Step(t, "decoded")
    /\ handler[t].method = "POST"
    /\ Problem(handler[t].body) = None
    /\ store' = [store EXCEPT ![handler[t].name] = IF @ = None THEN t ELSE @]
    /\ effects' = effects \cup {t}
    /\ Goto(t, handler[t], "done")
    /\ UNCHANGED <<client, faults>>

SetRecord(t) ==
    /\ Step(t, "decoded")
    /\ handler[t].method = "POST"
    /\ Problem(handler[t].body) = None
    /\ store' = [store EXCEPT ![handler[t].name] = t]
    /\ effects' = effects \cup {t}
    /\ Goto(t, handler[t], "done")
    /\ UNCHANGED <<client, faults>>

\* crow::response(OK, body).
ReplyOk(t) ==
    /\ Step(t, "done")
    /\ Replied(t, handler[t], 200, TRUE)
    /\ UNCHANGED <<store, client, faults, effects>>

\* An allocation throws: catch (...) adds its member and replies.
InternalError(t) ==
    /\ faults < MaxFaults
    /\ faults' = faults + 1
    /\ Step(t, "decoded") \/ Step(t, "done") \/ (Step(t, "routed") /\ handler[t].name # None)
    /\ Replied(t, Added(handler[t], "error", Literal("Server internal error")), 500, FALSE)
    /\ UNCHANGED <<store, client, effects>>

Serve(t) ==
    \/ HandleListing(t) \/ Decode(t) \/ GetRecord(t) \/ RefuseBody(t) \/ SetRecord(t)
    \/ ReplyOk(t) \/ InternalError(t)

-----------------------------------------------------------------------------
(* client.py: one_request.                                                 *)

Current(c) == <<c, client[c].tries>>

CallsMade == MapThenSumSet(LAMBDA d : client[d].calls, Clients)

Calls(c, method, name, body) ==
    [client[c] EXCEPT !.state = "trying", !.calls = @ + 1, !.method = method, !.name = name,
                      !.body = body, !.reply = None]

Call(c, method, name, body) ==
    /\ client[c].state \in {"idle", "returned"}
    /\ CallsMade < MaxCalls
    /\ client' = [client EXCEPT ![c] = Calls(c, method, name, body)]
    /\ UNCHANGED <<store, handler, faults, effects>>

\* conn.request, which connects if there is no connection.
Request(c) ==
    /\ client[c].state = "trying"
    /\ client' = [client EXCEPT ![c].state = "waiting", ![c].tries = @ + 1]
    /\ handler' = [t \in Tries \cup {<<c, client[c].tries + 1>>} |->
                      IF t \in Tries THEN handler[t] ELSE
                      [pc |-> "routed", conn |-> client[c].conn, method |-> client[c].method,
                       name |-> client[c].name, body |-> client[c].body, members |-> <<>>,
                       reply |-> None]]
    /\ UNCHANGED <<store, faults, effects>>

\* Faulty: the connection is not closed before the next try.
Sleeps_KeepsConnection(c) == [client[c] EXCEPT !.state = "asleep"]

\* Faulty: the loop is left.
Sleeps_GivesUp(c) == [client[c] EXCEPT !.state = "idle", !.conn = @ + 1]

\* A ConnectionError: conn.close() and a pause.
Sleeps(c) == [client[c] EXCEPT !.state = "asleep", !.conn = @ + 1]

\* Any other error, such as IncompleteRead or TimeoutError, is caught by nobody:
\* it ends the client's process, and its connection with it.
Raises(c) == [client[c] EXCEPT !.state = "raised", !.conn = @ + 1]

Refused(c) ==
    /\ client[c].state = "trying"
    /\ faults < MaxFaults
    /\ faults' = faults + 1
    /\ \E k \in {Sleeps(c), Raises(c)} : client' = [client EXCEPT ![c] = k]
    /\ UNCHANGED <<store, handler, effects>>

\* The connection fails while the client waits, or while it reads the reply. The
\* request may be lost, or be handled nevertheless, at any later time.
Disconnected(c) ==
    LET t == Current(c)
    IN  /\ client[c].state = "waiting"
        /\ faults < MaxFaults
        /\ faults' = faults + 1
        /\ \E k \in {Sleeps(c), Raises(c)} :
               client' = [client EXCEPT ![c] = [k EXCEPT !.abandoned = @ \cup {t}]]
        /\ \/ handler[t].pc = "routed" /\ handler' = [u \in Tries \ {t} |-> handler[u]]
           \/ UNCHANGED handler
        /\ UNCHANGED <<store, effects>>

Wakes(c) ==
    /\ client[c].state = "asleep"
    /\ client' = [client EXCEPT ![c].state = "trying"]
    /\ UNCHANGED <<store, handler, faults, effects>>

\* The replies that come over c's connection, in the order of their requests.
Arrived(c) == {t \in Tries : t[1] = c /\ handler[t].conn = client[c].conn /\ handler[t].pc = "replied"}

First(c) == CHOOSE u \in Arrived(c) : \A v \in Arrived(c) : u[2] <= v[2]

GetResponse(c) ==
    /\ client[c].state = "waiting"
    /\ Arrived(c) # {}
    /\ LET t == First(c)
       IN  /\ client' = [client EXCEPT ![c].state = "returned", ![c].reply = handler[t].reply]
           /\ handler' = [u \in Tries \ {t} |-> handler[u]]
    /\ UNCHANGED <<store, faults, effects>>

\* What the server writes to a connection that has been closed is lost.
Lost(t) ==
    /\ Step(t, "replied")
    /\ handler[t].conn # client[t[1]].conn
    /\ handler' = [u \in Tries \ {t} |-> handler[u]]
    /\ UNCHANGED <<store, client, faults, effects>>

Run(c) == Request(c) \/ Wakes(c) \/ GetResponse(c)

Next ==
    \/ \E c \in Clients :
          \/ \E name \in Names \cup {None} : Call(c, "GET", name, None)
          \/ \E name \in Names, body \in Bodies : Call(c, "POST", name, body)
          \/ Run(c)
          \/ Refused(c)
          \/ Disconnected(c)
    \/ \E t \in Tries : Serve(t) \/ Lost(t)

\* The server handles what it has been sent, the clients go on.
Spec ==
    /\ Init /\ [][Next]_vars
    /\ \A c \in Clients : WF_vars(Run(c))
    /\ WF_vars(\E t \in Tries : Serve(t))

-----------------------------------------------------------------------------
(* Properties.                                                             *)

Returned(c) == client[c].state = "returned"

Written(c) == Returned(c) /\ client[c].method = "POST" /\ client[c].reply.code = 200

\* A POST that returns with 200 has been stored by the try that returns: the
\* reply to a try that was given up is never taken for the one of a later try.
AckMeansStored == \A c \in Clients : Written(c) => Current(c) \in effects

\* A POST with a body that is not as README.md describes it is refused, and
\* nothing is stored for it, although other replies and tries are under way.
IllFormedRefused ==
    \A c \in Clients : Returned(c) /\ client[c].method = "POST" /\ client[c].body # "value" =>
        /\ client[c].reply.code \in {400, 500}
        /\ Current(c) \notin effects

Explained(c) ==
    LET t == store[client[c].name]
    IN  \/ t = Current(c)
        \/ t # None /\ t \in client[t[1]].abandoned
        \/ t # None /\ t[1] # c

\* After a POST that returned, the record holds its value, one of a try that has
\* been given up, which may overwrite an acknowledged one long after, or one of
\* another client. Of that client's tries nothing more is said: one that was
\* answered before this POST was stored is accepted as well.
StoreExplained == \A c \in Clients : Written(c) => Explained(c)

\* The assertions of client.py (96-98, 104), of a server that has the memory it
\* needs: no reply of an earlier try or of another request is ever taken.
ClientAsserts ==
    \A c \in Clients : Returned(c) /\ client[c].name # None /\ client[c].reply.code # 500 =>
        LET r == client[c].reply
        IN  /\ client[c].method = "POST" /\ client[c].body = "value" => r.code = 200
            /\ client[c].method = "GET" => r.code \in {200, 404}
            /\ r.body["name"] = client[c].name

\* An error reply has the error and, if it has a name, the one that was asked
\* for (README.md: "the special reply format in the body").
ErrorFormat ==
    \A c \in Clients : Returned(c) /\ client[c].name # None /\ client[c].reply.code # 200 =>
        LET body == client[c].reply.body
        IN  /\ "error" \in DOMAIN body
            /\ "name" \in DOMAIN body => body["name"] = client[c].name

\* Every call ends, however its connections failed: with the reply to one of its
\* tries, or by an exception that is no ConnectionError and leaves the loop.
CallsReturn ==
    \A c \in Clients : client[c].state = "trying" ~> client[c].state \in {"returned", "raised"}

\* A client can rely on the replies it gets: 200 means stored by this very try, and
\* the reply is to its own request, as client.py asserts.
RepliesTruthful == AckMeansStored /\ ClientAsserts

-----------------------------------------------------------------------------
(* The inductive invariant.                                                *)

\* What a reply says of the try it answers.
Answers(t, method, name, body, reply) ==
    name # None =>
        /\ method = "POST" => /\ reply.code \in {200, 400, 500}
                              /\ reply.code = 200 => t \in effects
                              /\ reply.code = 400 => Problem(body) # None
        /\ method = "GET" => reply.code \in {200, 404, 500}
        /\ reply.code # 500 => reply.body["name"] = name

\* The records are of the clients' making, with the names and bodies of the API.
RequestOK(r) ==
    /\ r.method = "POST" => r.name \in Names /\ r.body \in Bodies
    /\ r.conn \in Nat

HandlerFields == {"pc", "conn", "method", "name", "body", "members", "reply"}

\* A handler: what it has stored and answered at each point.
HandlerInv(t) ==
    LET h == handler[t]
    IN  /\ t \in Clients \X Nat /\ t[2] <= client[t[1]].tries
        /\ DOMAIN h = HandlerFields /\ RequestOK(h) /\ h.method \in {"GET", "POST"}
        /\ h.pc = "routed" => DOMAIN h.members = {}
        /\ h.pc \in {"decoded", "done"} => /\ h.name # None /\ "name" \in DOMAIN h.members
                                          /\ h.members["name"] = Local(h.name)
        /\ h.pc = "done" /\ h.method = "POST" => t \in effects
        /\ t \in effects => h.method = "POST" /\ Problem(h.body) = None
        /\ h.pc = "replied" => Answers(t, h.method, h.name, h.body, h.reply)

ClientFields == {"state", "calls", "tries", "conn", "abandoned", "method", "name", "body", "reply"}

\* A client waits for its last try alone; its other tries are on connections it
\* has closed.
ClientInv(c) ==
    LET k == client[c]
    IN  /\ DOMAIN k = ClientFields /\ RequestOK(k) /\ k.tries \in Nat
        /\ k.state # "idle" => k.method \in {"GET", "POST"}
        /\ \A t \in k.abandoned : t \in Clients \X Nat /\ t[2] <= k.tries
        /\ k.state \in {"waiting", "returned"} => Current(c) \notin k.abandoned
        /\ \A t \in Tries : t[1] = c =>
             IF t \in k.abandoned THEN handler[t].conn < k.conn
             ELSE /\ k.state = "waiting" /\ t = Current(c)
                  /\ handler[t].conn = k.conn /\ handler[t].method = k.method
                  /\ handler[t].name = k.name /\ handler[t].body = k.body
        /\ k.state = "returned" => Answers(Current(c), k.method, k.name, k.body, k.reply)
        /\ k.state \in {"waiting", "returned"} /\ Current(c) \in effects =>
             k.method = "POST" /\ Problem(k.body) = None /\ Explained(c)

IInv ==
    /\ DOMAIN store = Names /\ DOMAIN client = Clients
    /\ \A t \in effects : t \in Clients \X Nat /\ t[2] <= client[t[1]].tries
    /\ \A t \in Tries : HandlerInv(t)
    /\ \A c \in Clients : ClientInv(c)
=============================================================================
