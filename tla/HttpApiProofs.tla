---------------------------- MODULE HttpApiProofs ----------------------------
(***************************************************************************)
(* Theorems about HttpApi, for all sets of clients and names and any       *)
(* number of calls and of connections and handlers that fail.              *)
(***************************************************************************)
EXTENDS HttpApi, TLAPS

\* The body of client.py is the one without a problem.
LEMMA GoodBody == \A body \in Bodies : Problem(body) = None <=> body = "value"
BY BodiesKnown, NoneIsNothing DEF Problem, Complaints

\* A try is a pair, and none of them is None.
LEMMA TryIsPair ==
  /\ \A t \in Clients \X Nat : /\ t[1] \in Clients /\ t[2] \in Nat /\ t = <<t[1], t[2]>>
                               /\ t # None
  /\ \A c \in Clients, n \in Nat : /\ <<c, n>> \in Clients \X Nat
                                   /\ <<c, n>>[1] = c /\ <<c, n>>[2] = n
BY NoneIsNothing

\* What has been stored is not taken back: a true answer stays true.
LEMMA AnswersKept ==
  ASSUME effects \subseteq effects',
         NEW t, NEW method, NEW name, NEW body, NEW reply,
         Answers(t, method, name, body, reply)
  PROVE  Answers(t, method, name, body, reply)'
BY DEF Answers, Problem

-----------------------------------------------------------------------------
(* The server.                                                             *)

\* A step of a handler that stores nothing keeps the invariant if it fits its own.
LEMMA HandlerAlone ==
  ASSUME IInv, NEW t \in Tries, NEW h,
         handler' = [handler EXCEPT ![t] = h],
         h.conn = handler[t].conn, h.method = handler[t].method,
         h.name = handler[t].name, h.body = handler[t].body,
         UNCHANGED <<store, client, effects>>, HandlerInv(t)'
  PROVE  IInv'
<1>1. Tries' = Tries /\ handler'[t] = h /\ \A u \in Tries \ {t} : handler'[u] = handler[u]
  BY DEF Tries
<1>2. ASSUME NEW u \in Tries, u # t PROVE HandlerInv(u)'
  <2>1. HandlerInv(u) /\ handler'[u] = handler[u]
    BY <1>1, <1>2 DEF IInv
  <2> QED
    BY <2>1 DEF HandlerInv, RequestOK, Answers
<1>3. ASSUME NEW c \in Clients PROVE ClientInv(c)'
  <2>1. ClientInv(c) /\ Current(c)' = Current(c)
    BY DEF IInv, Current
  <2>2. \A u \in Tries : /\ handler'[u].conn = handler[u].conn
                         /\ handler'[u].method = handler[u].method
                         /\ handler'[u].name = handler[u].name
                         /\ handler'[u].body = handler[u].body
    BY <1>1
  <2> QED
    BY <1>1, <2>1, <2>2 DEF ClientInv, RequestOK, Answers, Explained
<1> QED
  BY <1>1, <1>2, <1>3 DEF IInv

\* Adding a member, and the reply made of the members.
LEMMA MemberAdded ==
  ASSUME NEW h, DOMAIN h = HandlerFields, NEW key, NEW ref
  PROVE  LET g == Added(h, key, ref)
         IN  /\ DOMAIN g = HandlerFields
             /\ g.pc = h.pc /\ g.conn = h.conn /\ g.method = h.method
             /\ g.name = h.name /\ g.body = h.body /\ g.reply = h.reply
             /\ DOMAIN g.members = DOMAIN h.members \cup {key}
             /\ \A k \in DOMAIN h.members : g.members[k] = h.members[k]
             /\ key \notin DOMAIN h.members => g.members[key] = ref
BY DEF Added, HandlerFields

\* The handler once it has replied.
Answered(g, reply) == [[g EXCEPT !.reply = reply] EXCEPT !.pc = "replied"]

\* A step that replies keeps the invariant if the reply fits the request.
LEMMA ReplyFits ==
  ASSUME IInv, NEW t \in Tries, NEW g, NEW reply,
         DOMAIN g = HandlerFields, g.conn = handler[t].conn, g.method = handler[t].method,
         g.name = handler[t].name, g.body = handler[t].body,
         g.method = "POST" => /\ reply.code \in {200, 400, 500}
                              /\ reply.code = 200 => t \in effects
                              /\ reply.code = 400 => Problem(g.body) # None,
         g.method = "GET" => reply.code \in {200, 404, 500},
         reply.code # 500 => reply.body["name"] = g.name,
         handler' = [handler EXCEPT ![t] = Answered(g, reply)],
         UNCHANGED <<store, client, effects>>
  PROVE  IInv'
<1> DEFINE h == Answered(g, reply)
<1>1. /\ DOMAIN h = HandlerFields /\ h.conn = g.conn /\ h.method = g.method
      /\ h.name = g.name /\ h.body = g.body /\ h.pc = "replied" /\ h.reply = reply
  BY DEF Answered, HandlerFields
<1>2. handler'[t] = h /\ handler' = [handler EXCEPT ![t] = h]
  BY DEF Tries
<1> HIDE DEF h
<1>3. HandlerInv(t)
  BY DEF IInv
<1>4. RequestOK(handler[t]) /\ RequestOK(handler'[t])
  BY <1>1, <1>2, <1>3 DEF HandlerInv, RequestOK
<1>5. Answers(t, handler[t].method, handler[t].name, handler[t].body, handler[t].reply)'
  BY <1>1, <1>2 DEF Answers
<1>6. HandlerInv(t)'
  BY <1>1, <1>2, <1>3, <1>4, <1>5 DEF HandlerInv, RequestOK
<1> QED
  BY <1>1, <1>2, <1>6, HandlerAlone

\* A reply made in the try block has the name among its members.
LEMMA NameDumped ==
  ASSUME NEW members, NEW name, "name" \in DOMAIN members, members["name"] = Local(name)
  PROVE  Dump(members, TRUE)["name"] = name
BY DEF Dump, Local

\* The listing has no name to answer for.
LEMMA HandleListingStep ==
  ASSUME IInv, NEW t \in Tries, HandleListing(t)
  PROVE  IInv'
<1> DEFINE h == [[handler[t] EXCEPT !.reply = [code |-> 501, body |-> <<>>]] EXCEPT !.pc = "replied"]
<1>1. handler' = [handler EXCEPT ![t] = h] /\ UNCHANGED <<store, client, effects>>
  BY DEF HandleListing, Goto
<1>2. HandlerInv(t) /\ handler[t].name = None
  BY DEF HandleListing, IInv
<1>3. /\ DOMAIN h = HandlerFields /\ h.conn = handler[t].conn /\ h.method = handler[t].method
      /\ h.name = handler[t].name /\ h.body = handler[t].body /\ h.pc = "replied"
  BY <1>2 DEF HandlerInv, HandlerFields
<1>4. handler'[t] = h
  BY <1>1 DEF Tries
<1> HIDE DEF h
<1>5. HandlerInv(t)'
  BY <1>1, <1>2, <1>3, <1>4 DEF HandlerInv, RequestOK, Answers
<1> QED
  BY <1>1, <1>3, <1>5, HandlerAlone

\* The name is the first member.
LEMMA DecodeStep ==
  ASSUME IInv, NEW t \in Tries, Decode(t)
  PROVE  IInv'
<1> DEFINE g == Added(handler[t], "name", Local(handler[t].name))
           h == [g EXCEPT !.pc = "decoded"]
<1>1. handler' = [handler EXCEPT ![t] = h] /\ UNCHANGED <<store, client, effects>>
  BY DEF Decode, Goto
<1>2. HandlerInv(t) /\ handler[t].name # None /\ handler[t].pc = "routed"
  BY DEF Decode, Step, IInv
<1>3. DOMAIN handler[t] = HandlerFields /\ DOMAIN handler[t].members = {}
  BY <1>2 DEF HandlerInv
<1>4. /\ DOMAIN g = HandlerFields /\ g.conn = handler[t].conn /\ g.method = handler[t].method
      /\ g.name = handler[t].name /\ g.body = handler[t].body
      /\ "name" \in DOMAIN g.members /\ g.members["name"] = Local(handler[t].name)
  BY <1>3, MemberAdded
<1> HIDE DEF g
<1>5. /\ DOMAIN h = HandlerFields /\ h.conn = handler[t].conn /\ h.method = handler[t].method
      /\ h.name = handler[t].name /\ h.body = handler[t].body /\ h.pc = "decoded"
      /\ "name" \in DOMAIN h.members /\ h.members["name"] = Local(h.name)
  BY <1>4 DEF HandlerFields
<1>6. handler'[t] = h
  BY <1>1 DEF Tries
<1> HIDE DEF h
<1>7. HandlerInv(t)'
  BY <1>1, <1>2, <1>5, <1>6 DEF HandlerInv, RequestOK, Local
<1> QED
  BY <1>1, <1>5, <1>7, HandlerAlone

\* What a handler has before it replies.
LEMMA BeforeReply ==
  ASSUME IInv, NEW t \in Tries, handler[t].pc \in {"decoded", "done"}
  PROVE  /\ DOMAIN handler[t] = HandlerFields /\ "name" \in DOMAIN handler[t].members
         /\ handler[t].members["name"] = Local(handler[t].name)
         /\ handler[t].name # None
BY DEF IInv, HandlerInv

\* The record is read.
LEMMA GetRecordStep ==
  ASSUME IInv, NEW t \in Tries, GetRecord(t)
  PROVE  IInv'
<1>1. /\ handler[t].pc = "decoded" /\ handler[t].method = "GET" /\ HandlerInv(t)
      /\ UNCHANGED <<store, client, effects>>
  BY DEF GetRecord, Step, IInv
<1>2. CASE store[handler[t].name] = None
  <2> DEFINE ref == Literal("Item not found")
             g == Added(handler[t], "error", ref)
             reply == [code |-> 404, body |-> Dump(g.members, TRUE)]
  <2>1. handler' = [handler EXCEPT ![t] = Answered(g, reply)]
    BY <1>2 DEF GetRecord, Replied, Goto, Answered
  <2> HIDE DEF ref
  <2>2. /\ DOMAIN g = HandlerFields /\ g.conn = handler[t].conn /\ g.method = handler[t].method
        /\ g.name = handler[t].name /\ g.body = handler[t].body
        /\ "name" \in DOMAIN g.members /\ g.members["name"] = Local(g.name)
    BY <1>1, BeforeReply, MemberAdded
  <2>3. reply.code = 404 /\ reply.body["name"] = g.name
    BY <2>2, NameDumped
  <2> HIDE DEF g, reply
  <2> QED
    BY <1>1, <2>1, <2>2, <2>3, ReplyFits
<1>3. CASE store[handler[t].name] # None
  <2> DEFINE g == Added(handler[t], "value", Local(store[handler[t].name]))
             h == [g EXCEPT !.pc = "done"]
  <2>1. handler' = [handler EXCEPT ![t] = h]
    BY <1>3 DEF GetRecord, Goto
  <2>2. /\ DOMAIN g = HandlerFields /\ g.conn = handler[t].conn /\ g.method = handler[t].method
        /\ g.name = handler[t].name /\ g.body = handler[t].body
        /\ "name" \in DOMAIN g.members /\ g.members["name"] = Local(g.name)
    BY <1>1, BeforeReply, MemberAdded
  <2> HIDE DEF g
  <2>3. /\ DOMAIN h = HandlerFields /\ h.conn = handler[t].conn /\ h.method = handler[t].method
        /\ h.name = handler[t].name /\ h.body = handler[t].body /\ h.pc = "done"
        /\ "name" \in DOMAIN h.members /\ h.members["name"] = Local(h.name)
    BY <2>2 DEF HandlerFields
  <2>4. handler'[t] = h
    BY <2>1 DEF Tries
  <2> HIDE DEF h
  <2>5. HandlerInv(t)'
    BY <1>1, <2>3, <2>4, BeforeReply DEF HandlerInv, RequestOK, Local
  <2> QED
    BY <1>1, <2>1, <2>3, <2>5, HandlerAlone
<1> QED
  BY <1>2, <1>3

\* A body with a problem is answered with it.
LEMMA RefuseBodyStep ==
  ASSUME IInv, NEW t \in Tries, RefuseBody(t)
  PROVE  IInv'
<1> DEFINE g == Added(handler[t], "error", Literal(Problem(handler[t].body)))
           reply == [code |-> 400, body |-> Dump(g.members, TRUE)]
<1>1. /\ handler[t].pc = "decoded" /\ handler[t].method = "POST"
      /\ Problem(handler[t].body) # None /\ UNCHANGED <<store, client, effects>>
      /\ handler' = [handler EXCEPT ![t] = Answered(g, reply)]
  BY DEF RefuseBody, Step, Replied, Goto, Answered
<1>2. /\ DOMAIN g = HandlerFields /\ g.conn = handler[t].conn /\ g.method = handler[t].method
      /\ g.name = handler[t].name /\ g.body = handler[t].body
      /\ "name" \in DOMAIN g.members /\ g.members["name"] = Local(g.name)
  BY <1>1, BeforeReply, MemberAdded
<1>3. reply.code = 400 /\ reply.body["name"] = g.name
  BY <1>2, NameDumped
<1> HIDE DEF g, reply
<1>4. /\ g.method = "POST" => /\ reply.code \in {200, 400, 500}
                              /\ reply.code = 200 => t \in effects
                              /\ reply.code = 400 => Problem(g.body) # None
      /\ g.method = "GET" => reply.code \in {200, 404, 500}
      /\ reply.code # 500 => reply.body["name"] = g.name
  BY <1>1, <1>2, <1>3
<1> QED
  BY <1>1, <1>2, <1>4, ReplyFits, Zenon

\* The reply of a handler that has done its work.
LEMMA ReplyOkStep ==
  ASSUME IInv, NEW t \in Tries, ReplyOk(t)
  PROVE  IInv'
<1> DEFINE g == handler[t]
           reply == [code |-> 200, body |-> Dump(g.members, TRUE)]
<1>1. /\ handler[t].pc = "done" /\ UNCHANGED <<store, client, effects>>
      /\ handler' = [handler EXCEPT ![t] = Answered(g, reply)]
  BY DEF ReplyOk, Step, Replied, Goto, Answered
<1>2. handler[t].method = "POST" => t \in effects
  BY <1>1 DEF IInv, HandlerInv
<1>3. /\ DOMAIN g = HandlerFields /\ g.conn = handler[t].conn /\ g.method = handler[t].method
      /\ g.name = handler[t].name /\ g.body = handler[t].body
      /\ "name" \in DOMAIN g.members /\ g.members["name"] = Local(g.name)
  BY <1>1, BeforeReply
<1>4. reply.code = 200 /\ reply.body["name"] = g.name
  BY <1>3, NameDumped
<1> HIDE DEF g, reply
<1>5. /\ g.method = "POST" => /\ reply.code \in {200, 400, 500}
                              /\ reply.code = 200 => t \in effects
                              /\ reply.code = 400 => Problem(g.body) # None
      /\ g.method = "GET" => reply.code \in {200, 404, 500}
      /\ reply.code # 500 => reply.body["name"] = g.name
  BY <1>2, <1>3, <1>4
<1> QED
  BY <1>1, <1>3, <1>5, ReplyFits, Zenon

\* The catch block may answer at any point, with whatever is left of the name.
LEMMA InternalErrorStep ==
  ASSUME IInv, NEW t \in Tries, InternalError(t)
  PROVE  IInv'
<1> DEFINE ref == Literal("Server internal error")
           g == Added(handler[t], "error", ref)
           reply == [code |-> 500, body |-> Dump(g.members, FALSE)]
<1>1. /\ handler' = [handler EXCEPT ![t] = Answered(g, reply)]
      /\ UNCHANGED <<store, client, effects>>
  BY DEF InternalError, Replied, Goto, Answered
<1> HIDE DEF ref
<1>2. DOMAIN handler[t] = HandlerFields
  BY DEF IInv, HandlerInv
<1>3. /\ DOMAIN g = HandlerFields /\ g.conn = handler[t].conn /\ g.method = handler[t].method
      /\ g.name = handler[t].name /\ g.body = handler[t].body
  BY <1>2, MemberAdded
<1>4. reply.code = 500
  OBVIOUS
<1> HIDE DEF g, reply
<1>5. /\ g.method = "POST" => /\ reply.code \in {200, 400, 500}
                              /\ reply.code = 200 => t \in effects
                              /\ reply.code = 400 => Problem(g.body) # None
      /\ g.method = "GET" => reply.code \in {200, 404, 500}
      /\ reply.code # 500 => reply.body["name"] = g.name
  BY <1>4
<1> QED
  BY <1>1, <1>3, <1>5, ReplyFits, Zenon

\* The value is stored, whether its client still waits for it or not: it
\* replaces what the others have acknowledged.
LEMMA SetRecordStep ==
  ASSUME IInv, NEW t \in Tries, SetRecord(t)
  PROVE  IInv'
<1> DEFINE h == [handler[t] EXCEPT !.pc = "done"]
<1>1. /\ handler' = [handler EXCEPT ![t] = h] /\ client' = client
      /\ store' = [store EXCEPT ![handler[t].name] = t] /\ effects' = effects \cup {t}
  BY DEF SetRecord, Goto
<1>2. /\ handler[t].pc = "decoded" /\ handler[t].method = "POST"
      /\ Problem(handler[t].body) = None
  BY DEF SetRecord, Step
<1>3. HandlerInv(t) /\ DOMAIN handler[t] = HandlerFields
  BY DEF IInv, HandlerInv
<1>4. /\ DOMAIN h = HandlerFields /\ h.conn = handler[t].conn /\ h.method = handler[t].method
      /\ h.name = handler[t].name /\ h.body = handler[t].body /\ h.pc = "done"
      /\ h.members = handler[t].members
  BY <1>3 DEF HandlerFields
<1> HIDE DEF h
<1>5. /\ Tries' = Tries /\ handler'[t] = h
      /\ \A u \in Tries \ {t} : handler'[u] = handler[u]
  BY <1>1 DEF Tries
<1>6. /\ t \in Clients \X Nat /\ t[2] <= client[t[1]].tries /\ handler[t].name \in Names
      /\ t[1] \in Clients
  BY <1>2, <1>3, TryIsPair DEF HandlerInv, RequestOK
<1>7. HandlerInv(t)'
  BY <1>1, <1>2, <1>3, <1>4, <1>5, <1>6 DEF HandlerInv, RequestOK, Local
<1>8. ASSUME NEW u \in Tries, u # t PROVE HandlerInv(u)'
  <2>1. HandlerInv(u) /\ handler'[u] = handler[u] /\ (u \in effects' <=> u \in effects)
    BY <1>1, <1>5, <1>8 DEF IInv
  <2> QED
    BY <1>1, <2>1 DEF HandlerInv, RequestOK, Answers
<1>9. ASSUME NEW c \in Clients PROVE ClientInv(c)'
  <2>1. ClientInv(c) /\ Current(c)' = Current(c) /\ client'[c] = client[c]
    BY <1>1 DEF IInv, Current
  <2>2. \A u \in Tries : /\ handler'[u].conn = handler[u].conn
                         /\ handler'[u].method = handler[u].method
                         /\ handler'[u].name = handler[u].name
                         /\ handler'[u].body = handler[u].body
    BY <1>4, <1>5
  <2>3. Current(c) = t => t[1] = c
    BY <2>1, TryIsPair DEF ClientInv, Current
  <2>4. ASSUME client[c].state \in {"waiting", "returned"}, Current(c) \in effects'
        PROVE  /\ client[c].method = "POST" /\ Problem(client[c].body) = None
               /\ Current(c) = t => client[c].name = handler[t].name
               /\ Current(c) # t => Explained(c)
    <3>1. CASE Current(c) = t
      BY <1>2, <2>1, <2>3, <2>4, <3>1 DEF ClientInv
    <3>2. CASE Current(c) # t
      BY <1>1, <2>1, <2>4, <3>2 DEF ClientInv
    <3> QED
      BY <3>1, <3>2
  <2>5. ASSUME client[c].state \in {"waiting", "returned"}, Current(c) \in effects'
        PROVE  Explained(c)'
    <3>1. client[c].name \in Names
      BY <2>1, <2>4, <2>5 DEF ClientInv, RequestOK
    <3>2. CASE client[c].name # handler[t].name
      <4>1. store'[client[c].name] = store[client[c].name] /\ Explained(c)
        BY <1>1, <2>4, <2>5, <3>1, <3>2 DEF IInv
      <4> QED
        BY <1>1, <2>1, <4>1 DEF Explained
    <3>3. CASE client[c].name = handler[t].name
      <4>1. store'[client'[c].name] = t
        BY <1>1, <3>1, <3>3 DEF IInv
      <4>2. t # None
        BY <1>6, TryIsPair
      <4>3. t[1] = c /\ t # Current(c) => t \in client'[t[1]].abandoned
        BY <1>1, <2>1 DEF ClientInv
      <4> QED
        BY <2>1, <4>1, <4>2, <4>3 DEF Explained
    <3> QED
      BY <3>2, <3>3
  <2>6. client[c].state = "returned" =>
          Answers(Current(c), client[c].method, client[c].name, client[c].body, client[c].reply)'
    BY <1>1, <2>1 DEF ClientInv, Answers
  <2> QED
    BY <1>1, <1>5, <2>1, <2>2, <2>4, <2>5, <2>6 DEF ClientInv, RequestOK
<1>10. \A u \in effects' : u \in Clients \X Nat /\ u[2] <= client'[u[1]].tries
  BY <1>1, <1>6 DEF IInv
<1>11. DOMAIN store' = Names /\ DOMAIN client' = Clients
  BY <1>1 DEF IInv
<1> QED
  BY <1>5, <1>7, <1>8, <1>9, <1>10, <1>11 DEF IInv

-----------------------------------------------------------------------------
(* The clients.                                                            *)

\* A handler is not concerned by a client that goes on.
LEMMA HandlersKept ==
  ASSUME IInv, NEW u \in Tries, handler'[u] = handler[u], effects' = effects,
         client'[u[1]].tries \in Nat, client[u[1]].tries <= client'[u[1]].tries
  PROVE  HandlerInv(u)'
<1>1. HandlerInv(u)
  BY DEF IInv
<1>2. u[1] \in Clients /\ u[2] \in Nat
  BY <1>1, TryIsPair DEF HandlerInv
<1>3. client[u[1]].tries \in Nat
  BY <1>2 DEF IInv, ClientInv
<1>4. u[2] <= client'[u[1]].tries
  BY <1>1, <1>2, <1>3 DEF HandlerInv
<1> QED
  BY <1>1, <1>4 DEF HandlerInv, RequestOK, Answers

\* Nor is a client that does nothing, as long as its tries are left alone.
LEMMA ClientsKept ==
  ASSUME IInv, NEW c \in Clients, client'[c] = client[c], UNCHANGED <<store, effects>>,
         \A u \in Tries' : u[1] = c => u \in Tries /\ handler'[u] = handler[u]
  PROVE  ClientInv(c)'
<1>1. ClientInv(c) /\ Current(c)' = Current(c)
  BY DEF IInv, Current
<1>2. Explained(c) => Explained(c)'
  BY <1>1 DEF Explained
<1>3. client[c].state = "returned" =>
        Answers(Current(c), client[c].method, client[c].name, client[c].body, client[c].reply)'
  BY <1>1 DEF ClientInv, Answers
<1>4. \A u \in Tries' : u[1] = c =>
        IF u \in client'[c].abandoned THEN handler'[u].conn < client'[c].conn
        ELSE /\ client'[c].state = "waiting" /\ u = Current(c)'
             /\ handler'[u].conn = client'[c].conn /\ handler'[u].method = client'[c].method
             /\ handler'[u].name = client'[c].name /\ handler'[u].body = client'[c].body
  BY <1>1 DEF ClientInv
<1> QED
  BY <1>1, <1>2, <1>3, <1>4 DEF ClientInv, RequestOK

\* What is written to a closed connection is lost.
LEMMA LostStep ==
  ASSUME IInv, NEW t \in Tries, Lost(t)
  PROVE  IInv'
<1>1. /\ handler' = [u \in Tries \ {t} |-> handler[u]]
      /\ UNCHANGED <<store, client, effects>>
  BY DEF Lost
<1>2. Tries' = Tries \ {t} /\ \A u \in Tries' : handler'[u] = handler[u]
  BY <1>1 DEF Tries
<1>3. \A u \in Tries' : HandlerInv(u)'
  <2> SUFFICES ASSUME NEW u \in Tries, u # t PROVE HandlerInv(u)'
    BY <1>2
  <2>1. u[1] \in Clients
    BY TryIsPair DEF IInv, HandlerInv
  <2>2. client[u[1]].tries \in Nat
    BY <2>1 DEF IInv, ClientInv
  <2> QED
    BY <1>1, <1>2, <2>2, HandlersKept
<1>4. \A c \in Clients : ClientInv(c)'
  BY <1>1, <1>2, ClientsKept
<1> QED
  BY <1>1, <1>3, <1>4 DEF IInv

\* A step of one client, which may take a try away from the server, keeps the
\* invariant if it fits the client's own.
LEMMA ClientAlone ==
  ASSUME IInv, NEW c \in Clients, NEW k, client' = [client EXCEPT ![c] = k],
         k.tries \in Nat, client[c].tries <= k.tries,
         UNCHANGED <<store, effects>>,
         \A u \in Tries' : u \in Tries /\ handler'[u] = handler[u],
         ClientInv(c)'
  PROVE  IInv'
<1>1. /\ DOMAIN store' = Names /\ DOMAIN client' = Clients /\ client'[c] = k
      /\ \A d \in Clients \ {c} : client'[d] = client[d]
  BY DEF IInv
<1>2. \A d \in Clients : client[d].tries \in Nat
  BY DEF IInv, ClientInv
<1>3. \A d \in Clients : client'[d].tries \in Nat /\ client[d].tries <= client'[d].tries
  BY <1>1, <1>2
<1>4. ASSUME NEW u \in Tries' PROVE HandlerInv(u)'
  <2>1. u \in Tries /\ handler'[u] = handler[u]
    BY <1>4
  <2>2. u[1] \in Clients
    BY <2>1, TryIsPair DEF IInv, HandlerInv
  <2> QED
    BY <1>3, <2>1, <2>2, HandlersKept
<1>5. ASSUME NEW d \in Clients, d # c PROVE ClientInv(d)'
  BY <1>1, <1>5, ClientsKept
<1>6. ASSUME NEW t \in effects' PROVE t \in Clients \X Nat /\ t[2] <= client'[t[1]].tries
  <2>1. t \in Clients \X Nat /\ t[2] <= client[t[1]].tries
    BY <1>6 DEF IInv
  <2>2. t[1] \in Clients /\ t[2] \in Nat
    BY <2>1, TryIsPair
  <2> QED
    BY <1>2, <1>3, <2>1, <2>2
<1> QED
  BY <1>1, <1>4, <1>5, <1>6 DEF IInv

\* A new call: the tries of the call before are answered or given up.
LEMMA CallStep ==
  ASSUME IInv, NEW c \in Clients, NEW method, NEW name, NEW body, Call(c, method, name, body),
         \/ method = "GET"
         \/ method = "POST" /\ name \in Names /\ body \in Bodies
  PROVE  IInv'
<1> DEFINE k == Calls(c, method, name, body)
<1>1. ClientInv(c) /\ DOMAIN client = Clients
  BY DEF IInv
<1>2. /\ client' = [client EXCEPT ![c] = k] /\ UNCHANGED <<store, handler, effects>>
      /\ client[c].state \in {"idle", "returned"}
  BY DEF Call
<1>3. /\ DOMAIN k = ClientFields /\ k.state = "trying" /\ k.method = method /\ k.name = name
      /\ k.body = body /\ k.tries = client[c].tries /\ k.conn = client[c].conn
      /\ k.abandoned = client[c].abandoned
  BY <1>1 DEF ClientInv, ClientFields, Calls
<1>4. client'[c] = k
  BY <1>1, <1>2
<1> HIDE DEF k
<1>5. k.tries \in Nat /\ client[c].tries <= k.tries
  BY <1>1, <1>3 DEF ClientInv
<1>6. ClientInv(c)'
  BY <1>1, <1>2, <1>3, <1>4 DEF ClientInv, RequestOK, Tries
<1> QED
  BY <1>2, <1>5, <1>6, ClientAlone DEF Tries

\* The connection is refused: a try has not begun.
LEMMA RefusedStep ==
  ASSUME IInv, NEW c \in Clients, Refused(c)
  PROVE  IInv'
<1>1. ClientInv(c) /\ DOMAIN client = Clients
  BY DEF IInv
<1>2. PICK k \in {Sleeps(c), Raises(c)} : client' = [client EXCEPT ![c] = k]
  BY DEF Refused
<1>3. /\ DOMAIN k = ClientFields /\ k.state \in {"asleep", "raised"} /\ k.method = client[c].method
      /\ k.name = client[c].name /\ k.body = client[c].body /\ k.tries = client[c].tries
      /\ k.conn = client[c].conn + 1 /\ k.abandoned = client[c].abandoned
      /\ UNCHANGED <<store, handler, effects>> /\ client[c].state = "trying"
  BY <1>1 DEF ClientInv, ClientFields, Sleeps, Raises, Refused
<1>4. client'[c] = k
  BY <1>1, <1>2
<1>5. k.tries \in Nat /\ client[c].tries <= k.tries /\ client[c].conn \in Nat
  BY <1>1, <1>3 DEF ClientInv, RequestOK
<1>6. \A t \in Tries : t[1] = c => t \in k.abandoned /\ handler[t].conn < k.conn
  <2> SUFFICES ASSUME NEW t \in Tries, t[1] = c
               PROVE  t \in k.abandoned /\ handler[t].conn < k.conn
    OBVIOUS
  <2>1. t \in client[c].abandoned /\ handler[t].conn < client[c].conn
    BY <1>1, <1>3 DEF ClientInv
  <2>2. handler[t].conn \in Nat
    BY DEF IInv, HandlerInv, RequestOK
  <2> QED
    BY <1>3, <1>5, <2>1, <2>2
<1>7. ClientInv(c)'
  BY <1>1, <1>2, <1>3, <1>4, <1>5, <1>6 DEF ClientInv, RequestOK, Tries
<1> QED
  BY <1>2, <1>3, <1>5, <1>7, ClientAlone DEF Tries

\* The connection fails: the try is given up, and remains on a connection that
\* is closed.
LEMMA DisconnectedStep ==
  ASSUME IInv, NEW c \in Clients, Disconnected(c)
  PROVE  IInv'
<1>1. ClientInv(c) /\ DOMAIN client = Clients
  BY DEF IInv
<1>2. /\ UNCHANGED <<store, effects>> /\ client[c].state = "waiting"
      /\ \/ handler' = [u \in Tries \ {Current(c)} |-> handler[u]]
         \/ handler' = handler
      /\ \E s \in {Sleeps(c), Raises(c)} :
            client' = [client EXCEPT ![c] = [s EXCEPT !.abandoned = @ \cup {Current(c)}]]
  BY DEF Disconnected
<1> PICK s \in {Sleeps(c), Raises(c)} :
         client' = [client EXCEPT ![c] = [s EXCEPT !.abandoned = @ \cup {Current(c)}]]
  BY <1>2
<1> DEFINE k == [s EXCEPT !.abandoned = @ \cup {Current(c)}]
<1>3. /\ DOMAIN s = ClientFields /\ s.state \in {"asleep", "raised"} /\ s.method = client[c].method
      /\ s.name = client[c].name /\ s.body = client[c].body /\ s.tries = client[c].tries
      /\ s.conn = client[c].conn + 1 /\ s.abandoned = client[c].abandoned
  BY <1>1 DEF ClientInv, ClientFields, Sleeps, Raises
<1>4. /\ DOMAIN k = ClientFields /\ k.state \in {"asleep", "raised"} /\ k.method = client[c].method
      /\ k.name = client[c].name /\ k.body = client[c].body /\ k.tries = client[c].tries
      /\ k.conn = client[c].conn + 1 /\ k.abandoned = client[c].abandoned \cup {Current(c)}
  BY <1>3 DEF ClientFields
<1>5. client' = [client EXCEPT ![c] = k] /\ client'[c] = k
  BY <1>1
<1> HIDE DEF k
<1>6. k.tries \in Nat /\ client[c].tries <= k.tries /\ client[c].conn \in Nat
  BY <1>1, <1>4 DEF ClientInv, RequestOK
<1>7. \A u \in Tries' : u \in Tries /\ handler'[u] = handler[u]
  BY <1>2 DEF Tries
<1>8. \A t \in Tries' : t[1] = c => t \in k.abandoned /\ handler'[t].conn < k.conn
  <2> SUFFICES ASSUME NEW t \in Tries, t[1] = c
               PROVE  t \in k.abandoned /\ handler[t].conn < k.conn
    BY <1>7
  <2>1. /\ t \in client[c].abandoned => handler[t].conn < client[c].conn
        /\ t \notin client[c].abandoned => t = Current(c) /\ handler[t].conn = client[c].conn
    BY <1>1, <1>2 DEF ClientInv
  <2>2. handler[t].conn \in Nat
    BY DEF IInv, HandlerInv, RequestOK
  <2> QED
    BY <1>4, <1>6, <2>1, <2>2
<1>9. \A t \in k.abandoned : t \in Clients \X Nat /\ t[2] <= k.tries
  <2>1. /\ Current(c) \in Clients \X Nat /\ Current(c)[2] = client[c].tries
    BY <1>4, <1>6, TryIsPair DEF Current
  <2> QED
    BY <1>1, <1>4, <1>6, <2>1 DEF ClientInv
<1>10. ClientInv(c)'
  <2>1. RequestOK(k) /\ k.method \in {"GET", "POST"}
    BY <1>1, <1>2, <1>4, <1>6 DEF ClientInv, RequestOK
  <2>2. k.state \notin {"idle", "waiting", "returned"}
    BY <1>4
  <2> QED
    BY <1>4, <1>5, <1>6, <1>8, <1>9, <2>1, <2>2 DEF ClientInv, RequestOK
<1> QED
  BY <1>2, <1>5, <1>6, <1>7, <1>10, ClientAlone

\* The pause is over.
LEMMA WakesStep ==
  ASSUME IInv, NEW c \in Clients, Wakes(c)
  PROVE  IInv'
<1> DEFINE k == [client[c] EXCEPT !.state = "trying"]
<1>1. ClientInv(c) /\ DOMAIN client = Clients
  BY DEF IInv
<1>2. /\ client' = [client EXCEPT ![c] = k] /\ UNCHANGED <<store, handler, effects>>
      /\ client[c].state = "asleep"
  BY <1>1 DEF Wakes
<1>3. /\ DOMAIN k = ClientFields /\ k.state = "trying" /\ k.method = client[c].method
      /\ k.name = client[c].name /\ k.body = client[c].body /\ k.tries = client[c].tries
      /\ k.conn = client[c].conn /\ k.abandoned = client[c].abandoned
  BY <1>1 DEF ClientInv, ClientFields
<1>4. client'[c] = k
  BY <1>1, <1>2
<1> HIDE DEF k
<1>5. k.tries \in Nat /\ client[c].tries <= k.tries
  BY <1>1, <1>3 DEF ClientInv
<1>6. ClientInv(c)'
  BY <1>1, <1>2, <1>3, <1>4 DEF ClientInv, RequestOK, Tries
<1> QED
  BY <1>2, <1>5, <1>6, ClientAlone DEF Tries

\* A new try is neither given up nor stored: its number is a new one.
LEMMA RequestStep ==
  ASSUME IInv, NEW c \in Clients, Request(c)
  PROVE  IInv'
<1> DEFINE k == [client[c] EXCEPT !.state = "waiting", !.tries = @ + 1]
           h == [pc |-> "routed", conn |-> client[c].conn, method |-> client[c].method,
                 name |-> client[c].name, body |-> client[c].body, members |-> <<>>,
                 reply |-> None]
<1> SUFFICES ASSUME NEW n, n = <<c, client[c].tries + 1>> PROVE IInv'
  OBVIOUS
<1>1. /\ ClientInv(c) /\ DOMAIN client = Clients /\ DOMAIN store = Names
      /\ client[c].tries \in Nat
  BY DEF IInv, ClientInv
<1>2. /\ handler' = [t \in Tries \cup {n} |-> IF t \in Tries THEN handler[t] ELSE h]
      /\ UNCHANGED <<store, effects>> /\ client[c].state = "trying"
  BY DEF Request
<1>3. client' = [client EXCEPT ![c] = k]
  BY <1>1 DEF Request, ClientInv, ClientFields
<1>4. /\ DOMAIN k = ClientFields /\ k.state = "waiting" /\ k.method = client[c].method
      /\ k.name = client[c].name /\ k.body = client[c].body /\ k.tries = client[c].tries + 1
      /\ k.conn = client[c].conn /\ k.abandoned = client[c].abandoned
  BY <1>1 DEF ClientInv, ClientFields
<1>5. client'[c] = k /\ \A d \in Clients \ {c} : client'[d] = client[d]
  BY <1>1, <1>3
<1> HIDE DEF k
<1>6. n \in Clients \X Nat /\ n[1] = c /\ n[2] = client[c].tries + 1
  BY <1>1, TryIsPair
<1>7. Current(c)' = n
  BY <1>4, <1>5 DEF Current
<1>8. \A d \in Clients : /\ client[d].tries \in Nat /\ client'[d].tries \in Nat
                         /\ client[d].tries <= client'[d].tries
  <2>1. \A d \in Clients : client[d].tries \in Nat
    BY DEF IInv, ClientInv
  <2> QED
    BY <1>4, <1>5, <2>1
<1>9. /\ n \notin Tries /\ n \notin effects /\ n \notin client[c].abandoned
  <2>1. ~(client[c].tries + 1 <= client[c].tries)
    BY <1>1
  <2>2. n \notin Tries
    BY <1>6, <2>1 DEF IInv, HandlerInv
  <2>3. n \notin effects
    BY <1>6, <2>1 DEF IInv
  <2>4. n \notin client[c].abandoned
    BY <1>1, <1>6, <2>1 DEF ClientInv
  <2> QED
    BY <2>2, <2>3, <2>4
<1>10. /\ DOMAIN h = HandlerFields /\ h.pc = "routed" /\ h.conn = client[c].conn
       /\ h.method = client[c].method /\ h.name = client[c].name /\ h.body = client[c].body
       /\ DOMAIN h.members = {}
  BY DEF HandlerFields
<1>11. /\ Tries' = Tries \cup {n} /\ handler'[n] = h
       /\ \A u \in Tries : handler'[u] = handler[u]
  BY <1>2, <1>9 DEF Tries
<1> HIDE DEF h
<1>12. HandlerInv(n)'
  <2>1. n[2] <= client'[n[1]].tries
    BY <1>1, <1>4, <1>5, <1>6
  <2>2. RequestOK(client[c]) /\ client[c].method \in {"GET", "POST"}
    BY <1>1, <1>2 DEF ClientInv
  <2> QED
    BY <1>2, <1>6, <1>9, <1>10, <1>11, <2>1, <2>2 DEF HandlerInv, RequestOK
<1>13. ASSUME NEW u \in Tries PROVE HandlerInv(u)'
  <2>1. u[1] \in Clients
    BY TryIsPair DEF IInv, HandlerInv
  <2> QED
    BY <1>2, <1>8, <1>11, <2>1, HandlersKept
<1>14. ASSUME NEW d \in Clients, d # c PROVE ClientInv(d)'
  <2>1. client'[d] = client[d] /\ \A u \in Tries' : u[1] = d => u \in Tries /\ handler'[u] = handler[u]
    BY <1>5, <1>6, <1>11, <1>14
  <2> QED
    BY <1>2, <2>1, ClientsKept
<1>15. ClientInv(c)'
  <2>1. \A t \in Tries : t[1] = c => t \in k.abandoned /\ handler[t].conn < k.conn
    BY <1>1, <1>2, <1>4 DEF ClientInv
  <2>2. \A t \in k.abandoned : t \in Clients \X Nat /\ t[2] <= k.tries
    <3> SUFFICES ASSUME NEW t \in client[c].abandoned
                 PROVE  t \in Clients \X Nat /\ t[2] <= client[c].tries + 1
      BY <1>4
    <3>1. t \in Clients \X Nat /\ t[2] <= client[c].tries
      BY <1>1 DEF ClientInv
    <3>2. t[2] \in Nat
      BY <3>1, TryIsPair
    <3> QED
      BY <1>1, <3>1, <3>2
  <2>3. k.tries \in Nat /\ RequestOK(k) /\ k.method \in {"GET", "POST"}
    BY <1>1, <1>2, <1>4 DEF ClientInv, RequestOK
  <2>4. \A t \in Tries' : t[1] = c =>
          IF t \in k.abandoned THEN handler'[t].conn < k.conn
          ELSE /\ k.state = "waiting" /\ t = n
               /\ handler'[t].conn = k.conn /\ handler'[t].method = k.method
               /\ handler'[t].name = k.name /\ handler'[t].body = k.body
    BY <1>4, <1>9, <1>10, <1>11, <2>1
  <2> QED
    BY <1>2, <1>4, <1>5, <1>7, <1>9, <2>2, <2>3, <2>4 DEF ClientInv, RequestOK
<1>16. ASSUME NEW t \in effects' PROVE t \in Clients \X Nat /\ t[2] <= client'[t[1]].tries
  <2>1. t \in Clients \X Nat /\ t[2] <= client[t[1]].tries
    BY <1>2, <1>16 DEF IInv
  <2>2. t[1] \in Clients /\ t[2] \in Nat
    BY <2>1, TryIsPair
  <2> QED
    BY <1>8, <2>1, <2>2
<1>17. DOMAIN store' = Names /\ DOMAIN client' = Clients
  BY <1>1, <1>2, <1>3
<1> QED
  BY <1>11, <1>12, <1>13, <1>14, <1>15, <1>16, <1>17 DEF IInv

\* The only reply that can arrive is the one to the client's last try.
LEMMA ArrivedCurrent ==
  ASSUME IInv, NEW c \in Clients, NEW u \in Arrived(c)
  PROVE  /\ u = Current(c) /\ u \in Tries /\ u[1] = c /\ u[2] \in Nat
         /\ handler[u].pc = "replied" /\ handler[u].method = client[c].method
         /\ handler[u].name = client[c].name /\ handler[u].body = client[c].body
<1>1. /\ u \in Tries /\ u[1] = c /\ handler[u].conn = client[c].conn
      /\ handler[u].pc = "replied"
  BY DEF Arrived
<1>2. u[2] \in Nat
  BY <1>1, TryIsPair DEF IInv, HandlerInv
<1>3. ClientInv(c) /\ handler[u].conn \in Nat
  BY <1>1 DEF IInv, HandlerInv, RequestOK
<1>4. ~(handler[u].conn < client[c].conn)
  BY <1>1, <1>3
<1> QED
  BY <1>1, <1>2, <1>3, <1>4 DEF ClientInv

\* The reply is read and the call returns.
LEMMA GetResponseStep ==
  ASSUME IInv, NEW c \in Clients, GetResponse(c)
  PROVE  IInv'
<1> DEFINE t == First(c)
           k == [client[c] EXCEPT !.state = "returned", !.reply = handler[t].reply]
<1>1. ClientInv(c) /\ DOMAIN client = Clients
  BY DEF IInv
<1>2. /\ client[c].state = "waiting" /\ Arrived(c) # {} /\ UNCHANGED <<store, effects>>
      /\ handler' = [u \in Tries \ {t} |-> handler[u]]
  BY DEF GetResponse
<1>3. client' = [client EXCEPT ![c] = k]
  BY <1>1 DEF GetResponse, ClientInv, ClientFields
<1>4. t \in Arrived(c)
  <2>1. PICK u \in Arrived(c) : TRUE
    BY <1>2
  <2>2. u[2] \in Nat /\ \A v \in Arrived(c) : v = u
    BY ArrivedCurrent
  <2>3. \A v \in Arrived(c) : u[2] <= v[2]
    BY <2>2
  <2>4. \E w \in Arrived(c) : \A v \in Arrived(c) : w[2] <= v[2]
    BY <2>3
  <2> QED
    BY <2>4 DEF First
<1>5. /\ DOMAIN k = ClientFields /\ k.state = "returned" /\ k.method = client[c].method
      /\ k.name = client[c].name /\ k.body = client[c].body /\ k.tries = client[c].tries
      /\ k.conn = client[c].conn /\ k.abandoned = client[c].abandoned
      /\ k.reply = handler[t].reply
  BY <1>1 DEF ClientInv, ClientFields
<1> HIDE DEF t
<1>6. client'[c] = k
  BY <1>1, <1>3
<1> HIDE DEF k
<1>7. /\ t = Current(c) /\ t \in Tries /\ handler[t].pc = "replied"
      /\ handler[t].method = k.method /\ handler[t].name = k.name /\ handler[t].body = k.body
  BY <1>4, <1>5, ArrivedCurrent
<1>8. Answers(t, k.method, k.name, k.body, k.reply)
  BY <1>5, <1>7 DEF IInv, HandlerInv
<1>9. Current(c)' = t
  BY <1>5, <1>6, <1>7 DEF Current
<1>10. Answers(Current(c), client[c].method, client[c].name, client[c].body, client[c].reply)'
  BY <1>2, <1>6, <1>8, <1>9 DEF Answers
<1>11. Explained(c) => Explained(c)'
  BY <1>2, <1>5, <1>6, <1>7, <1>9 DEF Explained
<1>12. \A u \in Tries' : u \in Tries /\ handler'[u] = handler[u] /\ u # t
  BY <1>2 DEF Tries
<1>13. k.tries \in Nat /\ client[c].tries <= k.tries
  BY <1>1, <1>5 DEF ClientInv
<1>14. \A u \in Tries' : u[1] = c => u \in k.abandoned /\ handler'[u].conn < k.conn
  BY <1>1, <1>5, <1>7, <1>12 DEF ClientInv
<1>15. ClientInv(c)'
  BY <1>1, <1>2, <1>5, <1>6, <1>7, <1>9, <1>10, <1>11, <1>14 DEF ClientInv, RequestOK
<1> QED
  BY <1>2, <1>3, <1>12, <1>13, <1>15, ClientAlone

-----------------------------------------------------------------------------
(* The theorems.                                                           *)

\* The invariant holds before anything has happened.
LEMMA InitIInv == Init => IInv
<1> SUFFICES ASSUME Init PROVE IInv
  OBVIOUS
<1>1. Tries = {} /\ effects = {} /\ DOMAIN store = Names /\ DOMAIN client = Clients
  BY DEF Init, Tries
<1>2. ASSUME NEW c \in Clients PROVE ClientInv(c)
  <2>1. client[c] = [state |-> "idle", calls |-> 0, tries |-> 0, conn |-> 0,
                     abandoned |-> {}, method |-> None, name |-> None,
                     body |-> None, reply |-> None]
    BY DEF Init
  <2> QED
    BY <1>1, <2>1, NoneIsNothing DEF ClientInv, ClientFields, RequestOK
<1> QED
  BY <1>1, <1>2 DEF IInv

\* Every step keeps the invariant.
LEMMA NextIInv == IInv /\ [Next]_vars => IInv'
<1> SUFFICES ASSUME IInv, [Next]_vars PROVE IInv'
  OBVIOUS
<1>1. CASE UNCHANGED vars
  BY <1>1 DEF IInv, vars, HandlerInv, ClientInv, RequestOK, Answers, Explained, Current, Tries
<1>2. ASSUME NEW c \in Clients, NEW name, Call(c, "GET", name, None) PROVE IInv'
  BY <1>2, CallStep
<1>3. ASSUME NEW c \in Clients, NEW name \in Names, NEW body \in Bodies,
             Call(c, "POST", name, body)
      PROVE  IInv'
  BY <1>3, CallStep
<1>4. ASSUME NEW c \in Clients, Run(c) PROVE IInv'
  BY <1>4, RequestStep, WakesStep, GetResponseStep DEF Run
<1>5. ASSUME NEW c \in Clients, Refused(c) \/ Disconnected(c) PROVE IInv'
  BY <1>5, RefusedStep, DisconnectedStep
<1>6. ASSUME NEW t \in Tries, Serve(t) PROVE IInv'
  BY <1>6, HandleListingStep, DecodeStep, GetRecordStep, RefuseBodyStep, SetRecordStep,
     ReplyOkStep, InternalErrorStep DEF Serve
<1>7. ASSUME NEW t \in Tries, Lost(t) PROVE IInv'
  BY <1>7, LostStep
<1> QED
  BY <1>1, <1>2, <1>3, <1>4, <1>5, <1>6, <1>7 DEF Next

\* The invariant of the handlers, the clients and the connections between them
\* holds always.
THEOREM Invariance == Spec => []IInv
BY InitIInv, NextIInv, PTL DEF Spec

\* A client can rely on the replies it gets, whatever connections have failed
\* and whatever tries of its own are still being handled.
THEOREM RepliesAreTruthful == Spec => []RepliesTruthful
<1>1. IInv => RepliesTruthful
  <2> SUFFICES ASSUME IInv PROVE RepliesTruthful
    OBVIOUS
  <2>1. ASSUME NEW c \in Clients, Written(c) PROVE Current(c) \in effects
    BY <2>1, NoneIsNothing DEF IInv, ClientInv, Answers, RequestOK, Written, Returned
  <2>2. ASSUME NEW c \in Clients, Returned(c), client[c].name # None,
               client[c].reply.code # 500
        PROVE  /\ client[c].method = "POST" /\ client[c].body = "value" =>
                    client[c].reply.code = 200
               /\ client[c].method = "GET" => client[c].reply.code \in {200, 404}
               /\ client[c].reply.body["name"] = client[c].name
    <3>1. /\ Answers(Current(c), client[c].method, client[c].name, client[c].body, client[c].reply)
          /\ RequestOK(client[c])
      BY <2>2 DEF IInv, ClientInv, Returned
    <3>2. client[c].method = "POST" /\ client[c].body = "value" => Problem(client[c].body) = None
      BY <3>1, GoodBody DEF RequestOK
    <3> QED
      BY <2>2, <3>1, <3>2 DEF Answers
  <2> QED
    BY <2>1, <2>2 DEF RepliesTruthful, AckMeansStored, ClientAsserts
<1> QED
  BY <1>1, Invariance, PTL

\* An acknowledged value is in the record, unless a try another client has sent
\* or that was given up has replaced it.
THEOREM StoreIsExplained == Spec => []StoreExplained
<1>1. IInv => StoreExplained
  <2> SUFFICES ASSUME IInv, NEW c \in Clients, Written(c) PROVE Explained(c)
    BY DEF StoreExplained
  <2>1. client[c].name # None
    BY NoneIsNothing DEF IInv, ClientInv, RequestOK, Written
  <2>2. Current(c) \in effects
    BY <2>1 DEF IInv, ClientInv, Answers, Written, Returned
  <2> QED
    BY <2>2 DEF IInv, ClientInv, Written, Returned
<1> QED
  BY <1>1, Invariance, PTL

\* An ill-formed body is refused and stores nothing.
THEOREM IllFormedIsRefused == Spec => []IllFormedRefused
<1>1. IInv => IllFormedRefused
  <2> SUFFICES ASSUME IInv, NEW c \in Clients, Returned(c), client[c].method = "POST",
                      client[c].body # "value"
               PROVE  client[c].reply.code \in {400, 500} /\ Current(c) \notin effects
    BY DEF IllFormedRefused
  <2>1. /\ client[c].name # None /\ Problem(client[c].body) # None
    BY NoneIsNothing, GoodBody DEF IInv, ClientInv, RequestOK
  <2>2. Current(c) \notin effects
    BY <2>1 DEF IInv, ClientInv, Returned
  <2> QED
    BY <2>1, <2>2 DEF IInv, ClientInv, Answers, Returned
<1> QED
  BY <1>1, Invariance, PTL
=============================================================================
