------------------------------- MODULE Router -------------------------------
(***************************************************************************)
(* Crow's router (routing.h): rules are registered, validate puts them     *)
(* into one trie per method and contracts the tries, and requests are      *)
(* looked up in them. The correct answer is found by trying the rules one  *)
(* by one.                                                                 *)
(*                                                                         *)
(* A URL is a sequence of characters; Huge stands for more digits than an  *)
(* integer can have. A rule is a sequence of characters and parameters. A  *)
(* number that is passed to a handler is named by the text it was read     *)
(* from. Blueprints, of which the program registers none, are left out.    *)
(***************************************************************************)
EXTENDS Naturals, Sequences, SequencesExt, FiniteSets, FiniteSetsExt

CONSTANTS
    RuleSet,        \* the rules that may be registered, see MCComponents
    MaxRules,
    Urls,           \* the URLs of requests
    Methods         \* the methods of rules; HEAD and OPTIONS are apart

NoParam == "none"
Huge == "99999999999999999999"
Params == {"<int>", "<uint>", "<double>", "<string>", "<path>"}
Redirect == 1               \* RULE_SPECIAL_REDIRECT_SLASH

VARIABLES
    phase,          \* "setup", "adding", "serving", or why validate threw
    rules,          \* all_rules_
    catchall,       \* whether catchall_rule_ has a handler
    added,          \* how many of them are in the tries
    perMethod,      \* per_methods_; a rule is its position in rules
    reply           \* the last reply, with its request

vars == <<phase, rules, catchall, added, perMethod, reply>>

-----------------------------------------------------------------------------
(* Trie.                                                                   *)

NewNode(key, param) == [rule |-> 0, key |-> key, param |-> param, children |-> <<>>]

IsSimpleNode(n) ==
    /\ n.rule = 0 /\ n.param = NoParam
    /\ Len(n.children) < 2
    /\ \A i \in DOMAIN n.children : n.children[i].param = NoParam

\* The child add goes on with, of those that are there.
ChildFor(n, token) ==
    SelectInSeq(n.children, LAMBDA c : IF token \in Params THEN c.param = token
                                       ELSE c.param = NoParam /\ c.key[1] = token)

RECURSIVE Add(_, _, _)
Add(n, url, rule) ==
    IF url = <<>> THEN [n EXCEPT !.rule = rule]
    ELSE LET token == Head(url)
             i == ChildFor(n, token)
             fresh == IF token \in Params THEN NewNode(<<>>, token) ELSE NewNode(<<token>>, NoParam)
         IN  IF i > 0 THEN [n EXCEPT !.children[i] = Add(@, Tail(url), rule)]
             ELSE [n EXCEPT !.children = Append(@, Add(fresh, Tail(url), rule))]

\* The rule of the node where add ends: it must not have one.
RECURSIVE RuleAt(_, _)
RuleAt(n, url) ==
    IF url = <<>> THEN n.rule
    ELSE LET i == ChildFor(n, Head(url)) IN IF i = 0 THEN 0 ELSE RuleAt(n.children[i], Tail(url))

\* Faulty: the rule of the node that is merged is lost.
Merge_NoRule(n, child) == [n EXCEPT !.key = @ \o child.key, !.children = child.children]

Merge(n, child) ==
    [n EXCEPT !.key = @ \o child.key, !.rule = child.rule, !.children = child.children]

RECURSIVE OptimizeNode(_)
OptimizeNode(n) ==
    IF n.children = <<>> THEN n
    ELSE IF IsSimpleNode(n) THEN OptimizeNode(Merge(n, n.children[1]))
    ELSE [n EXCEPT !.children = [i \in DOMAIN @ |-> OptimizeNode(@[i])]]

\* Trie::optimize: the head itself stays.
Optimize(head) == [head EXCEPT !.children = [i \in DOMAIN @ |-> OptimizeNode(@[i])]]

-----------------------------------------------------------------------------
(* What a parameter takes of the text s, as a number of characters; 0 is   *)
(* no match.                                                               *)

Rest(s, n) == SubSeq(s, n + 1, Len(s))

Run(s, chars) == Max({n \in 0 .. Len(s) : \A i \in 1 .. n : s[i] \in chars})

Digits == {"1", Huge}

Sign(s, signs) == Run(IF s = <<>> THEN s ELSE <<s[1]>>, signs)

\* strtoll and strtoull, with the test of the first character.
TakeInteger(s, signs) ==
    LET sign == Sign(s, signs)
        n == Run(Rest(s, sign), Digits)
    IN  IF n = 0 \/ Huge \in ToSet(SubSeq(s, 1, sign + n)) THEN 0 ELSE sign + n

\* strtod: digits before or after the point, or both.
TakeDouble(s) ==
    LET sign == Sign(s, {"+", "-"})
        n == Run(Rest(s, sign), Digits)
        point == Run(Rest(s, sign + n), {"."}) > 0
        m == IF point THEN Run(Rest(s, sign + n + 1), Digits) ELSE 0
    IN  IF n + m = 0 THEN 0 ELSE sign + n + m + IF point THEN 1 ELSE 0

Take(param, s) ==
    CASE param = "<int>" -> TakeInteger(s, {"+", "-"})
      [] param = "<uint>" -> TakeInteger(s, {"+"})
      [] param = "<double>" -> TakeDouble(s)
      [] param = "<string>" -> Run(s, ToSet(s) \ {"/"})
      [] param = "<path>" -> Len(s)

\* The vector of routing_params a parameter goes to.
VectorOf(param) == IF param = "<path>" THEN "<string>" ELSE param

NoParams == [v \in Params \ {"<path>"} |-> <<>>]

-----------------------------------------------------------------------------
(* Trie::find.                                                             *)

TakenBy(child, s) ==
    IF child.param # NoParam THEN Take(child.param, s)
    ELSE IF IsPrefix(child.key, s) THEN Len(child.key) ELSE 0

\* update_found.
Better(found, ret) == ret.rule # 0 /\ (found.rule = 0 \/ found.rule > ret.rule)

RECURSIVE Find(_, _, _)
Find(n, s, params) ==
    LET Child(c) ==
            LET taken == TakenBy(c, s)
                more == IF c.param = NoParam THEN params
                        ELSE [params EXCEPT ![VectorOf(c.param)] = Append(@, SubSeq(s, 1, taken))]
            IN  IF taken = 0 THEN [rule |-> 0, params |-> NoParams] ELSE Find(c, Rest(s, taken), more)
        Update(found, c) == LET ret == Child(c) IN IF Better(found, ret) THEN ret ELSE found
    IN  IF s = <<>> THEN [rule |-> n.rule, params |-> params]
        ELSE FoldLeft(Update, [rule |-> 0, params |-> NoParams], n.children)

Lookup(method, url) == Find(perMethod[method].trie, url, NoParams)

-----------------------------------------------------------------------------
(* Setup.                                                                  *)

Request(method, url, upgrade) == [method |-> method, url |-> url, upgrade |-> upgrade]

\* by is the rule that answers, catchall whether that handler does; code is 0
\* when an exception leaves.
Answer(req, code) ==
    [req |-> req, code |-> code, by |-> 0, catchall |-> FALSE, args |-> <<>>, allow |-> {},
     location |-> <<>>]

NoReply == Answer(Request(NoParam, <<>>, FALSE), 0)

Init ==
    /\ phase = "setup"
    /\ rules = <<>>
    /\ catchall = FALSE
    /\ added = 0
    /\ perMethod = [m \in Methods |-> [rules |-> <<0>>, trie |-> NewNode(<<>>, NoParam)]]
    /\ reply = NoReply

Register(r) ==
    /\ phase = "setup"
    /\ Len(rules) < MaxRules
    /\ rules' = Append(rules, r)
    /\ UNCHANGED <<phase, catchall, added, perMethod, reply>>

RegisterCatchall ==
    /\ phase = "setup"
    /\ catchall' = TRUE
    /\ UNCHANGED <<phase, rules, added, perMethod, reply>>

Validate ==
    /\ phase = "setup"
    /\ rules # <<>>
    /\ phase' = "adding"
    /\ UNCHANGED <<rules, catchall, added, perMethod, reply>>

HasTrailingSlash(url) == Len(url) > 1 /\ Last(url) = "/"

\* The URLs internal_add_rule_object adds for a rule: its own, and the one
\* that is redirected to it.
Entries(r, index) ==
    <<[url |-> r.url, rule |-> index]>>
        \o (IF HasTrailingSlash(r.url) THEN <<[url |-> Front(r.url), rule |-> Redirect]>> ELSE <<>>)

\* Of the next rule, in the trie of each of its methods.
AddRuleObject ==
    LET r == rules[added + 1]
        \* the index the rule gets: 0 and 1 have a special meaning
        Index(m) == Len(perMethod[m].rules) + 1
        New(m) == Entries(r, Index(m))
        Into(trie, e) == Add(trie, e.url, e.rule)
    IN
    /\ phase = "adding"
    /\ added < Len(rules)
    /\ r.handler
    /\ \A m \in r.methods : \A i \in DOMAIN New(m) : RuleAt(perMethod[m].trie, New(m)[i].url) = 0
    /\ added' = added + 1
    /\ perMethod' = [m \in Methods |->
            IF m \in r.methods
            THEN [rules |-> Append(perMethod[m].rules, added + 1),
                  trie |-> FoldLeft(Into, perMethod[m].trie, New(m))]
            ELSE perMethod[m]]
    /\ UNCHANGED <<phase, rules, catchall, reply>>

\* validate throws: a rule without handler, or a URL that is there already.
AddRuleThrows ==
    LET r == rules[added + 1]
    IN
    /\ phase = "adding"
    /\ added < Len(rules)
    /\ \/ ~r.handler /\ phase' = "no handler"
       \/ /\ r.handler
          /\ \E m \in r.methods : \E e \in ToSet(Entries(r, Redirect + 1)) :
                RuleAt(perMethod[m].trie, e.url) # 0
          /\ phase' = "handler already exists"
    /\ UNCHANGED <<rules, catchall, added, perMethod, reply>>

ValidateTries ==
    /\ phase = "adding"
    /\ added = Len(rules)
    /\ IF \A m \in Methods : IsSimpleNode(perMethod[m].trie)
       THEN /\ perMethod' = [m \in Methods |-> [perMethod[m] EXCEPT !.trie = Optimize(@)]]
            /\ phase' = "serving"
       ELSE /\ phase' = "header not simple"
            /\ UNCHANGED perMethod
    /\ UNCHANGED <<rules, catchall, added, reply>>

-----------------------------------------------------------------------------
(* Requests.                                                               *)

RuleOf(method, index) == perMethod[method].rules[index]

\* The arguments of the handler: the next one of the vector of its type.
Arguments(r, params) ==
    LET types == SelectSeq(r.url, LAMBDA t : t \in Params)
        Nth(i) == Cardinality({j \in 1 .. i : VectorOf(types[j]) = VectorOf(types[i])})
    IN  [i \in DOMAIN types |-> params[VectorOf(types[i])][Nth(i)]]

Reply(answer) ==
    /\ phase = "serving"
    /\ reply' = answer
    /\ UNCHANGED <<phase, rules, catchall, added, perMethod>>

Location(url) == Append(url, "/")

\* The replies both kinds of requests share; found is the rule's index.
ReplyRedirect(req, found) ==
    /\ found = Redirect
    /\ Reply([Answer(req, 301) EXCEPT !.location = Location(req.url)])

FoundElsewhere(url) == \E m \in Methods : Lookup(m, url).rule # 0

ErrorCode(url) == IF FoundElsewhere(url) THEN 405 ELSE 404

\* get_error: the catchall handler, or the code alone. It is called outside of
\* the try block.
HandleUnmatched(req, found) ==
    /\ found = 0
    /\ \/ ~catchall /\ Reply(Answer(req, ErrorCode(req.url)))
       \/ catchall /\ Reply([Answer(req, ErrorCode(req.url)) EXCEPT !.catchall = TRUE])
       \/ catchall /\ Reply(Answer(req, 0))

\* The rule's handler; a WebSocketRule has 404 for a request without upgrade.
HandleMatched(req, method, found) ==
    /\ found.rule > Redirect
    /\ LET i == RuleOf(method, found.rule)
           r == rules[i]
       IN  \/ /\ ~r.websocket
              /\ Reply([Answer(req, 200) EXCEPT !.by = i, !.args = Arguments(r, found.params)])
           \/ ~r.websocket /\ Reply([Answer(req, 500) EXCEPT !.by = i])
           \/ r.websocket /\ Reply([Answer(req, 404) EXCEPT !.by = i])

\* HEAD is looked up as GET.
Handle(method, url) ==
    LET req == Request(method, url, FALSE)
        actual == IF method = "HEAD" THEN "GET" ELSE method
        found == Lookup(actual, url)
    IN
    \/ HandleUnmatched(req, found.rule)
    \/ ReplyRedirect(req, found.rule)
    \/ HandleMatched(req, actual, found)

\* Faulty: the methods that have any rule at all.
Allowed_Any(url) == {m \in Methods : perMethod[m].trie.children # <<>>}

Allowed(url) ==
    IF url = <<"/", "*">> THEN {m \in Methods : perMethod[m].trie.children # <<>>}
    ELSE {m \in Methods : Lookup(m, url).rule # 0}

HandleOptions(url) ==
    LET req == Request("OPTIONS", url, FALSE)
    IN  IF Allowed(url) # {} \/ url = <<"/", "*">>
        THEN Reply([Answer(req, 204) EXCEPT !.allow = {"OPTIONS", "HEAD"} \cup Allowed(url)])
        ELSE Reply(Answer(req, 404))

\* A request for an upgrade: neither HEAD nor the catchall are special.
HandleUpgrade(method, url) ==
    LET req == Request(method, url, TRUE)
        found == Lookup(method, url)
    IN
    \/ found.rule = 0 /\ Reply(Answer(req, ErrorCode(url)))
    \/ ReplyRedirect(req, found.rule)
    \/ /\ found.rule > Redirect
       /\ LET i == RuleOf(method, found.rule)
          IN  \/ rules[i].websocket /\ Reply([Answer(req, 101) EXCEPT !.by = i])
              \/ rules[i].websocket /\ Reply([Answer(req, 500) EXCEPT !.by = i])
              \/ ~rules[i].websocket /\ Reply([Answer(req, 404) EXCEPT !.by = i])

Next ==
    \/ \E r \in RuleSet : Register(r)
    \/ RegisterCatchall
    \/ Validate \/ AddRuleObject \/ AddRuleThrows \/ ValidateTries
    \/ reply = NoReply /\ \E url \in Urls :
          \/ \E m \in Methods \cup {"HEAD"} : Handle(m, url)
          \/ HandleOptions(url)
          \/ \E m \in Methods : HandleUpgrade(m, url)

Spec == Init /\ [][Next]_vars

-----------------------------------------------------------------------------
(* Properties. The reference tries the rules one after the other.          *)

\* No parameter takes an empty text.
NoMatch == <<<<>>>>

\* The arguments a rule's URL has in s, or NoMatch.
RECURSIVE Match(_, _)
Match(url, s) ==
    IF url = <<>> \/ s = <<>> THEN IF url = s THEN <<>> ELSE NoMatch
    ELSE LET taken == IF Head(url) \in Params THEN Take(Head(url), s)
                      ELSE IF Head(url) = Head(s) THEN 1 ELSE 0
             rest == Match(Tail(url), Rest(s, taken))
         IN  IF taken = 0 \/ rest = NoMatch THEN NoMatch
             ELSE IF Head(url) \in Params THEN <<SubSeq(s, 1, taken)>> \o rest ELSE rest

Matching(method, url) ==
    {i \in DOMAIN rules : method \in rules[i].methods /\ Match(rules[i].url, url) # NoMatch}

Redirected(method, url) ==
    \E i \in DOMAIN rules : /\ method \in rules[i].methods /\ HasTrailingSlash(rules[i].url)
                            /\ Match(Front(rules[i].url), url) # NoMatch

Known(method, url) == Matching(method, url) # {} \/ Redirected(method, url)

ActualMethod == IF reply.req.method = "HEAD" /\ ~reply.req.upgrade THEN "GET" ELSE reply.req.method

Answered == reply # NoReply /\ reply.req.method # "OPTIONS"

\* A request goes to the rule that was registered first of those that match its
\* method and URL, with the texts its parameters stand for in the order of the
\* rule, unless it is redirected to the URL with a slash.
HandledByFirst ==
    Answered /\ reply.by # 0 =>
        /\ ~Redirected(ActualMethod, reply.req.url)
        /\ Matching(ActualMethod, reply.req.url) # {}
        /\ reply.by = Min(Matching(ActualMethod, reply.req.url))
        /\ reply.code = 200 => reply.args = Match(rules[reply.by].url, reply.req.url)

\* No rule is missed: a request that no rule is asked about matches none of its
\* method, and the code tells whether it matches one of another method.
UnmatchedTruthful ==
    Answered /\ reply.by = 0 /\ reply.code \in {404, 405} =>
        /\ ~Known(ActualMethod, reply.req.url)
        /\ reply.code = 405 <=> \E m \in Methods : Known(m, reply.req.url)

\* For a URL some method knows, OPTIONS lists OPTIONS, HEAD and the methods that
\* know it, and for another nothing. HEAD is in the list whether GET knows the
\* URL or not, and where only POST does, a HEAD request is answered with 405: of
\* HEAD the list says nothing.
AllowTruthful ==
    reply.req.method = "OPTIONS" /\ reply.req.url # <<"/", "*">> =>
        LET known == {m \in Methods : Known(m, reply.req.url)}
        IN  reply.allow = IF known = {} THEN {} ELSE {"OPTIONS", "HEAD"} \cup known

\* A rule that ends in a path parameter and a slash: the parameter takes all that
\* is left, so that nothing is left for the slash.
Endless(method, url) ==
    \E i \in DOMAIN rules :
        /\ method \in rules[i].methods
        /\ IsSuffix(<<"<path>", "/">>, rules[i].url)
        /\ Match(Front(rules[i].url), url) # NoMatch

\* A redirection leads to a rule of the same method, not to another redirection.
\* The exception is a URL that matches a rule ending in a path and a slash up to
\* its slash: it is redirected to a longer one, and that one again, for ever,
\* even if another rule matches it.
RedirectLeads ==
    Answered /\ reply.code = 301 =>
        LET m == ActualMethod
        IN  IF Endless(m, reply.req.url)
            THEN Redirected(m, reply.location)
            ELSE Matching(m, reply.location) # {} /\ ~Redirected(m, reply.location)

\* What every request gets: the first rule that matches, or the truth about none.
RequestsRouted == HandledByFirst /\ UnmatchedTruthful

\* What a client is told about other requests: the methods in a reply to OPTIONS,
\* but for HEAD, and the place of a redirection, but for endless ones.
AdviceTruthful == AllowTruthful /\ RedirectLeads
=============================================================================
