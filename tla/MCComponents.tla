---------------------------- MODULE MCComponents ----------------------------
(***************************************************************************)
(* Five components that have little to do with each other, as the parts of *)
(* one run: part tells which of them moves. The others rest.               *)
(* RelaxedPublication, UrlDecode and WebSocket are extended; the others    *)
(* are instances.                                                          *)
(***************************************************************************)
EXTENDS RelaxedPublication, UrlDecode, WebSocket

CONSTANTS
    RuleSet, MaxRules, Urls, Methods,                               \* Router
    QueryUrls, QueryNames, MaxPairs                                 \* QueryString

VARIABLES
    part,
    phase, rules, catchall, added, perMethod, reply,
    url, text, pairs, decoded, stage, popped

Router == INSTANCE Router
QueryString == INSTANCE QueryString

routerVars == <<phase, rules, catchall, added, perMethod, reply>>
queryVars == <<url, text, pairs, decoded, stage, popped>>

allVars == <<part, routerVars, socketVars, decodeVars, vars, queryVars>>

PartInit ==
    /\ part \in {"router", "websocket", "decode", "publication", "query"}
    /\ Router!Init /\ SocketInit /\ Init
    /\ \/ part = "decode" /\ DecodeInit
       \/ part # "decode" /\ name = None /\ value = <<Minus>> /\ index = 0 /\ result = <<>>
    /\ QueryString!Init /\ (part # "query" => url = <<"q">>)

PartNext ==
    \/ /\ part = "router" /\ Router!Next
       /\ UNCHANGED <<part, socketVars, decodeVars, vars, queryVars>>
    \/ /\ part = "websocket" /\ SocketNext
       /\ UNCHANGED <<part, routerVars, decodeVars, vars, queryVars>>
    \/ /\ part = "decode" /\ DecodeNext
       /\ UNCHANGED <<part, routerVars, socketVars, vars, queryVars>>
    \/ /\ part = "publication" /\ Next
       /\ UNCHANGED <<part, routerVars, socketVars, decodeVars, queryVars>>
    \/ /\ part = "query" /\ QueryString!Next
       /\ UNCHANGED <<part, routerVars, socketVars, decodeVars, vars>>

PartSpec == PartInit /\ [][PartNext]_allVars

-----------------------------------------------------------------------------
(* Rules and URLs of Router, frames of WebSocket, URLs of QueryString.     *)

Rule(pattern, methods) == [url |-> pattern, methods |-> methods, websocket |-> FALSE, handler |-> TRUE]

Get == {"GET"}
Post == {"POST"}

SomeRules ==
    {Rule(<<"/", "a">>, {"GET", "POST"}), Rule(<<"/", "a", "/">>, Get),
     Rule(<<"/", "a", "b", "<int>">>, Get),
     Rule(<<"/", "<string>">>, Get),
     Rule(<<"/", "<string>", "/", "<int>", "/", "<path>">>, Get),
     Rule(<<"/", "<int>", "<double>">>, Get), Rule(<<"/", "<uint>", "/">>, Post),
     [Rule(<<"/", "a", "b">>, Get) EXCEPT !.websocket = TRUE],
     Rule(<<"*">>, Post), Rule(<<"/", "<path>", "/">>, Get),
     [Rule(<<"/", "b">>, Get) EXCEPT !.handler = FALSE]}

SomeUrls ==
    {<<"/", "a">>, <<"/", "a", "/">>, <<"/", "a", "b">>, <<"/", "b">>,
     <<"/", "a", "b", "-", "1">>, <<"/", "1", "-", "1", ".", "1">>, <<"/", "1", ".">>,
     <<"/", "1", "/">>, <<"/", "+", "1">>, <<"/", "99999999999999999999", "/">>,
     <<"/", "a", "/", "1", "/", "b", "/", "b">>, <<"/", "*">>}

Sends(op, fin, masked, payload) == [op |-> op, fin |-> fin, masked |-> masked, payload |-> payload]

SomeFrames ==
    {Sends("text", TRUE, TRUE, <<"a", "b">>), Sends("binary", FALSE, TRUE, <<"c">>),
     Sends("continuation", TRUE, FALSE, <<"d">>), Sends("ping", TRUE, TRUE, <<"p", "q">>),
     Sends("pong", TRUE, FALSE, <<>>), Sends("close", TRUE, TRUE, <<>>)}

SomePairs ==
    {<<"q", "=", "1">>, <<"%", "7", "1", "=", "7">>, <<"q", "=", "%", "7", "1", "7">>, <<"7", "=", "1", "=", "q">>,
     <<"q", "[", "7", "]", "=", "1">>, <<"q", "[", "]", "=", "+">>}

MorePairs ==
    {<<>>, <<"q">>, <<"q", "=">>, <<"q", "=", "+">>, <<"q", "=", "%", "7">>, <<"q", "q", "=", "1">>,
     <<"q", "=", "1", "#", "7">>, <<"7", "#", "q">>, <<"q", "%">>, <<"q", "]", "[", "=", "1">>,
     <<"q", "[", "7", "]", "=", "+">>}

UrlsWithPairs ==
    LET pair == SomePairs \cup MorePairs
    IN  {<<"q">>, <<"?", "&", "&", "&">>}
            \cup {<<"q", "?">> \o a \o <<"&">> \o b : a, b \in pair}
            \cup {<<"q", "#">> \o a \o <<"&">> \o b \o <<"&">> \o c : a, b, c \in SomePairs}

NamesOfPairs == {<<"q">>, <<"7">>, <<"q", "[", "]">>}

-----------------------------------------------------------------------------
(* Properties, each of one component.                                      *)

\* A request goes to the rule that was registered first of those that match its
\* method and URL, with the texts its parameters stand for in the order of the
\* rule, unless it is redirected to the URL with a slash. No rule is missed: a
\* request that no rule is asked about matches none of its method, and the code
\* of the reply tells whether it matches one of another method.
RequestsRouted == part = "router" => Router!RequestsRouted

\* OPTIONS lists the methods a URL is known for, with OPTIONS and, whether it is
\* known for GET or not, HEAD. A redirection leads to a rule of the same method,
\* not to another redirection, unless it comes of a rule that ends in a path and
\* a slash, which redirects for ever.
AdviceTruthful == part = "router" => Router!AdviceTruthful

\* The values of a name are those its pairs have in the URL, in their order, and
\* a key in brackets has the value of its first pair: decoding one value in place
\* disturbs no other pair, and no key is taken for a longer or a shorter one.
PairsRead == part = "query" => QueryString!PairsRead

\* Where keys come without escapes, with values and with brackets in their order,
\* pop removes the first pair of the name, pop_list all of them and pop_dict
\* those with a bracket behind the name, and no other.
PopsItsPairs == part = "query" => QueryString!PopsItsPairs
=============================================================================
