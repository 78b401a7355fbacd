---------------------------- MODULE MCHttpParser ----------------------------
(***************************************************************************)
(* What clients send: requests in all the forms the parser tells apart,    *)
(* encoded, and malformed input.                                           *)
(***************************************************************************)
EXTENDS HttpParser

crlf == <<"\r", "\n">>

Header(field, value) == <<field, value>>
Line(h) == h[1] \o <<":", " ">> \o h[2] \o crlf
Chunk(c) == <<c.size>> \o crlf \o c.data \o crlf

Get == [method |-> "GET", url |-> <<"/", "p">>, query |-> <<>>, version |-> "1.1",
        headers |-> <<Header(<<"host">>, <<"x", "token">>)>>, body |-> <<>>, chunks |-> <<>>]

\* The bytes of a request, with an end of line for lines, and the request.
EncodeWith(r, eol) ==
    Item(<<r.method>> \o <<" ">> \o r.url \o r.query
         \o (IF r.version = "0.9" THEN <<>> ELSE <<" ", "HTTP/", r.version>>) \o eol
         \o FlattenSeq([i \in DOMAIN r.headers |-> Line(r.headers[i])]) \o eol
         \o (IF r.chunks = <<>> THEN r.body
             ELSE FlattenSeq([i \in DOMAIN r.chunks |-> Chunk(r.chunks[i])]) \o <<"0">> \o crlf \o crlf),
         [method |-> r.method, raw_url |-> r.url \o r.query, url |-> r.url, version |-> r.version,
          headers |-> r.headers,
          body |-> IF r.chunks = <<>> THEN r.body
                   ELSE FlattenSeq([i \in DOMAIN r.chunks |-> r.chunks[i].data]),
          keep |-> \/ r.version = "1.1"
                   \/ r.version = "1.0" /\ Header(<<"connection">>, <<"keep-alive">>) \in ToSet(r.headers),
          close |-> \/ r.version = "1.0" /\ Header(<<"connection">>, <<"keep-alive">>) \notin ToSet(r.headers)
                    \/ r.version = "1.1" /\ Header(<<"connection">>, <<"close">>) \in ToSet(r.headers),
          upgrade |-> r.method = "CONNECT" \/ \E h \in ToSet(r.headers) : h[1] = <<"upgrade">>])

Encode(r) == EncodeWith(r, crlf)

With(r, field, value) == [r EXCEPT !.headers = Append(@, Header(<<field>>, value))]

Post(n, digits) ==
    [With(Get, "content-length", digits) EXCEPT !.method = "POST", !.body = [i \in 1 .. n |-> "b"]]

Chunked(chunks) ==
    [With(Get, "transfer-encoding", <<"chunked">>) EXCEPT !.method = "POST", !.chunks = chunks]

\* Codings one after the other, the last of which is chunked.
Listed(codings) ==
    [With(Get, "transfer-encoding", codings) EXCEPT !.method = "POST",
                                                    !.chunks = <<[size |-> "1", data |-> <<"b">>]>>]

Piece(size, n) == [size |-> size, data |-> [i \in 1 .. n |-> "b"]]

Good == {Encode(r) : r \in
    {Get,
     [Get EXCEPT !.version = "2.0"],
     [Get EXCEPT !.version = "1.0"],
     With([Get EXCEPT !.version = "1.0"], "connection", <<"keep-alive">>),
     With(Get, "connection", <<"close">>),
     With(Get, "connection", <<"close", "token">>),
     With(With(Get, "x", <<"x", " ", "token">>), "connection", <<"x">>),
     [Get EXCEPT !.headers = <<Header(<<"content-length", "token">>, <<"1">>)>>],
     Post(0, <<"0">>), Post(2, <<"2">>), Post(12, <<"1", "2">>), Post(2, <<"0", "2", " ">>),
     Chunked(<<Piece("2", 2), Piece("1", 1)>>),
     Listed(<<"x", ",", " ", "chunked">>), Listed(<<"x", "token", ",", "token", ",", "chunked">>)}}
    \cup {EncodeWith([Get EXCEPT !.version = "0.9", !.headers = <<>>], <<"\n">>),
          EncodeWith([Get EXCEPT !.version = "0.9", !.headers = <<>>], crlf),
          EncodeWith(Get, <<"\n">>)}

\* A value folded over two lines; a trailer of one line, which is ignored;
\* parameters of a chunk; an empty value at the end.
Odd ==
    LET folded == Encode(With(Get, "x", <<"x", " ", "token">>))
        chunked == Encode(Chunked(<<Piece("2", 2)>>))
        last == Encode(With(Get, "x", <<>>))
        start == <<"GET", " ", "/", "p", " ", "HTTP/", "1.1", "\r", "\n", "host", ":", " ",
                   "x", "token", "\r", "\n">>
    IN  {Item(start \o <<"x", ":", " ", "x", "\r", "\n", " ", "token", "\r", "\n", "\r", "\n">>,
              folded.request),
         Item(start \o <<"x", ":", "\r", "\n", " ", "\r", "\n", "\r", "\n">>, last.request),
         Item(start \o <<"x", ":", "\n", "\n">>, last.request),
         Item(<<"\r", "\n">> \o SubSeq(chunked.bytes, 1, Len(chunked.bytes) - 2)
              \o <<"x", ":", "x", "\n", "\r", "\n">>, chunked.request),
         [chunked EXCEPT !.bytes = ReplaceFirstSubSeq(<<"2", ";", "x", "\r", "\n">>,
                                                      <<"2", "\r", "\n">>, @)]}

Bad ==
    LET start == <<"POST", " ", "/", "p", " ", "HTTP/", "1.1", "\r", "\n">>
        Number(value) == start \o <<"content-length", ":">> \o value \o crlf \o crlf
        Chunks(bytes) == start \o <<"transfer-encoding", ":", "chunked">> \o crlf \o crlf \o bytes
    IN  {Item(bytes, None) : bytes \in
            {<<"x">>, <<"GET", "x">>, <<"GET", " ", "x">>, <<"GET", " ", "/", ":">>,
             <<"POST", " ", "/", "\r">>, <<"GET", " ", "/", " ", "x">>,
             <<"GET", " ", "/", " ", "HTTP/", "x">>, <<"GET", " ", "/", " ", "HTTP/", "1.1", "x">>,
             <<"GET", " ", "/", "\r", "x">>,
             start \o <<":">>, start \o <<"x", " ">>, start \o <<"x", ":", "x", "\r", "x">>,
             start \o <<"x", ":", "\r", "x">>, start \o <<"\r", "x">>,
             Number(<<"x">>), Number(<<"1", "x">>), Number(<<"1", " ", "2">>),
             Number(<<"3", "3">>), Number(<<"3", "3", "3">>),
             start \o Line(Header(<<"content-length">>, <<"1">>))
                   \o Line(Header(<<"content-length">>, <<"1">>)) \o crlf,
             start \o Line(Header(<<"content-length">>, <<"1">>))
                   \o Line(Header(<<"transfer-encoding">>, <<"chunked">>)) \o crlf,
             start \o Line(Header(<<"transfer-encoding">>, <<"chunked", "token">>)) \o crlf,
             start \o Line(Header(<<"transfer-encoding">>, <<"x">>)) \o crlf,
             start \o Line(Header(<<"transfer-encoding">>, <<"chunked", ",", " ", "x">>)) \o crlf,
             start \o Line(Header(<<"transfer-encoding">>, <<"x", ",", ",", "chunked">>)) \o crlf,
             Chunks(<<"x">>), Chunks(<<"2", "x">>), Chunks(<<"3", "3", "3">>),
             Chunks(<<"1", "\r", "x">>),
             Chunks(<<"1">> \o crlf \o <<"b", "b">>), Chunks(<<"1">> \o crlf \o <<"b", "\r", "x">>)}}

\* Every good request before every other one, or alone.
Plain == {<<a>> : a \in Good \cup Odd \cup Bad} \cup {<<a, b>> : a \in Good, b \in Good \cup Odd \cup Bad}

Query == [Get EXCEPT !.query = <<"?", "q", "?", "q">>]
Connect == [Get EXCEPT !.method = "CONNECT", !.url = <<"x", "p", "/", "p">>]
Upgrade == With(Get, "upgrade", <<"x">>)

\* Requests with a query, with an Upgrade, one read each.
Whole ==
    LET queries == {Encode(Query), Encode([Connect EXCEPT !.query = Query.query]),
                    Encode([Query EXCEPT !.method = "CONNECT", !.url = <<"x">>])}
        upgrades == {Encode(Upgrade), Encode(Connect)}
        AsWhole(a) == [a EXCEPT !.whole = TRUE]
    IN  {<<AsWhole(a), AsWhole(b)>> : a, b \in queries \cup upgrades \cup {Encode(Get)}}

PlainAndWhole == Plain \cup Whole
=============================================================================
