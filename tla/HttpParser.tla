----------------------------- MODULE HttpParser -----------------------------
(***************************************************************************)
(* Crow's parser of requests: http_parser_execute (http_parser_merged.h)   *)
(* and the callbacks of HTTPParser (parser.h). The input comes in reads    *)
(* that end anywhere; each read is one call of feed(). An action handles   *)
(* one byte in one group of states of the parser.                          *)
(*                                                                         *)
(* A "byte" is a class of bytes, or a word whose letters the parser        *)
(* matches one by one with nothing but a saved index: "GET", "HTTP/",      *)
(* "1.1", the names of the headers it knows, "close", "keep-alive",        *)
(* "chunked". Sizes of headers are not counted (max_header_size).          *)
(***************************************************************************)
EXTENDS Naturals, FiniteSets, Sequences, SequencesExt, FiniteSetsExt

CONSTANTS
    Inputs,         \* what may be sent: sequences of items, see Item
    None,           \* no request, no length, a null pointer's address
    MaxLength       \* CROW_ULLONG_MAX (2^64 - 1)

VARIABLES
    sent,           \* the items on the wire
    pos,            \* the byte p points to
    again,          \* a jump to reexecute: the byte is looked at once more
    mark,           \* http_parser_execute's marks into the current read; 0 is null
    par,            \* the parser
    messages        \* the requests passed to Connection::handle

vars == <<sent, pos, again, mark, par, messages>>

Digit == [d \in {"0", "1", "2", "3", "9"} |->
             CASE d = "0" -> 0 [] d = "1" -> 1 [] d = "2" -> 2 [] d = "3" -> 3 [] d = "9" -> 9]
Methods == {"GET", "POST", "CONNECT"}
Versions == {"1.0", "1.1", "2.0"}
KnownFields == {"connection", "content-length", "transfer-encoding", "upgrade"}
Tokens == KnownFields \cup {"host", "token", "x"} \cup DOMAIN Digit
UrlBytes == {"/", "p", "q", "x"} \cup DOMAIN Digit

\* What is sent as one request, and the request it stands for (None if it is
\* malformed). A whole item is read by one read, others by any.
Item(bytes, request) == [bytes |-> bytes, request |-> request, whole |-> FALSE]

input == FlattenSeq([i \in DOMAIN sent |-> sent[i].bytes])

\* The positions of the last bytes of the items.
ItemEnds == {Len(FlattenSeq([j \in 1 .. i |-> sent[j].bytes])) : i \in DOMAIN sent}

\* Whether a read may end inside an item.
Split == ~sent[1].whole

NoMarks == [field |-> 0, value |-> 0, url |-> 0, start |-> 0, body |-> 0]

\* HTTPParser::clear, on a parser in any state.
Clear(p) ==
    [p EXCEPT !.raw_url = <<>>, !.building = 0, !.field = <<>>, !.value = <<>>, !.headers = <<>>,
              !.body = <<>>, !.qs_point = 0, !.version = "", !.keep = FALSE, !.close = FALSE]

Init ==
    /\ sent \in Inputs
    /\ pos = 1
    /\ again = FALSE
    /\ mark = NoMarks
    /\ par = [state |-> "start_req", header |-> "general", flags |-> {}, encoded |-> FALSE,
              length |-> None, upgrade |-> FALSE, method |-> "", error |-> FALSE,
              raw_url |-> <<>>, building |-> 0, field |-> <<>>, value |-> <<>>, headers |-> <<>>,
              body |-> <<>>, qs_point |-> 0, version |-> "", keep |-> FALSE, close |-> FALSE]
    /\ messages = <<>>

-----------------------------------------------------------------------------
(* The callbacks of parser.h: the parser after each.                       *)

OnUrl(p, data) == [p EXCEPT !.raw_url = @ \o data]

Emplaced(p) == Append(p.headers, <<p.field, p.value>>)

\* Faulty: every part of a name begins a header.
OnHeaderField_Always(p, data) ==
    [p EXCEPT !.headers = IF p.value # <<>> THEN Emplaced(p) ELSE @,
              !.value = <<>>, !.field = data, !.building = 1]

\* The previous header is complete when the next name begins; one with an
\* empty value is forgotten. What is moved from is empty.
OnHeaderField(p, data) ==
    IF p.building = 0
    THEN [p EXCEPT !.headers = IF p.value # <<>> THEN Emplaced(p) ELSE @,
                   !.value = <<>>, !.field = data, !.building = 1]
    ELSE [p EXCEPT !.field = @ \o data]

OnHeaderValue(p, data) ==
    [p EXCEPT !.value = IF p.building = 0 THEN @ \o data ELSE data, !.building = 0]

\* With set_connection_parameters.
OnHeadersComplete(p) ==
    [p EXCEPT !.headers = IF p.field # <<>> THEN Emplaced(p) ELSE @,
              !.field = <<>>, !.value = <<>>,
              !.keep = p.version = "1.1" \/ (p.version = "1.0" /\ "keep-alive" \in p.flags),
              !.close = \/ p.version = "1.0" /\ "keep-alive" \notin p.flags
                        \/ p.version = "1.1" /\ "close" \in p.flags]

OnBody(p, data) == [p EXCEPT !.body = @ \o data]

\* The request on_message_complete hands over. A qs_point computed from a null
\* pointer (None) lies behind the end of raw_url.
ToRequest(p) ==
    [method |-> p.method, raw_url |-> p.raw_url,
     url |-> IF p.qs_point \in {0, None} THEN p.raw_url ELSE SubSeq(p.raw_url, 1, p.qs_point),
     version |-> p.version, headers |-> p.headers, body |-> p.body,
     keep |-> p.keep, close |-> p.close, upgrade |-> p.upgrade]

-----------------------------------------------------------------------------
(* How http_parser_execute goes on.                                        *)

At(states) == par.state \in states /\ pos <= Len(input) /\ ~par.error

ch == input[pos]

\* The bytes from a mark up to p.
Data(m) == SubSeq(input, mark[m], pos - 1)

Marked(m) == IF mark[m] = 0 THEN [mark EXCEPT ![m] = pos] ELSE mark

Advance(p, marks) ==
    /\ par' = p
    /\ mark' = IF ~Split /\ pos \in ItemEnds THEN NoMarks ELSE marks
    /\ pos' = pos + 1
    /\ again' = FALSE
    /\ UNCHANGED sent

\* Faulty: a jump in front of the change of the state.
Reexecute_SameState(p, marks) ==
    /\ par' = [p EXCEPT !.state = par.state]
    /\ mark' = marks
    /\ again' = TRUE
    /\ UNCHANGED <<sent, pos>>

Reexecute(p, marks) ==
    /\ par' = p
    /\ mark' = marks
    /\ again' = TRUE
    /\ UNCHANGED <<sent, pos>>

Go(state) == [par EXCEPT !.state = state]

\* errno is set: nothing is parsed any more, and the connection is closed.
Fail == par' = [par EXCEPT !.error = TRUE] /\ UNCHANGED <<sent, pos, again, mark, messages>>

\* message_complete, in the state for the next message.
Complete(p) == messages' = Append(messages, ToRequest(p))

Silent == UNCHANGED messages

-----------------------------------------------------------------------------
(* The request line.                                                       *)

StartRequest ==
    /\ At({"start_req"})
    /\ \/ ch \in {"\r", "\n"} /\ Advance(par, mark) /\ Silent
       \/ /\ ch \in Methods
          /\ Advance(Clear([par EXCEPT !.state = "req_method", !.flags = {}, !.encoded = FALSE,
                                       !.length = None, !.method = ch]), mark)
          /\ Silent
       \/ ch \notin Methods \cup {"\r", "\n"} /\ Fail

EndMethod ==
    /\ At({"req_method"})
    /\ \/ ch = " " /\ Advance(Go("req_spaces_before_url"), mark) /\ Silent
       \/ ch # " " /\ Fail

\* The distance of p from url_start_mark, a local variable that is set once.
QueryPoint == IF mark.start = 0 THEN None ELSE pos - mark.start

\* parse_url_char.
UrlChar(state, byte) ==
    CASE state = "req_spaces_before_url" /\ byte = "/" -> "req_path"
      [] state = "req_server_start" /\ byte \in UrlBytes \ {"/"} -> "req_server"
      [] state = "req_server" /\ byte = "/" -> "req_path"
      [] state = "req_server" /\ byte \in UrlBytes \ {"/"} -> "req_server"
      [] state = "req_path" /\ byte \in UrlBytes -> "req_path"
      [] state \in {"req_path", "req_server", "req_server_start"} /\ byte = "?" ->
            "req_query_string"
      [] state = "req_query_string" /\ byte \in UrlBytes \cup {"?"} -> "req_query_string"
      [] OTHER -> "dead"

TakeUrlByte(state, marks, point) ==
    LET next == UrlChar(state, ch)
    IN  \/ next = "dead" /\ Fail
        \/ /\ next # "dead"
           /\ Advance([par EXCEPT !.state = next,
                                  !.qs_point = IF ch = "?" /\ state # "req_query_string"
                                               THEN point ELSE @], marks)
           /\ Silent

BeginUrl ==
    /\ At({"req_spaces_before_url"})
    /\ \/ ch = " " /\ Advance(par, mark) /\ Silent
       \/ /\ ch # " "
          /\ TakeUrlByte(IF par.method = "CONNECT" THEN "req_server_start" ELSE par.state,
                         [Marked("url") EXCEPT !.start = IF @ = 0 THEN pos ELSE @], 0)

\* A URL that ends its line is a request of HTTP/0.9.
InUrl ==
    /\ At({"req_server", "req_path", "req_query_string"})
    /\ \/ /\ ch = " "
          /\ Advance(OnUrl(Go("req_http_start"), Data("url")), [mark EXCEPT !.url = 0])
          /\ Silent
       \/ /\ ch \in {"\r", "\n"}
          /\ par.method = "GET"
          /\ Advance(OnUrl([par EXCEPT !.version = "0.9",
                                       !.state = IF ch = "\r" THEN "req_line_almost_done"
                                                 ELSE "header_field_start"], Data("url")),
                     [mark EXCEPT !.url = 0])
          /\ Silent
       \/ ch \in {"\r", "\n"} /\ par.method # "GET" /\ Fail
       \/ ch \notin {" ", "\r", "\n"} /\ TakeUrlByte(par.state, mark, QueryPoint)

\* What the request line requires after the URL.
Version ==
    /\ At({"req_http_start", "req_http_major", "req_http_end", "req_line_almost_done"})
    /\ \/ par.state = "req_http_start" /\ ch = " " /\ Advance(par, mark) /\ Silent
       \/ par.state = "req_http_start" /\ ch = "HTTP/" /\ Advance(Go("req_http_major"), mark)
          /\ Silent
       \/ /\ par.state = "req_http_major"
          /\ ch \in Versions
          /\ Advance([par EXCEPT !.state = "req_http_end", !.version = ch], mark)
          /\ Silent
       \/ par.state = "req_http_end" /\ ch = "\r" /\ Advance(Go("req_line_almost_done"), mark)
          /\ Silent
       \/ par.state \in {"req_http_end", "req_line_almost_done"} /\ ch = "\n"
          /\ Advance(Go("header_field_start"), mark) /\ Silent
       \/ /\ par.state = "req_http_start" => ch \notin {" ", "HTTP/"}
          /\ par.state = "req_http_major" => ch \notin Versions
          /\ par.state = "req_http_end" => ch \notin {"\r", "\n"}
          /\ par.state = "req_line_almost_done" => ch # "\n"
          /\ Fail

-----------------------------------------------------------------------------
(* The headers.                                                            *)

HeaderFieldStart ==
    /\ At({"header_field_start"})
    /\ \/ ch = "\r" /\ Advance(Go("headers_almost_done"), mark) /\ Silent
       \/ ch = "\n" /\ Reexecute(Go("headers_almost_done"), mark) /\ Silent
       \/ /\ ch \in Tokens
          /\ Advance([par EXCEPT !.state = "header_field",
                                 !.header = IF ch \in KnownFields THEN ch ELSE "general",
                                 !.encoded = @ \/ ch = "transfer-encoding"], Marked("field"))
          /\ Silent
       \/ ch \notin Tokens \cup {"\r", "\n"} /\ Fail

\* A name that goes on is no known one.
HeaderField ==
    /\ At({"header_field"})
    /\ \/ ch \in Tokens /\ Advance([par EXCEPT !.header = "general"], mark) /\ Silent
       \/ /\ ch = ":"
          /\ Advance(OnHeaderField(Go("header_value_discard_ws"), Data("field")),
                     [mark EXCEPT !.field = 0])
          /\ Silent
       \/ ch \notin Tokens \cup {":"} /\ Fail

\* The first byte of a value.
ValueStart(p) ==
    CASE p.header = "upgrade" -> [p EXCEPT !.flags = @ \cup {"upgrade"}, !.header = "general"]
      [] p.header = "transfer-encoding" ->
            [p EXCEPT !.header = IF ch = "chunked" THEN "chunked" ELSE "coding"]
      [] p.header = "next coding" -> p
      [] p.header = "content-length" ->
            IF ch \notin DOMAIN Digit \/ "length" \in p.flags
            THEN [p EXCEPT !.error = TRUE]
            ELSE [p EXCEPT !.flags = @ \cup {"length"}, !.length = Digit[ch], !.header = "number"]
      [] p.header = "number ended" -> p
      [] p.header = "connection" ->
            [p EXCEPT !.header = IF ch \in {"keep-alive", "close"} THEN ch ELSE "general"]
      [] OTHER -> [p EXCEPT !.header = "general"]

HeaderValueStart ==
    /\ At({"header_value_discard_ws", "header_value_start"})
    /\ LET p == ValueStart(Go("header_value"))
       IN  \/ /\ par.state = "header_value_discard_ws"
              /\ \/ ch = " " /\ Advance(par, mark)
                 \/ ch = "\r" /\ Advance(Go("header_value_discard_ws_almost_done"), mark)
                 \/ ch = "\n" /\ Advance(Go("header_value_discard_lws"), mark)
              /\ Silent
           \/ /\ par.state = "header_value_start" \/ ch \notin {" ", "\r", "\n"}
              /\ ~p.error
              /\ Advance(p, Marked("value"))
              /\ Silent
           \/ (par.state = "header_value_start" \/ ch \notin {" ", "\r", "\n"}) /\ p.error /\ Fail

MoreDigits(p) ==
    IF (MaxLength - 10) \div 10 < p.length
    THEN [p EXCEPT !.error = TRUE]
    ELSE [p EXCEPT !.length = 10 * @ + Digit[ch]]

\* The next byte of a value. Only the word right behind a comma, or the first,
\* may be chunked.
ValueByte(p) ==
    CASE p.header = "number" /\ ch = " " -> [p EXCEPT !.header = "number ended"]
      [] p.header = "number" /\ ch \in DOMAIN Digit -> MoreDigits(p)
      [] p.header = "number" /\ ch \notin DOMAIN Digit \cup {" "} -> [p EXCEPT !.error = TRUE]
      [] p.header = "number ended" /\ ch # " " -> [p EXCEPT !.error = TRUE]
      [] p.header = "chunked" /\ ch # " " -> [p EXCEPT !.header = "coding"]
      [] p.header = "coding" /\ ch = "," -> [p EXCEPT !.header = "next coding"]
      [] p.header = "next coding" /\ ch # " " ->
            [p EXCEPT !.header = CASE ch = "chunked" -> "chunked"
                                   [] ch \in Tokens -> "coding"
                                   [] OTHER -> "general"]
      [] p.header \in {"keep-alive", "close"} /\ ch # " " -> [p EXCEPT !.header = "general"]
      [] OTHER -> p

HeaderValue ==
    /\ At({"header_value"})
    /\ LET ended == OnHeaderValue(Go("header_almost_done"), Data("value"))
           unmarked == [mark EXCEPT !.value = 0]
           p == ValueByte(par)
       IN  \/ ch = "\r" /\ Advance(ended, unmarked) /\ Silent
           \/ ch = "\n" /\ Reexecute(ended, unmarked) /\ Silent
           \/ ch \notin {"\r", "\n"} /\ ~p.error /\ Advance(p, mark) /\ Silent
           \/ ch \notin {"\r", "\n"} /\ p.error /\ Fail

\* The end of a header's line: the value may be folded, or was empty.
HeaderEnd ==
    /\ At({"header_almost_done", "header_value_lws", "header_value_discard_ws_almost_done",
           "header_value_discard_lws"})
    /\ \/ par.state = "header_almost_done" /\ ch = "\n" /\ Advance(Go("header_value_lws"), mark)
          /\ Silent
       \/ /\ par.state = "header_value_lws"
          /\ Reexecute(IF ch = " "
                       THEN [par EXCEPT !.state = "header_value_start",
                                        !.header = IF @ = "number" THEN "number ended" ELSE @]
                       ELSE [par EXCEPT !.state = "header_field_start",
                                        !.flags = @ \cup ({par.header} \cap
                                                          {"keep-alive", "close", "chunked"})], mark)
          /\ Silent
       \/ par.state = "header_value_discard_ws_almost_done" /\ ch = "\n"
          /\ Advance(Go("header_value_discard_lws"), mark) /\ Silent
       \/ par.state = "header_value_discard_lws" /\ ch = " "
          /\ Advance(Go("header_value_discard_ws"), mark) /\ Silent
       \/ par.state = "header_value_discard_lws" /\ ch # " "
          /\ Reexecute(OnHeaderValue(Go("header_field_start"), <<>>), mark) /\ Silent
       \/ par.state \in {"header_almost_done", "header_value_discard_ws_almost_done"}
          /\ ch # "\n" /\ Fail

\* The empty line: the end of the headers, or of the trailer of a chunked body.
HeadersAlmostDone ==
    /\ At({"headers_almost_done"})
    /\ \/ ch # "\n" /\ Fail
       \/ /\ ch = "\n" /\ "trailing" \in par.flags
          /\ Advance(Go("start_req"), mark)
          /\ Complete(par)
       \/ /\ ch = "\n" /\ "trailing" \notin par.flags
          /\ par.encoded /\ "length" \in par.flags
          /\ Fail
       \/ /\ ch = "\n" /\ "trailing" \notin par.flags
          /\ ~(par.encoded /\ "length" \in par.flags)
          /\ Reexecute(OnHeadersComplete(
                [par EXCEPT !.state = "headers_done",
                            !.upgrade = "upgrade" \in par.flags \/ par.method = "CONNECT"]), mark)
          /\ Silent

\* Whether the read goes on behind this byte.
LeftInRead == IF pos = Len(input) THEN {FALSE}
              ELSE IF ~Split THEN {pos \notin ItemEnds}
              ELSE BOOLEAN

\* How the body is delimited. After a request with an Upgrade the parser
\* returns: what is left of the read is not parsed, and feed() fails if
\* anything is left.
HeadersDone ==
    /\ At({"headers_done"})
    /\ \/ /\ par.upgrade
          /\ \E left \in LeftInRead :
                Advance([par EXCEPT !.state = "start_req", !.error = left], mark)
          /\ Complete(par)
       \/ /\ ~par.upgrade /\ "chunked" \in par.flags
          /\ Advance(Go("chunk_size_start"), mark)
          /\ Silent
       \/ ~par.upgrade /\ "chunked" \notin par.flags /\ par.encoded /\ Fail
       \/ /\ ~par.upgrade /\ ~par.encoded /\ par.length \in {0, None}
          /\ Advance(Go("start_req"), mark)
          /\ Complete(par)
       \/ /\ ~par.upgrade /\ ~par.encoded /\ par.length \notin {0, None}
          /\ Advance(Go("body_identity"), mark)
          /\ Silent

-----------------------------------------------------------------------------
(* The body.                                                               *)

\* A byte of a body with a Content-Length. The last one is looked at again,
\* for the end of the message.
BodyIdentity ==
    /\ At({"body_identity"})
    /\ \/ /\ par.length > 1
          /\ Advance([par EXCEPT !.length = @ - 1], Marked("body"))
       \/ /\ par.length = 1
          /\ Reexecute(OnBody([par EXCEPT !.length = 0, !.state = "message_done"],
                              SubSeq(input, Marked("body").body, pos)),
                       [mark EXCEPT !.body = 0])
    /\ Silent

MessageDone ==
    /\ At({"message_done"})
    /\ Advance(Go("start_req"), mark)
    /\ Complete(par)

ChunkSize ==
    /\ At({"chunk_size_start", "chunk_size"})
    /\ \/ par.state = "chunk_size_start" /\ ch \in DOMAIN Digit
          /\ Advance([par EXCEPT !.state = "chunk_size", !.length = Digit[ch]], mark) /\ Silent
       \/ par.state = "chunk_size" /\ ch \in DOMAIN Digit
          /\ IF (MaxLength - 16) \div 16 < par.length
             THEN Fail
             ELSE Advance([par EXCEPT !.length = 16 * @ + Digit[ch]], mark) /\ Silent
       \/ par.state = "chunk_size" /\ ch = "\r" /\ Advance(Go("chunk_size_almost_done"), mark)
          /\ Silent
       \/ par.state = "chunk_size" /\ ch \in {" ", ";"} /\ Advance(Go("chunk_parameters"), mark)
          /\ Silent
       \/ par.state = "chunk_size_start" /\ ch \notin DOMAIN Digit /\ Fail
       \/ par.state = "chunk_size" /\ ch \notin DOMAIN Digit \cup {"\r", " ", ";"} /\ Fail

\* The end of a size's line. The last chunk is empty, a trailer follows.
ChunkSizeEnd ==
    /\ At({"chunk_parameters", "chunk_size_almost_done"})
    /\ \/ /\ par.state = "chunk_parameters"
          /\ Advance(IF ch = "\r" THEN Go("chunk_size_almost_done") ELSE par, mark)
          /\ Silent
       \/ /\ par.state = "chunk_size_almost_done" /\ ch = "\n"
          /\ Advance(IF par.length = 0
                     THEN [par EXCEPT !.flags = @ \cup {"trailing"}, !.state = "header_field_start"]
                     ELSE Go("chunk_data"), mark)
          /\ Silent
       \/ par.state = "chunk_size_almost_done" /\ ch # "\n" /\ Fail

ChunkData ==
    /\ At({"chunk_data", "chunk_data_almost_done", "chunk_data_done"})
    /\ \/ /\ par.state = "chunk_data"
          /\ Advance([par EXCEPT !.length = @ - 1,
                                 !.state = IF par.length = 1 THEN "chunk_data_almost_done" ELSE @],
                     Marked("body"))
          /\ Silent
       \/ /\ par.state = "chunk_data_almost_done" /\ ch = "\r"
          /\ Advance(IF mark.body = 0 THEN Go("chunk_data_done")
                     ELSE OnBody(Go("chunk_data_done"), Data("body")), [mark EXCEPT !.body = 0])
          /\ Silent
       \/ par.state = "chunk_data_done" /\ ch = "\n" /\ Advance(Go("chunk_size_start"), mark)
          /\ Silent
       \/ par.state = "chunk_data_almost_done" /\ ch # "\r" /\ Fail
       \/ par.state = "chunk_data_done" /\ ch # "\n" /\ Fail

-----------------------------------------------------------------------------
\* The callbacks for what is marked when a read ends.
Leftover(p) ==
    LET f == IF mark.field # 0 THEN OnHeaderField(p, Data("field")) ELSE p
        v == IF mark.value # 0 THEN OnHeaderValue(f, Data("value")) ELSE f
        u == IF mark.url # 0 THEN OnUrl(v, Data("url")) ELSE v
    IN  IF mark.body # 0 THEN OnBody(u, Data("body")) ELSE u

\* The read ends here and the next begins: the marks are local variables.
ReadEnds ==
    /\ ~again /\ ~par.error
    /\ Split
    /\ pos \in 2 .. Len(input)
    /\ par' = Leftover(par)
    /\ mark' = [NoMarks EXCEPT
                   !.field = IF par.state = "header_field" THEN pos ELSE 0,
                   !.value = IF par.state = "header_value" THEN pos ELSE 0,
                   !.url = IF par.state \in {"req_server", "req_path", "req_query_string"}
                           THEN pos ELSE 0]
    /\ UNCHANGED <<sent, pos, again, messages>>

Next ==
    \/ StartRequest \/ EndMethod \/ BeginUrl \/ InUrl \/ Version
    \/ HeaderFieldStart \/ HeaderField \/ HeaderValueStart \/ HeaderValue \/ HeaderEnd
    \/ HeadersAlmostDone \/ HeadersDone
    \/ BodyIdentity \/ MessageDone \/ ChunkSize \/ ChunkSizeEnd \/ ChunkData
    \/ ReadEnds

Spec == Init /\ [][Next]_vars /\ WF_vars(Next)

-----------------------------------------------------------------------------
(* Properties.                                                             *)

\* The requests in front of the first malformed item.
Wanted ==
    LET good == {i \in 0 .. Len(sent) : \A j \in 1 .. i : sent[j].request # None}
    IN  [i \in 1 .. Max(good) |-> sent[i].request]

Malformed == \E i \in DOMAIN sent : sent[i].request = None

\* What a client sends is what the handlers get, wherever the reads end: every
\* request in its order, with its own URL, headers and body, and nothing of
\* what is malformed.
RequestsIntact ==
    /\ IsPrefix(messages, Wanted)
    /\ par.error => Malformed /\ messages = Wanted
    /\ pos > Len(input) => messages = Wanted

\* Every input comes to its end or to an error.
ParseEnds == <>(pos > Len(input) \/ par.error)

\* At the end of a read at most one mark is left (the assertion behind the loop).
OneMark == ~again => Cardinality({m \in {"field", "value", "url", "body"} : mark[m] # 0}) <= 1

\* Every request reaches its handler as it was sent, with its own URL, headers and
\* body, wherever the reads end, and the marks the parser keeps are never mixed.
\* Of a URL with a question mark this is said for a read that holds it whole
\* (http_parser_merged.h:702 goes wrong otherwise), and no header but the last of
\* a request has an empty value.
ReadsIntact == RequestsIntact /\ OneMark
=============================================================================
