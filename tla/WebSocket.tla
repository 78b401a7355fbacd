------------------------------ MODULE WebSocket ------------------------------
(***************************************************************************)
(* Crow's websocket::Connection (websocket.h): a connection that has been  *)
(* upgraded reads frames, in pieces, and writes what its handlers send.    *)
(* All of it runs on the thread of one worker.                             *)
(*                                                                         *)
(* A frame's payload is a sequence of bytes; on the wire each is paired    *)
(* with the position of the byte of the mask it was combined with. Where   *)
(* the two bytes of a frame's header are read apart ("misread"), or the    *)
(* connection goes on after its deletion ("used when deleted"), the model  *)
(* ends.                                                                   *)
(***************************************************************************)
EXTENDS Integers, Sequences, SequencesExt, FiniteSets

CONSTANTS
    Frames,         \* what the peer may send: op, fin, masked, payload
    MaxFrames,      \* bound on the frames of the peer
    MaxSends,       \* bound on the messages of the application
    BufferSize,     \* the bytes of buffer_
    Limit7, Limit16 \* 126 and 0x10000: the first lengths with longer headers

VARIABLES
    ws,             \* the Connection
    incoming,       \* frames of the peer that are not read completely
    peer,           \* "here", "gone" or, once a write has failed, "reset"
    handled,        \* the frames handle_fragment has seen
    sent,           \* what has been written
    submitted,      \* what the application and the connection have queued
    delivered,      \* the calls of message_handler_
    closes          \* the calls of close_handler_

socketVars == <<ws, incoming, peer, handled, sent, submitted, delivered, closes>>

\* The opcodes. "hello" is the reply to the handshake.
Text == "text"
Binary == "binary"
Continuation == "continuation"
Close == "close"
Ping == "ping"
Pong == "pong"

Opcodes == {Text, Binary, Continuation, Close, Ping, Pong}
Data == {Text, Binary, Continuation}

Bytes == UNION {Range(f.payload) : f \in Frames}

ASSUME FramesKnown ==
    Frames \subseteq [op : Opcodes, fin : BOOLEAN, masked : BOOLEAN, payload : Seq(Bytes)]

ASSUME BufferPositive == BufferSize \in Nat \ {0}

\* The frames whose opcode is in ops, in order.
Of(frames, ops) ==
    LET of[i \in 0 .. Len(frames)] ==
            IF i = 0 THEN <<>>
            ELSE IF frames[i].op \in ops THEN Append(of[i - 1], frames[i]) ELSE of[i - 1]
    IN  of[Len(frames)]

\* The length field of a header.
LengthBits(size) == IF size < Limit7 THEN 7 ELSE IF size < Limit16 THEN 16 ELSE 64

\* build_header and the message.
Frame(op, fin, masked, payload) ==
    [op |-> op, fin |-> fin, masked |-> masked, bits |-> LengthBits(Len(payload)), payload |-> payload]

Message(op, payload) == Frame(op, TRUE, FALSE, payload)

Hello == Message("hello", <<>>)

Fresh == [life |-> "request", state |-> "MiniHeader", remaining |-> 0, masked |-> FALSE,
          op |-> Continuation, fin |-> FALSE, fragment |-> <<>>, message |-> <<>>, binary |-> FALSE,
          reading |-> FALSE, sending |-> <<>>, queue |-> <<>>, socket |-> TRUE,
          closing |-> FALSE, sentClose |-> FALSE, recvClose |-> FALSE, closeCalled |-> FALSE]

SocketInit ==
    /\ ws = Fresh
    /\ incoming = <<>>
    /\ peer = "here"
    /\ handled = <<>>
    /\ sent = <<>>
    /\ submitted = <<>>
    /\ delivered = <<>>
    /\ closes = 0

-----------------------------------------------------------------------------
(* Steps of the handlers, as functions of the Connection.                  *)

\* Faulty: what is being sent is not waited for.
DoWrite_Now(w) == [w EXCEPT !.sending = w.queue, !.queue = <<>>]

\* do_write: what is queued is written when nothing else is.
DoWrite(w) == IF w.sending = <<>> THEN [w EXCEPT !.sending = w.queue, !.queue = <<>>] ELSE w

Send(w, frame) == DoWrite([w EXCEPT !.queue = Append(@, frame)])

\* close(): the handler is called now if the peer has closed before.
SendClose(w, payload) ==
    Send([w EXCEPT !.sentClose = TRUE, !.closeCalled = @ \/ w.recvClose], Message(Close, payload))

CallsCloseHandler(w) == w.recvClose /\ ~w.closeCalled

\* Faulty: the handler is not called for a connection that ends uncleanly.
Uncleanly_Silent(w) == FALSE

\* check_destroy: the handler is called, but not noted as called.
Uncleanly(w) == ~w.closeCalled

Destroyed(w) == IF w.sending = <<>> /\ ~w.reading THEN [w EXCEPT !.life = "deleted"] ELSE w

CloseSocket(w) == [w EXCEPT !.closing = TRUE, !.socket = FALSE]

\* The length comes with the header, or is read next; the mask behind it.
DoRead(w) ==
    [w EXCEPT !.reading = TRUE, !.state = IF @ = "Mask" /\ ~w.masked THEN "Payload" ELSE @]

-----------------------------------------------------------------------------
(* The handshake.                                                          *)

Accept ==
    /\ ws.life = "request"
    /\ ws' = DoRead(Send([ws EXCEPT !.life = "open"], Hello))
    /\ submitted' = <<Hello>>
    /\ UNCHANGED <<incoming, peer, handled, sent, delivered, closes>>

\* No "Upgrade: websocket", or accept_handler_ refuses.
Refuse ==
    /\ ws.life = "request"
    /\ ws' = [ws EXCEPT !.life = "refused", !.socket = FALSE]
    /\ UNCHANGED <<incoming, peer, handled, sent, submitted, delivered, closes>>

-----------------------------------------------------------------------------
(* Reading.                                                                *)

Reading(state) == ws.life = "open" /\ ws.reading /\ ws.state = state

\* A read has input: it was there before the socket was closed.
Input == ws.socket /\ peer # "reset" /\ incoming # <<>>

ReadMiniHeader ==
    /\ Reading("MiniHeader")
    /\ Input
    /\ LET f == Head(incoming)
       IN  ws' = DoRead([ws EXCEPT !.masked = f.masked, !.op = f.op, !.fin = f.fin,
                                   !.remaining = IF f.bits = 7 THEN Len(f.payload) ELSE @,
                                   !.state = IF f.bits = 7 THEN "Mask" ELSE "Length"])
    /\ UNCHANGED <<incoming, peer, handled, sent, submitted, delivered, closes>>

\* async_read_some may come back with the first of the two bytes, which the
\* callback does not look at. It takes the frame for one of no length, and its
\* length for the next header: from here on every frame is garbled.
ReadHalfHeader ==
    /\ Reading("MiniHeader")
    /\ Input
    /\ ws' = [ws EXCEPT !.life = "misread"]
    /\ UNCHANGED <<incoming, peer, handled, sent, submitted, delivered, closes>>

\* Len16 and Len64.
ReadLength ==
    /\ Reading("Length")
    /\ Input
    /\ ws' = DoRead([ws EXCEPT !.remaining = Len(Head(incoming).payload), !.state = "Mask"])
    /\ UNCHANGED <<incoming, peer, handled, sent, submitted, delivered, closes>>

ReadMask ==
    /\ Reading("Mask")
    /\ Input
    /\ ws' = DoRead([ws EXCEPT !.state = "Payload"])
    /\ UNCHANGED <<incoming, peer, handled, sent, submitted, delivered, closes>>

\* The byte i of a frame, as it is on the wire.
Coded(f, i) == IF f.masked THEN <<f.payload[i], (i - 1) % 4>> ELSE <<f.payload[i], -1>>

\* The bytes of Head(incoming) the next piece of n bytes has.
Piece(n) ==
    LET f == Head(incoming)
        from == Len(f.payload) - ws.remaining
    IN  [i \in 1 .. n |-> Coded(f, from + i)]

\* What async_read_some may return.
Pieces == IF ws.remaining = 0 THEN {0} ELSE 1 .. IF ws.remaining < BufferSize THEN ws.remaining ELSE BufferSize

ReadPiece ==
    /\ Reading("Payload")
    /\ Input
    /\ \E n \in Pieces :
          /\ n < ws.remaining
          /\ ws' = [ws EXCEPT !.fragment = @ \o Piece(n), !.remaining = @ - n]
    /\ UNCHANGED <<incoming, peer, handled, sent, submitted, delivered, closes>>

\* The last piece, and handle_fragment: the payload without its mask.
Unmasked(fragment) ==
    [i \in DOMAIN fragment |->
        IF ws.masked /\ fragment[i][2] # (i - 1) % 4 THEN "garbled" ELSE fragment[i][1]]

Payload == Unmasked(ws.fragment \o Piece(ws.remaining))

\* Faulty: a message that has been delivered is kept.
Rest_Kept(message, fin) == message

\* What stays in message_.
Rest(message, fin) == IF fin THEN <<>> ELSE message

\* The state behind handle_fragment: the next header is read.
NextFrame(w) == DoRead([w EXCEPT !.fragment = <<>>, !.reading = FALSE, !.state = "MiniHeader"])

LastPiece ==
    /\ Reading("Payload")
    /\ Input
    /\ ws.remaining \in Pieces
    /\ handled' = Append(handled, Head(incoming))
    /\ incoming' = Tail(incoming)
    /\ UNCHANGED <<peer, sent>>

HandleData ==
    LET message == ws.message \o Payload
        binary == IF ws.op = Continuation THEN ws.binary ELSE ws.op = Binary
    IN
    /\ ws.op \in Data
    /\ LastPiece
    /\ delivered' = IF ws.fin THEN Append(delivered, [text |-> message, binary |-> binary])
                    ELSE delivered
    /\ ws' = NextFrame([ws EXCEPT !.message = Rest(message, ws.fin), !.binary = binary])
    /\ UNCHANGED <<submitted, closes>>

HandlePing ==
    /\ ws.op = Ping
    /\ LastPiece
    /\ ws' = NextFrame(Send(ws, Message(Pong, Payload)))
    /\ submitted' = Append(submitted, Message(Pong, Payload))
    /\ UNCHANGED <<delivered, closes>>

HandlePong ==
    /\ ws.op = Pong
    /\ LastPiece
    /\ ws' = NextFrame(ws)
    /\ UNCHANGED <<submitted, delivered, closes>>

\* The peer closes first: the frame is sent back.
HandleClose ==
    LET w == [ws EXCEPT !.recvClose = TRUE]
    IN
    /\ ws.op = Close
    /\ ~ws.sentClose
    /\ LastPiece
    /\ ws' = NextFrame(SendClose(w, Payload))
    /\ submitted' = Append(submitted, Message(Close, Payload))
    /\ closes' = closes + IF CallsCloseHandler(w) THEN 1 ELSE 0
    /\ UNCHANGED delivered

\* The peer's answer to a close. When nothing is being written check_destroy
\* deletes the connection, and handle_fragment and the read's callback go on
\* with the members of the deleted object; otherwise the next read fails.
HandleCloseReply ==
    LET w == [CloseSocket(ws) EXCEPT !.recvClose = TRUE, !.closeCalled = TRUE, !.reading = FALSE]
    IN
    /\ ws.op = Close
    /\ ws.sentClose
    /\ LastPiece
    /\ closes' = closes + IF ws.closeCalled THEN 0 ELSE 1
    /\ ws' = IF Destroyed(w).life = "deleted" THEN [w EXCEPT !.life = "used when deleted"]
             ELSE NextFrame(w)
    /\ UNCHANGED <<submitted, delivered>>

\* A read that fails, at the end of the stream or on a closed socket. Only in
\* front of the mask does its callback call check_destroy.
Failing ==
    /\ ws.life = "open"
    /\ ws.reading
    /\ ~ws.socket \/ peer = "reset" \/ (peer = "gone" /\ incoming = <<>>)

ReadFails ==
    LET w == [CloseSocket(ws) EXCEPT !.reading = FALSE]
    IN
    /\ Failing
    /\ IF ws.state \in {"MiniHeader", "Length"}
       THEN /\ closes' = closes + IF Uncleanly(w) THEN 1 ELSE 0
            /\ ws' = Destroyed(w)
       ELSE /\ ws' = w
            /\ UNCHANGED closes
    /\ UNCHANGED <<incoming, peer, handled, sent, submitted, delivered>>

-----------------------------------------------------------------------------
(* Writing.                                                                *)

WriteDone ==
    LET w == [ws EXCEPT !.sending = <<>>]
        more == IF w.queue = <<>> THEN w ELSE DoWrite(w)
    IN
    /\ ws.life = "open"
    /\ ws.sending # <<>>
    /\ ws.socket /\ peer # "reset"
    /\ sent' = sent \o ws.sending
    /\ IF ws.closing
       THEN closes' = closes + (IF Uncleanly(w) THEN 1 ELSE 0) /\ ws' = Destroyed(w)
       ELSE ws' = [more EXCEPT !.closing = ws.sentClose] /\ UNCHANGED closes
    /\ UNCHANGED <<incoming, peer, handled, submitted, delivered>>

WriteFails ==
    LET w == [ws EXCEPT !.sending = <<>>, !.closing = TRUE]
    IN
    /\ ws.life = "open"
    /\ ws.sending # <<>>
    /\ peer # "here" \/ ~ws.socket
    /\ peer' = IF ws.socket THEN "reset" ELSE peer
    /\ closes' = closes + IF Uncleanly(w) THEN 1 ELSE 0
    /\ ws' = Destroyed(w)
    /\ UNCHANGED <<incoming, handled, sent, submitted, delivered>>

-----------------------------------------------------------------------------
(* The application sends, and closes, on the worker's thread.              *)

Submits(frame) ==
    /\ ws.life = "open"
    /\ Len(Of(submitted, {Text, Close})) < MaxSends
    /\ submitted' = Append(submitted, frame)

SendText ==
    /\ Submits(Message(Text, <<"t">>))
    /\ ws' = Send(ws, Message(Text, <<"t">>))
    /\ UNCHANGED <<incoming, peer, handled, sent, delivered, closes>>

CloseByServer ==
    /\ ~ws.sentClose
    /\ Submits(Message(Close, <<>>))
    /\ ws' = SendClose(ws, <<>>)
    /\ closes' = closes + IF CallsCloseHandler(ws) THEN 1 ELSE 0
    /\ UNCHANGED <<incoming, peer, handled, sent, delivered>>

(* The peer.                                                               *)

\* The last message of some frames has been begun, and not ended.
Begun(frames) ==
    LET data == Of(frames, Data)
    IN  data # <<>> /\ ~Last(data).fin

\* The peer keeps to RFC 6455: a message that was begun is continued, and
\* nothing follows a close.
Conforms(f) ==
    LET frames == handled \o incoming
    IN  /\ \A i \in DOMAIN frames : frames[i].op # Close
        /\ f.op \in Data => (f.op = Continuation <=> Begun(frames))

PeerSends(f) ==
    /\ Conforms(f)
    /\ ws.life = "open"
    /\ peer = "here"
    /\ Len(handled) + Len(incoming) < MaxFrames
    /\ incoming' = Append(incoming, f)
    /\ UNCHANGED <<ws, peer, handled, sent, submitted, delivered, closes>>

\* It may take a part of its last frame with it.
PeerGoes ==
    /\ ws.life = "open"
    /\ peer = "here"
    /\ peer' = "gone"
    /\ incoming' \in {incoming} \cup (IF incoming = <<>> THEN {} ELSE {Front(incoming)})
    /\ UNCHANGED <<ws, handled, sent, submitted, delivered, closes>>

Read ==
    \/ ReadMiniHeader \/ ReadHalfHeader \/ ReadLength \/ ReadMask \/ ReadPiece
    \/ HandleData \/ HandlePing \/ HandlePong \/ HandleClose \/ HandleCloseReply
    \/ ReadFails

SocketNext ==
    \/ Accept \/ Refuse
    \/ Read \/ WriteDone \/ WriteFails
    \/ SendText \/ CloseByServer
    \/ (\E f \in Frames : PeerSends(Frame(f.op, f.fin, f.masked, f.payload))) \/ PeerGoes

SocketSpec == SocketInit /\ [][SocketNext]_socketVars

-----------------------------------------------------------------------------
(* Properties.                                                             *)

\* In a sequence of frames, the message that is not ended before i begins at b.
Begins(data, b, i) == (b = 1 \/ data[b - 1].fin) /\ \A j \in b .. i - 1 : ~data[j].fin

Whole(data, b, i) == FlattenSeq([k \in 1 .. i - b + 1 |-> data[b + k - 1].payload])

\* Until the two bytes of a header come apart, the application gets every message
\* whole, once, in order and with its type, in whatever pieces the payloads are
\* read and whatever pings come between. As in RFC 6455 a message begins behind
\* the end of the last one.
MessagesIntact ==
    LET data == Of(handled, Data)
        ends == {i \in DOMAIN data : data[i].fin}
    IN  /\ Len(delivered) = Cardinality(ends)
        /\ \A i \in ends : \E b \in 1 .. i :
              /\ Begins(data, b, i)
              /\ delivered[Cardinality({j \in ends : j <= i})] =
                    [text |-> Whole(data, b, i), binary |-> data[b].op = Binary]

\* What is queued is written in order, each frame once, and nothing is lost while
\* the socket is open and the peer is there.
SentInOrder ==
    /\ IsPrefix(sent, submitted)
    /\ ws.life = "open" /\ ws.socket /\ peer = "here" => sent \o ws.sending \o ws.queue = submitted

\* For every ping that has been read whole a pong with its payload is queued, in
\* order.
PingsAnswered ==
    LET pings == Of(handled, {Ping})
        pongs == Of(submitted, {Pong})
    IN  Len(pongs) = Len(pings) /\ \A i \in DOMAIN pings : pongs[i].payload = pings[i].payload

\* No accepted connection is deleted without a call of its close handler. Nothing
\* is said of connections that are never deleted, which an error in front of the
\* mask or the payload leaves, nor of a handler that is called twice.
CloseReported == ws.life \in {"deleted", "used when deleted"} => closes > 0

\* Nothing that is queued is lost, doubled or reordered on its way out, and a pong
\* is queued for every ping.
FramesInOrder == SentInOrder /\ PingsAnswered

-----------------------------------------------------------------------------
(* The inductive invariant.                                                *)

LengthFields == {7, 16, 64}

Incoming == [op : Opcodes, fin : BOOLEAN, masked : BOOLEAN, bits : LengthFields, payload : Seq(Bytes)]

Outgoing == [op : Opcodes \cup {"hello"}, fin : BOOLEAN, masked : BOOLEAN, bits : LengthFields,
             payload : Seq(Bytes \cup {"t"})]

Connections ==
    [life : {"request", "open", "refused", "deleted", "used when deleted", "misread"},
     state : {"MiniHeader", "Length", "Mask", "Payload"}, remaining : Nat, masked : BOOLEAN,
     op : Opcodes, fin : BOOLEAN, fragment : Seq(Bytes \X (-1 .. 3)), message : Seq(Bytes),
     binary : BOOLEAN, reading : BOOLEAN, sending : Seq(Outgoing), queue : Seq(Outgoing),
     socket : BOOLEAN, closing : BOOLEAN, sentClose : BOOLEAN, recvClose : BOOLEAN,
     closeCalled : BOOLEAN]

SocketTypeOK ==
    /\ ws \in Connections
    /\ incoming \in Seq(Incoming)
    /\ peer \in {"here", "gone", "reset"}
    /\ handled \in Seq(Incoming)
    /\ sent \in Seq(Outgoing)
    /\ submitted \in Seq(Outgoing)
    /\ delivered \in Seq([text : Seq(Bytes), binary : BOOLEAN])
    /\ closes \in Nat

\* The handler has been called when it is noted to be, and when it is too late.
CloseInv == ws.closeCalled \/ ws.life \in {"deleted", "used when deleted"} => closes > 0

\* What has been submitted is written, being written or queued, until a write has failed.
SendInv ==
    /\ ws.life = "request" => submitted = <<>> /\ ws.sending = <<>> /\ ws.queue = <<>>
    /\ IsPrefix(sent, submitted)
    /\ ws.socket /\ peer # "reset" => sent \o (ws.sending \o ws.queue) = submitted

\* What is known of the frame that is being read: its header once that is behind,
\* and its first bytes. Between two frames nothing is.
FrameInv ==
    ws.life \in {"request", "open"} =>
        /\ ws.life = "request" => incoming = <<>> /\ peer = "here"
        /\ incoming = <<>> /\ peer = "here" => ws.state = "MiniHeader"
        /\ ws.state \in {"MiniHeader", "Length", "Mask"} => ws.fragment = <<>>
        /\ incoming # <<>> /\ ws.state # "MiniHeader" =>
              LET f == Head(incoming)
                  read == Len(f.payload) - ws.remaining
              IN  /\ ws.op = f.op /\ ws.fin = f.fin /\ ws.masked = f.masked
                  /\ ws.state = "Mask" => ws.remaining = Len(f.payload)
                  /\ ws.state = "Payload" =>
                        read >= 0 /\ ws.fragment = [i \in 1 .. read |-> Coded(f, i)]

\* The stream of the peer is well-formed.
StreamInv ==
    LET stream == handled \o incoming
    IN  \A i \in DOMAIN stream :
            stream[i].op \in Data =>
                (stream[i].op = Continuation <=> Begun(SubSeq(stream, 1, i - 1)))

\* message_ holds the frames of the message that has been begun, if one has.
MessageInv ==
    LET data == Of(handled, Data)
    IN  \E b \in 1 .. Len(data) + 1 :
            /\ Begins(data, b, Len(data) + 1)
            /\ ws.message = Whole(data, b, Len(data))
            /\ b <= Len(data) => ws.binary = (data[b].op = Binary)

SocketInv ==
    /\ SocketTypeOK /\ CloseInv /\ SendInv /\ FrameInv
    /\ PingsAnswered
    /\ StreamInv /\ MessageInv /\ MessagesIntact
=============================================================================
