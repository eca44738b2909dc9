---------------------------- MODULE HttpExchange ----------------------------
(***************************************************************************)
(* One HTTP exchange as bytes on the data channel: encodeHttpRequest,      *)
(* parseHttpResponse and concatChunks of browser/src/client.js, the frames *)
(* of browser/src/protocol.js and daemon/protocol.py, and the daemon's     *)
(* parse_http_request, sanitize_response_headers and                       *)
(* compose_http_response.  How exchanges share the channel is StreamMux.   *)
(*                                                                         *)
(* A message is a sequence of tokens: the start line, header lines, line   *)
(* breaks, bytes of a body.  A header line keeps its name, the spelling of *)
(* the name ("lower" or "Title") and its value, a number.  A body may      *)
(* contain line breaks.                                                    *)
(***************************************************************************)
EXTENDS Naturals, Sequences, FiniteSets

CONSTANTS
    StreamIds, StreamPorts,  \* of the requests that are made
    Byte,                    \* 256, the number of values of a byte
    Callers,                 \* the headers a caller passes, without duplicate names
    Backends,                \* the headers a backend answers with, besides the length of the body
    Bodies,                  \* bodies, as sequences of tokens
    Lengths,                 \* lengths a backend may tell of a body that is read as another one
    Stripped                 \* HOP_BY_HOP_HEADERS and TOPOLOGY_HEADERS

\* The headers that say where a body ends.
FramingNames == {"content-length", "transfer-encoding"}

ExchangeAssumption ==
    /\ Byte \in Nat \ {0, 1}
    /\ StreamIds \subseteq 0..(Byte * Byte - 1) /\ StreamPorts \subseteq 0..(Byte * Byte - 1)
    /\ Stripped \cap FramingNames = {}
    /\ Lengths \subseteq Nat
    /\ \A headers \in Callers \cup Backends :
        headers \in Seq([name : {headers[i].name : i \in DOMAIN headers}, form : {"lower", "Title"}, value : Nat])
    /\ \A headers \in Callers : \A i, j \in DOMAIN headers : i # j => headers[i].name # headers[j].name
    /\ \A headers \in Backends : \A i \in DOMAIN headers : headers[i].name \notin FramingNames
    /\ \A body \in Bodies : body \in Seq({body[i] : i \in DOMAIN body})

VARIABLES
    phase,    \* how far the exchange is
    call,     \* the arguments of request(), and the stream id
    wire,     \* the frame on the channel
    asked,    \* what the daemon read out of the request
    answer,   \* the backend's response
    chunks,   \* responseChunks
    result    \* what the promise settles with

vars == <<phase, call, wire, asked, answer, chunks, result>>

Break == <<"crlf">>
Header(name, form, value) == [name |-> name, form |-> form, value |-> value]
Line(h) == <<"header", h.name, h.form, h.value>>

\* The header lines of a list of headers, each with its line break.
Lines(headers) ==
    [k \in 1..(2 * Len(headers)) |-> IF k % 2 = 0 THEN Break ELSE Line(headers[(k + 1) \div 2])]

None == [start |-> "none", headers |-> <<>>, body |-> <<>>]

-----------------------------------------------------------------------------
(* Frames                                                                  *)

Word(n) == <<<<"byte", (n \div Byte) % Byte>>, <<"byte", n % Byte>>>>

EncodeFrame(id, port, payload) == Word(id) \o Word(port) \o <<<<"byte", 1>>>> \o payload

DecodeFrame(frame) ==
    LET value(k) == frame[k][2] * Byte + frame[k + 1][2]
    IN  [id |-> value(1), port |-> value(3), payload |-> SubSeq(frame, 6, Len(frame))]

-----------------------------------------------------------------------------
(* The two text formats                                                    *)

Named(headers, name) == {i \in DOMAIN headers : headers[i].name = name}

\* encodeHttpRequest: Host and Content-Length are added unless the caller set them.
EncodeRequest(c) ==
    LET host == IF Named(c.headers, "host") # {} THEN <<>> ELSE <<Header("host", "Title", 0)>>
        length == IF c.body = <<>> \/ Named(c.headers, "content-length") # {}
                  THEN <<>> ELSE <<Header("content-length", "Title", Len(c.body))>>
    IN  <<<<"start", "request">>, Break>> \o Lines(host \o c.headers \o length)
            \o <<Break>> \o c.body

\* Fault: the last empty line ends the headers.
LastBoundary(raw) ==
    LET blank == {i \in 1..(Len(raw) - 1) : raw[i] = Break /\ raw[i + 1] = Break}
    IN  IF blank = {} THEN 0 ELSE CHOOSE i \in blank : \A j \in blank : i >= j

\* The first empty line ends the headers; 0 if there is none.
Boundary(raw) ==
    LET blank == {i \in 1..(Len(raw) - 1) : raw[i] = Break /\ raw[i + 1] = Break}
    IN  IF blank = {} THEN 0 ELSE CHOOSE i \in blank : \A j \in blank : i <= j

\* The headers of a message whose headers end before token b, by where their lines are.
HeadersIn(raw, b) ==
    [i \in {k \in 1..(b - 1) : raw[k][1] = "header"} |-> Header(raw[i][2], raw[i][3], raw[i][4])]

BodyAfter(raw, b) == SubSeq(raw, b + 2, Len(raw))

\* A dict keeps the last value of a key.
LastOfEach(headers) ==
    {headers[i] : i \in {k \in DOMAIN headers :
        \A j \in DOMAIN headers :
            k < j => headers[k].name # headers[j].name \/ headers[k].form # headers[j].form}}

\* parse_http_request: the keys of the dict are spelled as they came.
ParseRequest(raw) ==
    [start   |-> raw[1][2],
     headers |-> LastOfEach(HeadersIn(raw, Boundary(raw))),
     body    |-> BodyAfter(raw, Boundary(raw))]

Sanitize(headers) ==
    LET kept[i \in 0..Len(headers)] ==
            IF i = 0 THEN <<>>
            ELSE IF headers[i].name \in Stripped \cup {"transfer-encoding"} THEN kept[i - 1]
            ELSE Append(kept[i - 1], headers[i])
    IN  kept[Len(headers)]

\* compose_http_response, of headers that are sanitized.
Compose(a) ==
    LET length == IF Named(a.headers, "content-length") # {}
                  THEN <<>> ELSE <<Header("content-length", "Title", Len(a.body))>>
    IN  <<<<"start", a.start>>, Break>> \o Lines(a.headers \o length) \o <<Break>> \o a.body

\* concatChunks
Concat(parts) ==
    LET joined[i \in 0..Len(parts)] == IF i = 0 THEN <<>> ELSE joined[i - 1] \o parts[i]
    IN  joined[Len(parts)]

\* parseHttpResponse: names are lower-cased, so the last of several spellings stays.
ParseResponse(raw) ==
    LET headers == HeadersIn(raw, Boundary(raw))
        lower == [i \in DOMAIN headers |-> Header(headers[i].name, "lower", headers[i].value)]
    IN  [start   |-> raw[1][2],
         headers |-> LastOfEach(lower),
         body    |-> BodyAfter(raw, Boundary(raw))]

-----------------------------------------------------------------------------
(* The exchange                                                            *)

Init ==
    /\ phase = "idle"
    /\ call \in [id : StreamIds, port : StreamPorts, headers : Callers, body : Bodies]
    /\ wire = <<>>
    /\ asked = None
    /\ answer = None
    /\ chunks = <<>>
    /\ result = None

Ask ==
    /\ phase = "idle" /\ phase' = "asked"
    /\ wire' = EncodeFrame(call.id, call.port, EncodeRequest(call))
    /\ UNCHANGED <<call, asked, answer, chunks, result>>

\* _handle_frame and _proxy_request.
Read ==
    /\ phase = "asked" /\ phase' = "read"
    /\ LET frame == DecodeFrame(wire)
           request == ParseRequest(frame.payload)
       IN  asked' = [id |-> frame.id, port |-> frame.port, start |-> request.start,
                     headers |-> request.headers, body |-> request.body]
    /\ UNCHANGED <<call, wire, answer, chunks, result>>

\* A backend delimits its body by a length, by chunks, which the HTTP client takes apart, or
\* by its end.  The length need not be that of the body as it is read: the HTTP client has
\* decompressed it, or there is none, in the answer to HEAD and with status 304.
Framings(body) ==
    {<<Header("content-length", f, n)>> : f \in {"lower", "Title"}, n \in Lengths \cup {Len(body)}}
        \cup {<<Header("transfer-encoding", "Title", 0)>>, <<>>}

\* The session's HTTP client returned, and the daemon sends the response in one frame.
Reply ==
    /\ phase = "read"
    /\ \E headers \in Backends, body \in Bodies : \E framing \in Framings(body) :
        LET a == [start |-> "200", headers |-> headers \o framing, body |-> body]
        IN  /\ answer' = a
            /\ wire' = EncodeFrame(asked.id, asked.port, Compose([a EXCEPT !.headers = Sanitize(@)]))
    /\ phase' = "replied"
    /\ UNCHANGED <<call, asked, chunks, result>>

\* The frame is larger than the channel sends: _send logs it and goes on to CLOSE.
ReplyIsLost ==
    /\ phase = "replied" /\ phase' = "closing"
    /\ wire' = <<>>
    /\ UNCHANGED <<call, asked, answer, chunks, result>>

\* onMessage
Receive ==
    /\ phase = "replied" /\ phase' = "closing"
    /\ DecodeFrame(wire).id = call.id
    /\ chunks' = Append(chunks, DecodeFrame(wire).payload)
    /\ wire' = <<>>
    /\ UNCHANGED <<call, asked, answer, result>>

\* onClose: without an empty line the response is malformed.
Close ==
    /\ phase = "closing" /\ phase' = "done"
    /\ LET raw == Concat(chunks)
       IN  result' = IF Boundary(raw) = 0 THEN [None EXCEPT !.start = "malformed"]
                     ELSE ParseResponse(raw)
    /\ UNCHANGED <<call, wire, asked, answer, chunks>>

Next == Ask \/ Read \/ Reply \/ ReplyIsLost \/ Receive \/ Close

Spec == Init /\ [][Next]_vars

-----------------------------------------------------------------------------

Answered == phase = "done" /\ result.start # "malformed"

\* The daemon reads the stream, the port, the body and every header that the caller passed.
RequestArrives ==
    phase \notin {"idle", "asked"} =>
        /\ asked.id = call.id /\ asked.port = call.port
        /\ asked.start = "request" /\ asked.body = call.body
        /\ \A i \in DOMAIN call.headers : call.headers[i] \in asked.headers

\* The daemon routes by the Host header, which it looks up in two spellings: there is one,
\* and it is the caller's if the caller set one.
OneHost ==
    phase \notin {"idle", "asked"} =>
        /\ Cardinality({h \in asked.headers : h.name = "host"}) = 1
        /\ \A i \in Named(call.headers, "host") : call.headers[i] \in asked.headers

\* The caller gets the status and the body of the backend, and a value for each of its
\* headers that may pass, whatever bytes the body consists of.
ResponseArrives ==
    Answered =>
        /\ result.start = answer.start /\ result.body = answer.body
        /\ {h.name : h \in result.headers} \ {"content-length"} =
              {answer.headers[i].name : i \in DOMAIN answer.headers}
                  \ (Stripped \cup {"content-length", "transfer-encoding"})

\* The length that is told is the one the backend has told, if it has, which is not that of
\* a body the HTTP client has decompressed, nor of none; otherwise it is the length of the
\* body.
IsLength(n, a) ==
    LET told == Named(a.headers, "content-length")
    IN  (\A i \in told : a.headers[i].value = n) /\ (told = {} => n = Len(a.body))

\* One length is told, and it is all that is told of how the body is delimited: the comment
\* of compose_http_response names what happens if not.
OneFraming ==
    Answered =>
        \E h \in result.headers :
            /\ h.name = "content-length" /\ IsLength(h.value, answer)
            /\ {g \in result.headers : g.name \in FramingNames} = {h}

\* sanitize_response_headers: no header of the connection or of the topology behind the
\* backend reaches the client, however it is spelled.
NothingInternal == Answered => \A h \in result.headers : h.name \notin Stripped

\* The daemon reads what the caller asked, with one Host header, and the caller gets the
\* status, the body and the headers that may pass, with one length, the backend's own or
\* else the true one, whatever the body consists of; nothing internal gets out.
HttpArrives ==
    RequestArrives /\ OneHost /\ ResponseArrives /\ OneFraming /\ NothingInternal

\* "duplicate response headers (e.g. multiple Set-Cookie) survive as separate pairs"
\* (daemon/protocol.py).
DuplicatesSurvive ==
    Answered =>
        \A i \in Named(answer.headers, "set-cookie") :
            [answer.headers[i] EXCEPT !.form = "lower"] \in result.headers

=============================================================================
