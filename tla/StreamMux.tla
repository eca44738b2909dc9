------------------------------ MODULE StreamMux ------------------------------
(***************************************************************************)
(* HTTP requests multiplexed over one data channel: StreamManager and      *)
(* request() of the browser library (browser/src/protocol.js, client.js)   *)
(* against _handle_frame and _proxy_request of the daemon's PeerSession    *)
(* (daemon/daemon.py).                                                     *)
(*                                                                         *)
(* One connection: the browser makes a StreamManager, and the daemon a     *)
(* PeerSession with its dict of streams, for each.  The data channel is    *)
(* ordered and reliable as long as it is open.  Both ends drop what they   *)
(* send while it is not, without a word.  JavaScript and asyncio handle    *)
(* one frame at a time; the promise of a request goes on to its finally    *)
(* block in the same turn in which it is settled.                          *)
(*                                                                         *)
(* A frame carries the request it belongs to besides the stream id, which  *)
(* neither end can see: it stands for the content of the payload.  Ports,  *)
(* which both ends only echo, and the port index of StreamManager, which   *)
(* nothing reads, are left out.                                            *)
(***************************************************************************)
EXTENDS Integers, Sequences

CONSTANTS
    Requests,     \* the calls of request() (a bound on their number)
    MaxStreamId,  \* 65535, the largest stream id
    Oversize,     \* requests whose DATA frame the browser's channel refuses to send
    NoRequest     \* Map.get() of a missing key

ASSUME StreamsAssumption ==
    /\ MaxStreamId \in Nat \ {0}
    /\ Oversize \subseteq Requests
    /\ NoRequest \notin Requests

VARIABLES
    nextId,     \* StreamManager._nextStreamId
    streams,    \* StreamManager._streams: whose handlers are registered under an id
    status,     \* the promise of each request
    idOf,       \* streamId of each request, 0 before it has one
    chunks,     \* responseChunks of each request: the requests they answer
    closed,     \* close() was called on the tunnel
    channel,    \* the data channel, as far as both ends go
    toDaemon,   \* frames in flight to the daemon
    toClient,   \* frames in flight to the browser
    dstreams,   \* PeerSession.streams, its keys
    task,       \* the daemon's _proxy_request task of each request
    clean       \* history: no id was ever allocated that was still in use somewhere

clientVars == <<nextId, streams, status, idOf, chunks, closed, clean>>
daemonVars == <<dstreams, task>>
wireVars   == <<channel, toDaemon, toClient>>

vars == <<nextId, streams, status, idOf, chunks, closed, channel, toDaemon, toClient,
          dstreams, task, clean>>

Ids == 1..MaxStreamId

Frame(t, id, r) == [type |-> t, id |-> id, req |-> r]

Frames == [type : {"OPEN", "DATA", "CLOSE", "RST"}, id : Ids, req : Requests]

Pending == {r \in Requests : status[r] = "pending"}

InFlight(queue) == {queue[k] : k \in DOMAIN queue}

\* The task of a request is running or waiting in the daemon.
Running == {"queued", "backend", "leaving"}

\* Some request that had this id is not over, at either end or on the wire.
InUse(id) ==
    \E r \in Requests :
        /\ idOf[r] = id
        /\ \/ r \in Pending
           \/ task[r] \in Running
           \/ \E f \in InFlight(toDaemon) \cup InFlight(toClient) : f.req = r

Init ==
    /\ nextId = 1
    /\ streams = [id \in Ids |-> NoRequest]
    /\ status = [r \in Requests |-> "unasked"]
    /\ idOf = [r \in Requests |-> 0]
    /\ chunks = [r \in Requests |-> <<>>]
    /\ closed = FALSE
    /\ channel = "opening"
    /\ toDaemon = <<>>
    /\ toClient = <<>>
    /\ dstreams = {}
    /\ task = [r \in Requests |-> "none"]
    /\ clean = TRUE

-----------------------------------------------------------------------------
(* The two ends of the data channel.                                       *)

\* NativeTransport.send and PeerSession._send: nothing is sent, and nobody told,
\* unless the channel is open.
Sent(queue, frames) == IF channel = "open" THEN queue \o frames ELSE queue

\* connect() returns when the peer connection is up, which may be before this.
ChannelOpens ==
    /\ channel = "opening"
    /\ channel' = "open"
    /\ UNCHANGED <<clientVars, daemonVars, toDaemon, toClient>>

\* The connection fails, or the daemon closes the session.
ChannelLost ==
    /\ channel # "closed"
    /\ channel' = "closed"
    /\ toDaemon' = <<>>
    /\ toClient' = <<>>
    /\ UNCHANGED <<clientVars, daemonVars>>

-----------------------------------------------------------------------------
(* The browser.                                                            *)

NextStreamId == IF nextId = MaxStreamId THEN 1 ELSE nextId + 1

\* A payload above the channel's maximum message size makes send() throw, which
\* the transport swallows.
RequestFrames(id, r) ==
    IF r \in Oversize THEN <<Frame("OPEN", id, r)>>
    ELSE <<Frame("OPEN", id, r), Frame("DATA", id, r)>>

Request(r) ==
    /\ status[r] = "unasked"
    /\ ~closed
    /\ status' = [status EXCEPT ![r] = "pending"]
    /\ nextId' = NextStreamId
    /\ idOf' = [idOf EXCEPT ![r] = nextId]
    /\ streams' = [streams EXCEPT ![nextId] = r]
    /\ clean' = (clean /\ ~InUse(nextId))
    /\ toDaemon' = Sent(toDaemon, RequestFrames(nextId, r))
    /\ UNCHANGED <<chunks, closed, channel, toClient, daemonVars>>

\* "Tunnel closed"
RequestRefused(r) ==
    /\ status[r] = "unasked"
    /\ closed
    /\ status' = [status EXCEPT ![r] = "failed"]
    /\ UNCHANGED <<nextId, streams, idOf, chunks, closed, clean, daemonVars, wireVars>>

\* Fault: the promise is settled but nothing tells the daemon.
SettleTellsNobody(r, to) ==
    /\ status' = [status EXCEPT ![r] = to]
    /\ streams' = [streams EXCEPT ![idOf[r]] = NoRequest]
    /\ UNCHANGED toDaemon

\* The promise of r is settled, its id leaves the map, and the finally block of
\* request() tells the daemon that this side is done with the stream.
SettleRequest(r, to) ==
    /\ status' = [status EXCEPT ![r] = to]
    /\ streams' = [streams EXCEPT ![idOf[r]] = NoRequest]
    /\ toDaemon' = Sent(toDaemon, <<Frame("CLOSE", idOf[r], r)>>)

\* Fault: the timer gives up when the channel is gone.
TimeoutOnlyIfOpen(r) ==
    /\ r \in Pending
    /\ channel = "open"
    /\ SettleRequest(r, "failed")
    /\ UNCHANGED <<nextId, idOf, chunks, closed, clean, channel, toClient, daemonVars>>

\* The fifteen second timer of a request.
Timeout(r) ==
    /\ r \in Pending
    /\ SettleRequest(r, "failed")
    /\ UNCHANGED <<nextId, idOf, chunks, closed, clean, channel, toClient, daemonVars>>

\* The stream that the first frame to the browser is for, and what is left then.
Receiver == streams[Head(toClient).id]
Arrives(types) == toClient # <<>> /\ Head(toClient).type \in types /\ toClient' = Tail(toClient)

ReceiveData ==
    /\ Arrives({"DATA"})
    /\ chunks' = IF Receiver = NoRequest THEN chunks
                 ELSE [chunks EXCEPT ![Receiver] = Append(@, Head(toClient).req)]
    /\ UNCHANGED <<nextId, streams, status, idOf, closed, clean, channel, toDaemon, daemonVars>>

\* onClose: no bytes at all are no HTTP response, which rejects the promise, as RST does.
ReceiveEnd ==
    /\ Arrives({"CLOSE", "RST"})
    /\ LET r == Receiver
           ok == Head(toClient).type = "CLOSE" /\ chunks[r] # <<>>
       IN  IF r = NoRequest THEN UNCHANGED <<status, streams, toDaemon>>
           ELSE SettleRequest(r, IF ok THEN "answered" ELSE "failed")
    /\ UNCHANGED <<nextId, idOf, chunks, closed, clean, channel, daemonVars>>

\* close(): requests that wait are left to their timers.
CloseTunnel ==
    /\ ~closed
    /\ closed' = TRUE
    /\ channel' = "closed"
    /\ toDaemon' = <<>>
    /\ toClient' = <<>>
    /\ UNCHANGED <<nextId, streams, status, idOf, chunks, clean, daemonVars>>

-----------------------------------------------------------------------------
(* The daemon.                                                             *)

Delivered(t) == toDaemon # <<>> /\ Head(toDaemon).type = t /\ toDaemon' = Tail(toDaemon)

HandleOpen ==
    /\ Delivered("OPEN")
    /\ dstreams' = dstreams \cup {Head(toDaemon).id}
    /\ UNCHANGED <<clientVars, task, channel, toClient>>

\* The payload is a whole request: it gets a task of its own.
HandleData ==
    /\ Delivered("DATA")
    /\ Head(toDaemon).id \in dstreams
    /\ task' = [task EXCEPT ![Head(toDaemon).req] = "queued"]
    /\ UNCHANGED <<clientVars, dstreams, channel, toClient>>

HandleUnknown ==
    /\ Delivered("DATA")
    /\ Head(toDaemon).id \notin dstreams
    /\ toClient' = Append(toClient, [Head(toDaemon) EXCEPT !.type = "RST"])
    /\ UNCHANGED <<clientVars, daemonVars, channel>>

\* Fault: only a stream whose response is out is forgotten.
CloseKeepsStream ==
    /\ Delivered("CLOSE")
    /\ UNCHANGED <<clientVars, daemonVars, channel, toClient>>

\* The task of the stream, if there is one, goes on.
HandleClose ==
    /\ Delivered("CLOSE")
    /\ dstreams' = dstreams \ {Head(toDaemon).id}
    /\ UNCHANGED <<clientVars, task, channel, toClient>>

\* Fault: the end of the stream is forgotten.
ReplyWithoutClose(r) == <<Frame("DATA", idOf[r], r)>>

\* What every way out of a task sends: a response, be it an error page, and CLOSE.
Reply(r) == <<Frame("DATA", idOf[r], r), Frame("CLOSE", idOf[r], r)>>

\* _send_http_error: bad Host header or port prefix, no route.
RefuseRoute(r) ==
    /\ task[r] = "queued"
    /\ task' = [task EXCEPT ![r] = "failed"]
    /\ toClient' = Sent(toClient, Reply(r))
    /\ dstreams' = dstreams \ {idOf[r]}
    /\ UNCHANGED <<clientVars, channel, toDaemon>>

AskBackend(r) ==
    /\ task[r] = "queued"
    /\ task' = [task EXCEPT ![r] = "backend"]
    /\ UNCHANGED <<clientVars, dstreams, wireVars>>

\* The whole response is read; leaving the context manager may suspend the task.
BackendReplies(r) ==
    /\ task[r] = "backend"
    /\ task' = [task EXCEPT ![r] = "leaving"]
    /\ toClient' = Sent(toClient, Reply(r))
    /\ UNCHANGED <<clientVars, dstreams, channel, toDaemon>>

TaskEnds(r) ==
    /\ task[r] = "leaving"
    /\ task' = [task EXCEPT ![r] = "done"]
    /\ dstreams' = dstreams \ {idOf[r]}
    /\ UNCHANGED <<clientVars, wireVars>>

\* Fault: the exception strikes between the two sends, and the error page goes out
\* on top of the response.
FailureOnTop(r) ==
    /\ task[r] = "backend"
    /\ task' = [task EXCEPT ![r] = "failed"]
    /\ toClient' = Sent(toClient, <<Frame("DATA", idOf[r], r)>> \o Reply(r))
    /\ dstreams' = dstreams \ {idOf[r]}
    /\ UNCHANGED <<clientVars, channel, toDaemon>>

\* Backend unreachable or too slow: a 502 page.
BackendFails(r) ==
    /\ task[r] = "backend"
    /\ task' = [task EXCEPT ![r] = "failed"]
    /\ toClient' = Sent(toClient, Reply(r))
    /\ dstreams' = dstreams \ {idOf[r]}
    /\ UNCHANGED <<clientVars, channel, toDaemon>>

-----------------------------------------------------------------------------
Next ==
    \/ ChannelOpens \/ ChannelLost \/ CloseTunnel
    \/ ReceiveData \/ ReceiveEnd
    \/ HandleOpen \/ HandleData \/ HandleUnknown \/ HandleClose
    \/ \E r \in Requests :
          \/ Request(r) \/ RequestRefused(r) \/ Timeout(r)
          \/ RefuseRoute(r) \/ AskBackend(r)
          \/ BackendReplies(r) \/ TaskEnds(r) \/ BackendFails(r)

Spec == Init /\ [][Next]_vars

\* The browser's timers fire, and an open channel delivers what the browser sent.
\* Nothing is assumed of the backend, of the daemon's replies, or of the channel's life.
Fairness ==
    /\ \A r \in Requests : WF_vars(Timeout(r))
    /\ WF_vars(HandleOpen \/ HandleData \/ HandleUnknown \/ HandleClose)

FairSpec == Spec /\ Fairness

-----------------------------------------------------------------------------
\* Every variable has its type, frames included.
TypeOK ==
    /\ nextId \in Ids
    /\ streams \in [Ids -> Requests \cup {NoRequest}]
    /\ status \in [Requests -> {"unasked", "pending", "answered", "failed"}]
    /\ idOf \in [Requests -> 0..MaxStreamId]
    /\ chunks \in [Requests -> Seq(Requests)]
    /\ closed \in BOOLEAN
    /\ channel \in {"opening", "open", "closed"}
    /\ toDaemon \in Seq(Frames)
    /\ toClient \in Seq(Frames)
    /\ dstreams \subseteq Ids
    /\ task \in [Requests -> {"none", "done", "failed"} \cup Running]
    /\ clean \in BOOLEAN

\* As long as no id was given out that some earlier request still used, at the
\* browser, on the wire or in a task of the daemon, a request is answered with
\* its own response, all of it and once, however timeouts, late answers and lost
\* frames interleave (request, handleFrame, _proxy_request).
OwnResponse ==
    clean => \A r \in Requests :
                /\ chunks[r] \in {<<>>, <<r>>}
                /\ status[r] = "answered" => chunks[r] = <<r>>

\* The map of StreamManager holds the requests that wait, and no other: none can be
\* settled by a frame after its timer settled it, none has lost its handlers.
StreamsArePending ==
    clean => \A r \in Requests : r \in Pending <=> \E id \in Ids : streams[id] = r

\* The daemon knows every stream it is sent a request for, so the browser is never
\* sent a reset, although OPEN, DATA, CLOSE and tasks of other streams interleave.
NeverReset == clean => \A f \in InFlight(toClient) : f.type # "RST"

\* The daemon keeps no stream that nobody will close: while the channel is open
\* each has a request that waits, whose end will send CLOSE, or a CLOSE on the way.
\* This needs no fresh ids.
StreamsHaveOwner ==
    channel = "open" =>
        \A id \in dstreams :
            \/ \E r \in Pending : idOf[r] = id
            \/ \E f \in InFlight(toDaemon) : f.type = "CLOSE" /\ f.id = id

\* A task that is over has not left its request to the fifteen second timer: the
\* answer is on the way as long as the request waits and the channel is open.
AnswersUnderway ==
    channel = "open" /\ clean =>
        \A r \in Pending :
            task[r] \in {"leaving", "done", "failed"} =>
                Frame("CLOSE", idOf[r], r) \in InFlight(toClient)

-----------------------------------------------------------------------------
(* Liveness and refinement.                                                *)

\* No stream stays in the daemon's dict while the channel is open, whatever the
\* backend does: the browser's timer and its CLOSE clear it in the end.
DaemonStreamsDrain ==
    \A id \in Ids :
        id \in dstreams ~> (id \notin dstreams \/ channel # "open")

OutcomeOf(r) ==
    CASE status[r] = "pending"  -> "waiting"
      [] status[r] = "answered" -> IF chunks[r] = <<r>> THEN "own" ELSE "other"
      [] OTHER                  -> status[r]

Tunnel == INSTANCE TunnelRequests
          WITH outcome <- [r \in Requests |-> OutcomeOf(r)], exact <- clean

\* Every request is settled once, by its own response or an error, and none waits
\* for ever, whatever happens to the channel, the daemon and the backend.
ImplementsTunnel == Tunnel!Spec

-----------------------------------------------------------------------------
(* What the documents say and the code does not do.                        *)

\* "Unique ID for this HTTP request/response pair" (docs/PROTOCOL.md): a response
\* only ever ends up with the request it belongs to.
IdsArePairs == \A r \in Requests : \A k \in DOMAIN chunks[r] : chunks[r][k] = r

\* "For errors (backend unreachable, invalid request), the daemon sends RST with an
\* error message payload" (docs/PROTOCOL.md): such a request is not answered.
ErrorsAreResets == \A r \in Requests : task[r] = "failed" => status[r] # "answered"

=============================================================================
