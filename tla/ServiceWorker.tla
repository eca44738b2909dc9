---------------------------- MODULE ServiceWorker ----------------------------
(***************************************************************************)
(* The service worker (browser/sw.js) that answers the fetches of a        *)
(* tunnelled page, and the pages (browser/client.html) that lend it their  *)
(* tunnel through message ports.                                           *)
(*                                                                         *)
(* A page makes a channel, and registers one end of it with the worker,    *)
(* each time it has connected; a later registration replaces an earlier    *)
(* one, of the same page or of another.  The worker runs one event at a    *)
(* time; only reading the body of a request suspends it in the middle.     *)
(***************************************************************************)
EXTENDS Naturals, Sequences

CONSTANTS
    Pages, Ports, Requests,  \* bounds on page loads, connections and fetches
    PageOf,                  \* the page that makes a port
    WithBody,                \* the requests that are neither GET nor HEAD
    NoPort                   \* null

ASSUME WorkerAssumption ==
    /\ PageOf \in [Ports -> Pages]
    /\ WithBody \subseteq Requests
    /\ NoPort \notin Ports

VARIABLES
    page,        \* open or gone
    mail,        \* messages of each page to the worker, in order
    made,        \* the ports that were made
    tunnelPort,  \* tunnelPort, and with it tunnelPortClient = PageOf[tunnelPort]
    fetch,       \* the promise that a fetch event was answered with
    pending,     \* the keys of pendingRequests, each with a running timer
    via,         \* the port a request was posted to
    listening,   \* the requests whose handler is on their port
    result,      \* what the tunnel of the page made of a request
    reply        \* what the page posted for it: none, then in flight, then heard

pageVars   == <<page, mail, made>>
workerVars == <<tunnelPort, fetch, pending, via, listening>>

vars == <<page, mail, made, tunnelPort, fetch, pending, via, listening, result, reply>>

Register(q) == [type |-> "REGISTER", port |-> q]
Unregister  == [type |-> "UNREGISTER", port |-> NoPort]

Init ==
    /\ page = [p \in Pages |-> "open"]
    /\ mail = [p \in Pages |-> <<>>]
    /\ made = {}
    /\ tunnelPort = NoPort
    /\ fetch = [r \in Requests |-> "none"]
    /\ pending = {}
    /\ via = [r \in Requests |-> NoPort]
    /\ listening = {}
    /\ result = [r \in Requests |-> "none"]
    /\ reply = [r \in Requests |-> "none"]

-----------------------------------------------------------------------------
(* The pages.                                                              *)

\* connectServiceWorker, once per connection.
Connect(q) ==
    /\ page[PageOf[q]] = "open"
    /\ q \notin made
    /\ made' = made \cup {q}
    /\ mail' = [mail EXCEPT ![PageOf[q]] = Append(@, Register(q))]
    /\ UNCHANGED <<page, workerVars, result, reply>>

\* beforeunload.
Unload(p) ==
    /\ page[p] = "open"
    /\ page' = [page EXCEPT ![p] = "gone"]
    /\ mail' = [mail EXCEPT ![p] = Append(@, Unregister)]
    /\ UNCHANGED <<made, workerVars, result, reply>>

\* A tab that is killed gets no beforeunload.
Crash(p) ==
    /\ page[p] = "open"
    /\ page' = [page EXCEPT ![p] = "crashed"]
    /\ UNCHANGED <<mail, made, workerVars, result, reply>>

\* The try block calls its port number swPort, so posting the response of the
\* tunnel throws, and what is posted is the error of that.
PostAnswer(r, res) ==
    /\ result' = [result EXCEPT ![r] = res]
    /\ reply' = [reply EXCEPT ![r] = "error"]

Serve(r) ==
    /\ via[r] # NoPort
    /\ page[PageOf[via[r]]] = "open"
    /\ reply[r] = "none"
    /\ \E res \in {"ok", "error"} : PostAnswer(r, res)
    /\ UNCHANGED <<pageVars, workerVars>>

-----------------------------------------------------------------------------
(* The worker.                                                             *)

\* Fault: anybody's UNREGISTER clears the port.
UnregisteredByAny(p, m) == m.port

\* The message listener: a registration replaces the port, and only the page
\* that owns the port can take it back.
PortAfter(p, m) ==
    IF m.type = "REGISTER" THEN m.port
    ELSE IF tunnelPort # NoPort /\ PageOf[tunnelPort] = p THEN NoPort
    ELSE tunnelPort

Receive(p) ==
    /\ mail[p] # <<>>
    /\ tunnelPort' = PortAfter(p, Head(mail[p]))
    /\ mail' = [mail EXCEPT ![p] = Tail(@)]
    /\ UNCHANGED <<page, made, fetch, pending, via, listening, result, reply>>

\* Cross-origin, navigation and UI requests go to the network; the others get
\* status 503 when there is no tunnel.
FetchElsewhere(r) ==
    /\ fetch[r] = "none"
    /\ \/ fetch' = [fetch EXCEPT ![r] = "network"]
       \/ tunnelPort = NoPort /\ fetch' = [fetch EXCEPT ![r] = "unavailable"]
    /\ UNCHANGED <<pageVars, tunnelPort, pending, via, listening, result, reply>>

\* The rest of routeThroughTunnel: the promise and its timer, then the handler
\* and the message on the port that is registered now.
Post(r) ==
    /\ pending' = pending \cup {r}
    /\ listening' = listening \cup {r}
    /\ via' = [via EXCEPT ![r] = tunnelPort]
    /\ fetch' = [fetch EXCEPT ![r] = "waiting"]

FetchTunnelled(r) ==
    /\ fetch[r] = "none"
    /\ tunnelPort # NoPort
    /\ IF r \in WithBody
       THEN fetch' = [fetch EXCEPT ![r] = "body"] /\ UNCHANGED <<pending, via, listening>>
       ELSE Post(r)
    /\ UNCHANGED <<pageVars, tunnelPort, result, reply>>

\* Fault: a request whose port went away is left to the promise.
BodyReadWaits(r) ==
    /\ fetch[r] = "body"
    /\ IF tunnelPort # NoPort THEN Post(r)
       ELSE /\ fetch' = [fetch EXCEPT ![r] = "waiting"]
            /\ UNCHANGED <<pending, via, listening>>
    /\ UNCHANGED <<pageVars, tunnelPort, result, reply>>

\* await request.arrayBuffer().  If the port is gone, its use throws, after the
\* promise was made: the fetch fails and the timer stays.
BodyRead(r) ==
    /\ fetch[r] = "body"
    /\ IF tunnelPort # NoPort THEN Post(r)
       ELSE /\ fetch' = [fetch EXCEPT ![r] = "failed"]
            /\ pending' = pending \cup {r}
            /\ UNCHANGED <<via, listening>>
    /\ UNCHANGED <<pageVars, tunnelPort, result, reply>>

\* Fault: the timer removes the entry and rejects nothing.
TimeoutSilent(r) ==
    /\ r \in pending
    /\ pending' = pending \ {r}
    /\ UNCHANGED <<pageVars, tunnelPort, fetch, via, listening, result, reply>>

\* "Tunnel timeout (30s)".  The handler stays on the port.
Timeout(r) ==
    /\ r \in pending
    /\ pending' = pending \ {r}
    /\ fetch' = [fetch EXCEPT ![r] = IF @ = "waiting" THEN "failed" ELSE @]
    /\ UNCHANGED <<pageVars, tunnelPort, via, listening, result, reply>>

\* The handler of a request.  Past the timer and the entry it takes itself off
\* tunnelPort, which throws if that is null and does nothing if that is another
\* port, and calls resolve or reject, which are not in its scope: the promise
\* stays as it is.
Hear(r) ==
    /\ r \in listening
    /\ reply[r] \in {"ok", "error"}
    /\ reply' = [reply EXCEPT ![r] = "heard"]
    /\ pending' = pending \ {r}
    /\ listening' = IF r \in pending /\ tunnelPort = via[r] THEN listening \ {r} ELSE listening
    /\ UNCHANGED <<pageVars, tunnelPort, fetch, via, result>>

-----------------------------------------------------------------------------

Next ==
    \/ \E q \in Ports : Connect(q)
    \/ \E p \in Pages : Unload(p) \/ Crash(p) \/ Receive(p)
    \/ \E r \in Requests :
          \/ Serve(r) \/ Hear(r) \/ Timeout(r)
          \/ FetchElsewhere(r) \/ FetchTunnelled(r) \/ BodyRead(r)

Spec == Init /\ [][Next]_vars

\* Messages arrive, bodies are read and timers fire; no page has to answer.
Fairness ==
    /\ \A p \in Pages : WF_vars(Receive(p))
    /\ \A r \in Requests : WF_vars(BodyRead(r)) /\ WF_vars(Timeout(r)) /\ WF_vars(Hear(r))

FairSpec == Spec /\ Fairness

-----------------------------------------------------------------------------

TypeOK ==
    /\ page \in [Pages -> {"open", "gone", "crashed"}]
    /\ mail \in [Pages -> Seq({Unregister} \cup {Register(q) : q \in Ports})]
    /\ made \subseteq Ports
    /\ tunnelPort \in made \cup {NoPort}
    /\ fetch \in [Requests -> {"none", "body", "waiting", "failed", "unavailable", "network"}]
    /\ pending \subseteq Requests
    /\ via \in [Requests -> Ports \cup {NoPort}]
    /\ listening \subseteq {r \in Requests : via[r] # NoPort}
    /\ result \in [Requests -> {"none", "ok", "error"}]
    /\ reply \in [Requests -> {"none", "ok", "error", "heard"}]

\* A fetch that waits without a timer is one whose page has answered: the promise of
\* routeThroughTunnel is abandoned by nothing else, whatever becomes of pages and ports.
AbandonedOnlyIfAnswered ==
    \A r \in Requests : fetch[r] = "waiting" /\ r \notin pending => reply[r] = "heard"

\* The types, and that no fetch is abandoned without an answer.
Inv == TypeOK /\ AbandonedOnlyIfAnswered

\* A page that unloads takes back only its own port: the UNREGISTER of an old page, which
\* may arrive after the REGISTER of the page that was loaded in its place, does not cut
\* the new page off.
PortTakenBackByOwner ==
    [][tunnelPort # NoPort /\ tunnelPort' = NoPort => page[PageOf[tunnelPort]] = "gone"]_vars

\* Every fetch that was routed through the tunnel is settled unless the page answered it.
SettledUnlessAnswered ==
    \A r \in Requests :
        fetch[r] \in {"body", "waiting"} ~> fetch[r] = "failed" \/ reply[r] = "heard"

\* What README.md promises: fetches are routed through the tunnel so that existing web apps
\* work; a fetch, then, is settled.
FetchSettles ==
    \A r \in Requests : fetch[r] \in {"body", "waiting"} ~> fetch[r] \notin {"body", "waiting"}

\* The page passes on what the tunnel gave it.
AnswerIsRelayed ==
    \A r \in Requests : result[r] = "ok" => reply[r] # "error"

=============================================================================
