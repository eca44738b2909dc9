----------------------------- MODULE RelayBridge -----------------------------
(***************************************************************************)
(* The relay mode of the daemon (daemon/daemon.py, Spec 031): a client     *)
(* asks to be connected with another one, and when both have an active     *)
(* session their sessions become partners and every frame of one is sent   *)
(* to the other.                                                           *)
(*                                                                         *)
(* The life of a session is reduced to what the bridge looks at: calls of  *)
(* close() that overlap are one here, PeckSessions has them apart.  As     *)
(* there, code between two awaits is one step.  A task that was created    *)
(* runs at some later turn of the event loop: between the decision to      *)
(* close a session and the begin of its close() other tasks take their     *)
(* steps and still find it active.                                         *)
(***************************************************************************)
EXTENDS Naturals

CONSTANTS
    Clients,    \* client public keys
    Sessions,   \* identities for the sessions (a bound on their number)
    Owner,      \* the public key each of them belongs to
    Requests,   \* pairs <<requester, target>> that may be requested (a bound)
    None        \* dict.get() of a missing key, and relay_partner = None

ASSUME BridgeAssumption ==
    /\ Owner \in [Sessions -> Clients]
    /\ None \notin Sessions \cup Clients
    /\ Requests \subseteq Clients \X Clients

VARIABLES
    peers,     \* PeckDaemon.peers
    state,     \* PeerSession.state
    doomed,    \* the sessions whose close() is scheduled and will find them connecting or active
    partner,   \* PeerSession.relay_partner
    pending,   \* PeckDaemon.pending_requests
    bridges,   \* PeckDaemon.bridges
    timers,    \* the requests whose _relay_timeout task sleeps
    check,     \* for each session, the _check_bridge task that its creation started
    teardown   \* for each session, the _teardown_bridge task that its end started

vars == <<peers, state, doomed, partner, pending, bridges, timers, check, teardown>>

NoCheck == [at |-> "none", todo |-> {}, pair |-> <<>>, sessions |-> <<>>]

Init ==
    /\ peers = [c \in Clients |-> None]
    /\ state = [s \in Sessions |-> "unborn"]
    /\ doomed = {}
    /\ partner = [s \in Sessions |-> None]
    /\ pending = [c \in Clients |-> None]
    /\ bridges = [c \in Clients |-> None]
    /\ timers = {}
    /\ check = [s \in Sessions |-> NoCheck]
    /\ teardown = [s \in Sessions |-> [at |-> "none", partner |-> None]]

IsActive(s) == s # None /\ state[s] = "active"

Living(s) == s # None /\ state[s] \in {"connecting", "active"}

\* create_task(session.close()): it changes nothing yet, and nothing at all if the session
\* is closing by then.
Scheduled(s) == IF Living(s) THEN doomed \cup {s} ELSE doomed

\* The requests _check_bridge looks at, and those of them whose sessions are active.
Wanted == {<<c, pending[c]>> : c \in {c \in Clients : pending[c] # None}}
Ready(todo) == {r \in todo : IsActive(peers[r[1]]) /\ IsActive(peers[r[2]])}

\* The loop of _check_bridge goes on to the first request whose sessions are active, and
\* sleeps.  In which order the others come is left open.
Scan(s, todo) ==
    \/ Ready(todo) = {} /\ check' = [check EXCEPT ![s] = NoCheck]
    \/ \E r \in Ready(todo) : \E rest \in SUBSET (todo \ {r}) :
          check' = [check EXCEPT ![s] = [at |-> "grace", todo |-> rest, pair |-> r,
                                         sessions |-> <<peers[r[1]], peers[r[2]]>>]]

-----------------------------------------------------------------------------
(* Sessions                                                                *)

\* _get_or_create_session
CreateSession(s) ==
    LET c == Owner[s] IN
    /\ state[s] = "unborn"
    /\ state' = [state EXCEPT ![s] = "connecting"]
    /\ doomed' = Scheduled(peers[c])
    /\ peers' = [peers EXCEPT ![c] = s]
    /\ check' = [check EXCEPT ![s].at = "ready"]
    /\ UNCHANGED <<partner, pending, bridges, timers, teardown>>

\* The peer connection is established.  That takes messages, so the tasks that the creation
\* of the session has scheduled have begun by then.
Activate(s) ==
    /\ state[s] = "connecting"
    /\ check[s].at # "ready" /\ ~\E t \in doomed \ {s} : Owner[t] = Owner[s]
    /\ state' = [state EXCEPT ![s] = "active"]
    /\ UNCHANGED <<peers, doomed, partner, pending, bridges, timers, check, teardown>>

\* The connection is lost, a timer ends it, or the scheduled close() runs.
CloseBegins(s) ==
    /\ Living(s)
    /\ state' = [state EXCEPT ![s] = "closing"]
    /\ doomed' = doomed \ {s}
    /\ UNCHANGED <<peers, partner, pending, bridges, timers, check, teardown>>

\* Fault: the end of one session of a bridge is left to the other one.
CloseEndsAlone(s) ==
    LET c == Owner[s] IN
    /\ state[s] = "closing"
    /\ state' = [state EXCEPT ![s] = "closed"]
    /\ IF peers[c] # None /\ state'[peers[c]] = "closed"
       THEN peers' = [peers EXCEPT ![c] = None] /\ pending' = [pending EXCEPT ![c] = None]
       ELSE UNCHANGED <<peers, pending>>
    /\ UNCHANGED <<doomed, partner, bridges, timers, check, teardown>>

\* The rest of close(), with _on_session_dispose.
CloseEnds(s) ==
    LET c == Owner[s] IN
    /\ state[s] = "closing"
    /\ state' = [state EXCEPT ![s] = "closed"]
    /\ teardown' = IF bridges[c] = None THEN teardown ELSE [teardown EXCEPT ![s].at = "ready"]
    /\ IF peers[c] # None /\ state'[peers[c]] = "closed"
       THEN peers' = [peers EXCEPT ![c] = None] /\ pending' = [pending EXCEPT ![c] = None]
       ELSE UNCHANGED <<peers, pending>>
    /\ UNCHANGED <<doomed, partner, bridges, timers, check>>

-----------------------------------------------------------------------------
(* Requests                                                                *)

\* handle_relay_request.  The same request is not made again while its timer sleeps (a
\* bound).
RelayRequest(c, d) ==
    /\ <<c, d>> \in Requests \ timers
    /\ pending' = [pending EXCEPT ![c] = d]
    /\ timers' = timers \cup {<<c, d>>}
    /\ UNCHANGED <<peers, state, doomed, partner, bridges, check, teardown>>

\* _relay_timeout: the entry is dropped whichever request it belongs to.
RelayTimeout(c, d) ==
    /\ <<c, d>> \in timers
    /\ timers' = timers \ {<<c, d>>}
    /\ pending' = IF \/ bridges[c] # None \/ bridges[d] # None
                     \/ peers[c] # None /\ peers[d] # None
                  THEN pending ELSE [pending EXCEPT ![c] = None]
    /\ UNCHANGED <<peers, state, doomed, partner, bridges, check, teardown>>

-----------------------------------------------------------------------------
(* _check_bridge                                                           *)

\* The task runs for the first time.
CheckBegins(s) ==
    /\ check[s].at = "ready"
    /\ Scan(s, Wanted)
    /\ UNCHANGED <<peers, state, doomed, partner, pending, bridges, timers, teardown>>

\* Fault: what was true before the sleep is not looked at again.
LinksAnyway(s) ==
    /\ check[s].at = "grace"
    /\ LET a == check[s].sessions[1]
           b == check[s].sessions[2]
       IN  /\ partner' = [partner EXCEPT ![a] = b, ![b] = a]
           /\ bridges' = [bridges EXCEPT ![Owner[a]] = Owner[b], ![Owner[b]] = Owner[a]]
           /\ check' = [check EXCEPT ![s].at = "telling"]
    /\ UNCHANGED <<peers, state, doomed, pending, timers, teardown>>

\* Fault: only the requester learns of its partner.
LinksOneWay(s) ==
    /\ check[s].at = "grace"
    /\ LET a == check[s].sessions[1]
           b == check[s].sessions[2]
       IN  IF IsActive(a) /\ IsActive(b)
           THEN /\ partner' = [partner EXCEPT ![a] = b]
                /\ bridges' = [bridges EXCEPT ![Owner[a]] = Owner[b], ![Owner[b]] = Owner[a]]
                /\ check' = [check EXCEPT ![s].at = "telling"]
           ELSE Scan(s, check[s].todo) /\ UNCHANGED <<partner, bridges>>
    /\ UNCHANGED <<peers, state, doomed, pending, timers, teardown>>

\* After the sleep, with _activate_bridge up to its first message.
GraceEnds(s) ==
    /\ check[s].at = "grace"
    /\ LET a == check[s].sessions[1]
           b == check[s].sessions[2]
       IN  IF IsActive(a) /\ IsActive(b)
           THEN /\ partner' = [partner EXCEPT ![a] = b, ![b] = a]
                /\ bridges' = [bridges EXCEPT ![Owner[a]] = Owner[b], ![Owner[b]] = Owner[a]]
                /\ check' = [check EXCEPT ![s].at = "telling"]
           ELSE Scan(s, check[s].todo) /\ UNCHANGED <<partner, bridges>>
    /\ UNCHANGED <<peers, state, doomed, pending, timers, teardown>>

\* Both relay-active messages are sent; the entry is dropped whatever it says by now.
Told(s) ==
    /\ check[s].at = "telling"
    /\ pending' = [pending EXCEPT ![check[s].pair[1]] = None]
    /\ Scan(s, check[s].todo)
    /\ UNCHANGED <<peers, state, doomed, partner, bridges, timers, teardown>>

-----------------------------------------------------------------------------
(* _teardown_bridge                                                        *)

TeardownBegins(s) ==
    /\ teardown[s].at = "ready"
    /\ teardown' = [teardown EXCEPT ![s] =
          IF bridges[Owner[s]] = None THEN [at |-> "none", partner |-> None]
          ELSE [at |-> "telling", partner |-> bridges[Owner[s]]]]
    /\ UNCHANGED <<peers, state, doomed, partner, pending, bridges, timers, check>>

\* After the relay-stop message: the session that the partner has by now is closed.
TeardownEnds(s) ==
    /\ teardown[s].at = "telling"
    /\ LET d == teardown[s].partner
           t == peers[d]
       IN  /\ partner' = IF t = None THEN partner ELSE [partner EXCEPT ![t] = None]
           /\ doomed' = Scheduled(t)
           /\ bridges' = [bridges EXCEPT ![Owner[s]] = None, ![d] = None]
    /\ teardown' = [teardown EXCEPT ![s] = [at |-> "none", partner |-> None]]
    /\ UNCHANGED <<peers, state, pending, timers, check>>

-----------------------------------------------------------------------------

Next ==
    \/ \E s \in Sessions :
          \/ CreateSession(s) \/ Activate(s) \/ CloseBegins(s) \/ CloseEnds(s)
          \/ CheckBegins(s) \/ GraceEnds(s) \/ Told(s)
          \/ TeardownBegins(s) \/ TeardownEnds(s)
    \/ \E c, d \in Clients : RelayRequest(c, d) \/ RelayTimeout(c, d)

Spec == Init /\ [][Next]_vars

\* Tasks of the event loop run, sleeps and the sending of messages end.  Nobody has to
\* connect, to disconnect or to request anything.
Fairness ==
    /\ \A s \in Sessions :
          /\ WF_vars(s \in doomed /\ CloseBegins(s)) /\ WF_vars(CloseEnds(s))
          /\ WF_vars(CheckBegins(s)) /\ WF_vars(GraceEnds(s)) /\ WF_vars(Told(s))
          /\ WF_vars(TeardownBegins(s)) /\ WF_vars(TeardownEnds(s))
    /\ \A c, d \in Clients : WF_vars(RelayTimeout(c, d))

FairSpec == Spec /\ Fairness

-----------------------------------------------------------------------------

TypeOK ==
    /\ peers \in [Clients -> Sessions \cup {None}]
    /\ state \in [Sessions -> {"unborn", "connecting", "active", "closing", "closed"}]
    /\ partner \in [Sessions -> Sessions \cup {None}]
    /\ pending \in [Clients -> Clients \cup {None}]
    /\ bridges \in [Clients -> Clients \cup {None}]
    /\ timers \subseteq Requests
    /\ doomed \subseteq Sessions
    /\ \A c \in Clients : peers[c] # None => Owner[peers[c]] = c
    /\ \A s \in Sessions :
          /\ check[s].at \in {"none", "ready", "grace", "telling"}
          /\ check[s].todo \subseteq Clients \X Clients
          /\ teardown[s].at \in {"none", "ready", "telling"}

\* Although _check_bridge sleeps between finding two sessions and linking them, what it
\* links is registered at that moment, or its close() is scheduled: a task whose sleep ends
\* just when a session is replaced still finds it active.  It never links one whose end
\* may be over, as nobody would tear down that bridge.
LinksRegistered ==
    [][\A s \in Sessions : partner'[s] \notin {partner[s], None} =>
          \A t \in {s, partner'[s]} : peers[Owner[t]] = t \/ t \in doomed]_vars

\* A session that will not be closed in the next turn.
Stays(s) == IsActive(s) /\ s \notin doomed

\* Frames of two sessions that stay never go in one direction only, however often their
\* clients reconnect, as long as every client is requested with one other client at most.
PartnersAgree ==
    \A s \in Sessions : Stays(s) /\ Stays(partner[s]) => partner[partner[s]] = s

\* The types, and that both directions of a bridge agree.
Inv == TypeOK /\ PartnersAgree

\* Every client is requested together with one other client at most, though in either
\* direction and as often as they like.
InPairs ==
    \A q, r \in Requests :
        {q[1], q[2]} \cap {r[1], r[2]} # {} => {q[1], q[2]} = {r[1], r[2]}

\* A client has had two sessions: the registry and the bridges are by client.
Reconnected(c) == \E s, t \in Sessions : s # t /\ {Owner[s], Owner[t]} = {c} /\ "unborn" \notin {state[s], state[t]}

LeftAlone(s) == IsActive(s) /\ partner[s] # None /\ state[partner[s]] = "closed"

\* _teardown_bridge: "When one peer of a bridge disconnects, close the other side": as long
\* as a session is left alone, its close() is scheduled or some teardown is under way.
OtherIsEnding ==
    \A s \in Sessions : LeftAlone(s) => s \in doomed \/ \E u \in Sessions : teardown[u].at # "none"

\* What is true of it: the end of one session ends the other one if requests come in pairs
\* and neither client of the pair has reconnected, whichever searches, requests and ends are
\* under way.  Otherwise another bridge of the same client may have taken the place of
\* theirs, and OtherIsEnding fails.
LossEndsBoth ==
    \A s \in Sessions :
        InPairs /\ LeftAlone(s)
            ~> ~IsActive(s) \/ \E r \in Requests : /\ Owner[s] \in {r[1], r[2]}
                                                   /\ Reconnected(r[1]) \/ Reconnected(r[2])

\* _relay_timeout: "Both connected, bridge should form soon".
BridgeForms ==
    \A c, d \in Clients :
        (pending[c] = d /\ IsActive(peers[c]) /\ IsActive(peers[d]))
            ~> (bridges[c] = d \/ ~IsActive(peers[c]) \/ ~IsActive(peers[d]) \/ pending[c] # d)

\* PeckDaemon.bridges is "bidirectional".
BridgesAreMutual ==
    \A c, d \in Clients : bridges[c] = d => bridges[d] = c

=============================================================================
