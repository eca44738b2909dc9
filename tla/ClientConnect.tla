---------------------------- MODULE ClientConnect ----------------------------
(***************************************************************************)
(* How the browser library connects to a daemon: connect() of              *)
(* browser/src/client.js with the relays, signals and peer connection of   *)
(* browser/src/native-transport.js.                                        *)
(*                                                                         *)
(* The relays, the daemon and the browser's RTCPeerConnection are external *)
(* and modelled by what the code relies on.  The daemon answers an         *)
(* announce by a request for the address, or admits the client and then    *)
(* may challenge, deny and offer.  Several offers may come: an offer that  *)
(* took more than one relay, and offers of two sessions of a client that   *)
(* announced twice.  Each is handled by a call of _handleSignal of its     *)
(* own, which is suspended at each operation of the peer connection.       *)
(***************************************************************************)
EXTENDS Naturals, FiniteSets

CONSTANTS
    Relays,      \* the relays of the client
    DeadRelays,  \* relays whose socket neither opens nor fails
    Arrivals,    \* the offers that may arrive (a bound on their number)
    OfferOf,     \* the offer that arrives
    Families,    \* the address families of an offer's candidates
    Preference,  \* ipPreference: ipv4, ipv6 or both
    NeedsIp,     \* the daemon's policy has rules about addresses
    StunResults, \* what _resolveClientIp may find: "ip", "nothing"
    NoOffer      \* no description

ASSUME ConnectAssumption ==
    /\ DeadRelays \subseteq Relays
    /\ NoOffer \notin {OfferOf[a] : a \in Arrivals}
    /\ StunResults \subseteq {"ip", "nothing"}
    /\ NeedsIp \in BOOLEAN

VARIABLES
    promise, settled, timer,  \* the promise of connect(), its flag and its timer
    modal,      \* the terms dialog of the page: none, shown or declined
    closed,     \* close() was called on the tunnel
    told,       \* how often the page's onDisconnect was called, up to 2
    relay,      \* the sockets
    stage,      \* where the transport's connect() is suspended
    announces,  \* announces on their way to the daemon, by what they say of the address
    asked,      \* a request-ip is on its way, or its handler resolves the address
    admitted,   \* the daemon has admitted the client
    denied,     \* the deny message was handled
    handler,    \* where the handler of each offer is suspended
    made,       \* the offer that the answer of a handler was made for
    pc, signaling, remote, local,  \* the RTCPeerConnection
    answers     \* the offers that the answers which were sent belong to

promiseVars == <<promise, settled, timer, modal>>
tunnelVars  == <<closed, told>>
announceVars == <<relay, stage, announces, asked, admitted>>
offerVars   == <<handler, made, pc, signaling, remote, local, answers>>

vars == <<promise, settled, timer, modal, closed, told, relay, stage, announces, asked,
          admitted, denied, handler, made, pc, signaling, remote, local, answers>>

Offers == {OfferOf[a] : a \in Arrivals}

Init ==
    /\ promise = "pending" /\ settled = FALSE /\ timer = "running" /\ modal = "none"
    /\ closed = FALSE /\ told = 0
    /\ relay = [r \in Relays |-> "connecting"]
    /\ stage = "opening"
    /\ announces = {} /\ asked = FALSE /\ admitted = FALSE
    /\ denied = FALSE
    /\ handler = [a \in Arrivals |-> "none"]
    /\ made = [a \in Arrivals |-> NoOffer]
    /\ pc = "new" /\ signaling = "stable" /\ remote = NoOffer /\ local = NoOffer
    /\ answers = {}

-----------------------------------------------------------------------------
(* The promise and its timer.                                              *)

\* Every end of the promise but the timer's goes through the flag.
Settle(how) ==
    /\ settled' = TRUE
    /\ timer' = IF settled THEN timer ELSE "off"
    /\ promise' = IF promise = "pending" /\ ~settled THEN how ELSE promise

\* Fault: the timer gives up only while the relays are being opened.
TimerForRelays ==
    /\ timer = "running"
    /\ timer' = "fired"
    /\ promise' = IF promise = "pending" /\ stage = "opening" THEN "rejected" ELSE promise
    /\ UNCHANGED <<settled, modal, tunnelVars, announceVars, denied, offerVars>>

\* The timer rejects and leaves the flag alone.
TimerFires ==
    /\ timer = "running"
    /\ timer' = "fired"
    /\ promise' = IF ~settled /\ promise = "pending" THEN "rejected" ELSE promise
    /\ UNCHANGED <<settled, modal, tunnelVars, announceVars, denied, offerVars>>

\* Fault: accepting the terms does not start the timer again.
ResetForgotten == UNCHANGED timer

\* _termsTimerReset
ResetTimer == timer' = IF settled THEN timer ELSE "running"

\* acceptTerms is called at once if the user set it so or has accepted this version
\* before; otherwise the dialog pauses the timer.
TermsChallenge ==
    /\ admitted /\ ~closed
    /\ \/ ResetTimer /\ UNCHANGED modal
       \/ modal' = "shown" /\ timer' = IF settled THEN timer ELSE "off"
    /\ UNCHANGED <<promise, settled, tunnelVars, announceVars, denied, offerVars>>

AcceptTerms ==
    /\ modal = "shown"
    /\ modal' = "none"
    /\ ResetTimer
    /\ UNCHANGED <<promise, settled, tunnelVars, announceVars, denied, offerVars>>

DeclineTerms ==
    /\ modal = "shown"
    /\ modal' = "declined"
    /\ UNCHANGED <<promise, settled, timer, tunnelVars, announceVars, denied, offerVars>>

\* The callback of the page is called; nothing reads _closed of the transport.
Deny ==
    /\ admitted /\ ~denied /\ ~closed
    /\ denied' = TRUE
    /\ UNCHANGED <<promiseVars, tunnelVars, announceVars, offerVars>>

-----------------------------------------------------------------------------
(* Relays and announces.                                                   *)

AnyOpen == \E r \in Relays : relay[r] = "open"

RelayOpens(r) ==
    /\ relay[r] = "connecting" /\ r \notin DeadRelays
    /\ relay' = [relay EXCEPT ![r] = "open"]
    /\ UNCHANGED <<promiseVars, tunnelVars, stage, announces, asked, admitted, denied, offerVars>>

\* Before it opened: relay_failed; after: relay_closed, and nobody opens it again.
RelayEnds(r) ==
    /\ relay[r] \in {"connecting", "open"} /\ r \notin DeadRelays
    /\ relay' = [relay EXCEPT ![r] = IF @ = "open" THEN "closed" ELSE "failed"]
    /\ UNCHANGED <<promiseVars, tunnelVars, stage, announces, asked, admitted, denied, offerVars>>

\* _openRelays waits for every socket.
RelaysOpened ==
    /\ stage = "opening"
    /\ \A r \in Relays : relay[r] # "connecting"
    /\ IF \E r \in Relays : relay[r] # "failed"
       THEN stage' = "resolving" /\ UNCHANGED <<promise, settled, timer>>
       ELSE stage' = "failed" /\ Settle("rejected")
    /\ UNCHANGED <<modal, tunnelVars, relay, announces, asked, admitted, denied, offerVars>>

\* _sendSignaling: to every open relay, and to nobody if there is none.
Announced(ip) == IF AnyOpen THEN announces \cup {ip} ELSE announces

Announce ==
    /\ stage = "resolving"
    /\ stage' = "announced"
    /\ \E ip \in StunResults : announces' = Announced(ip)
    /\ UNCHANGED <<promiseVars, tunnelVars, relay, asked, admitted, denied, offerVars>>

\* request-ip: resolve once more, announce once more, with or without an address.
AnnounceAgain ==
    /\ asked
    /\ asked' = FALSE
    /\ \E ip \in StunResults : announces' = Announced(ip)
    /\ UNCHANGED <<promiseVars, tunnelVars, relay, stage, admitted, denied, offerVars>>

\* The daemon's handle_announce.
DaemonAnswers(ip) ==
    /\ ip \in announces
    /\ announces' = announces \ {ip}
    /\ IF NeedsIp /\ ip = "nothing" THEN asked' = TRUE /\ UNCHANGED admitted
       ELSE admitted' = TRUE /\ UNCHANGED asked
    /\ UNCHANGED <<promiseVars, tunnelVars, relay, stage, denied, offerVars>>

-----------------------------------------------------------------------------
(* Offers and answers.                                                     *)

OfferArrives(a) ==
    /\ admitted /\ AnyOpen
    /\ handler[a] = "none"
    /\ handler' = [handler EXCEPT ![a] = "remote"]
    /\ UNCHANGED <<promiseVars, tunnelVars, announceVars, denied, made, pc, signaling, remote, local, answers>>

\* An operation of the peer connection fails, or the transport was disconnected.
OfferFails(a) ==
    /\ handler' = [handler EXCEPT ![a] = "error"]
    /\ UNCHANGED <<made, signaling, remote, local, answers>>

SetRemote(a) ==
    /\ handler[a] = "remote"
    /\ IF closed THEN OfferFails(a)
       ELSE /\ remote' = OfferOf[a]
            /\ signaling' = "have-remote-offer"
            /\ handler' = [handler EXCEPT ![a] = "create"]
            /\ UNCHANGED <<made, local, answers>>
    /\ UNCHANGED <<promiseVars, tunnelVars, announceVars, denied, pc>>

CreateAnswer(a) ==
    /\ handler[a] = "create"
    /\ IF closed \/ signaling = "stable" THEN OfferFails(a)
       ELSE /\ made' = [made EXCEPT ![a] = remote]
            /\ handler' = [handler EXCEPT ![a] = "local"]
            /\ UNCHANGED <<signaling, remote, local, answers>>
    /\ UNCHANGED <<promiseVars, tunnelVars, announceVars, denied, pc>>

\* Fault: an answer is sent once, for the first of the offers.
AnswersFirstOnly(a) ==
    /\ handler[a] = "local"
    /\ IF closed \/ signaling = "stable" \/ a # CHOOSE b \in Arrivals : TRUE THEN OfferFails(a)
       ELSE /\ local' = made[a]
            /\ signaling' = "stable"
            /\ handler' = [handler EXCEPT ![a] = "done"]
            /\ answers' = answers \cup {made[a]}
            /\ UNCHANGED <<made, remote>>
    /\ UNCHANGED <<promiseVars, tunnelVars, announceVars, denied, pc>>

\* The answer that is sent is the local description.
SetLocalAndAnswer(a) ==
    /\ handler[a] = "local"
    /\ IF closed \/ signaling = "stable" THEN OfferFails(a)
       ELSE /\ local' = made[a]
            /\ signaling' = "stable"
            /\ handler' = [handler EXCEPT ![a] = "done"]
            /\ answers' = IF AnyOpen THEN answers \cup {local'} ELSE answers
            /\ UNCHANGED <<made, remote>>
    /\ UNCHANGED <<promiseVars, tunnelVars, announceVars, denied, pc>>

-----------------------------------------------------------------------------
(* The peer connection comes up and goes down.                             *)

\* _filterSdpByIpFamily
Usable(o) == IF Preference = "both" THEN Families[o] ELSE Families[o] \cap {Preference}

\* Only with the session whose offer was answered, and candidates of that offer.
PeerConnects ==
    /\ ~closed /\ pc \in {"new", "disconnected"}
    /\ local # NoOffer /\ local = remote /\ local \in answers /\ Usable(local) # {}
    /\ pc' = "connected"
    /\ Settle("resolved")
    /\ UNCHANGED <<modal, tunnelVars, announceVars, denied, handler, made, signaling, remote, local, answers>>

\* Fault: the handler of the attempt stays in place, behind its flag.
TellsNobody == Settle("rejected") /\ UNCHANGED told

\* The first handler rejects; once connect() has returned, the second tells the page.
OnDisconnect ==
    IF promise = "resolved"
    THEN UNCHANGED <<promise, settled, timer>> /\ told' = IF told < 2 THEN told + 1 ELSE told
    ELSE Settle("rejected") /\ UNCHANGED told

\* "disconnected" may be followed by "failed", and each is a call of the handler.
PeerEnds ==
    /\ ~closed /\ local # NoOffer
    /\ \/ pc = "connected" /\ pc' \in {"disconnected", "failed"}
       \/ pc \in {"new", "disconnected"} /\ pc' = "failed"
    /\ OnDisconnect
    /\ UNCHANGED <<modal, closed, announceVars, denied, handler, made, signaling, remote, local, answers>>

\* close() of the tunnel, which the page has once connect() returned.
Close ==
    /\ promise = "resolved" /\ ~closed
    /\ closed' = TRUE
    /\ pc' = "closed"
    /\ relay' = [r \in Relays |-> IF relay[r] = "open" THEN "closed" ELSE relay[r]]
    /\ UNCHANGED <<promiseVars, told, stage, announces, asked, admitted, denied,
                   handler, made, signaling, remote, local, answers>>

-----------------------------------------------------------------------------

Next ==
    \/ TimerFires \/ TermsChallenge \/ AcceptTerms \/ DeclineTerms \/ Deny
    \/ \E r \in Relays : RelayOpens(r) \/ RelayEnds(r)
    \/ RelaysOpened \/ Announce \/ AnnounceAgain
    \/ \E ip \in {"ip", "nothing"} : DaemonAnswers(ip)
    \/ \E a \in Arrivals :
          OfferArrives(a) \/ SetRemote(a) \/ CreateAnswer(a) \/ SetLocalAndAnswer(a)
    \/ PeerConnects \/ PeerEnds \/ Close

Spec == Init /\ [][Next]_vars

\* Timers fire, sockets open or fail unless the relay is dead, what was awaited
\* comes back, and the daemon answers an announce.
Fairness ==
    /\ WF_vars(TimerFires) /\ WF_vars(RelaysOpened) /\ WF_vars(Announce) /\ WF_vars(AnnounceAgain)
    /\ \A r \in Relays : WF_vars(RelayOpens(r) \/ (relay[r] = "connecting" /\ RelayEnds(r)))
    /\ \A ip \in {"ip", "nothing"} : WF_vars(DaemonAnswers(ip))
    /\ \A a \in Arrivals : WF_vars(SetRemote(a) \/ CreateAnswer(a) \/ SetLocalAndAnswer(a))

FairSpec == Spec /\ Fairness

-----------------------------------------------------------------------------

TypeOK ==
    /\ promise \in {"pending", "resolved", "rejected"}
    /\ settled \in BOOLEAN /\ closed \in BOOLEAN /\ denied \in BOOLEAN
    /\ timer \in {"running", "off", "fired"}
    /\ modal \in {"none", "shown", "declined"}
    /\ told \in 0..2
    /\ relay \in [Relays -> {"connecting", "open", "failed", "closed"}]
    /\ stage \in {"opening", "resolving", "announced", "failed"}
    /\ announces \subseteq {"ip", "nothing"}
    /\ asked \in BOOLEAN /\ admitted \in BOOLEAN
    /\ handler \in [Arrivals -> {"none", "remote", "create", "local", "done", "error"}]
    /\ made \in [Arrivals -> Offers \cup {NoOffer}]
    /\ pc \in {"new", "connected", "disconnected", "failed", "closed"}
    /\ signaling \in {"stable", "have-remote-offer"}
    /\ remote \in Offers \cup {NoOffer} /\ local \in Offers \cup {NoOffer}
    /\ answers \subseteq Offers

\* A promise that waits has something that will settle it: its timer, or a dialog the user
\* has been left with.  However challenges, accepts and disconnects interleave, the pause of
\* the timer is never the last word.
PendingIsWatched ==
    promise = "pending" => timer = "running" \/ modal \in {"shown", "declined"}

\* The page hears of the loss of a tunnel exactly if it was given one: no loss falls into
\* the gap between the two handlers, and an attempt that failed is reported by its promise
\* alone, so that the page does not answer one failure with two reconnects.
LossIsTold ==
    /\ promise = "resolved" /\ pc \in {"disconnected", "failed"} => told > 0
    /\ promise # "resolved" => told = 0

\* connect() comes to an end unless the user leaves the terms open or declines them.
ConnectSettles == promise = "pending" ~> promise # "pending" \/ modal # "none"

\* Of the offers that arrive, in any number and interleaved in any way, at least one is
\* answered: handlers that overtake each other do not all fail.
OfferIsAnswered ==
    (\E a \in Arrivals : handler[a] # "none") ~> closed \/ ~AnyOpen \/ answers # {}

\* client.js: "When the daemon sends a deny DM, reject the connect() promise".
DenyRejects == [][denied' /\ ~denied => promise' # "pending"]_vars

\* README.md: "if one goes down, the others keep the signaling alive".
OneRelaySuffices == (\E r \in Relays : relay[r] = "open") ~> announces # {} \/ admitted \/ ~AnyOpen

\* ACCESS_CONTROL.md: after request-ip comes an announce with the address, and the policy.
PolicyIsReached == asked ~> admitted \/ ~AnyOpen

=============================================================================
