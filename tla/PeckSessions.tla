---------------------------- MODULE PeckSessions ----------------------------
(***************************************************************************)
(* The session registry of the peck daemon and the life of a PeerSession   *)
(* (daemon/daemon.py), in serve mode.                                      *)
(*                                                                         *)
(* The daemon is one asyncio event loop: code between two awaits is one    *)
(* step here, and every await is a place where any other task may run.     *)
(* An announce that is admitted is given an element of Sessions, which     *)
(* stands for the asyncio task handle_announce, for the PeerSession it     *)
(* creates and for the task of handle_terms_accept that may take it over:  *)
(* exactly one of the two ever drives a session through setup and offer.   *)
(*                                                                         *)
(* Outside src/ are aiortc's RTCPeerConnection ("pc"), the relays and the  *)
(* clients: an offer may be lost, a client may answer any offer it was     *)
(* sent as often as it likes, a connection may fail at any time.           *)
(* Announces that are refused (rate limit window, deny, loud-deny,         *)
(* request-ip) change nothing in this module and are not steps of it.      *)
(***************************************************************************)
EXTENDS Integers, FiniteSets

CONSTANTS
    Clients,      \* client public keys
    Sessions,     \* identities for admitted announces (a bound on their number)
    Owner,        \* the public key each of them belongs to
    Versions,     \* versions of the terms of service
    NoTerms,      \* "this rule requires no terms"
    Admissions,   \* what the policy, reloads included, answers to the announces it allows
    MaxSessions,  \* RateLimitConfig.max_sessions, 0 is unlimited
    Faulty,       \* sessions whose connection may fail or whose answer may be rejected (a bound)
    NoSession     \* dict.get() of a missing key

ASSUME SessionsAssumption ==
    /\ IsFiniteSet(Clients)
    /\ Owner \in [Sessions -> Clients]
    /\ NoSession \notin Sessions

ASSUME TermsAssumption ==
    /\ NoTerms \notin Versions
    /\ Admissions \subseteq Versions \cup {NoTerms}

ASSUME CapAssumption == MaxSessions \in Nat

VARIABLES
    peers,        \* PeckDaemon.peers
    openCount,    \* RateLimiter._global_session_count
    state,        \* PeerSession.state, "unborn" before the constructor
    job,          \* where the task that drives the session is suspended
    terms,        \* terms_version_expected, NoTerms when none are required
    awaiting,     \* the sessions with awaiting_terms = True
    termsTimer,   \* the sessions whose _terms_timeout task is asleep
    connectTimer, \* the sessions whose connect timer is asleep
    idleTimer,    \* the sessions whose idle timer is asleep
    doomed,       \* replaced sessions whose close() task has not started
    closers,      \* the calls of close() suspended in pc.close()
    pc,           \* the connection state of the peer connection
    note,         \* sessions with an on_state task that has not run yet
    lock,         \* holder of PeckDaemon._gather_lock
    hostAddrs,    \* whose addresses aioice.ice.get_host_addresses returns
    cands,        \* whose addresses the gathered candidates carry
    offered,      \* sessions whose offer reached a relay
    answered,     \* the session whose offer the accepted answer answers
    vetting,      \* sessions whose receive_answer is before the ICE filter
    heard,        \* history: terms-accept messages, with the session registered then
    elders,       \* history: the sessions of the same client when a session was created
    replaced      \* history: the sessions that lost their registry entry to a newer one

registryVars == <<peers, openCount, elders, replaced>>
historyVars  == <<elders, replaced>>
termsVars    == <<terms, awaiting, termsTimer, heard>>
lockVars     == <<lock, hostAddrs, cands>>
answerVars   == <<offered, answered, vetting>>
closeVars    == <<peers, openCount, state, connectTimer, idleTimer, closers, pc, note>>

vars == <<peers, openCount, state, job, terms, awaiting, termsTimer, connectTimer,
          idleTimer, doomed, closers, pc, note, lock, hostAddrs, cands, offered,
          answered, vetting, heard, elders, replaced>>

\* Callers of close() that wait for pc.close(). The two timers are not among them:
\* close() cancels the timers, the one that is calling it included, so the
\* cancellation ends that call at its first suspension, inside pc.close().
Closers == {"replace", "filter", "pc"}

Jobs == {"idle", "challenge", "gate", "setup", "lock", "gather", "signal", "done", "failed"}

LiveStates == {"connecting", "active", "closing"}

Born == {s \in Sessions : state[s] # "unborn"}

Registered == {c \in Clients : peers[c] # NoSession}

\* The on_state handler is attached at the end of setup().
Watched(s) == job[s] \in {"lock", "gather", "signal", "done", "failed"}

-----------------------------------------------------------------------------
Init ==
    /\ peers = [c \in Clients |-> NoSession]
    /\ openCount = 0
    /\ state = [s \in Sessions |-> "unborn"]
    /\ job = [s \in Sessions |-> "idle"]
    /\ terms = [s \in Sessions |-> NoTerms]
    /\ awaiting = {}
    /\ termsTimer = {}
    /\ connectTimer = {}
    /\ idleTimer = {}
    /\ doomed = {}
    /\ closers = [s \in Sessions |-> {}]
    /\ pc = [s \in Sessions |-> "none"]
    /\ note = {}
    /\ lock = NoSession
    /\ hostAddrs = NoSession
    /\ cands = [s \in Sessions |-> NoSession]
    /\ offered = {}
    /\ answered = [s \in Sessions |-> NoSession]
    /\ vetting = {}
    /\ heard = {}
    /\ elders = [s \in Sessions |-> {}]
    /\ replaced = {}

-----------------------------------------------------------------------------
(* PeerSession.close and the registry callback it ends with.               *)

\* _on_session_dispose(c), given the session states at the time of the call: the
\* registry drops what it holds under c only if that session is closed.
OnSessionDispose(c, states) ==
    IF peers[c] # NoSession /\ states[peers[c]] = "closed"
    THEN /\ peers' = [peers EXCEPT ![c] = NoSession]
         /\ openCount' = IF openCount = 0 THEN 0 ELSE openCount - 1
    ELSE UNCHANGED <<peers, openCount>>

\* The end of close(): the transition to "closed", then the callback.
Closed(s) ==
    LET states == [state EXCEPT ![s] = "closed"]
    IN  /\ state' = states
        /\ OnSessionDispose(Owner[s], states)

\* close() up to its first suspension. "callers" is the caller if it survives
\* _cancel_timers(), and empty if it is a timer; "pending" the on_state tasks that
\* are still to run. pc.close() makes aiortc announce "closed" to the on_state
\* handler before it suspends.
BeginClose(s, callers, pending) ==
    \/ /\ state[s] = "closed"
       /\ note' = pending
       /\ UNCHANGED <<peers, openCount, state, connectTimer, idleTimer, closers, pc>>
    \/ /\ state[s] # "closed"
       /\ connectTimer' = connectTimer \ {s}
       /\ idleTimer' = idleTimer \ {s}
       /\ IF pc[s] = "none"
          THEN /\ Closed(s)
               /\ note' = pending
               /\ UNCHANGED <<closers, pc>>
          ELSE /\ state' = [state EXCEPT ![s] = "closing"]
               /\ closers' = [closers EXCEPT ![s] = @ \cup callers]
               /\ pc' = [pc EXCEPT ![s] = "closed"]
               /\ note' = IF Watched(s) /\ pc[s] # "closed" THEN pending \cup {s} ELSE pending
               /\ UNCHANGED <<peers, openCount>>

\* pc.close() has returned or its two seconds are over.
FinishClose(s, k) ==
    /\ k \in closers[s]
    /\ closers' = [closers EXCEPT ![s] = @ \ {k}]
    /\ Closed(s)
    /\ UNCHANGED <<job, connectTimer, idleTimer, doomed, pc, note, historyVars,
                   termsVars, lockVars, answerVars>>

\* Fault: the coroutine close() is made but not run.
ReplaceForgetsClose(s) ==
    /\ s \in doomed
    /\ doomed' = doomed \ {s}
    /\ UNCHANGED <<closeVars, job, historyVars, termsVars, lockVars, answerVars>>

\* The task scheduled by a replacement starts.
ReplaceClose(s) ==
    /\ s \in doomed
    /\ doomed' = doomed \ {s}
    /\ BeginClose(s, {"replace"}, note)
    /\ UNCHANGED <<job, historyVars, termsVars, lockVars, answerVars>>

-----------------------------------------------------------------------------
(* Announces: rate limit, policy, terms gate, session creation.            *)

\* Fault: off by one.
CheckSessionLax == MaxSessions = 0 \/ openCount <= MaxSessions

CheckSession == MaxSessions = 0 \/ openCount < MaxSessions

\* Fault: the old session is dropped without close().
CreateKeepsOldOpen(s) ==
    LET c == Owner[s]
    IN  /\ state' = [state EXCEPT ![s] = "connecting"]
        /\ peers' = [peers EXCEPT ![c] = s]
        /\ openCount' = openCount + 1
        /\ elders' = [elders EXCEPT ![s] = {t \in Born : Owner[t] = c}]
        /\ replaced' = IF peers[c] = NoSession THEN replaced ELSE replaced \cup {peers[c]}
        /\ UNCHANGED doomed

\* _get_or_create_session(Owner[s])
GetOrCreateSession(s) ==
    LET c   == Owner[s]
        old == peers[c]
    IN  /\ state' = [state EXCEPT ![s] = "connecting"]
        /\ peers' = [peers EXCEPT ![c] = s]
        /\ openCount' = openCount + 1
        /\ elders' = [elders EXCEPT ![s] = {t \in Born : Owner[t] = c}]
        /\ IF old = NoSession
           THEN UNCHANGED <<doomed, replaced>>
           ELSE /\ doomed' = doomed \cup {old}
                /\ replaced' = replaced \cup {old}

\* handle_announce without terms, up to the first suspension of setup().
Announce(s) ==
    /\ job[s] = "idle"
    /\ CheckSession
    /\ NoTerms \in Admissions
    /\ GetOrCreateSession(s)
    /\ pc' = [pc EXCEPT ![s] = "new"]
    /\ job' = [job EXCEPT ![s] = "setup"]
    /\ UNCHANGED <<termsVars, connectTimer, idleTimer, closers, note, lockVars, answerVars>>

\* handle_announce under a rule with terms suspends while it sends the
\* terms-challenge; the session does not exist yet.
AnnounceTerms(s) ==
    /\ job[s] = "idle"
    /\ CheckSession
    /\ \E v \in Admissions \ {NoTerms} : terms' = [terms EXCEPT ![s] = v]
    /\ job' = [job EXCEPT ![s] = "challenge"]
    /\ UNCHANGED <<closeVars, historyVars, awaiting, termsTimer, heard, doomed, lockVars, answerVars>>

\* The challenge is sent (or given up): the session is created, without a peer
\* connection, and its thirty seconds start.
ChallengeSent(s) ==
    /\ job[s] = "challenge"
    /\ GetOrCreateSession(s)
    /\ awaiting' = awaiting \cup {s}
    /\ termsTimer' = termsTimer \cup {s}
    /\ job' = [job EXCEPT ![s] = "gate"]
    /\ UNCHANGED <<terms, heard, connectTimer, idleTimer, closers, pc, note, lockVars, answerVars>>

\* Faults: any version is accepted; awaiting_terms is not reset.
AcceptsAnyVersion(c, v) ==
    LET s == peers[c]
    IN  /\ s # NoSession
        /\ s \in awaiting
        /\ heard' = heard \cup {<<s, v>>}
        /\ awaiting' = awaiting \ {s}
        /\ termsTimer' = termsTimer \ {s}
        /\ pc' = [pc EXCEPT ![s] = "new"]
        /\ job' = [job EXCEPT ![s] = "setup"]
        /\ UNCHANGED <<registryVars, state, terms, connectTimer, idleTimer, doomed, closers,
                       note, lockVars, answerVars>>

AcceptKeepsAwaiting(c, v) ==
    LET s == peers[c]
    IN  /\ s # NoSession
        /\ s \in awaiting
        /\ v = terms[s]
        /\ heard' = heard \cup {<<s, v>>}
        /\ pc' = [pc EXCEPT ![s] = "new"]
        /\ job' = [job EXCEPT ![s] = "setup"]
        /\ UNCHANGED <<registryVars, state, terms, awaiting, termsTimer, connectTimer, idleTimer,
                       doomed, closers, note, lockVars, answerVars>>

\* handle_terms_accept for the session registered under c. With another version
\* the code reads session.terms_text, which no session has: the task dies with an
\* AttributeError and nothing is sent or changed.
TermsAccept(c, v) ==
    LET s == peers[c]
    IN  /\ s # NoSession
        /\ s \in awaiting
        /\ heard' = heard \cup {<<s, v>>}
        /\ \/ /\ v # terms[s]
              /\ UNCHANGED <<awaiting, termsTimer, pc, job>>
           \/ /\ v = terms[s]
              /\ awaiting' = awaiting \ {s}
              /\ termsTimer' = termsTimer \ {s}
              /\ pc' = [pc EXCEPT ![s] = "new"]
              /\ job' = [job EXCEPT ![s] = "setup"]
        /\ UNCHANGED <<registryVars, state, terms, connectTimer, idleTimer, doomed, closers,
                       note, lockVars, answerVars>>

\* _terms_timeout started for s: it acts on whatever session the registry holds
\* under the same key when it wakes up.
TermsTimeout(s) ==
    LET t == peers[Owner[s]]
    IN  /\ s \in termsTimer
        /\ termsTimer' = termsTimer \ {s}
        /\ IF t # NoSession /\ t \in awaiting
           THEN /\ awaiting' = awaiting \ {t}
                /\ BeginClose(t, {}, note)
           ELSE UNCHANGED <<awaiting, closeVars>>
        /\ UNCHANGED <<job, terms, heard, doomed, historyVars, lockVars, answerVars>>

-----------------------------------------------------------------------------
(* The task that drives a session: setup, create_offer, send_signaling.    *)

\* Fault: no connect timer.
SetupWithoutTimer(s) ==
    /\ job[s] = "setup"
    /\ job' = [job EXCEPT ![s] = "lock"]
    /\ UNCHANGED <<registryVars, state, termsVars, connectTimer, idleTimer, doomed, closers, pc,
                   note, lockVars, answerVars>>

\* The rest of setup(), after the IPv6 STUN lookup: the data channel, the on_state
\* handler and the connect timer, then create_offer up to the gather lock.
SetupDone(s) ==
    /\ job[s] = "setup"
    /\ job' = [job EXCEPT ![s] = "lock"]
    /\ connectTimer' = connectTimer \cup {s}
    /\ UNCHANGED <<registryVars, state, termsVars, idleTimer, doomed, closers, pc, note,
                   lockVars, answerVars>>

\* Fault: the section before Spec 043, without the lock.
GatherUnlocked(s) ==
    /\ job[s] = "lock"
    /\ hostAddrs' = s
    /\ job' = [job EXCEPT ![s] = "gather"]
    /\ lock' = s
    /\ UNCHANGED <<closeVars, historyVars, termsVars, doomed, cands, answerVars>>

\* The lock is taken and the module-global is patched. createOffer() raises on a
\* peer connection that was closed meanwhile, which releases the lock.
AcquireLock(s) ==
    /\ job[s] = "lock"
    /\ lock = NoSession
    /\ hostAddrs' = s
    /\ IF pc[s] = "closed"
       THEN /\ job' = [job EXCEPT ![s] = "failed"]
            /\ UNCHANGED lock
       ELSE /\ job' = [job EXCEPT ![s] = "gather"]
            /\ lock' = s
    /\ UNCHANGED <<closeVars, historyVars, termsVars, doomed, cands, answerVars>>

\* Gathering read the module-global; the lock is released.
GatherDone(s) ==
    /\ job[s] = "gather"
    /\ cands' = [cands EXCEPT ![s] = hostAddrs]
    /\ lock' = NoSession
    /\ job' = [job EXCEPT ![s] = "signal"]
    /\ UNCHANGED <<closeVars, historyVars, termsVars, doomed, hostAddrs, answerVars>>

\* Fault: the exception leaves the lock held.
GatherFailsLocked(s) ==
    /\ job[s] = "gather"
    /\ pc[s] = "closed"
    /\ job' = [job EXCEPT ![s] = "failed"]
    /\ UNCHANGED <<closeVars, historyVars, termsVars, doomed, lockVars, answerVars>>

\* setLocalDescription() raised because the peer connection was closed.
GatherFailed(s) ==
    /\ job[s] = "gather"
    /\ pc[s] = "closed"
    /\ lock' = NoSession
    /\ job' = [job EXCEPT ![s] = "failed"]
    /\ UNCHANGED <<closeVars, historyVars, termsVars, doomed, hostAddrs, cands, answerVars>>

\* A relay took the offer. The task has waited for sockets since the session was
\* created, so the close() tasks scheduled by then have started.
OfferSent(s) ==
    /\ job[s] = "signal"
    /\ elders[s] \cap doomed = {}
    /\ offered' = offered \cup {s}
    /\ job' = [job EXCEPT ![s] = "done"]
    /\ UNCHANGED <<closeVars, historyVars, termsVars, doomed, lockVars, answered, vetting>>

\* Every relay failed: send_signaling logs and returns.
OfferLost(s) ==
    /\ job[s] = "signal"
    /\ job' = [job EXCEPT ![s] = "done"]
    /\ UNCHANGED <<closeVars, historyVars, termsVars, doomed, lockVars, answerVars>>

-----------------------------------------------------------------------------
(* Answers, the peer connection and its events, timers.                    *)

\* handle_signal with the answer to the offer of o: it goes to the session that is
\* registered now. setRemoteDescription() raises unless that session's own
\* offer is set and unanswered, and then nothing changes.
Answer(o) ==
    LET s == peers[Owner[o]]
    IN  /\ o \in offered
        /\ s # NoSession
        /\ pc[s] = "new"
        /\ job[s] \in {"gather", "signal", "done"}
        /\ answered[s] = NoSession
        /\ answered' = [answered EXCEPT ![s] = o]
        /\ vetting' = vetting \cup {s}
        /\ UNCHANGED <<closeVars, job, historyVars, termsVars, doomed, lockVars, offered>>

\* The ICE second filter accepts the addresses of the answer.
FilterPass(s) ==
    /\ s \in vetting
    /\ vetting' = vetting \ {s}
    /\ UNCHANGED <<closeVars, job, historyVars, termsVars, doomed, lockVars, offered, answered>>

\* The ICE second filter finds an address the policy denies.
FilterReject(s) ==
    /\ s \in vetting \cap Faulty
    /\ vetting' = vetting \ {s}
    /\ BeginClose(s, {"filter"}, note)
    /\ UNCHANGED <<job, historyVars, termsVars, doomed, lockVars, offered, answered>>

\* External: ICE and DTLS complete, which takes the answer to this very offer.
PcConnect(s) ==
    /\ pc[s] = "new"
    /\ answered[s] = s
    /\ pc' = [pc EXCEPT ![s] = "connected"]
    /\ note' = note \cup {s}
    /\ UNCHANGED <<registryVars, state, job, termsVars, connectTimer, idleTimer, doomed,
                   closers, lockVars, answerVars>>

\* External: the connection fails, or the client goes away.
PcFail(s) ==
    /\ s \in Faulty
    /\ \/ pc[s] = "connected"
       \/ pc[s] = "new" /\ answered[s] # NoSession
    /\ pc' = [pc EXCEPT ![s] = "failed"]
    /\ note' = note \cup {s}
    /\ UNCHANGED <<registryVars, state, job, termsVars, connectTimer, idleTimer, doomed,
                   closers, lockVars, answerVars>>

\* The on_state task runs: it reads the connection state of now, not of the event.
OnConnected(s) ==
    /\ s \in note
    /\ pc[s] = "connected"
    /\ note' = note \ {s}
    /\ IF state[s] = "connecting"
       THEN /\ state' = [state EXCEPT ![s] = "active"]
            /\ idleTimer' = idleTimer \cup {s}
       ELSE UNCHANGED <<state, idleTimer>>
    /\ UNCHANGED <<registryVars, job, termsVars, connectTimer, doomed, closers, pc, lockVars,
                   answerVars>>

\* ... and closes the session unless that is done, be it for the second time.
OnDisconnected(s) ==
    /\ s \in note
    /\ pc[s] \in {"failed", "closed"}
    /\ BeginClose(s, {"pc"}, note \ {s})
    /\ UNCHANGED <<job, historyVars, termsVars, doomed, lockVars, answerVars>>

\* The connect timer of a session wakes up.
ConnectTimeout(s) ==
    /\ s \in connectTimer
    /\ IF state[s] = "connecting"
       THEN BeginClose(s, {}, note)
       ELSE /\ connectTimer' = connectTimer \ {s}
            /\ UNCHANGED <<peers, openCount, state, idleTimer, closers, pc, note>>
    /\ UNCHANGED <<job, historyVars, termsVars, doomed, lockVars, answerVars>>

\* The idle timer wakes up; it only ever sleeps in an active session.
IdleTimeout(s) ==
    /\ s \in idleTimer
    /\ IF state[s] = "active"
       THEN BeginClose(s, {}, note)
       ELSE /\ idleTimer' = idleTimer \ {s}
            /\ UNCHANGED <<peers, openCount, state, connectTimer, closers, pc, note>>
    /\ UNCHANGED <<job, historyVars, termsVars, doomed, lockVars, answerVars>>

\* _touch(): a frame arrives and the idle timer starts anew.
Touch(s) ==
    /\ pc[s] = "connected"
    /\ idleTimer' = IF state[s] = "active" THEN idleTimer \cup {s} ELSE idleTimer
    /\ UNCHANGED <<registryVars, state, job, termsVars, connectTimer, doomed, closers, pc, note,
                   lockVars, answerVars>>

-----------------------------------------------------------------------------
AnnounceTask(s) == Announce(s) \/ AnnounceTerms(s) \/ ChallengeSent(s)

DrivingTask(s) ==
    \/ SetupDone(s) \/ AcquireLock(s) \/ GatherDone(s) \/ GatherFailed(s)
    \/ OfferSent(s) \/ OfferLost(s)

SignalTask(s) == Answer(s) \/ FilterPass(s) \/ FilterReject(s)

PeerConnection(s) == PcConnect(s) \/ PcFail(s) \/ OnConnected(s) \/ OnDisconnected(s) \/ Touch(s)

Timer(s) == TermsTimeout(s) \/ ConnectTimeout(s) \/ IdleTimeout(s)

CloseTask(s) == ReplaceClose(s) \/ \E k \in Closers : FinishClose(s, k)

Next ==
    \/ \E s \in Sessions :
          \/ AnnounceTask(s) \/ DrivingTask(s) \/ SignalTask(s)
          \/ PeerConnection(s) \/ Timer(s) \/ CloseTask(s)
    \/ \E c \in Clients, v \in Versions : TermsAccept(c, v)

Spec == Init /\ [][Next]_vars

\* asyncio runs every ready task and fires every timer that nobody cancels, every
\* await outside src/ that a task is suspended in is bounded by a timeout (STUN 5 s,
\* gathering 5 s, publishing 2 s per relay, pc.close() 2 s), and asyncio.Lock serves
\* its waiters in order. Nothing is assumed of clients, of connections or of the
\* idle timer, which activity can postpone for ever.
Fairness ==
    /\ \A s \in Sessions :
          /\ WF_vars(ChallengeSent(s))
          /\ WF_vars(SetupDone(s))
          /\ SF_vars(AcquireLock(s))
          /\ WF_vars(GatherDone(s) \/ GatherFailed(s))
          /\ WF_vars(OfferSent(s) \/ OfferLost(s))
          /\ WF_vars(OnConnected(s))
          /\ WF_vars(OnDisconnected(s))
          /\ WF_vars(TermsTimeout(s))
          /\ WF_vars(ConnectTimeout(s))
          /\ WF_vars(CloseTask(s))

FairSpec == Spec /\ Fairness

-----------------------------------------------------------------------------
(* Safety.                                                                 *)

TypeOK ==
    /\ peers \in [Clients -> Sessions \cup {NoSession}]
    /\ openCount \in Nat
    /\ state \in [Sessions -> LiveStates \cup {"unborn", "closed"}]
    /\ job \in [Sessions -> Jobs]
    /\ terms \in [Sessions -> Versions \cup {NoTerms}]
    /\ awaiting \subseteq Sessions
    /\ termsTimer \subseteq Sessions
    /\ connectTimer \subseteq Sessions
    /\ idleTimer \subseteq Sessions
    /\ doomed \subseteq Sessions
    /\ closers \in [Sessions -> SUBSET Closers]
    /\ pc \in [Sessions -> {"none", "new", "connected", "failed", "closed"}]
    /\ note \subseteq Sessions
    /\ lock \in Sessions \cup {NoSession}
    /\ hostAddrs \in Sessions \cup {NoSession}
    /\ cands \in [Sessions -> Sessions \cup {NoSession}]
    /\ offered \subseteq Sessions
    /\ answered \in [Sessions -> Sessions \cup {NoSession}]
    /\ vetting \subseteq Sessions
    /\ heard \subseteq Sessions \X Versions
    /\ elders \in [Sessions -> SUBSET Sessions]
    /\ replaced \subseteq Sessions

\* "Only one active session per pubkey - a new announce from the same pubkey
\* replaces the old session" (docs/PROTOCOL.md): although close() of the old one
\* is only scheduled, no two sessions of one client are ever active together.
OneActivePerClient ==
    \A s, t \in Sessions :
        state[s] = "active" /\ state[t] = "active" /\ Owner[s] = Owner[t] => s = t

\* The registry never holds a dead session, nor one of another key, whatever
\* order the dispose callbacks of replaced sessions arrive in
\* (_on_session_dispose, _get_or_create_session).
RegistryHoldsLive ==
    \A c \in Registered : Owner[peers[c]] = c /\ state[peers[c]] \in LiveStates

\* A live session that the registry has lost is on its way out: its scheduled
\* close() has not started, or some close() or on_state task will finish it.
\* Otherwise its peer connection would never be released.
OrphansAreBeingClosed ==
    \A s \in Sessions :
        state[s] \in LiveStates /\ peers[Owner[s]] # s =>
            \/ s \in doomed
            \/ state[s] = "closing" /\ (closers[s] # {} \/ s \in note)

\* Every live session has something pending that will end it: a connect timer (or
\* the setup() that will start it, or its own terms timer), an idle timer, or a
\* close() that survives. A timer's own close() does not survive: it cancels
\* itself, and only the on_state task that pc.close() provokes finishes the work.
EverySessionHasAnEnd ==
    \A s \in Sessions : state[s] \in LiveStates =>
        \/ s \in doomed
        \/ state[s] = "connecting" /\ (s \in connectTimer \/ job[s] = "setup")
        \/ state[s] = "connecting" /\ s \in awaiting /\ s \in termsTimer
        \/ state[s] = "active" /\ s \in idleTimer
        \/ state[s] = "closing" /\ (closers[s] # {} \/ s \in note)

\* The idle timer sleeps exactly in the active sessions: a frame that arrives
\* while close() is suspended must not start it again (_touch, _cancel_timers).
IdleTimerIffActive == idleTimer = {s \in Sessions : state[s] = "active"}

\* Spec 043: the gather section is exclusive, and a session gathers and offers
\* candidates of its own WireGuard addresses, although the addresses come from a
\* module-global that every session patches (create_offer).
GathersOwnAddresses ==
    /\ \A s \in Sessions : job[s] = "gather" => lock = s /\ hostAddrs = s
    /\ \A s \in Sessions : cands[s] \in {s, NoSession}
    /\ \A s \in offered : cands[s] = s

\* Spec 033: a session under a rule with terms gets no peer connection, hence no
\* offer, before its client accepted the version the session was challenged with
\* while that session was the registered one (handle_terms_accept).
TermsBeforeOffer ==
    \A s \in Sessions :
        terms[s] # NoTerms /\ (pc[s] # "none" \/ s \in offered) => <<s, terms[s]>> \in heard

\* What the session counter of the rate limiter really counts: the registered
\* sessions and, for good, every session that was ever replaced, since the
\* dispose callback of a replaced session finds its successor and does nothing.
CounterCountsReplaced ==
    openCount = Cardinality(Registered) + Cardinality(replaced)

\* With no terms rule, check_session and on_session_open are one step, and the
\* sessions alive never exceed max_sessions, those being closed included.
LiveWithinCap ==
    (MaxSessions > 0 /\ Admissions \subseteq {NoTerms}) =>
        Cardinality({s \in Sessions : state[s] \in LiveStates}) <= MaxSessions

-----------------------------------------------------------------------------
(* What a step may never do.                                               *)

\* A registry entry changes in two ways only: a newer session takes it, and then
\* close() of the old one is scheduled, or the session itself has closed.
RegistryStep ==
    [][\A c \in Clients : peers'[c] # peers[c] =>
          \/ peers'[c] # NoSession /\ state[peers'[c]] = "unborn"
                /\ (peers[c] # NoSession => peers[c] \in doomed')
          \/ peers'[c] = NoSession /\ state'[peers[c]] = "closed"]_vars

-----------------------------------------------------------------------------
(* The inductive invariant behind the theorems of PeckSessionsProofs.      *)

\* What the place where its task is suspended says about a session.
JobInv ==
    \A s \in Sessions :
        /\ state[s] = "unborn" <=> job[s] \in {"idle", "challenge"}
        /\ pc[s] = "none" <=> job[s] \in {"idle", "challenge", "gate"}
        /\ job[s] = "idle" => terms[s] = NoTerms
        /\ s \in awaiting => job[s] = "gate"
        /\ s \in connectTimer \cup note \cup vetting => Watched(s)
        /\ answered[s] # NoSession => Watched(s)
        /\ s \in offered => job[s] = "done"

\* A peer connection is closed by close() only, connects by the answer to its own
\* offer, and is what makes a session active.
PcInv ==
    \A s \in Sessions :
        /\ pc[s] = "closed" => state[s] \in {"closing", "closed"}
        /\ state[s] = "closing" \/ closers[s] # {} => pc[s] = "closed"
        /\ state[s] = "closed" => pc[s] \in {"none", "closed"}
        /\ pc[s] = "connected" \/ state[s] = "active" => answered[s] = s
        /\ answered[s] # NoSession => answered[s] \in offered

\* The sessions of one client are born one after the other, the older ones have
\* lost the registry entry, and the scheduled close() of each of them has started
\* before a newer one makes its offer.
EldersInv ==
    /\ \A s, t \in Born : Owner[s] = Owner[t] /\ s # t => s \in elders[t] \/ t \in elders[s]
    /\ \A s \in Sessions : \A t \in elders[s] :
          t \in Born /\ Owner[t] = Owner[s] /\ peers[Owner[t]] # t
    /\ \A s \in offered : elders[s] \cap doomed = {}

\* The gatherer holds the lock and no other address was patched in since.
GatherInv ==
    /\ GathersOwnAddresses
    /\ \A s \in Sessions : job[s] = "signal" => cands[s] = s

\* A doomed or replaced session has been born and has lost its entry.
ReplacedInv ==
    /\ \A s \in doomed \cup replaced : s \in Born /\ peers[Owner[s]] # s
    /\ \A s \in Sessions :
          state[s] \in LiveStates /\ peers[Owner[s]] # s => s \in replaced

IInv ==
    /\ JobInv
    /\ PcInv
    /\ RegistryHoldsLive
    /\ IdleTimerIffActive
    /\ EverySessionHasAnEnd
    /\ OrphansAreBeingClosed
    /\ EldersInv
    /\ GatherInv
    /\ TermsBeforeOffer
    /\ ReplacedInv

-----------------------------------------------------------------------------
(* Refinement of SessionSlots: what the registry shows of a client key.    *)

SlotOf(c) ==
    LET s == peers[c]
    IN  IF s = NoSession THEN "free"
        ELSE IF s \in awaiting THEN "gated"
        ELSE [connecting |-> "pending", active |-> "up", closing |-> "ending"][state[s]]

Slots == INSTANCE SessionSlots WITH slot <- [c \in Clients |-> SlotOf(c)]

\* The registry keeps the promise of SessionSlots: every step of the daemon is a
\* step of one client's slot or none, whatever tasks and timers of earlier
\* sessions of that client are still running.
ImplementsSlots == Slots!Spec

-----------------------------------------------------------------------------
(* Liveness.                                                               *)

\* A session does not stay in "connecting": it becomes active or is disposed of,
\* whether it waits for terms, for the gather lock, for an answer, or was given
\* the answer to another offer.
ConnectingEnds ==
    \A s \in Sessions : state[s] = "connecting" ~> state[s] \in {"active", "closed"}

\* A session that was replaced is closed in the end.
ReplacedEnds ==
    \A s \in Sessions :
        (state[s] \in LiveStates /\ peers[Owner[s]] # s) ~> state[s] = "closed"

\* A session whose close() began is closed in the end, although the call that
\* began it may have been cancelled by itself.
ClosingEnds == \A s \in Sessions : state[s] = "closing" ~> state[s] = "closed"

\* Nobody waits for the gather lock for ever.
GatherServed == \A s \in Sessions : job[s] = "lock" ~> job[s] # "lock"

-----------------------------------------------------------------------------
(* What the documents say and the code does not do.                        *)

\* "The close() callback will decrement, but we immediately re-open. Net effect:
\* count stays the same" (daemon.py, _get_or_create_session): once no session is
\* being closed any more, the counter is the number of registered sessions.
CounterSettles ==
    (doomed = {} /\ \A s \in Sessions : state[s] # "closing") =>
        openCount = Cardinality(Registered)

\* "global concurrent session limit" (--max-sessions): the registry never holds
\* more sessions than that, whatever rules the policy has.
RegisteredWithinCap == MaxSessions > 0 => Cardinality(Registered) <= MaxSessions

\* "30-second timeout: If no acceptance within 30s, session is discarded"
\* (docs/ACCESS_CONTROL.md): a session that waits for terms is closed by a timer
\* only when its own thirty seconds are over.
DiscardedByOwnTimer ==
    [][\A s \in awaiting : doomed = {} /\ state'[s] = "closed" => s \notin termsTimer']_vars

=============================================================================
