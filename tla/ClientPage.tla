----------------------------- MODULE ClientPage -----------------------------
(***************************************************************************)
(* How the page (browser/client.html) keeps a tunnel: startConnection,     *)
(* handleDisconnect, the smart probe, scheduled reconnects, denials, the   *)
(* challenge to accept terms, and the abort of a hidden page.              *)
(*                                                                         *)
(* An attempt is a call of connect(), which ClientConnect models, and the  *)
(* tunnel it returns.  An attempt has an owner only once it has returned   *)
(* and the page has put it into its variable tunnel; several may be under  *)
(* way, and a tunnel that is overwritten goes on calling the page.  So do  *)
(* the signals of an attempt that has failed or is up: its transport is    *)
(* left alone, and a message that took two relays is handled twice.        *)
(***************************************************************************)
EXTENDS Naturals

CONSTANTS
    Attempts,    \* the calls of connect() (a bound on their number)
    Modes,       \* the reconnect modes the user may choose: off, on, smart
    Addresses,   \* the external addresses the user may have
    NoTunnel,    \* null
    NoAddress,   \* lastKnownExitIPs is empty
    MaxReconnect, \* reconnect.max_attempts
    MaxDialogs   \* terms dialogs of each attempt that may be open at once (a bound)

ASSUME PageAssumption ==
    /\ Modes \subseteq {"off", "on", "smart"}
    /\ NoTunnel \notin Attempts /\ NoAddress \notin Addresses /\ MaxReconnect \in Nat \ {0}
    /\ MaxDialogs \in [Attempts -> Nat]

VARIABLES
    attempt,      \* what has become of each attempt
    byUser,       \* the attempts of startConnection; the others are attemptReconnect's
    denied,       \* the daemon has denied an attempt since the user last started
    dialogs,      \* for each attempt, the terms dialogs that are open
    tunnel, ready, count, mode, \* tunnel, tunnelReady, reconnectAttempts, reconnectMode
    timers,       \* scheduled calls of attemptReconnect
    probes,       \* probes of the external address that have not ended
    known, address, \* lastKnownExitIPs, and the address the user has now
    status,       \* what setStatus shows; "late" is shown as connecting too
    overlay       \* the reconnect overlay is shown

vars == <<attempt, byUser, denied, dialogs, tunnel, ready, count, mode, timers, probes, known,
          address, status, overlay>>

userVars == <<mode, address>>

Under == {a \in Attempts : attempt[a] = "connecting"}

\* connect() has neither returned nor thrown.  It is paused once a terms dialog has stopped
\* its timer.
Pending == {"connecting", "paused"}

\* The sockets of the attempt are not closed.
Live == Pending \cup {"up", "shaky", "lost", "failed"}

Init ==
    /\ attempt = [a \in Attempts |-> "unused"]
    /\ byUser = {} /\ denied = FALSE
    /\ dialogs = [a \in Attempts |-> 0]
    /\ tunnel = NoTunnel /\ ready = FALSE
    /\ count = 0
    /\ mode \in Modes
    /\ timers = 0 /\ probes = 0
    /\ known = NoAddress /\ address \in Addresses
    /\ status = "none" /\ overlay = FALSE

-----------------------------------------------------------------------------

\* Attempts begin in a fixed order: their identities mean nothing.
IsNext(a) == attempt[a] = "unused" /\ a = CHOOSE b \in Attempts : attempt[b] = "unused"

\* close() of a tunnel: it calls nobody any more.
Closing(t) == IF t = NoTunnel THEN attempt ELSE [attempt EXCEPT ![t] = "closed"]

\* The user enters a name or presses retry.  Only a tunnel that connect() has returned
\* can be closed.
StartConnection(a) ==
    /\ IsNext(a)
    /\ attempt' = [Closing(tunnel) EXCEPT ![a] = "connecting"]
    /\ byUser' = byUser \cup {a}
    /\ denied' = FALSE
    /\ tunnel' = NoTunnel /\ ready' = FALSE
    /\ count' = 0
    /\ known' = NoAddress
    /\ status' = "connecting"
    /\ UNCHANGED <<dialogs, timers, probes, userVars, overlay>>

\* Fault: the page is ready before it has a tunnel.
ReconnectReadyEarly(a) ==
    /\ IsNext(a)
    /\ timers > 0
    /\ timers' = timers - 1
    /\ attempt' = [attempt EXCEPT ![a] = "connecting"]
    /\ ready' = TRUE
    /\ UNCHANGED <<byUser, denied, dialogs, tunnel, count, probes, known, userVars, status, overlay>>

\* attemptReconnect, when its timer fires: whatever has happened since.
AttemptReconnect(a) ==
    /\ IsNext(a)
    /\ timers > 0
    /\ timers' = timers - 1
    /\ attempt' = [attempt EXCEPT ![a] = "connecting"]
    /\ UNCHANGED <<byUser, denied, dialogs, tunnel, ready, count, probes, known, userVars, status, overlay>>

\* handleOwnIpsFromStun, on the way to an announce.  What it awaited may come back after
\* the attempt has ended.
OwnIps(a) ==
    /\ attempt[a] # "unused"
    /\ known' = address
    /\ UNCHANGED <<attempt, byUser, denied, dialogs, tunnel, ready, count, timers, probes, userVars, status, overlay>>

\* connect() returns: the tunnel of an earlier attempt is forgotten, not closed.  The page
\* navigates, which replaces the overlay.
Connected(a) ==
    /\ attempt[a] \in Pending
    /\ attempt' = [attempt EXCEPT ![a] = "up"]
    /\ tunnel' = a /\ ready' = TRUE
    /\ count' = IF a \in byUser THEN count ELSE 0
    /\ status' = "connected" /\ overlay' = FALSE
    /\ UNCHANGED <<byUser, denied, dialogs, timers, probes, known, userVars>>

\* scheduleReconnect, and its copy in the catch block of attemptReconnect.
Schedule ==
    IF count >= MaxReconnect
    THEN status' = "failure" /\ overlay' = TRUE /\ UNCHANGED <<count, timers>>
    ELSE /\ count' = count + 1 /\ timers' = timers + 1
         /\ status' = "connecting" /\ UNCHANGED overlay

\* Fault: a failed reconnect is left alone.
FailedQuietly(a) ==
    /\ attempt[a] \in Pending
    /\ attempt' = [attempt EXCEPT ![a] = "failed"]
    /\ IF a \in byUser
       THEN tunnel' = NoTunnel /\ ready' = FALSE /\ status' = "failure"
       ELSE UNCHANGED <<tunnel, ready, status>>
    /\ UNCHANGED <<byUser, denied, dialogs, count, timers, overlay, probes, known, userVars>>

\* connect() fails.  A failed start clears tunnel, whosever it is.
ConnectFailed(a) ==
    /\ attempt[a] \in Pending
    /\ attempt' = [attempt EXCEPT ![a] = "failed"]
    /\ IF a \in byUser
       THEN /\ tunnel' = NoTunnel /\ ready' = FALSE /\ status' = "failure"
            /\ UNCHANGED <<count, timers, overlay>>
       ELSE Schedule /\ UNCHANGED <<tunnel, ready>>
    /\ UNCHANGED <<byUser, denied, dialogs, probes, known, userVars>>

HandleDisconnect ==
    /\ ready' = FALSE
    /\ IF mode = "off"
       THEN status' = "failure" /\ overlay' = TRUE /\ UNCHANGED <<count, timers, probes>>
       ELSE IF mode = "smart" /\ known # NoAddress
       THEN probes' = probes + 1 /\ UNCHANGED <<count, timers, status, overlay>>
       ELSE Schedule /\ UNCHANGED probes

\* Each state of the peer connection that is not connected calls handleDisconnect, of every
\* tunnel the page did not close.
Lost(a) ==
    /\ \/ attempt[a] = "up" /\ attempt' = [attempt EXCEPT ![a] = "shaky"]
       \/ attempt[a] \in {"up", "shaky"} /\ attempt' = [attempt EXCEPT ![a] = "lost"]
    /\ HandleDisconnect
    /\ UNCHANGED <<byUser, denied, dialogs, tunnel, known, userVars>>

\* The probe reads lastKnownExitIPs when it ends.
ProbeEnds ==
    /\ probes > 0
    /\ probes' = probes - 1
    /\ \/ address = known /\ Schedule
       \/ status' = "failure" /\ overlay' = TRUE /\ UNCHANGED <<count, timers>>
    /\ UNCHANGED <<attempt, byUser, denied, dialogs, tunnel, ready, known, userVars>>

\* Fault: a denial is shown and nothing else.
HandleDenyShown(a) ==
    /\ attempt[a] \in Live
    /\ denied' = TRUE
    /\ ready' = FALSE
    /\ status' = "failure"
    /\ UNCHANGED <<attempt, byUser, dialogs, tunnel, count, timers, probes, known, userVars, overlay>>

\* handleDeny: no more reconnects are to be scheduled.
HandleDeny(a) ==
    /\ attempt[a] \in Live
    /\ denied' = TRUE
    /\ ready' = FALSE
    /\ count' = MaxReconnect
    /\ status' = "failure"
    /\ UNCHANGED <<attempt, byUser, dialogs, tunnel, timers, probes, known, userVars, overlay>>

\* acceptTerms: the timer runs again if connect() waits.  What is shown is that the page
\* connects, also if this attempt has long come to its end.
Accepted(a) ==
    /\ attempt' = IF attempt[a] = "paused" THEN [attempt EXCEPT ![a] = "connecting"] ELSE attempt
    /\ status' = IF attempt[a] \in Pending THEN "connecting" ELSE "late"

\* handleTermsChallenge, for each copy of the message: the version was accepted in this
\* browser session, or a dialog stops the timer.
HandleTermsChallenge(a) ==
    /\ attempt[a] \in Live
    /\ \/ Accepted(a) /\ UNCHANGED dialogs
       \/ /\ dialogs[a] < MaxDialogs[a]
          /\ dialogs' = [dialogs EXCEPT ![a] = @ + 1]
          /\ attempt' = IF attempt[a] = "connecting" THEN [attempt EXCEPT ![a] = "paused"] ELSE attempt
          /\ status' = "connecting"
    /\ UNCHANGED <<byUser, denied, tunnel, ready, count, timers, probes, known, userVars, overlay>>

CloseDialog(a) ==
    /\ dialogs[a] > 0
    /\ dialogs' = [dialogs EXCEPT ![a] = @ - 1]
    /\ UNCHANGED <<byUser, denied, tunnel, ready, timers, probes, known, userVars, overlay>>

AcceptTerms(a) == CloseDialog(a) /\ Accepted(a) /\ UNCHANGED count

\* Fault: the page goes on to show that it waits for the terms.
DeclineQuietly(a) == CloseDialog(a) /\ count' = MaxReconnect /\ UNCHANGED <<attempt, status>>

\* connect() stays pending.
DeclineTerms(a) ==
    CloseDialog(a) /\ count' = MaxReconnect /\ status' = "failure" /\ UNCHANGED attempt

\* visibilitychange
Hide ==
    /\ tunnel # NoTunnel /\ ~ready
    /\ attempt' = Closing(tunnel)
    /\ tunnel' = NoTunnel
    /\ UNCHANGED <<byUser, denied, dialogs, ready, count, timers, probes, known, userVars, status, overlay>>

\* The user changes the mode; the network changes the address.
Change ==
    /\ \/ mode' \in Modes \ {mode} /\ UNCHANGED address
       \/ address' \in Addresses \ {address} /\ UNCHANGED mode
    /\ UNCHANGED <<attempt, byUser, denied, dialogs, tunnel, ready, count, timers, probes, known, status, overlay>>

Next ==
    \/ \E a \in Attempts :
          \/ StartConnection(a) \/ AttemptReconnect(a) \/ OwnIps(a) \/ Connected(a)
          \/ ConnectFailed(a) \/ Lost(a) \/ HandleDeny(a)
          \/ HandleTermsChallenge(a) \/ AcceptTerms(a) \/ DeclineTerms(a)
    \/ ProbeEnds \/ Hide \/ Change

Spec == Init /\ [][Next]_vars

\* Timers fire, probes end after five seconds, and connect() returns or fails while its
\* timer runs.  The user need not answer a dialog.
Fairness ==
    /\ WF_vars(\E a \in Attempts : AttemptReconnect(a))
    /\ WF_vars(ProbeEnds)
    /\ \A a \in Attempts : WF_vars(a \in Under /\ (Connected(a) \/ ConnectFailed(a)))

FairSpec == Spec /\ Fairness

-----------------------------------------------------------------------------

TypeOK ==
    /\ attempt \in [Attempts -> {"unused", "connecting", "up", "shaky", "lost", "failed", "closed", "paused"}]
    /\ byUser \subseteq Attempts /\ denied \in BOOLEAN
    /\ dialogs \in [Attempts -> Nat]
    /\ tunnel \in Attempts \cup {NoTunnel}
    /\ ready \in BOOLEAN
    /\ count \in 0..MaxReconnect
    /\ mode \in Modes
    /\ timers \in Nat /\ probes \in Nat
    /\ known \in Addresses \cup {NoAddress} /\ address \in Addresses
    /\ status \in {"none", "connecting", "late", "connected", "failure"}
    /\ overlay \in BOOLEAN

\* tunnelReady is never set for a tunnel that is closed, lost or missing, although events
\* of forgotten tunnels and of older attempts come in between.
ReadyIsUp == ready => tunnel # NoTunnel /\ attempt[tunnel] = "up"

\* The page never shows that it is connecting when nothing is under way that could end
\* that, and shows that it is connected only while it is or while it probes the address.
\* One exception: terms may be accepted for an attempt that has failed or is up, by a copy
\* of the challenge that comes late or by a second dialog behind the first.  The code then
\* shows "connecting" whatever is under way, and nothing need ever change it.
NotStranded ==
    /\ status = "connecting" => timers > 0 \/ probes > 0 \/ Under # {} \/ \E a \in Attempts : dialogs[a] > 0
    /\ status = "connected" => ready \/ probes > 0

\* Whoever loses the tunnel of the page gets a new one or is told, or is left with terms to
\* accept: the chain of probes, timers and attempts does not break.  (A timer needs an
\* attempt, of which there are finitely many here.)
LossIsAnswered ==
    tunnel # NoTunnel /\ attempt[tunnel] \in {"shaky", "lost"}
        ~> \/ ready \/ overlay \/ status = "failure"
           \/ \E a \in Attempts : attempt[a] = "paused"
           \/ \A a \in Attempts : attempt[a] # "unused"

\* handleDeny: "Stop reconnect attempts (daemon explicitly denied us)".  What is true of it:
\* no reconnect is scheduled after a denial, by whatever loss, probe or failure comes in
\* late, unless a reconnect got through.  One whose timer runs already begins all the same.
NoneScheduledAfterDeny ==
    [][(denied /\ \A a \in Attempts \ byUser : attempt[a] \in {"unused", "connecting", "paused", "failed"})
          => timers' <= timers]_vars

\* startConnection: "Abort any in-flight connection from a previous attempt".
StartAbortsOthers ==
    [][\A a \in Attempts : a \notin byUser /\ a \in byUser' =>
          \A b \in Attempts \ {a} : attempt'[b] \notin {"connecting", "up"}]_vars

\* ACCESS_CONTROL.md on loud-deny: "Client stops reconnecting".
DenyStops ==
    [][(\E a \in Attempts : AttemptReconnect(a)) => ~denied]_vars

\* PROTOCOL.md: "if the DataChannel drops, the client retries".
RetriesOnlyAfterDrop ==
    [][(\E a \in Attempts : AttemptReconnect(a)) => ~ready]_vars

\* ACCESS_CONTROL.md: in smart mode, "Reconnect only if external IP is unchanged".
SmartKeepsAddress ==
    [][(\E a \in Attempts : AttemptReconnect(a)) /\ mode = "smart" /\ known # NoAddress
          => address = known]_vars

=============================================================================
