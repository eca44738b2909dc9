-------------------------- MODULE ClientPageProofs --------------------------
(***************************************************************************)
(* Proofs about ClientPage, for any number of attempts, addresses and      *)
(* reconnects.                                                             *)
(***************************************************************************)
EXTENDS ClientPage, TLAPS

AttemptStates == {"unused", "connecting", "up", "shaky", "lost", "failed", "closed", "paused"}

\* The part of the types that the proofs need.
PageTypes ==
    /\ attempt \in [Attempts -> AttemptStates]
    /\ dialogs \in [Attempts -> Nat]
    /\ tunnel \in Attempts \cup {NoTunnel}
    /\ ready \in BOOLEAN
    /\ count \in Nat
    /\ timers \in Nat /\ probes \in Nat

\* The page never holds an attempt that has not returned.
TunnelReturned == tunnel # NoTunnel => attempt[tunnel] \notin {"unused", "connecting", "paused"}

IInv == PageTypes /\ TunnelReturned /\ ReadyIsUp /\ NotStranded

-----------------------------------------------------------------------------

LEMMA InitIInv == Init => IInv
<1> SUFFICES ASSUME Init PROVE IInv
  OBVIOUS
<1>1. attempt \in [Attempts -> AttemptStates] /\ dialogs \in [Attempts -> Nat]
  BY DEF Init, AttemptStates
<1>2. tunnel = NoTunnel /\ count = 0 /\ timers = 0 /\ probes = 0 /\ status = "none"
  BY DEF Init
<1>3. ready \in BOOLEAN /\ ~ready
  BY Zenon DEF Init
<1> QED BY <1>1, <1>2, <1>3 DEF IInv, PageTypes, TunnelReturned, ReadyIsUp, NotStranded

\* Scheduling a reconnect leaves a timer, or says why there is none.
LEMMA ScheduleEffect ==
    ASSUME PageTypes, Schedule
    PROVE  /\ count' \in Nat /\ timers' \in Nat
           /\ NotStranded'
BY PageAssumption DEF Schedule, PageTypes, NotStranded

LEMMA StartStep == ASSUME IInv, NEW a \in Attempts, StartConnection(a) PROVE IInv'
<1>1. attempt' \in [Attempts -> AttemptStates] /\ a \in Under' /\ UNCHANGED dialogs
  BY DEF StartConnection, IsNext, Closing, Under, IInv, PageTypes, AttemptStates
<1>2. tunnel' = NoTunnel /\ ready' = FALSE /\ count' = 0 /\ status' = "connecting"
      /\ UNCHANGED <<timers, probes>>
  BY DEF StartConnection
<1> QED BY <1>1, <1>2 DEF IInv, PageTypes, TunnelReturned, ReadyIsUp, NotStranded

\* Steps that move one attempt, which is not the one the page is ready with.
LEMMA AttemptSteps ==
    ASSUME IInv, NEW a \in Attempts,
           \/ AttemptReconnect(a) \/ OwnIps(a) \/ Connected(a) \/ ConnectFailed(a)
           \/ HandleDeny(a)
    PROVE  IInv'
<1>1. CASE AttemptReconnect(a)
  <2>1. attempt' \in [Attempts -> AttemptStates] /\ a \in Under' /\ timers' \in Nat
    BY <1>1 DEF AttemptReconnect, IsNext, Under, IInv, PageTypes, AttemptStates
  <2>2. tunnel # a
    BY <1>1, PageAssumption DEF AttemptReconnect, IsNext, IInv, TunnelReturned
  <2> QED BY <1>1, <2>1, <2>2 DEF AttemptReconnect, IInv, PageTypes, TunnelReturned, ReadyIsUp, NotStranded
<1>2. CASE OwnIps(a)
  BY <1>2 DEF OwnIps, userVars, Under, IInv, PageTypes, TunnelReturned, ReadyIsUp, NotStranded
<1>3. CASE Connected(a)
  <2>1. attempt' \in [Attempts -> AttemptStates] /\ attempt'[a] = "up" /\ count' \in Nat
    BY <1>3 DEF Connected, IInv, PageTypes, AttemptStates
  <2>2. tunnel' = a /\ status' = "connected" /\ UNCHANGED <<dialogs, timers, probes>>
    BY <1>3 DEF Connected
  <2>3. ready' \in BOOLEAN /\ ready'
    BY <1>3, Zenon DEF Connected
  <2>4. PageTypes'
    BY <2>1, <2>2, <2>3 DEF IInv, PageTypes
  <2>5. TunnelReturned' /\ ReadyIsUp' /\ NotStranded'
    BY <2>1, <2>2, <2>3, PageAssumption DEF TunnelReturned, ReadyIsUp, NotStranded
  <2> QED BY <2>4, <2>5 DEF IInv
<1>4. CASE ConnectFailed(a)
  <2>1. attempt' \in [Attempts -> AttemptStates] /\ tunnel # a
    BY <1>4, PageAssumption DEF ConnectFailed, Pending, IInv, PageTypes, TunnelReturned, AttemptStates
  <2>2. UNCHANGED <<dialogs, probes>> /\ attempt' = [attempt EXCEPT ![a] = "failed"]
    BY <1>4 DEF ConnectFailed
  <2>3. CASE a \in byUser
    <3>1. tunnel' = NoTunnel /\ status' = "failure" /\ UNCHANGED <<count, timers>>
      BY <1>4, <2>3 DEF ConnectFailed
    <3>2. ready' \in BOOLEAN /\ ~ready'
      BY <1>4, <2>3, Zenon DEF ConnectFailed
    <3> QED BY <2>1, <2>2, <3>1, <3>2 DEF IInv, PageTypes, TunnelReturned, ReadyIsUp, NotStranded
  <2>4. CASE a \notin byUser
    <3>1. Schedule /\ UNCHANGED <<tunnel, ready>>
      BY <1>4, <2>4 DEF ConnectFailed
    <3>2. PageTypes' /\ NotStranded'
      BY <2>1, <2>2, <3>1, ScheduleEffect DEF IInv, PageTypes
    <3>3. TunnelReturned' /\ ReadyIsUp'
      BY <2>1, <2>2, <3>1 DEF IInv, PageTypes, TunnelReturned, ReadyIsUp
    <3> QED BY <3>2, <3>3 DEF IInv
  <2> QED BY <2>3, <2>4
<1>5. CASE HandleDeny(a)
  <2>1. UNCHANGED <<attempt, dialogs, tunnel, timers, probes>> /\ count' \in Nat /\ status' = "failure"
    BY <1>5, PageAssumption DEF HandleDeny
  <2>2. ready' \in BOOLEAN /\ ~ready'
    BY <1>5, Zenon DEF HandleDeny
  <2> QED BY <2>1, <2>2 DEF IInv, PageTypes, TunnelReturned, ReadyIsUp, NotStranded
<1> QED BY <1>1, <1>2, <1>3, <1>4, <1>5

\* What accepted terms do to the attempt, and why what is shown then is true.
LEMMA AcceptedEffect ==
    ASSUME IInv, NEW a \in Attempts, Accepted(a), UNCHANGED <<tunnel, ready>>
    PROVE  /\ attempt' \in [Attempts -> AttemptStates] /\ TunnelReturned' /\ ReadyIsUp'
           /\ status' = "late" \/ (status' = "connecting" /\ Under' # {})
<1>1. attempt' \in [Attempts -> AttemptStates]
  BY DEF Accepted, IInv, PageTypes, AttemptStates
<1>2. \A b \in Attempts : attempt[b] # "paused" => attempt'[b] = attempt[b]
  BY DEF Accepted, IInv, PageTypes
<1>3. TunnelReturned'
  BY <1>2 DEF IInv, PageTypes, TunnelReturned
<1>4. ReadyIsUp'
  BY <1>2 DEF IInv, PageTypes, ReadyIsUp
<1>5. CASE attempt[a] \in Pending
  <2>1. attempt'[a] = "connecting" /\ status' = "connecting"
    BY <1>5 DEF Accepted, Pending, IInv, PageTypes
  <2> QED BY <1>1, <1>3, <1>4, <2>1 DEF Under
<1>6. CASE attempt[a] \notin Pending
  BY <1>1, <1>3, <1>4, <1>6 DEF Accepted
<1> QED BY <1>5, <1>6

LEMMA TermsSteps ==
    ASSUME IInv, NEW a \in Attempts,
           HandleTermsChallenge(a) \/ AcceptTerms(a) \/ DeclineTerms(a)
    PROVE  IInv'
<1>1. CASE HandleTermsChallenge(a)
  <2>1. UNCHANGED <<tunnel, ready, count, timers, probes>>
    BY <1>1 DEF HandleTermsChallenge
  <2>2. CASE Accepted(a) /\ UNCHANGED dialogs
    <3>1. NotStranded' /\ PageTypes'
      BY <2>1, <2>2, AcceptedEffect DEF IInv, PageTypes, NotStranded
    <3> QED BY <2>1, <2>2, <3>1, AcceptedEffect DEF IInv
  <2>3. CASE /\ dialogs' = [dialogs EXCEPT ![a] = @ + 1]
             /\ attempt' = IF attempt[a] = "connecting" THEN [attempt EXCEPT ![a] = "paused"] ELSE attempt
             /\ status' = "connecting"
    <3>1. attempt' \in [Attempts -> AttemptStates] /\ dialogs' \in [Attempts -> Nat] /\ dialogs'[a] > 0
      BY <2>3 DEF IInv, PageTypes, AttemptStates
    <3>2. \A b \in Attempts : attempt[b] # "connecting" => attempt'[b] = attempt[b]
      BY <2>3 DEF IInv, PageTypes
    <3>3. PageTypes' /\ NotStranded'
      BY <2>1, <2>3, <3>1 DEF IInv, PageTypes, NotStranded
    <3>4. TunnelReturned' /\ ReadyIsUp'
      BY <2>1, <3>2 DEF IInv, PageTypes, TunnelReturned, ReadyIsUp
    <3> QED BY <3>3, <3>4 DEF IInv
  <2> QED BY <1>1, <2>2, <2>3 DEF HandleTermsChallenge
<1>2. CASE AcceptTerms(a)
  <2>1. /\ UNCHANGED <<tunnel, ready, count, timers, probes>> /\ Accepted(a)
        /\ dialogs' = [dialogs EXCEPT ![a] = @ - 1] /\ dialogs[a] > 0
    BY <1>2 DEF AcceptTerms, CloseDialog
  <2>2. dialogs' \in [Attempts -> Nat]
    BY <2>1 DEF IInv, PageTypes
  <2>3. NotStranded' /\ PageTypes'
    BY <2>1, <2>2, AcceptedEffect DEF IInv, PageTypes, NotStranded
  <2> QED BY <2>1, <2>3, AcceptedEffect DEF IInv
<1>3. CASE DeclineTerms(a)
  <2>1. /\ UNCHANGED <<attempt, tunnel, ready, timers, probes>> /\ count' \in Nat /\ status' = "failure"
        /\ dialogs' = [dialogs EXCEPT ![a] = @ - 1] /\ dialogs[a] > 0
    BY <1>3, PageAssumption DEF DeclineTerms, CloseDialog
  <2>2. dialogs' \in [Attempts -> Nat]
    BY <2>1 DEF IInv, PageTypes
  <2> QED BY <2>1, <2>2 DEF IInv, PageTypes, TunnelReturned, ReadyIsUp, NotStranded
<1> QED BY <1>1, <1>2, <1>3

LEMMA LostStep == ASSUME IInv, NEW a \in Attempts, Lost(a) PROVE IInv'
<1>1. /\ attempt' \in [Attempts -> AttemptStates]
      /\ tunnel # NoTunnel => attempt'[tunnel] \notin {"unused", "connecting", "paused"}
      /\ UNCHANGED dialogs
  BY DEF Lost, IInv, PageTypes, TunnelReturned, AttemptStates
<1>2. ready' \in BOOLEAN /\ ~ready' /\ UNCHANGED tunnel /\ HandleDisconnect
  BY Zenon DEF Lost, HandleDisconnect
<1>3. CASE mode = "off"
  BY <1>1, <1>2, <1>3 DEF HandleDisconnect, IInv, PageTypes, TunnelReturned, ReadyIsUp, NotStranded
<1>4. CASE mode # "off" /\ mode = "smart" /\ known # NoAddress
  <2>1. probes' = probes + 1 /\ UNCHANGED <<count, timers, status>>
    BY <1>2, <1>4 DEF HandleDisconnect
  <2> QED BY <1>1, <1>2, <2>1 DEF IInv, PageTypes, TunnelReturned, ReadyIsUp, NotStranded
<1>5. CASE mode # "off" /\ ~(mode = "smart" /\ known # NoAddress)
  <2>1. Schedule /\ UNCHANGED probes
    BY <1>2, <1>5 DEF HandleDisconnect
  <2>2. PageTypes' /\ NotStranded'
    BY <1>1, <1>2, <2>1, ScheduleEffect DEF IInv, PageTypes
  <2> QED BY <1>1, <1>2, <2>2 DEF IInv, TunnelReturned, ReadyIsUp
<1> QED BY <1>3, <1>4, <1>5

LEMMA PageSteps == ASSUME IInv, ProbeEnds \/ Hide \/ Change PROVE IInv'
<1>1. CASE ProbeEnds
  <2>1. UNCHANGED <<attempt, dialogs, tunnel, ready>> /\ probes' \in Nat
    BY <1>1 DEF ProbeEnds, IInv, PageTypes
  <2>2. CASE Schedule
    <3>1. PageTypes' /\ NotStranded'
      BY <2>1, <2>2, ScheduleEffect DEF IInv, PageTypes
    <3>2. TunnelReturned' /\ ReadyIsUp'
      BY <2>1 DEF IInv, TunnelReturned, ReadyIsUp
    <3> QED BY <3>1, <3>2 DEF IInv
  <2>3. CASE status' = "failure" /\ UNCHANGED <<count, timers>>
    BY <2>1, <2>3 DEF IInv, PageTypes, TunnelReturned, ReadyIsUp, NotStranded
  <2> QED BY <1>1, <2>2, <2>3 DEF ProbeEnds
<1>2. CASE Hide
  <2>1. attempt' = [attempt EXCEPT ![tunnel] = "closed"] /\ tunnel \in Attempts
    BY <1>2 DEF Hide, Closing, IInv, PageTypes
  <2>2. attempt' \in [Attempts -> AttemptStates] /\ Under' = Under
    BY <2>1, PageAssumption DEF Under, IInv, PageTypes, TunnelReturned, AttemptStates
  <2> QED BY <1>2, <2>2 DEF Hide, IInv, PageTypes, TunnelReturned, ReadyIsUp, NotStranded
<1>3. CASE Change
  BY <1>3 DEF Change, Under, IInv, PageTypes, TunnelReturned, ReadyIsUp, NotStranded
<1> QED BY <1>1, <1>2, <1>3

LEMMA NextIInv == IInv /\ [Next]_vars => IInv'
<1> SUFFICES ASSUME IInv, [Next]_vars PROVE IInv'
  OBVIOUS
<1>1. CASE UNCHANGED vars
  BY <1>1 DEF vars, Under, IInv, PageTypes, TunnelReturned, ReadyIsUp, NotStranded
<1>2. CASE Next
  BY <1>2, StartStep, AttemptSteps, TermsSteps, LostStep, PageSteps DEF Next
<1> QED BY <1>1, <1>2

\* Every reachable state satisfies the inductive invariant, from which the properties follow.
THEOREM Invariance == Spec => []IInv
BY InitIInv, NextIInv, PTL DEF Spec

\* tunnelReady is set only while the tunnel the page holds is up (startConnection,
\* attemptReconnect, handleDisconnect and the abort of a hidden page).
THEOREM ReadyIsUpHolds == Spec => []ReadyIsUp
<1>1. IInv => ReadyIsUp
  BY DEF IInv
<1> QED BY <1>1, Invariance, PTL

\* What the page shows is backed by something that will change it (scheduleReconnect and
\* the catch blocks of the two connection functions).
THEOREM NotStrandedHolds == Spec => []NotStranded
<1>1. IInv => NotStranded
  BY DEF IInv
<1> QED BY <1>1, Invariance, PTL

\* Scheduling a reconnect keeps the count within max_attempts.
LEMMA ScheduleTypes ==
    ASSUME TypeOK, Schedule
    PROVE  /\ count' \in 0..MaxReconnect /\ timers' \in Nat /\ overlay' \in BOOLEAN
           /\ status' \in {"none", "connecting", "late", "connected", "failure"}
<1>1. count \in 0..MaxReconnect /\ timers \in Nat /\ overlay \in BOOLEAN /\ MaxReconnect \in Nat
  BY PageAssumption DEF TypeOK
<1>2. CASE count >= MaxReconnect
  <2>1. overlay' \in BOOLEAN
    BY <1>2 DEF Schedule
  <2> QED BY <1>1, <1>2, <2>1 DEF Schedule
<1>3. CASE ~(count >= MaxReconnect)
  <2>1. overlay' \in BOOLEAN
    BY <1>1, <1>3 DEF Schedule
  <2> QED BY <1>1, <1>3, <2>1 DEF Schedule
<1> QED BY <1>2, <1>3

LEMMA NextTypes == TypeOK /\ [Next]_vars => TypeOK'
<1> SUFFICES ASSUME TypeOK, [Next]_vars PROVE TypeOK'
  OBVIOUS
<1>1. CASE UNCHANGED vars
  BY <1>1 DEF vars, TypeOK
<1>2. ASSUME NEW a \in Attempts, StartConnection(a) PROVE TypeOK'
  <2>1. attempt' \in [Attempts -> {"unused", "connecting", "up", "shaky", "lost", "failed", "closed", "paused"}]
    BY <1>2 DEF StartConnection, IsNext, Closing, TypeOK
  <2>2. ready' \in BOOLEAN /\ byUser' \subseteq Attempts /\ denied' \in BOOLEAN
    BY Zenon, <1>2 DEF StartConnection, TypeOK
  <2> QED BY <1>2, <2>1, <2>2, PageAssumption DEF StartConnection, userVars, TypeOK
<1>3. ASSUME NEW a \in Attempts, AttemptReconnect(a) PROVE TypeOK'
  BY <1>3 DEF AttemptReconnect, IsNext, userVars, TypeOK
<1>4. ASSUME NEW a \in Attempts, OwnIps(a) PROVE TypeOK'
  BY <1>4 DEF OwnIps, userVars, TypeOK
<1>5. ASSUME NEW a \in Attempts, Connected(a) PROVE TypeOK'
  <2>1. ready' \in BOOLEAN /\ overlay' \in BOOLEAN
    BY Zenon, <1>5 DEF Connected
  <2> QED BY <1>5, <2>1, PageAssumption DEF Connected, userVars, TypeOK
<1>6. ASSUME NEW a \in Attempts, ConnectFailed(a) PROVE TypeOK'
  <2>1. /\ attempt' = [attempt EXCEPT ![a] = "failed"]
        /\ UNCHANGED <<byUser, denied, dialogs, probes, known, mode, address>>
    BY <1>6 DEF ConnectFailed, userVars
  <2>2. CASE a \in byUser
    BY <1>6, <2>1, <2>2 DEF ConnectFailed, TypeOK
  <2>3. CASE a \notin byUser
    <3>1. Schedule /\ UNCHANGED <<tunnel, ready>>
      BY <1>6, <2>3 DEF ConnectFailed
    <3> QED BY <2>1, <3>1, ScheduleTypes DEF TypeOK
  <2> QED BY <2>2, <2>3
<1>7. ASSUME NEW a \in Attempts, Lost(a) PROVE TypeOK'
  <2>1. /\ attempt' \in [Attempts -> {"unused", "connecting", "up", "shaky", "lost", "failed", "closed", "paused"}]
        /\ UNCHANGED <<byUser, denied, dialogs, tunnel, known, mode, address>> /\ HandleDisconnect /\ ready' = FALSE
    BY <1>7 DEF Lost, HandleDisconnect, userVars, TypeOK
  <2>2. /\ count' \in 0..MaxReconnect /\ timers' \in Nat /\ probes' \in Nat /\ overlay' \in BOOLEAN
        /\ status' \in {"none", "connecting", "late", "connected", "failure"}
    <3>1. CASE Schedule /\ UNCHANGED probes
      BY <3>1, ScheduleTypes DEF TypeOK
    <3>2. CASE UNCHANGED <<count, timers>> /\ probes' \in {probes, probes + 1} /\ overlay' \in {TRUE, overlay}
               /\ status' \in {"failure", status}
      <4>1. overlay' \in BOOLEAN
        BY Zenon, <3>2 DEF TypeOK
      <4> QED BY <3>2, <4>1 DEF TypeOK
    <3> QED BY <2>1, <3>1, <3>2 DEF HandleDisconnect
  <2> QED BY <2>1, <2>2 DEF TypeOK
<1>8. ASSUME NEW a \in Attempts, HandleDeny(a) PROVE TypeOK'
  <2>1. ready' \in BOOLEAN /\ denied' \in BOOLEAN
    BY Zenon, <1>8 DEF HandleDeny
  <2> QED BY <1>8, <2>1, PageAssumption DEF HandleDeny, userVars, TypeOK
<1>12. ASSUME NEW a \in Attempts, HandleTermsChallenge(a) \/ AcceptTerms(a) \/ DeclineTerms(a) PROVE TypeOK'
  <2>1. UNCHANGED <<byUser, denied, tunnel, ready, timers, probes, known, mode, address, overlay>>
    BY <1>12 DEF HandleTermsChallenge, AcceptTerms, DeclineTerms, CloseDialog, userVars
  <2>2. status' \in {"none", "connecting", "late", "connected", "failure"}
    BY <1>12 DEF HandleTermsChallenge, AcceptTerms, DeclineTerms, Accepted
  <2>3. count' \in 0..MaxReconnect
    BY <1>12, PageAssumption DEF HandleTermsChallenge, AcceptTerms, DeclineTerms, TypeOK
  <2>4. dialogs' \in [Attempts -> Nat]
    BY <1>12 DEF HandleTermsChallenge, AcceptTerms, DeclineTerms, CloseDialog, TypeOK
  <2>5. attempt' \in [Attempts -> {"unused", "connecting", "up", "shaky", "lost", "failed", "closed", "paused"}]
    BY <1>12 DEF HandleTermsChallenge, AcceptTerms, DeclineTerms, Accepted, TypeOK
  <2> QED BY <2>1, <2>2, <2>3, <2>4, <2>5 DEF TypeOK
<1>9. CASE ProbeEnds
  <2>1. UNCHANGED <<attempt, byUser, denied, dialogs, tunnel, ready, known, mode, address>> /\ probes' \in Nat
    BY <1>9 DEF ProbeEnds, userVars, TypeOK
  <2>2. CASE Schedule
    BY <2>1, <2>2, ScheduleTypes DEF TypeOK
  <2>3. CASE status' = "failure" /\ overlay' = TRUE /\ UNCHANGED <<count, timers>>
    BY <2>1, <2>3 DEF TypeOK
  <2> QED BY <1>9, <2>2, <2>3 DEF ProbeEnds
<1>10. CASE Hide
  BY <1>10 DEF Hide, Closing, userVars, TypeOK
<1>11. CASE Change
  BY <1>11 DEF Change, TypeOK
<1> QED BY <1>1, <1>2, <1>3, <1>4, <1>5, <1>6, <1>7, <1>8, <1>9, <1>10, <1>11, <1>12 DEF Next

\* Every reachable state of the page is type-correct; the count of reconnects stays within
\* max_attempts, whoever raises it.
THEOREM PageTypeCorrect == Spec => []TypeOK
<1>1. Init => TypeOK
  <2> SUFFICES ASSUME Init PROVE TypeOK
    OBVIOUS
  <2>1. ready \in BOOLEAN /\ overlay \in BOOLEAN /\ denied \in BOOLEAN
    BY Zenon DEF Init
  <2> QED BY <2>1, PageAssumption DEF Init, TypeOK
<1> QED BY <1>1, NextTypes, PTL DEF Spec

-----------------------------------------------------------------------------
(* After a denial                                                          *)

Silent == {"unused", "connecting", "paused", "failed"}

\* The daemon has denied an attempt, and no reconnect got through since the user started.
Stopped == denied /\ \A a \in Attempts \ byUser : attempt[a] \in Silent

\* handleDeny stops the reconnects by raising the count; it is lowered again only by a
\* reconnect that gets through or by the user.
CountSpent == Stopped => count = MaxReconnect

DenyInv == TypeOK /\ CountSpent

\* A count that is spent stays spent while no attempt but the user's comes up.
LEMMA SpentStays ==
    ASSUME DenyInv, denied' = denied, byUser' = byUser,
           \A a \in Attempts : attempt'[a] \in Silent => attempt[a] \in Silent,
           count' = count \/ Schedule
    PROVE  CountSpent' /\ (Stopped => count' = count)
<1>1. count \in 0..MaxReconnect /\ MaxReconnect \in Nat
  BY PageAssumption DEF DenyInv, TypeOK
<1>2. Stopped' => Stopped
  BY DEF Stopped
<1>3. Stopped => count' = count
  BY <1>1 DEF DenyInv, CountSpent, Schedule
<1> QED BY <1>2, <1>3 DEF DenyInv, CountSpent

\* What an attempt becomes, if only one attempt moves.
LEMMA OneMoves ==
    ASSUME TypeOK, NEW a \in Attempts, NEW s,
           attempt' = [attempt EXCEPT ![a] = s], s \in Silent => attempt[a] \in Silent
    PROVE  \A b \in Attempts : attempt'[b] \in Silent => attempt[b] \in Silent
BY DEF TypeOK

LEMMA NextSpent == ASSUME DenyInv, [Next]_vars PROVE CountSpent'
<1>t. TypeOK /\ CountSpent
  BY DEF DenyInv
<1>1. CASE UNCHANGED vars
  BY <1>t, <1>1 DEF vars, CountSpent, Stopped
<1>2. ASSUME NEW a \in Attempts, StartConnection(a) PROVE CountSpent'
  BY <1>2 DEF StartConnection, CountSpent, Stopped
<1>3. ASSUME NEW a \in Attempts, AttemptReconnect(a) PROVE CountSpent'
  <2>1. attempt[a] \in Silent /\ attempt' = [attempt EXCEPT ![a] = "connecting"]
        /\ UNCHANGED <<denied, byUser, count>>
    BY <1>3 DEF AttemptReconnect, IsNext, Silent
  <2> QED BY <1>t, <2>1, OneMoves, SpentStays
<1>4. ASSUME NEW a \in Attempts, OwnIps(a) PROVE CountSpent'
  <2>1. UNCHANGED <<attempt, denied, byUser, count>>
    BY <1>4 DEF OwnIps
  <2> QED BY <2>1, SpentStays
<1>5. ASSUME NEW a \in Attempts, Connected(a) PROVE CountSpent'
  <2>1. attempt' = [attempt EXCEPT ![a] = "up"] /\ UNCHANGED <<denied, byUser>>
        /\ count' = IF a \in byUser THEN count ELSE 0
    BY <1>5 DEF Connected
  <2>2. "up" \notin Silent
    BY DEF Silent
  <2>3. CASE a \in byUser
    BY <1>t, <2>1, <2>2, <2>3, OneMoves, SpentStays
  <2>4. CASE a \notin byUser
    <3>1. attempt'[a] = "up"
      BY <2>1, <1>t DEF TypeOK
    <3> QED BY <2>1, <2>2, <2>4, <3>1 DEF CountSpent, Stopped
  <2> QED BY <2>3, <2>4
<1>6. ASSUME NEW a \in Attempts, ConnectFailed(a) PROVE CountSpent'
  <2>1. attempt[a] \in Silent /\ attempt' = [attempt EXCEPT ![a] = "failed"]
        /\ UNCHANGED <<denied, byUser>> /\ (count' = count \/ Schedule)
    BY <1>6 DEF ConnectFailed, Pending, Silent
  <2> QED BY <1>t, <2>1, OneMoves, SpentStays
<1>7. ASSUME NEW a \in Attempts, Lost(a) PROVE CountSpent'
  <2>1. /\ \E s \in {"shaky", "lost"} : attempt' = [attempt EXCEPT ![a] = s]
        /\ UNCHANGED <<denied, byUser>> /\ (count' = count \/ Schedule)
    BY <1>7 DEF Lost, HandleDisconnect
  <2>2. "shaky" \notin Silent /\ "lost" \notin Silent
    BY DEF Silent
  <2> QED BY <1>t, <2>1, <2>2, OneMoves, SpentStays
<1>8. ASSUME NEW a \in Attempts, HandleDeny(a) \/ DeclineTerms(a) PROVE CountSpent'
  BY <1>8 DEF HandleDeny, DeclineTerms, CountSpent
<1>12. ASSUME NEW a \in Attempts, HandleTermsChallenge(a) \/ AcceptTerms(a) PROVE CountSpent'
  <2>1. UNCHANGED <<denied, byUser, count>>
    BY <1>12 DEF HandleTermsChallenge, AcceptTerms, CloseDialog
  <2>2. \/ UNCHANGED attempt
        \/ \E s \in Silent : attempt' = [attempt EXCEPT ![a] = s] /\ attempt[a] \in Silent
    BY <1>12 DEF HandleTermsChallenge, AcceptTerms, Accepted, Silent
  <2> QED BY <1>t, <2>1, <2>2, OneMoves, SpentStays
<1>9. CASE ProbeEnds
  <2>1. UNCHANGED <<attempt, denied, byUser>> /\ (count' = count \/ Schedule)
    BY <1>9 DEF ProbeEnds
  <2> QED BY <2>1, SpentStays
<1>10. CASE Hide
  <2>1. tunnel \in Attempts /\ attempt' = [attempt EXCEPT ![tunnel] = "closed"]
        /\ UNCHANGED <<denied, byUser, count>>
    BY <1>10, <1>t DEF Hide, Closing, TypeOK
  <2>2. "closed" \notin Silent
    BY DEF Silent
  <2> QED BY <1>t, <2>1, <2>2, OneMoves, SpentStays
<1>11. CASE Change
  <2>1. UNCHANGED <<attempt, denied, byUser, count>>
    BY <1>11 DEF Change
  <2> QED BY <2>1, SpentStays
<1> QED BY <1>1, <1>2, <1>3, <1>4, <1>5, <1>6, <1>7, <1>8, <1>9, <1>10, <1>11, <1>12 DEF Next

LEMMA DenyInvariance == Spec => []DenyInv
<1>1. Init => CountSpent
  BY DEF Init, CountSpent, Stopped
<1>2. DenyInv /\ [Next]_vars => CountSpent'
  BY NextSpent
<1> QED BY PageTypeCorrect, <1>1, <1>2, PTL DEF Spec, DenyInv

\* A timer is set only by scheduling, and scheduling with a spent count sets none.
LEMMA NoTimerWhenStopped == ASSUME DenyInv, [Next]_vars, Stopped PROVE timers' <= timers
<1>1. timers \in Nat /\ count = MaxReconnect /\ MaxReconnect \in Nat
  BY PageAssumption DEF DenyInv, TypeOK, CountSpent
<1>2. Schedule => timers' = timers
  BY <1>1 DEF Schedule
<1>3. UNCHANGED vars => timers' = timers
  BY DEF vars
<1>4. \A a \in Attempts : AttemptReconnect(a) => timers' <= timers
  BY <1>1 DEF AttemptReconnect
<1>5. \A a \in Attempts :
        \/ StartConnection(a) \/ OwnIps(a) \/ Connected(a) \/ HandleDeny(a)
        \/ HandleTermsChallenge(a) \/ AcceptTerms(a) \/ DeclineTerms(a)
        => timers' = timers
  BY DEF StartConnection, OwnIps, Connected, HandleDeny, HandleTermsChallenge, AcceptTerms, DeclineTerms, CloseDialog
<1>6. \A a \in Attempts : ConnectFailed(a) \/ Lost(a) => timers' = timers
  BY <1>2 DEF ConnectFailed, Lost, HandleDisconnect
<1>7. ProbeEnds \/ Hide \/ Change => timers' = timers
  BY <1>2 DEF ProbeEnds, Hide, Change
<1> QED BY <1>1, <1>3, <1>4, <1>5, <1>6, <1>7 DEF Next

\* handleDeny: "Stop reconnect attempts".  After a denial no loss, probe or failure that
\* comes in late schedules a reconnect, until one that was under way gets through.
THEOREM NoneScheduledAfterDenyHolds == Spec => NoneScheduledAfterDeny
<1>1. DenyInv /\ [Next]_vars =>
        [(denied /\ \A a \in Attempts \ byUser : attempt[a] \in {"unused", "connecting", "paused", "failed"})
            => timers' <= timers]_vars
  BY NoTimerWhenStopped DEF Stopped, Silent
<1> QED BY DenyInvariance, <1>1, PTL DEF Spec, NoneScheduledAfterDeny

=============================================================================
