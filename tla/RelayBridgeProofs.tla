-------------------------- MODULE RelayBridgeProofs --------------------------
(***************************************************************************)
(* Proofs about RelayBridge, for any number of clients and sessions.       *)
(*                                                                         *)
(* _check_bridge reads the registry, sleeps, and then looks only at the    *)
(* states of the two sessions it has found.  That this is enough follows   *)
(* from an invariant of the registry: a session that is still connecting   *)
(* or active is the one its client is registered with, or its close() is   *)
(* scheduled, and then no other session of the client is active.           *)
(***************************************************************************)
EXTENDS RelayBridge, TLAPS

States == {"unborn", "connecting", "active", "closing", "closed"}
Pairs == Clients \X Clients
SessionPairs == Sessions \X Sessions

BridgeTypes ==
    /\ peers \in [Clients -> Sessions \cup {None}]
    /\ state \in [Sessions -> States]
    /\ partner \in [Sessions -> Sessions \cup {None}]
    /\ pending \in [Clients -> Clients \cup {None}]
    /\ bridges \in [Clients -> Clients \cup {None}]
    /\ timers \subseteq Requests
    /\ doomed \subseteq Sessions
    /\ \A c \in Clients : peers[c] # None => Owner[peers[c]] = c

\* The tasks that sleep in _check_bridge and _teardown_bridge.  What a task has found are
\* sessions of the two clients of a request.
CheckTypes ==
    /\ check \in [Sessions -> [at : {"none", "ready", "grace", "telling"}, todo : SUBSET Requests,
                               pair : Requests \cup {<<>>}, sessions : SessionPairs \cup {<<>>}]]
    /\ \A s \in Sessions : check[s].at \in {"grace", "telling"} =>
          /\ check[s].pair \in Requests /\ check[s].sessions \in SessionPairs
          /\ Owner[check[s].sessions[1]] = check[s].pair[1]
          /\ Owner[check[s].sessions[2]] = check[s].pair[2]

TeardownTypes ==
    /\ teardown \in [Sessions -> [at : {"none", "ready", "telling"}, partner : Clients \cup {None}]]
    /\ \A s \in Sessions : teardown[s].at = "telling" => teardown[s].partner \in Clients

\* Only what was requested is pending.
PendingRequested == \A c \in Clients : pending[c] # None => <<c, pending[c]>> \in Requests

\* A session that was replaced is closing, or will be in the next turn.
LiveRegistered ==
    \A s \in Sessions : state[s] \in {"connecting", "active"} => peers[Owner[s]] = s \/ s \in doomed

\* By the time a session is active, the one it replaced is not any more.
SuccessorWaits ==
    \A u \in doomed, s \in Sessions : s \notin doomed /\ Owner[s] = Owner[u] => state[s] # "active"

Registry == LiveRegistered /\ SuccessorWaits

RegInv == BridgeTypes /\ CheckTypes /\ TeardownTypes /\ PendingRequested /\ Registry

-----------------------------------------------------------------------------

LEMMA InitReg == Init => RegInv
<1> SUFFICES ASSUME Init PROVE RegInv
  OBVIOUS
<1>1. BridgeTypes
  BY BridgeAssumption DEF Init, BridgeTypes, States
<1>2. CheckTypes
  BY DEF Init, CheckTypes, NoCheck
<1>3. TeardownTypes
  BY DEF Init, TeardownTypes
<1> QED BY <1>1, <1>2, <1>3 DEF Init, RegInv, PendingRequested, Registry, LiveRegistered, SuccessorWaits

\* A request is a pair of clients.
LEMMA RequestFacts ==
    \A r \in Requests : r[1] \in Clients /\ r[2] \in Clients /\ r = <<r[1], r[2]>>
BY BridgeAssumption

\* What _check_bridge finds when it looks at requests.
LEMMA ReadyFacts ==
    ASSUME RegInv, NEW todo \in SUBSET Requests, NEW r \in Ready(todo)
    PROVE  /\ r \in Requests
           /\ peers[r[1]] \in Sessions /\ peers[r[2]] \in Sessions
           /\ Owner[peers[r[1]]] = r[1] /\ Owner[peers[r[2]]] = r[2]
<1>1. r \in Requests /\ peers[r[1]] # None /\ peers[r[2]] # None
  BY DEF Ready, IsActive
<1> QED BY <1>1, RequestFacts DEF RegInv, BridgeTypes

\* The loop leaves a task that is well-formed.
LEMMA ScanTypes ==
    ASSUME RegInv, NEW s \in Sessions, NEW todo \in SUBSET Requests, Scan(s, todo)
    PROVE  CheckTypes'
<1>t. check \in [Sessions -> [at : {"none", "ready", "grace", "telling"}, todo : SUBSET Requests,
                              pair : Requests \cup {<<>>}, sessions : SessionPairs \cup {<<>>}]]
  BY DEF RegInv, CheckTypes
<1> DEFINE Task(n) ==
        /\ n \in [at : {"none", "ready", "grace", "telling"}, todo : SUBSET Requests,
                  pair : Requests \cup {<<>>}, sessions : SessionPairs \cup {<<>>}]
        /\ n.at \in {"grace", "telling"} =>
             /\ n.pair \in Requests /\ n.sessions \in SessionPairs
             /\ Owner[n.sessions[1]] = n.pair[1] /\ Owner[n.sessions[2]] = n.pair[2]
<1>1. PICK n : check' = [check EXCEPT ![s] = n] /\ Task(n)
  <2>1. CASE check' = [check EXCEPT ![s] = NoCheck]
    <3>1. Task(NoCheck)
      BY DEF NoCheck
    <3> QED BY <2>1, <3>1
  <2>2. ASSUME NEW r \in Ready(todo), NEW rest \in SUBSET (todo \ {r}),
               check' = [check EXCEPT ![s] = [at |-> "grace", todo |-> rest, pair |-> r,
                                              sessions |-> <<peers[r[1]], peers[r[2]]>>]]
        PROVE  \E n : check' = [check EXCEPT ![s] = n] /\ Task(n)
    <3>1. /\ r \in Requests /\ <<peers[r[1]], peers[r[2]]>> \in SessionPairs
          /\ Owner[peers[r[1]]] = r[1] /\ Owner[peers[r[2]]] = r[2]
      BY ReadyFacts DEF SessionPairs
    <3>2. Task([at |-> "grace", todo |-> rest, pair |-> r, sessions |-> <<peers[r[1]], peers[r[2]]>>])
      BY <3>1
    <3> QED BY <2>2, <3>2
  <2> QED BY <2>1, <2>2 DEF Scan
<1>2. \A x \in Sessions : check'[x] = IF x = s THEN n ELSE check[x]
  BY <1>t, <1>1
<1>3. check' \in [Sessions -> [at : {"none", "ready", "grace", "telling"}, todo : SUBSET Requests,
                               pair : Requests \cup {<<>>}, sessions : SessionPairs \cup {<<>>}]]
  BY <1>t, <1>1
<1> QED BY <1>1, <1>2, <1>3 DEF RegInv, CheckTypes

\* The steps of the sessions.
LEMMA SessionSteps ==
    ASSUME RegInv, NEW s \in Sessions,
           CreateSession(s) \/ Activate(s) \/ CloseBegins(s) \/ CloseEnds(s)
    PROVE  RegInv'
<1>t. BridgeTypes /\ CheckTypes /\ TeardownTypes /\ PendingRequested /\ LiveRegistered /\ SuccessorWaits
      /\ Owner[s] \in Clients
  BY BridgeAssumption DEF RegInv, Registry
<1>1. CASE CreateSession(s)
  <2> DEFINE c == Owner[s]
             old == peers[c]
  <2>1. /\ state[s] = "unborn" /\ state' = [state EXCEPT ![s] = "connecting"]
        /\ doomed' = Scheduled(old)
        /\ peers' = [peers EXCEPT ![c] = s]
        /\ check' = [check EXCEPT ![s].at = "ready"]
        /\ UNCHANGED <<partner, pending, bridges, timers, teardown>>
    BY <1>1 DEF CreateSession
  <2>2. CheckTypes'
    BY <1>t, <2>1 DEF CheckTypes
  <2>3. state' \in [Sessions -> States]
        /\ \A x \in Sessions : state'[x] = IF x = s THEN "connecting" ELSE state[x]
    BY <1>t, <2>1 DEF BridgeTypes, States
  <2>4. peers' \in [Clients -> Sessions \cup {None}]
        /\ \A x \in Clients : peers'[x] = IF x = c THEN s ELSE peers[x]
    BY <1>t, <2>1 DEF BridgeTypes
  <2>5. /\ doomed \subseteq doomed' /\ doomed' \subseteq Sessions
        /\ Living(old) => old \in doomed'
        /\ doomed' \subseteq doomed \cup {old} /\ old \in Sessions \cup {None}
    BY <1>t, <2>1 DEF Scheduled, Living, BridgeTypes
  <2>6. BridgeTypes'
    BY <1>t, <2>1, <2>3, <2>4, <2>5 DEF BridgeTypes
  <2>7. LiveRegistered'
    <3> SUFFICES ASSUME NEW x \in Sessions, state'[x] \in {"connecting", "active"}, x # s
                 PROVE  peers'[Owner[x]] = x \/ x \in doomed'
      BY <1>t, <2>4 DEF LiveRegistered
    <3>1. state[x] \in {"connecting", "active"} /\ (peers[Owner[x]] = x \/ x \in doomed)
      BY <1>t, <2>3 DEF LiveRegistered
    <3>2. CASE Owner[x] = c /\ peers[Owner[x]] = x
      BY <2>5, <3>1, <3>2, BridgeAssumption DEF Living
    <3> QED BY <2>4, <2>5, <3>1, <3>2, BridgeAssumption
  <2>8. SuccessorWaits'
    <3> SUFFICES ASSUME NEW u \in doomed', NEW x \in Sessions, x \notin doomed', Owner[x] = Owner[u],
                        state'[x] = "active"
                 PROVE  FALSE
      BY DEF SuccessorWaits
    <3>1. state[x] = "active" /\ x \notin doomed /\ x # s
      BY <2>3, <2>5
    <3>2. u \notin doomed
      BY <1>t, <3>1 DEF SuccessorWaits
    <3>3. u = old /\ Owner[u] = c
      BY <1>t, <2>5, <3>2, BridgeAssumption DEF BridgeTypes
    <3>4. x = old
      BY <1>t, <3>1, <3>3 DEF LiveRegistered
    <3> QED BY <3>3, <3>4
  <2>9. TeardownTypes' /\ PendingRequested'
    BY <1>t, <2>1 DEF TeardownTypes, PendingRequested
  <2> QED BY <2>2, <2>6, <2>7, <2>8, <2>9 DEF RegInv, Registry
<1>2. CASE Activate(s)
  <2>1. /\ UNCHANGED <<peers, doomed, partner, pending, bridges, timers, check, teardown>>
        /\ state[s] = "connecting" /\ state' = [state EXCEPT ![s] = "active"]
        /\ ~\E t \in doomed \ {s} : Owner[t] = Owner[s]
    BY <1>2 DEF Activate
  <2>2. state' \in [Sessions -> States] /\ \A x \in Sessions : x # s => state'[x] = state[x]
    BY <1>t, <2>1 DEF BridgeTypes, States
  <2>3. BridgeTypes' /\ LiveRegistered'
    BY <1>t, <2>1, <2>2 DEF BridgeTypes, LiveRegistered
  <2>4. SuccessorWaits'
    BY <1>t, <2>1, <2>2 DEF SuccessorWaits
  <2> QED BY <1>t, <2>1, <2>3, <2>4 DEF RegInv, Registry, CheckTypes, TeardownTypes, PendingRequested
<1>4. CASE CloseBegins(s)
  <2>1. /\ UNCHANGED <<peers, partner, pending, bridges, timers, check, teardown>>
        /\ doomed' = doomed \ {s} /\ state' = [state EXCEPT ![s] = "closing"]
    BY <1>4 DEF CloseBegins
  <2>2. state' \in [Sessions -> States]
        /\ \A x \in Sessions : state'[x] = IF x = s THEN "closing" ELSE state[x]
    BY <1>t, <2>1 DEF BridgeTypes, States
  <2>3. BridgeTypes' /\ LiveRegistered'
    BY <1>t, <2>1, <2>2 DEF BridgeTypes, LiveRegistered
  <2>4. SuccessorWaits'
    BY <1>t, <2>1, <2>2 DEF SuccessorWaits
  <2> QED BY <1>t, <2>1, <2>3, <2>4 DEF RegInv, Registry, CheckTypes, TeardownTypes, PendingRequested
<1>3. CASE CloseEnds(s)
  <2> DEFINE c == Owner[s]
  <2>1. /\ state[s] = "closing" /\ state' = [state EXCEPT ![s] = "closed"]
        /\ UNCHANGED <<doomed, partner, bridges, timers, check>>
        /\ teardown' = IF bridges[c] = None THEN teardown ELSE [teardown EXCEPT ![s].at = "ready"]
        /\ IF peers[c] # None /\ state'[peers[c]] = "closed"
           THEN peers' = [peers EXCEPT ![c] = None] /\ pending' = [pending EXCEPT ![c] = None]
           ELSE UNCHANGED <<peers, pending>>
    BY <1>3 DEF CloseEnds
  <2>2. state' \in [Sessions -> States] /\ \A x \in Sessions : state'[x] = IF x = s THEN "closed" ELSE state[x]
    BY <1>t, <2>1 DEF BridgeTypes, States
  <2>3. /\ peers' \in [Clients -> Sessions \cup {None}] /\ pending' \in [Clients -> Clients \cup {None}]
        /\ \A x \in Clients :
              peers'[x] # peers[x] => (x = c /\ peers'[x] = None /\ state'[peers[c]] = "closed")
        /\ \A x \in Clients : pending'[x] \in {pending[x], None}
    BY <1>t, <2>1 DEF BridgeTypes
  <2>4. BridgeTypes'
    BY <1>t, <2>1, <2>2, <2>3 DEF BridgeTypes
  <2>5. LiveRegistered'
    BY <1>t, <2>1, <2>2, <2>3, BridgeAssumption DEF LiveRegistered
  <2>8. SuccessorWaits'
    BY <1>t, <2>1, <2>2 DEF SuccessorWaits
  <2>6. TeardownTypes'
    BY <1>t, <2>1 DEF TeardownTypes
  <2>7. CheckTypes' /\ PendingRequested'
    BY <1>t, <2>1, <2>3 DEF CheckTypes, PendingRequested
  <2> QED BY <2>4, <2>5, <2>6, <2>7, <2>8 DEF RegInv, Registry
<1> QED BY <1>1, <1>2, <1>3, <1>4

\* Requests and their timers.
LEMMA RequestSteps ==
    ASSUME RegInv, NEW c \in Clients, NEW d \in Clients, RelayRequest(c, d) \/ RelayTimeout(c, d)
    PROVE  RegInv'
<1>t. BridgeTypes /\ CheckTypes /\ TeardownTypes /\ PendingRequested /\ Registry
  BY DEF RegInv
<1>1. UNCHANGED <<peers, state, doomed, partner, bridges, check, teardown>> /\ timers' \subseteq Requests
  BY <1>t DEF RelayRequest, RelayTimeout, BridgeTypes
<1>2. \/ <<c, d>> \in Requests /\ pending' = [pending EXCEPT ![c] = d]
      \/ pending' = pending
      \/ pending' = [pending EXCEPT ![c] = None]
  BY DEF RelayRequest, RelayTimeout
<1>3. pending' \in [Clients -> Clients \cup {None}] /\ PendingRequested'
  BY <1>t, <1>2 DEF BridgeTypes, PendingRequested
<1> QED BY <1>t, <1>1, <1>3 DEF RegInv, BridgeTypes, CheckTypes, TeardownTypes, Registry, LiveRegistered, SuccessorWaits

\* The sessions that a task links when it wakes up.
LEMMA CheckFacts ==
    ASSUME RegInv, NEW s \in Sessions, check[s].at \in {"grace", "telling"}
    PROVE  /\ check[s].sessions[1] \in Sessions /\ check[s].sessions[2] \in Sessions
           /\ check[s].pair \in Requests
           /\ <<Owner[check[s].sessions[1]], Owner[check[s].sessions[2]]>> = check[s].pair
           /\ Owner[check[s].sessions[1]] \in Clients /\ Owner[check[s].sessions[2]] \in Clients
<1>1. check[s].pair \in Requests /\ check[s].sessions \in SessionPairs
      /\ Owner[check[s].sessions[1]] = check[s].pair[1] /\ Owner[check[s].sessions[2]] = check[s].pair[2]
  BY DEF RegInv, CheckTypes
<1> QED BY <1>1, RequestFacts DEF SessionPairs

LEMMA TodoRequests == ASSUME RegInv, NEW s \in Sessions PROVE check[s].todo \in SUBSET Requests
BY DEF RegInv, CheckTypes

\* The steps of the tasks that form a bridge.
LEMMA BridgeSteps ==
    ASSUME RegInv, NEW s \in Sessions, CheckBegins(s) \/ GraceEnds(s) \/ Told(s)
    PROVE  RegInv'
<1>t. BridgeTypes /\ CheckTypes /\ TeardownTypes /\ PendingRequested /\ Registry
  BY DEF RegInv
<1>1. CASE GraceEnds(s)
  <2> DEFINE a == check[s].sessions[1]
             b == check[s].sessions[2]
  <2>1. check[s].at = "grace" /\ UNCHANGED <<peers, state, doomed, pending, timers, teardown>>
    BY <1>1 DEF GraceEnds
  <2>2. a \in Sessions /\ b \in Sessions /\ Owner[a] \in Clients /\ Owner[b] \in Clients
    BY <2>1, CheckFacts
  <2>3. CASE IsActive(a) /\ IsActive(b)
    <3>1. /\ partner' = [partner EXCEPT ![a] = b, ![b] = a]
          /\ bridges' = [bridges EXCEPT ![Owner[a]] = Owner[b], ![Owner[b]] = Owner[a]]
          /\ check' = [check EXCEPT ![s].at = "telling"]
      BY <1>1, <2>3 DEF GraceEnds
    <3>2. partner' \in [Sessions -> Sessions \cup {None}] /\ bridges' \in [Clients -> Clients \cup {None}]
      BY <1>t, <2>2, <3>1 DEF BridgeTypes
    <3>3. CheckTypes'
      BY <1>t, <2>1, <3>1, SMTT(30) DEF CheckTypes
    <3> QED BY <1>t, <2>1, <3>2, <3>3, SMTT(30) DEF RegInv, BridgeTypes, TeardownTypes, PendingRequested, Registry, LiveRegistered, SuccessorWaits
  <2>4. CASE ~(IsActive(a) /\ IsActive(b))
    <3>1. Scan(s, check[s].todo) /\ UNCHANGED <<partner, bridges>>
      BY <1>1, <2>4 DEF GraceEnds
    <3>2. CheckTypes'
      BY <3>1, TodoRequests, ScanTypes
    <3> QED BY <1>t, <2>1, <3>1, <3>2 DEF RegInv, BridgeTypes, TeardownTypes, PendingRequested, Registry, LiveRegistered, SuccessorWaits
  <2> QED BY <2>3, <2>4, SMTT(30)
<1>2. CASE Told(s)
  <2>1. /\ pending' = [pending EXCEPT ![check[s].pair[1]] = None] /\ Scan(s, check[s].todo)
        /\ UNCHANGED <<peers, state, doomed, partner, bridges, timers, teardown>>
    BY <1>2 DEF Told
  <2>2. CheckTypes'
    BY <2>1, TodoRequests, ScanTypes
  <2>3. pending' \in [Clients -> Clients \cup {None}] /\ PendingRequested'
    BY <1>t, <2>1 DEF BridgeTypes, PendingRequested
  <2> QED BY <1>t, <2>1, <2>2, <2>3 DEF RegInv, BridgeTypes, TeardownTypes, Registry, LiveRegistered, SuccessorWaits
<1>3. CASE CheckBegins(s)
  <2>1. Scan(s, Wanted) /\ UNCHANGED <<peers, state, doomed, partner, pending, bridges, timers, teardown>>
    BY <1>3 DEF CheckBegins
  <2>2. Wanted \in SUBSET Requests
    BY <1>t DEF Wanted, PendingRequested
  <2>3. CheckTypes'
    BY <2>1, <2>2, ScanTypes
  <2> QED BY <1>t, <2>1, <2>3 DEF RegInv, BridgeTypes, TeardownTypes, PendingRequested, Registry, LiveRegistered, SuccessorWaits
<1> QED BY <1>1, <1>2, <1>3

\* The steps of the tasks that end one.
LEMMA TeardownSteps ==
    ASSUME RegInv, NEW s \in Sessions, TeardownBegins(s) \/ TeardownEnds(s)
    PROVE  RegInv'
<1>t. BridgeTypes /\ CheckTypes /\ TeardownTypes /\ PendingRequested /\ LiveRegistered /\ SuccessorWaits
      /\ Owner[s] \in Clients
  BY BridgeAssumption DEF RegInv, Registry
<1>1. CASE TeardownBegins(s)
  <2>1. /\ teardown' = [teardown EXCEPT ![s] =
              IF bridges[Owner[s]] = None THEN [at |-> "none", partner |-> None]
              ELSE [at |-> "telling", partner |-> bridges[Owner[s]]]]
        /\ UNCHANGED <<peers, state, doomed, partner, pending, bridges, timers, check>>
    BY <1>1 DEF TeardownBegins
  <2>2. bridges[Owner[s]] = None \/ bridges[Owner[s]] \in Clients
    BY <1>t DEF BridgeTypes
  <2>3. TeardownTypes'
    BY <1>t, <2>1, <2>2 DEF TeardownTypes
  <2> QED BY <1>t, <2>1, <2>3 DEF RegInv, BridgeTypes, CheckTypes, PendingRequested, Registry, LiveRegistered, SuccessorWaits
<1>2. CASE TeardownEnds(s)
  <2> DEFINE d == teardown[s].partner
             t == peers[d]
  <2>1. /\ teardown[s].at = "telling"
        /\ partner' = IF t = None THEN partner ELSE [partner EXCEPT ![t] = None]
        /\ doomed' = Scheduled(t)
        /\ bridges' = [bridges EXCEPT ![Owner[s]] = None, ![d] = None]
        /\ teardown' = [teardown EXCEPT ![s] = [at |-> "none", partner |-> None]]
        /\ UNCHANGED <<peers, state, pending, timers, check>>
    BY <1>2 DEF TeardownEnds
  <2>2. d \in Clients /\ t \in Sessions \cup {None} /\ (t # None => Owner[t] = d)
    BY <1>t, <2>1 DEF TeardownTypes, BridgeTypes
  <2>3. TeardownTypes'
    BY <1>t, <2>1 DEF TeardownTypes
  <2>4. /\ partner' \in [Sessions -> Sessions \cup {None}]
        /\ doomed \subseteq doomed' /\ doomed' \subseteq doomed \cup {t} /\ doomed' \subseteq Sessions
    BY <1>t, <2>1, <2>2 DEF BridgeTypes, Scheduled, Living
  <2>5. bridges' \in [Clients -> Clients \cup {None}]
    BY <1>t, <2>1, <2>2 DEF BridgeTypes
  <2>6. BridgeTypes' /\ LiveRegistered'
    BY <1>t, <2>1, <2>4, <2>5 DEF BridgeTypes, LiveRegistered
  <2>7. SuccessorWaits'
    <3> SUFFICES ASSUME NEW u \in doomed', NEW x \in Sessions, x \notin doomed', Owner[x] = Owner[u],
                        state'[x] = "active"
                 PROVE  FALSE
      BY DEF SuccessorWaits
    <3>1. state[x] = "active" /\ x \notin doomed
      BY <2>1, <2>4
    <3>2. u \notin doomed
      BY <1>t, <3>1 DEF SuccessorWaits
    <3>3. u = t /\ Owner[u] = d
      BY <2>2, <2>4, <3>2, BridgeAssumption
    <3>4. x = t
      BY <1>t, <3>1, <3>3 DEF LiveRegistered
    <3> QED BY <3>3, <3>4
  <2> QED BY <1>t, <2>1, <2>3, <2>6, <2>7 DEF RegInv, Registry, CheckTypes, PendingRequested
<1> QED BY <1>1, <1>2

LEMMA NextReg == RegInv /\ [Next]_vars => RegInv'
<1> SUFFICES ASSUME RegInv, [Next]_vars PROVE RegInv'
  OBVIOUS
<1>1. CASE UNCHANGED vars
  BY <1>1 DEF vars, RegInv, BridgeTypes, CheckTypes, TeardownTypes, PendingRequested, Registry, LiveRegistered, SuccessorWaits
<1>2. CASE Next
  BY <1>2, SessionSteps, RequestSteps, BridgeSteps, TeardownSteps DEF Next
<1> QED BY <1>1, <1>2

LEMMA RegInvariance == Spec => []RegInv
BY InitReg, NextReg, PTL DEF Spec

\* The types of the registry, the requests, the bridges and the tasks.
THEOREM BridgeTypeCorrect == Spec => []TypeOK
<1>1. RegInv => TypeOK
  <2> SUFFICES ASSUME RegInv PROVE TypeOK
    OBVIOUS
  <2>1. BridgeTypes
    BY DEF RegInv
  <2>2. ASSUME NEW s \in Sessions
        PROVE  check[s].at \in {"none", "ready", "grace", "telling"} /\ check[s].todo \subseteq Clients \X Clients
    BY BridgeAssumption DEF RegInv, CheckTypes
  <2>3. ASSUME NEW s \in Sessions PROVE teardown[s].at \in {"none", "ready", "telling"}
    BY DEF RegInv, TeardownTypes
  <2> QED BY <2>1, <2>2, <2>3 DEF BridgeTypes, States, TypeOK
<1> QED BY RegInvariance, <1>1, PTL

-----------------------------------------------------------------------------

\* A session gets a partner only from a task that wakes up and finds both active.
LEMMA LinkStep ==
    ASSUME RegInv, [Next]_vars, NEW s \in Sessions, partner'[s] \notin {partner[s], None}
    PROVE  \A t \in {s, partner'[s]} : peers[Owner[t]] = t \/ t \in doomed
<1>t. partner \in [Sessions -> Sessions \cup {None}] /\ LiveRegistered
  BY DEF RegInv, BridgeTypes, Registry
<1>1. PICK x \in Sessions : GraceEnds(x)
  <2>1. \A x \in Sessions : CreateSession(x) \/ Activate(x) \/ CloseBegins(x) \/ CloseEnds(x)
                              => UNCHANGED partner
    BY DEF CreateSession, Activate, CloseBegins, CloseEnds
  <2>2. \A x \in Sessions : CheckBegins(x) \/ Told(x) \/ TeardownBegins(x) => UNCHANGED partner
    BY DEF CheckBegins, Told, TeardownBegins
  <2>3. \A x \in Sessions : TeardownEnds(x) => partner'[s] \in {partner[s], None}
    BY <1>t DEF TeardownEnds
  <2>4. \A c, d \in Clients : RelayRequest(c, d) \/ RelayTimeout(c, d) => UNCHANGED partner
    BY DEF RelayRequest, RelayTimeout
  <2>5. UNCHANGED vars => UNCHANGED partner
    BY DEF vars
  <2> QED BY <2>1, <2>2, <2>3, <2>4, <2>5 DEF Next
<1> DEFINE a == check[x].sessions[1]
           b == check[x].sessions[2]
<1>2. a \in Sessions /\ b \in Sessions
  BY <1>1, CheckFacts DEF GraceEnds
<1>3. IsActive(a) /\ IsActive(b) /\ partner' = [partner EXCEPT ![a] = b, ![b] = a]
  BY <1>1 DEF GraceEnds
<1>4. (s = a /\ partner'[s] = b) \/ (s = b /\ partner'[s] = a)
  BY <1>t, <1>2, <1>3
<1>5. (peers[Owner[a]] = a \/ a \in doomed) /\ (peers[Owner[b]] = b \/ b \in doomed)
  BY <1>t, <1>2, <1>3 DEF IsActive, LiveRegistered
<1> QED BY <1>4, <1>5

\* _activate_bridge links only sessions that the registry holds at that moment, or whose
\* close() is still to begin, although _check_bridge has slept since it found them.
THEOREM LinksRegisteredHolds == Spec => LinksRegistered
<1>1. RegInv /\ [Next]_vars =>
        [\A s \in Sessions : partner'[s] \notin {partner[s], None} =>
              \A t \in {s, partner'[s]} : peers[Owner[t]] = t \/ t \in doomed]_vars
  BY LinkStep
<1> QED BY RegInvariance, <1>1, PTL DEF Spec, LinksRegistered

-----------------------------------------------------------------------------
(* Both directions of a bridge                                             *)

\* A session that has a partner, or is one, has been active.
PartnersStarted ==
    \A s \in Sessions : partner[s] # None =>
        state[s] \notin {"unborn", "connecting"} /\ state[partner[s]] \notin {"unborn", "connecting"}

\* Partners are sessions of the two clients of a request.
PartnersRequested ==
    \A s \in Sessions : partner[s] # None =>
        \E r \in Requests : {Owner[s], Owner[partner[s]]} = {r[1], r[2]}

PartnerInv == RegInv /\ PartnersStarted /\ PartnersRequested /\ PartnersAgree

\* Steps that leave the partners alone, and make no session stay that has one.
LEMMA PartnersKept ==
    ASSUME PartnerInv, UNCHANGED partner,
           \A x \in Sessions : state[x] \notin {"unborn", "connecting"} =>
              /\ state'[x] \notin {"unborn", "connecting"}
              /\ state'[x] = "active" /\ x \notin doomed' => state[x] = "active" /\ x \notin doomed
    PROVE  PartnersStarted' /\ PartnersRequested' /\ PartnersAgree'
<1>1. partner \in [Sessions -> Sessions \cup {None}] /\ PartnersStarted /\ PartnersRequested /\ PartnersAgree
  BY DEF PartnerInv, RegInv, BridgeTypes
<1>2. \A x \in Sessions : partner[x] # None => partner[x] \in Sessions
  BY <1>1
<1>3. PartnersStarted'
  BY <1>1, <1>2 DEF PartnersStarted
<1>4. PartnersRequested'
  BY <1>1 DEF PartnersRequested
<1>5. PartnersAgree'
  <2> SUFFICES ASSUME NEW x \in Sessions, Stays(x)', Stays(partner[x])'
               PROVE  partner[partner[x]] = x
    BY DEF PartnersAgree
  <2>1. /\ partner[x] # None /\ partner[x] \in Sessions
        /\ state'[x] = "active" /\ state'[partner[x]] = "active"
        /\ x \notin doomed' /\ partner[x] \notin doomed'
    BY <1>2 DEF IsActive, Stays
  <2>2. state[x] \notin {"unborn", "connecting"} /\ state[partner[x]] \notin {"unborn", "connecting"}
    BY <1>1, <2>1 DEF PartnersStarted
  <2>3. /\ state[x] = "active" /\ state[partner[x]] = "active" /\ x # None
        /\ x \notin doomed /\ partner[x] \notin doomed
    BY <2>1, <2>2, BridgeAssumption
  <2> QED BY <1>1, <2>1, <2>3 DEF PartnersAgree, IsActive, Stays
<1> QED BY <1>3, <1>4, <1>5

\* Linking two active sessions leaves nobody that stays with a partner that is another's.
LEMMA LinkAgrees ==
    ASSUME InPairs, PartnerInv, NEW a \in Sessions, NEW b \in Sessions,
           IsActive(a), IsActive(b), <<Owner[a], Owner[b]>> \in Requests,
           partner' = [partner EXCEPT ![a] = b, ![b] = a], UNCHANGED <<state, doomed>>
    PROVE  PartnersStarted' /\ PartnersRequested' /\ PartnersAgree'
<1>1. partner \in [Sessions -> Sessions \cup {None}] /\ PartnersStarted /\ PartnersRequested
      /\ PartnersAgree /\ LiveRegistered /\ SuccessorWaits
  BY DEF PartnerInv, RegInv, BridgeTypes, Registry
<1>2. \A x \in Sessions : partner'[x] = IF x = b THEN a ELSE IF x = a THEN b ELSE partner[x]
  BY <1>1
<1>3. state[a] = "active" /\ state[b] = "active"
  BY DEF IsActive
<1>4. PartnersStarted'
  BY <1>1, <1>2, <1>3 DEF PartnersStarted
<1>5. \E r \in Requests : r[1] = Owner[a] /\ r[2] = Owner[b]
  <2>1. <<Owner[a], Owner[b]>>[1] = Owner[a] /\ <<Owner[a], Owner[b]>>[2] = Owner[b]
    OBVIOUS
  <2> QED BY <2>1
<1>6. PartnersRequested'
  <2> SUFFICES ASSUME NEW x \in Sessions, partner'[x] # None
               PROVE  \E r \in Requests : {Owner[x], Owner[partner'[x]]} = {r[1], r[2]}
    BY DEF PartnersRequested
  <2>1. CASE x \in {a, b}
    <3>1. {Owner[x], Owner[partner'[x]]} = {Owner[a], Owner[b]}
      BY <1>2, <2>1
    <3> QED BY <1>5, <3>1
  <2>2. CASE x \notin {a, b}
    BY <1>1, <1>2, <2>2 DEF PartnersRequested
  <2> QED BY <2>1, <2>2
<1>7. \A x, y \in Sessions : Stays(x) /\ partner[x] = y /\ y \in {a, b} => x \in {a, b}
  <2> SUFFICES ASSUME NEW x \in Sessions, NEW y \in Sessions, Stays(x), partner[x] = y, y \in {a, b}
               PROVE  x \in {a, b}
    OBVIOUS
  <2>1. y # None
    BY BridgeAssumption
  <2>2. PICK q \in Requests : {Owner[x], Owner[y]} = {q[1], q[2]}
    BY <1>1, <2>1 DEF PartnersRequested
  <2>3. PICK r \in Requests : r[1] = Owner[a] /\ r[2] = Owner[b]
    BY <1>5
  <2>4. Owner[y] \in {q[1], q[2]} \cap {r[1], r[2]}
    BY <2>2, <2>3
  <2>5. {q[1], q[2]} = {r[1], r[2]}
    BY <2>4 DEF InPairs
  <2>6. Owner[x] \in {Owner[a], Owner[b]}
    BY <2>2, <2>3, <2>5
  <2>7. PICK z \in {a, b} : Owner[z] = Owner[x] /\ state[z] = "active" /\ z \in Sessions
    BY <1>3, <2>6
  <2>8. z \notin doomed
    BY <1>1, <2>7 DEF SuccessorWaits, Stays, IsActive
  <2>9. peers[Owner[x]] = x /\ peers[Owner[z]] = z
    BY <1>1, <2>7, <2>8 DEF LiveRegistered, IsActive, Stays
  <2> QED BY <2>7, <2>9
<1>8. PartnersAgree'
  <2> SUFFICES ASSUME NEW x \in Sessions, Stays(x), Stays(partner'[x])
               PROVE  partner'[partner'[x]] = x
    BY DEF PartnersAgree, IsActive, Stays
  <2>1. CASE x \in {a, b}
    BY <1>2, <2>1
  <2>2. CASE x \notin {a, b}
    <3>1. partner'[x] = partner[x] /\ partner[x] \in Sessions /\ Stays(partner[x])
      BY <1>1, <1>2, <2>2 DEF IsActive, Stays
    <3>2. partner[x] \notin {a, b}
      BY <1>7, <2>2, <3>1
    <3>3. partner[partner[x]] = x
      BY <1>1, <3>1 DEF PartnersAgree
    <3> QED BY <1>2, <3>1, <3>2, <3>3
  <2> QED BY <2>1, <2>2
<1> QED BY <1>4, <1>6, <1>8

\* A session that loses its partner is on its way out.
LEMMA UnlinkAgrees ==
    ASSUME PartnerInv, NEW s \in Sessions, TeardownEnds(s)
    PROVE  PartnersStarted' /\ PartnersRequested' /\ PartnersAgree'
<1> DEFINE t == peers[teardown[s].partner]
<1>1. partner \in [Sessions -> Sessions \cup {None}] /\ state \in [Sessions -> States]
      /\ PartnersStarted /\ PartnersRequested /\ PartnersAgree /\ t \in Sessions \cup {None}
  BY DEF PartnerInv, RegInv, BridgeTypes, TeardownTypes, TeardownEnds
<1>2. CASE t = None
  <2>1. UNCHANGED <<partner, state, doomed>>
    BY <1>2 DEF TeardownEnds, Scheduled, Living
  <2> QED BY <2>1, PartnersKept
<1>3. CASE t # None
  <2>1. /\ partner' = [partner EXCEPT ![t] = None] /\ state' = state
        /\ doomed \subseteq doomed' /\ (state[t] = "active" => t \in doomed')
    BY <1>3 DEF TeardownEnds, Scheduled, Living
  <2>2. t \in Sessions /\ \A x \in Sessions : partner'[x] = IF x = t THEN None ELSE partner[x]
    BY <1>1, <1>3, <2>1
  <2>3. PartnersStarted'
    BY <1>1, <2>1, <2>2 DEF PartnersStarted
  <2>4. PartnersRequested'
    BY <1>1, <2>2 DEF PartnersRequested
  <2>5. PartnersAgree'
    <3> SUFFICES ASSUME NEW x \in Sessions, Stays(x)', Stays(partner[x])'
                 PROVE  partner'[partner'[x]] = x
      BY DEF PartnersAgree
    <3>1. x # t /\ partner'[x] = partner[x]
      BY <2>1, <2>2 DEF IsActive, Stays
    <3>2. partner[x] \in Sessions /\ partner[x] # t /\ Stays(x) /\ Stays(partner[x])
      BY <1>1, <2>1, <2>2, <3>1, BridgeAssumption DEF IsActive, Stays
    <3>3. partner[partner[x]] = x
      BY <1>1, <3>2 DEF PartnersAgree
    <3> QED BY <2>2, <3>1, <3>2, <3>3
  <2> QED BY <2>3, <2>4, <2>5
<1> QED BY <1>2, <1>3

LEMMA NextPartners == InPairs /\ PartnerInv /\ [Next]_vars => PartnerInv'
<1> SUFFICES ASSUME InPairs, PartnerInv, [Next]_vars
             PROVE  PartnersStarted' /\ PartnersRequested' /\ PartnersAgree'
  BY NextReg DEF PartnerInv
<1>t. state \in [Sessions -> States] /\ peers \in [Clients -> Sessions \cup {None}] /\ RegInv
  BY DEF PartnerInv, RegInv, BridgeTypes
<1>1. CASE UNCHANGED vars
  <2>1. UNCHANGED <<partner, state, doomed>>
    BY <1>1 DEF vars
  <2> QED BY <2>1, PartnersKept
<1>2. ASSUME NEW s \in Sessions, CreateSession(s)
      PROVE  PartnersStarted' /\ PartnersRequested' /\ PartnersAgree'
  <2>1. /\ state[s] = "unborn" /\ UNCHANGED partner /\ state' = [state EXCEPT ![s] = "connecting"]
        /\ doomed \subseteq doomed'
    BY <1>2 DEF CreateSession, Scheduled
  <2>2. \A x \in Sessions : x # s => state'[x] = state[x]
    BY <1>t, <2>1
  <2> QED BY <2>1, <2>2, PartnersKept
<1>3. ASSUME NEW s \in Sessions, Activate(s) \/ CloseBegins(s) \/ CloseEnds(s)
      PROVE  PartnersStarted' /\ PartnersRequested' /\ PartnersAgree'
  <2>1. UNCHANGED partner
    BY <1>3 DEF Activate, CloseBegins, CloseEnds
  <2>2. \A x \in Sessions : state[x] \notin {"unborn", "connecting"} =>
            /\ state'[x] \notin {"unborn", "connecting"}
            /\ state'[x] = "active" /\ x \notin doomed' => state[x] = "active" /\ x \notin doomed
    BY <1>t, <1>3 DEF Activate, CloseBegins, CloseEnds
  <2> QED BY <2>1, <2>2, PartnersKept
<1>4. ASSUME NEW s \in Sessions, GraceEnds(s)
      PROVE  PartnersStarted' /\ PartnersRequested' /\ PartnersAgree'
  <2> DEFINE a == check[s].sessions[1]
             b == check[s].sessions[2]
  <2>1. check[s].at = "grace" /\ UNCHANGED <<state, doomed>>
    BY <1>4 DEF GraceEnds
  <2>2. a \in Sessions /\ b \in Sessions /\ <<Owner[a], Owner[b]>> \in Requests
    BY <1>t, <2>1, CheckFacts
  <2>3. CASE IsActive(a) /\ IsActive(b)
    <3>1. partner' = [partner EXCEPT ![a] = b, ![b] = a]
      BY <1>4, <2>3 DEF GraceEnds
    <3> QED BY <2>1, <2>2, <2>3, <3>1, LinkAgrees
  <2>4. CASE ~(IsActive(a) /\ IsActive(b))
    <3>1. UNCHANGED partner
      BY <1>4, <2>4 DEF GraceEnds
    <3> QED BY <2>1, <3>1, PartnersKept
  <2> QED BY <2>3, <2>4
<1>5. ASSUME NEW s \in Sessions, CheckBegins(s) \/ Told(s) \/ TeardownBegins(s)
      PROVE  PartnersStarted' /\ PartnersRequested' /\ PartnersAgree'
  <2>1. UNCHANGED <<partner, state, doomed>>
    BY <1>5 DEF CheckBegins, Told, TeardownBegins
  <2> QED BY <2>1, PartnersKept
<1>6. ASSUME NEW c \in Clients, NEW d \in Clients, RelayRequest(c, d) \/ RelayTimeout(c, d)
      PROVE  PartnersStarted' /\ PartnersRequested' /\ PartnersAgree'
  <2>1. UNCHANGED <<partner, state, doomed>>
    BY <1>6 DEF RelayRequest, RelayTimeout
  <2> QED BY <2>1, PartnersKept
<1> QED BY <1>1, <1>2, <1>3, <1>4, <1>5, <1>6, UnlinkAgrees DEF Next

\* Frames of two sessions that stay never go in one direction only, provided that the requests
\* pair the clients off: however often the clients reconnect, and whichever tasks of older
\* sessions are still asleep.
THEOREM BridgeInv == ASSUME InPairs PROVE Spec => []Inv
<1>1. Init => PartnerInv
  <2> SUFFICES ASSUME Init PROVE PartnerInv
    OBVIOUS
  <2>1. \A s \in Sessions : partner[s] = None /\ state[s] = "unborn"
    BY DEF Init
  <2> QED BY <2>1, InitReg DEF PartnerInv, PartnersStarted, PartnersRequested, PartnersAgree, IsActive, Stays
<1>2. PartnerInv /\ [Next]_vars => PartnerInv'
  BY NextPartners
<1>3. PartnerInv => PartnersAgree
  BY DEF PartnerInv
<1>4. Spec => []PartnerInv
  BY <1>1, <1>2, PTL DEF Spec
<1> QED BY <1>3, <1>4, BridgeTypeCorrect, PTL DEF Inv

=============================================================================
