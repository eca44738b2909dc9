------------------------- MODULE ServiceWorkerProofs -------------------------
(***************************************************************************)
(* Proofs about ServiceWorker, for any number of pages, ports and          *)
(* requests.                                                               *)
(*                                                                         *)
(* What the worker believes about its port comes from messages that may    *)
(* be old when they are read.  The invariant therefore speaks of the       *)
(* messages under way: a page registers only ports it has made, and there  *)
(* is an UNREGISTER only of a page that unloads for good.                  *)
(***************************************************************************)
EXTENDS ServiceWorker, TLAPS

Messages == {Unregister} \cup {Register(q) : q \in Ports}

\* A REGISTER is of a port its sender has made, an UNREGISTER of a page that is gone.
MailTrue ==
    \A p \in Pages : \A k \in DOMAIN mail[p] :
        /\ mail[p][k].type = "REGISTER" =>
              mail[p][k].port \in made /\ PageOf[mail[p][k].port] = p
        /\ mail[p][k].type = "UNREGISTER" => page[p] = "gone"

IInv == TypeOK /\ MailTrue /\ AbandonedOnlyIfAnswered

-----------------------------------------------------------------------------

\* The two kinds of message.
LEMMA MessageFacts ==
    /\ Unregister \in Messages /\ Unregister.type = "UNREGISTER"
    /\ \A q \in Ports : /\ Register(q) \in Messages
                        /\ Register(q).type = "REGISTER" /\ Register(q).port = q
    /\ \A m \in Messages : \/ m.type = "REGISTER" /\ m.port \in Ports
                           \/ m.type = "UNREGISTER"
<1>1. Unregister \in Messages /\ \A q \in Ports : Register(q) \in Messages
  BY DEF Messages
<1>2. Unregister.type = "UNREGISTER"
  BY DEF Unregister
<1>3. \A q \in Ports : Register(q).type = "REGISTER" /\ Register(q).port = q
  BY DEF Register
<1>4. \A m \in Messages : m = Unregister \/ \E q \in Ports : m = Register(q)
  BY DEF Messages
<1> QED BY <1>1, <1>2, <1>3, <1>4

\* What is in a queue after one message has been sent.
LEMMA SentFacts ==
    ASSUME NEW S, NEW q \in Seq(S), NEW m \in S
    PROVE  /\ Append(q, m) \in Seq(S)
           /\ \A k \in DOMAIN Append(q, m) :
                 Append(q, m)[k] = m \/ (k \in DOMAIN q /\ Append(q, m)[k] = q[k])
<1>1. Append(q, m) \in Seq(S) /\ Len(Append(q, m)) = Len(q) + 1 /\ Len(q) \in Nat
  OBVIOUS
<1>2. DOMAIN q = 1..Len(q) /\ DOMAIN Append(q, m) = 1..(Len(q) + 1)
  BY <1>1
<1>3. \A k \in 1..(Len(q) + 1) : Append(q, m)[k] = m \/ (k \in 1..Len(q) /\ Append(q, m)[k] = q[k])
  BY <1>1
<1> QED BY <1>1, <1>2, <1>3

\* What is in a queue after its first message has been taken.
LEMMA TakenFacts ==
    ASSUME NEW S, NEW q \in Seq(S), q # <<>>
    PROVE  /\ 1 \in DOMAIN q /\ Head(q) = q[1] /\ q[1] \in S
           /\ Tail(q) \in Seq(S)
           /\ \A k \in DOMAIN Tail(q) : k + 1 \in DOMAIN q /\ Tail(q)[k] = q[k + 1]
<1>1. Len(q) \in Nat \ {0} /\ DOMAIN q = 1..Len(q) /\ Head(q) = q[1] /\ q[1] \in S
  OBVIOUS
<1>2. Tail(q) \in Seq(S) /\ Len(Tail(q)) = Len(q) - 1
  OBVIOUS
<1>3. DOMAIN Tail(q) = 1..(Len(q) - 1)
  BY <1>1, <1>2
<1>4. \A k \in 1..(Len(q) - 1) : Tail(q)[k] = q[k + 1]
  BY <1>1
<1> QED BY <1>1, <1>2, <1>3, <1>4

LEMMA InitIInv == Init => IInv
<1> SUFFICES ASSUME Init PROVE IInv
  OBVIOUS
<1>1. mail \in [Pages -> Seq({Unregister} \cup {Register(q) : q \in Ports})]
  BY DEF Init
<1>2. TypeOK
  BY <1>1, WorkerAssumption DEF Init, TypeOK
<1> QED BY <1>2 DEF Init, IInv, MailTrue, AbandonedOnlyIfAnswered

\* A page puts a message in its queue; it leaves the worker alone.
LEMMA SendStep ==
    ASSUME IInv, NEW p \in Pages, NEW m \in Messages,
           mail' = [mail EXCEPT ![p] = Append(@, m)],
           page' \in [Pages -> {"open", "gone", "crashed"}],
           \A x \in Pages : page[x] = "gone" => page'[x] = "gone",
           made \subseteq made', made' \subseteq Ports,
           m.type = "REGISTER" => m.port \in made' /\ PageOf[m.port] = p,
           m.type = "UNREGISTER" => page'[p] = "gone",
           UNCHANGED <<workerVars, result, reply>>
    PROVE  IInv'
<1>1. mail \in [Pages -> Seq(Messages)]
  BY DEF IInv, TypeOK, Messages
<1>2. mail[p] \in Seq(Messages)
  BY <1>1
<1>3. \A x \in Pages : mail'[x] = IF x = p THEN Append(mail[p], m) ELSE mail[x]
  BY <1>1
<1>4. /\ Append(mail[p], m) \in Seq(Messages)
      /\ \A k \in DOMAIN Append(mail[p], m) :
            Append(mail[p], m)[k] = m \/ (k \in DOMAIN mail[p] /\ Append(mail[p], m)[k] = mail[p][k])
  BY <1>2, SentFacts
<1>5. mail' \in [Pages -> Seq(Messages)]
  BY <1>1, <1>4
<1>6. UNCHANGED <<tunnelPort, fetch, pending, via, listening, result, reply>>
  BY DEF workerVars
<1>7. TypeOK'
  BY <1>5, <1>6 DEF IInv, TypeOK, Messages
<1>8. MailTrue'
  BY <1>3, <1>4 DEF IInv, MailTrue
<1> QED BY <1>6, <1>7, <1>8 DEF IInv, AbandonedOnlyIfAnswered

\* Steps of the pages.
LEMMA PageSteps ==
    ASSUME IInv,
           \/ \E q \in Ports : Connect(q)
           \/ \E p \in Pages : Unload(p) \/ Crash(p)
           \/ \E r \in Requests : Serve(r)
    PROVE  IInv'
<1>t. /\ page \in [Pages -> {"open", "gone", "crashed"}] /\ made \subseteq Ports
      /\ PageOf \in [Ports -> Pages]
  BY WorkerAssumption DEF IInv, TypeOK
<1>1. ASSUME NEW q \in Ports, Connect(q) PROVE IInv'
  <2>1. PageOf[q] \in Pages
    BY WorkerAssumption
  <2>2. mail' = [mail EXCEPT ![PageOf[q]] = Append(@, Register(q))] /\ made' = made \cup {q}
        /\ page' = page /\ UNCHANGED <<workerVars, result, reply>>
    BY <1>1 DEF Connect
  <2> QED BY <1>t, <2>1, <2>2, MessageFacts, SendStep
<1>2. ASSUME NEW p \in Pages, Unload(p) PROVE IInv'
  <2>1. mail' = [mail EXCEPT ![p] = Append(@, Unregister)] /\ made' = made
        /\ page' = [page EXCEPT ![p] = "gone"] /\ UNCHANGED <<workerVars, result, reply>>
    BY <1>2 DEF Unload
  <2>2. page' \in [Pages -> {"open", "gone", "crashed"}] /\ page'[p] = "gone"
        /\ \A x \in Pages : page[x] = "gone" => page'[x] = "gone"
    BY <1>t, <2>1
  <2> QED BY <1>t, <2>1, <2>2, MessageFacts, SendStep
<1>3. ASSUME NEW p \in Pages, Crash(p) PROVE IInv'
  <2>1. /\ page' = [page EXCEPT ![p] = "crashed"] /\ page[p] = "open"
        /\ UNCHANGED <<mail, made, tunnelPort, fetch, pending, via, listening, result, reply>>
    BY <1>3 DEF Crash, workerVars
  <2>2. page' \in [Pages -> {"open", "gone", "crashed"}]
        /\ \A x \in Pages : page[x] = "gone" => page'[x] = "gone"
    BY <1>t, <2>1
  <2> QED BY <2>1, <2>2 DEF IInv, TypeOK, MailTrue, AbandonedOnlyIfAnswered
<1>4. ASSUME NEW r \in Requests, Serve(r) PROVE IInv'
  <2>1. /\ reply[r] = "none" /\ reply' = [reply EXCEPT ![r] = "error"]
        /\ \E res \in {"ok", "error"} : result' = [result EXCEPT ![r] = res]
        /\ UNCHANGED <<page, mail, made, tunnelPort, fetch, pending, via, listening>>
    BY <1>4 DEF Serve, PostAnswer, pageVars, workerVars
  <2>2. reply' \in [Requests -> {"none", "ok", "error", "heard"}]
        /\ result' \in [Requests -> {"none", "ok", "error"}]
    BY <2>1 DEF IInv, TypeOK
  <2>3. \A x \in Requests : reply[x] = "heard" => reply'[x] = "heard"
    BY <2>1 DEF IInv, TypeOK
  <2>4. TypeOK'
    BY <2>1, <2>2 DEF IInv, TypeOK
  <2> QED BY <2>1, <2>3, <2>4 DEF IInv, MailTrue, AbandonedOnlyIfAnswered
<1> QED BY <1>1, <1>2, <1>3, <1>4

\* The worker reads a message: its port is one that was made, or none.
LEMMA ReceiveStep == ASSUME IInv, NEW p \in Pages, Receive(p) PROVE IInv'
<1>1. /\ mail[p] # <<>>
      /\ tunnelPort' = PortAfter(p, Head(mail[p])) /\ mail' = [mail EXCEPT ![p] = Tail(@)]
      /\ UNCHANGED <<page, made, fetch, pending, via, listening, result, reply>>
  BY DEF Receive
<1>2. mail \in [Pages -> Seq(Messages)]
  BY DEF IInv, TypeOK, Messages
<1>3. mail[p] \in Seq(Messages)
  BY <1>2
<1>4. /\ 1 \in DOMAIN mail[p] /\ Head(mail[p]) = mail[p][1] /\ mail[p][1] \in Messages
      /\ Tail(mail[p]) \in Seq(Messages)
      /\ \A k \in DOMAIN Tail(mail[p]) : k + 1 \in DOMAIN mail[p] /\ Tail(mail[p])[k] = mail[p][k + 1]
  BY <1>1, <1>3, TakenFacts
<1>5. mail' \in [Pages -> Seq(Messages)]
  BY <1>1, <1>2, <1>4
<1>6. \A x \in Pages : mail'[x] = IF x = p THEN Tail(mail[p]) ELSE mail[x]
  BY <1>1, <1>2
<1>7. tunnelPort' \in made' \cup {NoPort}
  BY <1>1, <1>4 DEF IInv, TypeOK, MailTrue, PortAfter
<1>8. TypeOK'
  BY <1>1, <1>5, <1>7 DEF IInv, TypeOK, Messages
<1>9. MailTrue'
  BY <1>1, <1>4, <1>6 DEF IInv, MailTrue
<1> QED BY <1>1, <1>8, <1>9 DEF IInv, AbandonedOnlyIfAnswered

\* Posting a request starts its timer.
LEMMA PostStep ==
    ASSUME IInv, NEW r \in Requests, Post(r), tunnelPort # NoPort,
           UNCHANGED <<pageVars, tunnelPort, result, reply>>
    PROVE  IInv'
<1>1. /\ pending' = pending \cup {r} /\ listening' = listening \cup {r}
      /\ via' = [via EXCEPT ![r] = tunnelPort] /\ fetch' = [fetch EXCEPT ![r] = "waiting"]
      /\ UNCHANGED <<page, mail, made, tunnelPort, result, reply>>
  BY DEF Post, pageVars
<1>2. tunnelPort \in Ports
  BY DEF IInv, TypeOK
<1>3. /\ via' \in [Requests -> Ports \cup {NoPort}]
      /\ \A x \in Requests : via'[x] = IF x = r THEN tunnelPort ELSE via[x]
  BY <1>1, <1>2 DEF IInv, TypeOK
<1>4. /\ fetch' \in [Requests -> {"none", "body", "waiting", "failed", "unavailable", "network"}]
      /\ \A x \in Requests : x # r => fetch'[x] = fetch[x]
  BY <1>1 DEF IInv, TypeOK
<1>5. listening' \subseteq {x \in Requests : via'[x] # NoPort}
  BY <1>1, <1>3 DEF IInv, TypeOK
<1>6. TypeOK'
  BY <1>1, <1>3, <1>4, <1>5 DEF IInv, TypeOK
<1> QED BY <1>1, <1>4, <1>6 DEF IInv, MailTrue, AbandonedOnlyIfAnswered

\* A step that gives up on a fetch, or sends it elsewhere, does not abandon another.
LEMMA SettleStep ==
    ASSUME IInv, NEW r \in Requests, NEW f \in {"body", "failed", "unavailable", "network"},
           fetch' = [fetch EXCEPT ![r] = f],
           pending' \subseteq Requests, pending \subseteq pending' \cup {r},
           UNCHANGED <<page, mail, made, tunnelPort, via, listening, result, reply>>
    PROVE  IInv'
<1>1. /\ fetch' \in [Requests -> {"none", "body", "waiting", "failed", "unavailable", "network"}]
      /\ \A x \in Requests : fetch'[x] = IF x = r THEN f ELSE fetch[x]
  BY DEF IInv, TypeOK
<1>2. TypeOK'
  BY <1>1 DEF IInv, TypeOK
<1> QED BY <1>1, <1>2 DEF IInv, MailTrue, AbandonedOnlyIfAnswered

\* Steps of the worker with one request.
LEMMA RequestSteps ==
    ASSUME IInv, NEW r \in Requests,
           FetchElsewhere(r) \/ FetchTunnelled(r) \/ BodyRead(r) \/ Timeout(r) \/ Hear(r)
    PROVE  IInv'
<1>t. pending \subseteq Requests /\ listening \subseteq {x \in Requests : via[x] # NoPort}
  BY DEF IInv, TypeOK
<1>1. CASE FetchElsewhere(r)
  <2>1. /\ \E f \in {"network", "unavailable"} : fetch' = [fetch EXCEPT ![r] = f]
        /\ UNCHANGED <<page, mail, made, tunnelPort, pending, via, listening, result, reply>>
    BY <1>1 DEF FetchElsewhere, pageVars
  <2> QED BY <1>t, <2>1, SettleStep
<1>2. CASE FetchTunnelled(r)
  <2>1. CASE r \in WithBody
    <3>1. /\ fetch' = [fetch EXCEPT ![r] = "body"]
          /\ UNCHANGED <<page, mail, made, tunnelPort, pending, via, listening, result, reply>>
      BY <1>2, <2>1 DEF FetchTunnelled, pageVars
    <3> QED BY <1>t, <3>1, SettleStep
  <2>2. CASE r \notin WithBody
    BY <1>2, <2>2, PostStep DEF FetchTunnelled
  <2> QED BY <2>1, <2>2
<1>3. CASE BodyRead(r)
  <2>1. CASE tunnelPort # NoPort
    BY <1>3, <2>1, PostStep DEF BodyRead
  <2>2. CASE tunnelPort = NoPort
    <3>1. /\ fetch' = [fetch EXCEPT ![r] = "failed"] /\ pending' = pending \cup {r}
          /\ UNCHANGED <<page, mail, made, tunnelPort, via, listening, result, reply>>
      BY <1>3, <2>2 DEF BodyRead, pageVars
    <3> QED BY <1>t, <3>1, SettleStep
  <2> QED BY <2>1, <2>2
<1>4. CASE Timeout(r)
  <2>1. /\ pending' = pending \ {r}
        /\ fetch' = [fetch EXCEPT ![r] = IF @ = "waiting" THEN "failed" ELSE @]
        /\ UNCHANGED <<page, mail, made, tunnelPort, via, listening, result, reply>>
    BY <1>4 DEF Timeout, pageVars
  <2>2. /\ fetch' \in [Requests -> {"none", "body", "waiting", "failed", "unavailable", "network"}]
        /\ fetch'[r] # "waiting" /\ \A x \in Requests : x # r => fetch'[x] = fetch[x]
    BY <2>1 DEF IInv, TypeOK
  <2>3. TypeOK'
    BY <2>1, <2>2 DEF IInv, TypeOK
  <2> QED BY <2>1, <2>2, <2>3 DEF IInv, MailTrue, AbandonedOnlyIfAnswered
<1>5. CASE Hear(r)
  <2>1. /\ reply' = [reply EXCEPT ![r] = "heard"] /\ pending' = pending \ {r}
        /\ listening' \subseteq listening
        /\ UNCHANGED <<page, mail, made, tunnelPort, fetch, via, result>>
    BY <1>5 DEF Hear, pageVars
  <2>2. /\ reply' \in [Requests -> {"none", "ok", "error", "heard"}]
        /\ \A x \in Requests : reply'[x] = IF x = r THEN "heard" ELSE reply[x]
    BY <2>1 DEF IInv, TypeOK
  <2>3. TypeOK'
    BY <1>t, <2>1, <2>2 DEF IInv, TypeOK
  <2> QED BY <2>1, <2>2, <2>3 DEF IInv, MailTrue, AbandonedOnlyIfAnswered
<1> QED BY <1>1, <1>2, <1>3, <1>4, <1>5

LEMMA NextIInv == IInv /\ [Next]_vars => IInv'
<1> SUFFICES ASSUME IInv, [Next]_vars PROVE IInv'
  OBVIOUS
<1>1. CASE \/ \E q \in Ports : Connect(q)
           \/ \E p \in Pages : Unload(p) \/ Crash(p)
           \/ \E r \in Requests : Serve(r)
  BY <1>1, PageSteps
<1>2. CASE \E p \in Pages : Receive(p)
  BY <1>2, ReceiveStep
<1>3. CASE \E r \in Requests :
              FetchElsewhere(r) \/ FetchTunnelled(r) \/ BodyRead(r) \/ Timeout(r) \/ Hear(r)
  BY <1>3, RequestSteps
<1>4. CASE UNCHANGED vars
  BY <1>4 DEF vars, IInv, TypeOK, MailTrue, AbandonedOnlyIfAnswered
<1> QED BY <1>1, <1>2, <1>3, <1>4 DEF Next

-----------------------------------------------------------------------------

LEMMA Invariance == Spec => []IInv
<1> QED BY InitIInv, NextIInv, PTL DEF Spec

\* The worker's state has its types, and a fetch that waits without a timer is one whose
\* page has answered: routeThroughTunnel abandons no other, whatever becomes of pages,
\* ports and messages.
THEOREM WorkerInv == Spec => []Inv
<1>1. IInv => Inv
  BY DEF IInv, Inv
<1> QED BY Invariance, <1>1, PTL

\* Only the page that owns the port takes it back, and only when it unloads: an UNREGISTER
\* that arrives after another page has registered cuts nobody off.
LEMMA TakenBackStep ==
    ASSUME IInv, [Next]_vars, tunnelPort # NoPort, tunnelPort' = NoPort
    PROVE  page[PageOf[tunnelPort]] = "gone"
<1>1. PICK p \in Pages : Receive(p)
  <2>1. ASSUME UNCHANGED tunnelPort PROVE FALSE
    BY <2>1
  <2>2. \A q \in Ports : Connect(q) => UNCHANGED tunnelPort
    BY DEF Connect, workerVars
  <2>3. \A p \in Pages : Unload(p) \/ Crash(p) => UNCHANGED tunnelPort
    BY DEF Unload, Crash, workerVars
  <2>4. \A r \in Requests : Serve(r) \/ Hear(r) \/ Timeout(r) => UNCHANGED tunnelPort
    BY DEF Serve, Hear, Timeout, workerVars
  <2>5. \A r \in Requests : FetchElsewhere(r) \/ FetchTunnelled(r) \/ BodyRead(r) => UNCHANGED tunnelPort
    BY DEF FetchElsewhere, FetchTunnelled, BodyRead
  <2>6. UNCHANGED vars => UNCHANGED tunnelPort
    BY DEF vars
  <2> QED BY <2>1, <2>2, <2>3, <2>4, <2>5, <2>6 DEF Next
<1>2. mail[p] # <<>> /\ PortAfter(p, Head(mail[p])) = NoPort
  BY <1>1 DEF Receive
<1>3. mail[p] \in Seq(Messages)
  BY DEF IInv, TypeOK, Messages
<1>4. 1 \in DOMAIN mail[p] /\ Head(mail[p]) = mail[p][1] /\ mail[p][1] \in Messages
  BY <1>2, <1>3, TakenFacts
<1>5. mail[p][1].type = "UNREGISTER"
  BY <1>2, <1>4, MessageFacts, WorkerAssumption DEF PortAfter
<1>6. PageOf[tunnelPort] = p
  BY <1>2, <1>4, <1>5 DEF PortAfter
<1> QED BY <1>4, <1>5, <1>6 DEF IInv, MailTrue

\* A page that unloads takes back only its own port.
THEOREM PortTakenBackByOwnerHolds == Spec => PortTakenBackByOwner
<1>1. IInv /\ [Next]_vars =>
        [tunnelPort # NoPort /\ tunnelPort' = NoPort => page[PageOf[tunnelPort]] = "gone"]_vars
  BY TakenBackStep
<1> QED BY Invariance, <1>1, PTL DEF Spec, PortTakenBackByOwner

=============================================================================
