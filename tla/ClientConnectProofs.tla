------------------------- MODULE ClientConnectProofs -------------------------
(***************************************************************************)
(* Proofs about ClientConnect, for every set of relays and offers.         *)
(***************************************************************************)
EXTENDS ClientConnect, TLAPS

\* What the promise, its flag, its timer and the dialog know of each other.
PromiseInv ==
    /\ promise \in {"pending", "resolved", "rejected"}
    /\ settled \in BOOLEAN
    /\ settled => promise # "pending"
    /\ promise = "resolved" => settled

\* The strengthening of the two invariants that is inductive.
IInv ==
    /\ PromiseInv
    /\ told \in 0..2
    /\ PendingIsWatched
    /\ LossIsTold

-----------------------------------------------------------------------------

LEMMA InitIInv == Init => IInv
<1> SUFFICES ASSUME Init PROVE IInv
  OBVIOUS
<1>1. promise = "pending" /\ timer = "running" /\ told = 0
  BY DEF Init
<1>2. settled \in BOOLEAN /\ ~settled
  BY Zenon DEF Init
<1> QED BY <1>1, <1>2 DEF IInv, PromiseInv, PendingIsWatched, LossIsTold

\* Settling a promise, whatever for, leaves no promise waiting.
LEMMA SettleEffect ==
    ASSUME IInv, NEW how \in {"resolved", "rejected"}, Settle(how)
    PROVE  /\ settled'
           /\ promise' \in {"resolved", "rejected"}
           /\ promise' = "resolved" => promise = "resolved" \/ how = "resolved"
           /\ promise = "resolved" => promise' = "resolved"
BY DEF Settle, IInv, PromiseInv

\* The steps of the promise itself: timer, dialog, denial.
LEMMA PromiseSteps ==
    ASSUME IInv, TimerFires \/ TermsChallenge \/ AcceptTerms \/ DeclineTerms \/ Deny
    PROVE  IInv'
<1>1. UNCHANGED <<told, pc, settled>>
  BY DEF TimerFires, TermsChallenge, AcceptTerms, DeclineTerms, Deny, tunnelVars, promiseVars, offerVars
<1>2. CASE TimerFires
  BY <1>1, <1>2 DEF TimerFires, IInv, PromiseInv, PendingIsWatched, LossIsTold
<1>3. CASE TermsChallenge
  BY <1>1, <1>3 DEF TermsChallenge, ResetTimer, IInv, PromiseInv, PendingIsWatched, LossIsTold
<1>4. CASE AcceptTerms
  BY <1>1, <1>4 DEF AcceptTerms, ResetTimer, IInv, PromiseInv, PendingIsWatched, LossIsTold
<1>5. CASE DeclineTerms
  BY <1>1, <1>5 DEF DeclineTerms, IInv, PromiseInv, PendingIsWatched, LossIsTold
<1>6. CASE Deny
  BY <1>1, <1>6 DEF Deny, promiseVars, IInv, PromiseInv, PendingIsWatched, LossIsTold
<1> QED BY <1>2, <1>3, <1>4, <1>5, <1>6

\* Relays, announces and offers do not touch what the invariant is about, except that the
\* failure of every relay settles the promise.
LEMMA SignalSteps ==
    ASSUME IInv,
           \/ \E r \in Relays : RelayOpens(r) \/ RelayEnds(r)
           \/ RelaysOpened \/ Announce \/ AnnounceAgain
           \/ \E ip \in {"ip", "nothing"} : DaemonAnswers(ip)
           \/ \E a \in Arrivals : OfferArrives(a) \/ SetRemote(a) \/ CreateAnswer(a) \/ SetLocalAndAnswer(a)
    PROVE  IInv'
<1>1. CASE RelaysOpened
  <2>1. UNCHANGED <<told, pc, modal>>
    BY <1>1 DEF RelaysOpened, tunnelVars, offerVars
  <2>2. CASE UNCHANGED <<promise, settled, timer>>
    BY <2>1, <2>2 DEF IInv, PromiseInv, PendingIsWatched, LossIsTold
  <2>3. CASE Settle("rejected")
    BY <2>1, <2>3, SettleEffect DEF IInv, PromiseInv, PendingIsWatched, LossIsTold
  <2> QED BY <1>1, <2>2, <2>3 DEF RelaysOpened
<1>2. CASE UNCHANGED <<promise, settled, timer, modal, told, pc>>
  BY <1>2 DEF IInv, PromiseInv, PendingIsWatched, LossIsTold
<1>3. ASSUME ~RelaysOpened
      PROVE  UNCHANGED <<promise, settled, timer, modal, told, pc>>
  BY <1>3 DEF RelayOpens, RelayEnds, Announce, AnnounceAgain, DaemonAnswers, OfferArrives,
       SetRemote, CreateAnswer, SetLocalAndAnswer, promiseVars, tunnelVars, offerVars
<1> QED BY <1>1, <1>2, <1>3

\* A connection that comes up, goes down or is closed by the page.
LEMMA PeerSteps ==
    ASSUME IInv, PeerConnects \/ PeerEnds \/ Close
    PROVE  IInv'
<1>1. CASE PeerConnects
  <2>1. UNCHANGED <<told, modal>> /\ pc' = "connected" /\ Settle("resolved")
    BY <1>1 DEF PeerConnects, tunnelVars
  <2> QED BY <2>1, SettleEffect DEF IInv, PromiseInv, PendingIsWatched, LossIsTold
<1>2. CASE PeerEnds
  <2>1. OnDisconnect /\ UNCHANGED modal
    BY <1>2 DEF PeerEnds
  <2>2. CASE promise = "resolved"
    BY <2>1, <2>2 DEF OnDisconnect, IInv, PromiseInv, PendingIsWatched, LossIsTold
  <2>3. CASE promise # "resolved"
    BY <2>1, <2>3, SettleEffect DEF OnDisconnect, IInv, PromiseInv, PendingIsWatched, LossIsTold
  <2> QED BY <2>2, <2>3
<1>3. CASE Close
  BY <1>3 DEF Close, promiseVars, IInv, PromiseInv, PendingIsWatched, LossIsTold
<1> QED BY <1>1, <1>2, <1>3

LEMMA NextIInv == IInv /\ [Next]_vars => IInv'
<1> SUFFICES ASSUME IInv, [Next]_vars PROVE IInv'
  OBVIOUS
<1>1. CASE UNCHANGED vars
  BY <1>1 DEF vars, IInv, PromiseInv, PendingIsWatched, LossIsTold
<1>2. CASE Next
  BY <1>2, PromiseSteps, SignalSteps, PeerSteps DEF Next
<1> QED BY <1>1, <1>2

\* Every reachable state satisfies the inductive invariant, from which the properties follow.
THEOREM Invariance == Spec => []IInv
BY InitIInv, NextIInv, PTL DEF Spec

\* A promise that waits is watched by its timer or by a dialog: connect() in client.js, with
\* the pause and the restart of its timer, never forgets a caller.
THEOREM PendingIsWatchedHolds == Spec => []PendingIsWatched
<1>1. IInv => PendingIsWatched
  BY DEF IInv
<1> QED BY <1>1, Invariance, PTL

\* The page is told of the loss of a tunnel exactly if it was given one (the two handlers
\* that connect() gives to onDisconnect).
THEOREM LossIsToldHolds == Spec => []LossIsTold
<1>1. IInv => LossIsTold
  BY DEF IInv
<1> QED BY <1>1, Invariance, PTL

-----------------------------------------------------------------------------
(* Types.                                                                  *)

LEMMA SettleTypes ==
    ASSUME TypeOK, NEW how \in {"resolved", "rejected"}, Settle(how)
    PROVE  /\ promise' \in {"pending", "resolved", "rejected"} /\ settled' \in BOOLEAN
           /\ timer' \in {"running", "off", "fired"}
<1>1. settled' \in BOOLEAN
  BY Zenon DEF Settle
<1> QED BY <1>1 DEF Settle, TypeOK

LEMMA OfferTypes ==
    ASSUME TypeOK, NEW a \in Arrivals, OfferArrives(a) \/ SetRemote(a) \/ CreateAnswer(a) \/ SetLocalAndAnswer(a)
    PROVE  answers' \subseteq Offers => TypeOK'
<1>1. UNCHANGED <<promise, settled, timer, modal, closed, told, relay, stage, announces, asked, admitted, denied, pc>>
  BY DEF OfferArrives, SetRemote, CreateAnswer, SetLocalAndAnswer, promiseVars, tunnelVars, announceVars
<1>2. OfferOf[a] \in Offers
  BY DEF Offers
<1>3. handler' \in [Arrivals -> {"none", "remote", "create", "local", "done", "error"}]
  BY DEF OfferArrives, OfferFails, SetRemote, CreateAnswer, SetLocalAndAnswer, TypeOK
<1>4. remote' \in Offers \cup {NoOffer} /\ signaling' \in {"stable", "have-remote-offer"}
  BY <1>2 DEF OfferArrives, OfferFails, SetRemote, CreateAnswer, SetLocalAndAnswer, TypeOK
<1>5. made' \in [Arrivals -> Offers \cup {NoOffer}]
  BY DEF OfferArrives, OfferFails, SetRemote, CreateAnswer, SetLocalAndAnswer, TypeOK
<1>6. local' \in Offers \cup {NoOffer}
  BY DEF OfferArrives, OfferFails, SetRemote, CreateAnswer, SetLocalAndAnswer, TypeOK
<1> QED BY <1>1, <1>3, <1>4, <1>5, <1>6 DEF TypeOK

\* What a handler carries on: an offer was set before an answer is made, and an answer is
\* made before it is set.
HandlersCarry ==
    \A a \in Arrivals : /\ handler[a] = "create" => remote # NoOffer
                        /\ handler[a] = "local" => made[a] # NoOffer

LEMMA OfferCarries ==
    ASSUME TypeOK, HandlersCarry, NEW a \in Arrivals,
           OfferArrives(a) \/ SetRemote(a) \/ CreateAnswer(a) \/ SetLocalAndAnswer(a)
    PROVE  HandlersCarry' /\ answers' \subseteq Offers
<1>1. OfferOf[a] \in Offers /\ OfferOf[a] # NoOffer
  BY ConnectAssumption DEF Offers
<1>2. CASE OfferArrives(a)
  BY <1>2 DEF OfferArrives, TypeOK, HandlersCarry
<1>3. CASE SetRemote(a)
  BY <1>1, <1>3 DEF SetRemote, OfferFails, TypeOK, HandlersCarry
<1>4. CASE CreateAnswer(a)
  BY <1>4 DEF CreateAnswer, OfferFails, TypeOK, HandlersCarry
<1>5. CASE SetLocalAndAnswer(a)
  <2>1. made[a] \in Offers
    BY <1>5 DEF SetLocalAndAnswer, TypeOK, HandlersCarry
  <2> QED BY <1>5, <2>1 DEF SetLocalAndAnswer, OfferFails, TypeOK, HandlersCarry
<1> QED BY <1>2, <1>3, <1>4, <1>5

LEMMA NextTypes == TypeOK /\ HandlersCarry /\ [Next]_vars => TypeOK' /\ HandlersCarry'
<1> SUFFICES ASSUME TypeOK, HandlersCarry, [Next]_vars PROVE TypeOK' /\ HandlersCarry'
  OBVIOUS
<1>1. CASE UNCHANGED vars
  BY <1>1 DEF vars, TypeOK, HandlersCarry
<1>2. ASSUME NEW a \in Arrivals, OfferArrives(a) \/ SetRemote(a) \/ CreateAnswer(a) \/ SetLocalAndAnswer(a)
      PROVE  TypeOK' /\ HandlersCarry'
  BY <1>2, OfferTypes, OfferCarries
<1>3. CASE TimerFires \/ TermsChallenge \/ AcceptTerms \/ DeclineTerms
  <2>1. UNCHANGED <<settled, closed, told, relay, stage, announces, asked, admitted, denied,
                    handler, made, pc, signaling, remote, local, answers>>
    BY <1>3 DEF TimerFires, TermsChallenge, AcceptTerms, DeclineTerms, tunnelVars, announceVars, offerVars
  <2>2. /\ promise' \in {"pending", "resolved", "rejected"} /\ timer' \in {"running", "off", "fired"}
        /\ modal' \in {"none", "shown", "declined"}
    BY <1>3 DEF TimerFires, TermsChallenge, AcceptTerms, DeclineTerms, ResetTimer, TypeOK
  <2> QED BY <2>1, <2>2 DEF TypeOK, HandlersCarry
<1>4. CASE Deny
  <2>1. denied' \in BOOLEAN
    BY Zenon, <1>4 DEF Deny
  <2> QED BY <1>4, <2>1 DEF Deny, promiseVars, tunnelVars, announceVars, offerVars, TypeOK, HandlersCarry
<1>5. ASSUME NEW r \in Relays, RelayOpens(r) \/ RelayEnds(r) PROVE TypeOK' /\ HandlersCarry'
  <2>1. relay' \in [Relays -> {"connecting", "open", "failed", "closed"}]
    BY <1>5 DEF RelayOpens, RelayEnds, TypeOK
  <2>2. UNCHANGED <<promise, settled, timer, modal, closed, told, stage, announces, asked, admitted, denied,
                    handler, made, pc, signaling, remote, local, answers>>
    BY <1>5 DEF RelayOpens, RelayEnds, promiseVars, tunnelVars, offerVars
  <2> QED BY <2>1, <2>2 DEF TypeOK, HandlersCarry
<1>6. CASE RelaysOpened
  <2>1. /\ promise' \in {"pending", "resolved", "rejected"} /\ settled' \in BOOLEAN
        /\ timer' \in {"running", "off", "fired"} /\ stage' \in {"opening", "resolving", "announced", "failed"}
    <3>1. CASE stage' = "resolving" /\ UNCHANGED <<promise, settled, timer>>
      BY <3>1 DEF TypeOK
    <3>2. CASE stage' = "failed" /\ Settle("rejected")
      BY <3>2, SettleTypes
    <3> QED BY <1>6, <3>1, <3>2 DEF RelaysOpened
  <2> QED BY <1>6, <2>1 DEF RelaysOpened, tunnelVars, offerVars, TypeOK, HandlersCarry
<1>7. CASE Announce \/ AnnounceAgain \/ \E ip \in {"ip", "nothing"} : DaemonAnswers(ip)
  <2>1. announces' \subseteq {"ip", "nothing"}
    BY <1>7, ConnectAssumption DEF Announce, AnnounceAgain, Announced, DaemonAnswers, TypeOK
  <2>2. asked' \in BOOLEAN /\ admitted' \in BOOLEAN
    BY Zenon, <1>7 DEF Announce, AnnounceAgain, DaemonAnswers, TypeOK
  <2>3. stage' \in {"opening", "resolving", "announced", "failed"}
    BY <1>7 DEF Announce, AnnounceAgain, DaemonAnswers, TypeOK
  <2>4. UNCHANGED <<promise, settled, timer, modal, closed, told, relay, denied, handler, made, pc, signaling, remote, local, answers>>
    BY <1>7 DEF Announce, AnnounceAgain, DaemonAnswers, promiseVars, tunnelVars, offerVars
  <2> QED BY <2>1, <2>2, <2>3, <2>4 DEF TypeOK, HandlersCarry
<1>8. CASE PeerConnects
  BY <1>8, SettleTypes DEF PeerConnects, tunnelVars, announceVars, TypeOK, HandlersCarry
<1>9. CASE PeerEnds
  <2>1. /\ promise' \in {"pending", "resolved", "rejected"} /\ settled' \in BOOLEAN
        /\ timer' \in {"running", "off", "fired"} /\ told' \in 0..2
    <3>1. CASE promise = "resolved"
      BY <1>9, <3>1 DEF PeerEnds, OnDisconnect, TypeOK
    <3>2. CASE promise # "resolved"
      BY <1>9, <3>2, SettleTypes DEF PeerEnds, OnDisconnect, TypeOK
    <3> QED BY <3>1, <3>2
  <2> QED BY <1>9, <2>1 DEF PeerEnds, announceVars, TypeOK, HandlersCarry
<1>10. CASE Close
  <2>1. closed' \in BOOLEAN
    BY Zenon, <1>10 DEF Close
  <2> QED BY <1>10, <2>1 DEF Close, promiseVars, TypeOK, HandlersCarry
<1> QED BY <1>1, <1>2, <1>3, <1>4, <1>5, <1>6, <1>7, <1>8, <1>9, <1>10 DEF Next

\* Every reachable state of an attempt is type-correct.  That answers are only sent for
\* offers needs HandlersCarry: no handler goes on with a description it never had.
THEOREM ConnectTypeCorrect == Spec => []TypeOK
<1>1. Init => TypeOK /\ HandlersCarry
  <2> SUFFICES ASSUME Init PROVE TypeOK /\ HandlersCarry
    OBVIOUS
  <2>1. /\ settled \in BOOLEAN /\ closed \in BOOLEAN /\ asked \in BOOLEAN
        /\ admitted \in BOOLEAN /\ denied \in BOOLEAN
    BY Zenon DEF Init
  <2> QED BY <2>1 DEF Init, TypeOK, HandlersCarry
<1> QED BY <1>1, NextTypes, PTL DEF Spec

=============================================================================
