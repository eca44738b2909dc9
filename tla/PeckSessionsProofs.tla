------------------------- MODULE PeckSessionsProofs -------------------------
(***************************************************************************)
(* Theorems about PeckSessions, for any clients, sessions and policy.      *)
(***************************************************************************)
EXTENDS PeckSessions, TLAPS, FiniteSetTheorems

-----------------------------------------------------------------------------
(* Types.                                                                  *)

\* The part of TypeOK about the variables that close() changes.
CloseTypeOK ==
    /\ peers \in [Clients -> Sessions \cup {NoSession}]
    /\ openCount \in Nat
    /\ state \in [Sessions -> LiveStates \cup {"unborn", "closed"}]
    /\ connectTimer \subseteq Sessions
    /\ idleTimer \subseteq Sessions
    /\ closers \in [Sessions -> SUBSET Closers]
    /\ pc \in [Sessions -> {"none", "new", "connected", "failed", "closed"}]
    /\ note \subseteq Sessions

LEMMA ClosedType ==
    ASSUME TypeOK, NEW s \in Sessions, Closed(s)
    PROVE  /\ peers' \in [Clients -> Sessions \cup {NoSession}]
           /\ openCount' \in Nat
           /\ state' = [state EXCEPT ![s] = "closed"]
           /\ state' \in [Sessions -> LiveStates \cup {"unborn", "closed"}]
  BY SessionsAssumption DEF TypeOK, Closed, OnSessionDispose, LiveStates

LEMMA BeginCloseType ==
    ASSUME TypeOK, NEW s \in Sessions, NEW callers \in SUBSET Closers,
           NEW pending \in SUBSET Sessions, BeginClose(s, callers, pending)
    PROVE  CloseTypeOK'
  <1>1. CASE state[s] # "closed" /\ pc[s] = "none"
    BY <1>1, ClosedType DEF BeginClose, TypeOK, CloseTypeOK
  <1>2. CASE ~(state[s] # "closed" /\ pc[s] = "none")
    BY <1>2 DEF BeginClose, TypeOK, CloseTypeOK, LiveStates
  <1> QED BY <1>1, <1>2

LEMMA CreateType ==
    ASSUME TypeOK, NEW s \in Sessions, GetOrCreateSession(s)
    PROVE  /\ peers' \in [Clients -> Sessions \cup {NoSession}]
           /\ openCount' \in Nat
           /\ state' \in [Sessions -> LiveStates \cup {"unborn", "closed"}]
           /\ doomed' \subseteq Sessions
           /\ elders' \in [Sessions -> SUBSET Sessions]
           /\ replaced' \subseteq Sessions
  <1> DEFINE c == Owner[s]
  <1>1. /\ c \in Clients
        /\ peers[c] \in Sessions \cup {NoSession}
        /\ {t \in Born : Owner[t] = c} \subseteq Sessions
    BY SessionsAssumption DEF TypeOK, Born
  <1>2. /\ peers' = [peers EXCEPT ![c] = s]
        /\ openCount' = openCount + 1
        /\ state' = [state EXCEPT ![s] = "connecting"]
        /\ elders' = [elders EXCEPT ![s] = {t \in Born : Owner[t] = c}]
    BY DEF GetOrCreateSession
  <1>3. doomed' \subseteq Sessions /\ replaced' \subseteq Sessions
    BY <1>1 DEF GetOrCreateSession, TypeOK
  <1> HIDE DEF c
  <1> QED BY <1>1, <1>2, <1>3 DEF TypeOK, LiveStates

\* Every variable keeps its type.
THEOREM TypeCorrect == Spec => []TypeOK
<1> USE DEF closeVars, historyVars, registryVars, termsVars, lockVars, answerVars
<1>1. Init => TypeOK
  BY SessionsAssumption DEF Init, TypeOK, Jobs, LiveStates
<1>2. TypeOK /\ [Next]_vars => TypeOK'
  <2> SUFFICES ASSUME TypeOK, [Next]_vars PROVE TypeOK'
    OBVIOUS
  <2>0. note \in SUBSET Sessions BY DEF TypeOK
  <2>1. ASSUME NEW s \in Sessions, AnnounceTask(s) PROVE TypeOK'
    <3>1. CASE Announce(s)
      BY <3>1, CreateType DEF Announce, TypeOK, Jobs
    <3>2. CASE AnnounceTerms(s)
      BY <3>2, TermsAssumption DEF AnnounceTerms, TypeOK, Jobs
    <3>3. CASE ChallengeSent(s)
      BY <3>3, CreateType DEF ChallengeSent, TypeOK, Jobs
    <3> QED BY <2>1, <3>1, <3>2, <3>3 DEF AnnounceTask
  <2>2. ASSUME NEW s \in Sessions, DrivingTask(s) PROVE TypeOK'
    <3>1. CASE SetupDone(s)
      BY <3>1 DEF SetupDone, TypeOK, Jobs
    <3>2. CASE AcquireLock(s)
      BY <3>2 DEF AcquireLock, TypeOK, Jobs
    <3>3. CASE GatherDone(s)
      BY <3>3 DEF GatherDone, TypeOK, Jobs
    <3>4. CASE GatherFailed(s)
      BY <3>4 DEF GatherFailed, TypeOK, Jobs
    <3>5. CASE OfferSent(s)
      BY <3>5 DEF OfferSent, TypeOK, Jobs
    <3>6. CASE OfferLost(s)
      BY <3>6 DEF OfferLost, TypeOK, Jobs
    <3> QED BY <2>2, <3>1, <3>2, <3>3, <3>4, <3>5, <3>6 DEF DrivingTask
  <2>3. ASSUME NEW s \in Sessions, SignalTask(s) PROVE TypeOK'
    <3>1. CASE Answer(s)
      <4> DEFINE now == peers[Owner[s]]
      <4>1. /\ now # NoSession
            /\ answered' = [answered EXCEPT ![now] = s] /\ vetting' = vetting \cup {now}
            /\ UNCHANGED <<closeVars, job, historyVars, termsVars, doomed, lockVars, offered>>
        BY <3>1 DEF Answer
      <4>2. now \in Sessions
        BY <4>1, SessionsAssumption DEF TypeOK
      <4> HIDE DEF now
      <4>3. answered' \in [Sessions -> Sessions \cup {NoSession}] /\ vetting' \subseteq Sessions
        BY <4>1, <4>2 DEF TypeOK
      <4> QED BY <4>1, <4>3 DEF TypeOK
    <3>2. CASE FilterPass(s)
      BY <3>2 DEF FilterPass, TypeOK
    <3>3. CASE FilterReject(s)
      <4>1. BeginClose(s, {"filter"}, note) BY <3>3 DEF FilterReject
      <4>2. CloseTypeOK' BY <2>0, <4>1, BeginCloseType DEF Closers
      <4> QED BY <3>3, <4>2 DEF FilterReject, TypeOK, CloseTypeOK
    <3> QED BY <2>3, <3>1, <3>2, <3>3 DEF SignalTask
  <2>4. ASSUME NEW s \in Sessions, PeerConnection(s) PROVE TypeOK'
    <3>1. CASE PcConnect(s) \/ PcFail(s) \/ OnConnected(s) \/ Touch(s)
      BY <3>1 DEF PcConnect, PcFail, OnConnected, Touch, TypeOK, LiveStates
    <3>2. CASE OnDisconnected(s)
      <4>1. BeginClose(s, {"pc"}, note \ {s}) BY <3>2 DEF OnDisconnected
      <4>2. CloseTypeOK' BY <2>0, <4>1, BeginCloseType DEF Closers
      <4> QED BY <3>2, <4>2 DEF OnDisconnected, TypeOK, CloseTypeOK
    <3> QED BY <2>4, <3>1, <3>2 DEF PeerConnection
  <2>5. ASSUME NEW s \in Sessions, Timer(s) PROVE TypeOK'
    <3>1. CASE TermsTimeout(s)
      <4> DEFINE t == peers[Owner[s]]
      <4>1. CASE t # NoSession /\ t \in awaiting
        <5>1. t \in Sessions /\ BeginClose(t, {}, note)
          BY <3>1, <4>1, SessionsAssumption DEF TermsTimeout, TypeOK
        <5>2. CloseTypeOK' BY <2>0, <5>1, BeginCloseType
        <5> QED BY <3>1, <4>1, <5>2 DEF TermsTimeout, TypeOK, CloseTypeOK
      <4>2. CASE ~(t # NoSession /\ t \in awaiting)
        BY <3>1, <4>2 DEF TermsTimeout, TypeOK
      <4> QED BY <4>1, <4>2
    <3>2. CASE ConnectTimeout(s)
      <4>1. CASE BeginClose(s, {}, note)
        <5>1. CloseTypeOK' BY <2>0, <4>1, BeginCloseType
        <5> QED BY <3>2, <5>1 DEF ConnectTimeout, TypeOK, CloseTypeOK
      <4>2. CASE ~BeginClose(s, {}, note)
        BY <3>2, <4>2 DEF ConnectTimeout, TypeOK
      <4> QED BY <4>1, <4>2
    <3>3. CASE IdleTimeout(s)
      <4>1. CASE BeginClose(s, {}, note)
        <5>1. CloseTypeOK' BY <2>0, <4>1, BeginCloseType
        <5> QED BY <3>3, <5>1 DEF IdleTimeout, TypeOK, CloseTypeOK
      <4>2. CASE ~BeginClose(s, {}, note)
        BY <3>3, <4>2 DEF IdleTimeout, TypeOK
      <4> QED BY <4>1, <4>2
    <3> QED BY <2>5, <3>1, <3>2, <3>3 DEF Timer
  <2>6. ASSUME NEW s \in Sessions, CloseTask(s) PROVE TypeOK'
    <3>1. CASE ReplaceClose(s)
      <4>1. BeginClose(s, {"replace"}, note) BY <3>1 DEF ReplaceClose
      <4>2. CloseTypeOK' BY <2>0, <4>1, BeginCloseType DEF Closers
      <4> QED BY <3>1, <4>2 DEF ReplaceClose, TypeOK, CloseTypeOK
    <3>2. ASSUME NEW k \in Closers, FinishClose(s, k) PROVE TypeOK'
      BY <3>2, ClosedType DEF FinishClose, TypeOK
    <3> QED BY <2>6, <3>1, <3>2 DEF CloseTask
  <2>7. ASSUME NEW c \in Clients, NEW v \in Versions, TermsAccept(c, v) PROVE TypeOK'
    BY <2>7, SessionsAssumption DEF TermsAccept, TypeOK, Jobs
  <2>8. CASE UNCHANGED vars
    BY <2>8 DEF vars, TypeOK
  <2> QED BY <2>1, <2>2, <2>3, <2>4, <2>5, <2>6, <2>7, <2>8 DEF Next
<1> QED BY <1>1, <1>2, PTL DEF Spec

-----------------------------------------------------------------------------
(* What close() does, in the terms the invariants speak of.                *)

\* The session is closed and leaves the registry if it is in it.
ClosedSummary(s) ==
    /\ state' = [state EXCEPT ![s] = "closed"]
    /\ peers' = IF peers[Owner[s]] = s THEN [peers EXCEPT ![Owner[s]] = NoSession] ELSE peers
    /\ openCount' = IF peers[Owner[s]] = s /\ openCount # 0 THEN openCount - 1 ELSE openCount

LEMMA ClosedEffect ==
    ASSUME TypeOK, RegistryHoldsLive, NEW s \in Sessions, Closed(s)
    PROVE  ClosedSummary(s)
  <1> DEFINE c == Owner[s]
             states == [state EXCEPT ![s] = "closed"]
  <1>1. c \in Clients /\ peers[c] \in Sessions \cup {NoSession} /\ s # NoSession
    BY SessionsAssumption DEF TypeOK
  <1>2. peers[c] # NoSession /\ states[peers[c]] = "closed" <=> peers[c] = s
    <2>1. CASE peers[c] = s
      BY <1>1, <2>1 DEF TypeOK
    <2>2. CASE peers[c] # s /\ peers[c] # NoSession
      BY <1>1, <2>2 DEF TypeOK, RegistryHoldsLive, Registered, LiveStates
    <2> QED BY <1>1, <2>1, <2>2
  <1>3. state' = states /\ OnSessionDispose(c, states)
    BY DEF Closed
  <1> QED BY <1>2, <1>3 DEF OnSessionDispose, ClosedSummary

\* Other sessions are left alone; the session is closing, with a peer connection
\* that is closed, or closed.
CloseSummary(s, callers, pending) ==
    /\ \A t \in Sessions \ {s} :
          state'[t] = state[t] /\ pc'[t] = pc[t] /\ closers'[t] = closers[t]
    /\ connectTimer' \subseteq connectTimer /\ connectTimer \ {s} \subseteq connectTimer'
    /\ idleTimer' = idleTimer \ {s}
    /\ pending \subseteq note' /\ note' \subseteq pending \cup {s}
    /\ s \in note' \ pending => Watched(s)
    /\ pc'[s] = IF pc[s] = "none" THEN "none" ELSE "closed"
    /\ state'[s] \in {"closing", "closed"}
    /\ state'[s] = "closing" =>
          /\ pc'[s] = "closed"
          /\ state[s] # "closed"
          /\ closers'[s] = closers[s] \cup callers
          /\ Watched(s) /\ pc[s] # "closed" => s \in note'
    /\ state'[s] = "closed" =>
          closers'[s] = closers[s] /\ (pc[s] = "none" \/ state[s] = "closed")
    /\ peers' = IF state'[s] = "closed" /\ peers[Owner[s]] = s
                THEN [peers EXCEPT ![Owner[s]] = NoSession] ELSE peers
    /\ openCount' = IF state'[s] = "closed" /\ peers[Owner[s]] = s /\ openCount # 0
                    THEN openCount - 1 ELSE openCount

LEMMA BeginCloseEffect ==
    ASSUME TypeOK, IInv, NEW s \in Born, NEW callers \in SUBSET Closers,
           NEW pending \in SUBSET Sessions, BeginClose(s, callers, pending)
    PROVE  CloseSummary(s, callers, pending)
  <1>0. s \in Sessions /\ Owner[s] \in Clients /\ s # NoSession
    BY SessionsAssumption DEF Born
  <1>1. CASE state[s] = "closed"
    <2>1. peers[Owner[s]] # s
      BY <1>0, <1>1 DEF IInv, RegistryHoldsLive, Registered, LiveStates
    <2>2. s \notin idleTimer
      BY <1>0, <1>1 DEF IInv, IdleTimerIffActive
    <2>3. pc[s] \in {"none", "closed"}
      BY <1>0, <1>1 DEF IInv, PcInv
    <2> QED BY <1>0, <1>1, <2>1, <2>2, <2>3 DEF BeginClose, CloseSummary
  <1>2. CASE state[s] # "closed" /\ pc[s] = "none"
    <2>1. ClosedSummary(s)
      BY <1>0, <1>2, ClosedEffect DEF BeginClose, IInv
    <2> QED BY <1>0, <1>2, <2>1 DEF BeginClose, CloseSummary, ClosedSummary, TypeOK
  <1>3. CASE state[s] # "closed" /\ pc[s] # "none"
    BY <1>0, <1>3 DEF BeginClose, CloseSummary, TypeOK
  <1> QED BY <1>1, <1>2, <1>3

\* The callers of close(), each seen through CloseSummary.
LEMMA CallersOfClose ==
    ASSUME TypeOK, IInv, NEW s \in Sessions
    PROVE  /\ ReplaceClose(s) => s \in Born /\ CloseSummary(s, {"replace"}, note)
           /\ FilterReject(s) => s \in Born /\ CloseSummary(s, {"filter"}, note)
           /\ OnDisconnected(s) => s \in Born /\ CloseSummary(s, {"pc"}, note \ {s})
           /\ TermsTimeout(s) /\ peers[Owner[s]] \in awaiting =>
                /\ peers[Owner[s]] \in Born
                /\ CloseSummary(peers[Owner[s]], {}, note)
           /\ ConnectTimeout(s) /\ state[s] = "connecting" =>
                s \in Born /\ CloseSummary(s, {}, note)
           /\ IdleTimeout(s) => s \in Born /\ state[s] = "active" /\ CloseSummary(s, {}, note)
  <1>0. note \in SUBSET Sessions /\ note \ {s} \in SUBSET Sessions
    BY DEF TypeOK
  <1>1. ASSUME ReplaceClose(s) PROVE s \in Born /\ CloseSummary(s, {"replace"}, note)
    <2>1. s \in Born
      BY <1>1 DEF ReplaceClose, IInv, ReplacedInv
    <2> QED BY <1>0, <1>1, <2>1, BeginCloseEffect DEF ReplaceClose, Closers
  <1>2. ASSUME FilterReject(s) PROVE s \in Born /\ CloseSummary(s, {"filter"}, note)
    <2>1. s \in Born
      BY <1>2 DEF FilterReject, IInv, JobInv, Born, Watched
    <2> QED BY <1>0, <1>2, <2>1, BeginCloseEffect DEF FilterReject, Closers
  <1>3. ASSUME OnDisconnected(s) PROVE s \in Born /\ CloseSummary(s, {"pc"}, note \ {s})
    <2>1. s \in Born
      BY <1>3 DEF OnDisconnected, IInv, JobInv, Born, Watched
    <2> QED BY <1>0, <1>3, <2>1, BeginCloseEffect DEF OnDisconnected, Closers
  <1>4. ASSUME TermsTimeout(s), peers[Owner[s]] \in awaiting
        PROVE  peers[Owner[s]] \in Born /\ CloseSummary(peers[Owner[s]], {}, note)
    <2> DEFINE t == peers[Owner[s]]
    <2>1. t \in Sessions /\ t # NoSession
      BY <1>4, SessionsAssumption DEF TypeOK
    <2>2. t \in Born
      BY <1>4, <2>1 DEF IInv, JobInv, Born
    <2>3. BeginClose(t, {}, note)
      BY <1>4, <2>1 DEF TermsTimeout
    <2> HIDE DEF t
    <2>4. CloseSummary(t, {}, note)
      BY <1>0, <2>2, <2>3, BeginCloseEffect
    <2> QED BY <2>2, <2>4 DEF t
  <1>5. ASSUME ConnectTimeout(s), state[s] = "connecting"
        PROVE  s \in Born /\ CloseSummary(s, {}, note)
    <2>1. s \in Born
      BY <1>5 DEF Born
    <2> QED BY <1>0, <1>5, <2>1, BeginCloseEffect DEF ConnectTimeout
  <1>6. ASSUME IdleTimeout(s)
        PROVE  s \in Born /\ state[s] = "active" /\ CloseSummary(s, {}, note)
    <2>1. s \in Born /\ state[s] = "active"
      BY <1>6 DEF IdleTimeout, IInv, IdleTimerIffActive, Born
    <2> QED BY <1>0, <1>6, <2>1, BeginCloseEffect DEF IdleTimeout
  <1> QED BY <1>1, <1>2, <1>3, <1>4, <1>5, <1>6

USE DEF closeVars, historyVars, registryVars, termsVars, lockVars, answerVars

\* A step in which some handler or timer calls close().
CloseStep ==
    \E s \in Born, callers \in SUBSET Closers, pending \in SUBSET Sessions :
        /\ CloseSummary(s, callers, pending)
        /\ pending \subseteq note /\ note \ {s} \subseteq pending
        /\ state'[s] = "closing" => closers'[s] # {} \/ s \in note'
        /\ awaiting' \subseteq awaiting /\ awaiting \ {s} \subseteq awaiting'
        /\ doomed' \subseteq doomed /\ doomed \ {s} \subseteq doomed'
        /\ vetting' \subseteq vetting
        /\ \A t \in termsTimer \ termsTimer' : t = s \/ peers[Owner[t]] # t
        /\ UNCHANGED <<job, terms, heard, elders, replaced, lockVars, offered, answered>>

\* A timer wakes up and finds nothing to do.
TimerPasses ==
    /\ connectTimer' \subseteq connectTimer
    /\ \A s \in connectTimer \ connectTimer' : state[s] # "connecting"
    /\ \A s \in termsTimer \ termsTimer' : s \notin awaiting \/ peers[Owner[s]] # s
    /\ UNCHANGED <<peers, openCount, state, idleTimer, closers, pc, note, awaiting>>
    /\ UNCHANGED <<job, terms, heard, doomed, historyVars, lockVars, answerVars>>

LEMMA CloseStepShape ==
    ASSUME TypeOK, IInv, NEW s \in Sessions,
           FilterReject(s) \/ OnDisconnected(s) \/ Timer(s) \/ ReplaceClose(s)
    PROVE  CloseStep \/ TimerPasses
<1>0. /\ note \in SUBSET Sessions /\ note \ {s} \in SUBSET Sessions
      /\ {"replace"} \in SUBSET Closers /\ {"pc"} \in SUBSET Closers
      /\ {"filter"} \in SUBSET Closers /\ {} \in SUBSET Closers
  BY DEF TypeOK, Closers
<1>1. CASE FilterReject(s)
  <2>1. s \in Born /\ CloseSummary(s, {"filter"}, note)
    BY <1>1, CallersOfClose
  <2>2. state'[s] = "closing" => closers'[s] # {}
    BY <2>1 DEF CloseSummary
  <2> QED BY <1>0, <1>1, <2>1, <2>2 DEF FilterReject, CloseStep
<1>2. CASE OnDisconnected(s)
  <2>1. s \in Born /\ CloseSummary(s, {"pc"}, note \ {s})
    BY <1>2, CallersOfClose
  <2>2. state'[s] = "closing" => closers'[s] # {}
    BY <2>1 DEF CloseSummary
  <2> QED BY <1>0, <1>2, <2>1, <2>2 DEF OnDisconnected, CloseStep
<1>3. CASE ReplaceClose(s)
  <2>1. s \in Born /\ CloseSummary(s, {"replace"}, note)
    BY <1>3, CallersOfClose
  <2>2. state'[s] = "closing" => closers'[s] # {}
    BY <2>1 DEF CloseSummary
  <2>3. doomed' = doomed \ {s} /\ UNCHANGED <<job, historyVars, termsVars, lockVars, answerVars>>
    BY <1>3 DEF ReplaceClose
  <2> QED BY <1>0, <2>1, <2>2, <2>3 DEF CloseStep
<1>4. CASE TermsTimeout(s)
  <2>1. CASE peers[Owner[s]] \in awaiting
    <3> DEFINE t == peers[Owner[s]]
    <3>1. t \in Born /\ t \in awaiting /\ CloseSummary(t, {}, note)
      BY <1>4, <2>1, CallersOfClose
    <3>2. state'[t] # "closing"
      BY <3>1 DEF CloseSummary, Born, IInv, JobInv
    <3>3. /\ awaiting' = awaiting \ {t}
          /\ termsTimer' = termsTimer \ {s}
          /\ UNCHANGED <<job, terms, heard, doomed, historyVars, lockVars, answerVars>>
      BY <1>4, <2>1, SessionsAssumption DEF TermsTimeout, TypeOK
    <3>4. t = s \/ peers[Owner[s]] # s
      OBVIOUS
    <3> HIDE DEF t
    <3> QED BY <1>0, <3>1, <3>2, <3>3, <3>4 DEF CloseStep
  <2>2. CASE peers[Owner[s]] \notin awaiting
    BY <1>4, <2>2 DEF TermsTimeout, TimerPasses
  <2> QED BY <2>1, <2>2
<1>5. CASE ConnectTimeout(s)
  <2>1. CASE state[s] = "connecting"
    <3>1. s \in Born /\ CloseSummary(s, {}, note)
      BY <1>5, <2>1, CallersOfClose
    <3>2. Watched(s) /\ pc[s] # "closed"
      BY <1>5, <2>1 DEF ConnectTimeout, IInv, JobInv, PcInv
    <3>3. state'[s] = "closing" => s \in note'
      BY <3>1, <3>2 DEF CloseSummary
    <3> QED BY <1>0, <1>5, <3>1, <3>3 DEF ConnectTimeout, CloseStep
  <2>2. CASE state[s] # "connecting"
    BY <1>5, <2>2 DEF ConnectTimeout, TimerPasses
  <2> QED BY <2>1, <2>2
<1>6. CASE IdleTimeout(s)
  <2>1. s \in Born /\ state[s] = "active" /\ CloseSummary(s, {}, note)
    BY <1>6, CallersOfClose
  <2>2. Watched(s) /\ pc[s] # "closed"
    BY <2>1, SessionsAssumption DEF Born, IInv, JobInv, PcInv
  <2>3. state'[s] = "closing" => s \in note'
    BY <2>1, <2>2 DEF CloseSummary
  <2> QED BY <1>0, <1>6, <2>1, <2>3 DEF IdleTimeout, CloseStep
<1> QED BY <1>1, <1>2, <1>3, <1>4, <1>5, <1>6 DEF Timer

-----------------------------------------------------------------------------
(* The conjuncts of the inductive invariant, one by one.                   *)

LEMMA JobInvStep ==
    ASSUME TypeOK, IInv, Next
    PROVE  JobInv'
<1> USE DEF IInv, JobInv, Watched
<1>1. ASSUME NEW s \in Sessions, AnnounceTask(s) PROVE JobInv'
  BY <1>1 DEF AnnounceTask, Announce, AnnounceTerms, ChallengeSent, GetOrCreateSession, TypeOK
<1>2. ASSUME NEW s \in Sessions, DrivingTask(s) PROVE JobInv'
  BY <1>2 DEF DrivingTask, SetupDone, AcquireLock, GatherDone, GatherFailed, OfferSent, OfferLost,
              TypeOK
<1>3. ASSUME NEW o \in Sessions, Answer(o) PROVE JobInv'
  <2> DEFINE s == peers[Owner[o]]
  <2>0. s \in Sessions \cup {NoSession}
    BY SessionsAssumption DEF TypeOK
  <2>1. s \in Sessions /\ Watched(s)
    BY <1>3, <2>0 DEF Answer
  <2>2. /\ answered' = [answered EXCEPT ![s] = o]
        /\ vetting' = vetting \cup {s}
        /\ UNCHANGED <<state, job, terms, awaiting, connectTimer, note, pc, offered>>
    BY <1>3 DEF Answer
  <2> HIDE DEF s
  <2> QED BY <2>1, <2>2 DEF TypeOK
<1>4. ASSUME NEW s \in Sessions, FilterPass(s) PROVE JobInv'
  BY <1>4 DEF FilterPass
<1>5. ASSUME NEW s \in Sessions, PcConnect(s) \/ PcFail(s) \/ OnConnected(s) \/ Touch(s)
      PROVE  JobInv'
  BY <1>5, SessionsAssumption DEF PcConnect, PcFail, OnConnected, Touch, TypeOK, PcInv
<1>6. ASSUME NEW s \in Sessions, NEW k \in Closers, FinishClose(s, k) PROVE JobInv'
  BY <1>6 DEF FinishClose, Closed, TypeOK, PcInv
<1>7. ASSUME NEW c \in Clients, NEW v \in Versions, TermsAccept(c, v) PROVE JobInv'
  BY <1>7 DEF TermsAccept, TypeOK
<1>8. CASE CloseStep
  BY <1>8 DEF CloseStep, CloseSummary, Born, TypeOK
<1>9. CASE TimerPasses
  BY <1>9 DEF TimerPasses
<1> QED BY <1>1, <1>2, <1>3, <1>4, <1>5, <1>6, <1>7, <1>8, <1>9, CloseStepShape
        DEF Next, SignalTask, PeerConnection, CloseTask

LEMMA AnswerIsRouted ==
    ASSUME TypeOK, NEW o \in Sessions, Answer(o)
    PROVE  peers[Owner[o]] \in Sessions
<1>1. Owner[o] \in Clients
  BY SessionsAssumption
<1>2. peers[Owner[o]] \in Sessions \cup {NoSession}
  BY <1>1 DEF TypeOK
<1> QED BY <1>2 DEF Answer

LEMMA PcInvStep ==
    ASSUME TypeOK, IInv, Next
    PROVE  PcInv'
<1> USE DEF IInv, PcInv
<1>1. ASSUME NEW s \in Sessions, AnnounceTask(s) PROVE PcInv'
  BY <1>1 DEF AnnounceTask, Announce, AnnounceTerms, ChallengeSent, GetOrCreateSession, TypeOK,
              JobInv, Watched
<1>2. ASSUME NEW s \in Sessions, DrivingTask(s) PROVE PcInv'
  BY <1>2 DEF DrivingTask, SetupDone, AcquireLock, GatherDone, GatherFailed, OfferSent, OfferLost,
              TypeOK
<1>3. ASSUME NEW o \in Sessions, Answer(o) PROVE PcInv'
  <2>1. peers[Owner[o]] \in Sessions
    BY <1>3, AnswerIsRouted
  <2> QED BY <1>3, <2>1 DEF Answer, TypeOK
<1>4. ASSUME NEW s \in Sessions, FilterPass(s) PROVE PcInv'
  BY <1>4 DEF FilterPass
<1>5. ASSUME NEW s \in Sessions, PcConnect(s) \/ PcFail(s) \/ OnConnected(s) \/ Touch(s)
      PROVE  PcInv'
  BY <1>5, SessionsAssumption DEF PcConnect, PcFail, OnConnected, Touch, TypeOK
<1>6. ASSUME NEW s \in Sessions, NEW k \in Closers, FinishClose(s, k) PROVE PcInv'
  BY <1>6 DEF FinishClose, Closed, TypeOK
<1>7. ASSUME NEW c \in Clients, NEW v \in Versions, TermsAccept(c, v) PROVE PcInv'
  <2>1. /\ peers[c] \in Sessions /\ state[peers[c]] \in LiveStates
        /\ pc[peers[c]] = "none" /\ answered[peers[c]] = NoSession
    BY <1>7 DEF TermsAccept, TypeOK, JobInv, Watched, RegistryHoldsLive, Registered
  <2> QED BY <1>7, <2>1 DEF TermsAccept, TypeOK, LiveStates
<1>8. CASE CloseStep
  BY <1>8 DEF CloseStep, CloseSummary, Born, TypeOK
<1>9. CASE TimerPasses
  BY <1>9 DEF TimerPasses
<1> QED BY <1>1, <1>2, <1>3, <1>4, <1>5, <1>6, <1>7, <1>8, <1>9, CloseStepShape
        DEF Next, SignalTask, PeerConnection, CloseTask

LEMMA RegistryHoldsLiveStep ==
    ASSUME TypeOK, IInv, Next
    PROVE  RegistryHoldsLive'
<1> USE DEF IInv, RegistryHoldsLive, Registered, LiveStates
<1>1. ASSUME NEW s \in Sessions, AnnounceTask(s) PROVE RegistryHoldsLive'
  BY <1>1, SessionsAssumption DEF AnnounceTask, Announce, AnnounceTerms, ChallengeSent, GetOrCreateSession, TypeOK
<1>2. ASSUME NEW s \in Sessions, DrivingTask(s) PROVE RegistryHoldsLive'
  BY <1>2 DEF DrivingTask, SetupDone, AcquireLock, GatherDone, GatherFailed, OfferSent,
              OfferLost, TypeOK
<1>3. ASSUME NEW s \in Sessions, Answer(s) PROVE RegistryHoldsLive'
  BY <1>3 DEF Answer
<1>4. ASSUME NEW s \in Sessions, FilterPass(s) PROVE RegistryHoldsLive'
  BY <1>4 DEF FilterPass
<1>5. ASSUME NEW s \in Sessions, PcConnect(s) \/ PcFail(s) \/ OnConnected(s) \/ Touch(s)
      PROVE  RegistryHoldsLive'
  BY <1>5 DEF PcConnect, PcFail, OnConnected, Touch, TypeOK
<1>6. ASSUME NEW s \in Sessions, NEW k \in Closers, FinishClose(s, k) PROVE RegistryHoldsLive'
  <2>1. ClosedSummary(s)
    BY <1>6, ClosedEffect DEF FinishClose
  <2> QED BY <1>6, <2>1, SessionsAssumption DEF FinishClose, ClosedSummary, TypeOK
<1>7. ASSUME NEW c \in Clients, NEW v \in Versions, TermsAccept(c, v) PROVE RegistryHoldsLive'
  BY <1>7 DEF TermsAccept, TypeOK
<1>8. CASE CloseStep
  BY <1>8, SessionsAssumption DEF CloseStep, CloseSummary, Born, TypeOK
<1>9. CASE TimerPasses
  BY <1>9 DEF TimerPasses
<1> QED BY <1>1, <1>2, <1>3, <1>4, <1>5, <1>6, <1>7, <1>8, <1>9, CloseStepShape
        DEF Next, SignalTask, PeerConnection, CloseTask

LEMMA IdleTimerStep ==
    ASSUME TypeOK, IInv, Next
    PROVE  IdleTimerIffActive'
<1> USE DEF IInv, IdleTimerIffActive
<1>1. ASSUME NEW s \in Sessions, AnnounceTask(s) PROVE IdleTimerIffActive'
  BY <1>1 DEF AnnounceTask, Announce, AnnounceTerms, ChallengeSent, GetOrCreateSession, TypeOK, JobInv
<1>2. ASSUME NEW s \in Sessions, DrivingTask(s) PROVE IdleTimerIffActive'
  BY <1>2 DEF DrivingTask, SetupDone, AcquireLock, GatherDone, GatherFailed, OfferSent,
              OfferLost, TypeOK
<1>3. ASSUME NEW s \in Sessions, Answer(s) PROVE IdleTimerIffActive'
  BY <1>3 DEF Answer
<1>4. ASSUME NEW s \in Sessions, FilterPass(s) PROVE IdleTimerIffActive'
  BY <1>4 DEF FilterPass
<1>5. ASSUME NEW s \in Sessions, PcConnect(s) \/ PcFail(s) \/ OnConnected(s) \/ Touch(s)
      PROVE  IdleTimerIffActive'
  BY <1>5 DEF PcConnect, PcFail, OnConnected, Touch, TypeOK
<1>6. ASSUME NEW s \in Sessions, NEW k \in Closers, FinishClose(s, k) PROVE IdleTimerIffActive'
  <2>1. ClosedSummary(s)
    BY <1>6, ClosedEffect DEF FinishClose
  <2> QED BY <1>6, <2>1 DEF FinishClose, ClosedSummary, TypeOK, PcInv
<1>7. ASSUME NEW c \in Clients, NEW v \in Versions, TermsAccept(c, v) PROVE IdleTimerIffActive'
  BY <1>7 DEF TermsAccept, TypeOK, JobInv
<1>8. CASE CloseStep
  BY <1>8 DEF CloseStep, CloseSummary, Born, TypeOK
<1>9. CASE TimerPasses
  BY <1>9 DEF TimerPasses
<1> QED BY <1>1, <1>2, <1>3, <1>4, <1>5, <1>6, <1>7, <1>8, <1>9, CloseStepShape
        DEF Next, SignalTask, PeerConnection, CloseTask

LEMMA GatherInvStep ==
    ASSUME TypeOK, IInv, Next
    PROVE  GatherInv'
<1> USE SessionsAssumption DEF IInv, GatherInv, GathersOwnAddresses
<1>1. ASSUME NEW s \in Sessions, AnnounceTask(s) PROVE GatherInv'
  BY <1>1 DEF AnnounceTask, Announce, AnnounceTerms, ChallengeSent, GetOrCreateSession, TypeOK, JobInv
<1>2. ASSUME NEW s \in Sessions, DrivingTask(s) PROVE GatherInv'
  BY <1>2 DEF DrivingTask, SetupDone, AcquireLock, GatherDone, GatherFailed, OfferSent,
              OfferLost, TypeOK
<1>3. ASSUME NEW s \in Sessions, Answer(s) PROVE GatherInv'
  BY <1>3 DEF Answer
<1>4. ASSUME NEW s \in Sessions, FilterPass(s) PROVE GatherInv'
  BY <1>4 DEF FilterPass
<1>5. ASSUME NEW s \in Sessions, PcConnect(s) \/ PcFail(s) \/ OnConnected(s) \/ Touch(s)
      PROVE  GatherInv'
  BY <1>5 DEF PcConnect, PcFail, OnConnected, Touch, TypeOK
<1>6. ASSUME NEW s \in Sessions, NEW k \in Closers, FinishClose(s, k) PROVE GatherInv'
  BY <1>6 DEF FinishClose
<1>7. ASSUME NEW c \in Clients, NEW v \in Versions, TermsAccept(c, v) PROVE GatherInv'
  BY <1>7 DEF TermsAccept, TypeOK
<1>8. CASE CloseStep
  BY <1>8 DEF CloseStep
<1>9. CASE TimerPasses
  BY <1>9 DEF TimerPasses
<1> QED BY <1>1, <1>2, <1>3, <1>4, <1>5, <1>6, <1>7, <1>8, <1>9, CloseStepShape
        DEF Next, SignalTask, PeerConnection, CloseTask

LEMMA TermsBeforeOfferStep ==
    ASSUME TypeOK, IInv, Next
    PROVE  TermsBeforeOffer'
<1> USE DEF IInv, TermsBeforeOffer
<1>1. ASSUME NEW s \in Sessions, AnnounceTask(s) PROVE TermsBeforeOffer'
  BY <1>1 DEF AnnounceTask, Announce, AnnounceTerms, ChallengeSent, GetOrCreateSession, TypeOK, JobInv
<1>2. ASSUME NEW s \in Sessions, DrivingTask(s) PROVE TermsBeforeOffer'
  BY <1>2 DEF DrivingTask, SetupDone, AcquireLock, GatherDone, GatherFailed, OfferSent,
              OfferLost, TypeOK, JobInv
<1>3. ASSUME NEW s \in Sessions, Answer(s) PROVE TermsBeforeOffer'
  BY <1>3 DEF Answer
<1>4. ASSUME NEW s \in Sessions, FilterPass(s) PROVE TermsBeforeOffer'
  BY <1>4 DEF FilterPass
<1>5. ASSUME NEW s \in Sessions, PcConnect(s) \/ PcFail(s) \/ OnConnected(s) \/ Touch(s)
      PROVE  TermsBeforeOffer'
  BY <1>5 DEF PcConnect, PcFail, OnConnected, Touch, TypeOK, PcInv, JobInv
<1>6. ASSUME NEW s \in Sessions, NEW k \in Closers, FinishClose(s, k) PROVE TermsBeforeOffer'
  BY <1>6 DEF FinishClose, TypeOK
<1>7. ASSUME NEW c \in Clients, NEW v \in Versions, TermsAccept(c, v) PROVE TermsBeforeOffer'
  BY <1>7 DEF TermsAccept, TypeOK
<1>8. CASE CloseStep
  BY <1>8 DEF CloseStep, CloseSummary, Born, TypeOK
<1>9. CASE TimerPasses
  BY <1>9 DEF TimerPasses
<1> QED BY <1>1, <1>2, <1>3, <1>4, <1>5, <1>6, <1>7, <1>8, <1>9, CloseStepShape
        DEF Next, SignalTask, PeerConnection, CloseTask

LEMMA EverySessionHasAnEndStep ==
    ASSUME TypeOK, IInv, Next
    PROVE  EverySessionHasAnEnd'
<1> USE DEF IInv, EverySessionHasAnEnd, LiveStates
<1>1. ASSUME NEW s \in Sessions, AnnounceTask(s) PROVE EverySessionHasAnEnd'
  BY <1>1 DEF AnnounceTask, Announce, AnnounceTerms, ChallengeSent, GetOrCreateSession, TypeOK, JobInv
<1>2. ASSUME NEW s \in Sessions, DrivingTask(s) PROVE EverySessionHasAnEnd'
  BY <1>2 DEF DrivingTask, SetupDone, AcquireLock, GatherDone, GatherFailed, OfferSent,
              OfferLost, TypeOK
<1>3. ASSUME NEW s \in Sessions, Answer(s) PROVE EverySessionHasAnEnd'
  BY <1>3 DEF Answer
<1>4. ASSUME NEW s \in Sessions, FilterPass(s) PROVE EverySessionHasAnEnd'
  BY <1>4 DEF FilterPass
<1>5. ASSUME NEW s \in Sessions, PcConnect(s) \/ PcFail(s) \/ OnConnected(s) \/ Touch(s)
      PROVE  EverySessionHasAnEnd'
  BY <1>5 DEF PcConnect, PcFail, OnConnected, Touch, TypeOK, PcInv, JobInv
<1>6. ASSUME NEW s \in Sessions, NEW k \in Closers, FinishClose(s, k) PROVE EverySessionHasAnEnd'
  <2>1. ClosedSummary(s)
    BY <1>6, ClosedEffect DEF FinishClose
  <2> QED BY <1>6, <2>1 DEF FinishClose, ClosedSummary, TypeOK
<1>7. ASSUME NEW c \in Clients, NEW v \in Versions, TermsAccept(c, v) PROVE EverySessionHasAnEnd'
  BY <1>7 DEF TermsAccept, TypeOK, JobInv
<1>8. CASE CloseStep
  BY <1>8 DEF CloseStep, CloseSummary, Born, TypeOK, OrphansAreBeingClosed
<1>9. CASE TimerPasses
  BY <1>9 DEF TimerPasses, OrphansAreBeingClosed
<1> QED BY <1>1, <1>2, <1>3, <1>4, <1>5, <1>6, <1>7, <1>8, <1>9, CloseStepShape
        DEF Next, SignalTask, PeerConnection, CloseTask

LEMMA OrphansStep ==
    ASSUME TypeOK, IInv, Next
    PROVE  OrphansAreBeingClosed'
<1> USE DEF IInv, OrphansAreBeingClosed, LiveStates
<1>1. ASSUME NEW s \in Sessions, AnnounceTask(s) PROVE OrphansAreBeingClosed'
  BY <1>1, SessionsAssumption DEF AnnounceTask, Announce, AnnounceTerms, ChallengeSent, GetOrCreateSession, TypeOK, JobInv
<1>2. ASSUME NEW s \in Sessions, DrivingTask(s) PROVE OrphansAreBeingClosed'
  BY <1>2 DEF DrivingTask, SetupDone, AcquireLock, GatherDone, GatherFailed, OfferSent,
              OfferLost, TypeOK
<1>3. ASSUME NEW s \in Sessions, Answer(s) PROVE OrphansAreBeingClosed'
  BY <1>3 DEF Answer
<1>4. ASSUME NEW s \in Sessions, FilterPass(s) PROVE OrphansAreBeingClosed'
  BY <1>4 DEF FilterPass
<1>5. ASSUME NEW s \in Sessions, PcConnect(s) \/ PcFail(s) \/ OnConnected(s) \/ Touch(s)
      PROVE  OrphansAreBeingClosed'
  BY <1>5 DEF PcConnect, PcFail, OnConnected, Touch, TypeOK, PcInv, JobInv
<1>6. ASSUME NEW s \in Sessions, NEW k \in Closers, FinishClose(s, k) PROVE OrphansAreBeingClosed'
  <2>1. ClosedSummary(s)
    BY <1>6, ClosedEffect DEF FinishClose
  <2> QED BY <1>6, <2>1 DEF FinishClose, ClosedSummary, TypeOK
<1>7. ASSUME NEW c \in Clients, NEW v \in Versions, TermsAccept(c, v) PROVE OrphansAreBeingClosed'
  BY <1>7 DEF TermsAccept, TypeOK, JobInv
<1>8. CASE CloseStep
  BY <1>8, SessionsAssumption DEF CloseStep, CloseSummary, Born, TypeOK
<1>9. CASE TimerPasses
  BY <1>9 DEF TimerPasses
<1> QED BY <1>1, <1>2, <1>3, <1>4, <1>5, <1>6, <1>7, <1>8, <1>9, CloseStepShape
        DEF Next, SignalTask, PeerConnection, CloseTask

LEMMA ReplacedInvStep ==
    ASSUME TypeOK, IInv, Next
    PROVE  ReplacedInv'
<1> USE DEF IInv, ReplacedInv, LiveStates, Born
<1>1. ASSUME NEW s \in Sessions, AnnounceTask(s) PROVE ReplacedInv'
  BY <1>1, SessionsAssumption DEF AnnounceTask, Announce, AnnounceTerms, ChallengeSent, GetOrCreateSession, TypeOK, JobInv, RegistryHoldsLive, Registered
<1>2. ASSUME NEW s \in Sessions, DrivingTask(s) PROVE ReplacedInv'
  BY <1>2 DEF DrivingTask, SetupDone, AcquireLock, GatherDone, GatherFailed, OfferSent,
              OfferLost, TypeOK
<1>3. ASSUME NEW s \in Sessions, Answer(s) PROVE ReplacedInv'
  BY <1>3 DEF Answer
<1>4. ASSUME NEW s \in Sessions, FilterPass(s) PROVE ReplacedInv'
  BY <1>4 DEF FilterPass
<1>5. ASSUME NEW s \in Sessions, PcConnect(s) \/ PcFail(s) \/ OnConnected(s) \/ Touch(s)
      PROVE  ReplacedInv'
  BY <1>5 DEF PcConnect, PcFail, OnConnected, Touch, TypeOK
<1>6. ASSUME NEW s \in Sessions, NEW k \in Closers, FinishClose(s, k) PROVE ReplacedInv'
  <2>1. ClosedSummary(s)
    BY <1>6, ClosedEffect DEF FinishClose
  <2> QED BY <1>6, <2>1, SessionsAssumption DEF FinishClose, ClosedSummary, TypeOK, PcInv
<1>7. ASSUME NEW c \in Clients, NEW v \in Versions, TermsAccept(c, v) PROVE ReplacedInv'
  BY <1>7 DEF TermsAccept, TypeOK
<1>8. CASE CloseStep
  BY <1>8, SessionsAssumption DEF CloseStep, CloseSummary, Born, TypeOK
<1>9. CASE TimerPasses
  BY <1>9 DEF TimerPasses
<1> QED BY <1>1, <1>2, <1>3, <1>4, <1>5, <1>6, <1>7, <1>8, <1>9, CloseStepShape
        DEF Next, SignalTask, PeerConnection, CloseTask

LEMMA EldersInvStep ==
    ASSUME TypeOK, IInv, Next
    PROVE  EldersInv'
<1> USE DEF IInv, EldersInv, Born
<1>1. ASSUME NEW s \in Sessions, AnnounceTask(s) PROVE EldersInv'
  <2>1. CASE AnnounceTerms(s)
    BY <1>1, <2>1 DEF AnnounceTerms
  <2>2. CASE Announce(s) \/ ChallengeSent(s)
    <3> DEFINE c == Owner[s]
               kin == {t \in Born : Owner[t] = c}
    <3>1. state[s] = "unborn" /\ s \notin offered /\ c \in Clients
      BY <2>2, SessionsAssumption DEF Announce, ChallengeSent, JobInv
    <3>2. /\ state' = [state EXCEPT ![s] = "connecting"]
          /\ peers' = [peers EXCEPT ![c] = s]
          /\ elders' = [elders EXCEPT ![s] = kin]
          /\ doomed' = doomed \/ (peers[c] # NoSession /\ doomed' = doomed \cup {peers[c]})
          /\ offered' = offered
      BY <2>2 DEF Announce, ChallengeSent, GetOrCreateSession
    <3>3. /\ \A t \in Sessions : state'[t] = IF t = s THEN "connecting" ELSE state[t]
          /\ \A t \in Sessions : elders'[t] = IF t = s THEN kin ELSE elders[t]
          /\ \A t \in Sessions : peers'[Owner[t]] = IF Owner[t] = c THEN s ELSE peers[Owner[t]]
      BY <3>1, <3>2, SessionsAssumption DEF TypeOK
    <3>4. ASSUME NEW t \in Born', NEW u \in Born', Owner[t] = Owner[u], t # u
          PROVE  t \in elders'[u] \/ u \in elders'[t]
      <4>1. t \in Sessions /\ u \in Sessions
        OBVIOUS
      <4>2. CASE t = s
        <5>1. u \in Born /\ Owner[u] = c
          BY <3>3, <3>4, <4>1, <4>2
        <5>2. elders'[t] = kin
          BY <3>3, <4>1, <4>2
        <5> QED BY <5>1, <5>2
      <4>3. CASE u = s
        <5>1. t \in Born /\ Owner[t] = c
          BY <3>3, <3>4, <4>1, <4>3
        <5>2. elders'[u] = kin
          BY <3>3, <4>1, <4>3
        <5> QED BY <5>1, <5>2
      <4>4. CASE t # s /\ u # s
        <5>1. t \in Born /\ u \in Born
          BY <3>3, <3>4, <4>1, <4>4
        <5> QED BY <3>3, <3>4, <4>1, <4>4, <5>1
      <4> QED BY <4>2, <4>3, <4>4
    <3>5. ASSUME NEW u \in Sessions, NEW t \in elders'[u]
          PROVE  t \in Born' /\ Owner[t] = Owner[u] /\ peers'[Owner[t]] # t
      <4>1. CASE u = s
        <5>1. t \in kin
          BY <3>3, <3>5, <4>1
        <5>2. t \in Sessions /\ state[t] # "unborn" /\ Owner[t] = c /\ t # s
          BY <3>1, <5>1
        <5> QED BY <3>3, <4>1, <5>2
      <4>2. CASE u # s
        <5>1. t \in elders[u]
          BY <3>3, <3>5, <4>2
        <5>2. t \in Born /\ Owner[t] = Owner[u] /\ peers[Owner[t]] # t
          BY <5>1
        <5>3. t \in Sessions /\ t # s
          BY <3>1, <5>2
        <5> QED BY <3>3, <5>2, <5>3
      <4> QED BY <4>1, <4>2
    <3>6. ASSUME NEW u \in offered' PROVE elders'[u] \cap doomed' = {}
      <4>1. u \in offered /\ u \in Sessions /\ u # s /\ elders'[u] = elders[u]
        BY <3>1, <3>2, <3>3, <3>6 DEF TypeOK
      <4>2. peers[c] # NoSession => peers[c] \notin elders[u]
        BY <3>1, <4>1 DEF RegistryHoldsLive, Registered
      <4> QED BY <3>2, <4>1, <4>2
    <3> HIDE DEF c, kin
    <3> QED BY <3>4, <3>5, <3>6
  <2> QED BY <1>1, <2>1, <2>2 DEF AnnounceTask
<1>2. ASSUME NEW s \in Sessions, DrivingTask(s) PROVE EldersInv'
  BY <1>2 DEF DrivingTask, SetupDone, AcquireLock, GatherDone, GatherFailed, OfferSent,
              OfferLost, TypeOK
<1>3. ASSUME NEW s \in Sessions, Answer(s) PROVE EldersInv'
  BY <1>3 DEF Answer
<1>4. ASSUME NEW s \in Sessions, FilterPass(s) PROVE EldersInv'
  BY <1>4 DEF FilterPass
<1>5. ASSUME NEW s \in Sessions, PcConnect(s) \/ PcFail(s) \/ OnConnected(s) \/ Touch(s)
      PROVE  EldersInv'
  BY <1>5 DEF PcConnect, PcFail, OnConnected, Touch, TypeOK
<1>6. ASSUME NEW s \in Sessions, NEW k \in Closers, FinishClose(s, k) PROVE EldersInv'
  <2>1. ClosedSummary(s)
    BY <1>6, ClosedEffect DEF FinishClose
  <2> QED BY <1>6, <2>1, SessionsAssumption DEF FinishClose, ClosedSummary, TypeOK, PcInv
<1>7. ASSUME NEW c \in Clients, NEW v \in Versions, TermsAccept(c, v) PROVE EldersInv'
  BY <1>7 DEF TermsAccept, TypeOK
<1>8. CASE CloseStep
  BY <1>8, SessionsAssumption DEF CloseStep, CloseSummary, Born, TypeOK
<1>9. CASE TimerPasses
  BY <1>9 DEF TimerPasses
<1> QED BY <1>1, <1>2, <1>3, <1>4, <1>5, <1>6, <1>7, <1>8, <1>9, CloseStepShape
        DEF Next, SignalTask, PeerConnection, CloseTask

-----------------------------------------------------------------------------
(* Safety.                                                                 *)

\* Throughout every run: the types, and the inductive invariant, whose conjuncts
\* include the promises about the registry, the timers, the gather section, the
\* terms gate and the sessions that were replaced.
THEOREM SafetyCorrect == Spec => [](TypeOK /\ IInv)
<1>1. Init => IInv
  BY SessionsAssumption
     DEF Init, IInv, JobInv, PcInv, RegistryHoldsLive, Registered, IdleTimerIffActive,
         EverySessionHasAnEnd, OrphansAreBeingClosed, EldersInv, GatherInv, GathersOwnAddresses,
         TermsBeforeOffer, ReplacedInv, Born, LiveStates, Watched
<1>2. TypeOK /\ IInv /\ [Next]_vars => IInv'
  <2>1. CASE Next
    BY <2>1, JobInvStep, PcInvStep, RegistryHoldsLiveStep, IdleTimerStep, GatherInvStep,
       TermsBeforeOfferStep, EverySessionHasAnEndStep, OrphansStep, ReplacedInvStep, EldersInvStep
       DEF IInv
  <2>2. CASE UNCHANGED vars
    BY <2>2 DEF vars, IInv, JobInv, PcInv, RegistryHoldsLive, Registered, IdleTimerIffActive,
         EverySessionHasAnEnd, OrphansAreBeingClosed, EldersInv, GatherInv, GathersOwnAddresses,
         TermsBeforeOffer, ReplacedInv, Born, Watched
  <2> QED BY <2>1, <2>2
<1> QED BY <1>1, <1>2, TypeCorrect, PTL DEF Spec

LEMMA ActiveHasOffered ==
    ASSUME TypeOK, IInv, NEW s \in Sessions, state[s] = "active"
    PROVE  s \in offered /\ (peers[Owner[s]] # s => s \in doomed)
  BY SessionsAssumption DEF TypeOK, IInv, PcInv, OrphansAreBeingClosed, LiveStates

\* "Only one active session per pubkey" (docs/PROTOCOL.md), for any number of
\* announces, whatever is still being closed.
THEOREM OneActiveCorrect == Spec => []OneActivePerClient
<1>1. TypeOK /\ IInv => OneActivePerClient
  <2> SUFFICES ASSUME TypeOK, IInv, NEW s \in Sessions, NEW t \in Sessions,
                      state[s] = "active", state[t] = "active", Owner[s] = Owner[t], s # t
               PROVE  FALSE
    BY DEF OneActivePerClient
  <2>1. s \in offered /\ t \in offered
    BY ActiveHasOffered
  <2>2. s \in elders[t] \/ t \in elders[s]
    BY DEF IInv, EldersInv, Born
  <2>3. CASE s \in elders[t]
    <3>1. peers[Owner[s]] # s
      BY <2>3 DEF IInv, EldersInv
    <3>2. s \in doomed
      BY <3>1, ActiveHasOffered
    <3> QED BY <2>1, <2>3, <3>2 DEF IInv, EldersInv
  <2>4. CASE t \in elders[s]
    <3>1. peers[Owner[t]] # t
      BY <2>4 DEF IInv, EldersInv
    <3>2. t \in doomed
      BY <3>1, ActiveHasOffered
    <3> QED BY <2>1, <2>4, <3>2 DEF IInv, EldersInv
  <2> QED BY <2>2, <2>3, <2>4
<1> QED BY <1>1, SafetyCorrect, PTL

\* A live session that lost its registry entry is being closed.
THEOREM OrphansCorrect == Spec => []OrphansAreBeingClosed
<1>1. IInv => OrphansAreBeingClosed
  BY DEF IInv
<1> QED BY <1>1, SafetyCorrect, PTL

\* Every live session has something pending that will end it.
THEOREM EverySessionHasAnEndCorrect == Spec => []EverySessionHasAnEnd
<1>1. IInv => EverySessionHasAnEnd
  BY DEF IInv
<1> QED BY <1>1, SafetyCorrect, PTL

\* Spec 043 holds for any number of concurrent sessions.
THEOREM GathersOwnAddressesCorrect == Spec => []GathersOwnAddresses
<1>1. IInv => GathersOwnAddresses
  BY DEF IInv, GatherInv
<1> QED BY <1>1, SafetyCorrect, PTL

\* No offer before the terms are accepted, for any policy and its reloads.
THEOREM TermsBeforeOfferCorrect == Spec => []TermsBeforeOffer
<1>1. IInv => TermsBeforeOffer
  BY DEF IInv
<1> QED BY <1>1, SafetyCorrect, PTL

-----------------------------------------------------------------------------
(* The session counter of the rate limiter.                                *)

LEMMA RegisteredFinite == IsFiniteSet(Registered) /\ Cardinality(Registered) \in Nat
<1>1. Registered \in SUBSET Clients
  BY DEF Registered
<1>2. IsFiniteSet(Registered)
  BY <1>1, SessionsAssumption, FS_Subset
<1> QED BY <1>2, FS_CardinalityType

\* The registry either keeps its keys, loses one and the counter goes down, or a
\* session is created and the counter goes up.
CounterSame ==
    UNCHANGED <<openCount, replaced>> /\ Registered' = Registered

CounterDown ==
    \E c \in Registered :
        /\ Registered' = Registered \ {c}
        /\ replaced' = replaced
        /\ openCount' = IF openCount = 0 THEN 0 ELSE openCount - 1

CounterUp ==
    /\ openCount' = openCount + 1
    /\ \/ \E c \in Clients \ Registered : Registered' = Registered \cup {c} /\ replaced' = replaced
       \/ \E s \in Sessions \ replaced : Registered' = Registered /\ replaced' = replaced \cup {s}

LEMMA PruneCounts ==
    ASSUME TypeOK, NEW s \in Sessions, peers[Owner[s]] = s,
           peers' = [peers EXCEPT ![Owner[s]] = NoSession],
           openCount' = IF openCount = 0 THEN 0 ELSE openCount - 1, replaced' = replaced
    PROVE  CounterDown
<1>1. Owner[s] \in Registered /\ Registered' = Registered \ {Owner[s]}
  BY SessionsAssumption DEF TypeOK, Registered
<1> QED BY <1>1 DEF CounterDown

LEMMA CounterSteps ==
    ASSUME TypeOK, IInv, [Next]_vars
    PROVE  CounterSame \/ CounterDown \/ (CounterUp /\ \E s \in Sessions : Announce(s) \/ ChallengeSent(s))
<1>1. ASSUME NEW s \in Sessions, Announce(s) \/ ChallengeSent(s) PROVE CounterUp
  <2> DEFINE c == Owner[s]
  <2>1. c \in Clients /\ s # NoSession
    BY SessionsAssumption
  <2>2. /\ peers' = [peers EXCEPT ![c] = s]
        /\ openCount' = openCount + 1
        /\ IF peers[c] = NoSession THEN replaced' = replaced ELSE replaced' = replaced \cup {peers[c]}
    BY <1>1 DEF Announce, ChallengeSent, GetOrCreateSession
  <2>3. CASE peers[c] = NoSession
    <3>1. c \notin Registered /\ Registered' = Registered \cup {c}
      BY <2>1, <2>2, <2>3 DEF TypeOK, Registered
    <3> QED BY <2>1, <2>2, <2>3, <3>1 DEF CounterUp
  <2>4. CASE peers[c] # NoSession
    <3>1. Registered' = Registered
      BY <2>1, <2>2, <2>4 DEF TypeOK, Registered
    <3>2. peers[c] \in Sessions /\ peers[c] \notin replaced
      BY <2>1, <2>4 DEF TypeOK, IInv, ReplacedInv, RegistryHoldsLive, Registered
    <3> QED BY <2>2, <2>4, <3>1, <3>2 DEF CounterUp
  <2> QED BY <2>3, <2>4
<1>2. ASSUME NEW s \in Sessions, NEW k \in Closers, FinishClose(s, k)
      PROVE  CounterSame \/ CounterDown
  <2>1. ClosedSummary(s) /\ replaced' = replaced
    BY <1>2, ClosedEffect DEF FinishClose, IInv
  <2>2. CASE peers[Owner[s]] = s
    BY <2>1, <2>2, PruneCounts DEF ClosedSummary
  <2>3. CASE peers[Owner[s]] # s
    BY <2>1, <2>3 DEF ClosedSummary, CounterSame, Registered
  <2> QED BY <2>2, <2>3
<1>3. ASSUME CloseStep PROVE CounterSame \/ CounterDown
  <2>1. PICK s \in Born, callers \in SUBSET Closers, pending \in SUBSET Sessions :
          CloseSummary(s, callers, pending) /\ replaced' = replaced
    BY <1>3 DEF CloseStep
  <2>2. s \in Sessions
    BY DEF Born
  <2>3. CASE state'[s] = "closed" /\ peers[Owner[s]] = s
    BY <2>1, <2>2, <2>3, PruneCounts DEF CloseSummary
  <2>4. CASE ~(state'[s] = "closed" /\ peers[Owner[s]] = s)
    BY <2>1, <2>4 DEF CloseSummary, CounterSame, Registered
  <2> QED BY <2>3, <2>4
<1>4. ASSUME UNCHANGED <<peers, openCount, replaced>> PROVE CounterSame
  BY <1>4 DEF CounterSame, Registered
<1>5. ASSUME NEW s \in Sessions,
             \/ AnnounceTerms(s) \/ DrivingTask(s) \/ Answer(s) \/ FilterPass(s)
             \/ PcConnect(s) \/ PcFail(s) \/ OnConnected(s) \/ Touch(s)
      PROVE  UNCHANGED <<peers, openCount, replaced>>
  BY <1>5 DEF AnnounceTerms, DrivingTask, SetupDone, AcquireLock, GatherDone, GatherFailed,
              OfferSent, OfferLost, Answer, FilterPass, PcConnect, PcFail, OnConnected, Touch
<1>6. ASSUME NEW c \in Clients, NEW v \in Versions, TermsAccept(c, v)
      PROVE  UNCHANGED <<peers, openCount, replaced>>
  BY <1>6 DEF TermsAccept
<1>7. TimerPasses \/ UNCHANGED vars => UNCHANGED <<peers, openCount, replaced>>
  BY DEF TimerPasses, vars
<1> QED BY <1>1, <1>2, <1>3, <1>4, <1>5, <1>6, <1>7, CloseStepShape
        DEF Next, AnnounceTask, SignalTask, PeerConnection, CloseTask

CounterInv == IsFiniteSet(replaced) /\ CounterCountsReplaced

LEMMA CounterInvariant == Spec => []CounterInv
<1> USE DEF CounterInv
<1>1. Init => CounterInv
  <2> SUFFICES ASSUME Init PROVE CounterInv
    OBVIOUS
  <2>1. replaced = {} /\ Registered = {} /\ openCount = 0
    BY DEF Init, Registered
  <2> QED BY <2>1, FS_EmptySet DEF CounterCountsReplaced
<1>2. TypeOK /\ IInv /\ CounterInv /\ [Next]_vars => CounterInv'
  <2> SUFFICES ASSUME TypeOK, IInv, CounterInv, [Next]_vars PROVE CounterInv'
    OBVIOUS
  <2>1. Cardinality(replaced) \in Nat /\ IsFiniteSet(Registered) /\ Cardinality(Registered) \in Nat
    BY FS_CardinalityType, RegisteredFinite
  <2>2. CASE CounterSame
    BY <2>2 DEF CounterSame, CounterCountsReplaced
  <2>3. CASE CounterDown
    <3>1. PICK c \in Registered :
            /\ Registered' = Registered \ {c}
            /\ replaced' = replaced
            /\ openCount' = IF openCount = 0 THEN 0 ELSE openCount - 1
      BY <2>3 DEF CounterDown
    <3>2. Cardinality(Registered \ {c}) = Cardinality(Registered) - 1
      BY <2>1, FS_RemoveElement
    <3>3. Cardinality(Registered) # 0
      BY <2>1, FS_EmptySet
    <3> QED BY <2>1, <3>1, <3>2, <3>3 DEF CounterCountsReplaced
  <2>4. CASE CounterUp
    <3>1. CASE \E c \in Clients \ Registered :
                 Registered' = Registered \cup {c} /\ replaced' = replaced
      <4>1. PICK c : c \notin Registered /\ Registered' = Registered \cup {c} /\ replaced' = replaced
        BY <3>1
      <4>2. Cardinality(Registered \cup {c}) = Cardinality(Registered) + 1
        BY <2>1, <4>1, FS_AddElement
      <4> QED BY <2>1, <2>4, <4>1, <4>2 DEF CounterUp, CounterCountsReplaced
    <3>2. CASE \E s \in Sessions \ replaced :
                 Registered' = Registered /\ replaced' = replaced \cup {s}
      <4>1. PICK s : s \notin replaced /\ Registered' = Registered /\ replaced' = replaced \cup {s}
        BY <3>2
      <4>2. /\ IsFiniteSet(replaced \cup {s})
            /\ Cardinality(replaced \cup {s}) = Cardinality(replaced) + 1
        BY <4>1, FS_AddElement
      <4> QED BY <2>1, <2>4, <4>1, <4>2 DEF CounterUp, CounterCountsReplaced
    <3> QED BY <2>4, <3>1, <3>2 DEF CounterUp
  <2> QED BY <2>2, <2>3, <2>4, CounterSteps
<1> QED BY <1>1, <1>2, SafetyCorrect, PTL DEF Spec

\* The counter is exact about what it does not forget: it exceeds the number of
\* registered sessions by the number of sessions ever replaced.
THEOREM CounterCorrect == Spec => []CounterCountsReplaced
<1>1. CounterInv => CounterCountsReplaced
  BY DEF CounterInv
<1> QED BY <1>1, CounterInvariant, PTL

\* Without terms rules no announce waits between the check of the limit and the
\* creation of its session.
CapInv ==
    (MaxSessions > 0 /\ Admissions \subseteq {NoTerms}) =>
        openCount <= MaxSessions /\ \A s \in Sessions : job[s] # "challenge"

LEMMA CapInvariant == Spec => []CapInv
<1>1. Init => CapInv
  BY CapAssumption DEF Init, CapInv
<1>2. TypeOK /\ IInv /\ CapInv /\ [Next]_vars => CapInv'
  <2> SUFFICES ASSUME TypeOK, IInv, CapInv, [Next]_vars,
                      MaxSessions > 0, Admissions \subseteq {NoTerms}
               PROVE  openCount' <= MaxSessions /\ \A s \in Sessions : job'[s] # "challenge"
    BY DEF CapInv
  <2>0. openCount <= MaxSessions /\ openCount \in Nat /\ \A s \in Sessions : job[s] # "challenge"
    BY DEF CapInv, TypeOK
  <2>1. openCount' <= MaxSessions
    <3>1. CASE CounterSame
      BY <2>0, <3>1 DEF CounterSame
    <3>2. CASE CounterDown
      BY <2>0, <3>2, CapAssumption DEF CounterDown
    <3>3. CASE CounterUp /\ \E s \in Sessions : Announce(s) \/ ChallengeSent(s)
      <4>1. CheckSession
        BY <2>0, <3>3 DEF Announce, ChallengeSent
      <4> QED BY <2>0, <3>3, <4>1, CapAssumption DEF CheckSession, CounterUp
    <3> QED BY <3>1, <3>2, <3>3, CounterSteps
  <2>2. \A s \in Sessions : job'[s] # "challenge"
    <3>1. ASSUME NEW s \in Sessions, AnnounceTask(s) PROVE \A t \in Sessions : job'[t] # "challenge"
      BY <2>0, <3>1 DEF AnnounceTask, Announce, AnnounceTerms, ChallengeSent, TypeOK
    <3>2. ASSUME NEW s \in Sessions, DrivingTask(s) PROVE \A t \in Sessions : job'[t] # "challenge"
      BY <2>0, <3>2 DEF DrivingTask, SetupDone, AcquireLock, GatherDone, GatherFailed, OfferSent,
                        OfferLost, TypeOK
    <3>3. ASSUME NEW c \in Clients, NEW v \in Versions, TermsAccept(c, v)
          PROVE  \A t \in Sessions : job'[t] # "challenge"
      BY <2>0, <3>3 DEF TermsAccept, TypeOK
    <3>4. ASSUME NEW s \in Sessions, NEW k \in Closers,
                 \/ Answer(s) \/ FilterPass(s) \/ FinishClose(s, k)
                 \/ PcConnect(s) \/ PcFail(s) \/ OnConnected(s) \/ Touch(s)
          PROVE  job' = job
      BY <3>4 DEF Answer, FilterPass, FinishClose, PcConnect, PcFail, OnConnected, Touch
    <3>5. CloseStep \/ TimerPasses \/ UNCHANGED vars => job' = job
      BY DEF CloseStep, TimerPasses, vars
    <3>6. \E k : k \in Closers
      BY DEF Closers
    <3> QED BY <2>0, <3>1, <3>2, <3>3, <3>4, <3>5, <3>6, CloseStepShape
            DEF Next, SignalTask, PeerConnection, CloseTask
  <2> QED BY <2>1, <2>2
<1> QED BY <1>1, <1>2, SafetyCorrect, PTL DEF Spec

\* Each registered session has an entry of its own.
LEMMA HoldersBounded ==
    ASSUME NEW holders, holders = {s \in Sessions : peers[Owner[s]] = s}
    PROVE  IsFiniteSet(holders) /\ Cardinality(holders) <= Cardinality(Registered)
<1> DEFINE f == [s \in holders |-> Owner[s]]
<1>1. \A s \in holders : Owner[s] \in Registered
  BY SessionsAssumption DEF Registered
<1>2. f \in Injection(holders, Registered)
  BY <1>1 DEF Injection, IsInjective
<1> HIDE DEF f
<1> QED BY <1>2, RegisteredFinite, FS_Injection

\* With no terms rule the sessions alive, those being closed included, never
\* exceed the limit, for any number of clients and announces.
THEOREM LiveWithinCapCorrect == Spec => []LiveWithinCap
<1>1. TypeOK /\ IInv /\ CounterInv /\ CapInv => LiveWithinCap
  <2> SUFFICES ASSUME TypeOK, IInv, CounterInv, CapInv,
                      MaxSessions > 0, Admissions \subseteq {NoTerms}
               PROVE  Cardinality({s \in Sessions : state[s] \in LiveStates}) <= MaxSessions
    BY DEF LiveWithinCap
  <2> DEFINE live    == {s \in Sessions : state[s] \in LiveStates}
             holders == {s \in Sessions : peers[Owner[s]] = s}
  <2>1. IsFiniteSet(holders) /\ Cardinality(holders) <= Cardinality(Registered)
    BY HoldersBounded
  <2>2. live \subseteq holders \cup replaced
    BY DEF IInv, ReplacedInv
  <2>3. IsFiniteSet(replaced)
    BY DEF CounterInv
  <2> HIDE DEF live, holders
  <2>4. /\ IsFiniteSet(holders \cup replaced)
        /\ Cardinality(holders \cup replaced)
             = Cardinality(holders) + Cardinality(replaced) - Cardinality(holders \cap replaced)
    BY <2>1, <2>3, FS_Union
  <2>5. Cardinality(live) \in Nat /\ Cardinality(live) <= Cardinality(holders \cup replaced)
    BY <2>2, <2>4, FS_Subset, FS_CardinalityType
  <2>6. /\ Cardinality(holders) \in Nat /\ Cardinality(replaced) \in Nat
        /\ Cardinality(holders \cap replaced) \in Nat /\ Cardinality(Registered) \in Nat
    <3>1. IsFiniteSet(holders \cap replaced)
      BY <2>1, FS_Subset
    <3> QED BY <2>1, <2>3, <3>1, FS_CardinalityType, RegisteredFinite
  <2>7. openCount <= MaxSessions /\ openCount = Cardinality(Registered) + Cardinality(replaced)
    BY DEF CapInv, CounterInv, CounterCountsReplaced
  <2>8. Cardinality(live) <= MaxSessions
    BY <2>1, <2>4, <2>5, <2>6, <2>7, CapAssumption
  <2> QED BY <2>8 DEF live
<1> QED BY <1>1, SafetyCorrect, CounterInvariant, CapInvariant, PTL

-----------------------------------------------------------------------------
(* PeckSessions implements SessionSlots, and what a step may never do to   *)
(* the registry, for any clients, sessions and policy.                     *)

USE DEF closeVars, historyVars, registryVars, termsVars, lockVars, answerVars

-----------------------------------------------------------------------------
(* The registry, step by step.                                             *)

\* An entry changes only by a newer session or because its session has closed.
RegistryChange ==
    \A c \in Clients : peers'[c] # peers[c] =>
        \/ peers'[c] # NoSession /\ state[peers'[c]] = "unborn"
              /\ (peers[c] # NoSession => peers[c] \in doomed')
        \/ peers'[c] = NoSession /\ state'[peers[c]] = "closed"

\* For any number of announces and whatever handlers are still running, a registry
\* entry is only ever taken by a newer session or given up by its own, closed one.
THEOREM RegistryStepCorrect == Spec => RegistryStep
<1>1. TypeOK /\ IInv /\ [Next]_vars => RegistryChange
  <2> SUFFICES ASSUME TypeOK, IInv, [Next]_vars PROVE RegistryChange
    OBVIOUS
  <2> USE DEF RegistryChange
  <2>1. ASSUME NEW s \in Sessions, Announce(s) \/ ChallengeSent(s) PROVE RegistryChange
    <3>1. state[s] = "unborn" /\ Owner[s] \in Clients /\ s # NoSession
      BY <2>1, SessionsAssumption DEF Announce, ChallengeSent, IInv, JobInv
    <3>2. /\ peers' = [peers EXCEPT ![Owner[s]] = s]
          /\ peers[Owner[s]] # NoSession => doomed' = doomed \cup {peers[Owner[s]]}
      BY <2>1 DEF Announce, ChallengeSent, GetOrCreateSession
    <3> QED BY <3>1, <3>2 DEF TypeOK
  <2>2. ASSUME NEW s \in Sessions, NEW k \in Closers, FinishClose(s, k) PROVE RegistryChange
    <3>1. ClosedSummary(s)
      BY <2>2, ClosedEffect DEF FinishClose, IInv
    <3> QED BY <3>1, SessionsAssumption DEF ClosedSummary, TypeOK
  <2>3. ASSUME CloseStep PROVE RegistryChange
    <3>1. PICK s \in Born, callers \in SUBSET Closers, pending \in SUBSET Sessions :
            CloseSummary(s, callers, pending)
      BY <2>3 DEF CloseStep
    <3>2. s \in Sessions /\ Owner[s] \in Clients
      BY SessionsAssumption DEF Born
    <3> QED BY <3>1, <3>2 DEF CloseSummary, TypeOK
  <2>4. ASSUME peers' = peers PROVE RegistryChange
    BY <2>4
  <2>5. ASSUME NEW s \in Sessions,
               \/ AnnounceTerms(s) \/ DrivingTask(s) \/ Answer(s) \/ FilterPass(s)
               \/ PcConnect(s) \/ PcFail(s) \/ OnConnected(s) \/ Touch(s)
        PROVE  peers' = peers
    BY <2>5 DEF AnnounceTerms, DrivingTask, SetupDone, AcquireLock, GatherDone, GatherFailed,
                OfferSent, OfferLost, Answer, FilterPass, PcConnect, PcFail, OnConnected, Touch
  <2>6. ASSUME NEW c \in Clients, NEW v \in Versions, TermsAccept(c, v) PROVE peers' = peers
    BY <2>6 DEF TermsAccept
  <2>7. TimerPasses \/ UNCHANGED vars => peers' = peers
    BY DEF TimerPasses, vars
  <2> QED BY <2>1, <2>2, <2>3, <2>4, <2>5, <2>6, <2>7, CloseStepShape
          DEF Next, AnnounceTask, SignalTask, PeerConnection, CloseTask
<1>2. TypeOK /\ IInv /\ [Next]_vars =>
        [\A c \in Clients : peers'[c] # peers[c] =>
          \/ peers'[c] # NoSession /\ state[peers'[c]] = "unborn"
                /\ (peers[c] # NoSession => peers[c] \in doomed')
          \/ peers'[c] = NoSession /\ state'[peers[c]] = "closed"]_vars
  BY <1>1 DEF RegistryChange
<1> QED BY <1>2, SafetyCorrect, PTL DEF Spec, RegistryStep

-----------------------------------------------------------------------------
(* The refinement of SessionSlots.                                         *)

Phases == Slots!Phases

SlotMap == [c \in Clients |-> SlotOf(c)]

\* One slot moves and the others stay.
Moves(c, from, to) ==
    /\ \A d \in Clients \ {c} : SlotOf(d)' = SlotOf(d)
    /\ SlotOf(c) \in from
    /\ SlotOf(c)' = to

LEMMA MovesIsMove ==
    ASSUME NEW c \in Clients, NEW from, NEW to, Moves(c, from, to)
    PROVE  Slots!Move(c, from, to)
<1>1. SlotMap' = [SlotMap EXCEPT ![c] = to]
  BY DEF Moves, SlotMap
<1>2. SlotMap[c] \in from
  BY DEF Moves, SlotMap
<1> QED BY <1>1, <1>2 DEF Slots!Move, SlotMap

\* What the slot of a registered session is.
LEMMA SlotOfSession ==
    ASSUME TypeOK, IInv, NEW s \in Sessions, peers[Owner[s]] = s
    PROVE  /\ s # NoSession /\ Owner[s] \in Clients /\ state[s] \in LiveStates
           /\ s \in awaiting => SlotOf(Owner[s]) = "gated" /\ state[s] = "connecting"
           /\ s \notin awaiting /\ state[s] = "connecting" => SlotOf(Owner[s]) = "pending"
           /\ s \notin awaiting /\ state[s] = "active" => SlotOf(Owner[s]) = "up"
           /\ s \notin awaiting /\ state[s] = "closing" => SlotOf(Owner[s]) = "ending"
<1>1. s # NoSession /\ Owner[s] \in Clients
  BY SessionsAssumption
<1>2. state[s] \in LiveStates
  BY <1>1 DEF IInv, RegistryHoldsLive, Registered
<1>3. s \in awaiting => pc[s] = "none"
  BY DEF IInv, JobInv
<1>4. s \in awaiting => state[s] = "connecting"
  <2>1. s \in awaiting => ~Watched(s)
    BY DEF IInv, JobInv, Watched
  <2>2. answered[s] # NoSession => Watched(s)
    BY DEF IInv, JobInv
  <2> QED BY <1>1, <1>2, <1>3, <2>1, <2>2 DEF IInv, PcInv, LiveStates
<1> QED BY <1>1, <1>2, <1>4 DEF SlotOf

\* A created session takes over the slot of its client.
LEMMA CreateMoves ==
    ASSUME TypeOK, IInv, NEW s \in Sessions, Announce(s) \/ ChallengeSent(s)
    PROVE  \/ Announce(s) /\ Moves(Owner[s], Phases, "pending")
           \/ ChallengeSent(s) /\ Moves(Owner[s], Phases, "gated")
<1> DEFINE c == Owner[s]
<1>1. /\ c \in Clients /\ s # NoSession
      /\ state[s] = "unborn" /\ s \notin awaiting
  BY SessionsAssumption DEF IInv, JobInv, Announce, ChallengeSent
<1>2. /\ peers' = [peers EXCEPT ![c] = s]
      /\ state' = [state EXCEPT ![s] = "connecting"]
      /\ awaiting' = IF ChallengeSent(s) THEN awaiting \cup {s} ELSE awaiting
  BY DEF Announce, ChallengeSent, GetOrCreateSession
<1>3. ASSUME NEW d \in Clients \ {c} PROVE SlotOf(d)' = SlotOf(d)
  <2>1. peers'[d] = peers[d] /\ peers[d] # s
    BY <1>1, <1>2 DEF TypeOK, IInv, RegistryHoldsLive, Registered, LiveStates
  <2>2. state'[peers[d]] = state[peers[d]]
    BY <1>2, <2>1 DEF TypeOK
  <2> QED BY <1>2, <2>1, <2>2 DEF SlotOf
<1>4. SlotOf(c) \in Phases
  <2>1. CASE peers[c] = NoSession
    BY <2>1 DEF SlotOf, Phases, Slots!Phases
  <2>2. CASE peers[c] # NoSession
    BY <1>1, <2>2 DEF SlotOf, Phases, Slots!Phases, IInv, RegistryHoldsLive, Registered, LiveStates
  <2> QED BY <2>1, <2>2
<1>5. peers'[c] = s /\ state'[s] = "connecting"
  BY <1>1, <1>2 DEF TypeOK
<1>6. SlotOf(c)' = IF ChallengeSent(s) THEN "gated" ELSE "pending"
  BY <1>1, <1>2, <1>5 DEF SlotOf
<1> QED BY <1>3, <1>4, <1>6 DEF Moves

\* A step that changes neither entries, nor the gate or the state of a registered
\* session, changes no slot.
LEMMA SlotsStay ==
    ASSUME peers' = peers,
           \A c \in Registered : /\ state'[peers[c]] = state[peers[c]]
                                 /\ peers[c] \in awaiting' <=> peers[c] \in awaiting
    PROVE  \A c \in Clients : SlotOf(c)' = SlotOf(c)
  BY DEF SlotOf, Registered

\* Whatever happens to a registered session that leaves the other sessions and
\* the other entries alone moves only the slot of its client.
LEMMA OthersStay ==
    ASSUME TypeOK, IInv, NEW s \in Sessions,
           peers' = peers \/ peers' = [peers EXCEPT ![Owner[s]] = NoSession],
           \A t \in Sessions \ {s} : state'[t] = state[t],
           awaiting' \subseteq awaiting, awaiting \ {s} \subseteq awaiting'
    PROVE  \A d \in Clients \ {Owner[s]} : SlotOf(d)' = SlotOf(d)
<1> SUFFICES ASSUME NEW d \in Clients \ {Owner[s]} PROVE SlotOf(d)' = SlotOf(d)
  OBVIOUS
<1>1. peers'[d] = peers[d]
  BY SessionsAssumption DEF TypeOK
<1>2. peers[d] # NoSession => peers[d] \in Sessions \ {s}
  BY DEF TypeOK, IInv, RegistryHoldsLive, Registered
<1> QED BY <1>1, <1>2 DEF SlotOf

\* A close step ends a registered session, or finds it ended.
LEMMA CloseMoves ==
    ASSUME TypeOK, IInv, CloseStep
    PROVE  \/ \A c \in Clients : SlotOf(c)' = SlotOf(c)
           \/ \E c \in Clients : Moves(c, {"gated"}, "free") \/ Moves(c, {"pending", "up"}, "ending")
<1>1. PICK s \in Born, callers \in SUBSET Closers, pending \in SUBSET Sessions :
        /\ CloseSummary(s, callers, pending)
        /\ awaiting' \subseteq awaiting /\ awaiting \ {s} \subseteq awaiting'
  BY DEF CloseStep
<1>2. s \in Sessions /\ Owner[s] \in Clients /\ s # NoSession
  BY SessionsAssumption DEF Born
<1>3. CASE peers[Owner[s]] # s
  <2>1. \A c \in Registered : peers[c] \in Sessions \ {s}
    BY <1>3 DEF TypeOK, IInv, RegistryHoldsLive, Registered
  <2>2. peers' = peers /\ \A t \in Sessions \ {s} : state'[t] = state[t]
    BY <1>1, <1>3 DEF CloseSummary
  <2> QED BY <1>1, <2>1, <2>2, SlotsStay
<1>4. CASE peers[Owner[s]] = s /\ state'[s] = "closed"
  <2>1. state[s] # "closed" /\ pc[s] = "none"
    BY <1>1, <1>4, SlotOfSession, <1>2 DEF CloseSummary, LiveStates
  <2>2. s \in awaiting
    BY <1>2, <1>4, <2>1, SlotOfSession
       DEF IInv, EverySessionHasAnEnd, JobInv, PcInv, ReplacedInv, Watched
  <2>3. peers' = [peers EXCEPT ![Owner[s]] = NoSession]
    BY <1>1, <1>4 DEF CloseSummary
  <2>4. \A d \in Clients \ {Owner[s]} : SlotOf(d)' = SlotOf(d)
    BY <1>1, <1>2, <2>3, OthersStay DEF CloseSummary
  <2>5. SlotOf(Owner[s])' = "free"
    BY <1>2, <2>3 DEF SlotOf, TypeOK
  <2>6. SlotOf(Owner[s]) = "gated"
    BY <1>2, <1>4, <2>2, SlotOfSession
  <2> QED BY <1>2, <2>4, <2>5, <2>6 DEF Moves
<1>5. CASE peers[Owner[s]] = s /\ state'[s] = "closing"
  <2>1. pc[s] # "none" /\ pc'[s] = "closed" /\ peers' = peers
    BY <1>1, <1>5 DEF CloseSummary
  <2>2. s \notin awaiting /\ s \notin awaiting'
    BY <1>1, <1>2, <2>1 DEF IInv, JobInv
  <2>3. \A d \in Clients \ {Owner[s]} : SlotOf(d)' = SlotOf(d)
    BY <1>1, <1>2, <2>1, OthersStay DEF CloseSummary
  <2>4. SlotOf(Owner[s])' = "ending"
    BY <1>2, <1>5, <2>1, <2>2 DEF SlotOf
  <2>5. SlotOf(Owner[s]) \in {"pending", "up", "ending"}
    BY <1>2, <1>5, <2>2, SlotOfSession DEF LiveStates
  <2>6. CASE SlotOf(Owner[s]) = "ending"
    BY <2>3, <2>4, <2>6
  <2>7. CASE SlotOf(Owner[s]) # "ending"
    BY <1>2, <2>3, <2>4, <2>5, <2>7 DEF Moves
  <2> QED BY <2>6, <2>7
<1> QED BY <1>1, <1>3, <1>4, <1>5 DEF CloseSummary

\* The end of a close() that survived releases the slot of a registered session.
LEMMA FinishMoves ==
    ASSUME TypeOK, IInv, NEW s \in Sessions, NEW k \in Closers, FinishClose(s, k)
    PROVE  \/ \A c \in Clients : SlotOf(c)' = SlotOf(c)
           \/ Moves(Owner[s], {"ending"}, "free")
<1>1. ClosedSummary(s) /\ awaiting' = awaiting /\ closers[s] # {}
  BY ClosedEffect DEF FinishClose, IInv
<1>2. Owner[s] \in Clients /\ pc[s] = "closed" /\ s \notin awaiting
  BY <1>1, SessionsAssumption DEF IInv, PcInv, JobInv
<1>3. \A t \in Sessions \ {s} : state'[t] = state[t]
  BY <1>1 DEF ClosedSummary, TypeOK
<1>4. CASE peers[Owner[s]] # s
  <2>1. \A c \in Registered : peers[c] \in Sessions \ {s}
    BY <1>4 DEF TypeOK, IInv, RegistryHoldsLive, Registered
  <2>2. peers' = peers
    BY <1>1, <1>4 DEF ClosedSummary
  <2> QED BY <1>1, <1>3, <2>1, <2>2, SlotsStay
<1>5. CASE peers[Owner[s]] = s
  <2>1. peers' = [peers EXCEPT ![Owner[s]] = NoSession]
    BY <1>1, <1>5 DEF ClosedSummary
  <2>2. \A d \in Clients \ {Owner[s]} : SlotOf(d)' = SlotOf(d)
    BY <1>1, <1>3, <2>1, OthersStay
  <2>3. SlotOf(Owner[s])' = "free"
    BY <1>2, <2>1 DEF SlotOf, TypeOK
  <2>4. state[s] = "closing"
    BY <1>2, <1>5, SlotOfSession DEF IInv, PcInv, LiveStates
  <2>5. SlotOf(Owner[s]) = "ending"
    BY <1>2, <1>5, <2>4, SlotOfSession
  <2> QED BY <2>2, <2>3, <2>5 DEF Moves
<1> QED BY <1>4, <1>5

\* The terms are accepted, or refused without effect.
LEMMA AcceptMoves ==
    ASSUME TypeOK, IInv, NEW c \in Clients, NEW v \in Versions, TermsAccept(c, v)
    PROVE  \/ \A d \in Clients : SlotOf(d)' = SlotOf(d)
           \/ Moves(c, {"gated"}, "pending")
<1> DEFINE s == peers[c]
<1>1. s \in Sessions /\ s # NoSession /\ Owner[s] = c /\ s \in awaiting
  BY DEF TermsAccept, TypeOK, IInv, RegistryHoldsLive, Registered
<1>2. peers' = peers /\ state' = state
  BY DEF TermsAccept
<1>3. CASE awaiting' = awaiting
  BY <1>2, <1>3, SlotsStay
<1>4. CASE awaiting' = awaiting \ {s}
  <2>1. SlotOf(c) = "gated" /\ state[s] = "connecting"
    BY <1>1, SlotOfSession
  <2>2. SlotOf(c)' = "pending"
    BY <1>1, <1>2, <1>4, <2>1 DEF SlotOf
  <2>3. \A d \in Clients \ {c} : SlotOf(d)' = SlotOf(d)
    BY <1>1, <1>2, <1>4, OthersStay
  <2> QED BY <2>1, <2>2, <2>3 DEF Moves
<1> QED BY <1>3, <1>4 DEF TermsAccept

\* The tunnel of a registered session comes up.
LEMMA ConnectedMoves ==
    ASSUME TypeOK, IInv, NEW s \in Sessions, OnConnected(s)
    PROVE  \/ \A c \in Clients : SlotOf(c)' = SlotOf(c)
           \/ Moves(Owner[s], {"pending"}, "up")
<1>1. /\ peers' = peers /\ awaiting' = awaiting
      /\ s \notin awaiting /\ Owner[s] \in Clients
      /\ \A t \in Sessions \ {s} : state'[t] = state[t]
  BY SessionsAssumption DEF OnConnected, IInv, JobInv, TypeOK
<1>2. CASE state[s] = "connecting" /\ peers[Owner[s]] = s
  <2>1. state'[s] = "active"
    BY <1>2 DEF OnConnected, TypeOK
  <2>2. SlotOf(Owner[s]) = "pending" /\ s # NoSession
    BY <1>1, <1>2, SlotOfSession
  <2>3. SlotOf(Owner[s])' = "up"
    BY <1>1, <1>2, <2>1, <2>2 DEF SlotOf
  <2>4. \A d \in Clients \ {Owner[s]} : SlotOf(d)' = SlotOf(d)
    BY <1>1, OthersStay
  <2> QED BY <2>2, <2>3, <2>4 DEF Moves
<1>3. CASE state[s] # "connecting"
  BY <1>1, <1>3, SlotsStay DEF OnConnected
<1>4. CASE peers[Owner[s]] # s
  <2>1. \A c \in Registered : peers[c] \in Sessions \ {s}
    BY <1>4 DEF TypeOK, IInv, RegistryHoldsLive, Registered
  <2> QED BY <1>1, <2>1, SlotsStay
<1> QED BY <1>2, <1>3, <1>4

\* Every step of the daemon is a step of one client's slot, or of none: nothing
\* that still runs for an earlier session of a client moves the slot in a way
\* SessionSlots does not allow.
THEOREM SlotsCorrect == Spec => ImplementsSlots
<1>1. Init => Slots!Init
  BY DEF Init, Slots!Init, SlotOf
<1>2. TypeOK /\ IInv /\ [Next]_vars => [Slots!Next]_SlotMap
  <2> SUFFICES ASSUME TypeOK, IInv, [Next]_vars
               PROVE  Slots!Next \/ SlotMap' = SlotMap
    OBVIOUS
  <2> USE DEF Slots!Next, Slots!Admit, Slots!Challenge, Slots!Accept, Slots!Expire,
              Slots!Establish, Slots!End, Slots!Release, Phases
  <2>0. (\A c \in Clients : SlotOf(c)' = SlotOf(c)) => SlotMap' = SlotMap
    BY DEF SlotMap
  <2>1. ASSUME NEW s \in Sessions, Announce(s) \/ ChallengeSent(s) PROVE Slots!Next
    <3>1. Owner[s] \in Clients
      BY SessionsAssumption
    <3> QED BY <2>1, <3>1, CreateMoves, MovesIsMove
  <2>2. ASSUME NEW s \in Sessions, NEW k \in Closers, FinishClose(s, k)
        PROVE  Slots!Next \/ SlotMap' = SlotMap
    <3>1. Owner[s] \in Clients
      BY SessionsAssumption
    <3> QED BY <2>0, <2>2, <3>1, FinishMoves, MovesIsMove
  <2>3. CASE CloseStep
    BY <2>0, <2>3, CloseMoves, MovesIsMove
  <2>4. ASSUME NEW c \in Clients, NEW v \in Versions, TermsAccept(c, v)
        PROVE  Slots!Next \/ SlotMap' = SlotMap
    BY <2>0, <2>4, AcceptMoves, MovesIsMove
  <2>5. ASSUME NEW s \in Sessions, OnConnected(s) PROVE Slots!Next \/ SlotMap' = SlotMap
    <3>1. Owner[s] \in Clients
      BY SessionsAssumption
    <3> QED BY <2>0, <2>5, <3>1, ConnectedMoves, MovesIsMove
  <2>6. ASSUME UNCHANGED <<peers, state, awaiting>> PROVE SlotMap' = SlotMap
    BY <2>0, <2>6, SlotsStay
  <2>7. ASSUME NEW s \in Sessions,
               \/ AnnounceTerms(s) \/ DrivingTask(s) \/ Answer(s) \/ FilterPass(s)
               \/ PcConnect(s) \/ PcFail(s) \/ Touch(s)
        PROVE  UNCHANGED <<peers, state, awaiting>>
    BY <2>7 DEF AnnounceTerms, DrivingTask, SetupDone, AcquireLock, GatherDone, GatherFailed,
                OfferSent, OfferLost, Answer, FilterPass, PcConnect, PcFail, Touch
  <2>8. TimerPasses \/ UNCHANGED vars => UNCHANGED <<peers, state, awaiting>>
    BY DEF TimerPasses, vars
  <2> QED BY <2>1, <2>2, <2>3, <2>4, <2>5, <2>6, <2>7, <2>8, CloseStepShape
          DEF Next, AnnounceTask, SignalTask, PeerConnection, CloseTask
<1> QED BY <1>1, <1>2, SafetyCorrect, PTL DEF Spec, ImplementsSlots, Slots!Spec, SlotMap

=============================================================================
