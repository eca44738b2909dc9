--------------------------- MODULE RelayFeedProofs ---------------------------
(***************************************************************************)
(* Proofs about RelayFeed, for any relays, any finite set of events and    *)
(* any limits.                                                             *)
(*                                                                         *)
(* That pruning forgets no recent event is a fact about the whole list:    *)
(* behind an id stand only ids that were recorded after it, and an id is   *)
(* dropped only when KeepSeen others stand behind it.                      *)
(***************************************************************************)
EXTENDS RelayFeed, FiniteSetTheorems, SequenceTheorems, TLAPS

MemoryTypes ==
    /\ seen \in Seq(Events) /\ Len(seen) <= MaxSeen
    /\ handled \subseteq Events
    /\ others \in [Events -> SUBSET Events]

\* Only what was handled is remembered.
SeenHandled == \A i \in 1..Len(seen) : seen[i] \in handled

\* The ids behind an id were recorded after it.
BehindIsLater == \A i, j \in 1..Len(seen) : i < j => seen[j] \in others[seen[i]]

\* What was handled is remembered, or KeepSeen others have been recorded since.
ForgottenIsOld == \A e \in handled : IsSeen(e) \/ Cardinality(others[e]) >= KeepSeen

MemInv == MemoryTypes /\ SeenOnce /\ SeenHandled /\ BehindIsLater /\ ForgottenIsOld

-----------------------------------------------------------------------------

\* Every set of events is finite, and a larger one has more of them.
LEMMA EventSets ==
    \A S \in SUBSET Events : /\ IsFiniteSet(S) /\ Cardinality(S) \in Nat
                             /\ \A T \in SUBSET S : Cardinality(T) <= Cardinality(S)
<1> SUFFICES ASSUME NEW S \in SUBSET Events
             PROVE  /\ IsFiniteSet(S) /\ Cardinality(S) \in Nat
                    /\ \A T \in SUBSET S : Cardinality(T) <= Cardinality(S)
  OBVIOUS
<1>1. IsFiniteSet(S)
  BY FeedAssumption, FS_Subset
<1>2. Cardinality(S) \in Nat
  BY <1>1, FS_CardinalityType
<1>3. \A T \in SUBSET S : Cardinality(T) <= Cardinality(S)
  BY <1>1, FS_Subset
<1> QED BY <1>1, <1>2, <1>3

\* n ids, all different, are n events.
LEMMA DifferentIds ==
    ASSUME NEW n \in Nat, NEW q \in Seq(Events), n <= Len(q),
           \A i, j \in 1..Len(q) : q[i] = q[j] => i = j,
           NEW S \in SUBSET Events, \A i \in 1..n : q[i] \in S
    PROVE  Cardinality(S) >= n
<1> DEFINE f == [i \in 1..n |-> q[i]]
<1>1. IsFiniteSet(S) /\ Cardinality(S) \in Nat
  BY EventSets
<1>2. IsFiniteSet(1..n) /\ Cardinality(1..n) = n
  BY FS_Interval
<1>3. f \in [1..n -> S]
  OBVIOUS
<1>4. \A x, y \in 1..n : f[x] = f[y] => x = y
  OBVIOUS
<1> HIDE DEF f
<1>5. SUFFICES ASSUME Cardinality(S) < Cardinality(1..n) PROVE FALSE
  BY <1>1, <1>2
<1> QED BY <1>1, <1>2, <1>3, <1>4, <1>5, FS_PigeonHole

\* What Prune leaves: the list as it is, or its last KeepSeen ids, after dropping some.
LEMMA PruneFacts ==
    ASSUME NEW q \in Seq(Events), Len(q) <= MaxSeen + 1, q # <<>>
    PROVE  /\ Prune(q) \in Seq(Events) /\ Len(Prune(q)) <= MaxSeen
           /\ \E d \in Nat :
                 /\ d + Len(Prune(q)) = Len(q) /\ Len(Prune(q)) >= 1
                 /\ \A i \in 1..Len(Prune(q)) : d + i \in 1..Len(q) /\ Prune(q)[i] = q[d + i]
                 /\ d > 0 => Len(Prune(q)) = KeepSeen
<1>1. Len(q) \in Nat \ {0} /\ MaxSeen \in Nat /\ KeepSeen \in 1..MaxSeen
      /\ \A i \in 1..Len(q) : q[i] \in Events
  BY FeedAssumption
<1>2. CASE Len(q) <= MaxSeen
  <2>1. Prune(q) = q
    BY <1>1, <1>2 DEF Prune
  <2>2. \A i \in 1..Len(q) : 0 + i \in 1..Len(q) /\ q[i] = q[0 + i]
    BY <1>1
  <2>3. 0 + Len(q) = Len(q) /\ Len(q) >= 1 /\ 0 \in Nat /\ ~(0 > 0)
    BY <1>1
  <2> QED BY <1>2, <2>1, <2>2, <2>3
<1>3. CASE Len(q) > MaxSeen
  <2> DEFINE m == Len(q) - KeepSeen + 1
  <2>1. Prune(q) = SubSeq(q, m, Len(q)) /\ m \in 1..Len(q) /\ Len(q) - m + 1 = KeepSeen
    BY <1>1, <1>3 DEF Prune
  <2> HIDE DEF m
  <2>2. /\ SubSeq(q, m, Len(q)) \in Seq(Events)
        /\ Len(SubSeq(q, m, Len(q))) = Len(q) - m + 1
        /\ \A i \in 1..(Len(q) - m + 1) : SubSeq(q, m, Len(q))[i] = q[m + i - 1]
    BY <1>1, <2>1, SubSeqProperties
  <2>3. Prune(q) \in Seq(Events) /\ Len(Prune(q)) = KeepSeen
    BY <2>1, <2>2
  <2>4. \A i \in 1..KeepSeen : (m - 1) + i \in 1..Len(q) /\ Prune(q)[i] = q[(m - 1) + i]
    BY <1>1, <2>1, <2>2
  <2>5. m - 1 \in Nat /\ (m - 1) + KeepSeen = Len(q)
    BY <1>1, <2>1
  <2>6. Len(Prune(q)) >= 1 /\ Len(Prune(q)) <= MaxSeen
    BY <1>1, <2>3
  <2> QED BY <2>3, <2>4, <2>5, <2>6
<1> QED BY <1>1, <1>2, <1>3

LEMMA InitMem == Init => MemInv
<1> SUFFICES ASSUME Init PROVE MemInv
  OBVIOUS
<1>1. seen = <<>> /\ handled = {} /\ others = [e \in Events |-> {}]
  BY DEF Init
<1>2. Len(seen) = 0 /\ seen \in Seq(Events)
  BY <1>1
<1> QED BY <1>1, <1>2, FeedAssumption
      DEF MemInv, MemoryTypes, SeenOnce, SeenHandled, BehindIsLater, ForgottenIsOld

\* The core: an event is recorded.
LEMMA RecordStep ==
    ASSUME MemInv, NEW e \in Events, ~IsSeen(e), HandleDm(e)
    PROVE  MemInv' /\ seen' # <<>> /\ seen'[Len(seen')] = e
<1> DEFINE q == Append(seen, e)
<1>1. /\ seen' = Prune(q) /\ handled' = handled \cup {e}
      /\ others' = [f \in Events |-> IF f = e THEN {} ELSE others[f] \cup {e}]
  BY DEF HandleDm
<1>2. /\ seen \in Seq(Events) /\ Len(seen) \in Nat /\ Len(seen) <= MaxSeen
      /\ handled \subseteq Events /\ others \in [Events -> SUBSET Events]
      /\ MaxSeen \in Nat /\ KeepSeen \in 1..MaxSeen
  BY FeedAssumption DEF MemInv, MemoryTypes
<1>3. /\ q \in Seq(Events) /\ q # <<>> /\ Len(q) = Len(seen) + 1
      /\ q[Len(q)] = e /\ \A i \in 1..Len(seen) : q[i] = seen[i]
  BY <1>2
<1>4. \A i \in 1..Len(seen) : seen[i] \in Events /\ seen[i] # e /\ seen[i] \in handled
  BY <1>2 DEF IsSeen, MemInv, SeenHandled
<1> HIDE DEF q
<1>5. \A i, j \in 1..Len(q) : q[i] = q[j] => i = j
  <2> SUFFICES ASSUME NEW i \in 1..Len(q), NEW j \in 1..Len(q), q[i] = q[j] PROVE i = j
    OBVIOUS
  <2>1. (i \in 1..Len(seen) \/ i = Len(q)) /\ (j \in 1..Len(seen) \/ j = Len(q))
    BY <1>2, <1>3
  <2>2. \A k, l \in 1..Len(seen) : seen[k] = seen[l] => k = l
    BY DEF MemInv, SeenOnce
  <2> QED BY <1>3, <1>4, <2>1, <2>2
<1>6. \A i, j \in 1..Len(q) : i < j => q[j] \in others'[q[i]]
  <2> SUFFICES ASSUME NEW i \in 1..Len(q), NEW j \in 1..Len(q), i < j PROVE q[j] \in others'[q[i]]
    OBVIOUS
  <2>1. i \in 1..Len(seen) /\ (j \in 1..Len(seen) \/ j = Len(q))
    BY <1>2, <1>3, SMTT(30)
  <2>2. q[i] = seen[i] /\ seen[i] \in Events /\ seen[i] # e
    BY <1>3, <1>4, <2>1
  <2>3. others'[q[i]] = others[seen[i]] \cup {e}
    BY <1>1, <2>2
  <2>4. CASE j \in 1..Len(seen)
    BY <1>3, <2>1, <2>3, <2>4 DEF MemInv, BehindIsLater
  <2> QED BY <1>3, <2>1, <2>3, <2>4
<1>6a. Len(q) <= MaxSeen + 1
  BY <1>2, <1>3
<1>7. PICK d \in Nat :
        /\ d + Len(seen') = Len(q) /\ Len(seen') >= 1
        /\ \A i \in 1..Len(seen') : d + i \in 1..Len(q) /\ seen'[i] = q[d + i]
        /\ d > 0 => Len(seen') = KeepSeen
  BY <1>1, <1>3, <1>6a, PruneFacts
<1>8. seen' \in Seq(Events) /\ Len(seen') <= MaxSeen /\ Len(seen') \in Nat
  BY <1>1, <1>2, <1>3, PruneFacts
<1>9. seen' # <<>> /\ seen'[Len(seen')] = e
  <2>1. Len(seen') \in 1..Len(seen')
    BY <1>7, <1>8
  <2> QED BY <1>3, <1>7, <1>8, <2>1
<1>10. MemoryTypes'
  <2>1. handled' \subseteq Events /\ others' \in [Events -> SUBSET Events]
    BY <1>1, <1>2
  <2> QED BY <1>8, <2>1 DEF MemoryTypes
<1>11. \A i, j \in 1..Len(seen') : seen'[i] = seen'[j] => i = j
  BY <1>5, <1>7, <1>8, SMTT(30)
<1>12. SeenHandled'
  <2>1. \A i \in 1..Len(q) : q[i] \in handled'
    <3> SUFFICES ASSUME NEW i \in 1..Len(q) PROVE q[i] \in handled'
      OBVIOUS
    <3>1. i \in 1..Len(seen) \/ i = Len(q)
      BY <1>2, <1>3
    <3> QED BY <1>1, <1>3, <1>4, <3>1
  <2> QED BY <1>7, <2>1 DEF SeenHandled
<1>13. BehindIsLater'
  <2> SUFFICES ASSUME NEW i \in 1..Len(seen'), NEW j \in 1..Len(seen'), i < j
               PROVE  seen'[j] \in others'[seen'[i]]
    BY DEF BehindIsLater
  <2>1. d + i \in 1..Len(q) /\ d + j \in 1..Len(q) /\ d + i < d + j
        /\ seen'[i] = q[d + i] /\ seen'[j] = q[d + j]
    BY <1>7, <1>8
  <2> QED BY <1>6, <2>1
<1>14. ForgottenIsOld'
  <2> SUFFICES ASSUME NEW f \in handled', ~IsSeen(f)' PROVE Cardinality(others'[f]) >= KeepSeen
    BY DEF ForgottenIsOld
  <2>1. f # e
    <3>1. Len(seen') \in 1..Len(seen')
      BY <1>7, <1>8
    <3> QED BY <1>9, <3>1 DEF IsSeen
  <2>2. f \in handled /\ f \in Events
    BY <1>1, <1>2, <2>1
  <2>3. others'[f] = others[f] \cup {e} /\ others'[f] \in SUBSET Events /\ others[f] \in SUBSET others'[f]
    BY <1>1, <1>2, <2>1, <2>2
  <2>4. CASE ~IsSeen(f)
    <3>1. Cardinality(others[f]) >= KeepSeen
      BY <2>2, <2>4 DEF MemInv, ForgottenIsOld
    <3>2. Cardinality(others[f]) <= Cardinality(others'[f]) /\ Cardinality(others'[f]) \in Nat
          /\ Cardinality(others[f]) \in Nat
      BY <2>3, EventSets
    <3> QED BY <1>2, <3>1, <3>2
  <2>5. CASE IsSeen(f)
    <3>1. PICK k \in 1..Len(seen) : seen[k] = f
      BY <2>5 DEF IsSeen
    <3>2. k \in 1..Len(q) /\ q[k] = f
      BY <1>2, <1>3, <3>1
    <3>3. k <= d
      <4> SUFFICES ASSUME k > d PROVE FALSE
        BY <3>2
      <4>1. k - d \in 1..Len(seen') /\ d + (k - d) = k
        BY <1>2, <1>3, <1>7, <1>8, <3>2
      <4>2. seen'[k - d] = f
        BY <1>7, <3>2, <4>1
      <4> QED BY <4>1, <4>2 DEF IsSeen
    <3>4. Len(seen') = KeepSeen
      BY <1>7, <3>2, <3>3
    <3>5. \A i \in 1..KeepSeen : seen'[i] \in others'[f]
      <4> SUFFICES ASSUME NEW i \in 1..KeepSeen PROVE seen'[i] \in others'[f]
        OBVIOUS
      <4>1. d + i \in 1..Len(q) /\ k < d + i /\ seen'[i] = q[d + i]
        BY <1>2, <1>7, <3>2, <3>3, <3>4
      <4> QED BY <1>6, <3>2, <4>1
    <3>6. KeepSeen \in Nat /\ KeepSeen <= Len(seen')
      BY <1>2, <3>4
    <3> QED BY <1>8, <1>11, <2>3, <3>5, <3>6, DifferentIds
  <2> QED BY <2>4, <2>5
<1> QED BY <1>9, <1>10, <1>11, <1>12, <1>13, <1>14 DEF MemInv, SeenOnce

LEMMA NextMem == MemInv /\ [Next]_vars => MemInv'
<1> SUFFICES ASSUME MemInv, [Next]_vars PROVE MemInv'
  OBVIOUS
<1>1. UNCHANGED memory => MemInv'
  BY DEF memory, MemInv, MemoryTypes, SeenOnce, SeenHandled, BehindIsLater, ForgottenIsOld, IsSeen
<1>2. ASSUME NEW r \in Relays, NEW e \in Events, Receive(r, e) PROVE MemInv'
  <2>1. CASE IsSeen(e)
    BY <1>1, <1>2, <2>1 DEF Receive, HandleDm
  <2>2. CASE ~IsSeen(e)
    BY <1>2, <2>2, RecordStep DEF Receive
  <2> QED BY <2>1, <2>2
<1>3. CASE Restart
  <2>1. seen' = <<>> /\ handled' = {} /\ others' = [e \in Events |-> {}]
    BY <1>3 DEF Restart
  <2>2. Len(seen') = 0 /\ seen' \in Seq(Events)
    BY <2>1
  <2> QED BY <2>1, <2>2, FeedAssumption
        DEF MemInv, MemoryTypes, SeenOnce, SeenHandled, BehindIsLater, ForgottenIsOld
<1>4. \A e \in Events : \A some \in SUBSET Relays : Publish(e, some) => UNCHANGED memory
  BY DEF Publish
<1>5. \A r \in Relays : LinkFails(r) \/ RelayFails(r) \/ RelayReturns(r) => UNCHANGED memory
  BY DEF LinkFails, RelayFails, RelayReturns
<1>6. \A r \in Relays : Round(r) \/ ProbeEnds(r) => UNCHANGED memory
  BY DEF Round, ProbeEnds
<1>7. UNCHANGED vars => UNCHANGED memory
  BY DEF vars, memory
<1> QED BY <1>1, <1>2, <1>3, <1>4, <1>5, <1>6, <1>7 DEF Next

LEMMA MemInvariance == Spec => []MemInv
BY InitMem, NextMem, PTL DEF Spec

-----------------------------------------------------------------------------
(* The sockets                                                             *)

LinkTypes ==
    /\ stored \in [Relays -> SUBSET Events]
    /\ down \subseteq Relays
    /\ link \in [Relays -> {"never", "up", "closed", "silent"}]
    /\ feed \in [Relays -> SUBSET Events]
    /\ keepalive \in [Relays -> {"asleep", "probed"}]
    /\ fresh \subseteq Relays
    /\ troubles \in 0..MaxTroubles

LEMMA FirstTypes ==
    ASSUME stored \in [Relays -> SUBSET Events]
    PROVE  /\ FirstLink \in [Relays -> {"never", "up", "closed", "silent"}]
           /\ FirstFeed \in [Relays -> SUBSET Events]
BY DEF FirstLink, FirstFeed

LEMMA ReconnectTypes ==
    ASSUME LinkTypes, NEW r \in Relays, Reconnect(r)
    PROVE  /\ link' \in [Relays -> {"never", "up", "closed", "silent"}]
           /\ feed' \in [Relays -> SUBSET Events]
           /\ fresh' \subseteq Relays
BY DEF LinkTypes, Reconnect

LEMMA LinkSteps == LinkTypes /\ [Next]_vars => LinkTypes'
<1> SUFFICES ASSUME LinkTypes, [Next]_vars PROVE LinkTypes'
  OBVIOUS
<1>1. ASSUME NEW e \in Events, NEW some \in SUBSET Relays, Publish(e, some) PROVE LinkTypes'
  BY <1>1 DEF Publish, LinkTypes
<1>2. ASSUME NEW r \in Relays, LinkFails(r) PROVE LinkTypes'
  BY <1>2, FeedAssumption DEF LinkFails, LinkTypes
<1>3. ASSUME NEW r \in Relays, RelayFails(r) PROVE LinkTypes'
  BY <1>3, FeedAssumption DEF RelayFails, LinkTypes
<1>4. ASSUME NEW r \in Relays, RelayReturns(r) PROVE LinkTypes'
  BY <1>4 DEF RelayReturns, LinkTypes
<1>5. CASE Restart
  <2>1. /\ link' = FirstLink /\ feed' = FirstFeed /\ fresh' = Relays
        /\ keepalive' = [r \in Relays |-> "asleep"] /\ UNCHANGED <<stored, down>>
    BY <1>5 DEF Restart
  <2>2. troubles' \in 0..MaxTroubles
    BY <1>5, FeedAssumption DEF Restart, LinkTypes
  <2> QED BY <2>1, <2>2, FirstTypes DEF LinkTypes
<1>6. ASSUME NEW r \in Relays, NEW e \in Events, Receive(r, e) PROVE LinkTypes'
  BY <1>6 DEF Receive, outside, LinkTypes
<1>7. ASSUME NEW r \in Relays, Round(r) PROVE LinkTypes'
  <2>1. keepalive' \in [Relays -> {"asleep", "probed"}] /\ UNCHANGED <<stored, down, troubles>>
    BY <1>7 DEF Round, outside, LinkTypes
  <2>2. Reconnect(r) \/ UNCHANGED <<link, feed, fresh>>
    BY <1>7 DEF Round
  <2> QED BY <2>1, <2>2, ReconnectTypes DEF LinkTypes
<1>8. ASSUME NEW r \in Relays, ProbeEnds(r) PROVE LinkTypes'
  <2>1. keepalive' \in [Relays -> {"asleep", "probed"}] /\ UNCHANGED <<stored, down, troubles>>
    BY <1>8 DEF ProbeEnds, outside, LinkTypes
  <2>2. Reconnect(r) \/ (UNCHANGED <<link, feed>> /\ fresh' \subseteq Relays)
    BY <1>8 DEF ProbeEnds, LinkTypes
  <2> QED BY <2>1, <2>2, ReconnectTypes DEF LinkTypes
<1>9. CASE UNCHANGED vars
  BY <1>9 DEF vars, LinkTypes
<1> QED BY <1>1, <1>2, <1>3, <1>4, <1>5, <1>6, <1>7, <1>8, <1>9 DEF Next

LEMMA LinkInvariance == Spec => []LinkTypes
<1>1. Init => LinkTypes
  <2> SUFFICES ASSUME Init PROVE LinkTypes
    OBVIOUS
  <2>1. stored \in [Relays -> SUBSET Events]
    BY DEF Init
  <2> QED BY <2>1, FirstTypes, FeedAssumption DEF Init, LinkTypes
<1> QED BY <1>1, LinkSteps, PTL DEF Spec

-----------------------------------------------------------------------------
(* What is on the way                                                      *)

FeedInv == MemInv /\ LinkTypes /\ NothingLost

\* A socket that is opened again brings all that its relay has.
LEMMA ReconnectLosesNothing ==
    ASSUME FeedInv, NEW r \in Relays, Reconnect(r), UNCHANGED <<stored, handled>>
    PROVE  NothingLost'
<1>1. \E l \in {"up", "closed"}, f \in {{}, stored[r]} :
          /\ link' = [link EXCEPT ![r] = l] /\ feed' = [feed EXCEPT ![r] = f]
          /\ l = "up" => f = stored[r]
  BY DEF Reconnect
<1>2. \A x \in Relays : /\ x # r => link'[x] = link[x] /\ feed'[x] = feed[x]
                        /\ link'[r] = "up" => feed'[r] = stored[r]
  BY <1>1 DEF FeedInv, LinkTypes
<1> QED BY <1>2 DEF FeedInv, NothingLost

\* A socket that stops working, or a relay that does, takes nothing from the others.
LEMMA FailureLosesNothing ==
    ASSUME FeedInv, NEW r \in Relays, LinkFails(r) \/ RelayFails(r)
    PROVE  NothingLost'
<1>1. UNCHANGED <<stored, handled>> /\ feed' = [feed EXCEPT ![r] = {}]
  BY DEF LinkFails, RelayFails, memory
<1>2. link'[r] # "up" /\ \A x \in Relays : x # r => link'[x] = link[x]
  BY DEF LinkFails, RelayFails, FeedInv, LinkTypes
<1>3. \A x \in Relays : x # r => feed'[x] = feed[x]
  BY <1>1 DEF FeedInv, LinkTypes
<1> QED BY <1>1, <1>2, <1>3 DEF FeedInv, NothingLost

\* What leaves the socket has been handled now, or was remembered and so handled before.
LEMMA ReceiveLosesNothing ==
    ASSUME FeedInv, NEW r \in Relays, NEW e \in Events, Receive(r, e)
    PROVE  NothingLost'
<1>1. UNCHANGED <<stored, link>> /\ feed' = [feed EXCEPT ![r] = @ \ {e}] /\ HandleDm(e)
  BY DEF Receive, outside
<1>2. e \in handled' /\ handled \subseteq handled'
  <2>1. CASE IsSeen(e)
    BY <1>1, <2>1 DEF HandleDm, memory, IsSeen, FeedInv, MemInv, SeenHandled
  <2>2. CASE ~IsSeen(e)
    BY <1>1, <2>2 DEF HandleDm
  <2> QED BY <2>1, <2>2
<1>3. \A x \in Relays : \A f \in feed[x] : f \in feed'[x] \/ f = e
  BY <1>1 DEF FeedInv, LinkTypes
<1> QED BY <1>1, <1>2, <1>3 DEF FeedInv, NothingLost

\* Neither does a new event, nor a daemon that starts anew.
LEMMA PublishLosesNothing ==
    ASSUME FeedInv, NEW e \in Events, NEW some \in SUBSET Relays, Publish(e, some)
    PROVE  NothingLost'
<1>1. /\ stored' = [r \in Relays |-> IF r \in some THEN stored[r] \cup {e} ELSE stored[r]]
      /\ feed' = [r \in Relays |-> IF r \in some /\ link[r] = "up" THEN feed[r] \cup {e} ELSE feed[r]]
      /\ UNCHANGED <<link, handled>>
  BY DEF Publish, memory
<1> QED BY <1>1 DEF FeedInv, NothingLost

LEMMA RestartLosesNothing == Restart => NothingLost'
<1> SUFFICES ASSUME Restart PROVE NothingLost'
  OBVIOUS
<1>1. link' = FirstLink /\ feed' = FirstFeed /\ UNCHANGED stored
  BY DEF Restart
<1> QED BY <1>1 DEF FirstLink, FirstFeed, NothingLost

LEMMA NextFeed == FeedInv /\ [Next]_vars => FeedInv'
<1> SUFFICES ASSUME FeedInv, [Next]_vars PROVE NothingLost'
  BY NextMem, LinkSteps DEF FeedInv
<1>1. UNCHANGED <<stored, link, feed, handled>> => NothingLost'
  BY DEF FeedInv, NothingLost
<1>2. \A r \in Relays : RelayReturns(r) => NothingLost'
  BY <1>1 DEF RelayReturns, memory
<1>3. \A r \in Relays : Round(r) \/ ProbeEnds(r) =>
          /\ UNCHANGED <<stored, handled>>
          /\ Reconnect(r) \/ UNCHANGED <<link, feed>>
  BY DEF Round, ProbeEnds, outside, memory
<1>4. \A r \in Relays : Round(r) \/ ProbeEnds(r) => NothingLost'
  BY <1>1, <1>3, ReconnectLosesNothing
<1>5. UNCHANGED vars => NothingLost'
  BY <1>1 DEF vars
<1> QED BY <1>2, <1>4, <1>5, FailureLosesNothing, ReceiveLosesNothing, PublishLosesNothing,
           RestartLosesNothing DEF Next

\* No event that a relay has is lost on a socket that works, for any relays and events: a
\* copy that is dropped because its id was seen is one of an event that was handled.
THEOREM NothingLostHolds == Spec => []NothingLost
<1>1. Init => FeedInv
  <2> SUFFICES ASSUME Init PROVE FeedInv
    OBVIOUS
  <2>1. stored \in [Relays -> SUBSET Events] /\ \A r \in Relays : stored[r] = {}
    BY DEF Init
  <2>2. LinkTypes
    BY <2>1, FirstTypes, FeedAssumption DEF Init, LinkTypes
  <2> QED BY <2>1, <2>2, InitMem DEF FeedInv, NothingLost
<1>2. FeedInv => NothingLost
  BY DEF FeedInv
<1> QED BY <1>1, <1>2, NextFeed, PTL DEF Spec

-----------------------------------------------------------------------------

\* An event is handled again only when KeepSeen others were recorded since.
LEMMA AgainStep ==
    ASSUME MemInv, [Next]_vars, NEW e \in Events, HandlesAgain(e)
    PROVE  Cardinality(others[e]) >= KeepSeen
<1>1. e \in handled /\ seen' # seen /\ seen' # <<>> /\ seen'[Len(seen')] = e
  BY DEF HandlesAgain
<1>2. PICK r \in Relays, f \in Events : Receive(r, f)
  <2>1. \A f \in Events : \A some \in SUBSET Relays : Publish(f, some) => UNCHANGED seen
    BY DEF Publish, memory
  <2>2. \A r \in Relays : LinkFails(r) \/ RelayFails(r) \/ RelayReturns(r) => UNCHANGED seen
    BY DEF LinkFails, RelayFails, RelayReturns, memory
  <2>3. \A r \in Relays : Round(r) \/ ProbeEnds(r) => UNCHANGED seen
    BY DEF Round, ProbeEnds, memory
  <2>4. Restart => seen' = <<>>
    BY DEF Restart
  <2>5. UNCHANGED vars => UNCHANGED seen
    BY DEF vars
  <2> QED BY <1>1, <2>1, <2>2, <2>3, <2>4, <2>5 DEF Next
<1>3. HandleDm(f) /\ ~IsSeen(f)
  BY <1>1, <1>2 DEF Receive, HandleDm, memory
<1>4. f = e
  BY <1>1, <1>3, RecordStep
<1> QED BY <1>1, <1>3, <1>4 DEF MemInv, ForgottenIsOld

\* The memory of handle_dm holds no id twice and stays within its limit, and an event is
\* handled again only after KeepSeen others, and none is lost on a socket that works, whatever
\* relays send, lose or repeat.
THEOREM MemoryHoldsTheorem == Spec => MemoryHolds
<1>1. MemInv /\ LinkTypes => TypeOK /\ SeenOnce
  BY DEF MemInv, MemoryTypes, LinkTypes, TypeOK
<1>2. MemInv /\ [Next]_vars =>
        [\A e \in Events : HandlesAgain(e) => Cardinality(others[e]) >= KeepSeen]_vars
  BY AgainStep
<1> QED BY MemInvariance, LinkInvariance, NothingLostHolds, <1>1, <1>2, PTL
      DEF Spec, MemoryHolds, RecentIsRemembered

=============================================================================
