------------------------------ MODULE RelayFeed ------------------------------
(***************************************************************************)
(* How direct messages reach the daemon (daemon/daemon.py):                *)
(* subscribe_relays with its listener and keepalive tasks, one per relay,  *)
(* and handle_dm, which drops the events whose id it has seen.             *)
(*                                                                         *)
(* A relay stores what is published to it and, as the filter has no        *)
(* "since", sends all of it again on every subscription.  A socket may     *)
(* close, or fall silent without closing, and a relay may be out of reach  *)
(* for a while; both happen a bounded number of times.                     *)
(***************************************************************************)
EXTENDS Naturals, Sequences, FiniteSets

CONSTANTS
    Relays, Events,
    MaxSeen, KeepSeen,   \* 1000 and 500 in handle_dm
    MaxTroubles          \* how often sockets, relays and the daemon fail (a bound)

ASSUME FeedAssumption ==
    /\ IsFiniteSet(Events)
    /\ MaxSeen \in Nat /\ KeepSeen \in 1..MaxSeen
    /\ MaxTroubles \in Nat

VARIABLES
    stored,    \* what each relay has
    down,      \* the relays that cannot be reached
    link,      \* the socket of each relay: "never" if the daemon did not get one when it started
    feed,      \* what is still to come on the socket
    keepalive, \* the keepalive task of each relay: asleep between rounds, or waiting after a probe
    fresh,     \* relays whose last message is younger than the keepalive interval
    seen,      \* _seen_event_ids, oldest first
    troubles,  \* how many failures there were
    handled,   \* history: the events this daemon has handled
    others     \* history: for each event, the ids recorded since its own

vars == <<stored, down, link, feed, keepalive, fresh, seen, troubles, handled, others>>

outside == <<stored, down, troubles>>
memory  == <<seen, handled, others>>

\* The sockets after subscribe_relays has gone through its relays.
FirstLink == [r \in Relays |-> IF r \in down THEN "never" ELSE "up"]
FirstFeed == [r \in Relays |-> IF r \in down THEN {} ELSE stored[r]]

Init ==
    /\ stored = [r \in Relays |-> {}]
    /\ down \in SUBSET Relays /\ down # Relays
    /\ link = FirstLink /\ feed = FirstFeed
    /\ keepalive = [r \in Relays |-> "asleep"] /\ fresh = Relays
    /\ seen = <<>> /\ handled = {} /\ others = [e \in Events |-> {}]
    /\ troubles = 0

-----------------------------------------------------------------------------
(* Clients, relays and sockets                                             *)

\* A client sends an event to every relay it is connected to.
Publish(e, some) ==
    /\ some # {} /\ some \cap down = {}
    /\ \A r \in Relays : e \notin stored[r]
    /\ stored' = [r \in Relays |-> IF r \in some THEN stored[r] \cup {e} ELSE stored[r]]
    /\ feed' = [r \in Relays |-> IF r \in some /\ link[r] = "up" THEN feed[r] \cup {e} ELSE feed[r]]
    /\ UNCHANGED <<down, link, keepalive, fresh, troubles, memory>>

\* The socket ends, or goes silent; what was under way on it is lost.
LinkFails(r) ==
    /\ link[r] = "up"
    /\ troubles < MaxTroubles /\ troubles' = troubles + 1
    /\ \E how \in {"closed", "silent"} : link' = [link EXCEPT ![r] = how]
    /\ feed' = [feed EXCEPT ![r] = {}]
    /\ UNCHANGED <<stored, down, keepalive, fresh, memory>>

RelayFails(r) ==
    /\ r \notin down
    /\ troubles < MaxTroubles /\ troubles' = troubles + 1
    /\ down' = down \cup {r}
    /\ link' = [link EXCEPT ![r] = IF @ = "never" THEN @ ELSE "closed"]
    /\ feed' = [feed EXCEPT ![r] = {}]
    /\ UNCHANGED <<stored, keepalive, fresh, memory>>

RelayReturns(r) ==
    /\ r \in down
    /\ down' = down \ {r}
    /\ UNCHANGED <<stored, link, feed, keepalive, fresh, troubles, memory>>

\* The daemon is restarted: it remembers nothing and subscribes anew.
Restart ==
    /\ troubles < MaxTroubles /\ troubles' = troubles + 1
    /\ down # Relays
    /\ link' = FirstLink /\ feed' = FirstFeed
    /\ keepalive' = [r \in Relays |-> "asleep"] /\ fresh' = Relays
    /\ seen' = <<>> /\ handled' = {} /\ others' = [e \in Events |-> {}]
    /\ UNCHANGED <<stored, down>>

-----------------------------------------------------------------------------
(* handle_dm                                                               *)

\* Fault: one id too many is dropped.
PruneMore(ids) == IF Len(ids) > MaxSeen THEN SubSeq(ids, Len(ids) - KeepSeen + 2, Len(ids)) ELSE ids

\* The oldest ids go first, until KeepSeen are left.
Prune(ids) == IF Len(ids) > MaxSeen THEN SubSeq(ids, Len(ids) - KeepSeen + 1, Len(ids)) ELSE ids

IsSeen(e) == \E i \in 1..Len(seen) : seen[i] = e

HandleDm(e) ==
    IF IsSeen(e) THEN UNCHANGED memory
    ELSE /\ seen' = Prune(Append(seen, e))
         /\ handled' = handled \cup {e}
         /\ others' = [f \in Events |-> IF f = e THEN {} ELSE others[f] \cup {e}]

\* listen
Receive(r, e) ==
    /\ e \in feed[r]
    /\ feed' = [feed EXCEPT ![r] = @ \ {e}]
    /\ fresh' = fresh \cup {r}
    /\ HandleDm(e)
    /\ UNCHANGED <<link, keepalive, outside>>

-----------------------------------------------------------------------------
(* keepalive                                                               *)

Reconnect(r) ==
    IF r \in down
    THEN /\ link' = [link EXCEPT ![r] = "closed"]
         /\ feed' = [feed EXCEPT ![r] = {}]
         /\ UNCHANGED fresh
    ELSE /\ link' = [link EXCEPT ![r] = "up"]
         /\ feed' = [feed EXCEPT ![r] = stored[r]]
         /\ fresh' = fresh \cup {r}

\* Fault: a closed socket is left alone.
RoundSkipsClosed(r) ==
    /\ keepalive[r] = "asleep" /\ link[r] # "never"
    /\ IF link[r] = "closed"
       THEN UNCHANGED <<link, feed, fresh, keepalive>>
       ELSE /\ keepalive' = [keepalive EXCEPT ![r] = "probed"]
            /\ UNCHANGED <<link, feed, fresh>>
    /\ UNCHANGED <<outside, memory>>

\* The probe may fail to be sent on a socket that has fallen silent.
Round(r) ==
    /\ keepalive[r] = "asleep" /\ link[r] # "never"
    /\ \/ link[r] \in {"closed", "silent"} /\ Reconnect(r) /\ UNCHANGED keepalive
       \/ /\ link[r] \in {"up", "silent"}
          /\ keepalive' = [keepalive EXCEPT ![r] = "probed"]
          /\ UNCHANGED <<link, feed, fresh>>
    /\ UNCHANGED <<outside, memory>>

\* The relay answers the probe if it can.  A socket whose last message is old is replaced;
\* one that has just fallen silent is found out in the next round.
ProbeEnds(r) ==
    /\ keepalive[r] = "probed"
    /\ keepalive' = [keepalive EXCEPT ![r] = "asleep"]
    /\ \/ link[r] = "up" /\ fresh' = fresh \cup {r} /\ UNCHANGED <<link, feed>>
       \/ link[r] # "up" /\ r \in fresh /\ fresh' = fresh \ {r} /\ UNCHANGED <<link, feed>>
       \/ link[r] # "up" /\ r \notin fresh /\ Reconnect(r)
    /\ UNCHANGED <<outside, memory>>

-----------------------------------------------------------------------------

Next ==
    \/ \E e \in Events : \E some \in SUBSET Relays : Publish(e, some)
    \/ \E r \in Relays :
          \/ LinkFails(r) \/ RelayFails(r) \/ RelayReturns(r)
          \/ Round(r) \/ ProbeEnds(r)
          \/ \E e \in Events : Receive(r, e)
    \/ Restart

Spec == Init /\ [][Next]_vars

\* The tasks of the event loop run, what a relay sends arrives, and a relay comes back
\* some day.
Fairness ==
    \A r \in Relays :
        /\ WF_vars(RelayReturns(r))
        /\ WF_vars(Round(r)) /\ WF_vars(ProbeEnds(r))
        /\ \A e \in Events : WF_vars(Receive(r, e))

FairSpec == Spec /\ Fairness

-----------------------------------------------------------------------------

TypeOK ==
    /\ stored \in [Relays -> SUBSET Events]
    /\ down \subseteq Relays
    /\ link \in [Relays -> {"never", "up", "closed", "silent"}]
    /\ feed \in [Relays -> SUBSET Events]
    /\ keepalive \in [Relays -> {"asleep", "probed"}]
    /\ fresh \subseteq Relays
    /\ seen \in Seq(Events) /\ Len(seen) <= MaxSeen
    /\ troubles \in 0..MaxTroubles
    /\ handled \subseteq Events
    /\ others \in [Events -> SUBSET Events]

\* handle_dm handles an event that it has handled before.
HandlesAgain(e) == e \in handled /\ seen' # seen /\ seen' # <<>> /\ seen'[Len(seen')] = e

\* Between two times that handle_dm handles the same event, it has recorded at least
\* KeepSeen other ids: pruning never forgets a recent event, however the copies of several
\* relays interleave.
RecentIsRemembered ==
    [][\A e \in Events : HandlesAgain(e) => Cardinality(others[e]) >= KeepSeen]_vars

\* _seen_event_ids holds no id twice, so that its length is what the limits are about.
SeenOnce == \A i, j \in 1..Len(seen) : seen[i] = seen[j] => i = j

\* What a relay has is handled or still to come, as long as its socket works: publishing,
\* subscribing anew and dropping what was seen leave no event between the two.
NothingLost ==
    \A r \in Relays : link[r] = "up" => \A e \in stored[r] : e \in feed[r] \/ e \in handled

\* What handle_dm remembers and what is on the way to it: the types, no id twice, no event
\* lost on a socket that works, and nothing recent forgotten.
MemoryHolds == [](TypeOK /\ SeenOnce /\ NothingLost) /\ RecentIsRemembered

\* An event that some relay has is handled, through failing sockets, silent ones, relays
\* that are away and restarts, provided that the daemon reached that relay when it started.
EventsArrive ==
    \A r \in Relays : \A e \in Events :
        e \in stored[r] ~> e \in handled \/ link[r] = "never"

\* PROTOCOL.md: "the daemon tracks seen event IDs ... to handle the same event arriving via
\* multiple relays".
HandledOnce == [][\A e \in Events : ~HandlesAgain(e)]_vars

=============================================================================
