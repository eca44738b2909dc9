------------------------------ MODULE Admission ------------------------------
(***************************************************************************)
(* What an announce has to pass before the daemon does any work for it:    *)
(* the announce limits of RateLimiter (daemon/rate_limiter.py) and the     *)
(* rules of PolicyEngine (daemon/policy.py), which SIGHUP reloads together *)
(* with the ports map.  The cap on sessions is in PeckSessions.            *)
(*                                                                         *)
(* A rule names the clients and the addresses it matches, an empty set     *)
(* matches all; how addresses, networks, countries and regions are         *)
(* compared is left out.  Time is counted in steps of a clock.  A list of  *)
(* times is the set of the announces it stands for: the code looks at the  *)
(* times and at how many there are, never at their order.                  *)
(***************************************************************************)
EXTENDS Integers, Sequences, FiniteSets

CONSTANTS
    Clients, Addresses,
    NoAddress,        \* client_ip is None
    Contents,         \* contents of the policy file: [rules, default, limits]
    Window, Cooldown, \* window_seconds, cooldown_seconds
    MaxNow,           \* where the clock stops (a bound)
    MaxLog            \* how many announces may pass within a window without limits (a bound)

\* Policy.from_dict refuses a file with another effect; a rule that names none allows.
Effects == {"allow", "deny", "loud-deny"}

\* What may be wrong with the file; "broken" does not parse or is no policy.
BadFiles == {"broken", "missing"}

AdmissionAssumption ==
    /\ IsFiniteSet(Clients) /\ NoAddress \notin Addresses
    /\ Contents \subseteq [rules : Seq([clients : SUBSET Clients, addresses : SUBSET Addresses, effect : Effects]),
                           default : Effects, limits : [perClient : Int, global : Int]]
    /\ Window \in Nat \ {0} /\ Cooldown \in Nat
    /\ MaxNow \in Nat /\ MaxLog \in Nat

VARIABLES
    now,         \* time.time()
    times,       \* RateLimiter._announce_times, for each client
    tracked,     \* the keys of _announce_times
    globalTimes, \* RateLimiter._global_announce_times
    limits,      \* RateLimiter.config
    policy,      \* PolicyEngine._policy
    file,        \* the policy file: whether it can be read, and what it says if it can
    log,         \* history: the announces that passed the limits within the last Window steps
    last         \* history: the last announce and its verdict

vars == <<now, times, tracked, globalTimes, limits, policy, file, log, last>>

AllowAll == [rules |-> <<>>, default |-> "allow"]

\* Policy.from_dict: the part of the content that is the policy.
Parsed(content) == [rules |-> content.rules, default |-> content.default]

\* An announce that passed: whose, when, and the how manieth at that time.
Announces == [who : Clients, time : 0..MaxNow, nth : 1..MaxLog]

NoVerdict == [who |-> {}, address |-> NoAddress, effect |-> "none"]

\* main: the limits are read from the file once.
Init ==
    /\ now = 0
    /\ times = [c \in Clients |-> {}]
    /\ tracked = {}
    /\ globalTimes = {}
    /\ file \in [state : {"ok"}, content : Contents]
    /\ limits = file.content.limits
    /\ policy = Parsed(file.content)
    /\ log = {}
    /\ last = NoVerdict

-----------------------------------------------------------------------------
(* RateLimiter.check_announce                                              *)

\* Fault: the border of the window.
PruneWide(ts) == {e \in ts : now - e.time <= Window}

Prune(ts) == {e \in ts : now - e.time < Window}

\* A limit of 0 is no limit.
WithinOwn(c)  == limits.perClient > 0 => Cardinality(Prune(times[c])) < limits.perClient
WithinAll     == limits.global > 0 => Cardinality(Prune(globalTimes)) < limits.global

\* Nothing that passed is counted twice, or for another.
Entry(c) == [who |-> c, time |-> now, nth |-> Cardinality({e \in log : e.time = now}) + 1]

Record(c) ==
    /\ IF limits.perClient > 0
       THEN /\ times' = [times EXCEPT ![c] = Prune(@) \cup {Entry(c)}]
            /\ tracked' = tracked \cup {c}
       ELSE UNCHANGED <<times, tracked>>
    /\ globalTimes' = IF limits.global > 0 THEN Prune(globalTimes) \cup {Entry(c)} ELSE globalTimes

-----------------------------------------------------------------------------
(* PolicyEngine.decide                                                     *)

Matches(rule, c, address) ==
    /\ rule.clients = {} \/ c \in rule.clients
    /\ rule.addresses = {} \/ address \in rule.addresses

\* The first rule that matches decides.
Decide(c, address) ==
    LET hits == {i \in 1..Len(policy.rules) : Matches(policy.rules[i], c, address)}
        first == CHOOSE i \in hits : \A j \in hits : i <= j
    IN  IF hits = {} THEN policy.default ELSE policy.rules[first].effect

HasIpRules == \E i \in 1..Len(policy.rules) : policy.rules[i].addresses # {}

\* What handle_announce does with a client that the limits let pass.
Verdict(c, address) ==
    IF address = NoAddress /\ HasIpRules THEN "request-ip" ELSE Decide(c, address)

Refuse(c) ==
    /\ last' = [who |-> {c}, address |-> NoAddress, effect |-> "refused"]
    /\ UNCHANGED <<times, tracked, globalTimes, log>>

\* handle_announce, up to the creation of a session.
HandleAnnounce(c, address) ==
    /\ IF WithinOwn(c) /\ WithinAll
       THEN /\ Cardinality(log) < MaxLog
            /\ Record(c)
            /\ log' = log \cup {Entry(c)}
            /\ last' = [who |-> {c}, address |-> address, effect |-> Verdict(c, address)]
       ELSE Refuse(c)
    /\ UNCHANGED <<now, limits, policy, file>>

-----------------------------------------------------------------------------
(* The operator, SIGHUP and the clock                                      *)

EditFile ==
    /\ \/ file' \in [state : {"ok"}, content : Contents] \ {file}
       \/ \E bad \in BadFiles \ {file.state} : file' = [file EXCEPT !.state = bad]
    /\ UNCHANGED <<now, times, tracked, globalTimes, limits, policy, log, last>>

\* PolicyEngine.reload: a missing file is the default policy, one that is broken is an
\* error.  The limits stay.
Reload ==
    /\ policy' = CASE file.state = "ok"      -> Parsed(file.content)
                   [] file.state = "missing" -> AllowAll
                   [] OTHER                  -> policy
    /\ last' = NoVerdict
    /\ UNCHANGED <<now, times, tracked, globalTimes, limits, file, log>>

Tick ==
    /\ now < MaxNow /\ now' = now + 1
    /\ last' = NoVerdict
    /\ log' = {e \in log : now' - e.time < Window}
    /\ UNCHANGED <<times, tracked, globalTimes, limits, policy, file>>

Next ==
    \/ \E c \in Clients : \E address \in Addresses \cup {NoAddress} : HandleAnnounce(c, address)
    \/ EditFile \/ Reload \/ Tick

Spec == Init /\ [][Next]_vars

-----------------------------------------------------------------------------

\* Types; and an announce that passes gets an entry of its own.
TypeOK ==
    /\ now \in 0..MaxNow
    /\ times \in [Clients -> SUBSET Announces]
    /\ tracked \subseteq Clients
    /\ globalTimes \subseteq Announces
    /\ limits \in {content.limits : content \in Contents}
    /\ policy \in {Parsed(content) : content \in Contents} \cup {AllowAll}
    /\ file \in [state : {"ok"} \cup BadFiles, content : Contents]
    /\ \A c \in Clients : times[c] # {} => c \in tracked
    /\ log \subseteq Announces
    /\ \A c \in Clients : Entry(c) \notin log

Recent(c) == Cardinality({e \in log : e.who = c})

\* In no window do more announces pass than are allowed, of one client and of all.
WindowsHold ==
    /\ limits.perClient > 0 => \A c \in Clients : Recent(c) <= limits.perClient
    /\ limits.global > 0 => Cardinality(log) <= limits.global

\* An announce is refused only if its client, or all clients together, have used up the
\* window with announces that passed: neither refused ones nor old ones count.
RefusedOnlyAtLimit ==
    last.effect = "refused" =>
        \/ \E c \in last.who : limits.perClient > 0 /\ Recent(c) >= limits.perClient
        \/ limits.global > 0 /\ Cardinality(log) >= limits.global

\* A client that keeps its address to itself is not let in where it would be turned away
\* with some address.
HidingGainsNothing ==
    last.effect = "allow" /\ last.address = NoAddress =>
        \A c \in last.who : \A address \in Addresses : Decide(c, address) = "allow"

\* PolicyEngine.reload: "On error, keep the old policy and log", so that an edit that goes
\* wrong does not change who is let in.  The code does not keep it when the file is missing.
PolicyChangesIfRead == policy' # policy => file.state = "ok"

ErrorKeepsPolicy == [][PolicyChangesIfRead]_vars

\* Limits and policy let in whom they should: never too many, nobody for hiding an address;
\* and they refuse nobody whose window is not used up.
GateHolds == [](TypeOK /\ WindowsHold /\ RefusedOnlyAtLimit /\ HidingGainsNothing)

\* "Reload the policy file without restarting the daemon" (ACCESS_CONTROL.md).
ReloadTakesAll == [][Reload /\ file.state = "ok" => limits' = file.content.limits]_vars

\* "All state is kept in dicts with TTL-based pruning" (rate_limiter.py).
StaleIsForgotten ==
    \A c \in tracked : \E e \in times[c] : now - e.time <= Cooldown + Window

=============================================================================
