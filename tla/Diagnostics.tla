----------------------------- MODULE Diagnostics -----------------------------
(***************************************************************************)
(* What the page shows of a connection: parseStats and inferNatType of     *)
(* browser/src/client.js, polled every three seconds while the browser     *)
(* gathers candidates, checks pairs and selects one.                       *)
(*                                                                         *)
(* A report is a sequence of entries, in the order in which the browser    *)
(* lists them.  Round trip times, ports and packets are left out: they are *)
(* taken from the same entries as what is kept.                            *)
(***************************************************************************)
EXTENDS Naturals, Sequences, FiniteSets, SequencesExt

CONSTANTS
    Pairs,      \* ids of the candidate pairs there may be
    LocalOf, RemoteOf,  \* the candidates of each pair
    TypeOf,     \* the type of each candidate
    MaxBytes    \* how much is sent over a pair (a bound)

Candidates == {LocalOf[p] : p \in Pairs} \cup {RemoteOf[p] : p \in Pairs}

\* RTCIceCandidateType: of an interface, of a server's or a peer's sight of it, of a relay.
CandidateTypes == {"host", "srflx", "prflx", "relay"}

\* A pair or candidate that is not there.
Nothing == "null"

Transport == "transport"

DiagnosticsAssumption ==
    /\ DOMAIN LocalOf = Pairs /\ DOMAIN RemoteOf = Pairs
    /\ Nothing \notin Pairs \cup Candidates
    /\ \A c \in Candidates : TypeOf[c] \in CandidateTypes
    /\ MaxBytes \in Nat

VARIABLES
    state,     \* of each pair: "frozen", "checking", "succeeded", "failed"
    selected,  \* the pairs with the flag `selected`, which not every browser sets
    inUse,     \* the pair that was selected to carry the data
    sent,      \* bytes sent over each pair
    order,     \* the order of the pairs, and of the transport's entry if there is one
    shown      \* what parseStats returned

vars == <<state, selected, inUse, sent, order, shown>>

NoDiagnostics == [local |-> Nothing, remote |-> Nothing, nat |-> "unknown", bytes |-> 0]

\* The first of some pairs in the order of the report, or Nothing.
FirstOf(pairs) ==
    LET isOne(p) == p \in pairs
        at == SelectInSeq(order, isOne)
    IN  IF at = 0 THEN Nothing ELSE order[at]

\* Fault: a pair that succeeded goes before the one that is flagged.
ChosenSucceeded == FirstOf({p \in Pairs : state[p] = "succeeded"})

\* The pair that is flagged, else the first one that succeeded.
Chosen ==
    IF FirstOf(selected) # Nothing THEN FirstOf(selected)
    ELSE FirstOf({p \in Pairs : state[p] = "succeeded"})

InferNatType(l, r) ==
    CASE "relay" \in {l, r}             -> "symmetric-nat (TURN)"
      [] <<l, r>> = <<"srflx", "srflx">> -> "both-nat (hole-punch)"
      [] <<l, r>> = <<"srflx", "host">>  -> "local-nat"
      [] <<l, r>> = <<"host", "srflx">>  -> "remote-nat"
      [] <<l, r>> = <<"host", "host">>   -> "direct (no NAT)"
      [] OTHER                           -> "unknown"

Total == FoldFunction(+, 0, sent)

\* Pairs and the transport overwrite the bytes of each other, and the last of the report stays.
BytesSent ==
    CASE order = <<>>             -> 0
      [] Last(order) = Transport -> Total
      [] OTHER                    -> sent[Last(order)]

\* parseStats
ParseStats ==
    IF Chosen = Nothing THEN [NoDiagnostics EXCEPT !.bytes = BytesSent]
    ELSE [local  |-> LocalOf[Chosen], remote |-> RemoteOf[Chosen],
          nat    |-> InferNatType(TypeOf[LocalOf[Chosen]], TypeOf[RemoteOf[Chosen]]),
          bytes  |-> BytesSent]

Poll ==
    /\ shown' = ParseStats
    /\ UNCHANGED <<state, selected, inUse, sent, order>>

-----------------------------------------------------------------------------
(* The browser                                                             *)

Init ==
    /\ state = [p \in Pairs |-> "frozen"]
    /\ selected = {}
    /\ inUse = Nothing
    /\ sent = [p \in Pairs |-> 0]
    /\ order \in {<<>>, <<Transport>>}
    /\ shown = NoDiagnostics

\* A new pair is listed anywhere.
Form(p) ==
    /\ p \notin ToSet(order)
    /\ \E k \in 1..(Len(order) + 1) : order' = InsertAt(order, k, p)
    /\ UNCHANGED <<state, selected, inUse, sent, shown>>

Outcomes(s) ==
    CASE s = "frozen"    -> {"checking"}
      [] s = "checking"  -> {"succeeded", "failed"}
      [] s = "succeeded" -> {"failed"}
      [] OTHER           -> {}

\* A pair is checked, and one that succeeded may fail, the one in use included, which stays
\* in use, and flagged, until there is another one.
Check(p) ==
    /\ p \in ToSet(order)
    /\ \E s \in Outcomes(state[p]) : state' = [state EXCEPT ![p] = s]
    /\ UNCHANGED <<selected, inUse, sent, order, shown>>

\* The pair that is to carry the data is one that succeeded; some browsers flag it.
Select(p) ==
    /\ state[p] = "succeeded" /\ p # inUse
    /\ inUse' = p
    /\ selected' \in {{}, {p}}
    /\ UNCHANGED <<state, sent, order, shown>>

Carry ==
    /\ inUse # Nothing /\ state[inUse] = "succeeded" /\ sent[inUse] < MaxBytes
    /\ sent' = [sent EXCEPT ![inUse] = @ + 1]
    /\ UNCHANGED <<state, selected, inUse, order, shown>>

Next == Poll \/ Carry \/ \E p \in Pairs : Form(p) \/ Check(p) \/ Select(p)

Spec == Init /\ [][Next]_vars

-----------------------------------------------------------------------------

\* What the page gets to show is of the pair in use.
ShowsPairInUse ==
    shown' # shown => <<shown'.local, shown'.remote>> = <<LocalOf[inUse], RemoteOf[inUse]>>

\* In a browser that flags the selected pair, what the page shows is of that pair, wherever
\* it is listed, whatever else has succeeded, and also when it has failed by then.
FlaggedPairShown == selected # {} => ShowsPairInUse

FlaggedIsShown == [][FlaggedPairShown]_vars

\* "Mark the currently selected pair in IP lists" (client.html).  Without the flag the code
\* marks the first pair that succeeded.
SelectedPairShown == inUse # Nothing /\ shown'.local # Nothing => ShowsPairInUse

\* The path that is shown is that of the two addresses beside it, which may be of a pair
\* that failed or was replaced since: "direct" exactly if neither is translated nor relayed,
\* "TURN" exactly if one is relayed, and "unknown" exactly if neither is, but a peer saw one
\* of them first.
NatIsTrue ==
    shown.local # Nothing =>
        LET ends == {TypeOf[shown.local], TypeOf[shown.remote]}
        IN  /\ shown.nat = "direct (no NAT)" <=> ends = {"host"}
            /\ shown.nat = "symmetric-nat (TURN)" <=> "relay" \in ends
            /\ shown.nat = "unknown" <=> "prflx" \in ends /\ "relay" \notin ends

\* What the page shows of the path is true.
PathIsTrue == FlaggedIsShown /\ []NatIsTrue

\* "Always shows external IP (srflx), never LAN IP (host)" (client.js).
NeverLan == shown.local # Nothing => TypeOf[shown.local] # "host"

\* "Transport stats for bytes + packets" (client.js): the bytes are those of the transport,
\* if its entry is there.
BytesOfTransport == [][(Transport \in ToSet(order)) => shown'.bytes = Total]_shown

=============================================================================
