--------------------------- MODULE TunnelRequests ---------------------------
(***************************************************************************)
(* What the tunnel promises the page that calls request() on it            *)
(* (browser/src/client.js): every request is settled exactly once, by the  *)
(* response to that very request or by an error.  The promise of the right *)
(* response holds while it is exact; StreamMux, which is shown to          *)
(* implement this module, says when that is.                               *)
(***************************************************************************)
CONSTANT Requests

VARIABLES outcome, exact

vars == <<outcome, exact>>

Init ==
    /\ outcome = [r \in Requests |-> "unasked"]
    /\ exact = TRUE

Become(r, from, to) ==
    /\ outcome[r] \in from
    /\ outcome' = [outcome EXCEPT ![r] = to]

\* The page asks; what it asks may end the exactness, for good.
Ask(r) == Become(r, {"unasked"}, "waiting") /\ (exact' => exact) /\ exact' \in BOOLEAN

Own(r) == Become(r, {"waiting"}, "own") /\ UNCHANGED exact
Other(r) == ~exact /\ Become(r, {"waiting"}, "other") /\ UNCHANGED exact
Fail(r) == Become(r, {"unasked", "waiting"}, "failed") /\ UNCHANGED exact

Settle(r) == outcome[r] = "waiting" /\ (Own(r) \/ Other(r) \/ Fail(r))

Next == \E r \in Requests : Ask(r) \/ Own(r) \/ Other(r) \/ Fail(r)

\* Nobody who asked waits for ever.
Spec == Init /\ [][Next]_vars /\ \A r \in Requests : WF_vars(Settle(r))

=============================================================================
