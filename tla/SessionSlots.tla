---------------------------- MODULE SessionSlots ----------------------------
(***************************************************************************)
(* What the daemon promises each client key (docs/PROTOCOL.md, "Session    *)
(* Lifecycle"; docs/ACCESS_CONTROL.md, "Terms of Service Challenge"): one  *)
(* slot, which a new announce takes over at any time, which is offered a   *)
(* tunnel only after the terms were accepted where the rule has terms, and *)
(* which is given up through a closing phase once a peer connection        *)
(* exists.  PeckSessions is shown to implement this module.                *)
(***************************************************************************)
CONSTANT Clients

VARIABLE slot

Phases == {"free", "gated", "pending", "up", "ending"}

Move(c, from, to) == slot[c] \in from /\ slot' = [slot EXCEPT ![c] = to]

Init == slot = [c \in Clients |-> "free"]

\* An announce that needs no terms, or one that does.
Admit(c) == Move(c, Phases, "pending")
Challenge(c) == Move(c, Phases, "gated")

\* The client accepts the terms in time, or does not.
Accept(c) == Move(c, {"gated"}, "pending")
Expire(c) == Move(c, {"gated"}, "free")

\* The tunnel comes up, ends, and is released.
Establish(c) == Move(c, {"pending"}, "up")
End(c) == Move(c, {"pending", "up"}, "ending")
Release(c) == Move(c, {"ending"}, "free")

Next ==
    \E c \in Clients :
        \/ Admit(c) \/ Challenge(c) \/ Accept(c) \/ Expire(c)
        \/ Establish(c) \/ End(c) \/ Release(c)

Spec == Init /\ [][Next]_slot

=============================================================================
