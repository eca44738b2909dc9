------------------------------ MODULE MCConnect ------------------------------
(***************************************************************************)
(* Instances of ClientConnect for TLC: two relays, and three offers of     *)
(* which the first arrives twice.                                          *)
(***************************************************************************)
EXTENDS ClientConnect, TLC

CONSTANTS r1, r2, a1, a2, a3, o1, o2

\* The first offer came through two relays, the second is of another session.
TwoSessions == (a1 :> o1) @@ (a2 :> o1) @@ (a3 :> o2)

\* The first has candidates of both families, the second only of one.
OfferFamilies == (o1 :> {"ipv4", "ipv6"}) @@ (o2 :> {"ipv6"})

=============================================================================
