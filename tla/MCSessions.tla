----------------------------- MODULE MCSessions -----------------------------
(***************************************************************************)
(* Instances of PeckSessions for TLC: the clients and the sessions that    *)
(* each may have.  Symmetry permutes the sessions of one client, which the *)
(* specification tells apart by their owner only.                          *)
(***************************************************************************)
EXTENDS PeckSessions, TLC

CONSTANTS alice, bob, a1, a2, b1

\* One client that may replace its session once.
OwnerPair == (a1 :> alice) @@ (a2 :> alice)

\* Two clients, of which the first may replace its session once.
OwnerTwo == (a1 :> alice) @@ (a2 :> alice) @@ (b1 :> bob)

SwapPair == Permutations({a1, a2})

=============================================================================
