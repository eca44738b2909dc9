------------------------------ MODULE MCWorker ------------------------------
(***************************************************************************)
(* Instances of ServiceWorker for TLC: two page loads, the first of which  *)
(* connects twice, and requests with and without a body.                   *)
(***************************************************************************)
EXTENDS ServiceWorker, TLC

CONSTANTS p1, p2, q1, q2, q3, r1, r2

PortOwners == (q1 :> p1) @@ (q2 :> p1) @@ (q3 :> p2)

=============================================================================
