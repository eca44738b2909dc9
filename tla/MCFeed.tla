------------------------------- MODULE MCFeed -------------------------------
(***************************************************************************)
(* RelayFeed with two relays and three events, and a memory of two of them *)
(* that keeps one when it overflows.                                       *)
(***************************************************************************)
EXTENDS RelayFeed

=============================================================================
