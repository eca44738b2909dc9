------------------------------- MODULE MCPage -------------------------------
(***************************************************************************)
(* An instance of ClientPage for TLC: three attempts, one address, a limit *)
(* on the reconnects in a row, and one open dialog at a time for each of   *)
(* the first two attempts.                                                 *)
(***************************************************************************)
EXTENDS ClientPage, TLC

CONSTANTS a1, a2, a3

FewDialogs == [a \in Attempts |-> IF a = a3 THEN 0 ELSE 1]

=============================================================================
