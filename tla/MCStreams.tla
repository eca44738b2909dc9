------------------------------ MODULE MCStreams ------------------------------
(***************************************************************************)
(* Instances of StreamMux for TLC: three requests and two stream ids, so   *)
(* that ids wrap, of which one has a body that fits into no frame.         *)
(***************************************************************************)
EXTENDS StreamMux, TLC

CONSTANTS r1, r2, r3

=============================================================================
