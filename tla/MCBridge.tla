------------------------------ MODULE MCBridge ------------------------------
(***************************************************************************)
(* RelayBridge with three clients: alice, who may reconnect, asks for bob, *)
(* and the session of carol may start the search; or bob asks for carol,   *)
(* too, and nobody reconnects.                                             *)
(***************************************************************************)
EXTENDS RelayBridge

CONSTANTS alice, bob, carol, a1, a2, b1, c1

MCOwner == [s \in Sessions |-> IF s \in {a1, a2} THEN alice ELSE IF s = b1 THEN bob ELSE carol]

OneRequest == {<<alice, bob>>}

Chain == {<<alice, bob>>, <<bob, carol>>}

=============================================================================
