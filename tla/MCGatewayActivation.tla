------------------------ MODULE MCGatewayActivation ------------------------
(***************************************************************************)
(* TLC instance of GatewayActivation.                                      *)
(***************************************************************************)
EXTENDS GatewayActivation, TLC

CONSTANTS r1, r2, r3

TwoRuntimes == {r1, r2}
ThreeRuntimes == {r1, r2, r3}

(* Attempts are interchangeable.                                           *)
RuntimeSymmetry == Permutations(Runtimes)
=============================================================================
