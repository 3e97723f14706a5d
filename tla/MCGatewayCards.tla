---------------------------- MODULE MCGatewayCards ----------------------------
(***************************************************************************)
(* Small instances of GatewayCards.                                        *)
(***************************************************************************)
EXTENDS GatewayCards, TLC

CONSTANTS todo, final, b1, b2

BeatSymmetry == Permutations(Beat)
=============================================================================
