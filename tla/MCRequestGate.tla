--------------------------- MODULE MCRequestGate ---------------------------
(* Instances of RequestGate for TLC.                                       *)
EXTENDS RequestGate, TLC

CONSTANTS c1, c2

ClientSymmetry == Permutations({c1, c2})
=============================================================================
