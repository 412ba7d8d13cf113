-------------------------------- MODULE MCGate --------------------------------
(* Instances of Gate for TLC.                                              *)
EXTENDS Gate, TLC

CONSTANTS c1, c2, c3

ThreeConns == {c1, c2, c3}
ConnSymmetry == Permutations(ThreeConns)
=============================================================================
