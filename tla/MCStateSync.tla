----------------------------- MODULE MCStateSync -----------------------------
(* Instances of StateSync for TLC.                                         *)
EXTENDS StateSync, TLC

CONSTANTS r1, r2

OneFile == {r1}
TwoFiles == {r1, r2}

FileSymmetry == Permutations(Rels)
=============================================================================
