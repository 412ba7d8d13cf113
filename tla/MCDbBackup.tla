----------------------------- MODULE MCDbBackup -----------------------------
(* Instances of DbBackup for TLC.                                          *)
EXTENDS DbBackup, TLC

CONSTANTS v1, v2

OneVolume == {v1}
TwoVolumes == {v1, v2}

VolumeSymmetry == Permutations(Volumes)
=============================================================================
