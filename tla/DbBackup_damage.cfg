CONSTANTS
  v1 = v1
  v2 = v2
  Volumes <- TwoVolumes
  Keep = 2
  MaxGen = 3
  MaxCommits = 2
  RestoreBoots = {"off", "empty", "any"}
  LegacyDumps = 1
  Faults = {"corrupt", "clock", "garble", "landed", "crash", "lose", "get", "settings"}
  MaxFaults = 2
SPECIFICATION Spec
SYMMETRY VolumeSymmetry
INVARIANTS LineageIsProof
PROPERTIES RestoreNeverDowngrades NeverFreshOverBackups
