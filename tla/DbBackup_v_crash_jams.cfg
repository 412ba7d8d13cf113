CONSTANTS
  v1 = v1
  v2 = v2
  Volumes <- OneVolume
  Keep = 1
  MaxGen = 3
  MaxCommits = 1
  RestoreBoots = {"off"}
  LegacyDumps = 0
  Faults = {"crash"}
  MaxFaults = 1
SPECIFICATION Spec
INVARIANTS OneCycleLost
