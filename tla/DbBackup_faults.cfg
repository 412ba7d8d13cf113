CONSTANTS
  v1 = v1
  v2 = v2
  Volumes <- TwoVolumes
  Keep = 1
  MaxGen = 4
  MaxCommits = 3
  RestoreBoots = {"off", "empty"}
  LegacyDumps = 1
  Faults = {"put", "delete", "get", "local", "sidecar", "crash", "wipe"}
  MaxFaults = 3
SPECIFICATION Spec
SYMMETRY VolumeSymmetry
INVARIANTS TypeOK ManifestNeverDangles SkipOnlyWhenBackedUp NoEmptyBackup
PROPERTIES PublishedNeverShrinks
