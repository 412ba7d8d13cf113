CONSTANTS
  v1 = v1
  v2 = v2
  Volumes <- OneVolume
  Keep = 2
  MaxGen = 6
  MaxCommits = 2
  RestoreBoots = {"off", "empty"}
  LegacyDumps = 1
  Faults = {"put", "delete", "local", "clear"}
  MaxFaults = 3
SPECIFICATION FairSpec
PROPERTIES BackupProgress
