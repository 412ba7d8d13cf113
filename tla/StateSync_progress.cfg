CONSTANTS
  r1 = r1
  r2 = r2
  Rels <- OneFile
  Layouts = {"fresh", "legacy", "inherited"}
  MaxWrites = 2
  Faults = {"put", "landed", "resize", "race", "lose", "get", "list", "local", "garble", "abort", "crash", "wipe"}
  MaxFaults = 3
SPECIFICATION FairSpec
INVARIANTS CacheIsCurrent LossIsRecorded
PROPERTIES EventuallySynced
