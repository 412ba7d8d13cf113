CONSTANTS
  r1 = r1
  r2 = r2
  Rels <- TwoFiles
  Layouts = {"fresh", "legacy", "inherited"}
  MaxWrites = 2
  Faults = {"put", "landed", "list", "local", "resize", "abort", "crash", "wipe"}
  MaxFaults = 2
SPECIFICATION Spec
SYMMETRY FileSymmetry
INVARIANTS ManifestHeld AckedIsRestorable SkipsAreHeld
