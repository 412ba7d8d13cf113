CONSTANTS
  c1 = c1
  c2 = c2
  c3 = c3
  Conns <- ThreeConns
  Nobody = Nobody
  MaxConns = 2
  ReadTimeout = 2
  ProbeTimeout = 2
  Ttl = 2
  HealthTimeout = 4
  Failures = TRUE
SPECIFICATION Spec
SYMMETRY ConnSymmetry
INVARIANTS SlotsAreGivenBack HealthcheckIsHonest
PROPERTIES VerdictsAreRecent ProbesAreSpaced
