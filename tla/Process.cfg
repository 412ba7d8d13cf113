CONSTANTS
  p1 = p1
  p2 = p2
  p3 = p3
  Pids <- TwoPids
  Threads = {"main", "maintenance"}
  MaxSpawns = 2
  MaxOrphans = 1
SPECIFICATION FairSpec
INVARIANTS TypeOK RegistrationIsLiveness SpawnKeepsItsChild VerdictsAreTrue NoRunLeavesItsChild
PROPERTIES SignalsReachChildren ExitsAreDelivered ZombiesAreReaped
