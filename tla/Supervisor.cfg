CONSTANTS
  Budget = 2
  ForcedBudget = 1
  SyncTimeout = 1
  Setups <- RepresentativeSetups
  MaxStops = 2
SPECIFICATION FairSpec
INVARIANTS FlushesAlone FirstStopNeverForces FlushIsWhole ExitIsHonest
PROPERTIES EveryStopEnds OutageEndsContainer
CHECK_DEADLOCK FALSE
