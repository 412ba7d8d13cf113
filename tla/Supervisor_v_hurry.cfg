CONSTANTS
  Budget = 2
  ForcedBudget = 1
  SyncTimeout = 1
  Setups <- RepresentativeSetups
  MaxStops = 2
SPECIFICATION Spec
INVARIANT HurryNeverProlongs
CHECK_DEADLOCK FALSE
