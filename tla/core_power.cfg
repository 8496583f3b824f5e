SPECIFICATION CoreSpec
CONSTANTS
  nb_cores = 2
  Speed <- Speeds
  MaxWork = 3
  MaxRefreshes = 3
  MaxPlugs = 2
  MaxDrifts = 1
INVARIANTS
  
  FallbackBounded
CHECK_DEADLOCK FALSE
