SPECIFICATION LoopFairSpec
CONSTANTS
  Container = {c1}
  Pod = {p1}
  Resolution = 2
  PodsPeriod = 1
  MaxTime = 4
  MaxMoves = 2
  Step = 1
  Limits = {1}
  MaxRefreshes = 3
INVARIANTS
  ContainersLabelled
  PodsLabelled
  ReportsKept
PROPERTIES
  LimitKept
CHECK_DEADLOCK FALSE
