SPECIFICATION Spec
CONSTANTS
  Pid = {p1, p2}
  nb_cores = 2
  Modulus = 16
  MaxWork = 4
  MaxRefreshes = 3
  MaxChanges = 2
SYMMETRY Symmetric
INVARIANTS
  ChargedForRunTime
  SharesBounded
CHECK_DEADLOCK FALSE
