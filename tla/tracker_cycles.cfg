SPECIFICATION Spec
CONSTANTS
  Pid = {p1, p2}
  Comm = {sh, ls}
  max_records_per_process = 2
  MaxClock = 2
  top = 1
  nb_cores = 2
  Usages = {0, 50, 100}
  Loads = {0, 75}
  NoProcess = NoProcess
SYMMETRY Symmetric
INVARIANTS
  UniquePid
  OneHistory
  HeadIsCurrent
  VectorsBounded
  TopConsumersSound
