SPECIFICATION Spec
CONSTANTS
  Cpu = {c1, c2}
  Workers = {w1, w2}
  Thread = {w1, w2}
  many = many
  single = single
  Tgid = {many}
  TgidOf <- Processes
  Swapper = Swapper
  MaxKeys = 2
  LoadTime = 1
  MaxNow = 3
  MaxTime = 2
SYMMETRY Symmetry
INVARIANTS
  CpuTimeIsBusyTime
CHECK_DEADLOCK FALSE
