SPECIFICATION Spec
CONSTANTS
  Cpu = {c1, c2}
  Workers = {w1, w2}
  Thread = {w1, w2, t}
  many = many
  single = single
  Tgid = {many, single}
  TgidOf <- Processes
  Swapper = Swapper
  MaxKeys = 2
  LoadTime = 1
  MaxNow = 2
  MaxTime = 1
SYMMETRY Symmetry
INVARIANTS
  TypeOK
  BusyTimeSound
  BusyTimeComplete
  ShareAtMostOne
PROPERTIES
  CountersSpec
CHECK_DEADLOCK FALSE
