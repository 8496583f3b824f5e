SPECIFICATION TickFairSpec
CONSTANTS
  MaxCpu = 4
  MaxSocket = 3
  Online = {0, 1, 3}
  PackageOf <- SparsePackages
  RingSize = 1
  MaxWork = 1
INVARIANTS
  TickTypeOK
  NoWorkOverlooked
PROPERTIES
  IdleReported
