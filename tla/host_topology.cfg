SPECIFICATION HostSpec
CONSTANTS
  Directories <- AllDirectories
  Core = {"cpu0", "cpu1"}
  physical_id <- PhysicalIds
  RaplMax = 1
  MaxEnergy = 2
INVARIANTS
  HostTypeOK
  PackagesFound
  HostEnergySound
CHECK_DEADLOCK FALSE
