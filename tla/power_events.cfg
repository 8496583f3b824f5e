SPECIFICATION Spec
VIEW View
CONSTANTS
  Domain = {core}
  Socket = package
  Draw = {0, 2}
  RaplMax = 3
  Delivered <- AnyEvents
  MayFail = {package}
  Back = 1
  MaxSince = 2
INVARIANTS
  TypeOK
  EnergyRecovered
  BackgroundMeasured
