SPECIFICATION Spec
CONSTANTS
  Kbytes = {0, 1, 2, 66, 8192}
  MaxReadings = 50
INVARIANTS
  TypeOK
  SizeBounded
  TwoNewestKept
