SPECIFICATION Spec
CONSTANTS
  LiveSeconds = 1
  StaleSeconds = 2
  Second = 1
  Devices = {d1, d2}
  Stamps = {1}
  MaxTime = 1
  MaxFixes = 2
SYMMETRY DeviceSymmetry
INVARIANTS NoGaps
