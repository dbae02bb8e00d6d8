SPECIFICATION Spec
CONSTANTS
  LiveSeconds = 1
  StaleSeconds = 2
  Second = 1
  Devices = {d1, d2}
  Stamps = {1, 2}
  MaxTime = 3
  MaxFixes = 2
SYMMETRY DeviceSymmetry
INVARIANTS NoGapsInOrder WordsAreTrue
PROPERTIES IdsMonotone
