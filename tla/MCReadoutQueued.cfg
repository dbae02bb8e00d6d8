SPECIFICATION ReadoutSpec
CONSTANTS
  Fix = {1, 2}
  Invalid = {}
  MayAge = {}
  Capacity = 1
  BatchLimit = 2
  Workers = {w1}
  Nobody = Nobody
  MaxCrashes = 0
INVARIANTS ZeroMeansEmpty
