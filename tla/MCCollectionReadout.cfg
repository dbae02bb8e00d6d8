SPECIFICATION ReadoutSpec
CONSTANTS
  Fix = {1, 2}
  Invalid = {2}
  MayAge = {1}
  Capacity = 1
  BatchLimit = 2
  Workers = {w1}
  Nobody = Nobody
  MaxCrashes = 1
INVARIANTS NoSilentLoss DeliveredIsStored
