SPECIFICATION FairSpec
CONSTANTS
  Fix = {1, 2}
  Invalid = {2}
  MayAge = {}
  Capacity = 2
  BatchLimit = 1
  Workers = {w1}
  Nobody = Nobody
  MaxCrashes = 1
PROPERTIES EventuallyLeaves
