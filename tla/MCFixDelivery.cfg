SPECIFICATION Spec
CONSTANTS
  Fix = {1, 2}
  Invalid = {2}
  MayAge = {1}
  Capacity = 1
  BatchLimit = 2
  Workers = {w1, w2}
  Nobody = Nobody
  MaxCrashes = 2
SYMMETRY WorkerSymmetry
CONSTRAINT OneAfterDeath
INVARIANTS TypeOK AnswersMatch WithinCapacity
PROPERTIES ImplementsTrail
