CONSTANTS
  WorkerCount = 2
  Chains <- MCChains
  MeasurementSize = 2
  Rounds = 3
  MaxPending = 3
SPECIFICATION Spec
INVARIANTS
  TypeOK
  LatestMeasurements
PROPERTY Recovers
CHECK_DEADLOCK FALSE
