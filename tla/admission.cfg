SPECIFICATION Spec
CONSTANTS
  Stores <- OneStore
  Paths <- OneDatabase
  PathOf <- AllInOne
  MaxWrites = 4
  Window = 6
  Threshold = 1
  MaxTime = 6
  MaxAccepted = 6
INVARIANTS
  TypeOK
  RateIsBounded
  PacedIsAllowed
PROPERTIES
  BackpressureLifts
