SPECIFICATION Spec
CONSTANTS
  Stores <- TwoStores
  Paths <- TwoDatabases
  PathOf <- OneEach
  MaxWrites = 3
  Window = 1
  Threshold = 1
  MaxTime = 1
  MaxAccepted = 3
PROPERTY
  BacklogIsRespected
