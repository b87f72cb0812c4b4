SPECIFICATION Spec
CONSTANTS
  MaxRows = 4
  Limit = 2
  ConfiguredCapacity = 1
  DefaultCapacity = 2
  MaxBreaks = 1
INVARIANTS
  TypeOK
  OrderedOnce
  NothingSkipped
  EndIsExplained
PROPERTIES
  EventsArrive
CHECK_DEADLOCK FALSE
