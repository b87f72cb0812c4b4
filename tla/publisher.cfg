SPECIFICATION FaultSpec
CONSTANTS
  MaxRows = 4
  Unpublishable = {2}
  Limit = 3
  MaxPkid = 2
  RequestCapacity = 2
  PubackCapacity = 1
  PendingCapacity = 1
  MaxFaults = 3
INVARIANTS
  TypeOK
  PublishedWasDelivered
  FirstDeliveryInOrder
  TrackerMatchesClient
PROPERTY
  EventuallyPublished
CHECK_DEADLOCK FALSE
