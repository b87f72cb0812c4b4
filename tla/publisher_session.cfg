SPECIFICATION LossySpec
CONSTANTS
  MaxRows = 2
  Unpublishable = {}
  Limit = 2
  MaxPkid = 2
  RequestCapacity = 1
  PubackCapacity = 1
  PendingCapacity = 1
INVARIANT
  PublishedWasDelivered
