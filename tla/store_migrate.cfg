SPECIFICATION Spec
CONSTANTS
  Command <- SomeCommands
  Manifest <- SomeManifests
  Bucket <- TwoBuckets
  MaxApplied = 3
  MaxFaults = 2
INVARIANTS
  TypeOK
  LatestStateWins
  DivergentNeverMerged
  FloorMatchesRow
  RetriesStayDuplicates

  
CHECK_DEADLOCK FALSE
