SPECIFICATION FaultSpec
CONSTANTS
  Command <- ThreeCommands
  IdemKey <- TwoIdem
  Key <- OneKey
  None = None
  Garbage = {garbage}
  I64Max = 15
  MaxMessages = 3
  MaxInflight = 2
  ChannelCapacity = 2
  BatchSize = 2
  WatchdogEnabled = FALSE
  MaxFaults = 1
INVARIANTS
  NoVersionRegression
  RowsReplayOutbox
PROPERTIES
  CommitIsAtomic
  HeldIsAcked
  RestartDrains
  ImplementsCommandLog
CHECK_DEADLOCK FALSE
