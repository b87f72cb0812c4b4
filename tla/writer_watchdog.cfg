SPECIFICATION FairSpec
CONSTANTS
  Command <- TwoCommands
  IdemKey <- TwoIdem
  Key <- OneKey
  None = None
  Garbage = {}
  I64Max = 15
  MaxMessages = 3
  MaxInflight = 2
  ChannelCapacity = 1
  BatchSize = 2
  WatchdogEnabled = TRUE
PROPERTY
  WatchdogUnblocks
