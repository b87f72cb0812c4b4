SPECIFICATION StatusSpec
CONSTANTS
  Command <- StatusCommands
  IdemKey <- StatusIdem
  Key <- OneKey
  None = None
  Garbage = {}
  I64Max = 3
  MaxMessages = 3
  MaxInflight = 1
  ChannelCapacity = 1
  BatchSize = 2
  WatchdogEnabled = TRUE
  r1 = r1
  r2 = r2
  Requests = {r1, r2}
  GeneratedKeys = {"u1"}
  MaxTries = 3
SYMMETRY Symmetry
INVARIANTS
  TypeOK
  AckedIsSettled
  OneEventPerKey
  AppliedIsDurable
  AppliedIsVisible
CHECK_DEADLOCK FALSE
