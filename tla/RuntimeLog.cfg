SPECIFICATION LogSpec
CONSTANTS
  None = None
  Checks = {c1}
  Configs <- MCConfigs
  AliasOf <- MCAliasOf
  Details = {"d"}
  LogCapacity = 4
  ErrorCapacity = 2
  SummaryInterval = 2
  Retry = 2
  MaxNow = 2
  MaxOps = 3
INVARIANTS
  DumpTellsStatus
  SilenceIsShort
CHECK_DEADLOCK FALSE
