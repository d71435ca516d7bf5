SPECIFICATION Spec
CONSTANTS
  c1 = c1
  c2 = c2
  c3 = c3
  Checks <- MCChecks
  HostOf <- MCHostOf
  None = None
  Due = 2
  Gap = 1
  Interval = 2
  ConnectT = 8
  LogoT = 1
  TestT = 1
  Watchdog = 8
  Quiet <- MCQuiet
  QuietT = 2
  LookupT = 1
  SessionT = 1
  MaxFaults = 1
INVARIANTS FedInTime StartupIsReported
PROPERTIES GapIsKept OfflineIsRetried
CHECK_DEADLOCK FALSE
