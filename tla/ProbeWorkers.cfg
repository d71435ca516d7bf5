SPECIFICATION Spec
CONSTANTS
  Checks <- MCChecks
  Hosts <- MCHosts
  HostOf <- MCHostOf
  AllowConcurrentHosts = TRUE
  AllowConcurrentSameHost = FALSE
  Threads = {t1}
  Main = mainLoop
  NoKey = NoKey
  NoRun = NoRun
  MaxBacklog = 1
  MaxFaults = 1
  MaxResets = 0
INVARIANTS TypeOK NoOverlap SingleFlight NoLostResult
PROPERTY ImplementsLifecycle
