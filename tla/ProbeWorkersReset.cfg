SPECIFICATION FairResetSpec
CONSTANTS
  Checks <- MCTwoChecks
  Hosts <- MCHosts
  HostOf <- MCOneHostOf
  AllowConcurrentHosts = TRUE
  AllowConcurrentSameHost = FALSE
  Threads = {t1}
  Main = mainLoop
  NoKey = NoKey
  NoRun = NoRun
  MaxBacklog = 1
  MaxFaults = 1
  MaxResets = 1
INVARIANTS NoStrandedCheck NotWedged
PROPERTIES DueIsProbed
