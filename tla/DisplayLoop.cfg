SPECIFICATION Spec
CONSTANTS
  c1 = c1
  c2 = c2
  Checks <- MCChecks
  None = None
  Torn = Torn
  CyclesPerRefresh = 1
  MinInterval = 2
  RefreshInterval = 1
  BackoffCap = 2
  MaxDisplayFailures = 2
  MaxLoopFailures = 2
  Slots = 2
  MaxTime = 3
  MaxProbes = 2
  MaxFailures = 2
INVARIANTS PanelIsCurrent ChangeIsKnown StaleOnlyWhileGated
PROPERTIES RefreshesAreSpaced
CHECK_DEADLOCK FALSE
SYMMETRY Symmetry
