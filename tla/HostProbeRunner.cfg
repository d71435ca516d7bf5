SPECIFICATION Spec
CONSTANTS
  Checks <- MCChecks
  HostOf <- MCHostOf
  TypeOf <- MCTypeOf
  IdPlace <- MCIdPlace
  Results <- MCResults
  None = "none"
  Rounds <- MCRounds
  MaxExperiments = 2
INVARIANTS BoundaryIsTrue
PROPERTIES BlockedHostIsLeftAlone
