SPECIFICATION Spec
CONSTANTS
  Direct <- MCDirect
  Services <- MCServices
  ChildrenOf <- MCChildrenOf
  FailuresToDegraded = 2
  FailuresToFailed = 3
  SuccessesToRecover = 2
  NoSource = NoSource
  MaxStreak = 4
INVARIANTS OutageIsShown ChildrenAreCurrent
PROPERTIES OutageIsEarned RecoveryIsEarned
