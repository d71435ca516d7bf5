SPECIFICATION Spec
CONSTANTS
  Checks <- MCChecks
  FromServices <- MCService
  PerPage = 2
  None = None
  MaxPresses = 2
  Slots = 2
INVARIANTS FrameIsConsistent SelectedIsVisible PressIsKept
PROPERTIES DetailKeepsCheck TourIsComplete
