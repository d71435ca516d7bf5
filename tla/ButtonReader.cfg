SPECIFICATION ButtonSpec
CONSTANTS
  Never = Never
  Debounce = 2
  Repeat = 2
  MaxTime = 10
INVARIANTS StepsMatchHold HeldPressIsReported
