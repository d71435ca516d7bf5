SPECIFICATION PanelSpec
CONSTANTS
  Checks <- MCChecks
  TargetOf <- MCTargetOf
  ColumnOf <- MCColumnOf
  MatrixColumns <- MCMatrixColumns
  RowWidth = 3
  StatusWidth = 1
  Columns = 2
  None = None
  Kinds = {"sh1107", "ssd1305", "st77xx", "213b", "2in13", "2in7v2", "3in7", "2in7", "4in2", "4in2v2", "tricolor"}
  Width = 6
  HeightOf <- MCHeightOf
  FontW = 2
  FontH = 2
  Shape <- MCShape
  Base = 2
  Bits = 2
  Offset = 1
  Mark <- MCMark
  Logo <- MCLogo
  Apps <- MCApps
  RefreshT = 3
  TimeoutT = 2
  SleepT = 1
  Watchdog = 1
  MaxDraws = 2
INVARIANTS
  GlassShowsState
  WatchdogIsFed
CHECK_DEADLOCK FALSE
