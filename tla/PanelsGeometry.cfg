SPECIFICATION PanelSpec
CONSTANTS
  Checks <- MCChecks
  TargetOf <- MCTargetOf
  ColumnOf <- MCColumnOf
  MatrixColumns <- MCMatrixColumns
  RowWidth = 3
  StatusWidth = 1
  Columns = 2
  None = None
  Kinds = {"2in13"}
  Width = 6
  HeightOf <- OddHeightOf
  FontW = 2
  FontH = 2
  Shape <- MCShape
  Base = 2
  Bits = 2
  Offset = 1
  Mark <- GeometryMark
  Logo <- MCLogo
  Apps <- MCApps
  RefreshT = 3
  TimeoutT = 2
  SleepT = 1
  Watchdog = 1
  MaxDraws = 2
INVARIANTS
  PictureIsShown
CHECK_DEADLOCK FALSE
