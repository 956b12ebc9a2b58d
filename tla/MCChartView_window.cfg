CONSTANTS
  MinZoom = 4
  MaxZoom = 13
  FirstZoom = 8
  Columns = 3
  Sizes <- Loads
SPECIFICATION ChartSpec
INVARIANTS
  BlankNeedsCause
  ReadoutOnScreen
