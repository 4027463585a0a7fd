\* Small layouts over buffers of 8 and 12 elements, and launches over these.
SPECIFICATION Spec
CONSTANTS
  a = a
  b = b
  Wrap = 128
  Lens = {8, 12}
  Tensors = {a, b}
  Views <- SmallViews
  TileSizes = {0, 1, 2}
  Grids <- SmallGrids
  Pads <- SmallPads
INVARIANTS TilesApart RectIsView ItemsApart
CHECK_DEADLOCK FALSE
