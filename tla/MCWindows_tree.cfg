CONSTANTS
  Window = {w1, w2, w3}
  NULL = NULL
  Lines = 3
  Cols = 2
  Heights = {0, 1, 2}
  Widths = {1, 2}
  Tops = 1
  Cases = {}
SPECIFICATION Spec
INVARIANTS SubsInside LinesInStorage ShowsParent SharesRecord RowsApart
SYMMETRY Symmetry
