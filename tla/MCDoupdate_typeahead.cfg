CONSTANTS
  Glyphs = {"sp","a"}
  Colours = {0,1}
  Setups <- Left
  TypeAhead = TRUE
  CheckInterval = 1
  LastColumn = FALSE
  RedrawPending = FALSE
  MaxWrites = 1
  Junk = "a"
  Space = "sp"
  Blank <- Sp
SPECIFICATION FairSpec
INVARIANTS Covered
PROPERTIES Returns
