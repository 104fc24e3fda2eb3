CONSTANTS
  Glyphs = {"sp","a"}
  Colours = {0,1}
  Setups <- Screens
  TypeAhead = FALSE
  CheckInterval = 1
  LastColumn = FALSE
  RedrawPending = FALSE
  MaxWrites = 2
  Junk = "a"
  Space = "sp"
  Blank <- Sp
SPECIFICATION Spec
INVARIANTS TerminalIsCurscr CursorKnown Covered
PROPERTIES UpdateShows
CHECK_DEADLOCK FALSE
