CONSTANTS
  Keys = {"e","l","u"}
  Keymap <- DeleteMap
  MayDisable <- UpOnly
  Size = 3
  Programs <- UsualPrograms
  MaxQueue = 2
SPECIFICATION FairSpec
INVARIANTS InOrder BlockingWaits ModeKept
PROPERTIES NoMissedSymbol Answers
