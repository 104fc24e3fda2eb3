SPECIFICATION Spec
CONSTANTS
  H = 3
  V = 4
  SubArea <- TheSub
  Spots <- TheSpots
  Pictures <- ThePictures
  Programs <- ThePrograms
  Cases = {}
  MaxEdits = 2
INVARIANTS NothingLost VirtRecorded CursorInside
