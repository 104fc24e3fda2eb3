SPECIFICATION Spec
CONSTANTS
  Items = {1, 2, 3, 4, 5}
  Name <- Names
  Selectable = {2, 4}
  Valued = {2}
  Arrays <- FourOrTwo
  Formats <- LongOrWide
  Options <- Usually
  Patterns <- OnePattern
  Typed = {"b"}
  Height = 2
  Width = 11
  MarkLength = 1
  MaxCalls = 2
  Cases = {}
INVARIANTS Linked Shown PagesLand
