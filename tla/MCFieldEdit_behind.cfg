SPECIFICATION Spec
CONSTANTS
  Kinds <- MCKinds
  Texts <- MCTexts
  Letters = {"a"}
  Blank = " "
  Return = "r"
  MaxText = 5
  Cases = {"behind"}
INVARIANT CursorShown
