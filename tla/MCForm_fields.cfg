SPECIFICATION Spec
CONSTANTS
  Layouts <- PagesAndBreaks
  Cases = {}
INVARIANTS CurrentOnPage ShownIsPage
PROPERTY TypingEnds
