CONSTANTS
  Panel = {p1, p2, p3, p4}
  Phantom = phantom
  Anchor = anchor
  NULL = NULL
  Screens = {s1, s2}
  AllocFailure = TRUE
  Unfounded = {"show"}
  StrayOutlives = FALSE
SPECIFICATION Spec
INVARIANT PhantomAtBottom
