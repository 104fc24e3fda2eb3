CONSTANTS
    Heights <- TwoHeights
    Rips <- SomeRips
    MaxHandlers = 2
    Cases = {}
SPECIFICATION Spec
INVARIANT ModesApart StopsItself ResizeNoticed ScreenFitsAwake
