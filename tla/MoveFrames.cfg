SPECIFICATION Spec
CONSTANTS
    Frames = {f1, f2, f3}
    MaxSize = 6
    End = End
INVARIANTS
    FramesKept
    RightPositions
PROPERTIES
    LoopEnds
CHECK_DEADLOCK FALSE
